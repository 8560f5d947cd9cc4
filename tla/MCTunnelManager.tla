--------------------------- MODULE MCTunnelManager ---------------------------
(***************************************************************************)
(* Instances of TunnelManager for TLC.  Names: "c1" and "c2" are custom    *)
(* names, "r1" one the generator may also draw, "long" the fallback, "www" *)
(* reserved and "-" invalid.                                               *)
(***************************************************************************)
EXTENDS TunnelManager, TLC

CONSTANTS s1, s2, s3

\* s3 has no address, s1 and s2 share one.
Interchangeable == Permutations({s1, s2})

Names        == {"c1", "r1", "long", "www"}
AnyName      == {"c1", "r1", "www", NoName}
Draws        == {"r1", "www"}
Fallback     == {"long"}
ReservedName == {"www"}
OneShard     == [n \in Names |-> 1]
TwoShards    == [n \in Names |-> IF n = "c1" THEN 1 ELSE 2]

\* The server registers without an address ...
NoAddress    == [s \in Session |-> NoIP]
\* ... the manager's other callers may give one.
SharedIP     == [s \in Session |-> IF s = s3 THEN NoIP ELSE "ip"]
IPs          == {"ip"}
AnyRequest   == {"c1", "r1", NoName}
Nobody       == {}
=============================================================================
