--------------------------- MODULE MCTunnelSession ---------------------------
(***************************************************************************)
(* Instances of TunnelSession for TLC: TCP tunnels t1 (any port) and t2    *)
(* (whose name asks for port 1), the HTTP tunnel h, which wants the name   *)
(* of the other port, and a data connection d1 of t1.                      *)
(***************************************************************************)
EXTENDS TunnelSession

CONSTANTS t1, t2, h, d1

Ports    == {1, 2}
Names    == {"tcp-1", "tcp-2"}
TcpNames == [p \in Ports |-> IF p = 1 THEN "tcp-1" ELSE "tcp-2"]
Wants    == [c \in Primary |-> CASE c = t1 -> None [] c = t2 -> "tcp-1" [] c = h -> "tcp-2"]
JoinsT1  == [d \in Data |-> t1]

\* A bound: no run has both the data connection and the tunnels t2 or h.
OneCrowd == pc[d1] = "none" \/ (pc[t2] = "none" /\ pc[h] = "none")
=============================================================================
