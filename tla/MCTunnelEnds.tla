----------------------------- MODULE MCTunnelEnds -----------------------------
(* The two ends of a tunnel's life, each in a scene of its own, chosen at the *)
(* start: the server's session with its data connections, and on the client's *)
(* side the daemons of one type and port.                                     *)
EXTENDS MCTunnelSession, Daemons

VARIABLE scene

\* Process names are exchangeable: one process has the first number.  Where no
\* daemon runs their parameters have one value.
MCInit ==
    /\ Init /\ DInit /\ scene \in {"server", "daemons"}
    /\ pid[CHOOSE p \in Proc : TRUE] = 1
    /\ scene # "daemons" => stops = {} /\ \A p \in Proc : pid[p] = 1

MCNext ==
    /\ \/ scene = "server" /\ Next /\ UNCHANGED dvars
       \/ scene = "daemons" /\ DaemonStep /\ UNCHANGED vars
    /\ scene' = scene

MCSpec ==
    /\ MCInit /\ [][MCNext]_<<vars, dvars, scene>>
    /\ Fairness /\ DaemonFairness
=============================================================================
