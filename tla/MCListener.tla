------------------------------ MODULE MCListener ------------------------------
(***************************************************************************)
(* Instances of Listener for TLC: TCP connections have the key of their    *)
(* own address and port, WebSocket tunnels the address of their client, so *)
(* two of one host share it.                                               *)
(***************************************************************************)
EXTENDS Listener, TLC

CONSTANTS t1, t2, t3, w1, w2

OneHost  == [c \in Conn |-> IF c \in WS THEN "host" ELSE c]
=============================================================================
