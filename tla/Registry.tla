------------------------------- MODULE Registry -------------------------------
(***************************************************************************)
(* What the tunnel registry (internal/server/tunnel/manager.go) promises   *)
(* its callers: Manager.RegisterWithIP and Manager.Unregister as if each   *)
(* were one step on a table of names.  A name is taken when it is free, by *)
(* a session that has none, while fewer than Limit names are taken, and    *)
(* only its holder gives it back.                                          *)
(*                                                                         *)
(* The promise is kept while calm: until a drawn name replaces a tunnel,   *)
(* the cleanup removes one, or Shutdown begins.  What is left after that   *)
(* is that a session holds one name at most.                               *)
(***************************************************************************)
EXTENDS Integers, FiniteSets

CONSTANTS Session, Name, Limit, None

VARIABLES
    owner,   \* name -> the session that holds it, or None
    calm

Taken == {n \in Name : owner[n] # None}

Injective(f) == \A m, n \in Name : f[m] = f[n] /\ f[m] # None => m = n

Init == owner = [n \in Name |-> None] /\ calm = TRUE

Take(s, n) ==
    /\ calm /\ owner[n] = None
    /\ \A m \in Name : owner[m] # s
    /\ Cardinality(Taken) < Limit
    /\ owner' = [owner EXCEPT ![n] = s]
    /\ UNCHANGED calm

Give(n) ==
    /\ calm /\ owner[n] # None
    /\ owner' = [owner EXCEPT ![n] = None]
    /\ UNCHANGED calm

Unrest ==
    /\ calm' = FALSE
    /\ owner' \in [Name -> Session \cup {None}] /\ Injective(owner')

Next ==
    \/ \E s \in Session, n \in Name : Take(s, n)
    \/ \E n \in Name : Give(n)
    \/ Unrest

Spec == Init /\ [][Next]_<<owner, calm>>
=============================================================================
