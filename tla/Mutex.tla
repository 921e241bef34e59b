-------------------------------- MODULE Mutex --------------------------------
(***************************************************************************)
(* What the run lock promises: at most one run at a time is inside.  A run *)
(* that does not get in gives up at once, so nothing is promised to it.    *)
(***************************************************************************)
CONSTANT Proc
VARIABLE inside

Init == inside = {}
Enter(p) == inside = {} /\ inside' = {p}
Leave(p) == p \in inside /\ inside' = inside \ {p}
Next == \E p \in Proc : Enter(p) \/ Leave(p)
Spec == Init /\ [][Next]_inside
===============================================================================
