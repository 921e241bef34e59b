------------------------------- MODULE TaskBond -------------------------------
(***************************************************************************)
(* What the sync engine promises about homework and tasks, without passes, *)
(* calls or failures: a task is created only for a homework that has none  *)
(* and for which a create is on record; it is a new one; and from then on  *)
(* the homework is owed or bound to this task until the task is gone.      *)
(***************************************************************************)
EXTENDS Naturals

CONSTANTS Homework, None

VARIABLES
  have,    \* the task of each homework, or None
  bond,    \* "bound" to it; "owed" if a create or retry is on record; or "free"
  doubt,   \* the homework about whose task Vikunja has misled the engine; at any time
  given    \* ids are handed out in order: the last one

vars == <<have, bond, doubt, given>>

Init ==
  /\ have = [h \in Homework |-> None]
  /\ bond = [h \in Homework |-> "free"]
  /\ doubt = {} /\ given = 0

\* Without a task, work is put on record and taken off it.
Record(h) == have[h] = None /\ have'[h] = None /\ bond'[h] \in {"free", "owed"}

\* The task that was owed; at first only the record tells of it.
Create(h) ==
  /\ have[h] = None /\ bond[h] = "owed"
  /\ given' = given + 1 /\ have'[h] = given' /\ bond'[h] = "owed"

Bind(h) == have[h] # None /\ have'[h] = have[h] /\ bond'[h] = "bound"

\* A person or the close policy deletes the task.
Lose(h) == have[h] # None /\ have'[h] = None /\ bond'[h] \in {"free", "owed"}

\* The task lives, but a wrong answer has it let go.
Forget(h) ==
  have[h] # None /\ have'[h] = have[h] /\ h \in doubt' /\ bond'[h] \in {"free", "owed"}

Stay(h) == have'[h] = have[h] /\ bond'[h] = bond[h]

\* Reconciliation binds many homework in one transaction; a task is created for one.
Next ==
  /\ \A g, h \in Homework : Create(g) /\ Create(h) => g = h
  /\ given' \in {given, given + 1}
  /\ doubt' \subseteq Homework
  /\ \A h \in Homework :
       Record(h) \/ Create(h) \/ Bind(h) \/ Lose(h) \/ Forget(h) \/ Stay(h)

Spec == Init /\ [][Next]_vars
===============================================================================
