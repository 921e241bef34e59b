------------------------------- MODULE Reconcile -------------------------------
(***************************************************************************)
(* Reconciler: what a pass makes of the project's task list before it      *)
(* fetches anything.  Every operator takes `seen`, the task list as the    *)
(* one list_tasks call of Reconciler.run returned it.                      *)
(***************************************************************************)
EXTENDS SyncData

\* Tasks that carry homework h's marker (or legacy anchor label).
Marked(seen, h) == {t \in TaskId : seen[t].live /\ seen[t].key = h}

\* Mutated form: the tasks are not grouped by the homework that their marker names.
WinnerOfAll(seen, h) ==
  LET marked == {t \in TaskId : seen[t].live /\ seen[t].key # None}
  IN  CHOOSE t \in marked : \A u \in marked : t <= u

\* The earliest created task wins; ids are handed out in creation order.
Winner(seen, h) ==
  CHOOSE t \in Marked(seen, h) : \A u \in Marked(seen, h) : t <= u

Losers(seen) ==
  {t \in TaskId : \E h \in Homework : t \in Marked(seen, h) /\ t # Winner(seen, h)}

\* Mutated form: the loser keeps its marker.
StrippedTaskKeepsMarker(task) == [task EXCEPT !.done = TRUE]

\* _strip_duplicate: the loser is ticked off and loses its marker.
StrippedTask(task) == [task EXCEPT !.done = TRUE, !.key = None]

\* _row_for_task: a marked task that no row knows.
AdoptedRow(task, t) ==
  [state |-> "created", task |-> t, fp |-> Unset, done |-> task.done,
   op |-> "none", item |-> NoItem]

\* A mapped task that is listed and carries no marker at all is still the row's.
Unanchored(seen, t) == seen[t].live /\ seen[t].key = None

\* Mutated form: unfinished creates and deferred operations lose their task id.
SyncedRowResets(seen, h, row) ==
  IF row.state \in Pending THEN [row EXCEPT !.task = None]
  ELSE IF Marked(seen, h) # {}
  THEN IF row.state = "absent" THEN AdoptedRow(seen[Winner(seen, h)], Winner(seen, h))
       ELSE [row EXCEPT !.task = Winner(seen, h)]
  ELSE IF row.task = None \/ Unanchored(seen, row.task) THEN row ELSE NoRow

\* _sync_store for one homework.  A marked task gives or redirects the row (also
\* a row that the same transaction would prune); without one, rows with work
\* queued stay, and a row whose task is neither listed nor unanchored is pruned.
SyncedRow(seen, h, row) ==
  IF Marked(seen, h) # {}
  THEN IF row.state = "absent" THEN AdoptedRow(seen[Winner(seen, h)], Winner(seen, h))
       ELSE [row EXCEPT !.task = Winner(seen, h)]
  ELSE IF row.state \in Pending \/ row.task = None \/ Unanchored(seen, row.task)
       THEN row
       ELSE NoRow
===============================================================================
