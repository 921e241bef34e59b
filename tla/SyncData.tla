------------------------------- MODULE SyncData -------------------------------
(***************************************************************************)
(* The data the sync engine works on: homework as EduPage shows it, tasks  *)
(* in the Vikunja project, rows of the homework_map table, and the steps   *)
(* that SyncEngine._diff plans.                                            *)
(*                                                                         *)
(* What the properties cannot tell apart is abstracted: the text, title,   *)
(* subject and due date of a homework are one version number; a task's     *)
(* priority, bucket and labels are one bit, `derived` (they are as the     *)
(* configuration wants them); a marker is the homework it names.           *)
(***************************************************************************)
EXTENDS Naturals, Sequences

CONSTANTS
  Homework,        \* timelineids of the account's homework
  MaxContent,      \* versions a homework's content goes through: 1..MaxContent
  MaxTasks,        \* task ids the Vikunja project hands out: 1..MaxTasks
  MirrorDone,      \* config sync.mirror_done
  MarkersKept,     \* does this Vikunja keep the hidden marker of a description?
  DeletePolicy,    \* config sync.delete_policy
  PastDue          \* homework whose last seen due date is past by the grace

ASSUME HomeworkAssumption == Homework \subseteq Nat \ {0}
ASSUME BoundAssumption == MaxContent \in Nat \ {0} /\ MaxTasks \in Nat \ {0}
ASSUME ConfigAssumption ==
  /\ MirrorDone \in BOOLEAN
  /\ MarkersKept \in BOOLEAN
  /\ DeletePolicy \in {"close", "leave", "delete"}

None == 0          \* Python's None for a task id or a marker
Unset == 0         \* UNSET_FINGERPRINT

\* Text that a person, or an older layout, left in a task and that the drift test
\* of the diff recognises: the link to EduPage is missing, or the layout is old.
Foreign == 0

Content == 1 .. MaxContent
TaskId == 1 .. MaxTasks

---------------------------------------------------------------------------
(* Homework, tasks and rows.                                               *)

Item == [at: {"absent", "listed", "removed"}, content: Content, done: BOOLEAN]
NoItem == [at |-> "absent", content |-> 1, done |-> FALSE]

\* `owner` is history only: the homework whose POST created the task.
Task == [live: BOOLEAN, owner: Homework \cup {None}, key: Homework \cup {None},
         content: Content \cup {Foreign}, done: BOOLEAN, derived: BOOLEAN]
NoTask == [live |-> FALSE, owner |-> None, key |-> None, content |-> Foreign,
           done |-> FALSE, derived |-> FALSE]

SyncState == {"creating", "created", "updated", "closed", "deferred", "tombstoned"}
Closed == {"closed", "tombstoned"}
Pending == {"creating", "deferred"}

OpName == {"create", "resume", "patch", "patch_done", "reopen"}

\* A row of homework_map; state "absent" means that there is no row.  `op` and
\* `item` are the one queued operation that pending_ops may hold.  Its "restore"
\* field is left out: it is always what _RESTORE_BY_ACTION gives for `op`.
Row == [state: SyncState \cup {"absent"}, task: TaskId \cup {None},
        fp: Content \cup {Unset}, done: BOOLEAN,
        op: OpName \cup {"none"}, item: Item]
NoRow == [state |-> "absent", task |-> None, fp |-> Unset, done |-> FALSE,
          op |-> "none", item |-> NoItem]

StepOp == OpName \cup {"touch", "cancel", "close", "delete"}
Step == [op: StepOp, item: Item, derived: BOOLEAN]

---------------------------------------------------------------------------
(* The task that a POST creates, and what a full PATCH leaves.             *)

RenderedKey(h) == IF MarkersKept THEN h ELSE None

PostedTask(h, item) ==
  [live |-> TRUE, owner |-> h, key |-> RenderedKey(h), content |-> item.content,
   done |-> MirrorDone /\ item.done, derived |-> FALSE]

\* Mutated form: the rendered payload always carries the done bit.
PatchedTaskSendsDone(task, h, item, derived) ==
  IF derived THEN task
  ELSE [task EXCEPT !.key = RenderedKey(h), !.content = item.content, !.done = item.done]

\* Mutated form: text that a person has changed is left alone.
PatchedTaskSparesText(task, h, item, derived) ==
  IF derived \/ task.content = Foreign THEN task
  ELSE [task EXCEPT !.key = RenderedKey(h), !.content = item.content,
                    !.done = IF MirrorDone THEN item.done ELSE @]

\* _patch_task sends the rendered title, description and (mirror_done) done
\* bit; with derived_only it sends the priority alone.
PatchedTask(task, h, item, derived) ==
  IF derived THEN task
  ELSE [task EXCEPT !.key = RenderedKey(h), !.content = item.content,
                    !.done = IF MirrorDone THEN item.done ELSE @]

---------------------------------------------------------------------------
(* The row that each operation of the engine leaves.                       *)

IntentRow(item) ==
  [state |-> "creating", task |-> None, fp |-> item.content, done |-> item.done,
   op |-> "create", item |-> item]

FinalizedRow(id, item) ==
  [state |-> "created", task |-> id, fp |-> item.content, done |-> item.done,
   op |-> "none", item |-> NoItem]

TouchedRow(row, item) ==
  IF row.state = "absent" THEN row ELSE [row EXCEPT !.fp = item.content]

CancelledRow(row) ==
  IF row.state = "absent" THEN row
  ELSE [row EXCEPT !.task = None, !.state = "tombstoned", !.op = "none", !.item = NoItem]

PatchedRow(row, item) ==
  [row EXCEPT !.fp = item.content, !.done = item.done,
              !.state = IF @ \in Closed THEN @ ELSE "updated",
              !.op = "none", !.item = NoItem]

\* patch_done and reopen: both also store the fingerprint of the item at hand.
DoneRow(row, op, item) ==
  [row EXCEPT !.fp = item.content,
              !.done = IF op = "reopen" THEN FALSE ELSE item.done,
              !.state = IF op = "patch_done" /\ @ \in Closed /\ item.done THEN @ ELSE "updated",
              !.op = "none", !.item = NoItem]

ClosedRow(row) == [row EXCEPT !.state = "closed"]

\* Mutated form: the queue holds the step's action instead of the operation.
DeferredRowAsStep(row, op, item) ==
  LET base == IF row.state = "absent" THEN IntentRow(item) ELSE row
  IN  [base EXCEPT !.state = "deferred", !.op = "retry", !.item = item]

DeferredRow(row, op, item) ==
  LET base == IF row.state = "absent" THEN IntentRow(item) ELSE row
  IN  [base EXCEPT !.state = "deferred", !.op = op, !.item = item]

\* Mutated form: a 404 leaves the row as it is.
GoneRowKept(row) == row

\* _handle_gone.
GoneRow(row) ==
  IF row.state \in Pending
  THEN [row EXCEPT !.task = None, !.state = "created", !.op = "none", !.item = NoItem]
  ELSE NoRow
===============================================================================
