--------------------------- MODULE SyncEngine_proofs ---------------------------
(***************************************************************************)
(* For any homework, versions, task ids, configuration and bounds: the     *)
(* engine's state keeps its type and a row never leads to another          *)
(* homework's task.                                                        *)
(***************************************************************************)
EXTENDS SyncProperties, SequenceTheorems, WellFoundedInduction, TLAPS

---------------------------------------------------------------------------
(* The data: constants, rows and tasks have their types.                   *)

\* The empty values belong to their types.
LEMMA EmptyValues ==
  /\ NoItem \in Item /\ NoTask \in Task /\ NoRow \in Row
  /\ \A h \in Homework \cup {None} : NoJob(h) \in Job
  BY HomeworkAssumption, BoundAssumption, LimitAssumption
  DEF NoItem, Item, Content, NoTask, Task, None, Foreign, NoRow, Row, Unset, TaskId,
      NoJob, Job

\* A row whose fields are given new values of their types is a row.
LEMMA RowUpdated ==
  ASSUME NEW row \in Row, NEW state \in SyncState \cup {"absent"},
         NEW task \in TaskId \cup {None}, NEW fp \in Content \cup {Unset},
         NEW op \in OpName \cup {"none"}, NEW item \in Item
  PROVE  /\ [row EXCEPT !.fp = fp] \in Row
         /\ [row EXCEPT !.task = task] \in Row
         /\ [row EXCEPT !.state = state] \in Row
         /\ [row EXCEPT !.task = task, !.state = state, !.op = op, !.item = item] \in Row
         /\ [row EXCEPT !.state = state, !.op = op, !.item = item] \in Row
  BY DEF Row

\* Every row that an operation of the engine writes is a row.
LEMMA RowsWritten ==
  ASSUME NEW row \in Row, NEW item \in Item, NEW id \in TaskId \cup {None}
  PROVE  /\ IntentRow(item) \in Row /\ FinalizedRow(id, item) \in Row
         /\ TouchedRow(row, item) \in Row /\ CancelledRow(row) \in Row
         /\ PatchedRow(row, item) \in Row /\ ClosedRow(row) \in Row
         /\ GoneRow(row) \in Row
         /\ \A op \in OpName : DoneRow(row, op, item) \in Row /\ DeferredRow(row, op, item) \in Row
<1>1. NoItem \in Item /\ NoRow \in Row
  BY EmptyValues
<1>2. item.content \in Content \cup {Unset} /\ item.done \in BOOLEAN /\ FALSE \in BOOLEAN
  BY DEF Item
<1>3. None \in TaskId \cup {None} /\ "none" \in OpName \cup {"none"}
  OBVIOUS
<1>4. row.state \in SyncState \cup {"absent"}
  BY DEF Row
<1>5. {"creating", "created", "updated", "closed", "deferred", "tombstoned"}
        \subseteq SyncState \cup {"absent"}
  BY DEF SyncState
<1>6. IntentRow(item) \in Row /\ FinalizedRow(id, item) \in Row
  BY <1>1, <1>2, <1>5 DEF IntentRow, FinalizedRow, Row, OpName
<1>7. TouchedRow(row, item) \in Row
  BY <1>2, RowUpdated DEF TouchedRow
<1>8. ClosedRow(row) \in Row
  BY <1>5, RowUpdated DEF ClosedRow
<1>9. CancelledRow(row) \in Row
  BY <1>1, <1>3, <1>5, RowUpdated DEF CancelledRow
<1>10. GoneRow(row) \in Row
  BY <1>1, <1>3, <1>5, RowUpdated DEF GoneRow
<1>11. PatchedRow(row, item) \in Row
  <2> DEFINE state == IF row.state \in Closed THEN row.state ELSE "updated"
  <2>1. state \in SyncState \cup {"absent"}
    BY <1>4, <1>5
  <2>2. PatchedRow(row, item) =
          [row EXCEPT !.fp = item.content, !.done = item.done, !.state = state,
                      !.op = "none", !.item = NoItem]
    BY DEF PatchedRow
  <2> HIDE DEF state
  <2> QED
    BY <2>1, <2>2, <1>1, <1>2, <1>3 DEF Row
<1>12. ASSUME NEW op \in OpName
       PROVE  DoneRow(row, op, item) \in Row
  <2> DEFINE done  == IF op = "reopen" THEN FALSE ELSE item.done
             state == IF op = "patch_done" /\ row.state \in Closed /\ item.done
                      THEN row.state ELSE "updated"
  <2>1. done \in BOOLEAN /\ state \in SyncState \cup {"absent"}
    BY <1>2, <1>4, <1>5
  <2>2. DoneRow(row, op, item) =
          [row EXCEPT !.fp = item.content, !.done = done, !.state = state,
                      !.op = "none", !.item = NoItem]
    BY DEF DoneRow
  <2> HIDE DEF done, state
  <2> QED
    BY <2>1, <2>2, <1>1, <1>2, <1>3 DEF Row
<1>13. ASSUME NEW op \in OpName
       PROVE  DeferredRow(row, op, item) \in Row
  <2>1. (IF row.state = "absent" THEN IntentRow(item) ELSE row) \in Row
    BY <1>6
  <2>2. \A base \in Row :
          [base EXCEPT !.state = "deferred", !.op = op, !.item = item] \in Row
    BY <1>5, RowUpdated
  <2> QED
    BY <2>1, <2>2 DEF DeferredRow
<1> QED
  BY <1>6, <1>7, <1>8, <1>9, <1>10, <1>11, <1>12, <1>13

\* What a POST creates is a task, and its marker names its owner.
LEMMA TaskPosted ==
  ASSUME NEW h \in Homework, NEW item \in Item
  PROVE  /\ PostedTask(h, item) \in Task /\ KeyIsOwner(PostedTask(h, item))
         /\ PostedTask(h, item).owner = h
  BY ConfigAssumption DEF Task, PostedTask, RenderedKey, KeyIsOwner, Item, Foreign, None

\* What a PATCH leaves is a task of the same owner, and its marker names its owner if
\* it did before and if the PATCH is about its owner.
LEMMA TaskPatched ==
  ASSUME NEW task \in Task, NEW h \in Homework, NEW item \in Item, NEW derived
  PROVE  /\ PatchedTask(task, h, item, derived) \in Task
         /\ PatchedTask(task, h, item, derived).live = task.live
         /\ PatchedTask(task, h, item, derived).owner = task.owner
         /\ KeyIsOwner(task) /\ task.owner = h => KeyIsOwner(PatchedTask(task, h, item, derived))
  BY ConfigAssumption DEF Task, PatchedTask, RenderedKey, KeyIsOwner, Item, Foreign, None

---------------------------------------------------------------------------
(* Reconciliation.                                                         *)

\* A nonempty set of natural numbers has a least element.
LEMMA LeastElement ==
  ASSUME NEW T \in SUBSET Nat, T # {}
  PROVE  \E x \in T : \A y \in T : x <= y
<1> DEFINE less == OpToRel(<, Nat)
<1>1. IsWellFoundedOn(less, Nat)
  BY NatLessThanWellFounded
<1> HIDE DEF less
<1>2. PICK x \in T : \A y \in T : ~(<<y, x>> \in less)
  BY <1>1, WFMin
<1>3. \A y \in T : <<y, x>> \in Nat \X Nat
  OBVIOUS
<1>4. \A y \in T : ~(y < x)
  BY <1>2, <1>3 DEF less, OpToRel
<1>5. \A y \in T : x <= y
  BY <1>4
<1> QED
  BY <1>5

\* If a homework has marked tasks, the winner is one of them, and the first.
LEMMA WinnerIsMarked ==
  ASSUME NEW s, NEW h, Marked(s, h) # {}
  PROVE  /\ Winner(s, h) \in Marked(s, h)
         /\ \A u \in Marked(s, h) : Winner(s, h) <= u
<1>0. Marked(s, h) \in SUBSET Nat
  BY BoundAssumption DEF Marked, TaskId
<1>1. \E t \in Marked(s, h) : \A u \in Marked(s, h) : t <= u
  BY <1>0, LeastElement
<1> QED
  BY <1>1 DEF Winner

\* Reconciliation gives a homework its own row, no row, or the winner's task.
LEMMA SyncedRowFacts ==
  ASSUME NEW s \in [TaskId -> Task], NEW h \in Homework, NEW row \in Row
  PROVE  /\ SyncedRow(s, h, row) \in Row
         /\ SyncedRow(s, h, row).task \in {row.task, None} \/
              (Marked(s, h) # {} /\ SyncedRow(s, h, row).task = Winner(s, h))
         /\ SyncedRow(s, h, row).state = "deferred" =>
              row.state = "deferred" /\ SyncedRow(s, h, row).op = row.op
<1>1. Marked(s, h) # {} => Winner(s, h) \in TaskId
  BY WinnerIsMarked DEF Marked
<1>2. \A t \in TaskId : AdoptedRow(s[t], t) \in Row
  BY EmptyValues, BoundAssumption DEF AdoptedRow, Row, Task, SyncState, Unset, Content
<1> QED
  BY <1>1, <1>2, EmptyValues DEF SyncedRow, AdoptedRow, NoRow, Row

---------------------------------------------------------------------------
(* The plan.                                                               *)

\* A step under a condition is a sequence of steps.
LEMMA WhenIsPlan ==
  ASSUME NEW cond, NEW step \in Step
  PROVE  When(cond, step) \in Seq(Step)
  BY DEF When

\* Whatever the rows and the fetched items are, a plan is a sequence of steps.
LEMMA StepsArePlan ==
  ASSUME NEW h \in Homework, NEW row \in Row, NEW item \in Item, NEW remote \in Task,
         NEW cov \in BOOLEAN, row.state = "deferred" => row.op \in OpName
  PROVE  Steps(h, row, item, remote, cov) \in Seq(Step) /\ DeferredSteps(row) \in Seq(Step)
<1>1. \A op \in StepOp, i \in Item : Plain(op, i) \in Step
  BY DEF Plain, Step
<1>2. \A i \in Item : [op |-> "patch", item |-> i, derived |-> TRUE] \in Step
  BY DEF Step, StepOp, OpName
<1>3. \A op \in StepOp, i \in Item : <<Plain(op, i)>> \in Seq(Step)
  BY <1>1
<1>4. OpName \subseteq StepOp /\ {"touch", "cancel", "close", "delete"} \subseteq StepOp
  BY DEF StepOp
<1>5. QueuedSteps(row) \in Seq(Step)
  BY <1>3, <1>4 DEF QueuedSteps, When, Row
<1>6. CloseSteps(h, row, cov) \in Seq(Step)
  BY <1>3, <1>4, ConfigAssumption, EmptyValues DEF CloseSteps, When
<1>7. row.state \in Pending => PendingSteps(row, item) \in Seq(Step)
  BY <1>3, <1>4, <1>5 DEF PendingSteps, OpName, Pending
<1>8. MappedSteps(row, item, remote) \in Seq(Step)
  <2>1. /\ Plain("reopen", item) \in Step /\ Plain("touch", item) \in Step
        /\ Plain("patch", item) \in Step /\ Plain("patch_done", item) \in Step
    BY <1>1, <1>4 DEF OpName
  <2>2. \A s1, s2 \in Seq(Step) : s1 \o s2 \in Seq(Step)
    BY ConcatProperties
  <2> QED
    BY <2>1, <2>2, <1>2, WhenIsPlan DEF MappedSteps
<1>9. <<Plain("create", item)>> \in Seq(Step)
  BY <1>3, <1>4 DEF OpName
<1> QED
  BY <1>5, <1>6, <1>7, <1>8, <1>9 DEF Steps, DeferredSteps
---------------------------------------------------------------------------
(* What a step may do to the tasks without disturbing who leads where.     *)

\* Tasks keep their owner, and the new ones have new ids.
TasksGrow ==
  /\ posted' \in Nat /\ posted <= posted'
  /\ \A t \in TaskId : t <= posted /\ tasks'[t].live =>
       tasks[t].live /\ tasks'[t].owner = tasks[t].owner

\* If tasks only grow, every id still leads where it led.
LEMMA LeadsOn ==
  ASSUME posted \in Nat, TasksGrow, NEW h, NEW t \in TaskId, Leads(h, t)
  PROVE  Leads(h, t)'
<1>1. t \in Nat
  BY BoundAssumption DEF TaskId
<1> QED
  BY <1>1 DEF TasksGrow, Leads

\* ... and so does every row.
LEMMA RowLeadsOn ==
  ASSUME posted \in Nat, TasksGrow, NEW h, NEW row \in Row, RowLeads(h, row)
  PROVE  RowLeads(h, row)'
<1>1. row.task \in TaskId \cup {None}
  BY DEF Row
<1> QED
  BY <1>1, LeadsOn DEF RowLeads

\* If no task changes, tasks only grow.
LEMMA StillGrows ==
  ASSUME TypeOK, UNCHANGED <<tasks, posted>>
  PROVE  TasksGrow
  BY BoundAssumption DEF TypeOK, TasksGrow

\* A step that leaves the rows alone keeps RowsLead.
LEMMA RowsFrame ==
  ASSUME TypeOK, RowsLead, TasksGrow, UNCHANGED rows
  PROVE  RowsLead'
<1>1. posted \in Nat /\ \A h \in Homework : rows[h] \in Row
  BY BoundAssumption DEF TypeOK
<1>2. \A h \in Homework : RowLeads(h, rows[h])'
  BY <1>1, RowLeadsOn DEF RowsLead, RowLeads, Leads, Queued
<1> QED
  BY <1>2 DEF RowsLead

\* A step that writes one row keeps RowsLead if what it writes leads home.
LEMMA RowsWrite ==
  ASSUME TypeOK, RowsLead, TasksGrow, NEW h \in Homework, NEW row \in Row,
         RowLeads(h, row)', rows' = [rows EXCEPT ![h] = row]
  PROVE  RowsLead' /\ rows' \in [Homework -> Row]
<1>1. posted \in Nat /\ \A g \in Homework : rows[g] \in Row
  BY BoundAssumption DEF TypeOK
<1>2. rows' \in [Homework -> Row]
  BY DEF TypeOK
<1>3. ASSUME NEW g \in Homework PROVE RowLeads(g, rows[g])'
  <2>1. CASE g = h
    <3>1. rows'[g] = row
      BY <2>1 DEF TypeOK
    <3> QED
      BY <2>1, <3>1 DEF RowLeads, Leads, Queued
  <2>2. CASE g # h
    <3>1. rows'[g] = rows[g] /\ RowLeads(g, rows[g])
      BY <2>2 DEF TypeOK, RowsLead
    <3>2. (RowLeads(g, rows[g]) /\ rows'[g] = rows[g]) => RowLeads(g, rows[g])'
      <4> DEFINE r == rows[g]
      <4>1. \A x \in Row : RowLeads(g, x) => RowLeads(g, x)'
        BY <1>1, RowLeadsOn
      <4> QED
        BY <1>1, <4>1 DEF RowLeads, Leads, Queued
    <3> QED
      BY <3>1, <3>2
  <2> QED
    BY <2>1, <2>2
<1> QED
  BY <1>2, <1>3 DEF RowsLead

\* A step that leaves the memory of ids alone keeps MemoryLeads.
LEMMA MemoryFrame ==
  ASSUME TypeOK, MemoryLeads, TasksGrow, UNCHANGED <<seen, job>>
  PROVE  MemoryLeads'
<1>1. posted \in Nat /\ job.row \in Row /\ job.tgt \in TaskId \cup {None}
  BY BoundAssumption DEF TypeOK, Job
<1>2. \A h : \A t \in TaskId : Leads(h, t) => Leads(h, t)'
  BY <1>1, LeadsOn
<1>3. RowLeads(job.h, job.row)'
  <2>1. \A h : \A row \in Row : RowLeads(h, row) => RowLeads(h, row)'
    BY <1>1, RowLeadsOn
  <2> QED
    BY <1>1, <2>1 DEF MemoryLeads, RowLeads, Leads, Queued
<1>4. \A t \in TaskId : seen'[t].live /\ seen'[t].key # None => Leads(seen[t].key, t)'
  BY <1>2 DEF MemoryLeads, Leads
<1>5. job'.tgt # None => Leads(job.h, job.tgt)'
  BY <1>1, <1>2 DEF MemoryLeads, Leads
<1> QED
  BY <1>3, <1>4, <1>5 DEF MemoryLeads

\* A pass that has ended holds no ids.
LEMMA MemoryReset ==
  ASSUME ResetMemory
  PROVE  JobFits' /\ MemoryLeads'
  BY DEF ResetMemory, JobFits, AtCall, MemoryLeads, NoJob, NoRow, NoTask, RowLeads, Queued
---------------------------------------------------------------------------
(* The first state, and the steps of the world.                            *)

\* The first state satisfies the invariant.
LEMMA InitOwns ==
  ASSUME Init
  PROVE  OwnInv
<1>1. TypeOK
  <2>1. NoJob(None) \in Job /\ NoTask \in Task /\ NoRow \in Row /\ NoItem \in Item
    BY EmptyValues
  <2>2. [h \in Homework |-> <<>>] \in [Homework -> Seq(Step)]
    BY EmptySeq
  <2>3. src \in [Homework -> Item]
    BY DEF Init
  <2>4. posted \in 0 .. MaxTasks /\ strikes \in 0 .. BreakerThreshold /\ failed \in Nat
    BY BoundAssumption, LimitAssumption DEF Init
  <2>5. /\ edits \in 0 .. MaxEdits /\ persons \in 0 .. MaxPersons
        /\ faults \in 0 .. MaxFaults /\ crashes \in 0 .. MaxCrashes
    BY LimitAssumption DEF Init
  <2>6. /\ tasks \in [TaskId -> Task] /\ rows \in [Homework -> Row]
        /\ seen \in [TaskId -> Task] /\ items \in [Homework -> Item]
    BY <2>1 DEF Init
  <2>7. pc \in PC
    BY DEF Init, PC
  <2> QED
    BY <2>1, <2>2, <2>3, <2>4, <2>5, <2>6, <2>7 DEF Init, TypeOK
<1>2. TasksKeyed /\ RowsLead /\ MemoryLeads
  BY DEF Init, TasksKeyed, RowsLead, MemoryLeads, NoTask, NoRow, NoJob, KeyIsOwner,
         RowLeads, Queued
<1> QED
  BY <1>1, <1>2 DEF Init, JobFits, AtCall, OwnInv

\* The source changes.
LEMMA TeacherOwns ==
  ASSUME OwnInv, NEW h \in Homework, NEW item \in Item, Teacher(h, item)
  PROVE  OwnInv'
<1> USE DEF OwnInv
<1>1. TypeOK'
  BY LimitAssumption DEF TypeOK, Teacher, store, memory, pass
<1>2. TasksGrow
  BY StillGrows DEF Teacher
<1>3. RowsLead' /\ MemoryLeads'
  BY <1>2, RowsFrame, MemoryFrame DEF Teacher, store, memory, pass
<1>4. JobFits' /\ TasksKeyed'
  BY DEF JobFits, AtCall, TasksKeyed, Teacher, store, memory, pass
<1> QED
  BY <1>1, <1>3, <1>4

\* A person deletes or changes a task: its marker and its owner stay.
LEMMA PersonOwns ==
  ASSUME OwnInv, NEW t \in TaskId, NEW task \in Task, Person(t, task),
         KeyIsOwner(task), task.live => task.owner = tasks[t].owner
  PROVE  OwnInv'
<1> USE DEF OwnInv
<1>1. TypeOK'
  BY LimitAssumption DEF TypeOK, Person, store, memory, pass
<1>2. TasksGrow
  BY BoundAssumption DEF TypeOK, TasksGrow, Person
<1>3. RowsLead' /\ MemoryLeads'
  BY <1>2, RowsFrame, MemoryFrame DEF Person, store, memory, pass
<1>4. JobFits'
  BY DEF JobFits, AtCall, Person, store, memory, pass
<1>5. TasksKeyed'
  BY DEF TypeOK, TasksKeyed, Person, KeyIsOwner
<1> QED
  BY <1>1, <1>3, <1>4, <1>5

\* The server commits a POST that had timed out: the new task has a new id.
LEMMA LateCommitOwns ==
  ASSUME OwnInv, LateCommit
  PROVE  OwnInv'
<1> USE DEF OwnInv
<1>1. PICK p \in inflight :
        /\ posted < MaxTasks /\ posted' = posted + 1
        /\ tasks' = [tasks EXCEPT ![posted + 1] = p.task]
        /\ inflight' = inflight \ {p}
        /\ UNCHANGED <<src, store, memory, used>>
  BY DEF LateCommit
<1>2. posted \in Nat /\ posted + 1 \in TaskId /\ p.task \in Task /\ KeyIsOwner(p.task)
  BY <1>1, BoundAssumption DEF TypeOK, TaskId, TasksKeyed
<1>3. /\ tasks' \in [TaskId -> Task] /\ posted' \in 0 .. MaxTasks
      /\ inflight' \subseteq [call: Nat, task: Task]
  BY <1>1, <1>2, BoundAssumption DEF TypeOK
<1>4. TypeOK'
  BY <1>1, <1>3 DEF TypeOK, store, memory, pass, used
<1>5. TasksGrow
  BY <1>1, <1>2 DEF TypeOK, TasksGrow
<1>6. RowsLead' /\ MemoryLeads'
  BY <1>1, <1>5, RowsFrame, MemoryFrame DEF store, memory, pass
<1>7. JobFits'
  BY <1>1 DEF JobFits, AtCall, memory
<1>8. TasksKeyed'
  BY <1>1, <1>2, BoundAssumption DEF TypeOK, TasksKeyed, KeyIsOwner, TaskId
<1> QED
  BY <1>4, <1>6, <1>7, <1>8

\* Nothing that teachers, people or a late server do disturbs the invariant.
LEMMA EnvironmentOwns ==
  ASSUME OwnInv, Environment
  PROVE  OwnInv'
<1>0. TypeOK /\ TasksKeyed
  BY DEF OwnInv
<1>1. ASSUME NEW h \in Homework, TeacherEdits(h) \/ DoneToggles(h) \/ Moves(h)
      PROVE  OwnInv'
  <2>1. src[h] \in Item
    BY <1>0 DEF TypeOK
  <2>2. CASE TeacherEdits(h)
    <3>1. [src[h] EXCEPT !.content = @ + 1] \in Item
      BY <2>1, <2>2, BoundAssumption DEF TeacherEdits, Item, Content
    <3> QED
      BY <2>2, <3>1, TeacherOwns DEF TeacherEdits
  <2>3. CASE DoneToggles(h)
    <3>1. [src[h] EXCEPT !.done = ~@] \in Item
      BY <2>1 DEF Item
    <3> QED
      BY <2>3, <3>1, TeacherOwns DEF DoneToggles
  <2>4. CASE Moves(h)
    <3>1. PICK at \in {"absent", "listed", "removed"} :
            Teacher(h, [src[h] EXCEPT !.at = at])
      BY <2>4 DEF Moves
    <3>2. [src[h] EXCEPT !.at = at] \in Item
      BY <2>1 DEF Item
    <3> QED
      BY <3>1, <3>2, TeacherOwns
  <2> QED
    BY <1>1, <2>2, <2>3, <2>4
<1>2. ASSUME NEW t \in TaskId, PersonDeletes(t) \/ PersonTicks(t) \/ PersonEdits(t)
      PROVE  OwnInv'
  <2>1. tasks[t] \in Task /\ KeyIsOwner(tasks[t])
    BY <1>0 DEF TypeOK, TasksKeyed
  <2>2. CASE PersonDeletes(t)
    <3>1. NoTask \in Task /\ KeyIsOwner(NoTask) /\ ~NoTask.live
      BY EmptyValues DEF NoTask, KeyIsOwner
    <3> QED
      BY <2>2, <3>1, PersonOwns DEF PersonDeletes
  <2>3. CASE PersonTicks(t)
    <3> DEFINE ticked == [tasks[t] EXCEPT !.done = ~@]
    <3>1. ticked \in Task /\ KeyIsOwner(ticked) /\ ticked.owner = tasks[t].owner
      BY <2>1 DEF Task, KeyIsOwner
    <3> QED
      BY <2>3, <3>1, PersonOwns DEF PersonTicks
  <2>4. CASE PersonEdits(t)
    <3> DEFINE edited == [tasks[t] EXCEPT !.content = Foreign, !.derived = FALSE]
    <3>1. edited \in Task /\ KeyIsOwner(edited) /\ edited.owner = tasks[t].owner
      BY <2>1 DEF Task, KeyIsOwner
    <3> QED
      BY <2>4, <3>1, PersonOwns DEF PersonEdits
  <2> QED
    BY <1>2, <2>2, <2>3, <2>4
<1> QED
  BY <1>1, <1>2, LateCommitOwns DEF Environment
---------------------------------------------------------------------------
(* The steps of a pass before it applies anything, and its ends.           *)

\* A pass that has ended leaves the memory typed.
LEMMA ResetTyped ==
  ASSUME ResetMemory
  PROVE  /\ pc' \in PC /\ seen' \in [TaskId -> Task] /\ todo' \subseteq TaskId
         /\ deny' \subseteq TaskId /\ breaker' \in BOOLEAN /\ aborted' \in BOOLEAN
         /\ items' \in [Homework -> Item] /\ covered' \in BOOLEAN
         /\ plan' \in [Homework -> Seq(Step)] /\ job' \in Job /\ failed' \in Nat
<1>1. NoJob(None) \in Job /\ NoTask \in Task /\ NoItem \in Item
  BY EmptyValues
<1>2. [h \in Homework |-> <<>>] \in [Homework -> Seq(Step)]
  BY EmptySeq
<1> QED
  BY <1>1, <1>2 DEF ResetMemory, PC

\* A pass ends without touching a row: by a crash, or for want of a task.
LEMMA EndOwns ==
  ASSUME OwnInv, ResetMemory, UNCHANGED <<world, rows, lost>>,
         strikes' \in 0 .. BreakerThreshold, fresh' \in BOOLEAN,
         edits' \in 0 .. MaxEdits, persons' \in 0 .. MaxPersons,
         faults' \in 0 .. MaxFaults, crashes' \in 0 .. MaxCrashes
  PROVE  OwnInv'
<1> USE DEF OwnInv
<1>1. TypeOK'
  BY ResetTyped DEF TypeOK, world
<1>2. TasksGrow
  BY StillGrows DEF world
<1>3. RowsLead' /\ MemoryLeads' /\ JobFits'
  BY <1>2, RowsFrame, MemoryReset
<1>4. TasksKeyed'
  BY DEF TasksKeyed, world
<1> QED
  BY <1>1, <1>3, <1>4

\* A pass that dies leaves the invariant as it is.
LEMMA CrashOwns ==
  ASSUME OwnInv, Crash
  PROVE  OwnInv'
<1>1. crashes' \in 0 .. MaxCrashes
  BY LimitAssumption DEF OwnInv, TypeOK, Crash
<1> QED
  BY <1>1, EndOwns DEF OwnInv, TypeOK, Crash, store

\* A pass that ends only counts its failures and may stamp its time.
LEMMA FinishOwns ==
  ASSUME OwnInv, FinishPass
  PROVE  OwnInv'
<1>1. TypeOK
  BY DEF OwnInv
<1>2. \A n \in Nat : Cap(n) \in 0 .. BreakerThreshold
  BY LimitAssumption DEF Cap
<1>3. strikes' \in 0 .. BreakerThreshold
  <2>1. strikes \in 0 .. BreakerThreshold /\ failed \in Nat /\ strikes' = StrikesAfter
    BY <1>1 DEF TypeOK, FinishPass
  <2>2. strikes + 1 + failed \in Nat /\ strikes + failed \in Nat
    BY <2>1, LimitAssumption
  <2> QED
    BY <1>2, <2>1, <2>2, LimitAssumption DEF StrikesAfter
<1>4. fresh' \in BOOLEAN
  BY <1>1 DEF TypeOK, FinishPass, Heartbeat
<1> QED
  BY <1>1, <1>3, <1>4, EndOwns DEF TypeOK, FinishPass, used

\* Starting, fetching, planning and giving up hold no ids and write no row.
LEMMA QuietOwns ==
  ASSUME OwnInv, TypeOK', UNCHANGED <<tasks, posted, inflight, rows, job>>,
         seen' = seen, pc' \in {"list", "plan", "apply"}
  PROVE  OwnInv'
<1> USE DEF OwnInv
<1>1. TasksGrow
  BY StillGrows
<1>2. RowsLead' /\ MemoryLeads'
  BY <1>1, RowsFrame, MemoryFrame
<1>3. JobFits' /\ TasksKeyed'
  BY DEF JobFits, AtCall, TasksKeyed
<1> QED
  BY <1>2, <1>3

\* A list, complete or not, is one of tasks; the client that made it incomplete is
\* counted.
LEMMA ViewFacts ==
  ASSUME OwnInv, NEW call, NEW hidden, Overlooks(call, hidden)
  PROVE  /\ View(hidden) \in [TaskId -> Task]
         /\ \A t \in TaskId : View(hidden)[t].live => t # hidden /\ View(hidden)[t] = tasks[t]
         /\ persons' \in 0 .. MaxPersons
  BY EmptyValues, LimitAssumption DEF OwnInv, TypeOK, Overlooks, View, NoTask

\* A pass starts with nothing in its memory.
LEMMA StartOwns ==
  ASSUME OwnInv, StartPass
  PROVE  OwnInv'
<1>1. breaker' \in BOOLEAN
  BY DEF StartPass
<1>2. pc' \in PC /\ fresh' \in BOOLEAN
  BY DEF StartPass, PC
<1>3. TypeOK'
  BY <1>1, <1>2 DEF OwnInv, TypeOK, StartPass, world, used
<1> QED
  BY <1>3, QuietOwns DEF StartPass, world

\* A pass that gives up plans the deferred operations, which have their types.
LEMMA AbortOwns ==
  ASSUME OwnInv, AbortPass
  PROVE  OwnInv'
<1>1. TypeOK /\ RowsLead
  BY DEF OwnInv
<1>2. [h \in Homework |-> DeferredSteps(rows[h])] \in [Homework -> Seq(Step)]
  <2>1. ASSUME NEW h \in Homework PROVE DeferredSteps(rows[h]) \in Seq(Step)
    <3>1. rows[h] \in Row /\ Queued(rows[h])
      BY <1>1 DEF TypeOK, RowsLead, RowLeads
    <3> QED
      BY <3>1, StepsArePlan, EmptyValues DEF Queued
  <2> QED
    BY <2>1
<1>3. faults' \in 0 .. MaxFaults
  BY <1>1, LimitAssumption DEF TypeOK, AbortPass, Fails
<1>4. items' \in [Homework -> Item] /\ pc' \in PC
  BY EmptyValues DEF AbortPass, PC
<1>5. TypeOK'
  BY <1>1, <1>2, <1>3, <1>4 DEF TypeOK, AbortPass, world, store
<1> QED
  BY <1>5, QuietOwns DEF AbortPass, world, store

\* What a fetch brings back are items.
LEMMA FetchOwns ==
  ASSUME OwnInv, FetchWindow \/ FetchTruncated \/ FetchLoginOnly
  PROVE  OwnInv'
<1>1. PICK got \in SUBSET Homework, complete \in BOOLEAN :
        Fetch(got, complete) /\ faults' \in 0 .. MaxFaults
  <2>1. faults \in Nat /\ faults \in 0 .. MaxFaults /\ Fetchable \subseteq Homework
    BY LimitAssumption DEF OwnInv, TypeOK, Fetchable
  <2>2. CASE FetchWindow
    BY <2>1, <2>2 DEF FetchWindow
  <2>3. CASE FetchTruncated \/ FetchLoginOnly
    <3>0. faults < MaxFaults /\ faults' = faults + 1
      BY <2>3, Zenon DEF FetchTruncated, FetchLoginOnly, Fails
    <3>1. faults' \in 0 .. MaxFaults
      BY <2>1, <3>0, LimitAssumption
    <3>2. PICK got \in SUBSET Fetchable : Fetch(got, TRUE) \/ Fetch(got, FALSE)
      BY <2>3 DEF FetchTruncated, FetchLoginOnly
    <3> QED
      BY <2>1, <3>1, <3>2
  <2> QED
    BY <2>2, <2>3
<1>2. items' \in [Homework -> Item] /\ pc' \in PC
  BY <1>1, EmptyValues DEF Fetch, OwnInv, TypeOK, PC
<1>3. TypeOK'
  BY <1>1, <1>2 DEF Fetch, OwnInv, TypeOK, world, store
<1> QED
  BY <1>1, <1>3, QuietOwns DEF Fetch, world, store

\* What the diff plans are steps, whatever its list overlooks.
LEMMA DiffOwns ==
  ASSUME OwnInv, Diff \/ DiffDeferredOnly
  PROVE  OwnInv'
<1>1. TypeOK /\ RowsLead
  BY DEF OwnInv
<1>2. ASSUME NEW h \in Homework, NEW list \in [TaskId -> Task]
      PROVE  /\ Steps(h, rows[h], items[h], Listed(list, rows[h].task), covered) \in Seq(Step)
             /\ DeferredSteps(rows[h]) \in Seq(Step)
  <2>1. rows[h] \in Row /\ Queued(rows[h]) /\ items[h] \in Item /\ covered \in BOOLEAN
    BY <1>1 DEF TypeOK, RowsLead, RowLeads
  <2>2. Listed(list, rows[h].task) \in Task
    BY <2>1, EmptyValues DEF Listed, Row
  <2> QED
    BY <2>1, <2>2, StepsArePlan DEF Queued
<1>3. plan' \in [Homework -> Seq(Step)] /\ persons' \in 0 .. MaxPersons
  <2>1. CASE Diff
    <3>1. PICK hidden \in TaskId \cup {None} :
            /\ Overlooks("plan", hidden)
            /\ plan' = [h \in Homework |->
                          Steps(h, rows[h], items[h], Listed(View(hidden), rows[h].task),
                                covered)]
      BY <2>1 DEF Diff
    <3>2. View(hidden) \in [TaskId -> Task] /\ persons' \in 0 .. MaxPersons
      BY <3>1, ViewFacts
    <3> QED
      BY <3>1, <3>2, <1>2
  <2>2. CASE DiffDeferredOnly
    <3>1. tasks \in [TaskId -> Task]
      BY <1>1 DEF TypeOK
    <3> QED
      BY <2>2, <3>1, <1>1, <1>2 DEF DiffDeferredOnly, used, TypeOK
  <2> QED
    BY <2>1, <2>2
<1>4. TypeOK'
  BY <1>1, <1>3 DEF TypeOK, PC, Diff, DiffDeferredOnly, world, store, pass, used
<1> QED
  BY <1>4, QuietOwns DEF Diff, DiffDeferredOnly, world, store, pass

\* The task list as listed: its markers lead where their tasks do.
LEMMA ListOwns ==
  ASSUME OwnInv, ListTasks
  PROVE  OwnInv'
<1> USE DEF OwnInv
<1>1. PICK hidden \in TaskId \cup {None} :
        /\ Overlooks("list", hidden)
        /\ seen' = View(hidden) /\ todo' = Losers(View(hidden)) /\ deny' = Losers(View(hidden))
  BY DEF ListTasks
<1>2. /\ seen' \in [TaskId -> Task] /\ persons' \in 0 .. MaxPersons
      /\ \A t \in TaskId : seen'[t].live => seen'[t] = tasks[t]
  BY <1>1, ViewFacts
<1>3. todo' \subseteq TaskId /\ deny' \subseteq TaskId
  BY <1>1 DEF Losers
<1>4. TypeOK'
  BY <1>2, <1>3 DEF TypeOK, ListTasks, world, store, PC
<1>5. TasksGrow
  BY StillGrows DEF ListTasks, world
<1>6. RowsLead' /\ JobFits' /\ TasksKeyed'
  BY <1>5, RowsFrame DEF ListTasks, world, store, JobFits, AtCall, TasksKeyed
<1>7. MemoryLeads'
  BY <1>2 DEF ListTasks, world, MemoryLeads, TasksKeyed, KeyIsOwner, Leads, RowLeads, Queued
<1> QED
  BY <1>4, <1>6, <1>7

\* Stripping a duplicate leaves its owner and gives it no marker.
LEMMA StripOwns ==
  ASSUME OwnInv, StripDuplicate
  PROVE  OwnInv'
<1> USE DEF OwnInv
<1>1. PICK t \in todo :
        /\ pc = "strip" /\ todo' = todo \ {t}
        /\ \/ tasks' = [tasks EXCEPT ![t] = StrippedTask(@)]
           \/ tasks' = tasks
        /\ faults' \in 0 .. MaxFaults
        /\ UNCHANGED <<src, posted, inflight, store, pc, seen, deny, breaker, aborted,
                       items, covered, plan, job, failed, edits, persons, crashes>>
  <2>1. PICK t \in todo :
          /\ pc = "strip" /\ todo' = todo \ {t}
          /\ \/ /\ tasks' = IF tasks[t].live THEN [tasks EXCEPT ![t] = StrippedTask(@)]
                           ELSE tasks
                /\ UNCHANGED faults
             \/ Fails /\ UNCHANGED tasks
          /\ UNCHANGED <<src, posted, inflight, store, pc, seen, deny, breaker, aborted,
                         items, covered, plan, job, failed, edits, persons, crashes>>
    BY DEF StripDuplicate
  <2>2. faults' \in 0 .. MaxFaults
    BY <2>1, LimitAssumption DEF TypeOK, Fails
  <2>3. tasks' = [tasks EXCEPT ![t] = StrippedTask(@)] \/ tasks' = tasks
    BY <2>1
  <2> QED
    BY <2>1, <2>2, <2>3
<1>2. t \in TaskId /\ tasks[t] \in Task
  BY <1>1 DEF TypeOK
<1>3. /\ StrippedTask(tasks[t]) \in Task /\ KeyIsOwner(StrippedTask(tasks[t]))
      /\ StrippedTask(tasks[t]).owner = tasks[t].owner
      /\ StrippedTask(tasks[t]).live = tasks[t].live
  BY <1>2 DEF StrippedTask, Task, KeyIsOwner, None
<1>4. tasks' \in [TaskId -> Task]
  BY <1>1, <1>3 DEF TypeOK
<1>5. TypeOK'
  BY <1>1, <1>4 DEF TypeOK, store
<1>6. TasksGrow
  <2>1. posted' = posted /\ posted \in Nat
    BY <1>1, BoundAssumption DEF TypeOK
  <2>2. \A u \in TaskId : tasks'[u].live = tasks[u].live /\ tasks'[u].owner = tasks[u].owner
    BY <1>1, <1>2, <1>3 DEF TypeOK
  <2> QED
    BY <2>1, <2>2 DEF TasksGrow
<1>7. RowsLead' /\ MemoryLeads' /\ JobFits'
  BY <1>1, <1>6, RowsFrame, MemoryFrame DEF store, JobFits, AtCall
<1>8. TasksKeyed'
  BY <1>1, <1>2, <1>3 DEF TypeOK, TasksKeyed, KeyIsOwner
<1> QED
  BY <1>5, <1>7, <1>8

\* Reconciliation: a row keeps its id, loses it, or gets that of the task that wins.
LEMMA SyncOwns ==
  ASSUME OwnInv, SyncStore
  PROVE  OwnInv'
<1> USE DEF OwnInv
<1>1. ASSUME NEW h \in Homework
      PROVE  SyncedRow(seen, h, rows[h]) \in Row /\ RowLeads(h, SyncedRow(seen, h, rows[h]))
  <2>1. rows[h] \in Row /\ RowLeads(h, rows[h]) /\ seen \in [TaskId -> Task]
    BY DEF TypeOK, RowsLead
  <2>2. Marked(seen, h) # {} => Leads(h, Winner(seen, h))
    BY WinnerIsMarked, HomeworkAssumption DEF Marked, MemoryLeads, None
  <2> QED
    BY <2>1, <2>2, SyncedRowFacts DEF RowLeads, Queued
<1>2. rows' \in [Homework -> Row] /\ seen' \in [TaskId -> Task] /\ pc' \in PC
  BY <1>1, EmptyValues DEF SyncStore, PC
<1>3. TypeOK'
  <2>1. \A t \in TaskId : tasks[t].owner \in Homework \cup {None}
    BY DEF TypeOK, Task
  <2>2. lost' \subseteq Homework \cup {None}
    BY <2>1 DEF SyncStore
  <2> QED
    BY <1>2, <2>2 DEF TypeOK, SyncStore, world, used
<1>4. RowsLead'
  BY <1>1 DEF SyncStore, RowsLead, RowLeads, Queued, Leads, world
<1>5. MemoryLeads'
  BY DEF SyncStore, MemoryLeads, RowLeads, Queued, Leads, world, NoTask
<1>6. JobFits' /\ TasksKeyed'
  BY DEF SyncStore, JobFits, AtCall, TasksKeyed, world
<1> QED
  BY <1>3, <1>4, <1>5, <1>6
---------------------------------------------------------------------------
(* The steps of the apply loop.                                            *)

\* What an operation writes leads where the row it started from led.
LEMMA RowsFollow ==
  ASSUME NEW row \in Row, NEW item \in Item, NEW h, RowLeads(h, row)
  PROVE  /\ RowLeads(h, TouchedRow(row, item)) /\ RowLeads(h, CancelledRow(row))
         /\ RowLeads(h, PatchedRow(row, item)) /\ RowLeads(h, ClosedRow(row))
         /\ RowLeads(h, GoneRow(row)) /\ RowLeads(h, IntentRow(item))
         /\ \A op \in OpName : RowLeads(h, DoneRow(row, op, item))
                               /\ RowLeads(h, DeferredRow(row, op, item))
<1> USE DEF RowLeads, Queued
<1>1. RowLeads(h, TouchedRow(row, item)) /\ RowLeads(h, CancelledRow(row))
  BY DEF TouchedRow, CancelledRow, Row
<1>2. RowLeads(h, PatchedRow(row, item)) /\ RowLeads(h, ClosedRow(row))
  BY DEF PatchedRow, ClosedRow, Row, Closed
<1>3. RowLeads(h, GoneRow(row)) /\ RowLeads(h, IntentRow(item)) /\ RowLeads(h, NoRow)
  BY DEF GoneRow, IntentRow, NoRow, Row
<1>4. ASSUME NEW op \in OpName PROVE RowLeads(h, DoneRow(row, op, item))
  BY DEF DoneRow, Row, Closed
<1>5. ASSUME NEW op \in OpName PROVE RowLeads(h, DeferredRow(row, op, item))
  BY DEF DeferredRow, IntentRow, Row
<1> QED
  BY <1>1, <1>2, <1>3, <1>4, <1>5

\* In the middle of a step: job.h is a homework with a step in the plan.
AtWork == pc \in PC \ {"idle", "list", "strip", "fetch", "plan", "apply"}

\* The end of a step: the plan loses it, and the memory holds no ids of it.
LEMMA StepEnds ==
  ASSUME OwnInv, TasksGrow, AtWork, EndStep, UNCHANGED seen
  PROVE  /\ plan' \in [Homework -> Seq(Step)] /\ job' \in Job /\ pc' \in PC
         /\ JobFits' /\ MemoryLeads'
<1> USE DEF OwnInv
<1>1. job.h \in Homework /\ plan[job.h] # <<>>
  BY DEF JobFits, AtCall, AtWork
<1>2. plan[job.h] \in Seq(Step)
  BY <1>1 DEF TypeOK
<1>3. Tail(plan[job.h]) \in Seq(Step)
  BY <1>1, <1>2, HeadTailProperties
<1>4. plan' \in [Homework -> Seq(Step)]
  BY <1>3 DEF EndStep, TypeOK
<1>5. job' \in Job /\ pc' \in PC
  BY <1>1, EmptyValues DEF EndStep, PC
<1>6. JobFits'
  BY DEF EndStep, JobFits, AtCall
<1>7. posted \in Nat
  BY BoundAssumption DEF TypeOK
<1>8. \A h : \A t \in TaskId : Leads(h, t) => Leads(h, t)'
  BY <1>7, LeadsOn
<1>9. \A t \in TaskId : seen'[t].live /\ seen'[t].key # None => Leads(seen[t].key, t)'
  BY <1>8 DEF MemoryLeads
<1>10. job'.row = NoRow /\ job'.tgt = None
  BY DEF EndStep, NoJob
<1>11. MemoryLeads'
  BY <1>9, <1>10 DEF MemoryLeads, RowLeads, Queued, Leads, NoRow
<1> QED
  BY <1>4, <1>5, <1>6, <1>11

\* The middle of a step: the ids it now holds lead to its homework.
LEMMA StepGoesOn ==
  ASSUME OwnInv, TasksGrow, UNCHANGED seen, job' \in Job,
         job'.h = job.h, job'.row = job.row,
         (job.tgt # None => Leads(job.h, job.tgt))'
  PROVE  MemoryLeads'
<1> USE DEF OwnInv
<1>1. posted \in Nat /\ job.row \in Row
  BY BoundAssumption DEF TypeOK, Job
<1>2. \A h : \A t \in TaskId : Leads(h, t) => Leads(h, t)'
  BY <1>1, LeadsOn
<1>3. \A t \in TaskId : seen'[t].live /\ seen'[t].key # None => Leads(seen[t].key, t)'
  BY <1>2 DEF MemoryLeads
<1>4. \A h : \A row \in Row : RowLeads(h, row) => RowLeads(h, row)'
  BY <1>1, RowLeadsOn
<1>5. RowLeads(job.h, job.row)'
  BY <1>1, <1>4 DEF MemoryLeads, RowLeads, Leads, Queued
<1> QED
  BY <1>3, <1>5 DEF MemoryLeads, Leads

\* touch and cancel write the row alone.
LEMMA LocalOwns ==
  ASSUME OwnInv, NEW h \in Homework, LocalStep(h)
  PROVE  OwnInv'
<1> USE DEF OwnInv
<1>1. plan[h] \in Seq(Step) /\ plan[h] # <<>> /\ rows[h] \in Row /\ RowLeads(h, rows[h])
  BY DEF TypeOK, RowsLead, LocalStep, Turn
<1>2. Head(plan[h]) \in Step /\ Tail(plan[h]) \in Seq(Step)
  BY <1>1, HeadTailProperties
<1>3. Head(plan[h]).item \in Item
  BY <1>2 DEF Step
<1> DEFINE row == IF Head(plan[h]).op = "touch" THEN TouchedRow(rows[h], Head(plan[h]).item)
                  ELSE CancelledRow(rows[h])
<1>4. row \in Row /\ RowLeads(h, row)
  BY <1>1, <1>3, RowsWritten, RowsFollow
<1>5. rows' = [rows EXCEPT ![h] = row]
  BY DEF LocalStep
<1>6. rows' \in [Homework -> Row]
  BY <1>4, <1>5 DEF TypeOK
<1>7. plan' \in [Homework -> Seq(Step)] /\ job' \in Job
  BY <1>2, EmptyValues DEF LocalStep, TypeOK
<1>8. TypeOK'
  BY <1>6, <1>7 DEF TypeOK, LocalStep, world, pass, used
<1> HIDE DEF row
<1>9. RowsLead'
  BY <1>4, <1>5 DEF TypeOK, RowsLead, RowLeads, Queued, Leads, LocalStep, world
<1>10. MemoryLeads'
  BY DEF LocalStep, world, pass, MemoryLeads, RowLeads, Queued, Leads, NoJob, NoRow
<1>11. JobFits' /\ TasksKeyed'
  BY DEF LocalStep, JobFits, AtCall, TasksKeyed, world
<1> QED
  BY <1>8, <1>9, <1>10, <1>11

\* A step begins: the job holds the id of its homework's row.
LEMMA BeginOwns ==
  ASSUME OwnInv, NEW h \in Homework, BeginStep(h)
  PROVE  OwnInv'
<1> USE DEF OwnInv
<1>1. plan[h] \in Seq(Step) /\ plan[h] # <<>> /\ rows[h] \in Row /\ RowLeads(h, rows[h])
  BY DEF TypeOK, RowsLead, BeginStep, Turn
<1> DEFINE step == Head(plan[h])
<1>2. step \in Step
  BY <1>1, HeadTailProperties
<1>3. step.op \in StepOp \ {"touch", "cancel"} /\ step.item \in Item /\ step.derived \in BOOLEAN
  BY <1>2 DEF Step, BeginStep
<1>4. rows[h].task \in TaskId \cup {None}
  BY <1>1 DEF Row
<1>5. job' = [h |-> h, op |-> step.op, item |-> step.item, derived |-> step.derived,
              row |-> rows[h], att |-> 0,
              tgt |-> IF step.op \in {"create", "resume"} THEN None ELSE rows[h].task]
  BY DEF BeginStep
<1> HIDE DEF step
<1>6. job' \in Job
  BY <1>1, <1>3, <1>4, <1>5, LimitAssumption DEF Job
<1>7. pc' = FirstCall(step.op, rows[h])
  BY DEF BeginStep, step
<1>8. pc' \in PC
  BY <1>7 DEF FirstCall, PC
<1>9. TypeOK'
  BY <1>6, <1>8 DEF TypeOK, BeginStep, world, store, pass, used
<1>10. TasksGrow /\ RowsLead' /\ TasksKeyed'
  BY StillGrows, RowsFrame DEF BeginStep, world, store, TasksKeyed
<1>11. MemoryLeads'
  <2>1. UNCHANGED <<tasks, posted, seen>>
    BY DEF BeginStep, world, pass
  <2>2. /\ job'.h = h /\ job'.row = rows[h]
        /\ job'.tgt # None => job'.tgt = rows[h].task
    BY <1>5
  <2>3. \A t \in TaskId : (seen[t].live /\ seen[t].key # None => Leads(seen[t].key, t))'
    BY <2>1 DEF MemoryLeads, Leads
  <2>4. RowLeads(job.h, job.row)'
    BY <1>1, <2>1, <2>2 DEF RowLeads, Queued, Leads
  <2>5. (job.tgt # None => Leads(job.h, job.tgt))'
    BY <1>1, <2>1, <2>2 DEF RowLeads, Leads
  <2> QED
    BY <2>3, <2>4, <2>5 DEF MemoryLeads
<1>12. JobFits'
  <2>1. plan' = plan /\ job'.h = h /\ job'.op = step.op
    BY <1>5 DEF BeginStep
  <2> QED
    BY <1>1, <1>3, <1>7, <2>1 DEF JobFits, AtCall, FirstCall, StepOp, OpName
<1> QED
  BY <1>9, <1>10, <1>11, <1>12

\* A step that lacks its task ends the pass.
LEMMA NoTaskOwns ==
  ASSUME OwnInv, NEW h \in Homework, StepWithoutTask(h)
  PROVE  OwnInv'
  BY EndOwns DEF OwnInv, TypeOK, StepWithoutTask, store, used
---------------------------------------------------------------------------
(* The calls of a step.                                                    *)

\* What the invariant says of a step at work.
LEMMA WorkFacts ==
  ASSUME OwnInv, AtWork
  PROVE  /\ job.h \in Homework /\ job.item \in Item /\ job.derived \in BOOLEAN
         /\ job.row \in Row /\ RowLeads(job.h, job.row) /\ rows[job.h] \in Row
         /\ RowLeads(job.h, rows[job.h])
         /\ job.tgt \in TaskId \cup {None} /\ (job.tgt # None => Leads(job.h, job.tgt))
         /\ job.att \in Nat /\ posted \in 0 .. MaxTasks /\ posted \in Nat
         /\ job.h \notin {None}
<1>1. TypeOK /\ RowsLead /\ MemoryLeads
  BY DEF OwnInv
<1>2. job.h \in Homework
  BY DEF OwnInv, AtWork, JobFits, AtCall
<1>3. /\ job.item \in Item /\ job.derived \in BOOLEAN /\ job.row \in Row
      /\ job.tgt \in TaskId \cup {None} /\ job.att \in Nat
  BY <1>1, LimitAssumption DEF TypeOK, Job
<1>4. /\ rows[job.h] \in Row /\ RowLeads(job.h, rows[job.h]) /\ RowLeads(job.h, job.row)
      /\ job.tgt # None => Leads(job.h, job.tgt)
  BY <1>1, <1>2 DEF TypeOK, RowsLead, MemoryLeads
<1>5. posted \in 0 .. MaxTasks /\ posted \in Nat
  BY <1>1, BoundAssumption DEF TypeOK
<1> QED
  BY <1>2, <1>3, <1>4, <1>5, HomeworkAssumption DEF None

\* A request about one task changes that task alone, keeps its owner, and gives it
\* no marker but its owner's.
LEMMA EffectOwns ==
  ASSUME OwnInv, AtWork, pc \in TaskCalls, ~Gone, tasks' = Effect, UNCHANGED posted
  PROVE  /\ tasks' \in [TaskId -> Task] /\ TasksGrow
         /\ \A t \in TaskId : KeyIsOwner(tasks'[t]) /\ (tasks'[t].live => t <= posted)
<1>1. /\ tasks \in [TaskId -> Task]
      /\ \A t \in TaskId : KeyIsOwner(tasks[t]) /\ (tasks[t].live => t <= posted)
  BY DEF OwnInv, TypeOK, TasksKeyed
<1>2. job.h \in Homework /\ job.item \in Item /\ job.derived \in BOOLEAN
  BY WorkFacts
<1>3. CASE job.tgt \in TaskId
  <2> DEFINE old == tasks[job.tgt]
  <2>1. old \in Task /\ KeyIsOwner(old) /\ old.live /\ job.tgt <= posted /\ old.owner = job.h
    BY <1>1, <1>3, WorkFacts, HomeworkAssumption, BoundAssumption
    DEF Gone, Leads, TaskId, None
  <2>2. PICK new \in Task : /\ tasks' = [tasks EXCEPT ![job.tgt] = new]
                            /\ KeyIsOwner(new) /\ (new.live => new.owner = old.owner)
    <3>1. CASE pc = "attach"
      <4> DEFINE new == [old EXCEPT !.derived = TRUE]
      <4>1. new \in Task /\ KeyIsOwner(new) /\ new.owner = old.owner
        BY <2>1 DEF Task, KeyIsOwner
      <4>2. tasks' = [tasks EXCEPT ![job.tgt] = new]
        BY <3>1 DEF Effect
      <4> QED
        BY <4>1, <4>2
    <3>2. CASE pc = "patch"
      <4> DEFINE new == PatchedTask(old, job.h, job.item, job.derived)
      <4>1. new \in Task /\ KeyIsOwner(new) /\ new.owner = old.owner
        BY <1>2, <2>1, TaskPatched
      <4>2. tasks' = [tasks EXCEPT ![job.tgt] = new]
        BY <3>2 DEF Effect
      <4> QED
        BY <4>1, <4>2
    <3>3. CASE pc = "done"
      <4>1. (job.op = "patch_done" /\ job.item.done) \in BOOLEAN
        BY <1>2 DEF Item
      <4>2. PICK b \in BOOLEAN : tasks' = [tasks EXCEPT ![job.tgt] = [old EXCEPT !.done = b]]
        BY <3>3, <4>1 DEF Effect
      <4> DEFINE new == [old EXCEPT !.done = b]
      <4>3. new \in Task /\ KeyIsOwner(new) /\ new.owner = old.owner
        BY <2>1 DEF Task, KeyIsOwner
      <4> QED
        BY <4>2, <4>3
    <3>4. CASE pc = "close" /\ job.op = "close"
      <4> DEFINE new == [old EXCEPT !.done = TRUE]
      <4>1. new \in Task /\ KeyIsOwner(new) /\ new.owner = old.owner
        BY <2>1 DEF Task, KeyIsOwner
      <4>2. tasks' = [tasks EXCEPT ![job.tgt] = new]
        BY <3>4 DEF Effect
      <4> QED
        BY <4>1, <4>2
    <3>5. CASE pc = "close" /\ job.op = "delete"
      <4>1. NoTask \in Task /\ KeyIsOwner(NoTask) /\ ~NoTask.live
        BY EmptyValues DEF NoTask, KeyIsOwner
      <4>2. tasks' = [tasks EXCEPT ![job.tgt] = NoTask]
        BY <3>5 DEF Effect
      <4> QED
        BY <4>1, <4>2
    <3>6. pc = "close" => job.op \in {"close", "delete"}
      BY DEF OwnInv, JobFits, AtCall
    <3> QED
      BY <3>1, <3>2, <3>3, <3>4, <3>5, <3>6 DEF TaskCalls
  <2>3. tasks' \in [TaskId -> Task]
    BY <1>1, <2>2
  <2>4. \A t \in TaskId : KeyIsOwner(tasks'[t]) /\ (tasks'[t].live => t <= posted)
    BY <1>1, <1>3, <2>1, <2>2
  <2>5. TasksGrow
    BY <1>1, <1>3, <2>1, <2>2, WorkFacts DEF TasksGrow
  <2> QED
    BY <2>3, <2>4, <2>5
<1>4. CASE job.tgt \notin TaskId
  <2>1. DOMAIN Effect = TaskId /\ \A t \in TaskId : Effect[t] = tasks[t]
    BY <1>1, <1>4 DEF Effect, TaskCalls
  <2>2. tasks' = tasks
    BY <1>1, <1>4 DEF Effect, TaskCalls
  <2> QED
    BY <1>1, <2>2, StillGrows DEF OwnInv
<1> QED
  BY <1>3, <1>4

\* A POST creates a task with a new id, owned by the homework at hand.
LEMMA PostCreates ==
  ASSUME OwnInv, pc = "post", posted < MaxTasks, tasks' = Effect, posted' = posted + 1
  PROVE  /\ tasks' \in [TaskId -> Task] /\ posted' \in 0 .. MaxTasks /\ TasksGrow
         /\ \A t \in TaskId : KeyIsOwner(tasks'[t]) /\ (tasks'[t].live => t <= posted')
         /\ posted + 1 \in TaskId /\ tasks'[posted + 1].owner = job.h
<1>1. AtWork
  BY DEF AtWork, PC
<1> DEFINE new == PostedTask(job.h, job.item)
<1>2. tasks' = [tasks EXCEPT ![posted + 1] = new]
  BY DEF Effect
<1>3. new \in Task /\ KeyIsOwner(new) /\ new.owner = job.h
  BY <1>1, WorkFacts, TaskPosted
<1>4. posted \in Nat /\ posted + 1 \in TaskId /\ posted' \in 0 .. MaxTasks
  BY <1>1, WorkFacts, BoundAssumption DEF TaskId
<1>5. /\ tasks \in [TaskId -> Task]
      /\ \A t \in TaskId : t \in Nat /\ KeyIsOwner(tasks[t]) /\ (tasks[t].live => t <= posted)
  BY BoundAssumption DEF OwnInv, TypeOK, TasksKeyed, TaskId
<1> HIDE DEF new
<1>6. tasks' \in [TaskId -> Task]
  BY <1>2, <1>3, <1>5
<1>7. \A t \in TaskId : KeyIsOwner(tasks'[t]) /\ (tasks'[t].live => t <= posted')
  BY <1>2, <1>3, <1>4, <1>5
<1>8. TasksGrow
  BY <1>2, <1>3, <1>4, <1>5 DEF TasksGrow
<1> QED
  BY <1>2, <1>3, <1>4, <1>5, <1>6, <1>7, <1>8
\* The calls that find the task of a create.
LEMMA FindOwns ==
  ASSUME OwnInv, FindById \/ FindAnchor
  PROVE  OwnInv'
<1> USE DEF OwnInv
<1>1. AtWork
  BY DEF AtWork, PC, FindById, FindAnchor
<1>2. TasksGrow /\ RowsLead' /\ TasksKeyed' /\ UNCHANGED seen
  BY StillGrows, RowsFrame DEF FindById, FindAnchor, world, store, pass, TasksKeyed
<1>3. job' \in Job /\ job'.h = job.h /\ job'.row = job.row /\ job'.op = job.op
      /\ (job.tgt # None => Leads(job.h, job.tgt))'
  <2>1. CASE FindById
    <3>1. job.row.task \in TaskId \cup {None} /\ (job.row.task # None => Leads(job.h, job.row.task))
      BY <1>1, WorkFacts DEF Row, RowLeads
    <3>2. job' = [job EXCEPT !.tgt = job.row.task] \/ job' = job
      BY <2>1 DEF FindById
    <3>3. job \in Job /\ UNCHANGED <<tasks, posted>>
      BY <2>1 DEF FindById, TypeOK, world
    <3> QED
      BY <1>1, <3>1, <3>2, <3>3, WorkFacts DEF Job, Leads
  <2>2. CASE FindAnchor
    <3>1. PICK t \in Anchored : job' = [job EXCEPT !.tgt = t]
      BY <2>2 DEF FindAnchor
    <3>2. t \in TaskId /\ Leads(job.h, t)
      BY <3>1, <1>1, WorkFacts DEF Anchored, TasksKeyed, KeyIsOwner, Leads
    <3> QED
      BY <2>2, <3>1, <3>2 DEF FindAnchor, Job, Leads, TypeOK, world
  <2> QED
    BY <2>1, <2>2
<1>4. MemoryLeads'
  BY <1>2, <1>3, StepGoesOn
<1>5. JobFits'
  BY <1>1, <1>3 DEF FindById, FindAnchor, JobFits, AtCall, AtWork
<1>6. TypeOK'
  <2>1. persons' \in 0 .. MaxPersons
    BY ViewFacts DEF FindById, FindAnchor, TypeOK, used
  <2> QED
    BY <1>3, <2>1 DEF FindById, FindAnchor, TypeOK, world, store, pass, used, PC
<1> QED
  BY <1>2, <1>4, <1>5, <1>6

\* The intent row is written.
LEMMA IntentOwns ==
  ASSUME OwnInv, WriteIntent
  PROVE  OwnInv'
<1> USE DEF OwnInv
<1>1. AtWork
  BY DEF AtWork, PC, WriteIntent
<1>2. TasksGrow /\ MemoryLeads' /\ TasksKeyed'
  BY StillGrows, MemoryFrame DEF WriteIntent, world, pass, TasksKeyed
<1>3. IntentRow(job.item) \in Row /\ RowLeads(job.h, IntentRow(job.item))'
  <2>1. IntentRow(job.item) \in Row
    BY <1>1, WorkFacts, RowsWritten
  <2> QED
    BY <2>1 DEF RowLeads, Queued, IntentRow
<1>4. RowsLead' /\ rows' \in [Homework -> Row]
  <2>1. rows' = [rows EXCEPT ![job.h] = IntentRow(job.item)] /\ job' = job
    BY DEF WriteIntent
  <2> DEFINE row == IntentRow(job.item)
  <2>2. \A h \in Homework, r \in Row :
          RowLeads(h, r)' /\ rows' = [rows EXCEPT ![h] = r]
          => RowsLead' /\ rows' \in [Homework -> Row]
    BY <1>2, RowsWrite
  <2>3. RowLeads(job.h, row)'
    BY <1>3
  <2> QED
    BY <1>1, <1>3, <2>1, <2>2, WorkFacts DEF RowLeads, Queued, IntentRow
<1>5. JobFits'
  BY DEF WriteIntent, JobFits, AtCall
<1>6. TypeOK'
  <2>1. persons' \in 0 .. MaxPersons
    BY ViewFacts DEF WriteIntent
  <2> QED
    BY <1>4, <2>1 DEF WriteIntent, TypeOK, world, pass, PC
<1> QED
  BY <1>2, <1>4, <1>5, <1>6

\* The task is created, and the job holds its id.
LEMMA PostOwns ==
  ASSUME OwnInv, Post
  PROVE  OwnInv'
<1> USE DEF OwnInv
<1>1. AtWork
  BY DEF AtWork, PC, Post
<1>2. /\ tasks' \in [TaskId -> Task] /\ posted' \in 0 .. MaxTasks /\ TasksGrow
      /\ \A t \in TaskId : KeyIsOwner(tasks'[t]) /\ (tasks'[t].live => t <= posted')
      /\ posted + 1 \in TaskId /\ tasks'[posted + 1].owner = job.h
  BY PostCreates DEF Post
<1>3. RowsLead' /\ TasksKeyed'
  BY <1>2, RowsFrame DEF Post, store, TasksKeyed
<1>4. job' \in Job /\ job'.h = job.h /\ job'.row = job.row /\ job'.op = job.op
      /\ (job.tgt # None => Leads(job.h, job.tgt))'
  <2>1. job \in Job /\ job' = [job EXCEPT !.tgt = posted + 1]
    BY DEF TypeOK, Post
  <2>2. job' \in Job /\ job'.h = job.h /\ job'.row = job.row /\ job'.op = job.op
        /\ job'.tgt = posted + 1
    BY <1>2, <2>1 DEF Job
  <2>3. posted' = posted + 1 /\ posted' \in Nat
    BY <1>1, WorkFacts DEF Post
  <2> QED
    BY <1>2, <2>2, <2>3 DEF Leads
<1>5. MemoryLeads'
  BY <1>2, <1>4, StepGoesOn DEF Post, pass
<1>6. JobFits'
  BY <1>1, <1>4 DEF Post, JobFits, AtCall, AtWork
<1>7. TypeOK'
  BY <1>2, <1>4 DEF Post, TypeOK, store, pass, used, PC
<1> QED
  BY <1>3, <1>5, <1>6, <1>7

\* The id goes into the row.
LEMMA SaveOwns ==
  ASSUME OwnInv, SaveId
  PROVE  OwnInv'
<1> USE DEF OwnInv
<1>1. AtWork
  BY DEF AtWork, PC, SaveId
<1>2. TasksGrow /\ MemoryLeads' /\ TasksKeyed'
  BY StillGrows, MemoryFrame DEF SaveId, world, pass, TasksKeyed
<1>3. ASSUME NEW h \in Homework
      PROVE  rows'[h] \in Row /\ RowLeads(h, rows[h])'
  <2>1. rows[h] \in Row /\ RowLeads(h, rows[h])
    BY DEF TypeOK, RowsLead
  <2>2. \/ rows'[h] = rows[h]
        \/ h = job.h /\ rows'[h] = [rows[h] EXCEPT !.task = job.tgt]
    BY <1>1, WorkFacts DEF SaveId, TypeOK
  <2>3. UNCHANGED <<tasks, posted>>
    BY DEF SaveId, world
  <2> QED
    BY <1>1, <2>1, <2>2, <2>3, WorkFacts DEF Row, RowLeads, Queued, Leads
<1>4. rows' \in [Homework -> Row]
  BY <1>1, <1>3, WorkFacts DEF SaveId, TypeOK
<1>5. JobFits'
  BY DEF SaveId, JobFits, AtCall
<1>6. TypeOK'
  BY <1>4 DEF SaveId, TypeOK, world, pass, used, PC
<1> QED
  BY <1>2, <1>3, <1>5, <1>6 DEF RowsLead

\* A request about one task succeeds.
LEMMA TaskCallOwns ==
  ASSUME OwnInv, TaskCall
  PROVE  OwnInv'
<1> USE DEF OwnInv
<1>1. AtWork
  BY DEF AtWork, PC, TaskCall, TaskCalls
<1>2. /\ tasks' \in [TaskId -> Task] /\ TasksGrow
      /\ \A t \in TaskId : KeyIsOwner(tasks'[t]) /\ (tasks'[t].live => t <= posted)
  BY <1>1, EffectOwns DEF TaskCall
<1>3. RowsLead' /\ MemoryLeads' /\ TasksKeyed'
  BY <1>2, RowsFrame, MemoryFrame DEF TaskCall, store, pass, TasksKeyed
<1>4. JobFits'
  BY DEF TaskCall, JobFits, AtCall, TaskCalls
<1>5. TypeOK'
  BY <1>2 DEF TaskCall, TypeOK, store, pass, used, PC
<1> QED
  BY <1>3, <1>4, <1>5

\* A step ends by writing its homework's row: with its result, with what is left
\* after a 404, or with the operation deferred.
LEMMA RowWrittenOwns ==
  ASSUME OwnInv, AtWork, EndStep, NEW row \in Row, RowLeads(job.h, row),
         rows' = [rows EXCEPT ![job.h] = row] \/ rows' = rows,
         TasksGrow, UNCHANGED seen
  PROVE  RowsLead' /\ rows' \in [Homework -> Row]
<1> USE DEF OwnInv
<1>1. posted \in Nat /\ job.h \in Homework
  BY WorkFacts
<1>2. ASSUME NEW h \in Homework
      PROVE  rows'[h] \in Row /\ RowLeads(h, rows'[h])
  BY <1>1, WorkFacts DEF TypeOK, RowsLead
<1>3. \A h : \A r \in Row : RowLeads(h, r) => RowLeads(h, r)'
  BY <1>1, RowLeadsOn
<1>4. ASSUME NEW h \in Homework PROVE RowLeads(h, rows[h])'
  BY <1>2, <1>3 DEF RowLeads, Queued, Leads
<1> QED
  BY <1>1, <1>2, <1>4 DEF RowsLead, TypeOK
\* A step ends with its result in the row.
LEMMA StoreOwns ==
  ASSUME OwnInv, StoreResult
  PROVE  OwnInv'
<1> USE DEF OwnInv
<1>1. AtWork
  BY DEF AtWork, PC, StoreResult
<1>2. TasksGrow /\ TasksKeyed' /\ EndStep /\ UNCHANGED seen
  BY StillGrows DEF StoreResult, world, pass, TasksKeyed
<1>3. ResultRow \in Row /\ RowLeads(job.h, ResultRow)
  <2>1. \A op \in {"create", "resume"} :
          FinalizedRow(job.tgt, job.item) \in Row
          /\ RowLeads(job.h, FinalizedRow(job.tgt, job.item))
    BY <1>1, WorkFacts, RowsWritten DEF FinalizedRow, RowLeads, Queued
  <2>2. /\ PatchedRow(job.row, job.item) \in Row /\ ClosedRow(job.row) \in Row
        /\ \A op \in OpName : DoneRow(job.row, op, job.item) \in Row
    BY <1>1, WorkFacts, RowsWritten
  <2>3. /\ RowLeads(job.h, PatchedRow(job.row, job.item))
        /\ RowLeads(job.h, ClosedRow(job.row))
        /\ \A op \in OpName : RowLeads(job.h, DoneRow(job.row, op, job.item))
    BY <1>1, WorkFacts, RowsFollow
  <2>4. NoRow \in Row /\ RowLeads(job.h, NoRow)
    BY EmptyValues DEF NoRow, RowLeads, Queued
  <2> QED
    BY <2>1, <2>2, <2>3, <2>4 DEF ResultRow, OpName
<1>4. RowsLead' /\ rows' \in [Homework -> Row]
  BY <1>1, <1>2, <1>3, RowWrittenOwns DEF StoreResult
<1>5. /\ plan' \in [Homework -> Seq(Step)] /\ job' \in Job /\ pc' \in PC
      /\ JobFits' /\ MemoryLeads'
  BY <1>1, <1>2, StepEnds
<1>6. TypeOK'
  BY <1>4, <1>5 DEF TypeOK, StoreResult, world, pass, used
<1> QED
  BY <1>2, <1>4, <1>5, <1>6

\* The row that a failed call starts from.
LEMMA RowNowFacts ==
  ASSUME OwnInv, AtWork
  PROVE  RowNow \in Row /\ RowLeads(job.h, RowNow)
  BY WorkFacts DEF RowNow

\* A step ends with a 404.
LEMMA GoneOwns ==
  ASSUME OwnInv, TaskGone
  PROVE  OwnInv'
<1> USE DEF OwnInv
<1>1. AtWork
  BY DEF AtWork, PC, TaskGone, Gone, TaskCalls
<1>2. TasksGrow /\ TasksKeyed' /\ EndStep /\ UNCHANGED seen
  BY StillGrows DEF TaskGone, world, pass, TasksKeyed
<1>3. GoneRow(RowNow) \in Row /\ RowLeads(job.h, GoneRow(RowNow))
  BY <1>1, RowNowFacts, RowsWritten, RowsFollow, EmptyValues
<1>4. RowsLead' /\ rows' \in [Homework -> Row]
  BY <1>1, <1>2, <1>3, RowWrittenOwns DEF TaskGone
<1>5. /\ plan' \in [Homework -> Seq(Step)] /\ job' \in Job /\ pc' \in PC
      /\ JobFits' /\ MemoryLeads'
  BY <1>1, <1>2, StepEnds
<1>6. TypeOK'
  BY <1>4, <1>5 DEF TypeOK, TaskGone, world, pass, used
<1> QED
  BY <1>2, <1>4, <1>5, <1>6

\* So it does with a 404 that is not its task's: an answer to any call that reads or
\* writes more than the task.
LEMMA StrayOwns ==
  ASSUME OwnInv, StrayGone
  PROVE  OwnInv'
<1> USE DEF OwnInv
<1>1. AtWork
  BY DEF AtWork, PC, StrayGone
<1>2. TasksGrow /\ TasksKeyed' /\ EndStep /\ UNCHANGED seen
  BY StillGrows DEF StrayGone, world, pass, TasksKeyed
<1>3. GoneRow(RowNow) \in Row /\ RowLeads(job.h, GoneRow(RowNow))
  BY <1>1, RowNowFacts, RowsWritten, RowsFollow, EmptyValues
<1>4. RowsLead' /\ rows' \in [Homework -> Row]
  BY <1>1, <1>2, <1>3, RowWrittenOwns DEF StrayGone
<1>5. /\ plan' \in [Homework -> Seq(Step)] /\ job' \in Job /\ pc' \in PC
      /\ JobFits' /\ MemoryLeads'
  BY <1>1, <1>2, StepEnds
<1>6. faults' \in 0 .. MaxFaults /\ lost' \subseteq Homework \cup {None}
  BY <1>1, WorkFacts, LimitAssumption DEF TypeOK, StrayGone, Fails
<1>7. TypeOK'
  BY <1>4, <1>5, <1>6 DEF TypeOK, StrayGone, world, pass
<1> QED
  BY <1>2, <1>4, <1>5, <1>7

\* After a failed call the step starts over, or ends with its operation deferred.
LEMMA RetryOwns ==
  ASSUME OwnInv, AtWork, pc \notin {"save", "store"}, TasksGrow, UNCHANGED seen, RetryOrDefer
  PROVE  /\ rows' \in [Homework -> Row] /\ plan' \in [Homework -> Seq(Step)]
         /\ job' \in Job /\ failed' \in Nat /\ pc' \in PC
         /\ RowsLead' /\ MemoryLeads' /\ JobFits'
<1> USE DEF OwnInv
<1>1. pc # "close" => job.op \in OpName
  BY DEF JobFits, AtCall, AtWork, PC, OpName
<1>2. CASE pc # "close" /\ job.att + 1 < RetryMax
  <2>1. /\ job' = [job EXCEPT !.att = @ + 1,
                              !.tgt = IF job.op \in {"create", "resume"} THEN None ELSE @]
        /\ pc' = FirstCall(job.op, job.row) /\ UNCHANGED <<rows, plan, failed>>
    BY <1>2 DEF RetryOrDefer
  <2>2. job.att + 1 \in 0 .. RetryMax
    BY <1>2, WorkFacts, LimitAssumption
  <2>3. /\ job' \in Job /\ job'.h = job.h /\ job'.row = job.row /\ job'.op = job.op
        /\ job'.tgt \in {None, job.tgt}
    BY <2>1, <2>2, WorkFacts DEF TypeOK, Job
  <2>4. pc' \in PC /\ JobFits'
    BY <1>1, <1>2, <2>1, <2>3 DEF FirstCall, PC, JobFits, AtCall, OpName, AtWork
  <2>5. (job.tgt # None => Leads(job.h, job.tgt))'
    <3>1. \A h : \A t \in TaskId : Leads(h, t) => Leads(h, t)'
      BY WorkFacts, LeadsOn
    <3> QED
      BY <2>3, <3>1, WorkFacts DEF Leads
  <2>6. MemoryLeads' /\ RowsLead'
    BY <2>1, <2>3, <2>5, StepGoesOn, RowsFrame
  <2> QED
    BY <2>1, <2>3, <2>4, <2>6 DEF TypeOK
<1>3. CASE ~(pc # "close" /\ job.att + 1 < RetryMax)
  <2>1. /\ rows' = IF pc = "close" THEN rows
                   ELSE [rows EXCEPT ![job.h] = DeferredRow(RowNow, job.op, job.item)]
        /\ failed' = failed + 1 /\ EndStep
    BY <1>3 DEF RetryOrDefer
  <2>2. \E row \in Row : /\ RowLeads(job.h, row)
                         /\ rows' = [rows EXCEPT ![job.h] = row] \/ rows' = rows
    <3>1. CASE pc = "close"
      BY <2>1, <3>1, RowNowFacts
    <3>2. CASE pc # "close"
      <4>1. /\ DeferredRow(RowNow, job.op, job.item) \in Row
            /\ RowLeads(job.h, DeferredRow(RowNow, job.op, job.item))
        BY <1>1, <3>2, RowNowFacts, WorkFacts, RowsWritten, RowsFollow
      <4> QED
        BY <2>1, <3>2, <4>1
    <3> QED
      BY <3>1, <3>2
  <2>3. RowsLead' /\ rows' \in [Homework -> Row]
    BY <2>1, <2>2, RowWrittenOwns
  <2>4. failed' \in Nat
    BY <2>1 DEF TypeOK
  <2> QED
    BY <2>1, <2>3, <2>4, StepEnds
<1> QED
  BY <1>2, <1>3

\* A failed call keeps the invariant, whether the server did its part or not.
LEMMA FailsOwns ==
  ASSUME OwnInv, CallFails
  PROVE  OwnInv'
<1> USE DEF OwnInv
<1>1. AtWork /\ pc \notin {"save", "store"}
  BY DEF AtWork, PC, CallFails, TaskCalls
<1>2. faults \in Nat /\ faults' \in 0 .. MaxFaults
  BY LimitAssumption DEF TypeOK, CallFails, Fails
<1>3. /\ tasks' \in [TaskId -> Task] /\ posted' \in 0 .. MaxTasks
      /\ inflight' \subseteq [call: Nat, task: Task] /\ TasksGrow /\ TasksKeyed'
  <2>1. CASE UNCHANGED <<tasks, posted, inflight>>
    BY <2>1, StillGrows DEF TypeOK, TasksKeyed
  <2>2. CASE /\ pc = "post" /\ posted < MaxTasks
             /\ tasks' = Effect /\ posted' = posted + 1 /\ UNCHANGED inflight
    BY <2>2, PostCreates DEF TypeOK, TasksKeyed
  <2>3. CASE /\ pc = "post" /\ LatePosts
             /\ inflight' = inflight \cup
                  {[call |-> faults, task |-> PostedTask(job.h, job.item)]}
             /\ UNCHANGED <<tasks, posted>>
    <3> DEFINE late == [call |-> faults, task |-> PostedTask(job.h, job.item)]
    <3>1. /\ PostedTask(job.h, job.item) \in Task
          /\ KeyIsOwner(PostedTask(job.h, job.item))
      BY <1>1, WorkFacts, TaskPosted
    <3>2. late \in [call: Nat, task: Task] /\ KeyIsOwner(late.task)
      BY <1>2, <3>1
    <3> HIDE DEF late
    <3>3. inflight' = inflight \cup {late}
      BY <2>3 DEF late
    <3>4. \A p \in inflight' : KeyIsOwner(p.task)
      BY <3>2, <3>3 DEF TasksKeyed
    <3> QED
      BY <2>3, <3>2, <3>3, <3>4, StillGrows DEF TypeOK, TasksKeyed
  <2>4. CASE pc \in TaskCalls /\ tasks' = Effect /\ UNCHANGED <<posted, inflight>>
    BY <1>1, <2>4, EffectOwns DEF CallFails, TypeOK, TasksKeyed
  <2> QED
    BY <2>1, <2>2, <2>3, <2>4 DEF CallFails
<1>4. /\ rows' \in [Homework -> Row] /\ plan' \in [Homework -> Seq(Step)]
      /\ job' \in Job /\ failed' \in Nat /\ pc' \in PC
      /\ RowsLead' /\ MemoryLeads' /\ JobFits'
  BY <1>1, <1>3, RetryOwns DEF CallFails, pass
<1>5. TypeOK'
  BY <1>2, <1>3, <1>4 DEF CallFails, TypeOK, pass
<1> QED
  BY <1>3, <1>4, <1>5

---------------------------------------------------------------------------
(* The theorems.                                                           *)

\* Every step keeps the invariant.
LEMMA NextOwns ==
  ASSUME OwnInv, [Next]_vars
  PROVE  OwnInv'
<1>1. CASE Environment
  BY <1>1, EnvironmentOwns
<1>2. CASE Progress
  BY <1>2, StartOwns, ListOwns, StripOwns, SyncOwns, FetchOwns, DiffOwns, LocalOwns,
     BeginOwns, NoTaskOwns, FindOwns, IntentOwns, PostOwns, SaveOwns, TaskCallOwns,
     StoreOwns, GoneOwns, FinishOwns
  DEF Progress
<1>3. CASE Failure
  BY <1>3, CrashOwns, AbortOwns, FetchOwns, StrayOwns, FailsOwns DEF Failure
<1>4. CASE UNCHANGED vars
  BY <1>4 DEF vars, world, store, memory, pass, used, OwnInv, TypeOK, JobFits, AtCall, TasksKeyed,
              RowsLead, MemoryLeads, RowLeads, Queued, Leads, KeyIsOwner
<1> QED
  BY <1>1, <1>2, <1>3, <1>4 DEF Next

\* The inductive invariant holds in every reachable state, for every homework set,
\* configuration and bound.
THEOREM OwnInvariant == Spec => []OwnInv
<1>1. Init => OwnInv
  BY InitOwns
<1>2. OwnInv /\ [Next]_vars => OwnInv'
  BY NextOwns
<1> QED
  BY <1>1, <1>2, PTL DEF Spec

\* The state keeps its type: whatever fails and whenever a pass dies, the rows, the
\* queued operations and the plans stay ones that the engine can work on.
THEOREM TypeCorrect == Spec => []TypeOK
<1>1. OwnInv => TypeOK
  BY DEF OwnInv
<1> QED
  BY <1>1, OwnInvariant, PTL

\* A row never leads to another homework's task, whatever was adopted, redirected by
\* the reconciler, retried, committed late or deleted on the way.
THEOREM OwnTask == Spec => []OwnsItsTask
<1>1. OwnInv => OwnsItsTask
  BY DEF OwnInv, RowsLead, RowLeads, Leads, OwnsItsTask
<1> QED
  BY <1>1, OwnInvariant, PTL
===============================================================================
