---------------------------- MODULE SyncProperties ----------------------------
(***************************************************************************)
(* What the sync engine promises, stated over the state of SyncEngine.     *)
(***************************************************************************)
EXTENDS SyncEngine

\* Every variable has its type; a plan holds at most one homework's steps per entry.
TypeOK ==
  /\ src \in [Homework -> Item]
  /\ tasks \in [TaskId -> Task] /\ posted \in 0 .. MaxTasks
  /\ inflight \subseteq [call: Nat, task: Task]
  /\ rows \in [Homework -> Row] /\ strikes \in 0 .. BreakerThreshold /\ fresh \in BOOLEAN
  /\ lost \subseteq Homework \cup {None}
  /\ pc \in PC /\ seen \in [TaskId -> Task] /\ todo \subseteq TaskId /\ deny \subseteq TaskId
  /\ breaker \in BOOLEAN /\ aborted \in BOOLEAN
  /\ items \in [Homework -> Item] /\ covered \in BOOLEAN
  /\ plan \in [Homework -> Seq(Step)] /\ job \in Job /\ failed \in Nat
  /\ edits \in 0 .. MaxEdits /\ persons \in 0 .. MaxPersons
  /\ faults \in 0 .. MaxFaults /\ crashes \in 0 .. MaxCrashes

\* In the middle of a step.
AtCall == pc \notin {"idle", "list", "strip", "fetch", "plan", "apply"}

---------------------------------------------------------------------------
(* Identity: which task belongs to which homework.                         *)

Maps(h, t) == rows[h].task = t

\* A row never leads to another homework's task, whatever was redirected, retried,
\* adopted or stripped on the way; so no two rows share a task.
OwnsItsTask ==
  \A h \in Homework : rows[h].task # None =>
    /\ rows[h].task <= posted
    /\ tasks[rows[h].task].live => tasks[rows[h].task].owner = h

\* The inductive invariant behind TypeOK and OwnsItsTask.  An id leads to homework h
\* if it was handed out and its task, as long as it lives, was posted for h.  Every
\* id the engine holds in its memory leads to the homework it is held for.
Leads(h, t) == t <= posted /\ (tasks[t].live => tasks[t].owner = h)

KeyIsOwner(task) == task.key \in {None, task.owner}

\* A deferred row has its operation queued.
Queued(row) == row.state = "deferred" => row.op \in OpName

RowLeads(h, row) == Queued(row) /\ (row.task # None => Leads(h, row.task))

\* The operation at hand is one that the call at hand belongs to, and its step is
\* still in the plan.
JobFits ==
  /\ AtCall => job.h \in Homework /\ plan[job.h] # <<>>
  /\ pc \in {"byid", "anchor", "post", "save"} => job.op \in {"create", "resume"}
  /\ pc = "attach" => job.op \in {"create", "resume", "patch"}
  /\ pc = "patch" => job.op = "patch"
  /\ pc = "done" => job.op \in {"patch_done", "reopen"}
  /\ pc = "close" => job.op \in {"close", "delete"}

TasksKeyed ==
  /\ \A t \in TaskId : KeyIsOwner(tasks[t]) /\ (tasks[t].live => t <= posted)
  /\ \A p \in inflight : KeyIsOwner(p.task)

RowsLead == \A h \in Homework : RowLeads(h, rows[h])

MemoryLeads ==
  /\ \A t \in TaskId : seen[t].live /\ seen[t].key # None => Leads(seen[t].key, t)
  /\ RowLeads(job.h, job.row)
  /\ job.tgt # None => Leads(job.h, job.tgt)

OwnInv == TypeOK /\ JobFits /\ TasksKeyed /\ RowsLead /\ MemoryLeads

\* Where markers are kept and no POST is committed late, a homework never has two
\* tasks: a lost answer, a crash or a retry finds the task that is already there.
SingleTask ==
  \A t, u \in TaskId :
    tasks[t].live /\ tasks[u].live /\ tasks[t].owner = tasks[u].owner => t = u

\* A task that no row leads to is the work of an unfinished create, and the row says so, or
\* else Vikunja has misled the engine about it since it last reconciled: a 404 that was not
\* the task's, a list from which the task was missing.  A crash or a lost answer alone
\* leaves no task that nobody knows about.
NoForgottenTask ==
  \A t \in TaskId : tasks[t].live =>
    \/ Maps(tasks[t].owner, t)
    \/ rows[tasks[t].owner].state \in Pending
    \/ tasks[t].owner \in lost

\* The inductive invariant behind the three properties around here, for a Vikunja that
\* keeps markers and commits no POST late.
LiveOf(h) == {t \in TaskId : tasks[t].live /\ tasks[t].owner = h}

\* Every task carries its owner's marker; so nothing is ever stripped or denylisted.
TasksMarked ==
  /\ \A t \in TaskId : tasks[t].live =>
       tasks[t].owner \in Homework /\ tasks[t].key = tasks[t].owner
  /\ inflight = {} /\ todo = {} /\ deny = {}

\* What reconciliation has listed: no homework twice, and a homework that has a task with
\* no other.
SeenOnce ==
  /\ \A t, u \in TaskId :
       seen[t].live /\ seen[u].live /\ seen[t].key = seen[u].key => t = u
  /\ pc = "strip" => \A t, u \in TaskId :
       tasks[t].live /\ seen[u].live => (t = u <=> seen[u].key = tasks[t].owner)

\* A task is that of its row, or the row is pending and holds no id; reconciliation
\* leaves the former only.  A row that was misled holds no id.
RowKnows ==
  /\ lost \subseteq Homework
  /\ \A h \in Homework : rows[h].state = "absent" => rows[h].task = None
  /\ \A h \in Homework : \A t \in LiveOf(h) :
       \/ rows[h].task = t
       \/ /\ rows[h].task = None
          /\ h \in lost \/ (rows[h].state \in Pending /\ pc \notin {"fetch", "plan"})

\* A step that ends a homework's story is planned alone, and what it rests on lasts.
PlanKnows ==
  \A h \in Homework : \A i \in DOMAIN plan[h] :
    plan[h][i].op \in {"cancel", "close", "delete"} =>
      /\ Len(plan[h]) = 1
      /\ plan[h][i].op = "cancel" => LiveOf(h) = {} \/ h \in lost
      /\ plan[h][i].op # "cancel" => rows[h].task # None

\* The step at work holds the only task that there may be.
JobKnows ==
  AtCall =>
    /\ pc = "byid" => job.row.task # None
    /\ pc \in {"post", "save"} => rows[job.h].state \in Pending
    /\ pc = "post" => rows[job.h].task = None /\ LiveOf(job.h) = {}
    /\ pc \notin {"byid", "anchor", "post"} => LiveOf(job.h) \subseteq {job.tgt}
    /\ pc = "store" /\ job.op \notin OpName \cup {"close"} => LiveOf(job.h) = {}
    /\ job.op \notin {"create", "resume"} =>
         rows[job.h] = job.row /\ job.tgt = job.row.task
    /\ rows[job.h].state = "absent" => job.row.state = "absent"

OneInv == SingleTask /\ TasksMarked /\ SeenOnce /\ RowKnows /\ PlanKnows /\ JobKnows

\* "The state DB remains authoritative for already mapped tasks": a row lets go of
\* its task only when the task is gone, or Vikunja says so: answers a step about it with 404,
\* or lists the project without it.
MappingKept ==
  [][\A h \in Homework :
       LET t == rows[h].task IN
       t # None /\ tasks[t].live => rows'[h].task = t \/ ~tasks'[t].live \/ h \in lost']_vars

\* The engine implements TaskBond.  A homework's task is the live one that was created
\* for it; it is bound if its row leads to a live task, owed if the row is pending.
TaskOf(h) == IF LiveOf(h) = {} THEN None ELSE CHOOSE t \in LiveOf(h) : TRUE
BondOf(h) ==
  IF \E t \in TaskId : rows[h].task = t /\ tasks[t].live THEN "bound"
  ELSE IF rows[h].state \in Pending THEN "owed" ELSE "free"

Bonds == INSTANCE TaskBond WITH
  have <- [h \in Homework |-> TaskOf(h)], bond <- [h \in Homework |-> BondOf(h)],
  doubt <- lost, given <- posted

\* With reliable markers and POSTs the engine's protocol of intent row, POST and id keeps
\* every promise of TaskBond, across crashes, lost answers, retries and reconciliation.
KeepsBonds == Bonds!Spec

---------------------------------------------------------------------------
(* Closing and completion.                                                 *)

\* The close policy reaches a homework only in a pass whose fetch counted as covering the
\* window and did not show it, over the whole way from the fetch through the plan to the
\* call, and only past its due date.  That the homework is gone from the source does not
\* follow: a truncated history counts as covering (module Fetch).
CloseNeedsCover ==
  pc = "close" => /\ covered /\ items[job.h].at # "listed"
                  /\ job.h \in PastDue /\ rows[job.h].state \in {"created", "updated"}

\* Without mirror_done the program takes a tick away only in order to reopen a
\* homework that it had closed, or whose reopening it still owes.
TickStands ==
  [][\A t \in TaskId :
       /\ ~MirrorDone /\ persons' = persons
       /\ tasks[t].done /\ tasks'[t].live /\ ~tasks'[t].done
       => \/ job.row.state \in Closed
          \/ job.row.state = "deferred" /\ job.row.op \in {"reopen", "patch_done"}]_vars

---------------------------------------------------------------------------
(* Nothing owed is lost.                                                   *)

\* When a pass stamps last_sync_ts no row is left half created or deferred.
HeartbeatMeansSettled ==
  pc = "idle" /\ fresh => \A h \in Homework : rows[h].state \notin Pending

\* Between passes the fingerprint in a row is that of the text in its task: the diff
\* compares the source with the fingerprint alone, so a row that claims a version
\* its task does not have leaves the task stale for good.
FingerprintFaithful ==
  pc = "idle" => \A h \in Homework :
    LET task == Listed(tasks, rows[h].task) IN
    rows[h].state \in {"created", "updated"} /\ task.live /\ rows[h].fp # Unset
      => task.content \in {rows[h].fp, Foreign}

\* The inductive invariant behind CloseNeedsCover and HeartbeatMeansSettled.  A plan
\* is made once in a pass, and the step at work is its next.
PlanInOrder ==
  /\ AtCall => job.op = Head(plan[job.h]).op
  /\ pc \in {"idle", "list", "strip", "fetch", "plan"} => \A h \in Homework : plan[h] = <<>>

\* What is planned to be closed was not listed by a fetch that covers, is past due, and the
\* step stands alone: its row is as it was when the plan was made.
ClosesUnlisted ==
  \A h \in Homework : \A i \in DOMAIN plan[h] :
    plan[h][i].op \in {"close", "delete"} =>
      /\ covered /\ items[h].at # "listed" /\ h \in PastDue
      /\ Len(plan[h]) = 1 /\ rows[h].state \in {"created", "updated"}

\* A pending row has its operation queued; as long as nothing has failed in a pass that
\* may stamp, the row's next step is about that operation.
PendingPlanned ==
  /\ \A h \in Homework : rows[h].state \in Pending => rows[h].op \in OpName
  /\ pc # "idle" => ~fresh
  /\ (pc = "apply" \/ AtCall) /\ Heartbeat =>
       \A h \in Homework : rows[h].state \in Pending =>
         plan[h] # <<>> /\ Head(plan[h]).op \notin {"touch", "close", "delete"}

PassInv == PlanInOrder /\ ClosesUnlisted /\ PendingPlanned /\ HeartbeatMeansSettled

---------------------------------------------------------------------------
(* Liveness.                                                               *)

\* The homework has its task, finished, labelled, open again if it is open at the
\* source and, with mirror_done, ticked exactly if it is done there.
Mirrored(h) ==
  LET row == rows[h]  task == Listed(tasks, row.task) IN
  /\ task.live /\ task.derived /\ row.state \notin Pending
  /\ src[h].done \/ row.state \notin Closed
  /\ MirrorDone => task.done = src[h].done

\* Once failures, people and the source are quiet, every listed homework has its
\* task, and keeps it.
EventuallyMirrored ==
  \A h \in Homework : <>[](src[h].at = "listed" => Mirrored(h))

\* ... and the breaker does not stay open.
BreakerRecovers == <>[](strikes = 0)

\* Duplicates that a POST committed after its time-out has left are retired: in the
\* end one task of a homework carries its marker, and it is the one of the row.
DuplicatesRetired ==
  \A h \in Homework :
    <>[](\A t \in TaskId :
           tasks[t].live /\ tasks[t].key = h => rows[h].task = t)

\* Every edit at the source reaches the task in the end.
EditsArrive ==
  \A h \in Homework :
    <>[](src[h].at = "listed" => Listed(tasks, rows[h].task).content = src[h].content)
===============================================================================
