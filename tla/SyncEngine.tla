------------------------------ MODULE SyncEngine ------------------------------
(***************************************************************************)
(* One account's sync engine against its EduPage account, its Vikunja      *)
(* project and its state database.                                         *)
(*                                                                         *)
(* A pass (SyncEngine.run) reconciles, fetches, plans and applies.  Each   *)
(* HTTP call and each database write is an action of its own, so that a    *)
(* teacher, a person in Vikunja, a late server or a crash can come in      *)
(* between any two of them.  A call that fails has had its effect on the   *)
(* server or not.  The run lock (module RunLock) admits one pass at a      *)
(* time, so the engine's memory is one set of variables.                   *)
(***************************************************************************)
EXTENDS DiffPlan

CONSTANTS
  RetryMax,           \* config sync.retry_max
  BreakerThreshold,   \* config sync.breaker_threshold
  LatePosts,          \* may a timed-out POST be committed after its time-out?
  Shifts,             \* the lists that another client's deletion may leave incomplete
  MaxEdits,           \* bound: changes at the source
  MaxPersons,         \* bound: changes that people and other clients make in Vikunja
  MaxFaults,          \* bound: failed calls, stray 404s, uncovered and truncated fetches
  MaxCrashes          \* bound: crashes, kills and errors that end a pass

\* The list_tasks calls: of the reconciler, of the diff, and two of a create.
ListCalls == {"list", "plan", "byid", "anchor"}

ASSUME LimitAssumption ==
  /\ RetryMax \in Nat \ {0} /\ BreakerThreshold \in Nat \ {0}
  /\ LatePosts \in BOOLEAN /\ Shifts \subseteq ListCalls
  /\ MaxEdits \in Nat /\ MaxPersons \in Nat /\ MaxFaults \in Nat /\ MaxCrashes \in Nat

VARIABLES
  \* The world.
  src,       \* the homework as EduPage has it
  tasks,     \* the project's tasks
  posted,    \* how many task ids were handed out
  inflight,  \* POSTs that timed out and that the server may still commit, by call number
  \* The state database: homework_map, and from meta breaker_strikes and
  \* whether the last pass stamped last_sync_ts.
  rows, strikes, fresh,
  lost,      \* history only: the homework about whose task Vikunja has misled the
             \* engine, by a 404 or a list, in or since the last reconciliation
  \* The engine's memory; it does not outlive a pass.
  pc,
  seen,      \* the task list as reconciliation listed it
  todo,      \* duplicates still to strip
  deny,      \* denylisted_ids
  breaker,   \* breaker_open: deferred operations only
  aborted,   \* the except branch of run: a call failed before the plan was made
  items,     \* the fetched homework
  covered,   \* covered_ok
  plan,      \* the steps left, per homework
  job,       \* the step at hand
  failed,    \* deferred + errors of this pass
  \* How much of each bound is used.
  edits, persons, faults, crashes

world == <<src, tasks, posted, inflight>>
store == <<rows, strikes, fresh, lost>>
pass == <<seen, todo, deny, breaker, aborted, items, covered>>
memory == <<pc, pass, plan, job, failed>>
used == <<edits, persons, faults, crashes>>
vars == <<world, store, memory, used>>

\* A step at work: `row` is the row as _apply_step read it, once, before the
\* retry loop; `tgt` the task the next calls are about; `att` the attempts so far.
Job == [h: Homework \cup {None}, op: StepOp \cup {"none"}, item: Item, derived: BOOLEAN,
        row: Row, tgt: TaskId \cup {None}, att: 0 .. RetryMax]
NoJob(h) == [h |-> h, op |-> "none", item |-> NoItem, derived |-> FALSE,
             row |-> NoRow, tgt |-> None, att |-> 0]

PC == {"idle", "list", "strip", "fetch", "plan", "apply", "byid", "anchor", "post",
       "save", "attach", "patch", "done", "close", "store"}

Init ==
  /\ src \in [Homework -> {i \in Item : i.at # "removed" /\ i.content = 1 /\ ~i.done}]
  /\ tasks = [t \in TaskId |-> NoTask] /\ posted = 0 /\ inflight = {}
  /\ rows = [h \in Homework |-> NoRow] /\ strikes = 0 /\ fresh = FALSE /\ lost = {}
  /\ pc = "idle" /\ seen = [t \in TaskId |-> NoTask] /\ todo = {} /\ deny = {}
  /\ breaker = FALSE /\ aborted = FALSE
  /\ items = [h \in Homework |-> NoItem] /\ covered = FALSE
  /\ plan = [h \in Homework |-> <<>>] /\ job = NoJob(None) /\ failed = 0
  /\ edits = 0 /\ persons = 0 /\ faults = 0 /\ crashes = 0

---------------------------------------------------------------------------
(* The source and the people.                                              *)

Teacher(h, item) ==
  /\ edits < MaxEdits /\ edits' = edits + 1
  /\ item # src[h] /\ src' = [src EXCEPT ![h] = item]
  /\ UNCHANGED <<tasks, posted, inflight, store, memory, persons, faults, crashes>>

\* A new version of the text.
TeacherEdits(h) ==
  /\ src[h].at = "listed" /\ src[h].content < MaxContent
  /\ Teacher(h, [src[h] EXCEPT !.content = @ + 1])

\* doneMaxCas is observed, or no longer.
DoneToggles(h) ==
  /\ src[h].at = "listed"
  /\ Teacher(h, [src[h] EXCEPT !.done = ~@])

\* Assigned, removed (removed = 1), restored, or out of the window.
Moves(h) == \E at \in {"absent", "listed", "removed"} :
  Teacher(h, [src[h] EXCEPT !.at = at])

Person(t, task) ==
  /\ persons < MaxPersons /\ persons' = persons + 1
  /\ tasks[t].live /\ tasks' = [tasks EXCEPT ![t] = task]
  /\ UNCHANGED <<src, posted, inflight, store, memory, edits, faults, crashes>>

PersonDeletes(t) == Person(t, NoTask)
PersonTicks(t) == Person(t, [tasks[t] EXCEPT !.done = ~@])
PersonEdits(t) == Person(t, [tasks[t] EXCEPT !.content = Foreign, !.derived = FALSE])

\* The server commits a POST whose client has stopped waiting.
LateCommit == \E p \in inflight :
  /\ posted < MaxTasks /\ posted' = posted + 1
  /\ tasks' = [tasks EXCEPT ![posted + 1] = p.task]
  /\ inflight' = inflight \ {p}
  /\ UNCHANGED <<src, store, memory, used>>

---------------------------------------------------------------------------
(* Beginning and end of a pass.                                            *)

ResetMemory ==
  /\ pc' = "idle" /\ seen' = [t \in TaskId |-> NoTask] /\ todo' = {} /\ deny' = {}
  /\ breaker' = FALSE /\ aborted' = FALSE
  /\ items' = [h \in Homework |-> NoItem] /\ covered' = FALSE
  /\ plan' = [h \in Homework |-> <<>>] /\ job' = NoJob(None) /\ failed' = 0

\* The process dies: a kill, a reboot, or an error that no handler of the pass
\* takes (authentication, permission, any other VikunjaError).
Crash ==
  /\ pc # "idle" /\ crashes < MaxCrashes /\ crashes' = crashes + 1
  /\ ResetMemory
  /\ UNCHANGED <<world, store, edits, persons, faults>>

StartPass ==
  /\ pc = "idle"
  /\ pc' = "list" /\ breaker' = (strikes >= BreakerThreshold) /\ fresh' = FALSE
  /\ UNCHANGED <<world, rows, strikes, lost, seen, todo, deny, aborted, items, covered,
                 plan, job, failed, used>>

Fails == faults < MaxFaults /\ faults' = faults + 1

\* A transient error in reconciliation, fetch or diff: the except branch of run
\* goes on with the deferred operations alone.
AbortPass ==
  /\ pc \in {"list", "fetch", "plan"} /\ ~(pc = "plan" /\ breaker)
  /\ Fails
  /\ pc' = "apply" /\ aborted' = TRUE
  /\ plan' = [h \in Homework |-> DeferredSteps(rows[h])]
  /\ items' = [h \in Homework |-> NoItem] /\ covered' = FALSE
  /\ UNCHANGED <<world, store, seen, todo, deny, breaker, job, failed,
                 edits, persons, crashes>>

\* Only "at least the threshold" is ever asked of the strikes.
Cap(n) == IF n > BreakerThreshold THEN BreakerThreshold ELSE n

\* Mutated form: a deferred-only pass without failures leaves the strikes alone.
StrikesAfterNeverReset ==
  IF aborted THEN Cap(strikes + 1 + failed)
  ELSE IF failed > 0 THEN Cap(strikes + failed)
  ELSE IF covered /\ ~breaker THEN 0 ELSE strikes

StrikesAfter ==
  IF aborted THEN Cap(strikes + 1 + failed)
  ELSE IF failed > 0 THEN Cap(strikes + failed)
  ELSE IF covered \/ breaker THEN 0 ELSE strikes

\* Mutated form: the heartbeat is stamped although work was deferred.
HeartbeatAlways == ~aborted /\ ~breaker /\ covered

\* _finish_pass writes last_sync_ts.
Heartbeat == ~aborted /\ ~breaker /\ covered /\ failed = 0

FinishPass ==
  /\ pc = "apply" /\ \A h \in Homework : plan[h] = <<>>
  /\ strikes' = StrikesAfter /\ fresh' = Heartbeat
  /\ ResetMemory
  /\ UNCHANGED <<world, rows, lost, used>>

---------------------------------------------------------------------------
(* Reconciliation, fetch and diff.                                         *)

\* list_tasks reads page by page: if another client deletes a task meanwhile, one that
\* lives may move to a page that was read before, and is not listed (module Listing).
\* The other client's task need not be of this project's homework.
Overlooks(call, hidden) ==
  \/ hidden = None /\ UNCHANGED persons
  \/ /\ call \in Shifts /\ hidden \in TaskId /\ tasks[hidden].live
     /\ persons < MaxPersons /\ persons' = persons + 1
View(hidden) == [t \in TaskId |-> IF t = hidden THEN NoTask ELSE tasks[t]]

ListTasks ==
  /\ pc = "list"
  /\ \E hidden \in TaskId \cup {None} :
       /\ Overlooks("list", hidden)
       /\ seen' = View(hidden) /\ todo' = Losers(View(hidden)) /\ deny' = Losers(View(hidden))
  /\ pc' = "strip"
  /\ UNCHANGED <<world, store, breaker, aborted, items, covered, plan, job, failed,
                 edits, faults, crashes>>

\* A failure is logged and the next duplicate is taken.
StripDuplicate == \E t \in todo :
  /\ pc = "strip"
  /\ todo' = todo \ {t}
  /\ \/ /\ tasks' = IF tasks[t].live THEN [tasks EXCEPT ![t] = StrippedTask(@)] ELSE tasks
        /\ UNCHANGED faults
     \/ Fails /\ UNCHANGED tasks
  /\ UNCHANGED <<src, posted, inflight, store, pc, seen, deny, breaker, aborted, items,
                 covered, plan, job, failed, edits, persons, crashes>>

\* The one transaction of _sync_store; nothing reads the task list afterwards.
SyncStore ==
  /\ pc = "strip" /\ todo = {}
  /\ rows' = [h \in Homework |-> SyncedRow(seen, h, rows[h])]
  /\ lost' = {tasks[t].owner : t \in {u \in TaskId : tasks[u].live /\ ~seen[u].live}}
  /\ seen' = [t \in TaskId |-> NoTask]
  /\ pc' = "fetch"
  /\ UNCHANGED <<world, strikes, fresh, todo, deny, breaker, aborted, items, covered,
                 plan, job, failed, used>>

\* `got` is what the merged answers hold.
Fetch(got, complete) ==
  /\ pc = "fetch"
  /\ items' = [h \in Homework |-> IF h \in got THEN src[h] ELSE NoItem]
  /\ covered' = complete
  /\ pc' = "plan"
  /\ UNCHANGED <<world, store, seen, todo, deny, breaker, aborted, plan, job, failed,
                 edits, persons, crashes>>

Fetchable == {h \in Homework : src[h].at # "absent"}

\* The history holds everything in the window.
FetchWindow == Fetch(Fetchable, TRUE) /\ UNCHANGED faults

\* A history that is not empty counts as covering the window whatever it lacks; and the
\* merge leaves out types that only the configuration includes.
FetchTruncated == \E got \in SUBSET Fetchable : Fetch(got, TRUE) /\ Fails

\* The history request failed or came back empty.
FetchLoginOnly == \E got \in SUBSET Fetchable : Fetch(got, FALSE) /\ Fails

\* The record that a list holds of task t, or NoTask.
Listed(list, t) == IF t = None THEN NoTask ELSE list[t]

Diff ==
  /\ pc = "plan" /\ ~breaker
  /\ \E hidden \in TaskId \cup {None} :
       /\ Overlooks("plan", hidden)
       /\ plan' = [h \in Homework |->
                     Steps(h, rows[h], items[h], Listed(View(hidden), rows[h].task), covered)]
  /\ pc' = "apply"
  /\ UNCHANGED <<world, store, pass, job, failed, edits, faults, crashes>>

DiffDeferredOnly ==
  /\ pc = "plan" /\ breaker
  /\ plan' = [h \in Homework |-> DeferredSteps(rows[h])]
  /\ pc' = "apply"
  /\ UNCHANGED <<world, store, pass, job, failed, used>>

---------------------------------------------------------------------------
(* Apply: _apply_step and the loop around it.                              *)

\* Steps run in plan order: a homework's steps in one go, fetched homework first.
Turn(h) ==
  /\ plan[h] # <<>>
  /\ job.h \in Homework \ {h} => plan[job.h] = <<>>
  /\ items[h].at = "absent" =>
       \A g \in Homework : items[g].at # "absent" => plan[g] = <<>>

\* Mutated form: a patch goes straight to the labels.
FirstCallSkipsPatch(op, row) ==
  CASE op \in {"create", "resume"} -> IF row.task # None THEN "byid" ELSE "anchor"
    [] op = "patch" -> "attach"
    [] op \in {"patch_done", "reopen"} -> "done"
    [] OTHER -> "close"

FirstCall(op, row) ==
  CASE op \in {"create", "resume"} -> IF row.task # None THEN "byid" ELSE "anchor"
    [] op = "patch" -> "patch"
    [] op \in {"patch_done", "reopen"} -> "done"
    [] OTHER -> "close"

NeedsTask(op) == op \in {"patch", "patch_done", "reopen"}

\* touch, persist_fingerprint and cancel_pending_create write the row, no more.
LocalStep(h) ==
  /\ pc = "apply" /\ Turn(h) /\ Head(plan[h]).op \in {"touch", "cancel"}
  /\ rows' = [rows EXCEPT ![h] = IF Head(plan[h]).op = "touch"
                                 THEN TouchedRow(@, Head(plan[h]).item)
                                 ELSE CancelledRow(@)]
  /\ plan' = [plan EXCEPT ![h] = Tail(@)] /\ job' = NoJob(h)
  /\ UNCHANGED <<world, strikes, fresh, lost, pc, pass, failed, used>>

BeginStep(h) ==
  LET step == Head(plan[h]) IN
  /\ pc = "apply" /\ Turn(h) /\ step.op \notin {"touch", "cancel"}
  /\ NeedsTask(step.op) => rows[h].task # None
  /\ job' = [h |-> h, op |-> step.op, item |-> step.item, derived |-> step.derived,
             row |-> rows[h], att |-> 0,
             tgt |-> IF step.op \in {"create", "resume"} THEN None ELSE rows[h].task]
  /\ pc' = FirstCall(step.op, rows[h])
  /\ UNCHANGED <<world, store, pass, plan, failed, used>>

\* An earlier step of this pass met a 404 and removed the row or its task id: the
\* assert, the attribute access or the request for task "None" ends the pass.
StepWithoutTask(h) ==
  /\ pc = "apply" /\ Turn(h) /\ NeedsTask(Head(plan[h]).op) /\ rows[h].task = None
  /\ ResetMemory
  /\ UNCHANGED <<world, store, used>>

EndStep ==
  /\ pc' = "apply" /\ job' = NoJob(job.h)
  /\ plan' = [plan EXCEPT ![job.h] = Tail(@)]

---------------------------------------------------------------------------
(* The calls of one step.                                                  *)

\* Mutated form: the marker is not looked for.
AnchoredNever == {}

\* Mutated form: any marked task will do.
AnchoredAny == {t \in TaskId : tasks[t].live /\ tasks[t].key # None /\ t \notin deny}

\* Tasks that _ensure_anchor can find for the step's homework.
Anchored == {t \in TaskId : /\ tasks[t].live /\ tasks[t].key = job.h
                            /\ t \notin deny}

\* The project after the call at hand has had its effect.  "attach" stands for the
\* labels and the bucket, "close" for the request of either delete policy.
Effect ==
  CASE pc = "post" -> [tasks EXCEPT ![posted + 1] = PostedTask(job.h, job.item)]
    [] pc = "attach" -> [tasks EXCEPT ![job.tgt].derived = TRUE]
    [] pc = "patch" -> [tasks EXCEPT ![job.tgt] =
                          PatchedTask(@, job.h, job.item, job.derived)]
    [] pc = "done" -> [tasks EXCEPT ![job.tgt].done = job.op = "patch_done" /\ job.item.done]
    [] pc = "close" /\ job.op = "close" -> [tasks EXCEPT ![job.tgt].done = TRUE]
    [] pc = "close" /\ job.op = "delete" -> [tasks EXCEPT ![job.tgt] = NoTask]
    [] OTHER -> tasks

\* Requests about one task answer 404 once it is gone.
TaskCalls == {"attach", "patch", "done", "close"}
Gone == pc \in TaskCalls /\ ~tasks[job.tgt].live

\* A list_tasks call of a create: the row's own task, then any task with the marker.
FindById ==
  /\ pc = "byid"
  /\ \E hidden \in {None, job.row.task} :
       /\ Overlooks("byid", hidden)
       /\ IF View(hidden)[job.row.task].live
          THEN job' = [job EXCEPT !.tgt = job.row.task] /\ pc' = "attach"
          ELSE pc' = "anchor" /\ UNCHANGED job
  /\ UNCHANGED <<world, store, pass, plan, failed, edits, faults, crashes>>

FindAnchor == \E t \in Anchored :
  /\ pc = "anchor"
  /\ job' = [job EXCEPT !.tgt = t] /\ pc' = "attach"
  /\ UNCHANGED <<world, store, pass, plan, failed, used>>

\* Mutated form: no intent row before the POST.
WriteIntentSkipped ==
  /\ pc = "anchor" /\ Anchored = {}
  /\ pc' = "post"
  /\ UNCHANGED <<world, store, pass, plan, job, failed, used>>

\* The intent row goes in before the POST, over whatever row there is.
WriteIntent ==
  /\ pc = "anchor"
  /\ \E hidden \in Anchored \cup {None} :
       Overlooks("anchor", hidden) /\ Anchored \ {hidden} = {}
  /\ rows' = [rows EXCEPT ![job.h] = IntentRow(job.item)]
  /\ pc' = "post"
  /\ UNCHANGED <<world, strikes, fresh, lost, pass, plan, job, failed, edits, faults,
                 crashes>>

Post ==
  /\ pc = "post" /\ posted < MaxTasks
  /\ tasks' = Effect /\ posted' = posted + 1
  /\ job' = [job EXCEPT !.tgt = posted + 1] /\ pc' = "save"
  /\ UNCHANGED <<src, inflight, store, pass, plan, failed, used>>

SaveId ==
  /\ pc = "save"
  /\ rows' = IF rows[job.h].state = "absent" THEN rows
             ELSE [rows EXCEPT ![job.h].task = job.tgt]
  /\ pc' = "attach"
  /\ UNCHANGED <<world, strikes, fresh, lost, pass, plan, job, failed, used>>

\* A PATCH is followed by the labels and the bucket; any other call by the row.
TaskCall ==
  /\ pc \in TaskCalls /\ ~Gone
  /\ tasks' = Effect
  /\ pc' = IF pc = "patch" THEN "attach" ELSE "store"
  /\ UNCHANGED <<src, posted, inflight, store, pass, plan, job, failed, used>>

ResultRow ==
  CASE job.op \in {"create", "resume"} -> FinalizedRow(job.tgt, job.item)
    [] job.op = "patch" -> PatchedRow(job.row, job.item)
    [] job.op \in {"patch_done", "reopen"} -> DoneRow(job.row, job.op, job.item)
    [] job.op = "close" -> ClosedRow(job.row)
    [] OTHER -> NoRow

StoreResult ==
  /\ pc = "store"
  /\ rows' = [rows EXCEPT ![job.h] = ResultRow]
  /\ EndStep
  /\ UNCHANGED <<world, strikes, fresh, lost, pass, failed, used>>

\* 404 or 410: _handle_gone; a close leaves the row to the reconciler.
RowNow == IF rows[job.h].state = "absent" THEN job.row ELSE rows[job.h]

TaskGone ==
  /\ Gone
  /\ rows' = IF pc = "close" THEN rows ELSE [rows EXCEPT ![job.h] = GoneRow(RowNow)]
  /\ EndStep
  /\ UNCHANGED <<world, strikes, fresh, lost, pass, failed, used>>

\* The same for a 404 about something else than the task that the step is about: the
\* project, a label, a bucket.  The handler does not tell them apart.
StrayGone ==
  /\ pc \in {"byid", "anchor", "post", "attach"} /\ ~Gone
  /\ Fails
  /\ rows' = [rows EXCEPT ![job.h] = GoneRow(RowNow)]
  /\ lost' = lost \cup {job.h}
  /\ EndStep
  /\ UNCHANGED <<world, strikes, fresh, pass, failed, edits, persons, crashes>>

\* A transient error: the next attempt starts over with the row as first read;
\* after RetryMax attempts the operation is deferred.  A close is not retried.
RetryOrDefer ==
  IF pc # "close" /\ job.att + 1 < RetryMax
  THEN /\ job' = [job EXCEPT !.att = @ + 1,
                             !.tgt = IF job.op \in {"create", "resume"} THEN None ELSE @]
       /\ pc' = FirstCall(job.op, job.row)
       /\ UNCHANGED <<rows, plan, failed>>
  ELSE /\ rows' = IF pc = "close" THEN rows
                  ELSE [rows EXCEPT ![job.h] = DeferredRow(RowNow, job.op, job.item)]
       /\ failed' = failed + 1
       /\ EndStep

\* The call fails, and the server has done its part or has not.
CallFails ==
  /\ pc \in TaskCalls \cup {"byid", "anchor", "post"} /\ ~Gone
  /\ Fails
  /\ \/ UNCHANGED <<tasks, posted, inflight>>
     \/ /\ pc = "post" /\ posted < MaxTasks
        /\ tasks' = Effect /\ posted' = posted + 1 /\ UNCHANGED inflight
     \/ /\ pc = "post" /\ LatePosts
        /\ inflight' = inflight \cup {[call |-> faults, task |-> PostedTask(job.h, job.item)]}
        /\ UNCHANGED <<tasks, posted>>
     \/ /\ pc \in TaskCalls
        /\ tasks' = Effect /\ UNCHANGED <<posted, inflight>>
  /\ RetryOrDefer
  /\ UNCHANGED <<src, strikes, fresh, lost, pass, edits, persons, crashes>>

---------------------------------------------------------------------------
(* The specification.                                                      *)

Environment ==
  \/ \E h \in Homework : TeacherEdits(h) \/ DoneToggles(h) \/ Moves(h)
  \/ \E t \in TaskId : PersonDeletes(t) \/ PersonTicks(t) \/ PersonEdits(t)
  \/ LateCommit

\* What the engine does when nothing fails.
Progress ==
  \/ StartPass \/ ListTasks \/ StripDuplicate \/ SyncStore \/ FetchWindow
  \/ Diff \/ DiffDeferredOnly
  \/ \E h \in Homework : LocalStep(h) \/ BeginStep(h) \/ StepWithoutTask(h)
  \/ FindById \/ FindAnchor \/ WriteIntent \/ Post \/ SaveId
  \/ TaskCall \/ StoreResult \/ TaskGone \/ FinishPass

Failure ==
  Crash \/ AbortPass \/ FetchTruncated \/ FetchLoginOnly \/ StrayGone \/ CallFails

Next == Environment \/ Progress \/ Failure

Spec == Init /\ [][Next]_vars

\* The daemon starts pass after pass, and a pass without a hanging call goes on.
FairSpec == Spec /\ WF_vars(Progress)
===============================================================================
