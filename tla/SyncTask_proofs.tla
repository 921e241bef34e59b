---------------------------- MODULE SyncTask_proofs ----------------------------
(***************************************************************************)
(* For any homework, versions, task ids, configuration and bounds, with a  *)
(* Vikunja that keeps markers, commits no POST after its time-out and does *)
(* not hide a task from a create that looks for its marker: a homework     *)
(* never has two tasks; and no task is forgotten and no row lets go of its *)
(* task unless Vikunja has said that the task is gone.                     *)
(***************************************************************************)
EXTENDS SyncPass_proofs

Reliable == MarkersKept /\ ~LatePosts /\ "anchor" \notin Shifts

\* No task has the id None.
LEMMA NoneIsNoTask == None \notin TaskId
  BY BoundAssumption DEF None, TaskId

---------------------------------------------------------------------------
(* What a step may do to the tasks.                                        *)

\* Tasks keep owner and marker, or go.
TasksShrink ==
  \A t \in TaskId : tasks'[t].live =>
    tasks[t].live /\ tasks'[t].owner = tasks[t].owner /\ tasks'[t].key = tasks[t].key

\* If tasks only go, what is said of them stays true, and no homework gets a task.
LEMMA ShrinkKeeps ==
  ASSUME SingleTask, TasksMarked, TasksShrink, UNCHANGED <<inflight, todo, deny>>
  PROVE  SingleTask' /\ TasksMarked' /\ \A h : LiveOf(h)' \subseteq LiveOf(h)
  BY DEF SingleTask, TasksMarked, TasksShrink, LiveOf

\* A live task that carries a homework's marker, or that its row or the step at work
\* leads to, is the only one.
LEMMA OnlyTask ==
  ASSUME SingleTask, NEW h, NEW t \in LiveOf(h)
  PROVE  LiveOf(h) \subseteq {t}
  BY DEF SingleTask, LiveOf

\* What the rest of a homework's plan says once its first step is over: it was more
\* than one step, so it ends nothing.
LEMMA RestEndsNothing ==
  ASSUME OwnInv, PlanKnows, NEW h \in Homework, plan[h] # <<>>, NEW i \in DOMAIN Tail(plan[h])
  PROVE  Tail(plan[h])[i].op \notin {"cancel", "close", "delete"}
<1>1. plan[h] \in Seq(Step)
  BY DEF OwnInv, TypeOK
<1>2. i + 1 \in DOMAIN plan[h] /\ Tail(plan[h])[i] = plan[h][i + 1] /\ Len(plan[h]) # 1
  BY <1>1
<1> QED
  BY <1>2 DEF PlanKnows

\* The step at work is the first of its homework's plan; if that ends nothing, neither
\* does any other.
LEMMA FirstEndsNothing ==
  ASSUME OwnInv, PassInv, PlanKnows, AtCall, job.op \in OpName, NEW i \in DOMAIN plan[job.h]
  PROVE  plan[job.h][i].op \notin {"cancel", "close", "delete"}
<1>1. job.h \in Homework /\ plan[job.h] \in Seq(Step) /\ plan[job.h] # <<>>
  BY DEF OwnInv, JobFits, TypeOK
<1>2. plan[job.h][1].op = job.op
  BY <1>1 DEF PassInv, PlanInOrder
<1>3. ASSUME plan[job.h][i].op \in {"cancel", "close", "delete"} PROVE FALSE
  <2>1. Len(plan[job.h]) = 1
    BY <1>1, <1>3 DEF PlanKnows
  <2>2. plan[job.h][i].op = job.op
    BY <1>1, <1>2, <2>1
  <2> QED
    BY <1>3, <2>2 DEF OpName
<1> QED
  BY <1>3

---------------------------------------------------------------------------
(* The steps of the world, and the beginning and end of a pass.            *)

\* If tasks only go and the engine does nothing, everything it knows stays true.
LEMMA WorldKeepsOne ==
  ASSUME OneInv, TasksShrink, UNCHANGED <<rows, lost, inflight, memory>>
  PROVE  OneInv'
<1> USE DEF OneInv
<1>1. SingleTask' /\ TasksMarked' /\ \A h : LiveOf(h)' \subseteq LiveOf(h)
  BY ShrinkKeeps DEF memory, pass
<1>2. SeenOnce'
  BY DEF SeenOnce, TasksShrink, memory, pass
<1>3. RowKnows' /\ PlanKnows'
  BY <1>1 DEF RowKnows, PlanKnows, memory, pass
<1>4. JobKnows'
  BY <1>1 DEF JobKnows, AtCall, memory, pass
<1> QED
  BY <1>1, <1>2, <1>3, <1>4

\* The teacher and the people make no task, and nothing is in flight.
LEMMA EnvironmentShrinks ==
  ASSUME OwnInv, OneInv, Environment
  PROVE  TasksShrink
<1>1. tasks \in [TaskId -> Task]
  BY DEF OwnInv, TypeOK
<1>2. CASE \E h \in Homework : TeacherEdits(h) \/ DoneToggles(h) \/ Moves(h)
  BY <1>2 DEF TeacherEdits, DoneToggles, Moves, Teacher, TasksShrink
<1>3. ASSUME NEW t \in TaskId, NEW task, Person(t, task), task.live =>
               task.owner = tasks[t].owner /\ task.key = tasks[t].key
      PROVE  TasksShrink
  BY <1>1, <1>3 DEF Person, TasksShrink
<1>4. ASSUME NEW t \in TaskId, PersonDeletes(t) \/ PersonTicks(t) \/ PersonEdits(t)
      PROVE  TasksShrink
  <2>1. tasks[t] \in Task /\ ~NoTask.live
    BY <1>1 DEF NoTask
  <2>2. /\ [tasks[t] EXCEPT !.done = ~@].owner = tasks[t].owner
        /\ [tasks[t] EXCEPT !.done = ~@].key = tasks[t].key
        /\ [tasks[t] EXCEPT !.content = Foreign, !.derived = FALSE].owner = tasks[t].owner
        /\ [tasks[t] EXCEPT !.content = Foreign, !.derived = FALSE].key = tasks[t].key
    BY <2>1 DEF Task
  <2> QED
    BY <1>3, <1>4, <2>1, <2>2 DEF PersonDeletes, PersonTicks, PersonEdits
<1>5. ~LateCommit
  BY DEF LateCommit, OneInv, TasksMarked
<1> QED
  BY <1>2, <1>4, <1>5 DEF Environment

\* ... so what the engine knows stays true.
LEMMA EnvironmentKeepsOne ==
  ASSUME OwnInv, OneInv, Environment
  PROVE  OneInv'
<1>1. ~LateCommit
  BY DEF LateCommit, OneInv, TasksMarked
<1>2. UNCHANGED <<rows, lost, inflight, memory>>
  BY <1>1 DEF Environment, TeacherEdits, DoneToggles, Moves, Teacher, PersonDeletes,
              PersonTicks, PersonEdits, Person, store
<1>3. TasksShrink
  BY EnvironmentShrinks
<1> QED
  BY <1>2, <1>3, WorldKeepsOne

\* The end of a pass, whichever it is.
LEMMA EndKeepsOne ==
  ASSUME OneInv, ResetMemory, UNCHANGED <<tasks, inflight, rows, lost>>
  PROVE  OneInv'
<1> USE DEF OneInv
<1>1. /\ pc' = "idle" /\ plan' = [h \in Homework |-> <<>>]
      /\ seen' = [t \in TaskId |-> NoTask] /\ todo' = {} /\ deny' = {}
  BY DEF ResetMemory
<1>2. SingleTask' /\ TasksMarked' /\ \A h : LiveOf(h)' = LiveOf(h)
  BY <1>1 DEF SingleTask, TasksMarked, LiveOf
<1>3. SeenOnce'
  BY <1>1 DEF SeenOnce, NoTask
<1>4. RowKnows' /\ PlanKnows' /\ JobKnows'
  BY <1>1, <1>2 DEF RowKnows, PlanKnows, JobKnows, AtCall
<1> QED
  BY <1>2, <1>3, <1>4

\* A step between the calls that writes neither rows nor tasks keeps what is known if
\* its plan does.
LEMMA QuietKeepsOne ==
  ASSUME OneInv, UNCHANGED <<tasks, inflight, rows, lost, todo, deny>>,
         ~AtCall', pc' \in {"fetch", "plan"} => pc \in {"fetch", "plan"},
         SeenOnce', PlanKnows'
  PROVE  OneInv'
<1>1. SingleTask' /\ TasksMarked' /\ \A h : LiveOf(h)' = LiveOf(h)
  BY DEF OneInv, SingleTask, TasksMarked, LiveOf
<1>2. RowKnows' /\ JobKnows'
  BY <1>1 DEF OneInv, RowKnows, JobKnows
<1> QED
  BY <1>1, <1>2 DEF OneInv

---------------------------------------------------------------------------
(* Reconciliation, fetch and diff.                                         *)

\* The task list, whatever it lacks, holds no homework twice, and so nobody loses.
LEMMA ListKeepsOne ==
  ASSUME OwnInv, OneInv, ListTasks
  PROVE  OneInv'
<1> USE DEF OneInv
<1>0. PICK hidden : /\ Overlooks("list", hidden) /\ seen' = View(hidden)
                    /\ todo' = Losers(View(hidden)) /\ deny' = Losers(View(hidden))
  BY DEF ListTasks
<1>a. \A t \in TaskId : seen'[t].live => seen'[t] = tasks[t]
  BY <1>0, ViewFacts
<1>1. Losers(seen') = {}
  <2> SUFFICES ASSUME NEW t \in TaskId, NEW h \in Homework,
                      t \in Marked(seen', h), t # Winner(seen', h)
               PROVE  FALSE
    BY DEF Losers
  <2>1. Winner(seen', h) \in Marked(seen', h)
    BY WinnerIsMarked
  <2> QED
    BY <1>a, <2>1 DEF Marked, SingleTask, TasksMarked
<1>2. /\ UNCHANGED <<tasks, inflight, rows, lost, plan>>
      /\ todo' = {} /\ deny' = {} /\ pc' = "strip" /\ todo = {} /\ deny = {}
  BY <1>0, <1>1 DEF ListTasks, world, store, TasksMarked
<1>3. SeenOnce'
  BY <1>2, <1>a DEF SeenOnce, SingleTask, TasksMarked
<1>4. PlanKnows'
  BY <1>2 DEF PlanKnows, LiveOf
<1> QED
  BY <1>2, <1>3, <1>4, QuietKeepsOne DEF AtCall

\* Reconciliation leads every row to the one task that its homework has, if the list held
\* it; if not, the row is left with it or without a task.
LEMMA SyncLeads ==
  ASSUME OwnInv, OneInv, SyncStore, NEW h \in Homework, NEW t \in LiveOf(h)
  PROVE  /\ seen[t].live => rows'[h].task = t
         /\ ~seen[t].live => h \in lost' /\ rows'[h].task \in {t, None}
<1>1. rows'[h] = SyncedRow(seen, h, rows[h]) /\ pc = "strip"
  BY DEF SyncStore
<1>2. rows[h] \in Row /\ rows[h].task \in {t, None} /\ t \in TaskId /\ tasks[t].live
      /\ tasks[t].owner = h
  BY DEF OwnInv, TypeOK, OneInv, RowKnows, LiveOf
<1>3. CASE seen[t].live
  <2>1. t \in Marked(seen, h)
    BY <1>1, <1>2, <1>3 DEF OneInv, SeenOnce, Marked
  <2>2. Winner(seen, h) = t
    BY <2>1, WinnerIsMarked DEF OneInv, SeenOnce, Marked
  <2> QED
    BY <1>1, <1>2, <1>3, <2>1, <2>2 DEF SyncedRow, AdoptedRow, Row
<1>4. CASE ~seen[t].live
  <2>1. Marked(seen, h) = {}
    BY <1>1, <1>2, <1>4 DEF OneInv, SeenOnce, Marked
  <2>2. rows'[h] \in {rows[h], NoRow}
    BY <1>1, <2>1 DEF SyncedRow
  <2>3. h \in lost'
    BY <1>2, <1>4 DEF SyncStore
  <2> QED
    BY <1>2, <1>4, <2>2, <2>3 DEF NoRow
<1> QED
  BY <1>3, <1>4

\* ... and after it no row waits for a task that was listed.
LEMMA SyncKeepsOne ==
  ASSUME OwnInv, PassInv, OneInv, SyncStore
  PROVE  OneInv'
<1> USE DEF OneInv
<1>1. /\ pc = "strip" /\ pc' = "fetch" /\ UNCHANGED <<tasks, inflight, plan, todo, deny>>
      /\ rows' = [h \in Homework |-> SyncedRow(seen, h, rows[h])]
      /\ seen' = [t \in TaskId |-> NoTask]
  BY DEF SyncStore, world
<1>2. SingleTask' /\ TasksMarked' /\ \A h : LiveOf(h)' = LiveOf(h)
  BY <1>1 DEF SingleTask, TasksMarked, LiveOf
<1>3. SeenOnce'
  BY <1>1 DEF SeenOnce, NoTask
<1>4. ASSUME NEW h \in Homework, NEW t \in LiveOf(h)
      PROVE  rows'[h].task = t \/ (rows'[h].task = None /\ h \in lost')
  BY <1>4, SyncLeads
<1>5. ASSUME NEW h \in Homework, rows'[h].state = "absent" PROVE rows'[h].task = None
  <2>1. rows[h] \in Row /\ (rows[h].state = "absent" => rows[h].task = None)
    BY DEF OwnInv, TypeOK, RowKnows
  <2>2. rows'[h] = SyncedRow(seen, h, rows[h])
    BY <1>1
  <2> QED
    BY <1>5, <2>1, <2>2 DEF SyncedRow, AdoptedRow, NoRow, Row
<1>6. RowKnows'
  <2>1. lost' \subseteq Homework
    BY DEF SyncStore, TasksMarked
  <2> QED
    BY <1>2, <1>4, <1>5, <2>1 DEF RowKnows
<1>7. PlanKnows'
  BY <1>1 DEF PlanKnows, PassInv, PlanInOrder
<1>8. JobKnows'
  BY <1>1 DEF JobKnows, AtCall
<1> QED
  BY <1>2, <1>3, <1>6, <1>7, <1>8

\* Nothing is planned by the start of a pass or by the fetch.
LEMMA StartKeepsOne ==
  ASSUME OneInv, StartPass \/ FetchWindow \/ FetchTruncated \/ FetchLoginOnly
  PROVE  OneInv'
<1>1. UNCHANGED <<tasks, inflight, rows, lost, todo, deny, seen, plan>>
  BY DEF StartPass, FetchWindow, FetchTruncated, FetchLoginOnly, Fetch, world, store
<1>2. pc' = "list" \/ (pc' = "plan" /\ pc = "fetch")
  BY DEF StartPass, FetchWindow, FetchTruncated, FetchLoginOnly, Fetch
<1>3. SeenOnce' /\ PlanKnows'
  BY <1>1, <1>2 DEF OneInv, SeenOnce, PlanKnows, LiveOf
<1> QED
  BY <1>1, <1>2, <1>3, QuietKeepsOne DEF AtCall

\* After reconciliation a row without task has none to lose, unless a list has misled it; a
\* create is cancelled only without a task, and a homework closed only with one.
LEMMA PlanKeepsOne ==
  ASSUME OwnInv, PassInv, OneInv, Diff \/ DiffDeferredOnly \/ AbortPass
  PROVE  OneInv'
<1>1. UNCHANGED <<tasks, inflight, rows, lost, todo, deny, seen>> /\ pc' = "apply"
  BY DEF Diff, DiffDeferredOnly, AbortPass, world, store, pass
<1>2. SeenOnce'
  BY <1>1 DEF OneInv, SeenOnce
<1>3. ASSUME NEW h \in Homework, NEW i \in DOMAIN plan'[h],
             plan'[h][i].op \in {"cancel", "close", "delete"}
      PROVE  /\ Len(plan'[h]) = 1
             /\ plan'[h][i].op = "cancel" => LiveOf(h) = {} \/ h \in lost
             /\ plan'[h][i].op # "cancel" => rows[h].task # None
  <2>1. /\ rows[h] \in Row /\ (rows[h].state \in Pending => rows[h].op \in OpName)
        /\ items[h] \in Item /\ covered \in BOOLEAN
    BY DEF OwnInv, TypeOK, PassInv, PendingPlanned
  <2>2. CASE Diff
    <3>1. PICK remote \in Task : plan'[h] = Steps(h, rows[h], items[h], remote, covered)
      BY <2>2, DiffPlans
    <3>3. /\ plan'[h][i].op \in {"close", "delete"} =>
               rows[h].task # None /\ Len(plan'[h]) = 1
          /\ plan'[h][i].op = "cancel" => rows[h].task = None /\ Len(plan'[h]) = 1
      BY <1>3, <2>1, <3>1, StepsEnd
    <3>4. rows[h].task = None => LiveOf(h) = {} \/ h \in lost
      <4>1. None \notin TaskId
        BY BoundAssumption DEF None, TaskId
      <4> QED
        BY <2>2, <4>1 DEF Diff, OneInv, RowKnows, LiveOf
    <3> QED
      BY <1>3, <3>3, <3>4
  <2>3. CASE DiffDeferredOnly \/ AbortPass
    <3>1. plan'[h] = DeferredSteps(rows[h])
      BY <2>3 DEF DiffDeferredOnly, AbortPass
    <3>2. plan'[h][i].op \in OpName
      BY <1>3, <2>1, <3>1, DeferredStepsEnd
    <3> QED
      BY <1>3, <3>2 DEF OpName
  <2> QED
    BY <2>2, <2>3
<1>4. PlanKnows'
  BY <1>1, <1>3 DEF PlanKnows, LiveOf
<1> QED
  BY <1>1, <1>2, <1>4, QuietKeepsOne DEF AtCall

---------------------------------------------------------------------------
(* The steps of a plan.                                                    *)

\* A step ends: what it leaves in the row must tell where its homework's task is.
LEMMA EndOfStepKeepsOne ==
  ASSUME OwnInv, OneInv, SingleTask', TasksMarked', UNCHANGED seen, pc # "strip", pc' = "apply",
         NEW h \in Homework, plan[h] # <<>>, plan' = [plan EXCEPT ![h] = Tail(@)],
         lost' \in {lost, lost \cup {h}},
         \A g \in Homework \ {h} : rows'[g] = rows[g] /\ LiveOf(g)' \subseteq LiveOf(g),
         rows'[h].state = "absent" => rows'[h].task = None,
         \A t \in LiveOf(h)' :
           \/ rows'[h].task = t
           \/ rows'[h].task = None /\ (rows'[h].state \in Pending \/ h \in lost')
  PROVE  OneInv'
<1> USE DEF OneInv
<1>1. SeenOnce'
  BY DEF SeenOnce
<1>2. RowKnows'
  BY DEF RowKnows
<1>3. plan \in [Homework -> Seq(Step)]
  BY DEF OwnInv, TypeOK
<1>4. ASSUME NEW g \in Homework, NEW i \in DOMAIN plan'[g],
             plan'[g][i].op \in {"cancel", "close", "delete"}
      PROVE  /\ Len(plan'[g]) = 1
             /\ plan'[g][i].op = "cancel" => LiveOf(g)' = {} \/ g \in lost'
             /\ plan'[g][i].op # "cancel" => rows'[g].task # None
  <2>1. g # h
    BY <1>3, <1>4, RestEndsNothing
  <2>2. plan'[g] = plan[g]
    BY <1>3, <2>1
  <2> QED
    BY <1>4, <2>1, <2>2 DEF PlanKnows
<1>5. PlanKnows'
  BY <1>4 DEF PlanKnows
<1>6. JobKnows'
  BY DEF JobKnows, AtCall
<1> QED
  BY <1>1, <1>2, <1>5, <1>6

\* touch leaves the row's task and state, and cancel is planned only without a task, or
\* where a list has hidden it.
LEMMA LocalKeepsOne ==
  ASSUME OwnInv, OneInv, NEW h \in Homework, LocalStep(h)
  PROVE  OneInv'
<1> USE DEF OneInv
<1>1. /\ pc = "apply" /\ pc' = "apply" /\ plan[h] # <<>>
      /\ plan' = [plan EXCEPT ![h] = Tail(@)]
      /\ UNCHANGED <<tasks, inflight, lost, todo, deny, seen>>
      /\ Head(plan[h]).op \in {"touch", "cancel"}
      /\ rows' = [rows EXCEPT ![h] = IF Head(plan[h]).op = "touch"
                                     THEN TouchedRow(@, Head(plan[h]).item)
                                     ELSE CancelledRow(@)]
  BY DEF LocalStep, Turn, pass, world
<1>2. SingleTask' /\ TasksMarked' /\ \A g : LiveOf(g)' = LiveOf(g)
  BY <1>1 DEF SingleTask, TasksMarked, LiveOf
<1>3. rows \in [Homework -> Row] /\ plan[h] \in Seq(Step)
  BY DEF OwnInv, TypeOK
<1>4. \A g \in Homework \ {h} : rows'[g] = rows[g]
  BY <1>1, <1>3
<1>5. CASE Head(plan[h]).op = "touch"
  <2>1. rows'[h] = TouchedRow(rows[h], Head(plan[h]).item)
    BY <1>1, <1>3, <1>5
  <2>2. rows'[h].state = rows[h].state /\ rows'[h].task = rows[h].task
    BY <1>3, <2>1 DEF TouchedRow, Row
  <2> QED
    BY <1>1, <1>2, <1>4, <2>2, EndOfStepKeepsOne DEF RowKnows
<1>6. CASE Head(plan[h]).op = "cancel"
  <2>1. rows'[h] = CancelledRow(rows[h])
    BY <1>1, <1>3, <1>6
  <2>2. rows'[h].task = None
    BY <1>3, <2>1 DEF CancelledRow, Row, RowKnows
  <2>3. LiveOf(h) = {} \/ h \in lost
    <3>1. 1 \in DOMAIN plan[h] /\ plan[h][1].op = "cancel"
      BY <1>1, <1>3, <1>6
    <3> QED
      BY <3>1 DEF PlanKnows
  <2> QED
    BY <1>1, <1>2, <1>4, <2>2, <2>3, EndOfStepKeepsOne
<1> QED
  BY <1>1, <1>5, <1>6

\* A step begins with the row's task, which is then the only one that there may be.
LEMMA BeginKeepsOne ==
  ASSUME OwnInv, OneInv, NEW h \in Homework, BeginStep(h)
  PROVE  OneInv'
<1> USE DEF OneInv
<1>1. /\ pc = "apply" /\ plan[h] # <<>>
      /\ UNCHANGED <<tasks, inflight, todo, deny, seen, rows, lost, plan>>
      /\ Head(plan[h]).op \notin {"touch", "cancel"}
      /\ NeedsTask(Head(plan[h]).op) => rows[h].task # None
      /\ job'.h = h /\ job'.op = Head(plan[h]).op /\ job'.row = rows[h]
      /\ job'.tgt = IF job'.op \in {"create", "resume"} THEN None ELSE rows[h].task
      /\ pc' = FirstCall(job'.op, rows[h])
  BY DEF BeginStep, Turn, pass, world, store
<1>2. SingleTask' /\ TasksMarked' /\ \A g : LiveOf(g)' = LiveOf(g)
  BY <1>1 DEF SingleTask, TasksMarked, LiveOf
<1>3. pc' \in {"byid", "anchor", "patch", "done", "close"} /\ AtCall'
  BY <1>1 DEF FirstCall, AtCall
<1>4. SeenOnce' /\ RowKnows' /\ PlanKnows'
  BY <1>1, <1>2, <1>3 DEF SeenOnce, RowKnows, PlanKnows
<1>5. plan[h] \in Seq(Step)
  BY DEF OwnInv, TypeOK
<1>6. /\ 1 \in DOMAIN plan[h] /\ plan[h][1].op = job'.op
      /\ job'.op \in OpName \cup {"close", "delete"}
  <2>1. 1 \in DOMAIN plan[h] /\ plan[h][1] = Head(plan[h]) /\ plan[h][1] \in Step
    BY <1>1, <1>5
  <2> QED
    BY <1>1, <2>1 DEF Step, StepOp
<1>7. pc' \notin {"byid", "anchor"} => LiveOf(h) \subseteq {job'.tgt}
  <2> SUFFICES ASSUME pc' \notin {"byid", "anchor"}, NEW t \in LiveOf(h) PROVE t = job'.tgt
    OBVIOUS
  <2>1. job'.op \in {"patch", "patch_done", "reopen", "close", "delete"}
    BY <1>1, <1>6 DEF FirstCall, OpName
  <2>2. rows[h].task \in {t, None}
    BY DEF RowKnows
  <2>3. job'.op \in {"close", "delete"} => rows[h].task # None
    BY <1>6 DEF PlanKnows
  <2> QED
    BY <1>1, <2>1, <2>2, <2>3 DEF NeedsTask
<1>8. JobKnows'
  BY <1>1, <1>2, <1>3, <1>7 DEF JobKnows, FirstCall
<1> QED
  BY <1>2, <1>4, <1>8

---------------------------------------------------------------------------
(* The calls of a step.                                                    *)

\* What the invariants say of a step at work.
LEMMA CallFacts ==
  ASSUME OwnInv, PassInv, AtCall
  PROVE  /\ job.h \in Homework /\ job \in Job /\ job.row \in Row /\ rows \in [Homework -> Row]
         /\ tasks \in [TaskId -> Task] /\ AtWork /\ plan[job.h] # <<>>
         /\ \A t \in TaskId : (t = job.tgt \/ t = job.row.task) /\ tasks[t].live =>
              t \in LiveOf(job.h)
<1>1. AtWork
  BY DEF OwnInv, TypeOK, AtCall, AtWork
<1>2. /\ job.h \in Homework /\ job \in Job /\ job.row \in Row /\ rows \in [Homework -> Row]
      /\ tasks \in [TaskId -> Task] /\ plan[job.h] # <<>>
  BY DEF OwnInv, TypeOK, JobFits, Job
<1>3. None \notin TaskId
  BY BoundAssumption DEF None, TaskId
<1> QED
  BY <1>1, <1>2, <1>3 DEF OwnInv, MemoryLeads, RowLeads, Leads, LiveOf

\* Where markers are kept a request about the step's task leaves owner and marker, or
\* no task.
LEMMA CallShrinks ==
  ASSUME MarkersKept, OwnInv, PassInv, OneInv, pc \in TaskCalls, ~Gone, tasks' = Effect
  PROVE  /\ TasksShrink
         /\ pc = "close" /\ job.op = "delete" /\ job.tgt \in TaskId => ~tasks'[job.tgt].live
<1>0. AtCall
  BY DEF TaskCalls, AtCall
<1>1. /\ tasks \in [TaskId -> Task] /\ job.h \in Homework
      /\ job.tgt \in TaskId => tasks[job.tgt].owner = job.h /\ tasks[job.tgt].key = job.h
  BY <1>0, CallFacts DEF Gone, LiveOf, OneInv, TasksMarked
<1>2. ASSUME NEW t \in TaskId, t # job.tgt PROVE tasks'[t] = tasks[t]
  BY <1>1, <1>2 DEF Effect, TaskCalls
<1>3. ASSUME job.tgt \in TaskId
      PROVE  /\ tasks'[job.tgt].live =>
                  /\ tasks'[job.tgt].owner = tasks[job.tgt].owner
                  /\ tasks'[job.tgt].key = tasks[job.tgt].key
             /\ pc = "close" /\ job.op = "delete" => ~tasks'[job.tgt].live
  <2> DEFINE old == tasks[job.tgt]
  <2>1. old \in Task /\ old.owner = job.h /\ old.key = job.h
    BY <1>1, <1>3
  <2>2. CASE pc = "attach"
    <3>1. tasks'[job.tgt] = [old EXCEPT !.derived = TRUE]
      BY <1>1, <1>3, <2>2 DEF Effect
    <3> QED
      BY <2>1, <2>2, <3>1 DEF Task
  <2>3. CASE pc = "patch"
    <3>1. tasks'[job.tgt] = PatchedTask(old, job.h, job.item, job.derived)
      BY <1>1, <1>3, <2>3 DEF Effect
    <3> QED
      BY <2>1, <2>3, <3>1 DEF Task, PatchedTask, RenderedKey
  <2>4. CASE pc = "done"
    <3>1. tasks'[job.tgt] = [old EXCEPT !.done = job.op = "patch_done" /\ job.item.done]
      BY <1>1, <1>3, <2>4 DEF Effect
    <3> QED
      BY <2>1, <2>4, <3>1 DEF Task
  <2>5. CASE pc = "close" /\ job.op = "close"
    <3>1. tasks'[job.tgt] = [old EXCEPT !.done = TRUE]
      BY <1>1, <1>3, <2>5 DEF Effect
    <3> QED
      BY <2>1, <2>5, <3>1 DEF Task
  <2>6. CASE pc = "close" /\ job.op = "delete"
    <3>1. tasks'[job.tgt] = NoTask
      BY <1>1, <1>3, <2>6 DEF Effect
    <3> QED
      BY <3>1 DEF NoTask
  <2>7. pc = "close" => job.op \in {"close", "delete"}
    BY DEF OwnInv, JobFits
  <2> QED
    BY <2>2, <2>3, <2>4, <2>5, <2>6, <2>7 DEF TaskCalls
<1>4. \A t \in TaskId : t = job.tgt /\ ~Gone => tasks[t].live
  BY DEF Gone, TaskCalls
<1> QED
  BY <1>2, <1>3, <1>4 DEF TasksShrink

\* A POST gives the step's homework, which had none, its one task, with its marker.
LEMMA PostMakesOne ==
  ASSUME MarkersKept, OwnInv, PassInv, OneInv, pc = "post", posted < MaxTasks,
         NEW h, h = job.h, tasks' = Effect, UNCHANGED <<inflight, todo, deny>>
  PROVE  /\ SingleTask' /\ TasksMarked'
         /\ LiveOf(h)' \subseteq {posted + 1} /\ posted + 1 \in TaskId
         /\ \A g : g # h => LiveOf(g)' \subseteq LiveOf(g)
<1>1. /\ job.h \in Homework /\ tasks \in [TaskId -> Task] /\ AtCall
      /\ rows[job.h].task = None /\ LiveOf(job.h) = {}
  BY CallFacts DEF AtCall, OneInv, JobKnows
<1>2. posted + 1 \in TaskId
  BY BoundAssumption DEF OwnInv, TypeOK, TaskId
<1>3. tasks' = [tasks EXCEPT ![posted + 1] = PostedTask(job.h, job.item)]
  BY DEF Effect
<1>4. /\ tasks'[posted + 1].owner = job.h /\ tasks'[posted + 1].key = job.h
      /\ tasks'[posted + 1].live
  BY <1>1, <1>2, <1>3 DEF PostedTask, RenderedKey
<1>5. \A t \in TaskId \ {posted + 1} : tasks'[t] = tasks[t]
  BY <1>1, <1>3
<1>6. /\ \A g : g # h => LiveOf(g)' \subseteq LiveOf(g)
      /\ LiveOf(h)' \subseteq {posted + 1}
      /\ \A t \in TaskId : tasks'[t].live /\ tasks'[t].owner = h => t = posted + 1
  BY <1>1, <1>4, <1>5 DEF LiveOf
<1>7. SingleTask'
  <2> SUFFICES ASSUME NEW t \in TaskId, NEW u \in TaskId, tasks'[t].live, tasks'[u].live,
                      tasks'[t].owner = tasks'[u].owner
               PROVE  t = u
    BY DEF SingleTask
  <2>1. CASE tasks'[t].owner = h
    BY <1>6, <2>1
  <2>2. CASE tasks'[t].owner # h
    BY <1>4, <1>5, <2>2 DEF SingleTask, OneInv
  <2> QED
    BY <2>1, <2>2
<1>8. TasksMarked'
  BY <1>1, <1>4, <1>5 DEF TasksMarked, OneInv
<1> QED
  BY <1>2, <1>6, <1>7, <1>8

\* The middle of a step: rows and plan stay.
LEMMA MiddleKeepsOne ==
  ASSUME OneInv, SingleTask', TasksMarked', UNCHANGED <<seen, rows, lost, plan>>,
         NEW c, c = job.h, AtCall, AtCall', JobKnows',
         \A g \in Homework \ {c} : LiveOf(g)' \subseteq LiveOf(g),
         \/ LiveOf(c)' \subseteq LiveOf(c)
         \/ /\ rows[c].task = None /\ rows[c].state \in Pending
            /\ \A i \in DOMAIN plan[c] : plan[c][i].op \notin {"cancel", "close", "delete"}
  PROVE  OneInv'
<1> USE DEF OneInv
<1>1. pc' \notin {"strip", "fetch", "plan"}
  BY DEF AtCall
<1>2. SeenOnce'
  BY <1>1 DEF SeenOnce
<1>3. ASSUME NEW h \in Homework
      PROVE  /\ \A t \in LiveOf(h)' :
                  \/ rows[h].task = t
                  \/ rows[h].task = None /\ (rows[h].state \in Pending \/ h \in lost)
             /\ \A i \in DOMAIN plan[h] : plan[h][i].op \in {"cancel", "close", "delete"} =>
                  LiveOf(h)' \subseteq LiveOf(h)
  BY DEF RowKnows
<1>4. RowKnows'
  BY <1>1, <1>3 DEF RowKnows
<1>5. PlanKnows'
  BY <1>3 DEF PlanKnows
<1> QED
  BY <1>2, <1>4, <1>5

\* What a create finds by its row or by the marker is the only task that there may be.
LEMMA FindKeepsOne ==
  ASSUME OwnInv, PassInv, OneInv, FindById \/ FindAnchor
  PROVE  OneInv'
<1> USE DEF OneInv
<1>1. /\ AtCall /\ UNCHANGED <<tasks, inflight, todo, deny, seen, rows, lost, plan>>
      /\ pc' \in {"attach", "anchor"}
  BY DEF FindById, FindAnchor, world, store, pass, AtCall
<1>2. SingleTask' /\ TasksMarked' /\ \A g : LiveOf(g)' = LiveOf(g)
  BY <1>1 DEF SingleTask, TasksMarked, LiveOf
<1>3. /\ job'.h = job.h /\ job'.op = job.op /\ job.op \in {"create", "resume"}
      /\ job'.row = job.row
      /\ pc' = "attach" => LiveOf(job.h) \subseteq {job'.tgt}
  <2>1. /\ job \in Job /\ job.h \in Homework
        /\ \A t \in TaskId : t = job.row.task /\ tasks[t].live => t \in LiveOf(job.h)
    BY <1>1, CallFacts
  <2>2. job.op \in {"create", "resume"}
    BY DEF FindById, FindAnchor, OwnInv, JobFits
  <2>3. CASE FindById /\ pc' = "attach"
    <3>a. job.row.task \in TaskId
      BY <1>1, <2>1, <2>3 DEF FindById, JobKnows, Job, Row
    <3>b. PICK hidden : View(hidden)[job.row.task].live /\ job' = [job EXCEPT !.tgt = job.row.task]
      BY <2>3 DEF FindById
    <3>0. tasks[job.row.task].live /\ job' = [job EXCEPT !.tgt = job.row.task]
      BY <3>a, <3>b DEF View, NoTask
    <3>1. job'.h = job.h /\ job'.op = job.op /\ job'.row = job.row /\ job'.tgt = job.row.task
      BY <2>1, <3>0 DEF Job
    <3>2. job.row.task \in TaskId => job.row.task \in LiveOf(job.h)
      BY <2>1, <3>0
    <3> QED
      BY <2>2, <3>a, <3>1, <3>2, OnlyTask
  <2>4. CASE FindById /\ pc' # "attach"
    BY <2>2, <2>4 DEF FindById
  <2>5. CASE FindAnchor
    <3>1. PICK t \in Anchored : job' = [job EXCEPT !.tgt = t]
      BY <2>5 DEF FindAnchor
    <3>2. t \in LiveOf(job.h)
      BY <3>1 DEF Anchored, LiveOf, TasksMarked
    <3>3. job'.h = job.h /\ job'.op = job.op /\ job'.row = job.row /\ job'.tgt = t
      BY <2>1, <3>1 DEF Job
    <3> QED
      BY <2>2, <3>2, <3>3, OnlyTask
  <2> QED
    BY <2>3, <2>4, <2>5
<1>4. AtCall' /\ JobKnows'
  BY <1>1, <1>2, <1>3 DEF JobKnows, AtCall
<1> QED
  BY <1>1, <1>2, <1>4, MiddleKeepsOne

\* A create that does not find its marker has no task.
LEMMA IntentWithoutTask ==
  ASSUME Reliable, OneInv, WriteIntent
  PROVE  LiveOf(job.h) = {}
<1>1. Anchored = {}
  BY NoneIsNoTask DEF WriteIntent, Overlooks, Reliable, Anchored
<1> QED
  BY <1>1 DEF Anchored, LiveOf, OneInv, TasksMarked

\* The intent row is written where there is no task, and the new id into the row of the
\* task that the POST has made.
LEMMA RowKeepsOne ==
  ASSUME Reliable, OwnInv, PassInv, OneInv, WriteIntent \/ SaveId
  PROVE  OneInv'
<1> USE DEF OneInv
<1>1. /\ AtCall /\ UNCHANGED <<tasks, inflight, lost, todo, deny, seen, plan, job>>
      /\ pc' \in {"post", "attach"} /\ job.op \in {"create", "resume"}
  BY DEF WriteIntent, SaveId, world, store, pass, AtCall, OwnInv, JobFits
<1>2. SingleTask' /\ TasksMarked' /\ SeenOnce' /\ \A g : LiveOf(g)' = LiveOf(g)
  BY <1>1 DEF SingleTask, TasksMarked, LiveOf, SeenOnce
<1>3. job.h \in Homework /\ rows \in [Homework -> Row]
  BY <1>1, CallFacts
<1>4. /\ \A g \in Homework \ {job.h} : rows'[g] = rows[g]
      /\ rows'[job.h].state # "absent"
      /\ \A t \in LiveOf(job.h) : rows'[job.h].task = t
      /\ pc' = "post" => /\ rows'[job.h].state \in Pending /\ rows'[job.h].task = None
                         /\ LiveOf(job.h) = {}
      /\ pc' = "attach" => LiveOf(job.h) \subseteq {job.tgt}
  <2>1. CASE WriteIntent
    <3>1. rows' = [rows EXCEPT ![job.h] = IntentRow(job.item)] /\ pc' = "post"
      BY <2>1 DEF WriteIntent
    <3>2. LiveOf(job.h) = {}
      BY <2>1, IntentWithoutTask
    <3>3. rows'[job.h] = IntentRow(job.item)
      BY <1>3, <3>1
    <3> QED
      BY <1>3, <3>1, <3>2, <3>3 DEF IntentRow, Pending
  <2>2. CASE SaveId
    <3>1. /\ LiveOf(job.h) \subseteq {job.tgt} /\ rows[job.h].state \in Pending /\ pc' = "attach"
      BY <1>1, <2>2 DEF SaveId, JobKnows
    <3>2. rows' = [rows EXCEPT ![job.h].task = job.tgt]
      BY <2>2, <3>1 DEF SaveId, Pending
    <3>3. rows'[job.h].task = job.tgt /\ rows'[job.h].state = rows[job.h].state
      BY <1>3, <3>2 DEF Row
    <3> QED
      BY <1>3, <3>1, <3>2, <3>3 DEF Pending
  <2> QED
    BY <2>1, <2>2
<1>5. RowKnows'
  BY <1>1, <1>2, <1>4 DEF RowKnows
<1>6. \A i \in DOMAIN plan[job.h] : plan[job.h][i].op \notin {"cancel", "close", "delete"}
  BY <1>1, FirstEndsNothing DEF OpName
<1>7. PlanKnows'
  BY <1>1, <1>2, <1>4, <1>6 DEF PlanKnows
<1>8. AtCall' /\ JobKnows'
  BY <1>1, <1>2, <1>4 DEF JobKnows, AtCall
<1> QED
  BY <1>2, <1>5, <1>7, <1>8

\* A POST, and its answer.
LEMMA PostKeepsOne ==
  ASSUME MarkersKept, OwnInv, PassInv, OneInv, Post
  PROVE  OneInv'
<1>1. /\ AtCall /\ pc = "post" /\ pc' = "save" /\ posted < MaxTasks /\ tasks' = Effect
      /\ UNCHANGED <<inflight, todo, deny, seen, rows, lost, plan>>
      /\ job' = [job EXCEPT !.tgt = posted + 1]
  BY DEF Post, world, store, pass, AtCall
<1>2. PICK h : h = job.h /\ job \in Job /\ job.op \in {"create", "resume"}
  BY <1>1, CallFacts DEF OwnInv, JobFits
<1>3. /\ SingleTask' /\ TasksMarked' /\ LiveOf(h)' \subseteq {posted + 1}
      /\ \A g : g # h => LiveOf(g)' \subseteq LiveOf(g)
  BY <1>1, <1>2, PostMakesOne
<1>4. job'.h = h /\ job'.tgt = posted + 1 /\ job'.op = job.op /\ job'.row = job.row
  BY <1>1, <1>2 DEF Job
<1>5. rows[h].task = None /\ rows[h].state \in Pending
  BY <1>1, <1>2 DEF OneInv, JobKnows
<1>6. \A i \in DOMAIN plan[h] : plan[h][i].op \notin {"cancel", "close", "delete"}
  BY <1>1, <1>2, FirstEndsNothing DEF OneInv, OpName
<1>7. AtCall' /\ JobKnows'
  BY <1>1, <1>2, <1>3, <1>4, <1>5 DEF JobKnows, AtCall, Pending
<1> QED
  BY <1>1, <1>2, <1>3, <1>5, <1>6, <1>7, MiddleKeepsOne

\* A request about the step's task.
LEMMA TaskCallKeepsOne ==
  ASSUME MarkersKept, OwnInv, PassInv, OneInv, TaskCall
  PROVE  OneInv'
<1>1. /\ AtCall /\ pc \in TaskCalls /\ ~Gone /\ tasks' = Effect
      /\ pc' = IF pc = "patch" THEN "attach" ELSE "store"
      /\ UNCHANGED <<inflight, todo, deny, seen, rows, lost, plan, job>>
  BY DEF TaskCall, TaskCalls, store, pass, AtCall
<1>2. /\ TasksShrink
      /\ pc = "close" /\ job.op = "delete" /\ job.tgt \in TaskId => ~tasks'[job.tgt].live
  BY <1>1, CallShrinks
<1>3. SingleTask' /\ TasksMarked' /\ \A g : LiveOf(g)' \subseteq LiveOf(g)
  BY <1>1, <1>2, ShrinkKeeps DEF OneInv
<1>4. /\ LiveOf(job.h) \subseteq {job.tgt}
      /\ job.op \notin {"create", "resume"} => rows[job.h] = job.row /\ job.tgt = job.row.task
      /\ rows[job.h].state = "absent" => job.row.state = "absent"
  BY <1>1 DEF OneInv, JobKnows, TaskCalls
<1>5. job.op \in OpName \cup {"close", "delete"} /\ (job.op = "delete" => pc = "close")
  BY <1>1 DEF OwnInv, JobFits, TaskCalls, OpName
<1>6. PICK h : h = job'.h /\ h = job.h
  BY <1>1
<1>7. pc' = "store" /\ job.op \notin OpName \cup {"close"} => LiveOf(h)' = {}
  BY <1>2, <1>3, <1>4, <1>5, <1>6 DEF LiveOf
<1>8. AtCall' /\ JobKnows'
  BY <1>1, <1>3, <1>4, <1>6, <1>7 DEF JobKnows, AtCall
<1> QED
  BY <1>1, <1>3, <1>6, <1>8, MiddleKeepsOne

\* The row that a finished step writes holds the homework's task, if it has one.
LEMMA ResultLeads ==
  ASSUME OwnInv, PassInv, OneInv, pc = "store"
  PROVE  /\ \A t \in LiveOf(job.h) : ResultRow.task = t
         /\ ResultRow.state = "absent" => ResultRow.task = None
<1>1. AtCall
  BY DEF AtCall
<1>2. job.row \in Row
  BY <1>1, CallFacts
<1>3. /\ LiveOf(job.h) \subseteq {job.tgt}
      /\ job.op \notin OpName \cup {"close"} => LiveOf(job.h) = {}
      /\ job.op \notin {"create", "resume"} => job.tgt = job.row.task
  BY <1>1 DEF OneInv, JobKnows
<1>4. CASE job.op \in {"create", "resume"}
  BY <1>3, <1>4 DEF ResultRow, FinalizedRow
<1>5. CASE job.op \in {"patch", "patch_done", "reopen", "close"}
  <2>1. ResultRow.task = job.row.task /\ ResultRow.state # "absent"
    BY <1>2, <1>5 DEF ResultRow, PatchedRow, DoneRow, ClosedRow, Row, Closed
  <2> QED
    BY <1>3, <1>5, <2>1
<1>6. CASE job.op \notin {"create", "resume", "patch", "patch_done", "reopen", "close"}
  <2>1. ResultRow = NoRow
    BY <1>6 DEF ResultRow
  <2> QED
    BY <1>3, <1>6, <2>1 DEF NoRow, OpName
<1> QED
  BY <1>4, <1>5, <1>6

\* A step is done.
LEMMA StoreKeepsOne ==
  ASSUME OwnInv, PassInv, OneInv, StoreResult
  PROVE  OneInv'
<1>1. /\ AtCall /\ pc = "store" /\ pc' = "apply"
      /\ UNCHANGED <<tasks, inflight, lost, todo, deny, seen>>
      /\ rows' = [rows EXCEPT ![job.h] = ResultRow] /\ plan' = [plan EXCEPT ![job.h] = Tail(@)]
  BY DEF StoreResult, EndStep, world, pass, AtCall
<1>2. SingleTask' /\ TasksMarked' /\ \A g : LiveOf(g)' = LiveOf(g)
  BY <1>1 DEF OneInv, SingleTask, TasksMarked, LiveOf
<1>3. /\ job.h \in Homework /\ rows \in [Homework -> Row] /\ plan[job.h] # <<>>
  BY <1>1, CallFacts
<1>4. /\ \A t \in LiveOf(job.h) : ResultRow.task = t
      /\ ResultRow.state = "absent" => ResultRow.task = None
  BY <1>1, ResultLeads
<1>5. rows'[job.h] = ResultRow /\ \A g \in Homework \ {job.h} : rows'[g] = rows[g]
  BY <1>1, <1>3
<1> QED
  BY <1>1, <1>2, <1>3, <1>4, <1>5, EndOfStepKeepsOne

\* A 404 about the step's task: the homework has none any more.
LEMMA GoneKeepsOne ==
  ASSUME OwnInv, PassInv, OneInv, TaskGone
  PROVE  OneInv'
<1>1. /\ AtCall /\ pc \in TaskCalls /\ ~tasks[job.tgt].live /\ pc' = "apply"
      /\ UNCHANGED <<tasks, inflight, lost, todo, deny, seen>>
      /\ rows' = rows \/ rows' = [rows EXCEPT ![job.h] = GoneRow(RowNow)]
      /\ plan' = [plan EXCEPT ![job.h] = Tail(@)]
  BY DEF TaskGone, Gone, TaskCalls, EndStep, world, pass, AtCall
<1>2. SingleTask' /\ TasksMarked' /\ \A g : LiveOf(g)' = LiveOf(g)
  BY <1>1 DEF OneInv, SingleTask, TasksMarked, LiveOf
<1>3. /\ job.h \in Homework /\ rows \in [Homework -> Row] /\ plan[job.h] # <<>>
      /\ job.row \in Row
  BY <1>1, CallFacts
<1>4. LiveOf(job.h) = {}
  BY <1>1 DEF OneInv, JobKnows, TaskCalls, LiveOf
<1>5. rows'[job.h].state = "absent" => rows'[job.h].task = None
  <2>1. CASE rows' = rows
    BY <1>3, <2>1 DEF OneInv, RowKnows
  <2>2. CASE rows' = [rows EXCEPT ![job.h] = GoneRow(RowNow)]
    <3>1. RowNow \in Row
      BY <1>3 DEF RowNow
    <3>2. rows'[job.h] = GoneRow(RowNow)
      BY <1>3, <2>2
    <3> QED
      BY <3>1, <3>2 DEF GoneRow, NoRow, Row
  <2> QED
    BY <1>1, <2>1, <2>2
<1>6. \A g \in Homework \ {job.h} : rows'[g] = rows[g]
  BY <1>1, <1>3
<1> QED
  BY <1>1, <1>2, <1>3, <1>4, <1>5, <1>6, EndOfStepKeepsOne DEF AtCall

\* A 404 about something else: the row lets go of a task that may live.
LEMMA StrayKeepsOne ==
  ASSUME OwnInv, PassInv, OneInv, StrayGone
  PROVE  OneInv'
<1>1. /\ AtCall /\ pc' = "apply" /\ UNCHANGED <<tasks, inflight, todo, deny, seen>>
      /\ rows' = [rows EXCEPT ![job.h] = GoneRow(RowNow)] /\ lost' = lost \cup {job.h}
      /\ plan' = [plan EXCEPT ![job.h] = Tail(@)]
  BY DEF StrayGone, EndStep, world, pass, AtCall
<1>2. SingleTask' /\ TasksMarked' /\ \A g : LiveOf(g)' = LiveOf(g)
  BY <1>1 DEF OneInv, SingleTask, TasksMarked, LiveOf
<1>3. /\ job.h \in Homework /\ rows \in [Homework -> Row] /\ plan[job.h] # <<>>
      /\ job.row \in Row
  BY <1>1, CallFacts
<1>4. RowNow \in Row
  BY <1>3 DEF RowNow
<1>5. rows'[job.h] = GoneRow(RowNow) /\ \A g \in Homework \ {job.h} : rows'[g] = rows[g]
  BY <1>1, <1>3
<1>6. rows'[job.h].task = None
  BY <1>4, <1>5 DEF GoneRow, NoRow, Row
<1> QED
  BY <1>1, <1>2, <1>3, <1>5, <1>6, EndOfStepKeepsOne DEF AtCall

\* A call fails, and the server has done its part or has not: the step starts over from
\* a row that knows as much, or the deferred row does.
LEMMA FailKeepsOne ==
  ASSUME Reliable, OwnInv, PassInv, OneInv, CallFails
  PROVE  OneInv'
<1> USE DEF Reliable
<1>1. /\ AtCall /\ pc \notin {"save", "store"} /\ ~Gone /\ RetryOrDefer
      /\ UNCHANGED <<inflight, lost, todo, deny, seen>>
      /\ \/ UNCHANGED tasks
         \/ pc = "post" /\ posted < MaxTasks /\ tasks' = Effect
         \/ pc \in TaskCalls /\ tasks' = Effect
  BY DEF CallFails, TaskCalls, AtCall, pass
<1>2. PICK h : h = job.h /\ h \in Homework /\ plan[h] # <<>>
  BY <1>1, CallFacts
<1>3. job \in Job /\ job.row \in Row /\ rows \in [Homework -> Row]
  BY <1>1, CallFacts
<1>4. pc = "post" => rows[h].task = None /\ rows[h].state \in Pending
  BY <1>1, <1>2 DEF OneInv, JobKnows
<1>5. /\ SingleTask' /\ TasksMarked' /\ \A g \in Homework \ {h} : LiveOf(g)' \subseteq LiveOf(g)
      /\ LiveOf(h)' \subseteq LiveOf(h) \/ pc = "post"
  <2>1. CASE UNCHANGED tasks
    BY <1>1, <2>1 DEF OneInv, SingleTask, TasksMarked, LiveOf
  <2>2. CASE pc = "post" /\ posted < MaxTasks /\ tasks' = Effect
    <3>1. SingleTask' /\ TasksMarked' /\ \A g : g # h => LiveOf(g)' \subseteq LiveOf(g)
      BY <1>1, <1>2, <2>2, PostMakesOne
    <3> QED
      BY <2>2, <3>1
  <2>3. CASE pc \in TaskCalls /\ tasks' = Effect
    <3>1. TasksShrink
      BY <1>1, <2>3, CallShrinks
    <3>2. SingleTask' /\ TasksMarked' /\ \A g : LiveOf(g)' \subseteq LiveOf(g)
      BY <1>1, <3>1, ShrinkKeeps DEF OneInv
    <3> QED
      BY <3>2
  <2> QED
    BY <1>1, <2>1, <2>2, <2>3
<1>6. CASE pc # "close" /\ job.att + 1 < RetryMax
  <2>1. /\ UNCHANGED <<rows, plan>> /\ pc' = FirstCall(job.op, job.row)
        /\ job'.h = h /\ job'.op = job.op /\ job'.row = job.row
        /\ job'.tgt = IF job.op \in {"create", "resume"} THEN None ELSE job.tgt
    BY <1>1, <1>2, <1>3, <1>6 DEF RetryOrDefer, Job
  <2>2. job.op \in OpName
    BY <1>1, <1>6 DEF OwnInv, TypeOK, JobFits, AtCall, PC, OpName
  <2>3. pc' \in {"byid", "anchor", "patch", "done"} /\ AtCall'
    BY <2>1, <2>2 DEF FirstCall, OpName, AtCall
  <2>4. /\ pc' = "byid" => job.row.task # None
        /\ pc' \in {"patch", "done"} => job.op \notin {"create", "resume"}
    BY <2>1 DEF FirstCall
  <2>5. job.op \notin {"create", "resume"} =>
          /\ LiveOf(h) \subseteq {job.tgt} /\ pc # "post"
          /\ rows[h] = job.row /\ job.tgt = job.row.task
    BY <1>1, <1>2 DEF OneInv, JobKnows, OwnInv, JobFits
  <2>a. rows[h].state = "absent" => job.row.state = "absent"
    BY <1>1, <1>2 DEF OneInv, JobKnows
  <2>6. JobKnows'
    BY <1>5, <2>1, <2>3, <2>4, <2>5, <2>a DEF JobKnows
  <2>7. \A i \in DOMAIN plan[h] : plan[h][i].op \notin {"cancel", "close", "delete"}
    BY <1>1, <1>2, <2>2, FirstEndsNothing DEF OneInv
  <2> QED
    BY <1>1, <1>2, <1>4, <1>5, <2>1, <2>3, <2>6, <2>7, MiddleKeepsOne
<1>7. CASE ~(pc # "close" /\ job.att + 1 < RetryMax)
  <2>1. /\ rows' = IF pc = "close" THEN rows
                   ELSE [rows EXCEPT ![h] = DeferredRow(RowNow, job.op, job.item)]
        /\ pc' = "apply" /\ plan' = [plan EXCEPT ![h] = Tail(@)]
    BY <1>1, <1>2, <1>7 DEF RetryOrDefer, EndStep
  <2>2. \A g \in Homework \ {h} : rows'[g] = rows[g]
    BY <1>2, <1>3, <2>1
  <2>3. RowKnows
    BY DEF OneInv
  <2>4. /\ rows'[h].state = "absent" => rows'[h].task = None
        /\ \A t \in LiveOf(h)' :
             \/ rows'[h].task = t
             \/ rows'[h].task = None /\ (rows'[h].state \in Pending \/ h \in lost)
    <3>1. CASE pc = "close"
      BY <1>2, <1>5, <2>1, <2>3, <3>1 DEF RowKnows
    <3>2. CASE pc # "close"
      <4>1. rows'[h] = DeferredRow(RowNow, job.op, job.item)
        BY <1>2, <1>3, <2>1, <3>2
      <4>2. CASE rows[h].state # "absent"
        <5>1. rows'[h].task = rows[h].task /\ rows'[h].state = "deferred"
          BY <1>2, <1>3, <4>1, <4>2 DEF DeferredRow, RowNow, Row
        <5> QED
          BY <1>2, <1>4, <1>5, <2>3, <5>1 DEF RowKnows, Pending
      <4>3. CASE rows[h].state = "absent"
        <5>1. job.row.state = "absent"
          BY <1>1, <1>2, <4>3 DEF OneInv, JobKnows
        <5>2. rows'[h].state = "deferred" /\ rows'[h].task = None
          BY <1>2, <1>3, <4>1, <4>3, <5>1 DEF DeferredRow, RowNow, IntentRow, Row
        <5> QED
          BY <5>2 DEF Pending
      <4> QED
        BY <4>2, <4>3
    <3> QED
      BY <3>1, <3>2
  <2> QED
    BY <1>1, <1>2, <1>5, <2>1, <2>2, <2>4, EndOfStepKeepsOne DEF AtCall
<1> QED
  BY <1>6, <1>7

---------------------------------------------------------------------------
(* The theorems.                                                           *)

\* At first there is no task and no row.
LEMMA InitOne ==
  ASSUME Init
  PROVE  OneInv
<1>1. \A h : LiveOf(h) = {}
  BY DEF Init, LiveOf, NoTask
<1> QED
  BY <1>1 DEF Init, OneInv, SingleTask, TasksMarked, SeenOnce, RowKnows, PlanKnows, JobKnows,
              AtCall, NoTask, NoRow

\* Every step keeps the invariant.
LEMMA NextKeepsOne ==
  ASSUME Reliable, OwnInv, PassInv, OneInv, [Next]_vars
  PROVE  OneInv'
<1>1. CASE Environment
  BY <1>1, EnvironmentKeepsOne
<1>2. CASE StripDuplicate
  BY <1>2 DEF StripDuplicate, OneInv, TasksMarked
<1>3. CASE Crash \/ FinishPass \/ \E h \in Homework : StepWithoutTask(h)
  BY <1>3, EndKeepsOne DEF Crash, FinishPass, StepWithoutTask, world, store
<1>4. CASE Progress
  BY <1>2, <1>3, <1>4, StartKeepsOne, ListKeepsOne, SyncKeepsOne, PlanKeepsOne, LocalKeepsOne,
     BeginKeepsOne, FindKeepsOne, RowKeepsOne, PostKeepsOne, TaskCallKeepsOne, StoreKeepsOne,
     GoneKeepsOne
  DEF Progress, Reliable
<1>5. CASE Failure
  BY <1>3, <1>5, StartKeepsOne, PlanKeepsOne, StrayKeepsOne, FailKeepsOne DEF Failure
<1>6. CASE UNCHANGED vars
  BY <1>6, WorldKeepsOne DEF vars, world, store, TasksShrink
<1> QED
  BY <1>1, <1>4, <1>5, <1>6 DEF Next

\* Where markers are kept and found and no POST is committed late, the invariant holds in
\* every reachable state, whatever else a 404 or a list is wrong about.
THEOREM OneInvariant == ASSUME Reliable PROVE Spec => []OneInv
<1>1. Init => OneInv
  BY InitOne
<1>2. OwnInv /\ PassInv /\ OneInv /\ [Next]_vars => OneInv'
  BY NextKeepsOne
<1> QED
  BY <1>1, <1>2, OwnInvariant, PassInvariant, PTL DEF Spec

\* A homework never has two tasks, whatever answers are lost and wherever a pass dies.
THEOREM OneTaskEach == ASSUME Reliable PROVE Spec => []SingleTask
<1>1. OneInv => SingleTask
  BY DEF OneInv
<1> QED
  BY <1>1, OneInvariant, PTL

\* There is no moment at which a crash or a lost answer leaves a task that no row knows
\* about: only a 404 or a list that is wrong about it does, until the next reconciliation.
THEOREM NoneForgotten == ASSUME Reliable PROVE Spec => []NoForgottenTask
<1>1. OneInv => NoForgottenTask
  BY DEF OneInv, RowKnows, TasksMarked, LiveOf, NoForgottenTask, Maps
<1> QED
  BY <1>1, OneInvariant, PTL

\* A step lets a row go of a task only when that is gone already, or reported gone.
LEMMA RowStays ==
  ASSUME Reliable, OwnInv, PassInv, OneInv, Next, NEW h \in Homework,
         rows[h].task # None, tasks[rows[h].task].live
  PROVE  rows'[h].task = rows[h].task \/ h \in lost'
<1>1. PICK t : t = rows[h].task /\ t \in LiveOf(h)
  <2>1. rows[h].task \in TaskId
    BY DEF OwnInv, TypeOK, Row
  <2> QED
    BY <2>1 DEF OwnInv, RowsLead, RowLeads, Leads, LiveOf
<1>2. rows \in [Homework -> Row] /\ job.row \in Row
  BY DEF OwnInv, TypeOK, Job
<1>3. CASE UNCHANGED rows
  BY <1>3
<1>4. CASE SyncStore
  BY <1>1, <1>4, SyncLeads
<1>5. ASSUME NEW g \in Homework, LocalStep(g)
      PROVE  rows'[h].task = rows[h].task \/ h \in lost'
  <2>1. /\ UNCHANGED lost /\ plan[g] # <<>> /\ Head(plan[g]).op \in {"touch", "cancel"}
        /\ rows' = [rows EXCEPT ![g] = IF Head(plan[g]).op = "touch"
                                       THEN TouchedRow(@, Head(plan[g]).item)
                                       ELSE CancelledRow(@)]
    BY <1>5 DEF LocalStep, Turn
  <2>2. Head(plan[g]).op = "cancel" => LiveOf(g) = {} \/ g \in lost
    <3>1. plan[g] \in Seq(Step)
      BY DEF OwnInv, TypeOK
    <3>2. 1 \in DOMAIN plan[g] /\ plan[g][1] = Head(plan[g])
      BY <2>1, <3>1
    <3> QED
      BY <3>2 DEF OneInv, PlanKnows
  <2>3. CASE g = h /\ h \notin lost
    <3>1. rows'[h] = TouchedRow(rows[h], Head(plan[g]).item)
      BY <1>1, <1>2, <2>1, <2>2, <2>3
    <3> QED
      BY <1>2, <3>1 DEF TouchedRow, Row
  <2>4. CASE g # h
    BY <1>2, <2>1, <2>4
  <2> QED
    BY <2>1, <2>3, <2>4
<1>6. CASE job.h # h /\ \E row : rows' = [rows EXCEPT ![job.h] = row]
  BY <1>2, <1>6
<1>7. CASE WriteIntent
  <2>1. LiveOf(job.h) = {}
    BY <1>7, IntentWithoutTask
  <2> QED
    BY <1>1, <1>2, <1>6, <1>7, <2>1 DEF WriteIntent
<1>8. CASE SaveId
  <2>1. LiveOf(job.h) \subseteq {job.tgt}
    BY <1>8 DEF SaveId, OneInv, JobKnows, AtCall
  <2> QED
    BY <1>1, <1>2, <1>8, <2>1 DEF SaveId
<1>9. CASE StoreResult
  <2>1. rows' = [rows EXCEPT ![job.h] = ResultRow] /\ pc = "store"
    BY <1>9 DEF StoreResult
  <2> QED
    BY <1>1, <1>2, <2>1, ResultLeads
<1>10. CASE TaskGone
  <2>1. LiveOf(job.h) = {}
    BY <1>10 DEF TaskGone, Gone, OneInv, JobKnows, TaskCalls, LiveOf, AtCall
  <2> QED
    BY <1>1, <1>2, <1>10, <2>1 DEF TaskGone
<1>11. CASE CallFails
  <2>1. \/ UNCHANGED rows
        \/ rows' = [rows EXCEPT ![job.h] = DeferredRow(RowNow, job.op, job.item)]
    BY <1>11 DEF CallFails, RetryOrDefer
  <2>2. rows[h].state # "absent"
    BY DEF OneInv, RowKnows
  <2>3. job.h = h => DeferredRow(RowNow, job.op, job.item).task = rows[h].task
    BY <1>2, <2>2 DEF DeferredRow, RowNow, Row
  <2> QED
    BY <1>2, <2>1, <2>3
<1>12. CASE StrayGone
  BY <1>2, <1>12 DEF StrayGone
<1> QED
  BY <1>3, <1>4, <1>5, <1>7, <1>8, <1>9, <1>10, <1>11, <1>12
  DEF Next, Environment, TeacherEdits, DoneToggles, Moves, Teacher, PersonDeletes, PersonTicks,
      PersonEdits, Person, LateCommit, Progress, StartPass, ListTasks, StripDuplicate,
      FetchWindow, FetchTruncated, FetchLoginOnly, Fetch, Diff, DiffDeferredOnly, BeginStep,
      StepWithoutTask,
      FindById, FindAnchor, Post, TaskCall, FinishPass, Failure, Crash, AbortPass, store

\* A row lets go of its task only when the task is gone or Vikunja says so, by a 404 or by
\* a list that lacks it: else no step of a pass, no failure and no reconciliation points
\* it elsewhere or drops it.
THEOREM RowsKeepTheirTask == ASSUME Reliable PROVE Spec => MappingKept
<1> DEFINE Kept == \A h \in Homework :
                     LET t == rows[h].task IN
                     t # None /\ tasks[t].live =>
                       rows'[h].task = t \/ ~tasks'[t].live \/ h \in lost'
<1>1. OwnInv /\ PassInv /\ OneInv /\ [Next]_vars => [Kept]_vars
  BY RowStays
<1> QED
  BY <1>1, OwnInvariant, PassInvariant, OneInvariant, PTL DEF MappingKept, Spec
===============================================================================
