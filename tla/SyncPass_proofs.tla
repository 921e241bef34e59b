---------------------------- MODULE SyncPass_proofs ----------------------------
(***************************************************************************)
(* For any homework, versions, task ids, configuration and bounds: a pass  *)
(* closes only what a fetch that counts as covering did not list; a pass   *)
(* that stamps last_sync_ts leaves nothing half created or deferred; without *)
(* mirror_done a tick stands until its homework is reopened; and as long   *)
(* as no call fails and no process dies, a fingerprint is that of the text *)
(* its task has.                                                           *)
(***************************************************************************)
EXTENDS SyncEngine_proofs

---------------------------------------------------------------------------
(* What a plan consists of.                                                *)

\* The steps under a condition are among those of which the step is one.
LEMMA WhenIsAmong ==
  ASSUME NEW cond, NEW S, NEW step \in S
  PROVE  When(cond, step) \in Seq(S)
  BY DEF When

\* The differences of a mapped homework are settled by writes and by touching its row.
LEMMA MappedStepsWrite ==
  ASSUME NEW row, NEW item, NEW remote, NEW i \in DOMAIN MappedSteps(row, item, remote)
  PROVE  MappedSteps(row, item, remote)[i].op \in {"reopen", "touch", "patch", "patch_done"}
<1> DEFINE S == {Plain("reopen", item), Plain("touch", item), Plain("patch", item),
                 Plain("patch_done", item), [op |-> "patch", item |-> item, derived |-> TRUE]}
<1>1. /\ Plain("reopen", item) \in S /\ Plain("touch", item) \in S
      /\ Plain("patch", item) \in S /\ Plain("patch_done", item) \in S
      /\ [op |-> "patch", item |-> item, derived |-> TRUE] \in S
  OBVIOUS
<1>2. \A s \in S : s.op \in {"reopen", "touch", "patch", "patch_done"}
  BY DEF Plain
<1> HIDE DEF S
<1>3. \A s1, s2 \in Seq(S) : s1 \o s2 \in Seq(S)
  BY ConcatProperties
<1>4. MappedSteps(row, item, remote) \in Seq(S)
  BY <1>1, <1>3, WhenIsAmong DEF MappedSteps
<1> QED
  BY <1>2, <1>4

\* A homework that may not be listed is closed, alone, only by a fetch that covers the
\* window; a create is cancelled, alone, only for want of a task; and a pending row gets
\* a step about its operation.
LEMMA StepsEnd ==
  ASSUME NEW h \in Homework, NEW row \in Row, NEW item \in Item, NEW remote \in Task,
         NEW cov \in BOOLEAN, row.state \in Pending => row.op \in OpName,
         NEW p, p = Steps(h, row, item, remote, cov)
  PROVE  /\ \A i \in DOMAIN p : p[i].op \in {"close", "delete"} =>
              /\ cov /\ item.at # "listed" /\ h \in PastDue
              /\ row.state \in {"created", "updated"} /\ row.task # None /\ Len(p) = 1
         /\ \A i \in DOMAIN p : p[i].op = "cancel" => row.task = None /\ Len(p) = 1
         /\ row.state \in Pending => p # <<>> /\ Head(p).op \notin {"touch", "close", "delete"}
<1>1. \A op : \A j : Len(<<Plain(op, j)>>) = 1 /\ <<Plain(op, j)>>[1].op = op
  BY DEF Plain
<1>2. \A i \in DOMAIN CloseSteps(h, row, cov) :
        /\ cov /\ h \in PastDue /\ row.state \in {"created", "updated"} /\ row.task # None
        /\ Len(CloseSteps(h, row, cov)) = 1
        /\ CloseSteps(h, row, cov)[i].op = DeletePolicy /\ DeletePolicy # "leave"
  BY <1>1 DEF CloseSteps, When, Plain, Pending
<1>3. row.state \in Pending =>
        QueuedSteps(row) = <<Plain(row.op, row.item)>>
  BY DEF QueuedSteps, When, OpName
<1>4. CASE row.state \in Pending
  <2>1. (p = <<Plain("cancel", item)>> /\ row.task = None)
        \/ (\E op \in OpName : \E j : p = <<Plain(op, j)>>)
    <3>1. CASE item.at = "absent"
      BY <1>3, <1>4, <3>1 DEF Steps
    <3>2. CASE item.at # "absent"
      <4>1. p = PendingSteps(row, item)
        BY <1>4, <3>2 DEF Steps
      <4> QED
        BY <1>3, <1>4, <4>1 DEF PendingSteps, OpName
    <3> QED
      BY <3>1, <3>2
  <2>a. PICK op \in OpName \cup {"cancel"} : \E j : /\ p = <<Plain(op, j)>>
                                                    /\ op = "cancel" => row.task = None
    <3>1. CASE p = <<Plain("cancel", item)>> /\ row.task = None
      BY <3>1
    <3>2. CASE \E op \in OpName : \E j : p = <<Plain(op, j)>>
      <4>1. "cancel" \notin OpName
        BY DEF OpName
      <4> QED
        BY <3>2, <4>1
    <3> QED
      BY <2>1, <3>1, <3>2
  <2>2. PICK j : p = <<Plain(op, j)>> /\ (op = "cancel" => row.task = None)
    BY <2>a
  <2>3. Len(p) = 1 /\ p # <<>> /\ Head(p).op = op /\ \A i \in DOMAIN p : p[i].op = op
    BY <2>2 DEF Plain
  <2>4. op \notin {"touch", "close", "delete"}
    BY DEF OpName
  <2> QED
    BY <2>2, <2>3, <2>4
<1>5. CASE row.state \notin Pending
  <2>1. CASE item.at # "listed"
    BY <1>2, <1>5, <2>1, ConfigAssumption DEF Steps
  <2>2. CASE item.at = "listed" /\ row.task = None
    <3>1. p = <<Plain("create", item)>>
      BY <1>5, <2>2 DEF Steps
    <3> QED
      BY <1>5, <3>1 DEF Plain
  <2>3. CASE item.at = "listed" /\ row.task # None
    <3>1. p = MappedSteps(row, item, remote)
      BY <1>5, <2>3 DEF Steps
    <3> QED
      BY <1>5, <3>1, MappedStepsWrite
  <2> QED
    BY <2>1, <2>2, <2>3
<1> QED
  BY <1>4, <1>5

\* The deferred operations alone end nothing.
LEMMA DeferredStepsEnd ==
  ASSUME NEW row \in Row, row.state \in Pending => row.op \in OpName,
         NEW i \in DOMAIN DeferredSteps(row)
  PROVE  DeferredSteps(row)[i].op \in OpName
<1>1. row.state = "deferred" /\ row.op \in OpName
  BY DEF DeferredSteps, Pending
<1>2. DeferredSteps(row) = <<Plain(row.op, row.item)>>
  BY <1>1 DEF DeferredSteps, QueuedSteps, When, OpName
<1> QED
  BY <1>1, <1>2 DEF Plain

---------------------------------------------------------------------------
(* What keeps the invariant without touching the plan.                     *)

\* The source, the people and late commits are outside of the engine.
LEMMA OutsidePasses ==
  ASSUME PassInv, UNCHANGED <<memory, rows, fresh>>
  PROVE  PassInv'
  BY DEF PassInv, PlanInOrder, ClosesUnlisted, PendingPlanned, HeartbeatMeansSettled,
         Heartbeat, AtCall, memory, pass

\* A pass ends; if it stamps its time then nothing is pending.
LEMMA EndPasses ==
  ASSUME PassInv, ResetMemory, UNCHANGED rows,
         fresh' => \A h \in Homework : rows[h].state \notin Pending
  PROVE  PassInv'
<1>1. pc' = "idle" /\ plan' = [h \in Homework |-> <<>>]
  BY DEF ResetMemory
<1> QED
  BY <1>1 DEF PassInv, PlanInOrder, ClosesUnlisted, PendingPlanned, HeartbeatMeansSettled,
              AtCall

\* A pass that dies, or that meets a step without its task, has not stamped yet; one that
\* comes to its end has no step left.
LEMMA LastPasses ==
  ASSUME PassInv, Crash \/ FinishPass \/ \E h \in Homework : StepWithoutTask(h)
  PROVE  PassInv'
<1>1. CASE Crash
  BY <1>1, EndPasses DEF Crash, store, PassInv, PendingPlanned
<1>2. CASE FinishPass
  <2>1. Heartbeat => \A h \in Homework : rows[h].state \notin Pending
    BY <1>2 DEF FinishPass, PassInv, PendingPlanned
  <2> QED
    BY <1>2, <2>1, EndPasses DEF FinishPass
<1>3. CASE \E h \in Homework : StepWithoutTask(h)
  <2>1. pc = "apply" /\ ResetMemory /\ UNCHANGED store
    BY <1>3 DEF StepWithoutTask
  <2> QED
    BY <2>1, EndPasses DEF store, PassInv, PendingPlanned
<1> QED
  BY <1>1, <1>2, <1>3

\* Before the fetch there is no plan.
LEMMA EarlyPasses ==
  ASSUME OwnInv, PassInv, StartPass \/ ListTasks \/ StripDuplicate \/ SyncStore
  PROVE  PassInv'
<1>1. \A h \in Homework : plan[h] = <<>>
  BY DEF PassInv, PlanInOrder, StartPass, ListTasks, StripDuplicate, SyncStore
<1>2. pc' \in {"list", "strip", "fetch"} /\ plan' = plan
  BY DEF StartPass, ListTasks, StripDuplicate, SyncStore
<1>3. ~fresh'
  BY DEF PassInv, PendingPlanned, StartPass, ListTasks, StripDuplicate, SyncStore, store
<1>4. ASSUME NEW h \in Homework, rows'[h].state \in Pending
      PROVE  rows'[h].op \in OpName
  <2>1. CASE SyncStore
    <3>1. rows'[h] = SyncedRow(seen, h, rows[h])
      BY <2>1 DEF SyncStore
    <3>2. \/ rows'[h].state \in {"created", "absent"}
          \/ rows'[h] = rows[h]
          \/ rows'[h] = [rows[h] EXCEPT !.task = Winner(seen, h)]
      BY <3>1 DEF SyncedRow, AdoptedRow, NoRow
    <3>3. rows[h] \in Row
      BY DEF OwnInv, TypeOK
    <3>4. \/ rows'[h].state \in {"created", "absent"}
          \/ rows'[h].state = rows[h].state /\ rows'[h].op = rows[h].op
      BY <3>2, <3>3 DEF Row
    <3> QED
      BY <1>4, <3>4 DEF Pending, PassInv, PendingPlanned
  <2>2. CASE StartPass \/ ListTasks \/ StripDuplicate
    <3>1. rows' = rows
      BY <2>2 DEF StartPass, ListTasks, StripDuplicate, store
    <3> QED
      BY <1>4, <3>1 DEF PassInv, PendingPlanned
  <2> QED
    BY <2>1, <2>2
<1> QED
  BY <1>1, <1>2, <1>3, <1>4
  DEF PassInv, PlanInOrder, ClosesUnlisted, PendingPlanned, HeartbeatMeansSettled, AtCall

\* A fetch plans nothing yet, whatever it brings.
LEMMA FetchPasses ==
  ASSUME PassInv, FetchWindow \/ FetchTruncated \/ FetchLoginOnly
  PROVE  PassInv'
<1>1. \E got, complete : Fetch(got, complete)
  BY DEF FetchWindow, FetchTruncated, FetchLoginOnly
<1>2. pc' = "plan" /\ UNCHANGED <<rows, fresh, plan>> /\ pc = "fetch"
  BY <1>1 DEF Fetch, store
<1> QED
  BY <1>2
  DEF PassInv, PlanInOrder, ClosesUnlisted, PendingPlanned, HeartbeatMeansSettled, AtCall

---------------------------------------------------------------------------
(* The plan is made.                                                       *)

\* Deferred operations alone close nothing, and their pass does not stamp.
LEMMA DeferredPasses ==
  ASSUME OwnInv, PassInv, AbortPass \/ DiffDeferredOnly
  PROVE  PassInv'
<1>1. /\ pc' = "apply" /\ UNCHANGED <<rows, fresh>> /\ pc # "idle"
      /\ plan' = [h \in Homework |-> DeferredSteps(rows[h])]
      /\ ~Heartbeat'
  BY DEF AbortPass, DiffDeferredOnly, store, pass, Heartbeat
<1>2. ASSUME NEW h \in Homework, NEW i \in DOMAIN plan'[h]
      PROVE  plan'[h][i].op \in OpName
  <2>1. rows[h] \in Row /\ (rows[h].state \in Pending => rows[h].op \in OpName)
    BY DEF OwnInv, TypeOK, PassInv, PendingPlanned
  <2> QED
    BY <1>1, <1>2, <2>1, DeferredStepsEnd
<1>3. {"close", "delete"} \cap OpName = {}
  BY DEF OpName
<1> QED
  BY <1>1, <1>2, <1>3
  DEF PassInv, PlanInOrder, ClosesUnlisted, PendingPlanned, HeartbeatMeansSettled, AtCall

\* What the diff plans for a homework: its steps, given a list of the tasks.
LEMMA DiffPlans ==
  ASSUME OwnInv, Diff
  PROVE  \E list \in [TaskId -> Task] :
           /\ \A t \in TaskId : list[t].live => list[t] = tasks[t]
           /\ \A h \in Homework :
                /\ Listed(list, rows[h].task) \in Task
                /\ plan'[h] = Steps(h, rows[h], items[h], Listed(list, rows[h].task), covered)
<1>1. PICK hidden \in TaskId \cup {None} :
        /\ Overlooks("plan", hidden)
        /\ plan' = [h \in Homework |->
                      Steps(h, rows[h], items[h], Listed(View(hidden), rows[h].task), covered)]
  BY DEF Diff
<1>2. /\ View(hidden) \in [TaskId -> Task]
      /\ \A t \in TaskId : View(hidden)[t].live => View(hidden)[t] = tasks[t]
  BY <1>1, ViewFacts
<1>3. ASSUME NEW h \in Homework PROVE Listed(View(hidden), rows[h].task) \in Task
  <2>1. rows[h].task \in TaskId \cup {None}
    BY DEF OwnInv, TypeOK, Row
  <2> QED
    BY <1>2, <2>1, EmptyValues DEF Listed
<1> QED
  BY <1>1, <1>2, <1>3

\* The diff closes nothing that was listed, and plans a step for every pending row.
LEMMA DiffPasses ==
  ASSUME OwnInv, PassInv, Diff
  PROVE  PassInv'
<1>1. /\ pc = "plan" /\ pc' = "apply"
      /\ UNCHANGED <<rows, fresh, items, covered, aborted, breaker, failed>>
  BY DEF Diff, store, pass
<1>2. ASSUME NEW h \in Homework
      PROVE  /\ \A i \in DOMAIN plan'[h] : plan'[h][i].op \in {"close", "delete"} =>
                  /\ covered /\ items[h].at # "listed" /\ h \in PastDue
                  /\ Len(plan'[h]) = 1 /\ rows[h].state \in {"created", "updated"}
             /\ rows[h].state \in Pending =>
                  plan'[h] # <<>> /\ Head(plan'[h]).op \notin {"touch", "close", "delete"}
  <2>1. rows[h] \in Row /\ (rows[h].state \in Pending => rows[h].op \in OpName)
        /\ items[h] \in Item /\ covered \in BOOLEAN
    BY DEF OwnInv, TypeOK, PassInv, PendingPlanned
  <2>2. PICK remote \in Task : plan'[h] = Steps(h, rows[h], items[h], remote, covered)
    BY DiffPlans
  <2> QED
    BY <2>1, <2>2, StepsEnd
<1>3. ClosesUnlisted'
  BY <1>1, <1>2 DEF ClosesUnlisted
<1> QED
  BY <1>1, <1>2, <1>3
  DEF PassInv, PlanInOrder, PendingPlanned, HeartbeatMeansSettled, AtCall

---------------------------------------------------------------------------
(* The plan is carried out.                                                *)

\* In the middle of a step the plan stays; a row becomes pending only for its own create.
LEMMA MiddlePasses ==
  ASSUME OwnInv, PassInv, pc = "apply" \/ AtCall, AtCall',
         UNCHANGED <<plan, items, aborted, breaker, covered, failed, fresh>>,
         \A h \in Homework :
           \/ rows'[h].state = rows[h].state
           \/ plan[h] # <<>> /\ Head(plan[h]).op \in {"create", "resume"},
         job'.op = Head(plan[job'.h]).op,
         \A h \in Homework : rows'[h].state \in Pending =>
           /\ rows'[h].op \in OpName
           /\ \/ rows[h].state \in Pending
              \/ plan[h] # <<>> /\ Head(plan[h]).op \in {"create", "resume"}
  PROVE  PassInv'
<1>1. pc' \notin {"idle", "plan", "apply"} /\ ~fresh'
  BY DEF PassInv, PendingPlanned, AtCall
<1>2. Heartbeat' = Heartbeat
  BY DEF Heartbeat
<1>3. PendingPlanned'
  BY <1>1, <1>2 DEF PassInv, PendingPlanned
<1>4. ASSUME NEW h \in Homework, NEW i \in DOMAIN plan[h], plan[h][i].op \in {"close", "delete"}
      PROVE  Head(plan[h]).op \notin {"create", "resume"}
  <2>1. Len(plan[h]) = 1 /\ plan[h] \in Seq(Step)
    BY <1>4 DEF OwnInv, TypeOK, PassInv, ClosesUnlisted
  <2>2. i = 1 /\ Head(plan[h]) = plan[h][1]
    BY <2>1
  <2> QED
    BY <1>4, <2>2
<1>5. ClosesUnlisted'
  BY <1>4 DEF PassInv, ClosesUnlisted
<1> QED
  BY <1>1, <1>3, <1>5
  DEF PassInv, PlanInOrder, HeartbeatMeansSettled, AtCall

\* A step is over: what is left of its homework's steps may be anything that was planned.
LEMMA StepPasses ==
  ASSUME OwnInv, PassInv, pc = "apply" \/ AtCall, pc' = "apply",
         NEW h \in Homework, plan[h] # <<>>, plan' = [plan EXCEPT ![h] = Tail(@)],
         UNCHANGED <<items, aborted, breaker, covered, fresh>>,
         \A g \in Homework \ {h} : rows'[g] = rows[g],
         failed' = failed \/ failed' = failed + 1,
         \A g \in Homework : rows'[g].state \in Pending =>
           /\ rows'[g].op \in OpName
           /\ Heartbeat' => g # h /\ rows[g].state \in Pending
  PROVE  PassInv'
<1>1. ~fresh' /\ pc # "idle"
  BY DEF PassInv, PendingPlanned, AtCall
<1>2. Heartbeat' => Heartbeat
  BY DEF Heartbeat, OwnInv, TypeOK
<1>3. plan \in [Homework -> Seq(Step)]
  BY DEF OwnInv, TypeOK
<1>4. \A i \in DOMAIN Tail(plan[h]) : i + 1 \in DOMAIN plan[h]
                                      /\ Tail(plan[h])[i] = plan[h][i + 1]
  BY <1>3
<1>5. ClosesUnlisted'
  <2>1. ASSUME NEW i \in DOMAIN Tail(plan[h])
        PROVE  Tail(plan[h])[i].op \notin {"close", "delete"}
    <3>1. i + 1 \in DOMAIN plan[h] /\ i + 1 # 1 /\ Tail(plan[h])[i] = plan[h][i + 1]
      BY <1>3, <1>4
    <3>2. plan[h][i + 1].op \in {"close", "delete"} => Len(plan[h]) = 1
      BY <3>1 DEF PassInv, ClosesUnlisted
    <3>3. i + 1 \in 1 .. Len(plan[h])
      BY <1>3, <3>1
    <3> QED
      BY <3>1, <3>2, <3>3
  <2>2. ASSUME NEW g \in Homework
        PROVE  plan'[g] = IF g = h THEN Tail(plan[h]) ELSE plan[g]
    BY <1>3
  <2> QED
    BY <2>1, <2>2 DEF PassInv, ClosesUnlisted
<1>6. PendingPlanned'
  BY <1>1, <1>2, <1>3 DEF PassInv, PendingPlanned, AtCall
<1> QED
  BY <1>1, <1>5, <1>6 DEF PassInv, PlanInOrder, HeartbeatMeansSettled, AtCall

\* touch leaves a row pending or not, and a pending row's next step is another one;
\* cancel leaves none.
LEMMA LocalPasses ==
  ASSUME OwnInv, PassInv, NEW h \in Homework, LocalStep(h)
  PROVE  PassInv'
<1>1. /\ pc = "apply" /\ pc' = "apply" /\ plan[h] # <<>>
      /\ plan' = [plan EXCEPT ![h] = Tail(@)]
      /\ UNCHANGED <<items, aborted, breaker, covered, fresh, failed>>
      /\ rows' = [rows EXCEPT ![h] = IF Head(plan[h]).op = "touch"
                                     THEN TouchedRow(@, Head(plan[h]).item)
                                     ELSE CancelledRow(@)]
  BY DEF LocalStep, Turn, pass
<1>2. rows \in [Homework -> Row]
  BY DEF OwnInv, TypeOK
<1>3. Heartbeat' => Heartbeat
  BY <1>1 DEF Heartbeat
<1>4. ASSUME NEW g \in Homework, rows'[g].state \in Pending
      PROVE  rows'[g].op \in OpName /\ (Heartbeat' => g # h /\ rows[g].state \in Pending)
  <2>1. CASE g # h
    BY <1>1, <1>2, <1>4, <2>1 DEF PassInv, PendingPlanned
  <2>2. CASE g = h /\ Head(plan[h]).op = "touch"
    <3>1. rows'[g] = TouchedRow(rows[g], Head(plan[h]).item)
      BY <1>1, <1>2, <2>2
    <3>2. rows'[g].state = rows[g].state /\ rows'[g].op = rows[g].op
      BY <1>2, <3>1 DEF TouchedRow, Row
    <3> QED
      BY <1>1, <1>3, <1>4, <2>2, <3>2 DEF PassInv, PendingPlanned
  <2>3. CASE g = h /\ Head(plan[h]).op # "touch"
    <3>1. rows'[g] = CancelledRow(rows[g])
      BY <1>1, <1>2, <2>3
    <3> QED
      BY <1>2, <1>4, <3>1 DEF CancelledRow, Row, Pending
  <2> QED
    BY <2>1, <2>2, <2>3
<1>5. \A g \in Homework \ {h} : rows'[g] = rows[g]
  BY <1>1, <1>2
<1> QED
  BY <1>1, <1>4, <1>5, StepPasses

\* A step begins with the plan's next operation.
LEMMA BeginPasses ==
  ASSUME OwnInv, PassInv, NEW h \in Homework, BeginStep(h)
  PROVE  PassInv'
<1>1. /\ pc = "apply" /\ job'.h = h /\ job'.op = Head(plan[h]).op
      /\ pc' = FirstCall(job'.op, rows[h])
      /\ UNCHANGED <<plan, items, aborted, breaker, covered, failed, rows, fresh>>
  BY DEF BeginStep, store, pass
<1>2. AtCall'
  BY <1>1 DEF FirstCall, AtCall
<1> QED
  BY <1>1, <1>2, MiddlePasses DEF PassInv, PendingPlanned

\* The calls of a step that goes on write a row only for a create.
LEMMA CallPasses ==
  ASSUME OwnInv, PassInv,
         FindById \/ FindAnchor \/ WriteIntent \/ Post \/ SaveId \/ TaskCall
  PROVE  PassInv'
<1>1. /\ AtCall /\ AtCall'
      /\ UNCHANGED <<plan, items, aborted, breaker, covered, failed, fresh>>
  BY DEF FindById, FindAnchor, WriteIntent, Post, SaveId, TaskCall, TaskCalls, AtCall,
         store, pass
<1>2. job'.op = job.op /\ job'.h = job.h
  <2>1. job \in Job
    BY DEF OwnInv, TypeOK
  <2> QED
    BY <2>1 DEF FindById, FindAnchor, WriteIntent, Post, SaveId, TaskCall, Job
<1>3. job'.op = Head(plan[job'.h]).op /\ plan[job.h] # <<>> /\ job.h \in Homework
  BY <1>1, <1>2 DEF PassInv, PlanInOrder, OwnInv, JobFits
<1>4. ASSUME NEW h \in Homework, rows'[h].state \in Pending
      PROVE  /\ rows'[h].op \in OpName
             /\ \/ rows[h].state \in Pending
                \/ plan[h] # <<>> /\ Head(plan[h]).op \in {"create", "resume"}
  <2>1. rows \in [Homework -> Row]
    BY DEF OwnInv, TypeOK
  <2>2. CASE rows' = rows
    BY <1>4, <2>2 DEF PassInv, PendingPlanned
  <2>3. CASE WriteIntent
    <3>1. job.op \in {"create", "resume"} /\ rows' = [rows EXCEPT ![job.h] = IntentRow(job.item)]
      BY <2>3 DEF WriteIntent, OwnInv, JobFits
    <3>2. CASE h = job.h
      <4>1. rows'[h] = IntentRow(job.item)
        BY <1>3, <2>1, <3>1, <3>2
      <4>2. rows'[h].op \in OpName
        BY <4>1 DEF IntentRow, OpName
      <4> QED
        BY <1>2, <1>3, <3>1, <3>2, <4>2
    <3>3. CASE h # job.h
      BY <1>4, <2>1, <3>1, <3>3 DEF PassInv, PendingPlanned
    <3> QED
      BY <3>2, <3>3
  <2>4. CASE SaveId
    <3>1. rows'[h].state = rows[h].state /\ rows'[h].op = rows[h].op
      BY <1>3, <2>1, <2>4 DEF SaveId, Row
    <3> QED
      BY <1>4, <3>1 DEF PassInv, PendingPlanned
  <2> QED
    BY <2>2, <2>3, <2>4 DEF FindById, FindAnchor, Post, TaskCall, store
<1>5. ASSUME NEW h \in Homework
      PROVE  \/ rows'[h].state = rows[h].state
             \/ plan[h] # <<>> /\ Head(plan[h]).op \in {"create", "resume"}
  <2>1. rows \in [Homework -> Row]
    BY DEF OwnInv, TypeOK
  <2>2. CASE WriteIntent
    <3>1. job.op \in {"create", "resume"} /\ rows' = [rows EXCEPT ![job.h] = IntentRow(job.item)]
      BY <2>2 DEF WriteIntent, OwnInv, JobFits
    <3> QED
      BY <1>2, <1>3, <2>1, <3>1
  <2>3. CASE SaveId
    BY <1>3, <2>1, <2>3 DEF SaveId, Row
  <2> QED
    BY <2>2, <2>3 DEF FindById, FindAnchor, Post, TaskCall, store
<1> QED
  BY <1>1, <1>3, <1>4, <1>5, MiddlePasses

\* What a step leaves when it is done, or when its task is gone, is not pending.
LEMMA DonePasses ==
  ASSUME OwnInv, PassInv, StoreResult \/ TaskGone \/ StrayGone
  PROVE  PassInv'
<1>1. /\ AtCall /\ EndStep
      /\ UNCHANGED <<items, aborted, breaker, covered, failed, fresh>>
  BY DEF StoreResult, TaskGone, StrayGone, Gone, TaskCalls, AtCall, pass
<1>2. /\ job.h \in Homework /\ plan[job.h] # <<>> /\ job.op = Head(plan[job.h]).op
      /\ pc' = "apply" /\ plan' = [plan EXCEPT ![job.h] = Tail(@)]
  BY <1>1 DEF OwnInv, JobFits, PassInv, PlanInOrder, EndStep
<1>3. rows \in [Homework -> Row] /\ job.row \in Row
  BY DEF OwnInv, TypeOK, Job
<1>4. Heartbeat' = Heartbeat
  BY <1>1 DEF Heartbeat
<1>5. \/ \E row : rows' = [rows EXCEPT ![job.h] = row] /\ row.state \notin Pending
      \/ rows' = rows /\ pc = "close"
  <2>1. CASE StoreResult
    <3>1. ResultRow.state \notin Pending
      BY <1>3 DEF ResultRow, FinalizedRow, PatchedRow, DoneRow, ClosedRow, NoRow, Row, Closed,
                  Pending
    <3> QED
      BY <2>1, <3>1 DEF StoreResult
  <2>2. CASE (TaskGone /\ pc # "close") \/ StrayGone
    <3>1. RowNow \in Row
      BY <1>2, <1>3 DEF RowNow
    <3>2. GoneRow(RowNow).state \notin Pending
      BY <3>1 DEF GoneRow, NoRow, Row, Pending
    <3> QED
      BY <2>2, <3>2 DEF TaskGone, StrayGone
  <2>3. CASE TaskGone /\ pc = "close"
    BY <2>3 DEF TaskGone
  <2> QED
    BY <2>1, <2>2, <2>3
<1>6. ASSUME NEW g \in Homework, rows'[g].state \in Pending
      PROVE  rows'[g].op \in OpName /\ (Heartbeat' => g # job.h /\ rows[g].state \in Pending)
  <2>1. CASE \E row : rows' = [rows EXCEPT ![job.h] = row] /\ row.state \notin Pending
    BY <1>2, <1>3, <1>6, <2>1 DEF PassInv, PendingPlanned
  <2>2. CASE rows' = rows /\ pc = "close"
    <3>1. job.op \in {"close", "delete"}
      BY <2>2 DEF OwnInv, JobFits
    <3> QED
      BY <1>1, <1>2, <1>4, <1>6, <2>2, <3>1 DEF PassInv, PendingPlanned
  <2> QED
    BY <1>5, <2>1, <2>2
<1>7. \A g \in Homework \ {job.h} : rows'[g] = rows[g]
  BY <1>3, <1>5
<1> QED
  BY <1>1, <1>2, <1>6, <1>7, StepPasses

\* A call fails: the step starts over, or its operation is deferred and the pass will
\* not stamp.
LEMMA FailPasses ==
  ASSUME OwnInv, PassInv, CallFails
  PROVE  PassInv'
<1>1. /\ AtCall /\ RetryOrDefer /\ pc \notin {"save", "store"}
      /\ UNCHANGED <<items, aborted, breaker, covered, fresh>>
  BY DEF CallFails, TaskCalls, AtCall, pass
<1>2. job.h \in Homework /\ plan[job.h] # <<>> /\ job.op = Head(plan[job.h]).op
  BY <1>1 DEF OwnInv, JobFits, PassInv, PlanInOrder
<1>3. rows \in [Homework -> Row] /\ job.row \in Row /\ job \in Job /\ failed \in Nat
  BY DEF OwnInv, TypeOK, Job
<1>4. CASE pc # "close" /\ job.att + 1 < RetryMax
  <2>1. /\ UNCHANGED <<rows, plan, failed>> /\ pc' = FirstCall(job.op, job.row)
        /\ job'.h = job.h /\ job'.op = job.op
    BY <1>1, <1>3, <1>4 DEF RetryOrDefer, Job
  <2>2. AtCall'
    BY <2>1 DEF FirstCall, AtCall
  <2> QED
    BY <1>1, <1>2, <2>1, <2>2, MiddlePasses DEF PassInv, PendingPlanned
<1>5. CASE ~(pc # "close" /\ job.att + 1 < RetryMax)
  <2>1. /\ rows' = IF pc = "close" THEN rows
                   ELSE [rows EXCEPT ![job.h] = DeferredRow(RowNow, job.op, job.item)]
        /\ failed' = failed + 1 /\ pc' = "apply"
        /\ plan' = [plan EXCEPT ![job.h] = Tail(@)]
    BY <1>1, <1>5 DEF RetryOrDefer, EndStep
  <2>2. ~Heartbeat'
    BY <1>3, <2>1 DEF Heartbeat
  <2>3. ASSUME NEW g \in Homework, rows'[g].state \in Pending
        PROVE  rows'[g].op \in OpName
    <3>1. CASE rows'[g] = rows[g]
      BY <2>3, <3>1 DEF PassInv, PendingPlanned
    <3>2. CASE pc # "close" /\ rows'[g] = DeferredRow(RowNow, job.op, job.item)
      <4>1. job.op \in OpName
        BY <1>1, <3>2 DEF OwnInv, TypeOK, JobFits, AtCall, PC, OpName
      <4>2. RowNow \in Row /\ IntentRow(job.item) \in Row
        BY <1>2, <1>3, RowsWritten DEF RowNow, Job
      <4> QED
        BY <3>2, <4>1, <4>2 DEF DeferredRow, Row
    <3> QED
      BY <1>2, <1>3, <2>1, <3>1, <3>2
  <2>4. \A g \in Homework \ {job.h} : rows'[g] = rows[g]
    BY <1>3, <2>1
  <2> QED
    BY <1>1, <1>2, <2>1, <2>2, <2>3, <2>4, StepPasses
<1> QED
  BY <1>4, <1>5

---------------------------------------------------------------------------
(* The theorems.                                                           *)

\* At first nothing is planned, pending or stamped.
LEMMA InitPasses ==
  ASSUME Init
  PROVE  PassInv
  BY DEF Init, NoRow, Pending, AtCall, PassInv, PlanInOrder, ClosesUnlisted, PendingPlanned,
         HeartbeatMeansSettled

\* Every step keeps the invariant.
LEMMA NextPasses ==
  ASSUME OwnInv, PassInv, [Next]_vars
  PROVE  PassInv'
<1>1. CASE Environment
  <2>1. UNCHANGED <<memory, store>>
    BY <1>1 DEF Environment, TeacherEdits, DoneToggles, Moves, Teacher, PersonDeletes,
                PersonTicks, PersonEdits, Person, LateCommit
  <2> QED
    BY <2>1, OutsidePasses DEF store
<1>2. CASE Progress
  BY <1>2, EarlyPasses, FetchPasses, DiffPasses, DeferredPasses, LocalPasses, BeginPasses,
     CallPasses, DonePasses, LastPasses
  DEF Progress
<1>3. CASE Failure
  BY <1>3, LastPasses, DeferredPasses, FetchPasses, DonePasses, FailPasses DEF Failure
<1>4. CASE UNCHANGED vars
  BY <1>4, OutsidePasses DEF vars, store
<1> QED
  BY <1>1, <1>2, <1>3, <1>4 DEF Next

\* The inductive invariant of a pass holds in every reachable state.
THEOREM PassInvariant == Spec => []PassInv
<1>1. Init => PassInv
  BY InitPasses
<1>2. OwnInv /\ PassInv /\ [Next]_vars => PassInv'
  BY NextPasses
<1> QED
  BY <1>1, <1>2, OwnInvariant, PTL DEF Spec

\* The close policy reaches a homework only in a pass whose fetch counted as covering the
\* window and did not list it, past its due date and with its row as the diff had read it:
\* neither a deferred operation nor a call that failed or had its row dropped leads there.
THEOREM ClosesCovered == Spec => []CloseNeedsCover
<1>1. OwnInv /\ PassInv => CloseNeedsCover
  <2> SUFFICES ASSUME OwnInv, PassInv, pc = "close"
               PROVE  /\ covered /\ items[job.h].at # "listed" /\ job.h \in PastDue
                      /\ rows[job.h].state \in {"created", "updated"}
    BY DEF CloseNeedsCover
  <2>1. /\ job.h \in Homework /\ plan[job.h] # <<>> /\ job.op \in {"close", "delete"}
        /\ job.op = Head(plan[job.h]).op
    BY DEF OwnInv, JobFits, AtCall, PassInv, PlanInOrder
  <2>2. plan[job.h] \in Seq(Step)
    BY <2>1 DEF OwnInv, TypeOK
  <2>3. 1 \in DOMAIN plan[job.h] /\ Head(plan[job.h]) = plan[job.h][1]
    BY <2>1, <2>2
  <2> QED
    BY <2>1, <2>3 DEF PassInv, ClosesUnlisted
<1> QED
  BY <1>1, OwnInvariant, PassInvariant, PTL

\* When a pass stamps last_sync_ts no row is left half created or deferred, though rows
\* become pending and are settled, cancelled or given up in any order within the pass.
THEOREM HeartbeatSettles == Spec => []HeartbeatMeansSettled
<1>1. PassInv => HeartbeatMeansSettled
  BY DEF PassInv
<1> QED
  BY <1>1, PassInvariant, PTL

---------------------------------------------------------------------------
(* A tick that stands: what takes one away.                                *)

\* A step that takes a task's tick away.
Unticks(step) == step.op = "reopen" \/ (step.op = "patch_done" /\ ~step.item.done)

\* A row that may have a homework reopened: it was closed, or that is still owed.
MayReopen(row) ==
  \/ row.state \in Closed
  \/ row.state = "deferred" /\ row.op \in {"reopen", "patch_done"}

\* The row that the next step of homework h works from: as it is, or as the step at hand
\* has read it.
RowOf(h) == IF AtCall /\ job.h = h THEN job.row ELSE rows[h]

\* A plan takes a tick away by its first step if at all, and for its row's sake.
UntickFirst(steps, row) ==
  \A i \in DOMAIN steps : Unticks(steps[i]) => i = 1 /\ MayReopen(row)

\* The step at hand is the next of the plan.
StepAtHand ==
  AtCall => job.item = Head(plan[job.h]).item /\ job.derived = Head(plan[job.h]).derived

CreatesQueued == \A h \in Homework : rows[h].state = "creating" => rows[h].op = "create"

TicksLive ==
  /\ \A t \in TaskId : tasks[t].done => tasks[t].live
  /\ \A p \in inflight : p.task.live

PlansUntick == ~MirrorDone => \A h \in Homework : UntickFirst(plan[h], RowOf(h))

\* The inductive invariant behind TickStands.
TickInv == StepAtHand /\ CreatesQueued /\ TicksLive /\ PlansUntick

\* Steps that take no tick away leave those before them as they are.
LEMMA UntickConcat ==
  ASSUME NEW row, NEW s \in Seq(Step), UntickFirst(s, row),
         NEW t \in Seq(Step), \A i \in DOMAIN t : ~Unticks(t[i])
  PROVE  s \o t \in Seq(Step) /\ UntickFirst(s \o t, row)
<1>1. /\ s \o t \in Seq(Step) /\ Len(s \o t) = Len(s) + Len(t)
      /\ \A i \in 1 .. Len(s) + Len(t) :
           (s \o t)[i] = IF i <= Len(s) THEN s[i] ELSE t[i - Len(s)]
  BY ConcatProperties
<1>2. ASSUME NEW i \in DOMAIN (s \o t), Unticks((s \o t)[i])
      PROVE  i = 1 /\ MayReopen(row)
  <2>1. i \in 1 .. Len(s) + Len(t)
    BY <1>1
  <2>2. CASE i <= Len(s)
    BY <1>1, <1>2, <2>1, <2>2 DEF UntickFirst
  <2>3. CASE ~(i <= Len(s))
    <3>1. i - Len(s) \in DOMAIN t
      BY <2>1, <2>3
    <3> QED
      BY <1>1, <1>2, <2>1, <2>3, <3>1
  <2> QED
    BY <2>2, <2>3
<1> QED
  BY <1>1, <1>2 DEF UntickFirst

\* Without mirror_done the diff reopens what was closed, and that comes first; it never
\* sends an open done bit besides.
LEMMA MappedUntick ==
  ASSUME ~MirrorDone, NEW row \in Row, NEW item \in Item, NEW remote \in Task
  PROVE  UntickFirst(MappedSteps(row, item, remote), row)
<1> DEFINE wasClosed == row.state \in Closed
           reopen    == wasClosed /\ ~item.done
           seenDone  == row.done /\ ~reopen
           baseline  == row.fp = Unset
           edited    == ~baseline /\ row.fp # item.content
           drift     == ~edited /\ remote.live /\ remote.content = Foreign
           flip      == item.done # seenDone /\ (MirrorDone \/ wasClosed)
           mirror    == ~flip /\ MirrorDone /\ remote.live /\ remote.done # item.done
           derive    == ~edited /\ ~drift /\ remote.live /\ ~remote.derived
           W1 == When(reopen, Plain("reopen", item))
           W2 == When(baseline, Plain("touch", item))
           W3 == When(edited, Plain("patch", item))
           W4 == When(flip, Plain("patch_done", item))
           W5 == When(drift, Plain("patch", item))
           W6 == When(mirror, Plain("patch_done", item))
           W7 == When(derive, [op |-> "patch", item |-> item, derived |-> TRUE])
           W8 == When(~(reopen \/ baseline \/ edited \/ flip \/ drift \/ mirror \/ derive),
                      Plain("touch", item))
<1>1. MappedSteps(row, item, remote) = W1 \o W2 \o W3 \o W4 \o W5 \o W6 \o W7 \o W8
  BY DEF MappedSteps
<1>2. \A op \in StepOp : Plain(op, item) \in Step
  BY DEF Plain, Step
<1>3. [op |-> "patch", item |-> item, derived |-> TRUE] \in Step
  BY DEF Step, StepOp, OpName
<1>4. {"reopen", "touch", "patch", "patch_done"} \subseteq StepOp
  BY DEF StepOp, OpName
<1>5. W1 \in Seq(Step) /\ UntickFirst(W1, row)
  BY <1>2, <1>4 DEF When, UntickFirst, MayReopen
<1>6. \A cond : \A op \in {"touch", "patch"} :
        /\ When(cond, Plain(op, item)) \in Seq(Step)
        /\ \A i \in DOMAIN When(cond, Plain(op, item)) :
             ~Unticks(When(cond, Plain(op, item))[i])
  BY <1>2, <1>4 DEF When, Plain, Unticks
<1>7. W4 \in Seq(Step) /\ \A i \in DOMAIN W4 : ~Unticks(W4[i])
  <2>1. flip => item.done
    BY DEF Row, Item
  <2> QED
    BY <1>2, <1>4, <2>1 DEF When, Plain, Unticks
<1>8. W6 \in Seq(Step) /\ \A i \in DOMAIN W6 : ~Unticks(W6[i])
  BY <1>2, <1>4 DEF When
<1>9. W7 \in Seq(Step) /\ \A i \in DOMAIN W7 : ~Unticks(W7[i])
  BY <1>3 DEF When, Unticks
<1>10. /\ W2 \in Seq(Step) /\ \A i \in DOMAIN W2 : ~Unticks(W2[i])
       /\ W3 \in Seq(Step) /\ \A i \in DOMAIN W3 : ~Unticks(W3[i])
       /\ W5 \in Seq(Step) /\ \A i \in DOMAIN W5 : ~Unticks(W5[i])
       /\ W8 \in Seq(Step) /\ \A i \in DOMAIN W8 : ~Unticks(W8[i])
  BY <1>6
<1> HIDE DEF W1, W2, W3, W4, W5, W6, W7, W8
<1>11. W1 \o W2 \o W3 \in Seq(Step) /\ UntickFirst(W1 \o W2 \o W3, row)
  BY <1>5, <1>10, UntickConcat
<1>12. /\ W1 \o W2 \o W3 \o W4 \o W5 \in Seq(Step)
       /\ UntickFirst(W1 \o W2 \o W3 \o W4 \o W5, row)
  BY <1>7, <1>10, <1>11, UntickConcat
<1>13. UntickFirst(W1 \o W2 \o W3 \o W4 \o W5 \o W6 \o W7 \o W8, row)
  BY <1>8, <1>9, <1>10, <1>12, UntickConcat
<1> QED
  BY <1>1, <1>13

\* One step alone takes a tick away for its row's sake if it is the row's operation.
LEMMA QueuedUntick ==
  ASSUME NEW row \in Row, row.state = "deferred", NEW item
  PROVE  UntickFirst(<<Plain(row.op, item)>>, row)
  BY DEF UntickFirst, Unticks, Plain, MayReopen

\* What a pass plans for a row takes a tick away by the first step, if at all.
LEMMA StepsUntick ==
  ASSUME ~MirrorDone, NEW h \in Homework, NEW row \in Row, NEW item \in Item,
         NEW remote \in Task, NEW cov \in BOOLEAN,
         row.state = "creating" => row.op = "create"
  PROVE  /\ UntickFirst(Steps(h, row, item, remote, cov), row)
         /\ UntickFirst(DeferredSteps(row), row)
<1>1. UntickFirst(<<>>, row)
  BY DEF UntickFirst
<1>2. \A op \in {"create", "resume", "cancel", "close", "delete"} : \A j :
        UntickFirst(<<Plain(op, j)>>, row)
  BY DEF UntickFirst, Unticks, Plain
<1>3. \A j : row.state \in Pending => UntickFirst(<<Plain(row.op, j)>>, row)
  <2>1. CASE row.state = "creating"
    BY <1>2, <2>1
  <2>2. CASE row.state = "deferred"
    BY <2>2, QueuedUntick
  <2> QED
    BY <2>1, <2>2 DEF Pending
<1>4. row.state \in Pending => UntickFirst(QueuedSteps(row), row)
  BY <1>1, <1>3 DEF QueuedSteps, When
<1>5. row.state \in Pending => UntickFirst(PendingSteps(row, item), row)
  BY <1>2, <1>3, <1>4 DEF PendingSteps
<1>6. UntickFirst(CloseSteps(h, row, cov), row)
  <2>1. DeletePolicy # "leave" => DeletePolicy \in {"close", "delete"}
    BY ConfigAssumption
  <2> QED
    BY <1>1, <1>2, <2>1 DEF CloseSteps, When
<1>7. UntickFirst(MappedSteps(row, item, remote), row)
  BY MappedUntick
<1> QED
  BY <1>1, <1>2, <1>4, <1>5, <1>6, <1>7 DEF Steps, DeferredSteps, Pending


---------------------------------------------------------------------------
(* A tick that stands: every step.                                         *)

\* What the calls of a step do to ticks.
LEMMA EffectTicks ==
  ASSUME OwnInv, TicksLive, pc \in TaskCalls, ~Gone, tasks' = Effect
  PROVE  \A t \in TaskId : tasks'[t].done => tasks'[t].live
<1>1. tasks \in [TaskId -> Task] /\ job.tgt \in TaskId \cup {None}
  BY DEF OwnInv, TypeOK, Job
<1>2. CASE tasks' = tasks
  BY <1>2 DEF TicksLive
<1>3. CASE tasks' # tasks
  <2>1. PICK new : /\ tasks' = [tasks EXCEPT ![job.tgt] = new]
                   /\ new.done => new.live
    <3>1. CASE job.tgt \in TaskId
      <4>1. tasks[job.tgt].live /\ tasks[job.tgt] \in Task
        BY <1>1, <3>1 DEF Gone
      <4>2. CASE pc = "attach"
        <5>1. tasks' = [tasks EXCEPT ![job.tgt] = [tasks[job.tgt] EXCEPT !.derived = TRUE]]
          BY <1>1, <3>1, <4>2 DEF Effect
        <5>2. [tasks[job.tgt] EXCEPT !.derived = TRUE].live
          BY <4>1 DEF Task
        <5> QED
          BY <5>1, <5>2
      <4>3. CASE pc = "patch"
        <5>1. tasks' = [tasks EXCEPT ![job.tgt] =
                          PatchedTask(tasks[job.tgt], job.h, job.item, job.derived)]
          BY <1>1, <3>1, <4>3 DEF Effect
        <5>2. PatchedTask(tasks[job.tgt], job.h, job.item, job.derived).live
          BY <4>1 DEF PatchedTask, Task
        <5> QED
          BY <5>1, <5>2
      <4>4. CASE pc = "done"
        <5> DEFINE bit == job.op = "patch_done" /\ job.item.done
        <5>1. tasks' = [tasks EXCEPT ![job.tgt] = [tasks[job.tgt] EXCEPT !.done = bit]]
          BY <1>1, <3>1, <4>4 DEF Effect
        <5>2. [tasks[job.tgt] EXCEPT !.done = bit].live
          BY <4>1 DEF Task
        <5> QED
          BY <5>1, <5>2
      <4>5. CASE pc = "close" /\ job.op = "close"
        <5>1. tasks' = [tasks EXCEPT ![job.tgt] = [tasks[job.tgt] EXCEPT !.done = TRUE]]
          BY <1>1, <3>1, <4>5 DEF Effect
        <5>2. [tasks[job.tgt] EXCEPT !.done = TRUE].live
          BY <4>1 DEF Task
        <5> QED
          BY <5>1, <5>2
      <4>6. CASE pc = "close" /\ job.op # "close"
        <5>1. tasks' = [tasks EXCEPT ![job.tgt] = NoTask]
          BY <1>3, <4>6 DEF Effect
        <5>2. ~NoTask.done
          BY DEF NoTask
        <5> QED
          BY <5>1, <5>2
      <4> QED
        BY <4>2, <4>3, <4>4, <4>5, <4>6 DEF TaskCalls
    <3>2. CASE job.tgt \notin TaskId
      <4>1. tasks' = tasks
        BY <1>1, <3>2 DEF Effect, TaskCalls
      <4> QED
        BY <1>3, <4>1
    <3> QED
      BY <3>1, <3>2
  <2> QED
    BY <1>1, <2>1 DEF TicksLive
<1> QED
  BY <1>2, <1>3

\* A posted task lives.
LEMMA PostTicks ==
  ASSUME OwnInv, TicksLive, pc = "post", tasks' = Effect
  PROVE  \A t \in TaskId : tasks'[t].done => tasks'[t].live
<1>1. tasks' = [tasks EXCEPT ![posted + 1] = PostedTask(job.h, job.item)]
  BY DEF Effect
<1> QED
  BY <1>1 DEF PostedTask, TicksLive, OwnInv, TypeOK

\* Only tasks that live are ticked, and a POST on its way is of one that will.
LEMMA NextTicksLive ==
  ASSUME OwnInv, TicksLive, [Next]_vars
  PROVE  TicksLive'
<1>0. tasks \in [TaskId -> Task]
  BY DEF OwnInv, TypeOK
<1>1. CASE UNCHANGED <<tasks, inflight>>
  BY <1>1 DEF TicksLive
<1>2. ASSUME NEW t \in TaskId, PersonDeletes(t) \/ PersonTicks(t) \/ PersonEdits(t)
      PROVE  TicksLive'
  <2>1. tasks[t].live /\ tasks[t] \in Task /\ inflight' = inflight
    BY <1>0, <1>2 DEF PersonDeletes, PersonTicks, PersonEdits, Person
  <2>2. PICK task : tasks' = [tasks EXCEPT ![t] = task] /\ (task.live \/ task = NoTask)
    BY <1>0, <1>2, <2>1 DEF PersonDeletes, PersonTicks, PersonEdits, Person, Task
  <2> QED
    BY <1>0, <2>1, <2>2 DEF TicksLive, NoTask
<1>3. CASE LateCommit
  BY <1>0, <1>3 DEF LateCommit, TicksLive
<1>4. CASE StripDuplicate
  <2>0. todo \subseteq TaskId
    BY DEF OwnInv, TypeOK
  <2>1. PICK t \in todo :
          \/ tasks[t].live /\ tasks' = [tasks EXCEPT ![t] = StrippedTask(@)]
          \/ tasks' = tasks
    BY <1>4 DEF StripDuplicate
  <2>2. inflight' = inflight
    BY <1>4 DEF StripDuplicate
  <2>3. tasks[t].live => StrippedTask(tasks[t]).live
    BY <1>0, <2>0, <2>1 DEF StrippedTask, Task
  <2> QED
    BY <1>0, <2>0, <2>1, <2>2, <2>3 DEF TicksLive
<1>5. CASE Post
  BY <1>5, PostTicks DEF Post, TicksLive
<1>6. CASE TaskCall
  BY <1>6, EffectTicks DEF TaskCall, TicksLive
<1>7. CASE CallFails
  <2>1. CASE pc = "post" /\ UNCHANGED <<tasks, posted>>
             /\ inflight' = inflight \cup
                  {[call |-> faults, task |-> PostedTask(job.h, job.item)]}
    BY <2>1 DEF TicksLive, PostedTask
  <2>2. CASE pc = "post" /\ tasks' = Effect /\ inflight' = inflight
    BY <2>2, PostTicks DEF TicksLive
  <2>3. CASE pc \in TaskCalls /\ tasks' = Effect /\ inflight' = inflight
    BY <1>7, <2>3, EffectTicks DEF TicksLive, CallFails
  <2> QED
    BY <1>1, <1>7, <2>1, <2>2, <2>3 DEF CallFails
<1>8. CASE Environment
  BY <1>1, <1>2, <1>3, <1>8
  DEF Environment, TeacherEdits, DoneToggles, Moves, Teacher
<1>9. CASE Progress
  BY <1>1, <1>4, <1>5, <1>6, <1>9
  DEF Progress, StartPass, ListTasks, SyncStore, FetchWindow, Fetch, Diff, DiffDeferredOnly,
      LocalStep, BeginStep, StepWithoutTask, FindById, FindAnchor, WriteIntent, SaveId,
      StoreResult, TaskGone, FinishPass, world
<1>10. CASE Failure
  BY <1>1, <1>7, <1>10 DEF Failure, Crash, AbortPass, FetchTruncated, FetchLoginOnly, Fetch, StrayGone, world
<1>11. CASE UNCHANGED vars
  BY <1>1, <1>11 DEF vars, world
<1> QED
  BY <1>8, <1>9, <1>10, <1>11 DEF Next

\* A row is left half created with its create queued alone.
LEMMA NextCreatesQueued ==
  ASSUME OwnInv, CreatesQueued, [Next]_vars
  PROVE  CreatesQueued'
<1>0. rows \in [Homework -> Row] /\ job.row \in Row
  BY DEF OwnInv, TypeOK, Job
<1>1. CASE rows' = rows
  BY <1>1 DEF CreatesQueued
<1>2. ASSUME NEW h, NEW row, rows' = [rows EXCEPT ![h] = row],
             row.state = "creating" => row.op = "create"
      PROVE  CreatesQueued'
  BY <1>0, <1>2 DEF CreatesQueued
<1>3. CASE SyncStore
  <2>1. ASSUME NEW h \in Homework, rows'[h].state = "creating"
        PROVE  rows'[h].op = "create"
    <3>1. rows'[h] = SyncedRow(seen, h, rows[h]) /\ rows[h] \in Row
      BY <1>0, <1>3 DEF SyncStore
    <3>2. rows[h].state = "creating" /\ rows'[h].op = rows[h].op
      BY <2>1, <3>1 DEF SyncedRow, AdoptedRow, NoRow, Row
    <3> QED
      BY <3>2 DEF CreatesQueued
  <2> QED
    BY <2>1 DEF CreatesQueued
<1>4. ASSUME NEW h \in Homework, LocalStep(h)
      PROVE  CreatesQueued'
  <2>1. PICK row : /\ rows' = [rows EXCEPT ![h] = row]
                   /\ row \in {TouchedRow(rows[h], Head(plan[h]).item), CancelledRow(rows[h])}
    BY <1>0, <1>4 DEF LocalStep
  <2>2. row.state = "creating" => row.state = rows[h].state /\ row.op = rows[h].op
    BY <1>0, <2>1 DEF TouchedRow, CancelledRow, Row
  <2>3. row.state = "creating" => row.op = "create"
    BY <2>2 DEF CreatesQueued
  <2> QED
    BY <1>2, <2>1, <2>3
<1>5. CASE WriteIntent
  <2>1. rows' = [rows EXCEPT ![job.h] = IntentRow(job.item)]
    BY <1>5 DEF WriteIntent
  <2>2. IntentRow(job.item).op = "create"
    BY DEF IntentRow
  <2> QED
    BY <1>2, <2>1, <2>2
<1>6. CASE SaveId
  <2>1. ASSUME NEW h \in Homework
        PROVE  rows'[h].state = rows[h].state /\ rows'[h].op = rows[h].op
    BY <1>0, <1>6 DEF SaveId, Row
  <2> QED
    BY <2>1 DEF CreatesQueued
<1>7. CASE StoreResult
  <2>1. ResultRow.state # "creating"
    BY <1>0 DEF ResultRow, FinalizedRow, PatchedRow, DoneRow, ClosedRow, NoRow, Row, Closed
  <2> QED
    BY <1>2, <1>7, <2>1 DEF StoreResult
<1>8. CASE TaskGone \/ StrayGone
  <2>1. job.h \in Homework
    BY <1>8 DEF TaskGone, StrayGone, Gone, TaskCalls, OwnInv, JobFits, AtCall
  <2>2. RowNow \in Row
    BY <1>0, <2>1 DEF RowNow
  <2>3. GoneRow(RowNow).state # "creating"
    BY <2>2 DEF GoneRow, NoRow, Row
  <2> QED
    BY <1>1, <1>2, <1>8, <2>3 DEF TaskGone, StrayGone
<1>9. CASE CallFails
  <2>1. job.h \in Homework
    BY <1>9 DEF CallFails, TaskCalls, OwnInv, JobFits, AtCall
  <2>2. RowNow \in Row /\ job.item \in Item
    BY <1>0, <2>1 DEF RowNow, OwnInv, TypeOK, Job
  <2>3. DeferredRow(RowNow, job.op, job.item).state = "deferred"
    <3>1. IntentRow(job.item) \in Row
      BY <2>2, RowsWritten, EmptyValues
    <3> QED
      BY <2>2, <3>1 DEF DeferredRow, Row
  <2> QED
    BY <1>1, <1>2, <1>9, <2>3 DEF CallFails, RetryOrDefer
<1>10. CASE Environment
  BY <1>1, <1>10
  DEF Environment, TeacherEdits, DoneToggles, Moves, Teacher, PersonDeletes, PersonTicks,
      PersonEdits, Person, LateCommit, store
<1>11. CASE Progress
  BY <1>1, <1>3, <1>4, <1>5, <1>6, <1>7, <1>8, <1>11
  DEF Progress, StartPass, ListTasks, StripDuplicate, FetchWindow, Fetch, Diff,
      DiffDeferredOnly, BeginStep, StepWithoutTask, FindById, FindAnchor, Post, TaskCall,
      FinishPass, store
<1>12. CASE Failure
  BY <1>1, <1>8, <1>9, <1>12
  DEF Failure, Crash, AbortPass, FetchTruncated, FetchLoginOnly, Fetch, store
<1>13. CASE UNCHANGED vars
  BY <1>1, <1>13 DEF vars, store
<1> QED
  BY <1>10, <1>11, <1>12, <1>13 DEF Next


\* No plan takes a tick away while there is none.
LEMMA EmptyUnticks ==
  ASSUME ~AtCall', \A h \in Homework : plan'[h] = <<>>
  PROVE  StepAtHand' /\ PlansUntick'
<1>1. \A row : UntickFirst(<<>>, row)
  BY DEF UntickFirst
<1> QED
  BY <1>1 DEF StepAtHand, PlansUntick

\* A pass that ends plans nothing.
LEMMA ResetUnticks ==
  ASSUME ResetMemory
  PROVE  StepAtHand' /\ PlansUntick'
<1>1. ~AtCall' /\ \A h \in Homework : plan'[h] = <<>>
  BY DEF ResetMemory, AtCall
<1> QED
  BY <1>1, EmptyUnticks

\* While plan, rows and step at hand stay, so does what they take away.
LEMMA FrameUnticks ==
  ASSUME TickInv, UNCHANGED <<plan, rows, job>>, AtCall' <=> AtCall
  PROVE  StepAtHand' /\ PlansUntick'
<1>1. ASSUME NEW h \in Homework PROVE RowOf(h)' = RowOf(h)
  BY DEF RowOf
<1> QED
  BY <1>1 DEF TickInv, StepAtHand, PlansUntick, UntickFirst, Unticks, MayReopen

\* The plan that the diff makes takes a tick away by a first step alone.
LEMMA PlanUnticks ==
  ASSUME OwnInv, TickInv, Diff \/ DiffDeferredOnly \/ AbortPass
  PROVE  StepAtHand' /\ PlansUntick'
<1>1. pc' = "apply" /\ rows' = rows
  BY DEF Diff, DiffDeferredOnly, AbortPass, store
<1>2. ASSUME ~MirrorDone, NEW h \in Homework
      PROVE  UntickFirst(plan'[h], rows[h])
  <2>1. rows[h] \in Row /\ (rows[h].state = "creating" => rows[h].op = "create")
        /\ items[h] \in Item /\ covered \in BOOLEAN
    BY DEF OwnInv, TypeOK, TickInv, CreatesQueued
  <2>2. PICK remote \in Task :
          plan'[h] \in {Steps(h, rows[h], items[h], remote, covered), DeferredSteps(rows[h])}
    <3>1. CASE Diff
      BY <3>1, DiffPlans
    <3>2. CASE DiffDeferredOnly \/ AbortPass
      BY <3>2, EmptyValues DEF DiffDeferredOnly, AbortPass
    <3> QED
      BY <3>1, <3>2
  <2> QED
    BY <1>2, <2>1, <2>2, StepsUntick
<1>3. ~AtCall' /\ \A h \in Homework : RowOf(h)' = rows[h]
  BY <1>1 DEF AtCall, RowOf
<1> QED
  BY <1>2, <1>3 DEF StepAtHand, PlansUntick

\* What is left of a homework's steps when one is over takes no tick away.
LEMMA StepUnticks ==
  ASSUME OwnInv, TickInv, NEW h \in Homework, plan[h] # <<>>, pc' = "apply",
         plan' = [plan EXCEPT ![h] = Tail(@)],
         \A g \in Homework \ {h} : rows'[g] = rows[g],
         AtCall => job.h = h
  PROVE  StepAtHand' /\ PlansUntick'
<1>1. plan \in [Homework -> Seq(Step)]
  BY DEF OwnInv, TypeOK
<1>2. \A i \in DOMAIN Tail(plan[h]) :
        i + 1 \in DOMAIN plan[h] /\ Tail(plan[h])[i] = plan[h][i + 1] /\ i + 1 # 1
  BY <1>1
<1>3. ASSUME ~MirrorDone, NEW g \in Homework PROVE UntickFirst(plan'[g], rows'[g])
  <2>1. CASE g = h
    <3>1. plan'[g] = Tail(plan[h]) /\ UntickFirst(plan[h], RowOf(h))
      BY <1>1, <1>3, <2>1 DEF TickInv, PlansUntick
    <3> QED
      BY <1>2, <3>1 DEF UntickFirst
  <2>2. CASE g # h
    <3>1. plan'[g] = plan[g] /\ rows'[g] = RowOf(g) /\ UntickFirst(plan[g], RowOf(g))
      BY <1>1, <1>3, <2>2 DEF TickInv, PlansUntick, RowOf
    <3> QED
      BY <3>1
  <2> QED
    BY <2>1, <2>2
<1>4. ~AtCall' /\ \A g \in Homework : RowOf(g)' = rows'[g]
  BY DEF AtCall, RowOf
<1> QED
  BY <1>3, <1>4 DEF StepAtHand, PlansUntick

\* A step begins with its homework's row.
LEMMA BeginUnticks ==
  ASSUME TickInv, NEW h \in Homework, BeginStep(h)
  PROVE  StepAtHand' /\ PlansUntick'
<1>1. /\ pc = "apply" /\ job'.h = h /\ job'.row = rows[h] /\ UNCHANGED <<rows, plan>>
      /\ job'.item = Head(plan[h]).item /\ job'.derived = Head(plan[h]).derived
  BY DEF BeginStep, store
<1>2. ASSUME NEW g \in Homework PROVE RowOf(g)' = RowOf(g)
  BY <1>1 DEF RowOf, AtCall
<1> QED
  BY <1>1, <1>2 DEF TickInv, StepAtHand, PlansUntick

\* A step that goes on works from the row that it has read, whatever it writes.
LEMMA MiddleUnticks ==
  ASSUME TickInv, AtCall, AtCall', UNCHANGED plan,
         job'.h = job.h, job'.row = job.row, job'.item = job.item, job'.derived = job.derived,
         \A g \in Homework \ {job.h} : rows'[g] = rows[g]
  PROVE  StepAtHand' /\ PlansUntick'
<1>1. ASSUME NEW g \in Homework PROVE RowOf(g)' = RowOf(g)
  BY DEF RowOf
<1> QED
  BY <1>1 DEF TickInv, StepAtHand, PlansUntick

\* The calls of a step that goes on.
LEMMA CallUnticks ==
  ASSUME OwnInv, TickInv, FindById \/ FindAnchor \/ WriteIntent \/ Post \/ SaveId \/ TaskCall
  PROVE  StepAtHand' /\ PlansUntick'
<1>1. AtCall /\ AtCall' /\ UNCHANGED plan
  BY DEF FindById, FindAnchor, WriteIntent, Post, SaveId, TaskCall, TaskCalls, AtCall
<1>2. job \in Job /\ rows \in [Homework -> Row]
  BY DEF OwnInv, TypeOK
<1>3. /\ job'.h = job.h /\ job'.row = job.row /\ job'.item = job.item
      /\ job'.derived = job.derived
  BY <1>2 DEF FindById, FindAnchor, WriteIntent, Post, SaveId, TaskCall, Job
<1>4. \A g \in Homework \ {job.h} : rows'[g] = rows[g]
  BY <1>2 DEF FindById, FindAnchor, WriteIntent, Post, SaveId, TaskCall, store
<1> QED
  BY <1>1, <1>3, <1>4, MiddleUnticks

\* The end of a step, and a call that fails.
LEMMA EndUnticks ==
  ASSUME OwnInv, TickInv, StoreResult \/ TaskGone \/ StrayGone \/ CallFails
  PROVE  StepAtHand' /\ PlansUntick'
<1>1. AtCall
  BY DEF StoreResult, TaskGone, StrayGone, Gone, CallFails, TaskCalls, AtCall
<1>2. job.h \in Homework /\ plan[job.h] # <<>> /\ job \in Job /\ rows \in [Homework -> Row]
  BY <1>1 DEF OwnInv, JobFits, TypeOK
<1>3. CASE CallFails /\ pc # "close" /\ job.att + 1 < RetryMax
  <2>1. /\ UNCHANGED <<rows, plan>> /\ pc' = FirstCall(job.op, job.row)
        /\ job' = [job EXCEPT !.att = @ + 1,
                              !.tgt = IF job.op \in {"create", "resume"} THEN None ELSE @]
    BY <1>3 DEF CallFails, RetryOrDefer
  <2>2. AtCall'
    BY <2>1 DEF FirstCall, AtCall
  <2>3. /\ job'.h = job.h /\ job'.row = job.row /\ job'.item = job.item
        /\ job'.derived = job.derived
    BY <1>2, <2>1 DEF Job
  <2> QED
    BY <1>1, <2>1, <2>2, <2>3, MiddleUnticks
<1>4. CASE ~(CallFails /\ pc # "close" /\ job.att + 1 < RetryMax)
  <2>1. EndStep /\ \E row : rows' = rows \/ rows' = [rows EXCEPT ![job.h] = row]
    BY <1>4 DEF StoreResult, TaskGone, StrayGone, CallFails, RetryOrDefer
  <2>2. \A g \in Homework \ {job.h} : rows'[g] = rows[g]
    BY <1>2, <2>1
  <2> QED
    BY <1>2, <2>1, <2>2, StepUnticks DEF EndStep
<1> QED
  BY <1>3, <1>4

\* touch and cancel end their homework's step.
LEMMA LocalUnticks ==
  ASSUME OwnInv, TickInv, NEW h \in Homework, LocalStep(h)
  PROVE  StepAtHand' /\ PlansUntick'
<1>1. rows \in [Homework -> Row]
  BY DEF OwnInv, TypeOK
<1>2. /\ pc = "apply" /\ pc' = "apply" /\ plan[h] # <<>> /\ plan' = [plan EXCEPT ![h] = Tail(@)]
      /\ \A g \in Homework \ {h} : rows'[g] = rows[g]
  BY <1>1 DEF LocalStep, Turn
<1> QED
  BY <1>2, StepUnticks DEF AtCall

\* Every step keeps what the plan takes away.
LEMMA NextUnticks ==
  ASSUME OwnInv, PassInv, TickInv, [Next]_vars
  PROVE  StepAtHand' /\ PlansUntick'
<1>1. CASE Environment \/ UNCHANGED vars
  <2>1. UNCHANGED <<memory, store>>
    BY <1>1 DEF Environment, TeacherEdits, DoneToggles, Moves, Teacher, PersonDeletes,
                PersonTicks, PersonEdits, Person, LateCommit, vars
  <2>2. UNCHANGED <<plan, rows, job, pc>>
    BY <2>1 DEF memory, store
  <2> QED
    BY <2>2, FrameUnticks DEF AtCall
<1>2. CASE \/ StartPass \/ ListTasks \/ StripDuplicate \/ SyncStore
           \/ FetchWindow \/ FetchTruncated \/ FetchLoginOnly
  <2>1. pc' \in {"list", "strip", "fetch", "plan"} /\ plan' = plan
        /\ pc \in {"idle", "list", "strip", "fetch"}
    BY <1>2 DEF StartPass, ListTasks, StripDuplicate, SyncStore, FetchWindow, FetchTruncated,
                FetchLoginOnly, Fetch
  <2>2. ~AtCall' /\ \A h \in Homework : plan'[h] = <<>>
    BY <2>1 DEF PassInv, PlanInOrder, AtCall
  <2> QED
    BY <2>2, EmptyUnticks
<1>3. CASE Crash \/ FinishPass \/ \E h \in Homework : StepWithoutTask(h)
  BY <1>3, ResetUnticks DEF Crash, FinishPass, StepWithoutTask
<1>4. CASE Progress
  BY <1>2, <1>3, <1>4, PlanUnticks, LocalUnticks, BeginUnticks, CallUnticks, EndUnticks
  DEF Progress
<1>5. CASE Failure
  BY <1>2, <1>3, <1>5, PlanUnticks, EndUnticks DEF Failure
<1> QED
  BY <1>1, <1>4, <1>5 DEF Next

\* At first there is neither a task nor a plan.
LEMMA InitTicks ==
  ASSUME Init
  PROVE  TickInv
  BY DEF Init, TickInv, StepAtHand, CreatesQueued, TicksLive, PlansUntick, UntickFirst, AtCall,
         NoRow, NoTask

\* The inductive invariant of ticks holds in every reachable state.
THEOREM TickInvariant == Spec => []TickInv
<1>1. Init => TickInv
  BY InitTicks
<1>2. OwnInv /\ PassInv /\ TickInv /\ [Next]_vars => TickInv'
  BY NextTicksLive, NextCreatesQueued, NextUnticks DEF TickInv
<1> QED
  BY <1>1, <1>2, OwnInvariant, PassInvariant, PTL DEF Spec


\* Without mirror_done one kind of call takes a tick away, and its step was planned for
\* the sake of the row that it has read.
LEMMA EffectUnticks ==
  ASSUME OwnInv, PassInv, TickInv, ~MirrorDone, pc \in TaskCalls, tasks' = Effect,
         NEW t \in TaskId, tasks[t].done, tasks'[t].live, ~tasks'[t].done
  PROVE  MayReopen(job.row)
<1>1. tasks \in [TaskId -> Task] /\ AtCall
  BY DEF OwnInv, TypeOK, AtCall, TaskCalls
<1>2. pc = "done" /\ ~(job.op = "patch_done" /\ job.item.done)
  <2>1. CASE pc = "attach"
    BY <1>1, <2>1 DEF Effect, Task
  <2>2. CASE pc = "patch"
    <3>1. tasks' = [tasks EXCEPT ![job.tgt] =
                      PatchedTask(tasks[job.tgt], job.h, job.item, job.derived)]
      BY <2>2 DEF Effect
    <3>2. tasks[t] \in Task
      BY <1>1
    <3>3. PatchedTask(tasks[t], job.h, job.item, job.derived).done = tasks[t].done
      BY <3>2 DEF PatchedTask, Task
    <3> QED
      BY <1>1, <3>1, <3>3
  <2>3. CASE pc = "done"
    BY <1>1, <2>3 DEF Effect, Task
  <2>4. CASE pc = "close" /\ job.op = "close"
    BY <1>1, <2>4 DEF Effect, Task
  <2>5. CASE pc = "close" /\ job.op # "close"
    BY <1>1, <2>5 DEF Effect, NoTask
  <2> QED
    BY <2>1, <2>2, <2>3, <2>4, <2>5 DEF TaskCalls
<1>3. job.h \in Homework /\ plan[job.h] # <<>> /\ job.op \in {"patch_done", "reopen"}
  BY <1>1, <1>2 DEF OwnInv, JobFits
<1>4. job.op = Head(plan[job.h]).op /\ job.item = Head(plan[job.h]).item
  BY <1>1 DEF PassInv, PlanInOrder, TickInv, StepAtHand
<1>5. Unticks(Head(plan[job.h]))
  BY <1>2, <1>3, <1>4 DEF Unticks
<1>6. 1 \in DOMAIN plan[job.h] /\ Head(plan[job.h]) = plan[job.h][1]
  <2>1. plan[job.h] \in Seq(Step)
    BY <1>3 DEF OwnInv, TypeOK
  <2> QED
    BY <1>3, <2>1
<1>7. RowOf(job.h) = job.row /\ UntickFirst(plan[job.h], RowOf(job.h))
  BY <1>1, <1>3 DEF RowOf, TickInv, PlansUntick
<1> QED
  BY <1>5, <1>6, <1>7 DEF UntickFirst

\* Without mirror_done the program takes a tick away only in order to reopen a homework
\* that it had closed or whose reopening it still owes, at whatever point of a pass that
\* was put off, retried, redirected to another task or overtaken by a late POST.
THEOREM TicksStand == Spec => TickStands
<1> DEFINE A == \A t \in TaskId :
                  /\ ~MirrorDone /\ persons' = persons
                  /\ tasks[t].done /\ tasks'[t].live /\ ~tasks'[t].done
                  => \/ job.row.state \in Closed
                     \/ job.row.state = "deferred" /\ job.row.op \in {"reopen", "patch_done"}
<1>1. ASSUME OwnInv, PassInv, TickInv, [Next]_vars PROVE [A]_vars
  <2> SUFFICES ASSUME NEW t \in TaskId, ~MirrorDone, persons' = persons,
                      tasks[t].done, tasks'[t].live, ~tasks'[t].done
               PROVE  MayReopen(job.row)
    BY DEF MayReopen
  <2>1. tasks \in [TaskId -> Task] /\ persons \in Nat /\ posted \in Nat
    BY <1>1, BoundAssumption, LimitAssumption DEF OwnInv, TypeOK
  <2>2. t \in Nat /\ t <= posted
    BY <1>1, BoundAssumption DEF TickInv, TicksLive, OwnInv, TasksKeyed, TaskId
  <2>3. tasks' # tasks
    OBVIOUS
  <2>4. CASE Environment
    <3>1. CASE LateCommit
      <4>1. PICK task : tasks' = [tasks EXCEPT ![posted + 1] = task]
        BY <3>1 DEF LateCommit
      <4>2. t # posted + 1
        BY <2>1, <2>2
      <4> QED
        BY <2>1, <4>1, <4>2
    <3>2. CASE \E u \in TaskId : PersonDeletes(u) \/ PersonTicks(u) \/ PersonEdits(u)
      BY <2>1, <3>2 DEF PersonDeletes, PersonTicks, PersonEdits, Person
    <3> QED
      BY <2>3, <2>4, <3>1, <3>2 DEF Environment, TeacherEdits, DoneToggles, Moves, Teacher
  <2>5. CASE StripDuplicate
    <3>1. PICK u \in todo : tasks' = [tasks EXCEPT ![u] = StrippedTask(@)] \/ tasks' = tasks
      BY <2>5 DEF StripDuplicate
    <3>2. StrippedTask(tasks[t]).done
      BY <2>1 DEF StrippedTask, Task
    <3> QED
      BY <2>1, <2>3, <3>1, <3>2
  <2>6. CASE pc = "post" /\ tasks' = Effect
    <3>1. tasks' = [tasks EXCEPT ![posted + 1] = PostedTask(job.h, job.item)]
      BY <2>6 DEF Effect
    <3>2. t # posted + 1
      BY <2>1, <2>2
    <3> QED
      BY <2>1, <3>1, <3>2
  <2>7. CASE pc \in TaskCalls /\ tasks' = Effect
    BY <1>1, <2>7, EffectUnticks
  <2>8. CASE Progress
    BY <2>3, <2>5, <2>6, <2>7, <2>8
    DEF Progress, StartPass, ListTasks, SyncStore, FetchWindow, Fetch, Diff, DiffDeferredOnly,
        LocalStep, BeginStep, StepWithoutTask, FindById, FindAnchor, WriteIntent, Post, SaveId,
        TaskCall, StoreResult, TaskGone, FinishPass, world
  <2>9. CASE Failure
    BY <2>3, <2>6, <2>7, <2>9
    DEF Failure, Crash, AbortPass, FetchTruncated, FetchLoginOnly, Fetch, StrayGone, CallFails, world
  <2> QED
    BY <1>1, <2>3, <2>4, <2>8, <2>9 DEF Next, vars, world
<1> QED
  BY <1>1, OwnInvariant, PassInvariant, TickInvariant, PTL DEF Spec, TickStands


---------------------------------------------------------------------------
(* Passes in which nothing fails: what they plan.                          *)

\* No call fails or is answered with a stray 404, every fetch is complete, no process dies,
\* and reconciliation lists every task.
Calm == MaxFaults = 0 /\ MaxCrashes = 0 /\ "list" \notin Shifts

\* A step that writes all of a task's text; one is left in a plan.
FullPatch(step) == step.op = "patch" /\ ~step.derived
PatchIn(steps) == \E i \in DOMAIN steps : FullPatch(steps[i])

\* The text of a row's task is the one of the fingerprint or a person's, unless the
\* homework's steps are under way and its patch is still to come.
RowsFaithful ==
  \A h \in Homework : rows[h].task # None /\ tasks[rows[h].task].live =>
    \/ tasks[rows[h].task].content \in {rows[h].fp, Foreign}
    \/ job.h = h /\ PatchIn(plan[h])

\* A row that is not pending has a fingerprint, and one that is not there no task.
RowCalm(row) ==
  /\ row.state = "absent" => row.task = None
  /\ row.state # "absent" => row.fp # Unset

\* No row is pending but that of the create at hand.
CalmRows ==
  \A h \in Homework :
    /\ RowCalm(rows[h])
    /\ rows[h].state \in Pending =>
         h = job.h /\ job.op = "create" /\ pc \in {"post", "save", "attach", "store"}

\* A marked task is that of its row, or is about to be; so reconciliation strips and
\* redirects none.
KeysKnown ==
  /\ inflight = {} /\ todo = {} /\ deny = {}
  /\ \A t \in TaskId : tasks[t].live /\ tasks[t].key # None =>
       \/ rows[tasks[t].key].task = t
       \/ pc = "save" /\ job.h = tasks[t].key /\ job.tgt = t
  /\ pc = "strip" => \A t \in TaskId :
       /\ seen[t].live /\ seen[t].key # None => rows[seen[t].key].task = t
       /\ tasks[t].live /\ tasks[t].key # None =>
            seen[t].live /\ seen[t].key = tasks[t].key

\* What a plan for a row makes of the item as fetched: a row without a task is given one,
\* a task is closed, and nothing else is done besides; a row that is not of the item's
\* version is patched.
PlanCalm(steps, row, content) ==
  \A i \in DOMAIN steps :
    /\ steps[i].op \notin {"cancel", "resume"}
    /\ steps[i].op \in {"create", "close", "delete"} => Len(steps) = 1
    /\ steps[i].op \in {"close", "delete"} => row.task # None
    /\ steps[i].op \notin {"close", "delete"} =>
         /\ steps[i].item.content = content
         /\ row.task = None \/ PatchIn(steps) \/ row.fp = content

CalmPlan ==
  \A h \in Homework :
    /\ PlanCalm(plan[h], rows[h], items[h].content)
    /\ \A i \in DOMAIN plan[h] : plan[h][i].op = "create" =>
         rows[h].task = None \/ (job.h = h /\ pc \in {"attach", "store"})

\* The step at work has the row as it is or writes its intent, and from the call that
\* writes the text on the task has the item's or a person's.
CalmJob ==
  AtCall =>
    /\ pc # "byid" /\ job.op # "touch"
    /\ job.op # "create" => rows[job.h] = job.row /\ job.tgt = job.row.task
    /\ pc \in {"post", "save"} => rows[job.h] = IntentRow(job.item)
    /\ pc \in {"save", "attach", "store"} /\ job.op = "create" => job.tgt # None
    /\ pc \in {"attach", "store"} /\ job.op = "create" => rows[job.h].task = job.tgt
    /\ /\ pc \in {"save", "attach", "store"} /\ job.tgt # None /\ tasks[job.tgt].live
       /\ job.op = "create" \/ (job.op = "patch" /\ ~job.derived)
       => tasks[job.tgt].content \in {job.item.content, Foreign}
    /\ pc = "store" /\ job.op = "delete" /\ job.tgt # None => ~tasks[job.tgt].live

\* The inductive invariant behind FingerprintFaithful.
CalmInv == RowsFaithful /\ CalmRows /\ KeysKnown /\ CalmPlan /\ CalmJob

\* What is planned for a mapped homework is about the item as fetched; if the row is not
\* of its version then a full patch is among the steps.
LEMMA MappedCalm ==
  ASSUME NEW row \in Row, NEW item \in Item, NEW remote \in Task, row.fp # Unset,
         NEW p, p = MappedSteps(row, item, remote)
  PROVE  /\ \A i \in DOMAIN p : p[i].item = item
         /\ row.fp = item.content \/ PatchIn(p)
<1> DEFINE wasClosed == row.state \in Closed
           reopen    == wasClosed /\ ~item.done
           seenDone  == row.done /\ ~reopen
           baseline  == row.fp = Unset
           edited    == ~baseline /\ row.fp # item.content
           drift     == ~edited /\ remote.live /\ remote.content = Foreign
           flip      == item.done # seenDone /\ (MirrorDone \/ wasClosed)
           mirror    == ~flip /\ MirrorDone /\ remote.live /\ remote.done # item.done
           derive    == ~edited /\ ~drift /\ remote.live /\ ~remote.derived
           W1 == When(reopen, Plain("reopen", item))
           W2 == When(baseline, Plain("touch", item))
           W3 == When(edited, Plain("patch", item))
           W4 == When(flip, Plain("patch_done", item))
           W5 == When(drift, Plain("patch", item))
           W6 == When(mirror, Plain("patch_done", item))
           W7 == When(derive, [op |-> "patch", item |-> item, derived |-> TRUE])
           W8 == When(~(reopen \/ baseline \/ edited \/ flip \/ drift \/ mirror \/ derive),
                      Plain("touch", item))
           S == {step \in Step : step.item = item}
<1>1. p = W1 \o W2 \o W3 \o W4 \o W5 \o W6 \o W7 \o W8
  BY DEF MappedSteps
<1>2. /\ Plain("reopen", item) \in S /\ Plain("touch", item) \in S
      /\ Plain("patch", item) \in S /\ Plain("patch_done", item) \in S
      /\ [op |-> "patch", item |-> item, derived |-> TRUE] \in S
  BY DEF Plain, Step, StepOp, OpName
<1>3. /\ W1 \in Seq(S) /\ W2 \in Seq(S) /\ W3 \in Seq(S) /\ W4 \in Seq(S)
      /\ W5 \in Seq(S) /\ W6 \in Seq(S) /\ W7 \in Seq(S) /\ W8 \in Seq(S)
  BY <1>2, WhenIsAmong
<1>4. row.fp # item.content => W3 = <<Plain("patch", item)>>
  BY DEF When
<1>5. \A i : Plain("patch", item).op = "patch" /\ ~Plain("patch", item).derived
  BY DEF Plain
<1>6. \A s \in S : s.item = item
  OBVIOUS
<1> HIDE DEF W1, W2, W3, W4, W5, W6, W7, W8, S
<1>7. \A s1, s2 \in Seq(S) : s1 \o s2 \in Seq(S)
  BY ConcatProperties
<1>8. \A s1, s2 \in Seq(S) : PatchIn(s1) \/ PatchIn(s2) => PatchIn(s1 \o s2)
  <2> SUFFICES ASSUME NEW s1 \in Seq(S), NEW s2 \in Seq(S), PatchIn(s1) \/ PatchIn(s2)
               PROVE  PatchIn(s1 \o s2)
    OBVIOUS
  <2>1. /\ Len(s1 \o s2) = Len(s1) + Len(s2) /\ s1 \o s2 \in Seq(S)
        /\ \A i \in 1 .. Len(s1) + Len(s2) :
             (s1 \o s2)[i] = IF i <= Len(s1) THEN s1[i] ELSE s2[i - Len(s1)]
    BY ConcatProperties
  <2>2. CASE PatchIn(s1)
    <3>1. PICK i \in 1 .. Len(s1) : FullPatch(s1[i])
      BY <2>2 DEF PatchIn
    <3>2. i \in DOMAIN (s1 \o s2) /\ (s1 \o s2)[i] = s1[i]
      BY <2>1, <3>1
    <3> QED
      BY <3>1, <3>2 DEF PatchIn
  <2>3. CASE PatchIn(s2)
    <3>1. PICK i \in 1 .. Len(s2) : FullPatch(s2[i])
      BY <2>3 DEF PatchIn
    <3>2. i + Len(s1) \in DOMAIN (s1 \o s2) /\ (s1 \o s2)[i + Len(s1)] = s2[i]
      BY <2>1, <3>1
    <3> QED
      BY <3>1, <3>2 DEF PatchIn
  <2> QED
    BY <2>2, <2>3
<1>9. p \in Seq(S)
  BY <1>1, <1>3, <1>7
<1>10. row.fp # item.content => PatchIn(W3)
  BY <1>4, <1>5 DEF PatchIn, FullPatch
<1>11. /\ W1 \o W2 \o W3 \o W4 \o W5 \in Seq(S)
       /\ PatchIn(W3) => PatchIn(W1 \o W2 \o W3 \o W4 \o W5)
  BY <1>3, <1>7, <1>8
<1>12. /\ W1 \o W2 \o W3 \o W4 \o W5 \o W6 \in Seq(S)
       /\ PatchIn(W3) => PatchIn(W1 \o W2 \o W3 \o W4 \o W5 \o W6)
  BY <1>3, <1>7, <1>8, <1>11
<1>13. /\ W1 \o W2 \o W3 \o W4 \o W5 \o W6 \o W7 \in Seq(S)
       /\ PatchIn(W3) => PatchIn(W1 \o W2 \o W3 \o W4 \o W5 \o W6 \o W7)
  BY <1>3, <1>7, <1>8, <1>12
<1>14. PatchIn(W3) => PatchIn(p)
  BY <1>1, <1>3, <1>8, <1>13
<1> QED
  BY <1>6, <1>9, <1>10, <1>14

\* What a pass plans for a row that is not pending is calm.
LEMMA StepsCalm ==
  ASSUME NEW h \in Homework, NEW row \in Row, NEW item \in Item, NEW remote \in Task,
         NEW cov \in BOOLEAN, RowCalm(row), row.state \notin Pending,
         NEW p, p = Steps(h, row, item, remote, cov)
  PROVE  /\ PlanCalm(p, row, item.content)
         /\ \A i \in DOMAIN p : p[i].op = "create" => row.task = None
<1>1. CASE item.at # "listed"
  <2>1. p = <<>> \/ (p = <<Plain(DeletePolicy, NoItem)>> /\ DeletePolicy # "leave"
                    /\ row.task # None)
    BY <1>1 DEF Steps, CloseSteps, When
  <2>2. \A i \in DOMAIN p : p[i].op \in {"close", "delete"} /\ Len(p) = 1 /\ row.task # None
    <3>1. CASE p = <<>>
      BY <3>1
    <3>2. CASE /\ p = <<Plain(DeletePolicy, NoItem)>>
               /\ DeletePolicy # "leave" /\ row.task # None
      <4>1. Plain(DeletePolicy, NoItem).op \in {"close", "delete"}
        BY <3>2, ConfigAssumption DEF Plain
      <4> QED
        BY <3>2, <4>1
    <3> QED
      BY <2>1, <3>1, <3>2
  <2> QED
    BY <2>2 DEF PlanCalm
<1>2. CASE item.at = "listed" /\ row.task = None
  <2>1. p = <<Plain("create", item)>>
    BY <1>2 DEF Steps
  <2> QED
    BY <1>2, <2>1 DEF PlanCalm, Plain
<1>3. CASE item.at = "listed" /\ row.task # None
  <2>1. p = MappedSteps(row, item, remote) /\ row.fp # Unset
    BY <1>3 DEF Steps, RowCalm
  <2>2. /\ \A i \in DOMAIN p : p[i].item = item
        /\ row.fp = item.content \/ PatchIn(p)
    BY <2>1, MappedCalm
  <2>3. \A i \in DOMAIN p : p[i].op \in {"reopen", "touch", "patch", "patch_done"}
    BY <2>1, MappedStepsWrite
  <2> QED
    BY <2>2, <2>3 DEF PlanCalm
<1> QED
  BY <1>1, <1>2, <1>3


---------------------------------------------------------------------------
(* Passes in which nothing fails: every step.                              *)

\* With no room for failures none happens, and no POST is left to come late.
LEMMA NothingFails ==
  ASSUME Calm, OwnInv, CalmInv
  PROVE  ~Fails /\ ~Failure /\ ~LateCommit
<1>1. faults = 0 /\ crashes = 0
  BY DEF Calm, OwnInv, TypeOK
<1>2. ~Fails
  BY <1>1 DEF Calm, Fails
<1>3. ~LateCommit
  BY DEF CalmInv, KeysKnown, LateCommit
<1>4. ~Crash
  BY <1>1 DEF Calm, Crash
<1>5. AbortPass \/ FetchTruncated \/ FetchLoginOnly \/ StrayGone \/ CallFails => Fails
  BY DEF AbortPass, FetchTruncated, FetchLoginOnly, StrayGone, CallFails
<1> QED
  BY <1>2, <1>3, <1>4, <1>5 DEF Failure

\* People only take tasks away or put text of their own into them.
LEMMA FadeCalm ==
  ASSUME OwnInv, CalmInv, UNCHANGED <<memory, rows, inflight>>,
         \A t \in TaskId : tasks'[t].live =>
           tasks[t].live /\ tasks'[t].key = tasks[t].key
           /\ tasks'[t].content \in {tasks[t].content, Foreign}
  PROVE  CalmInv'
<1>1. UNCHANGED <<pc, seen, todo, deny, items, plan, job>>
  BY DEF memory, pass
<1>2. /\ \A h \in Homework : rows[h].task \in TaskId \cup {None}
      /\ job.tgt \in TaskId \cup {None}
  BY DEF OwnInv, TypeOK, Row, Job
<1>3. RowsFaithful'
  BY <1>1, <1>2 DEF CalmInv, RowsFaithful, PatchIn, FullPatch
<1>4. CalmRows' /\ CalmPlan'
  BY <1>1 DEF CalmInv, CalmRows, RowCalm, CalmPlan, PlanCalm, PatchIn, FullPatch
<1>5. KeysKnown'
  BY <1>1 DEF CalmInv, KeysKnown
<1>6. CalmJob'
  BY <1>1, <1>2 DEF CalmInv, CalmJob, AtCall
<1> QED
  BY <1>3, <1>4, <1>5, <1>6 DEF CalmInv

\* The source and the people.
LEMMA WorldCalm ==
  ASSUME Calm, OwnInv, CalmInv, Environment
  PROVE  CalmInv'
<1>1. tasks \in [TaskId -> Task]
  BY DEF OwnInv, TypeOK
<1>2. ASSUME NEW t \in TaskId, PersonDeletes(t) \/ PersonTicks(t) \/ PersonEdits(t)
      PROVE  CalmInv'
  <2>1. UNCHANGED <<memory, rows, inflight>> /\ tasks[t].live
    BY <1>2 DEF PersonDeletes, PersonTicks, PersonEdits, Person, store
  <2>2. PICK task :
          /\ tasks' = [tasks EXCEPT ![t] = task]
          /\ \/ task = NoTask
             \/ \E bit : task = [tasks[t] EXCEPT !.done = bit]
             \/ task = [tasks[t] EXCEPT !.content = Foreign, !.derived = FALSE]
    BY <1>2 DEF PersonDeletes, PersonTicks, PersonEdits, Person
  <2>3. task.live => task.key = tasks[t].key /\ task.content \in {tasks[t].content, Foreign}
    <3>1. CASE task = NoTask
      BY <3>1 DEF NoTask
    <3>2. CASE \E bit : task = [tasks[t] EXCEPT !.done = bit]
      BY <1>1, <3>2 DEF Task
    <3>3. CASE task = [tasks[t] EXCEPT !.content = Foreign, !.derived = FALSE]
      BY <1>1, <3>3 DEF Task
    <3> QED
      BY <2>2, <3>1, <3>2, <3>3
  <2> QED
    BY <1>1, <2>1, <2>2, <2>3, FadeCalm
<1>3. CASE UNCHANGED <<memory, store, tasks, inflight>>
  BY <1>3, FadeCalm DEF store
<1> QED
  BY <1>2, <1>3, NothingFails
  DEF Environment, TeacherEdits, DoneToggles, Moves, Teacher

\* A pass ends.  The homework whose steps were under way has none left, or no task.
LEMMA EndCalm ==
  ASSUME OwnInv, CalmInv, FinishPass \/ \E h \in Homework : StepWithoutTask(h)
  PROVE  CalmInv'
<1>1. /\ pc = "apply" /\ ResetMemory /\ UNCHANGED <<tasks, rows, inflight>>
  BY DEF FinishPass, StepWithoutTask, world, store
<1>2. ASSUME NEW g \in Homework, rows[g].task # None, job.h = g
      PROVE  plan[g] = <<>>
  BY <1>2 DEF FinishPass, StepWithoutTask, Turn
<1>3. RowsFaithful'
  BY <1>1, <1>2 DEF CalmInv, RowsFaithful, PatchIn
<1>4. CalmRows'
  BY <1>1 DEF CalmInv, CalmRows
<1>5. KeysKnown'
  BY <1>1 DEF CalmInv, KeysKnown, ResetMemory
<1>6. CalmPlan' /\ CalmJob'
  BY <1>1 DEF CalmPlan, PlanCalm, CalmJob, AtCall, ResetMemory
<1> QED
  BY <1>3, <1>4, <1>5, <1>6 DEF CalmInv

\* Between two steps, and before the first one, the rows say what the tasks hold.
LEMMA QuietCalm ==
  ASSUME CalmInv, ~AtCall, \A h \in Homework : plan[h] = <<>>,
         UNCHANGED <<tasks, rows, inflight, deny, job>>, todo' = {}, ~AtCall', pc' # "strip",
         CalmPlan'
  PROVE  CalmInv'
<1>1. RowsFaithful'
  BY DEF CalmInv, RowsFaithful, PatchIn
<1>2. CalmRows'
  BY DEF CalmInv, CalmRows, AtCall
<1>3. KeysKnown'
  BY DEF CalmInv, KeysKnown, AtCall
<1> QED
  BY <1>1, <1>2, <1>3 DEF CalmInv, CalmJob

\* No task carries the marker of another one's row, so the list shows no duplicate.
LEMMA ListCalm ==
  ASSUME Calm, OwnInv, PassInv, CalmInv, ListTasks
  PROVE  CalmInv'
<1>0. View(None) = tasks
  BY BoundAssumption DEF OwnInv, TypeOK, View, TaskId, None
<1>1. /\ pc = "list" /\ pc' = "strip" /\ seen' = tasks
      /\ todo' = Losers(tasks) /\ deny' = Losers(tasks)
      /\ UNCHANGED <<tasks, rows, inflight, items, plan, job>>
  BY <1>0 DEF Calm, ListTasks, Overlooks, world, store
<1>2. ASSUME NEW h \in Homework, NEW t \in Marked(tasks, h)
      PROVE  t = Winner(tasks, h)
  <2>1. \A u \in Marked(tasks, h) : rows[h].task = u
    BY <1>1, HomeworkAssumption DEF Marked, CalmInv, KeysKnown, None
  <2>2. Winner(tasks, h) \in Marked(tasks, h)
    BY WinnerIsMarked
  <2> QED
    BY <2>1, <2>2
<1>3. Losers(tasks) = {}
  BY <1>2 DEF Losers
<1>4. \A h \in Homework : plan[h] = <<>>
  BY <1>1 DEF PassInv, PlanInOrder
<1>5. RowsFaithful' /\ CalmRows' /\ CalmPlan' /\ CalmJob'
  BY <1>1, <1>4 DEF CalmInv, RowsFaithful, PatchIn, CalmRows, CalmPlan, PlanCalm, CalmJob, AtCall
<1>6. KeysKnown'
  BY <1>1, <1>3 DEF CalmInv, KeysKnown
<1> QED
  BY <1>5, <1>6 DEF CalmInv

\* Reconciliation leaves a row as it is, or drops it for want of a task.
LEMMA SyncCalm ==
  ASSUME OwnInv, PassInv, CalmInv, SyncStore
  PROVE  CalmInv'
<1>1. /\ pc = "strip" /\ pc' = "fetch" /\ rows' = [h \in Homework |-> SyncedRow(seen, h, rows[h])]
      /\ UNCHANGED <<tasks, inflight, todo, deny, items, plan, job>>
  BY DEF SyncStore, world
<1>2. rows \in [Homework -> Row] /\ \A t \in TaskId : tasks[t] \in Task
  BY DEF OwnInv, TypeOK
<1>3. ASSUME NEW h \in Homework
      PROVE  /\ rows'[h] = rows[h] \/ rows'[h] = NoRow
             /\ Marked(seen, h) # {} => rows'[h] = rows[h]
  <2>1. rows'[h] = SyncedRow(seen, h, rows[h]) /\ rows[h] \in Row /\ RowCalm(rows[h])
    BY <1>1, <1>2 DEF CalmInv, CalmRows
  <2>2. CASE Marked(seen, h) = {}
    BY <2>1, <2>2 DEF SyncedRow
  <2>3. CASE Marked(seen, h) # {}
    <3>1. Winner(seen, h) \in Marked(seen, h)
      BY <2>3, WinnerIsMarked
    <3>2. rows[h].task = Winner(seen, h) /\ Winner(seen, h) # None
      BY <1>1, <3>1, HomeworkAssumption, BoundAssumption
      DEF Marked, CalmInv, KeysKnown, None, TaskId
    <3>3. rows'[h] = [rows[h] EXCEPT !.task = Winner(seen, h)]
      BY <2>1, <2>3, <3>2 DEF SyncedRow, RowCalm
    <3> QED
      BY <2>1, <2>3, <3>2, <3>3 DEF Row
  <2> QED
    BY <2>2, <2>3
<1>4. \A h \in Homework : plan[h] = <<>>
  BY <1>1 DEF PassInv, PlanInOrder
<1>5. RowsFaithful'
  BY <1>1, <1>3, <1>4 DEF CalmInv, RowsFaithful, PatchIn, NoRow
<1>6. CalmRows'
  BY <1>1, <1>3 DEF CalmInv, CalmRows, RowCalm, NoRow, Pending
<1>7. CalmPlan' /\ CalmJob'
  BY <1>1, <1>4 DEF CalmPlan, PlanCalm, CalmJob, AtCall
<1>8. ASSUME NEW t \in TaskId, tasks[t].live, tasks[t].key # None
      PROVE  rows'[tasks[t].key].task = t
  <2>1. tasks[t].key \in Homework
    BY <1>2, <1>8 DEF Task
  <2>2. t \in Marked(seen, tasks[t].key)
    BY <1>1, <1>8 DEF Marked, CalmInv, KeysKnown
  <2>3. rows[tasks[t].key].task = t
    BY <1>1, <1>8 DEF CalmInv, KeysKnown
  <2> QED
    BY <1>3, <2>1, <2>2, <2>3
<1>9. KeysKnown'
  BY <1>1, <1>8 DEF CalmInv, KeysKnown
<1> QED
  BY <1>5, <1>6, <1>7, <1>9 DEF CalmInv

\* The diff.
LEMMA DiffCalm ==
  ASSUME OwnInv, PassInv, CalmInv, Diff \/ DiffDeferredOnly
  PROVE  CalmInv'
<1>1. /\ pc = "plan" /\ pc' = "apply"
      /\ UNCHANGED <<tasks, rows, inflight, todo, deny, items, job>>
  BY DEF Diff, DiffDeferredOnly, world, store, pass
<1>2. \A h \in Homework : plan[h] = <<>>
  BY <1>1 DEF PassInv, PlanInOrder
<1>3. ASSUME NEW h \in Homework
      PROVE  /\ PlanCalm(plan'[h], rows[h], items[h].content)
             /\ \A i \in DOMAIN plan'[h] : plan'[h][i].op = "create" => rows[h].task = None
  <2>1. /\ rows[h] \in Row /\ items[h] \in Item /\ covered \in BOOLEAN
        /\ RowCalm(rows[h]) /\ rows[h].state \notin Pending
    BY <1>1 DEF OwnInv, TypeOK, CalmInv, CalmRows
  <2>2. CASE Diff
    <3>1. PICK remote \in Task : plan'[h] = Steps(h, rows[h], items[h], remote, covered)
      BY <2>2, DiffPlans
    <3> QED
      BY <2>1, <3>1, StepsCalm
  <2>3. CASE DiffDeferredOnly
    <3>1. plan'[h] = <<>>
      BY <2>1, <2>3 DEF DiffDeferredOnly, DeferredSteps, Pending
    <3> QED
      BY <3>1 DEF PlanCalm
  <2> QED
    BY <2>2, <2>3
<1>4. CalmPlan'
  BY <1>1, <1>3 DEF CalmPlan
<1> QED
  BY <1>1, <1>2, <1>4, QuietCalm DEF AtCall, CalmInv, KeysKnown

\* A pass starts, and a fetch: there is no plan yet.
LEMMA EarlyCalm ==
  ASSUME PassInv, CalmInv, StartPass \/ FetchWindow
  PROVE  CalmInv'
<1>1. /\ pc \in {"idle", "fetch"} /\ pc' \in {"list", "plan"}
      /\ UNCHANGED <<tasks, rows, inflight, todo, deny, plan, job>>
  BY DEF StartPass, FetchWindow, Fetch, world, store
<1>2. \A h \in Homework : plan[h] = <<>>
  BY <1>1 DEF PassInv, PlanInOrder
<1>3. CalmPlan'
  BY <1>1, <1>2 DEF CalmPlan, PlanCalm
<1> QED
  BY <1>1, <1>2, <1>3, QuietCalm DEF AtCall, CalmInv, KeysKnown


\* A step of homework h ends with `row`: as it was but for a step that writes text, or of
\* the version of the item, which a full patch has put into the task.
RowSettled(h, row) ==
  /\ row.state \notin Pending /\ RowCalm(row)
  /\ row.task \in {rows[h].task, None}
  /\ row.task = None /\ rows[h].task # None => ~tasks[rows[h].task].live
  /\ row.task # None =>
       \/ row.fp = rows[h].fp /\ ~FullPatch(Head(plan[h]))
       \/ /\ row.fp = items[h].content /\ Head(plan[h]).op \notin {"close", "delete"}
          /\ FullPatch(Head(plan[h])) /\ tasks[row.task].live =>
               tasks[row.task].content \in {items[h].content, Foreign}

\* What is left of a calm plan when its first step is over.
LEMMA TailCalm ==
  ASSUME NEW p \in Seq(Step), p # <<>>
  PROVE  /\ Tail(p) \in Seq(Step) /\ Len(Tail(p)) = Len(p) - 1
         /\ \A i \in DOMAIN Tail(p) : i + 1 \in DOMAIN p /\ Tail(p)[i] = p[i + 1]
         /\ 1 \in DOMAIN p /\ Head(p) = p[1]
         /\ PatchIn(p) => FullPatch(Head(p)) \/ PatchIn(Tail(p))
<1>1. /\ Tail(p) \in Seq(Step) /\ Len(Tail(p)) = Len(p) - 1
      /\ \A i \in DOMAIN Tail(p) : i + 1 \in DOMAIN p /\ Tail(p)[i] = p[i + 1]
      /\ 1 \in DOMAIN p /\ Head(p) = p[1]
  OBVIOUS
<1>2. ASSUME PatchIn(p), ~FullPatch(Head(p))
      PROVE  PatchIn(Tail(p))
  <2>1. PICK i \in DOMAIN p : FullPatch(p[i])
    BY <1>2 DEF PatchIn
  <2>2. i # 1 /\ i \in 1 .. Len(p)
    BY <1>1, <1>2, <2>1
  <2>3. i - 1 \in DOMAIN Tail(p) /\ Tail(p)[i - 1] = p[i]
    BY <1>1, <2>2
  <2> QED
    BY <2>1, <2>3 DEF PatchIn
<1> QED
  BY <1>1, <1>2

\* The next step is about the homework's item, and the row is of its version unless a full
\* patch is to come; so the end of a step leaves row and task of one version, or the patch.
LEMMA SettledCalm ==
  ASSUME OwnInv, CalmInv, NEW h \in Homework, NEW row, RowSettled(h, row), plan[h] # <<>>,
         plan[h] \in Seq(Step)
  PROVE  /\ row.task # None /\ tasks[row.task].live =>
              tasks[row.task].content \in {row.fp, Foreign} \/ PatchIn(Tail(plan[h]))
         /\ PlanCalm(Tail(plan[h]), row, items[h].content)
         /\ \A i \in DOMAIN Tail(plan[h]) :
              Tail(plan[h])[i].op \notin {"create", "close", "delete"}
<1> DEFINE p == plan[h]
<1>1. /\ Len(Tail(p)) = Len(p) - 1 /\ Len(p) \in Nat
      /\ \A i \in DOMAIN Tail(p) : i + 1 \in DOMAIN p /\ Tail(p)[i] = p[i + 1] /\ i \in 1 .. Len(p) - 1
      /\ 1 \in DOMAIN p /\ Head(p) = p[1]
      /\ PatchIn(p) => FullPatch(Head(p)) \/ PatchIn(Tail(p))
  BY TailCalm
<1>2. PlanCalm(p, rows[h], items[h].content)
  BY DEF CalmInv, CalmPlan
<1>3. rows[h].task # None /\ tasks[rows[h].task].live =>
        tasks[rows[h].task].content \in {rows[h].fp, Foreign} \/ PatchIn(p)
  BY DEF CalmInv, RowsFaithful
<1>4. Head(p).op \notin {"close", "delete"} =>
        rows[h].task = None \/ PatchIn(p) \/ rows[h].fp = items[h].content
  BY <1>1, <1>2 DEF PlanCalm
<1> HIDE DEF p
<1>5. row.task # None => row.task = rows[h].task
  BY DEF RowSettled
<1>6. ASSUME row.task # None, tasks[row.task].live
      PROVE  tasks[row.task].content \in {row.fp, Foreign} \/ PatchIn(Tail(p))
  BY <1>1, <1>3, <1>4, <1>5, <1>6 DEF RowSettled, p
<1>7. ASSUME NEW i \in DOMAIN Tail(p)
      PROVE  /\ Tail(p)[i].op \notin {"cancel", "resume", "create", "close", "delete"}
             /\ Tail(p)[i].item.content = items[h].content
             /\ row.task = None \/ PatchIn(Tail(p)) \/ row.fp = items[h].content
  <2>1. i + 1 \in DOMAIN p /\ Tail(p)[i] = p[i + 1] /\ Len(p) # 1
    BY <1>1, <1>7
  <2>2. /\ p[i + 1].op \notin {"cancel", "resume", "create", "close", "delete"}
        /\ p[i + 1].item.content = items[h].content
        /\ rows[h].task = None \/ PatchIn(p) \/ rows[h].fp = items[h].content
    BY <1>2, <2>1 DEF PlanCalm
  <2>3. row.task = None \/ PatchIn(Tail(p)) \/ row.fp = items[h].content
    BY <1>1, <1>5, <2>2 DEF RowSettled, p
  <2> QED
    BY <2>1, <2>2, <2>3
<1> QED
  BY <1>6, <1>7 DEF PlanCalm, p

\* A step is over.
LEMMA StepEndCalm ==
  ASSUME OwnInv, CalmInv, NEW h \in Homework, plan[h] # <<>>,
         AtCall \/ (pc = "apply" /\ Turn(h)), AtCall => job.h = h, pc # "save",
         pc' = "apply", job' = NoJob(h), plan' = [plan EXCEPT ![h] = Tail(@)],
         UNCHANGED <<tasks, inflight, items, seen, todo, deny>>,
         NEW row, RowSettled(h, row), rows' = [rows EXCEPT ![h] = row]
  PROVE  CalmInv'
<1>1. plan \in [Homework -> Seq(Step)] /\ rows \in [Homework -> Row]
  BY DEF OwnInv, TypeOK
<1>2. ~AtCall' /\ job'.h = h
  BY DEF AtCall, NoJob
<1>3. rows'[h] = row /\ plan'[h] = Tail(plan[h])
  BY <1>1
<1>4. \A g \in Homework \ {h} : rows'[g] = rows[g] /\ plan'[g] = plan[g]
  BY <1>1
<1>5. /\ row.task # None /\ tasks[row.task].live =>
           tasks[row.task].content \in {row.fp, Foreign} \/ PatchIn(Tail(plan[h]))
      /\ PlanCalm(Tail(plan[h]), row, items[h].content)
      /\ \A i \in DOMAIN Tail(plan[h]) :
              Tail(plan[h])[i].op \notin {"create", "close", "delete"}
  BY <1>1, SettledCalm
<1>6. ASSUME NEW g \in Homework, rows'[g].task # None, tasks[rows'[g].task].live
      PROVE  \/ tasks[rows'[g].task].content \in {rows'[g].fp, Foreign}
             \/ g = h /\ PatchIn(plan'[g])
  <2>1. CASE g = h
    BY <1>3, <1>5, <1>6, <2>1
  <2>2. CASE g # h
    <3>1. rows'[g] = rows[g] /\ (job.h = g => plan[g] = <<>>)
      BY <1>4, <2>2 DEF Turn
    <3>2. job.h = g => ~PatchIn(plan[g])
      BY <3>1 DEF PatchIn
    <3> QED
      BY <1>6, <3>1, <3>2 DEF CalmInv, RowsFaithful
  <2> QED
    BY <2>1, <2>2
<1>7. RowsFaithful'
  BY <1>2, <1>6 DEF RowsFaithful
<1>8. CalmRows'
  <2>1. ASSUME NEW g \in Homework PROVE RowCalm(rows'[g]) /\ rows'[g].state \notin Pending
    <3>1. CASE g = h
      BY <1>3, <3>1 DEF RowSettled
    <3>2. CASE g # h
      <4>1. rows'[g] = rows[g] /\ (AtCall => job.h # g)
        BY <1>4, <3>2
      <4> QED
        BY <4>1 DEF CalmInv, CalmRows, AtCall
    <3> QED
      BY <3>1, <3>2
  <2> QED
    BY <2>1 DEF CalmRows
<1>9. CalmPlan'
  <2>1. ASSUME NEW g \in Homework
        PROVE  /\ PlanCalm(plan'[g], rows'[g], items[g].content)
               /\ \A i \in DOMAIN plan'[g] : plan'[g][i].op = "create" => rows'[g].task = None
    <3>1. CASE g = h
      BY <1>3, <1>5, <3>1
    <3>2. CASE g # h
      <4>1. rows'[g] = rows[g] /\ plan'[g] = plan[g]
        BY <1>4, <3>2
      <4>2. ~(job.h = g /\ pc \in {"attach", "store"})
        BY <3>2 DEF AtCall
      <4> QED
        BY <4>1, <4>2 DEF CalmInv, CalmPlan
    <3> QED
      BY <3>1, <3>2
  <2> QED
    BY <2>1 DEF CalmPlan
<1>10. ASSUME NEW t \in TaskId, tasks[t].live, tasks[t].key # None
       PROVE  rows'[tasks[t].key].task = t
  <2>1. tasks[t] \in Task /\ tasks[t].key \in Homework /\ t # None
    BY <1>10, BoundAssumption DEF OwnInv, TypeOK, Task, TaskId, None
  <2>2. rows[tasks[t].key].task = t
    BY <1>10 DEF CalmInv, KeysKnown
  <2>3. tasks[t].key = h => row.task = t
    BY <1>10, <2>1, <2>2 DEF RowSettled
  <2> QED
    BY <1>3, <1>4, <2>1, <2>2, <2>3
<1>11. KeysKnown'
  BY <1>10 DEF CalmInv, KeysKnown
<1> QED
  BY <1>2, <1>7, <1>8, <1>9, <1>11 DEF CalmInv, CalmJob


\* What the invariant says of a step at work when nothing fails.
LEMMA CalmWork ==
  ASSUME OwnInv, PassInv, TickInv, CalmInv, AtCall
  PROVE  /\ job.h \in Homework /\ plan[job.h] # <<>> /\ plan[job.h] \in Seq(Step)
         /\ job.op = Head(plan[job.h]).op /\ job.item = Head(plan[job.h]).item
         /\ job.derived = Head(plan[job.h]).derived
         /\ job.op \in {"create", "patch", "patch_done", "reopen", "close", "delete"}
         /\ job.op \notin {"close", "delete"} => job.item.content = items[job.h].content
         /\ rows[job.h] \in Row /\ job.item \in Item /\ job.tgt \in TaskId \cup {None}
         /\ job.item.content # Unset
         /\ job.op \in {"close", "delete"} => rows[job.h].task # None
<1>1. /\ job.h \in Homework /\ plan[job.h] # <<>> /\ plan[job.h] \in Seq(Step)
      /\ job.op = Head(plan[job.h]).op /\ job.item = Head(plan[job.h]).item
      /\ job.derived = Head(plan[job.h]).derived
      /\ rows[job.h] \in Row /\ job.item \in Item /\ job.tgt \in TaskId \cup {None}
  BY DEF OwnInv, TypeOK, Job, JobFits, PassInv, PlanInOrder, TickInv, StepAtHand
<1>2. 1 \in DOMAIN plan[job.h] /\ Head(plan[job.h]) = plan[job.h][1] /\ Head(plan[job.h]) \in Step
  BY <1>1, TailCalm
<1>3. PlanCalm(plan[job.h], rows[job.h], items[job.h].content) /\ job.op # "touch"
  BY <1>1 DEF CalmInv, CalmPlan, CalmJob
<1>4. job.op \in {"create", "patch", "patch_done", "reopen", "close", "delete"}
  BY <1>1, <1>2, <1>3 DEF PlanCalm, Step, StepOp, OpName
<1>5. job.op \notin {"close", "delete"} => job.item.content = items[job.h].content
  BY <1>1, <1>2, <1>3 DEF PlanCalm
<1>6. job.item.content # Unset
  BY <1>1, BoundAssumption DEF Item, Content, Unset
<1>7. job.op \in {"close", "delete"} => rows[job.h].task # None
  BY <1>1, <1>2, <1>3 DEF PlanCalm
<1> QED
  BY <1>1, <1>4, <1>5, <1>6, <1>7

\* touch stores the version of the item.
LEMMA LocalCalm ==
  ASSUME OwnInv, PassInv, CalmInv, NEW h \in Homework, LocalStep(h)
  PROVE  CalmInv'
<1>1. /\ pc = "apply" /\ pc' = "apply" /\ Turn(h) /\ plan[h] # <<>>
      /\ plan' = [plan EXCEPT ![h] = Tail(@)] /\ job' = NoJob(h)
      /\ Head(plan[h]).op \in {"touch", "cancel"}
      /\ UNCHANGED <<tasks, inflight, items, seen, todo, deny>>
  BY DEF LocalStep, Turn, world, pass
<1>2. plan[h] \in Seq(Step) /\ rows[h] \in Row
  BY DEF OwnInv, TypeOK
<1>3. 1 \in DOMAIN plan[h] /\ Head(plan[h]) = plan[h][1] /\ Head(plan[h]) \in Step
  BY <1>1, <1>2, TailCalm
<1>4. PlanCalm(plan[h], rows[h], items[h].content) /\ RowCalm(rows[h])
      /\ rows[h].state \notin Pending
  BY <1>1 DEF CalmInv, CalmPlan, CalmRows
<1>5. Head(plan[h]).op = "touch" /\ Head(plan[h]).item.content = items[h].content
  BY <1>1, <1>3, <1>4 DEF PlanCalm
<1>6. items[h].content # Unset
  BY BoundAssumption DEF OwnInv, TypeOK, Item, Content, Unset
<1> DEFINE row == TouchedRow(rows[h], Head(plan[h]).item)
<1>7. rows' = [rows EXCEPT ![h] = row]
  BY <1>5 DEF LocalStep, OwnInv, TypeOK
<1>8. RowSettled(h, row)
  <2>1. ~FullPatch(Head(plan[h]))
    BY <1>5 DEF FullPatch
  <2>2. CASE rows[h].state = "absent"
    BY <1>4, <1>5, <2>1, <2>2 DEF TouchedRow, RowSettled, RowCalm
  <2>3. CASE rows[h].state # "absent"
    <3>1. row = [rows[h] EXCEPT !.fp = items[h].content]
      BY <1>5, <2>3 DEF TouchedRow
    <3>2. row.state = rows[h].state /\ row.task = rows[h].task /\ row.fp = items[h].content
      BY <1>2, <3>1 DEF Row
    <3> HIDE DEF row
    <3> QED
      BY <1>4, <1>5, <1>6, <2>1, <2>3, <3>2 DEF RowSettled, RowCalm
  <2> QED
    BY <2>2, <2>3
<1> HIDE DEF row
<1> QED
  BY <1>1, <1>7, <1>8, StepEndCalm DEF AtCall

\* A step ends with its result: of the item's version, which its patch or its create has
\* put into the task, or as the row was.
LEMMA StoreCalm ==
  ASSUME OwnInv, PassInv, TickInv, CalmInv, StoreResult
  PROVE  CalmInv'
<1>1. /\ pc = "store" /\ AtCall /\ EndStep /\ rows' = [rows EXCEPT ![job.h] = ResultRow]
      /\ UNCHANGED <<tasks, inflight, items, seen, todo, deny>>
  BY DEF StoreResult, AtCall, world, pass
<1>2. /\ job.h \in Homework /\ plan[job.h] # <<>> /\ plan[job.h] \in Seq(Step)
      /\ job.op = Head(plan[job.h]).op /\ job.item = Head(plan[job.h]).item
      /\ job.derived = Head(plan[job.h]).derived
      /\ job.op \in {"create", "patch", "patch_done", "reopen", "close", "delete"}
      /\ job.op \notin {"close", "delete"} => job.item.content = items[job.h].content
      /\ rows[job.h] \in Row /\ job.item.content # Unset
      /\ job.op \in {"close", "delete"} => rows[job.h].task # None
  BY <1>1, CalmWork
<1>3. /\ job.op # "create" => rows[job.h] = job.row /\ job.tgt = job.row.task
      /\ job.op = "create" => rows[job.h].task = job.tgt
      /\ job.tgt # None /\ tasks[job.tgt].live
         /\ (job.op = "create" \/ (job.op = "patch" /\ ~job.derived)) =>
           tasks[job.tgt].content \in {job.item.content, Foreign}
      /\ job.op = "delete" /\ job.tgt # None => ~tasks[job.tgt].live
      /\ RowCalm(rows[job.h])
      /\ rows[job.h].state \in Pending => job.op = "create"
  BY <1>1, <1>2 DEF CalmInv, CalmJob, CalmRows
<1>4. FullPatch(Head(plan[job.h])) <=> job.op = "patch" /\ ~job.derived
  BY <1>2 DEF FullPatch
<1>5. RowSettled(job.h, ResultRow)
  <2>1. CASE job.op = "create"
    <3>1. ResultRow = FinalizedRow(job.tgt, job.item)
      BY <2>1 DEF ResultRow
    <3>2. /\ ResultRow.state = "created" /\ ResultRow.task = job.tgt
          /\ ResultRow.fp = job.item.content
      BY <3>1 DEF FinalizedRow
    <3> QED
      BY <1>2, <1>3, <1>4, <2>1, <3>2 DEF RowSettled, RowCalm, Pending
  <2>2. CASE job.op \in {"patch", "patch_done", "reopen"}
    <3>1. ResultRow \in {PatchedRow(job.row, job.item), DoneRow(job.row, job.op, job.item)}
      BY <2>2 DEF ResultRow
    <3>2. ResultRow.fp = job.item.content /\ ResultRow.task = rows[job.h].task
          /\ ResultRow.state \in Closed \cup {"updated"}
      BY <1>2, <1>3, <2>2, <3>1 DEF PatchedRow, DoneRow, Row
    <3>3. ResultRow.state \notin Pending /\ ResultRow.state # "absent"
      BY <3>2 DEF Closed, Pending
    <3> QED
      BY <1>2, <1>3, <1>4, <2>2, <3>2, <3>3 DEF RowSettled, RowCalm
  <2>3. CASE job.op = "close"
    <3>1. ResultRow = ClosedRow(rows[job.h])
      BY <1>3, <2>3 DEF ResultRow
    <3>2. ResultRow.fp = rows[job.h].fp /\ ResultRow.task = rows[job.h].task
          /\ ResultRow.state = "closed"
      BY <1>2, <3>1 DEF ClosedRow, Row
    <3>3. RowCalm(ResultRow)
      BY <1>2, <1>3, <2>3, <3>2 DEF RowCalm
    <3> QED
      BY <1>2, <1>3, <1>4, <2>3, <3>2, <3>3 DEF RowSettled, Pending
  <2>4. CASE job.op = "delete"
    <3>1. ResultRow = NoRow
      BY <2>4 DEF ResultRow
    <3> QED
      BY <1>3, <2>4, <3>1 DEF RowSettled, RowCalm, NoRow, Pending
  <2> QED
    BY <1>2, <2>1, <2>2, <2>3, <2>4
<1> QED
  BY <1>1, <1>2, <1>5, StepEndCalm DEF EndStep

\* A step ends with a 404: the row lets go of its task, or a close leaves it.
LEMMA GoneCalm ==
  ASSUME OwnInv, PassInv, TickInv, CalmInv, TaskGone
  PROVE  CalmInv'
<1>1. /\ pc \in TaskCalls /\ AtCall /\ EndStep /\ ~tasks[job.tgt].live
      /\ UNCHANGED <<tasks, inflight, items, seen, todo, deny>>
  BY DEF TaskGone, Gone, TaskCalls, AtCall, world, pass
<1>2. /\ job.h \in Homework /\ plan[job.h] # <<>> /\ rows[job.h] \in Row
      /\ job.op = Head(plan[job.h]).op
  BY <1>1, CalmWork
<1>3. /\ job.op # "create" => rows[job.h] = job.row /\ job.tgt = job.row.task
      /\ pc = "attach" /\ job.op = "create" => rows[job.h].task = job.tgt
      /\ RowCalm(rows[job.h])
      /\ rows[job.h].state \in Pending => job.op = "create"
  BY <1>1, <1>2 DEF CalmInv, CalmJob, CalmRows
<1>4. rows[job.h].task = job.tgt
  BY <1>1, <1>2, <1>3 DEF TaskCalls, OwnInv, JobFits
<1>5. CASE pc = "close"
  <2>1. rows' = [rows EXCEPT ![job.h] = rows[job.h]]
    BY <1>5 DEF TaskGone, OwnInv, TypeOK
  <2>2. job.op \in {"close", "delete"}
    BY <1>5 DEF OwnInv, JobFits
  <2>3. RowSettled(job.h, rows[job.h])
    BY <1>2, <1>3, <2>2 DEF RowSettled, FullPatch
  <2> QED
    BY <1>1, <1>2, <2>1, <2>3, StepEndCalm DEF EndStep, TaskCalls
<1>6. CASE pc # "close"
  <2>1. rows' = [rows EXCEPT ![job.h] = GoneRow(RowNow)]
    BY <1>6 DEF TaskGone
  <2>2. job.op = "create" => pc = "attach"
    BY <1>1, <1>6 DEF TaskCalls, OwnInv, JobFits
  <2>3. RowNow = rows[job.h]
    BY <1>1, <1>3, <1>4, <2>2 DEF RowNow, RowCalm, CalmInv, CalmJob
  <2>4. GoneRow(RowNow).task = None /\ GoneRow(RowNow).state \in {"absent", "created"}
        /\ (GoneRow(RowNow).state = "created" => GoneRow(RowNow).fp # Unset)
    BY <1>2, <1>3, <2>3 DEF GoneRow, NoRow, Row, RowCalm, Pending
  <2>5. RowSettled(job.h, GoneRow(RowNow))
    BY <1>1, <1>4, <2>4 DEF RowSettled, RowCalm, Pending
  <2> QED
    BY <1>1, <1>2, <2>1, <2>5, StepEndCalm DEF EndStep, TaskCalls
<1> QED
  BY <1>5, <1>6


\* A step begins: a homework without a task gets one, whatever the row's past.
LEMMA BeginCalm ==
  ASSUME OwnInv, CalmInv, NEW h \in Homework, BeginStep(h)
  PROVE  CalmInv'
<1>1. /\ pc = "apply" /\ Turn(h) /\ plan[h] # <<>> /\ Head(plan[h]).op \notin {"touch", "cancel"}
      /\ job'.h = h /\ job'.op = Head(plan[h]).op /\ job'.row = rows[h]
      /\ job'.tgt = IF Head(plan[h]).op \in {"create", "resume"} THEN None ELSE rows[h].task
      /\ pc' = FirstCall(Head(plan[h]).op, rows[h])
      /\ UNCHANGED <<tasks, rows, inflight, todo, deny, items, plan>>
  BY DEF BeginStep, Turn, world, store, pass
<1>2. plan[h] \in Seq(Step) /\ rows[h] \in Row
  BY DEF OwnInv, TypeOK
<1>3. 1 \in DOMAIN plan[h] /\ Head(plan[h]) = plan[h][1]
  BY <1>1, <1>2, TailCalm
<1>4. Head(plan[h]).op # "resume" /\ (Head(plan[h]).op = "create" => rows[h].task = None)
  BY <1>1, <1>3 DEF CalmInv, CalmPlan, PlanCalm
<1>5. pc' \in {"anchor", "patch", "done", "close"}
  BY <1>1, <1>4 DEF FirstCall
<1>6. ASSUME NEW g \in Homework, rows[g].task # None, tasks[rows[g].task].live
      PROVE  \/ tasks[rows[g].task].content \in {rows[g].fp, Foreign}
             \/ g = h /\ PatchIn(plan[g])
  <2>1. g # h /\ job.h = g => ~PatchIn(plan[g])
    BY <1>1 DEF Turn, PatchIn
  <2> QED
    BY <1>6, <2>1 DEF CalmInv, RowsFaithful
<1>7. RowsFaithful'
  BY <1>1, <1>6 DEF RowsFaithful
<1>8. CalmRows'
  BY <1>1 DEF CalmInv, CalmRows
<1>9. KeysKnown'
  BY <1>1, <1>5 DEF CalmInv, KeysKnown
<1>10. CalmPlan'
  BY <1>1 DEF CalmInv, CalmPlan
<1>11. CalmJob'
  BY <1>1, <1>4, <1>5 DEF CalmJob
<1> QED
  BY <1>7, <1>8, <1>9, <1>10, <1>11 DEF CalmInv

\* A create finds no task of its homework: there is none without a row.
LEMMA NothingFound ==
  ASSUME OwnInv, PassInv, TickInv, CalmInv
  PROVE  ~FindById /\ ~FindAnchor
<1>1. ~FindById
  BY DEF FindById, CalmInv, CalmJob, AtCall
<1>2. ASSUME FindAnchor PROVE FALSE
  <2>1. pc = "anchor" /\ AtCall
    BY <1>2 DEF FindAnchor, AtCall
  <2>2. PICK t \in TaskId : tasks[t].live /\ tasks[t].key = job.h
    BY <1>2 DEF FindAnchor, Anchored
  <2>3. job.h \in Homework /\ job.op = "create" /\ t # None /\ job.h # None
    BY <2>1, CalmWork, HomeworkAssumption, BoundAssumption DEF OwnInv, JobFits, None, TaskId
  <2>4. rows[job.h].task = t
    BY <2>1, <2>2, <2>3 DEF CalmInv, KeysKnown
  <2>5. 1 \in DOMAIN plan[job.h] /\ plan[job.h][1].op = "create"
    BY <2>1, <2>3, CalmWork, TailCalm
  <2>6. rows[job.h].task = None
    BY <2>1, <2>3, <2>5 DEF CalmInv, CalmPlan
  <2> QED
    BY <2>3, <2>4, <2>6
<1> QED
  BY <1>1, <1>2

\* The intent row is of the version of the item, and takes nothing away.
LEMMA IntentCalm ==
  ASSUME OwnInv, PassInv, TickInv, CalmInv, WriteIntent
  PROVE  CalmInv'
<1>1. /\ pc = "anchor" /\ pc' = "post" /\ AtCall
      /\ rows' = [rows EXCEPT ![job.h] = IntentRow(job.item)]
      /\ UNCHANGED <<tasks, inflight, todo, deny, items, plan, job>>
  BY DEF WriteIntent, AtCall, world, pass
<1>2. /\ job.h \in Homework /\ plan[job.h] # <<>> /\ plan[job.h] \in Seq(Step)
      /\ job.op = Head(plan[job.h]).op /\ job.item.content # Unset
      /\ job.op = "create"
  BY <1>1, CalmWork DEF OwnInv, JobFits
<1>3. /\ 1 \in DOMAIN plan[job.h] /\ plan[job.h][1].op = "create" /\ rows[job.h].task = None
  BY <1>1, <1>2, TailCalm DEF CalmInv, CalmPlan
<1>4. /\ rows'[job.h] = IntentRow(job.item)
      /\ \A g \in Homework \ {job.h} : rows'[g] = rows[g]
  BY <1>1, <1>2 DEF OwnInv, TypeOK
<1>5. /\ IntentRow(job.item).task = None /\ IntentRow(job.item).fp = job.item.content
      /\ IntentRow(job.item).state = "creating"
  BY DEF IntentRow
<1>6. RowsFaithful'
  BY <1>1, <1>4, <1>5 DEF CalmInv, RowsFaithful
<1>7. CalmRows'
  BY <1>1, <1>2, <1>4, <1>5 DEF CalmInv, CalmRows, RowCalm
<1>8. ASSUME NEW t \in TaskId, tasks[t].live, tasks[t].key # None
      PROVE  rows'[tasks[t].key].task = t
  <2>1. tasks[t].key \in Homework /\ t # None /\ rows[tasks[t].key].task = t
    BY <1>1, <1>8, BoundAssumption DEF OwnInv, TypeOK, Task, TaskId, None, CalmInv, KeysKnown
  <2> QED
    BY <1>3, <1>4, <2>1
<1>9. KeysKnown'
  BY <1>1, <1>8 DEF CalmInv, KeysKnown
<1>10. Len(plan[job.h]) = 1
  BY <1>2, <1>3 DEF CalmInv, CalmPlan, PlanCalm
<1>11. PlanCalm(plan[job.h], IntentRow(job.item), items[job.h].content)
  BY <1>2, <1>3, <1>5, <1>10 DEF CalmInv, CalmPlan, PlanCalm
<1>12. CalmPlan'
  BY <1>1, <1>4, <1>5, <1>11 DEF CalmInv, CalmPlan
<1>13. CalmJob'
  BY <1>1, <1>2, <1>4 DEF CalmJob
<1> QED
  BY <1>6, <1>7, <1>9, <1>12, <1>13 DEF CalmInv

\* The new task has the item's text, and its marker is the one of the row at hand.
LEMMA PostCalm ==
  ASSUME OwnInv, PassInv, TickInv, CalmInv, Post
  PROVE  CalmInv'
<1>1. /\ pc = "post" /\ pc' = "save" /\ AtCall /\ posted < MaxTasks
      /\ tasks' = [tasks EXCEPT ![posted + 1] = PostedTask(job.h, job.item)]
      /\ job' = [job EXCEPT !.tgt = posted + 1]
      /\ UNCHANGED <<rows, inflight, todo, deny, items, plan>>
  BY DEF Post, Effect, AtCall, store, pass
<1>2. /\ job.h \in Homework /\ job.op = "create"
  BY <1>1, CalmWork DEF OwnInv, JobFits
<1>3. /\ job'.h = job.h /\ job'.op = job.op /\ job'.item = job.item /\ job'.row = job.row
      /\ job'.tgt = posted + 1 /\ job'.derived = job.derived
  BY <1>1 DEF OwnInv, TypeOK, Job
<1>4. posted + 1 \in TaskId /\ posted \in Nat /\ posted + 1 # None
  BY <1>1, BoundAssumption DEF OwnInv, TypeOK, TaskId, None
<1>5. /\ tasks'[posted + 1] = PostedTask(job.h, job.item)
      /\ \A t \in TaskId \ {posted + 1} : tasks'[t] = tasks[t]
  BY <1>1, <1>4 DEF OwnInv, TypeOK
<1>6. /\ PostedTask(job.h, job.item).key \in {job.h, None}
      /\ PostedTask(job.h, job.item).content = job.item.content
  BY DEF PostedTask, RenderedKey
<1>7. \A g \in Homework : rows[g].task # None =>
        rows[g].task \in TaskId \ {posted + 1}
  <2>1. ASSUME NEW g \in Homework, rows[g].task # None
        PROVE  rows[g].task \in TaskId /\ rows[g].task <= posted
    BY <2>1 DEF OwnInv, TypeOK, Row, RowsLead, RowLeads, Leads
  <2> QED
    BY <1>4, <2>1
<1>8. RowsFaithful'
  BY <1>1, <1>3, <1>5, <1>7 DEF CalmInv, RowsFaithful
<1>9. CalmRows'
  BY <1>1, <1>3 DEF CalmInv, CalmRows
<1>10. KeysKnown'
  <2>1. ASSUME NEW t \in TaskId, tasks'[t].live, tasks'[t].key # None
        PROVE  \/ rows[tasks'[t].key].task = t
               \/ job.h = tasks'[t].key /\ t = posted + 1
    <3>1. CASE t = posted + 1
      BY <1>5, <1>6, <2>1, <3>1
    <3>2. CASE t # posted + 1
      BY <1>1, <1>5, <2>1, <3>2 DEF CalmInv, KeysKnown
    <3> QED
      BY <3>1, <3>2
  <2> QED
    BY <1>1, <1>3, <2>1 DEF CalmInv, KeysKnown
<1>11. CalmPlan'
  BY <1>1, <1>3 DEF CalmInv, CalmPlan
<1>12. CalmJob'
  BY <1>1, <1>2, <1>3, <1>4, <1>5, <1>6 DEF CalmInv, CalmJob
<1> QED
  BY <1>8, <1>9, <1>10, <1>11, <1>12 DEF CalmInv

\* The intent row is given the new task.
LEMMA SaveCalm ==
  ASSUME OwnInv, PassInv, TickInv, CalmInv, SaveId
  PROVE  CalmInv'
<1>1. /\ pc = "save" /\ pc' = "attach" /\ AtCall
      /\ UNCHANGED <<tasks, inflight, todo, deny, items, plan, job>>
  BY DEF SaveId, AtCall, world, pass
<1>2. /\ job.h \in Homework /\ plan[job.h] # <<>> /\ plan[job.h] \in Seq(Step)
      /\ job.op = Head(plan[job.h]).op /\ job.item.content # Unset
      /\ job.item.content = items[job.h].content
      /\ job.op = "create"
  BY <1>1, CalmWork DEF OwnInv, JobFits
<1>3. /\ rows[job.h] = IntentRow(job.item) /\ job.tgt # None
      /\ job.tgt # None /\ tasks[job.tgt].live =>
           tasks[job.tgt].content \in {job.item.content, Foreign}
  BY <1>1, <1>2 DEF CalmInv, CalmJob
<1> DEFINE row == [rows[job.h] EXCEPT !.task = job.tgt]
<1>4. /\ rows[job.h].task = None /\ rows[job.h].state = "creating"
      /\ row.task = job.tgt /\ row.fp = job.item.content /\ row.state = "creating"
  BY <1>3 DEF IntentRow
<1>5. rows' = [rows EXCEPT ![job.h] = row]
  BY <1>2, <1>4 DEF SaveId
<1> HIDE DEF row
<1>6. /\ rows'[job.h] = row
      /\ \A g \in Homework \ {job.h} : rows'[g] = rows[g]
  BY <1>2, <1>5 DEF OwnInv, TypeOK
<1>7. RowsFaithful'
  <2>1. ASSUME NEW g \in Homework, rows'[g].task # None, tasks[rows'[g].task].live
        PROVE  \/ tasks[rows'[g].task].content \in {rows'[g].fp, Foreign}
               \/ job.h = g /\ PatchIn(plan[g])
    <3>1. CASE g = job.h
      BY <1>3, <1>4, <1>6, <2>1, <3>1
    <3>2. CASE g # job.h
      BY <1>6, <2>1, <3>2 DEF CalmInv, RowsFaithful
    <3> QED
      BY <3>1, <3>2
  <2> QED
    BY <1>1, <2>1 DEF RowsFaithful
<1>8. CalmRows'
  BY <1>1, <1>2, <1>4, <1>6 DEF CalmInv, CalmRows, RowCalm
<1>9. KeysKnown'
  <2>1. ASSUME NEW t \in TaskId, tasks[t].live, tasks[t].key # None
        PROVE  rows'[tasks[t].key].task = t
    <3>1. tasks[t].key \in Homework /\ t # None
      BY <2>1, BoundAssumption DEF OwnInv, TypeOK, Task, TaskId, None
    <3>2. CASE tasks[t].key = job.h
      <4>1. job.tgt = t
        BY <1>4, <2>1, <3>1, <3>2 DEF CalmInv, KeysKnown
      <4> QED
        BY <1>4, <1>6, <3>2, <4>1
    <3>3. CASE tasks[t].key # job.h
      BY <1>6, <2>1, <3>1, <3>3 DEF CalmInv, KeysKnown
    <3> QED
      BY <3>2, <3>3
  <2> QED
    BY <1>1, <2>1 DEF CalmInv, KeysKnown
<1>10. 1 \in DOMAIN plan[job.h] /\ plan[job.h][1].op = "create"
  BY <1>2, TailCalm
<1>11. Len(plan[job.h]) = 1
  BY <1>2, <1>10 DEF CalmInv, CalmPlan, PlanCalm
<1>12. PlanCalm(plan[job.h], row, items[job.h].content)
  BY <1>2, <1>4, <1>10, <1>11 DEF CalmInv, CalmPlan, PlanCalm
<1>13. CalmPlan'
  BY <1>1, <1>2, <1>6, <1>12 DEF CalmInv, CalmPlan
<1>14. CalmJob'
  BY <1>1, <1>2, <1>3, <1>4, <1>6 DEF CalmInv, CalmJob
<1> QED
  BY <1>7, <1>8, <1>9, <1>13, <1>14 DEF CalmInv


\* What the calls of a step do to the text and the marker of its task.
LEMMA EffectCalm ==
  ASSUME OwnInv, pc \in TaskCalls, tasks' = Effect, job.op # "resume"
  PROVE  /\ \A t \in TaskId \ {job.tgt} : tasks'[t] = tasks[t]
         /\ job.tgt \in TaskId =>
              /\ tasks'[job.tgt].live => tasks[job.tgt].live
              /\ pc = "patch" /\ ~job.derived =>
                   /\ tasks'[job.tgt].content = job.item.content
                   /\ tasks'[job.tgt].key \in {job.h, None}
              /\ ~(pc = "patch" /\ ~job.derived) /\ tasks'[job.tgt].live =>
                   /\ tasks'[job.tgt].content = tasks[job.tgt].content
                   /\ tasks'[job.tgt].key = tasks[job.tgt].key
              /\ pc = "close" /\ job.op = "delete" => ~tasks'[job.tgt].live
<1> DEFINE old == tasks[job.tgt]
<1>1. tasks \in [TaskId -> Task]
  BY DEF OwnInv, TypeOK
<1>2. CASE pc = "attach"
  <2>1. tasks' = [tasks EXCEPT ![job.tgt] = [old EXCEPT !.derived = TRUE]]
    BY <1>2 DEF Effect
  <2> QED
    BY <1>1, <1>2, <2>1 DEF Task
<1>3. CASE pc = "patch"
  <2>1. tasks' = [tasks EXCEPT ![job.tgt] = PatchedTask(old, job.h, job.item, job.derived)]
    BY <1>3 DEF Effect
  <2>2. old \in Task =>
          /\ PatchedTask(old, job.h, job.item, job.derived).live = old.live
          /\ job.derived => PatchedTask(old, job.h, job.item, job.derived) = old
          /\ ~job.derived =>
               /\ PatchedTask(old, job.h, job.item, job.derived).content = job.item.content
               /\ PatchedTask(old, job.h, job.item, job.derived).key \in {job.h, None}
    BY DEF PatchedTask, RenderedKey, Task
  <2> QED
    BY <1>1, <1>3, <2>1, <2>2
<1>4. CASE pc = "done"
  <2> DEFINE bit == job.op = "patch_done" /\ job.item.done
  <2>1. tasks' = [tasks EXCEPT ![job.tgt] = [old EXCEPT !.done = bit]]
    BY <1>4 DEF Effect
  <2> HIDE DEF bit
  <2> QED
    BY <1>1, <1>4, <2>1 DEF Task
<1>5. CASE pc = "close" /\ job.op = "close"
  <2>1. tasks' = [tasks EXCEPT ![job.tgt] = [old EXCEPT !.done = TRUE]]
    BY <1>5 DEF Effect
  <2> QED
    BY <1>1, <1>5, <2>1 DEF Task
<1>6. CASE pc = "close" /\ job.op = "delete"
  <2>1. tasks' = [tasks EXCEPT ![job.tgt] = NoTask] /\ ~NoTask.live
    BY <1>6 DEF Effect, NoTask
  <2> QED
    BY <1>1, <1>6, <2>1
<1> QED
  BY <1>2, <1>3, <1>4, <1>5, <1>6 DEF TaskCalls, OwnInv, JobFits

\* A call of a step puts the item's text and its homework's marker into the task of its
\* row, and into no other row's.
LEMMA CallCalm ==
  ASSUME OwnInv, PassInv, TickInv, CalmInv, TaskCall
  PROVE  CalmInv'
<1>1. /\ pc \in TaskCalls /\ AtCall /\ pc' = IF pc = "patch" THEN "attach" ELSE "store"
      /\ tasks[job.tgt].live /\ tasks' = Effect
      /\ UNCHANGED <<rows, inflight, todo, deny, items, plan, job>>
  BY DEF TaskCall, Gone, TaskCalls, AtCall, store, pass
<1>2. /\ job.h \in Homework /\ plan[job.h] # <<>> /\ plan[job.h] \in Seq(Step)
      /\ job.op = Head(plan[job.h]).op /\ job.derived = Head(plan[job.h]).derived
      /\ job.op \in {"create", "patch", "patch_done", "reopen", "close", "delete"}
      /\ job.tgt \in TaskId \cup {None} /\ None \notin TaskId
      /\ pc = "patch" => job.op = "patch"
      /\ pc = "attach" => job.op \in {"create", "patch"}
      /\ job.op = "create" => pc = "attach"
      /\ job.op = "patch" => pc \in {"patch", "attach"}
      /\ job.op = "delete" => pc = "close"
  BY <1>1, CalmWork, BoundAssumption DEF OwnInv, JobFits, TaskCalls, TaskId, None
<1>3. /\ \A t \in TaskId \ {job.tgt} : tasks'[t] = tasks[t]
      /\ job.tgt \in TaskId =>
           /\ tasks'[job.tgt].live => tasks[job.tgt].live
           /\ pc = "patch" /\ ~job.derived =>
                /\ tasks'[job.tgt].content = job.item.content
                /\ tasks'[job.tgt].key \in {job.h, None}
           /\ ~(pc = "patch" /\ ~job.derived) /\ tasks'[job.tgt].live =>
                /\ tasks'[job.tgt].content = tasks[job.tgt].content
                /\ tasks'[job.tgt].key = tasks[job.tgt].key
           /\ pc = "close" /\ job.op = "delete" => ~tasks'[job.tgt].live
  BY <1>1, <1>2, EffectCalm
<1>4. \A g \in Homework : rows[g].task # None => rows[g].task \in TaskId
  BY DEF OwnInv, TypeOK, Row
<1>5. ASSUME pc = "patch", ~job.derived
      PROVE  PatchIn(plan[job.h]) /\ rows[job.h].task = job.tgt
  <2>1. FullPatch(Head(plan[job.h]))
    BY <1>2, <1>5 DEF FullPatch
  <2>2. 1 \in DOMAIN plan[job.h] /\ Head(plan[job.h]) = plan[job.h][1]
    BY <1>2, TailCalm
  <2>3. rows[job.h].task = job.tgt
    BY <1>1, <1>2, <1>5 DEF CalmInv, CalmJob
  <2> QED
    BY <2>1, <2>2, <2>3 DEF PatchIn
<1>6. ASSUME NEW g \in Homework, rows[g].task = job.tgt, job.tgt # None
      PROVE  g = job.h
  <2>1. tasks[job.tgt].owner = g
    BY <1>1, <1>6 DEF OwnInv, RowsLead, RowLeads, Leads
  <2>2. tasks[job.tgt].owner = job.h
    BY <1>1, <1>6 DEF OwnInv, MemoryLeads, Leads
  <2> QED
    BY <2>1, <2>2
<1>7. RowsFaithful'
  <2>1. ASSUME NEW g \in Homework, rows[g].task # None, tasks'[rows[g].task].live
        PROVE  \/ tasks'[rows[g].task].content \in {rows[g].fp, Foreign}
               \/ job.h = g /\ PatchIn(plan[g])
    <3>1. CASE rows[g].task = job.tgt /\ pc = "patch" /\ ~job.derived
      BY <1>5, <1>6, <2>1, <3>1
    <3>2. CASE ~(rows[g].task = job.tgt /\ pc = "patch" /\ ~job.derived)
      <4>1. /\ tasks[rows[g].task].live
            /\ tasks'[rows[g].task].content = tasks[rows[g].task].content
        BY <1>2, <1>3, <1>4, <2>1, <3>2
      <4> QED
        BY <2>1, <4>1 DEF CalmInv, RowsFaithful
    <3> QED
      BY <3>1, <3>2
  <2> QED
    BY <1>1, <2>1 DEF RowsFaithful
<1>8. CalmRows'
  BY <1>1, <1>2 DEF CalmInv, CalmRows
<1>9. KeysKnown'
  <2>1. ASSUME NEW t \in TaskId, tasks'[t].live, tasks'[t].key # None
        PROVE  rows[tasks'[t].key].task = t
    <3>1. CASE t = job.tgt /\ pc = "patch" /\ ~job.derived
      BY <1>3, <1>5, <2>1, <3>1
    <3>2. CASE ~(t = job.tgt /\ pc = "patch" /\ ~job.derived)
      <4>1. tasks[t].live /\ tasks'[t].key = tasks[t].key
        BY <1>3, <2>1, <3>2
      <4> QED
        BY <1>1, <2>1, <4>1 DEF CalmInv, KeysKnown, TaskCalls
    <3> QED
      BY <3>1, <3>2
  <2> QED
    BY <1>1, <2>1 DEF CalmInv, KeysKnown
<1>10. CalmPlan'
  BY <1>1 DEF CalmInv, CalmPlan
<1>11. CalmJob'
  <2>1. /\ job.op # "touch" /\ (job.op # "create" => rows[job.h] = job.row /\ job.tgt = job.row.task)
        /\ job.op = "create" => job.tgt # None /\ rows[job.h].task = job.tgt
        /\ pc = "attach" /\ job.tgt # None
           /\ (job.op = "create" \/ (job.op = "patch" /\ ~job.derived)) =>
             tasks[job.tgt].content \in {job.item.content, Foreign}
    BY <1>1, <1>2 DEF CalmInv, CalmJob
  <2>2. ASSUME job.tgt # None, tasks'[job.tgt].live,
               job.op = "create" \/ (job.op = "patch" /\ ~job.derived)
        PROVE  tasks'[job.tgt].content \in {job.item.content, Foreign}
    <3>1. CASE pc = "patch"
      BY <1>2, <1>3, <2>2, <3>1
    <3>2. CASE pc = "attach"
      BY <1>2, <1>3, <2>1, <2>2, <3>2
    <3> QED
      BY <1>2, <2>2, <3>1, <3>2
  <2>3. job.op = "delete" /\ job.tgt # None => ~tasks'[job.tgt].live
    BY <1>2, <1>3
  <2> QED
    BY <1>1, <2>1, <2>2, <2>3 DEF CalmJob
<1> QED
  BY <1>7, <1>8, <1>9, <1>10, <1>11 DEF CalmInv

\* Every step keeps the invariant when nothing fails.
LEMMA NextCalm ==
  ASSUME Calm, OwnInv, PassInv, TickInv, CalmInv, [Next]_vars
  PROVE  CalmInv'
<1>1. CASE Environment
  BY <1>1, WorldCalm
<1>2. CASE StripDuplicate
  BY <1>2 DEF StripDuplicate, CalmInv, KeysKnown
<1>3. CASE Progress
  BY <1>2, <1>3, EarlyCalm, ListCalm, SyncCalm, DiffCalm, LocalCalm, BeginCalm, EndCalm,
     NothingFound, IntentCalm, PostCalm, SaveCalm, CallCalm, StoreCalm, GoneCalm
  DEF Progress
<1>4. CASE UNCHANGED vars
  BY <1>4, FadeCalm DEF vars, world, store
<1> QED
  BY <1>1, <1>3, <1>4, NothingFails DEF Next

\* At first there is neither row nor task.
LEMMA InitCalm ==
  ASSUME Init
  PROVE  CalmInv
  BY DEF Init, CalmInv, RowsFaithful, CalmRows, RowCalm, KeysKnown, CalmPlan, PlanCalm,
         CalmJob, AtCall, NoRow, NoTask, Pending

\* The inductive invariant of passes in which nothing fails holds in every reachable state.
THEOREM CalmInvariant == ASSUME Calm PROVE Spec => []CalmInv
<1>1. Init => CalmInv
  BY InitCalm
<1>2. OwnInv /\ PassInv /\ TickInv /\ CalmInv /\ [Next]_vars => CalmInv'
  BY NextCalm
<1> QED
  BY <1>1, <1>2, OwnInvariant, PassInvariant, TickInvariant, PTL DEF Spec

\* As long as no call fails and no process dies, a row never claims a version that its
\* task does not have, however the source and people change things in the middle of a
\* pass.  (Both conditions are needed: run dropped_op breaks it with failed calls alone,
\* and run crash_loses_edit with a crash alone, by an edit between the POST of a create
\* and the pass that resumes it and adopts the task with its old text.)
THEOREM Faithful == ASSUME Calm PROVE Spec => []FingerprintFaithful
<1>1. PassInv /\ CalmInv => FingerprintFaithful
  <2> SUFFICES ASSUME PassInv, CalmInv, pc = "idle", NEW h \in Homework,
                      Listed(tasks, rows[h].task).live
               PROVE  Listed(tasks, rows[h].task).content \in {rows[h].fp, Foreign}
    BY DEF FingerprintFaithful
  <2>1. plan[h] = <<>>
    BY DEF PassInv, PlanInOrder
  <2>2. rows[h].task # None /\ Listed(tasks, rows[h].task) = tasks[rows[h].task]
    BY DEF Listed, NoTask
  <2> QED
    BY <2>1, <2>2 DEF CalmInv, RowsFaithful, PatchIn
<1> QED
  BY <1>1, PassInvariant, CalmInvariant, PTL
===============================================================================
