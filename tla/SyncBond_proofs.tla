---------------------------- MODULE SyncBond_proofs ----------------------------
(***************************************************************************)
(* The engine implements TaskBond, for any homework, versions, task ids,   *)
(* configuration and bounds, with a Vikunja that keeps markers, commits no *)
(* POST after its time-out and does not hide a task from a create that     *)
(* looks for its marker.                                                   *)
(***************************************************************************)
EXTENDS SyncTask_proofs

\* A homework's task is the live one, and its bond is what the row says of it.
BondAsRow ==
  \A h \in Homework :
    /\ LiveOf(h) = {} => TaskOf(h) = None /\ BondOf(h) \in {"free", "owed"}
    /\ \A t \in LiveOf(h) : /\ LiveOf(h) = {t} /\ TaskOf(h) = t /\ t # None
                            /\ BondOf(h) = "free" => h \in lost
                            /\ rows[h].task = t => BondOf(h) = "bound"
                            /\ BondOf(h) = "bound" => rows[h].task = t

\* The mapping makes sense where the invariants hold.
LEMMA BondKnown ==
  ASSUME OwnInv, OneInv
  PROVE  BondAsRow
<1> SUFFICES ASSUME NEW h \in Homework
             PROVE  /\ LiveOf(h) = {} => TaskOf(h) = None /\ BondOf(h) \in {"free", "owed"}
                    /\ \A t \in LiveOf(h) :
                         /\ LiveOf(h) = {t} /\ TaskOf(h) = t /\ t # None
                         /\ BondOf(h) = "free" => h \in lost
                         /\ rows[h].task = t => BondOf(h) = "bound"
                         /\ BondOf(h) = "bound" => rows[h].task = t
  BY DEF BondAsRow
<1>1. \A t \in TaskId : rows[h].task = t /\ tasks[t].live => t \in LiveOf(h)
  BY NoneIsNoTask DEF OwnInv, RowsLead, RowLeads, Leads, LiveOf
<1>2. LiveOf(h) = {} => TaskOf(h) = None /\ BondOf(h) \in {"free", "owed"}
  BY <1>1 DEF TaskOf, BondOf
<1>3. ASSUME NEW t \in LiveOf(h)
      PROVE  /\ LiveOf(h) = {t} /\ TaskOf(h) = t /\ t # None
             /\ BondOf(h) = "free" => h \in lost
             /\ rows[h].task = t => BondOf(h) = "bound"
             /\ BondOf(h) = "bound" => rows[h].task = t
  <2>1. t \in TaskId /\ tasks[t].live
    BY DEF LiveOf
  <2>2. LiveOf(h) = {t}
    BY OnlyTask DEF OneInv
  <2>3. rows[h].task = t \/ (rows[h].task = None /\ (rows[h].state \in Pending \/ h \in lost))
    BY DEF OneInv, RowKnows
  <2> QED
    BY <1>1, <2>1, <2>2, <2>3, NoneIsNoTask DEF TaskOf, BondOf
<1> QED
  BY <1>2, <1>3

\* A step leaves a homework's tasks or takes them, or it gives the first task to a
\* homework whose row is pending and stays so.
LEMMA TasksMove ==
  ASSUME Reliable, OwnInv, PassInv, OneInv, Next
  PROVE  /\ posted' \in {posted, posted + 1}
         /\ \A h \in Homework :
              \/ LiveOf(h)' \subseteq LiveOf(h)
              \/ /\ LiveOf(h) = {} /\ LiveOf(h)' \subseteq {posted + 1} /\ posted' = posted + 1
                 /\ BondOf(h) = "owed" /\ BondOf(h)' = "owed"
<1>1. CASE UNCHANGED <<tasks, posted>>
  BY <1>1 DEF LiveOf
<1>2. CASE Environment
  <2>1. ~LateCommit
    BY DEF LateCommit, OneInv, TasksMarked
  <2>2. UNCHANGED posted
    BY <1>2, <2>1 DEF Environment, TeacherEdits, DoneToggles, Moves, Teacher, PersonDeletes,
                      PersonTicks, PersonEdits, Person
  <2>3. TasksShrink
    BY <1>2, EnvironmentShrinks
  <2> QED
    BY <2>2, <2>3 DEF TasksShrink, LiveOf
<1>3. CASE TaskCall \/ (CallFails /\ pc \in TaskCalls /\ tasks' = Effect /\ UNCHANGED posted)
  <2>1. TasksShrink /\ UNCHANGED posted
    BY <1>3, CallShrinks DEF Reliable, TaskCall, CallFails
  <2> QED
    BY <2>1 DEF TasksShrink, LiveOf
<1>4. CASE /\ Post \/ CallFails
           /\ pc = "post" /\ posted < MaxTasks /\ tasks' = Effect /\ posted' = posted + 1
  <2>1. PICK h : h = job.h
    OBVIOUS
  <2>2. AtCall /\ UNCHANGED <<inflight, todo, deny>>
    BY <1>4 DEF Post, CallFails, Reliable, pass, AtCall
  <2>3. /\ \A g : g # h => LiveOf(g)' \subseteq LiveOf(g)
        /\ LiveOf(h)' \subseteq {posted + 1}
    BY <1>4, <2>1, <2>2, PostMakesOne DEF Reliable
  <2>4. /\ LiveOf(h) = {} /\ rows[h].task = None /\ rows[h].state \in Pending
        /\ h \in Homework /\ rows \in [Homework -> Row]
    BY <1>4, <2>1, <2>2, CallFacts DEF OneInv, JobKnows
  <2>5. rows'[h].task = None /\ rows'[h].state \in Pending
    <3>1. CASE UNCHANGED rows
      BY <2>4, <3>1
    <3>2. CASE rows' = [rows EXCEPT ![h] = DeferredRow(RowNow, job.op, job.item)]
      <4>1. rows'[h] = DeferredRow(rows[h], job.op, job.item) /\ rows[h].state # "absent"
        BY <2>1, <2>4, <3>2 DEF RowNow, Pending
      <4> QED
        BY <2>4, <4>1 DEF DeferredRow, Row, Pending
    <3> QED
      BY <1>4, <2>1, <3>1, <3>2 DEF Post, CallFails, RetryOrDefer, store
  <2>6. BondOf(h) = "owed" /\ BondOf(h)' = "owed"
    BY <2>4, <2>5, NoneIsNoTask DEF BondOf
  <2> QED
    BY <1>4, <2>3, <2>4, <2>6
<1>5. CASE StripDuplicate
  BY <1>5 DEF StripDuplicate, OneInv, TasksMarked
<1>6. CASE Progress
  BY <1>1, <1>3, <1>4, <1>5, <1>6
  DEF Progress, StartPass, ListTasks, SyncStore, FetchWindow, Fetch, Diff, DiffDeferredOnly,
      LocalStep, BeginStep, StepWithoutTask, FindById, FindAnchor, WriteIntent, Post, SaveId,
      StoreResult, TaskGone, FinishPass, world
<1>7. CASE Failure
  BY <1>1, <1>3, <1>4, <1>7
  DEF Failure, Crash, AbortPass, FetchTruncated, FetchLoginOnly, Fetch, StrayGone, CallFails,
      Reliable, world
<1> QED
  BY <1>2, <1>6, <1>7 DEF Next

\* What Vikunja has misled the engine about is in doubt until reconciliation finds its task.
LEMMA DoubtLasts ==
  ASSUME OwnInv, OneInv, Next
  PROVE  /\ lost' \subseteq Homework
         /\ \A h \in Homework : \A t \in LiveOf(h) :
              h \in lost => h \in lost' \/ rows'[h].task = t
<1>1. lost \subseteq Homework
  BY DEF OneInv, RowKnows
<1>2. CASE UNCHANGED lost
  BY <1>1, <1>2
<1>3. CASE SyncStore
  <2>1. lost' \subseteq Homework
    BY <1>3 DEF SyncStore, OneInv, TasksMarked
  <2> QED
    BY <1>3, <2>1, SyncLeads
<1>4. CASE StrayGone
  <2>1. job.h \in Homework
    BY <1>4 DEF StrayGone, OwnInv, JobFits, AtCall
  <2> QED
    BY <1>1, <1>4, <2>1 DEF StrayGone
<1> QED
  BY <1>2, <1>3, <1>4
  DEF Next, Environment, TeacherEdits, DoneToggles, Moves, Teacher, PersonDeletes, PersonTicks,
      PersonEdits, Person, LateCommit, Progress, StartPass, ListTasks, StripDuplicate,
      FetchWindow, FetchTruncated, FetchLoginOnly, Fetch, Diff, DiffDeferredOnly, LocalStep,
      BeginStep, StepWithoutTask, FindById, FindAnchor, WriteIntent, Post, SaveId, TaskCall,
      StoreResult, TaskGone, FinishPass, Failure, Crash, AbortPass, CallFails, store

---------------------------------------------------------------------------
(* The refinement.                                                         *)

\* At first nothing is given, owed or bound.
LEMMA InitBonds ==
  ASSUME Init
  PROVE  Bonds!Init
<1>1. \A h \in Homework : TaskOf(h) = None /\ BondOf(h) = "free"
  BY DEF Init, TaskOf, BondOf, LiveOf, NoTask, NoRow, Pending
<1> QED
  BY <1>1 DEF Init, Bonds!Init

\* For each homework a step is one of TaskBond's.
LEMMA NextBonds ==
  ASSUME Reliable, OwnInv, PassInv, OneInv, BondAsRow, BondAsRow', Next
  PROVE  Bonds!Next
<1>1. ASSUME NEW h \in Homework
      PROVE  \/ Bonds!Record(h) \/ Bonds!Create(h) \/ Bonds!Bind(h)
             \/ Bonds!Lose(h) \/ Bonds!Forget(h) \/ Bonds!Stay(h)
  <2>1. /\ LiveOf(h) = {} => TaskOf(h) = None /\ BondOf(h) \in {"free", "owed"}
        /\ \A t \in LiveOf(h) : /\ LiveOf(h) = {t} /\ TaskOf(h) = t /\ t # None
                                /\ BondOf(h) = "free" => h \in lost
                                /\ BondOf(h) = "bound" => rows[h].task = t
    BY DEF BondAsRow
  <2>2. /\ LiveOf(h)' = {} => TaskOf(h)' = None /\ BondOf(h)' \in {"free", "owed"}
        /\ \A t \in LiveOf(h)' : /\ LiveOf(h)' = {t} /\ TaskOf(h)' = t /\ t # None
                                 /\ BondOf(h)' = "free" => h \in lost'
                                 /\ rows'[h].task = t => BondOf(h)' = "bound"
    BY DEF BondAsRow
  <2>3. \/ LiveOf(h)' \subseteq LiveOf(h)
        \/ /\ LiveOf(h) = {} /\ LiveOf(h)' \subseteq {posted + 1} /\ posted' = posted + 1
           /\ BondOf(h) = "owed" /\ BondOf(h)' = "owed"
    BY TasksMove
  <2>4. CASE LiveOf(h) = {} /\ LiveOf(h)' = {}
    BY <2>1, <2>2, <2>4 DEF Bonds!Record
  <2>5. CASE LiveOf(h) = {} /\ LiveOf(h)' # {}
    BY <2>1, <2>2, <2>3, <2>5 DEF Bonds!Create
  <2>6. CASE LiveOf(h) # {} /\ LiveOf(h)' = {}
    BY <2>1, <2>2, <2>6 DEF Bonds!Lose
  <2>7. CASE LiveOf(h) # {} /\ LiveOf(h)' # {}
    <3>1. PICK t : LiveOf(h) = {t} /\ LiveOf(h)' = {t}
      BY <2>1, <2>2, <2>3, <2>7
    <3>2. TaskOf(h) = t /\ TaskOf(h)' = t /\ t # None
      BY <2>1, <2>2, <3>1
    <3>3. BondOf(h) = "bound" => BondOf(h)' = "bound" \/ h \in lost'
      <4>1. ASSUME rows[h].task = t PROVE rows'[h].task = t \/ h \in lost'
        <5>1. tasks[t].live
          BY <3>1 DEF LiveOf
        <5> QED
          BY <3>2, <4>1, <5>1, RowStays
      <4> QED
        BY <2>1, <2>2, <3>1, <4>1
    <3>4. BondOf(h) = "free" => BondOf(h)' = "bound" \/ h \in lost'
      BY <2>1, <2>2, <3>1, DoubtLasts
    <3>5. BondOf(h) \in {"bound", "owed", "free"} /\ BondOf(h)' \in {"bound", "owed", "free"}
      BY DEF BondOf
    <3> QED
      BY <2>1, <2>2, <3>1, <3>2, <3>3, <3>4, <3>5 DEF Bonds!Bind, Bonds!Forget, Bonds!Stay
  <2> QED
    BY <2>4, <2>5, <2>6, <2>7
<1>2. posted' \in {posted, posted + 1}
  BY TasksMove
<1>3. ASSUME NEW g \in Homework, NEW h \in Homework, Bonds!Create(g), Bonds!Create(h)
      PROVE  g = h
  <2>1. TaskOf(g)' = posted + 1 /\ TaskOf(h)' = posted + 1 /\ posted + 1 # None
    BY <1>3, NoneIsNoTask DEF Bonds!Create, OwnInv, TypeOK, None
  <2>2. posted + 1 \in LiveOf(g)' /\ posted + 1 \in LiveOf(h)'
    BY <2>1 DEF BondAsRow
  <2> QED
    BY <2>2 DEF LiveOf
<1>4. lost' \subseteq Homework
  BY DoubtLasts
<1> QED
  BY <1>1, <1>2, <1>3, <1>4 DEF Bonds!Next

\* The engine implements TaskBond: whatever is lost, retried, cut off by a crash, deleted
\* or reconciled, a task is created only where one is owed and none is there, and it stays
\* known until it is gone or Vikunja says so by a 404 or by a list that lacks it.
THEOREM EngineKeepsBonds == ASSUME Reliable PROVE Spec => KeepsBonds
<1>1. Init => Bonds!Init
  BY InitBonds
<1>2. OwnInv /\ OneInv => BondAsRow
  BY BondKnown
<1>3. OwnInv /\ PassInv /\ OneInv /\ BondAsRow /\ BondAsRow' /\ [Next]_vars
        => [Bonds!Next]_(Bonds!vars)
  <2>1. ASSUME UNCHANGED vars PROVE UNCHANGED Bonds!vars
    BY <2>1 DEF vars, world, store, Bonds!vars, TaskOf, BondOf, LiveOf
  <2> QED
    BY <2>1, NextBonds
<1> QED
  BY <1>1, <1>2, <1>3, OwnInvariant, PassInvariant, OneInvariant, PTL
  DEF Spec, KeepsBonds, Bonds!Spec
===============================================================================
