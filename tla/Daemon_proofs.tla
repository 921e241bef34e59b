---------------------------- MODULE Daemon_proofs -----------------------------
(***************************************************************************)
(* For any cadence, longest run and number of faults: the heartbeat never  *)
(* claims a fetch that was not made, no run sets it back, and the project  *)
(* is created once.                                                        *)
(***************************************************************************)
EXTENDS Daemon, TLAPS

\* An age stays an age, grows by one at most, and keeps its order to others.
LEMMA AgesGrow ==
  ASSUME NEW a \in Age \cup {None}
  PROVE  /\ Aged(a) \in Age \cup {None} /\ (Aged(a) = None <=> a = None)
         /\ a <= Aged(a) /\ (a # None => Aged(a) <= a + 1)
         /\ \A n \in Nat : n <= a /\ n < MaxRun => n + 1 <= Aged(a)
         /\ \A b \in Age : a # None /\ a <= b => Aged(a) <= Aged(b)
  BY DaemonAssumption DEF Age, None, Old, Aged, Older

\* The clock of a run at hand is an age.
LEMMA BoundsAreAges ==
  0 .. MaxRun \subseteq Age \cup {None} /\ 0 \in Age /\ None \in Nat /\ Age \subseteq Nat
  BY DaemonAssumption DEF Age, None, Old

---------------------------------------------------------------------------
(* The steps.                                                              *)

\* At first nobody runs.
LEMMA InitDaemon ==
  ASSUME Init
  PROVE  DaemonInv
<1>1. TypeOK
  <2>1. triggered \in BOOLEAN
    BY DEF Init
  <2>2. None \in Age \cup {None} /\ 0 \in 0 .. MaxRun /\ 0 \in 0 .. Cadence
        /\ 0 \in 0 .. MaxRun + 1 /\ 0 \in 0 .. MaxFaults /\ {0, 1} \subseteq Nat
    BY DaemonAssumption
  <2> QED
    BY <2>1, <2>2 DEF Init, TypeOK, PC
<1>2. \A p \in Proc : pc[p] = "off" /\ lock # p /\ began[p] <= took[p]
  BY DaemonAssumption DEF Init, Proc, NoProc
<1>3. AskedToHeartbeat
  BY DEF Init, AskedToHeartbeat
<1> QED
  BY <1>1, <1>2, <1>3 DEF DaemonInv, Running, Init, OneProject

\* A tick ages the heartbeat, the clocks and the changes alike.
LEMMA TickDaemon ==
  ASSUME DaemonInv, Tick
  PROVE  DaemonInv'
<1> USE DEF DaemonInv
<1>1. TypeOK'
  <2>1. /\ took' \in [Proc -> 0 .. MaxRun] /\ began' \in [Proc -> 0 .. MaxRun]
        /\ up' \in 0 .. MaxRun + 1
    BY DaemonAssumption DEF TypeOK, Tick, Running
  <2>2. wait' \in 0 .. Cadence
    BY DaemonAssumption DEF TypeOK, Tick, Proc
  <2>3. /\ beat' \in Age \cup {None} /\ unasked' \in Age \cup {None}
        /\ missed' \in [Proc -> Age \cup {None}]
    BY AgesGrow DEF TypeOK, Tick
  <2> QED
    BY <2>1, <2>2, <2>3 DEF TypeOK, Tick
<1>2. AskedToHeartbeat'
  <2>1. beat \in Age \cup {None} /\ unasked \in Age \cup {None}
        /\ beat' = Aged(beat) /\ unasked' = Aged(unasked)
    BY DEF TypeOK, Tick
  <2> QED
    BY <2>1, AgesGrow DEF AskedToHeartbeat
<1>3. ASSUME NEW p \in Proc
      PROVE  /\ pc'[p] = "create" => projects' = 0
             /\ pc'[p] \in Running <=> lock' = p
             /\ began'[p] <= took'[p]
             /\ pc'[p] \in {"fetch", "apply"} => began'[p] <= beat'
             /\ pc'[p] = "apply" => missed'[p] = None \/ missed'[p] <= began'[p]
  <2>1. /\ began[p] \in Nat /\ took[p] \in Nat /\ began[p] <= took[p]
        /\ beat \in Age \cup {None} /\ missed[p] \in Age \cup {None}
        /\ beat' = Aged(beat) /\ missed'[p] = Aged(missed[p])
        /\ pc' = pc /\ lock' = lock /\ projects' = projects
        /\ took'[p] = IF pc[p] \in Running THEN took[p] + 1 ELSE took[p]
        /\ began'[p] = IF pc[p] \in {"fetch", "apply"} THEN began[p] + 1 ELSE began[p]
        /\ pc[p] \in Running => took[p] < MaxRun
    BY DaemonAssumption DEF TypeOK, Tick
  <2>2. pc[p] \in {"fetch", "apply"} => began[p] + 1 <= Aged(beat)
    BY <2>1, AgesGrow, DaemonAssumption DEF Running
  <2>3. missed[p] # None => Aged(missed[p]) <= missed[p] + 1 /\ missed[p] \in Nat
    BY <2>1, AgesGrow, BoundsAreAges
  <2>4. missed[p] = None => Aged(missed[p]) = None
    BY <2>1, AgesGrow
  <2>5. pc[p] = "apply" => missed'[p] = None \/ missed'[p] <= began'[p]
    <3>1. Aged(missed[p]) \in Nat
      BY <2>1, AgesGrow, BoundsAreAges
    <3> QED
      BY <2>1, <2>3, <2>4, <3>1
  <2> QED
    BY <2>1, <2>2, <2>5 DEF Running
<1> QED
  BY <1>1, <1>2, <1>3 DEF OneProject, Tick

\* A change at the source is younger than every clock.
LEMMA ChangeDaemon ==
  ASSUME DaemonInv, SourceChanges
  PROVE  DaemonInv'
<1>1. TypeOK'
  BY BoundsAreAges DEF DaemonInv, TypeOK, SourceChanges
<1>2. AskedToHeartbeat'
  BY BoundsAreAges DEF DaemonInv, TypeOK, SourceChanges, AskedToHeartbeat
<1>3. ASSUME NEW p \in Proc
      PROVE  /\ pc[p] = "apply" => missed'[p] = None \/ missed'[p] <= began[p]
             /\ UNCHANGED <<pc, lock, took, began, beat, projects>>
  <2>1. missed'[p] = IF pc[p] = "apply" /\ missed[p] = None THEN 0 ELSE missed[p]
    BY DEF SourceChanges
  <2>2. began[p] \in Nat
    BY BoundsAreAges DEF DaemonInv, TypeOK
  <2> QED
    BY <2>1, <2>2 DEF DaemonInv, SourceChanges
<1> QED
  BY <1>1, <1>2, <1>3 DEF DaemonInv, SourceChanges, OneProject

\* A process moves outside of its run.
LEMMA LoopDaemon ==
  ASSUME DaemonInv, DaemonStep \/ Signal \/ CronStarts
  PROVE  DaemonInv'
<1>1. TypeOK'
  <2>1. triggered' \in BOOLEAN
    BY DEF DaemonInv, TypeOK, DaemonStep, Start, LoopTest, WakeUp, Signal, CronStarts
  <2>2. /\ pc' \in [Proc -> PC] /\ up' \in 0 .. MaxRun + 1
        /\ UNCHANGED <<lock, took, began, wait, beat, unasked, missed, faults, projects>>
    BY DaemonAssumption
    DEF DaemonInv, TypeOK, DaemonStep, Start, LoopTest, WakeUp, Signal, CronStarts, At, PC, run, world
  <2> QED
    BY <2>1, <2>2 DEF DaemonInv, TypeOK
<1> QED
  BY <1>1, DaemonAssumption
  DEF DaemonInv, TypeOK, DaemonStep, Start, LoopTest, WakeUp, Signal, CronStarts, At, run,
      world, Running, AskedToHeartbeat, OneProject, Proc, PC

\* A run goes on under the lock, with the project that it finds or creates and the clock
\* that it reads.
LEMMA RunDaemon ==
  ASSUME DaemonInv, NEW p \in Proc,
         FindProject(p) \/ CreateProject(p) \/ BeginPass(p) \/ Fetch(p)
  PROVE  DaemonInv'
<1>1. TypeOK'
  BY DaemonAssumption, BoundsAreAges
  DEF DaemonInv, TypeOK, FindProject, CreateProject, BeginPass, Fetch, At, PC, run, world
<1>2. beat \in Nat /\ projects \in Nat
  BY BoundsAreAges DEF DaemonInv, TypeOK
<1>3. \A q \in Proc \ {p} : pc'[q] = pc[q] /\ pc[q] # "create"
  BY DEF DaemonInv, TypeOK, FindProject, CreateProject, BeginPass, Fetch, At, Running
<1>4. CASE FindProject(p) \/ CreateProject(p)
  BY <1>1, <1>2, <1>3, <1>4, DaemonAssumption
  DEF DaemonInv, TypeOK, FindProject, CreateProject, At, run, world, Running,
      AskedToHeartbeat, OneProject
<1>5. CASE BeginPass(p) \/ Fetch(p)
  BY <1>1, <1>2, <1>3, <1>5, DaemonAssumption
  DEF DaemonInv, TypeOK, BeginPass, Fetch, At, world, Running, AskedToHeartbeat, OneProject
<1> QED
  BY <1>4, <1>5

\* A run ends, and gives up the lock if it has it; the heartbeat is that of its clock or
\* stays as it is.
LEMMA EndDaemon ==
  ASSUME DaemonInv, NEW p \in Proc,
         At(p, IF p = Loop THEN "asleep" ELSE "off") \/ At(p, "off"),
         took' = [took EXCEPT ![p] = 0], began' = [began EXCEPT ![p] = 0],
         missed' = [missed EXCEPT ![p] = None],
         lock' = IF lock = p THEN NoProc ELSE lock,
         wait' \in 0 .. Cadence, faults' \in 0 .. MaxFaults, UNCHANGED <<triggered, up>>,
         PerhapsCreated(p),
         \/ UNCHANGED <<beat, unasked>>
         \/ pc[p] = "apply" /\ beat' = began[p] /\ unasked' = missed[p]
  PROVE  DaemonInv'
<1> USE DEF DaemonInv
<1>1. beat' \in Age \cup {None} /\ unasked' \in Age \cup {None} /\ None \in Age \cup {None}
  BY BoundsAreAges DEF TypeOK
<1>2. TypeOK'
  BY <1>1, DaemonAssumption DEF TypeOK, At, PC, PerhapsCreated
<1>3. AskedToHeartbeat'
  BY DEF AskedToHeartbeat
<1>4. ASSUME NEW q \in Proc
      PROVE  /\ pc'[q] = "create" => projects' = 0
             /\ pc'[q] \in Running <=> lock' = q
             /\ began'[q] <= took'[q]
             /\ pc'[q] \in {"fetch", "apply"} => began'[q] <= beat'
             /\ pc'[q] = "apply" => missed'[q] = None \/ missed'[q] <= began'[q]
  <2>1. CASE q = p
    BY <2>1, DaemonAssumption DEF TypeOK, At, Running, Proc, NoProc
  <2>2. CASE q # p
    <3>1. pc'[q] = pc[q] /\ took'[q] = took[q] /\ began'[q] = began[q] /\ missed'[q] = missed[q]
      BY <2>2 DEF TypeOK, At
    <3>2. pc[q] \in Running <=> lock' = q
      BY <2>2, DaemonAssumption DEF Proc, NoProc
    <3>3. pc[q] \in {"fetch", "apply"} => UNCHANGED beat
      BY <2>2 DEF Running
    <3>4. pc[q] = "create" => UNCHANGED projects
      BY <2>2 DEF Running, PerhapsCreated
    <3> QED
      BY <3>1, <3>2, <3>3, <3>4
  <2> QED
    BY <2>1, <2>2
<1>5. OneProject'
  BY DEF OneProject, PerhapsCreated
<1> QED
  BY <1>2, <1>3, <1>4, <1>5

\* A run that finds the lock free takes it; one that finds it held is over.
LEMMA AcquireDaemon ==
  ASSUME DaemonInv, NEW p \in Proc, Acquire(p)
  PROVE  DaemonInv'
<1>1. pc[p] = "lock" /\ lock # p /\ p # NoProc
  BY DaemonAssumption DEF DaemonInv, Acquire, Running, Proc, NoProc
<1>2. CASE lock # NoProc
  <2>1. Return(p) /\ UNCHANGED <<lock, triggered, world, faults, up>>
    BY <1>2 DEF Acquire
  <2>2. wait' \in 0 .. Cadence /\ faults' \in 0 .. MaxFaults
    BY <2>1, DaemonAssumption DEF Return, DaemonInv, TypeOK
  <2> QED
    BY <1>1, <2>1, <2>2, EndDaemon DEF Return, world, PerhapsCreated
<1>3. CASE lock = NoProc
  <2>1. lock' = p /\ pc' = [pc EXCEPT ![p] = "project"]
        /\ UNCHANGED <<took, began, missed, wait, triggered, beat, unasked, projects, faults, up>>
    BY <1>3 DEF Acquire, At, run, world
  <2>2. TypeOK'
    BY <2>1 DEF DaemonInv, TypeOK, PC
  <2>3. ASSUME NEW q \in Proc
        PROVE  /\ pc'[q] \in Running <=> lock' = q
               /\ pc'[q] \in {"create", "fetch", "apply"} => pc'[q] = pc[q]
    BY <1>3, <2>1, DaemonAssumption DEF DaemonInv, TypeOK, Running, Proc, NoProc
  <2> QED
    BY <2>1, <2>2, <2>3 DEF DaemonInv, AskedToHeartbeat, OneProject
<1> QED
  BY <1>2, <1>3

\* A run that is through, one that fails, and a process that dies.
LEMMA OverDaemon ==
  ASSUME DaemonInv, NEW p \in Proc, Finish(p) \/ Fails(p) \/ Dies(p)
  PROVE  DaemonInv'
<1>1. pc[p] \in Running => lock = p
  BY DEF DaemonInv
<1>2. wait' \in 0 .. Cadence /\ faults' \in 0 .. MaxFaults
  BY DaemonAssumption DEF Finish, Fails, Dies, Return, DaemonInv, TypeOK
<1>3. CASE Finish(p)
  BY <1>1, <1>2, <1>3, EndDaemon DEF Finish, Return, Stamp, Running, PerhapsCreated
<1>4. CASE Fails(p)
  BY <1>1, <1>2, <1>4, EndDaemon DEF Fails, Return
<1>5. CASE Dies(p)
  BY <1>2, <1>5, EndDaemon DEF Dies
<1> QED
  BY <1>3, <1>4, <1>5

LEMMA NextDaemon ==
  ASSUME DaemonInv, [Next]_vars
  PROVE  DaemonInv'
<1>1. CASE UNCHANGED vars
  BY <1>1 DEF vars, world, DaemonInv, TypeOK, AskedToHeartbeat, OneProject
<1>2. CASE Tick
  BY <1>2, TickDaemon
<1>3. CASE SourceChanges
  BY <1>3, ChangeDaemon
<1>4. CASE DaemonStep \/ Signal \/ CronStarts
  BY <1>4, LoopDaemon
<1>5. ASSUME NEW p \in Proc, RunStep(p) \/ Fails(p) \/ Dies(p)
      PROVE  DaemonInv'
  BY <1>5, AcquireDaemon, RunDaemon, OverDaemon DEF RunStep
<1> QED
  BY <1>1, <1>2, <1>3, <1>4, <1>5 DEF Next

---------------------------------------------------------------------------
(* The daemon that runs without a fault.                                   *)

\* How long ago the daemon's turn began: the run at hand, or the one before its sleep.
SinceTurn ==
  IF pc[Loop] = "asleep" THEN Cadence - wait
  ELSE IF pc[Loop] \in Running THEN took[Loop]
  ELSE 0

\* When a turn comes, the last heartbeat is at most a cadence and a run old, but in the
\* daemon's first turn, when there may be none.
BeatBeforeTurn == beat <= MaxRun + Cadence + SinceTurn \/ up <= SinceTurn

\* A turn that is over left a heartbeat of its own, or was skipped for a run that has
\* the lock since before and still leaves one.
BeatAfterTurn ==
  \/ beat <= MaxRun + SinceTurn
  \/ pc[Cron] \in Running /\ SinceTurn <= took[Cron] /\ BeatBeforeTurn

\* The invariant behind NoFalseAlarm.
Punctual ==
  2 * MaxRun <= Cadence /\ faults = 0 /\ ~triggered /\ pc[Loop] # "off"
    => IF pc[Loop] = "asleep" THEN BeatAfterTurn ELSE BeatBeforeTurn

\* Before any daemon there is none to be late.
LEMMA InitPunctual ==
  ASSUME Init
  PROVE  Punctual
  BY DaemonAssumption DEF Init, Punctual, Proc

\* In a tick the turn, the run that has the lock and the heartbeat grow old together.
LEMMA TickPunctual ==
  ASSUME DaemonInv, Punctual, Tick
  PROVE  Punctual'
<1> SUFFICES ASSUME 2 * MaxRun <= Cadence, faults = 0, ~triggered, pc[Loop] # "off"
             PROVE  IF pc[Loop] = "asleep" THEN BeatAfterTurn' ELSE BeatBeforeTurn'
  BY DEF Punctual, Tick
<1>1. pc' = pc /\ pc[Loop] \notin Instant /\ Loop \in Proc /\ Cron \in Proc
  BY DEF Tick, Proc
<1>2. beat \in Nat /\ beat' \in Nat /\ beat' <= beat + 1
  <2>1. beat \in Age \cup {None} /\ beat' = Aged(beat)
    BY DEF DaemonInv, TypeOK, Tick
  <2> QED
    BY <2>1, BoundsAreAges, DaemonAssumption DEF Aged, Older
<1>3. up \in Nat /\ up' \in Nat /\ up' <= up + 1
  BY DaemonAssumption DEF DaemonInv, TypeOK, Tick
<1>4. took[Cron] \in Nat /\ (pc[Cron] \in Running => took'[Cron] = took[Cron] + 1)
  BY <1>1, DaemonAssumption DEF DaemonInv, TypeOK, Tick
<1>5. pc[Loop] = "asleep" \/ pc[Loop] \in Running
  BY <1>1 DEF DaemonInv, TypeOK, PC, Instant, Running
<1>6. SinceTurn \in Nat /\ SinceTurn' = SinceTurn + 1
  <2>1. wait \in 0 .. Cadence /\ took[Loop] \in Nat
    BY <1>1, DaemonAssumption DEF DaemonInv, TypeOK
  <2>2. CASE pc[Loop] = "asleep"
    BY <1>1, <2>1, <2>2, DaemonAssumption DEF Tick, SinceTurn
  <2>3. CASE pc[Loop] # "asleep"
    BY <1>1, <1>5, <2>1, <2>3, DaemonAssumption DEF Tick, SinceTurn
  <2> QED
    BY <2>2, <2>3
<1>7. BeatBeforeTurn => BeatBeforeTurn'
  BY <1>2, <1>3, <1>6, DaemonAssumption DEF BeatBeforeTurn
<1>8. BeatAfterTurn => BeatAfterTurn'
  BY <1>1, <1>2, <1>4, <1>6, <1>7, DaemonAssumption DEF BeatAfterTurn
<1> QED
  BY <1>7, <1>8 DEF Punctual

\* A run that is through leaves a heartbeat that is no older than the run took.
LEMMA FinishPunctual ==
  ASSUME DaemonInv, Punctual, NEW p \in Proc, Finish(p)
  PROVE  Punctual'
<1>1. beat' \in Nat /\ beat' <= MaxRun
  BY DaemonAssumption DEF Finish, Stamp, DaemonInv, TypeOK
<1>2. SinceTurn' \in Nat
  BY DaemonAssumption
  DEF SinceTurn, Finish, Return, At, DaemonInv, TypeOK, Running, Proc
<1>3. \A n \in Nat : beat' <= MaxRun + n /\ beat' <= MaxRun + Cadence + n
  BY <1>1, DaemonAssumption
<1>4. beat' <= MaxRun + SinceTurn' /\ beat' <= MaxRun + Cadence + SinceTurn'
  BY <1>2, <1>3
<1> QED
  BY <1>4 DEF Punctual, BeatAfterTurn, BeatBeforeTurn

\* A turn comes: after a start, or after a whole sleep, in which the run of cron that
\* took the lock before has come to its end.
LEMMA LoopPunctual ==
  ASSUME DaemonInv, Punctual, DaemonStep
  PROVE  Punctual'
<1> SUFFICES ASSUME 2 * MaxRun <= Cadence, faults = 0, ~triggered', pc'[Loop] # "off"
             PROVE  IF pc'[Loop] = "asleep" THEN BeatAfterTurn' ELSE BeatBeforeTurn'
  BY DEF Punctual, DaemonStep, Start, LoopTest, WakeUp
<1>1. beat' = beat /\ beat \in Nat /\ ~triggered /\ took' = took /\ Loop \in Proc
  BY BoundsAreAges DEF DaemonStep, Start, LoopTest, WakeUp, world, run, DaemonInv, TypeOK, Proc
<1>2. CASE Start
  <2>1. pc'[Loop] = "test" /\ up' = 0
    BY <1>1, <1>2 DEF Start, At, DaemonInv, TypeOK
  <2> QED
    BY <2>1 DEF BeatBeforeTurn, SinceTurn, Running
<1>3. CASE LoopTest
  <2>1. pc[Loop] = "test" /\ pc'[Loop] = "lock" /\ up' = up
    BY <1>1, <1>3 DEF LoopTest, At, DaemonInv, TypeOK
  <2> QED
    BY <1>1, <2>1 DEF Punctual, BeatBeforeTurn, SinceTurn, Running
<1>4. CASE WakeUp
  <2>1. pc[Loop] = "asleep" /\ pc'[Loop] = "test" /\ wait = 0
    BY <1>1, <1>4 DEF WakeUp, At, DaemonInv, TypeOK
  <2>2. BeatAfterTurn /\ SinceTurn = Cadence
    BY <1>1, <2>1, DaemonAssumption DEF Punctual, SinceTurn
  <2>3. took[Cron] <= MaxRun /\ took[Cron] \in Nat
    BY DaemonAssumption DEF DaemonInv, TypeOK, Proc
  <2>4. beat <= MaxRun + Cadence
    BY <2>2, <2>3, DaemonAssumption DEF BeatAfterTurn
  <2> QED
    BY <1>1, <2>1, <2>4, DaemonAssumption DEF BeatBeforeTurn, SinceTurn, Running
<1> QED
  BY <1>2, <1>3, <1>4 DEF DaemonStep

\* The daemon takes the lock, or finds it with the run of cron.
LEMMA AcquirePunctual ==
  ASSUME DaemonInv, Punctual, Acquire(Loop)
  PROVE  Punctual'
<1> SUFFICES ASSUME 2 * MaxRun <= Cadence, faults = 0, ~triggered
             PROVE  IF pc'[Loop] = "asleep" THEN BeatAfterTurn' ELSE BeatBeforeTurn'
  BY DEF Punctual, Acquire
<1>1. /\ pc[Loop] = "lock" /\ Loop \in Proc /\ Cron \in Proc /\ Cron # Loop
      /\ UNCHANGED <<beat, up>> /\ took[Cron] \in Nat
  BY DaemonAssumption DEF Acquire, world, Proc, DaemonInv, TypeOK
<1>2. BeatBeforeTurn /\ SinceTurn = 0
  BY <1>1 DEF Punctual, SinceTurn, Running
<1>3. CASE lock = NoProc
  <2>1. pc'[Loop] = "project" /\ took'[Loop] = took[Loop] /\ took[Loop] \in Nat
    BY <1>1, <1>3, DaemonAssumption DEF Acquire, At, DaemonInv, TypeOK, run
  <2>2. SinceTurn' = took[Loop]
    BY <2>1 DEF SinceTurn, Running
  <2>3. beat \in Nat /\ up \in Nat
    BY BoundsAreAges, DaemonAssumption DEF DaemonInv, TypeOK
  <2> QED
    BY <1>1, <1>2, <2>1, <2>2, <2>3, DaemonAssumption DEF BeatBeforeTurn
<1>4. CASE lock # NoProc
  <2>1. pc[Cron] \in Running
    BY <1>1, <1>4 DEF DaemonInv, TypeOK, Proc, Running
  <2>2. /\ pc' = [pc EXCEPT ![Loop] = "asleep"] /\ wait' = Cadence
        /\ took' = [took EXCEPT ![Loop] = 0]
    BY <1>4 DEF Acquire, Return, At
  <2>3. pc'[Loop] = "asleep" /\ pc'[Cron] = pc[Cron] /\ took'[Cron] = took[Cron]
    BY <1>1, <2>2 DEF DaemonInv, TypeOK
  <2>4. SinceTurn' = 0
    BY <2>2, <2>3, DaemonAssumption DEF SinceTurn
  <2> QED
    BY <1>1, <1>2, <2>1, <2>3, <2>4 DEF BeatBeforeTurn, BeatAfterTurn
<1> QED
  BY <1>3, <1>4

\* What the daemon's turn depends on, the other steps leave as it is.
LEMMA ElsePunctual ==
  ASSUME DaemonInv, Punctual, UNCHANGED <<beat, up, wait, faults>>,
         (pc'[Loop] = pc[Loop]) \/ (pc[Loop] \in Running /\ pc'[Loop] \in Running),
         took'[Loop] = took[Loop], triggered => triggered',
         pc[Cron] \in Running =>
           pc'[Cron] \in Running /\ took'[Cron] = took[Cron]
  PROVE  Punctual'
<1>1. SinceTurn' = SinceTurn
  BY DEF SinceTurn, Running
<1>2. BeatBeforeTurn' = BeatBeforeTurn /\ (BeatAfterTurn => BeatAfterTurn')
  BY <1>1 DEF BeatBeforeTurn, BeatAfterTurn
<1> QED
  BY <1>2 DEF Punctual, Running

LEMMA NextPunctual ==
  ASSUME DaemonInv, Punctual, [Next]_vars
  PROVE  Punctual'
<1>1. Loop \in Proc /\ Cron \in Proc /\ Cron # Loop /\ faults \in Nat
  BY DaemonAssumption DEF Proc, DaemonInv, TypeOK
<1>2. CASE UNCHANGED vars \/ SourceChanges \/ Signal \/ CronStarts
  <2>1. /\ UNCHANGED <<beat, up, wait, faults, took>> /\ (triggered => triggered')
        /\ pc'[Loop] = pc[Loop] /\ (pc[Cron] \in Running => pc'[Cron] = pc[Cron])
    BY <1>1, <1>2
    DEF vars, world, run, SourceChanges, Signal, CronStarts, At, DaemonInv, TypeOK, Running
  <2> QED
    BY <2>1, ElsePunctual
<1>3. CASE \E p \in Proc : FindProject(p) \/ CreateProject(p) \/ BeginPass(p) \/ Fetch(p)
  <2>1. PICK p \in Proc : FindProject(p) \/ CreateProject(p) \/ BeginPass(p) \/ Fetch(p)
    BY <1>3
  <2>2. /\ UNCHANGED <<beat, up, wait, faults, took, triggered>>
        /\ pc[p] \in Running /\ pc'[p] \in Running
        /\ \A q \in Proc : q # p => pc'[q] = pc[q]
    BY <2>1
    DEF FindProject, CreateProject, BeginPass, Fetch, world, run, At, DaemonInv, TypeOK,
        Running
  <2> QED
    BY <1>1, <2>1, <2>2, ElsePunctual
<1>4. CASE Acquire(Cron)
  <2>1. pc[Cron] = "lock" /\ UNCHANGED <<beat, up, wait, faults, triggered>>
        /\ pc'[Loop] = pc[Loop] /\ took'[Loop] = took[Loop]
    BY <1>1, <1>4 DEF Acquire, Return, At, run, world, DaemonInv, TypeOK
  <2> QED
    BY <2>1, ElsePunctual DEF Running
<1>5. CASE \E p \in Proc : Fails(p) \/ Dies(p)
  BY <1>1, <1>5 DEF Fails, Dies, Punctual
<1> QED
  BY <1>2, <1>3, <1>4, <1>5, TickPunctual, FinishPunctual, LoopPunctual, AcquirePunctual
  DEF Next, RunStep, Proc

---------------------------------------------------------------------------
(* The theorems.                                                           *)

\* Who runs holds the lock and has read the clock since, before it fetched: what has
\* changed since the fetch is younger than that clock.
THEOREM DaemonInvariant == Spec => []DaemonInv
<1> QED
  BY InitDaemon, NextDaemon, PTL DEF Spec

\* Each variable has its type, whatever the cadence and the longest run.
THEOREM TypeCorrect == Spec => []TypeOK
<1>1. DaemonInv => TypeOK
  BY DEF DaemonInv
<1> QED
  BY <1>1, DaemonInvariant, PTL

\* A change after which no stamped pass has asked the source is younger than the heartbeat,
\* whenever the source changes and whichever run fails or is killed.
THEOREM AskedBeforeStamp == Spec => []AskedToHeartbeat
<1>1. DaemonInv => AskedToHeartbeat
  BY DEF DaemonInv
<1> QED
  BY <1>1, DaemonInvariant, PTL

\* Two processes, lost answers and kills leave the account one project of the title.
THEOREM OneProjectOnly == Spec => []OneProject
<1>1. DaemonInv => OneProject
  BY DEF DaemonInv
<1> QED
  BY <1>1, DaemonInvariant, PTL

\* No run sets the heartbeat back: the run that stamps has read its clock after the
\* last one did.
THEOREM NeverBack == Spec => HeartbeatNeverBack
<1>1. ASSUME DaemonInv, [Next]_vars
      PROVE  [pc' # pc => beat' <= beat]_vars
  <2>1. beat \in Nat
    BY <1>1, BoundsAreAges DEF DaemonInv, TypeOK
  <2>2. CASE \E p \in Proc : Finish(p)
    BY <1>1, <2>2 DEF DaemonInv, Finish, Stamp
  <2>3. CASE ~\E p \in Proc : Finish(p)
    <3>1. pc' = pc \/ UNCHANGED beat
      BY <1>1, <2>3
      DEF Next, vars, world, run, FindProject, CreateProject, Tick, SourceChanges, DaemonStep, Start, LoopTest, WakeUp, Signal,
          CronStarts, RunStep, Acquire, BeginPass, Fetch, Fails, Dies
    <3> QED
      BY <2>1, <3>1
  <2> QED
    BY <2>2, <2>3
<1> QED
  BY <1>1, DaemonInvariant, PTL DEF Spec, HeartbeatNeverBack

\* The daemon that runs without a fault is never called dead: between two of its turns
\* lies a cadence, and a turn that it loses to a cron job is one in which cron stamps.
THEOREM AlarmIsTrue == Spec => []NoFalseAlarm
<1>1. ASSUME DaemonInv, Punctual PROVE NoFalseAlarm
  <2> SUFFICES ASSUME 2 * MaxRun <= Cadence, faults = 0, ~triggered, pc[Loop] # "off",
                      up > MaxRun
               PROVE  beat <= 2 * Cadence
    BY DEF NoFalseAlarm, Fresh
  <2>1. beat \in Nat /\ up \in Nat /\ took[Cron] \in 0 .. MaxRun /\ took[Loop] \in 0 .. MaxRun
        /\ wait \in 0 .. Cadence
    BY <1>1, BoundsAreAges, DaemonAssumption DEF DaemonInv, TypeOK, Proc
  <2>2. CASE pc[Loop] = "asleep"
    BY <1>1, <2>1, <2>2, DaemonAssumption
    DEF Punctual, BeatAfterTurn, BeatBeforeTurn, SinceTurn
  <2>3. CASE pc[Loop] # "asleep"
    BY <1>1, <2>1, <2>3, DaemonAssumption DEF Punctual, BeatBeforeTurn, SinceTurn
  <2> QED
    BY <2>2, <2>3
<1>2. Init => Punctual
  BY InitPunctual
<1>3. DaemonInv /\ Punctual /\ [Next]_vars => Punctual'
  BY NextPunctual
<1> QED
  BY <1>1, <1>2, <1>3, DaemonInvariant, PTL DEF Spec
===============================================================================
