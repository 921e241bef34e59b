------------------------------- MODULE Daemon --------------------------------
(***************************************************************************)
(* The processes around a pass: the daemon loop, a `run --once` of cron    *)
(* (or of seed-session, once it has validated the cookie), and `check`,    *)
(* which calls the heartbeat fresh or not.                                 *)
(*                                                                         *)
(* Time passes in ticks and is kept as ages, which stop counting at `Old`. *)
(* A process does what needs no time at once; a run takes at most MaxRun   *)
(* ticks, since every request has a time-out and every retry a bound.  The *)
(* run lock is a mutex (module RunLock shows that it is one).              *)
(*                                                                         *)
(* The Vikunja project is configured by its title and is created if it is  *)
(* missing; Vikunja commits no POST after its time-out.                    *)
(***************************************************************************)
EXTENDS Naturals

CONSTANTS
  Cadence,     \* config sync.cadence_minutes, in ticks
  MaxRun,      \* the longest run, in ticks
  MaxFaults,   \* bound: runs that fail, and kills
  Cron, Loop   \* the two processes

ASSUME DaemonAssumption ==
  /\ Cadence \in Nat \ {0} /\ MaxRun \in Nat \ {0} /\ MaxFaults \in Nat
  /\ Cron # Loop /\ "nobody" \notin {Cron, Loop}

Proc == {Cron, Loop}
NoProc == "nobody"
Old == 2 * Cadence + MaxRun + 1      \* an age that is no longer told from greater ones
Age == 0 .. Old
None == Old + 1                      \* nothing has this age: no change, no heartbeat
Older(a) == IF a < Old THEN a + 1 ELSE a

VARIABLES
  pc,          \* where each process is
  lock,        \* who holds the run lock
  took,        \* how long the run at hand has taken
  began,       \* how long ago the run at hand read the clock: `now` of SyncEngine.run
  wait,        \* what is left of the daemon's sleep
  triggered,   \* _SignalStop.triggered
  beat,        \* the age of meta.last_sync_ts
  unasked,     \* the age of the oldest change at the source since which no stamped
               \* pass has asked for the homework (history)
  missed,      \* the same, counting from the fetch of the run at hand (history)
  up,          \* how long ago the daemon was started (history: only NoFalseAlarm reads it)
  projects,    \* how many projects have the configured title
  faults

world == <<unasked, beat, projects>>
vars == <<pc, lock, took, began, wait, triggered, world, missed, up, faults>>
run == <<took, began, missed>>

\* A daemon is "off" until it is started, "test" at the head of its loop, "asleep"
\* between two runs.  A run is at "lock", "project", perhaps "create", "login" and, in
\* SyncEngine.run, "fetch" and "apply".
PC == {"off", "test", "lock", "project", "create", "login", "fetch", "apply", "asleep"}
Instant == {"test", "lock"}
Running == {"project", "create", "login", "fetch", "apply"}

TypeOK ==
  /\ pc \in [Proc -> PC] /\ lock \in Proc \cup {NoProc}
  /\ took \in [Proc -> 0 .. MaxRun] /\ began \in [Proc -> 0 .. MaxRun]
  /\ wait \in 0 .. Cadence /\ triggered \in BOOLEAN
  /\ beat \in Age \cup {None} /\ unasked \in Age \cup {None}
  /\ missed \in [Proc -> Age \cup {None}] /\ up \in 0 .. MaxRun + 1 /\ faults \in 0 .. MaxFaults
  /\ projects \in Nat

Init ==
  /\ pc = [p \in Proc |-> "off"] /\ lock = NoProc
  /\ took = [p \in Proc |-> 0] /\ began = [p \in Proc |-> 0]
  /\ missed = [p \in Proc |-> None]
  /\ wait = 0 /\ triggered = FALSE /\ beat = None /\ unasked = None /\ up = 0 /\ faults = 0
  /\ projects \in {0, 1}

At(p, place) == pc' = [pc EXCEPT ![p] = place]

---------------------------------------------------------------------------
(* Time, and the source.                                                   *)

Aged(a) == IF a = None THEN None ELSE Older(a)

\* Nobody is at a place that takes no time, a run ends in time, a sleeper wakes up.
Tick ==
  /\ \A p \in Proc :
       /\ pc[p] \notin Instant
       /\ pc[p] \in Running => took[p] < MaxRun
       /\ pc[p] = "asleep" => wait > 0 /\ ~triggered
  /\ took' = [p \in Proc |-> IF pc[p] \in Running THEN took[p] + 1 ELSE took[p]]
  /\ began' = [p \in Proc |-> IF pc[p] \in {"fetch", "apply"} THEN began[p] + 1 ELSE began[p]]
  /\ wait' = IF pc[Loop] = "asleep" THEN wait - 1 ELSE wait
  /\ beat' = Aged(beat) /\ unasked' = Aged(unasked)
  /\ missed' = [p \in Proc |-> Aged(missed[p])]
  /\ up' = IF pc[Loop] = "off" \/ up > MaxRun THEN up ELSE up + 1
  /\ UNCHANGED <<pc, lock, triggered, projects, faults>>

SourceChanges ==
  /\ unasked' = IF unasked = None THEN 0 ELSE unasked
  /\ missed' = [p \in Proc |-> IF pc[p] = "apply" /\ missed[p] = None THEN 0 ELSE missed[p]]
  /\ <<unasked', missed'>> # <<unasked, missed>>
  /\ UNCHANGED <<pc, lock, took, began, wait, triggered, beat, projects, faults, up>>

---------------------------------------------------------------------------
(* _cmd_daemon and its signal handler.                                     *)

\* A start of the daemon, or a restart by the container's policy.
Start ==
  /\ pc[Loop] = "off" /\ ~triggered /\ At(Loop, "test") /\ up' = 0
  /\ UNCHANGED <<lock, run, wait, triggered, world, faults>>

Signal ==
  /\ pc[Loop] # "off" /\ ~triggered /\ triggered' = TRUE
  /\ UNCHANGED <<pc, lock, run, wait, world, faults, up>>

\* Mutated form: the loop does not look at the flag.
LoopTestForever ==
  /\ pc[Loop] = "test" /\ At(Loop, "lock")
  /\ UNCHANGED <<lock, run, wait, triggered, world, faults, up>>

LoopTest ==
  /\ pc[Loop] = "test"
  /\ At(Loop, IF triggered THEN "off" ELSE "lock")
  /\ UNCHANGED <<lock, run, wait, triggered, world, faults, up>>

\* The sleep is over, or a signal was seen between two of its short naps.
WakeUp ==
  /\ pc[Loop] = "asleep" /\ (wait = 0 \/ triggered) /\ At(Loop, "test")
  /\ UNCHANGED <<lock, run, wait, triggered, world, faults, up>>

CronStarts ==
  /\ pc[Cron] = "off" /\ At(Cron, "lock")
  /\ UNCHANGED <<lock, run, wait, triggered, world, faults, up>>

---------------------------------------------------------------------------
(* _run_once.                                                              *)

\* Mutated form: the sleep is a cadence on top of the run.
ReturnSleepsOn(p) ==
  /\ At(p, IF p = Loop THEN "asleep" ELSE "off")
  /\ wait' = IF p = Loop THEN Cadence + took[p] ELSE wait
  /\ took' = [took EXCEPT ![p] = 0] /\ began' = [began EXCEPT ![p] = 0]
  /\ missed' = [missed EXCEPT ![p] = None]

\* Back in the caller: the daemon sleeps, the short-lived process is over.
Return(p) ==
  /\ At(p, IF p = Loop THEN "asleep" ELSE "off")
  /\ wait' = IF p = Loop THEN Cadence ELSE wait
  /\ took' = [took EXCEPT ![p] = 0] /\ began' = [began EXCEPT ![p] = 0]
  /\ missed' = [missed EXCEPT ![p] = None]

\* Mutated form: without the lock two runs overlap.
AcquireAlways(p) ==
  /\ pc[p] = "lock" /\ lock' = p /\ At(p, "project") /\ UNCHANGED <<run, wait>>
  /\ UNCHANGED <<triggered, world, faults, up>>

\* The lock is free, or held by another run; then this one is skipped.
Acquire(p) ==
  /\ pc[p] = "lock"
  /\ IF lock = NoProc THEN lock' = p /\ At(p, "project") /\ UNCHANGED <<run, wait>>
                      ELSE Return(p) /\ UNCHANGED lock
  /\ UNCHANGED <<triggered, world, faults, up>>

\* ensure_project: is there a project of this title?  A run uses the first one.
FindProject(p) ==
  /\ pc[p] = "project" /\ At(p, IF projects = 0 THEN "create" ELSE "login")
  /\ UNCHANGED <<lock, run, wait, triggered, world, faults, up>>

CreateProject(p) ==
  /\ pc[p] = "create" /\ At(p, "login") /\ projects' = projects + 1
  /\ UNCHANGED <<lock, run, wait, triggered, beat, unasked, faults, up>>

\* A run that ends at the POST of a project leaves it there, or not.
PerhapsCreated(p) == projects' = projects \/ (pc[p] = "create" /\ projects' = projects + 1)

\* EduPage is connected, and SyncEngine.run reads the clock.
BeginPass(p) ==
  /\ pc[p] = "login" /\ At(p, "fetch") /\ began' = [began EXCEPT ![p] = 0]
  /\ UNCHANGED <<lock, took, missed, wait, triggered, world, faults, up>>

Fetch(p) ==
  /\ pc[p] = "fetch" /\ At(p, "apply") /\ missed' = [missed EXCEPT ![p] = None]
  /\ UNCHANGED <<lock, took, began, wait, triggered, world, faults, up>>

\* Mutated form: the heartbeat is the time at which the pass ends.
StampAtEnd(p) == 0

\* _finish_pass stamps the clock as it was read when the pass began.
Stamp(p) == began[p]

\* A pass that is through and stamps: it was the last to ask for what had changed before
\* its fetch.  Whether all of that was in the answer and has reached its tasks is the
\* matter of SyncEngine and Fetch; the heartbeat does not say so.
Finish(p) ==
  /\ pc[p] = "apply"
  /\ beat' = Stamp(p) /\ unasked' = missed[p]
  /\ lock' = NoProc /\ Return(p)
  /\ UNCHANGED <<triggered, projects, faults, up>>

\* Mutated form: a failed run keeps the lock.
FailsLocked(p) ==
  /\ pc[p] \in Running /\ faults < MaxFaults /\ faults' = faults + 1
  /\ Return(p) /\ UNCHANGED <<lock, triggered, world, up>>

\* The run ends with an exit code for an error, or with 0 although work was deferred or
\* the window was not covered: no heartbeat, and the lock is released in any case.
Fails(p) ==
  /\ pc[p] \in Running /\ faults < MaxFaults /\ faults' = faults + 1
  /\ lock' = NoProc /\ Return(p) /\ PerhapsCreated(p)
  /\ UNCHANGED <<triggered, beat, unasked, up>>

\* The process dies, by a kill or an exception that nobody handles; the kernel drops
\* its lock.
Dies(p) ==
  /\ pc[p] # "off" /\ faults < MaxFaults /\ faults' = faults + 1
  /\ lock' = IF lock = p THEN NoProc ELSE lock
  /\ At(p, "off") /\ wait' = IF p = Loop THEN 0 ELSE wait
  /\ took' = [took EXCEPT ![p] = 0] /\ began' = [began EXCEPT ![p] = 0]
  /\ missed' = [missed EXCEPT ![p] = None] /\ PerhapsCreated(p)
  /\ UNCHANGED <<triggered, beat, unasked, up>>

---------------------------------------------------------------------------
(* check.                                                                  *)

\* Mutated form: one cadence.
FreshOneCadence(age) == age <= Cadence

\* _meta_fresh.
Fresh(age) == age <= 2 * Cadence

---------------------------------------------------------------------------
(* The specification.                                                      *)

DaemonStep == Start \/ LoopTest \/ WakeUp
RunStep(p) ==
  Acquire(p) \/ FindProject(p) \/ CreateProject(p) \/ BeginPass(p) \/ Fetch(p) \/ Finish(p)

Next ==
  \/ Tick \/ DaemonStep
  \/ \E p \in Proc : RunStep(p)
  \/ SourceChanges \/ Signal \/ CronStarts
  \/ \E p \in Proc : Fails(p) \/ Dies(p)

\* Time passes, however often cron starts runs; a daemon that died is started again
\* (compose.yaml: restart: unless-stopped), and a process goes on.
Spec ==
  /\ Init /\ [][Next]_vars
  /\ SF_vars(Tick) /\ WF_vars(DaemonStep) /\ \A p \in Proc : WF_vars(RunStep(p))

---------------------------------------------------------------------------
(* Properties.                                                             *)

\* The heartbeat claims no fetch that was not made: a change at the source after which
\* no stamped pass has asked for the homework is younger than the heartbeat, though it came
\* in while a pass was under way, and runs overlapped, failed or were killed (_finish_pass
\* stamps the clock that was read before the fetch).
AskedToHeartbeat == beat # None => unasked = None \/ unasked <= beat

\* However often the create of the project is cut off or its answer lost, and though a
\* daemon and a cron job find none at the same time, the account never gets a second
\* project of the title, whose tasks would be duplicates (_project_id_for looks and then
\* creates; only the run lock keeps the two requests together).
OneProject == projects <= 1

\* The inductive invariant behind AskedToHeartbeat, HeartbeatNeverBack and OneProject.
\* Who runs holds the lock, and who creates the project has found none; a run has read
\* the clock since it began, after the last heartbeat, and what has changed since its fetch
\* is younger than its clock.
DaemonInv ==
  /\ TypeOK /\ AskedToHeartbeat /\ OneProject
  /\ \A p \in Proc :
       /\ pc[p] = "create" => projects = 0
       /\ pc[p] \in Running <=> lock = p
       /\ began[p] <= took[p]
       /\ pc[p] \in {"fetch", "apply"} => began[p] <= beat
       /\ pc[p] = "apply" => missed[p] = None \/ missed[p] <= began[p]

\* A run never sets the heartbeat back, though it may have begun long before another one
\* stamped (_finish_pass stamps the clock as it was when the pass began, and only the
\* lock of _run_once keeps the passes in order).
HeartbeatNeverBack == [][pc' # pc => beat' <= beat]_vars

\* A daemon that runs without a fault, and has had time for its first run, is never
\* called dead by `check`, though a cron job takes the lock at the worst moment and the
\* daemon's turn is skipped: two cadences are enough when two runs fit into one.
NoFalseAlarm ==
  2 * MaxRun <= Cadence /\ faults = 0 /\ ~triggered /\ pc[Loop] # "off" /\ up > MaxRun
    => Fresh(beat)

\* A signal ends the daemon, wherever it is caught: between the loop's test and the lock,
\* in a run, or asleep.
SignalStops == triggered ~> pc[Loop] = "off"

\* Whatever failed or was killed, the daemon comes back to a fresh heartbeat for good once
\* the faults are over: no lock is left behind, and no missed turn starves it.
HealthReturns == <>[](pc[Loop] = "off" \/ Fresh(beat))
===============================================================================
