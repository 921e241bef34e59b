---------------------------- MODULE RunLock_proofs ----------------------------
(***************************************************************************)
(* For any number of processes and inodes: the run lock is a mutex.        *)
(***************************************************************************)
EXTENDS RunLock, TLAPS

\* Closing a descriptor keeps the invariant: what the process held is free again.
LEMMA CloseKeepsInv ==
  ASSUME LockInv, NEW p \in Proc, Close(p)
  PROVE  LockInv'
  BY NoneAssumption DEF LockInv, TypeOK, Close, Dropped

\* Each step of a process, and the removal of an unheld file, keeps the invariant.
LEMMA NextKeepsInv == LockInv /\ [Next]_vars => LockInv'
<1> SUFFICES ASSUME LockInv, [Next]_vars PROVE LockInv'
  OBVIOUS
<1>1. ASSUME NEW p \in Proc, Open(p) PROVE LockInv'
  <2>1. PICK i \in Inode :
          /\ IF path # None THEN i = path ELSE \A q \in Proc : fd[q] # i
          /\ path' = i /\ fd' = [fd EXCEPT ![p] = i]
    BY <1>1 DEF Open
  <2>2. path # None => path' = path
    BY <2>1
  <2>3. \A q \in Proc : pc[q] = "in" => path' = path
    BY <2>2, NoneAssumption DEF LockInv, TypeOK
  <2>4. owner[i] # None => path # None
    BY <2>1 DEF LockInv, TypeOK
  <2> QED
    BY <1>1, <2>1, <2>2, <2>3, <2>4, NoneAssumption DEF LockInv, TypeOK, Open
<1>2. ASSUME NEW p \in Proc, Flock(p) PROVE LockInv'
  BY <1>2, NoneAssumption DEF LockInv, TypeOK, Flock
<1>3. ASSUME NEW p \in Proc, WriteOwner(p) PROVE LockInv'
  BY <1>3, NoneAssumption DEF LockInv, TypeOK, WriteOwner
<1>4. ASSUME NEW p \in Proc, Enter(p) PROVE LockInv'
  BY <1>4, NoneAssumption DEF LockInv, TypeOK, Enter, OwnsPath
<1>5. ASSUME NEW p \in Proc,
             FlockRefused(p) \/ WriteOwnerFails(p) \/ PathMoved(p) \/ Release(p) \/ Kill(p)
      PROVE  LockInv'
  BY <1>5, CloseKeepsInv DEF FlockRefused, WriteOwnerFails, PathMoved, Release, Kill
<1>6. CASE Unlink
  BY <1>6, NoneAssumption DEF LockInv, TypeOK, Unlink
<1>7. CASE UNCHANGED vars
  BY <1>7 DEF LockInv, TypeOK, vars
<1> QED
  BY <1>1, <1>2, <1>3, <1>4, <1>5, <1>6, <1>7 DEF Next

\* The invariant holds of the lock with any processes and inodes.
THEOREM LockInvariant == Spec => []LockInv
<1>1. Init => LockInv
  BY NoneAssumption DEF Init, LockInv, TypeOK
<1> QED
  BY <1>1, NextKeepsInv, PTL DEF Spec

\* Two runs inside would hold the flock of the one inode that the path names.
LEMMA InvExcludes == LockInv => MutualExclusion
  BY NoneAssumption DEF LockInv, TypeOK, MutualExclusion

\* No two runs of the program are inside the lock at once (lock.py, acquire).
THEOREM Exclusion == Spec => []MutualExclusion
  BY LockInvariant, InvExcludes, PTL

---------------------------------------------------------------------------
(* Refinement of the abstract mutex.                                       *)

Inside == {p \in Proc : pc[p] = "in"}

\* A step of the lock lets one run in, lets one out, or is no step of the mutex.
LEMMA StepRefines ==
  ASSUME LockInv, LockInv', [Next]_vars
  PROVE  [M!Next]_Inside
<1>1. ASSUME NEW p \in Proc, Close(p) PROVE M!Leave(p) \/ UNCHANGED Inside
  BY <1>1 DEF Close, M!Leave, Inside, LockInv, TypeOK
<1>2. ASSUME NEW p \in Proc, Open(p) \/ Flock(p) \/ WriteOwner(p) PROVE UNCHANGED Inside
  BY <1>2 DEF Open, Flock, WriteOwner, Inside, LockInv, TypeOK
<1>3. ASSUME NEW p \in Proc, Enter(p) PROVE M!Enter(p)
  <2>1. \A q \in Proc : pc'[q] = "in" => q = p
    BY <1>3, InvExcludes DEF Enter, LockInv, TypeOK, OwnsPath
  <2>2. Inside = {}
    BY <1>3, <2>1 DEF Enter, Inside, LockInv, TypeOK
  <2>3. Inside' = {p}
    BY <1>3, <2>1 DEF Enter, Inside, LockInv, TypeOK
  <2> QED
    BY <2>2, <2>3 DEF M!Enter, Inside
<1>4. CASE Unlink \/ UNCHANGED vars
  BY <1>4 DEF Unlink, vars, Inside
<1> QED
  BY <1>1, <1>2, <1>3, <1>4
  DEF Next, FlockRefused, WriteOwnerFails, PathMoved, Release, Kill, M!Next, Inside

\* The lock file implements the mutex of module Mutex.
THEOREM LockImplementsMutex == Spec => ImplementsMutex
<1>1. Init => M!Init
  BY DEF Init, M!Init
<1>2. LockInv /\ LockInv' /\ [Next]_vars => [M!Next]_Inside
  BY StepRefines
<1> QED
  BY <1>1, <1>2, LockInvariant, PTL DEF Spec, ImplementsMutex, M!Spec, Inside
===============================================================================
