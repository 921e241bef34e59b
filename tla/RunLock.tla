------------------------------- MODULE RunLock -------------------------------
(***************************************************************************)
(* RunLock (lock.py) as the runs of several processes use it: the daemon,  *)
(* cron's run --once, seed-session.  The lock file's path names an inode;  *)
(* flock is held on an inode, not on a path.  acquire() opens, locks,      *)
(* writes the owner record and then looks whether the path still names the *)
(* inode it locked; each of these system calls is a step.                  *)
(*                                                                         *)
(* The environment may kill a process, which makes the kernel drop its     *)
(* lock, and may remove a lock file that nobody holds.  The program never  *)
(* unlinks the file itself.                                                *)
(***************************************************************************)
CONSTANTS
  Proc,     \* processes that share one configuration
  Inode,    \* inode numbers of the file system
  None      \* no inode, no process

ASSUME NoneAssumption == None \notin Inode /\ None \notin Proc

VARIABLES
  path,     \* the inode that the lock file's path names, or None
  owner,    \* the process that holds the flock of each inode, or None
  fd,       \* the inode each process has open, or None
  pc        \* where each process is

vars == <<path, owner, fd, pc>>

Init ==
  /\ path = None
  /\ owner = [i \in Inode |-> None]
  /\ fd = [p \in Proc |-> None]
  /\ pc = [p \in Proc |-> "out"]

\* Closing the last descriptor of a process releases its flock.
Dropped(p) == [i \in Inode |-> IF owner[i] = p THEN None ELSE owner[i]]

Close(p) ==
  /\ owner' = Dropped(p)
  /\ fd' = [fd EXCEPT ![p] = None]
  /\ pc' = [pc EXCEPT ![p] = "out"]
  /\ UNCHANGED path

\* The path's inode, or a new one: a number is free once nothing refers to it.
Open(p) ==
  /\ pc[p] = "out"
  /\ \E i \in Inode :
       /\ IF path # None THEN i = path ELSE \A q \in Proc : fd[q] # i
       /\ path' = i /\ fd' = [fd EXCEPT ![p] = i]
  /\ pc' = [pc EXCEPT ![p] = "opened"]
  /\ UNCHANGED owner

\* Mutated form: a platform without fcntl, where every acquire succeeds.
FlockFallback(p) ==
  /\ pc[p] = "opened"
  /\ pc' = [pc EXCEPT ![p] = "locked"]
  /\ UNCHANGED <<path, owner, fd>>

\* flock(LOCK_EX | LOCK_NB) succeeds; the other case is FlockRefused.
Flock(p) ==
  /\ pc[p] = "opened" /\ owner[fd[p]] = None
  /\ owner' = [owner EXCEPT ![fd[p]] = p]
  /\ pc' = [pc EXCEPT ![p] = "locked"]
  /\ UNCHANGED <<path, fd>>

FlockRefused(p) == pc[p] = "opened" /\ owner[fd[p]] # None /\ Close(p)

\* The owner record is written and synced.
WriteOwner(p) ==
  /\ pc[p] = "locked"
  /\ pc' = [pc EXCEPT ![p] = "written"]
  /\ UNCHANGED <<path, owner, fd>>

\* A full or failing disk: RunLockError, exit 2.
WriteOwnerFails(p) == pc[p] = "locked" /\ Close(p)

\* Mutated form: the inode of the path is not compared.
OwnsPathAlways(p) == TRUE

\* _owns_path.
OwnsPath(p) == path = fd[p]

Enter(p) ==
  /\ pc[p] = "written" /\ OwnsPath(p)
  /\ pc' = [pc EXCEPT ![p] = "in"]
  /\ UNCHANGED <<path, owner, fd>>

PathMoved(p) == pc[p] = "written" /\ ~OwnsPath(p) /\ Close(p)

\* release(), in the finally clause of _run_once.
Release(p) == pc[p] = "in" /\ Close(p)

Kill(p) == pc[p] # "out" /\ Close(p)

\* Someone removes a lock file that no process holds.
Unlink ==
  /\ path # None /\ owner[path] = None
  /\ path' = None
  /\ UNCHANGED <<owner, fd, pc>>

Next ==
  \/ \E p \in Proc :
       \/ Open(p) \/ Flock(p) \/ FlockRefused(p) \/ WriteOwner(p) \/ WriteOwnerFails(p)
       \/ Enter(p) \/ PathMoved(p) \/ Release(p) \/ Kill(p)
  \/ Unlink

Spec == Init /\ [][Next]_vars

---------------------------------------------------------------------------
(* Properties.                                                             *)

TypeOK ==
  /\ path \in Inode \cup {None}
  /\ owner \in [Inode -> Proc \cup {None}]
  /\ fd \in [Proc -> Inode \cup {None}]
  /\ pc \in [Proc -> {"out", "opened", "locked", "written", "in"}]

\* Past flock a process holds the inode it has open, and nobody holds an inode
\* otherwise; past _owns_path that inode is the one the path names.
LockInv ==
  /\ TypeOK
  /\ \A p \in Proc : pc[p] = "out" <=> fd[p] = None
  /\ \A p \in Proc : pc[p] \in {"locked", "written", "in"} => owner[fd[p]] = p
  /\ \A i \in Inode : owner[i] # None =>
       fd[owner[i]] = i /\ pc[owner[i]] \in {"locked", "written", "in"}
  /\ \A p \in Proc : pc[p] = "in" => path = fd[p]

\* Two runs are never inside at once, although the path may be removed and created
\* anew while a process stands between open and flock.
MutualExclusion == \A p, q \in Proc : pc[p] = "in" /\ pc[q] = "in" => p = q

\* The lock file implements a mutex: whoever is past _owns_path is inside.
M == INSTANCE Mutex WITH inside <- {p \in Proc : pc[p] = "in"}
ImplementsMutex == M!Spec
===============================================================================
