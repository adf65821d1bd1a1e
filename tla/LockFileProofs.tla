---------------------------- MODULE LockFileProofs ----------------------------
(***************************************************************************)
(* Mutual exclusion of the lock file, for any number of instances.         *)
(***************************************************************************)
EXTENDS LockFile, TLAPS

\* Every open descriptor is on the file the path names.  It holds because
\* nothing ever removes the lock file, and exclusion rests on it.
OneFile == \A p \in Process : fd[p] # None => fd[p] = path

\* An instance has the file open exactly in the states where it should.
OpenInv ==
  \A p \in Process : (fd[p] # None) <=> pc[p] \in Holding \union {"opened", "unlocked"}

\* The instances in Holding are exactly the owners of a flock.
OwnerInv ==
  /\ \A p \in Process : pc[p] \in Holding => lock[fd[p]] = p
  /\ NoOrphanLock

\* The owner's PID is in the file from WriteString on.
PIDInv == \A p \in Process : pc[p] \in {"written", "held"} => content[fd[p]] = p

IInv == TypeOK /\ OneFile /\ OpenInv /\ OwnerInv /\ PIDInv

-----------------------------------------------------------------------------
\* No file and no instance at the start.
LEMMA InitIInv == Init => IInv
BY NoneAssumption DEF Init, IInv, TypeOK, OneFile, OpenInv, OwnerInv, NoOrphanLock, PIDInv, Holding

\* Every step of every instance, its death included, keeps the invariant.
LEMMA StepIInv == IInv /\ [Next]_vars => IInv'
<1> SUFFICES ASSUME IInv, [Next]_vars PROVE IInv'
  OBVIOUS
<1> USE NoneAssumption DEF IInv, TypeOK, OneFile, OpenInv, OwnerInv, NoOrphanLock, PIDInv, Holding
<1>1. ASSUME NEW p \in Process, OpenFile(p) PROVE IInv'
  BY <1>1 DEF OpenFile
<1>2. ASSUME NEW p \in Process, Flock(p) PROVE IInv'
  BY <1>2 DEF Flock
<1>3. ASSUME NEW p \in Process, FlockFails(p) \/ PrepareFails(p) PROVE IInv'
  BY <1>3 DEF FlockFails, PrepareFails, Closed
<1>4. ASSUME NEW p \in Process, Truncate(p) PROVE IInv'
  BY <1>4 DEF Truncate
<1>5. ASSUME NEW p \in Process, WritePID(p) PROVE IInv'
  BY <1>5 DEF WritePID
<1>6. ASSUME NEW p \in Process, Sync(p) PROVE IInv'
  BY <1>6 DEF Sync
<1>7. ASSUME NEW p \in Process, Unlock(p) PROVE IInv'
  BY <1>7 DEF Unlock
<1>8. ASSUME NEW p \in Process, CloseFile(p) \/ Die(p) PROVE IInv'
  BY <1>8 DEF CloseFile, Die, Closed
<1>9. CASE UNCHANGED vars
  BY <1>9 DEF vars
<1>. QED
  BY <1>1, <1>2, <1>3, <1>4, <1>5, <1>6, <1>7, <1>8, <1>9 DEF Next, Acquire, Release

\* The strengthening holds in every reachable state, for any set of processes
\* and of files.
THEOREM Invariance == Spec => []IInv
BY InitIInv, StepIInv, PTL DEF Spec

\* The path, the files and every instance keep their types, through deaths at
\* any point of Acquire and Release.
THEOREM TypeCorrect == Spec => []TypeOK
<1>1. IInv => TypeOK
  BY DEF IInv
<1>. QED
  BY <1>1, Invariance, PTL

\* At most one instance is between flock and LOCK_UN.
THEOREM Exclusion == Spec => []MutualExclusion
<1>1. IInv => MutualExclusion
  BY DEF IInv, OneFile, OpenInv, OwnerInv, MutualExclusion
<1>. QED
  BY Invariance, <1>1, PTL

\* The lock path shows the PID of the running instance.
THEOREM HolderIsNamed == Spec => []PIDNamesHolder
<1>1. IInv => PIDNamesHolder
  BY DEF IInv, OneFile, OpenInv, PIDInv, PIDNamesHolder, Holding
<1>. QED
  BY Invariance, <1>1, PTL

\* No lock outlives its owner's hold on it.
THEOREM LocksAreOwned == Spec => []NoOrphanLock
<1>1. IInv => NoOrphanLock
  BY DEF IInv, OwnerInv
<1>. QED
  BY Invariance, <1>1, PTL
=============================================================================
