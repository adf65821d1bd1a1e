------------------------------ MODULE LockFile ------------------------------
(***************************************************************************)
(* The process lock of internal/lockfile: tidewatch instances started on   *)
(* the same database race through Acquire and Release on one lock path.    *)
(*                                                                         *)
(* The file system keeps the directory entry apart from the file (inode)   *)
(* it names, because flock locks the file: an instance that still has an   *)
(* unlinked file open can hold a lock on it next to the holder of a newer  *)
(* file of the same name.                                                  *)
(***************************************************************************)
EXTENDS Naturals, FiniteSets

CONSTANTS
  Process,    \* instances, each standing for its PID
  Inode,      \* files the lock path may come to name
  None

ASSUME NoneAssumption == None \notin Process /\ None \notin Inode

VARIABLES
  path,       \* the file the lock path names, or None
  lock,       \* for each file, the instance whose flock is on it
  content,    \* for each file, the PID written in it; None when it is empty
  fd,         \* for each instance, the file it has open
  pc          \* where each instance is in Acquire or Release

vars == <<path, lock, content, fd, pc>>

\* From a successful flock to LOCK_UN.
Holding == {"locked", "truncated", "written", "held"}

-----------------------------------------------------------------------------
Init ==
  /\ path = None
  /\ lock = [i \in Inode |-> None]
  /\ content = [i \in Inode |-> None]
  /\ fd = [p \in Process |-> None]
  /\ pc = [p \in Process |-> "start"]

\* Closing the only descriptor of an open file drops its flock.
Closed(p) ==
  /\ fd' = [fd EXCEPT ![p] = None]
  /\ lock' = [i \in Inode |-> IF lock[i] = p THEN None ELSE lock[i]]

\* Mutant: the file is opened with O_TRUNC.
OpenFile_Truncates(p) ==
  /\ pc[p] = "start"
  /\ \E i \in Inode :
       /\ i = path \/ (path = None /\ \A q \in Process : fd[q] # i)
       /\ path' = i
       /\ fd' = [fd EXCEPT ![p] = i]
       /\ content' = [content EXCEPT ![i] = None]
  /\ pc' = [pc EXCEPT ![p] = "opened"]
  /\ UNCHANGED lock

\* The file named by the path, or a new empty one (O_CREATE).
OpenFile(p) ==
  /\ pc[p] = "start"
  /\ \/ /\ path # None
        /\ fd' = [fd EXCEPT ![p] = path]
        /\ UNCHANGED <<path, content>>
     \/ /\ path = None
        /\ \E i \in Inode :
             /\ \A q \in Process : fd[q] # i
             /\ path' = i
             /\ fd' = [fd EXCEPT ![p] = i]
             /\ content' = [content EXCEPT ![i] = None]
  /\ pc' = [pc EXCEPT ![p] = "opened"]
  /\ UNCHANGED lock

Flock(p) ==
  /\ pc[p] = "opened"
  /\ lock[fd[p]] = None
  /\ lock' = [lock EXCEPT ![fd[p]] = p]
  /\ pc' = [pc EXCEPT ![p] = "locked"]
  /\ UNCHANGED <<path, content, fd>>

\* EWOULDBLOCK, or another error of flock.
FlockFails(p) ==
  /\ pc[p] = "opened"
  /\ Closed(p)
  /\ pc' = [pc EXCEPT ![p] = "failed"]
  /\ UNCHANGED <<path, content>>

Truncate(p) ==
  /\ pc[p] = "locked"
  /\ content' = [content EXCEPT ![fd[p]] = None]
  /\ pc' = [pc EXCEPT ![p] = "truncated"]
  /\ UNCHANGED <<path, lock, fd>>

WritePID(p) ==
  /\ pc[p] = "truncated"
  /\ content' = [content EXCEPT ![fd[p]] = p]
  /\ pc' = [pc EXCEPT ![p] = "written"]
  /\ UNCHANGED <<path, lock, fd>>

\* Acquire returns; the database is opened only now.
Sync(p) ==
  /\ pc[p] = "written"
  /\ pc' = [pc EXCEPT ![p] = "held"]
  /\ UNCHANGED <<path, lock, content, fd>>

\* Mutant: an early return forgets to close the file.
PrepareFails_LeaksFile(p) ==
  /\ pc[p] \in {"locked", "truncated", "written"}
  /\ pc' = [pc EXCEPT ![p] = "failed"]
  /\ UNCHANGED <<path, lock, content, fd>>

\* Truncate, Seek, WriteString or Sync fails: Acquire closes and returns.
PrepareFails(p) ==
  /\ pc[p] \in {"locked", "truncated", "written"}
  /\ Closed(p)
  /\ pc' = [pc EXCEPT ![p] = "failed"]
  /\ UNCHANGED <<path, content>>

Unlock(p) ==
  /\ pc[p] = "held"
  /\ lock' = [lock EXCEPT ![fd[p]] = None]
  /\ pc' = [pc EXCEPT ![p] = "unlocked"]
  /\ UNCHANGED <<path, content, fd>>

\* Mutant: Release removes the lock file.
CloseFile_Removes(p) ==
  /\ pc[p] = "unlocked"
  /\ Closed(p)
  /\ path' = None
  /\ pc' = [pc EXCEPT ![p] = "released"]
  /\ UNCHANGED content

\* The second half of Release.  The file stays.
CloseFile(p) ==
  /\ pc[p] = "unlocked"
  /\ Closed(p)
  /\ pc' = [pc EXCEPT ![p] = "released"]
  /\ UNCHANGED <<path, content>>

\* The instance exits, is killed or crashes at any point; the kernel closes
\* its descriptors.  Another start of the service takes its place.
Die(p) ==
  /\ pc[p] # "start"
  /\ Closed(p)
  /\ pc' = [pc EXCEPT ![p] = "start"]
  /\ UNCHANGED <<path, content>>

Acquire(p) ==
  \/ OpenFile(p) \/ Flock(p) \/ FlockFails(p)
  \/ Truncate(p) \/ WritePID(p) \/ Sync(p) \/ PrepareFails(p)

Release(p) == Unlock(p) \/ CloseFile(p)

Next == \E p \in Process : Acquire(p) \/ Release(p) \/ Die(p)

Spec == Init /\ [][Next]_vars

-----------------------------------------------------------------------------
\* Type invariant.
TypeOK ==
  /\ path \in Inode \union {None}
  /\ lock \in [Inode -> Process \union {None}]
  /\ content \in [Inode -> Process \union {None}]
  /\ fd \in [Process -> Inode \union {None}]
  /\ pc \in [Process -> {"start", "opened", "locked", "truncated", "written", "held",
                         "unlocked", "released", "failed"}]

\* At most one instance is between a successful flock and LOCK_UN, so at most
\* one has the database open, whoever crashes or restarts meanwhile: what the
\* comment on Release argues for keeping the lock file.
MutualExclusion ==
  \A p, q \in Process : pc[p] \in Holding /\ pc[q] \in Holding => p = q

\* While an instance runs, the lock path names a file with its PID: an
\* instance whose Acquire fails has not damaged the holder's file.
PIDNamesHolder ==
  \A p \in Process : pc[p] = "held" => path # None /\ content[path] = p

\* A lock is never left behind: its owner is alive and on its way between
\* flock and LOCK_UN, in particular it is not one whose Acquire failed.
NoOrphanLock ==
  \A i \in Inode, p \in Process : lock[i] = p => pc[p] \in Holding /\ fd[p] = i
=============================================================================
