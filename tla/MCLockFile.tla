----------------------------- MODULE MCLockFile -----------------------------
(* LockFile for TLC: interchangeable instances and files. *)
EXTENDS LockFile, TLC

Symmetry == Permutations(Process) \union Permutations(Inode)
=============================================================================
