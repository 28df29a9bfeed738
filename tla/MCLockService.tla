--------------------------- MODULE MCLockService ---------------------------
(* Instances of LockService for TLC.                                       *)
EXTENDS LockService, TLC

Symmetry == Permutations(Clients) \cup Permutations(Locks)
=============================================================================
