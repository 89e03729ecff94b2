----------------------------- MODULE MCBenchLock -----------------------------
(* Instances of BenchLock for TLC.                                            *)
EXTENDS BenchLock, TLC

Symmetry == Permutations(Runner) \cup Permutations(Inode)
=============================================================================
