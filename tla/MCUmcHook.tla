------------------------------ MODULE MCUmcHook ------------------------------
(***************************************************************************)
(* Small instances of UmcHook.                                             *)
(***************************************************************************)
EXTENDS UmcHook, TLC

CONSTANTS t1, t2, p1, p2, r1, r2, h1, h2

(* The exports the installation finds to be thunks.                          *)
SomeThunks == Functions \ {"cuMemAlloc", "cuMemAllocAsync"}

Symmetry == Permutations(Threads) \cup Permutations(Ptrs) \cup Permutations(Ranges)
=============================================================================
