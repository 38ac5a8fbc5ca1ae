-------------------------- MODULE MCUmcAllocator ---------------------------
(* UmcAllocator for TLC: three threads, so that two releases of an address   *)
(* and a new allocation of it can overlap.                                   *)
EXTENDS UmcAllocator, TLC

CONSTANTS t1, t2, t3, p1, p2
ThreeThreads == {t1, t2, t3}
TwoPtrs == {p1, p2}
Interchangeable == Permutations(ThreeThreads) \cup Permutations(TwoPtrs)
=============================================================================
