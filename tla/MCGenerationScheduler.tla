----------------------- MODULE MCGenerationScheduler ------------------------
(* GenerationScheduler for TLC: two KV contexts, a line of two and more      *)
(* requests than both hold.                                                  *)
EXTENDS GenerationScheduler

CONSTANTS r1, r2, r3, r4
FourRequests == {r1, r2, r3, r4}
AnyOrFirst == {NoSlot, 0}
=============================================================================
