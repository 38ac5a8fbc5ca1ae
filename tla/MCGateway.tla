------------------------------ MODULE MCGateway ------------------------------
(* Gateway for TLC: two request threads on one or two KV contexts.           *)
EXTENDS Gateway

CONSTANTS r1, r2
TwoRequests == {r1, r2}
OneQuitter == {r1}
OneStaller == {r1}
TwoSlots == {0, 1}
AnyFault == {"garbage", "exit"}
=============================================================================
