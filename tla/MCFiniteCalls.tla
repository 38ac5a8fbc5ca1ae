--------------------------- MODULE MCFiniteCalls ----------------------------
(***************************************************************************)
(* VirtualGpuMemory under clients that make at most MaxCalls data calls    *)
(* each and then stop.  With finitely many calls the mutex need not be     *)
(* fair for every call to return: weak fairness of the threads is enough.  *)
(***************************************************************************)
EXTENDS MCVirtualGpuMemory

CONSTANT MaxCalls

VARIABLE issued  \* the calls each thread has made

FiniteInit == Init /\ issued = [t \in Threads |-> 0]

FiniteInvoke(t) ==
  /\ issued[t] < MaxCalls
  /\ issued' = [issued EXCEPT ![t] = @ + 1]
  /\ \E r \in Requests : Invoke(t, r)

FiniteNext ==
  \/ \E t \in Threads : FiniteInvoke(t)
  \/ (\E t \in Threads : Step(t)) /\ UNCHANGED issued
  \/ ClientOp /\ UNCHANGED issued

FiniteSpec ==
  /\ FiniteInit /\ [][FiniteNext]_<<vars, issued>>
  /\ \A t \in Threads : WF_<<vars, issued>>(Step(t) /\ UNCHANGED issued)

(* Every call returns, though it takes and leaves the mutex once per block   *)
(* among the other threads' calls and isThrashingDetected locks the mutex    *)
(* again inside: no path keeps it.  (In a system whose calls do not fail, so *)
(* without evictions; OwnerGoesOn and CallsAdvance are about those.)         *)
CallsReturn == \A t \in Threads : Running(t) ~> ~Running(t)
=============================================================================
