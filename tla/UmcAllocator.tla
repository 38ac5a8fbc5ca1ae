---------------------------- MODULE UmcAllocator ----------------------------
(***************************************************************************)
(* umc_pytorch_allocator.cpp: the allocator that PyTorch plugs in.  umc_alloc *)
(* and umc_free call the driver and then, under g_mutex, keep a ledger of    *)
(* what they handed out.  umc_free strikes the entry off after the driver    *)
(* has the memory back, so the address may be another thread's by then.  A   *)
(* step is one call of the driver or one critical section of g_mutex.        *)
(***************************************************************************)
EXTENDS Integers, FiniteSets, Functions

CONSTANTS
  Threads,   \* the threads of the client
  Ptrs,      \* the addresses cudaMalloc can return
  Sizes,     \* the sizes asked for; a call with size 0 does nothing
  Faults,    \* the calls that may fail, "cudaFree" or none
  MaxTotal   \* bound: clients ask for no more once the total is here

ASSUME AllocatorAssumption ==
  /\ Sizes \subseteq Nat \ {0} /\ MaxTotal \in Nat
  /\ Faults \subseteq {"cudaFree"}
  /\ IsFiniteSet(Ptrs)

VARIABLES
  allocs,  \* g_allocations: per address the size recorded, 0 for none
  total,   \* g_totalAllocated
  peak,    \* g_peakAllocated
  pc,      \* per thread: outside a call, about to record, or about to strike
  arg,     \* per thread, the address its call is about
  memory,  \* the driver: the size of what is at each address, 0 for none
  held,    \* the addresses clients own
  missed   \* history: addresses whose entry no longer follows the memory

vars == <<allocs, total, peak, pc, arg, memory, held, missed>>

Init ==
  /\ allocs = [p \in Ptrs |-> 0] /\ total = 0 /\ peak = 0
  /\ pc = [t \in Threads |-> "idle"]
  /\ \E p \in Ptrs : arg = [t \in Threads |-> p]
  /\ memory = [p \in Ptrs |-> 0] /\ held = {} /\ missed = {}

Striking(p) == \E t \in Threads : pc[t] = "strike" /\ arg[t] = p

Goto(t, place, p) ==
  /\ pc' = [pc EXCEPT ![t] = place] /\ arg' = [arg EXCEPT ![t] = p]

-----------------------------------------------------------------------------
(* umc_alloc.  The ledger may lose an address that comes while a release of  *)
(* it has still to be struck off; for any other address it starts afresh.  A *)
(* cudaMalloc that fails changes nothing.                                    *)
CudaMalloc(t) ==
  /\ pc[t] = "idle" /\ total < MaxTotal
  /\ \E p \in Ptrs, size \in Sizes :
       /\ memory[p] = 0
       /\ memory' = [memory EXCEPT ![p] = size]
       /\ Goto(t, "record", p)
       /\ missed' = IF Striking(p) THEN missed \cup {p} ELSE missed \ {p}
  /\ UNCHANGED <<allocs, total, peak, held>>

(* Mutant: the entry is made only when the peak rises (a brace misplaced). *)
RecordAtPeak(t) ==
  /\ pc[t] = "record"
  /\ LET size == memory[arg[t]] IN
       /\ allocs' = IF total + size > peak THEN [allocs EXCEPT ![arg[t]] = size]
                    ELSE allocs
       /\ total' = total + size
       /\ peak' = IF total + size > peak THEN total + size ELSE peak
  /\ held' = held \cup {arg[t]}
  /\ Goto(t, "idle", arg[t])
  /\ UNCHANGED <<memory, missed>>

(* The size is that of the call, which nobody can free yet.                  *)
Record(t) ==
  /\ pc[t] = "record"
  /\ LET size == memory[arg[t]] IN
       /\ allocs' = [allocs EXCEPT ![arg[t]] = size]
       /\ total' = total + size
       /\ peak' = IF total + size > peak THEN total + size ELSE peak
  /\ held' = held \cup {arg[t]}
  /\ Goto(t, "idle", arg[t])
  /\ UNCHANGED <<memory, missed>>

(* Mutant: umc_free returns when cudaFree has succeeded. *)
CudaFreeOnly(t) ==
  /\ pc[t] = "idle"
  /\ \E p \in held :
       /\ held' = held \ {p} /\ Goto(t, "idle", p)
       /\ memory' = [memory EXCEPT ![p] = 0]
  /\ UNCHANGED <<allocs, total, peak, missed>>

(* umc_free of memory the client owns.  When cudaFree fails the entry is     *)
(* struck off all the same, and the memory stays.                            *)
CudaFree(t) ==
  /\ pc[t] = "idle"
  /\ \E p \in held :
       /\ held' = held \ {p} /\ Goto(t, "strike", p)
       /\ \/ memory' = [memory EXCEPT ![p] = 0] /\ UNCHANGED missed
          \/ /\ "cudaFree" \in Faults
             /\ missed' = missed \cup {p} /\ UNCHANGED memory
  /\ UNCHANGED <<allocs, total, peak>>

(* Mutant: the size the caller passes is taken off the entry instead. *)
StrikeBySize(t) ==
  /\ pc[t] = "strike"
  /\ \E size \in Sizes :
       /\ total' = total - size
       /\ allocs' = [allocs EXCEPT ![arg[t]] = @ - size]
  /\ Goto(t, "idle", arg[t])
  /\ UNCHANGED <<peak, memory, held, missed>>

(* Mutant: the size the caller passes is taken off the total. *)
StrikeCallersSize(t) ==
  /\ pc[t] = "strike"
  /\ \E size \in Sizes : total' = total - size
  /\ allocs' = [allocs EXCEPT ![arg[t]] = 0]
  /\ Goto(t, "idle", arg[t])
  /\ UNCHANGED <<peak, memory, held, missed>>

Strike(t) ==
  /\ pc[t] = "strike"
  /\ total' = total - allocs[arg[t]]
  /\ allocs' = [allocs EXCEPT ![arg[t]] = 0]
  /\ Goto(t, "idle", arg[t])
  /\ UNCHANGED <<peak, memory, held, missed>>

(* Mutant: the counters are reset and the map is not cleared. *)
CleanupCountersOnly ==
  /\ total' = 0 /\ peak' = 0
  /\ missed' = missed \cup {p \in Ptrs : allocs[p] # 0}
  /\ UNCHANGED <<allocs, pc, arg, memory, held>>

(* umc_cleanup_allocator forgets the memory and does not free it.            *)
Cleanup ==
  /\ allocs' = [p \in Ptrs |-> 0] /\ total' = 0 /\ peak' = 0
  /\ missed' = missed \cup {p \in Ptrs : allocs[p] # 0}
  /\ UNCHANGED <<pc, arg, memory, held>>

-----------------------------------------------------------------------------
Next ==
  \/ \E t \in Threads : CudaMalloc(t) \/ Record(t) \/ CudaFree(t) \/ Strike(t)
  \/ Cleanup

Spec == Init /\ [][Next]_vars

-----------------------------------------------------------------------------
(* Properties.                                                               *)

(* Every variable keeps its type: in particular an entry is the size of some *)
(* call, never what is left of one.  TotalCovers bounds the counters.        *)
TypeOK ==
  /\ allocs \in [Ptrs -> Sizes \cup {0}] /\ memory \in [Ptrs -> Sizes \cup {0}]
  /\ total \in Int /\ peak \in Int
  /\ pc \in [Threads -> {"idle", "record", "strike"}]
  /\ arg \in [Threads -> Ptrs]
  /\ held \subseteq Ptrs /\ missed \subseteq Ptrs

(* An entry is never left behind: it is that of memory with this very size,  *)
(* or a release of its address is still to be struck off, however many       *)
(* threads freed and got back the address in the mean time.                  *)
EntriesLive == \A p \in Ptrs : allocs[p] # 0 => memory[p] = allocs[p] \/ Striking(p)

(* The ledger lists an owned address with its size, and nothing else but     *)
(* what is being struck off, for every address that was not handed out again *)
(* during its own release, nor failed to be freed, nor was cleaned up.       *)
LedgerExact ==
  \A p \in Ptrs \ missed :
    /\ p \in held => allocs[p] = memory[p]
    /\ allocs[p] # 0 => p \in held \/ Striking(p)

(* The total covers what the ledger lists, whatever races went before, so    *)
(* striking an entry off never wraps the size_t around; the peak covers the  *)
(* total.                                                                    *)
TotalCovers == total >= SumFunction(allocs) /\ peak >= total

(* What the total counts too much never becomes less: an entry overwritten   *)
(* before its release struck it off stays in the total until the clean-up,   *)
(* whatever is freed later.                                                  *)
DriftStays ==
  [][Cleanup \/ total' - SumFunction(allocs') >= total - SumFunction(allocs)]_vars
=============================================================================
