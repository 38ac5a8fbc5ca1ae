-------------------------- MODULE UmcAllocatorProofs --------------------------
(***************************************************************************)
(* Proofs about UmcAllocator, for any number of threads, addresses and     *)
(* sizes.  The ledger stays exact because the ghost missed says where a    *)
(* release and a new allocation of one address overlap: an address outside *)
(* it is never both owned and about to be struck off (Undisturbed).        *)
(***************************************************************************)
EXTENDS UmcAllocator, LibraryFacts, TLAPS

Recording(p) == \E t \in Threads : pc[t] = "record" /\ arg[t] = p

(* An address has one owner: a client, or the call about to hand it over.    *)
Owned ==
  /\ \A p \in Ptrs : p \in held \/ Recording(p) => memory[p] # 0
  /\ \A p \in held : ~Recording(p)
  /\ \A t, u \in Threads :
       pc[t] = "record" /\ pc[u] = "record" /\ arg[t] = arg[u] => t = u

Undisturbed == \A p \in Ptrs \ missed : p \in held \/ Recording(p) => ~Striking(p)

IInv == TypeOK /\ Owned /\ Undisturbed /\ EntriesLive /\ LedgerExact

(* Nothing is allocated, listed or in progress at the start.                 *)
LEMMA InitIInv == Init => IInv
  BY AllocatorAssumption
     DEF Init, IInv, TypeOK, Owned, Recording, Undisturbed, Striking, EntriesLive, LedgerExact

(* cudaMalloc returns an address that is nobody's; an entry it still has is  *)
(* one that a release has to strike off.                                     *)
LEMMA CudaMallocKeeps ==
  ASSUME IInv, NEW t \in Threads, CudaMalloc(t)
  PROVE  IInv'
<1> USE AllocatorAssumption
<1>1. PICK p \in Ptrs, size \in Sizes :
        /\ memory[p] = 0 /\ memory' = [memory EXCEPT ![p] = size]
        /\ Goto(t, "record", p)
        /\ missed' = IF Striking(p) THEN missed \cup {p} ELSE missed \ {p}
  BY DEF CudaMalloc
<1>2. /\ pc[t] = "idle" /\ pc'[t] = "record" /\ arg'[t] = p
      /\ \A u \in Threads \ {t} : pc'[u] = pc[u] /\ arg'[u] = arg[u]
      /\ allocs' = allocs /\ total' = total /\ peak' = peak /\ held' = held
  BY <1>1 DEF CudaMalloc, Goto, IInv, TypeOK
<1>3. TypeOK'
  BY <1>1, <1>2 DEF IInv, TypeOK, Goto
<1>4. /\ \A q \in Ptrs : Striking(q)' <=> Striking(q)
      /\ \A q \in Ptrs : Recording(q)' <=> Recording(q) \/ q = p
      /\ \A q \in Ptrs \ {p} : memory'[q] = memory[q]
      /\ memory'[p] = size /\ size # 0
  BY <1>1, <1>2 DEF Striking, Recording, IInv, TypeOK
<1>5. p \notin held /\ ~Recording(p)
  BY <1>1 DEF IInv, Owned
<1>6. Owned'
  BY <1>1, <1>2, <1>4, <1>5 DEF IInv, Owned, TypeOK, Recording
<1>7. Undisturbed'
  BY <1>1, <1>2, <1>4, <1>5 DEF IInv, Undisturbed
<1>8. EntriesLive'
  BY <1>1, <1>2, <1>4 DEF IInv, EntriesLive
<1>9. LedgerExact'
  BY <1>1, <1>2, <1>4, <1>5 DEF IInv, LedgerExact, EntriesLive
<1> QED
  BY <1>3, <1>6, <1>7, <1>8, <1>9 DEF IInv

(* The entry is made and the memory handed over in one step.                 *)
LEMMA RecordKeeps ==
  ASSUME IInv, NEW t \in Threads, Record(t)
  PROVE  IInv'
<1> DEFINE p == arg[t]
<1>1. p \in Ptrs /\ pc[t] = "record" /\ memory[p] \in Sizes
  BY DEF Record, IInv, TypeOK, Owned, Recording
<1>2. /\ pc'[t] = "idle" /\ arg' = arg
      /\ \A u \in Threads \ {t} : pc'[u] = pc[u]
      /\ memory' = memory /\ missed' = missed /\ held' = held \cup {p}
      /\ allocs'[p] = memory[p]
      /\ \A q \in Ptrs \ {p} : allocs'[q] = allocs[q]
  BY <1>1 DEF Record, Goto, IInv, TypeOK
<1>3. TypeOK'
  BY <1>1, AllocatorAssumption DEF Record, Goto, IInv, TypeOK
<1>4. /\ \A q \in Ptrs : Striking(q)' <=> Striking(q)
      /\ \A q \in Ptrs : Recording(q)' <=> Recording(q) /\ q # p
      /\ Recording(p)
  BY <1>1, <1>2 DEF Striking, Recording, IInv, Owned
<1>5. Owned'
  BY <1>1, <1>2, <1>4 DEF IInv, Owned, TypeOK
<1>6. Undisturbed'
  BY <1>2, <1>4 DEF IInv, Undisturbed
<1>7. EntriesLive' /\ LedgerExact'
  BY <1>1, <1>2, <1>4 DEF IInv, EntriesLive, LedgerExact
<1> QED
  BY <1>3, <1>5, <1>6, <1>7 DEF IInv

(* The client lets go of the address; its entry waits to be struck off.      *)
LEMMA CudaFreeKeeps ==
  ASSUME IInv, NEW t \in Threads, CudaFree(t)
  PROVE  IInv'
<1>1. PICK p \in held :
        /\ held' = held \ {p} /\ Goto(t, "strike", p)
        /\ \/ memory' = [memory EXCEPT ![p] = 0] /\ missed' = missed
           \/ missed' = missed \cup {p} /\ memory' = memory
  BY DEF CudaFree
<1>2. /\ pc[t] = "idle" /\ pc'[t] = "strike" /\ arg'[t] = p /\ p \in Ptrs
      /\ \A u \in Threads \ {t} : pc'[u] = pc[u] /\ arg'[u] = arg[u]
      /\ allocs' = allocs
      /\ \A q \in Ptrs \ {p} : memory'[q] = memory[q]
  BY <1>1 DEF CudaFree, Goto, IInv, TypeOK
<1>3. TypeOK'
  BY <1>1, <1>2 DEF CudaFree, Goto, IInv, TypeOK
<1>4. /\ \A q \in Ptrs : Striking(q)' <=> Striking(q) \/ q = p
      /\ \A q \in Ptrs : Recording(q)' <=> Recording(q)
  BY <1>1, <1>2 DEF Striking, Recording
<1>5. Owned'
  BY <1>1, <1>2, <1>4 DEF IInv, Owned, TypeOK
<1>6. Undisturbed'
  BY <1>1, <1>2, <1>4 DEF IInv, Undisturbed, Owned
<1>7. EntriesLive' /\ LedgerExact'
  BY <1>1, <1>2, <1>4 DEF IInv, EntriesLive, LedgerExact
<1> QED
  BY <1>3, <1>5, <1>6, <1>7 DEF IInv

(* The entry struck off is not one the ledger has to keep.                   *)
LEMMA StrikeKeeps ==
  ASSUME IInv, NEW t \in Threads, Strike(t)
  PROVE  IInv'
<1> DEFINE p == arg[t]
<1>1. p \in Ptrs /\ pc[t] = "strike" /\ Striking(p)
  BY DEF Strike, IInv, TypeOK, Striking
<1>2. /\ pc'[t] = "idle" /\ arg' = arg
      /\ \A u \in Threads \ {t} : pc'[u] = pc[u]
      /\ memory' = memory /\ missed' = missed /\ held' = held
      /\ allocs'[p] = 0
      /\ \A q \in Ptrs \ {p} : allocs'[q] = allocs[q]
  BY <1>1 DEF Strike, Goto, IInv, TypeOK
<1>3. TypeOK'
  BY <1>1, AllocatorAssumption DEF Strike, Goto, IInv, TypeOK
<1>4. /\ \A q \in Ptrs \ {p} : Striking(q)' <=> Striking(q)
      /\ Striking(p)' => Striking(p)
      /\ \A q \in Ptrs : Recording(q)' <=> Recording(q)
  BY <1>1, <1>2 DEF Striking, Recording
<1>5. Owned'
  BY <1>1, <1>2, <1>4 DEF IInv, Owned, TypeOK
<1>6. Undisturbed'
  BY <1>1, <1>2, <1>4 DEF IInv, Undisturbed
<1>7. EntriesLive' /\ LedgerExact'
  BY <1>1, <1>2, <1>4 DEF IInv, EntriesLive, LedgerExact, Undisturbed
<1> QED
  BY <1>3, <1>5, <1>6, <1>7 DEF IInv

(* The clean-up forgets every entry, and missed remembers them.              *)
LEMMA CleanupKeeps ==
  ASSUME IInv, Cleanup
  PROVE  IInv'
<1>1. /\ \A q \in Ptrs : Striking(q)' <=> Striking(q)
      /\ \A q \in Ptrs : Recording(q)' <=> Recording(q)
  BY DEF Cleanup, Striking, Recording
<1>2. TypeOK'
  BY DEF Cleanup, IInv, TypeOK
<1>3. Owned'
  BY <1>1 DEF Cleanup, IInv, Owned, TypeOK
<1>4. Undisturbed' /\ EntriesLive'
  BY <1>1 DEF Cleanup, IInv, Undisturbed, EntriesLive
<1>5. LedgerExact'
  BY DEF Cleanup, IInv, LedgerExact, Owned, TypeOK
<1> QED
  BY <1>2, <1>3, <1>4, <1>5 DEF IInv

(* A step that changes nothing keeps everything.                             *)
LEMMA StutterKeeps ==
  ASSUME IInv, UNCHANGED vars
  PROVE  IInv'
  BY DEF vars, IInv, TypeOK, Owned, Recording, Undisturbed, Striking, EntriesLive, LedgerExact

(* The inductive invariant of the allocator holds in every reachable state.  *)
THEOREM AllocatorInvariant == Spec => []IInv
<1>1. IInv /\ [Next]_vars => IInv'
  BY CudaMallocKeeps, RecordKeeps, CudaFreeKeeps, StrikeKeeps, CleanupKeeps, StutterKeeps
     DEF Next
<1> QED
  BY InitIInv, <1>1, PTL DEF Spec

(* The ledger's entries are sizes of calls, under every interleaving of      *)
(* umc_alloc, umc_free and umc_cleanup_allocator.                            *)
THEOREM AllocatorTypeCorrect == Spec => []TypeOK
  BY AllocatorInvariant, PTL DEF IInv

(* No entry outlives its memory without a release about to strike it off.    *)
THEOREM EntriesCorrect == Spec => []EntriesLive
  BY AllocatorInvariant, PTL DEF IInv

(* Outside the addresses that were disturbed the ledger is exact.            *)
THEOREM LedgerExactCorrect == Spec => []LedgerExact
  BY AllocatorInvariant, PTL DEF IInv

-----------------------------------------------------------------------------
(* The entries are naturals, before and after a step.                        *)
LEMMA EntriesType ==
  /\ TypeOK => allocs \in [Ptrs -> Int] /\ allocs \in [Ptrs -> Nat]
  /\ TypeOK' => allocs' \in [Ptrs -> Int]
<1>1. Sizes \cup {0} \subseteq Nat
  BY AllocatorAssumption
<1> QED
  BY <1>1 DEF TypeOK

(* So they have a sum that covers each of them.                              *)
LEMMA EntriesAdd ==
  ASSUME TypeOK
  PROVE  /\ allocs \in [Ptrs -> Int] /\ allocs \in [Ptrs -> Nat]
         /\ SumFunction(allocs) \in Nat
         /\ \A p \in Ptrs : allocs[p] <= SumFunction(allocs)
<1>1. IsFiniteSet(Ptrs)
  BY AllocatorAssumption
<1> QED
  BY <1>1, EntriesType, SumIsNat

(* A record adds the size to the total and what the entry grows by to the    *)
(* sum.                                                                      *)
LEMMA RecordAdds ==
  ASSUME IInv, NEW t \in Threads, Record(t)
  PROVE  /\ arg[t] \in Ptrs /\ memory[arg[t]] \in Nat
         /\ total' = total + memory[arg[t]]
         /\ peak' = IF total' > peak THEN total' ELSE peak
         /\ SumFunction(allocs') = SumFunction(allocs) - allocs[arg[t]] + memory[arg[t]]
<1>1. TypeOK /\ TypeOK' /\ arg[t] \in Ptrs
  BY RecordKeeps DEF IInv, TypeOK
<1>2. memory[arg[t]] \in Nat
  <2>1. memory[arg[t]] \in Sizes \cup {0}
    BY <1>1 DEF TypeOK
  <2>2. Sizes \cup {0} \subseteq Nat
    BY AllocatorAssumption
  <2> QED
    BY <2>1, <2>2
<1>3. /\ IsFiniteSet(Ptrs) /\ allocs \in [Ptrs -> Int] /\ allocs' \in [Ptrs -> Int]
      /\ allocs'[arg[t]] = memory[arg[t]]
      /\ \A p \in Ptrs \ {arg[t]} : allocs'[p] = allocs[p]
  BY <1>1, EntriesType, AllocatorAssumption DEF Record
<1>4. SumFunction(allocs') = SumFunction(allocs) - allocs[arg[t]] + memory[arg[t]]
  BY <1>1, <1>3, SumChange
<1> QED
  BY <1>1, <1>2, <1>4 DEF Record

(* A release takes the entry off both the total and the sum.                 *)
LEMMA StrikeTakes ==
  ASSUME IInv, NEW t \in Threads, Strike(t)
  PROVE  /\ arg[t] \in Ptrs
         /\ total' = total - allocs[arg[t]] /\ peak' = peak
         /\ SumFunction(allocs') = SumFunction(allocs) - allocs[arg[t]]
<1>1. TypeOK /\ TypeOK' /\ arg[t] \in Ptrs
  BY StrikeKeeps DEF IInv, TypeOK
<1>2. /\ IsFiniteSet(Ptrs) /\ allocs \in [Ptrs -> Int] /\ allocs' \in [Ptrs -> Int]
      /\ allocs'[arg[t]] = 0
      /\ \A p \in Ptrs \ {arg[t]} : allocs'[p] = allocs[p]
  BY <1>1, EntriesType, AllocatorAssumption DEF Strike
<1>3. SumFunction(allocs') = SumFunction(allocs) - allocs[arg[t]] + 0
  BY <1>1, <1>2, SumChange
<1>4. SumFunction(allocs) - allocs[arg[t]] + 0 = SumFunction(allocs) - allocs[arg[t]]
  BY <1>1, EntriesAdd
<1> QED
  BY <1>1, <1>3, <1>4 DEF Strike

(* An emptied ledger adds up to nothing.                                     *)
LEMMA EmptySum == SumFunction([p \in Ptrs |-> 0]) = 0
  BY SumOfZeros, AllocatorAssumption

(* Every step keeps the total above the entries and the peak above the total.*)
LEMMA TotalCoversKept ==
  ASSUME IInv, TotalCovers, [Next]_vars
  PROVE  TotalCovers'
<1>1. /\ total \in Int /\ peak \in Int
      /\ allocs \in [Ptrs -> Nat] /\ SumFunction(allocs) \in Nat
  BY EntriesAdd DEF IInv, TypeOK
<1>2. CASE UNCHANGED <<allocs, total, peak>>
  BY <1>2 DEF TotalCovers
<1>3. ASSUME NEW t \in Threads, Record(t) PROVE TotalCovers'
  <2>1. allocs[arg[t]] \in Nat
    BY <1>1, <1>3, RecordAdds
  <2> QED
    BY <1>1, <1>3, <2>1, RecordAdds DEF TotalCovers
<1>4. ASSUME NEW t \in Threads, Strike(t) PROVE TotalCovers'
  <2>1. allocs[arg[t]] \in Nat
    BY <1>1, <1>4, StrikeTakes
  <2> QED
    BY <1>1, <1>4, <2>1, StrikeTakes DEF TotalCovers
<1>5. CASE Cleanup
  BY <1>5, EmptySum DEF Cleanup, TotalCovers
<1> QED
  BY <1>2, <1>3, <1>4, <1>5 DEF Next, CudaMalloc, CudaFree, vars

(* The total never falls below what the ledger lists: no sequence of races   *)
(* makes umc_free's subtraction wrap the size_t around.                      *)
THEOREM TotalCoversCorrect == Spec => []TotalCovers
<1>1. Init => TotalCovers
  BY EmptySum DEF Init, TotalCovers
<1>2. IInv /\ TotalCovers /\ [Next]_vars => TotalCovers'
  BY TotalCoversKept
<1> QED
  BY <1>1, <1>2, AllocatorInvariant, PTL DEF Spec

(* The subtraction of umc_free itself: a strike finds its entry covered by   *)
(* the total, so the difference is no negative number.                       *)
THEOREM StrikeNeverWraps ==
  Spec => [](\A t \in Threads : pc[t] = "strike" => total - allocs[arg[t]] \in Nat)
<1>1. IInv /\ TotalCovers => \A t \in Threads : pc[t] = "strike" => total - allocs[arg[t]] \in Nat
  <2> SUFFICES ASSUME IInv, TotalCovers, NEW t \in Threads
               PROVE  total - allocs[arg[t]] \in Nat
    OBVIOUS
  <2>1. TypeOK /\ total \in Int /\ arg[t] \in Ptrs
    BY DEF IInv, TypeOK
  <2>2. /\ allocs[arg[t]] \in Nat /\ allocs[arg[t]] <= SumFunction(allocs)
        /\ SumFunction(allocs) \in Nat
    BY <2>1, EntriesAdd
  <2> QED
    BY <2>1, <2>2 DEF TotalCovers
<1> QED
  BY <1>1, AllocatorInvariant, TotalCoversCorrect, PTL

(* What the total counts too much stays there until umc_cleanup_allocator.   *)
THEOREM DriftStaysCorrect == Spec => DriftStays
<1>1. ASSUME IInv, [Next]_vars
      PROVE  [Cleanup \/ total' - SumFunction(allocs') >= total - SumFunction(allocs)]_vars
  <2>1. /\ total \in Int /\ allocs \in [Ptrs -> Nat] /\ SumFunction(allocs) \in Nat
    BY <1>1, EntriesAdd DEF IInv, TypeOK
  <2>2. CASE UNCHANGED <<allocs, total>>
    BY <2>1, <2>2
  <2>3. ASSUME NEW t \in Threads, Record(t)
        PROVE  total' - SumFunction(allocs') >= total - SumFunction(allocs)
    <3>1. allocs[arg[t]] \in Nat
      BY <1>1, <2>1, <2>3, RecordAdds
    <3> QED
      BY <1>1, <2>1, <2>3, <3>1, RecordAdds
  <2>4. ASSUME NEW t \in Threads, Strike(t)
        PROVE  total' - SumFunction(allocs') >= total - SumFunction(allocs)
    <3>1. allocs[arg[t]] \in Nat
      BY <1>1, <2>1, <2>4, StrikeTakes
    <3> QED
      BY <1>1, <2>1, <2>4, <3>1, StrikeTakes
  <2> QED
    BY <1>1, <2>2, <2>3, <2>4 DEF Next, CudaMalloc, CudaFree, vars
<1> QED
  BY <1>1, AllocatorInvariant, PTL DEF Spec, DriftStays
=============================================================================
