-------------------------- MODULE VirtualGpuMemory --------------------------
(***************************************************************************)
(* class VirtualGpuMemory (VirtualGpuMemory.cpp): logical blocks placed in *)
(* VRAM, host RAM or a pagefile-backed section, one recursive mutex around *)
(* everything but migrateBlockToTier.  Client threads call                 *)
(* writeBlock/readBlock/write/read; a block access is: registerAccess (a   *)
(* critical section of its own), then a second critical section that looks *)
(* the block up, allocates it tier by tier if a write finds it absent, and *)
(* copies.  Byte counters are counted in blocks, timestamps are kept as    *)
(* their order (newer), a pointer is one of Ptrs whichever pool it is in.  *)
(***************************************************************************)
EXTENDS ClientCalls, Sequences, FiniteSets

CONSTANTS
  NoThread,       \* the owner of a mutex nobody holds
  NumDevices,     \* m_gpuDevices.size()
  VramLimit,      \* m_gpuLimitBytes, in blocks, per device
  RamLimit,       \* m_ramLimitBytes, in blocks
  PagefileLimit,  \* m_pagefileLimitBytes, in blocks
  WordBlocks,     \* 2^64 / m_blockSizeBytes: where a size_t counter wraps
  Ptrs,           \* the addresses cudaMalloc and VirtualAlloc can return
  Faults,         \* the calls of the system that may fail
  ClientOps,      \* the other operations that clients use
  ThrashMin,      \* 10, the least history isThrashingDetected judges by
  HistoryWindow   \* m_migrationHistoryWindowSize, 100 in the code

FaultKinds == {"cudaSetDevice", "cudaMalloc", "cudaMemset", "cudaMemcpy",
               "migrationCopy", "VirtualAlloc", "CreateFileMapping", "MapViewOfFile"}
OtherOps == {"registerAccess", "logResidencyChange", "migrateBlockToTier",
             "evictLRUBlockFromGPU", "freeBlockPhysical", "cleanup"}

Devices == 0 .. NumDevices - 1
Host    == -1   \* the deviceId of a block that is not on a GPU
Free    == -2   \* the pool of an address nobody holds
Extents == 0 .. PagefileLimit - 1

ASSUME ThreadAssumption == NoThread \notin Threads
ASSUME LimitAssumption ==
  /\ NumDevices \in Nat
  /\ VramLimit \in [Devices -> Nat]
  /\ RamLimit \in Nat /\ PagefileLimit \in Nat
  /\ WordBlocks \in Nat /\ WordBlocks > RamLimit
ASSUME PtrAssumption == Ptrs \cap Nat = {}
ASSUME ClientAssumption == Faults \subseteq FaultKinds /\ ClientOps \subseteq OtherOps
ASSUME HistoryAssumption == ThrashMin \in Nat \ {0} /\ HistoryWindow \in Nat \ {0}

VARIABLES
  owner,              \* who holds m_mutex
  pc,                 \* per thread, where in the current call it is
  call,               \* per thread, that call's progress
  scan,               \* per thread, the loop index of allocateVram
  blockMap,           \* m_blockMap
  gpuAllocated,       \* m_gpuAllocatedBytes
  hostAllocated,      \* m_hostAllocatedBytes
  pagefileAllocated,  \* m_pagefileAllocatedBytes
  mapping,            \* m_hPagefileMapping is open
  pool,               \* per address: a device, Host or Free
  data,               \* what an address or a pagefile extent holds
  newer,              \* m_accessTimestamps: newer[b] have a larger one than b
  history,            \* the tiers in m_migrationHistory
  alive               \* FALSE once destroyed

places == <<blockMap, gpuAllocated, hostAllocated, pagefileAllocated, mapping, pool>>
vars == <<owner, pc, call, scan, places, data, newer, history, alive>>

Tiers    == {"Vram", "Ram", "Pagefile"}
Content  == [Cells -> Bytes]
Location == [tier : Tiers \cup {"None"}, dev : Devices \cup {Host}, at : Ptrs \cup Nat]
Unmapped == [tier |-> "None", dev |-> Host, at |-> 0]
PCs == {"idle", "register", "enter", "policy", "vram", "evict", "retry", "stableRam",
        "stablePagefile", "ram", "pagefile", "copy"}

Filled(x)  == [c \in Cells |-> x]
Mapped(b)  == blockMap[b].tier # "None"
Running(t) == call[t].status = "running"
Block(t)   == BlockOf(call[t].pos)
CanFail(f) == f \in Faults
OnDevice(d)  == {b \in Blocks : blockMap[b].tier = "Vram" /\ blockMap[b].dev = d}
FreePtrs     == {p \in Ptrs : pool[p] = Free}
HoldsPtr(b)  == blockMap[b].tier \in {"Vram", "Ram"}

Init ==
  /\ owner = NoThread
  /\ pc = [t \in Threads |-> "idle"]
  /\ call = [t \in Threads |-> NoCall]
  /\ scan = [t \in Threads |-> 0]
  /\ blockMap = [b \in Blocks |-> Unmapped]
  /\ gpuAllocated = [d \in Devices |-> 0]
  /\ hostAllocated = 0
  /\ pagefileAllocated = 0
  /\ mapping = FALSE
  /\ pool = [p \in Ptrs |-> Free]
  /\ data = [x \in Ptrs \cup Extents |-> Filled(IF x \in Ptrs THEN Junk ELSE Zero)]
  /\ newer = [b \in Blocks |-> {}]
  /\ history = <<>>
  /\ alive = TRUE

-----------------------------------------------------------------------------
(* Mutant: a std::mutex, which its own thread cannot take again. *)
MayLockOnce(t) == owner = NoThread

(* The mutex is recursive: its owner may take it again. *)
MayLock(t) == owner \in {NoThread, t}

Goto(t, l) == pc' = [pc EXCEPT ![t] = l]

(* Mutant: an early return between lock() and unlock(). *)
ReturnFalseLocked(t) ==
  /\ call' = [call EXCEPT ![t] = Failed(@)]
  /\ owner' = owner
  /\ Goto(t, "idle")

(* return false: the lock_guard releases the mutex. *)
ReturnFalse(t) ==
  /\ call' = [call EXCEPT ![t] = Failed(@)]
  /\ owner' = NoThread
  /\ Goto(t, "idle")

Invoke(t, r) ==
  /\ alive /\ pc[t] = "idle"
  /\ call' = [call EXCEPT ![t] = NewCall(r)]
  /\ Goto(t, IF EarlyStatus(r) = "running" THEN "register" ELSE "idle")
  /\ UNCHANGED <<owner, scan, places, data, newer, history, alive>>

(* m_accessTimestamps[b] = ++m_globalAccessCounter: b is now the newest. *)
Touched(b) == [x \in Blocks |-> IF x = b THEN {} ELSE newer[x] \cup {b}]

RegisterAccess(t) ==
  /\ pc[t] = "register" /\ owner = NoThread
  /\ newer' = Touched(Block(t))
  /\ Goto(t, "enter")
  /\ UNCHANGED <<owner, call, scan, places, data, history, alive>>

(* The second critical section starts with the lookup in m_blockMap. *)
Enter(t) ==
  /\ pc[t] = "enter" /\ owner = NoThread
  /\ \/ /\ Mapped(Block(t)) \/ call[t].op \in WriteOps
        /\ owner' = t
        /\ Goto(t, IF Mapped(Block(t)) THEN "copy" ELSE "policy")
        /\ UNCHANGED call
     \/ /\ ~Mapped(Block(t)) /\ call[t].op \in ReadOps
        /\ ReturnFalse(t)
  /\ UNCHANGED <<scan, places, data, newer, history, alive>>

-----------------------------------------------------------------------------
(* allocateBlockPhysical: which tier first. *)
RamEntries == Cardinality({i \in DOMAIN history : history[i] = "Ram"})
Thrashing == Len(history) >= ThrashMin /\ 10 * RamEntries > 7 * Len(history)

(* Mutant: RAM and pagefile first, whether thrashing or not. *)
PolicyStable(t) ==
  /\ pc[t] = "policy" /\ MayLock(t)
  /\ Goto(t, "stableRam")
  /\ scan' = [scan EXCEPT ![t] = 0]
  /\ UNCHANGED <<owner, call, places, data, newer, history, alive>>

Policy(t) ==
  /\ pc[t] = "policy" /\ MayLock(t)
  /\ Goto(t, IF Thrashing THEN "stableRam" ELSE "vram")
  /\ scan' = [scan EXCEPT ![t] = 0]
  /\ UNCHANGED <<owner, call, places, data, newer, history, alive>>

(* Enter the block in m_blockMap at the storage x, filled with c. *)
PlaceBlock(t, loc, c) ==
  /\ blockMap' = [blockMap EXCEPT ![Block(t)] = loc]
  /\ data' = [data EXCEPT ![loc.at] = c]
  /\ Goto(t, "copy")

(* Mutant: the budget check forgets the block it is about to add. *)
VramFitsLoose(d) == gpuAllocated[d] <= VramLimit[d]

VramFits(d) == gpuAllocated[d] + 1 <= VramLimit[d]

(* allocateVram: cudaMalloc gives device memory, at first or after eviction. *)
PlaceInVram(t, p) ==
  /\ scan[t] \in Devices
  /\ \/ pc[t] = "vram" /\ VramFits(scan[t])
     \/ pc[t] = "retry"
  /\ p \in FreePtrs
  /\ pool' = [pool EXCEPT ![p] = scan[t]]
  /\ gpuAllocated' = [gpuAllocated EXCEPT ![scan[t]] = @ + 1]
  /\ \E x \in {Zero} \cup (IF CanFail("cudaMemset") THEN {Junk} ELSE {}) :
        PlaceBlock(t, [tier |-> "Vram", dev |-> scan[t], at |-> p], Filled(x))
  /\ UNCHANGED <<owner, call, scan, hostAllocated, pagefileAllocated, mapping,
                 newer, history, alive>>

(* What migrateBlockToTier(b, Ram, _) leaves at p: it copies from VRAM only, *)
(* and does not look at the result of that cudaMemcpy.                       *)
MigratedContents(b) ==
  IF blockMap[b].tier = "Vram"
    THEN {data[blockMap[b].at]} \cup (IF CanFail("migrationCopy") THEN {Filled(Zero)} ELSE {})
    ELSE {Filled(Zero)}

(* Mutant: no cudaFree of the memory the block leaves. *)
MigrateToRamKeepingVram(b, p) ==
  /\ p \in FreePtrs
  /\ blockMap' = [blockMap EXCEPT ![b] = [tier |-> "Ram", dev |-> Host, at |-> p]]
  /\ pool' = [pool EXCEPT ![p] = Host]
  /\ \E c \in MigratedContents(b) : data' = [data EXCEPT ![p] = c]

MigrateToRam(b, p) ==
  LET from  == blockMap[b]
      freed == IF from.tier = "Vram" THEN {from.at} ELSE {}
  IN /\ p \in FreePtrs
     /\ blockMap' = [blockMap EXCEPT ![b] = [tier |-> "Ram", dev |-> Host, at |-> p]]
     /\ pool' = [q \in Ptrs |-> IF q = p THEN Host ELSE IF q \in freed THEN Free ELSE pool[q]]
     /\ \E c \in MigratedContents(b) :
           data' = [x \in Ptrs \cup Extents |->
                      IF x = p THEN c ELSE IF x \in freed THEN Filled(Junk) ELSE data[x]]

(* Mutant: the sort compares the other way round. *)
MayEvictNewest(b, d) == b \in OnDevice(d) /\ \A x \in OnDevice(d) : x \notin newer[b]

(* The blocks of d that the sort may put first.  A block comes later only    *)
(* when every older one could not be moved.                                  *)
MayEvict(b, d) ==
  /\ b \in OnDevice(d)
  /\ \/ \A x \in OnDevice(d) : b \notin newer[x]
     \/ CanFail("VirtualAlloc")

(* Mutant: the evicted block stays in the budget of its device. *)
EvictKeepingBudget(b, d, p) ==
  /\ MayEvict(b, d)
  /\ MigrateToRam(b, p)
  /\ UNCHANGED gpuAllocated

Evict(b, d, p) ==
  /\ MayEvict(b, d)
  /\ MigrateToRam(b, p)
  /\ gpuAllocated' = [gpuAllocated EXCEPT ![d] = IF @ >= 1 THEN @ - 1 ELSE 0]

(* cudaMalloc reports out of memory.                                         *)
OutOfVram(t) ==
  /\ pc[t] = "vram" /\ scan[t] \in Devices /\ VramFits(scan[t])
  /\ CanFail("cudaMalloc") \/ FreePtrs = {}
  /\ Goto(t, "evict")
  /\ UNCHANGED <<owner, call, scan, places, data, newer, history, alive>>

(* Mutant: the eviction locks a mutex that its thread cannot take again.     *)
EvictLRUOnce(t, b, p) ==
  /\ pc[t] = "evict" /\ MayLockOnce(t)
  /\ scan[t] \in Devices
  /\ Evict(b, scan[t], p)
  /\ Goto(t, "retry")
  /\ UNCHANGED <<owner, call, scan, hostAllocated, pagefileAllocated, mapping,
                 newer, history, alive>>

(* evictLRUBlockFromGPU locks the mutex again and moves one block.           *)
EvictLRU(t, b, p) ==
  /\ pc[t] = "evict" /\ MayLock(t)
  /\ scan[t] \in Devices
  /\ Evict(b, scan[t], p)
  /\ Goto(t, "retry")
  /\ UNCHANGED <<owner, call, scan, hostAllocated, pagefileAllocated, mapping,
                 newer, history, alive>>

(* No block of d can be moved.                                               *)
NothingToEvict(d) == OnDevice(d) = {} \/ CanFail("VirtualAlloc") \/ FreePtrs = {}

(* The device has no block to give: it is over budget, cannot be selected,   *)
(* reports another error than out of memory, has nothing to evict, or fails  *)
(* again after the eviction.                                                 *)
DeviceFails(t) ==
  \/ pc[t] = "vram" /\ (~VramFits(scan[t]) \/ CanFail("cudaSetDevice"))
  \/ pc[t] \in {"vram", "retry"} /\ CanFail("cudaMalloc")
  \/ pc[t] = "evict" /\ MayLock(t) /\ NothingToEvict(scan[t])

(* Mutant: after an eviction the same device is tried from the start.        *)
SkipDeviceAgain(t) ==
  /\ scan[t] \in Devices /\ DeviceFails(t)
  /\ scan' = [scan EXCEPT ![t] = IF pc[t] = "retry" THEN @ ELSE @ + 1]
  /\ Goto(t, "vram")
  /\ UNCHANGED <<owner, call, places, data, newer, history, alive>>

SkipDevice(t) ==
  /\ scan[t] \in Devices /\ DeviceFails(t)
  /\ scan' = [scan EXCEPT ![t] = @ + 1]
  /\ Goto(t, "vram")
  /\ UNCHANGED <<owner, call, places, data, newer, history, alive>>

LeaveVram(t) ==
  /\ pc[t] = "vram" /\ scan[t] = NumDevices
  /\ Goto(t, "ram")
  /\ UNCHANGED <<owner, call, scan, places, data, newer, history, alive>>

(* Mutant: the budget check forgets the block it is about to add. *)
RamFitsLoose == hostAllocated <= RamLimit

RamFits == (hostAllocated + 1) % WordBlocks <= RamLimit

AllocateRam(t, p) ==
  /\ pc[t] \in {"stableRam", "ram"}
  /\ RamFits /\ p \in FreePtrs
  /\ pool' = [pool EXCEPT ![p] = Host]
  /\ hostAllocated' = (hostAllocated + 1) % WordBlocks
  /\ PlaceBlock(t, [tier |-> "Ram", dev |-> Host, at |-> p], Filled(Zero))
  /\ UNCHANGED <<owner, call, scan, gpuAllocated, pagefileAllocated, mapping,
                 newer, history, alive>>

NoRam(t) ==
  /\ pc[t] \in {"stableRam", "ram"}
  /\ ~RamFits \/ CanFail("VirtualAlloc") \/ FreePtrs = {}
  /\ Goto(t, IF pc[t] = "stableRam" THEN "stablePagefile" ELSE "pagefile")
  /\ UNCHANGED <<owner, call, scan, places, data, newer, history, alive>>

(* Mutant: the budget check forgets the block it is about to add. *)
PagefileFitsLoose == pagefileAllocated <= PagefileLimit

PagefileFits == pagefileAllocated + 1 <= PagefileLimit

(* The next extent of the section, which the first such block creates. *)
AllocatePagefile(t) ==
  /\ pc[t] \in {"stablePagefile", "pagefile"}
  /\ PagefileFits
  /\ mapping' = TRUE
  /\ blockMap' = [blockMap EXCEPT ![Block(t)] =
                    [tier |-> "Pagefile", dev |-> Host, at |-> pagefileAllocated]]
  /\ pagefileAllocated' = pagefileAllocated + 1
  /\ Goto(t, "copy")
  /\ UNCHANGED <<owner, call, scan, gpuAllocated, hostAllocated, pool, data,
                 newer, history, alive>>

(* Mutant: under thrashing, give up when RAM and pagefile are full. *)
NoPagefileGivesUp(t) ==
  /\ ~PagefileFits \/ (~mapping /\ CanFail("CreateFileMapping"))
  /\ pc[t] \in {"stablePagefile", "pagefile"}
  /\ ReturnFalse(t)
  /\ UNCHANGED <<scan, places, data, newer, history, alive>>

NoPagefile(t) ==
  /\ ~PagefileFits \/ (~mapping /\ CanFail("CreateFileMapping"))
  /\ \/ /\ pc[t] = "stablePagefile"
        /\ Goto(t, "vram")
        /\ UNCHANGED <<owner, call>>
     \/ /\ pc[t] = "pagefile"
        /\ ReturnFalse(t)
  /\ UNCHANGED <<scan, places, data, newer, history, alive>>

-----------------------------------------------------------------------------
(* The copy: blockOffset and bytesToCopy as write() and read() compute them. *)
BlockOffset(c) == c.pos % BlockSize
BytesToCopy(c) ==
  IF BlockSize - BlockOffset(c) < c.end - c.pos
    THEN BlockSize - BlockOffset(c) ELSE c.end - c.pos
CopiedCells(c) == BlockOffset(c) .. BlockOffset(c) + BytesToCopy(c) - 1

(* Mutant: the copy ignores blockOffset. *)
WrittenFromStart(c, old) == [i \in Cells |-> IF i < BytesToCopy(c) THEN c.val ELSE old[i]]

Written(c, old) == [i \in Cells |-> IF i \in CopiedCells(c) THEN c.val ELSE old[i]]
ReadInto(c, src) ==
  [o \in Offsets |-> IF o \in c.pos .. c.pos + BytesToCopy(c) - 1
                       THEN src[BlockOffset(c) + (o - c.pos)] ELSE c.buf[o]]

CopyMayFail(loc) ==
  \/ loc.tier = "Vram" /\ (CanFail("cudaSetDevice") \/ CanFail("cudaMemcpy"))
  \/ loc.tier = "Pagefile" /\ (~mapping \/ CanFail("MapViewOfFile"))

(* Release the mutex; go on with the next block if there is one. *)
Leave(t, c) ==
  /\ call' = [call EXCEPT ![t] = c]
  /\ owner' = NoThread
  /\ Goto(t, IF c.status = "running" THEN "register" ELSE "idle")

CopyIn(t) ==
  LET loc == blockMap[Block(t)]
  IN /\ pc[t] = "copy" /\ call[t].op \in WriteOps
     /\ loc.tier = "Pagefile" => mapping
     /\ data' = [data EXCEPT ![loc.at] = Written(call[t], @)]
     /\ Leave(t, Advance(call[t], BytesToCopy(call[t]), call[t].buf))
     /\ UNCHANGED <<scan, places, newer, history, alive>>

CopyOut(t) ==
  LET loc == blockMap[Block(t)]
  IN /\ pc[t] = "copy" /\ call[t].op \in ReadOps
     /\ loc.tier = "Pagefile" => mapping
     /\ Leave(t, Advance(call[t], BytesToCopy(call[t]), ReadInto(call[t], data[loc.at])))
     /\ UNCHANGED <<scan, places, data, newer, history, alive>>

(* A copy to device memory that reports an error may have taken place. *)
CopyFails(t) ==
  LET loc == blockMap[Block(t)]
  IN /\ pc[t] = "copy" /\ CopyMayFail(loc)
     /\ \/ UNCHANGED data
        \/ /\ loc.tier = "Vram" /\ CanFail("cudaMemcpy") /\ call[t].op \in WriteOps
           /\ data' = [data EXCEPT ![loc.at] = Written(call[t], @)]
     /\ ReturnFalse(t)
     /\ UNCHANGED <<scan, places, newer, history, alive>>

-----------------------------------------------------------------------------
(* Operations other than the four data calls, each one critical section.     *)
Uses(op) == alive /\ op \in ClientOps /\ owner = NoThread

RegisterOnly(b) ==
  /\ Uses("registerAccess")
  /\ newer' = Touched(b)
  /\ UNCHANGED <<owner, pc, call, scan, places, data, history, alive>>

LogResidencyChange(tier) ==
  /\ Uses("logResidencyChange")
  /\ LET h == Append(history, tier)
     IN history' = IF Len(h) > HistoryWindow THEN Tail(h) ELSE h
  /\ UNCHANGED <<owner, pc, call, scan, places, data, newer, alive>>

(* migrateBlockToTier takes no lock.  Here it runs between the critical      *)
(* sections of the other threads; only the target Ram does anything.         *)
MigrateBlockToTier(b, dev, p) ==
  /\ Uses("migrateBlockToTier")
  /\ Mapped(b)
  /\ ~(blockMap[b].tier = "Ram" /\ blockMap[b].dev = dev)
  /\ MigrateToRam(b, p)
  /\ UNCHANGED <<owner, pc, call, scan, gpuAllocated, hostAllocated,
                 pagefileAllocated, mapping, newer, history, alive>>

EvictLRUBlockFromGPU(d, b, p) ==
  /\ Uses("evictLRUBlockFromGPU")
  /\ Evict(b, d, p)
  /\ UNCHANGED <<owner, pc, call, scan, hostAllocated, pagefileAllocated, mapping,
                 newer, history, alive>>

(* Mutant: freeing a pagefile block lowers the bump counter of extents. *)
FreeBlockReclaiming(b) ==
  /\ Uses("freeBlockPhysical") /\ Mapped(b)
  /\ blockMap' = [blockMap EXCEPT ![b] = Unmapped]
  /\ pagefileAllocated' = IF blockMap[b].tier = "Pagefile" THEN pagefileAllocated - 1
                                                          ELSE pagefileAllocated
  /\ UNCHANGED <<owner, pc, call, scan, gpuAllocated, hostAllocated, mapping, pool, data,
                 newer, history, alive>>

(* The counters go down and the entry goes; no memory is given back. *)
FreeBlockPhysical(b) ==
  /\ Uses("freeBlockPhysical") /\ Mapped(b)
  /\ blockMap' = [blockMap EXCEPT ![b] = Unmapped]
  /\ gpuAllocated' = [d \in Devices |-> IF b \in OnDevice(d) THEN gpuAllocated[d] - 1
                                                             ELSE gpuAllocated[d]]
  /\ hostAllocated' = IF blockMap[b].tier = "Ram"
                        THEN (hostAllocated + WordBlocks - 1) % WordBlocks
                        ELSE hostAllocated
  /\ UNCHANGED <<owner, pc, call, scan, pagefileAllocated, mapping, pool, data,
                 newer, history, alive>>

(* Mutant: the map is cleared before its RAM blocks were given back. *)
CleanupOnlyVram ==
  LET freed == {blockMap[b].at : b \in {x \in Blocks : blockMap[x].tier = "Vram"}}
  IN /\ pool' = [p \in Ptrs |-> IF p \in freed THEN Free ELSE pool[p]]
     /\ blockMap' = [b \in Blocks |-> Unmapped]
     /\ mapping' = FALSE
     /\ newer' = [b \in Blocks |-> {}]
     /\ history' = <<>>
     /\ UNCHANGED <<owner, pc, call, scan, gpuAllocated, hostAllocated, pagefileAllocated, data>>

(* cleanup gives back what m_blockMap lists and closes the section; it does  *)
(* not reset the byte counters.                                              *)
CleanupEffect ==
  LET freed == {blockMap[b].at : b \in {x \in Blocks : HoldsPtr(x)}}
  IN /\ pool' = [p \in Ptrs |-> IF p \in freed THEN Free ELSE pool[p]]
     /\ data' = [x \in Ptrs \cup Extents |->
                   IF x \in freed THEN Filled(Junk)
                   ELSE IF x \in Ptrs THEN data[x] ELSE Filled(Zero)]
     /\ blockMap' = [b \in Blocks |-> Unmapped]
     /\ mapping' = FALSE
     /\ newer' = [b \in Blocks |-> {}]
     /\ history' = <<>>
     /\ UNCHANGED <<owner, pc, call, scan, gpuAllocated, hostAllocated, pagefileAllocated>>

Cleanup == Uses("cleanup") /\ CleanupEffect /\ UNCHANGED alive

(* UMC_Destroy: the client makes no call during it or after it. *)
Destroy ==
  /\ alive /\ \A t \in Threads : pc[t] = "idle"
  /\ CleanupEffect
  /\ alive' = FALSE

Destroyed == ~alive /\ UNCHANGED vars

-----------------------------------------------------------------------------
Allocation(t) ==
  \/ Policy(t) \/ OutOfVram(t) \/ SkipDevice(t) \/ LeaveVram(t) \/ NoRam(t)
  \/ AllocatePagefile(t) \/ NoPagefile(t)
  \/ \E p \in Ptrs : PlaceInVram(t, p) \/ AllocateRam(t, p)
  \/ \E b \in Blocks, p \in Ptrs : EvictLRU(t, b, p)

Step(t) ==
  \/ RegisterAccess(t) \/ Enter(t) \/ Allocation(t)
  \/ CopyIn(t) \/ CopyOut(t) \/ CopyFails(t)

ClientOp ==
  \/ \E b \in Blocks : RegisterOnly(b) \/ FreeBlockPhysical(b)
  \/ \E tier \in Tiers : LogResidencyChange(tier)
  \/ \E b \in Blocks, dev \in Devices \cup {Host}, p \in Ptrs : MigrateBlockToTier(b, dev, p)
  \/ \E d \in Devices, b \in Blocks, p \in Ptrs : EvictLRUBlockFromGPU(d, b, p)
  \/ Cleanup \/ Destroy

Next ==
  \/ \E t \in Threads, r \in Requests : Invoke(t, r)
  \/ \E t \in Threads : Step(t)
  \/ ClientOp
  \/ Destroyed

Spec == Init /\ [][Next]_vars

-----------------------------------------------------------------------------
(* What the properties and the proofs are about. *)

TypeOK ==
  /\ owner \in Threads \cup {NoThread}
  /\ pc \in [Threads -> PCs]
  /\ call \in [Threads -> Call]
  /\ scan \in [Threads -> 0 .. NumDevices]
  /\ blockMap \in [Blocks -> Location]
  /\ gpuAllocated \in [Devices -> Nat]
  /\ hostAllocated \in 0 .. WordBlocks - 1
  /\ pagefileAllocated \in 0 .. PagefileLimit
  /\ mapping \in BOOLEAN
  /\ pool \in [Ptrs -> Devices \cup {Host, Free}]
  /\ data \in [Ptrs \cup Extents -> Content]
  /\ newer \in [Blocks -> SUBSET Blocks]
  /\ history \in Seq(Tiers)
  /\ alive \in BOOLEAN

(* Where a thread holds the mutex. *)
Inside == {"policy", "vram", "evict", "retry", "stableRam", "stablePagefile", "ram",
           "pagefile", "copy"}

(* Only the owner of the mutex is inside the second critical section of a    *)
(* block access, and it is never left without releasing the mutex, however   *)
(* the call ends (lock_guard at VirtualGpuMemory.cpp:287, 340, 389, 438).    *)
LockSound == \A t \in Threads : pc[t] \in Inside <=> owner = t

(* No stale or shared storage: a block in VRAM or RAM points to memory its   *)
(* tier holds, a pagefile block to an extent handed out under an open        *)
(* section, and no two blocks to the same bytes.                             *)
PtrSound(b) ==
  /\ blockMap[b].tier = "Vram" => blockMap[b].at \in Ptrs /\ blockMap[b].dev \in Devices
                                   /\ pool[blockMap[b].at] = blockMap[b].dev
  /\ blockMap[b].tier = "Ram"  => blockMap[b].at \in Ptrs /\ pool[blockMap[b].at] = Host
ExtentSound(b) ==
  blockMap[b].tier = "Pagefile" => mapping /\ blockMap[b].at \in 0 .. pagefileAllocated - 1
NotShared ==
  \A a, b \in Blocks : a # b /\ Mapped(a) /\ Mapped(b) => blockMap[a].at # blockMap[b].at
StorageSound ==
  /\ \A b \in Blocks : PtrSound(b) /\ ExtentSound(b)
  /\ NotShared

(* Whatever clients call, the blocks in the VRAM of a device never outgrow   *)
(* its budget: the counter of allocateVram is never below their number.      *)
VramWithinBudget ==
  \A d \in Devices : /\ Cardinality(OnDevice(d)) <= gpuAllocated[d]
                     /\ gpuAllocated[d] <= VramLimit[d]

(* With the locked operations alone the counter is their number: eviction    *)
(* gives back exactly the budget it frees.                                   *)
VramExact == \A d \in Devices : alive => gpuAllocated[d] = Cardinality(OnDevice(d))

(* The RAM budget, as a limit on the blocks that are in RAM: kept until an   *)
(* eviction or a migration puts blocks there that allocateRam did not count. *)
InRam == {b \in Blocks : blockMap[b].tier = "Ram"}
RamWithinBudget == Cardinality(InRam) <= RamLimit

(* Memory that was taken is memory some block uses: no error path of an      *)
(* allocation, and no eviction, drops the only reference to it.              *)
NothingLeaks ==
  \A p \in Ptrs : pool[p] # Free => \E b \in Blocks : HoldsPtr(b) /\ blockMap[b].at = p

(* The thread that holds the mutex can go on: the locks that                 *)
(* isThrashingDetected and evictLRUBlockFromGPU take inside a block access   *)
(* never block it, and whatever fails there has a way out.                   *)
OwnerGoesOn == \A t \in Threads : owner = t => ENABLED Step(t)

(* The steps a block access may still take at the place l, with some devices *)
(* untried by allocateVram: the places of the code in their order, three for *)
(* each of those devices.                                                    *)
StepsFrom(l, untried) ==
  CASE l = "register"       -> 3 * NumDevices + 8
    [] l = "enter"          -> 3 * NumDevices + 7
    [] l = "policy"         -> 3 * NumDevices + 6
    [] l = "stableRam"      -> 3 * NumDevices + 5
    [] l = "stablePagefile" -> 3 * NumDevices + 4
    [] l = "vram"           -> 3 * untried + 3
    [] l = "evict"          -> 3 * untried + 2
    [] l = "retry"          -> 3 * untried + 1
    [] l = "ram"            -> 2
    [] l = "pagefile"       -> 1
    [] OTHER                -> 0
StepsLeft(t) == StepsFrom(pc[t], NumDevices - scan[t])

(* No call goes round in circles, whatever fails and whatever the other      *)
(* threads do between its critical sections: each step of a call ends it,    *)
(* gets it past bytes of its own, or takes one of the finitely many steps of *)
(* the block it is at, in write()'s loop over blocks, the two orders of the  *)
(* tiers and allocateVram's loop over devices with its eviction and retry.   *)
CallsAdvance ==
  [][\A t \in Threads : pc[t] # "idle" =>
       \/ UNCHANGED <<pc[t], call[t], scan[t]>>
       \/ pc'[t] = "idle"
       \/ call'[t].pos \in call[t].pos + 1 .. call[t].end
       \/ UNCHANGED call[t] /\ StepsLeft(t)' \in 0 .. StepsLeft(t) - 1]_vars

(* A block that changes place, or stays, in a step that writes nothing keeps *)
(* its bytes: only CopyIn and CopyFails write, inside a write call.          *)
Holds(b) == data[blockMap[b].at]
MovesKeepContents ==
  [][\A b \in Blocks :
       Mapped(b) /\ Mapped(b)' /\ (blockMap'[b] # blockMap[b] \/ call' = call)
         => Holds(b)' = Holds(b)]_vars

(* The victim of an eviction is the least recently accessed block of its     *)
(* device (evictLRUBlockFromGPU sorts by m_accessTimestamps).                *)
EvictsOldest ==
  [][\A d \in Devices : \A b \in OnDevice(d) : \A x \in OnDevice(d) \ {b} :
       blockMap'[b].tier = "Ram" => x \in newer[b]]_vars

(* A new block goes to RAM only when no device has budget for it, and to the *)
(* pagefile only when RAM has none either; with thrashing detected it goes   *)
(* to VRAM only when neither RAM nor the pagefile has room.  In a system     *)
(* whose allocations do not fail.                                            *)
NoVramFits == \A d \in Devices : ~VramFits(d)
TiersInOrder ==
  [][\A b \in Blocks : ~Mapped(b) /\ Mapped(b)' =>
       /\ blockMap'[b].tier = "Ram"      => Thrashing \/ NoVramFits
       /\ blockMap'[b].tier = "Pagefile" => ~RamFits /\ (Thrashing \/ NoVramFits)
       /\ blockMap'[b].tier = "Vram"     => ~Thrashing \/ (~RamFits /\ ~PagefileFits)]_vars

(* In such a system a write is refused only when every tier is at its budget *)
(* and a read only when the block was never written.                         *)
RefusedOnlyWhenFull ==
  [][\A t \in Threads : Running(t) /\ call'[t].status = "false" =>
       /\ ~Mapped(Block(t))
       /\ call[t].op \in WriteOps => NoVramFits /\ ~RamFits /\ ~PagefileFits]_vars

(* What the destructor leaves behind: nothing. *)
ReleasedAtDestroy == ~alive => (\A p \in Ptrs : pool[p] = Free) /\ ~mapping

(* The inductive invariant behind LockSound, StorageSound and the budget.    *)

(* A call in progress has bytes of its own left, or is an empty block call.  *)
CallSound(t) ==
  pc[t] # "idle" => /\ Running(t) /\ call[t].pos \in Offsets
                    /\ call[t].pos <= call[t].end /\ call[t].end <= NumBlocks * BlockSize

(* What the lookup of Enter found stays true until the mutex is released.    *)
PlaceKnown(t) == pc[t] \in Inside => (Mapped(Block(t)) <=> pc[t] = "copy")

(* An eviction follows a cudaMalloc that could fail; until it and after it   *)
(* the device has budget for the block.                                      *)
RetryFits(t) ==
  /\ pc[t] \in {"evict", "retry"} => scan[t] \in Devices /\ VramFits(scan[t])
  /\ pc[t] = "evict" => CanFail("cudaMalloc") \/ FreePtrs = {}

IInv ==
  /\ TypeOK /\ LockSound /\ StorageSound /\ VramWithinBudget
  /\ \A t \in Threads : CallSound(t) /\ PlaceKnown(t) /\ RetryFits(t)

(***************************************************************************)
(* The refinement: a block's bytes are what its storage holds.             *)
(***************************************************************************)
Store == INSTANCE BlockStore WITH
  allocated <- {b \in Blocks : Mapped(b)},
  bytes     <- [o \in Offsets |-> IF Mapped(BlockOf(o)) THEN Holds(BlockOf(o))[o % BlockSize]
                                                       ELSE Zero],
  open      <- alive,
  Discards  <- (IF "freeBlockPhysical" \in ClientOps THEN {{b} : b \in Blocks} ELSE {})
                 \cup (IF "cleanup" \in ClientOps THEN {Blocks} ELSE {})

(* Tiers, eviction, pointers and the mutex are invisible to clients: every   *)
(* behaviour is one of a flat store of bytes with atomic block accesses.     *)
ActsAsStore == Store!StoreSpec
=============================================================================
