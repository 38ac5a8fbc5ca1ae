----------------------- MODULE VirtualGpuMemoryProofs -----------------------
(***************************************************************************)
(* Proofs about VirtualGpuMemory, for every number of threads, blocks,     *)
(* devices and budgets, every set of faults and every set of operations    *)
(* that clients may use.                                                   *)
(***************************************************************************)
EXTENDS VirtualGpuMemory, FiniteSetTheorems, SequenceTheorems, TLAPS

(* The offsets that clients use are natural numbers. *)
LEMMA OffsetsAreNaturals ==
  /\ NumBlocks * BlockSize \in Nat
  /\ Offsets \subseteq Nat
  /\ Blocks \subseteq Nat
  /\ Cells \subseteq Nat
<1>1. NumBlocks * BlockSize \in Nat
  BY SizeAssumption
<1> QED
  BY <1>1, SizeAssumption DEF Offsets, Blocks, Cells

(* The division of write() and read(): the block of a legal offset is one    *)
(* of the blocks and the offset in it lies inside the block.                 *)
LEMMA BlockOfOffset ==
  ASSUME NEW o \in Offsets
  PROVE  BlockOf(o) \in Blocks /\ o % BlockSize \in Cells
<1> DEFINE q == o \div BlockSize
           r == o % BlockSize
<1>1. o \in Nat /\ BlockSize \in Nat \ {0} /\ NumBlocks \in Nat \ {0} /\ o < NumBlocks * BlockSize
  BY SizeAssumption, OffsetsAreNaturals DEF Offsets
<1>2. q \in Nat /\ r \in 0 .. BlockSize - 1 /\ o = BlockSize * q + r
  BY <1>1
<1>3. q < NumBlocks
  <2>1. SUFFICES ASSUME q >= NumBlocks PROVE FALSE
    BY <1>1, <1>2
  <2>2. BlockSize * q >= BlockSize * NumBlocks
    BY <1>1, <1>2, <2>1
  <2> QED
    BY <1>1, <1>2, <2>2
<1> QED
  BY <1>1, <1>2, <1>3 DEF BlockOf, Blocks, Cells

-----------------------------------------------------------------------------
(* Types of the operators that the actions are built from. *)

(* Every step of a call yields the record of a call. *)
LEMMA CallTypes ==
  /\ NoCall \in Call
  /\ \A r \in Requests : NewCall(r) \in Call
  /\ \A c \in Call : Failed(c) \in Call
  /\ \A c \in Call, n \in Nat, b \in [Offsets -> Bytes] : Advance(c, n, b) \in Call
<1>1. EmptyBuf \in [Offsets -> Bytes]
  BY DEF EmptyBuf, Bytes
<1>2. NoCall \in Call
  BY <1>1 DEF NoCall, Call, Statuses
<1>3. ASSUME NEW r \in Requests PROVE NewCall(r) \in Call
  <2>1. r \in Request /\ EarlyStatus(r) \in Statuses
    BY RequestsAssumption DEF EarlyStatus, Statuses
  <2>2. r.off \in Nat /\ r.off + r.size \in Nat /\ r.val \in Values
        /\ r.op \in WriteOps \cup ReadOps
    <3>1. r.off \in Offsets /\ r.size \in 0 .. NumBlocks * BlockSize
      BY <2>1 DEF Request
    <3>2. r.off \in Nat
      BY <3>1, OffsetsAreNaturals
    <3>3. r.size \in Nat
      BY <3>1
    <3> QED
      BY <2>1, <3>2, <3>3 DEF Request
  <2> QED
    BY <1>1, <2>1, <2>2 DEF NewCall, Call
<1>4. ASSUME NEW c \in Call PROVE Failed(c) \in Call
  BY DEF Failed, Call, Statuses
<1>5. ASSUME NEW c \in Call, NEW n \in Nat, NEW b \in [Offsets -> Bytes]
      PROVE  Advance(c, n, b) \in Call
  <2> DEFINE s == IF c.pos + n < c.end THEN "running" ELSE "true"
  <2>1. c.pos + n \in Nat /\ s \in Statuses
    BY DEF Call, Statuses
  <2>2. Advance(c, n, b) = [c EXCEPT !.pos = c.pos + n, !.buf = b, !.status = s]
    BY DEF Advance
  <2> HIDE DEF s
  <2> QED
    BY <2>1, <2>2 DEF Call
<1> QED
  BY <1>2, <1>3, <1>4, <1>5

(* bytesToCopy never reaches past the end of the block, nor of the call. *)
LEMMA CopySizes ==
  ASSUME NEW c \in Call, c.pos \in Offsets, c.pos <= c.end
  PROVE  /\ BytesToCopy(c) \in Nat
         /\ BlockOffset(c) \in Cells
         /\ BlockOffset(c) + BytesToCopy(c) <= BlockSize
         /\ c.pos + BytesToCopy(c) <= c.end
<1>1. c.pos \in Nat /\ c.end \in Nat /\ BlockSize \in Nat /\ BlockOffset(c) \in 0 .. BlockSize - 1
  BY BlockOfOffset, SizeAssumption DEF Call, BlockOffset, Cells
<1> QED
  BY <1>1 DEF BytesToCopy, Cells

(* What a copy leaves in a block, and in the buffer of a read, are bytes. *)
LEMMA CopyTypes ==
  ASSUME NEW c \in Call, c.pos \in Offsets, c.pos <= c.end, NEW x \in Content
  PROVE  Written(c, x) \in Content /\ ReadInto(c, x) \in [Offsets -> Bytes]
<1>1. c.val \in Bytes /\ c.buf \in [Offsets -> Bytes] /\ c.pos \in Nat
  BY DEF Call, Bytes
<1>2. Written(c, x) \in Content
  BY <1>1 DEF Written, Content
<1>3. ASSUME NEW o \in Offsets, o \in c.pos .. c.pos + BytesToCopy(c) - 1
      PROVE  x[BlockOffset(c) + (o - c.pos)] \in Bytes
  <2>1. BlockOffset(c) + (o - c.pos) \in Cells
    BY <1>1, <1>3, CopySizes, OffsetsAreNaturals, SizeAssumption DEF Cells
  <2> QED
    BY <2>1 DEF Content
<1> QED
  BY <1>1, <1>2, <1>3 DEF ReadInto

(* Memory filled with one byte. *)
LEMMA FilledTypes == \A x \in Bytes : Filled(x) \in Content
  BY DEF Filled, Content

(* The storage of a block that has any is memory, or an extent, that exists. *)
LEMMA StorageExists ==
  ASSUME IInv, NEW b \in Blocks, Mapped(b)
  PROVE  blockMap[b].at \in Ptrs \cup Extents /\ Holds(b) \in Content
<1>1. blockMap[b].tier \in Tiers
  BY DEF IInv, TypeOK, Mapped, Location
<1>2. CASE blockMap[b].tier = "Pagefile"
  <2>1. blockMap[b].at \in 0 .. pagefileAllocated - 1 /\ pagefileAllocated \in 0 .. PagefileLimit
    BY <1>2 DEF IInv, StorageSound, ExtentSound, TypeOK
  <2>2. blockMap[b].at \in Extents
    BY <2>1, LimitAssumption DEF Extents
  <2> QED
    BY <2>2 DEF IInv, TypeOK, Holds
<1>3. CASE blockMap[b].tier \in {"Vram", "Ram"}
  <2>1. blockMap[b].at \in Ptrs
    BY <1>3 DEF IInv, StorageSound, PtrSound
  <2> QED
    BY <2>1 DEF IInv, TypeOK, Holds
<1> QED
  BY <1>1, <1>2, <1>3 DEF Tiers

-----------------------------------------------------------------------------
(* The step of a thread whose call is in progress works on a block. *)
LEMMA ActiveCall ==
  ASSUME IInv, NEW t \in Threads, pc[t] # "idle"
  PROVE  /\ call[t] \in Call /\ call[t].pos \in Offsets /\ call[t].pos <= call[t].end
         /\ call[t].end <= NumBlocks * BlockSize
         /\ Block(t) \in Blocks
<1>1. call[t] \in Call /\ call[t].pos \in Offsets /\ call[t].pos <= call[t].end
      /\ call[t].end <= NumBlocks * BlockSize
  BY DEF IInv, TypeOK, CallSound
<1> QED
  BY <1>1, BlockOfOffset DEF Block

(* Moving a block to RAM keeps the places and contents well typed. *)
LEMMA MigrateTypes ==
  ASSUME IInv, NEW b \in Blocks, NEW p \in Ptrs, Mapped(b), MigrateToRam(b, p)
  PROVE  /\ blockMap' \in [Blocks -> Location]
         /\ pool' \in [Ptrs -> Devices \cup {Host, Free}]
         /\ data' \in [Ptrs \cup Extents -> Content]
<1>1. TypeOK
  BY DEF IInv
<1>2. blockMap' \in [Blocks -> Location]
  BY <1>1 DEF TypeOK, MigrateToRam, Location, Tiers
<1>3. pool' \in [Ptrs -> Devices \cup {Host, Free}]
  BY <1>1 DEF TypeOK, MigrateToRam
<1>4. \A c \in MigratedContents(b) : c \in Content
  BY StorageExists, FilledTypes DEF MigratedContents, Holds, Bytes
<1>5. data' \in [Ptrs \cup Extents -> Content]
  BY <1>1, <1>4, FilledTypes DEF TypeOK, MigrateToRam, Bytes
<1> QED
  BY <1>2, <1>3, <1>5

(* An evicted block was in VRAM. *)
LEMMA EvictedIsMapped ==
  ASSUME NEW b \in Blocks, NEW d \in Devices, NEW p \in Ptrs, Evict(b, d, p)
  PROVE  /\ b \in OnDevice(d) /\ Mapped(b) /\ MigrateToRam(b, p)
         /\ gpuAllocated' = [gpuAllocated EXCEPT ![d] = IF @ >= 1 THEN @ - 1 ELSE 0]
  BY DEF Evict, MayEvict, OnDevice, Mapped

(* It leaves the counter of its device a natural number. *)
LEMMA EvictedCount ==
  ASSUME TypeOK, NEW b \in Blocks, NEW d \in Devices, NEW p \in Ptrs, Evict(b, d, p)
  PROVE  gpuAllocated' \in [Devices -> Nat]
<1>1. gpuAllocated \in [Devices -> Nat]
  BY DEF TypeOK
<1>2. gpuAllocated' = [gpuAllocated EXCEPT ![d] = IF @ >= 1 THEN @ - 1 ELSE 0]
  BY EvictedIsMapped
<1>3. (IF gpuAllocated[d] >= 1 THEN gpuAllocated[d] - 1 ELSE 0) \in Nat
  BY <1>1
<1> QED
  BY <1>1, <1>2, <1>3

(* A device holds finitely many blocks, at most its counter. *)
LEMMA DeviceCount ==
  ASSUME IInv, NEW d \in Devices
  PROVE  /\ IsFiniteSet(OnDevice(d))
         /\ Cardinality(OnDevice(d)) \in Nat
         /\ gpuAllocated[d] \in Nat
         /\ Cardinality(OnDevice(d)) <= gpuAllocated[d]
         /\ \A b \in OnDevice(d) : gpuAllocated[d] >= 1
<1>1. IsFiniteSet(Blocks)
  BY FS_Interval, SizeAssumption DEF Blocks
<1>2. OnDevice(d) \in SUBSET Blocks
  BY DEF OnDevice
<1>3. IsFiniteSet(OnDevice(d)) /\ Cardinality(OnDevice(d)) \in Nat
  BY <1>1, <1>2, FS_Subset, FS_CardinalityType
<1>4. gpuAllocated[d] \in Nat /\ Cardinality(OnDevice(d)) <= gpuAllocated[d]
  BY DEF IInv, TypeOK, VramWithinBudget
<1>5. ASSUME NEW b \in OnDevice(d) PROVE gpuAllocated[d] >= 1
  <2>1. Cardinality(OnDevice(d)) # 0
    BY <1>3, <1>5, FS_EmptySet
  <2> QED
    BY <1>3, <1>4, <2>1
<1> QED
  BY <1>3, <1>4, <1>5

-----------------------------------------------------------------------------
(* Every step preserves the types.  The bound of freeBlockPhysical's         *)
(* decrement is why the budget is part of the invariant.                     *)
LEMMA TypePreserved ==
  ASSUME IInv, [Next]_vars
  PROVE  TypeOK'
<1> USE DEF Goto, PCs, places
<1>0. TypeOK
  BY DEF IInv
<1>1. ASSUME NEW t \in Threads, NEW r \in Requests, Invoke(t, r) PROVE TypeOK'
  BY <1>0, <1>1, CallTypes DEF TypeOK, Invoke
<1>2. ASSUME NEW t \in Threads, RegisterAccess(t) PROVE TypeOK'
  <2>1. Block(t) \in Blocks
    BY <1>2, ActiveCall DEF RegisterAccess
  <2> QED
    BY <1>0, <1>2, <2>1 DEF TypeOK, RegisterAccess, Touched
<1>3. ASSUME NEW t \in Threads, Enter(t) PROVE TypeOK'
  <2>1. CASE ReturnFalse(t)
    BY <1>0, <1>3, <2>1, CallTypes DEF TypeOK, Enter, ReturnFalse
  <2>2. CASE owner' = t /\ UNCHANGED call
    BY <1>0, <1>3, <2>2 DEF TypeOK, Enter, ReturnFalse
  <2> QED
    BY <1>3, <2>1, <2>2 DEF Enter
<1>4. ASSUME NEW t \in Threads, Policy(t) PROVE TypeOK'
  BY <1>0, <1>4, LimitAssumption DEF TypeOK, Policy
<1>5. ASSUME NEW t \in Threads, NEW p \in Ptrs, PlaceInVram(t, p) PROVE TypeOK'
  <2>1. Block(t) \in Blocks
    BY <1>5, ActiveCall DEF PlaceInVram
  <2>2. PICK x \in Bytes :
          PlaceBlock(t, [tier |-> "Vram", dev |-> scan[t], at |-> p], Filled(x))
    BY <1>5 DEF PlaceInVram, Bytes
  <2>3. blockMap' \in [Blocks -> Location] /\ data' \in [Ptrs \cup Extents -> Content]
        /\ pc' \in [Threads -> PCs]
    BY <1>0, <1>5, <2>1, <2>2, FilledTypes DEF TypeOK, PlaceInVram, PlaceBlock, Location, Tiers
  <2>4. gpuAllocated' \in [Devices -> Nat] /\ pool' \in [Ptrs -> Devices \cup {Host, Free}]
    BY <1>0, <1>5 DEF TypeOK, PlaceInVram
  <2> QED
    BY <1>0, <1>5, <2>3, <2>4 DEF TypeOK, PlaceInVram
<1>6. ASSUME NEW t \in Threads, NEW b \in Blocks, NEW p \in Ptrs, EvictLRU(t, b, p)
      PROVE  TypeOK'
  <2>1. Evict(b, scan[t], p) /\ scan[t] \in Devices
    BY <1>6 DEF EvictLRU
  <2>2. gpuAllocated' \in [Devices -> Nat]
    BY <1>0, <2>1, EvictedCount
  <2> QED
    BY <1>0, <1>6, <2>1, <2>2, EvictedIsMapped, MigrateTypes DEF TypeOK, EvictLRU
<1>7. ASSUME NEW t \in Threads, SkipDevice(t) PROVE TypeOK'
  <2>1. scan[t] + 1 \in 0 .. NumDevices
    BY <1>7, LimitAssumption DEF SkipDevice, Devices
  <2> QED
    BY <1>0, <1>7, <2>1 DEF TypeOK, SkipDevice
<1>8. ASSUME NEW t \in Threads, OutOfVram(t) \/ LeaveVram(t) PROVE TypeOK'
  BY <1>0, <1>8 DEF TypeOK, OutOfVram, LeaveVram
<1>9. ASSUME NEW t \in Threads, NEW p \in Ptrs, AllocateRam(t, p) PROVE TypeOK'
  <2>1. Block(t) \in Blocks
    BY <1>9, ActiveCall DEF AllocateRam
  <2>2. hostAllocated' \in 0 .. WordBlocks - 1
    BY <1>0, <1>9, LimitAssumption DEF TypeOK, AllocateRam
  <2>3. blockMap' \in [Blocks -> Location] /\ data' \in [Ptrs \cup Extents -> Content]
    BY <1>0, <1>9, <2>1, FilledTypes DEF TypeOK, AllocateRam, PlaceBlock, Location, Tiers, Bytes
  <2>4. pc' \in [Threads -> PCs]
    BY <1>0, <1>9 DEF TypeOK, AllocateRam, PlaceBlock
  <2> QED
    BY <1>0, <1>9, <2>2, <2>3, <2>4 DEF TypeOK, AllocateRam
<1>10. ASSUME NEW t \in Threads, NoRam(t) PROVE TypeOK'
  BY <1>0, <1>10 DEF TypeOK, NoRam
<1>11. ASSUME NEW t \in Threads, AllocatePagefile(t) PROVE TypeOK'
  <2>1. Block(t) \in Blocks
    BY <1>11, ActiveCall DEF AllocatePagefile
  <2>2. pagefileAllocated' \in 0 .. PagefileLimit
    BY <1>0, <1>11, LimitAssumption DEF TypeOK, AllocatePagefile, PagefileFits
  <2>3. blockMap' \in [Blocks -> Location]
    BY <1>0, <1>11, <2>1, LimitAssumption DEF TypeOK, AllocatePagefile, Location, Tiers
  <2> QED
    BY <1>0, <1>11, <2>2, <2>3 DEF TypeOK, AllocatePagefile
<1>12. ASSUME NEW t \in Threads, NoPagefile(t) PROVE TypeOK'
  <2>1. CASE ReturnFalse(t)
    BY <1>0, <1>12, <2>1, CallTypes DEF TypeOK, NoPagefile, ReturnFalse
  <2>2. CASE Goto(t, "vram") /\ UNCHANGED <<owner, call>>
    BY <1>0, <1>12, <2>2 DEF TypeOK, NoPagefile
  <2> QED
    BY <1>12, <2>1, <2>2 DEF NoPagefile
<1>13. ASSUME NEW t \in Threads, CopyIn(t) PROVE TypeOK'
  <2>1. \A x \in Content : Written(call[t], x) \in Content
    BY <1>13, ActiveCall, CopyTypes DEF CopyIn
  <2>2. data' \in [Ptrs \cup Extents -> Content]
    BY <1>0, <1>13, <2>1 DEF TypeOK, CopyIn
  <2>3. Advance(call[t], BytesToCopy(call[t]), call[t].buf) \in Call
    BY <1>13, ActiveCall, CopySizes, CallTypes DEF CopyIn, Call
  <2> QED
    BY <1>0, <1>13, <2>2, <2>3 DEF TypeOK, CopyIn, Leave
<1>14. ASSUME NEW t \in Threads, CopyOut(t) PROVE TypeOK'
  <2>1. pc[t] = "copy" /\ Mapped(Block(t))
    BY <1>14 DEF CopyOut, IInv, PlaceKnown, Inside
  <2>2. ReadInto(call[t], Holds(Block(t))) \in [Offsets -> Bytes]
    BY <2>1, ActiveCall, StorageExists, CopyTypes
  <2>3. Advance(call[t], BytesToCopy(call[t]), ReadInto(call[t], Holds(Block(t)))) \in Call
    BY <2>1, <2>2, ActiveCall, CopySizes, CallTypes
  <2> QED
    BY <1>0, <1>14, <2>3 DEF TypeOK, CopyOut, Leave, Holds
<1>15. ASSUME NEW t \in Threads, CopyFails(t) PROVE TypeOK'
  <2>1. \A x \in Content : Written(call[t], x) \in Content
    BY <1>15, ActiveCall, CopyTypes DEF CopyFails
  <2>2. ASSUME data' = [data EXCEPT ![blockMap[Block(t)].at] = Written(call[t], @)]
        PROVE  data' \in [Ptrs \cup Extents -> Content]
    BY <1>0, <2>1, <2>2 DEF TypeOK
  <2>3. data' \in [Ptrs \cup Extents -> Content]
    BY <1>0, <1>15, <2>2 DEF TypeOK, CopyFails
  <2>4. ReturnFalse(t) /\ UNCHANGED <<scan, places, newer, history, alive>>
    BY <1>15 DEF CopyFails
  <2>5. /\ call' \in [Threads -> Call] /\ pc' \in [Threads -> PCs]
        /\ owner' \in Threads \cup {NoThread}
    BY <1>0, <2>4, CallTypes DEF TypeOK, ReturnFalse
  <2> QED
    BY <1>0, <2>3, <2>4, <2>5 DEF TypeOK
<1>16. ASSUME NEW b \in Blocks, RegisterOnly(b) PROVE TypeOK'
  BY <1>0, <1>16 DEF TypeOK, RegisterOnly, Touched
<1>17. ASSUME NEW tier \in Tiers, LogResidencyChange(tier) PROVE TypeOK'
  <2> DEFINE h == Append(history, tier)
  <2>1. h \in Seq(Tiers) /\ Len(h) = Len(history) + 1
    BY <1>0 DEF TypeOK
  <2>2. Tail(h) \in Seq(Tiers)
    <3>1. Len(history) \in Nat
      BY <1>0, LenProperties DEF TypeOK
    <3>2. h # <<>>
      BY <2>1, <3>1, EmptySeq
    <3> HIDE DEF h
    <3> QED
      BY <2>1, <3>2, HeadTailProperties
  <2> QED
    BY <1>0, <1>17, <2>1, <2>2 DEF TypeOK, LogResidencyChange
<1>18. ASSUME NEW b \in Blocks, NEW dev \in Devices \cup {Host}, NEW p \in Ptrs,
              MigrateBlockToTier(b, dev, p)
       PROVE  TypeOK'
  BY <1>0, <1>18, MigrateTypes DEF TypeOK, MigrateBlockToTier
<1>19. ASSUME NEW d \in Devices, NEW b \in Blocks, NEW p \in Ptrs,
              EvictLRUBlockFromGPU(d, b, p)
       PROVE  TypeOK'
  <2>1. Evict(b, d, p)
    BY <1>19 DEF EvictLRUBlockFromGPU
  <2>2. gpuAllocated' \in [Devices -> Nat]
    BY <1>0, <2>1, EvictedCount
  <2> QED
    BY <1>0, <1>19, <2>1, <2>2, EvictedIsMapped, MigrateTypes DEF TypeOK, EvictLRUBlockFromGPU
<1>20. ASSUME NEW b \in Blocks, FreeBlockPhysical(b) PROVE TypeOK'
  <2>1. gpuAllocated' \in [Devices -> Nat]
    BY <1>0, <1>20, DeviceCount DEF TypeOK, FreeBlockPhysical
  <2>2. hostAllocated' \in 0 .. WordBlocks - 1
    BY <1>0, <1>20, LimitAssumption DEF TypeOK, FreeBlockPhysical
  <2>3. blockMap' \in [Blocks -> Location]
    BY <1>0, <1>20 DEF TypeOK, FreeBlockPhysical, Unmapped, Location
  <2> QED
    BY <1>0, <1>20, <2>1, <2>2, <2>3 DEF TypeOK, FreeBlockPhysical
<1>21. ASSUME CleanupEffect, alive' \in BOOLEAN PROVE TypeOK'
  <2>1. blockMap' \in [Blocks -> Location]
    BY <1>21 DEF CleanupEffect, Unmapped, Location
  <2>2. data' \in [Ptrs \cup Extents -> Content]
    BY <1>0, <1>21, FilledTypes DEF TypeOK, CleanupEffect, Bytes
  <2>3. pool' \in [Ptrs -> Devices \cup {Host, Free}]
    BY <1>0, <1>21 DEF TypeOK, CleanupEffect
  <2>4. newer' \in [Blocks -> SUBSET Blocks] /\ mapping' \in BOOLEAN
    BY <1>21 DEF CleanupEffect
  <2>5. history' \in Seq(Tiers)
    BY <1>21, EmptySeq DEF CleanupEffect
  <2> QED
    BY <1>0, <1>21, <2>1, <2>2, <2>3, <2>4, <2>5 DEF TypeOK, CleanupEffect
<1>22. CASE Cleanup
  BY <1>0, <1>21, <1>22 DEF Cleanup, TypeOK
<1>23. CASE Destroy
  BY <1>21, <1>23 DEF Destroy
<1>24. CASE UNCHANGED vars
  BY <1>0, <1>24 DEF TypeOK, vars
<1> QED
  BY <1>1, <1>2, <1>3, <1>4, <1>5, <1>6, <1>7, <1>8, <1>9, <1>10, <1>11, <1>12, <1>13,
     <1>14, <1>15, <1>16, <1>17, <1>18, <1>19, <1>20, <1>22, <1>23, <1>24
     DEF Next, Step, Allocation, ClientOp, Destroyed

-----------------------------------------------------------------------------
(* At most one thread is inside, and none while the mutex is free. *)
LEMMA OnlyOwnerInside ==
  ASSUME IInv
  PROVE  /\ \A t, u \in Threads : pc[t] \in Inside /\ pc[u] \in Inside => t = u
         /\ owner = NoThread => \A t \in Threads : pc[t] \notin Inside
BY ThreadAssumption DEF IInv, LockSound

(* Operations other than the data calls leave the threads where they are. *)
LEMMA ClientOpKeepsCalls ==
  ASSUME ClientOp
  PROVE  UNCHANGED <<owner, pc, call, scan>>
BY DEF ClientOp, RegisterOnly, LogResidencyChange, MigrateBlockToTier,
       EvictLRUBlockFromGPU, FreeBlockPhysical, Cleanup, Destroy, CleanupEffect

(* Every step keeps LockSound. *)
LEMMA LockPreserved ==
  ASSUME IInv, [Next]_vars
  PROVE  LockSound'
<1> USE ThreadAssumption DEF Goto, LockSound, Inside
<1>0. LockSound /\ pc \in [Threads -> PCs]
  BY DEF IInv, TypeOK
<1>1. ASSUME NEW t \in Threads, NEW r \in Requests, Invoke(t, r) PROVE LockSound'
  BY <1>0, <1>1 DEF Invoke
<1>2. ASSUME NEW t \in Threads, RegisterAccess(t) PROVE LockSound'
  BY <1>0, <1>2 DEF RegisterAccess
<1>3. ASSUME NEW t \in Threads, Enter(t) PROVE LockSound'
  BY <1>0, <1>3 DEF Enter, ReturnFalse
<1>4. ASSUME NEW t \in Threads, Policy(t) PROVE LockSound'
  BY <1>0, <1>4 DEF Policy
<1>5. ASSUME NEW t \in Threads, NEW p \in Ptrs, PlaceInVram(t, p) PROVE LockSound'
  BY <1>0, <1>5 DEF PlaceInVram, PlaceBlock
<1>6. ASSUME NEW t \in Threads, NEW b \in Blocks, NEW p \in Ptrs, EvictLRU(t, b, p)
      PROVE  LockSound'
  BY <1>0, <1>6 DEF EvictLRU
<1>7. ASSUME NEW t \in Threads, OutOfVram(t) \/ SkipDevice(t) PROVE LockSound'
  BY <1>0, <1>7 DEF OutOfVram, SkipDevice, DeviceFails
<1>8. ASSUME NEW t \in Threads, LeaveVram(t) PROVE LockSound'
  BY <1>0, <1>8 DEF LeaveVram
<1>9. ASSUME NEW t \in Threads, NEW p \in Ptrs, AllocateRam(t, p) PROVE LockSound'
  BY <1>0, <1>9 DEF AllocateRam, PlaceBlock
<1>10. ASSUME NEW t \in Threads, NoRam(t) PROVE LockSound'
  BY <1>0, <1>10 DEF NoRam
<1>11. ASSUME NEW t \in Threads, AllocatePagefile(t) PROVE LockSound'
  BY <1>0, <1>11 DEF AllocatePagefile
<1>12. ASSUME NEW t \in Threads, NoPagefile(t) PROVE LockSound'
  BY <1>0, <1>12 DEF NoPagefile, ReturnFalse
<1>13. ASSUME NEW t \in Threads, CopyIn(t) PROVE LockSound'
  BY <1>0, <1>13 DEF CopyIn, Leave
<1>14. ASSUME NEW t \in Threads, CopyOut(t) PROVE LockSound'
  BY <1>0, <1>14 DEF CopyOut, Leave
<1>15. ASSUME NEW t \in Threads, CopyFails(t) PROVE LockSound'
  BY <1>0, <1>15 DEF CopyFails, ReturnFalse
<1>16. CASE ClientOp
  BY <1>0, <1>16, ClientOpKeepsCalls
<1>17. CASE UNCHANGED vars
  BY <1>0, <1>17 DEF vars
<1> QED
  BY <1>0, <1>1, <1>2, <1>3, <1>4, <1>5, <1>6, <1>7, <1>8, <1>9, <1>10, <1>11, <1>12, <1>13,
     <1>14, <1>15, <1>16, <1>17 DEF Next, Step, Allocation, Destroyed

(* A call that starts, or goes on after n bytes, keeps CallSound. *)
LEMMA CallProgress ==
  /\ \A r \in Requests :
       EarlyStatus(r) = "running" =>
         LET c == NewCall(r)
         IN c.status = "running" /\ c.pos \in Offsets /\ c.pos <= c.end
            /\ c.end <= NumBlocks * BlockSize
  /\ \A c \in Call, b \in [Offsets -> Bytes] :
       LET a == Advance(c, BytesToCopy(c), b)
       IN c.pos \in Offsets /\ c.pos <= c.end /\ c.end <= NumBlocks * BlockSize
            /\ a.status = "running"
          => a.pos \in Offsets /\ a.pos <= a.end /\ a.end <= NumBlocks * BlockSize
<1>1. ASSUME NEW r \in Requests, EarlyStatus(r) = "running"
      PROVE  LET c == NewCall(r)
             IN c.status = "running" /\ c.pos \in Offsets /\ c.pos <= c.end
                /\ c.end <= NumBlocks * BlockSize
  <2>1. r.off \in Offsets /\ r.size \in 0 .. NumBlocks * BlockSize
        /\ r.off + r.size <= NumBlocks * BlockSize
    BY RequestsAssumption DEF Request
  <2>2. r.off \in Nat
    BY <2>1, OffsetsAreNaturals
  <2>3. r.size \in Nat
    BY <2>1
  <2> QED
    BY <1>1, <2>1, <2>2, <2>3 DEF NewCall
<1>2. ASSUME NEW c \in Call, NEW b \in [Offsets -> Bytes], c.pos \in Offsets,
             c.pos <= c.end, c.end <= NumBlocks * BlockSize,
             Advance(c, BytesToCopy(c), b).status = "running"
      PROVE  LET a == Advance(c, BytesToCopy(c), b)
             IN a.pos \in Offsets /\ a.pos <= a.end /\ a.end <= NumBlocks * BlockSize
  <2> DEFINE n == BytesToCopy(c)
             a == Advance(c, n, b)
  <2>1. n \in Nat /\ c.pos \in Nat /\ c.end \in Nat
    BY <1>2, CopySizes, OffsetsAreNaturals DEF Call
  <2>2. a.pos = c.pos + n /\ a.end = c.end
        /\ a.status = (IF c.pos + n < c.end THEN "running" ELSE "true")
    BY DEF Advance, Call
  <2>3. c.pos + n < c.end
    BY <1>2, <2>2
  <2>4. a.pos \in Offsets
    BY <1>2, <2>1, <2>2, <2>3, OffsetsAreNaturals DEF Offsets
  <2> QED
    BY <1>2, <2>1, <2>2, <2>3, <2>4
<1> QED
  BY <1>1, <1>2

(* Every step keeps the calls in progress within their bounds. *)
LEMMA CallPreserved ==
  ASSUME IInv, [Next]_vars
  PROVE  \A u \in Threads : CallSound(u)'
<1> DEFINE Sound == \A u \in Threads : CallSound(u)'
<1> USE DEF Goto
<1>0. /\ pc \in [Threads -> PCs] /\ call \in [Threads -> Call]
      /\ \A u \in Threads : CallSound(u)
  BY DEF IInv, TypeOK
<1>a. ASSUME UNCHANGED call, \A u \in Threads : pc'[u] # "idle" => pc[u] # "idle"
      PROVE  Sound
  BY <1>0, <1>a DEF CallSound, Running
<1>b. ASSUME NEW t \in Threads, ReturnFalse(t) PROVE Sound
  BY <1>0, <1>b DEF CallSound, Running, ReturnFalse
<1>c. ASSUME NEW t \in Threads, NEW b \in [Offsets -> Bytes], pc[t] # "idle",
             Leave(t, Advance(call[t], BytesToCopy(call[t]), b))
      PROVE  Sound
  <2> DEFINE a == Advance(call[t], BytesToCopy(call[t]), b)
  <2>1. a.status = "running" =>
          a.pos \in Offsets /\ a.pos <= a.end /\ a.end <= NumBlocks * BlockSize
    BY <1>c, ActiveCall, CallProgress
  <2>2. call' = [call EXCEPT ![t] = a]
        /\ pc' = [pc EXCEPT ![t] = IF a.status = "running" THEN "register" ELSE "idle"]
    BY <1>c DEF Leave
  <2> HIDE DEF a
  <2> QED
    BY <1>0, <2>1, <2>2 DEF CallSound, Running
<1>1. ASSUME NEW t \in Threads, NEW r \in Requests, Invoke(t, r) PROVE Sound
  <2>1. CASE EarlyStatus(r) = "running"
    BY <1>0, <1>1, <2>1, CallProgress DEF Invoke, CallSound, Running
  <2>2. CASE EarlyStatus(r) # "running"
    BY <1>0, <1>1, <2>2 DEF Invoke, CallSound, Running
  <2> QED
    BY <2>1, <2>2
<1>2. ASSUME NEW t \in Threads, RegisterAccess(t) \/ Policy(t) PROVE Sound
  BY <1>0, <1>2, <1>a DEF RegisterAccess, Policy
<1>3. ASSUME NEW t \in Threads, Enter(t) PROVE Sound
  <2>1. CASE ReturnFalse(t)
    BY <1>b, <2>1
  <2>2. CASE ~ReturnFalse(t)
    BY <1>0, <1>3, <1>a, <2>2 DEF Enter
  <2> QED
    BY <2>1, <2>2
<1>4. ASSUME NEW t \in Threads, OutOfVram(t) \/ SkipDevice(t) \/ LeaveVram(t) \/ NoRam(t)
      PROVE  Sound
  BY <1>0, <1>4, <1>a DEF OutOfVram, SkipDevice, DeviceFails, LeaveVram, NoRam
<1>5. ASSUME NEW t \in Threads, NEW p \in Ptrs, PlaceInVram(t, p) \/ AllocateRam(t, p)
      PROVE  Sound
  BY <1>0, <1>5, <1>a DEF PlaceInVram, AllocateRam, PlaceBlock
<1>6. ASSUME NEW t \in Threads, NEW b \in Blocks, NEW p \in Ptrs, EvictLRU(t, b, p) PROVE Sound
  BY <1>0, <1>6, <1>a DEF EvictLRU
<1>7. ASSUME NEW t \in Threads, AllocatePagefile(t) PROVE Sound
  BY <1>0, <1>7, <1>a DEF AllocatePagefile
<1>8. ASSUME NEW t \in Threads, NoPagefile(t) PROVE Sound
  <2>1. CASE ReturnFalse(t)
    BY <1>b, <2>1
  <2>2. CASE ~ReturnFalse(t)
    BY <1>0, <1>8, <1>a, <2>2 DEF NoPagefile
  <2> QED
    BY <2>1, <2>2
<1>9. ASSUME NEW t \in Threads, CopyIn(t) PROVE Sound
  <2>1. call[t].buf \in [Offsets -> Bytes]
    BY <1>0 DEF Call
  <2> QED
    BY <1>9, <1>c, <2>1 DEF CopyIn
<1>10. ASSUME NEW t \in Threads, CopyOut(t) PROVE Sound
  <2>1. pc[t] = "copy" /\ Mapped(Block(t))
    BY <1>10 DEF CopyOut, IInv, PlaceKnown, Inside
  <2>2. ReadInto(call[t], Holds(Block(t))) \in [Offsets -> Bytes]
    BY <2>1, ActiveCall, StorageExists, CopyTypes
  <2> QED
    BY <1>10, <1>c, <2>1, <2>2 DEF CopyOut, Holds
<1>11. ASSUME NEW t \in Threads, CopyFails(t) PROVE Sound
  BY <1>11, <1>b DEF CopyFails
<1>12. CASE ClientOp
  BY <1>a, <1>12, ClientOpKeepsCalls
<1>13. CASE UNCHANGED vars
  BY <1>a, <1>13 DEF vars
<1> QED
  BY <1>1, <1>2, <1>3, <1>4, <1>5, <1>6, <1>7, <1>8, <1>9, <1>10, <1>11, <1>12, <1>13
     DEF Next, Step, Allocation, Destroyed

(* Every step keeps what a thread inside knows of its block and its device:  *)
(* nobody else is inside, and the other operations run only when nobody is.  *)
LEMMA KnownPreserved ==
  ASSUME IInv, [Next]_vars
  PROVE  \A u \in Threads : PlaceKnown(u)' /\ RetryFits(u)'
<1> DEFINE Known == \A u \in Threads : PlaceKnown(u)' /\ RetryFits(u)'
<1> USE DEF Goto
<1>0. /\ pc \in [Threads -> PCs] /\ call \in [Threads -> Call]
      /\ scan \in [Threads -> 0 .. NumDevices] /\ blockMap \in [Blocks -> Location]
      /\ gpuAllocated \in [Devices -> Nat]
      /\ \A u \in Threads : PlaceKnown(u) /\ RetryFits(u)
  BY DEF IInv, TypeOK
<1>a. ASSUME \A u \in Threads : pc'[u] \notin Inside PROVE Known
  BY <1>a DEF PlaceKnown, RetryFits, Inside
<1>b. ASSUME NEW t \in Threads, \A u \in Threads \ {t} : pc'[u] \notin Inside,
             PlaceKnown(t)', RetryFits(t)'
      PROVE  Known
  BY <1>b DEF PlaceKnown, RetryFits, Inside
<1>c. ASSUME NEW t \in Threads, pc[t] \in Inside, NEW l \in PCs \ Inside, Goto(t, l) PROVE Known
  BY <1>0, <1>a, <1>c, OnlyOwnerInside
<1>d. ASSUME owner = NoThread, UNCHANGED pc PROVE Known
  BY <1>a, <1>d, OnlyOwnerInside
<1>1. ASSUME NEW t \in Threads, NEW r \in Requests, Invoke(t, r) PROVE Known
  BY <1>0, <1>1 DEF Invoke, PlaceKnown, RetryFits, Inside, Mapped, Block, VramFits, FreePtrs,
                    places
<1>2. ASSUME NEW t \in Threads, RegisterAccess(t) PROVE Known
  BY <1>0, <1>2 DEF RegisterAccess, PlaceKnown, RetryFits, Inside, Mapped, Block, VramFits,
                    FreePtrs, places
<1>3. ASSUME NEW t \in Threads, Enter(t) PROVE Known
  BY <1>0, <1>3, <1>b, OnlyOwnerInside
     DEF Enter, ReturnFalse, PlaceKnown, RetryFits, Inside, Mapped, Block, places
<1>4. ASSUME NEW t \in Threads,
             Policy(t) \/ LeaveVram(t) \/ NoRam(t) \/ OutOfVram(t) \/ SkipDevice(t)
      PROVE  Known
  <2>1. /\ pc[t] \in Inside \ {"copy"} /\ pc'[t] \in Inside \ {"copy", "retry"}
        /\ \A u \in Threads \ {t} : pc'[u] = pc[u]
        /\ UNCHANGED <<call, places>>
    BY <1>0, <1>4
       DEF Policy, LeaveVram, NoRam, OutOfVram, SkipDevice, DeviceFails, Inside
  <2>2. PlaceKnown(t)'
    BY <1>0, <2>1 DEF PlaceKnown, Mapped, Block, places
  <2>3. RetryFits(t)'
    <3>1. CASE OutOfVram(t)
      BY <1>0, <3>1 DEF OutOfVram, RetryFits, VramFits, FreePtrs, places
    <3>2. CASE ~OutOfVram(t)
      BY <1>0, <1>4, <3>2 DEF Policy, LeaveVram, NoRam, SkipDevice, RetryFits
    <3> QED
      BY <3>1, <3>2
  <2> QED
    BY <1>b, <2>1, <2>2, <2>3, OnlyOwnerInside
<1>5. ASSUME NEW t \in Threads, NEW p \in Ptrs, PlaceInVram(t, p) \/ AllocateRam(t, p)
      PROVE  Known
  <2>1. pc[t] \in Inside /\ Block(t) \in Blocks
    BY <1>5, ActiveCall DEF PlaceInVram, AllocateRam, Inside
  <2>2. Mapped(Block(t))' /\ pc' = [pc EXCEPT ![t] = "copy"]
    BY <1>0, <1>5, <2>1 DEF PlaceInVram, AllocateRam, PlaceBlock, Mapped, Block
  <2> QED
    BY <1>0, <1>b, <2>1, <2>2, OnlyOwnerInside DEF PlaceKnown, RetryFits
<1>6. ASSUME NEW t \in Threads, NEW b \in Blocks, NEW p \in Ptrs, EvictLRU(t, b, p) PROVE Known
  <2>1. /\ pc[t] = "evict" /\ scan[t] \in Devices /\ VramFits(scan[t])
        /\ pc' = [pc EXCEPT ![t] = "retry"]
        /\ UNCHANGED <<call, scan>>
    BY <1>0, <1>6 DEF EvictLRU, RetryFits
  <2>2. Mapped(b) /\ MigrateToRam(b, p)
        /\ gpuAllocated' = [gpuAllocated EXCEPT ![scan[t]] = IF @ >= 1 THEN @ - 1 ELSE 0]
    BY <1>6, <2>1, EvictedIsMapped DEF EvictLRU
  <2>3. ~Mapped(Block(t)) /\ Block(t) # b /\ Block(t) \in Blocks
    BY <1>0, <2>1, <2>2, ActiveCall DEF PlaceKnown, Inside
  <2>4. ~Mapped(Block(t))'
    BY <1>0, <2>1, <2>2, <2>3 DEF MigrateToRam, Mapped, Block
  <2>5. VramFits(scan[t])'
    <3> DEFINE n == gpuAllocated[scan[t]]
    <3>1. n \in Nat /\ n + 1 <= VramLimit[scan[t]] /\ VramLimit[scan[t]] \in Nat
      BY <1>0, <2>1, LimitAssumption DEF VramFits
    <3>2. gpuAllocated'[scan[t]] = IF n >= 1 THEN n - 1 ELSE 0
      BY <1>0, <2>1, <2>2
    <3>3. gpuAllocated'[scan[t]] + 1 <= VramLimit[scan[t]]
      BY <3>1, <3>2
    <3> QED
      BY <2>1, <3>3 DEF VramFits
  <2> QED
    BY <1>0, <1>b, <2>1, <2>4, <2>5, OnlyOwnerInside DEF PlaceKnown, RetryFits, Inside
<1>7. ASSUME NEW t \in Threads, AllocatePagefile(t) PROVE Known
  <2>1. pc[t] \in Inside /\ Block(t) \in Blocks
    BY <1>7, ActiveCall DEF AllocatePagefile, Inside
  <2>2. Mapped(Block(t))' /\ pc' = [pc EXCEPT ![t] = "copy"]
    BY <1>0, <1>7, <2>1 DEF AllocatePagefile, Mapped, Block
  <2> QED
    BY <1>0, <1>b, <2>1, <2>2, OnlyOwnerInside DEF PlaceKnown, RetryFits
<1>8. ASSUME NEW t \in Threads, NoPagefile(t) PROVE Known
  <2>1. pc[t] \in Inside
    BY <1>8 DEF NoPagefile, Inside
  <2> QED
    BY <1>0, <1>8, <1>b, <2>1, OnlyOwnerInside
       DEF NoPagefile, ReturnFalse, PlaceKnown, RetryFits, Inside, Mapped, Block, places
<1>9. ASSUME NEW t \in Threads, CopyIn(t) \/ CopyOut(t) \/ CopyFails(t) PROVE Known
  BY <1>9, <1>c DEF CopyIn, CopyOut, CopyFails, Leave, ReturnFalse, Inside, PCs
<1>10. CASE ClientOp
  <2>1. CASE Destroy
    BY <1>a, <2>1 DEF Destroy, CleanupEffect, Inside
  <2>2. CASE ~Destroy
    BY <1>10, <1>d, <2>2, ClientOpKeepsCalls
       DEF ClientOp, Uses, RegisterOnly, LogResidencyChange, MigrateBlockToTier,
           EvictLRUBlockFromGPU, FreeBlockPhysical, Cleanup
  <2> QED
    BY <2>1, <2>2
<1>11. CASE UNCHANGED vars
  BY <1>0, <1>11 DEF vars, PlaceKnown, RetryFits, Mapped, Block, VramFits, FreePtrs, places
<1> QED
  BY <1>1, <1>2, <1>3, <1>4, <1>5, <1>6, <1>7, <1>8, <1>9, <1>10, <1>11
     DEF Next, Step, Allocation, Destroyed

-----------------------------------------------------------------------------
(* A block without storage gets memory nobody holds. *)
LEMMA FreshMemory ==
  ASSUME IInv, NEW b \in Blocks, ~Mapped(b), NEW p \in Ptrs, pool[p] = Free,
         NEW tier \in {"Vram", "Ram"}, NEW d \in Devices \cup {Host},
         d \in Devices <=> tier = "Vram",
         blockMap' = [blockMap EXCEPT ![b] = [tier |-> tier, dev |-> d, at |-> p]],
         pool' = [pool EXCEPT ![p] = d],
         mapping' = mapping, pagefileAllocated' = pagefileAllocated
  PROVE  StorageSound'
<1> DEFINE loc == [tier |-> tier, dev |-> d, at |-> p]
<1>0. /\ blockMap \in [Blocks -> Location] /\ pool \in [Ptrs -> Devices \cup {Host, Free}]
      /\ pagefileAllocated \in Nat
  BY DEF IInv, TypeOK
<1>1. Host \notin Devices /\ Free \notin Devices /\ Host # Free
  BY LimitAssumption DEF Host, Free, Devices
<1>2. \A x \in Blocks \ {b} : Mapped(x) => blockMap[x].at # p
  BY <1>0, <1>1, PtrAssumption
     DEF IInv, StorageSound, PtrSound, ExtentSound, Mapped, Location, Tiers
<1>3. /\ blockMap'[b] = loc /\ loc.tier = tier /\ loc.dev = d /\ loc.at = p
      /\ \A x \in Blocks \ {b} : blockMap'[x] = blockMap[x]
      /\ pool'[p] = d /\ \A q \in Ptrs \ {p} : pool'[q] = pool[q]
  BY <1>0
<1>4. ASSUME NEW x \in Blocks PROVE (PtrSound(x) /\ ExtentSound(x))'
  <2>1. CASE x = b
    BY <1>1, <1>3, <2>1 DEF PtrSound, ExtentSound
  <2>2. CASE x # b
    BY <1>2, <1>3, <2>2 DEF IInv, StorageSound, PtrSound, ExtentSound, Mapped
  <2> QED
    BY <2>1, <2>2
<1>5. NotShared'
  BY <1>2, <1>3 DEF IInv, StorageSound, NotShared, Mapped
<1> QED
  BY <1>4, <1>5 DEF StorageSound

(* A block that moves to RAM leaves its memory and gets memory nobody holds. *)
LEMMA MigrateKeepsStorage ==
  ASSUME IInv, NEW b \in Blocks, Mapped(b), NEW p \in Ptrs, MigrateToRam(b, p),
         mapping' = mapping, pagefileAllocated' = pagefileAllocated
  PROVE  StorageSound'
<1>0. /\ blockMap \in [Blocks -> Location] /\ pool \in [Ptrs -> Devices \cup {Host, Free}]
      /\ pagefileAllocated \in Nat
  BY DEF IInv, TypeOK
<1>1. Host \notin Devices /\ Free \notin Devices /\ Host # Free
  BY LimitAssumption DEF Host, Free, Devices
<1>2. pool[p] = Free
  BY DEF MigrateToRam, FreePtrs
<1>3. \A x \in Blocks : Mapped(x) => blockMap[x].at # p
  BY <1>0, <1>1, <1>2, PtrAssumption
     DEF IInv, StorageSound, PtrSound, ExtentSound, Mapped, Location, Tiers
<1>4. \A x \in Blocks \ {b} : Mapped(x) => blockMap[x].at # blockMap[b].at
  BY DEF IInv, StorageSound, NotShared
<1>5. /\ blockMap'[b].tier = "Ram" /\ blockMap'[b].at = p
      /\ \A x \in Blocks \ {b} : blockMap'[x] = blockMap[x]
  BY <1>0 DEF MigrateToRam
<1>6. /\ pool'[p] = Host
      /\ \A q \in Ptrs \ {p} : q # blockMap[b].at => pool'[q] = pool[q]
  BY <1>0 DEF MigrateToRam
<1>7. ASSUME NEW x \in Blocks PROVE (PtrSound(x) /\ ExtentSound(x))'
  <2>1. CASE x = b
    BY <1>5, <1>6, <2>1 DEF PtrSound, ExtentSound
  <2>2. CASE x # b
    BY <1>3, <1>4, <1>5, <1>6, <2>2 DEF IInv, StorageSound, PtrSound, ExtentSound, Mapped
  <2> QED
    BY <2>1, <2>2
<1>8. NotShared'
  BY <1>3, <1>5 DEF IInv, StorageSound, NotShared, Mapped
<1> QED
  BY <1>7, <1>8 DEF StorageSound

(* Every step keeps StorageSound. *)
LEMMA StoragePreserved ==
  ASSUME IInv, [Next]_vars
  PROVE  StorageSound'
<1> USE DEF places
<1>0. /\ StorageSound /\ blockMap \in [Blocks -> Location]
      /\ pool \in [Ptrs -> Devices \cup {Host, Free}] /\ pagefileAllocated \in Nat
  BY DEF IInv, TypeOK
<1>a. ASSUME UNCHANGED <<blockMap, pool, mapping, pagefileAllocated>> PROVE StorageSound'
  BY <1>0, <1>a DEF StorageSound, PtrSound, ExtentSound, NotShared, Mapped
<1>1. ASSUME NEW t \in Threads, NEW r \in Requests, Invoke(t, r) PROVE StorageSound'
  BY <1>1, <1>a DEF Invoke
<1>2. ASSUME NEW t \in Threads,
             \/ RegisterAccess(t) \/ Enter(t) \/ Policy(t) \/ OutOfVram(t) \/ SkipDevice(t)
             \/ LeaveVram(t) \/ NoRam(t) \/ NoPagefile(t)
             \/ CopyIn(t) \/ CopyOut(t) \/ CopyFails(t)
      PROVE  StorageSound'
  BY <1>2, <1>a DEF RegisterAccess, Enter, Policy, OutOfVram, SkipDevice, LeaveVram, NoRam,
                    NoPagefile, CopyIn, CopyOut, CopyFails
<1>3. ASSUME NEW t \in Threads, NEW p \in Ptrs, PlaceInVram(t, p) PROVE StorageSound'
  <2>1. Block(t) \in Blocks /\ ~Mapped(Block(t))
    BY <1>3, ActiveCall DEF PlaceInVram, IInv, PlaceKnown, Inside
  <2>2. /\ scan[t] \in Devices /\ pool[p] = Free /\ pool' = [pool EXCEPT ![p] = scan[t]]
        /\ blockMap' = [blockMap EXCEPT ![Block(t)] = [tier |-> "Vram", dev |-> scan[t], at |-> p]]
        /\ mapping' = mapping /\ pagefileAllocated' = pagefileAllocated
    BY <1>3 DEF PlaceInVram, PlaceBlock, FreePtrs
  <2> QED
    BY <2>1, <2>2, FreshMemory
<1>4. ASSUME NEW t \in Threads, NEW p \in Ptrs, AllocateRam(t, p) PROVE StorageSound'
  <2>1. Block(t) \in Blocks /\ ~Mapped(Block(t))
    BY <1>4, ActiveCall DEF AllocateRam, IInv, PlaceKnown, Inside
  <2>2. /\ pool[p] = Free /\ pool' = [pool EXCEPT ![p] = Host]
        /\ blockMap' = [blockMap EXCEPT ![Block(t)] = [tier |-> "Ram", dev |-> Host, at |-> p]]
        /\ mapping' = mapping /\ pagefileAllocated' = pagefileAllocated
    BY <1>4 DEF AllocateRam, PlaceBlock, FreePtrs
  <2>3. Host \notin Devices
    BY LimitAssumption DEF Host, Devices
  <2> QED
    BY <2>1, <2>2, <2>3, FreshMemory
<1>5. ASSUME NEW t \in Threads, AllocatePagefile(t) PROVE StorageSound'
  <2> DEFINE b == Block(t)
  <2>1. b \in Blocks /\ ~Mapped(b)
    BY <1>5, ActiveCall DEF AllocatePagefile, IInv, PlaceKnown, Inside
  <2>2. /\ blockMap'[b] = [tier |-> "Pagefile", dev |-> Host, at |-> pagefileAllocated]
        /\ \A x \in Blocks \ {b} : blockMap'[x] = blockMap[x]
        /\ mapping' = TRUE /\ pagefileAllocated' = pagefileAllocated + 1 /\ pool' = pool
    BY <1>0, <1>5, <2>1 DEF AllocatePagefile
  <2>3. \A x \in Blocks : Mapped(x) => blockMap[x].at # pagefileAllocated
    BY <1>0, PtrAssumption DEF StorageSound, PtrSound, ExtentSound, Mapped, Location, Tiers
  <2> HIDE DEF b
  <2>4. ASSUME NEW x \in Blocks PROVE (PtrSound(x) /\ ExtentSound(x))'
    <3>1. CASE x = b
      BY <1>0, <2>2, <3>1 DEF PtrSound, ExtentSound
    <3>2. CASE x # b
      BY <1>0, <2>2, <3>2 DEF StorageSound, PtrSound, ExtentSound
    <3> QED
      BY <3>1, <3>2
  <2>5. NotShared'
    BY <1>0, <2>2, <2>3 DEF StorageSound, NotShared, Mapped
  <2> QED
    BY <2>4, <2>5 DEF StorageSound
<1>6. ASSUME NEW b \in Blocks, NEW p \in Ptrs, Mapped(b), MigrateToRam(b, p),
             UNCHANGED <<mapping, pagefileAllocated>>
      PROVE  StorageSound'
  BY <1>6, MigrateKeepsStorage
<1>7. ASSUME NEW t \in Threads, NEW b \in Blocks, NEW p \in Ptrs, EvictLRU(t, b, p)
      PROVE  StorageSound'
  BY <1>6, <1>7, EvictedIsMapped DEF EvictLRU
<1>8. ASSUME NEW d \in Devices, NEW b \in Blocks, NEW p \in Ptrs, EvictLRUBlockFromGPU(d, b, p)
      PROVE  StorageSound'
  BY <1>6, <1>8, EvictedIsMapped DEF EvictLRUBlockFromGPU
<1>9. ASSUME NEW b \in Blocks, NEW dev \in Devices \cup {Host}, NEW p \in Ptrs,
             MigrateBlockToTier(b, dev, p)
      PROVE  StorageSound'
  BY <1>6, <1>9 DEF MigrateBlockToTier
<1>10. ASSUME NEW b \in Blocks, RegisterOnly(b) PROVE StorageSound'
  BY <1>10, <1>a DEF RegisterOnly
<1>11. ASSUME NEW tier \in Tiers, LogResidencyChange(tier) PROVE StorageSound'
  BY <1>11, <1>a DEF LogResidencyChange
<1>12. ASSUME NEW b \in Blocks, FreeBlockPhysical(b) PROVE StorageSound'
  BY <1>0, <1>12
     DEF FreeBlockPhysical, StorageSound, PtrSound, ExtentSound, NotShared, Mapped, Unmapped
<1>13. ASSUME CleanupEffect PROVE StorageSound'
  BY <1>13 DEF CleanupEffect, StorageSound, PtrSound, ExtentSound, NotShared, Mapped, Unmapped
<1>14. CASE UNCHANGED vars
  BY <1>14, <1>a DEF vars
<1> QED
  BY <1>1, <1>2, <1>3, <1>4, <1>5, <1>7, <1>8, <1>9, <1>10, <1>11, <1>12, <1>13, <1>14
     DEF Next, Step, Allocation, ClientOp, Cleanup, Destroy, Destroyed

-----------------------------------------------------------------------------
(* A device whose blocks are as before, or fewer, and whose counter did not  *)
(* change is within its budget.                                              *)
LEMMA CountKept ==
  ASSUME IInv, NEW d \in Devices, OnDevice(d)' \subseteq OnDevice(d),
         gpuAllocated'[d] = gpuAllocated[d]
  PROVE  Cardinality(OnDevice(d)') <= gpuAllocated'[d] /\ gpuAllocated'[d] <= VramLimit[d]
<1>1. /\ IsFiniteSet(OnDevice(d)) /\ Cardinality(OnDevice(d)) \in Nat
      /\ gpuAllocated[d] \in Nat /\ Cardinality(OnDevice(d)) <= gpuAllocated[d]
  BY DeviceCount
<1>2. IsFiniteSet(OnDevice(d)') /\ Cardinality(OnDevice(d)') <= Cardinality(OnDevice(d))
  BY <1>1, FS_Subset
<1>3. Cardinality(OnDevice(d)') \in Nat
  BY <1>2, FS_CardinalityType
<1>4. gpuAllocated[d] <= VramLimit[d]
  BY DEF IInv, VramWithinBudget
<1> QED
  BY <1>1, <1>2, <1>3, <1>4

(* The counter of a device follows a block that leaves it. *)
LEMMA CountDown ==
  ASSUME IInv, NEW d \in Devices, NEW b \in OnDevice(d),
         OnDevice(d)' = OnDevice(d) \ {b}, gpuAllocated'[d] = gpuAllocated[d] - 1
  PROVE  Cardinality(OnDevice(d)') <= gpuAllocated'[d] /\ gpuAllocated'[d] <= VramLimit[d]
<1>1. /\ IsFiniteSet(OnDevice(d)) /\ Cardinality(OnDevice(d)) \in Nat
      /\ gpuAllocated[d] \in Nat /\ Cardinality(OnDevice(d)) <= gpuAllocated[d]
  BY DeviceCount
<1>2. Cardinality(OnDevice(d)') = Cardinality(OnDevice(d)) - 1
  BY <1>1, FS_RemoveElement
<1>3. gpuAllocated[d] <= VramLimit[d] /\ VramLimit[d] \in Nat
  BY LimitAssumption DEF IInv, VramWithinBudget
<1> QED
  BY <1>1, <1>2, <1>3

(* An evicted block leaves its device only, together with its byte count. *)
LEMMA EvictKeepsBudget ==
  ASSUME IInv, NEW e \in Devices, NEW b \in Blocks, NEW p \in Ptrs, Evict(b, e, p)
  PROVE  VramWithinBudget'
<1>0. blockMap \in [Blocks -> Location] /\ gpuAllocated \in [Devices -> Nat]
  BY DEF IInv, TypeOK
<1>1. /\ b \in OnDevice(e) /\ Mapped(b) /\ MigrateToRam(b, p)
      /\ gpuAllocated' = [gpuAllocated EXCEPT ![e] = IF @ >= 1 THEN @ - 1 ELSE 0]
  BY EvictedIsMapped
<1>2. blockMap' = [blockMap EXCEPT ![b] = [tier |-> "Ram", dev |-> Host, at |-> p]]
  BY <1>1 DEF MigrateToRam
<1>3. ASSUME NEW d \in Devices
      PROVE  Cardinality(OnDevice(d)') <= gpuAllocated'[d] /\ gpuAllocated'[d] <= VramLimit[d]
  <2>1. OnDevice(d)' = OnDevice(d) \ {b}
    BY <1>0, <1>2 DEF OnDevice
  <2>2. CASE d = e
    <3>1. gpuAllocated'[d] = gpuAllocated[d] - 1
      BY <1>0, <1>1, <2>2, DeviceCount
    <3> QED
      BY <1>1, <2>1, <2>2, <3>1, CountDown
  <2>3. CASE d # e
    <3>1. gpuAllocated'[d] = gpuAllocated[d]
      BY <1>0, <1>1, <2>3
    <3> QED
      BY <2>1, <3>1, CountKept
  <2> QED
    BY <2>2, <2>3
<1> QED
  BY <1>3 DEF VramWithinBudget

(* Every step keeps the blocks on a device within its budget. *)
LEMMA BudgetPreserved ==
  ASSUME IInv, [Next]_vars
  PROVE  VramWithinBudget'
<1> USE DEF places
<1>0. blockMap \in [Blocks -> Location] /\ gpuAllocated \in [Devices -> Nat]
  BY DEF IInv, TypeOK
<1>a. ASSUME UNCHANGED gpuAllocated, \A d \in Devices : OnDevice(d)' \subseteq OnDevice(d)
      PROVE  VramWithinBudget'
  BY <1>a, CountKept DEF VramWithinBudget
<1>b. ASSUME UNCHANGED <<gpuAllocated, blockMap>> PROVE VramWithinBudget'
  BY <1>a, <1>b DEF OnDevice
<1>1. ASSUME NEW t \in Threads, NEW r \in Requests, Invoke(t, r) PROVE VramWithinBudget'
  BY <1>1, <1>b DEF Invoke
<1>2. ASSUME NEW t \in Threads,
             \/ RegisterAccess(t) \/ Enter(t) \/ Policy(t) \/ OutOfVram(t) \/ SkipDevice(t)
             \/ LeaveVram(t) \/ NoRam(t) \/ NoPagefile(t)
             \/ CopyIn(t) \/ CopyOut(t) \/ CopyFails(t)
      PROVE  VramWithinBudget'
  BY <1>2, <1>b DEF RegisterAccess, Enter, Policy, OutOfVram, SkipDevice, LeaveVram, NoRam,
                    NoPagefile, CopyIn, CopyOut, CopyFails
<1>3. ASSUME NEW t \in Threads, NEW p \in Ptrs, PlaceInVram(t, p) PROVE VramWithinBudget'
  <2> DEFINE b == Block(t)
             e == scan[t]
  <2>1. b \in Blocks /\ ~Mapped(b) /\ e \in Devices
    BY <1>3, ActiveCall DEF PlaceInVram, IInv, PlaceKnown, Inside
  <2>2. VramFits(e)
    BY <1>3 DEF PlaceInVram, IInv, RetryFits
  <2>3. /\ blockMap' = [blockMap EXCEPT ![b] = [tier |-> "Vram", dev |-> e, at |-> p]]
        /\ gpuAllocated' = [gpuAllocated EXCEPT ![e] = @ + 1]
    BY <1>3 DEF PlaceInVram, PlaceBlock
  <2> HIDE DEF b, e
  <2>4. ASSUME NEW d \in Devices
        PROVE  Cardinality(OnDevice(d)') <= gpuAllocated'[d] /\ gpuAllocated'[d] <= VramLimit[d]
    <3>1. CASE d = e
      <4>1. OnDevice(d)' = OnDevice(d) \cup {b} /\ b \notin OnDevice(d)
        BY <1>0, <2>1, <2>3, <3>1 DEF OnDevice, Mapped
      <4>2. Cardinality(OnDevice(d)') = Cardinality(OnDevice(d)) + 1
        BY <4>1, DeviceCount, FS_AddElement
      <4>3. gpuAllocated'[d] = gpuAllocated[d] + 1 /\ gpuAllocated[d] + 1 <= VramLimit[d]
        BY <1>0, <2>2, <2>3, <3>1 DEF VramFits
      <4> QED
        BY <4>2, <4>3, DeviceCount
    <3>2. CASE d # e
      <4>1. OnDevice(d)' = OnDevice(d) /\ gpuAllocated'[d] = gpuAllocated[d]
        BY <1>0, <2>1, <2>3, <3>2 DEF OnDevice, Mapped
      <4> QED
        BY <4>1, CountKept
    <3> QED
      BY <3>1, <3>2
  <2> QED
    BY <2>4 DEF VramWithinBudget
<1>4. ASSUME NEW t \in Threads, NEW p \in Ptrs, AllocateRam(t, p) PROVE VramWithinBudget'
  BY <1>0, <1>4, <1>a DEF AllocateRam, PlaceBlock, OnDevice
<1>5. ASSUME NEW t \in Threads, AllocatePagefile(t) PROVE VramWithinBudget'
  BY <1>0, <1>5, <1>a DEF AllocatePagefile, OnDevice
<1>6. ASSUME NEW t \in Threads, NEW b \in Blocks, NEW p \in Ptrs, EvictLRU(t, b, p)
      PROVE  VramWithinBudget'
  BY <1>6, EvictKeepsBudget DEF EvictLRU
<1>7. ASSUME NEW d \in Devices, NEW b \in Blocks, NEW p \in Ptrs, EvictLRUBlockFromGPU(d, b, p)
      PROVE  VramWithinBudget'
  BY <1>7, EvictKeepsBudget DEF EvictLRUBlockFromGPU
<1>8. ASSUME NEW b \in Blocks, NEW dev \in Devices \cup {Host}, NEW p \in Ptrs,
             MigrateBlockToTier(b, dev, p)
      PROVE  VramWithinBudget'
  BY <1>0, <1>8, <1>a DEF MigrateBlockToTier, MigrateToRam, OnDevice
<1>9. ASSUME NEW b \in Blocks, RegisterOnly(b) PROVE VramWithinBudget'
  BY <1>9, <1>b DEF RegisterOnly
<1>10. ASSUME NEW tier \in Tiers, LogResidencyChange(tier) PROVE VramWithinBudget'
  BY <1>10, <1>b DEF LogResidencyChange
<1>11. ASSUME NEW b \in Blocks, FreeBlockPhysical(b) PROVE VramWithinBudget'
  <2>1. blockMap' = [blockMap EXCEPT ![b] = Unmapped]
    BY <1>11 DEF FreeBlockPhysical
  <2>2. ASSUME NEW d \in Devices
        PROVE  Cardinality(OnDevice(d)') <= gpuAllocated'[d] /\ gpuAllocated'[d] <= VramLimit[d]
    <3>1. OnDevice(d)' = OnDevice(d) \ {b}
      BY <1>0, <2>1 DEF OnDevice, Unmapped
    <3>2. gpuAllocated'[d] = IF b \in OnDevice(d) THEN gpuAllocated[d] - 1 ELSE gpuAllocated[d]
      BY <1>11 DEF FreeBlockPhysical
    <3> QED
      BY <3>1, <3>2, CountDown, CountKept
  <2> QED
    BY <2>2 DEF VramWithinBudget
<1>12. ASSUME CleanupEffect PROVE VramWithinBudget'
  BY <1>12, <1>a DEF CleanupEffect, OnDevice, Unmapped
<1>13. CASE UNCHANGED vars
  BY <1>13, <1>b DEF vars
<1> QED
  BY <1>1, <1>2, <1>3, <1>4, <1>5, <1>6, <1>7, <1>8, <1>9, <1>10, <1>11, <1>12, <1>13
     DEF Next, Step, Allocation, ClientOp, Cleanup, Destroy, Destroyed

-----------------------------------------------------------------------------
(* The initial states satisfy the invariant. *)
LEMMA InitInvariant == Init => IInv
<1> SUFFICES ASSUME Init PROVE IInv
  OBVIOUS
<1>1. TypeOK
  <2>1. blockMap \in [Blocks -> Location] /\ data \in [Ptrs \cup Extents -> Content]
    BY FilledTypes DEF Init, Unmapped, Location, Bytes
  <2>2. call \in [Threads -> Call] /\ scan \in [Threads -> 0 .. NumDevices]
    BY CallTypes, LimitAssumption DEF Init
  <2>3. history \in Seq(Tiers)
    BY EmptySeq DEF Init
  <2>4. hostAllocated \in 0 .. WordBlocks - 1 /\ pagefileAllocated \in 0 .. PagefileLimit
    BY LimitAssumption DEF Init
  <2> QED
    BY <2>1, <2>2, <2>3, <2>4 DEF Init, TypeOK, PCs
<1>2. LockSound
  BY ThreadAssumption DEF Init, LockSound, Inside
<1>3. StorageSound
  BY DEF Init, StorageSound, PtrSound, ExtentSound, NotShared, Mapped, Unmapped
<1>4. VramWithinBudget
  <2>1. \A d \in Devices : OnDevice(d) = {} /\ gpuAllocated[d] = 0
    BY DEF Init, OnDevice, Unmapped
  <2> QED
    BY <2>1, FS_EmptySet, LimitAssumption DEF VramWithinBudget
<1>5. \A t \in Threads : CallSound(t) /\ PlaceKnown(t) /\ RetryFits(t)
  BY DEF Init, CallSound, PlaceKnown, RetryFits, Inside
<1> QED
  BY <1>1, <1>2, <1>3, <1>4, <1>5 DEF IInv

(* The invariant is inductive. *)
THEOREM Invariant == Spec => []IInv
<1>1. Init => IInv
  BY InitInvariant
<1>2. IInv /\ [Next]_vars => IInv'
  BY TypePreserved, LockPreserved, StoragePreserved, BudgetPreserved, CallPreserved,
     KnownPreserved DEF IInv
<1> QED
  BY <1>1, <1>2, PTL DEF Spec

(* The types, for every instance: no counter of bytes goes below zero or     *)
(* above its budget where the code relies on it.                             *)
THEOREM TypeCorrect == Spec => []TypeOK
<1>1. IInv => TypeOK
  BY DEF IInv
<1> QED
  BY <1>1, Invariant, PTL

(* Mutual exclusion of the second critical sections, and no path that keeps  *)
(* the mutex.                                                                *)
THEOREM LockCorrect == Spec => []LockSound
<1>1. IInv => LockSound
  BY DEF IInv
<1> QED
  BY <1>1, Invariant, PTL

(* No two blocks share storage, no block points to storage it does not hold, *)
(* whatever operations clients use and whatever calls fail.                  *)
THEOREM StorageCorrect == Spec => []StorageSound
<1>1. IInv => StorageSound
  BY DEF IInv
<1> QED
  BY <1>1, Invariant, PTL

(* The blocks in the VRAM of a device never outgrow its budget. *)
THEOREM VramBudgetCorrect == Spec => []VramWithinBudget
<1>1. IInv => VramWithinBudget
  BY DEF IInv
<1> QED
  BY <1>1, Invariant, PTL

-----------------------------------------------------------------------------
(* A thread that is in no call has none, and only writes allocate.           *)
IdleDone(t) == pc[t] = "idle" => ~Running(t)
WritesAllocate(t) == pc[t] \in Inside \ {"copy"} => call[t].op \in WriteOps

TInv == IInv /\ \A t \in Threads : IdleDone(t) /\ WritesAllocate(t)

(* A call that is over leaves its thread idle, and only a write gets past    *)
(* Enter with its block absent.                                              *)
LEMMA ThreadsPreserved ==
  ASSUME TInv, [Next]_vars, NEW u \in Threads
  PROVE  (IdleDone(u) /\ WritesAllocate(u))'
<1> USE DEF Goto, places, IdleDone, WritesAllocate, Running, Inside
<1>0. /\ IdleDone(u) /\ WritesAllocate(u)
      /\ pc \in [Threads -> PCs] /\ call \in [Threads -> Call]
  BY DEF TInv, IInv, TypeOK
<1> DEFINE Aim == (IdleDone(u) /\ WritesAllocate(u))'
<1>1. ASSUME NEW t \in Threads, NEW r \in Requests, Invoke(t, r) PROVE Aim
  BY <1>0, <1>1 DEF Invoke, NewCall
<1>2. ASSUME NEW t \in Threads, RegisterAccess(t) PROVE Aim
  BY <1>0, <1>2 DEF RegisterAccess
<1>3. ASSUME NEW t \in Threads, Enter(t) PROVE Aim
  <2>1. CASE ReturnFalse(t)
    BY <1>0, <2>1 DEF ReturnFalse, Failed, Call
  <2>2. CASE ~ReturnFalse(t)
    BY <1>0, <1>3, <2>2 DEF Enter
  <2> QED
    BY <2>1, <2>2
<1>4. ASSUME NEW t \in Threads,
             \/ Policy(t) \/ OutOfVram(t) \/ SkipDevice(t) \/ LeaveVram(t) \/ NoRam(t)
             \/ AllocatePagefile(t)
      PROVE  Aim
  BY <1>0, <1>4 DEF Policy, OutOfVram, SkipDevice, DeviceFails, LeaveVram, NoRam,
                    AllocatePagefile
<1>5. ASSUME NEW t \in Threads, NoPagefile(t) PROVE Aim
  <2>1. CASE ReturnFalse(t)
    BY <1>0, <2>1 DEF ReturnFalse, Failed, Call
  <2>2. CASE ~ReturnFalse(t)
    BY <1>0, <1>5, <2>2 DEF NoPagefile
  <2> QED
    BY <2>1, <2>2
<1>6. ASSUME NEW t \in Threads, NEW p \in Ptrs, PlaceInVram(t, p) \/ AllocateRam(t, p)
      PROVE  Aim
  BY <1>0, <1>6 DEF PlaceInVram, AllocateRam, PlaceBlock
<1>7. ASSUME NEW t \in Threads, NEW b \in Blocks, NEW p \in Ptrs, EvictLRU(t, b, p) PROVE Aim
  BY <1>0, <1>7 DEF EvictLRU
<1>8. ASSUME NEW t \in Threads, NEW c, Leave(t, c) PROVE Aim
  BY <1>0, <1>8 DEF Leave
<1>9. ASSUME NEW t \in Threads, CopyIn(t) \/ CopyOut(t) PROVE Aim
  BY <1>8, <1>9 DEF CopyIn, CopyOut
<1>10. ASSUME NEW t \in Threads, CopyFails(t) PROVE Aim
  BY <1>0, <1>10 DEF CopyFails, ReturnFalse, Failed, Call
<1>11. CASE ClientOp
  BY <1>0, <1>11, ClientOpKeepsCalls
<1>12. CASE UNCHANGED vars
  BY <1>0, <1>12 DEF vars
<1> QED
  BY <1>1, <1>2, <1>3, <1>4, <1>5, <1>6, <1>7, <1>9, <1>10, <1>11, <1>12
     DEF Next, Step, Allocation, Destroyed

(* Hence both hold in every reachable state.                                 *)
LEMMA ThreadInvariant == Spec => []TInv
<1> DEFINE Both == \A t \in Threads : IdleDone(t) /\ WritesAllocate(t)
<1>1. Init => Both
  <2>1. ASSUME Init, NEW t \in Threads PROVE pc[t] = "idle" /\ call[t].status = "true"
    BY <2>1 DEF Init, NoCall
  <2> QED
    BY <2>1 DEF IdleDone, WritesAllocate, Running, Inside
<1>2. IInv /\ Both /\ [Next]_vars => Both'
  <2>1. ASSUME IInv, Both, [Next]_vars, NEW t \in Threads
        PROVE  (IdleDone(t) /\ WritesAllocate(t))'
    <3>1. TInv
      BY <2>1 DEF TInv
    <3> QED
      BY <2>1, <3>1, ThreadsPreserved
  <2> QED
    BY <2>1
<1>3. IInv /\ Both => TInv
  BY DEF TInv
<1> HIDE DEF Both
<1> QED
  BY <1>1, <1>2, <1>3, Invariant, PTL DEF Spec

-----------------------------------------------------------------------------
(* The measure of a call, place by place. *)
LEMMA StepsAtPlaces ==
  ASSUME NEW n \in Nat
  PROVE  /\ StepsFrom("register", n) = 3 * NumDevices + 8
         /\ StepsFrom("enter", n) = 3 * NumDevices + 7
         /\ StepsFrom("policy", n) = 3 * NumDevices + 6
         /\ StepsFrom("stableRam", n) = 3 * NumDevices + 5
         /\ StepsFrom("stablePagefile", n) = 3 * NumDevices + 4
         /\ StepsFrom("vram", n) = 3 * n + 3
         /\ StepsFrom("evict", n) = 3 * n + 2
         /\ StepsFrom("retry", n) = 3 * n + 1
         /\ StepsFrom("ram", n) = 2
         /\ StepsFrom("pagefile", n) = 1
         /\ StepsFrom("copy", n) = 0
  BY DEF StepsFrom

(* A step that goes to a later place of the same block uses up steps. *)
LEMMA LaterPlace ==
  ASSUME IInv, NEW t \in Threads, NEW l \in PCs, NEW i \in 0 .. NumDevices,
         pc' = [pc EXCEPT ![t] = l], scan' = [scan EXCEPT ![t] = i], call' = call,
         StepsFrom(l, NumDevices - i) \in 0 .. StepsFrom(pc[t], NumDevices - scan[t]) - 1
  PROVE  /\ \A u \in Threads \ {t} : UNCHANGED <<pc[u], call[u], scan[u]>>
         /\ UNCHANGED call[t] /\ StepsLeft(t)' \in 0 .. StepsLeft(t) - 1
<1>1. pc \in [Threads -> PCs] /\ scan \in [Threads -> 0 .. NumDevices]
  BY DEF IInv, TypeOK
<1>2. /\ pc'[t] = l /\ scan'[t] = i
      /\ \A u \in Threads \ {t} : UNCHANGED <<pc[u], call[u], scan[u]>>
  BY <1>1
<1>3. StepsLeft(t)' = StepsFrom(l, NumDevices - i)
  BY <1>2 DEF StepsLeft
<1>4. StepsLeft(t) = StepsFrom(pc[t], NumDevices - scan[t])
  BY DEF StepsLeft
<1> QED
  BY <1>2, <1>3, <1>4

(* A step of a call that stays at its block takes one of the steps it has    *)
(* left there.                                                               *)
LEMMA AllocationSteps ==
  ASSUME IInv, NEW t \in Threads,
         \/ RegisterAccess(t) \/ Policy(t) \/ OutOfVram(t) \/ SkipDevice(t) \/ LeaveVram(t)
         \/ NoRam(t) \/ AllocatePagefile(t)
         \/ \E p \in Ptrs : PlaceInVram(t, p) \/ AllocateRam(t, p)
         \/ \E b \in Blocks, p \in Ptrs : EvictLRU(t, b, p)
  PROVE  /\ \A u \in Threads \ {t} : UNCHANGED <<pc[u], call[u], scan[u]>>
         /\ UNCHANGED call[t] /\ StepsLeft(t)' \in 0 .. StepsLeft(t) - 1
<1> USE DEF Goto
<1> DEFINE n == NumDevices - scan[t]
           Goes(l, i) == /\ pc' = [pc EXCEPT ![t] = l] /\ scan' = [scan EXCEPT ![t] = i]
                         /\ call' = call
                         /\ StepsFrom(l, NumDevices - i) \in 0 .. StepsFrom(pc[t], n) - 1
           Aim == \E l \in PCs, i \in 0 .. NumDevices : Goes(l, i)
<1>0. /\ pc \in [Threads -> PCs] /\ scan \in [Threads -> 0 .. NumDevices] /\ NumDevices \in Nat
      /\ scan[t] \in 0 .. NumDevices /\ n \in Nat
  BY LimitAssumption DEF IInv, TypeOK
<1>b. SUFFICES Aim
  BY LaterPlace
<1> HIDE DEF n
<1>c. /\ StepsFrom("register", n) = 3 * NumDevices + 8
      /\ StepsFrom("enter", n) = 3 * NumDevices + 7
      /\ StepsFrom("policy", n) = 3 * NumDevices + 6
      /\ StepsFrom("stableRam", n) = 3 * NumDevices + 5
      /\ StepsFrom("stablePagefile", n) = 3 * NumDevices + 4
      /\ StepsFrom("vram", n) = 3 * n + 3
      /\ StepsFrom("evict", n) = 3 * n + 2
      /\ StepsFrom("retry", n) = 3 * n + 1
      /\ StepsFrom("ram", n) = 2
      /\ StepsFrom("pagefile", n) = 1
      /\ StepsFrom("copy", n) = 0
  BY <1>0, StepsAtPlaces
<1>a. ASSUME NEW l \in PCs, pc' = [pc EXCEPT ![t] = l], UNCHANGED <<scan, call>>,
             StepsFrom(l, n) \in 0 .. StepsFrom(pc[t], n) - 1
      PROVE  Aim
  <2>1. scan' = [scan EXCEPT ![t] = scan[t]]
    BY <1>0, <1>a
  <2> QED
    BY <1>0, <1>a, <2>1
<1>1. CASE RegisterAccess(t)
  <2>1. StepsFrom("enter", n) \in 0 .. StepsFrom(pc[t], n) - 1
    BY <1>0, <1>1, <1>c DEF RegisterAccess
  <2> QED
    BY <1>1, <1>a, <2>1 DEF RegisterAccess, PCs
<1>2. CASE Policy(t)
  <2>1. PICK l \in {"stableRam", "vram"} :
               pc' = [pc EXCEPT ![t] = l] /\ scan' = [scan EXCEPT ![t] = 0] /\ call' = call
    BY <1>2 DEF Policy
  <2>2. pc[t] = "policy" /\ NumDevices - 0 = NumDevices
    BY <1>0, <1>2 DEF Policy
  <2>3. StepsFrom("stableRam", NumDevices) = 3 * NumDevices + 5
        /\ StepsFrom("vram", NumDevices) = 3 * NumDevices + 3
    BY <1>0, StepsAtPlaces
  <2>4. StepsFrom(l, NumDevices) \in 0 .. StepsFrom("policy", n) - 1
    BY <1>0, <1>c, <2>1, <2>3
  <2>5. l \in PCs /\ 0 \in 0 .. NumDevices /\ Goes(l, 0)
    BY <1>0, <2>1, <2>2, <2>4 DEF PCs
  <2> QED
    BY <2>5
<1>3. CASE OutOfVram(t)
  <2>1. StepsFrom("evict", n) \in 0 .. StepsFrom(pc[t], n) - 1
    BY <1>0, <1>3, <1>c DEF OutOfVram
  <2> QED
    BY <1>3, <1>a, <2>1 DEF OutOfVram, PCs
<1>4. CASE SkipDevice(t)
  <2>1. /\ scan[t] + 1 \in 0 .. NumDevices /\ pc[t] \in {"vram", "evict", "retry"}
        /\ scan' = [scan EXCEPT ![t] = scan[t] + 1] /\ pc' = [pc EXCEPT ![t] = "vram"]
        /\ call' = call
    BY <1>0, <1>4 DEF SkipDevice, DeviceFails, Devices
  <2>2. NumDevices - (scan[t] + 1) = n - 1 /\ n - 1 \in Nat
    BY <1>0, <2>1 DEF n
  <2>3. StepsFrom("vram", n - 1) = 3 * (n - 1) + 3
    BY <2>2, StepsAtPlaces
  <2>4. StepsFrom("vram", n - 1) \in 0 .. StepsFrom(pc[t], n) - 1
    BY <1>0, <2>1, <2>2, <2>3, <1>c
  <2> QED
    BY <2>1, <2>2, <2>4 DEF PCs
<1>5. CASE LeaveVram(t)
  <2>1. StepsFrom("ram", n) \in 0 .. StepsFrom(pc[t], n) - 1
    BY <1>0, <1>5, <1>c DEF LeaveVram
  <2> QED
    BY <1>5, <1>a, <2>1 DEF LeaveVram, PCs
<1>6. CASE NoRam(t)
  <2>1. UNCHANGED <<scan, call>>
    BY <1>6 DEF NoRam
  <2>2. CASE pc[t] = "stableRam" /\ pc' = [pc EXCEPT ![t] = "stablePagefile"]
    <3>1. StepsFrom("stablePagefile", n) \in 0 .. StepsFrom(pc[t], n) - 1
      BY <1>0, <1>c, <2>2
    <3> QED
      BY <1>a, <2>1, <2>2, <3>1 DEF PCs
  <2>3. CASE pc[t] = "ram" /\ pc' = [pc EXCEPT ![t] = "pagefile"]
    <3>1. StepsFrom("pagefile", n) \in 0 .. StepsFrom(pc[t], n) - 1
      BY <1>0, <1>c, <2>3
    <3> QED
      BY <1>a, <2>1, <2>3, <3>1 DEF PCs
  <2> QED
    BY <1>6, <2>2, <2>3 DEF NoRam
<1>7. ASSUME pc[t] \notin {"idle", "copy"}, pc' = [pc EXCEPT ![t] = "copy"],
             UNCHANGED <<scan, call>>
      PROVE  Aim
  <2>1. StepsFrom("copy", n) \in 0 .. StepsFrom(pc[t], n) - 1
    BY <1>0, <1>7, <1>c DEF PCs
  <2> QED
    BY <1>7, <1>a, <2>1 DEF PCs
<1>8. CASE AllocatePagefile(t)
  BY <1>7, <1>8 DEF AllocatePagefile
<1>9. CASE \E p \in Ptrs : PlaceInVram(t, p) \/ AllocateRam(t, p)
  BY <1>7, <1>9 DEF PlaceInVram, AllocateRam, PlaceBlock
<1>10. CASE \E b \in Blocks, p \in Ptrs : EvictLRU(t, b, p)
  <2>1. StepsFrom("retry", n) \in 0 .. StepsFrom(pc[t], n) - 1
    BY <1>0, <1>10, <1>c DEF EvictLRU
  <2> QED
    BY <1>10, <1>a, <2>1 DEF EvictLRU, PCs
<1> QED
  BY <1>1, <1>2, <1>3, <1>4, <1>5, <1>6, <1>8, <1>9, <1>10

(* A copy ends the call or gets it past bytes of its own. *)
LEMMA CopiesAdvance ==
  ASSUME IInv, NEW t \in Threads, CopyIn(t) \/ CopyOut(t)
  PROVE  /\ \A u \in Threads \ {t} : UNCHANGED <<pc[u], call[u], scan[u]>>
         /\ pc'[t] = "idle" \/ call'[t].pos \in call[t].pos + 1 .. call[t].end
<1> DEFINE c == call[t]
           n == BytesToCopy(c)
<1>0. pc \in [Threads -> PCs] /\ call \in [Threads -> Call]
  BY DEF IInv, TypeOK
<1>1. pc[t] = "copy"
  BY DEF CopyIn, CopyOut
<1>2. c \in Call /\ c.pos \in Offsets /\ c.pos <= c.end /\ c.pos \in Nat /\ c.end \in Nat
  BY <1>1, ActiveCall, OffsetsAreNaturals DEF Call
<1>3. PICK b : Leave(t, Advance(c, n, b)) /\ UNCHANGED scan
  BY DEF CopyIn, CopyOut
<1>4. /\ call' = [call EXCEPT ![t] = Advance(c, n, b)]
      /\ pc' = [pc EXCEPT ![t] = IF Advance(c, n, b).status = "running"
                                   THEN "register" ELSE "idle"]
  BY <1>3 DEF Leave, Goto
<1>5. /\ Advance(c, n, b).pos = c.pos + n
      /\ Advance(c, n, b).status = IF c.pos + n < c.end THEN "running" ELSE "true"
  BY <1>2 DEF Advance, Call
<1>6. ASSUME c.pos + n < c.end PROVE c.pos + n \in c.pos + 1 .. c.end
  <2>1. n \in Nat /\ c.pos + n <= c.end
    BY <1>2, CopySizes
  <2>2. BlockOffset(c) \in 0 .. BlockSize - 1 /\ BlockSize \in Nat
    BY <1>2, CopySizes, SizeAssumption DEF Cells
  <2>3. n # 0
    BY <1>2, <1>6, <2>2 DEF BytesToCopy
  <2> QED
    BY <1>2, <2>1, <2>3
<1> HIDE DEF c, n
<1>7. \A u \in Threads \ {t} : UNCHANGED <<pc[u], call[u], scan[u]>>
  BY <1>0, <1>3, <1>4
<1>8. CASE c.pos + n < c.end
  <2>1. call'[t].pos = c.pos + n
    BY <1>0, <1>4, <1>5
  <2> QED
    BY <1>6, <1>7, <1>8, <2>1 DEF c
<1>9. CASE ~(c.pos + n < c.end)
  BY <1>0, <1>4, <1>5, <1>7, <1>9
<1> QED
  BY <1>8, <1>9

(* No call goes round in circles, for every number of devices and threads    *)
(* and whatever fails.                                                       *)
THEOREM CallsAdvanceCorrect == Spec => CallsAdvance
<1> DEFINE Aim(t) == pc[t] # "idle" =>
             \/ UNCHANGED <<pc[t], call[t], scan[t]>>
             \/ pc'[t] = "idle"
             \/ call'[t].pos \in call[t].pos + 1 .. call[t].end
             \/ UNCHANGED call[t] /\ StepsLeft(t)' \in 0 .. StepsLeft(t) - 1
           Stays(t) == UNCHANGED <<pc[t], call[t], scan[t]>>
<1>1. ASSUME IInv, [Next]_vars, NEW t \in Threads PROVE Aim(t)
  <2>0. /\ pc \in [Threads -> PCs] /\ call \in [Threads -> Call]
        /\ scan \in [Threads -> 0 .. NumDevices] /\ NumDevices \in Nat
    BY <1>1, LimitAssumption DEF IInv, TypeOK
  <2>b. ASSUME NEW u \in Threads
        PROVE  LET n == NumDevices - scan[u]
               IN /\ StepsFrom("enter", n) = 3 * NumDevices + 7
                  /\ StepsFrom("policy", n) = 3 * NumDevices + 6
                  /\ StepsFrom("stablePagefile", n) = 3 * NumDevices + 4
                  /\ StepsFrom("vram", n) = 3 * n + 3
                  /\ StepsFrom("copy", n) = 0
                  /\ n \in 0 .. NumDevices
    <3> DEFINE n == NumDevices - scan[u]
    <3>1. n \in 0 .. NumDevices /\ n \in Nat
      BY <2>0
    <3> HIDE DEF n
    <3>2. /\ StepsFrom("enter", n) = 3 * NumDevices + 7
          /\ StepsFrom("policy", n) = 3 * NumDevices + 6
          /\ StepsFrom("stablePagefile", n) = 3 * NumDevices + 4
          /\ StepsFrom("vram", n) = 3 * n + 3
          /\ StepsFrom("copy", n) = 0
      BY <3>1, StepsAtPlaces
    <3> QED
      BY <3>1, <3>2 DEF n
  <2>a. ASSUME NEW u \in Threads, NEW l \in PCs, pc' = [pc EXCEPT ![u] = l],
               UNCHANGED <<call, scan>>,
               StepsFrom(l, NumDevices - scan[u])
                 \in 0 .. StepsFrom(pc[u], NumDevices - scan[u]) - 1
        PROVE  Aim(t)
    <3>1. scan' = [scan EXCEPT ![u] = scan[u]] /\ scan[u] \in 0 .. NumDevices
      BY <2>0, <2>a
    <3> QED
      BY <1>1, <2>a, <3>1, LaterPlace
  <2>1. ASSUME NEW u \in Threads, NEW r \in Requests, Invoke(u, r) PROVE Aim(t)
    BY <2>0, <2>1 DEF Invoke, Goto
  <2>2. ASSUME NEW u \in Threads, ReturnFalse(u), UNCHANGED scan PROVE Aim(t)
    BY <2>0, <2>2 DEF ReturnFalse, Goto
  <2>3. ASSUME NEW u \in Threads, Enter(u) PROVE Aim(t)
    <3>1. CASE ReturnFalse(u)
      BY <2>2, <2>3, <3>1 DEF Enter
    <3>2. CASE ~ReturnFalse(u)
      <4>1. PICK l \in {"copy", "policy"} :
                   pc[u] = "enter" /\ pc' = [pc EXCEPT ![u] = l] /\ UNCHANGED <<call, scan>>
        BY <2>3, <3>2 DEF Enter, Goto
      <4>2. StepsFrom(l, NumDevices - scan[u])
              \in 0 .. StepsFrom(pc[u], NumDevices - scan[u]) - 1
        BY <2>0, <2>b, <4>1
      <4> QED
        BY <1>1, <2>a, <4>1, <4>2 DEF PCs
    <3> QED
      BY <3>1, <3>2
  <2>4. ASSUME NEW u \in Threads, NoPagefile(u) PROVE Aim(t)
    <3>1. CASE ReturnFalse(u)
      BY <2>2, <2>4, <3>1 DEF NoPagefile
    <3>2. CASE ~ReturnFalse(u)
      <4>1. /\ pc[u] = "stablePagefile" /\ UNCHANGED <<call, scan>>
            /\ pc' = [pc EXCEPT ![u] = "vram"]
        BY <2>4, <3>2 DEF NoPagefile, Goto
      <4>2. StepsFrom("vram", NumDevices - scan[u])
              \in 0 .. StepsFrom(pc[u], NumDevices - scan[u]) - 1
        BY <2>0, <2>b, <4>1
      <4> QED
        BY <1>1, <2>a, <4>1, <4>2 DEF PCs
    <3> QED
      BY <3>1, <3>2
  <2>5. ASSUME NEW u \in Threads, CopyFails(u) PROVE Aim(t)
    BY <2>2, <2>5 DEF CopyFails
  <2>6. ASSUME NEW u \in Threads, CopyIn(u) \/ CopyOut(u) PROVE Aim(t)
    BY <1>1, <2>6, CopiesAdvance
  <2>7. ASSUME NEW u \in Threads, RegisterAccess(u) \/ Allocation(u) PROVE Aim(t)
    BY <1>1, <2>4, <2>7, AllocationSteps DEF Allocation
  <2>8. CASE ClientOp
    <3>1. UNCHANGED <<pc, call, scan>>
      BY <2>8 DEF ClientOp, RegisterOnly, FreeBlockPhysical, LogResidencyChange,
                  MigrateBlockToTier, EvictLRUBlockFromGPU, Cleanup, Destroy, CleanupEffect
    <3> QED
      BY <3>1
  <2>9. CASE UNCHANGED vars
    BY <2>9 DEF vars
  <2> QED
    BY <1>1, <2>1, <2>3, <2>5, <2>6, <2>7, <2>8, <2>9 DEF Next, Step, Destroyed
<1>2. IInv /\ [Next]_vars => [\A t \in Threads : Aim(t)]_vars
  BY <1>1
<1> QED
  BY <1>2, Invariant, PTL DEF Spec, CallsAdvance
=============================================================================
