-------------------- MODULE VirtualGpuMemoryClientProofs --------------------
(***************************************************************************)
(* What VirtualGpuMemory promises only to clients that leave some of its   *)
(* public operations alone, or when some calls of the system do not fail:  *)
(* nothing leaks, the budgets of the devices and of the RAM are exact, the *)
(* victim of an eviction is the oldest block, the destructor gives         *)
(* everything back, blocks get the tier that the policy wants, and clients *)
(* see a flat store of bytes.  Each theorem names the operations and       *)
(* faults it does not allow; everything else is arbitrary, as in           *)
(* VirtualGpuMemoryProofs.                                                 *)
(***************************************************************************)
EXTENDS VirtualGpuMemoryProofs

(* What a step does to the places of the blocks.                             *)
Stays  == UNCHANGED <<blockMap, pool, gpuAllocated, mapping, alive>>

Placed(t, loc) ==
  /\ pc[t] \in {"vram", "retry", "stableRam", "ram", "stablePagefile", "pagefile"}
  /\ Block(t) \in Blocks /\ ~Mapped(Block(t))
  /\ blockMap' = [blockMap EXCEPT ![Block(t)] = loc]
  /\ alive' = alive /\ newer' = newer

InVram(t, p) ==
  /\ scan[t] \in Devices /\ p \in Ptrs
  /\ Placed(t, [tier |-> "Vram", dev |-> scan[t], at |-> p])
  /\ pool' = [pool EXCEPT ![p] = scan[t]] /\ mapping' = mapping
  /\ gpuAllocated' = [gpuAllocated EXCEPT ![scan[t]] = @ + 1]

ToRam(t, p) ==
  /\ p \in Ptrs /\ Placed(t, [tier |-> "Ram", dev |-> Host, at |-> p])
  /\ pool' = [pool EXCEPT ![p] = Host] /\ UNCHANGED <<mapping, gpuAllocated>>

ToPagefile(t) ==
  /\ Placed(t, [tier |-> "Pagefile", dev |-> Host, at |-> pagefileAllocated])
  /\ UNCHANGED <<pool, gpuAllocated>>

Evicted(b, d, p) == Evict(b, d, p) /\ UNCHANGED <<mapping, alive, newer>>

Freed(b) ==
  /\ "freeBlockPhysical" \in ClientOps /\ FreeBlockPhysical(b)

Cleaned ==
  /\ CleanupEffect
  /\ \/ "cleanup" \in ClientOps /\ alive' = alive
     \/ alive' = FALSE /\ \A t \in Threads : pc[t] = "idle"

(* Every step without migrateBlockToTier is one of these.                    *)
LEMMA StepKinds ==
  ASSUME IInv, [Next]_vars, "migrateBlockToTier" \notin ClientOps
  PROVE  \/ Stays
         \/ \E t \in Threads, p \in Ptrs : InVram(t, p) \/ ToRam(t, p)
         \/ \E t \in Threads : ToPagefile(t)
         \/ \E b \in Blocks, d \in Devices, p \in Ptrs : Evicted(b, d, p)
         \/ \E b \in Blocks : Freed(b)
         \/ Cleaned
<1> USE DEF places
<1>1. ASSUME NEW t \in Threads, NEW r \in Requests, Invoke(t, r) PROVE Stays
  BY <1>1 DEF Invoke, Stays
<1>2. ASSUME NEW t \in Threads,
             \/ RegisterAccess(t) \/ Enter(t) \/ Policy(t) \/ OutOfVram(t) \/ SkipDevice(t)
             \/ LeaveVram(t) \/ NoRam(t) \/ NoPagefile(t) \/ CopyIn(t) \/ CopyOut(t) \/ CopyFails(t)
      PROVE  Stays
  BY <1>2 DEF RegisterAccess, Enter, Policy, OutOfVram, SkipDevice, DeviceFails, LeaveVram,
              NoRam, NoPagefile, CopyIn, CopyOut, CopyFails, Stays
<1>3. ASSUME NEW t \in Threads, NEW p \in Ptrs, PlaceInVram(t, p) PROVE InVram(t, p)
  <2>1. Block(t) \in Blocks /\ ~Mapped(Block(t))
    BY <1>3, ActiveCall DEF PlaceInVram, IInv, PlaceKnown, Inside
  <2> QED
    BY <1>3, <2>1 DEF PlaceInVram, PlaceBlock, InVram, Placed
<1>4. ASSUME NEW t \in Threads, NEW p \in Ptrs, AllocateRam(t, p) PROVE ToRam(t, p)
  <2>1. Block(t) \in Blocks /\ ~Mapped(Block(t))
    BY <1>4, ActiveCall DEF AllocateRam, IInv, PlaceKnown, Inside
  <2> QED
    BY <1>4, <2>1 DEF AllocateRam, PlaceBlock, ToRam, Placed
<1>5. ASSUME NEW t \in Threads, AllocatePagefile(t) PROVE ToPagefile(t)
  <2>1. Block(t) \in Blocks /\ ~Mapped(Block(t))
    BY <1>5, ActiveCall DEF AllocatePagefile, IInv, PlaceKnown, Inside
  <2> QED
    BY <1>5, <2>1 DEF AllocatePagefile, ToPagefile, Placed
<1>6. ASSUME NEW t \in Threads, NEW b \in Blocks, NEW p \in Ptrs, EvictLRU(t, b, p)
      PROVE  \E d \in Devices : Evicted(b, d, p)
  BY <1>6 DEF EvictLRU, Evicted
<1>7. ASSUME NEW d \in Devices, NEW b \in Blocks, NEW p \in Ptrs, EvictLRUBlockFromGPU(d, b, p)
      PROVE  Evicted(b, d, p)
  BY <1>7 DEF EvictLRUBlockFromGPU, Evicted
<1>8. ASSUME NEW b \in Blocks, RegisterOnly(b) PROVE Stays
  BY <1>8 DEF RegisterOnly, Stays
<1>9. ASSUME NEW tier \in Tiers, LogResidencyChange(tier) PROVE Stays
  BY <1>9 DEF LogResidencyChange, Stays
<1>10. ASSUME NEW b \in Blocks, FreeBlockPhysical(b) PROVE Freed(b)
  BY <1>10 DEF FreeBlockPhysical, Uses, Freed
<1>11. ASSUME Cleanup \/ Destroy PROVE Cleaned
  BY <1>11 DEF Cleanup, Destroy, Uses, Cleaned
<1>12. ASSUME NEW b \in Blocks, NEW dev \in Devices \cup {Host}, NEW p \in Ptrs,
              MigrateBlockToTier(b, dev, p)
       PROVE  FALSE
  BY <1>12 DEF MigrateBlockToTier, Uses
<1>13. CASE UNCHANGED vars
  BY <1>13 DEF vars, Stays
<1>14. CASE ClientOp
  BY <1>7, <1>8, <1>9, <1>10, <1>11, <1>12, <1>14 DEF ClientOp
<1>15. ASSUME NEW t \in Threads, Step(t)
       PROVE  \/ Stays
              \/ \E p \in Ptrs : InVram(t, p) \/ ToRam(t, p)
              \/ ToPagefile(t)
              \/ \E b \in Blocks, d \in Devices, p \in Ptrs : Evicted(b, d, p)
  BY <1>2, <1>3, <1>4, <1>5, <1>6, <1>15 DEF Step, Allocation
<1> QED
  BY <1>1, <1>13, <1>14, <1>15 DEF Next, Destroyed

-----------------------------------------------------------------------------
(* Memory.                                                                   *)

HeldBy(p, b) == HoldsPtr(b) /\ blockMap[b].at = p

(* Whatever is placed, moved or cleaned up, memory keeps its block.          *)
LEMMA LeaksPreserved ==
  ASSUME IInv, NothingLeaks, [Next]_vars,
         ClientOps \cap {"migrateBlockToTier", "freeBlockPhysical"} = {}
  PROVE  NothingLeaks'
<1>0. /\ blockMap \in [Blocks -> Location]
      /\ pool \in [Ptrs -> Devices \cup {Host, Free}]
  BY DEF IInv, TypeOK
<1>1. CASE Stays
  BY <1>1 DEF Stays, NothingLeaks, HoldsPtr
<1>2. ASSUME NEW t \in Threads, NEW loc, Placed(t, loc), NEW q \in Ptrs,
             pool'[q] # Free, pool'[q] = pool[q] \/ (loc.tier \in {"Vram", "Ram"} /\ loc.at = q)
      PROVE  \E b \in Blocks : HeldBy(q, b)'
  <2>1. /\ Block(t) \in Blocks /\ blockMap'[Block(t)] = loc
        /\ \A b \in Blocks \ {Block(t)} : blockMap'[b] = blockMap[b]
    BY <1>0, <1>2 DEF Placed
  <2>2. CASE loc.tier \in {"Vram", "Ram"} /\ loc.at = q
    BY <2>1, <2>2 DEF HeldBy, HoldsPtr
  <2>3. CASE pool'[q] = pool[q]
    <3>1. PICK b \in Blocks : HoldsPtr(b) /\ blockMap[b].at = q
      BY <1>2, <2>3 DEF NothingLeaks
    <3>2. b # Block(t)
      BY <1>2, <3>1 DEF Placed, Mapped, HoldsPtr
    <3> QED
      BY <2>1, <3>1, <3>2 DEF HeldBy, HoldsPtr
  <2> QED
    BY <1>2, <2>2, <2>3
<1>3. ASSUME NEW t \in Threads, NEW p \in Ptrs, InVram(t, p) \/ ToRam(t, p)
      PROVE  NothingLeaks'
  <2>1. ASSUME NEW q \in Ptrs, pool'[q] # Free PROVE \E b \in Blocks : HeldBy(q, b)'
    <3>1. q # p => pool'[q] = pool[q]
      BY <1>0, <1>3 DEF InVram, ToRam
    <3>2. CASE InVram(t, p)
      <4>1. Placed(t, [tier |-> "Vram", dev |-> scan[t], at |-> p])
        BY <3>2 DEF InVram
      <4> QED
        BY <1>2, <2>1, <3>1, <4>1
    <3>3. CASE ToRam(t, p)
      <4>1. Placed(t, [tier |-> "Ram", dev |-> Host, at |-> p])
        BY <3>3 DEF ToRam
      <4> QED
        BY <1>2, <2>1, <3>1, <4>1
    <3> QED
      BY <1>3, <3>2, <3>3
  <2> QED
    BY <2>1 DEF NothingLeaks, HeldBy
<1>4. ASSUME NEW t \in Threads, ToPagefile(t) PROVE NothingLeaks'
  <2>1. Placed(t, [tier |-> "Pagefile", dev |-> Host, at |-> pagefileAllocated]) /\ pool' = pool
    BY <1>4 DEF ToPagefile
  <2>2. ASSUME NEW q \in Ptrs, pool'[q] # Free PROVE \E b \in Blocks : HeldBy(q, b)'
    BY <1>2, <2>1, <2>2
  <2> QED
    BY <2>2 DEF NothingLeaks, HeldBy
<1>5. ASSUME NEW b \in Blocks, NEW d \in Devices, NEW p \in Ptrs, Evicted(b, d, p)
      PROVE  NothingLeaks'
  <2>1. b \in OnDevice(d) /\ MigrateToRam(b, p)
    BY <1>5, EvictedIsMapped DEF Evicted
  <2>2. /\ blockMap'[b] = [tier |-> "Ram", dev |-> Host, at |-> p]
        /\ \A x \in Blocks \ {b} : blockMap'[x] = blockMap[x]
        /\ blockMap[b].tier = "Vram"
    BY <1>0, <2>1 DEF MigrateToRam, OnDevice
  <2>3. \A q \in Ptrs \ {p} : pool'[q] # Free => q # blockMap[b].at /\ pool[q] # Free
    BY <2>1, <2>2 DEF MigrateToRam
  <2>4. ASSUME NEW q \in Ptrs, pool'[q] # Free PROVE \E x \in Blocks : HeldBy(q, x)'
    <3>1. CASE q = p
      BY <2>2, <3>1 DEF HeldBy, HoldsPtr
    <3>2. CASE q # p
      <4>1. PICK x \in Blocks : HoldsPtr(x) /\ blockMap[x].at = q
        BY <2>3, <2>4, <3>2 DEF NothingLeaks
      <4>2. x # b
        BY <2>3, <2>4, <3>2, <4>1
      <4> QED
        BY <2>2, <4>1, <4>2 DEF HeldBy, HoldsPtr
    <3> QED
      BY <3>1, <3>2
  <2> QED
    BY <2>4 DEF NothingLeaks, HeldBy
<1>6. CASE Cleaned
  <2>1. \A q \in Ptrs : pool[q] # Free => \E x \in Blocks : HoldsPtr(x) /\ blockMap[x].at = q
    BY DEF NothingLeaks
  <2>2. \A q \in Ptrs : pool'[q] = Free
    BY <1>6, <2>1 DEF Cleaned, CleanupEffect
  <2> QED
    BY <2>2 DEF NothingLeaks
<1>7. ASSUME NEW b \in Blocks, Freed(b) PROVE FALSE
  BY <1>7 DEF Freed
<1> QED
  BY <1>1, <1>3, <1>4, <1>5, <1>6, <1>7, StepKinds

(* Without a client that moves or drops blocks behind the allocator's back,  *)
(* memory that was taken is memory of a block: no failed call, no eviction   *)
(* and no clean-up loses the only reference to it.                           *)
THEOREM NoLeaks ==
  ASSUME ClientOps \cap {"migrateBlockToTier", "freeBlockPhysical"} = {}
  PROVE  Spec => []NothingLeaks
<1>1. Init => NothingLeaks
  BY DEF Init, NothingLeaks
<1>2. IInv /\ NothingLeaks /\ [Next]_vars => NothingLeaks'
  BY LeaksPreserved
<1> QED
  BY <1>1, <1>2, Invariant, PTL DEF Spec

-----------------------------------------------------------------------------
(* After UMC_Destroy.                                                        *)

Quiet ==
  ~alive => /\ \A t \in Threads : pc[t] = "idle"
            /\ \A p \in Ptrs : pool[p] = Free
            /\ ~mapping

(* Nobody acts in a destroyed manager.                                       *)
LEMMA DestroyedStaysStill ==
  ASSUME ~alive, \A t \in Threads : pc[t] = "idle", [Next]_vars
  PROVE  UNCHANGED vars
<1>1. ASSUME NEW t \in Threads PROVE ~Step(t)
  BY <1>1 DEF Step, Allocation, RegisterAccess, Enter, Policy, OutOfVram, SkipDevice,
              DeviceFails, LeaveVram, NoRam, AllocatePagefile, NoPagefile, PlaceInVram,
              AllocateRam, EvictLRU, CopyIn, CopyOut, CopyFails
<1>2. ~ClientOp
  BY DEF ClientOp, Uses, RegisterOnly, FreeBlockPhysical, LogResidencyChange,
         MigrateBlockToTier, EvictLRUBlockFromGPU, Cleanup, Destroy
<1>3. \A t \in Threads, r \in Requests : ~Invoke(t, r)
  BY DEF Invoke
<1> QED
  BY <1>1, <1>2, <1>3 DEF Next, Destroyed

(* The step of UMC_Destroy gives everything back, and it is the only one     *)
(* that ends the manager.                                                    *)
LEMMA QuietPreserved ==
  ASSUME IInv, NothingLeaks, Quiet, [Next]_vars,
         ClientOps \cap {"migrateBlockToTier", "freeBlockPhysical"} = {}
  PROVE  Quiet'
<1>1. CASE ~alive
  <2>1. UNCHANGED vars
    BY <1>1, DestroyedStaysStill DEF Quiet
  <2> QED
    BY <1>1, <2>1 DEF Quiet, vars, places
<1>2. CASE alive /\ Cleaned
  <2>1. \A q \in Ptrs : pool[q] # Free => \E x \in Blocks : HoldsPtr(x) /\ blockMap[x].at = q
    BY DEF NothingLeaks
  <2>2. \A q \in Ptrs : pool'[q] = Free
    BY <1>2, <2>1 DEF Cleaned, CleanupEffect
  <2>3. pc' = pc /\ mapping' = FALSE
    BY <1>2 DEF Cleaned, CleanupEffect
  <2> QED
    BY <1>2, <2>2, <2>3 DEF Quiet, Cleaned
<1>3. CASE alive /\ ~Cleaned
  <2>1. alive' = alive
    BY <1>3, StepKinds DEF Stays, InVram, ToRam, ToPagefile, Placed, Evicted, Freed
  <2> QED
    BY <1>3, <2>1 DEF Quiet
<1> QED
  BY <1>1, <1>2, <1>3

(* What UMC_Destroy leaves behind, to such clients: no memory and no section.*)
THEOREM ReleasesAll ==
  ASSUME ClientOps \cap {"migrateBlockToTier", "freeBlockPhysical"} = {}
  PROVE  Spec => []ReleasedAtDestroy
<1>1. Init => Quiet
  BY DEF Init, Quiet
<1>2. IInv /\ NothingLeaks /\ Quiet /\ [Next]_vars => Quiet'
  BY QuietPreserved
<1>3. Quiet => ReleasedAtDestroy
  BY DEF Quiet, ReleasedAtDestroy
<1> QED
  BY <1>1, <1>2, <1>3, Invariant, NoLeaks, PTL DEF Spec

-----------------------------------------------------------------------------
(* The budget.                                                               *)

(* A block that is placed was nowhere, so only the device it goes to, if any,*)
(* has a block more.                                                         *)
LEMMA PlacedCounts ==
  ASSUME IInv, NEW t \in Threads, NEW loc, Placed(t, loc), NEW d \in Devices
  PROVE  OnDevice(d)' = OnDevice(d)
           \cup (IF loc.tier = "Vram" /\ loc.dev = d THEN {Block(t)} ELSE {})
<1>1. blockMap \in [Blocks -> Location]
  BY DEF IInv, TypeOK
<1> QED
  BY <1>1 DEF Placed, OnDevice, Mapped

(* The counter of every device follows the number of its blocks.             *)
LEMMA ExactPreserved ==
  ASSUME IInv, VramExact, [Next]_vars,
         ClientOps \cap {"migrateBlockToTier", "cleanup"} = {}
  PROVE  VramExact'
<1>0. blockMap \in [Blocks -> Location] /\ gpuAllocated \in [Devices -> Nat]
  BY DEF IInv, TypeOK
<1>1. CASE Stays
  BY <1>1 DEF Stays, VramExact, OnDevice
<1>2. ASSUME NEW t \in Threads, NEW p \in Ptrs, InVram(t, p) PROVE VramExact'
  <2> DEFINE loc == [tier |-> "Vram", dev |-> scan[t], at |-> p]
  <2>1. Placed(t, loc) /\ scan[t] \in Devices /\ alive' = alive
    BY <1>2 DEF InVram, Placed
  <2>a. loc.tier = "Vram" /\ loc.dev = scan[t]
    OBVIOUS
  <2> HIDE DEF loc
  <2>2. ASSUME NEW d \in Devices, alive PROVE gpuAllocated'[d] = Cardinality(OnDevice(d)')
    <3>0. gpuAllocated[d] = Cardinality(OnDevice(d)) /\ IsFiniteSet(OnDevice(d))
      BY <2>2, DeviceCount DEF VramExact
    <3>1. CASE d = scan[t]
      <4>1. OnDevice(d)' = OnDevice(d) \cup {Block(t)}
        BY <2>1, <2>a, <3>1, PlacedCounts
      <4>2. Block(t) \notin OnDevice(d)
        BY <2>1 DEF Placed, OnDevice, Mapped
      <4>3. Cardinality(OnDevice(d)') = Cardinality(OnDevice(d)) + 1
        BY <3>0, <4>1, <4>2, FS_AddElement
      <4>4. gpuAllocated'[d] = gpuAllocated[d] + 1
        BY <1>0, <1>2, <3>1 DEF InVram
      <4> QED
        BY <3>0, <4>3, <4>4
    <3>2. CASE d # scan[t]
      <4>1. OnDevice(d)' = OnDevice(d)
        BY <2>1, <2>a, <3>2, PlacedCounts
      <4>2. gpuAllocated'[d] = gpuAllocated[d]
        BY <1>0, <1>2, <3>2 DEF InVram
      <4> QED
        BY <3>0, <4>1, <4>2
    <3> QED
      BY <3>1, <3>2
  <2> QED
    BY <2>1, <2>2 DEF VramExact
<1>3. ASSUME NEW t \in Threads, NEW loc, Placed(t, loc), loc.tier # "Vram",
             gpuAllocated' = gpuAllocated
      PROVE  VramExact'
  <2>1. \A d \in Devices : OnDevice(d)' = OnDevice(d)
    BY <1>3, PlacedCounts
  <2>2. alive' = alive
    BY <1>3 DEF Placed
  <2> QED
    BY <1>3, <2>1, <2>2 DEF VramExact
<1>4. ASSUME NEW t \in Threads, (\E p \in Ptrs : ToRam(t, p)) \/ ToPagefile(t) PROVE VramExact'
  <2>1. ASSUME NEW p \in Ptrs, ToRam(t, p) PROVE VramExact'
    <3>1. Placed(t, [tier |-> "Ram", dev |-> Host, at |-> p]) /\ gpuAllocated' = gpuAllocated
      BY <2>1 DEF ToRam
    <3> QED
      BY <1>3, <3>1
  <2>2. ASSUME ToPagefile(t) PROVE VramExact'
    <3>1. /\ Placed(t, [tier |-> "Pagefile", dev |-> Host, at |-> pagefileAllocated])
          /\ gpuAllocated' = gpuAllocated
      BY <2>2 DEF ToPagefile
    <3> QED
      BY <1>3, <3>1
  <2> QED
    BY <1>4, <2>1, <2>2
<1>5. ASSUME NEW b \in Blocks, alive' = alive,
             \A d \in Devices :
               /\ OnDevice(d)' = OnDevice(d) \ {b}
               /\ gpuAllocated'[d] = IF b \in OnDevice(d) THEN gpuAllocated[d] - 1
                                                         ELSE gpuAllocated[d]
      PROVE  VramExact'
  <2>1. ASSUME NEW d \in Devices, alive PROVE gpuAllocated'[d] = Cardinality(OnDevice(d)')
    <3>0. /\ gpuAllocated[d] = Cardinality(OnDevice(d)) /\ gpuAllocated[d] \in Nat
          /\ IsFiniteSet(OnDevice(d))
      BY <2>1, DeviceCount DEF VramExact
    <3>1. CASE b \in OnDevice(d)
      <4>1. Cardinality(OnDevice(d)') = Cardinality(OnDevice(d)) - 1
        BY <1>5, <3>0, <3>1, FS_RemoveElement
      <4> QED
        BY <1>5, <3>0, <3>1, <4>1
    <3>2. CASE b \notin OnDevice(d)
      <4>1. OnDevice(d)' = OnDevice(d)
        BY <1>5, <3>2
      <4> QED
        BY <1>5, <3>0, <3>2, <4>1
    <3> QED
      BY <3>1, <3>2
  <2> QED
    BY <1>5, <2>1 DEF VramExact
<1>6. ASSUME NEW b \in Blocks, NEW e \in Devices, NEW p \in Ptrs, Evicted(b, e, p)
      PROVE  VramExact'
  <2>1. /\ b \in OnDevice(e) /\ MigrateToRam(b, p) /\ alive' = alive
        /\ gpuAllocated' = [gpuAllocated EXCEPT ![e] = IF @ >= 1 THEN @ - 1 ELSE 0]
    BY <1>6, EvictedIsMapped DEF Evicted
  <2>2. blockMap' = [blockMap EXCEPT ![b] = [tier |-> "Ram", dev |-> Host, at |-> p]]
    BY <2>1 DEF MigrateToRam
  <2>3. ASSUME NEW d \in Devices
        PROVE  /\ OnDevice(d)' = OnDevice(d) \ {b}
               /\ gpuAllocated'[d] = IF b \in OnDevice(d) THEN gpuAllocated[d] - 1
                                                         ELSE gpuAllocated[d]
    <3>1. OnDevice(d)' = OnDevice(d) \ {b}
      BY <1>0, <2>2 DEF OnDevice
    <3>2. b \in OnDevice(d) <=> d = e
      BY <2>1 DEF OnDevice
    <3>3. gpuAllocated[e] >= 1
      BY <2>1, DeviceCount
    <3> QED
      BY <1>0, <2>1, <3>1, <3>2, <3>3
  <2> QED
    BY <1>5, <2>1, <2>3
<1>7. ASSUME NEW b \in Blocks, Freed(b) PROVE VramExact'
  <2>1. ASSUME NEW d \in Devices
        PROVE  /\ OnDevice(d)' = OnDevice(d) \ {b}
               /\ gpuAllocated'[d] = IF b \in OnDevice(d) THEN gpuAllocated[d] - 1
                                                         ELSE gpuAllocated[d]
    BY <1>0, <1>7 DEF Freed, FreeBlockPhysical, OnDevice, Unmapped
  <2>2. alive' = alive
    BY <1>7 DEF Freed, FreeBlockPhysical
  <2> QED
    BY <1>5, <2>1, <2>2
<1>8. CASE Cleaned
  BY <1>8 DEF Cleaned, VramExact
<1> QED
  BY <1>1, <1>2, <1>4, <1>6, <1>7, <1>8, StepKinds

(* Eviction and freeBlockPhysical give back exactly the budget they free: a  *)
(* device is never thought fuller than it is, nor emptier, unless a client   *)
(* migrates blocks itself or cleans up, which leaves the counters as they    *)
(* were.                                                                     *)
THEOREM VramCountExact ==
  ASSUME ClientOps \cap {"migrateBlockToTier", "cleanup"} = {}
  PROVE  Spec => []VramExact
<1>1. Init => VramExact
  <2>1. ASSUME Init, NEW d \in Devices PROVE OnDevice(d) = {} /\ gpuAllocated[d] = 0
    BY <2>1 DEF Init, OnDevice, Unmapped
  <2> QED
    BY <2>1, FS_EmptySet DEF VramExact
<1>2. IInv /\ VramExact /\ [Next]_vars => VramExact'
  BY ExactPreserved
<1> QED
  BY <1>1, <1>2, Invariant, PTL DEF Spec

-----------------------------------------------------------------------------
(* The budget of the RAM.                                                    *)

(* Clients and faults under which only allocateRam puts blocks into RAM, and *)
(* a limit that a size_t counter can pass.                                   *)
NoOtherWay ==
  /\ ClientOps \cap {"migrateBlockToTier", "evictLRUBlockFromGPU"} = {}
  /\ ~CanFail("cudaMalloc")
  /\ WordBlocks > RamLimit + 1

(* The counter of the host is never below the blocks in RAM, and never above *)
(* the limit.                                                                *)
RamCounted == Cardinality(InRam) <= hostAllocated /\ hostAllocated <= RamLimit

(* A size_t that stays in its range, and one that is lowered by one.         *)
LEMMA SmallRemainder ==
  ASSUME NEW m \in Nat, NEW w \in Nat, m < w
  PROVE  m % w = m
  OBVIOUS

LEMMA WrappedDown ==
  ASSUME NEW m \in Nat, NEW w \in Nat, 1 <= m, m < w
  PROVE  (m + w - 1) % w = m - 1
  OBVIOUS

(* The blocks in RAM can be counted.                                         *)
LEMMA FiniteRam == IsFiniteSet(InRam) /\ Cardinality(InRam) \in Nat
<1>1. IsFiniteSet(Blocks)
  BY FS_Interval, SizeAssumption DEF Blocks
<1>2. InRam \in SUBSET Blocks
  BY DEF InRam
<1> QED
  BY <1>1, <1>2, FS_Subset, FS_CardinalityType

(* What a step does to the blocks in RAM and to their counter.               *)
LEMMA RamSteps ==
  ASSUME IInv, NoOtherWay, [Next]_vars
  PROVE  \/ InRam' \subseteq InRam /\ hostAllocated' = hostAllocated
         \/ \E t \in Threads, p \in Ptrs : AllocateRam(t, p)
         \/ \E b \in Blocks : FreeBlockPhysical(b)
<1> DEFINE Kept == InRam' \subseteq InRam /\ hostAllocated' = hostAllocated
<1> USE DEF places
<1>0. blockMap \in [Blocks -> Location]
  BY DEF IInv, TypeOK
<1>1. ASSUME blockMap' = blockMap, hostAllocated' = hostAllocated PROVE Kept
  BY <1>1 DEF InRam
<1>2. ASSUME NEW t \in Threads, NEW r \in Requests, Invoke(t, r) PROVE Kept
  BY <1>1, <1>2 DEF Invoke
<1>3. ASSUME NEW t \in Threads,
             \/ RegisterAccess(t) \/ Enter(t) \/ Policy(t) \/ OutOfVram(t) \/ SkipDevice(t)
             \/ LeaveVram(t) \/ NoRam(t) \/ NoPagefile(t) \/ CopyIn(t) \/ CopyOut(t) \/ CopyFails(t)
      PROVE  Kept
  BY <1>1, <1>3 DEF RegisterAccess, Enter, Policy, OutOfVram, SkipDevice, DeviceFails,
                    LeaveVram, NoRam, NoPagefile, CopyIn, CopyOut, CopyFails
<1>4. ASSUME NEW t \in Threads, NEW p \in Ptrs, PlaceInVram(t, p) PROVE Kept
  <2>1. /\ blockMap' = [blockMap EXCEPT
              ![Block(t)] = [tier |-> "Vram", dev |-> scan[t], at |-> p]]
        /\ hostAllocated' = hostAllocated
    BY <1>4 DEF PlaceInVram, PlaceBlock
  <2> QED
    BY <1>0, <2>1 DEF InRam
<1>5. ASSUME NEW t \in Threads, AllocatePagefile(t) PROVE Kept
  <2>1. /\ blockMap' = [blockMap EXCEPT
              ![Block(t)] = [tier |-> "Pagefile", dev |-> Host, at |-> pagefileAllocated]]
        /\ hostAllocated' = hostAllocated
    BY <1>5 DEF AllocatePagefile
  <2> QED
    BY <1>0, <2>1 DEF InRam
<1>6. ASSUME NEW t \in Threads, Step(t)
      PROVE  Kept \/ \E p \in Ptrs : AllocateRam(t, p)
  <2>1. \A b \in Blocks, p \in Ptrs : ~EvictLRU(t, b, p)
    BY DEF EvictLRU, Evict, MigrateToRam, IInv, RetryFits, NoOtherWay
  <2> QED
    BY <1>3, <1>4, <1>5, <1>6, <2>1 DEF Step, Allocation
<1>7. CASE ClientOp
  <2>1. \A d \in Devices, b \in Blocks, p \in Ptrs : ~EvictLRUBlockFromGPU(d, b, p)
    BY DEF EvictLRUBlockFromGPU, Uses, NoOtherWay
  <2>2. \A b \in Blocks, dev \in Devices \cup {Host}, p \in Ptrs : ~MigrateBlockToTier(b, dev, p)
    BY DEF MigrateBlockToTier, Uses, NoOtherWay
  <2>3. ASSUME Cleanup \/ Destroy PROVE Kept
    BY <2>3 DEF Cleanup, Destroy, CleanupEffect, InRam, Unmapped
  <2>4. ASSUME NEW b \in Blocks, RegisterOnly(b) PROVE Kept
    BY <1>1, <2>4 DEF RegisterOnly
  <2>5. ASSUME NEW tier \in Tiers, LogResidencyChange(tier) PROVE Kept
    BY <1>1, <2>5 DEF LogResidencyChange
  <2> QED
    BY <1>7, <2>1, <2>2, <2>3, <2>4, <2>5 DEF ClientOp
<1>8. CASE Destroyed \/ UNCHANGED vars
  BY <1>1, <1>8 DEF Destroyed, vars
<1> QED
  BY <1>2, <1>6, <1>7, <1>8 DEF Next

(* A block counts as one in RAM from the step that charges it.               *)
LEMMA RamPreserved ==
  ASSUME IInv, NoOtherWay, RamCounted, [Next]_vars
  PROVE  RamCounted'
<1>0. /\ blockMap \in [Blocks -> Location] /\ hostAllocated \in Nat
      /\ RamLimit \in Nat /\ WordBlocks \in Nat /\ WordBlocks > RamLimit + 1
  BY LimitAssumption DEF IInv, TypeOK, NoOtherWay
<1>1. IsFiniteSet(InRam) /\ Cardinality(InRam) \in Nat
  BY FiniteRam
<1>2. CASE InRam' \subseteq InRam /\ hostAllocated' = hostAllocated
  <2>1. InRam' \in SUBSET InRam
    BY <1>2
  <2>2. IsFiniteSet(InRam') /\ Cardinality(InRam') <= Cardinality(InRam)
    BY <1>1, <2>1, FS_Subset
  <2>3. Cardinality(InRam') \in Nat
    BY <2>2, FS_CardinalityType
  <2> QED
    BY <1>0, <1>1, <1>2, <2>2, <2>3 DEF RamCounted
<1>3. ASSUME NEW t \in Threads, NEW p \in Ptrs, AllocateRam(t, p) PROVE RamCounted'
  <2>1. /\ hostAllocated' = (hostAllocated + 1) % WordBlocks /\ RamFits
        /\ blockMap' = [blockMap EXCEPT
              ![Block(t)] = [tier |-> "Ram", dev |-> Host, at |-> p]]
        /\ pc[t] \in {"stableRam", "ram"}
    BY <1>3 DEF AllocateRam, PlaceBlock
  <2>2. hostAllocated + 1 < WordBlocks /\ hostAllocated + 1 \in Nat
    BY <1>0 DEF RamCounted
  <2>3. hostAllocated' = hostAllocated + 1 /\ hostAllocated' <= RamLimit
    BY <1>0, <2>1, <2>2, SmallRemainder DEF RamFits
  <2>4. Block(t) \in Blocks /\ ~Mapped(Block(t))
    BY <2>1, ActiveCall DEF IInv, PlaceKnown, Inside
  <2>5. InRam' = InRam \cup {Block(t)} /\ Block(t) \notin InRam
    BY <1>0, <2>1, <2>4 DEF InRam, Mapped
  <2>6. Cardinality(InRam') = Cardinality(InRam) + 1
    BY <1>1, <2>5, FS_AddElement
  <2> QED
    BY <1>0, <1>1, <2>3, <2>6 DEF RamCounted
<1>4. ASSUME NEW b \in Blocks, FreeBlockPhysical(b) PROVE RamCounted'
  <2>1. /\ blockMap' = [blockMap EXCEPT ![b] = Unmapped]
        /\ hostAllocated' = IF b \in InRam THEN (hostAllocated + WordBlocks - 1) % WordBlocks
                            ELSE hostAllocated
    BY <1>4 DEF FreeBlockPhysical, InRam
  <2>2. InRam' = InRam \ {b}
    BY <1>0, <2>1 DEF InRam, Unmapped
  <2>3. CASE b \in InRam
    <3>1. Cardinality(InRam') = Cardinality(InRam) - 1 /\ Cardinality(InRam') \in Nat
      BY <1>1, <2>2, <2>3, FS_RemoveElement, FS_CardinalityType
    <3>2. hostAllocated >= 1 /\ hostAllocated < WordBlocks
      BY <1>0, <1>1, <3>1 DEF RamCounted
    <3>3. hostAllocated' = hostAllocated - 1
      BY <1>0, <2>1, <2>3, <3>2, WrappedDown
    <3> QED
      BY <1>0, <1>1, <3>1, <3>3 DEF RamCounted
  <2>4. CASE b \notin InRam
    BY <2>1, <2>2, <2>4 DEF RamCounted
  <2> QED
    BY <2>3, <2>4
<1> QED
  BY <1>2, <1>3, <1>4, RamSteps

(* The blocks in RAM keep to its budget as long as no eviction and no        *)
(* migration brings blocks there, whatever clients free or clean up: what    *)
(* the run vgm_ram_budget refutes needs one of the two.                      *)
THEOREM RamBudgetWithoutEviction ==
  ASSUME NoOtherWay
  PROVE  Spec => []RamWithinBudget
<1>1. Init => RamCounted
  <2> SUFFICES ASSUME Init PROVE RamCounted
    OBVIOUS
  <2>1. InRam = {} /\ hostAllocated = 0
    BY DEF Init, InRam, Unmapped
  <2> QED
    BY <2>1, FS_EmptySet, LimitAssumption DEF RamCounted
<1>2. IInv /\ RamCounted /\ [Next]_vars => RamCounted'
  BY RamPreserved
<1>3. IInv /\ RamCounted => RamWithinBudget
  <2> SUFFICES ASSUME IInv, RamCounted PROVE RamWithinBudget
    OBVIOUS
  <2> QED
    BY FiniteRam, LimitAssumption DEF RamCounted, RamWithinBudget, IInv, TypeOK
<1> QED
  BY <1>1, <1>2, <1>3, Invariant, PTL DEF Spec

-----------------------------------------------------------------------------
(* The order of accesses.                                                    *)

(* Of b and any other block, one was accessed after the other.               *)
Ordered(b) == \A x \in Blocks \ {b} : x \in newer[b] \/ b \in newer[x]

(* A thread past its registerAccess.                                         *)
Accessing(t) == pc[t] \notin {"idle", "register"}

Accessed ==
  /\ \A b \in Blocks : Mapped(b) => Ordered(b)
  /\ \A t \in Threads : Accessing(t) => Ordered(Block(t))

(* An access orders its block and keeps the order of the others.             *)
LEMMA TouchOrders ==
  ASSUME newer \in [Blocks -> SUBSET Blocks], NEW b \in Blocks, newer' = Touched(b)
  PROVE  /\ Ordered(b)'
         /\ \A x \in Blocks : Ordered(x) => Ordered(x)'
  BY DEF Touched, Ordered

(* Who is past registerAccess, and on which block, in the next state.        *)
LEMMA WhoAccesses ==
  ASSUME IInv, [Next]_vars, NEW t \in Threads, Accessing(t)'
  PROVE  /\ call'[t].pos = call[t].pos
         /\ Accessing(t) \/ (pc[t] = "register" /\ newer' = Touched(Block(t)))
<1> USE DEF Goto, places, Accessing
<1>0. pc \in [Threads -> PCs] /\ call \in [Threads -> Call]
  BY DEF IInv, TypeOK
<1>1. ASSUME UNCHANGED <<pc, call>> PROVE call'[t].pos = call[t].pos /\ Accessing(t)
  BY <1>1
<1>2. CASE ClientOp
  BY <1>1, <1>2 DEF ClientOp, RegisterOnly, FreeBlockPhysical, LogResidencyChange,
     MigrateBlockToTier, EvictLRUBlockFromGPU, Cleanup, Destroy, CleanupEffect
<1>3. CASE UNCHANGED vars
  BY <1>1, <1>3 DEF vars
<1>4. ASSUME NEW u \in Threads, NEW r \in Requests, Invoke(u, r)
      PROVE  call'[t].pos = call[t].pos /\ Accessing(t)
  BY <1>0, <1>4 DEF Invoke
<1>5. ASSUME NEW u \in Threads, RegisterAccess(u)
      PROVE  /\ call'[t].pos = call[t].pos
             /\ Accessing(t) \/ (pc[t] = "register" /\ newer' = Touched(Block(t)))
  BY <1>0, <1>5 DEF RegisterAccess
<1>6. ASSUME NEW u \in Threads, Accessing(u),
             \A x \in Threads \ {u} : pc'[x] = pc[x] /\ call'[x] = call[x],
             UNCHANGED call \/ pc'[u] \in {"idle", "register"}
      PROVE  call'[t].pos = call[t].pos /\ Accessing(t)
  BY <1>6
<1>7. ASSUME NEW u \in Threads,
             Enter(u) \/ Allocation(u) \/ CopyIn(u) \/ CopyOut(u) \/ CopyFails(u)
      PROVE  call'[t].pos = call[t].pos /\ Accessing(t)
  <2>1. Accessing(u)
    BY <1>7 DEF Enter, Allocation, Policy, OutOfVram, SkipDevice, DeviceFails, LeaveVram, NoRam,
                AllocatePagefile, NoPagefile, PlaceInVram, AllocateRam, EvictLRU, CopyIn,
                CopyOut, CopyFails
  <2>2. CASE Enter(u)
    BY <1>0, <1>6, <2>1, <2>2 DEF Enter, ReturnFalse
  <2>3. CASE CopyIn(u) \/ CopyOut(u) \/ CopyFails(u)
    BY <1>0, <1>6, <2>1, <2>3 DEF CopyIn, CopyOut, CopyFails, Leave, ReturnFalse
  <2>4. CASE Allocation(u)
    <3>1. CASE NoPagefile(u)
      BY <1>0, <1>6, <2>1, <3>1 DEF NoPagefile, ReturnFalse
    <3>2. CASE ~NoPagefile(u)
      BY <1>0, <1>6, <2>1, <2>4, <3>2
         DEF Allocation, Policy, OutOfVram, SkipDevice, DeviceFails, LeaveVram, NoRam,
             AllocatePagefile, PlaceInVram, PlaceBlock, AllocateRam, EvictLRU
    <3> QED
      BY <3>1, <3>2
  <2> QED
    BY <1>7, <2>2, <2>3, <2>4
<1> QED
  BY <1>2, <1>3, <1>4, <1>5, <1>7 DEF Next, Step, Destroyed

(* What a step does to the order: nothing, one access, or all is over.       *)
LEMMA OrderSteps ==
  ASSUME [Next]_vars, "cleanup" \notin ClientOps
  PROVE  \/ newer' = newer
         \/ \E b \in Blocks : newer' = Touched(b)
         \/ \E t \in Threads : pc[t] = "register" /\ newer' = Touched(Block(t))
         \/ Destroy
  BY DEF Next, Invoke, Step, Allocation, RegisterAccess, Enter, Policy, OutOfVram, SkipDevice,
         DeviceFails, LeaveVram, NoRam, AllocatePagefile, NoPagefile, PlaceInVram, AllocateRam,
         EvictLRU, CopyIn, CopyOut, CopyFails, ClientOp, RegisterOnly, FreeBlockPhysical,
         LogResidencyChange, MigrateBlockToTier, EvictLRUBlockFromGPU, Cleanup, Uses, Destroyed,
         vars

(* Blocks in storage, and those about to get some, are ordered.              *)
LEMMA AccessedPreserved ==
  ASSUME IInv, Accessed, [Next]_vars,
         ClientOps \cap {"migrateBlockToTier", "cleanup"} = {}
  PROVE  Accessed'
<1>0. /\ blockMap \in [Blocks -> Location] /\ newer \in [Blocks -> SUBSET Blocks]
      /\ pc \in [Threads -> PCs]
  BY DEF IInv, TypeOK
<1>1. CASE Destroy
  <2>1. /\ \A t \in Threads : pc'[t] = "idle"
        /\ blockMap' = [b \in Blocks |-> Unmapped]
    BY <1>1 DEF Destroy, CleanupEffect
  <2> QED
    BY <2>1 DEF Accessed, Mapped, Unmapped, Accessing
<1>2. CASE ~Destroy
  <2>1. \A x \in Blocks : Ordered(x) => Ordered(x)'
    <3>1. ASSUME NEW t \in Threads, pc[t] = "register" PROVE Block(t) \in Blocks
      BY <3>1, ActiveCall
    <3>2. CASE newer' = newer
      BY <3>2 DEF Ordered
    <3>3. ASSUME NEW b \in Blocks, newer' = Touched(b)
          PROVE  \A x \in Blocks : Ordered(x) => Ordered(x)'
      BY <1>0, <3>3, TouchOrders
    <3> QED
      BY <1>2, <3>1, <3>2, <3>3, OrderSteps
  <2>2. ASSUME NEW t \in Threads, Accessing(t)' PROVE Ordered(Block(t))'
    <3>1. Block(t)' = Block(t) /\ Block(t) \in Blocks
      <4>1. call'[t].pos = call[t].pos /\ pc[t] # "idle"
        BY <2>2, WhoAccesses DEF Accessing
      <4> QED
        BY <4>1, ActiveCall DEF Block
    <3>2. Ordered(Block(t)) => Ordered(Block(t))'
      <4> DEFINE b == Block(t)
      <4>1. Ordered(b) => \A x \in Blocks \ {b} : x \in newer'[b] \/ b \in newer'[x]
        BY <2>1, <3>1 DEF Ordered
      <4> QED
        BY <3>1, <4>1 DEF Ordered
    <3>3. CASE Accessing(t)
      BY <3>2, <3>3 DEF Accessed
    <3>4. CASE newer' = Touched(Block(t))
      BY <1>0, <3>1, <3>4 DEF Touched, Ordered
    <3> QED
      BY <2>2, <3>3, <3>4, WhoAccesses
  <2>3. ASSUME NEW b \in Blocks, Mapped(b)' PROVE Ordered(b)'
    <3>1. CASE Mapped(b)
      BY <2>1, <3>1 DEF Accessed
    <3>2. CASE ~Mapped(b)
      <4>1. ASSUME NEW t \in Threads, NEW loc, Placed(t, loc) PROVE Ordered(b)
        <5>1. b = Block(t)
          BY <1>0, <2>3, <3>2, <4>1 DEF Placed, Mapped
        <5>2. Accessing(t)
          BY <4>1 DEF Placed, Accessing
        <5> QED
          BY <5>1, <5>2 DEF Accessed
      <4>2. ASSUME NEW x \in Blocks, NEW d \in Devices, NEW p \in Ptrs, Evicted(x, d, p)
            PROVE  FALSE
        <5>1. Mapped(x) /\ MigrateToRam(x, p)
          BY <4>2, EvictedIsMapped DEF Evicted
        <5> QED
          BY <1>0, <2>3, <3>2, <5>1 DEF MigrateToRam, Mapped
      <4>3. ~Stays /\ (\A x \in Blocks : ~Freed(x)) /\ ~Cleaned
        BY <1>0, <2>3, <3>2 DEF Stays, Freed, FreeBlockPhysical, Cleaned, CleanupEffect,
                                 Mapped, Unmapped
      <4>4. \E t \in Threads : \E loc : Placed(t, loc)
        BY <4>2, <4>3, StepKinds DEF InVram, ToRam, ToPagefile
      <4> QED
        BY <2>1, <4>1, <4>4
    <3> QED
      BY <3>1, <3>2
  <2> QED
    BY <2>2, <2>3 DEF Accessed
<1> QED
  BY <1>1, <1>2

(* Only an eviction moves a block from VRAM to RAM, and it takes the oldest. *)
LEMMA OldestMoves ==
  ASSUME IInv, Accessed, [Next]_vars, ~CanFail("VirtualAlloc"),
         ClientOps \cap {"migrateBlockToTier", "cleanup"} = {},
         NEW d \in Devices, NEW b \in OnDevice(d), NEW x \in OnDevice(d) \ {b},
         blockMap'[b].tier = "Ram"
  PROVE  x \in newer[b]
<1>0. /\ blockMap \in [Blocks -> Location]
      /\ b \in Blocks /\ x \in Blocks \ {b} /\ Mapped(b) /\ blockMap[b].tier = "Vram"
  BY DEF IInv, TypeOK, OnDevice, Mapped
<1>1. ASSUME NEW t \in Threads, NEW loc, Placed(t, loc) PROVE FALSE
  <2>1. b # Block(t)
    BY <1>0, <1>1 DEF Placed
  <2>2. blockMap'[b] = blockMap[b]
    BY <1>0, <1>1, <2>1 DEF Placed
  <2> QED
    BY <1>0, <2>2
<1>2. ~Stays /\ ~Cleaned
  BY <1>0 DEF Stays, Cleaned, CleanupEffect, Unmapped
<1>3. ASSUME NEW a \in Blocks, Freed(a) PROVE FALSE
  BY <1>0, <1>3 DEF Freed, FreeBlockPhysical, Unmapped
<1>4. PICK a \in Blocks, e \in Devices, p \in Ptrs : Evicted(a, e, p)
  <2>1. \A t \in Threads : ~ToPagefile(t) /\ \A p \in Ptrs : ~InVram(t, p) /\ ~ToRam(t, p)
    BY <1>1 DEF InVram, ToRam, ToPagefile
  <2> QED
    BY <1>2, <1>3, <2>1, StepKinds
<1>5. a = b /\ e = d
  <2>1. a \in OnDevice(e) /\ MigrateToRam(a, p)
    BY <1>4, EvictedIsMapped DEF Evicted
  <2>2. a = b
    BY <1>0, <2>1 DEF MigrateToRam
  <2> QED
    BY <2>1, <2>2 DEF OnDevice
<1>6. b \notin newer[x]
  BY <1>4, <1>5 DEF Evicted, Evict, MayEvict
<1> QED
  BY <1>0, <1>6 DEF Accessed, Ordered

(* When memory for the copy is always to be had, an eviction moves the block *)
(* of the device that was not accessed for longest: every block in VRAM has  *)
(* been accessed, so the time stamps that the sort compares put them in one  *)
(* order.                                                                    *)
THEOREM EvictionTakesOldest ==
  ASSUME ~CanFail("VirtualAlloc"), ClientOps \cap {"migrateBlockToTier", "cleanup"} = {}
  PROVE  Spec => EvictsOldest
<1>1. Init => Accessed
  BY DEF Init, Accessed, Mapped, Unmapped, Accessing
<1>2. IInv /\ Accessed /\ [Next]_vars => Accessed'
  BY AccessedPreserved
<1>3. IInv /\ Accessed /\ [Next]_vars
        => [\A d \in Devices : \A b \in OnDevice(d) : \A x \in OnDevice(d) \ {b} :
              blockMap'[b].tier = "Ram" => x \in newer[b]]_vars
  BY OldestMoves
<1> QED
  BY <1>1, <1>2, <1>3, Invariant, PTL DEF Spec, EvictsOldest
-----------------------------------------------------------------------------
(* The order of the tiers, when nothing fails and memory is not short.       *)

Generous ==
  /\ Faults \cap {"cudaSetDevice", "cudaMalloc", "VirtualAlloc", "CreateFileMapping"} = {}
  /\ ClientOps \cap {"migrateBlockToTier", "freeBlockPhysical"} = {}
  /\ IsFiniteSet(Ptrs) /\ Cardinality(Ptrs) >= NumBlocks

(* A block that has no memory finds some: the others use one address each.   *)
LEMMA MemoryLeft ==
  ASSUME IInv, NothingLeaks, Generous, NEW b \in Blocks, ~Mapped(b)
  PROVE  FreePtrs # {}
<1> DEFINE Others == Blocks \ {b}
           Holding == {x \in Others : HoldsPtr(x)}
           Taken == {blockMap[x].at : x \in Holding}
           f == [x \in Holding |-> blockMap[x].at]
<1>1. IsFiniteSet(Blocks) /\ Cardinality(Blocks) = NumBlocks /\ NumBlocks \in Nat \ {0}
  BY FS_Interval, SizeAssumption DEF Blocks
<1>2. IsFiniteSet(Others) /\ Cardinality(Others) = NumBlocks - 1
  BY <1>1, FS_RemoveElement
<1>3. IsFiniteSet(Holding) /\ Cardinality(Holding) <= NumBlocks - 1
  BY <1>2, FS_Subset
<1>4. f \in Surjection(Holding, Taken)
  BY DEF Surjection
<1>5. IsFiniteSet(Taken) /\ Cardinality(Taken) <= Cardinality(Holding)
  <2> HIDE DEF f, Taken, Holding
  <2> QED
    BY <1>3, <1>4, FS_Surjection
<1>6. SUFFICES ASSUME FreePtrs = {} PROVE FALSE
  OBVIOUS
<1>7. Ptrs \subseteq Taken
  <2>1. ASSUME NEW p \in Ptrs PROVE p \in Taken
    <3>1. PICK x \in Blocks : HoldsPtr(x) /\ blockMap[x].at = p
      BY <1>6 DEF NothingLeaks, FreePtrs
    <3>2. x # b
      BY <3>1 DEF HoldsPtr, Mapped
    <3> QED
      BY <3>1, <3>2
  <2> QED
    BY <2>1
<1> HIDE DEF Taken, Holding, Others
<1>8. Cardinality(Ptrs) <= Cardinality(Taken)
  BY <1>5, <1>7, FS_Subset
<1>9. /\ Cardinality(Ptrs) \in Nat /\ Cardinality(Taken) \in Nat
      /\ Cardinality(Holding) \in Nat
  BY <1>3, <1>5, FS_CardinalityType DEF Generous
<1> QED
  BY <1>1, <1>3, <1>5, <1>8, <1>9 DEF Generous

(* What a thread knows of the tiers it has passed.                           *)
StableFull == ~RamFits /\ ~PagefileFits
Knows(t) ==
  /\ pc[t] \notin {"evict", "retry"}
  /\ pc[t] \in {"stableRam", "stablePagefile"} => Thrashing /\ scan[t] = 0
  /\ pc[t] \in {"stablePagefile", "pagefile"} => ~RamFits
  /\ pc[t] = "vram" => \A d \in Devices : d < scan[t] => ~VramFits(d)
  /\ pc[t] \in {"ram", "pagefile"} => NoVramFits
  /\ pc[t] \in {"vram", "ram", "pagefile"} /\ Thrashing => StableFull

(* Nobody changes a counter, or the history, that the owner of the mutex has *)
(* looked at.                                                                *)
LEMMA OthersWait ==
  ASSUME IInv, NEW t \in Threads, pc[t] \in Inside, [Next]_vars
  PROVE  \/ Step(t)
         \/ UNCHANGED <<gpuAllocated, hostAllocated, pagefileAllocated, history, pc, scan>>
         \/ /\ UNCHANGED <<gpuAllocated, hostAllocated, pagefileAllocated, history, scan>>
            /\ pc'[t] = pc[t]
<1> USE DEF places
<1>0. owner = t /\ owner # NoThread /\ pc \in [Threads -> PCs]
  BY ThreadAssumption DEF IInv, TypeOK, LockSound
<1>1. ASSUME NEW u \in Threads, u # t PROVE ~Step(u)
  <2>1. pc[u] \notin Inside
    BY <1>0, <1>1 DEF IInv, LockSound
  <2> QED
    BY <1>0, <2>1 DEF Step, Allocation, RegisterAccess, Enter, Policy, OutOfVram, SkipDevice,
                      DeviceFails, LeaveVram, NoRam, AllocatePagefile, NoPagefile, PlaceInVram,
                      AllocateRam, EvictLRU, CopyIn, CopyOut, CopyFails, Inside
<1>2. ASSUME NEW u \in Threads, NEW r \in Requests, Invoke(u, r)
      PROVE  /\ UNCHANGED <<gpuAllocated, hostAllocated, pagefileAllocated, history, scan>>
             /\ pc'[t] = pc[t]
  <2>1. u # t
    BY <1>2 DEF Invoke, Inside
  <2> QED
    BY <1>0, <1>2, <2>1 DEF Invoke, Goto
<1>3. ~ClientOp
  BY <1>0 DEF ClientOp, Uses, RegisterOnly, FreeBlockPhysical, LogResidencyChange,
     MigrateBlockToTier, EvictLRUBlockFromGPU, Cleanup, Destroy, Inside
<1>4. CASE UNCHANGED vars
  BY <1>4 DEF vars
<1> QED
  BY <1>1, <1>2, <1>3, <1>4 DEF Next, Destroyed

(* A thread learns only what is so.                                          *)
LEMMA KnowsPreserved ==
  ASSUME IInv, NothingLeaks, Generous, NEW t \in Threads, Knows(t), [Next]_vars
  PROVE  Knows(t)'
<1> USE DEF places, Goto
<1>0. /\ pc \in [Threads -> PCs] /\ scan \in [Threads -> 0 .. NumDevices] /\ NumDevices \in Nat
      /\ ~CanFail("cudaSetDevice") /\ ~CanFail("cudaMalloc") /\ ~CanFail("VirtualAlloc")
      /\ ~CanFail("CreateFileMapping")
  BY LimitAssumption DEF IInv, TypeOK, Generous, CanFail
<1>a. ASSUME UNCHANGED <<gpuAllocated, hostAllocated, pagefileAllocated, history>>
      PROVE  /\ RamFits' = RamFits /\ PagefileFits' = PagefileFits /\ Thrashing' = Thrashing
             /\ \A d \in Devices : VramFits(d)' = VramFits(d)
             /\ NoVramFits' = NoVramFits /\ StableFull' = StableFull
  BY <1>a DEF RamFits, PagefileFits, Thrashing, RamEntries, VramFits, NoVramFits, StableFull
<1>b. ASSUME pc'[t] \in {"idle", "register", "enter", "policy", "copy"} PROVE Knows(t)'
  BY <1>b DEF Knows
<1>1. CASE pc[t] \notin Inside
  <2>1. pc'[t] \in {"idle", "register", "enter", "policy", "copy"}
    <3>1. ASSUME NEW u \in Threads, Step(u), u # t PROVE pc'[t] = pc[t]
      BY <1>0, <3>1 DEF Step, Allocation, RegisterAccess, Enter, Policy, OutOfVram, SkipDevice,
                        DeviceFails, LeaveVram, NoRam, AllocatePagefile, NoPagefile,
                        PlaceInVram, PlaceBlock, AllocateRam, EvictLRU, CopyIn, CopyOut,
                        CopyFails, Leave, ReturnFalse
    <3>2. ASSUME Step(t) PROVE pc'[t] \in {"idle", "enter", "policy", "copy"}
      <4>1. RegisterAccess(t) \/ Enter(t)
        BY <1>1, <3>2 DEF Step, Allocation, Policy, OutOfVram, SkipDevice, DeviceFails,
                          LeaveVram, NoRam, AllocatePagefile, NoPagefile, PlaceInVram,
                          AllocateRam, EvictLRU, CopyIn, CopyOut, CopyFails, Inside
      <4> QED
        BY <1>0, <4>1 DEF RegisterAccess, Enter, ReturnFalse
    <3>3. ASSUME NEW u \in Threads, NEW r \in Requests, Invoke(u, r)
          PROVE  pc'[t] \in {pc[t], "register", "idle"}
      BY <1>0, <3>3 DEF Invoke
    <3>4. ClientOp \/ UNCHANGED vars => pc' = pc
      BY ClientOpKeepsCalls DEF vars
    <3>5. pc[t] \in {"idle", "register", "enter"}
      BY <1>0, <1>1 DEF PCs, Inside
    <3> QED
      BY <3>1, <3>2, <3>3, <3>4, <3>5 DEF Next, Destroyed
  <2> QED
    BY <1>b, <2>1
<1>2. CASE pc[t] \in Inside /\ ~Step(t)
  <2>1. /\ UNCHANGED <<gpuAllocated, hostAllocated, pagefileAllocated, history, scan>>
        /\ pc'[t] = pc[t]
    BY <1>2, OthersWait
  <2> QED
    BY <1>a, <2>1 DEF Knows
<1>3. CASE pc[t] \in Inside /\ Step(t)
  <2>1. CASE Policy(t)
    <3>1. /\ UNCHANGED <<gpuAllocated, hostAllocated, pagefileAllocated, history>>
          /\ pc'[t] = (IF Thrashing THEN "stableRam" ELSE "vram") /\ scan'[t] = 0
      BY <1>0, <2>1 DEF Policy
    <3>2. \A d \in Devices : ~(d < 0)
      BY DEF Devices
    <3> QED
      BY <1>a, <3>1, <3>2 DEF Knows
  <2>a. ASSUME pc[t] = "vram" PROVE FreePtrs # {}
    <3>1. Block(t) \in Blocks /\ ~Mapped(Block(t))
      BY <2>a, ActiveCall DEF IInv, PlaceKnown, Inside
    <3> QED
      BY <3>1, MemoryLeft
  <2>b. CASE OutOfVram(t)
    BY <1>0, <2>a, <2>b DEF OutOfVram
  <2>2. CASE SkipDevice(t)
    <3>1. /\ UNCHANGED <<gpuAllocated, hostAllocated, pagefileAllocated, history>>
          /\ pc[t] = "vram" /\ pc'[t] = "vram" /\ scan'[t] = scan[t] + 1
          /\ scan[t] \in Devices
      BY <1>0, <2>2 DEF SkipDevice, DeviceFails, Knows
    <3>2. ~VramFits(scan[t])
      BY <1>0, <2>2, <3>1 DEF SkipDevice, DeviceFails
    <3>3. ASSUME NEW d \in Devices, d < scan'[t] PROVE ~VramFits(d)'
      <4>1. d < scan[t] \/ d = scan[t]
        BY <3>1, <3>3 DEF Devices
      <4> QED
        BY <1>a, <3>1, <3>2, <4>1 DEF Knows
    <3> QED
      BY <1>a, <3>1, <3>3 DEF Knows
  <2>3. CASE LeaveVram(t)
    <3>1. /\ UNCHANGED <<gpuAllocated, hostAllocated, pagefileAllocated, history>>
          /\ pc[t] = "vram" /\ pc'[t] = "ram" /\ scan[t] = NumDevices
      BY <1>0, <2>3 DEF LeaveVram
    <3>2. NoVramFits
      BY <1>0, <3>1 DEF Knows, NoVramFits, Devices
    <3> QED
      BY <1>a, <3>1, <3>2 DEF Knows
  <2>4. CASE NoRam(t)
    <3>1. /\ UNCHANGED <<gpuAllocated, hostAllocated, pagefileAllocated, history, scan>>
          /\ pc[t] \in {"stableRam", "ram"}
          /\ pc'[t] = (IF pc[t] = "stableRam" THEN "stablePagefile" ELSE "pagefile")
      BY <1>0, <2>4 DEF NoRam
    <3>2. FreePtrs # {}
      <4>1. Block(t) \in Blocks /\ ~Mapped(Block(t))
        BY <3>1, ActiveCall DEF IInv, PlaceKnown, Inside
      <4> QED
        BY <4>1, MemoryLeft
    <3>3. ~RamFits
      BY <1>0, <2>4, <3>2 DEF NoRam
    <3> QED
      BY <1>a, <3>1, <3>3 DEF Knows
  <2>5. CASE NoPagefile(t)
    <3>1. ~PagefileFits /\ UNCHANGED <<gpuAllocated, hostAllocated, pagefileAllocated, history>>
      BY <1>0, <2>5 DEF NoPagefile
    <3>2. CASE pc[t] = "stablePagefile"
      <4>1. pc'[t] = "vram" /\ UNCHANGED scan /\ StableFull
        BY <1>0, <2>5, <3>1, <3>2 DEF NoPagefile, Knows, StableFull
      <4>2. scan[t] = 0
        BY <3>2 DEF Knows
      <4> QED
        BY <1>a, <3>1, <4>1, <4>2 DEF Knows, Devices
    <3>3. CASE pc[t] = "pagefile"
      <4>1. pc'[t] = "idle"
        BY <1>0, <2>5, <3>3 DEF NoPagefile, ReturnFalse
      <4> QED
        BY <1>b, <4>1
    <3> QED
      BY <2>5, <3>2, <3>3 DEF NoPagefile
  <2>6. CASE \E p \in Ptrs : PlaceInVram(t, p) \/ AllocateRam(t, p)
    <3>1. pc'[t] = "copy"
      BY <1>0, <2>6 DEF PlaceInVram, AllocateRam, PlaceBlock
    <3> QED
      BY <1>b, <3>1
  <2>7. CASE AllocatePagefile(t)
    <3>1. pc'[t] = "copy"
      BY <1>0, <2>7 DEF AllocatePagefile
    <3> QED
      BY <1>b, <3>1
  <2>8. CASE \E b \in Blocks, p \in Ptrs : EvictLRU(t, b, p)
    BY <2>8 DEF EvictLRU, Knows
  <2>9. CASE CopyIn(t) \/ CopyOut(t) \/ CopyFails(t)
    <3>1. pc'[t] \in {"idle", "register"}
      BY <1>0, <2>9 DEF CopyIn, CopyOut, CopyFails, Leave, ReturnFalse
    <3> QED
      BY <1>b, <3>1
  <2> QED
    BY <1>3, <2>1, <2>b, <2>2, <2>3, <2>4, <2>5, <2>6, <2>7, <2>8, <2>9
       DEF Step, Allocation, RegisterAccess, Enter, Inside
<1> QED
  BY <1>1, <1>2, <1>3

(* What threads know holds in every reachable state.                         *)
LEMMA KnowledgeInvariant ==
  ASSUME Generous
  PROVE  Spec => [](\A t \in Threads : Knows(t))
<1> DEFINE All == \A t \in Threads : Knows(t)
<1>1. Init => All
  <2>1. ASSUME Init, NEW t \in Threads PROVE pc[t] = "idle"
    BY <2>1 DEF Init
  <2> QED
    BY <2>1 DEF Knows
<1>2. IInv /\ NothingLeaks /\ All /\ [Next]_vars => All'
  <2>1. ASSUME IInv, NothingLeaks, All, [Next]_vars, NEW t \in Threads PROVE Knows(t)'
    BY <2>1, KnowsPreserved
  <2> QED
    BY <2>1
<1>3. Spec => []NothingLeaks
  BY NoLeaks DEF Generous
<1> HIDE DEF All
<1>4. Spec => []All
  BY <1>1, <1>2, <1>3, Invariant, PTL DEF Spec
<1> QED
  BY <1>4 DEF All

(* A block gets storage in one of three ways.                                *)
LEMMA WhoPlaces ==
  ASSUME IInv, [Next]_vars, "migrateBlockToTier" \notin ClientOps,
         NEW b \in Blocks, ~Mapped(b), Mapped(b)'
  PROVE  \E t \in Threads :
           /\ b = Block(t)
           /\ \/ \E p \in Ptrs : PlaceInVram(t, p) /\ blockMap'[b].tier = "Vram"
              \/ \E p \in Ptrs : AllocateRam(t, p) /\ blockMap'[b].tier = "Ram"
              \/ AllocatePagefile(t) /\ blockMap'[b].tier = "Pagefile"
<1> USE DEF places
<1>0. blockMap \in [Blocks -> Location] /\ blockMap'[b] # blockMap[b]
  BY DEF IInv, TypeOK, Mapped
<1>1. ASSUME NEW t \in Threads, NEW loc, blockMap' = [blockMap EXCEPT ![Block(t)] = loc]
      PROVE  b = Block(t) /\ blockMap'[b] = loc
  BY <1>0, <1>1
<1>2. ASSUME NEW x \in Blocks, NEW d \in Devices, NEW p \in Ptrs, Evict(x, d, p)
      PROVE  FALSE
  <2>1. Mapped(x) /\ MigrateToRam(x, p)
    BY <1>2, EvictedIsMapped
  <2> QED
    BY <1>0, <2>1 DEF MigrateToRam
<1>3. ~ClientOp
  <2>1. ASSUME NEW d \in Devices, NEW x \in Blocks, NEW p \in Ptrs,
               EvictLRUBlockFromGPU(d, x, p)
        PROVE  FALSE
    BY <1>2, <2>1 DEF EvictLRUBlockFromGPU
  <2>2. \A x \in Blocks : ~RegisterOnly(x)
    BY <1>0 DEF RegisterOnly
  <2>3. \A x \in Blocks : ~FreeBlockPhysical(x)
    BY <1>0 DEF FreeBlockPhysical, Mapped, Unmapped
  <2>4. \A tier \in Tiers : ~LogResidencyChange(tier)
    BY <1>0 DEF LogResidencyChange
  <2>5. ~Cleanup /\ ~Destroy
    BY DEF Cleanup, Destroy, CleanupEffect, Mapped, Unmapped
  <2>6. \A x, dev, p : ~MigrateBlockToTier(x, dev, p)
    BY DEF MigrateBlockToTier, Uses
  <2> QED
    BY <2>1, <2>2, <2>3, <2>4, <2>5, <2>6 DEF ClientOp
<1>4. PICK t \in Threads : Step(t)
  <2>1. \A t \in Threads, r \in Requests : ~Invoke(t, r)
    BY <1>0 DEF Invoke
  <2>2. ~UNCHANGED vars
    BY <1>0 DEF vars
  <2> QED
    BY <1>3, <2>1, <2>2 DEF Next, Destroyed
<1>5. (\E p \in Ptrs : PlaceInVram(t, p) \/ AllocateRam(t, p)) \/ AllocatePagefile(t)
  <2>1. ASSUME NEW x \in Blocks, NEW p \in Ptrs, EvictLRU(t, x, p) PROVE FALSE
    BY <1>2, <2>1 DEF EvictLRU
  <2> QED
    BY <1>0, <1>4, <2>1 DEF Step, Allocation, RegisterAccess, Enter, Policy, OutOfVram,
                            SkipDevice, DeviceFails, LeaveVram, NoRam, NoPagefile, CopyIn,
                            CopyOut, CopyFails
<1>6. ASSUME NEW p \in Ptrs, PlaceInVram(t, p) PROVE b = Block(t) /\ blockMap'[b].tier = "Vram"
  <2> DEFINE loc == [tier |-> "Vram", dev |-> scan[t], at |-> p]
  <2>1. blockMap' = [blockMap EXCEPT ![Block(t)] = loc] /\ loc.tier = "Vram"
    BY <1>6 DEF PlaceInVram, PlaceBlock
  <2> HIDE DEF loc
  <2> QED
    BY <1>1, <2>1
<1>7. ASSUME NEW p \in Ptrs, AllocateRam(t, p) PROVE b = Block(t) /\ blockMap'[b].tier = "Ram"
  <2> DEFINE loc == [tier |-> "Ram", dev |-> Host, at |-> p]
  <2>1. blockMap' = [blockMap EXCEPT ![Block(t)] = loc] /\ loc.tier = "Ram"
    BY <1>7 DEF AllocateRam, PlaceBlock
  <2> HIDE DEF loc
  <2> QED
    BY <1>1, <2>1
<1>8. ASSUME AllocatePagefile(t) PROVE b = Block(t) /\ blockMap'[b].tier = "Pagefile"
  <2> DEFINE loc == [tier |-> "Pagefile", dev |-> Host, at |-> pagefileAllocated]
  <2>1. blockMap' = [blockMap EXCEPT ![Block(t)] = loc] /\ loc.tier = "Pagefile"
    BY <1>8 DEF AllocatePagefile
  <2> HIDE DEF loc
  <2> QED
    BY <1>1, <2>1
<1> QED
  BY <1>5, <1>6, <1>7, <1>8

(* The tier a block gets is the one the policy wants.                        *)
LEMMA PlacedInOrder ==
  ASSUME IInv, \A t \in Threads : Knows(t), [Next]_vars,
         "migrateBlockToTier" \notin ClientOps, NEW b \in Blocks, ~Mapped(b), Mapped(b)'
  PROVE  /\ blockMap'[b].tier = "Ram"      => Thrashing \/ NoVramFits
         /\ blockMap'[b].tier = "Pagefile" => ~RamFits /\ (Thrashing \/ NoVramFits)
         /\ blockMap'[b].tier = "Vram"     => ~Thrashing \/ (~RamFits /\ ~PagefileFits)
<1>1. PICK t \in Threads :
           \/ \E p \in Ptrs : PlaceInVram(t, p) /\ blockMap'[b].tier = "Vram"
           \/ \E p \in Ptrs : AllocateRam(t, p) /\ blockMap'[b].tier = "Ram"
           \/ AllocatePagefile(t) /\ blockMap'[b].tier = "Pagefile"
  BY WhoPlaces
<1>2. Knows(t)
  OBVIOUS
<1>3. CASE \E p \in Ptrs : PlaceInVram(t, p) /\ blockMap'[b].tier = "Vram"
  BY <1>2, <1>3 DEF PlaceInVram, Knows, StableFull
<1>4. CASE \E p \in Ptrs : AllocateRam(t, p) /\ blockMap'[b].tier = "Ram"
  BY <1>2, <1>4 DEF AllocateRam, Knows
<1>5. CASE AllocatePagefile(t) /\ blockMap'[b].tier = "Pagefile"
  BY <1>2, <1>5 DEF AllocatePagefile, Knows
<1> QED
  BY <1>1, <1>3, <1>4, <1>5

(* VRAM, then RAM, then the pagefile; under thrashing RAM, the pagefile, and *)
(* VRAM last: the counters a thread saw to be full are full when it places   *)
(* the block, because it has held the mutex since.                           *)
THEOREM TiersFollowPolicy ==
  ASSUME Generous
  PROVE  Spec => TiersInOrder
<1>1. IInv /\ (\A t \in Threads : Knows(t)) /\ [Next]_vars
        => [\A b \in Blocks : ~Mapped(b) /\ Mapped(b)' =>
              /\ blockMap'[b].tier = "Ram"      => Thrashing \/ NoVramFits
              /\ blockMap'[b].tier = "Pagefile" => ~RamFits /\ (Thrashing \/ NoVramFits)
              /\ blockMap'[b].tier = "Vram"
                   => ~Thrashing \/ (~RamFits /\ ~PagefileFits)]_vars
  BY PlacedInOrder DEF Generous
<1> QED
  BY <1>1, Invariant, KnowledgeInvariant, PTL DEF Spec, TiersInOrder

(* A step that makes a running call return false.                            *)
LEMMA WhoRefuses ==
  ASSUME TInv, Generous, Faults \cap {"cudaMemcpy", "MapViewOfFile"} = {},
         \A u \in Threads : Knows(u), [Next]_vars,
         NEW t \in Threads, Running(t), call'[t].status = "false"
  PROVE  /\ ~Mapped(Block(t))
         /\ call[t].op \in WriteOps => NoVramFits /\ ~RamFits /\ ~PagefileFits
<1> USE DEF places
<1>0. /\ IInv /\ call \in [Threads -> Call] /\ call'[t] # call[t]
      /\ ~CanFail("cudaSetDevice") /\ ~CanFail("CreateFileMapping")
      /\ ~CanFail("cudaMemcpy") /\ ~CanFail("MapViewOfFile")
  BY DEF TInv, IInv, TypeOK, Running, Generous, CanFail
<1>1. ~ClientOp /\ ~UNCHANGED vars
  BY <1>0, ClientOpKeepsCalls DEF vars
<1>2. ASSUME NEW u \in Threads, NEW r \in Requests, Invoke(u, r) PROVE FALSE
  <2>1. u # t
    BY <1>2 DEF Invoke, TInv, IdleDone
  <2> QED
    BY <1>0, <1>2, <2>1 DEF Invoke
<1>3. PICK u \in Threads : Step(u)
  BY <1>1, <1>2 DEF Next, Destroyed
<1>4. u = t
  <2>1. SUFFICES ASSUME u # t PROVE FALSE
    OBVIOUS
  <2> QED
    BY <1>0, <1>3, <2>1 DEF Step, Allocation, RegisterAccess, Enter, Policy, OutOfVram,
                            SkipDevice, DeviceFails, LeaveVram, NoRam, AllocatePagefile,
                            NoPagefile, PlaceInVram, AllocateRam, EvictLRU, CopyIn, CopyOut,
                            CopyFails, Leave, ReturnFalse
<1>5. CASE Enter(t)
  <2>1. ~Mapped(Block(t)) /\ call[t].op \in ReadOps
    BY <1>0, <1>5 DEF Enter
  <2> QED
    BY <2>1 DEF ReadOps, WriteOps
<1>6. CASE NoPagefile(t)
  <2>1. pc[t] = "pagefile" /\ ~PagefileFits
    BY <1>0, <1>6 DEF NoPagefile
  <2> QED
    BY <1>0, <2>1 DEF Knows, IInv, PlaceKnown, Inside
<1>7. ASSUME CopyIn(t) \/ CopyOut(t) PROVE FALSE
  <2>1. PICK n, b : call'[t] = Advance(call[t], n, b)
    BY <1>0, <1>7 DEF CopyIn, CopyOut, Leave
  <2>2. call'[t].status \in {"running", "true"}
    BY <1>0, <2>1 DEF Advance, Call
  <2> QED
    BY <2>2
<1>8. ASSUME CopyFails(t) PROVE FALSE
  <2>1. pc[t] = "copy" /\ blockMap[Block(t)].tier = "Pagefile" /\ ~mapping /\ Block(t) \in Blocks
    BY <1>0, <1>8, ActiveCall DEF CopyFails, CopyMayFail
  <2> QED
    BY <1>0, <2>1 DEF IInv, StorageSound, ExtentSound
<1> QED
  BY <1>0, <1>3, <1>4, <1>5, <1>6, <1>7, <1>8
     DEF Step, Allocation, RegisterAccess, Policy, OutOfVram, SkipDevice, DeviceFails,
         LeaveVram, NoRam, AllocatePagefile, PlaceInVram, AllocateRam, EvictLRU

(* A write is refused only when every tier is at its budget, a read only for *)
(* a block that was never written: no failure of a tier hides room in the    *)
(* next one.                                                                 *)
THEOREM RefusalsAreDue ==
  ASSUME Generous, Faults \cap {"cudaMemcpy", "MapViewOfFile"} = {}
  PROVE  Spec => RefusedOnlyWhenFull
<1>1. TInv /\ (\A t \in Threads : Knows(t)) /\ [Next]_vars
        => [\A t \in Threads : Running(t) /\ call'[t].status = "false" =>
              /\ ~Mapped(Block(t))
              /\ call[t].op \in WriteOps => NoVramFits /\ ~RamFits /\ ~PagefileFits]_vars
  BY WhoRefuses
<1> QED
  BY <1>1, ThreadInvariant, KnowledgeInvariant, PTL DEF Spec, RefusedOnlyWhenFull

-----------------------------------------------------------------------------
(***************************************************************************)
(* VirtualGpuMemory implements BlockStore, as long as cleared memory is    *)
(* clear, a copy between tiers copies, and clients leave                   *)
(* migrateBlockToTier alone: the three ways in which the code is known to  *)
(* lose what was written.                                                  *)
(***************************************************************************)

(* The content of a block as clients see it.                                 *)
View(b) == IF Mapped(b) THEN Holds(b) ELSE Filled(Zero)

StoreBytes == [o \in Offsets |-> IF Mapped(BlockOf(o)) THEN Holds(BlockOf(o))[o % BlockSize]
                                                        ELSE Zero]
StoreBlocks == {b \in Blocks : Mapped(b)}

Sane == /\ ~CanFail("cudaMemset") /\ ~CanFail("migrationCopy")
        /\ "migrateBlockToTier" \notin ClientOps

(* What the refinement needs beyond TInv: the extents not yet handed out are *)
(* clear.                                                                    *)
FreshClear == \A e \in Extents : e >= pagefileAllocated => data[e] = Filled(Zero)

SInv == TInv /\ FreshClear

-----------------------------------------------------------------------------
(* Both sides speak of calls and offsets in the same words.                  *)
LEMMA SameWords ==
  /\ Store!Offsets = Offsets /\ Store!Blocks = Blocks
  /\ Store!WriteOps = WriteOps /\ Store!ReadOps = ReadOps
  /\ Store!NoCall = NoCall
  /\ \A r : Store!NewCall(r) = NewCall(r)
  /\ \A c : Store!Failed(c) = Failed(c)
  /\ \A c, n, b : Store!Advance(c, n, b) = Advance(c, n, b)
  /\ \A o : Store!BlockOf(o) = BlockOf(o)
<1>1. Store!Offsets = Offsets /\ Store!Blocks = Blocks
  BY DEF Store!Offsets, Offsets, Store!Blocks, Blocks
<1>2. Store!WriteOps = WriteOps /\ Store!ReadOps = ReadOps
  BY DEF Store!WriteOps, WriteOps, Store!ReadOps, ReadOps
<1>3. Store!NoCall = NoCall
  BY DEF Store!NoCall, NoCall, Store!EmptyBuf, EmptyBuf, Store!Offsets, Offsets
<1>4. \A r : Store!NewCall(r) = NewCall(r)
  BY DEF Store!NewCall, NewCall, Store!EarlyStatus, EarlyStatus, Store!BlockOps, BlockOps,
         Store!EmptyBuf, EmptyBuf, Store!Offsets, Offsets
<1>5. \A c : Store!Failed(c) = Failed(c)
  BY DEF Store!Failed, Failed
<1>6. \A c, n, b : Store!Advance(c, n, b) = Advance(c, n, b)
  BY DEF Store!Advance, Advance
<1>7. \A o : Store!BlockOf(o) = BlockOf(o)
  BY DEF Store!BlockOf, BlockOf
<1> QED
  BY <1>1, <1>2, <1>3, <1>4, <1>5, <1>6, <1>7

(* Division by the block size has one quotient.                              *)
LEMMA OneQuotient ==
  ASSUME NEW o \in Nat, NEW q \in Nat, NEW r \in Cells, o = BlockSize * q + r
  PROVE  BlockOf(o) = q /\ o % BlockSize = r
<1> DEFINE q2 == o \div BlockSize
           r2 == o % BlockSize
<1>1. BlockSize \in Nat \ {0} /\ r \in 0 .. BlockSize - 1
  BY SizeAssumption DEF Cells
<1>2. q2 \in Nat /\ r2 \in 0 .. BlockSize - 1 /\ o = BlockSize * q2 + r2
  BY <1>1
<1> HIDE DEF q2, r2
<1>3. ~(q2 < q)
  <2>1. SUFFICES ASSUME q2 < q PROVE FALSE
    OBVIOUS
  <2>2. BlockSize * (q2 + 1) <= BlockSize * q
    BY <1>1, <1>2, <2>1
  <2>3. BlockSize * (q2 + 1) = BlockSize * q2 + BlockSize
    BY <1>1, <1>2
  <2> QED
    BY <1>1, <1>2, <2>2, <2>3
<1>4. ~(q < q2)
  <2>1. SUFFICES ASSUME q < q2 PROVE FALSE
    OBVIOUS
  <2>2. BlockSize * (q + 1) <= BlockSize * q2
    BY <1>1, <1>2, <2>1
  <2>3. BlockSize * (q + 1) = BlockSize * q + BlockSize
    BY <1>1
  <2> QED
    BY <1>1, <1>2, <2>2, <2>3
<1>5. q2 = q
  BY <1>2, <1>3, <1>4
<1>6. r2 = r
  BY <1>1, <1>2, <1>5
<1> QED
  BY <1>5, <1>6 DEF q2, r2, BlockOf

(* The segment of the promise is what the copy covers: bytesToCopy bytes     *)
(* from blockOffset on, all in one block.                                    *)
LEMMA SegmentIsCopied ==
  ASSUME NEW c \in Call, c.pos \in Offsets, c.pos <= c.end, c.end <= NumBlocks * BlockSize
  PROVE  /\ Store!Segment(c) = c.pos .. c.pos + BytesToCopy(c) - 1
         /\ BytesToCopy(c) \in 0 .. BlockSize
         /\ \A o \in Store!Segment(c) :
              /\ o \in Offsets /\ BlockOf(o) = BlockOf(c.pos)
              /\ BlockOffset(c) + (o - c.pos) = o % BlockSize
         /\ \A o \in Offsets : BlockOf(o) = BlockOf(c.pos) =>
              (o \in Store!Segment(c) <=> o % BlockSize \in CopiedCells(c))
<1> DEFINE q == BlockOf(c.pos)
           r == BlockOffset(c)
           n == BytesToCopy(c)
           m == BlockSize * q
<1>1. /\ c.pos \in Nat /\ c.end \in Nat /\ BlockSize \in Nat \ {0} /\ NumBlocks \in Nat
      /\ NumBlocks * BlockSize \in Nat
  BY SizeAssumption, OffsetsAreNaturals DEF Call
<1>2. q \in Nat /\ r \in 0 .. BlockSize - 1 /\ m \in Nat /\ c.pos = m + r
  BY <1>1 DEF BlockOf, BlockOffset
<1>3. /\ n \in 0 .. BlockSize - r /\ c.pos + n <= c.end
      /\ n = BlockSize - r \/ n = c.end - c.pos
  BY <1>1, <1>2 DEF BytesToCopy
<1>4. ASSUME NEW o \in Nat, c.pos <= o, o < c.pos + n
      PROVE  o \in Offsets /\ BlockOf(o) = q /\ r + (o - c.pos) = o % BlockSize /\ o < c.end
  <2> DEFINE s == r + (o - c.pos)
  <2>1. s \in Cells /\ o = BlockSize * q + s
    BY <1>1, <1>2, <1>3, <1>4 DEF Cells
  <2>2. BlockOf(o) = q /\ o % BlockSize = s
    <3> HIDE DEF s, q
    <3> QED
      BY <1>2, <2>1, OneQuotient
  <2>3. o < c.end
    BY <1>1, <1>3, <1>4
  <2>4. o \in Offsets
    BY <1>1, <2>3 DEF Offsets
  <2> QED
    BY <2>2, <2>3, <2>4
<1>5. ASSUME NEW o \in Offsets, BlockOf(o) = q
      PROVE  o \in Nat /\ o = m + (o % BlockSize) /\ o % BlockSize \in 0 .. BlockSize - 1
  <2>1. o \in Nat
    BY OffsetsAreNaturals
  <2> QED
    BY <1>1, <1>5, <2>1 DEF BlockOf
<1> HIDE DEF q, r, n, m
<1>6. ASSUME NEW o \in Offsets, BlockOf(o) = q
      PROVE  (c.pos <= o /\ o < c.end) <=> (c.pos <= o /\ o < c.pos + n)
  <2>1. o < m + BlockSize
    BY <1>1, <1>2, <1>5, <1>6
  <2> QED
    BY <1>1, <1>2, <1>3, <1>5, <1>6, <2>1
<1>7. Store!Segment(c) = c.pos .. c.pos + n - 1
  <2>1. ASSUME NEW o \in Store!Segment(c) PROVE o \in c.pos .. c.pos + n - 1
    <3>1. o \in Offsets /\ c.pos <= o /\ o < c.end /\ BlockOf(o) = q
      BY <2>1, SameWords DEF Store!Segment, q
    <3>2. o < c.pos + n /\ o \in Nat
      BY <1>5, <1>6, <3>1
    <3> QED
      BY <1>1, <1>2, <1>3, <3>1, <3>2
  <2>2. ASSUME NEW o \in c.pos .. c.pos + n - 1 PROVE o \in Store!Segment(c)
    <3>1. o \in Nat /\ c.pos <= o /\ o < c.pos + n
      BY <1>1, <1>2, <1>3, <2>2
    <3>2. o \in Offsets /\ BlockOf(o) = q /\ o < c.end
      BY <1>4, <3>1
    <3> QED
      BY <3>1, <3>2, SameWords DEF Store!Segment, q
  <2> QED
    BY <2>1, <2>2
<1>8. ASSUME NEW o \in Store!Segment(c)
      PROVE  /\ o \in Offsets /\ BlockOf(o) = q /\ r + (o - c.pos) = o % BlockSize
  <2>1. o \in Nat /\ c.pos <= o /\ o < c.pos + n
    BY <1>1, <1>2, <1>3, <1>7, <1>8
  <2> QED
    BY <1>4, <2>1
<1>9. ASSUME NEW o \in Offsets, BlockOf(o) = q
      PROVE  o \in Store!Segment(c) <=> o % BlockSize \in CopiedCells(c)
  <2>1. CopiedCells(c) = r .. r + n - 1
    BY DEF CopiedCells, r, n
  <2>2. o % BlockSize \in Nat /\ o \in Nat /\ o = m + (o % BlockSize)
    BY <1>5, <1>9
  <2>3. o \in c.pos .. c.pos + n - 1 <=> o % BlockSize \in r .. r + n - 1
    BY <1>1, <1>2, <1>3, <2>2
  <2> QED
    BY <1>7, <2>1, <2>3
<1>10. n \in 0 .. BlockSize
  BY <1>1, <1>2, <1>3
<1> QED
  BY <1>7, <1>8, <1>9, <1>10 DEF q, r, n

-----------------------------------------------------------------------------
(* Where blocks are.                                                         *)

(* A block is in memory that is taken or in an extent that was handed out.   *)
LEMMA PlaceOf ==
  ASSUME IInv, NEW b \in Blocks, Mapped(b)
  PROVE  \/ blockMap[b].at \in Ptrs /\ pool[blockMap[b].at] # Free
         \/ blockMap[b].at \in Extents /\ blockMap[b].at \in 0 .. pagefileAllocated - 1
<1>1. blockMap[b].tier \in Tiers
  BY DEF IInv, TypeOK, Mapped, Location
<1>2. CASE blockMap[b].tier \in {"Vram", "Ram"}
  BY <1>2, LimitAssumption DEF IInv, StorageSound, PtrSound, Host, Free, Devices
<1>3. CASE blockMap[b].tier = "Pagefile"
  <2>1. blockMap[b].at \in 0 .. pagefileAllocated - 1 /\ pagefileAllocated \in 0 .. PagefileLimit
    BY <1>3 DEF IInv, StorageSound, ExtentSound, TypeOK
  <2> QED
    BY <2>1, LimitAssumption DEF Extents
<1> QED
  BY <1>1, <1>2, <1>3 DEF Tiers

(* Free memory and extents not yet handed out hold no block.                 *)
LEMMA NobodyThere ==
  ASSUME IInv, NEW b \in Blocks, Mapped(b)
  PROVE  /\ \A p \in FreePtrs : blockMap[b].at # p
         /\ \A e \in Nat : e >= pagefileAllocated => blockMap[b].at # e
<1>1. pagefileAllocated \in Nat /\ FreePtrs \subseteq Ptrs
  BY DEF IInv, TypeOK, FreePtrs
<1> QED
  BY <1>1, PlaceOf, PtrAssumption DEF FreePtrs, Extents

(* A block keeps its content when neither its place nor what is there        *)
(* changes.                                                                  *)
LEMMA ViewKept ==
  ASSUME IInv, NEW b \in Blocks, blockMap'[b] = blockMap[b],
         Mapped(b) => data'[blockMap[b].at] = data[blockMap[b].at]
  PROVE  View(b)' = View(b) /\ (Mapped(b)' <=> Mapped(b))
  BY DEF View, Mapped, Holds, Filled

(* A block that is given cleared storage looks as it did.                    *)
LEMMA PlacedView ==
  ASSUME IInv, NEW t \in Threads, NEW loc,
         Block(t) \in Blocks, ~Mapped(Block(t)), loc.tier # "None",
         blockMap' = [blockMap EXCEPT ![Block(t)] = loc],
         \A b \in Blocks : Mapped(b) => data'[blockMap[b].at] = data[blockMap[b].at],
         data'[loc.at] = Filled(Zero)
  PROVE  \A b \in Blocks : View(b)' = View(b) /\ (Mapped(b)' <=> Mapped(b) \/ b = Block(t))
<1>1. blockMap \in [Blocks -> Location]
  BY DEF IInv, TypeOK
<1>2. ASSUME NEW b \in Blocks, b # Block(t)
      PROVE  View(b)' = View(b) /\ (Mapped(b)' <=> Mapped(b))
  BY <1>1, <1>2, ViewKept
<1>3. ASSUME NEW b \in Blocks, b = Block(t)
      PROVE  View(b)' = View(b) /\ Mapped(b)'
  <2>1. blockMap'[b] = loc /\ ~Mapped(b)
    BY <1>1, <1>3
  <2> QED
    BY <2>1 DEF View, Mapped, Holds, Filled
<1> QED
  BY <1>2, <1>3

(* An evicted block takes its content along.                                 *)
LEMMA EvictedView ==
  ASSUME IInv, Sane, NEW b \in Blocks, NEW d \in Devices, NEW p \in Ptrs, Evict(b, d, p)
  PROVE  \A x \in Blocks : View(x)' = View(x) /\ (Mapped(x)' <=> Mapped(x))
<1>0. blockMap \in [Blocks -> Location]
  BY DEF IInv, TypeOK
<1>1. /\ b \in OnDevice(d) /\ Mapped(b) /\ MigrateToRam(b, p)
  BY EvictedIsMapped
<1>2. blockMap[b].tier = "Vram" /\ blockMap[b].at \in Ptrs /\ p \in FreePtrs
  BY <1>1 DEF OnDevice, IInv, StorageSound, PtrSound, MigrateToRam
<1>3. MigratedContents(b) = {data[blockMap[b].at]}
  BY <1>2 DEF MigratedContents, Sane
<1>4. /\ blockMap'[b] = [tier |-> "Ram", dev |-> Host, at |-> p]
      /\ \A x \in Blocks \ {b} : blockMap'[x] = blockMap[x]
      /\ data' = [x \in Ptrs \cup Extents |->
                    IF x = p THEN data[blockMap[b].at]
                    ELSE IF x \in {blockMap[b].at} THEN Filled(Junk) ELSE data[x]]
  BY <1>0, <1>1, <1>2, <1>3 DEF MigrateToRam
<1>5. View(b)' = View(b) /\ Mapped(b)' /\ Mapped(b)
  BY <1>1, <1>4 DEF View, Mapped, Holds
<1>6. ASSUME NEW x \in Blocks, x # b PROVE View(x)' = View(x) /\ (Mapped(x)' <=> Mapped(x))
  <2>1. ASSUME Mapped(x) PROVE data'[blockMap[x].at] = data[blockMap[x].at]
    <3>1. blockMap[x].at # p /\ blockMap[x].at \in Ptrs \cup Extents
      BY <1>2, <2>1, NobodyThere, PlaceOf
    <3>2. blockMap[x].at # blockMap[b].at
      BY <1>1, <1>6, <2>1 DEF IInv, StorageSound, NotShared
    <3> QED
      BY <1>4, <3>1, <3>2
  <2> QED
    BY <1>4, <1>6, <2>1, ViewKept
<1> QED
  BY <1>5, <1>6
-----------------------------------------------------------------------------
(* The invariant of the refinement.                                          *)

(* Nothing is written to an extent before it is handed out.                  *)
LEMMA FreshPreserved ==
  ASSUME SInv, Sane, [Next]_vars
  PROVE  FreshClear'
<1> USE DEF places
<1>0. /\ IInv /\ FreshClear /\ data \in [Ptrs \cup Extents -> Content]
      /\ pagefileAllocated \in Nat /\ Extents \subseteq Nat /\ Ptrs \cap Extents = {}
  BY LimitAssumption, PtrAssumption DEF SInv, TInv, IInv, TypeOK, Extents
<1>1. ASSUME pagefileAllocated' >= pagefileAllocated, pagefileAllocated' \in Nat,
             \A e \in Extents : e >= pagefileAllocated => data'[e] = data[e]
      PROVE  FreshClear'
  BY <1>0, <1>1 DEF FreshClear
<1>2. ASSUME UNCHANGED <<data, pagefileAllocated>> PROVE FreshClear'
  BY <1>0, <1>1, <1>2
<1>3. ASSUME NEW t \in Threads, NEW c, pc[t] = "copy", UNCHANGED <<blockMap, pagefileAllocated>>,
             data' = [data EXCEPT ![blockMap[Block(t)].at] = c]
      PROVE  FreshClear'
  <2>1. Block(t) \in Blocks /\ Mapped(Block(t))
    BY <1>0, <1>3, ActiveCall DEF IInv, PlaceKnown, Inside
  <2>2. \A e \in Extents : e >= pagefileAllocated => blockMap[Block(t)].at # e
    BY <1>0, <2>1, NobodyThere
  <2> QED
    BY <1>0, <1>1, <1>3, <2>2
<1>4. ASSUME NEW t \in Threads,
             \/ RegisterAccess(t) \/ Enter(t) \/ Policy(t) \/ OutOfVram(t) \/ SkipDevice(t)
             \/ LeaveVram(t) \/ NoRam(t) \/ NoPagefile(t) \/ CopyOut(t)
      PROVE  FreshClear'
  BY <1>2, <1>4 DEF RegisterAccess, Enter, Policy, OutOfVram, SkipDevice, DeviceFails,
                    LeaveVram, NoRam, NoPagefile, CopyOut
<1>5. ASSUME NEW t \in Threads, CopyIn(t) \/ CopyFails(t) PROVE FreshClear'
  <2>1. CASE UNCHANGED data
    BY <1>2, <1>5, <2>1 DEF CopyIn, CopyFails
  <2>2. CASE data' = [data EXCEPT ![blockMap[Block(t)].at] = Written(call[t], @)]
    BY <1>3, <1>5, <2>2 DEF CopyIn, CopyFails
  <2> QED
    BY <1>5, <2>1, <2>2 DEF CopyIn, CopyFails
<1>6. ASSUME NEW t \in Threads, NEW p \in Ptrs, PlaceInVram(t, p) \/ AllocateRam(t, p)
      PROVE  FreshClear'
  <2>1. pagefileAllocated' = pagefileAllocated /\ \E c : data' = [data EXCEPT ![p] = c]
    BY <1>6 DEF PlaceInVram, AllocateRam, PlaceBlock
  <2> QED
    BY <1>0, <1>1, <2>1
<1>7. ASSUME NEW t \in Threads, AllocatePagefile(t) PROVE FreshClear'
  BY <1>0, <1>1, <1>7 DEF AllocatePagefile
<1>8. ASSUME NEW b \in Blocks, NEW d \in Devices, NEW p \in Ptrs, Evict(b, d, p),
             UNCHANGED pagefileAllocated
      PROVE  FreshClear'
  <2>1. blockMap[b].tier = "Vram" /\ MigrateToRam(b, p) /\ blockMap[b].at \in Ptrs
    BY <1>0, <1>8, EvictedIsMapped DEF OnDevice, IInv, StorageSound, PtrSound
  <2>2. \A e \in Extents : e # p /\ e # blockMap[b].at
    BY <1>0, <2>1
  <2>3. \A e \in Extents : data'[e] = data[e]
    BY <2>1, <2>2 DEF MigrateToRam
  <2> QED
    BY <1>0, <1>1, <1>8, <2>3
<1>9. ASSUME NEW t \in Threads, NEW b \in Blocks, NEW p \in Ptrs, EvictLRU(t, b, p)
      PROVE  FreshClear'
  BY <1>8, <1>9 DEF EvictLRU
<1>10. ASSUME CleanupEffect PROVE FreshClear'
  <2>1. /\ pagefileAllocated' = pagefileAllocated
        /\ \A b \in Blocks : HoldsPtr(b) => blockMap[b].at \in Ptrs
    BY <1>0, <1>10 DEF CleanupEffect, HoldsPtr, IInv, StorageSound, PtrSound
  <2>2. \A e \in Extents : data'[e] = Filled(Zero)
    BY <1>0, <1>10, <2>1 DEF CleanupEffect
  <2> QED
    BY <2>2 DEF FreshClear
<1>11. CASE ClientOp
  <2>1. ASSUME NEW d \in Devices, NEW b \in Blocks, NEW p \in Ptrs,
               EvictLRUBlockFromGPU(d, b, p)
        PROVE  FreshClear'
    BY <1>8, <2>1 DEF EvictLRUBlockFromGPU
  <2>2. ASSUME NEW b \in Blocks, RegisterOnly(b) \/ FreeBlockPhysical(b) PROVE FreshClear'
    BY <1>2, <2>2 DEF RegisterOnly, FreeBlockPhysical
  <2>3. ASSUME NEW tier \in Tiers, LogResidencyChange(tier) PROVE FreshClear'
    BY <1>2, <2>3 DEF LogResidencyChange
  <2>4. CASE Cleanup \/ Destroy
    BY <1>10, <2>4 DEF Cleanup, Destroy
  <2>5. \A b, dev, p : ~MigrateBlockToTier(b, dev, p)
    BY DEF MigrateBlockToTier, Uses, Sane
  <2> QED
    BY <1>11, <2>1, <2>2, <2>3, <2>4, <2>5 DEF ClientOp
<1>12. CASE UNCHANGED vars
  BY <1>2, <1>12 DEF vars
<1>13. ASSUME NEW t \in Threads, NEW r \in Requests, Invoke(t, r) PROVE FreshClear'
  BY <1>2, <1>13 DEF Invoke
<1> QED
  BY <1>4, <1>5, <1>6, <1>7, <1>9, <1>11, <1>12, <1>13 DEF Next, Step, Allocation, Destroyed

(* Hence the invariant of the refinement, in every reachable state.          *)
LEMMA StoreInvariant == ASSUME Sane PROVE Spec => []SInv
<1>1. Init => FreshClear
  BY PtrAssumption, LimitAssumption DEF Init, FreshClear, Extents
<1>2. TInv /\ FreshClear /\ [Next]_vars => FreshClear'
  BY FreshPreserved DEF SInv, TInv
<1>3. TInv /\ FreshClear => SInv
  BY DEF SInv, TInv
<1> QED
  BY <1>1, <1>2, <1>3, ThreadInvariant, PTL DEF Spec

-----------------------------------------------------------------------------
(* The steps, as a client sees them.                                         *)

(* The bytes of the promise are the contents of the blocks.                  *)
LEMMA BytesOfViews ==
  /\ StoreBytes = [o \in Offsets |-> View(BlockOf(o))[o % BlockSize]]
  /\ StoreBytes' = [o \in Offsets |-> View(BlockOf(o))'[o % BlockSize]]
  /\ \A o \in Offsets : BlockOf(o) \in Blocks /\ o % BlockSize \in Cells
<1>1. \A o \in Offsets : BlockOf(o) \in Blocks /\ o % BlockSize \in Cells
  BY BlockOfOffset
<1>2. StoreBytes = [o \in Offsets |-> View(BlockOf(o))[o % BlockSize]]
  BY <1>1 DEF StoreBytes, View, Filled
<1>3. StoreBytes' = [o \in Offsets |-> View(BlockOf(o))'[o % BlockSize]]
  BY <1>1 DEF StoreBytes, View, Filled
<1> QED
  BY <1>1, <1>2, <1>3

(* Blocks that look the same make the same bytes.                            *)
LEMMA SameBytes ==
  ASSUME \A b \in Blocks : View(b)' = View(b)
  PROVE  StoreBytes' = StoreBytes
  BY BytesOfViews

(* A step that clients do not see.                                           *)
LEMMA Unseen ==
  ASSUME \A b \in Blocks : View(b)' = View(b) /\ (Mapped(b)' <=> Mapped(b)),
         call' = call, alive' = alive
  PROVE  UNCHANGED Store!storeVars
<1>1. StoreBytes' = StoreBytes
  BY SameBytes
<1>2. StoreBlocks' = StoreBlocks
  BY DEF StoreBlocks
<1> QED
  BY <1>1, <1>2 DEF Store!storeVars, StoreBytes, StoreBlocks

(* A thread that is in a call is running it, in a block that exists.         *)
LEMMA InACall ==
  ASSUME SInv, NEW t \in Threads, pc[t] # "idle"
  PROVE  /\ Store!Running(t) /\ call[t] \in Call /\ call[t].pos \in Offsets
         /\ call[t].pos <= call[t].end /\ call[t].end <= NumBlocks * BlockSize
         /\ Block(t) \in Blocks /\ Store!BlockOf(call[t].pos) = Block(t)
  BY ActiveCall, SameWords DEF SInv, TInv, IInv, CallSound, Running, Store!Running, Block

(* Invoke begins a call.                                                     *)
LEMMA InvokeBegins ==
  ASSUME SInv, NEW t \in Threads, NEW r \in Requests, Invoke(t, r)
  PROVE  Store!Begin(t, r)
<1>1. ~Store!Running(t) /\ alive
  BY DEF Invoke, SInv, TInv, IdleDone, Running, Store!Running
<1>2. call' = [call EXCEPT ![t] = Store!NewCall(r)]
  BY SameWords DEF Invoke
<1>3. StoreBlocks' = StoreBlocks /\ StoreBytes' = StoreBytes /\ alive' = alive
  BY DEF Invoke, places, StoreBlocks, StoreBytes, Mapped, Holds
<1> QED
  BY <1>1, <1>2, <1>3 DEF Store!Begin, StoreBlocks, StoreBytes

(* Giving the block of a write cleared storage is Allocate, in every tier.   *)
LEMMA PlacingAllocates ==
  ASSUME SInv, NEW t \in Threads, NEW loc, pc[t] \in Inside \ {"copy"}, loc.tier # "None",
         blockMap' = [blockMap EXCEPT ![Block(t)] = loc],
         \A b \in Blocks : Mapped(b) => data'[blockMap[b].at] = data[blockMap[b].at],
         data'[loc.at] = Filled(Zero), call' = call, alive' = alive
  PROVE  Store!Allocate(t)
<1>1. Store!Running(t) /\ Block(t) \in Blocks /\ Store!BlockOf(call[t].pos) = Block(t)
  BY InACall DEF Inside
<1>2. ~Mapped(Block(t)) /\ call[t].op \in Store!WriteOps
  BY SameWords DEF SInv, TInv, IInv, PlaceKnown, WritesAllocate
<1>3. \A b \in Blocks : View(b)' = View(b) /\ (Mapped(b)' <=> Mapped(b) \/ b = Block(t))
  BY <1>1, <1>2, PlacedView DEF SInv, TInv
<1>4. StoreBytes' = StoreBytes
  BY <1>3, SameBytes
<1>5. StoreBlocks' = StoreBlocks \cup {Store!BlockOf(call[t].pos)}
  BY <1>1, <1>3 DEF StoreBlocks
<1>6. Store!BlockOf(call[t].pos) \notin StoreBlocks
  BY <1>1, <1>2 DEF StoreBlocks
<1> QED
  BY <1>1, <1>2, <1>4, <1>5, <1>6 DEF Store!Allocate, StoreBytes, StoreBlocks

(* The three tiers.                                                          *)
LEMMA AllocationImplements ==
  ASSUME SInv, Sane, NEW t \in Threads,
         \/ \E p \in Ptrs : PlaceInVram(t, p) \/ AllocateRam(t, p)
         \/ AllocatePagefile(t)
  PROVE  Store!Allocate(t)
<1>0. /\ IInv /\ data \in [Ptrs \cup Extents -> Content] /\ pagefileAllocated \in Nat
      /\ PagefileLimit \in Nat
  BY LimitAssumption DEF SInv, TInv, IInv, TypeOK
<1>1. ASSUME NEW p \in Ptrs, PlaceInVram(t, p) \/ AllocateRam(t, p)
      PROVE  Store!Allocate(t)
  <2>1. p \in FreePtrs
    BY <1>1 DEF PlaceInVram, AllocateRam
  <2>2. data' = [data EXCEPT ![p] = Filled(Zero)]
    BY <1>1 DEF PlaceInVram, AllocateRam, PlaceBlock, Sane
  <2>3. PICK loc \in {[tier |-> "Vram", dev |-> scan[t], at |-> p],
                      [tier |-> "Ram", dev |-> Host, at |-> p]} :
          blockMap' = [blockMap EXCEPT ![Block(t)] = loc]
    BY <1>1 DEF PlaceInVram, AllocateRam, PlaceBlock
  <2>4. loc.tier # "None" /\ loc.at = p
    BY <2>3
  <2>5. \A b \in Blocks : Mapped(b) => data'[blockMap[b].at] = data[blockMap[b].at]
    BY <1>0, <2>1, <2>2, NobodyThere, PlaceOf
  <2>6. data'[p] = Filled(Zero)
    BY <1>0, <2>2
  <2>7. pc[t] \in Inside \ {"copy"} /\ call' = call /\ alive' = alive
    BY <1>1 DEF PlaceInVram, AllocateRam, Inside
  <2> QED
    BY <2>3, <2>4, <2>5, <2>6, <2>7, PlacingAllocates
<1>2. CASE AllocatePagefile(t)
  <2> DEFINE loc == [tier |-> "Pagefile", dev |-> Host, at |-> pagefileAllocated]
  <2>1. /\ pc[t] \in Inside \ {"copy"} /\ call' = call /\ alive' = alive /\ data' = data
        /\ blockMap' = [blockMap EXCEPT ![Block(t)] = loc]
    BY <1>2 DEF AllocatePagefile, Inside
  <2>2. data'[loc.at] = Filled(Zero)
    BY <1>0, <1>2, <2>1 DEF AllocatePagefile, PagefileFits, Extents, SInv, TInv, FreshClear
  <2>3. loc.tier # "None"
    OBVIOUS
  <2> HIDE DEF loc
  <2> QED
    BY <2>1, <2>2, <2>3, PlacingAllocates
<1> QED
  BY <1>1, <1>2

(* What a copy writes is Put of the segment.                                 *)
LEMMA WritingPuts ==
  ASSUME SInv, NEW t \in Threads, pc[t] = "copy", blockMap' = blockMap,
         data' = [data EXCEPT ![blockMap[Block(t)].at] = Written(call[t], @)]
  PROVE  /\ StoreBlocks' = StoreBlocks /\ Store!BlockOf(call[t].pos) \in StoreBlocks
         /\ StoreBytes' = Store!Put(call[t], Store!Segment(call[t]))
<1> DEFINE b == Block(t)
           c == call[t]
<1>0. /\ IInv /\ data \in [Ptrs \cup Extents -> Content]
      /\ b \in Blocks /\ Mapped(b) /\ Store!BlockOf(c.pos) = b /\ b = BlockOf(c.pos)
  BY InACall DEF SInv, TInv, IInv, TypeOK, PlaceKnown, Inside, Block
<1>1. StoreBlocks' = StoreBlocks /\ Store!BlockOf(c.pos) \in StoreBlocks
  BY <1>0 DEF StoreBlocks, Mapped
<1>2. ASSUME NEW x \in Blocks, x # b PROVE View(x)' = View(x)
  <2>1. Mapped(x) => blockMap[x].at # blockMap[b].at /\ blockMap[x].at \in Ptrs \cup Extents
    BY <1>0, <1>2, PlaceOf DEF IInv, StorageSound, NotShared
  <2> QED
    BY <1>0, <2>1, ViewKept
<1>3. ASSUME NEW x \in Blocks, x = b PROVE View(x)' = Written(c, View(x)) /\ View(x) \in Content
  <2>1. blockMap[x].at \in Ptrs \cup Extents /\ Holds(x) \in Content
    BY <1>0, <1>3, StorageExists
  <2> QED
    BY <1>0, <1>3, <2>1 DEF View, Mapped, Holds
<1>4. ASSUME NEW o \in Offsets
      PROVE  StoreBytes'[o] = IF o \in Store!Segment(c) THEN c.val ELSE StoreBytes[o]
  <2>1. /\ StoreBytes[o] = View(BlockOf(o))[o % BlockSize]
        /\ StoreBytes'[o] = View(BlockOf(o))'[o % BlockSize]
        /\ BlockOf(o) \in Blocks /\ o % BlockSize \in Cells
    BY BytesOfViews
  <2>2. CASE BlockOf(o) # b
    <3>1. o \notin Store!Segment(c)
      BY <1>0, <2>2, InACall, SegmentIsCopied
    <3> QED
      BY <1>2, <2>1, <2>2, <3>1
  <2>3. CASE BlockOf(o) = b
    <3>1. o \in Store!Segment(c) <=> o % BlockSize \in CopiedCells(c)
      BY <1>0, <2>3, InACall, SegmentIsCopied
    <3>2. View(BlockOf(o))'[o % BlockSize]
            = IF o % BlockSize \in CopiedCells(c) THEN c.val ELSE View(BlockOf(o))[o % BlockSize]
      BY <1>3, <2>1, <2>3 DEF Written
    <3> QED
      BY <2>1, <3>1, <3>2
  <2> QED
    BY <2>2, <2>3
<1>5. StoreBytes' = [o \in Offsets |-> IF o \in Store!Segment(c) THEN c.val ELSE StoreBytes[o]]
  BY <1>4, BytesOfViews
<1>6. Store!Put(c, Store!Segment(c))
        = [o \in Offsets |-> IF o \in Store!Segment(c) THEN c.val ELSE StoreBytes[o]]
  BY SameWords DEF Store!Put, StoreBytes
<1> QED
  BY <1>1, <1>5, <1>6

(* The segment is the bytes that the call moves on by.                       *)
LEMMA CopyCovers ==
  ASSUME SInv, NEW t \in Threads, pc[t] = "copy"
  PROVE  /\ BytesToCopy(call[t]) \in 0 .. BlockSize
         /\ Store!Covers(call[t], BytesToCopy(call[t]))
  BY InACall, SegmentIsCopied DEF Store!Covers

(* A copy into a block is StoreWrite.                                        *)
LEMMA CopyInWrites ==
  ASSUME SInv, NEW t \in Threads, CopyIn(t)
  PROVE  Store!StoreWrite(t)
<1>1. /\ pc[t] = "copy" /\ call[t].op \in Store!WriteOps /\ blockMap' = blockMap
      /\ data' = [data EXCEPT ![blockMap[Block(t)].at] = Written(call[t], @)]
      /\ alive' = alive
      /\ call' = [call EXCEPT ![t] = Store!Advance(call[t], BytesToCopy(call[t]), call[t].buf)]
  BY SameWords DEF CopyIn, Leave, places
<1>2. /\ StoreBlocks' = StoreBlocks /\ Store!BlockOf(call[t].pos) \in StoreBlocks
      /\ StoreBytes' = Store!Put(call[t], Store!Segment(call[t]))
  BY <1>1, WritingPuts
<1>3. \E n \in 0 .. BlockSize :
        /\ Store!Covers(call[t], n)
        /\ call' = [call EXCEPT ![t] = Store!Advance(@, n, @.buf)]
  BY <1>1, CopyCovers
<1>4. Store!Running(t)
  BY <1>1, InACall
<1> QED
  BY <1>1, <1>2, <1>3, <1>4 DEF Store!StoreWrite, StoreBlocks, StoreBytes

(* A copy out of a block is StoreRead.                                       *)
LEMMA CopyOutReads ==
  ASSUME SInv, NEW t \in Threads, CopyOut(t)
  PROVE  Store!StoreRead(t)
<1> DEFINE c == call[t]
           b == Block(t)
<1>0. IInv
  BY DEF SInv, TInv
<1>1. /\ pc[t] = "copy" /\ c.op \in Store!ReadOps /\ blockMap' = blockMap /\ data' = data
      /\ alive' = alive
      /\ call' = [call EXCEPT ![t] = Store!Advance(c, BytesToCopy(c), ReadInto(c, Holds(b)))]
  BY SameWords DEF CopyOut, Leave, places, Holds
<1>2. /\ Store!Running(t) /\ b \in Blocks /\ Mapped(b) /\ Store!BlockOf(c.pos) = b
      /\ b = BlockOf(c.pos)
  BY <1>1, InACall DEF SInv, TInv, IInv, PlaceKnown, Inside, Block
<1>3. StoreBlocks' = StoreBlocks /\ StoreBytes' = StoreBytes
  BY <1>1 DEF StoreBlocks, StoreBytes, Mapped, Holds
<1>4. ReadInto(c, Holds(b)) = Store!Got(c, Store!Segment(c))
  <2>1. /\ Store!Segment(c) = c.pos .. c.pos + BytesToCopy(c) - 1
        /\ \A o \in Store!Segment(c) :
              /\ o \in Offsets /\ BlockOf(o) = BlockOf(c.pos)
              /\ BlockOffset(c) + (o - c.pos) = o % BlockSize
    BY <1>1, InACall, SegmentIsCopied
  <2>2. ASSUME NEW o \in Store!Segment(c)
        PROVE  Holds(b)[BlockOffset(c) + (o - c.pos)] = StoreBytes[o]
    BY <1>2, <2>1, <2>2 DEF StoreBytes
  <2>3. ReadInto(c, Holds(b))
          = [o \in Offsets |-> IF o \in Store!Segment(c) THEN StoreBytes[o] ELSE c.buf[o]]
    BY <2>1, <2>2 DEF ReadInto
  <2>4. Store!Got(c, Store!Segment(c))
          = [o \in Offsets |-> IF o \in Store!Segment(c) THEN StoreBytes[o] ELSE c.buf[o]]
    BY SameWords DEF Store!Got, StoreBytes
  <2> QED
    BY <2>3, <2>4
<1>5. \E n \in 0 .. BlockSize :
        /\ Store!Covers(c, n)
        /\ call' = [call EXCEPT ![t] = Store!Advance(@, n, Store!Got(@, Store!Segment(@)))]
  BY <1>1, <1>4, CopyCovers
<1>6. Store!BlockOf(c.pos) \in StoreBlocks
  BY <1>2 DEF StoreBlocks
<1> QED
  BY <1>1, <1>2, <1>3, <1>5, <1>6 DEF Store!StoreRead, StoreBlocks, StoreBytes

(* Every path that returns false is Fail.                                    *)
LEMMA FalseFails ==
  ASSUME SInv, NEW t \in Threads, pc[t] # "idle", ReturnFalse(t), alive' = alive,
         blockMap' = blockMap,
         \/ data' = data
         \/ /\ pc[t] = "copy" /\ call[t].op \in WriteOps
            /\ data' = [data EXCEPT ![blockMap[Block(t)].at] = Written(call[t], @)]
  PROVE  Store!Fail(t)
<1>1. Store!Running(t) /\ call' = [call EXCEPT ![t] = Store!Failed(@)]
  BY InACall, SameWords DEF ReturnFalse
<1>2. CASE data' = data
  <2>1. StoreBlocks' = StoreBlocks /\ StoreBytes' = StoreBytes
    BY <1>2 DEF StoreBlocks, StoreBytes, Mapped, Holds
  <2> QED
    BY <1>1, <2>1 DEF Store!Fail, StoreBlocks, StoreBytes
<1>3. CASE /\ pc[t] = "copy" /\ call[t].op \in WriteOps
           /\ data' = [data EXCEPT ![blockMap[Block(t)].at] = Written(call[t], @)]
  <2>1. /\ StoreBlocks' = StoreBlocks /\ Store!BlockOf(call[t].pos) \in StoreBlocks
        /\ StoreBytes' = Store!Put(call[t], Store!Segment(call[t]))
        /\ call[t].op \in Store!WriteOps
    BY <1>3, WritingPuts, SameWords
  <2> QED
    BY <1>1, <2>1 DEF Store!Fail, StoreBlocks, StoreBytes
<1> QED
  BY <1>2, <1>3

(* Blocks that lose their entry, and look like absent ones from then on.     *)
LEMMA DroppedBlocks ==
  ASSUME NEW S \in SUBSET Blocks, call' = call,
         \A b \in S : ~Mapped(b)',
         \A b \in Blocks \ S : View(b)' = View(b) /\ (Mapped(b)' <=> Mapped(b))
  PROVE  Store!GiveUp(S)
<1>1. StoreBlocks' = StoreBlocks \ S
  BY DEF StoreBlocks
<1>2. ASSUME NEW o \in Offsets
      PROVE  StoreBytes'[o] = IF BlockOf(o) \in S THEN Zero ELSE StoreBytes[o]
  <2>1. /\ StoreBytes[o] = View(BlockOf(o))[o % BlockSize]
        /\ StoreBytes'[o] = View(BlockOf(o))'[o % BlockSize]
        /\ BlockOf(o) \in Blocks /\ o % BlockSize \in Cells
    BY BytesOfViews
  <2>2. ASSUME NEW b \in S PROVE View(b)' = Filled(Zero)
    BY <2>2 DEF View, Filled
  <2> QED
    BY <2>1, <2>2 DEF Filled
<1>3. StoreBytes' = [o \in Offsets |-> IF BlockOf(o) \in S THEN Zero ELSE StoreBytes[o]]
  BY <1>2, BytesOfViews
<1>4. StoreBytes' = [o \in Store!Offsets |-> IF Store!BlockOf(o) \in S THEN Zero ELSE StoreBytes[o]]
  BY <1>3, SameWords
<1> QED
  BY <1>1, <1>4 DEF Store!GiveUp, StoreBlocks, StoreBytes

(* freeBlockPhysical and cleanup discard; the destructor closes.             *)
LEMMA DroppingImplements ==
  ASSUME SInv, (\E b \in Blocks : FreeBlockPhysical(b)) \/ Cleanup \/ Destroy
  PROVE  Store!StoreNext
<1>0. IInv /\ blockMap \in [Blocks -> Location]
  BY DEF SInv, TInv, IInv, TypeOK
<1>1. ASSUME NEW b \in Blocks, FreeBlockPhysical(b) PROVE Store!StoreNext
  <2>1. /\ alive /\ alive' = alive /\ call' = call /\ data' = data
        /\ blockMap' = [blockMap EXCEPT ![b] = Unmapped] /\ "freeBlockPhysical" \in ClientOps
    BY <1>1 DEF FreeBlockPhysical, Uses
  <2>2. ~Mapped(b)'
    BY <1>0, <2>1 DEF Mapped, Unmapped
  <2>3. \A x \in Blocks \ {b} : View(x)' = View(x) /\ (Mapped(x)' <=> Mapped(x))
    BY <1>0, <2>1, ViewKept
  <2>4. Store!GiveUp({b})
    BY <2>1, <2>2, <2>3, DroppedBlocks
  <2>5. Store!Discard({b})
    BY <2>1, <2>4 DEF Store!Discard
  <2> QED
    BY <2>1, <2>5 DEF Store!StoreNext
<1>2. ASSUME CleanupEffect PROVE Store!GiveUp(Blocks)
  <2>1. \A b \in Blocks : ~Mapped(b)'
    BY <1>2 DEF CleanupEffect, Mapped, Unmapped
  <2>2. call' = call
    BY <1>2 DEF CleanupEffect
  <2> QED
    BY <2>1, <2>2, DroppedBlocks
<1>3. CASE Cleanup
  <2>1. Store!Discard(Blocks) /\ "cleanup" \in ClientOps
    BY <1>2, <1>3 DEF Cleanup, Uses, Store!Discard
  <2> QED
    BY <2>1 DEF Store!StoreNext
<1>4. CASE Destroy
  <2>1. \A t \in Threads : ~Store!Running(t)
    BY <1>4 DEF Destroy, SInv, TInv, IdleDone, Running, Store!Running
  <2>2. Store!GiveUp(Store!Blocks)
    BY <1>2, <1>4, SameWords DEF Destroy
  <2>3. Store!Close
    BY <1>4, <2>1, <2>2 DEF Destroy, Store!Close
  <2> QED
    BY <2>3 DEF Store!StoreNext
<1> QED
  BY <1>1, <1>3, <1>4

(* Every step of the manager is one of the store, or none.                   *)
LEMMA NextImplements ==
  ASSUME SInv, Sane, [Next]_vars
  PROVE  [Store!StoreNext]_(Store!storeVars)
<1> USE DEF places
<1>0. IInv
  BY DEF SInv, TInv
<1>1. ASSUME UNCHANGED <<blockMap, data, call, alive>> PROVE UNCHANGED Store!storeVars
  BY <1>0, <1>1, ViewKept, Unseen
<1>2. ASSUME NEW t \in Threads, NEW r \in Requests, Invoke(t, r) PROVE Store!StoreNext
  BY <1>2, InvokeBegins DEF Store!StoreNext
<1>3. ASSUME NEW t \in Threads,
             \/ RegisterAccess(t) \/ Policy(t) \/ OutOfVram(t) \/ SkipDevice(t) \/ LeaveVram(t)
             \/ NoRam(t)
      PROVE  UNCHANGED Store!storeVars
  BY <1>1, <1>3 DEF RegisterAccess, Policy, OutOfVram, SkipDevice, DeviceFails, LeaveVram, NoRam
<1>4. ASSUME NEW t \in Threads, Enter(t) \/ NoPagefile(t)
      PROVE  Store!Fail(t) \/ UNCHANGED Store!storeVars
  <2>1. CASE ReturnFalse(t)
    <3>1. pc[t] # "idle" /\ alive' = alive /\ blockMap' = blockMap /\ data' = data
      BY <1>4 DEF Enter, NoPagefile
    <3> QED
      BY <2>1, <3>1, FalseFails
  <2>2. CASE ~ReturnFalse(t)
    BY <1>1, <1>4, <2>2 DEF Enter, NoPagefile
  <2> QED
    BY <2>1, <2>2
<1>5. ASSUME NEW t \in Threads,
             \/ \E p \in Ptrs : PlaceInVram(t, p) \/ AllocateRam(t, p)
             \/ AllocatePagefile(t)
      PROVE  Store!StoreNext
  BY <1>5, AllocationImplements DEF Store!StoreNext
<1>6. ASSUME NEW b \in Blocks, NEW d \in Devices, NEW p \in Ptrs, Evict(b, d, p),
             call' = call, alive' = alive
      PROVE  UNCHANGED Store!storeVars
  BY <1>0, <1>6, EvictedView, Unseen
<1>7. ASSUME NEW t \in Threads, NEW b \in Blocks, NEW p \in Ptrs, EvictLRU(t, b, p)
      PROVE  UNCHANGED Store!storeVars
  BY <1>6, <1>7 DEF EvictLRU
<1>8. ASSUME NEW t \in Threads, CopyIn(t) \/ CopyOut(t) PROVE Store!StoreNext
  BY <1>8, CopyInWrites, CopyOutReads DEF Store!StoreNext
<1>9. ASSUME NEW t \in Threads, CopyFails(t) PROVE Store!Fail(t)
  <2>1. /\ pc[t] = "copy" /\ ReturnFalse(t) /\ alive' = alive /\ blockMap' = blockMap
        /\ \/ data' = data
           \/ /\ call[t].op \in WriteOps
              /\ data' = [data EXCEPT ![blockMap[Block(t)].at] = Written(call[t], @)]
    BY <1>9 DEF CopyFails
  <2> QED
    BY <2>1, FalseFails
<1>10. CASE ClientOp
  <2>1. ASSUME NEW d \in Devices, NEW b \in Blocks, NEW p \in Ptrs,
               EvictLRUBlockFromGPU(d, b, p)
        PROVE  UNCHANGED Store!storeVars
    BY <1>6, <2>1 DEF EvictLRUBlockFromGPU
  <2>2. ASSUME NEW b \in Blocks, RegisterOnly(b) PROVE UNCHANGED Store!storeVars
    BY <1>1, <2>2 DEF RegisterOnly
  <2>3. ASSUME NEW tier \in Tiers, LogResidencyChange(tier) PROVE UNCHANGED Store!storeVars
    BY <1>1, <2>3 DEF LogResidencyChange
  <2>4. \A b, dev, p : ~MigrateBlockToTier(b, dev, p)
    BY DEF MigrateBlockToTier, Uses, Sane
  <2> QED
    BY <1>10, <2>1, <2>2, <2>3, <2>4, DroppingImplements DEF ClientOp
<1>11. CASE UNCHANGED vars
  BY <1>1, <1>11 DEF vars
<1>12. \A t \in Threads : Store!Fail(t) => Store!StoreNext
  BY DEF Store!StoreNext
<1> QED
  BY <1>2, <1>3, <1>4, <1>5, <1>7, <1>8, <1>9, <1>10, <1>11, <1>12
     DEF Next, Step, Allocation, Destroyed

(* Clients cannot tell the manager from a flat store of bytes with atomic    *)
(* block accesses, whatever the number of threads, blocks and devices, the   *)
(* budgets, the calls that fail (but for the two that lose data silently)    *)
(* and the operations they use (but for migrateBlockToTier).                 *)
THEOREM ManagerIsStore == ASSUME Sane PROVE Spec => ActsAsStore
<1>1. Init => Store!StoreInit
  <2>1. ASSUME Init PROVE StoreBlocks = {} /\ StoreBytes = [o \in Offsets |-> Zero]
    <3>1. \A b \in Blocks : ~Mapped(b)
      BY <2>1 DEF Init, Mapped, Unmapped
    <3> QED
      BY <3>1, BlockOfOffset DEF StoreBlocks, StoreBytes
  <2> QED
    BY <2>1, SameWords DEF Init, Store!StoreInit, StoreBlocks, StoreBytes
<1>2. SInv /\ [Next]_vars => [Store!StoreNext]_(Store!storeVars)
  BY NextImplements
<1> QED
  BY <1>1, <1>2, StoreInvariant, PTL DEF Spec, Store!StoreSpec, ActsAsStore
-----------------------------------------------------------------------------
(* A block access moves its call on.                                         *)
LEMMA AccessMovesCall ==
  ASSUME SInv, NEW t \in Threads, CopyIn(t) \/ CopyFails(t)
  PROVE  call' # call
<1>1. /\ Running(t) /\ call[t] \in Call /\ call[t].pos \in Offsets /\ call[t].pos <= call[t].end
      /\ call \in [Threads -> Call]
  BY ActiveCall DEF SInv, TInv, IInv, TypeOK, CallSound, CopyIn, CopyFails
<1>2. CASE CopyFails(t)
  <2>1. call'[t].status = "false"
    BY <1>1, <1>2 DEF CopyFails, ReturnFalse, Failed, Call
  <2> QED
    BY <1>1, <2>1 DEF Running
<1>3. CASE CopyIn(t)
  <2> DEFINE n == BytesToCopy(call[t])
  <2>1. n \in Nat /\ call[t].pos \in Nat /\ call[t].end \in Nat
    BY <1>1, CopySizes DEF Call
  <2>2. call'[t] = Advance(call[t], n, call[t].buf)
    BY <1>1, <1>3 DEF CopyIn, Leave
  <2> HIDE DEF n
  <2>3. /\ call'[t].pos = call[t].pos + n
        /\ call'[t].status = IF call[t].pos + n < call[t].end THEN "running" ELSE "true"
    BY <1>1, <2>2 DEF Advance, Call
  <2>4. CASE n = 0
    <3>1. call[t].pos = call[t].end
      BY <1>1, <1>3, <2>1, <2>4, SizeAssumption, CopySizes
         DEF n, BytesToCopy, Cells
    <3> QED
      BY <1>1, <2>1, <2>3, <2>4, <3>1 DEF Running
  <2>5. CASE n # 0
    BY <2>1, <2>3, <2>5
  <2> QED
    BY <2>4, <2>5
<1> QED
  BY <1>2, <1>3

(* A step that moves a block, or that is not an access, keeps its bytes.     *)
LEMMA NothingOverwritten ==
  ASSUME SInv, Sane, [Next]_vars, NEW b \in Blocks, Mapped(b), Mapped(b)',
         blockMap'[b] # blockMap[b] \/ call' = call
  PROVE  Holds(b)' = Holds(b)
<1> USE DEF places
<1> DEFINE Aim == Holds(b)' = Holds(b)
<1>0. IInv /\ blockMap \in [Blocks -> Location] /\ data \in [Ptrs \cup Extents -> Content]
  BY DEF SInv, TInv, IInv, TypeOK
<1>1. ASSUME UNCHANGED <<blockMap, data>> PROVE Aim
  BY <1>1 DEF Holds
<1>2. ASSUME View(b)' = View(b) PROVE Aim
  BY <1>2 DEF View
<1>3. ASSUME NEW t \in Threads, NEW r \in Requests, Invoke(t, r) PROVE Aim
  BY <1>1, <1>3 DEF Invoke
<1>4. ASSUME NEW t \in Threads,
             \/ RegisterAccess(t) \/ Enter(t) \/ Policy(t) \/ OutOfVram(t) \/ SkipDevice(t)
             \/ LeaveVram(t) \/ NoRam(t) \/ NoPagefile(t) \/ CopyOut(t) \/ AllocatePagefile(t)
      PROVE  Aim
  <2>1. CASE UNCHANGED <<blockMap, data>>
    BY <1>1, <2>1
  <2>2. CASE AllocatePagefile(t)
    <3>1. b # Block(t)
      BY <2>2 DEF AllocatePagefile, SInv, TInv, IInv, PlaceKnown, Inside
    <3> QED
      BY <1>0, <2>2, <3>1 DEF AllocatePagefile, Holds
  <2> QED
    BY <1>4, <2>1, <2>2
       DEF RegisterAccess, Enter, Policy, OutOfVram, SkipDevice, DeviceFails, LeaveVram, NoRam,
           NoPagefile, CopyOut
<1>5. ASSUME NEW t \in Threads, CopyIn(t) \/ CopyFails(t) PROVE FALSE
  <2>1. call' # call
    BY <1>5, AccessMovesCall
  <2> QED
    BY <1>5, <2>1 DEF CopyIn, CopyFails
<1>6. ASSUME NEW t \in Threads, NEW p \in Ptrs, PlaceInVram(t, p) \/ AllocateRam(t, p)
      PROVE  Aim
  <2>1. b # Block(t)
    BY <1>6 DEF PlaceInVram, AllocateRam, SInv, TInv, IInv, PlaceKnown, Inside
  <2>2. /\ p \in FreePtrs /\ \E loc : blockMap' = [blockMap EXCEPT ![Block(t)] = loc]
        /\ \E c : data' = [data EXCEPT ![p] = c]
    BY <1>6 DEF PlaceInVram, AllocateRam, PlaceBlock
  <2>3. blockMap[b].at # p /\ blockMap[b].at \in Ptrs \cup Extents
    BY <1>0, <2>2, NobodyThere, PlaceOf
  <2> QED
    BY <1>0, <2>1, <2>2, <2>3 DEF Holds
<1>7. ASSUME NEW t \in Threads, NEW x \in Blocks, NEW p \in Ptrs, EvictLRU(t, x, p) PROVE Aim
  BY <1>0, <1>2, <1>7, EvictedView DEF EvictLRU
<1>8. CASE ClientOp
  <2>1. ASSUME NEW d \in Devices, NEW x \in Blocks, NEW p \in Ptrs,
               EvictLRUBlockFromGPU(d, x, p)
        PROVE  Aim
    BY <1>0, <1>2, <2>1, EvictedView DEF EvictLRUBlockFromGPU
  <2>2. ASSUME NEW x \in Blocks, RegisterOnly(x) PROVE Aim
    BY <1>1, <2>2 DEF RegisterOnly
  <2>3. ASSUME NEW tier \in Tiers, LogResidencyChange(tier) PROVE Aim
    BY <1>1, <2>3 DEF LogResidencyChange
  <2>4. ASSUME NEW x \in Blocks, FreeBlockPhysical(x) PROVE Aim
    BY <1>0, <2>4 DEF FreeBlockPhysical, Mapped, Unmapped, Holds
  <2>5. ~Cleanup /\ ~Destroy
    BY DEF Cleanup, Destroy, CleanupEffect, Mapped, Unmapped
  <2>6. \A x, dev, p : ~MigrateBlockToTier(x, dev, p)
    BY DEF MigrateBlockToTier, Uses, Sane
  <2> QED
    BY <1>8, <2>1, <2>2, <2>3, <2>4, <2>5, <2>6 DEF ClientOp
<1>9. CASE UNCHANGED vars
  BY <1>1, <1>9 DEF vars
<1> QED
  BY <1>3, <1>4, <1>5, <1>6, <1>7, <1>8, <1>9 DEF Next, Step, Allocation, Destroyed

(* Evictions, allocations and releases never touch the bytes of a block that *)
(* keeps its entry: moving it takes them along, in one copy, and only a      *)
(* write call changes them.                                                  *)
THEOREM ContentsMove == ASSUME Sane PROVE Spec => MovesKeepContents
<1>1. SInv /\ [Next]_vars
        => [\A b \in Blocks :
              Mapped(b) /\ Mapped(b)' /\ (blockMap'[b] # blockMap[b] \/ call' = call)
                => Holds(b)' = Holds(b)]_vars
  BY NothingOverwritten
<1> QED
  BY <1>1, StoreInvariant, PTL DEF Spec, MovesKeepContents
=============================================================================
