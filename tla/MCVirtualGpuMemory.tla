------------------------- MODULE MCVirtualGpuMemory -------------------------
(***************************************************************************)
(* Small instances of VirtualGpuMemory.                                    *)
(***************************************************************************)
EXTENDS VirtualGpuMemory, TLC

CONSTANTS t1, t2, p1, p2, p3, p4, p5

OneVram == [d \in Devices |-> 1]
ThreeVram == [d \in Devices |-> 3]

Symmetry == Permutations(Ptrs) \cup Permutations(Threads)

Req(op, off, size, v) == [op |-> op, off |-> off, size |-> size, val |-> v]
AnyValue == CHOOSE v \in Values : TRUE

(* A whole block, offset calls that start and end inside blocks, an empty    *)
(* block call, a block call that is too large.                               *)
Mixed ==
  {Req("writeBlock", (NumBlocks - 1) * BlockSize, BlockSize, v) : v \in Values}
  \cup {Req("write", 1, (NumBlocks - 1) * BlockSize, v) : v \in Values}
  \cup {Req("readBlock", 0, 0, AnyValue), Req("writeBlock", 0, BlockSize + 1, AnyValue),
         Req("read", BlockSize - 1, BlockSize, AnyValue)}

(* Every block on its own. *)
WriteEach == {Req("writeBlock", b * BlockSize, BlockSize, AnyValue) : b \in Blocks}

(* Calls of several blocks that overlap. *)
Filling ==
  {Req("write", o, (NumBlocks - 1) * BlockSize, AnyValue) : o \in {0, BlockSize}}
  \cup {Req("read", 0, 2 * BlockSize, AnyValue)}

(* A device without budget, one with budget for a block. *)
OnlySecond == [d \in Devices |-> IF d = 1 THEN 1 ELSE 0]

(* The faults that decide where a block goes. *)
PlacementFaults == {"cudaSetDevice", "cudaMalloc", "VirtualAlloc", "CreateFileMapping"}
AnyOp == OtherOps
=============================================================================
