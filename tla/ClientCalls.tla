---------------------------- MODULE ClientCalls -----------------------------
(***************************************************************************)
(* The calls that clients of VirtualGpuMemory make to move data, and the   *)
(* record of a call's progress.  Shared by the promise (BlockStore) and by *)
(* the implementation (VirtualGpuMemory).                                  *)
(***************************************************************************)
EXTENDS Integers

CONSTANTS
  Threads,    \* the client threads
  NumBlocks,  \* how many block numbers the clients use
  BlockSize,  \* m_blockSizeBytes
  Values,     \* what clients write
  Zero,       \* the content of memory that was just cleared
  Junk,       \* the content of memory nobody initialised
  Requests    \* the calls clients make, a subset of Request

ASSUME SizeAssumption ==
  /\ NumBlocks \in Nat \ {0}
  /\ BlockSize \in Nat \ {0}

ASSUME ByteAssumption ==
  /\ Zero \notin Values
  /\ Junk \notin Values \cup {Zero}

Blocks  == 0 .. NumBlocks - 1
Cells   == 0 .. BlockSize - 1
Offsets == 0 .. NumBlocks * BlockSize - 1
Bytes   == Values \cup {Zero, Junk}

(***************************************************************************)
(* "writeBlock" and "readBlock" name a block: their offset is the first    *)
(* byte of that block.                                                     *)
(***************************************************************************)
BlockOps == {"writeBlock", "readBlock"}
WriteOps == {"writeBlock", "write"}
ReadOps  == {"readBlock", "read"}
Request  == [op : WriteOps \cup ReadOps, off : Offsets,
             size : 0 .. NumBlocks * BlockSize, val : Values]

ASSUME RequestsAssumption ==
  /\ Requests \subseteq Request
  /\ \A r \in Requests :
        /\ r.off + r.size <= NumBlocks * BlockSize
        /\ r.op \in BlockOps => r.off % BlockSize = 0

Statuses == {"running", "true", "false"}
Call == [status : Statuses, op : WriteOps \cup ReadOps \cup {"none"},
         pos : Nat, end : Nat, val : Values \cup {Zero},
         buf : [Offsets -> Bytes]]

EmptyBuf == [o \in Offsets |-> Junk]
NoCall   == [status |-> "true", op |-> "none", pos |-> 0, end |-> 0,
             val |-> Zero, buf |-> EmptyBuf]

(***************************************************************************)
(* How a call starts.  A block call of more bytes than a block is refused; *)
(* an offset call of no bytes succeeds without touching anything.          *)
(***************************************************************************)
EarlyStatus(r) ==
  CASE r.op \in BlockOps /\ r.size > BlockSize -> "false"
    [] r.op \notin BlockOps /\ r.size = 0      -> "true"
    [] OTHER                                   -> "running"

NewCall(r) == [status |-> EarlyStatus(r), op |-> r.op, pos |-> r.off,
               end |-> r.off + r.size, val |-> r.val, buf |-> EmptyBuf]

(* The call c after n more bytes, with its destination buffer now b. *)
Advance(c, n, b) ==
  [c EXCEPT !.pos = c.pos + n, !.buf = b,
            !.status = IF c.pos + n < c.end THEN "running" ELSE "true"]

Failed(c) == [c EXCEPT !.status = "false"]

BlockOf(o) == o \div BlockSize
=============================================================================
