----------------------------- MODULE BlockStore -----------------------------
(***************************************************************************)
(* What VirtualGpuMemory promises to its clients, with no tiers, devices,  *)
(* pointers or mutex in sight: a flat array of bytes cut into blocks.      *)
(* A block is allocated, all zero, by the first write that touches it.  A  *)
(* call is served one block at a time: each block access is atomic, a call *)
(* that spans blocks is not.  A call may fail at any block; what it did to *)
(* earlier blocks stays.  Placing and moving blocks is invisible here.     *)
(***************************************************************************)
EXTENDS ClientCalls

CONSTANT Discards  \* the sets of blocks that clients may give up in one call

VARIABLES
  allocated,  \* the blocks that exist
  bytes,      \* the content of every offset; Zero where no block exists
  call,       \* per thread, the call it is in or has just finished
  open        \* FALSE once the store was destroyed

storeVars == <<allocated, bytes, call, open>>

Running(t) == call[t].status = "running"

(***************************************************************************)
(* The offsets that the next block access of a call covers: what is left   *)
(* of the call, up to the end of the block its position is in.             *)
(***************************************************************************)
Segment(c) == {o \in Offsets : c.pos <= o /\ o < c.end /\ BlockOf(o) = BlockOf(c.pos)}

(* The segment is the next n bytes. *)
Covers(c, n) == n \in 0 .. BlockSize /\ Segment(c) = c.pos .. c.pos + n - 1

Put(c, S) == [o \in Offsets |-> IF o \in S THEN c.val ELSE bytes[o]]
Got(c, S) == [o \in Offsets |-> IF o \in S THEN bytes[o] ELSE c.buf[o]]

-----------------------------------------------------------------------------
StoreInit ==
  /\ allocated = {}
  /\ bytes = [o \in Offsets |-> Zero]
  /\ call = [t \in Threads |-> NoCall]
  /\ open = TRUE

Begin(t, r) ==
  /\ open /\ ~Running(t)
  /\ call' = [call EXCEPT ![t] = NewCall(r)]
  /\ UNCHANGED <<allocated, bytes, open>>

(* A write finds its block absent and creates it, zeroed. *)
Allocate(t) ==
  /\ Running(t) /\ call[t].op \in WriteOps
  /\ BlockOf(call[t].pos) \notin allocated
  /\ allocated' = allocated \cup {BlockOf(call[t].pos)}
  /\ UNCHANGED <<bytes, call, open>>

StoreWrite(t) ==
  /\ Running(t) /\ call[t].op \in WriteOps
  /\ BlockOf(call[t].pos) \in allocated
  /\ bytes' = Put(call[t], Segment(call[t]))
  /\ \E n \in 0 .. BlockSize :
        /\ Covers(call[t], n)
        /\ call' = [call EXCEPT ![t] = Advance(@, n, @.buf)]
  /\ UNCHANGED <<allocated, open>>

StoreRead(t) ==
  /\ Running(t) /\ call[t].op \in ReadOps
  /\ BlockOf(call[t].pos) \in allocated
  /\ \E n \in 0 .. BlockSize :
        /\ Covers(call[t], n)
        /\ call' = [call EXCEPT ![t] = Advance(@, n, Got(@, Segment(@)))]
  /\ UNCHANGED <<allocated, bytes, open>>

(* A failing write may or may not have changed the block it failed on. *)
Fail(t) ==
  /\ Running(t)
  /\ call' = [call EXCEPT ![t] = Failed(@)]
  /\ \/ UNCHANGED bytes
     \/ /\ call[t].op \in WriteOps
        /\ BlockOf(call[t].pos) \in allocated
        /\ bytes' = Put(call[t], Segment(call[t]))
  /\ UNCHANGED <<allocated, open>>

GiveUp(S) ==
  /\ allocated' = allocated \ S
  /\ bytes' = [o \in Offsets |-> IF BlockOf(o) \in S THEN Zero ELSE bytes[o]]
  /\ UNCHANGED call

(* A set of blocks is given up, with its content. *)
Discard(S) == open /\ GiveUp(S) /\ UNCHANGED open

(* The store ends when no call is in progress. *)
Close ==
  /\ open /\ \A t \in Threads : ~Running(t)
  /\ GiveUp(Blocks)
  /\ open' = FALSE

StoreNext ==
  \/ \E t \in Threads :
        \/ \E r \in Requests : Begin(t, r)
        \/ Allocate(t) \/ StoreWrite(t) \/ StoreRead(t) \/ Fail(t)
  \/ \E S \in Discards : Discard(S)
  \/ Close

StoreSpec == StoreInit /\ [][StoreNext]_storeVars
=============================================================================
