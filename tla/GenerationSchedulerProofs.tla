---------------------- MODULE GenerationSchedulerProofs ----------------------
(***************************************************************************)
(* Proofs about GenerationScheduler, for any number of requests, any       *)
(* capacity, any max_queue and any choice of cache slots.  The invariants  *)
(* are inductive together with one more fact, SlotsCounted, which says     *)
(* that a slot is free whenever active is below the capacity: admit relies *)
(* on it when it looks at active and then takes the least of free_slots.   *)
(***************************************************************************)
EXTENDS GenerationScheduler, LibraryFacts, FiniteSetTheorems, WellFoundedInduction, TLAPS

(* A line q of distinct tickets, those of the threads in W. *)
IsLineOf(q, W) ==
  /\ q \in Seq(Requests)
  /\ \A i \in 1 .. Len(q) : q[i] \in W
  /\ \A t \in W : \E i \in 1 .. Len(q) : q[i] = t
  /\ \A i, j \in 1 .. Len(q) : q[i] = q[j] => i = j

SlotsCounted == active + Cardinality(free_slots) = capacity

IInv ==
  /\ TypeOK /\ SlotsSound /\ SlotsCounted /\ TicketsSound /\ LineBounded
  /\ CountersAgree

-----------------------------------------------------------------------------
(* Lines of tickets.                                                         *)

(* TicketsSound says that the deque is the line of the threads that wait.    *)
LEMMA LineIs ==
  ASSUME NEW q \in Seq(Requests), NEW W
  PROVE  IsLineOf(q, W) <=> /\ {q[i] : i \in 1 .. Len(q)} = W
                            /\ \A i, j \in 1 .. Len(q) : q[i] = q[j] => i = j
  BY DEF IsLineOf

(* The invariant in the terms of LineIs. *)
LEMMA QueueIsLine ==
  ASSUME IInv
  PROVE  IsLineOf(queue, Waiting)
  BY LineIs DEF IInv, TypeOK, TicketsSound

(* And back. *)
LEMMA LineIsSound ==
  ASSUME IsLineOf(queue', Waiting')
  PROVE  TicketsSound'
<1>1. queue' \in Seq(Requests)
  BY DEF IsLineOf
<1> QED
  BY <1>1, LineIs DEF TicketsSound

(* A ticket at the end of the line. *)
LEMMA LineAppend ==
  ASSUME NEW q, NEW W, IsLineOf(q, W), NEW t \in Requests \ W
  PROVE  /\ IsLineOf(Append(q, t), W \cup {t})
         /\ Len(Append(q, t)) = Len(q) + 1
         /\ Append(q, t)[1] = t => q = <<>>
  BY DEF IsLineOf

(* The head of the line leaves it. *)
LEMMA LineTail ==
  ASSUME NEW q, NEW W, IsLineOf(q, W), q # <<>>
  PROVE  /\ IsLineOf(Tail(q), W \ {q[1]})
         /\ Len(Tail(q)) = Len(q) - 1 /\ Head(q) = q[1]
<1>1. /\ q \in Seq(Requests) /\ Len(q) \in Nat \ {0}
      /\ Tail(q) \in Seq(Requests) /\ Len(Tail(q)) = Len(q) - 1
      /\ \A i \in 1 .. Len(q) - 1 : Tail(q)[i] = q[i + 1]
      /\ Head(q) = q[1]
  BY DEF IsLineOf
<1>2. \A t \in W \ {q[1]} : \E i \in 1 .. Len(q) - 1 : Tail(q)[i] = t
  <2>1. SUFFICES ASSUME NEW t \in W \ {q[1]}
                 PROVE  \E i \in 1 .. Len(q) - 1 : Tail(q)[i] = t
    OBVIOUS
  <2>2. PICK i \in 1 .. Len(q) : q[i] = t
    BY DEF IsLineOf
  <2>3. i - 1 \in 1 .. Len(q) - 1 /\ (i - 1) + 1 = i
    BY <1>1, <2>2
  <2> QED
    BY <1>1, <2>2, <2>3
<1> QED
  BY <1>1, <1>2 DEF IsLineOf

(* A ticket leaves the line from wherever it stands. *)
LEMMA LineRemove ==
  ASSUME NEW q, NEW W, IsLineOf(q, W), NEW i \in 1 .. Len(q)
  PROVE  /\ IsLineOf(RemoveAt(q, i), W \ {q[i]})
         /\ Len(RemoveAt(q, i)) = Len(q) - 1
<1> DEFINE r == RemoveAt(q, i)
<1>0. q \in Seq(Requests) /\ Len(q) \in Nat \ {0} /\ i \in 1 .. Len(q)
  BY DEF IsLineOf
<1>1. /\ r \in Seq(Requests) /\ Len(r) = Len(q) - 1
      /\ \A j \in 1 .. Len(q) - 1 : r[j] = IF j < i THEN q[j] ELSE q[j + 1]
  BY <1>0, RemoveAtIs
<1> HIDE DEF r
<1>2. \A t \in W \ {q[i]} : \E j \in 1 .. Len(q) - 1 : r[j] = t
  <2>1. SUFFICES ASSUME NEW t \in W \ {q[i]}
                 PROVE  \E j \in 1 .. Len(q) - 1 : r[j] = t
    OBVIOUS
  <2>2. PICK k \in 1 .. Len(q) : q[k] = t
    BY DEF IsLineOf
  <2>3. CASE k < i
    BY <1>0, <1>1, <2>2, <2>3
  <2>4. CASE k > i
    <3>1. k - 1 \in 1 .. Len(q) - 1 /\ ~(k - 1 < i) /\ (k - 1) + 1 = k
      BY <1>0, <1>1, <2>4
    <3> QED
      BY <1>0, <1>1, <2>2, <3>1
  <2> QED
    BY <2>2, <2>3, <2>4
<1>3. \A j \in 1 .. Len(r) : r[j] \in W \ {q[i]}
  BY <1>0, <1>1 DEF IsLineOf
<1>4. \A j, k \in 1 .. Len(r) : r[j] = r[k] => j = k
  BY <1>0, <1>1 DEF IsLineOf
<1>5. IsLineOf(r, W \ {q[i]})
  BY <1>1, <1>2, <1>3, <1>4 DEF IsLineOf
<1> QED
  BY <1>1, <1>5 DEF r

-----------------------------------------------------------------------------
(* Slots.                                                                    *)

(* Everything that is counted is finite. *)
LEMMA FiniteSlots ==
  /\ IsFiniteSet(Slots) /\ Cardinality(Slots) = capacity
  /\ \A S \in SUBSET Slots : IsFiniteSet(S) /\ Cardinality(S) \in Nat
  /\ \A S \in SUBSET Requests : IsFiniteSet(S) /\ Cardinality(S) \in Nat
<1>1. IsFiniteSet(Slots) /\ Cardinality(Slots) = capacity
  BY SchedulerAssumption, FS_Interval DEF Slots
<1>2. \A S \in SUBSET Slots : IsFiniteSet(S) /\ Cardinality(S) \in Nat
  BY <1>1, FS_Subset, FS_CardinalityType
<1>3. \A S \in SUBSET Requests : IsFiniteSet(S) /\ Cardinality(S) \in Nat
  BY SchedulerAssumption, FS_Subset, FS_CardinalityType
<1> QED
  BY <1>1, <1>2, <1>3

(* min(self.free_slots) is there when there is a free slot. *)
LEMMA LowestIsThere ==
  ASSUME NEW S \in SUBSET Slots, S # {}
  PROVE  \E x \in S : x \in Lowest(S)
<1> DEFINE R == {ss \in Nat \X Nat : ss[1] < ss[2]}
<1>1. IsWellFoundedOn(R, Nat)
  BY NatLessThanWellFounded, Zenon DEF OpToRel
<1>2. \A x, y \in Nat : y < x => <<y, x>> \in R
  OBVIOUS
<1>3. S \subseteq Nat
  BY SchedulerAssumption DEF Slots
<1> HIDE DEF R
<1>4. PICK x \in S : \A y \in S : <<y, x>> \notin R
  BY <1>1, <1>3, WFMin
<1>5. ASSUME NEW y \in S
      PROVE  x <= y
  <2>1. x \in Nat /\ y \in Nat /\ ~(y < x)
    BY <1>2, <1>3, <1>4
  <2> QED
    BY <2>1
<1> QED
  BY <1>5 DEF Lowest

(* With no slot busy for want of a count, some slot is free. *)
LEMMA SomeSlotFree ==
  ASSUME IInv, active < capacity
  PROVE  Available(NoSlot) # {}
<1>1. Cardinality(free_slots) # 0
  BY SchedulerAssumption DEF IInv, TypeOK, SlotsCounted
<1>2. free_slots # {}
  BY <1>1, FS_EmptySet
<1> QED
  BY <1>2, LowestIsThere DEF Available, IInv, TypeOK

-----------------------------------------------------------------------------
(* What one step does to the parts of the invariant.                         *)

(* The scheduler starts empty, with every slot free. *)
LEMMA InitIInv == Init => IInv
<1> SUFFICES ASSUME Init PROVE IInv
  OBVIOUS
<1>1. TypeOK
  <2>1. free_slots \subseteq Slots /\ queue \in Seq(Requests) /\ late \subseteq Waiting
    BY DEF Init
  <2>2. at \in [Requests -> States] /\ slot \in [Requests -> Slots \cup {NoSlot}]
    BY DEF Init, States
  <2> QED
    BY <2>1, <2>2 DEF Init, TypeOK
<1>2. Served = {} /\ Waiting = {}
  BY DEF Init, Served, Waiting
<1>3. SlotsSound /\ SlotsCounted
  BY <1>2, FiniteSlots, FS_EmptySet, SchedulerAssumption DEF Init, SlotsSound, SlotsCounted
<1>4. TicketsSound /\ LineBounded /\ CountersAgree
  BY <1>2, SchedulerAssumption DEF Init, TicketsSound, LineBounded, CountersAgree
<1> QED
  BY <1>1, <1>3, <1>4 DEF IInv

(* Those served and their slots stay. *)
LEMMA ServedStay ==
  ASSUME IInv, Served' = Served, \A u \in Served : slot'[u] = slot[u],
         free_slots' = free_slots, active' = active
  PROVE  SlotsSound' /\ SlotsCounted'
  BY DEF IInv, SlotsSound, SlotsCounted

(* One more is served, with a slot that was free. *)
LEMMA OneServed ==
  ASSUME IInv, NEW t \in Requests, at[t] # "served", NEW x \in free_slots,
         at' = [at EXCEPT ![t] = "served"], slot' = [slot EXCEPT ![t] = x],
         free_slots' = free_slots \ {x}, active' = active + 1
  PROVE  SlotsSound' /\ SlotsCounted' /\ Served' = Served \cup {t}
<1>1. Served' = Served \cup {t} /\ t \notin Served
  BY DEF Served, IInv, TypeOK
<1>2. slot'[t] = x /\ \A u \in Served : slot'[u] = slot[u]
  BY <1>1 DEF Served, IInv, TypeOK
<1>3. /\ \A u \in Served : slot[u] \in Slots \ free_slots
      /\ \A u, v \in Served : slot[u] = slot[v] => u = v
      /\ \A y \in Slots \ free_slots : \E u \in Served : slot[u] = y
      /\ active = Cardinality(Served) /\ x \in Slots
  BY DEF IInv, SlotsSound, TypeOK
<1>4. Cardinality(Served \cup {t}) = Cardinality(Served) + 1
  BY <1>1, FiniteSlots, FS_AddElement DEF Served
<1>5. Cardinality(free_slots \ {x}) = Cardinality(free_slots) - 1
  BY FiniteSlots, FS_RemoveElement DEF IInv, TypeOK
<1>6. SlotsCounted'
  <2>1. /\ active \in Nat /\ Cardinality(free_slots) \in Nat
        /\ active + Cardinality(free_slots) = capacity
    BY FiniteSlots DEF IInv, TypeOK, SlotsCounted
  <2> QED
    BY <1>5, <2>1 DEF SlotsCounted
<1>7. SlotsSound'
  BY <1>1, <1>2, <1>3, <1>4 DEF SlotsSound
<1> QED
  BY <1>1, <1>6, <1>7

(* One served gives its slot back. *)
LEMMA OneReturned ==
  ASSUME IInv, NEW t \in Requests, at[t] = "served",
         at' = [at EXCEPT ![t] = "out"], slot' = [slot EXCEPT ![t] = NoSlot],
         free_slots' = free_slots \cup {slot[t]}, active' = active - 1
  PROVE  /\ SlotsSound' /\ SlotsCounted' /\ Served' = Served \ {t}
         /\ active' \in Nat /\ slot[t] \in Slots \ free_slots
<1>1. Served' = Served \ {t} /\ t \in Served
  BY DEF Served, IInv, TypeOK
<1>2. \A u \in Served \ {t} : slot'[u] = slot[u]
  BY DEF Served, IInv, TypeOK
<1>3. /\ \A u \in Served : slot[u] \in Slots \ free_slots
      /\ \A u, v \in Served : slot[u] = slot[v] => u = v
      /\ \A y \in Slots \ free_slots : \E u \in Served : slot[u] = y
      /\ active = Cardinality(Served)
  BY DEF IInv, SlotsSound
<1>4. Cardinality(Served \ {t}) = Cardinality(Served) - 1
  BY <1>1, FiniteSlots, FS_RemoveElement DEF Served
<1>5. Cardinality(free_slots \cup {slot[t]}) = Cardinality(free_slots) + 1
  BY <1>1, <1>3, FiniteSlots, FS_AddElement DEF IInv, TypeOK
<1>6. SlotsCounted'
  <2>1. /\ active \in Nat /\ Cardinality(free_slots) \in Nat
        /\ active + Cardinality(free_slots) = capacity
    BY FiniteSlots DEF IInv, TypeOK, SlotsCounted
  <2> QED
    BY <1>5, <2>1 DEF SlotsCounted
<1>7. Cardinality(Served \ {t}) \in Nat
  BY FiniteSlots DEF Served
<1>8. SlotsSound'
  BY <1>1, <1>2, <1>3, <1>4 DEF SlotsSound
<1> QED
  BY <1>1, <1>3, <1>4, <1>6, <1>7, <1>8

-----------------------------------------------------------------------------
(* One turn of the loop, for a line q in which t stands: the deque as t      *)
(* finds it, or with t's ticket just appended.                               *)

Found(t, q) ==
  /\ at[t] # "served"
  /\ IsLineOf(q, Waiting \cup {t})
  /\ q = queue \/ (Len(queue) <= max_queue /\ Len(q) = Len(queue) + 1)

(* A line one shorter than the one found is no longer than it may be.        *)
LEMMA ShorterLine ==
  ASSUME IInv, NEW t, NEW q, Found(t, q), Len(queue') \in Nat, Len(queue') = Len(q) - 1
  PROVE  LineBounded'
<1>1. Len(queue) \in Nat /\ Len(q) \in Nat /\ max_queue \in Nat
  BY SchedulerAssumption DEF IInv, TypeOK, Found, IsLineOf
<1>2. Len(queue') <= max_queue
  <2>1. CASE q = queue
    <3>1. Len(queue) > max_queue => max_queue = 0 /\ Len(queue) = 1
      BY DEF IInv, LineBounded
    <3> QED
      BY <1>1, <2>1, <3>1
  <2>2. CASE Len(queue) <= max_queue /\ Len(q) = Len(queue) + 1
    BY <1>1, <2>2
  <2> QED
    BY <2>1, <2>2 DEF Found
<1> QED
  BY <1>1, <1>2 DEF LineBounded

(* A thread gives up: its own ticket goes, nothing else does. *)
LEMMA LeaveKeeps ==
  ASSUME IInv, NEW t \in Requests, NEW q, Found(t, q), LeaveLine(t, q),
         admitted' = admitted, completed' = completed, rejected' \in Nat,
         timed_out' \in Nat, cancelled' \in Nat
  PROVE  IInv'
<1>1. PICK i \in 1 .. Len(q) : q[i] = t /\ queue' = RemoveAt(q, i)
  BY DEF LeaveLine, RemoveTicket
<1>2. Waiting' = (Waiting \cup {t}) \ {t} /\ Served' = Served
  BY DEF LeaveLine, Waiting, Served, Found, IInv, TypeOK
<1>3. IsLineOf(queue', Waiting') /\ Len(queue') = Len(q) - 1
  BY <1>1, <1>2, LineRemove DEF Found
<1>4. TypeOK'
  <2>1. queue' \in Seq(Requests)
    BY <1>3 DEF IsLineOf
  <2>2. late' \subseteq Waiting'
    BY <1>2 DEF LeaveLine, IInv, TypeOK
  <2> QED
    BY <2>1, <2>2 DEF LeaveLine, IInv, TypeOK, States
<1>5. TicketsSound'
  BY <1>3, LineIsSound
<1>6. SlotsSound' /\ SlotsCounted'
  <2>1. \A u \in Served : slot'[u] = slot[u]
    BY DEF LeaveLine, Served, Found, IInv, TypeOK
  <2> QED
    BY <1>2, <2>1, ServedStay DEF LeaveLine
<1>7. LineBounded'
  BY <1>3, ShorterLine DEF IsLineOf
<1>8. CountersAgree'
  BY DEF IInv, CountersAgree, LeaveLine
<1> QED
  BY <1>4, <1>5, <1>6, <1>7, <1>8 DEF IInv

(* The head of the line is served. *)
LEMMA ServeKeeps ==
  ASSUME IInv, NEW t \in Requests, NEW q, NEW s, Found(t, q), Serve(t, q, s)
  PROVE  IInv'
<1>1. PICK x \in Available(s) :
        slot' = [slot EXCEPT ![t] = x] /\ free_slots' = free_slots \ {x}
  BY DEF Serve
<1>2. x \in free_slots /\ q[1] = t /\ t \in Waiting \cup {t}
  BY <1>1 DEF Available, Lowest, Serve, CanServe
<1>3. q # <<>>
  BY <1>2 DEF Found, IsLineOf
<1>4. SlotsSound' /\ SlotsCounted' /\ Served' = Served \cup {t}
  BY <1>1, <1>2, OneServed DEF Serve, Found
<1>5. Waiting' = (Waiting \cup {t}) \ {q[1]}
  BY <1>2 DEF Serve, Waiting, IInv, TypeOK
<1>6. IsLineOf(queue', Waiting') /\ Len(queue') = Len(q) - 1
  BY <1>3, <1>5, LineTail DEF Found, Serve
<1>7. TypeOK'
  <2>1. queue' \in Seq(Requests)
    BY <1>6 DEF IsLineOf
  <2>2. late' \subseteq Waiting'
    BY <1>2, <1>5 DEF Serve, IInv, TypeOK
  <2>3. x \in Slots
    BY <1>2 DEF IInv, TypeOK
  <2> QED
    BY <1>1, <2>1, <2>2, <2>3 DEF Serve, IInv, TypeOK, States
<1>8. TicketsSound'
  BY <1>6, LineIsSound
<1>9. LineBounded'
  BY <1>6, ShorterLine DEF IsLineOf
<1>10. CountersAgree'
  BY DEF IInv, TypeOK, CountersAgree, Serve
<1> QED
  BY <1>4, <1>7, <1>8, <1>9, <1>10 DEF IInv

-----------------------------------------------------------------------------
(* The steps.                                                                *)

(* A thread that finds the server neither full nor closed stands in line.    *)
LEMMA ArriverFound ==
  ASSUME IInv, NEW t \in Requests, MayArrive(t), ~Full
  PROVE  /\ Found(t, Append(queue, t)) /\ t \notin Waiting
         /\ Len(Append(queue, t)) = Len(queue) + 1
         /\ Len(queue) < max_queue \/ (queue = <<>> /\ active < capacity)
<1>1. t \notin Waiting /\ Waiting \subseteq Requests
  BY DEF MayArrive, Waiting
<1>2. /\ IsLineOf(Append(queue, t), Waiting \cup {t})
      /\ Len(Append(queue, t)) = Len(queue) + 1
  BY <1>1, QueueIsLine, LineAppend
<1>3. Len(queue) \in Nat /\ max_queue \in Nat /\ active \in Nat /\ capacity \in Nat
  BY SchedulerAssumption DEF IInv, TypeOK
<1>4. Len(queue) < max_queue \/ (queue = <<>> /\ active < capacity)
  BY <1>3 DEF Full
<1>5. Len(queue) <= max_queue
  BY <1>3, <1>4
<1> QED
  BY <1>1, <1>2, <1>4, <1>5 DEF Found, MayArrive

(* And so does a thread after a wait. *)
LEMMA WaiterFound ==
  ASSUME IInv, NEW t \in Requests, at[t] = "waiting"
  PROVE  Found(t, queue)
<1>1. Waiting \cup {t} = Waiting
  BY DEF Waiting
<1> QED
  BY <1>1, QueueIsLine DEF Found

(* The first turn ends in a wait. *)
Stand(t, s) ==
  /\ queue' = Append(queue, t)
  /\ at' = [at EXCEPT ![t] = "waiting"]
  /\ slot' = [slot EXCEPT ![t] = s]
  /\ UNCHANGED <<free_slots, active, closed, counters, gone, late>>

(* An arriving thread waits. *)
LEMMA StandKeeps ==
  ASSUME IInv, NEW t \in Requests, NEW s \in Slots \cup {NoSlot}, MayArrive(t), ~Full,
         ~CanServe(t, Append(queue, t), s), Stand(t, s)
  PROVE  IInv'
<1>1. /\ IsLineOf(queue', Waiting \cup {t}) /\ Len(queue') = Len(queue) + 1
      /\ t \notin Waiting
      /\ Len(queue) < max_queue \/ (queue = <<>> /\ active < capacity)
  BY ArriverFound DEF Found, Stand
<1>2. Waiting' = Waiting \cup {t} /\ Served' = Served
  BY DEF Stand, Waiting, Served, MayArrive, IInv, TypeOK
<1>3. TypeOK'
  <2>1. queue' \in Seq(Requests)
    BY <1>1 DEF IsLineOf
  <2> QED
    BY <1>2, <2>1 DEF Stand, IInv, TypeOK, States, counters
<1>4. TicketsSound'
  BY <1>1, <1>2, LineIsSound
<1>5. SlotsSound' /\ SlotsCounted'
  <2>1. \A u \in Served : slot'[u] = slot[u]
    BY DEF Stand, Served, MayArrive, IInv, TypeOK
  <2> QED
    BY <1>2, <2>1, ServedStay DEF Stand
<1>6. LineBounded'
  <2>1. Len(queue) \in Nat /\ max_queue \in Nat
    BY SchedulerAssumption DEF IInv, TypeOK
  <2>2. CASE Len(queue) < max_queue
    BY <1>1, <2>1, <2>2 DEF LineBounded
  <2>3. CASE queue = <<>> /\ active < capacity
    <3>1. queue'[1] = t /\ Len(queue') = 1 /\ Append(queue, t)[1] = t
      BY <2>3 DEF Stand
    <3>2. Available(s) = {}
      BY <3>1 DEF CanServe
    <3>3. s # NoSlot
      BY <2>3, <3>2, SomeSlotFree
    <3>4. slot'[t] = s
      BY DEF Stand, IInv, TypeOK
    <3> QED
      BY <2>1, <3>1, <3>3, <3>4 DEF LineBounded
  <2> QED
    BY <1>1, <2>2, <2>3
<1>7. CountersAgree'
  BY DEF IInv, CountersAgree, Stand, counters
<1> QED
  BY <1>3, <1>4, <1>5, <1>6, <1>7 DEF IInv

(* A thread whose client has gone. *)
LEMMA GiveUpKeeps ==
  ASSUME IInv, NEW t \in Requests, NEW q, NEW s, Found(t, q), GiveUp(t, q, s)
  PROVE  IInv'
<1>1. LeaveLine(t, q)
  BY DEF GiveUp
<1> QED
  BY <1>1, LeaveKeeps DEF GiveUp, IInv, TypeOK

(* The entry of admit. *)
LEMMA ArriveKeeps ==
  ASSUME IInv, NEW t \in Requests, NEW s \in CacheSlots, Arrive(t, s)
  PROVE  IInv'
<1> DEFINE q == Append(queue, t)
<1>1. Found(t, q)
  BY ArriverFound DEF Arrive
<1>2. CASE Serve(t, q, s)
  BY <1>1, <1>2, ServeKeeps
<1>3. CASE GiveUp(t, q, s)
  BY <1>1, <1>3, GiveUpKeeps
<1>4. CASE ~CanServe(t, q, s) /\ Stand(t, s)
  BY <1>4, StandKeeps, SchedulerAssumption DEF Arrive
<1> QED
  BY <1>2, <1>3, <1>4 DEF Arrive, Stand

(* A turn of the loop. *)
LEMMA PollKeeps ==
  ASSUME IInv, NEW t \in Requests, Poll(t)
  PROVE  IInv'
<1>1. Found(t, queue)
  BY WaiterFound DEF Poll
<1>2. CASE ShutOut(t, queue)
  BY <1>1, <1>2, LeaveKeeps DEF ShutOut, counters, IInv, TypeOK
<1>3. CASE Serve(t, queue, slot[t])
  BY <1>1, <1>3, ServeKeeps
<1>4. CASE GiveUp(t, queue, slot[t])
  BY <1>1, <1>4, GiveUpKeeps
<1>5. CASE TimeOut(t, queue, slot[t])
  BY <1>1, <1>5, LeaveKeeps DEF TimeOut, IInv, TypeOK
<1> QED
  BY <1>2, <1>3, <1>4, <1>5 DEF Poll

(* The finally block. *)
LEMMA ReleaseKeeps ==
  ASSUME IInv, NEW t \in Requests, Release(t)
  PROVE  IInv'
<1>1. /\ SlotsSound' /\ SlotsCounted' /\ Served' = Served \ {t}
      /\ active' \in Nat /\ slot[t] \in Slots \ free_slots
  BY OneReturned DEF Release
<1>2. Waiting' = Waiting /\ t \notin Waiting
  BY DEF Release, Waiting, IInv, TypeOK
<1>3. TypeOK'
  BY <1>1, <1>2 DEF Release, IInv, TypeOK, States
<1>4. TicketsSound'
  BY <1>2 DEF Release, IInv, TicketsSound
<1>5. LineBounded'
  <2>1. \A u \in Waiting : slot'[u] = slot[u]
    BY <1>2 DEF Release, Waiting, IInv, TypeOK
  <2>2. Len(queue) >= 1 => queue[1] \in Waiting
    BY QueueIsLine DEF IsLineOf
  <2> QED
    BY <2>1, <2>2 DEF Release, IInv, LineBounded
<1>6. CountersAgree'
  BY <1>1 DEF Release, IInv, TypeOK, CountersAgree
<1> QED
  BY <1>1, <1>3, <1>4, <1>5, <1>6 DEF IInv

(* The other steps touch neither the line nor a slot. *)
LEMMA AsideKeeps ==
  ASSUME IInv,
         UNCHANGED <<free_slots, queue, active, at, slot, admitted, completed>>,
         closed' \in BOOLEAN, rejected' \in Nat, timed_out' \in Nat, cancelled' \in Nat,
         gone' \subseteq Requests, late' \subseteq Waiting
  PROVE  IInv'
<1>1. Waiting' = Waiting /\ Served' = Served
  BY DEF Waiting, Served
<1>2. TypeOK'
  BY <1>1 DEF IInv, TypeOK
<1>3. SlotsSound' /\ SlotsCounted'
  BY <1>1, ServedStay
<1>4. TicketsSound' /\ LineBounded' /\ CountersAgree'
  BY <1>1 DEF IInv, TicketsSound, LineBounded, CountersAgree
<1> QED
  BY <1>2, <1>3, <1>4 DEF IInv

(* Every step, and no step. *)
LEMMA NextKeeps ==
  ASSUME IInv, [Next]_vars
  PROVE  IInv'
<1>1. ASSUME NEW t \in Requests, Reject(t)
      PROVE  IInv'
  BY <1>1, AsideKeeps DEF Reject, IInv, TypeOK
<1>2. ASSUME NEW t \in Requests, HangUp(t)
      PROVE  IInv'
  BY <1>2, AsideKeeps DEF HangUp, counters, IInv, TypeOK
<1>3. ASSUME NEW t \in Requests, Expire(t)
      PROVE  IInv'
  BY <1>3, AsideKeeps DEF Expire, counters, IInv, TypeOK, Waiting
<1>4. CASE Close
  BY <1>4, AsideKeeps DEF Close, counters, IInv, TypeOK
<1>5. CASE UNCHANGED vars
  BY <1>5, AsideKeeps DEF vars, counters, IInv, TypeOK
<1> QED
  BY <1>1, <1>2, <1>3, <1>4, <1>5, ArriveKeeps, PollKeeps, ReleaseKeeps DEF Next, Step

(* The inductive invariant holds in every reachable state.                   *)
THEOREM SchedulerInvariant == Spec => []IInv
<1>1. Init => IInv
  BY InitIInv
<1>2. IInv /\ [Next]_vars => IInv'
  BY NextKeeps
<1> QED
  BY <1>1, <1>2, PTL DEF Spec

(* Types, whatever mix of arrivals, turns, hang-ups, deadlines and a close.  *)
THEOREM SchedulerTypeCorrect == Spec => []TypeOK
  BY SchedulerInvariant, PTL DEF IInv

(* admit never gives one KV context to two threads and never loses one.      *)
THEOREM SlotsSoundCorrect == Spec => []SlotsSound
  BY SchedulerInvariant, PTL DEF IInv

(* The deque holds the ticket of each waiting thread once and no stale one.  *)
THEOREM TicketsSoundCorrect == Spec => []TicketsSound
  BY SchedulerInvariant, PTL DEF IInv

(* The bound of the line, max_queue = 0 included.                            *)
THEOREM LineBoundedCorrect == Spec => []LineBounded
  BY SchedulerInvariant, PTL DEF IInv

(* What /health reports adds up, for any number of requests.                 *)
THEOREM CountersAgreeCorrect == Spec => []CountersAgree
  BY SchedulerInvariant, PTL DEF IInv

-----------------------------------------------------------------------------
(* The scheduler implements Admission.                                       *)

serving == {<<t, slot[t]>> : t \in Served}

(* The promise's sets of threads and slots are the scheduler's. *)
LEMMA ServingIs ==
  ASSUME IInv
  PROVE  /\ Promise!Served = Served /\ Promise!InUse = Slots \ free_slots
         /\ Promise!Waiting = Waiting
<1>0. /\ \A p \in serving : \E t \in Served : p[1] = t /\ p[2] = slot[t]
      /\ \A t \in Served : \E p \in serving : p[1] = t /\ p[2] = slot[t]
  <2>1. ASSUME NEW p \in serving
        PROVE  \E t \in Served : p[1] = t /\ p[2] = slot[t]
    <3>1. PICK t \in Served : p = <<t, slot[t]>>
      BY DEF serving
    <3> QED
      BY <3>1
  <2>2. ASSUME NEW t \in Served
        PROVE  \E p \in serving : p[1] = t /\ p[2] = slot[t]
    <3>1. <<t, slot[t]>> \in serving
      BY DEF serving
    <3>2. <<t, slot[t]>>[1] = t /\ <<t, slot[t]>>[2] = slot[t]
      OBVIOUS
    <3> DEFINE p == <<t, slot[t]>>
    <3>3. p \in serving /\ p[1] = t /\ p[2] = slot[t]
      BY <3>1, <3>2
    <3> HIDE DEF p
    <3> QED
      BY <3>3
  <2> QED
    BY <2>1, <2>2
<1>1. Promise!Served = Served
  <2>1. \A u : u \in Promise!Served <=> \E p \in serving : u = p[1]
    BY DEF Promise!Served, serving
  <2>2. \A u : u \in Served <=> \E p \in serving : u = p[1]
    BY <1>0
  <2> QED
    BY <2>1, <2>2
<1>2. Promise!InUse = Slots \ free_slots
  <2>1. \A x : x \in Promise!InUse <=> \E p \in serving : x = p[2]
    BY DEF Promise!InUse, serving
  <2>2. \A x : (\E p \in serving : x = p[2]) <=> \E t \in Served : x = slot[t]
    BY <1>0
  <2>3. \A x : x \in Slots \ free_slots <=> \E t \in Served : x = slot[t]
    BY DEF IInv, SlotsSound
  <2> QED
    BY <2>1, <2>2, <2>3
<1>3. Promise!Waiting = Waiting
  BY DEF Promise!Waiting, IInv, TicketsSound
<1> QED
  BY <1>1, <1>2, <1>3

(* A turn that serves.                                                       *)
LEMMA ServeImplements ==
  ASSUME IInv, NEW t \in Requests, NEW q, NEW s, at[t] # "served", Serve(t, q, s)
  PROVE  /\ closed' = closed /\ ~closed /\ q[1] = t /\ queue' = Tail(q)
         /\ \E x \in Slots \ Promise!InUse : serving' = serving \cup {<<t, x>>}
<1>1. PICK x \in Available(s) :
        slot' = [slot EXCEPT ![t] = x] /\ free_slots' = free_slots \ {x}
  BY DEF Serve
<1>2. x \in free_slots
  BY <1>1 DEF Available, Lowest
<1>3. Served' = Served \cup {t} /\ t \notin Served
  BY DEF Serve, Served, IInv, TypeOK
<1>4. slot'[t] = x /\ \A u \in Served : slot'[u] = slot[u]
  BY <1>1, <1>3 DEF Served, IInv, TypeOK
<1>5. serving' = serving \cup {<<t, x>>}
  BY <1>3, <1>4 DEF serving
<1>6. x \in Slots \ Promise!InUse
  BY <1>2, ServingIs DEF IInv, TypeOK
<1> QED
  BY <1>5, <1>6 DEF Serve, CanServe

(* A turn that gives up.                                                     *)
LEMMA LeaveImplements ==
  ASSUME IInv, NEW t \in Requests, at[t] = "waiting", LeaveLine(t, queue)
  PROVE  Promise!Leave(t)
<1>1. serving' = serving
  BY DEF LeaveLine, serving, Served, IInv, TypeOK
<1>2. closed' = closed /\ \E i \in 1 .. Len(queue) : queue[i] = t /\ queue' = RemoveAt(queue, i)
  BY DEF LeaveLine, RemoveTicket
<1> QED
  BY <1>1, <1>2 DEF Promise!Leave, Promise!RemoveAt, RemoveAt, serving

(* Giving up in the turn of one's arrival leaves the deque as it was.        *)
LEMMA ArriveAndLeave ==
  ASSUME IInv, NEW t \in Requests, at[t] = "out", LeaveLine(t, Append(queue, t))
  PROVE  UNCHANGED <<queue, serving, closed>>
<1> DEFINE q == Append(queue, t)
<1>1. serving' = serving /\ closed' = closed
  BY DEF LeaveLine, serving, Served, IInv, TypeOK
<1>2. t \notin Waiting
  BY DEF Waiting
<1>3. queue \in Seq(Requests) /\ \A i \in 1 .. Len(queue) : queue[i] # t
  BY <1>2, QueueIsLine DEF IsLineOf
<1>4. /\ q \in Seq(Requests) /\ Len(q) = Len(queue) + 1 /\ Len(queue) \in Nat
      /\ \A i \in 1 .. Len(queue) : q[i] = queue[i]
  BY <1>3
<1>5. PICK i \in 1 .. Len(q) : q[i] = t /\ queue' = RemoveAt(q, i)
  BY DEF LeaveLine, RemoveTicket
<1> HIDE DEF q
<1>6. i = Len(queue) + 1
  BY <1>3, <1>4, <1>5
<1>7. /\ queue' \in Seq(Requests) /\ Len(queue') = Len(queue)
      /\ \A j \in 1 .. Len(queue) : queue'[j] = queue[j]
  <2>1. /\ queue' \in Seq(Requests) /\ Len(queue') = Len(q) - 1
        /\ \A j \in 1 .. Len(q) - 1 : queue'[j] = IF j < i THEN q[j] ELSE q[j + 1]
    BY <1>4, <1>5, RemoveAtIs
  <2> QED
    BY <1>4, <1>6, <2>1
<1>8. queue' = queue
  BY <1>3, <1>7
<1> QED
  BY <1>1, <1>8

(* Arriving is Join, JoinServed or nothing. *)
LEMMA ArriveImplements ==
  ASSUME IInv, NEW t \in Requests, NEW s \in CacheSlots, Arrive(t, s)
  PROVE  Promise!Next \/ UNCHANGED Promise!vars
<1> DEFINE q == Append(queue, t)
<1>1. /\ at[t] = "out" /\ ~closed /\ MayArrive(t) /\ ~Full
      /\ t \notin Waiting \cup Served
  BY DEF Arrive, MayArrive, Waiting, Served
<1>2. Promise!MayJoin(t)
  BY <1>1, ServingIs DEF Promise!MayJoin
<1>3. CASE Serve(t, q, s)
  <2>1. /\ closed' = closed /\ q[1] = t /\ queue' = Tail(q)
        /\ \E x \in Slots \ Promise!InUse : serving' = serving \cup {<<t, x>>}
    BY <1>1, <1>3, ServeImplements
  <2>2. queue = <<>>
    BY <1>1, <2>1, QueueIsLine, LineAppend DEF Waiting
  <2>3. queue' = queue
    BY <2>1, <2>2
  <2>4. Promise!JoinServed(t)
    BY <1>2, <2>1, <2>2, <2>3 DEF Promise!JoinServed, serving
  <2> QED
    BY <2>4 DEF Promise!Next
<1>4. CASE GiveUp(t, q, s)
  BY <1>1, <1>4, ArriveAndLeave DEF GiveUp, Promise!vars, serving
<1>5. CASE Stand(t, s)
  <2>1. serving' = serving
    BY <1>1, <1>5 DEF Stand, serving, Served, IInv, TypeOK
  <2>2. Len(queue) < Longest
    <3>1. Len(queue) \in Nat /\ max_queue \in Nat
      BY SchedulerAssumption DEF IInv, TypeOK
    <3> QED
      BY <1>1, <3>1, ArriverFound DEF Longest
  <2>3. Promise!Join(t)
    BY <1>2, <1>5, <2>1, <2>2 DEF Stand, Promise!Join, serving
  <2> QED
    BY <2>3 DEF Promise!Next
<1> QED
  BY <1>3, <1>4, <1>5 DEF Arrive, Stand

(* A turn of the loop is Serve or Leave. *)
LEMMA PollImplements ==
  ASSUME IInv, NEW t \in Requests, Poll(t)
  PROVE  Promise!Next
<1>1. at[t] = "waiting"
  BY DEF Poll
<1>2. CASE LeaveLine(t, queue)
  BY <1>1, <1>2, LeaveImplements DEF Promise!Next
<1>3. CASE Serve(t, queue, slot[t])
  <2>1. /\ closed' = closed /\ ~closed /\ queue[1] = t /\ queue' = Tail(queue)
        /\ \E x \in Slots \ Promise!InUse : serving' = serving \cup {<<t, x>>}
    BY <1>1, <1>3, ServeImplements
  <2>2. queue # <<>> /\ Head(queue) = t
    <3>1. t \in Waiting
      BY <1>1 DEF Waiting
    <3>2. queue # <<>>
      BY <3>1, QueueIsLine DEF IsLineOf
    <3> QED
      BY <2>1, <3>2, QueueIsLine, LineTail
  <2>3. Promise!Serve(t)
    BY <2>1, <2>2 DEF Promise!Serve, serving
  <2> QED
    BY <2>3 DEF Promise!Next
<1> QED
  BY <1>2, <1>3 DEF Poll, ShutOut, GiveUp, TimeOut

(* The finally block is Return. *)
LEMMA ReleaseImplements ==
  ASSUME IInv, NEW t \in Requests, Release(t)
  PROVE  Promise!Return(t)
<1>1. Served' = Served \ {t} /\ t \in Served
  BY DEF Release, Served, IInv, TypeOK
<1>2. \A u \in Served \ {t} : slot'[u] = slot[u]
  BY DEF Release, Served, IInv, TypeOK
<1>3. serving' = serving \ {<<t, slot[t]>>} /\ <<t, slot[t]>> \in serving
  BY <1>1, <1>2 DEF serving
<1> QED
  BY <1>3 DEF Promise!Return, Release, serving

(* The other steps. *)
LEMMA AsideImplements ==
  ASSUME UNCHANGED <<queue, at, slot, closed>>
  PROVE  UNCHANGED Promise!vars
  BY DEF Promise!vars, Served

(* close is Close. *)
LEMMA CloseImplements ==
  ASSUME Close
  PROVE  Promise!Close
  BY DEF Close, Promise!Close, Served

(* Every step of the scheduler is one of Admission, or none.                 *)
LEMMA NextImplements ==
  ASSUME IInv, [Next]_vars
  PROVE  [Promise!Next]_(Promise!vars)
<1>1. ASSUME NEW t \in Requests, Reject(t) \/ HangUp(t) \/ Expire(t)
      PROVE  UNCHANGED Promise!vars
  BY <1>1, AsideImplements DEF Reject, HangUp, Expire
<1>2. ASSUME NEW t \in Requests, Release(t)
      PROVE  Promise!Next
  BY <1>2, ReleaseImplements DEF Promise!Next
<1>3. CASE Close
  BY <1>3, CloseImplements DEF Promise!Next
<1>4. CASE UNCHANGED vars
  BY <1>4, AsideImplements DEF vars
<1> QED
  BY <1>1, <1>2, <1>3, <1>4, ArriveImplements, PollImplements DEF Next, Step

(* The scheduler does what its doc string promises: whatever the capacity    *)
(* and the bound of the line, requests are served first come first served,   *)
(* each with a slot of its own, and none once the scheduler is closed.       *)
THEOREM SchedulerIsAdmission == Spec => ActsAsAdmission
<1>1. Init => Promise!Init
  <2>1. Init => Served = {}
    BY DEF Init, Served
  <2> QED
    BY <2>1 DEF Init, Promise!Init
<1>2. IInv /\ [Next]_vars => [Promise!Next]_(Promise!vars)
  BY NextImplements
<1> QED
  BY <1>1, <1>2, SchedulerInvariant, PTL DEF Spec, Promise!Spec, ActsAsAdmission
=============================================================================
