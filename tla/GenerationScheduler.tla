------------------------ MODULE GenerationScheduler -------------------------
(***************************************************************************)
(* GenerationScheduler of openai_server.py: the threads of the HTTP server *)
(* that carry a generation wait here, in the order they came, for one of   *)
(* the engine's KV contexts.  A step is what a thread does between two     *)
(* points where it lets go of self.condition: the entry of admit up to its *)
(* first wait, one more turn of the loop after a wait, the finally block   *)
(* that returns the slot, or close.  A wait ends after a quarter of a      *)
(* second at the latest, so a thread takes its turn whether or not anyone  *)
(* notified it.                                                            *)
(***************************************************************************)
EXTENDS Naturals, FiniteSets, SequencesExt

CONSTANTS
  Requests,   \* the threads that carry a request
  NoSlot,     \* the None of a request that takes any slot
  capacity,   \* how many KV contexts the engine has
  max_queue,  \* how many requests may wait
  CacheSlots, \* the values of cache_slot that clients send
  MaxCalls    \* bound: how many requests the counters may have counted

Slots == 0 .. capacity - 1

ASSUME SchedulerAssumption ==
  /\ capacity \in Nat \ {0} /\ max_queue \in Nat /\ MaxCalls \in Nat
  /\ NoSlot \notin Slots /\ CacheSlots \subseteq Slots \cup {NoSlot}
  /\ IsFiniteSet(Requests)

VARIABLES
  free_slots,  \* the slots nobody uses
  queue,       \* the tickets, each named by its thread
  active,      \* the number of requests being served
  closed,      \* close was called
  admitted, completed, rejected, timed_out, cancelled,  \* the counters
  at,          \* where each thread is: out of admit, waiting, or served
  slot,        \* the slot a thread asks for and, once served, the one it has
  gone,        \* the threads whose client hung up
  late         \* the threads whose queue_timeout has run out

counters == <<admitted, completed, rejected, timed_out, cancelled>>
vars == <<free_slots, queue, active, closed, counters, at, slot, gone, late>>

Init ==
  /\ free_slots = Slots /\ queue = <<>> /\ active = 0 /\ closed = FALSE
  /\ admitted = 0 /\ completed = 0 /\ rejected = 0
  /\ timed_out = 0 /\ cancelled = 0
  /\ at = [t \in Requests |-> "out"]
  /\ slot = [t \in Requests |-> NoSlot]
  /\ gone = {} /\ late = {}

-----------------------------------------------------------------------------
(* One turn of admit's loop.  q is the deque as the thread t finds it, with  *)
(* its own ticket in it, and s the slot it asks for.                         *)

Lowest(S) == {x \in S : \A y \in S : x <= y}
(* Mutant: a pinned slot is not looked up among the free ones. *)
AvailablePinned(s) == IF s = NoSlot THEN Lowest(free_slots) ELSE {s}

Available(s) == IF s = NoSlot THEN Lowest(free_slots) ELSE free_slots \cap {s}

(* Mutant: whoever finds a slot takes it, head of the line or not. *)
CanServeAnyone(t, q, s) == Available(s) # {}

CanServe(t, q, s) == q[1] = t /\ Available(s) # {}

(* Mutant: a thread that gives up leaves its ticket behind. *)
KeepTicket(t, q) == queue' = q

(* Mutant: it takes the first ticket away instead of its own. *)
RemoveFirstTicket(t, q) == queue' = Tail(q)

RemoveTicket(t, q) ==
  \E i \in 1 .. Len(q) : q[i] = t /\ queue' = RemoveAt(q, i)

(* The thread leaves admit with an exception.                                *)
LeaveLine(t, q) ==
  /\ RemoveTicket(t, q)
  /\ at' = [at EXCEPT ![t] = "out"]
  /\ slot' = [slot EXCEPT ![t] = NoSlot]
  /\ gone' = gone \ {t} /\ late' = late \ {t}
  /\ UNCHANGED <<free_slots, active, closed>>

ShutOut(t, q) ==
  /\ closed
  /\ LeaveLine(t, q) /\ UNCHANGED counters

(* Mutant: active is not raised. *)
ServeUncounted(t, q, s) ==
  /\ ~closed /\ CanServe(t, q, s)
  /\ \E available \in Available(s) :
       /\ slot' = [slot EXCEPT ![t] = available]
       /\ free_slots' = free_slots \ {available}
  /\ queue' = Tail(q)
  /\ admitted' = admitted + 1
  /\ at' = [at EXCEPT ![t] = "served"]
  /\ late' = late \ {t}
  /\ UNCHANGED <<active, closed, completed, rejected, timed_out, cancelled, gone>>

Serve(t, q, s) ==
  /\ ~closed /\ CanServe(t, q, s)
  /\ \E available \in Available(s) :
       /\ slot' = [slot EXCEPT ![t] = available]
       /\ free_slots' = free_slots \ {available}
  /\ queue' = Tail(q)
  /\ active' = active + 1 /\ admitted' = admitted + 1
  /\ at' = [at EXCEPT ![t] = "served"]
  /\ late' = late \ {t}
  /\ UNCHANGED <<closed, completed, rejected, timed_out, cancelled, gone>>

GiveUp(t, q, s) ==
  /\ ~closed /\ ~CanServe(t, q, s) /\ t \in gone
  /\ LeaveLine(t, q) /\ cancelled' = cancelled + 1
  /\ UNCHANGED <<admitted, completed, rejected, timed_out>>

TimeOut(t, q, s) ==
  /\ ~closed /\ ~CanServe(t, q, s) /\ t \notin gone /\ t \in late
  /\ LeaveLine(t, q) /\ timed_out' = timed_out + 1
  /\ UNCHANGED <<admitted, completed, rejected, cancelled>>

-----------------------------------------------------------------------------
(* admit, up to its first wait.  A closed scheduler answers 503 and changes  *)
(* nothing.  The deadline is never behind the thread yet: queue_timeout is   *)
(* positive.                                                                 *)
Counted == admitted + rejected + timed_out + cancelled + Len(queue)

(* Mutant: the line may have one more. *)
FullLate == (active >= capacity \/ queue # <<>>) /\ Len(queue) > max_queue

Full == (active >= capacity \/ queue # <<>>) /\ Len(queue) >= max_queue

MayArrive(t) == at[t] = "out" /\ ~closed /\ Counted < MaxCalls

Reject(t) ==
  /\ MayArrive(t) /\ Full
  /\ rejected' = rejected + 1
  /\ gone' = gone \ {t}
  /\ UNCHANGED <<free_slots, queue, active, closed, admitted, completed,
                 timed_out, cancelled, at, slot, late>>

Arrive(t, s) ==
  /\ MayArrive(t) /\ ~Full
  /\ LET q == Append(queue, t) IN
       \/ Serve(t, q, s)
       \/ GiveUp(t, q, s)
       \/ /\ ~CanServe(t, q, s) /\ t \notin gone
          /\ queue' = q
          /\ at' = [at EXCEPT ![t] = "waiting"]
          /\ slot' = [slot EXCEPT ![t] = s]
          /\ UNCHANGED <<free_slots, active, closed, counters, gone, late>>

(* A turn after a wait.  When it finds nothing to do the thread waits again. *)
Poll(t) ==
  /\ at[t] = "waiting"
  /\ \/ ShutOut(t, queue)
     \/ Serve(t, queue, slot[t])
     \/ GiveUp(t, queue, slot[t])
     \/ TimeOut(t, queue, slot[t])

(* Mutant: an answer to a client that has gone is not counted as completed. *)
ReleaseCountingSome(t) ==
  /\ at[t] = "served"
  /\ active' = active - 1
  /\ free_slots' = free_slots \cup {slot[t]}
  /\ completed' = IF t \in gone THEN completed ELSE completed + 1
  /\ at' = [at EXCEPT ![t] = "out"]
  /\ slot' = [slot EXCEPT ![t] = NoSlot]
  /\ gone' = gone \ {t}
  /\ UNCHANGED <<queue, closed, admitted, rejected, timed_out, cancelled, late>>

(* The finally block, after the generation and its answer.                   *)
Release(t) ==
  /\ at[t] = "served"
  /\ active' = active - 1
  /\ free_slots' = free_slots \cup {slot[t]}
  /\ completed' = completed + 1
  /\ at' = [at EXCEPT ![t] = "out"]
  /\ slot' = [slot EXCEPT ![t] = NoSlot]
  /\ gone' = gone \ {t}
  /\ UNCHANGED <<queue, closed, admitted, rejected, timed_out, cancelled, late>>

Close ==
  /\ ~closed /\ closed' = TRUE
  /\ UNCHANGED <<free_slots, queue, active, counters, at, slot, gone, late>>

(* The world: a client hangs up, a deadline passes.  Nobody asks for either  *)
(* here once the request is served.                                          *)
HangUp(t) ==
  /\ at[t] # "served" /\ t \notin gone /\ gone' = gone \cup {t}
  /\ UNCHANGED <<free_slots, queue, active, closed, counters, at, slot, late>>

Expire(t) ==
  /\ at[t] = "waiting" /\ t \notin late /\ late' = late \cup {t}
  /\ UNCHANGED <<free_slots, queue, active, closed, counters, at, slot, gone>>

-----------------------------------------------------------------------------
Step(t) ==
  \/ Reject(t)
  \/ \E s \in CacheSlots : Arrive(t, s)
  \/ Poll(t)
  \/ Release(t)
  \/ HangUp(t)
  \/ Expire(t)

Next == Close \/ \E t \in Requests : Step(t)

Spec == Init /\ [][Next]_vars

(* Every wait ends, and a generation gives its slot back: the engine ends it *)
(* unless its client stops reading for good (GenerationsEnd of Gateway.tla). *)
(* No client has to hang up and no deadline to pass; behind a generation that*)
(* keeps its slot it is the deadline, queue_timeout, that ends the wait.     *)
FairSpec ==
  /\ Spec
  /\ \A t \in Requests : WF_vars(Poll(t)) /\ WF_vars(Release(t))
-----------------------------------------------------------------------------
(* Properties.                                                               *)

States == {"out", "waiting", "served"}
Waiting == {t \in Requests : at[t] = "waiting"}
Served  == {t \in Requests : at[t] = "served"}
Longest == IF max_queue = 0 THEN 1 ELSE max_queue

(* Every variable keeps its type; the slots stay those of the engine.        *)
TypeOK ==
  /\ free_slots \subseteq Slots /\ queue \in Seq(Requests)
  /\ active \in Nat /\ closed \in BOOLEAN
  /\ admitted \in Nat /\ completed \in Nat /\ rejected \in Nat
  /\ timed_out \in Nat /\ cancelled \in Nat
  /\ at \in [Requests -> States]
  /\ slot \in [Requests -> Slots \cup {NoSlot}]
  /\ gone \subseteq Requests /\ late \subseteq Waiting

(* No two generations ever write to one KV context, whatever mix of pinned   *)
(* and free choices, time-outs and hang-ups led there; the free slots are    *)
(* exactly those nobody has, none is lost, and active says how many are out. *)
SlotsSound ==
  /\ \A t \in Served : slot[t] \in Slots \ free_slots
  /\ \A t, u \in Served : slot[t] = slot[u] => t = u
  /\ \A s \in Slots \ free_slots : \E t \in Served : slot[t] = s
  /\ active = Cardinality(Served)

(* The deque holds one ticket of every waiting thread and of nobody else: a  *)
(* ticket left behind by a thread that gave up would come to the head and    *)
(* stop the server for good.                                                 *)
TicketsSound ==
  /\ {queue[i] : i \in 1 .. Len(queue)} = Waiting
  /\ \A i, j \in 1 .. Len(queue) : queue[i] = queue[j] => i = j

(* The line outgrows max_queue in one case: with max_queue 0 a request that  *)
(* is pinned to a busy slot may wait, alone, while another slot is free.     *)
LineBounded ==
  Len(queue) > max_queue =>
    max_queue = 0 /\ Len(queue) = 1 /\ slot[queue[1]] # NoSlot

(* What /health reports adds up: an admitted request is active until it is   *)
(* counted as completed, and never both.                                     *)
CountersAgree == admitted = completed + active

Promise == INSTANCE Admission WITH
  MaxLine <- Longest, line <- queue, open <- ~closed,
  serving <- {<<t, slot[t]>> : t \in Served}

(* The scheduler keeps the promise of its doc string: first come first       *)
(* served, one slot for one request, nobody served after close.              *)
ActsAsAdmission == Promise!Spec

(* Every request that waits is answered, one way or another, although only   *)
(* the head of the line may go and it may want a slot that is busy.          *)
WaitEnds == \A t \in Requests : at[t] = "waiting" ~> at[t] # "waiting"
=============================================================================
