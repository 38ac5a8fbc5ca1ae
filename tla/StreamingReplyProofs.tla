------------------------ MODULE StreamingReplyProofs ------------------------
(***************************************************************************)
(* Proofs about StreamingReply, for any number of requests on a connection:*)
(* ka_lock does keep event() of the handler and the pump of the same       *)
(* request apart, and all writes are apart as long as generate does not    *)
(* raise and the pump is dead after the join.                              *)
(***************************************************************************)
EXTENDS StreamingReply, TLAPS

(* The constants as the code has them: a connection carries a request.       *)
SomeRequest == LastRequest \in Nat \ {0}

Places == {"headers", "in headers", "generate", "in event", "join", "final", "in final",
           "done", "in done", "error", "in error", "next", "closed"}
InWrite == {"in headers", "in event", "in final", "in done", "in error"}

Types ==
  /\ request \in Requests /\ handler \in Places
  /\ pump \in [Requests -> {"none", "wait", "ping", "in event", "ended"}]
  /\ ka_lock \in [Requests -> {"nobody", "handler", "pump"}]

(* The lock of a request is held exactly around its events and its pings.    *)
InEvent == handler \in {"in event", "in final"}
LockKept ==
  \A r \in Requests :
    /\ ka_lock[r] = "pump" <=> pump[r] = "in event"
    /\ ka_lock[r] = "handler" <=> r = request /\ InEvent

(* A pump starts after the headers of its own request.                       *)
NotStarted ==
  \A r \in Requests :
    r > request \/ (r = request /\ handler \in {"headers", "in headers"}) => pump[r] = "none"

(* Who writes is who is in a place that writes.                              *)
WritersKnown ==
  /\ 0 \in writing <=> handler \in InWrite
  /\ \A r \in Requests : r \in writing <=> pump[r] = "in event"
  /\ writing \subseteq Writers

PumpInv == Types /\ LockKept /\ NotStarted /\ WritersKnown

(* The requests are numbered from one; the handler is writer 0.              *)
LEMMA RequestsAre ==
  ASSUME SomeRequest
  PROVE  /\ 0 \notin Requests /\ 1 \in Requests /\ Requests \subseteq Nat
         /\ \A r \in Requests : r = 1 \/ r > 1
  BY DEF SomeRequest, Requests

(* The invariant holds when the connection is taken.                         *)
LEMMA InitPump == ASSUME SomeRequest, Init PROVE PumpInv
<1>1. Types
  BY RequestsAre DEF Init, Types, Places
<1>2. LockKept /\ NotStarted
  BY DEF Init, LockKept, NotStarted, InEvent
<1>3. 0 \notin Requests
  BY RequestsAre
<1> QED
  BY <1>1, <1>2, <1>3 DEF Init, WritersKnown, InWrite, PumpInv

(* A step of the handler keeps it.                                          *)
LEMMA HandlerKeeps ==
  ASSUME SomeRequest, PumpInv, Handler
  PROVE  PumpInv'
<1>0. 0 \notin Requests /\ request \in Requests /\ Requests \subseteq Nat
  BY RequestsAre DEF PumpInv, Types
<1> USE <1>0 DEF PumpInv, Go, PumpGo, InEvent, InWrite, Places
<1>1. CASE BareWrite("headers", "in headers") \/ BareWrite("error", "in error")
  BY <1>1 DEF BareWrite, Types, LockKept, NotStarted, WritersKnown, Writers
<1>2. CASE EndHeaders
  <2>1. Types'
    BY <1>2 DEF EndHeaders, Types
  <2>2. NotStarted'
    <3>1. \A r \in Requests : r > request => r # request
      OBVIOUS
    <3>2. /\ handler' = "generate" /\ request' = request
          /\ \A r \in Requests \ {request} : pump'[r] = pump[r]
      BY <1>2 DEF EndHeaders, Types
    <3> QED
      BY <3>1, <3>2 DEF NotStarted
  <2>3. pump[request] = "none"
    BY <1>2 DEF EndHeaders, NotStarted
  <2>4. LockKept'
    BY <1>2, <2>3 DEF EndHeaders, LockKept, Types
  <2>5. WritersKnown'
    BY <1>2, <2>3 DEF EndHeaders, WritersKnown, Types
  <2> QED
    BY <2>1, <2>2, <2>4, <2>5
<1>3. CASE EventLock
  BY <1>3 DEF EventLock, Types, LockKept, NotStarted, WritersKnown, Writers
<1>4. CASE EventDone
  BY <1>4 DEF EventDone, Types, LockKept, NotStarted, WritersKnown
<1>5. CASE Returns \/ Join \/ Raises
  BY <1>5 DEF Returns, Join, Raises, Types, LockKept, NotStarted, WritersKnown
<1>6. CASE SayDone
  BY <1>6 DEF SayDone, BareWrite, Types, LockKept, NotStarted, WritersKnown, Writers
<1>7. CASE EndDone \/ EndError
  BY <1>7 DEF EndDone, EndError, Types, LockKept, NotStarted, WritersKnown
<1>8. CASE NextRequest
  <2>1. Types' /\ LockKept' /\ WritersKnown'
    BY <1>8 DEF NextRequest, Types, LockKept, WritersKnown
  <2>2. NotStarted'
    BY <1>8 DEF NextRequest, NotStarted
  <2> QED
    BY <2>1, <2>2
<1> QED
  BY <1>1, <1>2, <1>3, <1>4, <1>5, <1>6, <1>7, <1>8 DEF Handler

(* So does a step of a pump, the one of an earlier request included.         *)
LEMMA PumpKeeps ==
  ASSUME SomeRequest, PumpInv, NEW r \in Requests, Pump(r)
  PROVE  PumpInv'
<1>0. 0 \notin Requests /\ request \in Requests /\ Requests \subseteq Nat
  BY RequestsAre DEF PumpInv, Types
<1> USE <1>0 DEF PumpInv, PumpGo, InEvent, InWrite
<1>1. CASE PumpWakes(r) \/ PumpQuiet(r)
  BY <1>1 DEF PumpWakes, PumpQuiet, Types, LockKept, NotStarted, WritersKnown
<1>2. CASE PumpLock(r)
  BY <1>2 DEF PumpLock, Types, LockKept, NotStarted, WritersKnown, Writers
<1>3. CASE PumpDone(r)
  BY <1>3 DEF PumpDone, Types, LockKept, NotStarted, WritersKnown
<1> QED
  BY <1>1, <1>2, <1>3 DEF Pump

(* It holds of any connection.                                               *)
LEMMA PumpInvariant == ASSUME SomeRequest PROVE Spec => []PumpInv
<1>1. PumpInv /\ [Next]_vars => PumpInv'
  <2>1. ASSUME PumpInv, UNCHANGED vars PROVE PumpInv'
    BY <2>1 DEF vars, PumpInv, Types, LockKept, InEvent, NotStarted, WritersKnown
  <2> QED
    BY <2>1, HandlerKeeps, PumpKeeps DEF Next
<1> QED
  BY InitPump, <1>1, PTL DEF Spec

(* What ka_lock does keep: the handler is never inside an event while the    *)
(* pump of the same request is inside a ping, whatever raises or times out.  *)
EventsApart == ~(InEvent /\ pump[request] = "in event")

THEOREM EventsStayApart == ASSUME SomeRequest PROVE Spec => []EventsApart
<1>1. PumpInv => EventsApart
  BY DEF PumpInv, LockKept, EventsApart, Types
<1> QED
  BY <1>1, PumpInvariant, PTL

(* When generate does not raise, the connection carries no request after     *)
(* this one; and a join that waits leaves no pump behind.                    *)
FirstOnly ==
  /\ request = 1 /\ handler \notin {"error", "in error", "next"}
  /\ handler \in {"final", "in final", "done", "in done"} => pump[1] = "ended"

(* A step leaves the handler at its first request.                           *)
LEMMA FirstPreserved ==
  ASSUME SomeRequest, ~EngineFails, ~JoinTimesOut, PumpInv, FirstOnly, [Next]_vars
  PROVE  FirstOnly'
<1>0. /\ request = 1 /\ 1 \in Requests
      /\ pump \in [Requests -> {"none", "wait", "ping", "in event", "ended"}]
  BY RequestsAre DEF PumpInv, Types, FirstOnly
<1> USE <1>0 DEF FirstOnly, Go, PumpGo
<1>1. CASE Handler
  BY <1>1 DEF Handler, BareWrite, EndHeaders, EventLock, EventDone, Returns, Join, SayDone,
              EndDone, Raises, EndError, NextRequest
<1>2. ASSUME NEW r \in Requests, Pump(r) PROVE FirstOnly'
  BY <1>2 DEF Pump, PumpWakes, PumpQuiet, PumpLock, PumpDone
<1>3. CASE UNCHANGED vars
  BY <1>3 DEF vars
<1> QED
  BY <1>1, <1>2, <1>3 DEF Next

(* Two threads are never inside wfile.write at once, when generate does not  *)
(* raise and the join waits for the pump: what the run stream_pump refutes   *)
(* needs an error of the engine.                                             *)
THEOREM WritesApartWithoutErrors ==
  ASSUME SomeRequest, ~EngineFails, ~JoinTimesOut
  PROVE  Spec => []WritesApart
<1>1. Init => FirstOnly
  BY DEF Init, FirstOnly
<1>2. PumpInv /\ FirstOnly /\ [Next]_vars => FirstOnly'
  BY FirstPreserved
<1>3. ASSUME PumpInv, FirstOnly PROVE WritesApart
  <2>1. /\ 1 \in Requests /\ \A r \in Requests : r = 1 \/ r > 1
        /\ request = 1
    BY <1>3, RequestsAre DEF FirstOnly
  <2>2. \A r \in Requests : r > 1 => pump[r] # "in event"
    BY <1>3, <2>1 DEF PumpInv, NotStarted
  <2>3. writing \subseteq {0, 1}
    BY <1>3, <2>1, <2>2 DEF PumpInv, WritersKnown, Writers
  <2>4. ~(0 \in writing /\ 1 \in writing)
    <3> SUFFICES ASSUME handler \in InWrite, pump[1] = "in event" PROVE FALSE
      BY <1>3, <2>1 DEF PumpInv, WritersKnown
    <3> QED
      BY <1>3, <2>1 DEF PumpInv, LockKept, NotStarted, FirstOnly, InEvent, InWrite
  <2> QED
    BY <2>3, <2>4 DEF WritesApart
<1> QED
  BY <1>1, <1>2, <1>3, PumpInvariant, PTL DEF Spec
=============================================================================
