--------------------------- MODULE StreamingReply ---------------------------
(***************************************************************************)
(* A streamed answer of openai_server.py: the handler thread of one        *)
(* connection writes the events of a generation to wfile, and a thread     *)
(* _keepalive, the pump, writes a ping when nothing has been written for a *)
(* while.  Each request has its own ka_lock, ka_stop and pump; the         *)
(* connection, and so wfile, is the same for every request it carries.  A  *)
(* write takes two steps, for the time a thread is inside wfile.write.     *)
(***************************************************************************)
EXTENDS Naturals, FiniteSets

CONSTANTS
  LastRequest,   \* bound: how many requests the connection carries, one at least
  JoinTimesOut,  \* BOOLEAN: ka_thread.join may end after two seconds with
                 \* the pump alive
  EngineFails    \* BOOLEAN: generate may raise, other than because the
                 \* client has gone

Requests == 1 .. LastRequest

VARIABLES
  request,    \* the request the handler is at
  handler,    \* where it is in do_POST and generation
  pump,       \* where the pump of each request is
  ka_lock,    \* who holds the lock of each request: nobody, handler or pump
  ka_stop,    \* the requests whose ka_stop is set
  connected,  \* the requests whose writes have not failed
  writing     \* who is inside wfile.write: the handler 0, or a request's pump

vars == <<request, handler, pump, ka_lock, ka_stop, connected, writing>>

Writers == {0} \cup Requests

Init ==
  /\ request = 1 /\ handler = "headers"
  /\ pump = [r \in Requests |-> "none"]
  /\ ka_lock = [r \in Requests |-> "nobody"]
  /\ ka_stop = {} /\ connected = Requests /\ writing = {}

Go(place) == handler' = place
PumpGo(r, place) == pump' = [pump EXCEPT ![r] = place]

-----------------------------------------------------------------------------
(* The handler writes without ka_lock: the headers before the pump starts,   *)
(* "data: [DONE]" after the last event, and send_json from do_POST.          *)

BareWrite(before, during) ==
  /\ handler = before /\ Go(during)
  /\ writing' = writing \cup {0}
  /\ UNCHANGED <<request, pump, ka_lock, ka_stop, connected>>

EndHeaders ==
  /\ handler = "in headers" /\ Go("generate")
  /\ writing' = writing \ {0}
  /\ PumpGo(request, "wait")
  /\ UNCHANGED <<request, ka_lock, ka_stop, connected>>

(* event() of the handler; a write that fails clears connected.              *)
EventLock ==
  /\ handler \in {"generate", "final"} /\ request \in connected
  /\ ka_lock[request] = "nobody"
  /\ ka_lock' = [ka_lock EXCEPT ![request] = "handler"]
  /\ Go(IF handler = "final" THEN "in final" ELSE "in event")
  /\ writing' = writing \cup {0}
  /\ UNCHANGED <<request, pump, ka_stop, connected>>

EventDone ==
  /\ handler \in {"in event", "in final"}
  /\ ka_lock' = [ka_lock EXCEPT ![request] = "nobody"]
  /\ writing' = writing \ {0}
  /\ \/ UNCHANGED connected
     \/ connected' = connected \ {request}
  /\ Go(IF handler = "in final" THEN "done" ELSE "generate")
  /\ UNCHANGED <<request, pump, ka_stop>>

(* generate returns: the pump is told to stop and joined.                    *)
Returns ==
  /\ handler = "generate"
  /\ ka_stop' = ka_stop \cup {request} /\ Go("join")
  /\ UNCHANGED <<request, pump, ka_lock, connected, writing>>

Join ==
  /\ handler = "join" /\ (pump[request] = "ended" \/ JoinTimesOut)
  /\ Go(IF request \in connected THEN "final" ELSE "closed")
  /\ UNCHANGED <<request, pump, ka_lock, ka_stop, connected, writing>>

SayDone ==
  \/ request \in connected /\ BareWrite("done", "in done")
  \/ /\ request \notin connected /\ handler = "done" /\ Go("closed")
     /\ UNCHANGED <<request, pump, ka_lock, ka_stop, connected, writing>>

(* close_connection is set on this path alone.                               *)
EndDone ==
  /\ handler = "in done" /\ Go("closed")
  /\ writing' = writing \ {0}
  /\ UNCHANGED <<request, pump, ka_lock, ka_stop, connected>>

(* generate raises.  ClientCancelled is passed over in do_POST, and the next *)
(* read finds the connection closed; any other error is answered with        *)
(* send_json.  Nothing sets ka_stop.                                         *)
Raises ==
  /\ handler = "generate"
  /\ \/ request \notin connected /\ Go("closed")
     \/ EngineFails /\ Go("error")
  /\ UNCHANGED <<request, pump, ka_lock, ka_stop, connected, writing>>

EndError ==
  /\ handler = "in error"
  /\ Go(IF request \in connected THEN "next" ELSE "closed")
  /\ writing' = writing \ {0}
  /\ UNCHANGED <<request, pump, ka_lock, ka_stop, connected>>

(* HTTP/1.1: the handler goes on to the next request of the connection.      *)
NextRequest ==
  /\ handler = "next" /\ request + 1 \in Requests
  /\ request' = request + 1 /\ Go("headers")
  /\ UNCHANGED <<pump, ka_lock, ka_stop, connected, writing>>

-----------------------------------------------------------------------------
(* _keepalive.                                                               *)

PumpWakes(r) ==
  /\ pump[r] = "wait"
  /\ PumpGo(r, IF r \in ka_stop \/ r \notin connected THEN "ended" ELSE "ping")
  /\ UNCHANGED <<request, handler, ka_lock, ka_stop, connected, writing>>

(* Something has been written in the last ten seconds.                       *)
PumpQuiet(r) ==
  /\ pump[r] = "ping" /\ PumpGo(r, "wait")
  /\ UNCHANGED <<request, handler, ka_lock, ka_stop, connected, writing>>

PumpLock(r) ==
  /\ pump[r] = "ping" /\ ka_lock[r] = "nobody"
  /\ ka_lock' = [ka_lock EXCEPT ![r] = "pump"]
  /\ PumpGo(r, "in event") /\ writing' = writing \cup {r}
  /\ UNCHANGED <<request, handler, ka_stop, connected>>

PumpDone(r) ==
  /\ pump[r] = "in event" /\ PumpGo(r, "wait")
  /\ ka_lock' = [ka_lock EXCEPT ![r] = "nobody"]
  /\ writing' = writing \ {r}
  /\ \/ UNCHANGED connected
     \/ connected' = connected \ {r}
  /\ UNCHANGED <<request, handler, ka_stop>>

-----------------------------------------------------------------------------
Handler ==
  \/ BareWrite("headers", "in headers") \/ EndHeaders
  \/ EventLock \/ EventDone \/ Returns \/ Join \/ SayDone \/ EndDone
  \/ Raises \/ BareWrite("error", "in error") \/ EndError \/ NextRequest

Pump(r) == PumpWakes(r) \/ PumpQuiet(r) \/ PumpLock(r) \/ PumpDone(r)

Next == Handler \/ \E r \in Requests : Pump(r)

Spec == Init /\ [][Next]_vars

(* "All wfile writes share ka_lock so the pump and event() never interleave" *)
(* (openai_server.py:939): two threads are never inside wfile.write at once. *)
WritesApart == \A a, b \in writing : a = b
=============================================================================
