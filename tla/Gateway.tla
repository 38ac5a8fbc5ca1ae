------------------------------ MODULE Gateway -------------------------------
(***************************************************************************)
(* The gateway of openai_server.py around the engine's process: request    *)
(* threads that the scheduler admits (Admission, which GenerationScheduler *)
(* implements) call Engine.generate, which registers an event queue, writes*)
(* SUBMIT to the process and waits for events; the thread "colibri-stdout" *)
(* reads the process's answers and puts them into the queues; the main     *)
(* thread shuts everything down.  A step is one critical section of        *)
(* pending_lock or write_lock, one get or put of an event queue, or one    *)
(* line that the process writes or the dispatcher reads.                   *)
(***************************************************************************)
EXTENDS Naturals, FiniteSets, SequencesExt

CONSTANTS
  Requests,     \* the threads that carry a request
  Slots,        \* the KV contexts
  MaxLine,      \* the longest line at the scheduler
  Quitters,     \* the requests whose client may hang up
  Stallers,     \* the requests whose client may stop reading for good
  Faults,       \* what the process may do, of "garbage" and "exit"
  MaxRequests,  \* bound: how many request ids are given out
  MaxData       \* bound: how many pieces of one answer are on their way at once

Ids    == 1 .. MaxRequests

(* The events of a queue.  DONE is any line of the process that ends the     *)
(* request, DONE or ERROR: the dispatcher and generate treat both alike up   *)
(* to what is raised.  ERROR is what _fail_pending puts.                     *)
Ends   == {"DONE", "ERROR"}
Kinds  == {"DATA"} \cup Ends
Lines  == [kind : Kinds, id : Ids]
Nobody == [kind |-> "none", id |-> 0]      \* the dispatcher holds no event
Closers == {"dispatcher", "main"}          \* who calls _fail_pending

ASSUME GatewayAssumption ==
  /\ MaxRequests \in Nat /\ MaxData \in Nat /\ MaxLine \in Nat
  /\ Faults \subseteq {"garbage", "exit"}
  /\ IsFiniteSet(Requests) /\ Quitters \cup Stallers \subseteq Requests

VARIABLES
  line, serving, open,     \* the scheduler, as Admission describes it
  pc,                      \* per thread, where in generate it is
  id,                      \* per thread, its request_id inside generate, else 0
  cancel_sent,             \* the threads that asked to cancel
  next_request_id,
  pending,                 \* the request ids whose queues the dispatcher knows
  events,                  \* the event queue of each request id, empty once
                           \* generate has let go of it
  closed,                  \* Engine.close was called
  dispatcher_error,        \* the dispatcher gave up
  dispatcher, main,        \* where these two threads are
  carry,                   \* the event the dispatcher is about to put
  batch,                   \* whose queues _fail_pending is about to put into
  alive,                   \* the process runs
  work,                    \* the process: its requests and their KV contexts
  stdout                   \* the lines nobody has read yet

scheduler == <<line, serving, open>>
threads   == <<pc, id, cancel_sent, next_request_id>>
reader    == <<dispatcher, carry, dispatcher_error>>
process   == <<alive, work, stdout>>
vars == <<scheduler, threads, pending, events, closed, reader, main, batch, process>>

Scheduler == INSTANCE Admission

Init ==
  /\ Scheduler!Init
  /\ pc = [t \in Requests |-> "out"] /\ id = [t \in Requests |-> 0]
  /\ cancel_sent = {} /\ next_request_id = 1
  /\ pending = {} /\ events = [i \in Ids |-> <<>>]
  /\ closed = FALSE /\ dispatcher_error = FALSE
  /\ dispatcher = "read" /\ carry = Nobody /\ main = "serving"
  /\ batch = [c \in Closers |-> {}]
  /\ alive = TRUE /\ work = {} /\ stdout = <<>>

-----------------------------------------------------------------------------
(* APIHandler.generation: the scheduler's context around generate.           *)

Coming == next_request_id + Len(line) + Cardinality({t \in Requests : pc[t] = "start"})

Begin(t) ==
  /\ pc' = [pc EXCEPT ![t] = "start"]
  /\ UNCHANGED <<id, cancel_sent, next_request_id>>

Wait(t) ==
  /\ Coming <= MaxRequests
  /\ \/ Scheduler!Join(t) /\ UNCHANGED threads
     \/ Scheduler!JoinServed(t) /\ Begin(t)
  /\ UNCHANGED <<pending, events, closed, reader, main, batch, process>>

Admitted(t) ==
  /\ Scheduler!Serve(t) /\ Begin(t)
  /\ UNCHANGED <<pending, events, closed, reader, main, batch, process>>

LeaveLine(t) ==
  /\ Scheduler!Leave(t)
  /\ UNCHANGED <<threads, pending, events, closed, reader, main, batch, process>>

(* The slot goes back however generate ended.                                *)
Release(t) ==
  /\ pc[t] = "over"
  /\ Scheduler!Return(t)
  /\ pc' = [pc EXCEPT ![t] = "out"]
  /\ UNCHANGED <<id, cancel_sent, next_request_id, pending, events, closed, reader,
                 main, batch, process>>

-----------------------------------------------------------------------------
(* Engine.generate.                                                          *)

SlotOf(t) == CHOOSE s \in Slots : <<t, s>> \in serving

Goto(t, place) ==
  /\ pc' = [pc EXCEPT ![t] = place]
  /\ UNCHANGED <<id, cancel_sent, next_request_id>>

(* generate returns or raises, and its event queue goes with it.             *)
LeaveGenerate(t) ==
  /\ pc' = [pc EXCEPT ![t] = "over"]
  /\ id' = [id EXCEPT ![t] = 0] /\ cancel_sent' = cancel_sent \ {t}
  /\ events' = [events EXCEPT ![id[t]] = <<>>]
  /\ UNCHANGED next_request_id

(* An event put into a queue that nobody holds any more is lost with it.     *)
Put(i, kind) ==
  events' = IF \E t \in Requests : id[t] = i
            THEN [events EXCEPT ![i] = Append(@, kind)] ELSE events

(* Mutant: it is not asked whether the dispatcher still runs. *)
RefusedUnlessDead == closed \/ ~alive

Refused == closed \/ dispatcher_error \/ ~alive

Register(t) ==
  /\ pc[t] = "start"
  /\ \/ Refused /\ Goto(t, "over") /\ UNCHANGED pending
     \/ /\ ~Refused /\ next_request_id \in Ids
        /\ id' = [id EXCEPT ![t] = next_request_id]
        /\ pending' = pending \cup {next_request_id}
        /\ next_request_id' = next_request_id + 1
        /\ pc' = [pc EXCEPT ![t] = "submit"] /\ UNCHANGED cancel_sent
  /\ UNCHANGED <<scheduler, events, closed, reader, main, batch, process>>

(* Writing to a process that is gone raises, here and in WriteCancel.        *)
Submit(t) ==
  /\ pc[t] = "submit"
  /\ IF alive THEN Goto(t, "wait") /\ work' = work \cup {<<id[t], SlotOf(t)>>}
              ELSE Goto(t, "undo") /\ UNCHANGED work
  /\ UNCHANGED <<scheduler, pending, events, closed, reader, main, batch, alive,
                 stdout>>

Undo(t) ==
  /\ pc[t] = "undo"
  /\ pending' = pending \ {id[t]}
  /\ LeaveGenerate(t)
  /\ UNCHANGED <<scheduler, closed, reader, main, batch, process>>

(* The next event.  The one that ends the request makes generate return, or  *)
(* raise: ClientCancelled if it is the ERROR that answers CANCEL, the error  *)
(* it brings otherwise.  What is still written to the client then is written *)
(* by the handler before Release.                                            *)
GetEnd(t) ==
  /\ pc[t] = "wait" /\ events[id[t]] # <<>> /\ Head(events[id[t]]) \in Ends
  /\ LeaveGenerate(t)
  /\ UNCHANGED <<scheduler, pending, closed, reader, main, batch, process>>

(* After a piece of text it is seen whether the client is still there, and   *)
(* not looked for again once CANCEL has been sent.                           *)
WroteText(t) ==
  \/ Goto(t, "wait")
  \/ /\ t \in Quitters \ cancel_sent /\ cancel_sent' = cancel_sent \cup {t}
     /\ pc' = [pc EXCEPT ![t] = "cancel"] /\ UNCHANGED <<id, next_request_id>>

(* on_text writes the text to a socket without a time-out: if the client has *)
(* stopped reading, the thread stays in the write.  Nothing is written to a  *)
(* client that has gone.                                                     *)
GetData(t) ==
  /\ pc[t] = "wait" /\ events[id[t]] # <<>> /\ Head(events[id[t]]) = "DATA"
  /\ events' = [events EXCEPT ![id[t]] = Tail(@)]
  /\ \/ WroteText(t)
     \/ t \in Stallers \ cancel_sent /\ Goto(t, "text")
  /\ UNCHANGED <<scheduler, pending, closed, reader, main, batch, process>>

(* The client reads again, or has gone and the write fails.                  *)
EndWrite(t) ==
  /\ pc[t] = "text" /\ WroteText(t)
  /\ UNCHANGED <<scheduler, pending, events, closed, reader, main, batch, process>>

(* Mutant: generate raises ClientCancelled as soon as it has sent CANCEL. *)
WriteCancelLeaving(t) ==
  /\ pc[t] = "cancel"
  /\ LeaveGenerate(t)
  /\ UNCHANGED <<scheduler, pending, closed, reader, main, batch, process>>

(* The process may end the request sooner for it, or have ended it already.  *)
(* If the write raises, pending keeps the request.                           *)
WriteCancel(t) ==
  /\ pc[t] = "cancel"
  /\ IF alive THEN Goto(t, "wait") /\ UNCHANGED events ELSE LeaveGenerate(t)
  /\ UNCHANGED <<scheduler, pending, closed, reader, main, batch, process>>

-----------------------------------------------------------------------------
(* Engine._dispatch_stdout, and the _fail_pending it shares with close.      *)

(* Mutant: DONE looks the queue up and does not take it out of pending. *)
ReadAnswerKeeping ==
  /\ dispatcher = "read" /\ stdout # <<>>
  /\ LET m == Head(stdout) IN
       IF m.id \in pending THEN carry' = m /\ dispatcher' = "put"
                           ELSE UNCHANGED <<carry, dispatcher>>
  /\ stdout' = Tail(stdout)
  /\ UNCHANGED <<scheduler, threads, pending, events, closed, dispatcher_error,
                 main, batch, alive, work>>

(* A line of a request: its queue is looked up under pending_lock, and taken *)
(* out of pending when the line ends the request.                            *)
ReadAnswer ==
  /\ dispatcher = "read" /\ stdout # <<>> 
  /\ LET m == Head(stdout) IN
       /\ IF m.id \in pending THEN carry' = m /\ dispatcher' = "put"
                              ELSE UNCHANGED <<carry, dispatcher>>
       /\ pending' = IF m.kind \in Ends THEN pending \ {m.id} ELSE pending
  /\ stdout' = Tail(stdout)
  /\ UNCHANGED <<scheduler, threads, events, closed, dispatcher_error, main,
                 batch, alive, work>>

(* Mutant: the event is put again and again. *)
PutAnswerAgain ==
  /\ dispatcher = "put"
  /\ Put(carry.id, carry.kind)
  /\ carry' = Nobody
  /\ UNCHANGED <<scheduler, threads, pending, closed, dispatcher, dispatcher_error,
                 main, batch, process>>

PutAnswer ==
  /\ dispatcher = "put"
  /\ Put(carry.id, carry.kind)
  /\ carry' = Nobody /\ dispatcher' = "read"
  /\ UNCHANGED <<scheduler, threads, pending, closed, dispatcher_error, main,
                 batch, process>>

(* A line it cannot read is the last it reads: what stands behind that line  *)
(* is dropped here.  So is the end of the stream.  After close the           *)
(* dispatcher stops without a word.                                          *)
ReadFails ==
  /\ dispatcher = "read" /\ stdout' = <<>>
  /\ dispatcher' = IF closed THEN "stopped" ELSE "failed"
  /\ UNCHANGED <<scheduler, threads, pending, events, closed, carry,
                 dispatcher_error, main, batch, alive, work>>

ReadGarbage == "garbage" \in Faults /\ ReadFails
EndOfStream == stdout = <<>> /\ ~alive /\ ReadFails


DispatcherError ==
  /\ dispatcher = "failed"
  /\ dispatcher_error' = TRUE /\ dispatcher' = "clear"
  /\ UNCHANGED <<scheduler, threads, pending, events, closed, carry, main, batch,
                 process>>

(* Mutant: pending is copied and not cleared. *)
ClearPendingKeeping(c) ==
  /\ batch' = [batch EXCEPT ![c] = pending]
  /\ UNCHANGED <<scheduler, threads, pending, events, closed, carry,
                 dispatcher_error, process>>

ClearPending(c) ==
  /\ batch' = [batch EXCEPT ![c] = pending]
  /\ pending' = {}
  /\ UNCHANGED <<scheduler, threads, events, closed, carry, dispatcher_error,
                 process>>

PutError(c) ==
  /\ \E i \in batch[c] :
       /\ Put(i, "ERROR")
       /\ batch' = [batch EXCEPT ![c] = @ \ {i}]
  /\ UNCHANGED <<scheduler, threads, pending, closed, reader, main, process>>

FailPending ==
  \/ dispatcher = "clear" /\ ClearPending("dispatcher")
       /\ dispatcher' = "stopped" /\ UNCHANGED main
  \/ main = "clear" /\ ClearPending("main") /\ main' = "kill" /\ UNCHANGED dispatcher
  \/ \E c \in Closers : PutError(c)

-----------------------------------------------------------------------------
(* serve, once the server has been told to stop: scheduler.close, then       *)
(* Engine.close, which ends the process by force if it has to.               *)
Shutdown ==
  /\ main = "serving" /\ main' = "close"
  /\ Scheduler!Close
  /\ UNCHANGED <<threads, pending, events, closed, reader, batch, process>>

CloseEngine ==
  /\ main = "close" /\ main' = "clear"
  /\ closed' = TRUE
  /\ UNCHANGED <<scheduler, threads, pending, events, reader, batch, process>>

Terminate ==
  /\ main = "kill" /\ batch["main"] = {} /\ main' = "done"
  /\ alive' = FALSE /\ work' = {}
  /\ UNCHANGED <<scheduler, threads, pending, events, closed, reader, batch,
                 stdout>>

-----------------------------------------------------------------------------
(* The engine's process.                                                     *)

Says(kind, i) == stdout' = Append(stdout, [kind |-> kind, id |-> i])

OnTheWay(i) ==
  Cardinality({k \in 1 .. Len(stdout) : stdout[k] = [kind |-> "DATA", id |-> i]})
    + Len(events[i])

(* What it writes once the dispatcher has given up is left out: nobody reads *)
(* it, and the pipe fills.                                                   *)
Writes ==
  /\ alive /\ dispatcher \in {"read", "put"}
  /\ UNCHANGED <<scheduler, threads, pending, events, closed, reader, main, batch,
                 alive>>

SayData(i) ==
  /\ Writes /\ OnTheWay(i) < MaxData
  /\ \E w \in work : w[1] = i
  /\ Says("DATA", i)
  /\ UNCHANGED work

SayEnd(i) ==
  /\ Writes
  /\ \E w \in work : w[1] = i /\ work' = work \ {w}
  /\ Says("DONE", i)

Exit ==
  /\ "exit" \in Faults /\ alive /\ alive' = FALSE
  /\ work' = {}
  /\ UNCHANGED <<scheduler, threads, pending, events, closed, reader, main, batch,
                 stdout>>

-----------------------------------------------------------------------------
Arriving(t) == Wait(t) \/ Admitted(t) \/ LeaveLine(t)

Generating(t) ==
  \/ Register(t) \/ Submit(t) \/ Undo(t) \/ GetEnd(t) \/ GetData(t)
  \/ EndWrite(t) \/ WriteCancel(t) \/ Release(t)

Reading == ReadAnswer \/ PutAnswer \/ EndOfStream \/ DispatcherError

Closing == Shutdown \/ CloseEngine \/ Terminate

Process == Exit \/ \E i \in Ids : SayData(i) \/ SayEnd(i)

Next ==
  \/ \E t \in Requests : Arriving(t) \/ Generating(t)
  \/ Reading \/ ReadGarbage \/ FailPending \/ Closing \/ Process

Spec == Init /\ [][Next]_vars

(* A write may take for ever.  One to a client waits for it to read: the     *)
(* headers before Register, a piece of text, the end of the answer before    *)
(* Release.  One to the process waits for it to read its commands, which it  *)
(* does while its own lines are read: once the dispatcher has given up, its  *)
(* pipes fill in both directions, and the writer keeps write_lock.           *)
AtClient(t)  == t \in Stallers /\ pc[t] \in {"start", "text", "over"}
AtProcess(t) == pc[t] \in {"submit", "cancel"} /\ alive /\ dispatcher \notin {"read", "put"}
Stuck(t)     == AtClient(t) \/ AtProcess(t)

(* A thread goes on unless it is in such a write.  The process ends each     *)
(* request it accepted, for max_tokens bounds the answer, or it dies; nothing*)
(* makes it write anything else, and nothing makes a client come, hang up,   *)
(* read again or the server stop.                                            *)
FairSpec ==
  /\ Spec
  /\ \A t \in Requests : WF_vars(~Stuck(t) /\ Generating(t))
  /\ WF_vars(Reading) /\ WF_vars(FailPending)
  /\ \A i \in Ids : WF_vars(SayEnd(i) \/ Exit)

-----------------------------------------------------------------------------
(* Properties.                                                               *)

Places == {"out", "start", "submit", "undo", "wait", "text", "cancel", "over"}

(* Every variable keeps its type; the dispatcher holds an event exactly when *)
(* it is about to put one.                                                   *)
TypeOK ==
  /\ pc \in [Requests -> Places] /\ id \in [Requests -> Ids \cup {0}]
  /\ cancel_sent \subseteq Requests /\ next_request_id \in 1 .. MaxRequests + 1
  /\ pending \subseteq Ids /\ events \in [Ids -> Seq(Kinds)]
  /\ closed \in BOOLEAN /\ dispatcher_error \in BOOLEAN
  /\ dispatcher \in {"read", "put", "failed", "clear", "stopped"}
  /\ main \in {"serving", "close", "clear", "kill", "done"}
  /\ carry \in Lines \cup {Nobody}
  /\ carry # Nobody <=> dispatcher = "put"
  /\ batch \in [Closers -> SUBSET Ids]
  /\ alive \in BOOLEAN /\ work \subseteq Ids \X Slots
  /\ stdout \in Seq(Lines)

(* A KV context never serves two requests at once: a thread keeps its slot   *)
(* until the process is done with its request, also when the client has gone *)
(* or the dispatcher has given up while the process works on.                *)
ContextsApart == \A v, w \in work : v[2] = w[2] => v = w

(* Where the end of a request may be: in its queue, or about to be put.      *)
EndQueued(i)  == \E k \in 1 .. Len(events[i]) : events[i][k] \in Ends
EndCarried(i) == carry.kind \in Ends /\ carry.id = i
EndAhead(i)   == EndQueued(i) \/ EndCarried(i) \/ \E c \in Closers : i \in batch[c]

AnswerComing(i) ==
  \/ \E w \in work : w[1] = i
  \/ \E k \in 1 .. Len(stdout) : stdout[k].id = i /\ stdout[k].kind \in Ends
  \/ ~alive

(* Nobody waits for an event that nobody is going to put: the end of the     *)
(* request is in its queue or in someone's hands, or the request is pending  *)
(* and the dispatcher will read its end, or it or main will fail it.         *)
NobodyForgotten ==
  \A t \in Requests : pc[t] \in {"wait", "text", "cancel"} =>
    \/ EndAhead(id[t])
    \/ /\ id[t] \in pending
       /\ \/ dispatcher \in {"read", "put"} /\ AnswerComing(id[t])
          \/ dispatcher \in {"failed", "clear"} \/ main = "clear"

(* A request is ended once: of the answer that is read and the errors that   *)
(* close and the dispatcher put, whichever takes it out of pending is the    *)
(* only one that ends it.                                                    *)
EndsOnce ==
  \A i \in Ids :
    /\ i \in pending => ~EndAhead(i)
    /\ \A j, k \in 1 .. Len(events[i]) :
         events[i][j] \in Ends /\ events[i][k] \in Ends => j = k
    /\ EndQueued(i) => ~EndCarried(i) /\ \A c \in Closers : i \notin batch[c]
    /\ EndCarried(i) => \A c \in Closers : i \notin batch[c]
    /\ \A c, d \in Closers : i \in batch[c] \cap batch[d] => c = d

(* While the process lives no queue stays registered without its thread.     *)
NoLeak ==
  alive => \A i \in pending : \E t \in Requests : id[t] = i

=============================================================================
