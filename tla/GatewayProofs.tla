---------------------------- MODULE GatewayProofs ----------------------------
(***************************************************************************)
(* Proofs about Gateway, for any number of requests and KV contexts, any   *)
(* of the faults of the process and any bound.                             *)
(***************************************************************************)
EXTENDS Gateway, LibraryFacts, TLAPS

(* The scheduler: a request is in the line, or has a slot of its own while   *)
(* its thread is between its admission and the return of the slot.           *)
ServingSound ==
  /\ line \in Seq(Requests) /\ serving \subseteq Requests \X Slots
  /\ \A j, k \in 1 .. Len(line) : line[j] = line[k] => j = k
  /\ \A k \in 1 .. Len(line) : pc[line[k]] = "out"
  /\ \A t \in Requests : pc[t] # "out" <=> \E s \in Slots : <<t, s>> \in serving
  /\ \A t, u \in Requests, s \in Slots :
       <<t, s>> \in serving /\ <<u, s>> \in serving => t = u
  /\ \A t \in Requests, r, s \in Slots :
       <<t, r>> \in serving /\ <<t, s>> \in serving => r = s

Inside == {"submit", "undo", "wait", "text", "cancel"}

(* A thread has a request id inside generate, and no other thread has it.    *)
IdsSound ==
  /\ \A t \in Requests : id[t] \in Ids <=> pc[t] \in Inside
  /\ \A t \in Requests : id[t] < next_request_id
  /\ \A t, u \in Requests : id[t] = id[u] /\ id[t] # 0 => t = u

Down == closed \/ dispatcher_error

(* What the process works on belongs to a thread that waits for it, in the   *)
(* slot of that thread; or the thread has been sent away because the gateway *)
(* is down, and then nobody who may still submit has that slot.              *)
WorkSound ==
  /\ \A w \in work : w[1] < next_request_id
  /\ \A w \in work, t \in Requests : id[t] = w[1] =>
       pc[t] \in {"wait", "text", "cancel"} /\ <<t, w[2]>> \in serving
  /\ \A w \in work :
       \/ \E t \in Requests : id[t] = w[1]
       \/ Down /\ \A t \in Requests : pc[t] = "submit" => <<t, w[2]>> \notin serving
  /\ \A v, w \in work : v[1] = w[1] => v = w

Said(i) == \E k \in 1 .. Len(stdout) : stdout[k].id = i /\ stdout[k].kind \in Ends

Quiet(i) ==
  /\ \A w \in work : w[1] # i
  /\ \A t \in Requests : id[t] = i => pc[t] \in {"wait", "text", "cancel"}

(* When the end of a request is on its way the process is done with it.      *)
QuietEnds ==
  \A i \in Ids : Said(i) \/ EndCarried(i) \/ (EndQueued(i) /\ ~Down) => Quiet(i)

(* Ids not yet given out are nowhere.                                        *)
Fresh ==
  /\ \A i \in Ids : Said(i) \/ EndAhead(i) \/ i \in pending => i < next_request_id

(* Where the dispatcher and main are, and what that means.                   *)
Phases ==
  /\ closed <=> main \in {"clear", "kill", "done"}
  /\ main \in {"kill", "done"} => pending = {}
  /\ dispatcher = "clear" => dispatcher_error
  /\ dispatcher = "stopped" => Down /\ (pending = {} \/ main = "clear")
  /\ batch["main"] # {} => main = "kill"
  /\ batch["dispatcher"] # {} => dispatcher = "stopped" /\ dispatcher_error
  /\ ~alive => work = {}

(* A thread about to submit is pending, or has been failed.                  *)
Heard ==
  \A t \in Requests : pc[t] = "submit" => id[t] \in pending \/ EndAhead(id[t])

IInv ==
  /\ TypeOK /\ ServingSound /\ IdsSound /\ WorkSound /\ QuietEnds /\ Fresh
  /\ Phases /\ Heard
  /\ ContextsApart /\ EndsOnce /\ NoLeak /\ NobodyForgotten
-----------------------------------------------------------------------------
(* Queues of events and the lines of the process.                            *)

EndIn(q)  == \E k \in 1 .. Len(q) : q[k] \in Ends
OnceIn(q) == \A j, k \in 1 .. Len(q) : q[j] \in Ends /\ q[k] \in Ends => j = k

(* An event put at the end of a queue. *)
LEMMA QueueAppend ==
  ASSUME NEW q \in Seq(Kinds), NEW kind \in Kinds
  PROVE  /\ Append(q, kind) \in Seq(Kinds)
         /\ EndIn(Append(q, kind)) <=> EndIn(q) \/ kind \in Ends
         /\ OnceIn(q) /\ (kind \in Ends => ~EndIn(q)) => OnceIn(Append(q, kind))
<1>1. /\ Append(q, kind) \in Seq(Kinds) /\ Len(q) \in Nat
      /\ Len(Append(q, kind)) = Len(q) + 1 /\ Append(q, kind)[Len(q) + 1] = kind
      /\ \A k \in 1 .. Len(q) : Append(q, kind)[k] = q[k]
  OBVIOUS
<1>2. 1 .. Len(q) + 1 = (1 .. Len(q)) \cup {Len(q) + 1}
  BY <1>1
<1> QED
  BY <1>1, <1>2 DEF EndIn, OnceIn

(* An event taken from the head of a queue. *)
LEMMA QueueTail ==
  ASSUME NEW q \in Seq(Kinds), q # <<>>
  PROVE  /\ Tail(q) \in Seq(Kinds) /\ Head(q) = q[1]
         /\ EndIn(q) <=> EndIn(Tail(q)) \/ Head(q) \in Ends
         /\ OnceIn(q) => OnceIn(Tail(q))
<1>1. /\ Tail(q) \in Seq(Kinds) /\ Len(q) \in Nat \ {0} /\ Head(q) = q[1]
      /\ Len(Tail(q)) = Len(q) - 1
      /\ \A k \in 1 .. Len(q) - 1 : Tail(q)[k] = q[k + 1]
  OBVIOUS
<1>2. \A k \in 1 .. Len(q) : k = 1 \/ (k - 1 \in 1 .. Len(q) - 1 /\ (k - 1) + 1 = k)
  BY <1>1
<1>3. EndIn(q) <=> EndIn(Tail(q)) \/ Head(q) \in Ends
  <2>1. EndIn(q) => EndIn(Tail(q)) \/ Head(q) \in Ends
    BY <1>1, <1>2 DEF EndIn
  <2>2. EndIn(Tail(q)) => EndIn(q)
    <3>1. \A k \in 1 .. Len(q) - 1 : k + 1 \in 1 .. Len(q)
      BY <1>1
    <3> QED
      BY <1>1, <3>1 DEF EndIn
  <2>3. Head(q) \in Ends => EndIn(q)
    BY <1>1 DEF EndIn
  <2> QED
    BY <2>1, <2>2, <2>3
<1>4. OnceIn(q) => OnceIn(Tail(q))
  BY <1>1 DEF OnceIn
<1> QED
  BY <1>1, <1>3, <1>4

(* The queue of a request that has just begun. *)
LEMMA QueueEmpty == <<>> \in Seq(Kinds) /\ ~EndIn(<<>>) /\ OnceIn(<<>>)
  BY DEF EndIn, OnceIn

SaidIn(q, i) == \E k \in 1 .. Len(q) : q[k].id = i /\ q[k].kind \in Ends

(* A line the process writes. *)
LEMMA LinesAppend ==
  ASSUME NEW q \in Seq(Lines), NEW m \in Lines, NEW i
  PROVE  /\ Append(q, m) \in Seq(Lines)
         /\ SaidIn(Append(q, m), i) <=> SaidIn(q, i) \/ (m.id = i /\ m.kind \in Ends)
<1>1. /\ Append(q, m) \in Seq(Lines) /\ Len(q) \in Nat
      /\ Len(Append(q, m)) = Len(q) + 1 /\ Append(q, m)[Len(q) + 1] = m
      /\ \A k \in 1 .. Len(q) : Append(q, m)[k] = q[k]
  OBVIOUS
<1>2. 1 .. Len(q) + 1 = (1 .. Len(q)) \cup {Len(q) + 1}
  BY <1>1
<1> QED
  BY <1>1, <1>2 DEF SaidIn

(* A line the dispatcher reads. *)
LEMMA LinesTail ==
  ASSUME NEW q \in Seq(Lines), q # <<>>, NEW i
  PROVE  /\ Tail(q) \in Seq(Lines) /\ Head(q) \in Lines
         /\ SaidIn(q, i) <=> SaidIn(Tail(q), i) \/ (Head(q).id = i /\ Head(q).kind \in Ends)
<1>1. /\ Tail(q) \in Seq(Lines) /\ Len(q) \in Nat \ {0} /\ Head(q) = q[1]
      /\ Len(Tail(q)) = Len(q) - 1 /\ Head(q) \in Lines
      /\ \A k \in 1 .. Len(q) - 1 : Tail(q)[k] = q[k + 1]
  OBVIOUS
<1>2. \A k \in 1 .. Len(q) : k = 1 \/ (k - 1 \in 1 .. Len(q) - 1 /\ (k - 1) + 1 = k)
  BY <1>1
<1> QED
  BY <1>1, <1>2 DEF SaidIn

(* Nothing written yet, or all of it dropped. *)
LEMMA LinesEmpty == <<>> \in Seq(Lines) /\ \A i : ~SaidIn(<<>>, i)
  BY DEF SaidIn

(* The parts of the invariant in these terms. *)
LEMMA InTheseTerms ==
  /\ \A i : EndQueued(i) <=> EndIn(events[i])
  /\ \A i : Said(i) <=> SaidIn(stdout, i)
  /\ EndsOnce <=> \A i \in Ids :
       /\ i \in pending => ~EndAhead(i)
       /\ OnceIn(events[i])
       /\ EndIn(events[i]) => ~EndCarried(i) /\ \A c \in Closers : i \notin batch[c]
       /\ EndCarried(i) => \A c \in Closers : i \notin batch[c]
       /\ \A c, d \in Closers : i \in batch[c] \cap batch[d] => c = d
  /\ \A i : AnswerComing(i) <=> (\E w \in work : w[1] = i) \/ Said(i) \/ ~alive
  BY DEF EndQueued, EndIn, Said, SaidIn, EndsOnce, OnceIn, AnswerComing

-----------------------------------------------------------------------------
(* What the helpers of the actions do.                                       *)

(* Goto moves one thread and leaves the request ids alone. *)
LEMMA GotoIs ==
  ASSUME TypeOK, NEW t \in Requests, NEW place \in Places, Goto(t, place)
  PROVE  /\ pc'[t] = place /\ \A u \in Requests \ {t} : pc'[u] = pc[u]
         /\ id' = id /\ next_request_id' = next_request_id
         /\ pc' \in [Requests -> Places] /\ cancel_sent' = cancel_sent
  BY DEF Goto, TypeOK

(* A thread that leaves generate gives up its id and its queue, no others. *)
LEMMA LeaveGenerateIs ==
  ASSUME TypeOK, IdsSound, NEW t \in Requests, pc[t] \in Inside, LeaveGenerate(t)
  PROVE  /\ pc'[t] = "over" /\ id'[t] = 0 /\ next_request_id' = next_request_id
         /\ \A u \in Requests \ {t} : pc'[u] = pc[u] /\ id'[u] = id[u] /\ id[u] # id[t]
         /\ id[t] \in Ids /\ events'[id[t]] = <<>>
         /\ \A i \in Ids \ {id[t]} : events'[i] = events[i]
         /\ pc' \in [Requests -> Places] /\ id' \in [Requests -> Ids \cup {0}]
         /\ cancel_sent' \subseteq Requests /\ events' \in [Ids -> Seq(Kinds)]
<1>1. id[t] \in Ids /\ \A u \in Requests \ {t} : id[u] # id[t]
  BY DEF IdsSound, Ids
<1> QED
  BY <1>1 DEF LeaveGenerate, TypeOK, Places

(* Put adds an event to one queue, and the event arrives if the queue is held. *)
LEMMA PutIs ==
  ASSUME TypeOK, NEW i \in Ids, NEW kind \in Kinds, Put(i, kind)
  PROVE  /\ events' \in [Ids -> Seq(Kinds)]
         /\ \A j \in Ids \ {i} : events'[j] = events[j]
         /\ EndIn(events'[i]) => EndIn(events[i]) \/ kind \in Ends
         /\ EndIn(events[i]) => EndIn(events'[i])
         /\ (\E t \in Requests : id[t] = i) /\ kind \in Ends => EndIn(events'[i])
         /\ OnceIn(events[i]) /\ (kind \in Ends => ~EndIn(events[i])) => OnceIn(events'[i])
<1>1. events[i] \in Seq(Kinds)
  BY DEF TypeOK
<1>2. CASE \E t \in Requests : id[t] = i
  <2>1. events' = [events EXCEPT ![i] = Append(@, kind)]
    BY <1>2 DEF Put
  <2>2. events'[i] = Append(events[i], kind)
    BY <2>1 DEF TypeOK
  <2> QED
    BY <1>1, <2>1, <2>2, QueueAppend DEF TypeOK
<1>3. CASE ~\E t \in Requests : id[t] = i
  BY <1>3 DEF Put, TypeOK
<1> QED
  BY <1>2, <1>3

(* An admitted thread has the slot that the scheduler says it has. *)
LEMMA SlotOfIs ==
  ASSUME ServingSound, NEW t \in Requests, pc[t] # "out"
  PROVE  SlotOf(t) \in Slots /\ <<t, SlotOf(t)>> \in serving
  BY DEF ServingSound, SlotOf

-----------------------------------------------------------------------------
(* What keeps a part of the invariant without touching it.                   *)

(* Threads that move inside generate do not concern the scheduler. *)
LEMMA ServingStays ==
  ASSUME ServingSound, UNCHANGED <<line, serving>>,
         \A t \in Requests : pc'[t] = "out" <=> pc[t] = "out"
  PROVE  ServingSound'
<1>1. line \in Seq(Requests) /\ \A k \in 1 .. Len(line) : line[k] \in Requests
  BY DEF ServingSound
<1> QED
  BY <1>1 DEF ServingSound

(* The ends of requests stay where the queues and their puts stay. *)
LEMMA EndsStay ==
  ASSUME UNCHANGED <<events, carry, batch>>
  PROVE  /\ \A i : EndQueued(i)' <=> EndQueued(i)
         /\ \A i : EndCarried(i)' <=> EndCarried(i)
         /\ \A i : EndAhead(i)' <=> EndAhead(i)
  BY DEF EndAhead, EndQueued, EndCarried

(* What the process has said is what stands in its output. *)
LEMMA LinesStay ==
  ASSUME stdout' = stdout
  PROVE  \A i : Said(i)' <=> Said(i)
  BY DEF Said

(* Fewer pending requests end no request twice. *)
LEMMA EndsOnceStays ==
  ASSUME EndsOnce, UNCHANGED <<events, carry, batch>>, pending' \subseteq pending
  PROVE  EndsOnce'
<1>1. \A i : EndAhead(i)' <=> EndAhead(i)
  BY EndsStay
<1>2. \A i : (EndQueued(i)' <=> EndQueued(i)) /\ (EndCarried(i)' <=> EndCarried(i))
  BY EndsStay
<1> QED
  BY <1>1, <1>2 DEF EndsOnce

-----------------------------------------------------------------------------
(* The scheduler's steps.  A step that leaves everything but the line and    *)
(* the slots alone, apart from main's way to close, keeps the invariant.     *)
LEMMA SchedulerOnly ==
  ASSUME IInv, ServingSound', serving' = serving,
         UNCHANGED <<threads, pending, events, closed, reader, batch, process>>,
         main' = main \/ (main = "serving" /\ main' = "close")
  PROVE  IInv'
<1> USE DEF threads, reader, process
<1>1. TypeOK'
  BY DEF IInv, TypeOK
<1>2. /\ \A i : EndQueued(i)' <=> EndQueued(i)
      /\ \A i : EndCarried(i)' <=> EndCarried(i)
      /\ \A i : EndAhead(i)' <=> EndAhead(i)
      /\ \A i : Said(i)' <=> Said(i)
      /\ \A i : Quiet(i)' <=> Quiet(i)
      /\ \A i : AnswerComing(i)' <=> AnswerComing(i)
      /\ Down' <=> Down
  BY EndsStay, LinesStay DEF Quiet, Down, AnswerComing
<1>3. IdsSound' /\ NoLeak' /\ ContextsApart' /\ Phases'
  BY <1>2 DEF IInv, IdsSound, NoLeak, ContextsApart, Phases
<1>4. WorkSound'
  BY <1>2 DEF IInv, WorkSound
<1>5. QuietEnds' /\ Fresh' /\ Heard'
  BY <1>2 DEF IInv, QuietEnds, Fresh, Heard
<1>6. EndsOnce'
  BY EndsOnceStays DEF IInv
<1>7. NobodyForgotten'
  BY <1>2 DEF IInv, NobodyForgotten
<1> QED
  BY <1>1, <1>3, <1>4, <1>5, <1>6, <1>7 DEF IInv

(* A thread that joins the line is in no slot. *)
LEMMA JoinSound ==
  ASSUME IInv, NEW t \in Requests, Scheduler!Join(t), pc' = pc
  PROVE  ServingSound'
<1> DEFINE q == Append(line, t)
<1>1. pc[t] = "out" /\ \A k \in 1 .. Len(line) : line[k] # t
  <2>1. \A s \in Slots : <<t, s>> \notin serving
    <3>1. ASSUME NEW s \in Slots, <<t, s>> \in serving
          PROVE  FALSE
      <4>1. <<t, s>>[1] = t
        OBVIOUS
      <4>2. t \in Scheduler!Served
        BY <3>1, <4>1 DEF Scheduler!Served
      <4> QED
        BY <4>2 DEF Scheduler!Join, Scheduler!MayJoin
    <3> QED
      BY <3>1
  <2> QED
    BY <2>1 DEF Scheduler!Join, Scheduler!MayJoin, Scheduler!Waiting, IInv, ServingSound
<1>2. /\ q \in Seq(Requests) /\ Len(q) = Len(line) + 1 /\ Len(line) \in Nat
      /\ q[Len(line) + 1] = t /\ \A k \in 1 .. Len(line) : q[k] = line[k]
  BY DEF IInv, ServingSound
<1>3. line' = q /\ serving' = serving
  BY DEF Scheduler!Join
<1> HIDE DEF q
<1>4. \A k \in 1 .. Len(q) : k \in 1 .. Len(line) \/ k = Len(line) + 1
  BY <1>2
<1>5. \A j, k \in 1 .. Len(q) : q[j] = q[k] => j = k
  BY <1>1, <1>2, <1>4 DEF IInv, ServingSound
<1>6. \A k \in 1 .. Len(q) : pc[q[k]] = "out"
  BY <1>1, <1>2, <1>4 DEF IInv, ServingSound
<1> QED
  BY <1>2, <1>3, <1>5, <1>6 DEF IInv, ServingSound

(* A line without one of its threads still has each thread once. *)
LEMMA LeaveSound ==
  ASSUME IInv, NEW t \in Requests, Scheduler!Leave(t), pc' = pc
  PROVE  ServingSound'
<1>1. PICK i \in 1 .. Len(line) : line[i] = t /\ line' = RemoveAt(line, i)
  BY DEF Scheduler!Leave, Scheduler!RemoveAt, RemoveAt
<1>2. /\ line' \in Seq(Requests) /\ Len(line') = Len(line) - 1 /\ Len(line) \in Nat
      /\ \A j \in 1 .. Len(line) - 1 : line'[j] = IF j < i THEN line[j] ELSE line[j + 1]
  <2>1. line \in Seq(Requests) /\ Len(line) \in Nat
    BY DEF IInv, ServingSound
  <2>2. /\ RemoveAt(line, i) \in Seq(Requests) /\ Len(RemoveAt(line, i)) = Len(line) - 1
        /\ \A j \in 1 .. Len(line) - 1 :
             RemoveAt(line, i)[j] = IF j < i THEN line[j] ELSE line[j + 1]
    BY <2>1, RemoveAtIs
  <2> QED
    BY <1>1, <2>1, <2>2
<1>3. \A j \in 1 .. Len(line) - 1 : j + 1 \in 1 .. Len(line) /\ j \in 1 .. Len(line)
  BY <1>2
<1>4. \A j, k \in 1 .. Len(line') : line'[j] = line'[k] => j = k
  <2>1. SUFFICES ASSUME NEW j \in 1 .. Len(line) - 1, NEW k \in 1 .. Len(line) - 1,
                        line'[j] = line'[k]
                 PROVE  j = k
    BY <1>2
  <2>2. \A m, n \in 1 .. Len(line) : line[m] = line[n] => m = n
    BY DEF IInv, ServingSound
  <2>3. CASE j < i /\ k < i
    <3>1. line[j] = line[k]
      BY <1>2, <2>1, <2>3
    <3> QED
      BY <1>3, <2>2, <3>1
  <2>4. CASE j < i /\ ~(k < i)
    <3>1. line[j] = line[k + 1]
      BY <1>2, <2>1, <2>4
    <3> QED
      BY <1>3, <2>2, <2>4, <3>1
  <2>5. CASE ~(j < i) /\ k < i
    <3>1. line[j + 1] = line[k]
      BY <1>2, <2>1, <2>5
    <3> QED
      BY <1>3, <2>2, <2>5, <3>1
  <2>6. CASE ~(j < i) /\ ~(k < i)
    <3>1. line[j + 1] = line[k + 1]
      BY <1>2, <2>1, <2>6
    <3> QED
      BY <1>3, <2>2, <3>1
  <2> QED
    BY <2>3, <2>4, <2>5, <2>6
<1>5. \A k \in 1 .. Len(line') : pc[line'[k]] = "out"
  BY <1>2, <1>3 DEF IInv, ServingSound
<1>6. serving' = serving
  BY DEF Scheduler!Leave
<1> QED
  BY <1>2, <1>4, <1>5, <1>6 DEF IInv, ServingSound

(* A thread gets a slot that nobody has. *)
LEMMA BeginSound ==
  ASSUME IInv, NEW t \in Requests, pc[t] = "out", NEW s \in Slots \ Scheduler!InUse,
         serving' = serving \cup {<<t, s>>}, pc' = [pc EXCEPT ![t] = "start"],
         line' \in Seq(Requests), \A j, k \in 1 .. Len(line') : line'[j] = line'[k] => j = k,
         \A k \in 1 .. Len(line') : line'[k] # t /\ pc[line'[k]] = "out"
  PROVE  ServingSound'
<1>1. \A u \in Requests : <<u, s>> \notin serving
  <2>1. ASSUME NEW u \in Requests, <<u, s>> \in serving
        PROVE  FALSE
    <3>1. <<u, s>>[2] = s
      OBVIOUS
    <3> QED
      BY <2>1, <3>1 DEF Scheduler!InUse
  <2> QED
    BY <2>1
<1>2. \A r \in Slots : <<t, r>> \notin serving
  BY DEF IInv, ServingSound
<1>3. pc'[t] = "start" /\ \A u \in Requests \ {t} : pc'[u] = pc[u]
  BY DEF IInv, TypeOK
<1>4. \A u \in Requests, r \in Slots :
        <<u, r>> \in serving' <=> <<u, r>> \in serving \/ (u = t /\ r = s)
  OBVIOUS
<1>5. \A u \in Requests : pc'[u] # "out" <=> \E r \in Slots : <<u, r>> \in serving'
  BY <1>3, <1>4 DEF IInv, ServingSound
<1>6. \A u, v \in Requests, r \in Slots :
        <<u, r>> \in serving' /\ <<v, r>> \in serving' => u = v
  BY <1>1, <1>4 DEF IInv, ServingSound
<1>7. \A u \in Requests, q, r \in Slots :
        <<u, q>> \in serving' /\ <<u, r>> \in serving' => q = r
  BY <1>2, <1>4 DEF IInv, ServingSound
<1>8. \A k \in 1 .. Len(line') : pc'[line'[k]] = "out"
  BY <1>3
<1>9. serving' \subseteq Requests \X Slots
  BY DEF IInv, ServingSound
<1> QED
  BY <1>5, <1>6, <1>7, <1>8, <1>9 DEF ServingSound

(* A thread comes out of admit with its slot. *)
LEMMA BeginKeeps ==
  ASSUME IInv, NEW t \in Requests, pc[t] = "out", Begin(t), ServingSound',
         NEW s \in Slots, serving' = serving \cup {<<t, s>>},
         UNCHANGED <<pending, events, closed, reader, main, batch, process>>
  PROVE  IInv'
<1> USE DEF reader, process
<1>1. /\ pc'[t] = "start" /\ \A u \in Requests \ {t} : pc'[u] = pc[u]
      /\ id' = id /\ id[t] = 0 /\ next_request_id' = next_request_id
      /\ pc' \in [Requests -> Places]
  BY DEF Begin, IInv, TypeOK, Places, IdsSound, Inside
<1>2. TypeOK'
  BY <1>1 DEF Begin, IInv, TypeOK
<1>3. IdsSound'
  BY <1>1 DEF IInv, IdsSound, Inside, Ids
<1>4. /\ \A i : EndQueued(i)' <=> EndQueued(i)
      /\ \A i : EndCarried(i)' <=> EndCarried(i)
      /\ \A i : EndAhead(i)' <=> EndAhead(i)
      /\ \A i : Said(i)' <=> Said(i)
      /\ \A i : AnswerComing(i)' <=> AnswerComing(i)
      /\ Down' <=> Down
  BY EndsStay, LinesStay DEF Down, AnswerComing
<1>5. \A i \in Ids : Quiet(i) => Quiet(i)'
  BY <1>1 DEF Quiet, Ids
<1>6. WorkSound'
  <2>1. \A w \in work : w[1] \in Ids
    BY DEF IInv, TypeOK
  <2>2. \A u \in Requests \ {t} : \A r : <<u, r>> \in serving' <=> <<u, r>> \in serving
    OBVIOUS
  <2>3. \A w \in work : id[t] # w[1]
    BY <1>1, <2>1 DEF Ids
  <2> QED
    BY <1>1, <1>4, <2>2, <2>3 DEF IInv, WorkSound
<1>7. QuietEnds' /\ Fresh'
  BY <1>1, <1>4, <1>5 DEF IInv, QuietEnds, Fresh
<1>8. Heard' /\ NobodyForgotten'
  BY <1>1, <1>4 DEF IInv, Heard, NobodyForgotten
<1>9. Phases' /\ ContextsApart' /\ NoLeak'
  BY <1>1, <1>4 DEF IInv, Phases, ContextsApart, NoLeak
<1>10. EndsOnce'
  BY EndsOnceStays DEF IInv
<1> QED
  BY <1>2, <1>3, <1>6, <1>7, <1>8, <1>9, <1>10 DEF IInv

(* A thread that is through gives its slot back. *)
LEMMA ReleaseKeeps ==
  ASSUME IInv, NEW t \in Requests, Release(t)
  PROVE  IInv'
<1> USE DEF reader, process
<1>1. /\ pc[t] = "over" /\ pc'[t] = "out" /\ \A u \in Requests \ {t} : pc'[u] = pc[u]
      /\ id' = id /\ id[t] = 0 /\ next_request_id' = next_request_id
      /\ pc' \in [Requests -> Places]
  BY DEF Release, IInv, TypeOK, Places, IdsSound, Inside
<1>2. TypeOK'
  BY <1>1 DEF Release, IInv, TypeOK
<1>3. IdsSound'
  BY <1>1 DEF IInv, IdsSound, Inside, Ids
<1>4. /\ \A i : EndQueued(i)' <=> EndQueued(i)
      /\ \A i : EndCarried(i)' <=> EndCarried(i)
      /\ \A i : EndAhead(i)' <=> EndAhead(i)
      /\ \A i : Said(i)' <=> Said(i)
      /\ \A i : AnswerComing(i)' <=> AnswerComing(i)
      /\ Down' <=> Down
  BY EndsStay, LinesStay DEF Down, AnswerComing, Release
<1>5. \A i \in Ids : Quiet(i) => Quiet(i)'
  BY <1>1 DEF Quiet, Ids, Release
<1>6. PICK s \in Slots : <<t, s>> \in serving /\ serving' = serving \ {<<t, s>>}
  <2>1. PICK p \in serving : p[1] = t /\ serving' = serving \ {p}
    BY DEF Release, Scheduler!Return
  <2>2. p[2] \in Slots /\ p = <<t, p[2]>>
    BY <2>1 DEF IInv, ServingSound
  <2> QED
    BY <2>1, <2>2
<1>7. \A u \in Requests \ {t} : \A r : <<u, r>> \in serving' <=> <<u, r>> \in serving
  BY <1>6
<1>8. ServingSound'
  <2>1. \A r \in Slots : <<t, r>> \notin serving'
    BY <1>6 DEF IInv, ServingSound
  <2>2. line' = line /\ serving' \subseteq serving
    BY <1>6 DEF Release, Scheduler!Return
  <2>3. \A k \in 1 .. Len(line) : line[k] \in Requests
    BY DEF IInv, ServingSound
  <2>4. \A u \in Requests : pc'[u] # "out" <=> \E r \in Slots : <<u, r>> \in serving'
    BY <1>1, <1>7, <2>1 DEF IInv, ServingSound
  <2>5. \A k \in 1 .. Len(line) : pc'[line[k]] = "out"
    BY <1>1, <2>3 DEF IInv, ServingSound
  <2>6. /\ \A u, v \in Requests, r \in Slots :
             <<u, r>> \in serving' /\ <<v, r>> \in serving' => u = v
        /\ \A u \in Requests, q, r \in Slots :
             <<u, q>> \in serving' /\ <<u, r>> \in serving' => q = r
    BY <2>2 DEF IInv, ServingSound
  <2> QED
    BY <2>2, <2>4, <2>5, <2>6 DEF IInv, ServingSound
<1>9. WorkSound'
  <2>1. \A w \in work : w[1] \in Ids
    BY DEF IInv, TypeOK
  <2>2. \A w \in work : id[t] # w[1]
    BY <1>1, <2>1 DEF Ids
  <2>3. work' = work
    BY DEF Release
  <2> QED
    BY <1>1, <1>4, <1>7, <2>2, <2>3 DEF IInv, WorkSound
<1>10. QuietEnds' /\ Fresh'
  BY <1>1, <1>4, <1>5 DEF IInv, QuietEnds, Fresh, Release
<1>11. Heard' /\ NobodyForgotten'
  BY <1>1, <1>4 DEF IInv, Heard, NobodyForgotten, Release
<1>12. Phases' /\ ContextsApart' /\ NoLeak'
  BY <1>1, <1>4 DEF IInv, Phases, ContextsApart, NoLeak, Release
<1>13. EndsOnce'
  BY EndsOnceStays DEF IInv, Release
<1> QED
  BY <1>2, <1>3, <1>8, <1>9, <1>10, <1>11, <1>12, <1>13 DEF IInv

(* The steps of admit. *)
LEMMA ArrivingKeeps ==
  ASSUME IInv, NEW t \in Requests, Arriving(t)
  PROVE  IInv'
<1>1. CASE Wait(t) /\ Scheduler!Join(t) /\ UNCHANGED threads
  BY <1>1, JoinSound, SchedulerOnly DEF Wait, Scheduler!Join, threads
<1>2. CASE LeaveLine(t)
  BY <1>2, LeaveSound, SchedulerOnly DEF LeaveLine, Scheduler!Leave, threads
<1>3. CASE Wait(t) /\ Scheduler!JoinServed(t) /\ Begin(t)
  <2>1. PICK s \in Slots \ Scheduler!InUse : serving' = serving \cup {<<t, s>>}
    BY <1>3 DEF Scheduler!JoinServed
  <2>2. line = <<>> /\ line' = line
    BY <1>3 DEF Scheduler!JoinServed
  <2>3. pc[t] = "out"
    <3>1. ASSUME NEW r \in Slots, <<t, r>> \in serving
          PROVE  FALSE
      <4>1. <<t, r>>[1] = t
        OBVIOUS
      <4>2. t \in Scheduler!Served
        BY <3>1, <4>1 DEF Scheduler!Served
      <4> QED
        BY <1>3, <4>2 DEF Scheduler!JoinServed, Scheduler!MayJoin
    <3> QED
      BY <3>1 DEF IInv, ServingSound
  <2>4. ServingSound'
    <3>1. line' \in Seq(Requests) /\ 1 .. Len(line') = {}
      BY <2>2
    <3>2. pc' = [pc EXCEPT ![t] = "start"]
      BY <1>3 DEF Begin
    <3> QED
      BY <2>1, <2>3, <3>1, <3>2, BeginSound
  <2> QED
    BY <1>3, <2>1, <2>3, <2>4, BeginKeeps DEF Wait
<1>4. CASE Admitted(t)
  <2>1. PICK s \in Slots \ Scheduler!InUse : serving' = serving \cup {<<t, s>>}
    BY <1>4 DEF Admitted, Scheduler!Serve
  <2>2. line # <<>> /\ Head(line) = t /\ line' = Tail(line)
    BY <1>4 DEF Admitted, Scheduler!Serve
  <2>3. /\ line' \in Seq(Requests) /\ Len(line') = Len(line) - 1 /\ line[1] = t
        /\ Len(line) \in Nat \ {0} /\ \A k \in 1 .. Len(line) - 1 : line'[k] = line[k + 1]
    BY <2>2 DEF IInv, ServingSound
  <2>4. \A k \in 1 .. Len(line) - 1 : k + 1 \in 1 .. Len(line) /\ k + 1 # 1
    BY <2>3
  <2>5. pc[t] = "out"
    BY <2>3 DEF IInv, ServingSound
  <2>6. \A j, k \in 1 .. Len(line') : line'[j] = line'[k] => j = k
    BY <2>3, <2>4 DEF IInv, ServingSound
  <2>7. \A k \in 1 .. Len(line') : line'[k] # t /\ pc[line'[k]] = "out"
    BY <2>3, <2>4 DEF IInv, ServingSound
  <2>8. ServingSound'
    BY <1>4, <2>1, <2>3, <2>5, <2>6, <2>7, BeginSound DEF Admitted, Begin
  <2> QED
    BY <1>4, <2>1, <2>5, <2>8, BeginKeeps DEF Admitted
<1> QED
  BY <1>1, <1>2, <1>3, <1>4 DEF Arriving, Wait

-----------------------------------------------------------------------------
(* Engine.generate.  Moves inside it, or past it, that change no set the     *)
(* others look at: a refused registration, a failed write of SUBMIT, a piece *)
(* of text, the write of CANCEL.                                             *)
LEMMA MoveKeeps ==
  ASSUME IInv, NEW t \in Requests, NEW place \in Places, pc' = [pc EXCEPT ![t] = place],
         pc[t] # "out", place \notin {"out", "submit"},
         pc[t] \in Inside <=> place \in Inside,
         pc[t] \in {"wait", "text", "cancel"} <=> place \in {"wait", "text", "cancel"},
         UNCHANGED <<id, next_request_id, scheduler, pending, closed, reader, main, batch,
                     process>>,
         cancel_sent' \subseteq Requests, events' \in [Ids -> Seq(Kinds)],
         \A i \in Ids : (EndIn(events'[i]) <=> EndIn(events[i]))
                        /\ (OnceIn(events[i]) => OnceIn(events'[i]))
  PROVE  IInv'
<1> USE DEF scheduler, reader, process
<1>1. pc'[t] = place /\ \A u \in Requests \ {t} : pc'[u] = pc[u]
  BY DEF IInv, TypeOK
<1>2. TypeOK'
  BY DEF IInv, TypeOK
<1>3. ServingSound'
  BY <1>1, ServingStays DEF IInv
<1>4. IdsSound'
  BY <1>1 DEF IInv, IdsSound
<1>5. /\ \A i \in Ids : EndQueued(i)' <=> EndQueued(i)
      /\ \A i : EndCarried(i)' <=> EndCarried(i)
      /\ \A i : Said(i)' <=> Said(i)
      /\ \A i : AnswerComing(i)' <=> AnswerComing(i)
      /\ Down' <=> Down
  BY LinesStay, InTheseTerms DEF Down, AnswerComing, EndQueued, EndIn, EndCarried
<1>6. \A i \in Ids : EndAhead(i)' <=> EndAhead(i)
  BY <1>5 DEF EndAhead
<1>7. \A i \in Ids : Quiet(i) => Quiet(i)'
  BY <1>1 DEF Quiet
<1>8. WorkSound'
  BY <1>1, <1>5 DEF IInv, WorkSound
<1>9. QuietEnds' /\ Fresh'
  BY <1>5, <1>6, <1>7 DEF IInv, QuietEnds, Fresh
<1>10. \A u \in Requests : pc[u] \in Inside => id[u] \in Ids
  BY DEF IInv, IdsSound
<1>11. Heard' /\ NobodyForgotten'
  BY <1>1, <1>5, <1>6, <1>10 DEF IInv, Heard, NobodyForgotten, Inside
<1>12. Phases' /\ ContextsApart' /\ NoLeak'
  BY <1>5 DEF IInv, Phases, ContextsApart, NoLeak
<1>13. EndsOnce'
  <2>1. \A i \in Ids : OnceIn(events'[i])
    BY InTheseTerms DEF IInv
  <2> QED
    BY <1>5, <1>6, <2>1 DEF IInv, EndsOnce, OnceIn
<1> QED
  BY <1>2, <1>3, <1>4, <1>8, <1>9, <1>11, <1>12, <1>13 DEF IInv

(* generate lets go of its request id and its queue.                         *)
LEMMA LeaveKeeps ==
  ASSUME IInv, NEW t \in Requests, pc[t] \in {"undo", "wait", "cancel"}, LeaveGenerate(t),
         UNCHANGED <<scheduler, closed, reader, main, batch, process>>,
         pending' \subseteq pending, pending \ {id[t]} \subseteq pending',
         alive => id[t] \notin pending',
         \A w \in work : w[1] = id[t] => Down
  PROVE  IInv'
<1> USE DEF scheduler, reader, process
<1>1. /\ pc'[t] = "over" /\ id'[t] = 0 /\ next_request_id' = next_request_id
      /\ \A u \in Requests \ {t} : pc'[u] = pc[u] /\ id'[u] = id[u] /\ id[u] # id[t]
      /\ id[t] \in Ids /\ events'[id[t]] = <<>>
      /\ \A i \in Ids \ {id[t]} : events'[i] = events[i]
      /\ pc' \in [Requests -> Places] /\ id' \in [Requests -> Ids \cup {0}]
      /\ cancel_sent' \subseteq Requests /\ events' \in [Ids -> Seq(Kinds)]
  BY LeaveGenerateIs DEF IInv, Inside
<1>2. TypeOK'
  BY <1>1 DEF IInv, TypeOK
<1>3. ServingSound'
  BY <1>1, ServingStays DEF IInv
<1>4. IdsSound'
  <2>1. 0 \notin Ids /\ 0 < next_request_id /\ pc'[t] \notin Inside
    BY <1>1 DEF IInv, TypeOK, Inside, Ids
  <2>2. \A u \in Requests : id'[u] \in Ids <=> pc'[u] \in Inside
    BY <1>1, <2>1 DEF IInv, IdsSound
  <2>3. \A u \in Requests : id'[u] < next_request_id
    BY <1>1, <2>1 DEF IInv, IdsSound
  <2>4. \A u, v \in Requests : id'[u] = id'[v] /\ id'[u] # 0 => u = v
    BY <1>1 DEF IInv, IdsSound
  <2> QED
    BY <1>1, <2>2, <2>3, <2>4 DEF IdsSound
<1>5. /\ \A i \in Ids : i = id[t] => ~EndQueued(i)'
      /\ \A i \in Ids : i # id[t] => (EndQueued(i)' <=> EndQueued(i))
      /\ \A i : EndCarried(i)' <=> EndCarried(i)
      /\ \A i : Said(i)' <=> Said(i)
      /\ \A i : AnswerComing(i)' <=> AnswerComing(i)
      /\ Down' <=> Down
  <2>1. \A i \in Ids : i = id[t] => ~EndQueued(i)'
    BY <1>1, QueueEmpty DEF EndQueued, EndIn
  <2>2. \A i \in Ids : i # id[t] => (EndQueued(i)' <=> EndQueued(i))
    BY <1>1 DEF EndQueued
  <2>3. \A i : EndCarried(i)' <=> EndCarried(i)
    BY DEF EndCarried
  <2>4. (\A i : AnswerComing(i)' <=> AnswerComing(i)) /\ (Down' <=> Down)
    BY DEF Down, AnswerComing
  <2> QED
    BY <2>1, <2>2, <2>3, <2>4, LinesStay
<1>6. /\ \A i \in Ids : EndAhead(i)' => EndAhead(i)
      /\ \A i \in Ids : i # id[t] => (EndAhead(i)' <=> EndAhead(i))
  BY <1>5 DEF EndAhead
<1>7. \A i \in Ids : Quiet(i) => Quiet(i)'
  BY <1>1 DEF Quiet, Ids
<1>8. WorkSound'
  <2>1. \A w \in work : w[1] \in Ids /\ w[1] # 0
    BY DEF IInv, TypeOK, Ids
  <2>2. ASSUME NEW w \in work, NEW u \in Requests, id'[u] = w[1]
        PROVE  pc'[u] \in {"wait", "text", "cancel"} /\ <<u, w[2]>> \in serving
    BY <1>1, <2>1, <2>2 DEF IInv, WorkSound
  <2>3. ASSUME NEW w \in work
        PROVE  \/ \E u \in Requests : id'[u] = w[1]
               \/ Down /\ \A u \in Requests : pc'[u] = "submit" => <<u, w[2]>> \notin serving
    <3>1. CASE id[t] = w[1]
      <4>1. Down /\ <<t, w[2]>> \in serving /\ w[2] \in Slots
        BY <3>1 DEF IInv, WorkSound, TypeOK
      <4>2. \A u \in Requests \ {t} : <<u, w[2]>> \notin serving
        BY <4>1 DEF IInv, ServingSound
      <4> QED
        BY <1>1, <4>1, <4>2
    <3>2. CASE \E u \in Requests \ {t} : id[u] = w[1]
      BY <1>1, <3>2
    <3>3. CASE Down /\ \A u \in Requests : pc[u] = "submit" => <<u, w[2]>> \notin serving
      BY <1>1, <3>3
    <3> QED
      BY <3>1, <3>2, <3>3 DEF IInv, WorkSound
  <2> QED
    BY <1>1, <1>5, <2>2, <2>3 DEF IInv, WorkSound
<1>9. QuietEnds' /\ Fresh'
  <2>1. QuietEnds'
    BY <1>5, <1>7 DEF IInv, QuietEnds
  <2>2. Fresh'
    BY <1>1, <1>5, <1>6 DEF IInv, Fresh
  <2> QED
    BY <2>1, <2>2
<1>10. \A u \in Requests : pc[u] \in Inside => id[u] \in Ids
  BY DEF IInv, IdsSound
<1>11. Heard' /\ NobodyForgotten'
  BY <1>1, <1>5, <1>6, <1>10 DEF IInv, Heard, NobodyForgotten, Inside
<1>12. Phases' /\ ContextsApart'
  BY <1>5 DEF IInv, Phases, ContextsApart
<1>13. NoLeak'
  BY <1>1 DEF IInv, NoLeak
<1>14. EndsOnce'
  <2>1. \A i \in Ids : OnceIn(events'[i])
    BY <1>1, InTheseTerms, QueueEmpty DEF IInv
  <2> QED
    <3>1. \A i \in Ids : EndQueued(i)' => EndQueued(i)
      BY <1>5
    <3>2. \A i \in Ids :
            /\ i \in pending => ~EndAhead(i)
            /\ EndQueued(i) => ~EndCarried(i) /\ \A c \in Closers : i \notin batch[c]
            /\ EndCarried(i) => \A c \in Closers : i \notin batch[c]
            /\ \A c, d \in Closers : i \in batch[c] \cap batch[d] => c = d
      BY DEF IInv, EndsOnce
    <3> QED
      BY <1>5, <1>6, <2>1, <3>1, <3>2 DEF EndsOnce, OnceIn
<1> QED
  BY <1>2, <1>3, <1>4, <1>8, <1>9, <1>11, <1>12, <1>13, <1>14 DEF IInv

(* A new id is fresh everywhere, and its queue is empty. *)
LEMMA RegisterKeeps ==
  ASSUME IInv, NEW t \in Requests, pc[t] = "start", ~Refused, next_request_id \in Ids,
         id' = [id EXCEPT ![t] = next_request_id],
         pending' = pending \cup {next_request_id}, next_request_id' = next_request_id + 1,
         pc' = [pc EXCEPT ![t] = "submit"], cancel_sent' = cancel_sent,
         UNCHANGED <<scheduler, events, closed, reader, main, batch, process>>
  PROVE  IInv'
<1> USE DEF scheduler, reader, process
<1> DEFINE n == next_request_id
<1>1. /\ pc'[t] = "submit" /\ id'[t] = n /\ id[t] = 0 /\ n \in Nat /\ n # 0
      /\ \A u \in Requests \ {t} : pc'[u] = pc[u] /\ id'[u] = id[u]
      /\ pc' \in [Requests -> Places] /\ id' \in [Requests -> Ids \cup {0}]
  BY DEF IInv, TypeOK, IdsSound, Inside, Ids, Places
<1>2. TypeOK'
  BY <1>1, GatewayAssumption DEF IInv, TypeOK, Ids
<1>3. ServingSound'
  BY <1>1, ServingStays DEF IInv
<1>4. IdsSound'
  BY <1>1 DEF IInv, IdsSound, TypeOK, Inside, Ids
<1>5. /\ \A i : EndQueued(i)' <=> EndQueued(i)
      /\ \A i : EndCarried(i)' <=> EndCarried(i)
      /\ \A i : EndAhead(i)' <=> EndAhead(i)
      /\ \A i : Said(i)' <=> Said(i)
      /\ \A i : AnswerComing(i)' <=> AnswerComing(i)
      /\ (Down' <=> Down) /\ ~Down /\ alive
  BY EndsStay, LinesStay DEF Down, AnswerComing, Refused
<1>6. ~Said(n) /\ ~EndAhead(n) /\ \A w \in work : w[1] # n
  BY <1>1 DEF IInv, Fresh, WorkSound
<1>7. \A i \in Ids \ {n} : Quiet(i) => Quiet(i)'
  BY <1>1 DEF Quiet
<1>8. WorkSound'
  <2>1. \A w \in work : w[1] < n /\ w[1] \in Ids /\ w[1] # 0 /\ w[1] < n + 1
    BY <1>1 DEF IInv, WorkSound, TypeOK, Ids
  <2> QED
    BY <1>1, <1>5, <1>6, <2>1 DEF IInv, WorkSound
<1>9. QuietEnds'
  BY <1>5, <1>6, <1>7 DEF IInv, QuietEnds, EndAhead
<1>10. Fresh'
  BY <1>1, <1>5 DEF IInv, Fresh, Ids
<1>11. Heard' /\ NobodyForgotten'
  BY <1>1, <1>5 DEF IInv, Heard, NobodyForgotten
<1>12. Phases' /\ ContextsApart'
  BY <1>5 DEF IInv, Phases, ContextsApart, Down
<1>13. NoLeak'
  BY <1>1, <1>5 DEF IInv, NoLeak, TypeOK, Ids
<1>14. EndsOnce'
  BY <1>5, <1>6 DEF IInv, EndsOnce
<1> QED
  BY <1>2, <1>3, <1>4, <1>8, <1>9, <1>10, <1>11, <1>12, <1>13, <1>14 DEF IInv

(* The process takes a request in a context that is this thread's alone. *)
LEMMA SubmitKeeps ==
  ASSUME IInv, NEW t \in Requests, pc[t] = "submit", alive, Goto(t, "wait"),
         work' = work \cup {<<id[t], SlotOf(t)>>},
         UNCHANGED <<scheduler, pending, events, closed, reader, main, batch, alive, stdout>>
  PROVE  IInv'
<1> USE DEF scheduler, reader
<1> DEFINE new == <<id[t], SlotOf(t)>>
<1>1. /\ pc'[t] = "wait" /\ \A u \in Requests \ {t} : pc'[u] = pc[u]
      /\ id' = id /\ next_request_id' = next_request_id
      /\ pc' \in [Requests -> Places] /\ cancel_sent' = cancel_sent
  BY GotoIs DEF IInv, Places
<1>2. /\ id[t] \in Ids /\ id[t] < next_request_id /\ id[t] # 0
      /\ SlotOf(t) \in Slots /\ <<t, SlotOf(t)>> \in serving
      /\ new[1] = id[t] /\ new[2] = SlotOf(t)
  BY SlotOfIs DEF IInv, IdsSound, Inside, Ids
<1>3. work' = work \cup {new} /\ new \in Ids \X Slots
  BY <1>2
<1> HIDE DEF new
<1>4. TypeOK'
  BY <1>1, <1>3 DEF IInv, TypeOK
<1>5. ServingSound'
  BY <1>1, ServingStays DEF IInv
<1>6. IdsSound'
  BY <1>1 DEF IInv, IdsSound, Inside
<1>7. /\ \A i : EndQueued(i)' <=> EndQueued(i)
      /\ \A i : EndCarried(i)' <=> EndCarried(i)
      /\ \A i : EndAhead(i)' <=> EndAhead(i)
      /\ \A i : Said(i)' <=> Said(i)
      /\ Down' <=> Down
  BY EndsStay, LinesStay DEF Down
<1>8. \A w \in work : w[1] # id[t]
  BY DEF IInv, WorkSound
<1>9. \A w \in work : w[2] # SlotOf(t)
  <2>1. ASSUME NEW w \in work, w[2] = SlotOf(t)
        PROVE  FALSE
    <3>1. CASE \E u \in Requests : id[u] = w[1]
      <4>1. PICK u \in Requests : id[u] = w[1]
        BY <3>1
      <4>2. pc[u] \in {"wait", "text", "cancel"} /\ <<u, SlotOf(t)>> \in serving
        BY <2>1, <4>1 DEF IInv, WorkSound
      <4>3. u = t
        BY <1>2, <4>2 DEF IInv, ServingSound
      <4> QED
        BY <4>2, <4>3
    <3>2. CASE \A u \in Requests : pc[u] = "submit" => <<u, w[2]>> \notin serving
      BY <1>2, <2>1, <3>2
    <3> QED
      BY <3>1, <3>2 DEF IInv, WorkSound
  <2> QED
    BY <2>1
<1>10. ContextsApart'
  BY <1>2, <1>3, <1>9 DEF IInv, ContextsApart
<1>11. WorkSound'
  <2>1. \A u \in Requests : id[u] = id[t] => u = t
    BY <1>2 DEF IInv, IdsSound
  <2>2. \A w \in work : w[1] < next_request_id
    BY DEF IInv, WorkSound
  <2>3. \A w \in work, u \in Requests : id[u] = w[1] =>
          pc'[u] \in {"wait", "text", "cancel"} /\ <<u, w[2]>> \in serving
    BY <1>1 DEF IInv, WorkSound
  <2>4. \A w \in work :
          \/ \E u \in Requests : id[u] = w[1]
          \/ Down /\ \A u \in Requests : pc'[u] = "submit" => <<u, w[2]>> \notin serving
    BY <1>1 DEF IInv, WorkSound
  <2>5. \A v, w \in work' : v[1] = w[1] => v = w
    BY <1>2, <1>3, <1>8 DEF IInv, WorkSound
  <2> QED
    BY <1>1, <1>2, <1>3, <1>7, <2>1, <2>2, <2>3, <2>4, <2>5 DEF WorkSound
<1>12. QuietEnds'
  <2>1. \A i \in Ids : Quiet(i) => i # id[t]
    BY DEF Quiet
  <2>2. \A i \in Ids : Quiet(i) => Quiet(i)'
    BY <1>1, <1>2, <1>3, <2>1 DEF Quiet
  <2> QED
    BY <1>7, <2>2 DEF IInv, QuietEnds
<1>13. Fresh' /\ Heard'
  BY <1>1, <1>7 DEF IInv, Fresh, Heard
<1>14. Phases' /\ NoLeak'
  BY <1>1, <1>7 DEF IInv, Phases, NoLeak
<1>15. EndsOnce'
  BY EndsOnceStays DEF IInv
<1>16. NobodyForgotten'
  <2>1. \A i : AnswerComing(i) => AnswerComing(i)'
    BY <1>3 DEF AnswerComing
  <2>2. \A i \in Ids : i = id[t] => AnswerComing(i)'
    BY <1>2, <1>3 DEF AnswerComing
  <2>3. EndAhead(id[t]) \/ id[t] \in pending
    BY DEF IInv, Heard
  <2>4. id[t] \in pending =>
          dispatcher \in {"read", "put", "failed", "clear"} \/ main = "clear"
    BY DEF IInv, Phases, TypeOK
  <2>5. \/ EndAhead(id[t])
        \/ /\ id[t] \in pending
           /\ dispatcher \in {"read", "put", "failed", "clear"} \/ main = "clear"
    BY <2>3, <2>4
  <2> QED
    BY <1>1, <1>2, <1>7, <2>1, <2>2, <2>5 DEF IInv, NobodyForgotten
<1> QED
  BY <1>4, <1>5, <1>6, <1>10, <1>11, <1>12, <1>13, <1>14, <1>15, <1>16 DEF IInv

(* After a piece of text the thread waits for the next event or cancels.     *)
LEMMA WroteTextMoves ==
  ASSUME IInv, NEW t \in Requests, pc[t] \in {"wait", "text"}, WroteText(t),
         UNCHANGED <<scheduler, pending, closed, reader, main, batch, process>>,
         events' \in [Ids -> Seq(Kinds)],
         \A i \in Ids : (EndIn(events'[i]) <=> EndIn(events[i]))
                        /\ (OnceIn(events[i]) => OnceIn(events'[i]))
  PROVE  IInv'
<1>1. CASE Goto(t, "wait")
  BY <1>1, MoveKeeps DEF Goto, Places, Inside, IInv, TypeOK
<1>2. CASE t \in Quitters /\ cancel_sent' = cancel_sent \cup {t}
           /\ pc' = [pc EXCEPT ![t] = "cancel"] /\ UNCHANGED <<id, next_request_id>>
  BY <1>2, MoveKeeps DEF Places, Inside, IInv, TypeOK
<1> QED
  BY <1>1, <1>2 DEF WroteText

(* The steps of generate. *)
LEMMA GeneratingKeeps ==
  ASSUME IInv, NEW t \in Requests, Generating(t)
  PROVE  IInv'
<1>1. CASE Register(t)
  <2>1. CASE Refused /\ Goto(t, "over") /\ UNCHANGED pending
    BY <1>1, <2>1, MoveKeeps DEF Register, Goto, Places, Inside, IInv, TypeOK
  <2>2. CASE ~Refused /\ id' # id
    BY <1>1, <2>2, RegisterKeeps DEF Register, Goto
  <2>3. CASE ~Refused /\ id' = id
    BY <1>1, <2>3, RegisterKeeps DEF Register, Goto
  <2> QED
    BY <1>1, <2>1, <2>2, <2>3 DEF Register
<1>2. CASE Submit(t)
  <2>1. CASE alive
    BY <1>2, <2>1, SubmitKeeps DEF Submit
  <2>2. CASE ~alive
    BY <1>2, <2>2, MoveKeeps DEF Submit, Goto, Places, Inside, IInv, TypeOK, process
  <2> QED
    BY <2>1, <2>2
<1>3. CASE Undo(t)
  <2>1. \A w \in work : w[1] # id[t]
    BY <1>3 DEF Undo, IInv, WorkSound
  <2> QED
    BY <1>3, <2>1, LeaveKeeps DEF Undo
<1>4. CASE GetEnd(t)
  <2>1. id[t] \in Ids /\ events[id[t]] \in Seq(Kinds)
    BY <1>4 DEF GetEnd, IInv, IdsSound, Inside, TypeOK
  <2>2. EndQueued(id[t])
    BY <1>4, <2>1, QueueTail, InTheseTerms DEF GetEnd
  <2>3. id[t] \notin pending
    BY <2>1, <2>2 DEF IInv, EndsOnce, EndAhead
  <2>4. \A w \in work : w[1] = id[t] => Down
    BY <2>1, <2>2 DEF IInv, QuietEnds, Quiet
  <2> QED
    BY <1>4, <2>3, <2>4, LeaveKeeps DEF GetEnd
<1>5. CASE GetData(t)
  <2>1. id[t] \in Ids /\ events[id[t]] \in Seq(Kinds) /\ events[id[t]] # <<>>
        /\ Head(events[id[t]]) \notin Ends
    BY <1>5 DEF GetData, IInv, IdsSound, Inside, TypeOK, Ends
  <2>2. events' = [events EXCEPT ![id[t]] = Tail(events[id[t]])]
    BY <1>5 DEF GetData
  <2>3. /\ events' \in [Ids -> Seq(Kinds)]
        /\ \A i \in Ids : (EndIn(events'[i]) <=> EndIn(events[i]))
                          /\ (OnceIn(events[i]) => OnceIn(events'[i]))
    BY <2>1, <2>2, QueueTail DEF IInv, TypeOK
  <2>4. CASE WroteText(t)
    BY <1>5, <2>3, <2>4, WroteTextMoves DEF GetData
  <2>5. CASE Goto(t, "text")
    BY <1>5, <2>3, <2>5, MoveKeeps DEF GetData, Goto, Places, Inside, IInv, TypeOK
  <2> QED
    BY <1>5, <2>4, <2>5 DEF GetData
<1>6. CASE WriteCancel(t)
  <2>1. CASE alive
    BY <1>6, <2>1, MoveKeeps DEF WriteCancel, Goto, Places, Inside, IInv, TypeOK
  <2>2. CASE ~alive
    <3>1. work = {}
      BY <2>2 DEF IInv, Phases
    <3> QED
      BY <1>6, <2>2, <3>1, LeaveKeeps DEF WriteCancel
  <2> QED
    BY <2>1, <2>2
<1>7. CASE EndWrite(t)
  BY <1>7, WroteTextMoves DEF EndWrite, IInv, TypeOK
<1> QED
  BY <1>1, <1>2, <1>3, <1>4, <1>5, <1>6, <1>7, ReleaseKeeps DEF Generating

-----------------------------------------------------------------------------
(* The dispatcher, close and the process: the threads stay where they are.   *)
LEMMA ThreadsStay ==
  ASSUME IInv, UNCHANGED <<scheduler, threads>>
  PROVE  /\ ServingSound' /\ IdsSound'
         /\ \A u \in Requests : pc[u] \in Inside => id[u] \in Ids
<1>1. ServingSound'
  BY ServingStays DEF IInv, scheduler, threads
<1>2. IdsSound' /\ \A u \in Requests : pc[u] \in Inside => id[u] \in Ids
  BY DEF IInv, IdsSound, threads
<1> QED
  BY <1>1, <1>2

(* A line the dispatcher reads.                                              *)
LEMMA ReadAnswerKeeps ==
  ASSUME IInv, ReadAnswer
  PROVE  IInv'
<1> USE DEF scheduler, threads
<1> DEFINE m == Head(stdout)
           ends == m.kind \in Ends
<1>1. /\ m \in Lines /\ m.id \in Ids /\ m.kind \in Kinds /\ stdout' \in Seq(Lines)
      /\ m # Nobody
      /\ \A i : Said(i) <=> Said(i)' \/ (m.id = i /\ ends)
  <2>1. stdout \in Seq(Lines) /\ stdout # <<>> /\ stdout' = Tail(stdout)
    BY DEF ReadAnswer, IInv, TypeOK
  <2>2. m \in Lines /\ stdout' \in Seq(Lines)
    BY <2>1, LinesTail
  <2>3. \A i : SaidIn(stdout, i) <=> SaidIn(stdout', i) \/ (m.id = i /\ ends)
    BY <2>1, LinesTail
  <2>4. \A i : (Said(i) <=> SaidIn(stdout, i)) /\ (Said(i)' <=> SaidIn(stdout', i))
    BY DEF Said, SaidIn
  <2>5. m.id \in Ids /\ m.kind \in Kinds
    BY <2>2 DEF Lines
  <2>6. m # Nobody
    BY <2>5 DEF Nobody, Ids
  <2> QED
    BY <2>2, <2>3, <2>4, <2>5, <2>6
<1> HIDE DEF m
<1>2. /\ dispatcher = "read" /\ carry = Nobody
      /\ \/ m.id \in pending /\ carry' = m /\ dispatcher' = "put"
         \/ m.id \notin pending /\ carry' = carry /\ dispatcher' = dispatcher
      /\ pending' = IF ends THEN pending \ {m.id} ELSE pending
      /\ UNCHANGED <<events, closed, dispatcher_error, main, batch, alive, work>>
  BY DEF ReadAnswer, m, IInv, TypeOK
<1> HIDE DEF ends
<1>3. TypeOK'
  BY <1>1, <1>2 DEF IInv, TypeOK, ReadAnswer
<1>4. ServingSound' /\ IdsSound' /\ \A u \in Requests : pc[u] \in Inside => id[u] \in Ids
  BY ThreadsStay DEF ReadAnswer
<1>5. /\ \A i : EndQueued(i)' <=> EndQueued(i)
      /\ \A i : ~EndCarried(i)
      /\ \A i : EndCarried(i)' <=> m.id = i /\ ends /\ i \in pending
      /\ \A i : Quiet(i)' <=> Quiet(i)
      /\ Down' <=> Down
  BY <1>2 DEF EndQueued, EndCarried, Quiet, Down, ReadAnswer, Nobody, Ends, ends
<1>6. \A i : EndAhead(i)' <=> EndAhead(i) \/ (m.id = i /\ ends /\ i \in pending)
  BY <1>2, <1>5 DEF EndAhead
<1>7. WorkSound' /\ ContextsApart'
  BY <1>2, <1>5 DEF IInv, WorkSound, ContextsApart, ReadAnswer
<1>8. QuietEnds'
  BY <1>1, <1>5 DEF IInv, QuietEnds
<1>9. Fresh'
  BY <1>1, <1>2, <1>6 DEF IInv, Fresh, ReadAnswer
<1>10. Phases'
  BY <1>2, <1>5 DEF IInv, Phases
<1>11. Heard'
  BY <1>2, <1>4, <1>6 DEF IInv, Heard, ReadAnswer
<1>12. EndsOnce'
  BY <1>2, <1>5, <1>6 DEF IInv, EndsOnce, EndAhead
<1>13. NoLeak'
  BY <1>2 DEF IInv, NoLeak, ReadAnswer
<1>14. NobodyForgotten'
  <2>1. \A i : AnswerComing(i) => AnswerComing(i)' \/ (m.id = i /\ ends)
    BY <1>1, <1>2 DEF AnswerComing, Said
  <2> QED
    BY <1>2, <1>4, <1>6, <2>1 DEF IInv, NobodyForgotten, ReadAnswer, Inside
<1> QED
  BY <1>3, <1>4, <1>7, <1>8, <1>9, <1>10, <1>11, <1>12, <1>13, <1>14 DEF IInv

(* The event it holds goes into its queue.                                   *)
LEMMA PutAnswerKeeps ==
  ASSUME IInv, PutAnswer
  PROVE  IInv'
<1> USE DEF scheduler, threads, process
<1>1. /\ dispatcher = "put" /\ dispatcher' = "read" /\ carry' = Nobody
      /\ carry \in Lines /\ carry.id \in Ids /\ carry.kind \in Kinds
      /\ UNCHANGED <<pending, closed, dispatcher_error, main, batch, process>>
  BY DEF PutAnswer, IInv, TypeOK, Lines
<1> DEFINE i0 == carry.id
           ends == carry.kind \in Ends
<1>2. /\ events' \in [Ids -> Seq(Kinds)]
      /\ \A j \in Ids \ {i0} : events'[j] = events[j]
      /\ EndIn(events'[i0]) => EndIn(events[i0]) \/ ends
      /\ EndIn(events[i0]) => EndIn(events'[i0])
      /\ (\E t \in Requests : id[t] = i0) /\ ends => EndIn(events'[i0])
      /\ OnceIn(events[i0]) /\ (ends => ~EndIn(events[i0])) => OnceIn(events'[i0])
  BY <1>1, PutIs DEF PutAnswer, IInv
<1>3. TypeOK'
  BY <1>1, <1>2 DEF IInv, TypeOK, PutAnswer
<1>4. ServingSound' /\ IdsSound' /\ \A u \in Requests : pc[u] \in Inside => id[u] \in Ids
  BY ThreadsStay DEF PutAnswer
<1>5. /\ \A i : EndCarried(i) <=> i = i0 /\ ends
      /\ \A i : ~EndCarried(i)'
      /\ \A i : Quiet(i)' <=> Quiet(i)
      /\ \A i : Said(i)' <=> Said(i)
      /\ \A i : AnswerComing(i)' <=> AnswerComing(i)
      /\ Down' <=> Down
  BY <1>1, LinesStay DEF EndCarried, Quiet, Down, AnswerComing, PutAnswer, Nobody, Ends
<1>6. /\ \A i \in Ids : EndQueued(i) => EndQueued(i)'
      /\ \A i \in Ids : EndQueued(i)' => EndQueued(i) \/ EndCarried(i)
      /\ \A i \in Ids, t \in Requests : id[t] = i /\ EndCarried(i) => EndQueued(i)'
  BY <1>2, <1>5 DEF EndQueued, EndIn
<1>7. /\ \A i \in Ids : EndAhead(i)' => EndAhead(i)
      /\ \A i \in Ids, t \in Requests : id[t] = i /\ EndAhead(i) => EndAhead(i)'
  BY <1>1, <1>5, <1>6 DEF EndAhead
<1>8. WorkSound' /\ ContextsApart'
  BY <1>1, <1>5 DEF IInv, WorkSound, ContextsApart, PutAnswer
<1>9. QuietEnds'
  BY <1>5, <1>6 DEF IInv, QuietEnds
<1>10. Fresh'
  BY <1>1, <1>5, <1>7 DEF IInv, Fresh, PutAnswer
<1>11. Phases' /\ NoLeak'
  BY <1>1, <1>5 DEF IInv, Phases, NoLeak, PutAnswer
<1>12. Heard'
  BY <1>1, <1>4, <1>7 DEF IInv, Heard, PutAnswer, Inside
<1>13. EndsOnce'
  <2>1. \A i \in Ids : OnceIn(events'[i])
    BY <1>2, <1>5, InTheseTerms DEF IInv
  <2>2. \A i \in Ids :
          /\ i \in pending => ~EndAhead(i)
          /\ EndQueued(i) => ~EndCarried(i) /\ \A c \in Closers : i \notin batch[c]
          /\ EndCarried(i) => \A c \in Closers : i \notin batch[c]
          /\ \A c, d \in Closers : i \in batch[c] \cap batch[d] => c = d
    BY DEF IInv, EndsOnce
  <2> QED
    BY <1>1, <1>5, <1>6, <1>7, <2>1, <2>2 DEF EndsOnce, OnceIn
<1>14. NobodyForgotten'
  BY <1>1, <1>4, <1>5, <1>7 DEF IInv, NobodyForgotten, PutAnswer, Inside
<1> QED
  BY <1>3, <1>4, <1>8, <1>9, <1>10, <1>11, <1>12, <1>13, <1>14 DEF IInv

(* The dispatcher gives up, then says so.                                    *)
LEMMA ReadFailsKeeps ==
  ASSUME IInv, ReadFails
  PROVE  IInv'
<1> USE DEF scheduler, threads
<1>1. /\ dispatcher = "read" /\ carry' = carry /\ carry = Nobody
      /\ dispatcher' = IF closed THEN "stopped" ELSE "failed"
      /\ UNCHANGED <<scheduler, threads, pending, events, closed, dispatcher_error, main,
                     batch, alive, work>>
  BY DEF ReadFails, IInv, TypeOK
<1>2. TypeOK'
  BY <1>1, LinesEmpty DEF IInv, TypeOK, ReadFails
<1>3. ServingSound' /\ IdsSound'
  BY ThreadsStay, <1>1
<1>4. /\ \A i : EndQueued(i)' <=> EndQueued(i)
      /\ \A i : EndCarried(i)' <=> EndCarried(i)
      /\ \A i : EndAhead(i)' <=> EndAhead(i)
      /\ \A i : Quiet(i)' <=> Quiet(i)
      /\ \A i : ~Said(i)'
      /\ Down' <=> Down
  <2>1. \A i : ~Said(i)'
    BY LinesEmpty DEF Said, SaidIn, ReadFails
  <2>2. (\A i : Quiet(i)' <=> Quiet(i)) /\ (Down' <=> Down)
    BY <1>1 DEF Quiet, Down
  <2> QED
    BY <1>1, <2>1, <2>2, EndsStay
<1>5. WorkSound' /\ ContextsApart'
  BY <1>1, <1>4 DEF IInv, WorkSound, ContextsApart
<1>6. QuietEnds' /\ Fresh' /\ Heard'
  BY <1>1, <1>4 DEF IInv, QuietEnds, Fresh, Heard
<1>7. Phases'
  BY <1>1, <1>4 DEF IInv, Phases, Down
<1>8. NoLeak'
  BY <1>1 DEF IInv, NoLeak
<1>9. EndsOnce'
  BY <1>1, EndsOnceStays DEF IInv
<1>10. NobodyForgotten'
  <2>1. closed => main = "clear" \/ pending = {}
    BY DEF IInv, Phases
  <2> QED
    BY <1>1, <1>4, <2>1 DEF IInv, NobodyForgotten
<1> QED
  BY <1>2, <1>3, <1>5, <1>6, <1>7, <1>8, <1>9, <1>10 DEF IInv

(* The dispatcher gives up; whoever is pending it will fail next. *)
LEMMA DispatcherErrorKeeps ==
  ASSUME IInv, DispatcherError
  PROVE  IInv'
<1> USE DEF scheduler, threads, process
<1>1. /\ dispatcher = "failed" /\ dispatcher' = "clear" /\ dispatcher_error'
      /\ dispatcher_error' = TRUE
      /\ UNCHANGED <<scheduler, threads, pending, events, closed, carry, main, batch, process>>
  BY DEF DispatcherError
<1>2. TypeOK'
  BY <1>1 DEF IInv, TypeOK
<1>3. ServingSound' /\ IdsSound'
  BY ThreadsStay, <1>1
<1>4. /\ \A i : EndQueued(i)' <=> EndQueued(i)
      /\ \A i : EndCarried(i)' <=> EndCarried(i)
      /\ \A i : EndAhead(i)' <=> EndAhead(i)
      /\ \A i : Quiet(i)' <=> Quiet(i)
      /\ \A i : Said(i)' <=> Said(i)
      /\ Down'
  <2>1. (\A i : Quiet(i)' <=> Quiet(i)) /\ Down'
    BY <1>1 DEF Quiet, Down
  <2> QED
    BY <1>1, <2>1, EndsStay, LinesStay
<1>5. WorkSound' /\ ContextsApart'
  BY <1>1, <1>4 DEF IInv, WorkSound, ContextsApart
<1>6. QuietEnds' /\ Fresh' /\ Heard'
  BY <1>1, <1>4 DEF IInv, QuietEnds, Fresh, Heard
<1>7. Phases' /\ NoLeak'
  BY <1>1, <1>4 DEF IInv, Phases, NoLeak
<1>8. EndsOnce'
  BY <1>1, EndsOnceStays DEF IInv
<1>9. NobodyForgotten'
  BY <1>1, <1>4 DEF IInv, NobodyForgotten
<1> QED
  BY <1>2, <1>3, <1>5, <1>6, <1>7, <1>8, <1>9 DEF IInv

(* _fail_pending takes over what is pending: from then on the end of each of *)
(* these requests is in its hands.                                           *)
LEMMA ClearPendingKeeps ==
  ASSUME IInv, NEW c \in Closers, ClearPending(c),
         \/ /\ c = "dispatcher" /\ dispatcher = "clear" /\ dispatcher' = "stopped"
            /\ main' = main
         \/ c = "main" /\ main = "clear" /\ main' = "kill" /\ dispatcher' = dispatcher
  PROVE  IInv'
<1> USE DEF scheduler, threads, process
<1>1. /\ pending' = {} /\ batch' = [batch EXCEPT ![c] = pending]
      /\ UNCHANGED <<scheduler, threads, events, closed, carry, dispatcher_error, process>>
  BY DEF ClearPending
<1>2. TypeOK'
  BY <1>1 DEF IInv, TypeOK
<1>3. ServingSound' /\ IdsSound' /\ \A u \in Requests : pc[u] \in Inside => id[u] \in Ids
  BY ThreadsStay, <1>1
<1>4. /\ batch[c] = {} /\ batch'[c] = pending
      /\ \A d \in Closers \ {c} : batch'[d] = batch[d]
  BY <1>1 DEF IInv, Phases, TypeOK, Closers
<1>5. /\ \A i : EndQueued(i)' <=> EndQueued(i)
      /\ \A i : EndCarried(i)' <=> EndCarried(i)
      /\ \A i : Quiet(i)' <=> Quiet(i)
      /\ \A i : Said(i)' <=> Said(i)
      /\ Down' <=> Down
  BY <1>1, LinesStay DEF EndQueued, EndCarried, Quiet, Down
<1>6. \A i : EndAhead(i)' <=> EndAhead(i) \/ i \in pending
  BY <1>4, <1>5 DEF EndAhead
<1>7. WorkSound' /\ ContextsApart'
  BY <1>1, <1>5 DEF IInv, WorkSound, ContextsApart
<1>8. QuietEnds'
  BY <1>5 DEF IInv, QuietEnds
<1>9. Fresh'
  BY <1>1, <1>5, <1>6 DEF IInv, Fresh
<1>10. Heard'
  BY <1>1, <1>6 DEF IInv, Heard
<1>11. Phases'
  <2>1. Down
    BY DEF IInv, Phases, Down
  <2> QED
    BY <1>1, <1>4, <1>5, <2>1 DEF IInv, Phases, Closers
<1>12. NoLeak'
  BY <1>1 DEF IInv, NoLeak
<1>13. EndsOnce'
  <2>1. \A i \in Ids :
          /\ i \in pending =>
               ~EndQueued(i) /\ ~EndCarried(i) /\ \A d \in Closers : i \notin batch[d]
          /\ \A j, k \in 1 .. Len(events[i]) :
               events[i][j] \in Ends /\ events[i][k] \in Ends => j = k
          /\ EndQueued(i) => ~EndCarried(i) /\ \A d \in Closers : i \notin batch[d]
          /\ EndCarried(i) => \A d \in Closers : i \notin batch[d]
          /\ \A d, e \in Closers : i \in batch[d] \cap batch[e] => d = e
    BY DEF IInv, EndsOnce, EndAhead
  <2> QED
    BY <1>1, <1>4, <1>5, <2>1 DEF EndsOnce
<1>14. NobodyForgotten'
  BY <1>1, <1>6 DEF IInv, NobodyForgotten
<1> QED
  BY <1>2, <1>3, <1>7, <1>8, <1>9, <1>10, <1>11, <1>12, <1>13, <1>14 DEF IInv

(* An error reaches the queue it was meant for, the only end of that request. *)
LEMMA PutErrorKeeps ==
  ASSUME IInv, NEW c \in Closers, PutError(c)
  PROVE  IInv'
<1> USE DEF scheduler, threads, reader, process
<1>1. PICK i0 \in batch[c] : Put(i0, "ERROR") /\ batch' = [batch EXCEPT ![c] = @ \ {i0}]
  BY DEF PutError
<1>2. /\ i0 \in Ids /\ "ERROR" \in Kinds /\ "ERROR" \in Ends
      /\ UNCHANGED <<scheduler, threads, pending, closed, reader, main, process>>
  BY <1>1 DEF PutError, IInv, TypeOK, Kinds, Ends
<1>3. ~EndIn(events[i0])
  BY <1>2, InTheseTerms DEF IInv
<1>4. /\ events' \in [Ids -> Seq(Kinds)]
      /\ \A j \in Ids \ {i0} : events'[j] = events[j]
      /\ EndIn(events[i0]) => EndIn(events'[i0])
      /\ (\E t \in Requests : id[t] = i0) => EndIn(events'[i0])
      /\ OnceIn(events[i0]) => OnceIn(events'[i0])
  BY <1>1, <1>2, <1>3, PutIs DEF IInv
<1>5. TypeOK'
  BY <1>1, <1>2, <1>4 DEF IInv, TypeOK
<1>6. ServingSound' /\ IdsSound' /\ \A u \in Requests : pc[u] \in Inside => id[u] \in Ids
  BY ThreadsStay, <1>2
<1>7. /\ batch'[c] = batch[c] \ {i0}
      /\ \A d \in Closers \ {c} : batch'[d] = batch[d] /\ i0 \notin batch[d]
  BY <1>1, <1>2 DEF IInv, TypeOK, EndsOnce
<1>8. /\ \A i \in Ids : EndQueued(i) => EndQueued(i)'
      /\ \A i \in Ids : EndQueued(i)' => EndQueued(i) \/ i = i0
      /\ \A i \in Ids, t \in Requests : id[t] = i /\ i = i0 => EndQueued(i)'
      /\ \A i : EndCarried(i)' <=> EndCarried(i)
      /\ \A i : Quiet(i)' <=> Quiet(i)
      /\ \A i : Said(i)' <=> Said(i)
      /\ \A i : AnswerComing(i)' <=> AnswerComing(i)
      /\ (Down' <=> Down) /\ Down
  <2>1. \A i \in Ids : EndQueued(i) => EndQueued(i)'
    BY <1>4 DEF EndQueued, EndIn
  <2>2. \A i \in Ids : EndQueued(i)' => EndQueued(i) \/ i = i0
    BY <1>4 DEF EndQueued, EndIn
  <2>3. \A i \in Ids, t \in Requests : id[t] = i /\ i = i0 => EndQueued(i)'
    BY <1>4 DEF EndQueued, EndIn
  <2>4. (Down' <=> Down) /\ Down
    BY <1>1, <1>2 DEF Down, IInv, Phases, Closers
  <2>5. /\ \A i : EndCarried(i)' <=> EndCarried(i)
        /\ \A i : Quiet(i)' <=> Quiet(i)
        /\ \A i : AnswerComing(i)' <=> AnswerComing(i)
    BY <1>2 DEF EndCarried, Quiet, AnswerComing
  <2> QED
    BY <1>2, <2>1, <2>2, <2>3, <2>4, <2>5, LinesStay
<1>9. /\ \A i \in Ids : EndAhead(i)' => EndAhead(i)
      /\ \A i \in Ids, t \in Requests : id[t] = i /\ EndAhead(i) => EndAhead(i)'
  BY <1>1, <1>7, <1>8 DEF EndAhead
<1>10. WorkSound' /\ ContextsApart'
  BY <1>2, <1>8 DEF IInv, WorkSound, ContextsApart
<1>11. QuietEnds'
  BY <1>8 DEF IInv, QuietEnds
<1>12. Fresh'
  BY <1>2, <1>8, <1>9 DEF IInv, Fresh
<1>13. Phases'
  BY <1>2, <1>7, <1>8 DEF IInv, Phases, Closers
<1>14. NoLeak'
  BY <1>2 DEF IInv, NoLeak
<1>15. Heard'
  BY <1>2, <1>6, <1>9 DEF IInv, Heard, Inside
<1>16. EndsOnce'
  <2>1. \A i \in Ids : OnceIn(events'[i])
    BY <1>2, <1>4, InTheseTerms DEF IInv
  <2>2. \A i \in Ids :
          /\ i \in pending => ~EndAhead(i)
          /\ EndQueued(i) => ~EndCarried(i) /\ \A d \in Closers : i \notin batch[d]
          /\ EndCarried(i) => \A d \in Closers : i \notin batch[d]
          /\ \A d, e \in Closers : i \in batch[d] \cap batch[e] => d = e
    BY DEF IInv, EndsOnce
  <2>3. \A i \in Ids, d \in Closers : i \in batch'[d] => i \in batch[d] /\ i # i0
    BY <1>7
  <2>4. ~EndCarried(i0)
    BY <1>1, <1>2, <2>2
  <2> QED
    BY <1>2, <1>8, <1>9, <2>1, <2>2, <2>3, <2>4 DEF EndsOnce, OnceIn
<1>17. NobodyForgotten'
  BY <1>2, <1>6, <1>8, <1>9 DEF IInv, NobodyForgotten, Inside
<1> QED
  BY <1>5, <1>6, <1>10, <1>11, <1>12, <1>13, <1>14, <1>15, <1>16, <1>17 DEF IInv

(* Engine.close refuses new requests, and stops the process in the end.      *)
LEMMA CloseEngineKeeps ==
  ASSUME IInv, CloseEngine
  PROVE  IInv'
<1> USE DEF scheduler, threads, reader, process
<1>1. /\ main = "close" /\ main' = "clear" /\ closed' = TRUE
      /\ UNCHANGED <<scheduler, threads, pending, events, reader, batch, process>>
  BY DEF CloseEngine
<1>2. TypeOK'
  BY <1>1 DEF IInv, TypeOK
<1>3. ServingSound' /\ IdsSound'
  BY ThreadsStay, <1>1
<1>4. /\ \A i : EndQueued(i)' <=> EndQueued(i)
      /\ \A i : EndCarried(i)' <=> EndCarried(i)
      /\ \A i : EndAhead(i)' <=> EndAhead(i)
      /\ \A i : Quiet(i)' <=> Quiet(i)
      /\ \A i : Said(i)' <=> Said(i)
      /\ \A i : AnswerComing(i)' <=> AnswerComing(i)
      /\ Down'
  <2>1. (\A i : Quiet(i)' <=> Quiet(i)) /\ Down' /\ \A i : AnswerComing(i)' <=> AnswerComing(i)
    BY <1>1 DEF Quiet, Down, AnswerComing
  <2> QED
    BY <1>1, <2>1, EndsStay, LinesStay
<1>5. WorkSound' /\ ContextsApart'
  BY <1>1, <1>4 DEF IInv, WorkSound, ContextsApart
<1>6. QuietEnds' /\ Fresh' /\ Heard'
  BY <1>1, <1>4 DEF IInv, QuietEnds, Fresh, Heard
<1>7. Phases' /\ NoLeak'
  BY <1>1, <1>4 DEF IInv, Phases, NoLeak
<1>8. EndsOnce'
  BY <1>1, EndsOnceStays DEF IInv
<1>9. NobodyForgotten'
  BY <1>1, <1>4 DEF IInv, NobodyForgotten
<1> QED
  BY <1>2, <1>3, <1>5, <1>6, <1>7, <1>8, <1>9 DEF IInv

(* The process stops, of itself or by force. *)
LEMMA DeathKeeps ==
  ASSUME IInv, alive' = FALSE, work' = {}, main' = main \/ (main = "kill" /\ main' = "done"),
         batch["main"] = {} \/ main' = main,
         UNCHANGED <<scheduler, threads, pending, events, closed, reader, batch, stdout>>
  PROVE  IInv'
<1> USE DEF scheduler, threads, reader
<1>1. TypeOK'
  BY DEF IInv, TypeOK
<1>2. ServingSound' /\ IdsSound'
  BY ThreadsStay
<1>3. /\ \A i : EndQueued(i)' <=> EndQueued(i)
      /\ \A i : EndCarried(i)' <=> EndCarried(i)
      /\ \A i : EndAhead(i)' <=> EndAhead(i)
      /\ \A i : Quiet(i) => Quiet(i)'
      /\ \A i : Said(i)' <=> Said(i)
      /\ \A i : AnswerComing(i)'
      /\ Down' <=> Down
  <2>1. (\A i : Quiet(i) => Quiet(i)') /\ (Down' <=> Down) /\ \A i : AnswerComing(i)'
    BY DEF Quiet, Down, AnswerComing
  <2> QED
    BY <2>1, EndsStay, LinesStay
<1>4. WorkSound' /\ ContextsApart'
  BY DEF WorkSound, ContextsApart
<1>5. QuietEnds' /\ Fresh' /\ Heard'
  BY <1>3 DEF IInv, QuietEnds, Fresh, Heard
<1>6. Phases' /\ NoLeak'
  BY <1>3 DEF IInv, Phases, NoLeak
<1>7. EndsOnce'
  BY EndsOnceStays DEF IInv
<1>8. NobodyForgotten'
  BY <1>3 DEF IInv, NobodyForgotten
<1> QED
  BY <1>1, <1>2, <1>4, <1>5, <1>6, <1>7, <1>8 DEF IInv

(* The process writes a line; the last line of a request ends its work.      *)
LEMMA SayKeeps ==
  ASSUME IInv, NEW i0 \in Ids, NEW kind \in {"DATA", "DONE"}, Says(kind, i0),
         NEW w0 \in work, w0[1] = i0,
         work' = IF kind = "DONE" THEN work \ {w0} ELSE work,
         UNCHANGED <<scheduler, threads, pending, events, closed, reader, main, batch, alive>>
  PROVE  IInv'
<1> USE DEF scheduler, threads, reader
<1> DEFINE m == [kind |-> kind, id |-> i0]
           ends == kind = "DONE"
<1>1. /\ m \in Lines /\ m.id = i0 /\ (m.kind \in Ends <=> ends)
      /\ stdout \in Seq(Lines) /\ stdout' = Append(stdout, m)
  BY DEF Says, Lines, Kinds, Ends, IInv, TypeOK
<1>2. stdout' \in Seq(Lines) /\ \A i : Said(i)' <=> Said(i) \/ (i = i0 /\ ends)
  <2>1. /\ stdout' \in Seq(Lines)
        /\ \A i : SaidIn(stdout', i) <=> SaidIn(stdout, i) \/ (i = i0 /\ ends)
    BY <1>1, LinesAppend
  <2>2. \A i : (Said(i) <=> SaidIn(stdout, i)) /\ (Said(i)' <=> SaidIn(stdout', i))
    BY DEF Said, SaidIn
  <2> QED
    BY <2>1, <2>2
<1> HIDE DEF m
<1>3. /\ work' \subseteq work
      /\ \A w \in work : w[1] # i0 => w \in work'
      /\ ends => \A w \in work' : w[1] # i0
  BY DEF IInv, WorkSound
<1>4. TypeOK'
  BY <1>2, <1>3 DEF IInv, TypeOK
<1>5. ServingSound' /\ IdsSound'
  BY ThreadsStay
<1>6. /\ \A i : EndQueued(i)' <=> EndQueued(i)
      /\ \A i : EndCarried(i)' <=> EndCarried(i)
      /\ \A i : EndAhead(i)' <=> EndAhead(i)
      /\ Down' <=> Down
  BY EndsStay DEF Down
<1>7. \A i : Quiet(i) => Quiet(i)'
  BY <1>3 DEF Quiet
<1>8. \A i : AnswerComing(i) => AnswerComing(i)'
  <2>1. \A i : Said(i) => Said(i)'
    BY <1>2
  <2>2. ends => \A i : i = i0 => Said(i)'
    BY <1>2
  <2>3. ~ends => work' = work
    OBVIOUS
  <2>4. /\ \A i : AnswerComing(i) <=> (\E w \in work : w[1] = i) \/ Said(i) \/ ~alive
        /\ \A i : AnswerComing(i)' <=> (\E w \in work' : w[1] = i) \/ Said(i)' \/ ~alive'
    BY DEF AnswerComing, Said
  <2> QED
    BY <1>3, <2>1, <2>2, <2>3, <2>4
<1>9. WorkSound' /\ ContextsApart'
  BY <1>3, <1>6 DEF IInv, WorkSound, ContextsApart
<1>10. QuietEnds'
  <2>1. ends => \A i : i = i0 => Quiet(i)'
    BY <1>3 DEF Quiet, IInv, WorkSound
  <2> QED
    BY <1>2, <1>6, <1>7, <2>1 DEF IInv, QuietEnds
<1>11. Fresh'
  <2>1. i0 < next_request_id
    BY DEF IInv, WorkSound
  <2> QED
    BY <1>2, <1>6, <2>1 DEF IInv, Fresh
<1>12. Heard' /\ NobodyForgotten'
  BY <1>6, <1>8 DEF IInv, Heard, NobodyForgotten
<1>13. Phases' /\ NoLeak'
  BY <1>3, <1>6 DEF IInv, Phases, NoLeak
<1>14. EndsOnce'
  BY EndsOnceStays DEF IInv
<1> QED
  BY <1>4, <1>5, <1>9, <1>10, <1>11, <1>12, <1>13, <1>14 DEF IInv

(* The steps of the process. *)
LEMMA ProcessKeeps ==
  ASSUME IInv, Process
  PROVE  IInv'
<1>1. CASE Exit
  BY <1>1, DeathKeeps DEF Exit
<1>2. ASSUME NEW i \in Ids, SayData(i)
      PROVE  IInv'
  <2>1. PICK w \in work : w[1] = i
    BY <1>2 DEF SayData
  <2> QED
    BY <1>2, <2>1, SayKeeps DEF SayData, Writes
<1>3. ASSUME NEW i \in Ids, SayEnd(i)
      PROVE  IInv'
  <2>1. PICK w \in work : w[1] = i /\ work' = work \ {w}
    BY <1>3 DEF SayEnd
  <2> QED
    BY <1>3, <2>1, SayKeeps DEF SayEnd, Writes
<1> QED
  BY <1>1, <1>2, <1>3 DEF Process

(* The steps of the main thread. *)
LEMMA ClosingKeeps ==
  ASSUME IInv, Closing
  PROVE  IInv'
<1>1. CASE Shutdown
  <2>1. line' = line /\ serving' = serving
    BY <1>1 DEF Shutdown, Scheduler!Close
  <2>2. ServingSound'
    BY <1>1, <2>1, ServingStays DEF Shutdown, threads, IInv
  <2> QED
    BY <1>1, <2>1, <2>2, SchedulerOnly DEF Shutdown
<1>2. CASE Terminate
  BY <1>2, DeathKeeps DEF Terminate
<1> QED
  BY <1>1, <1>2, CloseEngineKeeps DEF Closing

-----------------------------------------------------------------------------
(* The gateway starts with no request anywhere. *)
LEMMA InitIInv == Init => IInv
<1> SUFFICES ASSUME Init PROVE IInv
  OBVIOUS
<1> USE DEF Init
<1>1. TypeOK
  <2>1. next_request_id \in 1 .. MaxRequests + 1
    BY GatewayAssumption
  <2>2. events \in [Ids -> Seq(Kinds)] /\ stdout \in Seq(Lines)
    BY QueueEmpty, LinesEmpty
  <2>3. carry = Nobody /\ batch \in [Closers -> SUBSET Ids]
    OBVIOUS
  <2> QED
    BY <2>1, <2>2, <2>3 DEF TypeOK, Places
<1>2. ServingSound
  <2>1. line = <<>> /\ serving = {}
    BY DEF Scheduler!Init
  <2>2. line \in Seq(Requests) /\ 1 .. Len(line) = {}
    BY <2>1
  <2> QED
    BY <2>1, <2>2 DEF ServingSound
<1>3. IdsSound /\ WorkSound /\ ContextsApart
  BY DEF IdsSound, Inside, Ids, WorkSound, ContextsApart
<1>4. \A i \in Ids : ~EndQueued(i) /\ ~EndCarried(i) /\ ~EndAhead(i) /\ ~Said(i)
  BY QueueEmpty, LinesEmpty
     DEF EndQueued, EndCarried, EndAhead, Said, SaidIn, EndIn, Nobody, Ends, Closers
<1>5. QuietEnds /\ Fresh /\ Heard /\ Phases
  BY <1>4 DEF QuietEnds, Fresh, Heard, Phases, Closers
<1>6. EndsOnce
  <2>1. \A i \in Ids : OnceIn(events[i])
    BY QueueEmpty
  <2> QED
    BY <1>4, <2>1 DEF EndsOnce, OnceIn, Closers
<1>7. NoLeak /\ NobodyForgotten
  BY DEF NoLeak, NobodyForgotten
<1> QED
  BY <1>1, <1>2, <1>3, <1>5, <1>6, <1>7 DEF IInv

(* A step that changes nothing. *)
LEMMA StutterKeeps ==
  ASSUME IInv, UNCHANGED vars
  PROVE  IInv'
<1>1. line' = line /\ pc' = pc
  BY DEF vars, scheduler, threads
<1>2. ServingSound'
  BY <1>1, ServingStays DEF IInv, vars, scheduler
<1> QED
  BY <1>2, SchedulerOnly DEF vars, scheduler

(* The inductive invariant holds in every reachable state.                   *)
THEOREM GatewayInvariant == Spec => []IInv
<1>1. IInv /\ Next => IInv'
  <2>1. ASSUME IInv, FailPending
        PROVE  IInv'
    BY <2>1, ClearPendingKeeps, PutErrorKeeps DEF FailPending, Closers
  <2>2. ASSUME IInv, Reading \/ ReadGarbage
        PROVE  IInv'
    BY <2>2, ReadAnswerKeeps, PutAnswerKeeps, ReadFailsKeeps, DispatcherErrorKeeps
       DEF Reading, ReadGarbage, EndOfStream
  <2> QED
    BY <2>1, <2>2, ArrivingKeeps, GeneratingKeeps, ClosingKeeps, ProcessKeeps DEF Next
<1>2. IInv /\ [Next]_vars => IInv'
  BY <1>1, StutterKeeps
<1> QED
  BY InitIInv, <1>2, PTL DEF Spec

(* Types, for any number of threads, contexts and requests.                  *)
THEOREM GatewayTypeCorrect == Spec => []TypeOK
  BY GatewayInvariant, PTL DEF IInv

(* Whatever clients hang up and however the process or the gateway ends, no  *)
(* KV context is ever written by two requests.                               *)
THEOREM ContextsStayApart == Spec => []ContextsApart
  BY GatewayInvariant, PTL DEF IInv

(* A thread in generate always has an event to come.                         *)
THEOREM NobodyIsForgotten == Spec => []NobodyForgotten
  BY GatewayInvariant, PTL DEF IInv

(* The dispatcher, its failure and close never end a request twice.          *)
THEOREM RequestsEndOnce == Spec => []EndsOnce
  BY GatewayInvariant, PTL DEF IInv

(* self.pending holds no queue of a thread that has left.                    *)
THEOREM PendingNeverLeaks == Spec => []NoLeak
  BY GatewayInvariant, PTL DEF IInv
=============================================================================
