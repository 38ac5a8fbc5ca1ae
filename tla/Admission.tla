----------------------------- MODULE Admission ------------------------------
(***************************************************************************)
(* What GenerationScheduler of openai_server.py promises: "Bounded FIFO    *)
(* admission for the engine's independent KV contexts."  Requests stand in *)
(* one line.  Only the first of the line is served, it is given a slot     *)
(* nobody uses, and it is served only while the server is open.  A request *)
(* may leave the line at any time, and gives its slot back once.           *)
(***************************************************************************)
EXTENDS Naturals, SequencesExt

CONSTANTS
  Requests,   \* the threads that carry a request
  Slots,      \* the KV contexts of the engine
  MaxLine     \* the longest the line may be

VARIABLES
  line,       \* the requests that wait, the next to be served first
  serving,    \* the pairs of a request being served and the slot it uses
  open        \* requests are still served

vars == <<line, serving, open>>

Waiting  == {line[i] : i \in 1 .. Len(line)}
Served   == {p[1] : p \in serving}
InUse    == {p[2] : p \in serving}

Init ==
  /\ line = <<>> /\ serving = {} /\ open = TRUE

(* A request joins the line only if it is in neither the line nor a slot.    *)
MayJoin(r) ==
  /\ open /\ r \notin Waiting \cup Served

Join(r) ==
  /\ MayJoin(r) /\ Len(line) < MaxLine
  /\ line' = Append(line, r)
  /\ UNCHANGED <<serving, open>>

(* With nobody before it a request gets its slot in the step it arrives in.  *)
JoinServed(r) ==
  /\ MayJoin(r) /\ line = <<>>
  /\ \E s \in Slots \ InUse : serving' = serving \cup {<<r, s>>}
  /\ UNCHANGED <<line, open>>

Serve(r) ==
  /\ open /\ line # <<>> /\ Head(line) = r
  /\ \E s \in Slots \ InUse : serving' = serving \cup {<<r, s>>}
  /\ line' = Tail(line)
  /\ UNCHANGED open

Leave(r) ==
  /\ \E i \in 1 .. Len(line) : line[i] = r /\ line' = RemoveAt(line, i)
  /\ UNCHANGED <<serving, open>>

Return(r) ==
  /\ \E p \in serving : p[1] = r /\ serving' = serving \ {p}
  /\ UNCHANGED <<line, open>>

Close ==
  /\ open /\ open' = FALSE
  /\ UNCHANGED <<line, serving>>

Next ==
  \/ \E r \in Requests :
       \/ Join(r) \/ JoinServed(r) \/ Serve(r) \/ Leave(r) \/ Return(r)
  \/ Close

Spec == Init /\ [][Next]_vars
=============================================================================
