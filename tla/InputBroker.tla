---------------------------- MODULE InputBroker ----------------------------
(***************************************************************************)
(* Standard input (runtime/rt_input.c): one reader thread turns what       *)
(* stdin_read delivers into chunks, on request; rt_input_getc takes bytes  *)
(* from the chunks and parks (a fiber) or blocks (an OS thread) when there *)
(* are none.  Callers hold the input lock of their GET statement, except   *)
(* that a GET may end at any byte.                                         *)
(*                                                                         *)
(* Standard input is the bytes 1 .. InputLen and then its end.             *)
(***************************************************************************)
EXTENDS Naturals, Sequences, FiniteSets

CONSTANTS Tasks, NoTask,
          Fibers,                            \* the tasks that run on fibers
          InputLen,
          RT_INPUT_CHUNK

EOF == 0

VARIABLES pc,                                \* of each task
          in_mu,                             \* holder of the input lock
          chunks,                            \* the queue from head to tail
          requested, eof, waiter,
          rpc,                               \* of the reader thread
          inbuf,                             \* what it read
          ahead,                             \* bytes of standard input already read
          ready,                             \* unparked fibers
          woken,                             \* the fiber the reader is about to unpark
          signalled,                         \* blocked threads that `ready' woke
          got,                               \* history: bytes delivered
          ends                               \* history: tasks that were told EOF

vars == <<pc, in_mu, chunks, requested, eof, waiter, rpc, inbuf, ahead, ready, woken, signalled, got, ends>>
readerVars == <<rpc, inbuf, ahead, woken>>

Init ==
  /\ pc = [t \in Tasks |-> "idle"] /\ in_mu = NoTask
  /\ chunks = <<>> /\ requested = FALSE /\ eof = FALSE /\ waiter = NoTask
  /\ rpc = "wait" /\ inbuf = <<>> /\ ahead = 0 /\ woken = NoTask
  /\ ready = {} /\ signalled = {} /\ got = <<>> /\ ends = {}

Goto(t, l) == pc' = [pc EXCEPT ![t] = l]

-----------------------------------------------------------------------------
(* The consumers. *)

GetBegin(t) ==
  /\ pc[t] = "idle" /\ t \notin ends /\ in_mu = NoTask
  /\ in_mu' = t /\ Goto(t, "getc")
  /\ UNCHANGED <<chunks, requested, eof, waiter, readerVars, ready, signalled, got, ends>>

GetEnd(t) ==
  /\ pc[t] = "getc" /\ in_mu' = NoTask /\ Goto(t, "idle")
  /\ UNCHANGED <<chunks, requested, eof, waiter, readerVars, ready, signalled, got, ends>>

\* Mutant: one byte uses up the whole chunk.
RestDropped == Tail(chunks)

\* A chunk that is used up leaves the queue.
Rest == IF Len(Head(chunks)) = 1 THEN Tail(chunks) ELSE <<Tail(Head(chunks))>> \o Tail(chunks)

TakeByte(t) ==
  /\ pc[t] = "getc" /\ chunks # <<>>
  /\ got' = Append(got, Head(Head(chunks)))
  /\ chunks' = Rest
  /\ UNCHANGED <<pc, in_mu, requested, eof, waiter, readerVars, ready, signalled, ends>>

\* EOF ends the GET.
TakeEof(t) ==
  /\ pc[t] = "getc" /\ chunks = <<>> /\ eof
  /\ ends' = ends \cup {t} /\ in_mu' = NoTask /\ Goto(t, "idle")
  /\ UNCHANGED <<chunks, requested, eof, waiter, readerVars, ready, signalled, got>>

\* Mutant: the fiber parks without publishing itself.
AskUnpublished(t) == requested' = TRUE /\ waiter' = waiter

\* The waiter is published with the request.
AskPublished(t) == requested' = TRUE /\ waiter' = IF t \in Fibers THEN t ELSE waiter

Ask(t) ==
  /\ pc[t] = "getc" /\ chunks = <<>> /\ ~eof
  /\ AskPublished(t)
  /\ Goto(t, "wait")
  /\ UNCHANGED <<in_mu, chunks, eof, readerVars, ready, signalled, got, ends>>

\* rt_sched_park returns, or pli_cond_wait with input there; both look again.
Wake(t) ==
  /\ pc[t] = "wait"
  /\ \/ t \in Fibers /\ t \in ready /\ ready' = ready \ {t} /\ UNCHANGED signalled
     \/ t \notin Fibers /\ t \in signalled /\ signalled' = signalled \ {t} /\ UNCHANGED ready
  /\ Goto(t, IF t \in Fibers \/ chunks # <<>> \/ eof THEN "getc" ELSE "wait")
  /\ UNCHANGED <<in_mu, chunks, requested, eof, waiter, readerVars, got, ends>>

-----------------------------------------------------------------------------
(* rt_input_thread. *)

ReaderWakes ==
  /\ rpc = "wait" /\ (requested \/ eof)
  /\ requested' = FALSE /\ rpc' = "read"
  /\ UNCHANGED <<pc, in_mu, chunks, eof, waiter, inbuf, ahead, woken, ready, signalled, got, ends>>

\* pli_plat_stdin_read returns what there is, up to a chunk.
ReaderReads ==
  /\ rpc = "read"
  /\ \E n \in IF ahead = InputLen THEN {0} ELSE 1 .. RT_INPUT_CHUNK :
       /\ ahead + n <= InputLen
       /\ inbuf' = [i \in 1 .. n |-> ahead + i] /\ ahead' = ahead + n
  /\ rpc' = "deliver"
  /\ UNCHANGED <<pc, in_mu, chunks, requested, eof, waiter, woken, ready, signalled, got, ends>>

\* Only an empty read is the end of the input.
AtEnd == inbuf = <<>>

\* `ready' is signalled when no fiber waits.
Signalled == IF waiter = NoTask THEN {t \in Tasks \ Fibers : pc[t] = "wait"} \cup signalled ELSE signalled

ReaderDelivers ==
  /\ rpc = "deliver"
  /\ IF AtEnd THEN eof' = TRUE /\ UNCHANGED chunks ELSE chunks' = Append(chunks, inbuf) /\ UNCHANGED eof
  /\ woken' = waiter /\ waiter' = NoTask
  /\ signalled' = Signalled
  /\ rpc' = "unpark"
  /\ UNCHANGED <<pc, in_mu, requested, inbuf, ahead, ready, got, ends>>

\* After the end of the input the thread ends.
ReaderUnparks ==
  /\ rpc = "unpark"
  /\ ready' = ready \cup ({woken} \ {NoTask}) /\ woken' = NoTask
  /\ rpc' = IF AtEnd THEN "ended" ELSE "wait"
  /\ UNCHANGED <<pc, in_mu, chunks, requested, eof, waiter, inbuf, ahead, signalled, got, ends>>

Reader == ReaderWakes \/ ReaderReads \/ ReaderDelivers \/ ReaderUnparks
Getc(t) == TakeByte(t) \/ TakeEof(t) \/ Ask(t) \/ Wake(t)
Next == Reader \/ \E t \in Tasks : GetBegin(t) \/ GetEnd(t) \/ Getc(t)

\* The reader is an OS thread and its input arrives or ends; a task in
\* rt_input_getc runs on when it can.
Fairness == WF_vars(Reader) /\ \A t \in Tasks : WF_vars(Getc(t))

Spec == Init /\ [][Next]_vars /\ Fairness

-----------------------------------------------------------------------------
(* Properties. *)

\* GETs take the bytes of standard input in order, none lost or repeated,
\* whichever task takes them and however the bytes arrive.
InputInOrder == got = [i \in 1 .. Len(got) |-> i]

\* EOF is reported only when every byte has been taken.
EofIsLast == ends # {} => Len(got) = InputLen

\* A task that waits for input gets a byte or is told the input's end.
GetcReturns == \A t \in Tasks : pc[t] = "wait" ~> pc[t] # "wait"

\* GETs take the bytes of standard input in order, none lost or repeated, and
\* its end is reported only when every byte has been taken.
InputExact == InputInOrder /\ EofIsLast
=============================================================================
