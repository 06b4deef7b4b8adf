----------------------------- MODULE FileBroker -----------------------------
(***************************************************************************)
(* Blocking reads of tasks (runtime/rt_fbroker.c and the READ path of      *)
(* rt_file.c).  A task hands its fread to the broker's thread and parks;   *)
(* one work slot is shared by record READs, which hold the record lock     *)
(* around ftell, read and position update, and by stream GETs, which do    *)
(* not.                                                                    *)
(*                                                                         *)
(* Locks are the fiber locks of RtSync and the pool is Scheduler's: a lock *)
(* is its owner, an unpark makes the task runnable once it has parked.  A  *)
(* record file's contents are the records 1 .. FileLen, of one size.       *)
(***************************************************************************)
EXTENDS Integers, Sequences, FiniteSets

CONSTANTS Tasks, NoTask,
          File,                              \* the record file of each task, or NoFile for a GET
          NoFile,
          FileLen,
          MaxReads                           \* bound: reads of a task

Files == {File[t] : t \in Tasks} \ {NoFile}

VARIABLES pc, off, todo,                     \* of each task
          result,                            \* what a task's fread returned
          pos, rec,                          \* stream offset and rt_rec of each file
          rec_read_mu, slot,                 \* lock owners
          req, waiter,                       \* the work slot: a task's request
          answer,                            \* req.result, the record read
          taken, woken,                      \* the broker thread's copies of request and waiter
          ready,                             \* unparked tasks
          got                                \* history: records delivered, by file

taskVars == <<pc, off, todo, result>>
vars == <<taskVars, pos, rec, rec_read_mu, slot, req, waiter, answer, taken, woken, ready, got>>

Pending == -1                                \* req.result until the answer
Short == 0                                   \* fewer bytes than a record: the end of the file

Init ==
  /\ pc = [t \in Tasks |-> "idle"] /\ off = [t \in Tasks |-> 0]
  /\ todo = [t \in Tasks |-> MaxReads] /\ result = [t \in Tasks |-> Short]
  /\ pos = [f \in Files |-> 0] /\ rec = [f \in Files |-> Short]
  /\ rec_read_mu = NoTask /\ slot = NoTask
  /\ req = NoTask /\ waiter = NoTask /\ answer = Pending
  /\ taken = NoTask /\ woken = NoTask /\ ready = {}
  /\ got = [f \in Files |-> <<>>]

Goto(t, l) == pc' = [pc EXCEPT ![t] = l]

-----------------------------------------------------------------------------
(* The task. *)

rt_rec_read_lock(t) == rec_read_mu = NoTask /\ rec_read_mu' = t

\* A READ takes the record lock and notes the offset; a GET comes with the
\* input lock of its statement.
Begin(t) ==
  /\ pc[t] = "idle" /\ todo[t] > 0
  /\ todo' = [todo EXCEPT ![t] = @ - 1]
  /\ IF File[t] = NoFile THEN UNCHANGED <<rec_read_mu, off>>
     ELSE rt_rec_read_lock(t) /\ off' = [off EXCEPT ![t] = pos[File[t]]]
  /\ Goto(t, "slot")
  /\ UNCHANGED <<result, pos, rec, slot, req, waiter, answer, taken, woken, ready, got>>

\* Mutant: the slot is taken although it is in use.
SlotAlways(t) == slot' = t

AcquireSlot(t) == slot = NoTask /\ slot' = t

\* rt_fbroker_fread: request and waiter are published under the broker's
\* mutex, which is released before the park.
Publish(t) ==
  /\ pc[t] = "slot" /\ AcquireSlot(t)
  /\ req' = t /\ waiter' = t /\ answer' = Pending
  /\ Goto(t, "park")
  /\ UNCHANGED <<off, todo, result, pos, rec, rec_read_mu, taken, woken, ready, got>>

\* The task is parked and resumes once it is unparked.
Resume(t) ==
  /\ pc[t] = "park" /\ t \in ready
  /\ ready' = ready \ {t}
  /\ result' = [result EXCEPT ![t] = IF answer < 0 THEN Short ELSE answer]
  /\ slot' = NoTask
  /\ Goto(t, IF File[t] = NoFile THEN "idle" ELSE "read")
  /\ UNCHANGED <<off, todo, pos, rec, rec_read_mu, req, waiter, answer, taken, woken, got>>

\* Mutant: a short read counts as a record.
NeverShort(t) == FALSE

ShortRead(t) == result[t] = Short

\* The record that begins where ftell stood before the read.
RecSet(t) == off[t] + 1

\* A whole record becomes the current one under the lock; a short read drops
\* the lock and then raises ENDFILE.
FinishRead(t) ==
  /\ pc[t] = "read"
  /\ rec_read_mu' = NoTask
  /\ LET f == File[t] IN
       IF ShortRead(t)
       THEN Goto(t, "endfile") /\ UNCHANGED <<rec, got>>
       ELSE /\ rec' = [rec EXCEPT ![f] = RecSet(t)]
            /\ got' = [got EXCEPT ![f] = Append(@, result[t])]
            /\ Goto(t, "idle")
  /\ UNCHANGED <<off, todo, result, pos, slot, req, waiter, answer, taken, woken, ready>>

rt_rec_endfile(t) ==
  /\ pc[t] = "endfile"
  /\ rec' = [rec EXCEPT ![File[t]] = Short]
  /\ Goto(t, "idle")
  /\ UNCHANGED <<off, todo, result, pos, rec_read_mu, slot, req, waiter, answer, taken, woken, ready, got>>

-----------------------------------------------------------------------------
(* rt_fbroker_thread. *)

ThreadTake ==
  /\ taken = NoTask /\ woken = NoTask /\ req # NoTask
  /\ taken' = req
  /\ UNCHANGED <<taskVars, pos, rec, rec_read_mu, slot, req, waiter, answer, woken, ready, got>>

\* Mutant: the thread forgets the waiter.
WakeNobody == NoTask

\* The waiter is taken with the answer.
WakeWaiter == waiter

\* The fread, and the answer under the mutex.
ThreadAnswer ==
  /\ taken # NoTask
  /\ LET f == File[taken] IN
       IF f = NoFile THEN answer' = 1 /\ UNCHANGED pos
       ELSE /\ answer' = IF pos[f] < FileLen THEN pos[f] + 1 ELSE Short
            /\ pos' = [pos EXCEPT ![f] = IF @ < FileLen THEN @ + 1 ELSE @]
  /\ req' = NoTask
  /\ woken' = WakeWaiter /\ waiter' = NoTask
  /\ taken' = NoTask
  /\ UNCHANGED <<taskVars, rec, rec_read_mu, slot, ready, got>>

ThreadUnpark ==
  /\ woken # NoTask
  /\ ready' = ready \cup {woken} /\ woken' = NoTask
  /\ UNCHANGED <<taskVars, pos, rec, rec_read_mu, slot, req, waiter, answer, taken, got>>

Thread == ThreadTake \/ ThreadAnswer \/ ThreadUnpark
Step(t) == Begin(t) \/ Publish(t) \/ Resume(t) \/ FinishRead(t) \/ rt_rec_endfile(t)

Next == Thread \/ \E t \in Tasks : Step(t)

\* The broker's thread is an OS thread and the device answers; a fiber lock
\* is handed over in order, so a task is not overtaken for ever.
Fairness ==
  /\ WF_vars(Thread)
  /\ \A t \in Tasks : SF_vars(Begin(t)) /\ SF_vars(Publish(t))
                      /\ WF_vars(Resume(t)) /\ WF_vars(FinishRead(t)) /\ WF_vars(rt_rec_endfile(t))

Spec == Init /\ [][Next]_vars /\ Fairness

-----------------------------------------------------------------------------
(* Properties. *)

\* Tasks that read one file get its records in order, none twice and none
\* skipped: ftell, read and position update are one unit.
RecordsOnce == \A f \in Files : got[f] = [i \in 1 .. Len(got[f]) |-> i]

\* When no READ is under way the current record of a file is the one that
\* ends at the file's offset, whichever task read it, so a REWRITE or DELETE
\* that follows acts on the record read last.
CurrentIsLast == \A f \in Files : rec_read_mu = NoTask => rec[f] \in {Short, pos[f]}

\* A task that takes its result holds the slot and finds an answer to its own
\* request: a READ and a GET cannot overwrite each other's request.
AnswerIsMine == \A t \in Tasks : pc[t] = "park" /\ t \in ready => slot = t /\ answer # Pending

\* Every read that has begun comes back.
ReadReturns == \A t \in Tasks : pc[t] # "idle" ~> pc[t] = "idle"

\* Records come once and in order, and the current record of a file is the
\* one read last, although reads park between their steps.
RecordsInTurn == RecordsOnce /\ CurrentIsLast
=============================================================================
