------------------------------ MODULE MCWaits -------------------------------
(***************************************************************************)
(* The ways in which a program waits for something other than a lock: WAIT *)
(* for events (RtEvent), DELAY (TimerHeap), a record from the helper       *)
(* thread that reads files (FileBroker), and a byte from the one that      *)
(* reads standard input (InputBroker), by fibers or by OS threads.  They   *)
(* share no state, so a behaviour uses one of them.                        *)
(***************************************************************************)
EXTENDS RtEvent, TLC

CONSTANTS Delaying,                          \* the fibers that DELAY
          MaxTime,
          a, b, c, gt, f1, f2,                \* the tasks that read, and the files
          NoTask, NoFile, FileLen, MaxReads,
          InputLen, RT_INPUT_CHUNK

VARIABLES way, heap, deadline, now, parked,
          fpc, off, todo, result, pos, rec, rec_read_mu, slot, req, fwaiter,
          answer, taken, fwoken, fready, fgot,
          ipc, in_mu, chunks, requested, eof, iwaiter, rpc, inbuf, ahead,
          iready, iwoken, signalled, igot, ends

timerVars == <<heap, deadline, now, parked>>
fileVars == <<fpc, off, todo, result, pos, rec, rec_read_mu, slot, req, fwaiter,
              answer, taken, fwoken, fready, fgot>>
inVars == <<ipc, in_mu, chunks, requested, eof, iwaiter, rpc, inbuf, ahead,
            iready, iwoken, signalled, igot, ends>>

T == INSTANCE TimerHeap WITH Fibers <- Delaying

\* Two tasks read one record file, a third another, and a fourth GETs.
TaskFile == (a :> f1) @@ (b :> f1) @@ (c :> f2) @@ (gt :> NoFile)
F == INSTANCE FileBroker WITH
  Tasks <- {a, b, c, gt}, File <- TaskFile,
  pc <- fpc, waiter <- fwaiter, ready <- fready, woken <- fwoken, got <- fgot

Getters == {a, b, c}
ByFibers == INSTANCE InputBroker WITH
  Tasks <- Getters, Fibers <- Getters,
  pc <- ipc, waiter <- iwaiter, ready <- iready, woken <- iwoken, got <- igot
ByThreads == INSTANCE InputBroker WITH
  Tasks <- Getters, Fibers <- {},
  pc <- ipc, waiter <- iwaiter, ready <- iready, woken <- iwoken, got <- igot

MCInit ==
  /\ way \in {"wait", "delay", "file", "fibers", "threads"}
  /\ EvInit /\ T!Init /\ F!Init /\ ByFibers!Init

WaitStep == way = "wait" /\ EvNext /\ UNCHANGED <<way, timerVars, fileVars, inVars>>
DelayStep == way = "delay" /\ T!Next /\ UNCHANGED <<way, evVars, fileVars, inVars>>
FileStep == way = "file" /\ F!Next /\ UNCHANGED <<way, evVars, timerVars, inVars>>
FiberStep == way = "fibers" /\ ByFibers!Next /\ UNCHANGED <<way, evVars, timerVars, fileVars>>
ThreadStep == way = "threads" /\ ByThreads!Next /\ UNCHANGED <<way, evVars, timerVars, fileVars>>

MCSpec ==
  /\ MCInit
  /\ [][WaitStep \/ DelayStep \/ FileStep \/ FiberStep \/ ThreadStep]_<<way, evVars, timerVars, fileVars, inVars>>
  /\ \/ way = "wait" /\ EvFairness
     \/ way = "delay" /\ T!Fairness
     \/ way = "file" /\ F!Fairness
     \/ way = "fibers" /\ ByFibers!Fairness
     \/ way = "threads" /\ ByThreads!Fairness

-----------------------------------------------------------------------------
\* Tasks that read through a helper thread get data once, in order, and each
\* the answer to its own request: records through the broker's one work slot
\* (pli_brokered_fread), bytes and the end of standard input through the
\* reader's chunks (pli_brokered_getc).
ReadsExact == F!RecordsInTurn /\ F!AnswerIsMine /\ ByFibers!InputExact

\* Every wait ends: a WAIT once the tasks it waits for have ended, whatever the
\* order of completions, resets and wakeups; a DELAY, even of a fiber that the
\* heap holds out of order; a READ or a GET that waits for a helper thread,
\* with data or with the end of the input.
WaitsEnd == WaitTerminates /\ T!DelayEnds /\ F!ReadReturns /\ ByFibers!GetcReturns
=============================================================================
