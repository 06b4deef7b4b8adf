------------------------------ MODULE RtEvent -------------------------------
(***************************************************************************)
(* EVENT variables and WAIT (runtime/rt_task.c) over the lock layer, used  *)
(* the way compiled code uses them (emitAsyncSpawn and emitWait in         *)
(* src/irgen.cpp): CALL ... EVENT(e) resets e and then starts the task,    *)
(* the task's wrapper completes e after the body, WAIT suspends.           *)
(*                                                                         *)
(* One lock, pli_ev_mu, and one keyed condition, pli_ev_cv, serve every    *)
(* event: they are the lock and the condition of RtSync, and the keys are  *)
(* the events.  A started task is an instance 1, 2, ...; instance 0 stands *)
(* for "never attached".                                                   *)
(*                                                                         *)
(* Programs attach an event to one active task at a time and wait for      *)
(* events they attached themselves, so that no cycle of tasks waits for    *)
(* itself: a wait that never ends is then the runtime's doing.             *)
(***************************************************************************)
EXTENDS RtSync

CONSTANTS Main,       \* the fiber of the MAIN procedure
          MaxSpawns   \* bound on the tasks a run starts

ASSUME MainAssumption == Main \in Fibers
ASSUME MaxSpawnsAssumption == MaxSpawns \in Nat
ASSUME EventsAssumption == IsFiniteSet(Keys)

VARIABLES ev,        \* the event words: 0 incomplete, 1 complete
          op,        \* the operation each fiber is in
          arg,       \* the events the operation is about
          need,      \* pli_wait_n: how many of them
          child,     \* the fiber a CALL is about to start
          started,   \* number of instances started so far
          inst,      \* event -> the instance last attached to it
          myev,      \* fiber -> the event its wrapper completes (a set of 0 or 1)
          mine,      \* fiber -> the instance it runs
          attached,  \* fiber -> the events it attached
          body,      \* history: instances whose body returned
          due        \* history: the instances a WAIT must outlast

taskVars == <<need, child, started, inst, myev, mine, attached, body, due>>
evVars == <<vars, ev, op, arg, taskVars>>

Instances == 0..MaxSpawns
Active(e) == \E f \in Fibers : e \in myev[f] /\ op[f] \notin {"complete_exit", "dying"}
ActiveInsts(E) == {inst[e] : e \in {x \in E : Active(x)}}
Free == {f \in Fibers : op[f] = "free"}

EvInit ==
  /\ Init
  /\ ev = [e \in Keys |-> 0]
  /\ op = [f \in Fibers |-> IF f = Main THEN "idle" ELSE "free"]
  /\ arg = [f \in Fibers |-> {}]
  /\ need = [f \in Fibers |-> 0]
  /\ child = [f \in Fibers |-> NoFiber]
  /\ started = 0
  /\ inst = [e \in Keys |-> 0]
  /\ myev = [f \in Fibers |-> {}]
  /\ mine = [f \in Fibers |-> 0]
  /\ attached = [f \in Fibers |-> {}]
  /\ body = {}
  /\ due = [f \in Fibers |-> {}]

rt_ev_done(e) == ev[e] # 0
DoneCount(E) == Cardinality({e \in E : rt_ev_done(e)})

Goto(f, o) == op' = [op EXCEPT ![f] = o]

(* The lock layer's own steps: resuming, unparking, walking the queue. *)
Inside(f) ==
  /\ \/ LockResume(f) \/ Unpark(f) \/ CondResume(f) \/ WalkStep(f) \/ WalkEnd(f)
     \/ pc[f] = "relock" /\ LockAcquire(f)
  /\ UNCHANGED <<ev, op, arg, taskVars>>

(* rt_lock_acquire(&pli_ev_mu) at the start of an operation. *)
Enter(f) ==
  /\ op[f] \in {"reset_enter", "wait_enter", "waitn_enter", "complete_enter"}
  /\ pc[f] = "run"
  /\ LockAcquire(f)
  /\ Goto(f, CASE op[f] = "reset_enter" -> "reset"
               [] op[f] = "wait_enter" -> "wait"
               [] op[f] = "waitn_enter" -> "waitn"
               [] op[f] = "complete_enter" -> "complete")
  /\ UNCHANGED <<ev, arg, taskVars>>

Locked(f) == pc[f] = "run" /\ held[f] = 1

-----------------------------------------------------------------------------
(* CALL p EVENT(e): the event is reset before the task exists. *)

CallEvent(f, e, g) ==
  /\ op[f] = "idle" /\ started + Cardinality({x \in Fibers : child[x] # NoFiber}) < MaxSpawns
  /\ g \in Free /\ \A x \in Fibers : child[x] # g
  /\ ~Active(e) /\ \A x \in Fibers : child[x] # NoFiber => e \notin arg[x]
  /\ arg' = [arg EXCEPT ![f] = {e}]
  /\ child' = [child EXCEPT ![f] = g]
  /\ Goto(f, "reset_enter")
  /\ UNCHANGED <<vars, ev, need, started, inst, myev, mine, attached, body, due>>

(* Mutant: the call site forgets pli_event_reset. *)
ResetSkipped(f) ==
  /\ op[f] = "reset" /\ Locked(f)
  /\ LockRelease(f)
  /\ Goto(f, "spawn")
  /\ UNCHANGED <<ev, arg, taskVars>>

pli_event_reset(f) ==
  /\ op[f] = "reset" /\ Locked(f)
  /\ ev' = [e \in Keys |-> IF e \in arg[f] THEN 0 ELSE ev[e]]
  /\ LockRelease(f)
  /\ Goto(f, "spawn")
  /\ UNCHANGED <<arg, taskVars>>

(* pli_task_spawn: the child's fiber becomes runnable. *)
SpawnTask(f) ==
  /\ op[f] = "spawn" /\ pc[f] = "run"
  /\ LET g == child[f] n == started + 1 IN
       /\ op' = [op EXCEPT ![f] = "idle", ![g] = "idle"]
       /\ myev' = [myev EXCEPT ![g] = arg[f]]
       /\ mine' = [mine EXCEPT ![g] = n]
       /\ inst' = [e \in Keys |-> IF e \in arg[f] THEN n ELSE inst[e]]
       /\ started' = n
  /\ attached' = [attached EXCEPT ![f] = @ \cup arg[f]]
  /\ child' = [child EXCEPT ![f] = NoFiber]
  /\ arg' = [arg EXCEPT ![f] = {}]
  /\ UNCHANGED <<vars, ev, need, body, due>>

-----------------------------------------------------------------------------
(* The end of a task: the body returned, the wrapper completes the event.  *)

BodyReturns(f) ==
  /\ op[f] = "idle" /\ f # Main
  /\ body' = body \cup {mine[f]}
  /\ Goto(f, "complete_enter")
  /\ UNCHANGED <<vars, ev, arg, need, child, started, inst, myev, mine, attached, due>>

(* Mutant: the signal names another event than the one stored. *)
CompleteWrongKey(f) ==
  /\ op[f] = "complete" /\ Locked(f)
  /\ \E e \in myev[f] :
       /\ ev' = [ev EXCEPT ![e] = 1]
       /\ CondSignal(f, CHOOSE k \in Keys : k # e)
  /\ Goto(f, "complete_exit")
  /\ UNCHANGED <<arg, taskVars>>

(* pli_event_complete: the store and the signal under the lock. *)
pli_event_complete(f) ==
  /\ op[f] = "complete" /\ Locked(f)
  /\ \E e \in myev[f] :
       /\ ev' = [ev EXCEPT ![e] = 1]
       /\ CondSignal(f, e)
  /\ Goto(f, "complete_exit")
  /\ UNCHANGED <<arg, taskVars>>

CompleteExit(f) ==
  /\ op[f] = "complete_exit" /\ Locked(f)
  /\ LockRelease(f)
  /\ Goto(f, "dying")
  /\ UNCHANGED <<ev, arg, taskVars>>

(* The wrapper returns and the worker takes the fiber back. *)
FiberDies(f) ==
  /\ op[f] = "dying" /\ pc[f] = "run"
  /\ Goto(f, "free")
  /\ myev' = [myev EXCEPT ![f] = {}]
  /\ mine' = [mine EXCEPT ![f] = 0]
  /\ attached' = [attached EXCEPT ![f] = {}]
  /\ UNCHANGED <<vars, ev, arg, need, child, started, inst, body, due>>

-----------------------------------------------------------------------------
(* WAIT(e): the unlocked check first, then the loop under the lock. *)

WaitStart(f, e) ==
  /\ op[f] = "idle" /\ e \in attached[f]
  /\ due' = [due EXCEPT ![f] = ActiveInsts({e})]
  /\ arg' = [arg EXCEPT ![f] = {e}]
  /\ Goto(f, IF rt_ev_done(e) THEN "waited" ELSE "wait_enter")
  /\ UNCHANGED <<vars, ev, need, child, started, inst, myev, mine, attached, body>>

pli_event_wait(f) ==
  /\ op[f] = "wait" /\ Locked(f)
  /\ \E e \in arg[f] :
       IF rt_ev_done(e)
       THEN LockRelease(f) /\ Goto(f, "waited")
       ELSE CondWait(f, e) /\ UNCHANGED op
  /\ UNCHANGED <<ev, arg, taskVars>>

(* Mutant: need is not limited to the number of events. *)
WaitNUnclamped(f, E, k) ==
  /\ op[f] = "idle" /\ E \subseteq attached[f]
  /\ due' = [due EXCEPT ![f] = {}]
  /\ arg' = [arg EXCEPT ![f] = E]
  /\ need' = [need EXCEPT ![f] = k]
  /\ Goto(f, IF DoneCount(E) >= k THEN "waited" ELSE "waitn_enter")
  /\ UNCHANGED <<vars, ev, child, started, inst, myev, mine, attached, body>>

(* WAIT(evs)(k): any k of a set of events, woken by every completion. *)
WaitNStart(f, E, k) ==
  /\ op[f] = "idle" /\ E \subseteq attached[f]
  /\ due' = [due EXCEPT ![f] = {}]
  /\ arg' = [arg EXCEPT ![f] = E]
  /\ need' = [need EXCEPT ![f] = IF k > Cardinality(E) THEN Cardinality(E) ELSE k]
  /\ Goto(f, IF DoneCount(E) >= need'[f] THEN "waited" ELSE "waitn_enter")
  /\ UNCHANGED <<vars, ev, child, started, inst, myev, mine, attached, body>>

pli_wait_n(f) ==
  /\ op[f] = "waitn" /\ Locked(f)
  /\ IF DoneCount(arg[f]) >= need[f]
     THEN LockRelease(f) /\ Goto(f, "waited")
     ELSE CondWait(f, AnyKey) /\ UNCHANGED op
  /\ UNCHANGED <<ev, arg, taskVars>>

WaitReturns(f) ==
  /\ op[f] = "waited" /\ pc[f] = "run"
  /\ Goto(f, "idle")
  /\ arg' = [arg EXCEPT ![f] = {}]
  /\ need' = [need EXCEPT ![f] = 0]
  /\ due' = [due EXCEPT ![f] = {}]
  /\ UNCHANGED <<vars, ev, child, started, inst, myev, mine, attached, body>>

-----------------------------------------------------------------------------
(* What the task's own code chooses to do. *)
Chooses(f) ==
  \/ \E e \in Keys, g \in Fibers : CallEvent(f, e, g)
  \/ \E e \in Keys : WaitStart(f, e)
  \/ \E E \in SUBSET Keys : \E k \in 1..Cardinality(Keys) : E # {} /\ WaitNStart(f, E, k)

(* What it must go on doing once it has begun. *)
Continues(f) ==
  \/ Inside(f) \/ Enter(f)
  \/ pli_event_reset(f) \/ SpawnTask(f)
  \/ BodyReturns(f) \/ pli_event_complete(f) \/ CompleteExit(f) \/ FiberDies(f)
  \/ pli_event_wait(f) \/ pli_wait_n(f) \/ WaitReturns(f)

EvNext == \E f \in Fibers : Chooses(f) \/ Continues(f)

EvSpec == EvInit /\ [][EvNext]_evVars

(* The scheduler runs every runnable fiber (module Scheduler), and the     *)
(* body of a task returns in the end, however often it waits before.       *)
EvFairness ==
  \A f \in Fibers : WF_evVars(Continues(f)) /\ SF_evVars(BodyReturns(f))

-----------------------------------------------------------------------------
Ops == {"free", "idle", "reset_enter", "reset", "spawn", "complete_enter",
        "complete", "complete_exit", "dying", "wait_enter", "wait",
        "waitn_enter", "waitn", "waited"}

(* Every variable of the event layer keeps its type. *)
EvTypeOK ==
  /\ TypeOK
  /\ ev \in [Keys -> {0, 1}] /\ op \in [Fibers -> Ops]
  /\ arg \in [Fibers -> SUBSET Keys] /\ need \in [Fibers -> Nat]
  /\ child \in [Fibers -> FiberOrNone] /\ started \in Instances
  /\ inst \in [Keys -> Instances] /\ mine \in [Fibers -> Instances]
  /\ myev \in [Fibers -> SUBSET Keys] /\ attached \in [Fibers -> SUBSET Keys]
  /\ body \in SUBSET (1..MaxSpawns) /\ due \in [Fibers -> SUBSET Instances]

(* A task that sleeps on pli_ev_cv sleeps for something that has not       *)
(* happened: its event is incomplete, or fewer than k of its events are    *)
(* complete.  A completion that slips between a waiter's check and its     *)
(* enlisting would break this, and the waiter would sleep for ever.        *)
AsleepForAReason ==
  /\ EvTypeOK
  /\ \A f \in Elems(cwaiters) \cup UNION {Elems(keep[g]) : g \in Fibers} :
       /\ op[f] = "wait" => \A e \in arg[f] : ~rt_ev_done(e)
       /\ op[f] = "waitn" => DoneCount(arg[f]) < need[f]

(* WAIT(e) returns only after the body of every task that was attached to  *)
(* e when the WAIT began: the reset comes before the task, and a woken     *)
(* waiter looks again.                                                     *)
JoinSound == \A f \in Fibers : op[f] = "waited" => due[f] \subseteq body

(* WAIT neither sleeps for what has happened nor returns before it has.    *)
WaitsSound == AsleepForAReason /\ JoinSound

(* Every WAIT comes back once the tasks it waits for have ended, whatever  *)
(* the order of completions, resets and wakeups.                           *)
WaitTerminates ==
  \A f \in Fibers : op[f] \in {"wait_enter", "wait", "waitn_enter", "waitn"} ~> op[f] = "waited"
=============================================================================
