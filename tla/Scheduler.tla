----------------------------- MODULE Scheduler -----------------------------
(***************************************************************************)
(* The user-space task scheduler (runtime/rt_sched.c): the workers, their  *)
(* run queues, parking and unparking of fibers, the sleep and wake-up of   *)
(* workers, DELAY timers, fiber recycling and the end of the program.      *)
(*                                                                         *)
(* A step ends wherever another OS thread can look: every atomic exchange, *)
(* compare-and-swap loop or section under a worker's mutex is one step.    *)
(* The lock-free queues are sequences here, newest first; module RunQueue  *)
(* shows that the pointer code behaves like them.                          *)
(*                                                                         *)
(* waitq stands for the wait queues of the other layers (rt_sync.c,        *)
(* rt_input.c, rt_fbroker.c): a fiber is published there before it parks,  *)
(* and another fiber or a helper thread takes it out and unparks it.       *)
(***************************************************************************)
EXTENDS Integers, Queues, FiniteSets, SequencesExt, TLC

CONSTANTS NWorkers,   \* rt_worker_count
          Tasks,      \* pli_fiber objects rt_fiber_new can make
          Main,       \* rt_main_fib
          NoFiber,    \* NULL pli_fiber
          NoWorker,   \* NULL rt_worker
          Prios,      \* the priorities a spawn or a set may ask for
          MaxSpawns,  \* bound on rt_sched_spawn_ex calls
          MaxParks,   \* bound on parks (waits and DELAYs) in one run
          MaxPrioParks \* ... in one that uses priorities

ASSUME WorkersAssumption == NWorkers \in Nat \ {0}
ASSUME FibersAssumption == Main \notin Tasks /\ NoFiber \notin Tasks \cup {Main}
ASSUME NoWorkerAssumption == NoWorker \notin 0..(NWorkers - 1)
ASSUME PriosAssumption == Prios \subseteq Int /\ 0 \in Prios

Workers == 0..(NWorkers - 1)
Fibers == Tasks \cup {Main}
Helper == -1   \* the broker threads of rt_input.c and rt_fbroker.c: not a worker

VARIABLES local,      \* rt_worker.local, newest first
          ready,      \* rt_worker.ready, newest first
          runnext,    \* rt_worker.runnext
          spare,      \* rt_worker.spare
          cur,        \* the fiber on the worker's CPU
          parked,     \* rt_worker.parked
          hot,        \* rt_worker.ran_recently
          wpc,        \* where the worker thread is
          held,       \* fibers in the worker's own local variables: a detached list
          victim,     \* the peer a steal is looking at
          wake,       \* per thread: the workers it has still to rt_wake_one
          timeout,    \* the timer whose deadline bounds the worker's sleep
          global,     \* rt_global_head, newest first
          timers,     \* rt_timer_heap
          due,        \* the timers whose deadline has passed
          pool,       \* rt_pool_head
          fresh,      \* fibers not yet made by rt_fiber_new
          home,       \* pli_fiber.home
          prio,       \* pli_fiber.priority
          saved,      \* the fiber's registers are completely saved
          waitq,      \* fibers published on some wait queue
          prio_used,  \* rt_prio_used
          started,    \* rt_workers_started
          main_done,  \* rt_main_done
          spawns, parks

queues == <<local, ready, runnext, held, global>>
wvars == <<spare, cur, parked, hot, wpc, victim, wake, timeout>>
pools == <<timers, due, pool, fresh, waitq>>
fvars == <<home, prio, saved>>
flags == <<prio_used, started, main_done, spawns, parks>>
vars == <<queues, wvars, pools, fvars, flags>>

Others(w) == Workers \ {w}
At(w, label) == wpc[w] = label
Goto(w, label) == wpc' = [wpc EXCEPT ![w] = label]
Push(q, w, f) == [q EXCEPT ![w] = <<f>> \o @]

(* rt_sched_init and rt_sched_main: MAIN is worker 0's first task. *)
Init ==
  /\ local = [w \in Workers |-> <<>>] /\ ready = [w \in Workers |-> <<>>]
  /\ runnext = [w \in Workers |-> IF w = 0 THEN Main ELSE NoFiber]
  /\ spare = [w \in Workers |-> NoFiber] /\ cur = [w \in Workers |-> NoFiber]
  /\ parked = [w \in Workers |-> FALSE] /\ hot = [w \in Workers |-> FALSE]
  /\ wpc = [w \in Workers |-> IF w = 0 THEN "top" ELSE "off"]
  /\ held = [w \in Workers |-> <<>>] /\ victim = [w \in Workers |-> w]
  /\ wake = [t \in Workers \cup {Helper} |-> <<>>]
  /\ timeout = [w \in Workers |-> NoFiber]
  /\ global = <<>> /\ timers = {} /\ due = {} /\ pool = <<>> /\ fresh = Tasks
  /\ home = [f \in Fibers |-> NoWorker] /\ prio = [f \in Fibers |-> 0]
  /\ saved = [f \in Fibers |-> f = Main]
  /\ waitq = {} /\ prio_used = FALSE /\ started = FALSE /\ main_done = FALSE
  /\ spawns = 0 /\ parks = 0

-----------------------------------------------------------------------------
(* rt_worker_loop: the end of the program, then the ready list.            *)

Exit(w) ==
  /\ At(w, "top") /\ w = 0 /\ main_done
  /\ Goto(w, "exited")
  /\ UNCHANGED <<queues, spare, cur, parked, hot, victim, wake, timeout, pools, fvars, flags>>

DetachReady(w) ==
  /\ At(w, "top") /\ ~(w = 0 /\ main_done)
  /\ held' = [held EXCEPT ![w] = ready[w]]
  /\ ready' = [ready EXCEPT ![w] = <<>>]
  /\ Goto(w, "drain")
  /\ UNCHANGED <<local, runnext, global, spare, cur, parked, hot, victim, wake,
                 timeout, pools, fvars, flags>>

DrainReady(w) ==
  /\ At(w, "drain")
  /\ IF held[w] = <<>>
     THEN Goto(w, "next") /\ UNCHANGED <<local, held>>
     ELSE /\ local' = Push(local, w, Head(held[w]))
          /\ held' = [held EXCEPT ![w] = Tail(@)]
          /\ UNCHANGED wpc
  /\ UNCHANGED <<ready, runnext, global, spare, cur, parked, hot, victim, wake,
                 timeout, pools, fvars, flags>>

-----------------------------------------------------------------------------
(* rt_next_runnable.                                                       *)

(* The worker switches to f: rt_worker_loop from the state store to        *)
(* pli_fiber_switch.                                                       *)
Dispatch(w, f) ==
  /\ cur' = [cur EXCEPT ![w] = f]
  /\ saved' = [saved EXCEPT ![f] = FALSE]
  /\ hot' = [hot EXCEPT ![w] = TRUE]
  /\ Goto(w, "run")

(* The runnext slot: run it, or fold it into the queue once priorities are *)
(* in use.                                                                 *)
TakeRunnext(w) ==
  /\ At(w, "next")
  /\ runnext' = [runnext EXCEPT ![w] = NoFiber]
  /\ IF runnext[w] # NoFiber /\ ~prio_used
     THEN Dispatch(w, runnext[w]) /\ UNCHANGED local
     ELSE /\ local' = IF runnext[w] = NoFiber THEN local ELSE Push(local, w, runnext[w])
          /\ Goto(w, "pop")
          /\ UNCHANGED <<cur, saved, hot>>
  /\ UNCHANGED <<ready, held, global, spare, parked, victim, wake, timeout, pools,
                 home, prio, flags>>

(* rt_queue_pop_best with no priorities in use: the newest task.  The pop  *)
(* after a steal gives up when it finds nothing.                           *)
PopNewest(w) ==
  /\ wpc[w] \in {"pop", "steal_pop"} /\ ~prio_used
  /\ IF local[w] = <<>>
     THEN /\ Goto(w, IF At(w, "pop") THEN "global" ELSE "park")
          /\ UNCHANGED <<local, cur, saved, hot>>
     ELSE /\ local' = [local EXCEPT ![w] = Tail(@)]
          /\ Dispatch(w, Head(local[w]))
  /\ UNCHANGED <<ready, runnext, held, global, spare, parked, victim, wake, timeout,
                 pools, home, prio, flags>>

(* rt_queue_pop_best with priorities: detach the list ... *)
PopDetach(w) ==
  /\ wpc[w] \in {"pop", "steal_pop"} /\ prio_used
  /\ IF local[w] = <<>>
     THEN /\ Goto(w, IF At(w, "pop") THEN "global" ELSE "park")
          /\ UNCHANGED <<local, held>>
     ELSE /\ held' = [held EXCEPT ![w] = local[w]]
          /\ local' = [local EXCEPT ![w] = <<>>]
          /\ Goto(w, "best")
  /\ UNCHANGED <<ready, runnext, global, spare, cur, parked, hot, victim, wake, timeout,
                 pools, fvars, flags>>

(* The highest priority, the newest among equals. *)
BestIndex(q) ==
  CHOOSE i \in DOMAIN q :
    /\ \A j \in DOMAIN q : prio[q[j]] <= prio[q[i]]
    /\ \A j \in 1..(i - 1) : prio[q[j]] < prio[q[i]]


(* ... run the best task and push the rest back on what is there by now. *)
PopBest(w) ==
  /\ At(w, "best")
  /\ LET i == BestIndex(held[w]) IN
       /\ local' = [local EXCEPT ![w] = RemoveAt(held[w], i) \o @]
       /\ Dispatch(w, held[w][i])
  /\ held' = [held EXCEPT ![w] = <<>>]
  /\ UNCHANGED <<ready, runnext, global, spare, parked, victim, wake, timeout, pools,
                 home, prio, flags>>

(* rt_take_global, then the steals start with the next worker. *)
TakeGlobal(w) ==
  /\ At(w, "global")
  /\ IF global = <<>>
     THEN /\ victim' = [victim EXCEPT ![w] = (w + 1) % NWorkers]
          /\ Goto(w, "steal")
          /\ UNCHANGED <<global, cur, saved, hot>>
     ELSE global' = Tail(global) /\ Dispatch(w, Head(global)) /\ UNCHANGED victim
  /\ UNCHANGED <<local, ready, runnext, held, spare, parked, wake, timeout, pools,
                 home, prio, flags>>

(* rt_queue_steal: detach the victim's list, or go on to the next victim   *)
(* and, after the last one, to the timers.                                 *)
StealDetach(w) ==
  /\ At(w, "steal")
  /\ LET v == victim[w] IN
       IF v = w
       THEN Goto(w, "timer") /\ UNCHANGED <<local, held, victim>>
       ELSE IF local[v] = <<>>
       THEN /\ victim' = [victim EXCEPT ![w] = (v + 1) % NWorkers]
            /\ UNCHANGED <<local, held, wpc>>
       ELSE /\ held' = [held EXCEPT ![w] = local[v]]
            /\ local' = [local EXCEPT ![v] = <<>>]
            /\ Goto(w, "split")
            /\ UNCHANGED victim
  /\ UNCHANGED <<ready, runnext, global, spare, cur, parked, hot, wake, timeout, pools,
                 fvars, flags>>

(* Mutant: the older half is put back without what the victim pushed since. *)
StealSplitOverwrites(w) ==
  /\ At(w, "split")
  /\ LET n == Len(held[w])
         half == IF n < 2 THEN n ELSE n \div 2 IN
       /\ local' = [local EXCEPT ![victim[w]] = SubSeq(held[w], half + 1, n)]
       /\ held' = [held EXCEPT ![w] = SubSeq(@, 1, half)]
  /\ Goto(w, "keep")
  /\ UNCHANGED <<ready, runnext, global, spare, cur, parked, hot, victim, wake, timeout,
                 pools, fvars, flags>>

(* The older half goes back in front of what the victim pushed since. *)
StealSplit(w) ==
  /\ At(w, "split")
  /\ LET n == Len(held[w])
         half == IF n < 2 THEN n ELSE n \div 2 IN
       /\ local' = [local EXCEPT ![victim[w]] = SubSeq(held[w], half + 1, n) \o @]
       /\ held' = [held EXCEPT ![w] = SubSeq(@, 1, half)]
  /\ Goto(w, "keep")
  /\ UNCHANGED <<ready, runnext, global, spare, cur, parked, hot, victim, wake, timeout,
                 pools, fvars, flags>>

StealKeep(w) ==
  /\ At(w, "keep")
  /\ local' = [local EXCEPT ![w] = held[w] \o @]
  /\ held' = [held EXCEPT ![w] = <<>>]
  /\ Goto(w, "steal_pop")
  /\ UNCHANGED <<ready, runnext, global, spare, cur, parked, hot, victim, wake, timeout,
                 pools, fvars, flags>>

-----------------------------------------------------------------------------
(* Handing a fiber back to the workers, and waking them.                   *)

(* Mutant: the unparked fiber goes to a run queue any worker may take from. *)
HandBackAnywhere(t, f) ==
  /\ local' = [local EXCEPT ![IF t = Helper THEN 0 ELSE t] = <<f>> \o @]
  /\ wake' = [wake EXCEPT ![t] = <<home[f]>>]
  /\ UNCHANGED <<ready, global>>

(* The push of rt_sched_unpark and rt_take_expired_timer by thread t: to   *)
(* the owner's ready list, and the owner is to be woken; without an owner, *)
(* to the global queue, and some parked worker is to be woken.             *)
HandBack(t, f) ==
  /\ IF home[f] # NoWorker
     THEN /\ ready' = Push(ready, home[f], f)
          /\ wake' = [wake EXCEPT ![t] = <<home[f]>>]
          /\ UNCHANGED global
     ELSE /\ global' = <<f>> \o global
          /\ \E v \in Workers : wake' = [wake EXCEPT ![t] = <<v>>]
          /\ UNCHANGED ready
  /\ UNCHANGED local


(* rt_wake_one under the target's mutex: a signal only if it is asleep.    *)
(* The woken thread has not run yet: parked stays set.                     *)
WakeOne(t) ==
  /\ wake[t] # <<>>
  /\ LET v == Head(wake[t]) IN
       wpc' = IF v # t /\ parked[v] /\ wpc[v] = "asleep"
              THEN [wpc EXCEPT ![v] = "awake"] ELSE wpc
  /\ wake' = [wake EXCEPT ![t] = Tail(@)]
  /\ UNCHANGED <<queues, spare, cur, parked, hot, victim, timeout, pools, fvars, flags>>

(* A DELAY's deadline passes. *)
Mature(f) ==
  /\ f \in timers \ due
  /\ due' = due \cup {f}
  /\ UNCHANGED <<queues, wvars, timers, pool, fresh, waitq, fvars, flags>>

(* rt_take_expired_timer: the root of the heap if its deadline has passed. *)
(* Which timer is the root is left open (module TimerHeap); the worker     *)
(* goes on to park either way.                                             *)
TakeTimer(w) ==
  /\ At(w, "timer")
  /\ Goto(w, "park")
  /\ \/ \E f \in due :
          /\ timers' = timers \ {f} /\ due' = due \ {f}
          /\ HandBack(w, f)
     \/ /\ timers = {} \/ due # timers
        /\ UNCHANGED <<local, ready, global, wake, timers, due>>
  /\ UNCHANGED <<runnext, held, spare, cur, parked, hot, victim, timeout, pool, fresh,
                 waitq, fvars, flags>>

-----------------------------------------------------------------------------
(* rt_worker_park.                                                         *)

(* The deadline that will bound the sleep is read first. *)
ParkStart(w) ==
  /\ At(w, "park") /\ wake[w] = <<>>
  /\ \E f \in IF timers = {} THEN {NoFiber} ELSE timers :
       timeout' = [timeout EXCEPT ![w] = f]
  /\ Goto(w, "spin")
  /\ UNCHANGED <<queues, spare, cur, parked, hot, victim, wake, pools, fvars, flags>>

WorkFor(w) ==
  \/ local[w] # <<>> \/ ready[w] # <<>> \/ global # <<>>

(* The spin of a worker that ran recently finds work and returns. *)
SpinFinds(w) ==
  /\ At(w, "spin") /\ hot[w]
  /\ WorkFor(w) \/ (w = 0 /\ main_done)
  /\ Goto(w, "top")
  /\ UNCHANGED <<queues, spare, cur, parked, hot, victim, wake, timeout, pools, fvars, flags>>

(* Mutant: the re-check under the lock looks at the run queues only. *)
SleepNoReadyCheck(w) ==
  /\ At(w, "spin")
  /\ IF (w = 0 /\ main_done) \/ runnext[w] # NoFiber \/ local[w] # <<>> \/ global # <<>>
     THEN Goto(w, "top") /\ UNCHANGED parked
     ELSE Goto(w, "asleep") /\ parked' = [parked EXCEPT ![w] = TRUE]
  /\ UNCHANGED <<queues, spare, cur, hot, victim, wake, timeout, pools, fvars, flags>>

(* Mutant: MAIN's end is not re-read under the lock. *)
SleepNoMainCheck(w) ==
  /\ At(w, "spin")
  /\ IF runnext[w] # NoFiber \/ WorkFor(w)
     THEN Goto(w, "top") /\ UNCHANGED parked
     ELSE Goto(w, "asleep") /\ parked' = [parked EXCEPT ![w] = TRUE]
  /\ UNCHANGED <<queues, spare, cur, hot, victim, wake, timeout, pools, fvars, flags>>

(* The spin is over or skipped: re-check under the worker's mutex and wait *)
(* on its condvar, which releases the mutex.                               *)
Sleep(w) ==
  /\ At(w, "spin")
  /\ IF (w = 0 /\ main_done) \/ runnext[w] # NoFiber \/ WorkFor(w)
     THEN Goto(w, "top") /\ UNCHANGED parked
     ELSE Goto(w, "asleep") /\ parked' = [parked EXCEPT ![w] = TRUE]
  /\ UNCHANGED <<queues, spare, cur, hot, victim, wake, timeout, pools, fvars, flags>>

(* The timed wait ends without a signal: the deadline it was given has     *)
(* passed, or the condvar woke spuriously.                                 *)
TimedOut(w) ==
  /\ At(w, "asleep") /\ timeout[w] # NoFiber /\ timeout[w] \notin timers \ due
  /\ Goto(w, "awake")
  /\ UNCHANGED <<queues, spare, cur, parked, hot, victim, wake, timeout, pools, fvars, flags>>

SpuriousWake(w) ==
  /\ At(w, "asleep")
  /\ Goto(w, "awake")
  /\ UNCHANGED <<queues, spare, cur, parked, hot, victim, wake, timeout, pools, fvars, flags>>

Awake(w) ==
  /\ At(w, "awake")
  /\ parked' = [parked EXCEPT ![w] = FALSE]
  /\ hot' = [hot EXCEPT ![w] = FALSE]
  /\ timeout' = [timeout EXCEPT ![w] = NoFiber]
  /\ Goto(w, "top")
  /\ UNCHANGED <<queues, spare, cur, victim, wake, pools, fvars, flags>>

-----------------------------------------------------------------------------
(* What the running fiber does.  A fiber whose unpark still owes a wake-up *)
(* finishes that first.                                                    *)

Running(w) == At(w, "run") /\ wake[w] = <<>>

ParkBound == IF prio_used THEN MaxPrioParks ELSE MaxParks
PrioBound(p) == p = 0 \/ parks <= MaxPrioParks

(* rt_workers_start: the first spawn starts the other workers, in order,   *)
(* until a thread cannot be created.                                       *)
StartWorkers(w) ==
  /\ Running(w) /\ ~started /\ Others(w) # {} /\ spawns < MaxSpawns
  /\ started' = TRUE
  /\ \E n \in Workers :
       wpc' = [v \in Workers |-> IF v \in 1..n THEN "top" ELSE wpc[v]]
  /\ UNCHANGED <<queues, spare, cur, parked, hot, victim, wake, timeout, pools, fvars,
                 prio_used, main_done, spawns, parks>>

(* rt_fiber_get: the spare, then the pool, then a new fiber. *)
FiberGet(w) ==
  IF spare[w] # NoFiber THEN {spare[w]}
  ELSE IF pool # <<>> THEN {Head(pool)}
  ELSE fresh

(* ... and rt_fiber_prepare on it: a first context, no owner. *)
FiberPrepare(w, f, p) ==
  /\ spare' = [spare EXCEPT ![w] = NoFiber]
  /\ pool' = IF spare[w] = NoFiber /\ pool # <<>> THEN Tail(pool) ELSE pool
  /\ fresh' = fresh \ {f}
  /\ home' = [home EXCEPT ![f] = NoWorker]
  /\ prio' = [prio EXCEPT ![f] = p]
  /\ saved' = [saved EXCEPT ![f] = TRUE]

(* rt_sched_spawn_ex: the new task takes the runnext slot; the task it     *)
(* displaces is queued, and at most every 200 us a parked worker is woken. *)
Spawn(w, p) ==
  /\ Running(w) /\ spawns < MaxSpawns /\ (started \/ Others(w) = {}) /\ PrioBound(p)
  /\ \E f \in FiberGet(w) :
       /\ FiberPrepare(w, f, p)
       /\ runnext' = [runnext EXCEPT ![w] = f]
  /\ prio_used' = (prio_used \/ p # 0)
  /\ local' = IF runnext[w] = NoFiber THEN local ELSE Push(local, w, runnext[w])
  /\ \/ UNCHANGED wake
     \/ /\ runnext[w] # NoFiber
        /\ \E v \in Workers : parked[v] /\ wake' = [wake EXCEPT ![w] = <<v>>]
  /\ spawns' = spawns + 1
  /\ UNCHANGED <<ready, held, global, cur, parked, hot, wpc, victim, timeout, timers,
                 due, waitq, started, main_done, parks>>

(* rt_sched_set_priority on a live task. *)
SetPriority(w, f, p) ==
  /\ Running(w) /\ f \in Tasks \ fresh /\ prio[f] # p /\ PrioBound(p)
  /\ prio' = [prio EXCEPT ![f] = p]
  /\ prio_used' = (prio_used \/ p # 0)
  /\ UNCHANGED <<queues, wvars, pools, home, saved, started, main_done, spawns, parks>>

(* A wait path (rt_lock_acquire, rt_cond_wait_key, rt_getc, rt_fb_fread):  *)
(* record the owner, publish the fiber; the switch is still to come.       *)
Publish(w) ==
  /\ Running(w) /\ parks < ParkBound
  /\ home' = [home EXCEPT ![cur[w]] = w]
  /\ waitq' = waitq \cup {cur[w]}
  /\ parks' = parks + 1
  /\ Goto(w, "parking")
  /\ UNCHANGED <<queues, spare, cur, parked, hot, victim, wake, timeout, timers, due,
                 pool, fresh, prio, saved, prio_used, started, main_done, spawns>>

(* rt_sched_park_until, up to its switch. *)
ParkUntil(w) ==
  /\ Running(w) /\ parks < ParkBound
  /\ home' = [home EXCEPT ![cur[w]] = w]
  /\ timers' = timers \cup {cur[w]}
  /\ parks' = parks + 1
  /\ Goto(w, "parking")
  /\ UNCHANGED <<queues, spare, cur, parked, hot, victim, wake, timeout, due, pool,
                 fresh, waitq, prio, saved, prio_used, started, main_done, spawns>>

(* pli_fiber_switch out of a parked fiber, back in rt_worker_loop. *)
SwitchOut(w) ==
  /\ At(w, "parking")
  /\ saved' = [saved EXCEPT ![cur[w]] = TRUE]
  /\ cur' = [cur EXCEPT ![w] = NoFiber]
  /\ Goto(w, "top")
  /\ UNCHANGED <<queues, spare, parked, hot, victim, wake, timeout, pools, home, prio, flags>>

(* rt_sched_unpark of a published fiber, by a fiber or by a helper thread. *)
Unpark(t, f) ==
  /\ t \in Workers => Running(t)
  /\ t = Helper => wake[t] = <<>>
  /\ f \in waitq
  /\ waitq' = waitq \ {f}
  /\ HandBack(t, f)
  /\ UNCHANGED <<runnext, held, spare, cur, parked, hot, wpc, victim, timeout, timers,
                 due, pool, fresh, fvars, flags>>

(* rt_fiber_put. *)
FiberPut(w, f) ==
  IF spare[w] = NoFiber
  THEN spare' = [spare EXCEPT ![w] = f] /\ UNCHANGED pool
  ELSE pool' = <<f>> \o pool /\ UNCHANGED spare

(* The task body returns: the trampoline marks the fiber dead and switches *)
(* to the worker, which recycles it.                                       *)
FinishTask(w) ==
  /\ Running(w) /\ cur[w] # Main
  /\ FiberPut(w, cur[w])
  /\ cur' = [cur EXCEPT ![w] = NoFiber]
  /\ Goto(w, "top")
  /\ UNCHANGED <<queues, parked, hot, victim, wake, timeout, timers, due, fresh, waitq,
                 fvars, flags>>

(* MAIN returns: the program's end is published and every worker woken. *)
FinishMain(w) ==
  /\ Running(w) /\ cur[w] = Main
  /\ main_done' = TRUE
  /\ cur' = [cur EXCEPT ![w] = NoFiber]
  /\ wake' = [wake EXCEPT ![w] = [i \in 1..NWorkers |-> i - 1]]
  /\ Goto(w, "ending")
  /\ UNCHANGED <<queues, spare, parked, hot, victim, timeout, pools, fvars, prio_used,
                 started, spawns, parks>>

Ended(w) ==
  /\ At(w, "ending") /\ wake[w] = <<>>
  /\ Goto(w, "exited")
  /\ UNCHANGED <<queues, spare, cur, parked, hot, victim, wake, timeout, pools, fvars, flags>>

-----------------------------------------------------------------------------
(* Worker 0 returning from its loop ends the process (rt_sched_main).      *)
Alive == wpc[0] # "exited"

(* The steps of the scheduler itself, on worker w. *)
Schedule(w) ==
  \/ Exit(w) \/ DetachReady(w) \/ DrainReady(w) \/ TakeRunnext(w) \/ PopNewest(w)
  \/ PopDetach(w) \/ PopBest(w) \/ TakeGlobal(w) \/ StealDetach(w) \/ StealSplit(w)
  \/ StealKeep(w) \/ TakeTimer(w) \/ ParkStart(w) \/ SpinFinds(w) \/ Sleep(w)
  \/ Awake(w) \/ SwitchOut(w) \/ Ended(w)

(* The steps of the task the worker runs. *)
RunTask(w) ==
  \/ StartWorkers(w) \/ \E p \in Prios : Spawn(w, p)
  \/ \E f \in Tasks, p \in Prios : SetPriority(w, f, p)
  \/ Publish(w) \/ ParkUntil(w)
  \/ \E f \in waitq : Unpark(w, f)
  \/ FinishTask(w) \/ FinishMain(w)

Next ==
  /\ Alive
  /\ \/ \E w \in Workers : Schedule(w) \/ RunTask(w) \/ TimedOut(w) \/ SpuriousWake(w)
     \/ \E t \in Workers \cup {Helper} : WakeOne(t)
     \/ \E f \in Fibers : Mature(f)
     \/ \E f \in waitq : Unpark(Helper, f)

Spec == Init /\ [][Next]_vars

(* Fairness: the OS runs every thread, time passes, and a task that gets   *)
(* to run comes to its end.  Nothing is assumed of MAIN, nor of who        *)
(* unparks a waiting fiber.  The pop that follows a steal races the        *)
(* peers: without strong fairness two workers that a due timer or a        *)
(* spurious wake-up keeps awake steal one task from each other for ever.   *)
Fairness ==
  /\ \A w \in Workers :
       /\ WF_vars(Alive /\ Schedule(w))
       /\ WF_vars(Alive /\ TimedOut(w))
       /\ SF_vars(Alive /\ PopNewest(w) /\ cur'[w] # NoFiber)
       /\ SF_vars(Alive /\ FinishTask(w))
  /\ \A t \in Workers \cup {Helper} : WF_vars(Alive /\ WakeOne(t))
  /\ \A f \in Fibers : WF_vars(Alive /\ Mature(f))

FairSpec == Spec /\ Fairness

-----------------------------------------------------------------------------
(* Properties.                                                             *)

FiberOrNone == Fibers \cup {NoFiber}
Labels == {"off", "top", "drain", "next", "pop", "best", "global", "steal", "split",
           "keep", "steal_pop", "timer", "park", "spin", "asleep", "awake", "run",
           "parking", "ending", "exited"}

(* Every variable keeps its type; a worker runs a fiber exactly while its  *)
(* thread is in one, and due timers are in the heap.                       *)
TypeOK ==
  /\ \A w \in Workers :
       /\ local[w] \in Seq(Fibers) /\ ready[w] \in Seq(Fibers) /\ held[w] \in Seq(Fibers)
       /\ runnext[w] \in FiberOrNone /\ spare[w] \in Tasks \cup {NoFiber}
       /\ cur[w] \in FiberOrNone /\ (cur[w] # NoFiber <=> wpc[w] \in {"run", "parking"})
       /\ parked[w] \in BOOLEAN /\ hot[w] \in BOOLEAN /\ wpc[w] \in Labels
       /\ victim[w] \in Workers /\ timeout[w] \in FiberOrNone
  /\ \A t \in Workers \cup {Helper} : wake[t] \in Seq(Workers)
  /\ global \in Seq(Fibers) /\ pool \in Seq(Tasks) /\ fresh \subseteq Tasks
  /\ due \subseteq timers /\ timers \subseteq Fibers /\ waitq \subseteq Fibers
  /\ home \in [Fibers -> Workers \cup {NoWorker}] /\ prio \in [Fibers -> Prios]
  /\ saved \in [Fibers -> BOOLEAN]
  /\ {prio_used, started, main_done} \subseteq BOOLEAN
  /\ spawns \in 0..MaxSpawns /\ parks \in 0..MaxParks

(* The places that hold fiber f: run queues, wait queues, timers, lists in *)
(* a worker's hands, the recycling stores.                                 *)
In(name, q, f) == {<<name, i>> : i \in {j \in DOMAIN q : q[j] = f}}
Slots(f) ==
  UNION {In(<<"local", w>>, local[w], f) \cup In(<<"ready", w>>, ready[w], f)
           \cup In(<<"held", w>>, held[w], f) : w \in Workers}
  \cup In("runnext", runnext, f) \cup In("spare", spare, f)
  \cup In("global", global, f) \cup In("pool", pool, f)
  \cup {<<"timers", x>> : x \in timers \cap {f}}
  \cup {<<"waitq", x>> : x \in waitq \cap {f}}
  \cup {<<"fresh", x>> : x \in fresh \cap {f}}

OnCpu(f) == \E w \in Workers : cur[w] = f /\ wpc[w] = "run"

(* Through spawns, steals, unparks and recycling every fiber is in exactly *)
(* one place, and in none while it runs or once MAIN is over: no task is   *)
(* lost, queued twice or recycled while it is live.                        *)
OnePlace ==
  \A f \in Fibers :
    Cardinality(Slots(f)) = IF OnCpu(f) \/ (f = Main /\ main_done) THEN 0 ELSE 1

(* A worker switches only to a fiber whose registers are completely saved, *)
(* although the fiber was published for unparking before it switched away. *)
NoHalfSavedResume ==
  [][\A w \in Workers : cur'[w] \notin {NoFiber, cur[w]} => saved[cur'[w]]]_vars

(* A worker sleeps on its condvar with a task in its ready list, or worker *)
(* 0 after MAIN's end, only while a thread is about to signal it.          *)
NoSleepOnWork ==
  \A w \in Workers :
    wpc[w] = "asleep" =>
      /\ runnext[w] = NoFiber
      /\ ready[w] # <<>> \/ (w = 0 /\ main_done) =>
           \E t \in Workers \cup {Helper} : w \in Elems(wake[t])

(* Every fiber that can be unparked has an owner, so the global queue,     *)
(* whose pop is not safe with several consumers, is never used.            *)
OwnerRecorded ==
  /\ \A f \in waitq \cup timers : home[f] # NoWorker
  /\ global = <<>>


Runnable(f) ==
  \/ \E w \in Workers : f \in Elems(local[w]) \cup Elems(ready[w]) \cup Elems(held[w])
                             \cup {runnext[w]}
  \/ f \in due


(* The program ends after MAIN's end, whichever worker ran it and whatever *)
(* worker 0 was doing.                                                     *)
EndsAfterMain == main_done ~> ~Alive

(* Types, places and owners together: whatever spawn, steal, hand-back,    *)
(* DELAY and recycling do, every fiber is in one place, and one that can   *)
(* be unparked has the owner recorded that alone may run it again.         *)
FibersSound == TypeOK /\ OnePlace /\ OwnerRecorded

(* The recycled tasks are interchangeable. *)
TaskSymmetry == Permutations(Tasks)
=============================================================================
