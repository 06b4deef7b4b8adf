------------------------------- MODULE RtSync -------------------------------
(***************************************************************************)
(* The lock layer of the runtime in fiber mode (runtime/rt_sync.c): one    *)
(* rt_lock and one rt_cond that waits under it.                            *)
(*                                                                         *)
(* A step is what happens between two points at which another worker can   *)
(* look: the section under the metadata spin lock is one step, the unpark  *)
(* that follows it is another.  The scheduler is seen through its promise  *)
(* (module Scheduler): an unparked fiber is in its owner's ready list,     *)
(* `ready' here, even when it has not finished parking yet, and a parked   *)
(* fiber resumes only from there.                                          *)
(*                                                                         *)
(* The callers of this layer release and signal only while they hold the   *)
(* lock (rt_task.c, rt_stream.c, rt_file.c); held[f] counts what f's code  *)
(* has been granted and has not given back.                                *)
(***************************************************************************)
EXTENDS Queues, FiniteSets

CONSTANTS Fibers,    \* the tasks that use the lock
          NoFiber,   \* the NULL pli_fiber pointer
          Keys,      \* what a keyed wait can name: event addresses
          AnyKey,    \* the NULL key: wait for anything
          AllKeys,   \* rt_cond_broadcast: wake whatever the key
          MaxDepth   \* bound on the recursion depth the callers use

ASSUME NoFiberAssumption == NoFiber \notin Fibers
ASSUME KeyAssumption == AnyKey \notin Keys /\ AllKeys \notin Keys /\ AnyKey # AllKeys
ASSUME MaxDepthAssumption == MaxDepth \in Nat \ {0}

VARIABLES owner,     \* rt_lock.owner
          depth,     \* rt_lock.depth
          waiters,   \* rt_lock.waiters, newest first
          cwaiters,  \* rt_cond.waiters, newest first
          wait_key,  \* pli_fiber.wait_key
          pc,        \* where in this layer each fiber is
          hand,      \* the waiter a releasing fiber is about to unpark
          walk,      \* rt_cond_signal_key: the part of the queue still to visit
          keep,      \* ... and the waiters put back so far
          sigkey,    \* ... and the key it signals
          ready,     \* fibers unparked and not yet resumed
          held       \* history: acquisitions granted and not given back

lockVars == <<owner, depth, waiters>>
condVars == <<cwaiters, wait_key>>
walkVars == <<walk, keep, sigkey>>
vars == <<owner, depth, waiters, cwaiters, wait_key, pc, hand, walk, keep,
          sigkey, ready, held>>

FiberOrNone == Fibers \cup {NoFiber}

(* The fibers enlisted on the condition, a walk in progress included. *)
CondQueued ==
  Elems(cwaiters) \cup UNION {Elems(walk[g]) \cup Elems(keep[g]) : g \in Fibers}

Init ==
  /\ owner = NoFiber /\ depth = 0 /\ waiters = <<>>
  /\ cwaiters = <<>> /\ wait_key = [f \in Fibers |-> AnyKey]
  /\ pc = [f \in Fibers |-> "run"]
  /\ hand = [f \in Fibers |-> NoFiber]
  /\ walk = [f \in Fibers |-> <<>>]
  /\ keep = [f \in Fibers |-> <<>>]
  /\ sigkey = [f \in Fibers |-> AnyKey]
  /\ ready = {}
  /\ held = [f \in Fibers |-> 0]

-----------------------------------------------------------------------------
(* rt_lock_acquire, by a task or by rt_cond_wait_key on its way out.       *)

(* Mutant: rt_lock_acquire that skips the `if (!l->owner)' test. *)
LockTakeNoTest(f) ==
  /\ owner # f
  /\ owner' = f /\ depth' = 1
  /\ held' = [held EXCEPT ![f] = @ + 1]
  /\ pc' = [pc EXCEPT ![f] = "run"]
  /\ UNCHANGED <<waiters, condVars, hand, walkVars, ready>>

LockTake(f) ==
  /\ owner = NoFiber
  /\ owner' = f /\ depth' = 1
  /\ held' = [held EXCEPT ![f] = @ + 1]
  /\ pc' = [pc EXCEPT ![f] = "run"]
  /\ UNCHANGED <<waiters, condVars, hand, walkVars, ready>>

LockRecurse(f) ==
  /\ owner = f /\ depth < MaxDepth
  /\ depth' = depth + 1
  /\ held' = [held EXCEPT ![f] = @ + 1]
  /\ pc' = [pc EXCEPT ![f] = "run"]
  /\ UNCHANGED <<owner, waiters, condVars, hand, walkVars, ready>>

LockEnqueue(f) ==
  /\ owner \notin {NoFiber, f}
  /\ waiters' = <<f>> \o waiters
  /\ pc' = [pc EXCEPT ![f] = "lock_park"]
  /\ UNCHANGED <<owner, depth, condVars, hand, walkVars, ready, held>>

LockAcquire(f) ==
  /\ pc[f] \in {"run", "relock"}
  /\ LockTake(f) \/ LockRecurse(f) \/ LockEnqueue(f)

(* The fiber handed the lock by rt_lock_release comes back from its park:  *)
(* it re-checks nothing.                                                   *)
LockResume(f) ==
  /\ pc[f] = "lock_park" /\ f \in ready
  /\ ready' = ready \ {f}
  /\ held' = [held EXCEPT ![f] = @ + 1]
  /\ pc' = [pc EXCEPT ![f] = "run"]
  /\ UNCHANGED <<lockVars, condVars, hand, walkVars>>

-----------------------------------------------------------------------------
(* rt_lock_release, up to the unpark.  The caller goes on at `done' when   *)
(* nobody waits, and to the unpark at `unpark' otherwise.                  *)

(* Mutant: no `if (w)' test before the hand-over. *)
ReleaseNullWaiter(f, unpark, done) ==
  LET w == IF waiters = <<>> THEN NoFiber ELSE Head(waiters) IN
  /\ held' = [held EXCEPT ![f] = @ - 1]
  /\ owner' = w /\ depth' = IF w = NoFiber THEN 0 ELSE 1
  /\ waiters' = IF w = NoFiber THEN <<>> ELSE Tail(waiters)
  /\ hand' = [hand EXCEPT ![f] = w]
  /\ pc' = [pc EXCEPT ![f] = unpark]

(* Mutant: a hand-over whose unpark is missing. *)
ReleaseNoUnpark(f, unpark, done) ==
  /\ held' = [held EXCEPT ![f] = @ - 1]
  /\ owner' = IF waiters = <<>> THEN NoFiber ELSE Head(waiters)
  /\ depth' = IF waiters = <<>> THEN 0 ELSE 1
  /\ waiters' = IF waiters = <<>> THEN <<>> ELSE Tail(waiters)
  /\ pc' = [pc EXCEPT ![f] = done]
  /\ UNCHANGED hand

ReleaseLast(f, unpark, done) ==
  /\ held' = [held EXCEPT ![f] = @ - 1]
  /\ IF waiters = <<>>
     THEN /\ owner' = NoFiber /\ depth' = 0
          /\ pc' = [pc EXCEPT ![f] = done]
          /\ UNCHANGED <<waiters, hand>>
     ELSE /\ owner' = Head(waiters) /\ depth' = 1
          /\ waiters' = Tail(waiters)
          /\ hand' = [hand EXCEPT ![f] = Head(waiters)]
          /\ pc' = [pc EXCEPT ![f] = unpark]

LockRelease(f) ==
  /\ pc[f] = "run" /\ held[f] > 0
  /\ \/ /\ depth > 1
        /\ depth' = depth - 1
        /\ held' = [held EXCEPT ![f] = @ - 1]
        /\ UNCHANGED <<owner, waiters, pc, hand>>
     \/ /\ depth <= 1
        /\ ReleaseLast(f, "unpark", "run")
  /\ UNCHANGED <<condVars, walkVars, ready>>

(* rt_sched_unpark of the waiter that was handed the lock. *)
Unpark(f) ==
  /\ pc[f] \in {"unpark", "cond_unpark"}
  /\ ready' = ready \cup {hand[f]}
  /\ hand' = [hand EXCEPT ![f] = NoFiber]
  /\ pc' = [pc EXCEPT ![f] = IF @ = "unpark" THEN "run" ELSE "cond_park"]
  /\ UNCHANGED <<lockVars, condVars, walkVars, held>>

-----------------------------------------------------------------------------
(* rt_cond_wait_key: enlist under the lock, release it, park, take it      *)
(* again.  Every caller holds the lock exactly once.                       *)

CondWait(f, key) ==
  /\ pc[f] = "run" /\ held[f] = 1
  /\ wait_key' = [wait_key EXCEPT ![f] = key]
  /\ cwaiters' = <<f>> \o cwaiters
  /\ ReleaseLast(f, "cond_unpark", "cond_park")
  /\ UNCHANGED <<walkVars, ready>>

CondResume(f) ==
  /\ pc[f] = "cond_park" /\ f \in ready
  /\ ready' = ready \ {f}
  /\ pc' = [pc EXCEPT ![f] = "relock"]
  /\ UNCHANGED <<lockVars, condVars, hand, walkVars, held>>

(* rt_cond_signal_key and, with AllKeys, rt_cond_broadcast. *)
CondSignal(f, key) ==
  /\ pc[f] = "run" /\ held[f] > 0
  /\ walk' = [walk EXCEPT ![f] = cwaiters]
  /\ cwaiters' = <<>>
  /\ keep' = [keep EXCEPT ![f] = <<>>]
  /\ sigkey' = [sigkey EXCEPT ![f] = key]
  /\ pc' = [pc EXCEPT ![f] = "walk"]
  /\ UNCHANGED <<lockVars, wait_key, hand, ready, held>>

Matches(f, w) == wait_key[w] = AnyKey \/ sigkey[f] \in {AllKeys, wait_key[w]}

(* Mutant: a waiter for another key is dropped instead of put back. *)
WalkDropsOthers(f) ==
  /\ pc[f] = "walk" /\ walk[f] # <<>>
  /\ ready' = IF Matches(f, Head(walk[f])) THEN ready \cup {Head(walk[f])} ELSE ready
  /\ walk' = [walk EXCEPT ![f] = Tail(@)]
  /\ UNCHANGED <<lockVars, condVars, pc, hand, keep, sigkey, held>>

(* Mutant: a woken waiter stays on the condition's queue. *)
WalkKeepsWoken(f) ==
  /\ pc[f] = "walk" /\ walk[f] # <<>>
  /\ ready' = IF Matches(f, Head(walk[f])) THEN ready \cup {Head(walk[f])} ELSE ready
  /\ keep' = [keep EXCEPT ![f] = Append(@, Head(walk[f]))]
  /\ walk' = [walk EXCEPT ![f] = Tail(@)]
  /\ UNCHANGED <<lockVars, condVars, pc, hand, sigkey, held>>

WalkStep(f) ==
  /\ pc[f] = "walk" /\ walk[f] # <<>>
  /\ LET w == Head(walk[f]) IN
       IF Matches(f, w)
       THEN ready' = ready \cup {w} /\ UNCHANGED keep
       ELSE keep' = [keep EXCEPT ![f] = Append(@, w)] /\ UNCHANGED ready
  /\ walk' = [walk EXCEPT ![f] = Tail(@)]
  /\ UNCHANGED <<lockVars, condVars, pc, hand, sigkey, held>>

WalkEnd(f) ==
  /\ pc[f] = "walk" /\ walk[f] = <<>>
  /\ cwaiters' = keep[f]
  /\ keep' = [keep EXCEPT ![f] = <<>>]
  /\ pc' = [pc EXCEPT ![f] = "run"]
  /\ UNCHANGED <<lockVars, wait_key, hand, walk, sigkey, ready, held>>

-----------------------------------------------------------------------------
Step(f) ==
  \/ LockAcquire(f) \/ LockResume(f) \/ LockRelease(f) \/ Unpark(f)
  \/ \E key \in Keys \cup {AnyKey} : CondWait(f, key)
  \/ CondResume(f)
  \/ \E key \in Keys \cup {AllKeys} : CondSignal(f, key)
  \/ WalkStep(f) \/ WalkEnd(f)

Next == \E f \in Fibers : Step(f)

Spec == Init /\ [][Next]_vars

-----------------------------------------------------------------------------
PcValues == {"run", "lock_park", "unpark", "cond_unpark", "cond_park", "relock", "walk"}

(* Every variable keeps its type; the two queues and the walk hold fibers. *)
TypeOK ==
  /\ owner \in FiberOrNone /\ depth \in 0..MaxDepth
  /\ waiters \in Seq(Fibers) /\ cwaiters \in Seq(Fibers)
  /\ wait_key \in [Fibers -> Keys \cup {AnyKey}]
  /\ pc \in [Fibers -> PcValues]
  /\ hand \in [Fibers -> FiberOrNone]
  /\ walk \in [Fibers -> Seq(Fibers)] /\ keep \in [Fibers -> Seq(Fibers)]
  /\ sigkey \in [Fibers -> Keys \cup {AnyKey, AllKeys}]
  /\ ready \in SUBSET Fibers
  /\ held \in [Fibers -> 0..MaxDepth]

(* Two tasks are never inside the lock at once, although a release makes   *)
(* the next waiter the owner before that waiter runs.                      *)
MutualExclusion ==
  \A f, g \in Fibers : held[f] > 0 /\ held[g] > 0 => f = g

(* The lock is never free while a task waits for it: the release hands it  *)
(* over under the same metadata section that finds the queue.              *)
NoIdleLock == owner = NoFiber => waiters = <<>>

(* A task parked for the lock is still queued, or it is the owner and its  *)
(* unpark has happened or is in a releasing task's hand: it cannot be      *)
(* forgotten between the hand-over and the unpark.                         *)
NoStrandedWaiter ==
  \A f \in Fibers : pc[f] = "lock_park" =>
    \/ f \in Elems(waiters)
    \/ owner = f /\ (f \in ready \/ \E g \in Fibers : hand[g] = f)

(* A task in rt_cond_wait is on the condition's queue, in the list a       *)
(* signaler is walking, or unparked; a signal between its enlisting and    *)
(* its park is not lost.                                                   *)
NoLostWaiter ==
  \A f \in Fibers : pc[f] \in {"cond_unpark", "cond_park"} =>
    f \in CondQueued \cup ready

(* wait_next serves the lock's queue and the condition's: a fiber is never *)
(* on both, nor twice on one, nor queued while it is already unparked.     *)
OneQueue ==
  /\ Distinct(waiters) /\ Distinct(cwaiters)
  /\ \A g \in Fibers : Distinct(walk[g]) /\ Distinct(keep[g])
  /\ \A g, h \in Fibers :
       /\ Elems(cwaiters) \cap (Elems(walk[g]) \cup Elems(keep[g])) = {}
       /\ Elems(walk[g]) \cap Elems(keep[h]) = {}
       /\ g # h => Elems(walk[g]) \cap Elems(walk[h]) = {}
  /\ Elems(waiters) \cap CondQueued = {}
  /\ ready \cap (Elems(waiters) \cup CondQueued) = {}
=============================================================================
