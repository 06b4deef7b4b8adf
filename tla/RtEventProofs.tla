---------------------------- MODULE RtEventProofs ---------------------------
(***************************************************************************)
(* EVENTs and WAIT for every number of tasks and events.                   *)
(*                                                                         *)
(* The lock layer's invariant (RtSyncProofs) says that what happens under  *)
(* pli_ev_mu is not interleaved.  On top of it: a fiber's operation says   *)
(* where in the lock layer it can be (OpInv); a waiter's key is the event  *)
(* it waits for (KeyInv); of a walked queue only waiters for the event     *)
(* just completed can have anything done (WalkedInv); an event has one     *)
(* active task, attached after the reset (TaskInv), so an event found      *)
(* complete has none, and a WAIT's tasks are active or done (DueInv).      *)
(***************************************************************************)
EXTENDS RtEvent, RtSyncProofs

Entering == {"reset_enter", "wait_enter", "waitn_enter", "complete_enter"}
Calling == {"reset_enter", "reset", "spawn"}
Waiting == {"wait", "waitn"}

(* Where in the lock layer a fiber can be, and whether it holds the lock. *)
OpInv ==
  \A f \in Fibers :
    /\ op[f] \in {"free", "idle"} \cup Entering => pc[f] = "run" /\ held[f] = 0
    /\ op[f] \in {"spawn", "dying", "waited"} => pc[f] \in {"run", "unpark"} /\ held[f] = 0
    /\ op[f] \in {"reset", "complete"} => pc[f] \in {"run", "lock_park"}
    /\ op[f] = "complete_exit" => pc[f] \in {"run", "walk"} /\ held[f] = 1
    /\ op[f] \in Waiting => pc[f] \in {"run", "lock_park", "cond_unpark", "cond_park", "relock"}
    /\ op[f] \in {"reset", "complete"} \cup Waiting =>
         IF pc[f] = "run" THEN held[f] = 1 ELSE held[f] = 0

(* What a waiter's key says. *)
KeyInv ==
  \A f \in Fibers :
    /\ op[f] \in {"wait_enter", "wait"} => \E e \in Keys : arg[f] = {e}
    /\ op[f] = "wait" /\ pc[f] \in Parking => arg[f] = {wait_key[f]}
    /\ op[f] = "waitn" /\ pc[f] \in Parking => wait_key[f] = AnyKey

(* A sleeper's reason, seen from its key. *)
Idle(f) == IF op[f] = "wait" THEN \A e \in arg[f] : ev[e] = 0
           ELSE DoneCount(arg[f]) < need[f]

AsleepInv ==
  \A f \in Fibers :
    f \in Elems(cwaiters) \/ (\E g \in Fibers : f \in Elems(keep[g])) => Idle(f)

WalkedInv ==
  \A g \in Fibers : pc[g] = "walk" => \A w \in Elems(walk[g]) :
    op[w] = "wait" => sigkey[g] \in arg[w] \/ Idle(w)

(* f's task is attached to e and has not completed it. *)
On(f, e) == e \in myev[f] /\ op[f] \notin {"complete_exit", "dying"}

TaskInv ==
  /\ \A f, g \in Fibers, e \in Keys : On(f, e) /\ On(g, e) => f = g
  /\ \A f \in Fibers, e \in Keys : On(f, e) => ev[e] = 0 /\ inst[e] = mine[f]
  /\ \A f \in Fibers : op[f] = "free" => myev[f] = {}
  /\ \A f \in Fibers : op[f] \in {"complete_enter", "complete"} => mine[f] \in body
  /\ \A f \in Fibers : f # Main /\ op[f] # "free" => mine[f] # 0

(* A CALL in progress has a fiber and an event to itself. *)
CallInv ==
  /\ \A f \in Fibers : child[f] # NoFiber <=> op[f] \in Calling
  /\ \A f \in Fibers : op[f] \in Calling =>
       /\ op[child[f]] = "free"
       /\ \E e \in Keys : arg[f] = {e}
       /\ \A e \in arg[f] : ~Active(e) /\ (op[f] = "spawn" => ev[e] = 0)
  /\ \A f, g \in Fibers : op[f] \in Calling /\ op[g] \in Calling /\ f # g =>
       child[f] # child[g] /\ arg[f] \cap arg[g] = {}

Pending == {f \in Fibers : child[f] # NoFiber}
SpawnInv == IsFiniteSet(Pending) /\ started + Cardinality(Pending) <= MaxSpawns

(* A WAIT's tasks have returned or are active on its event. *)
DueInv ==
  \A f \in Fibers :
    /\ op[f] \in {"wait_enter", "wait"} => \A e \in arg[f], i \in due[f] :
         i \in body \/ \E g \in Fibers : On(g, e) /\ mine[g] = i
    /\ op[f] \in {"waitn_enter", "waitn"} => due[f] = {}

EvInv ==
  /\ IInv /\ EvTypeOK
  /\ OpInv /\ KeyInv /\ AsleepInv /\ WalkedInv
  /\ TaskInv /\ CallInv /\ SpawnInv /\ DueInv /\ JoinSound

(* What is used of finite sets; it holds (CountingHolds of RtEventProofs). *)
Counting ==
  /\ \A E \in SUBSET Keys : Cardinality(E) \in Nat /\ \A D \in SUBSET E : Cardinality(D) <= Cardinality(E)
  /\ \A S \in SUBSET Fibers, x \in Fibers : IsFiniteSet(S) =>
       /\ Cardinality(S) \in Nat /\ IsFiniteSet(S \cup {x}) /\ IsFiniteSet(S \ {x})
       /\ x \notin S => Cardinality(S \cup {x}) = Cardinality(S) + 1
       /\ x \in S => Cardinality(S \ {x}) = Cardinality(S) - 1

-----------------------------------------------------------------------------
(* The operations of the lock layer, as the event layer uses them. *)

(* The last release of the lock changes nothing of the condition. *)
LEMMA ReleaseFacts ==
  ASSUME IInv, NEW f \in Fibers, Locked(f), LockRelease(f)
  PROVE  /\ held' = [held EXCEPT ![f] = 0]
         /\ \E l \in {"run", "unpark"} : pc' = [pc EXCEPT ![f] = l]
         /\ UNCHANGED <<cwaiters, wait_key, walk, keep, sigkey>>
<1>1. depth = 1
  BY DEF IInv, LockInv, Locked
<1>2. ReleaseLast(f, "unpark", "run") /\ UNCHANGED <<condVars, walkVars, ready>>
  BY <1>1 DEF LockRelease
<1> QED  BY <1>2 DEF IInv, TypeOK, Locked, ReleaseLast, condVars, walkVars

(* A first acquisition gets the lock or parks. *)
LEMMA AcquireFacts ==
  ASSUME IInv, NEW f \in Fibers, held[f] = 0, pc[f] \in {"run", "relock"}, LockAcquire(f)
  PROVE  /\ \/ pc' = [pc EXCEPT ![f] = "run"] /\ held' = [held EXCEPT ![f] = 1]
            \/ pc' = [pc EXCEPT ![f] = "lock_park"] /\ held' = held
         /\ UNCHANGED <<cwaiters, wait_key, walk, keep, sigkey>>
<1>1. owner # f
  BY Zenon DEF IInv, LockInv
<1>2. CASE LockTake(f)
  BY <1>2 DEF LockTake, condVars, walkVars, IInv, TypeOK
<1>3. CASE LockEnqueue(f)
  BY <1>3, Zenon DEF LockEnqueue, condVars, walkVars
<1> QED  BY <1>1, <1>2, <1>3, Zenon DEF LockAcquire, LockRecurse

(* While one fiber runs inside the lock nobody walks the condition's queue. *)
LEMMA NobodyWalks ==
  ASSUME IInv, NEW f \in Fibers, Locked(f)
  PROVE  \A g \in Fibers : pc[g] # "walk" /\ walk[g] = <<>> /\ keep[g] = <<>>
  BY DEF IInv, LockInv, WalkInv, Locked

(* A wait gives the lock up and enlists the fiber. *)
LEMMA WaitFacts ==
  ASSUME IInv, NEW f \in Fibers, NEW k \in Keys \cup {AnyKey}, CondWait(f, k)
  PROVE  /\ held' = [held EXCEPT ![f] = 0]
         /\ \E l \in Parking : pc' = [pc EXCEPT ![f] = l]
         /\ wait_key' = [wait_key EXCEPT ![f] = k]
         /\ Elems(cwaiters') = Elems(cwaiters) \cup {f}
         /\ UNCHANGED <<walk, keep, sigkey>>
<1>1. cwaiters \in Seq(Fibers) /\ f \notin Elems(cwaiters) /\ Distinct(cwaiters)
  BY Zenon DEF IInv, TypeOK, CondInv, Enlisted, Parking, CondWait
<1>2. Elems(<<f>> \o cwaiters) = Elems(cwaiters) \cup {f}
  BY <1>1, PushFacts
<1>3. cwaiters' = <<f>> \o cwaiters
  BY Zenon DEF CondWait
<1>4. held' = [held EXCEPT ![f] = 0]
  BY DEF CondWait, ReleaseLast, IInv, TypeOK
<1>5. \E l \in Parking : pc' = [pc EXCEPT ![f] = l]
  BY Zenon DEF CondWait, ReleaseLast, Parking
<1> QED  BY <1>2, <1>3, <1>4, <1>5, Zenon DEF CondWait, walkVars

(* A fiber's reason to sleep depends on its own words and the events. *)
LEMMA IdleFrame ==
  ASSUME NEW w \in Fibers, op'[w] = op[w], arg'[w] = arg[w], need'[w] = need[w], ev' = ev
  PROVE  Idle(w)' <=> Idle(w)
<1>1. DoneCount(arg[w])' = DoneCount(arg[w])
  BY Zenon DEF DoneCount, rt_ev_done
<1> QED  BY <1>1, Zenon DEF Idle

(* Enlisted fibers are in pli_event_wait or pli_wait_n. *)
LEMMA EnlistedWaits ==
  ASSUME EvInv, NEW w \in Fibers, Enlisted(w)
  PROVE  pc[w] \in Parking /\ op[w] \in Waiting
<1>1. pc[w] \in Parking
  BY Zenon DEF EvInv, IInv, CondInv
<1> QED  BY <1>1, Zenon DEF EvInv, EvTypeOK, OpInv, Ops, Parking, Entering, Waiting

-----------------------------------------------------------------------------
(* Steps inside the lock layer.  They leave the events alone. *)

(* What the tasks and their events are is not the lock layer's business. *)
LEMMA TaskFrame ==
  ASSUME EvInv, IInv', UNCHANGED <<ev, op, arg, taskVars>>
  PROVE  EvTypeOK' /\ TaskInv' /\ CallInv' /\ SpawnInv' /\ DueInv' /\ JoinSound'
<1> USE DEF taskVars, EvInv
<1>1. EvTypeOK'
  BY Zenon DEF EvTypeOK, IInv
<1>2. TaskInv' /\ CallInv' /\ DueInv' /\ JoinSound'
  BY DEF TaskInv, CallInv, DueInv, JoinSound, On, Active
<1>3. SpawnInv'
  BY Zenon DEF SpawnInv, Pending
<1> QED  BY <1>1, <1>2, <1>3, Zenon

(* A fiber moves to l in the lock layer and then holds the lock n times;   *)
(* the condition's lists stay.                                             *)
Moves(f, l, n) ==
  /\ pc' = [pc EXCEPT ![f] = l] /\ held' = [held EXCEPT ![f] = n]
  /\ l \in {"run", "lock_park", "cond_park", "relock"} /\ pc[f] # "walk"
  /\ op[f] \in {"reset", "complete"} => l \in {"run", "lock_park"}
  /\ op[f] \in {"reset", "complete"} \cup Waiting => n = IF l = "run" THEN 1 ELSE 0
  /\ op[f] \in {"spawn", "dying", "waited"} => l = "run" /\ n = 0
  /\ op[f] \notin {"free", "idle", "complete_exit"} \cup Entering
  /\ l = "cond_park" => pc[f] = "cond_unpark"
  /\ UNCHANGED <<cwaiters, wait_key, walk, keep, sigkey>>

(* Such a move keeps the invariant. *)
LEMMA MoveInv ==
  ASSUME EvInv, IInv', NEW f \in Fibers, NEW l, NEW n, Moves(f, l, n),
         UNCHANGED <<ev, op, arg, taskVars>>
  PROVE  EvInv'
<1> USE DEF Moves
<1>0. pc \in [Fibers -> PcValues] /\ held \in [Fibers -> Nat]
  BY DEF EvInv, IInv, TypeOK
<1>1. OpInv'
  BY <1>0, SMTT(30) DEF EvInv, OpInv, Entering, Waiting, PcValues
<1>2. KeyInv'
  BY <1>0, Zenon DEF EvInv, KeyInv, Parking, Waiting
<1>3. \A w \in Fibers : Idle(w)' <=> Idle(w)
  BY IdleFrame, Zenon DEF taskVars
<1>4. AsleepInv'
  BY <1>3, Zenon DEF EvInv, AsleepInv
<1>5. WalkedInv'
  <2>1. \A g \in Fibers : pc'[g] = "walk" => pc[g] = "walk"
    BY <1>0, Zenon
  <2>2. \A g \in Fibers : \A w \in Elems(walk[g]) : w \in Fibers
    BY DEF EvInv, IInv, TypeOK, Elems
  <2> QED  BY <1>3, <2>1, <2>2, Zenon DEF EvInv, WalkedInv
<1> QED  BY <1>1, <1>2, <1>4, <1>5, TaskFrame, Zenon DEF EvInv

(* A fiber comes back from its park, or goes on from an unpark. *)
LEMMA ResumeInv ==
  ASSUME EvInv, IInv', NEW f \in Fibers, LockResume(f) \/ Unpark(f) \/ CondResume(f),
         UNCHANGED <<ev, op, arg, taskVars>>
  PROVE  EvInv'
<1> USE DEF Entering, Waiting, PcValues
<1>0. /\ pc \in [Fibers -> PcValues] /\ held \in [Fibers -> 0..MaxDepth] /\ MaxDepth \in Nat
      /\ op[f] \in Ops
  BY MaxDepthAssumption, Zenon DEF EvInv, EvTypeOK, TypeOK
<1>1. CASE LockResume(f)
  <2>1. pc[f] = "lock_park" /\ held[f] = 0 /\ op[f] \in {"reset", "complete", "wait", "waitn"}
    BY <1>0, <1>1, Zenon DEF LockResume, EvInv, OpInv, Ops
  <2>2. pc' = [pc EXCEPT ![f] = "run"] /\ held' = [held EXCEPT ![f] = 1]
    BY <1>0, <1>1, <2>1 DEF LockResume
  <2>3. Moves(f, "run", 1)
    BY <1>1, <2>1, <2>2, Zenon DEF Moves, LockResume, lockVars, condVars, walkVars
  <2> QED  BY <2>3, MoveInv, Zenon
<1>2. CASE CondResume(f)
  <2>1. pc[f] = "cond_park" /\ held[f] = 0 /\ op[f] \in {"wait", "waitn"}
    BY <1>0, <1>2, Zenon DEF CondResume, EvInv, OpInv, Ops
  <2>2. pc' = [pc EXCEPT ![f] = "relock"] /\ held' = [held EXCEPT ![f] = 0]
    BY <1>0, <1>2, <2>1, Zenon DEF CondResume
  <2>3. Moves(f, "relock", 0)
    BY <1>2, <2>1, <2>2, Zenon DEF Moves, CondResume, lockVars, condVars, walkVars
  <2> QED  BY <2>3, MoveInv, Zenon
<1>3. CASE Unpark(f) /\ pc[f] = "unpark"
  <2>1. held[f] = 0 /\ op[f] \in {"spawn", "dying", "waited"}
    BY <1>0, <1>3, Zenon DEF EvInv, OpInv, Ops
  <2>2. pc' = [pc EXCEPT ![f] = "run"] /\ held' = [held EXCEPT ![f] = 0]
    BY <1>0, <1>3, <2>1, Zenon DEF Unpark
  <2>3. Moves(f, "run", 0)
    BY <1>3, <2>1, <2>2, Zenon DEF Moves, Unpark, lockVars, condVars, walkVars
  <2> QED  BY <2>3, MoveInv, Zenon
<1>4. CASE Unpark(f) /\ pc[f] = "cond_unpark"
  <2>1. held[f] = 0 /\ op[f] \in {"wait", "waitn"}
    BY <1>0, <1>4, Zenon DEF EvInv, OpInv, Ops
  <2>2. pc' = [pc EXCEPT ![f] = "cond_park"] /\ held' = [held EXCEPT ![f] = 0]
    BY <1>0, <1>4, <2>1, Zenon DEF Unpark
  <2>3. Moves(f, "cond_park", 0)
    BY <1>4, <2>1, <2>2, Zenon DEF Moves, Unpark, lockVars, condVars, walkVars
  <2> QED  BY <2>3, MoveInv, Zenon
<1> QED  BY <1>1, <1>2, <1>3, <1>4, Zenon DEF Unpark

(* A fiber woken from the condition takes the lock again. *)
LEMMA RelockInv ==
  ASSUME EvInv, IInv', NEW f \in Fibers, pc[f] = "relock", LockAcquire(f),
         UNCHANGED <<ev, op, arg, taskVars>>
  PROVE  EvInv'
<1> USE DEF Entering, Waiting, PcValues
<1>1. op[f] \in {"wait", "waitn"} /\ held[f] = 0
  BY Zenon DEF EvInv, EvTypeOK, OpInv, Ops
<1>2. /\ \/ pc' = [pc EXCEPT ![f] = "run"] /\ held' = [held EXCEPT ![f] = 1]
         \/ pc' = [pc EXCEPT ![f] = "lock_park"] /\ held' = held
      /\ UNCHANGED <<cwaiters, wait_key, walk, keep, sigkey>>
  BY <1>1, AcquireFacts, Zenon DEF EvInv
<1>3. held' = held => held' = [held EXCEPT ![f] = 0]
  BY <1>1, Zenon DEF EvInv, IInv, TypeOK
<1>4. Moves(f, "run", 1) \/ Moves(f, "lock_park", 0)
  BY <1>1, <1>2, <1>3, Zenon DEF Moves
<1> QED  BY <1>4, MoveInv, Zenon

(* The condition's queue changes: the sleepers on it and what a walk has   *)
(* still to visit have their reasons.                                      *)
LEMMA ListsInv ==
  ASSUME EvInv, IInv', UNCHANGED <<pc, held, wait_key, sigkey, ev, op, arg, taskVars>>,
         \A w \in Fibers : w \in Elems(cwaiters') \/ (\E g \in Fibers : w \in Elems(keep'[g])) => Idle(w),
         \A g \in Fibers : Elems(walk'[g]) \subseteq Elems(walk[g])
  PROVE  EvInv'
<1>0. \A g \in Fibers : \A w \in Elems(walk[g]) : w \in Fibers
  BY DEF EvInv, IInv, TypeOK, Elems
<1>1. OpInv' /\ KeyInv'
  BY Zenon DEF EvInv, OpInv, KeyInv
<1>2. \A w \in Fibers : Idle(w)' <=> Idle(w)
  BY IdleFrame, Zenon DEF taskVars
<1>3. AsleepInv'
  BY <1>2, Zenon DEF AsleepInv
<1>4. WalkedInv'
  BY <1>0, <1>2, Zenon DEF EvInv, WalkedInv
<1> QED  BY <1>1, <1>3, <1>4, TaskFrame, Zenon DEF EvInv

(* The signaler visits a waiter: it wakes it, or puts it back because it   *)
(* waits for another event, which is incomplete.                           *)
LEMMA WalkStepInv ==
  ASSUME EvInv, IInv', NEW f \in Fibers, WalkStep(f), UNCHANGED <<ev, op, arg, taskVars>>
  PROVE  EvInv'
<1> DEFINE w == Head(walk[f])
<1>0. /\ pc[f] = "walk" /\ walk[f] # <<>> /\ walk[f] \in Seq(Fibers) /\ keep[f] \in Seq(Fibers)
      /\ walk \in [Fibers -> Seq(Fibers)] /\ keep \in [Fibers -> Seq(Fibers)] /\ Distinct(walk[f])
  BY Zenon DEF WalkStep, EvInv, IInv, TypeOK, WalkInv
<1>1. w \in Fibers /\ w \in Elems(walk[f]) /\ Elems(Tail(walk[f])) \subseteq Elems(walk[f])
  BY <1>0, PopFacts
<1>2. \A g \in Fibers : Elems(walk'[g]) \subseteq Elems(walk[g])
  BY <1>0, <1>1, Zenon DEF WalkStep
<1>3. UNCHANGED <<cwaiters, pc, held, wait_key, sigkey>>
  BY Zenon DEF WalkStep, condVars
<1>4. CASE Matches(f, w)
  <2>1. keep' = keep
    BY <1>4, Zenon DEF WalkStep
  <2> QED  BY <1>2, <1>3, <2>1, ListsInv, Zenon DEF EvInv, AsleepInv
<1>5. CASE ~Matches(f, w)
  <2>1. keep' = [keep EXCEPT ![f] = Append(@, w)] /\ Elems(Append(keep[f], w)) = Elems(keep[f]) \cup {w}
    BY <1>0, <1>1, <1>5, AppendFacts DEF WalkStep
  <2>2. pc[w] \in Parking /\ op[w] \in Waiting
    BY <1>1, EnlistedWaits, Zenon DEF Enlisted
  <2>3. wait_key[w] # AnyKey /\ sigkey[f] # wait_key[w]
    BY <1>5, Zenon DEF Matches
  <2>4. op[w] = "wait" /\ arg[w] = {wait_key[w]}
    BY <1>1, <2>2, <2>3, Zenon DEF EvInv, KeyInv, Waiting
  <2>5. Idle(w)
    BY <1>0, <1>1, <2>3, <2>4, Zenon DEF EvInv, WalkedInv
  <2>6. \A g \in Fibers : Elems(keep'[g]) \subseteq Elems(keep[g]) \cup {w}
    BY <1>0, <2>1, Zenon
  <2> QED  BY <1>2, <1>3, <2>5, <2>6, ListsInv, Zenon DEF EvInv, AsleepInv
<1> QED  BY <1>4, <1>5, Zenon

(* The waiters put back are the condition's queue again. *)
LEMMA WalkEndInv2 ==
  ASSUME EvInv, IInv', NEW f \in Fibers, WalkEnd(f), UNCHANGED <<ev, op, arg, taskVars>>
  PROVE  EvInv'
<1> USE DEF WalkEnd
<1>0. /\ pc \in [Fibers -> PcValues] /\ held \in [Fibers -> Nat] /\ keep \in [Fibers -> Seq(Fibers)]
      /\ \A g \in Fibers : \A w \in Elems(walk[g]) : w \in Fibers
  BY DEF EvInv, IInv, TypeOK, Elems
<1>1. op[f] = "complete_exit"
  BY Zenon DEF EvInv, EvTypeOK, OpInv, Ops, Entering, Waiting
<1>2. OpInv'
  BY <1>0, <1>1, Zenon DEF EvInv, OpInv, Entering, Waiting
<1>3. KeyInv'
  BY <1>0, <1>1, Zenon DEF EvInv, KeyInv, Parking
<1>4. \A w \in Fibers : Idle(w)' <=> Idle(w)
  BY IdleFrame, Zenon DEF taskVars
<1>5. AsleepInv'
  <2>1. \A g \in Fibers : Elems(keep'[g]) \subseteq Elems(keep[g])
    BY <1>0, EmptyFacts, Zenon
  <2> QED  BY <1>4, <2>1, Zenon DEF EvInv, AsleepInv
<1>6. WalkedInv'
  BY <1>0, <1>4, Zenon DEF EvInv, WalkedInv
<1> QED  BY <1>2, <1>3, <1>5, <1>6, TaskFrame, Zenon DEF EvInv

(* Every step inside the lock layer keeps the invariant. *)
LEMMA InsideInv == ASSUME EvInv, IInv', NEW f \in Fibers, Inside(f) PROVE EvInv'
  BY ResumeInv, RelockInv, WalkStepInv, WalkEndInv2, Zenon DEF Inside

-----------------------------------------------------------------------------
(* The operations on events under pli_ev_mu. *)

(* The sleepers and the walks, when a fiber that is not one of them goes   *)
(* on and no event completes.                                              *)
LEMMA SleepersInv ==
  ASSUME EvInv, NEW f \in Fibers, pc[f] \notin Parking, pc'[f] # "walk",
         \A w \in Fibers \ {f} : pc'[w] = pc[w] /\ op'[w] = op[w] /\ arg'[w] = arg[w] /\ need'[w] = need[w],
         ev' = ev, UNCHANGED <<cwaiters, wait_key, walk, keep, sigkey>>
  PROVE  AsleepInv' /\ WalkedInv'
<1>1. \A w \in Fibers : Enlisted(w) => w # f /\ (Idle(w)' <=> Idle(w)) /\ op'[w] = op[w] /\ arg'[w] = arg[w]
  BY IdleFrame, EnlistedWaits, Zenon
<1>2. AsleepInv'
  BY <1>1, Zenon DEF EvInv, AsleepInv, Enlisted
<1>3. \A g \in Fibers : \A w \in Elems(walk[g]) : w \in Fibers /\ Enlisted(w)
  BY DEF EvInv, IInv, TypeOK, Elems, Enlisted
<1>4. WalkedInv'
  BY <1>1, <1>3, Zenon DEF EvInv, WalkedInv
<1> QED  BY <1>2, <1>4, Zenon

(* A fiber goes on to operation o of the same kind; events can only become *)
(* incomplete.                                                             *)
GoesOn(f, o) ==
  /\ op' = [op EXCEPT ![f] = o] /\ o \in Ops \ {"free"} /\ op[f] # "free"
  /\ ev' \in [Keys -> {0, 1}] /\ \A e \in Keys : ev[e] = 0 => ev'[e] = 0
  /\ o \in {"complete_exit", "dying"} <=> op[f] \in {"complete_exit", "dying"}
  /\ o \in Calling <=> op[f] \in Calling
  /\ o = "spawn" => \A e \in arg[f] : ev'[e] = 0
  /\ o \in {"wait_enter", "wait"} => op[f] \in {"wait_enter", "wait"}
  /\ o \in {"waitn_enter", "waitn"} => op[f] \in {"waitn_enter", "waitn"}
  /\ o = "waited" => due[f] \subseteq body
  /\ o \in {"complete_enter", "complete"} => op[f] \in {"complete_enter", "complete"}
  /\ UNCHANGED <<arg, taskVars>>

(* The tasks and their events stay what they are. *)
LEMMA GoOnInv ==
  ASSUME EvInv, IInv', NEW f \in Fibers, NEW o, GoesOn(f, o)
  PROVE  EvTypeOK' /\ TaskInv' /\ CallInv' /\ SpawnInv' /\ DueInv' /\ JoinSound'
<1>0. /\ op \in [Fibers -> Ops] /\ op' = [op EXCEPT ![f] = o] /\ o \in Ops
      /\ UNCHANGED <<arg, need, child, started, inst, myev, mine, attached, body, due>>
  BY Zenon DEF EvInv, EvTypeOK, GoesOn, taskVars
<1>1. op'[f] = o /\ \A g \in Fibers \ {f} : op'[g] = op[g]
  BY <1>0, Zenon
<1>2. ASSUME NEW g \in Fibers
      PROVE  /\ (op'[g] \in {"complete_exit", "dying"} <=> op[g] \in {"complete_exit", "dying"})
             /\ op'[g] \in Calling <=> op[g] \in Calling
             /\ op'[g] \in {"complete_enter", "complete"} => op[g] \in {"complete_enter", "complete"}
             /\ op'[g] = "free" <=> op[g] = "free"
             /\ op'[g] \in {"wait_enter", "wait"} => op[g] \in {"wait_enter", "wait"}
             /\ op'[g] \in {"waitn_enter", "waitn"} => op[g] \in {"waitn_enter", "waitn"}
             /\ op'[g] = "waited" => op[g] = "waited" \/ due[g] \subseteq body
             /\ op'[g] = "spawn" => op[g] = "spawn" \/ \A e \in arg[g] : ev'[e] = 0
  BY <1>1, Zenon DEF GoesOn
<1>3. \A g \in Fibers, e \in Keys : (On(g, e)' <=> On(g, e))
  BY <1>0, <1>2, Zenon DEF On
<1>4. \A e \in Keys : (Active(e)' <=> Active(e))
  BY <1>0, <1>2, Zenon DEF Active
<1>5. EvTypeOK'
  BY <1>0, ZenonT(60) DEF EvInv, EvTypeOK, IInv, GoesOn
<1>6. TaskInv'
  <2>1. \A g, h \in Fibers, e \in Keys : On(g, e)' /\ On(h, e)' => g = h
    BY <1>3, Zenon DEF EvInv, TaskInv
  <2>2. \A g \in Fibers, e \in Keys : On(g, e)' => ev'[e] = 0 /\ inst[e] = mine[g]
    BY <1>3, Zenon DEF EvInv, TaskInv, GoesOn
  <2>3. \A g \in Fibers : op'[g] = "free" => myev[g] = {}
    BY <1>2, Zenon DEF EvInv, TaskInv
  <2>4. \A g \in Fibers : op'[g] \in {"complete_enter", "complete"} => mine[g] \in body
    BY <1>2, Zenon DEF EvInv, TaskInv
  <2>5. \A g \in Fibers : g # Main /\ op'[g] # "free" => mine[g] # 0
    BY <1>2, Zenon DEF EvInv, TaskInv
  <2> QED  BY <1>0, <2>1, <2>2, <2>3, <2>4, <2>5, Zenon DEF TaskInv
<1>7. CallInv'
  <2>1. \A g \in Fibers : child[g] # NoFiber <=> op'[g] \in Calling
    BY <1>2, Zenon DEF EvInv, CallInv
  <2>2. ASSUME NEW g \in Fibers, op'[g] \in Calling
        PROVE  /\ op'[child[g]] = "free"
               /\ \E e \in Keys : arg[g] = {e}
               /\ \A e \in arg[g] : ~Active(e)' /\ (op'[g] = "spawn" => ev'[e] = 0)
    <3>1. op[g] \in Calling /\ child[g] # NoFiber
      BY <1>2, <2>1, <2>2, Zenon
    <3>2. op[child[g]] = "free" /\ \A e \in arg[g] : ~Active(e) /\ (op[g] = "spawn" => ev[e] = 0)
      BY <3>1, Zenon DEF EvInv, CallInv
    <3>3. child[g] \in Fibers /\ arg[g] \in SUBSET Keys
      BY <3>1, Zenon DEF EvInv, EvTypeOK, FiberOrNone
    <3>4. \A e \in arg[g] : ~Active(e)' /\ (op'[g] = "spawn" => ev'[e] = 0)
      BY <1>2, <1>4, <3>2, <3>3, Zenon DEF GoesOn
    <3>5. \E e \in Keys : arg[g] = {e}
      BY <3>1, Zenon DEF EvInv, CallInv
    <3> QED  BY <1>2, <3>2, <3>3, <3>4, <3>5, Zenon
  <2>3. \A g, h \in Fibers : op'[g] \in Calling /\ op'[h] \in Calling /\ g # h =>
          child[g] # child[h] /\ arg[g] \cap arg[h] = {}
    BY <1>2, Zenon DEF EvInv, CallInv
  <2> QED  BY <1>0, <2>1, <2>2, <2>3, Zenon DEF CallInv
<1>8. SpawnInv'
  BY <1>0, Zenon DEF EvInv, SpawnInv, Pending
<1>9. DueInv'
  <2>1. ASSUME NEW g \in Fibers, op'[g] \in {"wait_enter", "wait"}, NEW e \in arg[g], NEW i \in due[g]
        PROVE  i \in body \/ \E h \in Fibers : On(h, e)' /\ mine[h] = i
    <3>1. op[g] \in {"wait_enter", "wait"} /\ e \in Keys
      BY <1>2, <2>1, Zenon DEF EvInv, EvTypeOK
    <3>2. i \in body \/ \E h \in Fibers : On(h, e) /\ mine[h] = i
      BY <2>1, <3>1 DEF EvInv, DueInv
    <3> QED  BY <1>3, <3>1, <3>2, Zenon
  <2>2. \A g \in Fibers : op'[g] \in {"waitn_enter", "waitn"} => due[g] = {}
    BY <1>2, Zenon DEF EvInv, DueInv
  <2>3. \A g \in Fibers : due'[g] = due[g] /\ arg'[g] = arg[g] /\ mine'[g] = mine[g]
    BY <1>0, Zenon
  <2> QED  BY <1>0, <2>1, <2>2, <2>3 DEF DueInv
<1>10. JoinSound'
  BY <1>0, <1>2, Zenon DEF EvInv, JoinSound
<1> QED  BY <1>5, <1>6, <1>7, <1>8, <1>9, <1>10, Zenon

(* rt_lock_acquire at the start of an operation. *)
LEMMA EnterInv == ASSUME EvInv, IInv', NEW f \in Fibers, Enter(f) PROVE EvInv'
<1> USE DEF Entering, Waiting
<1>0. /\ pc \in [Fibers -> PcValues] /\ held \in [Fibers -> Nat] /\ op \in [Fibers -> Ops]
      /\ held[f] = 0 /\ pc[f] = "run" /\ op[f] \in Entering
      /\ UNCHANGED <<ev, arg, need, child, started, inst, myev, mine, attached, body, due>>
  BY DEF EvInv, EvTypeOK, TypeOK, IInv, OpInv, Enter, taskVars
<1>1. /\ \/ pc' = [pc EXCEPT ![f] = "run"] /\ held' = [held EXCEPT ![f] = 1]
         \/ pc' = [pc EXCEPT ![f] = "lock_park"] /\ held' = held
      /\ UNCHANGED <<cwaiters, wait_key, walk, keep, sigkey>>
  BY <1>0, AcquireFacts, Zenon DEF EvInv, Enter
<1>2. PICK o \in {"reset", "wait", "waitn", "complete"} :
        /\ op' = [op EXCEPT ![f] = o]
        /\ o = "reset" <=> op[f] = "reset_enter"
        /\ o = "wait" <=> op[f] = "wait_enter"
        /\ o = "waitn" <=> op[f] = "waitn_enter"
        /\ o = "complete" <=> op[f] = "complete_enter"
  BY Zenon DEF Enter, Goto
<1>3. OpInv'
  BY <1>0, <1>1, <1>2, SMTT(30) DEF EvInv, OpInv
<1>4. KeyInv'
  BY <1>0, <1>1, <1>2, Zenon DEF EvInv, KeyInv, Parking
<1>5. AsleepInv' /\ WalkedInv'
  BY <1>0, <1>1, <1>2, SleepersInv, Zenon DEF Parking
<1>6. GoesOn(f, o)
  <2>1. o \in Ops \ {"free"} /\ ev' \in [Keys -> {0, 1}]
    BY <1>0, <1>2, Zenon DEF Ops, EvInv, EvTypeOK
  <2> QED  BY <1>0, <1>2, <2>1, Zenon DEF GoesOn, Calling, taskVars
<1>7. EvTypeOK' /\ TaskInv' /\ CallInv' /\ SpawnInv' /\ DueInv' /\ JoinSound'
  BY <1>6, GoOnInv, Zenon
<1> QED  BY <1>3, <1>4, <1>5, <1>7, Zenon DEF EvInv

(* When no event completes, no more of a set of events are complete. *)
LEMMA DoneCountShrinks ==
  ASSUME Counting, NEW E \in SUBSET Keys, \A e \in E : ev[e] = 0 => ev'[e] = 0
  PROVE  /\ DoneCount(E) \in Nat /\ Cardinality({e \in E : ev'[e] # 0}) \in Nat
         /\ Cardinality({e \in E : ev'[e] # 0}) <= DoneCount(E)
<1> DEFINE S == {e \in E : ev[e] # 0}
           T == {e \in E : ev'[e] # 0}
<1>1. S \in SUBSET Keys /\ T \in SUBSET Keys /\ T \in SUBSET S
  OBVIOUS
<1>2. Cardinality(S) \in Nat /\ Cardinality(T) \in Nat /\ Cardinality(T) <= Cardinality(S)
  BY <1>1, Zenon DEF Counting
<1> QED  BY <1>2, Zenon DEF DoneCount, rt_ev_done

(* The last step of an operation gives the lock up. *)
LEMMA LeaveInv ==
  ASSUME Counting, EvInv, IInv', NEW f \in Fibers, NEW o \in {"spawn", "dying", "waited"},
         Locked(f), LockRelease(f), GoesOn(f, o)
  PROVE  EvInv'
<1> USE DEF Entering, Waiting
<1>t. /\ pc \in [Fibers -> PcValues] /\ held \in [Fibers -> Nat] /\ op \in [Fibers -> Ops]
      /\ arg \in [Fibers -> SUBSET Keys] /\ need \in [Fibers -> Nat]
  BY DEF EvInv, EvTypeOK, TypeOK, IInv
<1>g. op' = [op EXCEPT ![f] = o] /\ arg' = arg /\ need' = need
  BY Zenon DEF GoesOn, taskVars
<1>0. held[f] = 1 /\ pc[f] = "run"
  BY Zenon DEF Locked
<1>1. /\ held' = [held EXCEPT ![f] = 0]
      /\ \E l \in {"run", "unpark"} : pc' = [pc EXCEPT ![f] = l]
      /\ UNCHANGED <<cwaiters, wait_key, walk, keep, sigkey>>
  BY ReleaseFacts, Zenon DEF EvInv
<1>2. OpInv'
  BY <1>t, <1>g, <1>0, <1>1 DEF EvInv, OpInv
<1>3. KeyInv'
  BY <1>t, <1>g, <1>0, <1>1, Zenon DEF EvInv, KeyInv, Parking
<1>4. AsleepInv'
  <2>1. ASSUME NEW w \in Fibers, Enlisted(w), Idle(w) PROVE Idle(w)'
    <3>1. /\ w # f /\ op'[w] = op[w] /\ op[w] \in Waiting /\ arg[w] \in SUBSET Keys /\ need[w] \in Nat
          /\ \A e \in arg[w] : ev[e] = 0 => ev'[e] = 0
      BY <1>t, <1>g, <1>0, <2>1, EnlistedWaits, Zenon DEF GoesOn, Parking
    <3>2. /\ DoneCount(arg[w]) \in Nat /\ Cardinality({e \in arg[w] : ev'[e] # 0}) \in Nat
          /\ Cardinality({e \in arg[w] : ev'[e] # 0}) <= DoneCount(arg[w])
      BY <3>1, DoneCountShrinks, Zenon
    <3>3. DoneCount(arg[w])' = Cardinality({e \in arg[w] : ev'[e] # 0})
      BY <1>g, Zenon DEF DoneCount, rt_ev_done
    <3>4. CASE op[w] = "wait"
      BY <1>g, <2>1, <3>1, <3>4, Zenon DEF Idle
    <3>5. CASE op[w] # "wait"
      <4>1. DoneCount(arg[w]) < need[w]
        BY <2>1, <3>5, Zenon DEF Idle
      <4>2. DoneCount(arg[w])' < need[w]
        BY <3>1, <3>2, <3>3, <4>1
      <4> QED  BY <1>g, <3>1, <3>5, <4>2, Zenon DEF Idle
    <3> QED  BY <3>4, <3>5, Zenon
  <2> QED  BY <1>1, <2>1, Zenon DEF EvInv, AsleepInv, Enlisted
<1>5. WalkedInv'
  BY <1>t, <1>0, <1>1, NobodyWalks, Zenon DEF EvInv, WalkedInv, Locked
<1>6. EvTypeOK' /\ TaskInv' /\ CallInv' /\ SpawnInv' /\ DueInv' /\ JoinSound'
  BY GoOnInv, Zenon
<1> QED  BY <1>2, <1>3, <1>4, <1>5, <1>6, Zenon DEF EvInv

-----------------------------------------------------------------------------
(* The operations of events and WAIT keep the invariant. *)

(* After pli_event_complete the lock is released. *)
LEMMA CompleteExitInv ==
  ASSUME Counting, EvInv, IInv', NEW f \in Fibers, CompleteExit(f)
  PROVE  EvInv'
<1>1. Locked(f) /\ LockRelease(f)
  BY Zenon DEF CompleteExit
<1>2. GoesOn(f, "dying")
  BY Zenon DEF CompleteExit, Goto, GoesOn, Calling, Ops, EvInv, EvTypeOK
<1> QED  BY <1>1, <1>2, LeaveInv, Zenon

(* pli_event_reset. *)
LEMMA ResetInv ==
  ASSUME Counting, EvInv, IInv', NEW f \in Fibers, pli_event_reset(f)
  PROVE  EvInv'
<1>1. Locked(f) /\ LockRelease(f)
  BY Zenon DEF pli_event_reset
<1>2. /\ ev' \in [Keys -> {0, 1}] /\ arg[f] \in SUBSET Keys
      /\ \A e \in Keys : ev[e] = 0 => ev'[e] = 0
      /\ \A e \in arg[f] : ev'[e] = 0
  BY Zenon DEF pli_event_reset, EvInv, EvTypeOK
<1>3. GoesOn(f, "spawn")
  BY <1>2, Zenon DEF pli_event_reset, Goto, GoesOn, Calling, Ops
<1> QED  BY <1>1, <1>3, LeaveInv, Zenon

(* pli_event_complete: every sleeper is in the walked list, and only those *)
(* that wait for this event can have anything to wake for.                 *)
LEMMA CompleteInv == ASSUME EvInv, IInv', NEW f \in Fibers, pli_event_complete(f) PROVE EvInv'
<1> USE DEF Entering, Waiting
<1>0. /\ pc \in [Fibers -> PcValues] /\ held \in [Fibers -> Nat] /\ op \in [Fibers -> Ops]
      /\ walk \in [Fibers -> Seq(Fibers)] /\ keep \in [Fibers -> Seq(Fibers)]
      /\ sigkey \in [Fibers -> Keys \cup {AnyKey, AllKeys}] /\ cwaiters \in Seq(Fibers)
      /\ arg \in [Fibers -> SUBSET Keys] /\ myev[f] \in SUBSET Keys /\ ev \in [Keys -> {0, 1}]
      /\ Locked(f) /\ op[f] = "complete" /\ op' = [op EXCEPT ![f] = "complete_exit"]
      /\ UNCHANGED <<arg, need, child, started, inst, myev, mine, attached, body, due>>
  BY DEF EvInv, EvTypeOK, TypeOK, IInv, pli_event_complete, Goto, taskVars
<1>1. PICK d \in myev[f] : ev' = [ev EXCEPT ![d] = 1] /\ CondSignal(f, d)
  BY Zenon DEF pli_event_complete
<1>2. /\ held' = held /\ pc' = [pc EXCEPT ![f] = "walk"] /\ walk' = [walk EXCEPT ![f] = cwaiters]
      /\ cwaiters' = <<>> /\ keep' = [keep EXCEPT ![f] = <<>>] /\ sigkey' = [sigkey EXCEPT ![f] = d]
      /\ wait_key' = wait_key
  BY <1>1, Zenon DEF CondSignal
<1>3. \A g \in Fibers : pc[g] # "walk" /\ keep[g] = <<>>
  BY <1>0, NobodyWalks, Zenon DEF EvInv
<1>4. d \in Keys /\ On(f, d) /\ (\A g \in Fibers \ {f} : ~On(g, d)) /\ Active(d)
  BY <1>0, Zenon DEF EvInv, TaskInv, On, Active
<1>5. OpInv'
  BY <1>0, <1>2, Zenon DEF EvInv, OpInv, Locked
<1>6. KeyInv'
  BY <1>0, <1>2, Zenon DEF EvInv, KeyInv, Parking
<1>7. AsleepInv'
  BY <1>0, <1>2, <1>3, EmptyFacts, Zenon DEF AsleepInv
<1>8. WalkedInv'
  <2>1. ASSUME NEW w \in Elems(cwaiters), op'[w] = "wait" PROVE d \in arg[w] \/ Idle(w)'
    <3>1. w \in Fibers /\ Enlisted(w) /\ Idle(w)
      BY <1>0 DEF EvInv, AsleepInv, Elems, Enlisted
    <3>2. op[w] = "wait"
      BY <1>0, <2>1, <3>1, Zenon
    <3> QED  BY <1>0, <1>1, <1>4, <2>1, <3>1, <3>2, Zenon DEF Idle
  <2>2. \A g \in Fibers : pc'[g] = "walk" => g = f
    BY <1>0, <1>2, <1>3, Zenon
  <2>3. walk'[f] = cwaiters /\ sigkey'[f] = d
    BY <1>0, <1>2, Zenon
  <2> QED  BY <1>0, <2>1, <2>2, <2>3, Zenon DEF WalkedInv
<1>9. EvTypeOK'
  BY <1>0, <1>1, <1>4, Zenon DEF EvInv, EvTypeOK, IInv, Ops
<1>10. \A g \in Fibers, e \in Keys : (On(g, e)' => On(g, e) /\ e # d) /\ (g # f => (On(g, e)' <=> On(g, e)))
  BY <1>0, <1>4, Zenon DEF On
<1>11. \A e \in Keys : Active(e)' => Active(e)
  BY <1>0, Zenon DEF Active
<1>12. TaskInv'
  BY <1>0, <1>1, <1>10 DEF EvInv, TaskInv
<1>13. CallInv'
  BY <1>0, <1>1, <1>4, <1>11 DEF EvInv, EvTypeOK, CallInv, Calling
<1>14. SpawnInv'
  BY <1>0, Zenon DEF EvInv, SpawnInv, Pending
<1>15. DueInv'
  <2>1. mine[f] \in body
    BY <1>0, Zenon DEF EvInv, TaskInv
  <2>2. ASSUME NEW h \in Fibers, op'[h] \in {"wait_enter", "wait"}, NEW e \in arg[h], NEW i \in due[h]
        PROVE i \in body \/ \E g \in Fibers : On(g, e)' /\ mine[g] = i
    <3>1. h # f /\ op'[h] = op[h] /\ e \in Keys
      BY <1>0, <2>2, Zenon
    <3>2. i \in body \/ \E g \in Fibers : On(g, e) /\ mine[g] = i
      BY <2>2, <3>1 DEF EvInv, DueInv
    <3> QED  BY <1>10, <2>1, <3>1, <3>2, Zenon
  <2>3. \A h \in Fibers : op'[h] \in {"waitn_enter", "waitn"} => due[h] = {}
    BY <1>0, Zenon DEF EvInv, DueInv
  <2> QED  BY <1>0, <2>2, <2>3 DEF DueInv
<1>16. JoinSound'
  BY <1>0, Zenon DEF EvInv, JoinSound
<1> QED  BY <1>5, <1>6, <1>7, <1>8, <1>9, <1>12, <1>13, <1>14, <1>15, <1>16, Zenon DEF EvInv

(* A WAIT that finds nothing done enlists under its key and gives up the   *)
(* lock: the check, the enlisting and the release are one step for the     *)
(* completions.                                                            *)
LEMMA SleepInv ==
  ASSUME EvInv, IInv', NEW f \in Fibers, NEW k \in Keys \cup {AnyKey}, Locked(f), CondWait(f, k),
         op[f] \in Waiting, Idle(f), IF op[f] = "wait" THEN arg[f] = {k} ELSE k = AnyKey,
         UNCHANGED <<ev, op, arg, taskVars>>
  PROVE  EvInv'
<1> USE DEF Entering, Waiting
<1>0. /\ pc \in [Fibers -> PcValues] /\ held \in [Fibers -> Nat] /\ op \in [Fibers -> Ops]
      /\ wait_key \in [Fibers -> Keys \cup {AnyKey}]
  BY DEF EvInv, EvTypeOK, TypeOK, IInv
<1>1. /\ held' = [held EXCEPT ![f] = 0] /\ \E l \in Parking : pc' = [pc EXCEPT ![f] = l]
      /\ wait_key' = [wait_key EXCEPT ![f] = k] /\ Elems(cwaiters') = Elems(cwaiters) \cup {f}
      /\ UNCHANGED <<walk, keep, sigkey>>
  BY WaitFacts, Zenon DEF EvInv
<1>2. OpInv'
  BY <1>0, <1>1, Zenon DEF EvInv, OpInv, Parking
<1>3. KeyInv'
  BY <1>0, <1>1, Zenon DEF EvInv, KeyInv
<1>4. \A w \in Fibers : Idle(w)' <=> Idle(w)
  BY IdleFrame, Zenon DEF taskVars
<1>5. AsleepInv'
  BY <1>1, <1>4, Zenon DEF EvInv, AsleepInv
<1>6. WalkedInv'
  BY <1>0, <1>1, NobodyWalks, Zenon DEF EvInv, WalkedInv, Parking
<1> QED  BY <1>2, <1>3, <1>5, <1>6, TaskFrame, Zenon DEF EvInv

(* A WAIT that finds its events complete returns. *)
LEMMA ReturnInv ==
  ASSUME Counting, EvInv, IInv', NEW f \in Fibers, Locked(f), LockRelease(f), Goto(f, "waited"),
         op[f] \in Waiting, due[f] \subseteq body, UNCHANGED <<ev, arg, taskVars>>
  PROVE  EvInv'
<1>1. GoesOn(f, "waited")
  BY Zenon DEF GoesOn, Goto, Calling, Waiting, Ops, EvInv, EvTypeOK
<1> QED  BY <1>1, LeaveInv, Zenon

(* pli_event_wait: a complete event has no active task, so the tasks the   *)
(* WAIT found on it have returned.                                         *)
LEMMA EventWaitInv ==
  ASSUME Counting, EvInv, IInv', NEW f \in Fibers, pli_event_wait(f)
  PROVE  EvInv'
<1>0. Locked(f) /\ op[f] = "wait" /\ UNCHANGED <<ev, arg, taskVars>>
  BY Zenon DEF pli_event_wait
<1>1. PICK e \in Keys : arg[f] = {e}
  BY <1>0, Zenon DEF EvInv, KeyInv
<1>2. CASE ev[e] # 0
  <2>1. LockRelease(f) /\ Goto(f, "waited")
    BY <1>1, <1>2, Zenon DEF pli_event_wait, rt_ev_done
  <2>2. \A i \in due[f] : i \in body \/ \E g \in Fibers : On(g, e)
    BY <1>0, <1>1, Zenon DEF EvInv, DueInv
  <2>3. due[f] \subseteq body
    BY <1>2, <2>2, Zenon DEF EvInv, TaskInv
  <2> QED  BY <1>0, <2>1, <2>3, ReturnInv, Zenon DEF Waiting
<1>3. CASE ev[e] = 0
  <2>1. CondWait(f, e) /\ UNCHANGED op
    BY <1>1, <1>3, Zenon DEF pli_event_wait, rt_ev_done
  <2>2. Idle(f)
    BY <1>0, <1>1, <1>3, Zenon DEF Idle
  <2> QED  BY <1>0, <1>1, <2>1, <2>2, SleepInv, Zenon DEF Waiting
<1> QED  BY <1>2, <1>3, Zenon

(* pli_wait_n. *)
LEMMA WaitNInv == ASSUME Counting, EvInv, IInv', NEW f \in Fibers, pli_wait_n(f) PROVE EvInv'
<1>0. /\ Locked(f) /\ op[f] = "waitn" /\ UNCHANGED <<ev, arg, taskVars>>
      /\ arg[f] \in SUBSET Keys /\ need[f] \in Nat
  BY Zenon DEF pli_wait_n, EvInv, EvTypeOK
<1>1. CASE DoneCount(arg[f]) >= need[f]
  <2>1. LockRelease(f) /\ Goto(f, "waited")
    BY <1>1, Zenon DEF pli_wait_n
  <2>2. due[f] \subseteq body
    BY <1>0, Zenon DEF EvInv, DueInv
  <2> QED  BY <1>0, <2>1, <2>2, ReturnInv, Zenon DEF Waiting
<1>2. CASE ~(DoneCount(arg[f]) >= need[f])
  <2>1. CondWait(f, AnyKey) /\ UNCHANGED op
    BY <1>2, Zenon DEF pli_wait_n
  <2>2. {e \in arg[f] : rt_ev_done(e)} \in SUBSET Keys
    BY <1>0, Zenon
  <2>3. DoneCount(arg[f]) \in Nat
    BY <2>2, Zenon DEF DoneCount, Counting
  <2>4. Idle(f)
    BY <1>0, <1>2, <2>3 DEF Idle
  <2> QED  BY <1>0, <2>1, <2>4, SleepInv, Zenon DEF Waiting
<1> QED  BY <1>1, <1>2, Zenon

-----------------------------------------------------------------------------
(* What a task does outside the lock. *)

(* Fibers outside the lock change their operation; nothing sleeps, wakes,  *)
(* completes or is reset.                                                  *)
LEMMA OutsideInv ==
  ASSUME EvInv, UNCHANGED vars, ev' = ev,
         \A w \in Fibers :
           \/ op'[w] = op[w] /\ arg'[w] = arg[w] /\ need'[w] = need[w]
           \/ /\ pc[w] = "run" /\ held[w] = 0
              /\ op'[w] \in {"free", "idle", "spawn", "dying", "waited"} \cup Entering
              /\ op'[w] = "wait_enter" => \E e \in Keys : arg'[w] = {e}
  PROVE  IInv' /\ OpInv' /\ KeyInv' /\ AsleepInv' /\ WalkedInv'
<1>0. UNCHANGED <<pc, held, wait_key, cwaiters, walk, keep, sigkey>>
  BY Zenon DEF vars
<1>1. IInv'
  BY StutterInv, Zenon DEF EvInv
<1>2. OpInv'
  BY <1>0, Zenon DEF EvInv, OpInv, Entering, Waiting
<1>3. KeyInv'
  BY <1>0, Zenon DEF EvInv, KeyInv, Parking, Entering
<1>4. \A w \in Fibers : Enlisted(w) => (Idle(w)' <=> Idle(w)) /\ op'[w] = op[w] /\ arg'[w] = arg[w]
  BY EnlistedWaits, IdleFrame, Zenon DEF Parking
<1>5. AsleepInv'
  BY <1>0, <1>4, Zenon DEF EvInv, AsleepInv, Enlisted
<1>6. \A g \in Fibers : \A w \in Elems(walk[g]) : w \in Fibers /\ Enlisted(w)
  BY DEF EvInv, IInv, TypeOK, Elems, Enlisted
<1>7. WalkedInv'
  BY <1>0, <1>4, <1>6, Zenon DEF EvInv, WalkedInv
<1> QED  BY <1>1, <1>2, <1>3, <1>5, <1>7, Zenon

(* The tasks keep their events when nothing is attached or completed. *)
LEMMA TaskKept ==
  ASSUME EvInv, UNCHANGED <<ev, inst, myev, mine>>, body \subseteq body',
         \A g \in Fibers, e \in Keys : On(g, e)' <=> On(g, e),
         \A g \in Fibers :
           /\ op'[g] = "free" <=> op[g] = "free"
           /\ op'[g] \in {"complete_enter", "complete"} =>
                op[g] \in {"complete_enter", "complete"} \/ mine[g] \in body'
  PROVE  TaskInv'
<1>1. TaskInv
  BY Zenon DEF EvInv
<1>2. \A g, h \in Fibers, e \in Keys : On(g, e)' /\ On(h, e)' => g = h
  BY <1>1, Zenon DEF TaskInv
<1>3. \A g \in Fibers, e \in Keys : On(g, e)' => ev'[e] = 0 /\ inst'[e] = mine'[g]
  BY <1>1, Zenon DEF TaskInv
<1>4. \A g \in Fibers : op'[g] = "free" => myev'[g] = {}
  BY <1>1, Zenon DEF TaskInv
<1>5. \A g \in Fibers : op'[g] \in {"complete_enter", "complete"} => mine'[g] \in body'
  BY <1>1, Zenon DEF TaskInv
<1>6. \A g \in Fibers : g # Main /\ op'[g] # "free" => mine'[g] # 0
  BY <1>1, Zenon DEF TaskInv
<1> QED  BY <1>2, <1>3, <1>4, <1>5, <1>6, Zenon DEF TaskInv

(* The calls in progress go on undisturbed. *)
LEMMA CallKept ==
  ASSUME EvInv, UNCHANGED <<ev, child>>, \A e \in Keys : Active(e)' => Active(e),
         \A g \in Fibers :
           /\ op[g] = "free" => op'[g] = "free"
           /\ op'[g] \in Calling <=> op[g] \in Calling
           /\ op[g] \in Calling => op'[g] = op[g] /\ arg'[g] = arg[g]
  PROVE  CallInv'
<1>1. CallInv /\ child \in [Fibers -> FiberOrNone] /\ arg \in [Fibers -> SUBSET Keys]
  BY Zenon DEF EvInv, EvTypeOK
<1>2. \A g \in Fibers : child'[g] # NoFiber <=> op'[g] \in Calling
  BY <1>1, Zenon DEF CallInv
<1>3. ASSUME NEW g \in Fibers, op'[g] \in Calling
      PROVE  /\ op'[child'[g]] = "free"
             /\ \E e \in Keys : arg'[g] = {e}
             /\ \A e \in arg'[g] : ~Active(e)' /\ (op'[g] = "spawn" => ev'[e] = 0)
  <2>1. op[g] \in Calling /\ op'[g] = op[g] /\ arg'[g] = arg[g] /\ arg[g] \in SUBSET Keys
    BY <1>1, <1>3, Zenon
  <2>2. /\ op[child[g]] = "free" /\ \E e \in Keys : arg[g] = {e}
        /\ \A e \in arg[g] : ~Active(e) /\ (op[g] = "spawn" => ev[e] = 0)
    BY <1>1, <2>1, Zenon DEF CallInv
  <2>3. child[g] \in Fibers
    BY <1>1, <2>1 DEF CallInv, FiberOrNone
  <2> QED  BY <2>1, <2>2, <2>3, Zenon
<1>4. \A g, h \in Fibers : op'[g] \in Calling /\ op'[h] \in Calling /\ g # h =>
        child'[g] # child'[h] /\ arg'[g] \cap arg'[h] = {}
  BY <1>1, Zenon DEF CallInv
<1> QED  BY <1>2, <1>3, <1>4, Zenon DEF CallInv

(* CALL p EVENT(e) takes an event without a task and a fiber of its own. *)
LEMMA CallEventInv ==
  ASSUME Counting, EvInv, NEW f \in Fibers, NEW d \in Keys, NEW c \in Fibers, CallEvent(f, d, c)
  PROVE  EvInv'
<1>0. /\ op[f] = "idle" /\ op[c] = "free" /\ (\A x \in Fibers : child[x] # c) /\ ~Active(d)
      /\ \A x \in Fibers : child[x] # NoFiber => d \notin arg[x]
      /\ op' = [op EXCEPT ![f] = "reset_enter"] /\ arg' = [arg EXCEPT ![f] = {d}]
      /\ child' = [child EXCEPT ![f] = c]
      /\ UNCHANGED <<vars, ev, need, started, inst, myev, mine, attached, body, due>>
  BY Zenon DEF CallEvent, Goto, Free
<1>t. /\ op \in [Fibers -> Ops] /\ arg \in [Fibers -> SUBSET Keys] /\ child \in [Fibers -> FiberOrNone]
      /\ pc[f] = "run" /\ held[f] = 0
  BY <1>0, Zenon DEF EvInv, EvTypeOK, OpInv
<1>1. IInv' /\ OpInv' /\ KeyInv' /\ AsleepInv' /\ WalkedInv'
  <2>1. ASSUME NEW w \in Fibers
        PROVE  \/ op'[w] = op[w] /\ arg'[w] = arg[w] /\ need'[w] = need[w]
               \/ pc[w] = "run" /\ held[w] = 0 /\ op'[w] = "reset_enter"
    BY <1>0, <1>t, Zenon
  <2> QED  BY <1>0, <2>1, OutsideInv, Zenon DEF Entering
<1>2. EvTypeOK'
  BY <1>0, <1>1, Zenon DEF EvInv, EvTypeOK, IInv, Ops, FiberOrNone
<1>3. \A g \in Fibers, e \in Keys : (On(g, e)' <=> On(g, e)) /\ (Active(e)' <=> Active(e))
  BY <1>0, <1>t, Zenon DEF On, Active
<1>4. TaskInv'
  BY <1>0, <1>t, <1>3, TaskKept, Zenon
<1>5. \A g \in Fibers : op'[g] \in Calling /\ g # f => op[g] \in Calling /\ child[g] # NoFiber
  BY <1>0, <1>t, Zenon DEF EvInv, CallInv
<1>6. CallInv'
  <2>1. \A g \in Fibers : child'[g] # NoFiber <=> op'[g] \in Calling
    BY <1>0, <1>t, NoFiberAssumption, Zenon DEF EvInv, CallInv, Calling
  <2>2. ASSUME NEW g \in Fibers, op'[g] \in Calling
        PROVE  /\ op'[child'[g]] = "free"
               /\ \E e \in Keys : arg'[g] = {e}
               /\ \A e \in arg'[g] : ~Active(e)' /\ (op'[g] = "spawn" => ev'[e] = 0)
    <3>1. CASE g = f
      BY <1>0, <1>t, <1>3, <3>1, Zenon
    <3>2. CASE g # f
      <4>1. /\ op[child[g]] = "free" /\ \E e \in Keys : arg[g] = {e}
            /\ \A e \in arg[g] : ~Active(e) /\ (op[g] = "spawn" => ev[e] = 0)
        BY <1>5, <2>2, <3>2, Zenon DEF EvInv, CallInv
      <4>2. child[g] # f /\ arg[g] \in SUBSET Keys
        BY <1>0, <1>t, <4>1, Zenon
      <4> QED  BY <1>0, <1>t, <1>3, <3>2, <4>1, <4>2
    <3> QED  BY <3>1, <3>2, Zenon
  <2>3. ASSUME NEW g \in Fibers, NEW h \in Fibers, op'[g] \in Calling, op'[h] \in Calling, g # h
        PROVE  child'[g] # child'[h] /\ arg'[g] \cap arg'[h] = {}
    BY <1>0, <1>t, <1>5, <2>3 DEF EvInv, CallInv
  <2> QED  BY <2>1, <2>2, <2>3, Zenon DEF CallInv
<1>7. SpawnInv'
  <2>1. f \notin Pending /\ Pending \in SUBSET Fibers
    BY <1>0, Zenon DEF EvInv, CallInv, Pending, Calling
  <2>2. Pending' = Pending \cup {f}
    BY <1>0, <1>t, NoFiberAssumption, Zenon DEF Pending
  <2>3. /\ IsFiniteSet(Pending \cup {f}) /\ Cardinality(Pending) \in Nat
        /\ Cardinality(Pending \cup {f}) = Cardinality(Pending) + 1
    BY <2>1, Zenon DEF Counting, EvInv, SpawnInv
  <2>4. started + Cardinality(Pending) < MaxSpawns /\ started \in Nat /\ MaxSpawns \in Nat
    BY MaxSpawnsAssumption DEF CallEvent, Pending, EvInv, EvTypeOK, Instances
  <2> QED  BY <1>0, <2>2, <2>3, <2>4 DEF SpawnInv
<1>8. DueInv'
  BY <1>0, <1>t, <1>3 DEF EvInv, DueInv, EvTypeOK
<1>9. JoinSound'
  BY <1>0, <1>t, Zenon DEF EvInv, JoinSound
<1> QED  BY <1>1, <1>2, <1>4, <1>6, <1>7, <1>8, <1>9, Zenon DEF EvInv

(* The body of a task returns. *)
LEMMA BodyReturnsInv == ASSUME EvInv, NEW f \in Fibers, BodyReturns(f) PROVE EvInv'
<1>0. /\ op[f] = "idle" /\ f # Main /\ body' = body \cup {mine[f]}
      /\ op' = [op EXCEPT ![f] = "complete_enter"]
      /\ UNCHANGED <<vars, ev, arg, need, child, started, inst, myev, mine, attached, due>>
  BY Zenon DEF BodyReturns, Goto
<1>t. /\ op \in [Fibers -> Ops] /\ pc[f] = "run" /\ held[f] = 0 /\ body \in SUBSET (1..MaxSpawns)
      /\ mine[f] \in 1..MaxSpawns
  BY <1>0, MaxSpawnsAssumption DEF EvInv, EvTypeOK, OpInv, TaskInv, Instances
<1>1. IInv' /\ OpInv' /\ KeyInv' /\ AsleepInv' /\ WalkedInv'
  <2>1. ASSUME NEW w \in Fibers
        PROVE  \/ op'[w] = op[w] /\ arg'[w] = arg[w] /\ need'[w] = need[w]
               \/ pc[w] = "run" /\ held[w] = 0 /\ op'[w] = "complete_enter"
    BY <1>0, <1>t, Zenon
  <2> QED  BY <1>0, <2>1, OutsideInv, Zenon DEF Entering
<1>2. EvTypeOK'
  BY <1>0, <1>t, <1>1, Zenon DEF EvInv, EvTypeOK, IInv, Ops
<1>3. \A g \in Fibers, e \in Keys : (On(g, e)' <=> On(g, e)) /\ (Active(e)' <=> Active(e))
  BY <1>0, <1>t, Zenon DEF On, Active
<1>4. TaskInv'
  BY <1>0, <1>t, <1>3, TaskKept, Zenon
<1>5. CallInv'
  BY <1>0, <1>t, <1>3, CallKept, Zenon DEF Calling
<1>6. SpawnInv'
  BY <1>0, Zenon DEF EvInv, SpawnInv, Pending
<1>7. DueInv'
  BY <1>0, <1>t, <1>3 DEF EvInv, DueInv, EvTypeOK
<1>8. JoinSound'
  BY <1>0, <1>t, Zenon DEF EvInv, JoinSound
<1> QED  BY <1>1, <1>2, <1>4, <1>5, <1>6, <1>7, <1>8, Zenon DEF EvInv

(* A dead fiber is free again: it had completed its event. *)
LEMMA FiberDiesInv == ASSUME EvInv, NEW f \in Fibers, FiberDies(f) PROVE EvInv'
<1>0. /\ op[f] = "dying" /\ pc[f] = "run" /\ op' = [op EXCEPT ![f] = "free"]
      /\ myev' = [myev EXCEPT ![f] = {}] /\ mine' = [mine EXCEPT ![f] = 0]
      /\ attached' = [attached EXCEPT ![f] = {}]
      /\ UNCHANGED <<vars, ev, arg, need, child, started, inst, body, due>>
  BY Zenon DEF FiberDies, Goto
<1>t. /\ op \in [Fibers -> Ops] /\ pc[f] = "run" /\ held[f] = 0
      /\ myev \in [Fibers -> SUBSET Keys] /\ mine \in [Fibers -> Instances]
  BY <1>0, Zenon DEF EvInv, EvTypeOK, OpInv
<1>1. IInv' /\ OpInv' /\ KeyInv' /\ AsleepInv' /\ WalkedInv'
  <2>1. ASSUME NEW w \in Fibers
        PROVE  \/ op'[w] = op[w] /\ arg'[w] = arg[w] /\ need'[w] = need[w]
               \/ pc[w] = "run" /\ held[w] = 0 /\ op'[w] = "free"
    BY <1>0, <1>t, Zenon
  <2> QED  BY <1>0, <2>1, OutsideInv, Zenon
<1>2. EvTypeOK'
  BY <1>0, <1>t, <1>1, MaxSpawnsAssumption DEF EvInv, EvTypeOK, IInv, Ops, Instances
<1>3. \A g \in Fibers, e \in Keys : /\ On(g, e)' <=> On(g, e)
                                    /\ On(g, e) => g # f
                                    /\ Active(e)' <=> Active(e)
  BY <1>0, <1>t, Zenon DEF On, Active
<1>4. TaskInv'
  <2>1. \A g, h \in Fibers, e \in Keys : On(g, e)' /\ On(h, e)' => g = h
    BY <1>3, Zenon DEF EvInv, TaskInv
  <2>2. \A g \in Fibers, e \in Keys : On(g, e)' => ev'[e] = 0 /\ inst'[e] = mine'[g]
    BY <1>0, <1>t, <1>3, Zenon DEF EvInv, TaskInv
  <2>3. \A g \in Fibers : op'[g] = "free" => myev'[g] = {}
    BY <1>0, <1>t, Zenon DEF EvInv, TaskInv
  <2>4. \A g \in Fibers : /\ op'[g] \in {"complete_enter", "complete"} => mine'[g] \in body'
                          /\ g # Main /\ op'[g] # "free" => mine'[g] # 0
    BY <1>0, <1>t, Zenon DEF EvInv, TaskInv
  <2> QED  BY <2>1, <2>2, <2>3, <2>4, Zenon DEF TaskInv
<1>5. CallInv'
  BY <1>0, <1>t, <1>3, CallKept, Zenon DEF Calling
<1>6. SpawnInv'
  BY <1>0, Zenon DEF EvInv, SpawnInv, Pending
<1>7. DueInv'
  <2>1. ASSUME NEW h \in Fibers, op'[h] \in {"wait_enter", "wait"}, NEW e \in arg[h], NEW i \in due[h]
        PROVE  i \in body \/ \E g \in Fibers : On(g, e)' /\ mine'[g] = i
    <3>1. op[h] = op'[h] /\ e \in Keys
      BY <1>0, <1>t, <2>1, Zenon DEF EvInv, EvTypeOK
    <3>2. i \in body \/ \E g \in Fibers : On(g, e) /\ mine[g] = i
      BY <2>1, <3>1, Zenon DEF EvInv, DueInv
    <3> QED  BY <1>0, <1>t, <1>3, <3>1, <3>2, Zenon
  <2>2. \A h \in Fibers : op'[h] \in {"waitn_enter", "waitn"} => due[h] = {}
    BY <1>0, <1>t, Zenon DEF EvInv, DueInv
  <2> QED  BY <1>0, <2>1, <2>2 DEF DueInv
<1>8. JoinSound'
  BY <1>0, <1>t, Zenon DEF EvInv, JoinSound
<1> QED  BY <1>1, <1>2, <1>4, <1>5, <1>6, <1>7, <1>8 DEF EvInv

(* pli_task_spawn: the new task is the only one on its event. *)
LEMMA SpawnTaskInv == ASSUME Counting, EvInv, NEW f \in Fibers, SpawnTask(f) PROVE EvInv'
<1> DEFINE c == child[f]
           n == started + 1
<1>0. /\ op[f] = "spawn" /\ pc[f] = "run" /\ op' = [op EXCEPT ![f] = "idle", ![c] = "idle"]
      /\ myev' = [myev EXCEPT ![c] = arg[f]] /\ mine' = [mine EXCEPT ![c] = n]
      /\ inst' = [e \in Keys |-> IF e \in arg[f] THEN n ELSE inst[e]] /\ started' = n
      /\ attached' = [attached EXCEPT ![f] = @ \cup arg[f]]
      /\ child' = [child EXCEPT ![f] = NoFiber] /\ arg' = [arg EXCEPT ![f] = {}]
      /\ UNCHANGED <<vars, ev, need, body, due>>
  BY Zenon DEF SpawnTask
<1>t. /\ op \in [Fibers -> Ops] /\ arg \in [Fibers -> SUBSET Keys] /\ child \in [Fibers -> FiberOrNone]
      /\ myev \in [Fibers -> SUBSET Keys] /\ mine \in [Fibers -> Instances]
      /\ inst \in [Keys -> Instances] /\ attached \in [Fibers -> SUBSET Keys]
  BY Zenon DEF EvInv, EvTypeOK
<1>a. /\ c \in Fibers /\ c # f /\ op[c] = "free" /\ pc[c] = "run" /\ held[c] = 0 /\ held[f] = 0
      /\ myev[c] = {}
  <2>1. c # NoFiber /\ op[c] = "free"
    BY <1>0, Zenon DEF EvInv, CallInv, Calling
  <2>2. c \in Fibers /\ c # f
    BY <1>0, <1>t, <2>1, Zenon DEF FiberOrNone
  <2> QED  BY <1>0, <2>1, <2>2, Zenon DEF EvInv, OpInv, TaskInv
<1>b. PICK d \in Keys : arg[f] = {d} /\ ~Active(d) /\ ev[d] = 0
  BY <1>0 DEF EvInv, CallInv, Calling
<1>n. /\ started \in Nat /\ n \in 1..MaxSpawns /\ SpawnInv'
  <2>1. f \in Pending /\ Pending \in SUBSET Fibers
    BY <1>a, NoFiberAssumption, Zenon DEF Pending
  <2>2. Pending' = Pending \ {f}
    BY <1>0, <1>t, NoFiberAssumption, Zenon DEF Pending
  <2>3. /\ IsFiniteSet(Pending \ {f}) /\ Cardinality(Pending) \in Nat
        /\ Cardinality(Pending \ {f}) = Cardinality(Pending) - 1
        /\ started + Cardinality(Pending) <= MaxSpawns
    BY <2>1, Zenon DEF Counting, EvInv, SpawnInv
  <2>4. \A x \in Fibers : IsFiniteSet(Pending \ {f}) => Cardinality(Pending \ {f}) \in Nat
    BY Zenon DEF Counting, Pending
  <2>5. Cardinality(Pending) - 1 \in Nat
    BY <1>a, <2>3, <2>4, Zenon
  <2>6. started \in Nat /\ MaxSpawns \in Nat
    BY MaxSpawnsAssumption DEF EvInv, EvTypeOK, Instances
  <2>7. n \in 1..MaxSpawns /\ n + (Cardinality(Pending) - 1) <= MaxSpawns
    BY <2>3, <2>5, <2>6
  <2> QED  BY <1>0, <2>2, <2>3, <2>6, <2>7, Zenon DEF SpawnInv
<1>1. IInv' /\ OpInv' /\ KeyInv' /\ AsleepInv' /\ WalkedInv'
  <2>1. ASSUME NEW w \in Fibers
        PROVE  \/ op'[w] = op[w] /\ arg'[w] = arg[w] /\ need'[w] = need[w]
               \/ pc[w] = "run" /\ held[w] = 0 /\ op'[w] = "idle"
    BY <1>0, <1>t, <1>a, Zenon
  <2> QED  BY <1>0, <2>1, OutsideInv, Zenon
<1>2. EvTypeOK'
  <2>1. started' \in Instances /\ inst' \in [Keys -> Instances] /\ mine' \in [Fibers -> Instances]
    <3>1. n \in Instances
      BY <1>n, MaxSpawnsAssumption DEF Instances
    <3> HIDE DEF n
    <3> QED  BY <1>0, <1>t, <3>1, Zenon
  <2>2. /\ op' \in [Fibers -> Ops] /\ arg' \in [Fibers -> SUBSET Keys] /\ child' \in [Fibers -> FiberOrNone]
        /\ myev' \in [Fibers -> SUBSET Keys] /\ attached' \in [Fibers -> SUBSET Keys]
    BY <1>0, <1>t, Zenon DEF Ops, FiberOrNone
  <2> QED  BY <1>0, <1>1, <2>1, <2>2, Zenon DEF EvInv, EvTypeOK, IInv
<1>3. \A g \in Fibers, e \in Keys : On(g, e)' <=> On(g, e) \/ (g = c /\ e = d)
  BY <1>0, <1>t, <1>a, <1>b, Zenon DEF On
<1>4. \A e \in Keys : e # d => (Active(e)' <=> Active(e))
  BY <1>3, Zenon DEF On, Active
<1>5. \A g \in Fibers : ~On(g, d) /\ \A e \in Keys : ~On(c, e)
  BY <1>a, <1>b, Zenon DEF On, Active
<1>6. TaskInv'
  <2>1. \A g, h \in Fibers, e \in Keys : On(g, e)' /\ On(h, e)' => g = h
    BY <1>3, <1>5 DEF EvInv, TaskInv
  <2>2. ASSUME NEW g \in Fibers, NEW e \in Keys, On(g, e)' PROVE ev'[e] = 0 /\ inst'[e] = mine'[g]
    <3>1. CASE g = c /\ e = d
      BY <1>0, <1>t, <1>a, <1>b, <3>1, Zenon
    <3>2. CASE On(g, e)
      <4>1. g # c /\ e # d /\ ev[e] = 0 /\ inst[e] = mine[g]
        BY <1>5, <3>2, Zenon DEF EvInv, TaskInv
      <4> QED  BY <1>0, <1>t, <1>a, <1>b, <4>1, Zenon
    <3> QED  BY <1>3, <2>2, <3>1, <3>2, Zenon
  <2>3. \A g \in Fibers : op'[g] = "free" => myev'[g] = {}
    BY <1>0, <1>t, <1>a, Zenon DEF EvInv, TaskInv
  <2>4. \A g \in Fibers : op'[g] \in {"complete_enter", "complete"} => mine'[g] \in body'
    BY <1>0, <1>t, <1>a, Zenon DEF EvInv, TaskInv
  <2>5. \A g \in Fibers : g # Main /\ op'[g] # "free" => mine'[g] # 0
    BY <1>0, <1>t, <1>a, <1>n DEF EvInv, TaskInv
  <2> QED  BY <2>1, <2>2, <2>3, <2>4, <2>5, Zenon DEF TaskInv
<1>7. CallInv'
  <2>1. \A g \in Fibers : /\ op'[g] \in Calling <=> op[g] \in Calling /\ g # f
                          /\ g # f => child'[g] = child[g] /\ arg'[g] = arg[g]
                          /\ op[g] \in Calling => g # c
    BY <1>0, <1>t, <1>a, Zenon DEF Calling
  <2>2. \A g \in Fibers : child'[g] # NoFiber <=> op'[g] \in Calling
    BY <1>0, <1>t, <2>1, Zenon DEF EvInv, CallInv
  <2>3. ASSUME NEW g \in Fibers, op'[g] \in Calling
        PROVE  /\ op'[child'[g]] = "free"
               /\ \E e \in Keys : arg'[g] = {e}
               /\ \A e \in arg'[g] : ~Active(e)' /\ (op'[g] = "spawn" => ev'[e] = 0)
    <3>1. op[g] \in Calling /\ g # f /\ g # c /\ op'[g] = op[g]
      BY <1>0, <1>t, <1>a, <2>1, <2>3, Zenon
    <3>2. /\ op[child[g]] = "free" /\ \E e \in Keys : arg[g] = {e}
          /\ \A e \in arg[g] : ~Active(e) /\ (op[g] = "spawn" => ev[e] = 0)
      BY <3>1, Zenon DEF EvInv, CallInv
    <3>3. child[g] # c /\ d \notin arg[g] /\ arg[g] \in SUBSET Keys
      BY <1>0, <1>t, <1>b, <3>1, Zenon DEF EvInv, CallInv, Calling
    <3>4. child[g] # f /\ op'[child[g]] = op[child[g]]
      <4>1. child[g] \in Fibers
        BY <1>t, <3>1, Zenon DEF EvInv, CallInv, FiberOrNone
      <4> QED  BY <1>0, <1>t, <3>2, <3>3, <4>1, Zenon
    <3> QED  BY <1>0, <1>4, <2>1, <3>1, <3>2, <3>3, <3>4, ZenonT(30)
  <2>4. ASSUME NEW g \in Fibers, NEW h \in Fibers, op'[g] \in Calling, op'[h] \in Calling, g # h
        PROVE  child'[g] # child'[h] /\ arg'[g] \cap arg'[h] = {}
    BY <2>1, <2>4 DEF EvInv, CallInv
  <2> QED  BY <2>2, <2>3, <2>4, Zenon DEF CallInv
<1>8. DueInv'
  <2>1. \A h \in Fibers : op'[h] # "idle" => op'[h] = op[h] /\ arg'[h] = arg[h]
    BY <1>0, <1>t, <1>a, Zenon
  <2>2. ASSUME NEW h \in Fibers, op'[h] \in {"wait_enter", "wait"}, NEW e \in arg'[h], NEW i \in due'[h]
        PROVE  i \in body' \/ \E g \in Fibers : On(g, e)' /\ mine'[g] = i
    <3>0. e \in arg[h] /\ i \in due[h] /\ body' = body
      BY <1>0, <2>1, <2>2, Zenon
    <3>1. e \in Keys /\ (i \in body \/ \E g \in Fibers : On(g, e) /\ mine[g] = i)
      BY <1>t, <2>1, <2>2, <3>0 DEF EvInv, DueInv
    <3> QED  BY <1>0, <1>t, <1>3, <1>5, <3>0, <3>1
  <2>3. \A h \in Fibers : op'[h] \in {"waitn_enter", "waitn"} => due'[h] = {}
    BY <1>0, <2>1, Zenon DEF EvInv, DueInv
  <2> QED  BY <2>2, <2>3, Zenon DEF DueInv
<1>9. JoinSound'
  BY <1>0, <1>t, <1>a, Zenon DEF EvInv, JoinSound
<1> QED  BY <1>n, <1>1, <1>2, <1>6, <1>7, <1>8, <1>9, Zenon DEF EvInv

(* WAIT(e) begins: an event found complete has no active task. *)
LEMMA WaitStartInv == ASSUME EvInv, NEW f \in Fibers, NEW d \in Keys, WaitStart(f, d) PROVE EvInv'
<1>0. /\ op[f] = "idle" /\ due' = [due EXCEPT ![f] = ActiveInsts({d})] /\ arg' = [arg EXCEPT ![f] = {d}]
      /\ op' = [op EXCEPT ![f] = IF ev[d] # 0 THEN "waited" ELSE "wait_enter"]
      /\ UNCHANGED <<vars, ev, need, child, started, inst, myev, mine, attached, body>>
  BY Zenon DEF WaitStart, Goto, rt_ev_done
<1>t. /\ op \in [Fibers -> Ops] /\ arg \in [Fibers -> SUBSET Keys] /\ pc[f] = "run" /\ held[f] = 0
      /\ inst \in [Keys -> Instances] /\ due \in [Fibers -> SUBSET Instances]
  BY <1>0, Zenon DEF EvInv, EvTypeOK, OpInv
<1>a. ActiveInsts({d}) = IF Active(d) THEN {inst[d]} ELSE {}
  BY Zenon DEF ActiveInsts
<1>1. IInv' /\ OpInv' /\ KeyInv' /\ AsleepInv' /\ WalkedInv'
  <2>1. ASSUME NEW w \in Fibers
        PROVE  \/ op'[w] = op[w] /\ arg'[w] = arg[w] /\ need'[w] = need[w]
               \/ pc[w] = "run" /\ held[w] = 0 /\ op'[w] \in {"waited", "wait_enter"} /\ arg'[w] = {d}
    BY <1>0, <1>t, Zenon
  <2> QED  BY <1>0, <2>1, OutsideInv, Zenon DEF Entering
<1>2. EvTypeOK'
  BY <1>0, <1>t, <1>a, <1>1 DEF EvInv, EvTypeOK, IInv, Ops
<1>3. \A g \in Fibers, e \in Keys : (On(g, e)' <=> On(g, e)) /\ (Active(e)' <=> Active(e))
  BY <1>0, <1>t, Zenon DEF On, Active
<1>4. TaskInv'
  BY <1>0, <1>t, <1>3, TaskKept, Zenon
<1>5. CallInv'
  BY <1>0, <1>t, <1>3, CallKept, Zenon DEF Calling
<1>6. SpawnInv'
  BY <1>0, Zenon DEF EvInv, SpawnInv, Pending
<1>7. DueInv'
  <2>1. ASSUME NEW h \in Fibers, op'[h] \in {"wait_enter", "wait"}, NEW e \in arg'[h], NEW i \in due'[h]
        PROVE  i \in body' \/ \E g \in Fibers : On(g, e)' /\ mine'[g] = i
    <3>1. CASE h = f
      <4>1. e = d /\ Active(d) /\ i = inst[d]
        BY <1>0, <1>t, <1>a, <2>1, <3>1, Zenon
      <4>2. PICK g \in Fibers : On(g, d)
        BY <4>1, Zenon DEF Active, On
      <4>3. inst[d] = mine[g]
        BY <4>2, Zenon DEF EvInv, TaskInv
      <4> QED  BY <1>0, <1>3, <4>1, <4>2, <4>3, Zenon
    <3>2. CASE h # f
      <4>1. op'[h] = op[h] /\ e \in arg[h] /\ i \in due[h] /\ e \in Keys
        BY <1>0, <1>t, <2>1, <3>2, Zenon
      <4>2. i \in body \/ \E g \in Fibers : On(g, e) /\ mine[g] = i
        BY <2>1, <4>1, Zenon DEF EvInv, DueInv
      <4> QED  BY <1>0, <1>3, <4>1, <4>2, Zenon
    <3> QED  BY <3>1, <3>2, Zenon
  <2>2. \A h \in Fibers : op'[h] \in {"waitn_enter", "waitn"} => due'[h] = {}
    BY <1>0, <1>t, Zenon DEF EvInv, DueInv
  <2> QED  BY <2>1, <2>2, Zenon DEF DueInv
<1>8. JoinSound'
  <2>1. ev[d] # 0 => ~Active(d)
    BY Zenon DEF EvInv, TaskInv, Active, On
  <2> QED  BY <1>0, <1>t, <1>a, <2>1, Zenon DEF EvInv, JoinSound
<1> QED  BY <1>1, <1>2, <1>4, <1>5, <1>6, <1>7, <1>8, Zenon DEF EvInv

(* WAIT(evs)(k) begins. *)
LEMMA WaitNStartInv ==
  ASSUME Counting, EvInv, NEW f \in Fibers, NEW E \in SUBSET Keys, NEW k \in 1..Cardinality(Keys),
         WaitNStart(f, E, k)
  PROVE  EvInv'
<1>0. /\ op[f] = "idle" /\ due' = [due EXCEPT ![f] = {}] /\ arg' = [arg EXCEPT ![f] = E]
      /\ need' = [need EXCEPT ![f] = IF k > Cardinality(E) THEN Cardinality(E) ELSE k]
      /\ UNCHANGED <<vars, ev, child, started, inst, myev, mine, attached, body>>
  BY Zenon DEF WaitNStart
<1>o. PICK o \in {"waited", "waitn_enter"} : op' = [op EXCEPT ![f] = o]
  BY Zenon DEF WaitNStart, Goto
<1>k. (IF k > Cardinality(E) THEN Cardinality(E) ELSE k) \in Nat
  BY DEF Counting
<1>t. /\ op \in [Fibers -> Ops] /\ arg \in [Fibers -> SUBSET Keys] /\ pc[f] = "run" /\ held[f] = 0
      /\ need \in [Fibers -> Nat] /\ due \in [Fibers -> SUBSET Instances]
  BY <1>0, Zenon DEF EvInv, EvTypeOK, OpInv
<1>1. IInv' /\ OpInv' /\ KeyInv' /\ AsleepInv' /\ WalkedInv'
  <2>1. ASSUME NEW w \in Fibers
        PROVE  \/ op'[w] = op[w] /\ arg'[w] = arg[w] /\ need'[w] = need[w]
               \/ pc[w] = "run" /\ held[w] = 0 /\ op'[w] \in {"waited", "waitn_enter"}
    BY <1>0, <1>o, <1>t, Zenon
  <2> QED  BY <1>0, <2>1, OutsideInv, Zenon DEF Entering
<1>2. EvTypeOK'
  BY <1>0, <1>o, <1>k, <1>t, <1>1, Zenon DEF EvInv, EvTypeOK, IInv, Ops
<1>3. \A g \in Fibers, e \in Keys : (On(g, e)' <=> On(g, e)) /\ (Active(e)' <=> Active(e))
  BY <1>0, <1>o, <1>t, Zenon DEF On, Active
<1>4. TaskInv'
  BY <1>0, <1>o, <1>t, <1>3, TaskKept, Zenon
<1>5. CallInv'
  BY <1>0, <1>o, <1>t, <1>3, CallKept, Zenon DEF Calling
<1>6. SpawnInv'
  BY <1>0, Zenon DEF EvInv, SpawnInv, Pending
<1>7. DueInv' /\ JoinSound'
  BY <1>0, <1>o, <1>t, <1>3 DEF EvInv, DueInv, JoinSound
<1> QED  BY <1>1, <1>2, <1>4, <1>5, <1>6, <1>7, Zenon DEF EvInv

(* A WAIT is over and the task goes on. *)
LEMMA WaitReturnsInv == ASSUME EvInv, NEW f \in Fibers, WaitReturns(f) PROVE EvInv'
<1>0. /\ op[f] = "waited" /\ pc[f] = "run" /\ due' = [due EXCEPT ![f] = {}] /\ arg' = [arg EXCEPT ![f] = {}]
      /\ need' = [need EXCEPT ![f] = 0] /\ op' = [op EXCEPT ![f] = "idle"]
      /\ UNCHANGED <<vars, ev, child, started, inst, myev, mine, attached, body>>
  BY Zenon DEF WaitReturns, Goto
<1>t. /\ op \in [Fibers -> Ops] /\ arg \in [Fibers -> SUBSET Keys] /\ held[f] = 0
      /\ need \in [Fibers -> Nat] /\ due \in [Fibers -> SUBSET Instances]
  BY <1>0, Zenon DEF EvInv, EvTypeOK, OpInv
<1>1. IInv' /\ OpInv' /\ KeyInv' /\ AsleepInv' /\ WalkedInv'
  <2>1. ASSUME NEW w \in Fibers
        PROVE  \/ op'[w] = op[w] /\ arg'[w] = arg[w] /\ need'[w] = need[w]
               \/ pc[w] = "run" /\ held[w] = 0 /\ op'[w] = "idle"
    BY <1>0, <1>t, Zenon
  <2> QED  BY <1>0, <2>1, OutsideInv, Zenon
<1>2. EvTypeOK'
  BY <1>0, <1>t, <1>1, Zenon DEF EvInv, EvTypeOK, IInv, Ops
<1>3. \A g \in Fibers, e \in Keys : (On(g, e)' <=> On(g, e)) /\ (Active(e)' <=> Active(e))
  BY <1>0, <1>t, Zenon DEF On, Active
<1>4. TaskInv'
  BY <1>0, <1>t, <1>3, TaskKept, Zenon
<1>5. CallInv'
  BY <1>0, <1>t, <1>3, CallKept, Zenon DEF Calling
<1>6. SpawnInv'
  BY <1>0, Zenon DEF EvInv, SpawnInv, Pending
<1>7. DueInv' /\ JoinSound'
  BY <1>0, <1>t, <1>3 DEF EvInv, DueInv, JoinSound
<1> QED  BY <1>1, <1>2, <1>4, <1>5, <1>6, <1>7, Zenon DEF EvInv

-----------------------------------------------------------------------------
(* The whole specification. *)

(* A step of the event layer is a step of the lock layer or leaves it alone. *)
LEMMA LockStep == ASSUME EvInv, NEW f \in Fibers, Chooses(f) \/ Continues(f) PROVE [Next]_vars
<1>1. CASE Chooses(f)
  BY <1>1, Zenon DEF Chooses, CallEvent, WaitStart, WaitNStart
<1>2. CASE Continues(f)
  <2>1. CASE Inside(f) \/ Enter(f)
    BY <2>1, Zenon DEF Inside, Enter, Next, Step
  <2>2. CASE SpawnTask(f) \/ BodyReturns(f) \/ FiberDies(f) \/ WaitReturns(f)
    BY <2>2, Zenon DEF SpawnTask, BodyReturns, FiberDies, WaitReturns
  <2>3. CASE pli_event_reset(f) \/ CompleteExit(f)
    BY <2>3, Zenon DEF pli_event_reset, CompleteExit, Next, Step
  <2>4. CASE pli_event_complete(f)
    <3>1. PICK e \in myev[f] : CondSignal(f, e)
      BY <2>4, Zenon DEF pli_event_complete
    <3>2. e \in Keys
      BY <3>1, Zenon DEF EvInv, EvTypeOK
    <3> QED  BY <3>1, <3>2, Zenon DEF Next, Step
  <2>5. CASE pli_event_wait(f)
    <3>1. PICK e \in arg[f] : LockRelease(f) \/ CondWait(f, e)
      BY <2>5, Zenon DEF pli_event_wait
    <3>2. e \in Keys
      BY <3>1, Zenon DEF EvInv, EvTypeOK
    <3> QED  BY <3>1, <3>2, Zenon DEF Next, Step
  <2>6. CASE pli_wait_n(f)
    BY <2>6, Zenon DEF pli_wait_n, Next, Step
  <2> QED  BY <1>2, <2>1, <2>2, <2>3, <2>4, <2>5, <2>6, Zenon DEF Continues
<1> QED  BY <1>1, <1>2, Zenon

(* Every step of a fiber keeps the invariant. *)
LEMMA StepInv == ASSUME Counting, EvInv, NEW f \in Fibers, Chooses(f) \/ Continues(f) PROVE EvInv'
<1>1. IInv'
  BY LockStep, NextInv, Zenon DEF EvInv
<1>2. CASE Chooses(f)
  BY <1>2, CallEventInv, WaitStartInv, WaitNStartInv, Zenon DEF Chooses
<1>3. CASE Continues(f)
  <2>1. CASE Inside(f) \/ Enter(f)
    BY <1>1, <2>1, InsideInv, EnterInv, Zenon
  <2>2. CASE pli_event_reset(f) \/ SpawnTask(f)
    BY <1>1, <2>2, ResetInv, SpawnTaskInv, Zenon
  <2>3. CASE BodyReturns(f) \/ pli_event_complete(f) \/ CompleteExit(f) \/ FiberDies(f)
    BY <1>1, <2>3, BodyReturnsInv, CompleteInv, CompleteExitInv, FiberDiesInv, Zenon
  <2>4. CASE pli_event_wait(f) \/ pli_wait_n(f) \/ WaitReturns(f)
    BY <1>1, <2>4, EventWaitInv, WaitNInv, WaitReturnsInv, Zenon
  <2> QED  BY <1>3, <2>1, <2>2, <2>3, <2>4, Zenon DEF Continues
<1> QED  BY <1>2, <1>3, Zenon

(* So does a step of nobody. *)
LEMMA EvStutter == ASSUME EvInv, UNCHANGED evVars PROVE EvInv'
<1>0. UNCHANGED <<vars, ev, op, arg, taskVars>>
  BY Zenon DEF evVars
<1>1. IInv'
  BY <1>0, StutterInv, Zenon DEF EvInv
<1>2. EvTypeOK' /\ TaskInv' /\ CallInv' /\ SpawnInv' /\ DueInv' /\ JoinSound'
  BY <1>0, <1>1, TaskFrame, Zenon
<1>3. \A w : Idle(w)' <=> Idle(w)
  BY <1>0, Zenon DEF Idle, DoneCount, rt_ev_done, taskVars
<1>4. OpInv' /\ KeyInv'
  BY <1>0, Zenon DEF EvInv, OpInv, KeyInv, vars
<1>5. AsleepInv' /\ WalkedInv'
  BY <1>0, <1>3, Zenon DEF EvInv, AsleepInv, WalkedInv, vars
<1> QED  BY <1>1, <1>2, <1>4, <1>5, Zenon DEF EvInv

INSTANCE FiniteSetTheorems

(* Finite sets of tasks count one up and one down. *)
LEMMA CountingHolds == Counting
<1>1. ASSUME NEW E \in SUBSET Keys
      PROVE  Cardinality(E) \in Nat /\ \A D \in SUBSET E : Cardinality(D) <= Cardinality(E)
  <2>1. IsFiniteSet(E)
    BY EventsAssumption, FS_Subset, Zenon
  <2> QED  BY <2>1, FS_Subset, FS_CardinalityType, Zenon
<1>2. ASSUME NEW S \in SUBSET Fibers, NEW x \in Fibers, IsFiniteSet(S)
      PROVE  /\ Cardinality(S) \in Nat /\ IsFiniteSet(S \cup {x}) /\ IsFiniteSet(S \ {x})
             /\ x \notin S => Cardinality(S \cup {x}) = Cardinality(S) + 1
             /\ x \in S => Cardinality(S \ {x}) = Cardinality(S) - 1
  BY <1>2, FS_CardinalityType, FS_AddElement, FS_RemoveElement, Zenon
<1> QED  BY <1>1, <1>2, Zenon DEF Counting

(* No event, task or waiter: the invariant holds. *)
LEMMA EvInitInv == EvInit => EvInv
<1> SUFFICES ASSUME EvInit PROVE EvInv
  OBVIOUS
<1> USE DEF EvInit
<1>1. IInv
  BY InitInv, Zenon
<1>2. EvTypeOK
  BY <1>1, MaxSpawnsAssumption DEF EvTypeOK, IInv, Ops, FiberOrNone, Instances
<1>3. OpInv /\ KeyInv
  BY Zenon DEF OpInv, KeyInv, Init, Entering, Waiting
<1>4. AsleepInv /\ WalkedInv
  BY EmptyFacts, Zenon DEF AsleepInv, WalkedInv, Init
<1>5. TaskInv /\ CallInv /\ DueInv /\ JoinSound
  BY Zenon DEF TaskInv, CallInv, DueInv, JoinSound, On, Calling
<1>6. SpawnInv
  <2>1. Pending = {}
    BY Zenon DEF Pending
  <2> QED  BY <2>1, FS_EmptySet, MaxSpawnsAssumption DEF SpawnInv
<1> QED  BY <1>1, <1>2, <1>3, <1>4, <1>5, <1>6, Zenon DEF EvInv

(* The inductive invariant holds in every reachable state. *)
THEOREM EventsKeepInv == EvSpec => []EvInv
<1>1. EvInv /\ [EvNext]_evVars => EvInv'
  BY CountingHolds, StepInv, EvStutter, Zenon DEF EvNext
<1> QED  BY <1>1, EvInitInv, PTL DEF EvSpec

(* A task asleep in pli_event_wait or pli_wait_n sleeps for something that *)
(* has not happened, and pli_event_wait returns only after the bodies of   *)
(* the tasks its event was attached to, for every number of tasks, events  *)
(* and instances.                                                          *)
THEOREM WaitsAreSound == EvSpec => []WaitsSound
<1>1. EvInv => WaitsSound
  <2> HAVE EvInv
  <2>1. ASSUME NEW f \in Elems(cwaiters) \cup UNION {Elems(keep[g]) : g \in Fibers}
        PROVE  /\ op[f] = "wait" => \A e \in arg[f] : ~rt_ev_done(e)
               /\ op[f] = "waitn" => DoneCount(arg[f]) < need[f]
    <3>1. f \in Elems(cwaiters) \/ \E g \in Fibers : f \in Elems(keep[g])
      BY <2>1, Zenon
    <3>2. cwaiters \in Seq(Fibers) /\ \A g \in Fibers : keep[g] \in Seq(Fibers)
      BY Zenon DEF EvInv, IInv, TypeOK
    <3>3. f \in Fibers
      BY <3>1, <3>2 DEF Elems
    <3>4. Idle(f)
      BY <3>1, <3>3, Zenon DEF EvInv, AsleepInv
    <3> QED  BY <3>4, Zenon DEF Idle, rt_ev_done
  <2> QED  BY <2>1, Zenon DEF EvInv, WaitsSound, AsleepForAReason
<1> QED  BY <1>1, EventsKeepInv, PTL

(* Events use the lock and the condition only as rt_sync.c offers them, so *)
(* what RtSyncProofs proves of every user holds of pli_ev_mu and pli_ev_cv. *)
THEOREM EventsImplementLocks == EvSpec => Spec
<1>1. EvInit => Init
  BY Zenon DEF EvInit
<1>2. EvInv /\ [EvNext]_evVars => [Next]_vars
  BY LockStep, Zenon DEF EvNext, evVars
<1> QED  BY <1>1, <1>2, EventsKeepInv, PTL DEF EvSpec, Spec
=============================================================================
