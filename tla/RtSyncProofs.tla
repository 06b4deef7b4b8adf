---------------------------- MODULE RtSyncProofs ----------------------------
(***************************************************************************)
(* What RtSync promises for every number of tasks, keys and every depth.   *)
(*                                                                         *)
(* The inductive invariant says where a fiber can be, seen from its        *)
(* program counter, and that the lock's owner is the one fiber that either *)
(* runs inside the lock or has been handed it and has not resumed yet.     *)
(***************************************************************************)
EXTENDS RtSync

Parking == {"cond_unpark", "cond_park"}

(* The lock's words agree with each other and with what the tasks hold. *)
LockInv ==
  /\ owner = NoFiber <=> depth = 0
  /\ owner = NoFiber => waiters = <<>>
  /\ \A f \in Fibers : held[f] > 0 =>
       owner = f /\ depth = held[f] /\ pc[f] \in {"run", "walk"}
  /\ \A f \in Fibers : owner = f /\ held[f] = 0 =>
       /\ pc[f] = "lock_park" /\ depth = 1
       /\ f \in ready \/ \E g \in Fibers : hand[g] = f
  /\ \A f \in Fibers : pc[f] = "lock_park" => f \in Elems(waiters) \/ owner = f

(* A queued fiber is parked for the lock and has not been handed it. *)
WaiterInv ==
  /\ Distinct(waiters)
  /\ \A f \in Fibers : f \in Elems(waiters) =>
       pc[f] = "lock_park" /\ owner # f /\ f \notin ready

(* A fiber in a releaser's hand is the owner, parked and not yet unparked. *)
HandInv ==
  \A g \in Fibers :
    /\ hand[g] = NoFiber <=> pc[g] \notin {"unpark", "cond_unpark"}
    /\ hand[g] # NoFiber =>
         owner = hand[g] /\ held[hand[g]] = 0 /\ hand[g] \notin ready
    /\ \A h \in Fibers : hand[g] # NoFiber /\ hand[g] = hand[h] => g = h

(* Only the owner walks the condition's queue, and it walks all of it. *)
WalkInv ==
  \A g \in Fibers :
    /\ pc[g] # "walk" => walk[g] = <<>> /\ keep[g] = <<>>
    /\ pc[g] = "walk" => cwaiters = <<>> /\ held[g] > 0
    /\ Distinct(walk[g]) /\ Distinct(keep[g])
    /\ Elems(walk[g]) \cap Elems(keep[g]) = {}

(* f is on the condition's queue, or in the list a signaler walks. *)
Enlisted(f) ==
  \/ f \in Elems(cwaiters)
  \/ \E g \in Fibers : f \in Elems(walk[g]) \/ f \in Elems(keep[g])

(* A fiber in rt_cond_wait is enlisted or unparked, and never both. *)
CondInv ==
  /\ Distinct(cwaiters)
  /\ \A f \in Fibers : Enlisted(f) => pc[f] \in Parking /\ f \notin ready
  /\ \A f \in Fibers : pc[f] \in Parking => Enlisted(f) \/ f \in ready

(* An unparked fiber is parked, for the lock that it now owns or for the   *)
(* condition.                                                              *)
ReadyInv ==
  \A f \in Fibers : f \in ready =>
    \/ pc[f] \in Parking
    \/ pc[f] = "lock_park" /\ owner = f /\ held[f] = 0

IInv == TypeOK /\ LockInv /\ WaiterInv /\ HandInv /\ WalkInv /\ CondInv /\ ReadyInv

-----------------------------------------------------------------------------
(* One lemma per operation: it preserves the invariant. *)

(* A free lock is taken. *)
LEMMA LockTakeInv ==
  ASSUME IInv, NEW f \in Fibers, pc[f] \in {"run", "relock"}, LockTake(f)
  PROVE  IInv'
<1> USE DEF LockTake, lockVars, condVars, walkVars
<1>i. TypeOK /\ LockInv /\ WaiterInv /\ HandInv /\ WalkInv /\ CondInv /\ ReadyInv
  BY DEF IInv
<1>a. \A g \in Fibers : held[g] = 0
  BY <1>i, NoFiberAssumption DEF TypeOK, LockInv
<1>b. f \notin ready
  BY <1>i DEF ReadyInv, Parking
<1>c. \A g \in Fibers : hand[g] = NoFiber
  BY <1>i DEF HandInv, TypeOK, FiberOrNone
<1>d. waiters = <<>> /\ Elems(waiters) = {}
  BY <1>i, EmptyFacts DEF LockInv
<1>e. \A x : Enlisted(x)' <=> Enlisted(x)
  BY DEF Enlisted
<1>1. TypeOK'
  BY <1>i, <1>a, MaxDepthAssumption DEF TypeOK, FiberOrNone, PcValues
<1>2. LockInv'
  BY <1>i, <1>a, <1>d, NoFiberAssumption DEF LockInv, TypeOK, PcValues
<1>3. WaiterInv'
  BY <1>i, <1>d DEF WaiterInv
<1>4. HandInv'
  BY <1>i, <1>c DEF HandInv, TypeOK
<1>5. WalkInv'
  BY <1>i, <1>a DEF WalkInv, TypeOK
<1>6. CondInv'
  BY <1>i, <1>e DEF CondInv, Parking, TypeOK
<1>7. ReadyInv'
  BY <1>i, <1>b, NoFiberAssumption DEF ReadyInv, Parking, TypeOK
<1> QED  BY <1>1, <1>2, <1>3, <1>4, <1>5, <1>6, <1>7 DEF IInv

(* The owner enters again. *)
LEMMA LockRecurseInv ==
  ASSUME IInv, NEW f \in Fibers, pc[f] \in {"run", "relock"}, LockRecurse(f)
  PROVE  IInv'
<1> USE DEF LockRecurse, lockVars, condVars, walkVars
<1>i. TypeOK /\ LockInv /\ WaiterInv /\ HandInv /\ WalkInv /\ CondInv /\ ReadyInv
  BY DEF IInv
<1>a. held[f] > 0 /\ held[f] = depth /\ pc[f] = "run"
  BY <1>i DEF LockInv, TypeOK
<1>b. pc' = pc
  BY <1>i, <1>a DEF TypeOK
<1>e. \A x : Enlisted(x)' <=> Enlisted(x)
  BY DEF Enlisted
<1>1. TypeOK'
  BY <1>i, <1>a, MaxDepthAssumption DEF TypeOK, FiberOrNone, PcValues
<1>2. LockInv'
  BY <1>i, <1>a, <1>b, NoFiberAssumption, SMTT(30) DEF LockInv, TypeOK
<1>3. WaiterInv'
  BY <1>i, <1>b DEF WaiterInv
<1>4. HandInv'
  BY <1>i, <1>a, <1>b DEF HandInv, TypeOK, FiberOrNone
<1>5. WalkInv'
  BY <1>i, <1>a, <1>b DEF WalkInv, TypeOK
<1>6. CondInv'
  BY <1>i, <1>b, <1>e DEF CondInv
<1>7. ReadyInv'
  BY <1>i, <1>a, <1>b DEF ReadyInv, TypeOK
<1> QED  BY <1>1, <1>2, <1>3, <1>4, <1>5, <1>6, <1>7 DEF IInv

(* A contended acquire enlists and parks. *)
LEMMA LockEnqueueInv ==
  ASSUME IInv, NEW f \in Fibers, pc[f] \in {"run", "relock"}, LockEnqueue(f)
  PROVE  IInv'
<1> USE DEF LockEnqueue, lockVars, condVars, walkVars
<1>i. TypeOK /\ LockInv /\ WaiterInv /\ HandInv /\ WalkInv /\ CondInv /\ ReadyInv
  BY DEF IInv
<1>a. f \notin Elems(waiters) /\ f \notin ready
  BY <1>i DEF WaiterInv, ReadyInv, Parking
<1>b. held[f] = 0
  BY <1>i DEF LockInv, TypeOK
<1>c. /\ waiters' \in Seq(Fibers) /\ waiters' # <<>> /\ Distinct(waiters')
      /\ \A x : x \in Elems(waiters') <=> x \in Elems(waiters) \/ x = f
  BY <1>i, <1>a, PushFacts DEF TypeOK, WaiterInv
<1>d. pc'[f] = "lock_park" /\ \A g \in Fibers : g # f => pc'[g] = pc[g]
  BY <1>i DEF TypeOK
<1>e. \A x : Enlisted(x)' <=> Enlisted(x)
  BY DEF Enlisted
<1>g. ~Enlisted(f)
  BY <1>i DEF CondInv, Parking
<1>1. TypeOK'
  BY <1>i, <1>c DEF TypeOK, FiberOrNone, PcValues
<1>2. LockInv'
  BY <1>i, <1>b, <1>c, <1>d DEF LockInv
<1>3. WaiterInv'
  BY <1>i, <1>a, <1>c, <1>d DEF WaiterInv
<1>4. HandInv'
  BY <1>i, <1>d DEF HandInv
<1>5. WalkInv'
  BY <1>i, <1>d, Zenon DEF WalkInv
<1>6. CondInv'
  BY <1>i, <1>d, <1>e, <1>g DEF CondInv, Parking
<1>7. ReadyInv'
  BY <1>i, <1>a, <1>d DEF ReadyInv
<1> QED  BY <1>1, <1>2, <1>3, <1>4, <1>5, <1>6, <1>7 DEF IInv

(* A fiber handed the lock resumes. *)
LEMMA LockResumeInv ==
  ASSUME IInv, NEW f \in Fibers, LockResume(f)
  PROVE  IInv'
<1> USE DEF LockResume, lockVars, condVars, walkVars
<1>i. TypeOK /\ LockInv /\ WaiterInv /\ HandInv /\ WalkInv /\ CondInv /\ ReadyInv
  BY DEF IInv
<1>a. owner = f /\ held[f] = 0
  BY <1>i DEF ReadyInv, Parking
<1>b. depth = 1 /\ \A g \in Fibers : g # f => held[g] = 0
  BY <1>i, <1>a, NoFiberAssumption DEF LockInv, TypeOK
<1>c. \A g \in Fibers : hand[g] = NoFiber
  BY <1>i, <1>a DEF HandInv, TypeOK, FiberOrNone
<1>d. pc'[f] = "run" /\ held'[f] = 1 /\ \A g \in Fibers : g # f => pc'[g] = pc[g] /\ held'[g] = held[g]
  BY <1>i, <1>a DEF TypeOK
<1>e. \A x : Enlisted(x)' <=> Enlisted(x)
  BY DEF Enlisted
<1>g. f \notin Elems(waiters) /\ ~Enlisted(f)
  BY <1>i, <1>a DEF WaiterInv, CondInv, Parking
<1>1. TypeOK'
  BY <1>i, <1>a, MaxDepthAssumption DEF TypeOK, FiberOrNone, PcValues
<1>2. LockInv'
  BY <1>i, <1>a, <1>b, <1>d, NoFiberAssumption DEF LockInv
<1>3. WaiterInv'
  BY <1>i, <1>a, <1>d, <1>g DEF WaiterInv
<1>4. HandInv'
  BY <1>i, <1>c, <1>d DEF HandInv
<1>5. WalkInv'
  BY <1>i, <1>d DEF WalkInv
<1>6. CondInv'
  BY <1>i, <1>d, <1>e, <1>g DEF CondInv, Parking
<1>7. ReadyInv'
  BY <1>i, <1>d DEF ReadyInv
<1> QED  BY <1>1, <1>2, <1>3, <1>4, <1>5, <1>6, <1>7 DEF IInv

(* A release of an inner acquisition. *)
LEMMA LockReleaseNestedInv ==
  ASSUME IInv, NEW f \in Fibers, LockRelease(f), depth > 1
  PROVE  IInv'
<1> USE DEF LockRelease, ReleaseLast, lockVars, condVars, walkVars
<1>i. TypeOK /\ LockInv /\ WaiterInv /\ HandInv /\ WalkInv /\ CondInv /\ ReadyInv
  BY DEF IInv
<1>a. owner = f /\ depth = held[f] /\ pc[f] = "run"
  BY <1>i DEF LockInv, TypeOK
<1>b. /\ depth' = depth - 1 /\ held' = [held EXCEPT ![f] = @ - 1] /\ owner' = owner
      /\ waiters' = waiters /\ pc' = pc /\ hand' = hand
  BY <1>i DEF TypeOK
<1>d. held'[f] = held[f] - 1 /\ \A g \in Fibers : g # f => held'[g] = held[g]
  BY <1>i, <1>b DEF TypeOK
<1>e. \A x : Enlisted(x)' <=> Enlisted(x)
  BY DEF Enlisted
<1>1. TypeOK'
  BY <1>i, <1>a, <1>b, MaxDepthAssumption DEF TypeOK, FiberOrNone, PcValues
<1>2. LockInv'
  BY <1>i, <1>a, <1>b, <1>d, NoFiberAssumption, SMTT(30) DEF LockInv, TypeOK
<1>3. WaiterInv'
  BY <1>i, <1>b DEF WaiterInv
<1>4. HandInv'
  BY <1>i, <1>a, <1>b, <1>d DEF HandInv, TypeOK, FiberOrNone
<1>5. WalkInv'
  BY <1>i, <1>a, <1>b, <1>d DEF WalkInv, TypeOK
<1>6. CondInv'
  BY <1>i, <1>b, <1>e DEF CondInv
<1>7. ReadyInv'
  BY <1>i, <1>a, <1>b, <1>d DEF ReadyInv, TypeOK
<1> QED  BY <1>1, <1>2, <1>3, <1>4, <1>5, <1>6, <1>7 DEF IInv

(* A release with nobody waiting frees the lock. *)
LEMMA LockReleaseFreeInv ==
  ASSUME IInv, NEW f \in Fibers, LockRelease(f), depth <= 1, waiters = <<>>
  PROVE  IInv'
<1> USE DEF LockRelease, ReleaseLast, lockVars, condVars, walkVars
<1>i. TypeOK /\ LockInv /\ WaiterInv /\ HandInv /\ WalkInv /\ CondInv /\ ReadyInv
  BY DEF IInv
<1>a. owner = f /\ depth = 1 /\ held[f] = 1 /\ pc[f] = "run"
  BY <1>i, NoFiberAssumption DEF LockInv, TypeOK
<1>b. /\ owner' = NoFiber /\ depth' = 0 /\ waiters' = waiters /\ hand' = hand
      /\ held' = [held EXCEPT ![f] = @ - 1] /\ pc' = [pc EXCEPT ![f] = "run"]
  BY <1>i, <1>a DEF TypeOK
<1>c. \A g \in Fibers : held'[g] = 0
  BY <1>i, <1>a, <1>b DEF LockInv, TypeOK
<1>d. pc'[f] = "run" /\ \A g \in Fibers : g # f => pc'[g] = pc[g]
  BY <1>i, <1>b DEF TypeOK
<1>h. Elems(waiters) = {} /\ \A g \in Fibers : pc[g] # "lock_park"
  BY <1>i, <1>a, EmptyFacts DEF LockInv
<1>g. \A g \in Fibers : hand[g] = NoFiber
  BY <1>i, <1>a DEF HandInv, TypeOK, FiberOrNone
<1>w. \A g \in Fibers : pc[g] # "walk"
  BY <1>i, <1>a DEF WalkInv, LockInv
<1>e. \A x : Enlisted(x)' <=> Enlisted(x)
  BY DEF Enlisted
<1>1. TypeOK'
  BY <1>i, <1>a, <1>b, MaxDepthAssumption DEF TypeOK, FiberOrNone, PcValues
<1>2. LockInv'
  BY <1>i, <1>b, <1>c, <1>d, <1>h, NoFiberAssumption DEF LockInv
<1>3. WaiterInv'
  BY <1>i, <1>b, <1>h DEF WaiterInv
<1>4. HandInv'
  BY <1>i, <1>a, <1>b, <1>d, <1>g DEF HandInv
<1>5. WalkInv'
  BY <1>i, <1>d, <1>w DEF WalkInv
<1>6. CondInv'
  BY <1>i, <1>a, <1>d, <1>e DEF CondInv, Parking
<1>7. ReadyInv'
  BY <1>i, <1>a, <1>d, <1>h DEF ReadyInv, Parking
<1> QED  BY <1>1, <1>2, <1>3, <1>4, <1>5, <1>6, <1>7 DEF IInv

(* A release hands the lock to the newest waiter. *)
LEMMA LockReleaseHandInv ==
  ASSUME IInv, NEW f \in Fibers, LockRelease(f), depth <= 1, waiters # <<>>
  PROVE  IInv'
<1> USE DEF LockRelease, ReleaseLast, lockVars, condVars, walkVars
<1>i. TypeOK /\ LockInv /\ WaiterInv /\ HandInv /\ WalkInv /\ CondInv /\ ReadyInv
  BY DEF IInv
<1>a. owner = f /\ depth = 1 /\ held[f] = 1 /\ pc[f] = "run"
  BY <1>i, NoFiberAssumption DEF LockInv, TypeOK
<1>p. PICK w \in Fibers : w = Head(waiters)
  BY <1>i, PopFacts, SMTT(30) DEF TypeOK
<1>b. /\ owner' = w /\ depth' = 1 /\ waiters' = Tail(waiters) /\ hand' = [hand EXCEPT ![f] = w]
      /\ held' = [held EXCEPT ![f] = @ - 1] /\ pc' = [pc EXCEPT ![f] = "unpark"]
  BY <1>i, <1>a, <1>p DEF TypeOK
<1>q. /\ waiters' \in Seq(Fibers) /\ Distinct(waiters') /\ w \notin Elems(waiters')
      /\ \A x : x \in Elems(waiters) <=> x \in Elems(waiters') \/ x = w
  BY <1>i, <1>b, <1>p, PopFacts DEF TypeOK, WaiterInv
<1>c. \A g \in Fibers : held'[g] = 0
  BY <1>i, <1>a, <1>b DEF LockInv, TypeOK
<1>d. pc'[f] = "unpark" /\ \A g \in Fibers : g # f => pc'[g] = pc[g]
  BY <1>i, <1>b DEF TypeOK
<1>h. w # f /\ pc[w] = "lock_park" /\ w \notin ready
  BY <1>i, <1>a, <1>q DEF WaiterInv
<1>g. \A g \in Fibers : hand[g] = NoFiber
  BY <1>i, <1>a DEF HandInv, TypeOK, FiberOrNone
<1>k. hand'[f] = w /\ \A g \in Fibers : g # f => hand'[g] = NoFiber
  BY <1>i, <1>b, <1>g DEF TypeOK
<1>w. \A g \in Fibers : pc[g] # "walk" \/ g = f
  BY <1>i, <1>a DEF WalkInv, LockInv
<1>e. \A x : Enlisted(x)' <=> Enlisted(x)
  BY DEF Enlisted
<1>u. depth' \in 0..MaxDepth /\ held' \in [Fibers -> 0..MaxDepth]
  BY <1>i, <1>a, <1>b, MaxDepthAssumption DEF TypeOK
<1>v. owner' \in FiberOrNone /\ hand' \in [Fibers -> FiberOrNone] /\ pc' \in [Fibers -> PcValues]
  BY <1>i, <1>b, Zenon DEF TypeOK, FiberOrNone, PcValues
<1>1. TypeOK'
  BY <1>i, <1>q, <1>u, <1>v, Zenon DEF TypeOK
<1>2. LockInv'
  BY <1>i, <1>a, <1>b, <1>c, <1>d, <1>h, <1>k, <1>q, NoFiberAssumption DEF LockInv
<1>3. WaiterInv'
  BY <1>i, <1>a, <1>b, <1>d, <1>q DEF WaiterInv
<1>4. HandInv'
  BY <1>i, <1>a, <1>b, <1>c, <1>d, <1>h, <1>k, <1>g, NoFiberAssumption DEF HandInv
<1>5. WalkInv'
  BY <1>i, <1>a, <1>d, <1>w, SMTT(30) DEF WalkInv
<1>6. CondInv'
  BY <1>i, <1>a, <1>d, <1>e, Zenon DEF CondInv, Parking
<1>7. ReadyInv'
  BY <1>i, <1>a, <1>d, <1>h DEF ReadyInv, Parking
<1> QED  BY <1>1, <1>2, <1>3, <1>4, <1>5, <1>6, <1>7 DEF IInv

(* The waiter in hand is unparked. *)
LEMMA UnparkInv ==
  ASSUME IInv, NEW f \in Fibers, Unpark(f)
  PROVE  IInv'
<1> USE DEF Unpark, lockVars, condVars, walkVars
<1>i. TypeOK /\ LockInv /\ WaiterInv /\ HandInv /\ WalkInv /\ CondInv /\ ReadyInv
  BY DEF IInv
<1>a. hand[f] \in Fibers /\ owner = hand[f] /\ held[hand[f]] = 0 /\ hand[f] \notin ready
  BY <1>i DEF HandInv, TypeOK, FiberOrNone
<1>b. pc[hand[f]] = "lock_park" /\ hand[f] # f
  BY <1>i, <1>a DEF LockInv
<1>c. \A g \in Fibers : g # f => hand[g] = NoFiber
  BY <1>i, <1>a DEF HandInv, TypeOK, FiberOrNone
<1>d. /\ pc'[f] = (IF pc[f] = "unpark" THEN "run" ELSE "cond_park") /\ \A g \in Fibers : g # f => pc'[g] = pc[g]
      /\ \A g \in Fibers : hand'[g] = NoFiber
  BY <1>i, <1>c DEF TypeOK
<1>e. \A x : Enlisted(x)' <=> Enlisted(x)
  BY DEF Enlisted
<1>g. hand[f] \notin Elems(waiters) /\ ~Enlisted(hand[f])
  BY <1>i, <1>a, <1>b DEF WaiterInv, CondInv, Parking
<1>1. TypeOK'
  BY <1>i, <1>a DEF TypeOK, FiberOrNone, PcValues
<1>2. LockInv'
  BY <1>i, <1>a, <1>b, <1>d DEF LockInv
<1>3. WaiterInv'
  BY <1>i, <1>d, <1>g DEF WaiterInv
<1>4. HandInv'
  BY <1>i, <1>d DEF HandInv
<1>5. WalkInv'
  BY <1>i, <1>d DEF WalkInv
<1>6. CondInv'
  BY <1>i, <1>d, <1>e, <1>g DEF CondInv, Parking
<1>7. ReadyInv'
  BY <1>i, <1>a, <1>b, <1>d DEF ReadyInv, Parking
<1> QED  BY <1>1, <1>2, <1>3, <1>4, <1>5, <1>6, <1>7 DEF IInv

(* A wait with nobody after the lock frees it. *)
LEMMA CondWaitFreeInv ==
  ASSUME IInv, NEW f \in Fibers, NEW key \in Keys \cup {AnyKey}, CondWait(f, key), waiters = <<>>
  PROVE  IInv'
<1> USE DEF CondWait, ReleaseLast, lockVars, condVars, walkVars
<1>i. TypeOK /\ LockInv /\ WaiterInv /\ HandInv /\ WalkInv /\ CondInv /\ ReadyInv
  BY DEF IInv
<1>a. owner = f /\ depth = 1 /\ held[f] = 1 /\ pc[f] = "run"
  BY <1>i, NoFiberAssumption DEF LockInv, TypeOK
<1>b. /\ owner' = NoFiber /\ depth' = 0 /\ waiters' = waiters /\ hand' = hand
      /\ held' = [held EXCEPT ![f] = @ - 1] /\ pc' = [pc EXCEPT ![f] = "cond_park"]
  BY <1>i, <1>a DEF TypeOK
<1>c. \A g \in Fibers : held'[g] = 0
  BY <1>i, <1>a, <1>b DEF LockInv, TypeOK
<1>d. pc'[f] = "cond_park" /\ \A g \in Fibers : g # f => pc'[g] = pc[g]
  BY <1>i, <1>b DEF TypeOK
<1>h. Elems(waiters) = {} /\ \A g \in Fibers : pc[g] # "lock_park"
  BY <1>i, <1>a, EmptyFacts DEF LockInv
<1>g. \A g \in Fibers : hand[g] = NoFiber
  BY <1>i, <1>a DEF HandInv, TypeOK, FiberOrNone
<1>w. \A g \in Fibers : pc[g] # "walk"
  BY <1>i, <1>a DEF WalkInv, LockInv
<1>x. f \notin Elems(cwaiters) /\ f \notin ready /\ ~Enlisted(f)
  BY <1>i, <1>a DEF CondInv, Parking, ReadyInv, Enlisted
<1>y. /\ cwaiters' \in Seq(Fibers) /\ Distinct(cwaiters')
      /\ \A x : x \in Elems(cwaiters') <=> x \in Elems(cwaiters) \/ x = f
  BY <1>i, <1>x, PushFacts, SMTT(30) DEF TypeOK, CondInv
<1>e. \A x : Enlisted(x)' <=> Enlisted(x) \/ x = f
  BY <1>y DEF Enlisted
<1>t. wait_key' \in [Fibers -> Keys \cup {AnyKey}]
  BY <1>i DEF TypeOK
<1>1. TypeOK'
  BY <1>i, <1>a, <1>b, <1>y, <1>t, MaxDepthAssumption DEF TypeOK, FiberOrNone, PcValues
<1>2. LockInv'
  BY <1>i, <1>b, <1>c, <1>d, <1>h, NoFiberAssumption DEF LockInv
<1>3. WaiterInv'
  BY <1>i, <1>b, <1>h DEF WaiterInv
<1>4. HandInv'
  BY <1>i, <1>a, <1>b, <1>d, <1>g DEF HandInv
<1>5. WalkInv'
  BY <1>i, <1>d, <1>w, Zenon DEF WalkInv
<1>6. CondInv'
  BY <1>i, <1>x, <1>y, <1>d, <1>e DEF CondInv, Parking
<1>7. ReadyInv'
  BY <1>i, <1>a, <1>d, <1>h, <1>x DEF ReadyInv, Parking
<1> QED  BY <1>1, <1>2, <1>3, <1>4, <1>5, <1>6, <1>7 DEF IInv

(* A wait hands the lock to the newest waiter. *)
LEMMA CondWaitHandInv ==
  ASSUME IInv, NEW f \in Fibers, NEW key \in Keys \cup {AnyKey}, CondWait(f, key), waiters # <<>>
  PROVE  IInv'
<1> USE DEF CondWait, ReleaseLast, lockVars, condVars, walkVars
<1>i. TypeOK /\ LockInv /\ WaiterInv /\ HandInv /\ WalkInv /\ CondInv /\ ReadyInv
  BY DEF IInv
<1>a. owner = f /\ depth = 1 /\ held[f] = 1 /\ pc[f] = "run"
  BY <1>i, NoFiberAssumption DEF LockInv, TypeOK
<1>p. PICK w \in Fibers : w = Head(waiters)
  BY <1>i, PopFacts, SMTT(30) DEF TypeOK
<1>b. /\ owner' = w /\ depth' = 1 /\ waiters' = Tail(waiters) /\ hand' = [hand EXCEPT ![f] = w]
      /\ held' = [held EXCEPT ![f] = @ - 1] /\ pc' = [pc EXCEPT ![f] = "cond_unpark"]
  BY <1>i, <1>a, <1>p, SMTT(30) DEF TypeOK
<1>q. /\ waiters' \in Seq(Fibers) /\ Distinct(waiters') /\ w \notin Elems(waiters')
      /\ \A x : x \in Elems(waiters) <=> x \in Elems(waiters') \/ x = w
  BY <1>i, <1>b, <1>p, PopFacts DEF TypeOK, WaiterInv
<1>c. \A g \in Fibers : held'[g] = 0
  BY <1>i, <1>a, <1>b DEF LockInv, TypeOK
<1>d. pc'[f] = "cond_unpark" /\ \A g \in Fibers : g # f => pc'[g] = pc[g]
  BY <1>i, <1>b DEF TypeOK
<1>h. w # f /\ pc[w] = "lock_park" /\ w \notin ready
  BY <1>i, <1>a, <1>q DEF WaiterInv
<1>g. \A g \in Fibers : hand[g] = NoFiber
  BY <1>i, <1>a DEF HandInv, TypeOK, FiberOrNone
<1>k. hand'[f] = w /\ \A g \in Fibers : g # f => hand'[g] = NoFiber
  BY <1>i, <1>b, <1>g DEF TypeOK
<1>w. \A g \in Fibers : pc[g] # "walk" \/ g = f
  BY <1>i, <1>a DEF WalkInv, LockInv
<1>x. f \notin Elems(cwaiters) /\ f \notin ready /\ ~Enlisted(f)
  BY <1>i, <1>a, SMTT(30) DEF CondInv, Parking, ReadyInv, Enlisted
<1>y. /\ cwaiters' \in Seq(Fibers) /\ Distinct(cwaiters')
      /\ \A x : x \in Elems(cwaiters') <=> x \in Elems(cwaiters) \/ x = f
  BY <1>i, <1>x, PushFacts, SMTT(30) DEF TypeOK, CondInv
<1>e. \A x : Enlisted(x)' <=> Enlisted(x) \/ x = f
  BY <1>y DEF Enlisted
<1>t. wait_key' \in [Fibers -> Keys \cup {AnyKey}]
  BY <1>i DEF TypeOK
<1>u. depth' \in 0..MaxDepth /\ held' \in [Fibers -> 0..MaxDepth]
  BY <1>i, <1>a, <1>b, MaxDepthAssumption DEF TypeOK
<1>v. owner' \in FiberOrNone /\ hand' \in [Fibers -> FiberOrNone] /\ pc' \in [Fibers -> PcValues]
  BY <1>i, <1>b, Zenon DEF TypeOK, FiberOrNone, PcValues
<1>1. TypeOK'
  BY <1>i, <1>q, <1>u, <1>v, <1>y, <1>t, Zenon DEF TypeOK
<1>2. LockInv'
  BY <1>i, <1>a, <1>b, <1>c, <1>d, <1>h, <1>k, <1>q, NoFiberAssumption DEF LockInv
<1>3. WaiterInv'
  BY <1>i, <1>a, <1>b, <1>d, <1>q DEF WaiterInv
<1>4. HandInv'
  BY <1>i, <1>a, <1>b, <1>c, <1>d, <1>h, <1>k, <1>g, NoFiberAssumption DEF HandInv
<1>5. WalkInv'
  BY <1>i, <1>a, <1>d, <1>w, Zenon DEF WalkInv
<1>6. CondInv'
  BY <1>i, <1>x, <1>y, <1>d, <1>e, Zenon DEF CondInv, Parking
<1>7. ReadyInv'
  BY <1>i, <1>a, <1>d, <1>h, <1>x DEF ReadyInv, Parking
<1> QED  BY <1>1, <1>2, <1>3, <1>4, <1>5, <1>6, <1>7 DEF IInv

(* A woken fiber leaves its park. *)
LEMMA CondResumeInv ==
  ASSUME IInv, NEW f \in Fibers, CondResume(f)
  PROVE  IInv'
<1> USE DEF CondResume, lockVars, condVars, walkVars
<1>i. TypeOK /\ LockInv /\ WaiterInv /\ HandInv /\ WalkInv /\ CondInv /\ ReadyInv
  BY DEF IInv
<1>a. ~Enlisted(f) /\ f \notin Elems(waiters)
  BY <1>i DEF CondInv, WaiterInv
<1>d. pc'[f] = "relock" /\ \A g \in Fibers : g # f => pc'[g] = pc[g]
  BY <1>i DEF TypeOK
<1>h. ~(held[f] > 0)
  BY <1>i DEF LockInv
<1>b. held[f] = 0
  BY <1>i, <1>h, MaxDepthAssumption DEF TypeOK
<1>c. owner # f
  BY <1>i, <1>b DEF LockInv
<1>e. \A x : Enlisted(x)' <=> Enlisted(x)
  BY DEF Enlisted
<1>1. TypeOK'
  BY <1>i DEF TypeOK, FiberOrNone, PcValues
<1>2. LockInv'
  BY <1>i, <1>b, <1>c, <1>d DEF LockInv
<1>3. WaiterInv'
  BY <1>i, <1>a, <1>d, SMTT(30) DEF WaiterInv
<1>4. HandInv'
  BY <1>i, <1>d DEF HandInv
<1>5. WalkInv'
  BY <1>i, <1>d DEF WalkInv
<1>6. CondInv'
  BY <1>i, <1>a, <1>d, <1>e DEF CondInv, Parking
<1>7. ReadyInv'
  BY <1>i, <1>d DEF ReadyInv, Parking
<1> QED  BY <1>1, <1>2, <1>3, <1>4, <1>5, <1>6, <1>7 DEF IInv

(* The owner starts to walk the condition's queue. *)
LEMMA CondSignalInv ==
  ASSUME IInv, NEW f \in Fibers, NEW key \in Keys \cup {AllKeys}, CondSignal(f, key)
  PROVE  IInv'
<1> USE DEF CondSignal, lockVars, condVars, walkVars
<1>i. TypeOK /\ LockInv /\ WaiterInv /\ HandInv /\ WalkInv /\ CondInv /\ ReadyInv
  BY DEF IInv
<1>a. owner = f /\ held[f] > 0
  BY <1>i DEF LockInv, WalkInv
<1>b. \A g \in Fibers : g # f => pc[g] # "walk" /\ walk[g] = <<>> /\ keep[g] = <<>>
  BY <1>i, <1>a DEF WalkInv, LockInv
<1>d. pc'[f] = "walk" /\ \A g \in Fibers : g # f => pc'[g] = pc[g]
  BY <1>i DEF TypeOK
<1>c. walk'[f] = cwaiters /\ keep'[f] = <<>> /\ \A g \in Fibers : g # f => walk'[g] = walk[g] /\ keep'[g] = keep[g]
  BY <1>i DEF TypeOK
<1>g. walk[f] = <<>> /\ keep[f] = <<>>
  BY <1>i DEF WalkInv
<1>e. \A x : Enlisted(x)' <=> Enlisted(x)
  BY <1>b, <1>c, <1>g, EmptyFacts DEF Enlisted
<1>h. ~Enlisted(f)
  BY <1>i DEF CondInv, Parking
<1>1. TypeOK'
  BY <1>i DEF TypeOK, FiberOrNone, PcValues
<1>2. LockInv'
  BY <1>i, <1>a, <1>d DEF LockInv
<1>3. WaiterInv'
  BY <1>i, <1>a, <1>d DEF WaiterInv
<1>4. HandInv'
  BY <1>i, <1>d DEF HandInv
<1>5. WalkInv'
  BY <1>i, <1>a, <1>b, <1>c, <1>d, EmptyFacts DEF WalkInv, CondInv
<1>6. CondInv'
  BY <1>i, <1>d, <1>e, <1>h, EmptyFacts DEF CondInv, Parking
<1>7. ReadyInv'
  BY <1>i, <1>a, <1>d DEF ReadyInv, Parking, TypeOK
<1> QED  BY <1>1, <1>2, <1>3, <1>4, <1>5, <1>6, <1>7 DEF IInv

(* The walk unparks a waiter for its key. *)
LEMMA WalkWakesInv ==
  ASSUME IInv, NEW f \in Fibers, WalkStep(f), Matches(f, Head(walk[f]))
  PROVE  IInv'
<1> USE DEF WalkStep, lockVars, condVars, walkVars
<1>i. TypeOK /\ LockInv /\ WaiterInv /\ HandInv /\ WalkInv /\ CondInv /\ ReadyInv
  BY DEF IInv
<1>a. owner = f /\ held[f] > 0
  BY <1>i, SMTT(30) DEF LockInv, WalkInv
<1>b. \A g \in Fibers : g # f => pc[g] # "walk" /\ walk[g] = <<>> /\ keep[g] = <<>>
  BY <1>i, <1>a DEF WalkInv, LockInv
<1>p. PICK w \in Fibers : w = Head(walk[f])
  BY <1>i, PopFacts, SMTT(30) DEF TypeOK
<1>q. /\ walk'[f] = Tail(walk[f]) /\ walk'[f] \in Seq(Fibers) /\ Distinct(walk'[f]) /\ w \notin Elems(walk'[f])
      /\ \A x : x \in Elems(walk[f]) <=> x \in Elems(walk'[f]) \/ x = w
  BY <1>i, <1>p, PopFacts, SMTT(30) DEF TypeOK, WalkInv
<1>g. w \notin Elems(keep[f]) /\ Enlisted(w) /\ pc[w] \in Parking /\ w \notin ready
  BY <1>i, <1>q DEF WalkInv, CondInv, Enlisted
<1>c. \A g \in Fibers : g # f => walk'[g] = <<>> /\ walk'[g] = walk[g]
  BY <1>i, <1>b DEF TypeOK
<1>k. ready' = ready \cup {w} /\ keep' = keep
  BY <1>p, SMTT(30)
<1>e. \A x : Enlisted(x)' <=> Enlisted(x) /\ x # w
  BY <1>i, <1>b, <1>c, <1>g, <1>k, <1>q, EmptyFacts, SMTT(30) DEF Enlisted, WalkInv
<1>1. TypeOK'
  BY <1>i, <1>k, <1>q, ZenonT(30) DEF TypeOK, FiberOrNone, PcValues
<1>2. LockInv'
  BY <1>i, <1>k DEF LockInv
<1>3. WaiterInv'
  BY <1>i, <1>k, <1>g DEF WaiterInv, Parking
<1>4. HandInv'
  BY <1>i, <1>k, <1>g, ZenonT(30) DEF HandInv, LockInv, Parking, TypeOK, FiberOrNone
<1>5. WalkInv'
  BY <1>i, <1>b, <1>c, <1>k, <1>q, EmptyFacts DEF WalkInv
<1>6. CondInv'
  BY <1>i, <1>e, <1>k, <1>g DEF CondInv, Parking
<1>7. ReadyInv'
  BY <1>i, <1>k, <1>g DEF ReadyInv
<1> QED  BY <1>1, <1>2, <1>3, <1>4, <1>5, <1>6, <1>7 DEF IInv

(* The walk puts a waiter for another key back. *)
LEMMA WalkKeepsInv ==
  ASSUME IInv, NEW f \in Fibers, WalkStep(f), ~Matches(f, Head(walk[f]))
  PROVE  IInv'
<1> USE DEF WalkStep, lockVars, condVars, walkVars
<1>i. TypeOK /\ LockInv /\ WaiterInv /\ HandInv /\ WalkInv /\ CondInv /\ ReadyInv
  BY DEF IInv
<1>a. owner = f /\ held[f] > 0
  BY <1>i DEF LockInv, WalkInv
<1>b. \A g \in Fibers : g # f => pc[g] # "walk" /\ walk[g] = <<>> /\ keep[g] = <<>>
  BY <1>i, <1>a DEF WalkInv, LockInv
<1>p. PICK w \in Fibers : w = Head(walk[f])
  BY <1>i, PopFacts, SMTT(30) DEF TypeOK
<1>q. /\ walk'[f] = Tail(walk[f]) /\ walk'[f] \in Seq(Fibers) /\ Distinct(walk'[f]) /\ w \notin Elems(walk'[f])
      /\ \A x : x \in Elems(walk[f]) <=> x \in Elems(walk'[f]) \/ x = w
  BY <1>i, <1>p, PopFacts DEF TypeOK, WalkInv
<1>g. w \notin Elems(keep[f]) /\ Enlisted(w) /\ pc[w] \in Parking /\ w \notin ready
  BY <1>i, <1>q DEF WalkInv, CondInv, Enlisted
<1>c. \A g \in Fibers : g # f => walk'[g] = <<>> /\ walk'[g] = walk[g]
  BY <1>i, <1>b DEF TypeOK
<1>k. keep' = [keep EXCEPT ![f] = Append(@, w)] /\ ready' = ready
  BY <1>p
<1>m. keep'[f] = Append(keep[f], w) /\ \A g \in Fibers : g # f => keep'[g] = keep[g]
  BY <1>i, <1>k DEF TypeOK
<1>n. keep[f] \in Seq(Fibers) /\ Distinct(keep[f])
  BY <1>i DEF TypeOK, WalkInv
<1>l. /\ keep'[f] \in Seq(Fibers) /\ Distinct(keep'[f])
      /\ \A x : x \in Elems(keep'[f]) <=> x \in Elems(keep[f]) \/ x = w
      /\ \A g \in Fibers : g # f => keep'[g] = keep[g]
  BY <1>g, <1>m, <1>n, AppendFacts
<1>e. \A x : Enlisted(x)' <=> Enlisted(x)
  BY <1>b, <1>c, <1>q, <1>l, EmptyFacts DEF Enlisted
<1>1. TypeOK'
  BY <1>i, <1>k, <1>l, <1>q, SMTT(30) DEF TypeOK, FiberOrNone, PcValues
<1>2. LockInv'
  BY <1>i, <1>k DEF LockInv
<1>3. WaiterInv'
  BY <1>i, <1>k DEF WaiterInv
<1>4. HandInv'
  BY <1>i, <1>k DEF HandInv
<1>5. WalkInv'
  BY <1>i, <1>b, <1>c, <1>g, <1>l, <1>q, EmptyFacts, ZenonT(30) DEF WalkInv
<1>6. CondInv'
  BY <1>i, <1>e, <1>k DEF CondInv
<1>7. ReadyInv'
  BY <1>i, <1>k DEF ReadyInv
<1> QED  BY <1>1, <1>2, <1>3, <1>4, <1>5, <1>6, <1>7 DEF IInv

(* The waiters put back become the queue again. *)
LEMMA WalkEndInv ==
  ASSUME IInv, NEW f \in Fibers, WalkEnd(f)
  PROVE  IInv'
<1> USE DEF WalkEnd, lockVars, condVars, walkVars
<1>i. TypeOK /\ LockInv /\ WaiterInv /\ HandInv /\ WalkInv /\ CondInv /\ ReadyInv
  BY DEF IInv
<1>a. owner = f /\ held[f] > 0
  BY <1>i DEF LockInv, WalkInv
<1>b. \A g \in Fibers : g # f => pc[g] # "walk" /\ walk[g] = <<>> /\ keep[g] = <<>>
  BY <1>i, <1>a DEF WalkInv, LockInv
<1>d. pc'[f] = "run" /\ \A g \in Fibers : g # f => pc'[g] = pc[g]
  BY <1>i DEF TypeOK
<1>c. keep'[f] = <<>> /\ \A g \in Fibers : g # f => keep'[g] = keep[g]
  BY <1>i DEF TypeOK
<1>g. cwaiters = <<>>
  BY <1>i DEF WalkInv
<1>e. \A x : Enlisted(x)' <=> Enlisted(x)
  BY <1>b, <1>c, <1>g, EmptyFacts DEF Enlisted
<1>1. TypeOK'
  BY <1>i DEF TypeOK, FiberOrNone, PcValues
<1>2. LockInv'
  BY <1>i, <1>a, <1>d, SMTT(30) DEF LockInv, TypeOK
<1>3. WaiterInv'
  BY <1>i, <1>a, <1>d DEF WaiterInv
<1>4. HandInv'
  BY <1>i, <1>d DEF HandInv
<1>5. WalkInv'
  BY <1>i, <1>b, <1>c, <1>d, EmptyFacts DEF WalkInv
<1>6. CondInv'
  BY <1>i, <1>d, <1>e DEF CondInv, Parking, WalkInv
<1>7. ReadyInv'
  BY <1>i, <1>d DEF ReadyInv, Parking
<1> QED  BY <1>1, <1>2, <1>3, <1>4, <1>5, <1>6, <1>7 DEF IInv

-----------------------------------------------------------------------------
(* A stuttering step changes nothing the invariant speaks of. *)
LEMMA StutterInv == ASSUME IInv, UNCHANGED vars PROVE IInv'
<1> USE DEF vars, IInv
<1>1. TypeOK' /\ LockInv' /\ WaiterInv'
  BY SMTT(30) DEF TypeOK, LockInv, WaiterInv
<1>2. HandInv' /\ WalkInv' /\ ReadyInv'
  BY SMTT(30) DEF HandInv, WalkInv, ReadyInv
<1>3. CondInv'
  BY DEF CondInv, Enlisted
<1> QED  BY <1>1, <1>2, <1>3

(* The initial state satisfies the invariant. *)
LEMMA InitInv == Init => IInv
<1> SUFFICES ASSUME Init PROVE IInv
  OBVIOUS
<1> USE DEF Init
<1>1. TypeOK
  BY MaxDepthAssumption DEF TypeOK, FiberOrNone, PcValues
<1>2. LockInv
  BY NoFiberAssumption DEF LockInv
<1>3. WaiterInv /\ WalkInv /\ CondInv
  BY EmptyFacts DEF WaiterInv, WalkInv, CondInv, Enlisted, Parking
<1>4. HandInv /\ ReadyInv
  BY DEF HandInv, ReadyInv
<1> QED  BY <1>1, <1>2, <1>3, <1>4 DEF IInv

(* Every step of the lock layer preserves the invariant. *)
LEMMA NextInv == IInv /\ [Next]_vars => IInv'
<1> SUFFICES ASSUME IInv, [Next]_vars PROVE IInv'
  OBVIOUS
<1>1. CASE UNCHANGED vars
  BY <1>1, StutterInv
<1>2. CASE Next
  <2>0. PICK f \in Fibers : Step(f)
    BY <1>2 DEF Next
  <2>1. CASE LockAcquire(f)
    BY <2>1, LockTakeInv, LockRecurseInv, LockEnqueueInv DEF LockAcquire
  <2>2. CASE LockResume(f)
    BY <2>2, LockResumeInv
  <2>3. CASE LockRelease(f)
    <3>1. CASE depth > 1
      BY <2>3, <3>1, LockReleaseNestedInv
    <3>2. CASE depth <= 1
      BY <2>3, <3>2, LockReleaseFreeInv, LockReleaseHandInv
    <3>3. depth > 1 \/ depth <= 1
      BY DEF IInv, TypeOK
    <3> QED  BY <3>1, <3>2, <3>3
  <2>4. CASE Unpark(f)
    BY <2>4, UnparkInv
  <2>5. CASE \E key \in Keys \cup {AnyKey} : CondWait(f, key)
    BY <2>5, CondWaitFreeInv, CondWaitHandInv
  <2>6. CASE CondResume(f)
    BY <2>6, CondResumeInv
  <2>7. CASE \E key \in Keys \cup {AllKeys} : CondSignal(f, key)
    BY <2>7, CondSignalInv
  <2>8. CASE WalkStep(f)
    BY <2>8, WalkWakesInv, WalkKeepsInv
  <2>9. CASE WalkEnd(f)
    BY <2>9, WalkEndInv
  <2> QED  BY <2>0, <2>1, <2>2, <2>3, <2>4, <2>5, <2>6, <2>7, <2>8, <2>9 DEF Step
<1> QED  BY <1>1, <1>2

(* The invariant holds in every reachable state. *)
THEOREM InvariantHolds == Spec => []IInv
BY InitInv, NextInv, PTL DEF Spec

-----------------------------------------------------------------------------
(* What the invariant gives the callers of rt_sync.c. *)

(* Every variable of the lock layer keeps its type. *)
THEOREM TypeCorrect == Spec => []TypeOK
<1>1. IInv => TypeOK
  BY DEF IInv
<1> QED  BY <1>1, InvariantHolds, PTL

(* rt_lock_acquire never returns to two tasks that have not released, even *)
(* though rt_lock_release makes the next waiter the owner while it sleeps. *)
THEOREM LockIsExclusive == Spec => []MutualExclusion
<1>1. IInv => MutualExclusion
  BY DEF IInv, LockInv, MutualExclusion
<1> QED  BY <1>1, InvariantHolds, PTL

(* The lock is never left free with a task on its queue, and a task handed *)
(* the lock is unparked or about to be.                                    *)
THEOREM NoWaiterForgotten == Spec => [](NoIdleLock /\ NoStrandedWaiter)
<1>1. IInv => NoIdleLock
  BY DEF IInv, LockInv, NoIdleLock
<1>2. IInv => NoStrandedWaiter
  <2> SUFFICES ASSUME IInv, NEW f \in Fibers, pc[f] = "lock_park", f \notin Elems(waiters)
               PROVE  owner = f /\ (f \in ready \/ \E g \in Fibers : hand[g] = f)
    BY DEF NoStrandedWaiter
  <2>0. owner = f /\ ~(held[f] > 0)
    BY DEF IInv, LockInv
  <2>1. held[f] = 0
    BY <2>0, MaxDepthAssumption DEF IInv, TypeOK
  <2> QED  BY <2>0, <2>1 DEF IInv, LockInv
<1> QED  BY <1>1, <1>2, InvariantHolds, PTL

(* No signal is lost between a waiter's enlisting and its park.            *)
THEOREM NoSignalLost == Spec => []NoLostWaiter
<1>1. IInv => NoLostWaiter
  BY DEF IInv, CondInv, Enlisted, Parking, NoLostWaiter, CondQueued
<1> QED  BY <1>1, InvariantHolds, PTL

(* The intrusive link wait_next is used by one queue at a time. *)
THEOREM LinkUsedOnce == Spec => []OneQueue
<1>1. IInv => OneQueue
  <2> HAVE IInv
  <2>1. /\ Distinct(waiters) /\ Distinct(cwaiters)
        /\ \A g \in Fibers : Distinct(walk[g]) /\ Distinct(keep[g])
    BY DEF IInv, WaiterInv, CondInv, WalkInv
  <2>2. ASSUME NEW g \in Fibers, pc[g] = "walk", NEW h \in Fibers, pc[h] = "walk"
        PROVE g = h
    BY <2>2 DEF IInv, WalkInv, LockInv
  <2>3. \A g \in Fibers : pc[g] # "walk" => Elems(walk[g]) = {} /\ Elems(keep[g]) = {}
    BY EmptyFacts DEF IInv, WalkInv
  <2>4. \A g \in Fibers : pc[g] = "walk" => Elems(cwaiters) = {}
    BY EmptyFacts DEF IInv, WalkInv
  <2>5. \A g \in Fibers : Elems(walk[g]) \cap Elems(keep[g]) = {}
    BY DEF IInv, WalkInv
  <2>6. \A g, h \in Fibers :
          /\ Elems(cwaiters) \cap (Elems(walk[g]) \cup Elems(keep[g])) = {}
          /\ Elems(walk[g]) \cap Elems(keep[h]) = {}
          /\ g # h => Elems(walk[g]) \cap Elems(walk[h]) = {}
    BY <2>2, <2>3, <2>4, <2>5
  <2>7. \A x : x \in CondQueued <=> Enlisted(x)
    BY DEF CondQueued, Enlisted
  <2>8. \A x : x \in Elems(waiters) \/ x \in ready \/ x \in CondQueued => x \in Fibers
    BY DEF IInv, TypeOK, CondQueued, Elems
  <2>9. Elems(waiters) \cap CondQueued = {} /\ ready \cap (Elems(waiters) \cup CondQueued) = {}
    BY <2>7, <2>8 DEF IInv, WaiterInv, CondInv, Parking
  <2> QED  BY <2>1, <2>6, <2>9 DEF OneQueue
<1> QED  BY <1>1, InvariantHolds, PTL

=============================================================================
