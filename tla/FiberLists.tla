----------------------------- MODULE FiberLists -----------------------------
(***************************************************************************)
(* The two families of lock-free lists of runtime/rt_sched.c together: the *)
(* pool of finished fibers (FiberPool) and the run queues (RunQueue).  A   *)
(* fiber is in one list or in a worker's hands, and both families link it  *)
(* through the same pli_fiber.next.  A worker is in the code of one of     *)
(* them at a time.                                                         *)
(***************************************************************************)
EXTENDS FiberPool, TLC

VARIABLES head, rhead, qpc, qh, qnx, qitem, last, kept, dest, cont

queueVars == <<head, rhead, qpc, qh, qnx, qitem, last, kept, dest, cont>>
listVars == <<vars, queueVars>>

Q == INSTANCE RunQueue WITH pc <- qpc, h <- qh, nx <- qnx, item <- qitem

ListInit == Init /\ Q!Init

(* rt_fiber_get takes from the pool, rt_fiber_put returns to it. *)
PoolStep(w) ==
  /\ qpc[w] = "idle"
  /\ \/ PopLoad(w) \/ PopNext(w) \/ PopCas(w)
     \/ PushLoad(w) \/ PushLink(w) \/ PushCas(w)
  /\ UNCHANGED queueVars

QueueStep(w) ==
  /\ pc[w] = "idle"
  /\ Q!Step(w)
  /\ UNCHANGED <<top, pc, h, nx, item, pool, age>>

ListNext == \E w \in Workers : PoolStep(w) \/ QueueStep(w)

ListSpec == ListInit /\ [][ListNext]_listVars

-----------------------------------------------------------------------------
(* A fiber is in one queue, one worker's hands or the pool, once: a pop    *)
(* with a stale head fails its compare-and-swap, in the pool because of    *)
(* the tag and in a queue because only its owner brings a fiber back, and  *)
(* no list follows a link that the other family wrote.                     *)
NoFiberLostOrTwice ==
  PoolTypeOK /\ \A f \in Fibers :
    Cardinality(Q!Places(f) \cup {<<"pool", i>> : i \in {j \in DOMAIN pool : pool[j] = f}}) = 1

(* The pointer code of the run queues implements the sequences the         *)
(* scheduler works with: pushes, pops, steals, drains and priority scans   *)
(* of all workers, interleaved at every load and compare-and-swap and with *)
(* the pool, each take effect at one instant.                              *)
QueuesImplement == Q!Implements

Pool == INSTANCE FiberPool WITH hand <- [w \in Workers |-> Q!With(w)]

(* The run queues use the fibers and their links only as the pool's        *)
(* specification, and so its proof, allows: never the link of a pooled     *)
(* fiber, nor of one a worker is returning.                                *)
QueuesSparePool == Pool!Spec

(* Workers and fibers are interchangeable. *)
ListSymmetry == Permutations(Fibers) \cup Permutations(Workers)
=============================================================================
