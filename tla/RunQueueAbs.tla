---------------------------- MODULE RunQueueAbs ----------------------------
(***************************************************************************)
(* What the lock-free run queues promise the scheduler: each queue is a    *)
(* sequence of fibers, newest first, and a worker moves fibers between     *)
(* queues, its private list and its hands in single steps.  Module         *)
(* Scheduler is written over these sequences; module RunQueue shows that   *)
(* the pointer code of runtime/rt_sched.c implements them.                 *)
(***************************************************************************)
EXTENDS Sequences, Naturals

CONSTANTS Workers, Fibers

VARIABLES local,   \* the run queue of each worker
          ready,   \* the list of fibers unparked to each worker
          mine,    \* the list a worker has detached and not yet given back
          hand     \* the fibers a worker runs or is about to queue

absVars == <<local, ready, mine, hand>>

AbsInit ==
  /\ local = [w \in Workers |-> <<>>] /\ ready = [w \in Workers |-> <<>>]
  /\ mine = [w \in Workers |-> <<>>]
  /\ hand \in [Workers -> SUBSET Fibers]
  /\ \A v, w \in Workers : v # w => hand[v] \cap hand[w] = {}
  /\ UNION {hand[w] : w \in Workers} = Fibers

(* rt_queue_push of a fiber the worker holds. *)
PushLocal(w, f) ==
  /\ f \in hand[w]
  /\ local' = [local EXCEPT ![w] = <<f>> \o @]
  /\ hand' = [hand EXCEPT ![w] = @ \ {f}]
  /\ UNCHANGED <<ready, mine>>

PushReady(w, v, f) ==
  /\ f \in hand[w]
  /\ ready' = [ready EXCEPT ![v] = <<f>> \o @]
  /\ hand' = [hand EXCEPT ![w] = @ \ {f}]
  /\ UNCHANGED <<local, mine>>

(* rt_queue_pop by the owner. *)
Pop(w) ==
  /\ local[w] # <<>>
  /\ hand' = [hand EXCEPT ![w] = @ \cup {Head(local[w])}]
  /\ local' = [local EXCEPT ![w] = Tail(@)]
  /\ UNCHANGED <<ready, mine>>

(* The exchange that detaches a run queue, a peer's or the worker's own,   *)
(* or the worker's ready list.                                             *)
Detach(w, v) ==
  /\ mine[w] = <<>>
  /\ mine' = [mine EXCEPT ![w] = local[v]]
  /\ local' = [local EXCEPT ![v] = <<>>]
  /\ UNCHANGED <<ready, hand>>

DetachReady(w) ==
  /\ mine[w] = <<>>
  /\ mine' = [mine EXCEPT ![w] = ready[w]]
  /\ ready' = [ready EXCEPT ![w] = <<>>]
  /\ UNCHANGED <<local, hand>>

(* rt_queue_steal gives the older half back to the victim. *)
PutBack(w, v) ==
  /\ v # w /\ Len(mine[w]) > 1
  /\ LET half == Len(mine[w]) \div 2 IN
       /\ local' = [local EXCEPT ![v] = SubSeq(mine[w], half + 1, Len(mine[w])) \o @]
       /\ mine' = [mine EXCEPT ![w] = SubSeq(@, 1, half)]
  /\ UNCHANGED <<ready, hand>>

(* rt_queue_pop_best takes the task it prefers out of the detached list. *)
TakeBest(w) ==
  /\ \E i \in DOMAIN mine[w] :
       /\ hand' = [hand EXCEPT ![w] = @ \cup {mine[w][i]}]
       /\ mine' = [mine EXCEPT ![w] = SubSeq(@, 1, i - 1) \o SubSeq(@, i + 1, Len(@))]
  /\ UNCHANGED <<local, ready>>

(* rt_queue_push_list of the stolen tasks; rt_queue_push of one drained. *)
Keep(w) ==
  /\ mine[w] # <<>>
  /\ local' = [local EXCEPT ![w] = mine[w] \o @]
  /\ mine' = [mine EXCEPT ![w] = <<>>]
  /\ UNCHANGED <<ready, hand>>

DrainOne(w) ==
  /\ mine[w] # <<>>
  /\ local' = [local EXCEPT ![w] = <<Head(mine[w])>> \o @]
  /\ mine' = [mine EXCEPT ![w] = Tail(@)]
  /\ UNCHANGED <<ready, hand>>

(* rt_pool_pop and rt_pool_push: the worker gets a fiber that is in no     *)
(* queue, or gives one up.                                                 *)
Recycle(w) ==
  /\ \E f \in Fibers :
       \/ /\ \A v \in Workers :
               /\ f \notin hand[v]
               /\ \A q \in {local[v], ready[v], mine[v]} : \A i \in DOMAIN q : q[i] # f
          /\ hand' = [hand EXCEPT ![w] = @ \cup {f}]
       \/ f \in hand[w] /\ hand' = [hand EXCEPT ![w] = @ \ {f}]
  /\ UNCHANGED <<local, ready, mine>>

AbsNext ==
  \E w \in Workers :
    \/ Pop(w) \/ DetachReady(w) \/ TakeBest(w) \/ Keep(w) \/ DrainOne(w) \/ Recycle(w)
    \/ \E f \in Fibers : PushLocal(w, f) \/ \E v \in Workers : PushReady(w, v, f)
    \/ \E v \in Workers : Detach(w, v) \/ PutBack(w, v)

AbsSpec == AbsInit /\ [][AbsNext]_absVars
=============================================================================
