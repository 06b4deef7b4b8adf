----------------------------- MODULE TimerHeap -----------------------------
(***************************************************************************)
(* The DELAY timers of runtime/rt_sched.c: a binary heap of the fibers     *)
(* parked until a deadline.  Every operation runs under rt_sched_mu, so it *)
(* is one step.  Indices count from 1 here: the children of i are 2i and   *)
(* 2i + 1.                                                                 *)
(***************************************************************************)
EXTENDS Naturals, Sequences, FiniteSets

CONSTANTS Fibers,
          MaxTime    \* bound on the clock: a DELAY ends by then

VARIABLES heap,      \* rt_timer_heap[0 .. rt_timer_count - 1]
          deadline,  \* pli_fiber.deadline
          now,       \* pli_plat_now_ms
          parked     \* history: the fibers in rt_sched_park_until

vars == <<heap, deadline, now, parked>>

Init ==
  /\ heap = <<>> /\ deadline = [f \in Fibers |-> 0]
  /\ now = 0 /\ parked = {}

(* The sift-up of rt_timer_push: f, at i, moves towards the root past      *)
(* later deadlines; dl is the table of deadlines.                          *)
SiftUp(q, i, f, dl) ==
  LET up[j \in 1..i] ==
        IF j > 1 /\ dl[q[j \div 2]] > dl[f]
        THEN [up[j \div 2] EXCEPT ![j] = q[j \div 2]]
        ELSE [q EXCEPT ![j] = f]
  IN  up[i]

(* rt_sched_park_until and rt_timer_push. *)
rt_timer_push(f, ms) ==
  /\ f \notin parked /\ ms > 0 /\ now + ms <= MaxTime
  /\ deadline' = [deadline EXCEPT ![f] = now + ms]
  /\ heap' = SiftUp(Append(heap, f), Len(heap) + 1, f, deadline')
  /\ parked' = parked \cup {f}
  /\ UNCHANGED now

(* The sift-down of rt_take_expired_timer.  Both children are compared     *)
(* with the moved fiber, the right one last.                               *)
SiftDown(q, moved) ==
  LET down[i \in 1..Len(q)] ==
        LET l == 2 * i
            r == l + 1
            left == IF l <= Len(q) /\ deadline[q[l]] < deadline[moved] THEN l ELSE i
            best == IF r <= Len(q) /\ deadline[q[r]] < deadline[moved] THEN r ELSE left
        IN  IF best = i THEN [q EXCEPT ![i] = moved]
            ELSE [down[best] EXCEPT ![i] = q[best]]
  IN  down[1]

(* rt_take_expired_timer: the root leaves the heap once its time has come; *)
(* the last fiber takes its place and sinks.                               *)
rt_take_expired_timer ==
  /\ heap # <<>> /\ deadline[heap[1]] <= now
  /\ LET n == Len(heap) - 1 IN
       heap' = IF n = 0 THEN <<>> ELSE SiftDown(SubSeq(heap, 1, n), heap[n + 1])
  /\ parked' = parked \ {heap[1]}
  /\ UNCHANGED <<deadline, now>>

Tick ==
  /\ now < MaxTime
  /\ now' = now + 1
  /\ UNCHANGED <<heap, deadline, parked>>

Next ==
  \/ Tick \/ rt_take_expired_timer
  \/ \E f \in Fibers, ms \in 1..MaxTime : rt_timer_push(f, ms)

Spec == Init /\ [][Next]_vars

(* Time passes and some worker looks at the heap again and again (a worker *)
(* that sleeps does so until the root's deadline).                         *)
Fairness == WF_vars(Tick) /\ WF_vars(rt_take_expired_timer)

-----------------------------------------------------------------------------
(* Every DELAY ends, even of a fiber that the heap holds out of order. *)
DelayEnds == \A f \in Fibers : f \in parked ~> f \notin parked

(* The root is the earliest deadline: what rt_timer_next_deadline returns  *)
(* and a worker sleeps until ("The earliest deadline in the heap", "Take   *)
(* the earliest timer that has matured").                                  *)
EarliestAtRoot ==
  \A i \in DOMAIN heap : deadline[heap[1]] <= deadline[heap[i]]
=============================================================================
