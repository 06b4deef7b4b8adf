---------------------------- MODULE TaskPriority ----------------------------
(***************************************************************************)
(* TASK handles and PRIORITY (runtime/rt_task.c).  The registry maps a     *)
(* handle to its priority and to the fiber that runs it; the fiber carries *)
(* the handle it was started for, which is how PRIORITY(t) = n recognises  *)
(* a fiber that has been recycled for another task in the meantime.        *)
(*                                                                         *)
(* Callers are the tasks that attach others and set priorities; they run   *)
(* at priority 0, so relative and absolute priorities agree.  A section    *)
(* under pli_task_mu is one step.                                          *)
(***************************************************************************)
EXTENDS Naturals

CONSTANTS Callers, Fibers, Prios, Null,
          MaxTasks                           \* bound on handles

Ids == 1 .. MaxTasks

VARIABLES next_id,                           \* pli_task_next
          entry,                             \* pli_task_table
          fib,                               \* priority, handle, and whether the fiber is in the pool
          pc,                                \* per caller: the call it is in
          asked                              \* history: the priorities asked for a handle

vars == <<next_id, entry, fib, pc, asked>>

Idle == [at |-> "idle"]

Init ==
  /\ next_id = 1
  /\ entry = [i \in Ids |-> [prio |-> 0, fiber |-> Null]]
  /\ fib = [f \in Fibers |-> [prio |-> 0, handle |-> 0, st |-> "pool"]]
  /\ pc = [c \in Callers |-> Idle]
  /\ asked = [i \in Ids |-> {}]

Goto(c, where) == pc' = [pc EXCEPT ![c] = where]

-----------------------------------------------------------------------------
(* CALL ... TASK(t) PRIORITY(p). *)

pli_task_note(c, p) ==
  /\ pc[c] = Idle /\ next_id <= MaxTasks
  /\ next_id' = next_id + 1
  /\ Goto(c, [at |-> "record", id |-> next_id, p |-> p])
  /\ UNCHANGED <<entry, fib, asked>>

Record(c) ==
  /\ pc[c].at = "record"
  /\ entry' = [entry EXCEPT ![pc[c].id].prio = pc[c].p]
  /\ asked' = [asked EXCEPT ![pc[c].id] = @ \cup {pc[c].p}]
  /\ Goto(c, [pc[c] EXCEPT !.at = "prepare"])
  /\ UNCHANGED <<next_id, fib>>

\* rt_fiber_prepare starts every task at priority 0 and without a handle.
Prepared(f) == [prio |-> 0, handle |-> 0, st |-> "new"]

FiberPrepare(c) ==
  /\ pc[c].at = "prepare"
  /\ \E f \in Fibers :
       /\ fib[f].st = "pool"
       /\ fib' = [fib EXCEPT ![f] = Prepared(f)]
       /\ Goto(c, [at |-> "launch", id |-> pc[c].id, p |-> pc[c].p, f |-> f])
  /\ UNCHANGED <<next_id, entry, asked>>

Launched(c, f) == [prio |-> pc[c].p, handle |-> pc[c].id, st |-> "runs"]

Launch(c) ==
  /\ pc[c].at = "launch"
  /\ fib' = [fib EXCEPT ![pc[c].f] = Launched(c, pc[c].f)]
  /\ Goto(c, [pc[c] EXCEPT !.at = "publish"])
  /\ UNCHANGED <<next_id, entry, asked>>

Publish(c) ==
  /\ pc[c].at = "publish"
  /\ entry' = [entry EXCEPT ![pc[c].id].fiber = pc[c].f]
  /\ Goto(c, Idle)
  /\ UNCHANGED <<next_id, fib, asked>>

\* The task ends: its fiber goes to the pool as it is.
Finish(f) ==
  /\ fib[f].st = "runs"
  /\ fib' = [fib EXCEPT ![f].st = "pool"]
  /\ UNCHANGED <<next_id, entry, pc, asked>>

-----------------------------------------------------------------------------
(* PRIORITY(t) = p. *)

SetLook(c, id, p) ==
  /\ pc[c] = Idle /\ id < next_id
  /\ entry' = [entry EXCEPT ![id].prio = p]
  /\ asked' = [asked EXCEPT ![id] = @ \cup {p}]
  /\ Goto(c, [at |-> "check", id |-> id, p |-> p, f |-> entry[id].fiber])
  /\ UNCHANGED <<next_id, fib>>

\* Mutant: the fiber is taken for the handle's without a look.
StillAny(c) == pc[c].f # Null

StillRuns(c) == IF pc[c].f = Null THEN FALSE ELSE fib[pc[c].f].handle = pc[c].id

SetCheck(c) ==
  /\ pc[c].at = "check"
  /\ Goto(c, IF StillRuns(c) THEN [pc[c] EXCEPT !.at = "write"] ELSE Idle)
  /\ UNCHANGED <<next_id, entry, fib, asked>>

rt_sched_set_priority(c) ==
  /\ pc[c].at = "write"
  /\ fib' = [fib EXCEPT ![pc[c].f].prio = pc[c].p]
  /\ Goto(c, Idle)
  /\ UNCHANGED <<next_id, entry, asked>>

Next ==
  \/ \E c \in Callers :
       \/ \E p \in Prios : pli_task_note(c, p)
       \/ Record(c) \/ FiberPrepare(c) \/ Launch(c) \/ Publish(c)
       \/ \E p \in Prios, id \in Ids : SetLook(c, id, p)
       \/ SetCheck(c) \/ rt_sched_set_priority(c)
  \/ \E f \in Fibers : Finish(f)

Spec == Init /\ [][Next]_vars

-----------------------------------------------------------------------------
(* Properties. *)

\* "A recycled fiber carries another handle; leave it alone" (rt_task.c,
\* pli_task_set_priority_of): a running task never has a priority that was
\* asked for another handle only.
RecycledLeftAlone ==
  \A f \in Fibers : fib[f].st = "runs" => fib[f].prio \in asked[fib[f].handle]

\* "A live fiber whose handle still matches gets the new value" (rt_task.c):
\* when no call is in progress, a running task has the priority its registry
\* entry shows, which is what PRIORITY(t) reads back.
LiveTaskUpdated ==
  (\A c \in Callers : pc[c] = Idle)
    => \A f \in Fibers : fib[f].st = "runs" => fib[f].prio = entry[fib[f].handle].prio

\* PRIORITY(t) = n reaches the running task of the handle t, and no other.
PriorityLands == LiveTaskUpdated /\ RecycledLeftAlone
=============================================================================
