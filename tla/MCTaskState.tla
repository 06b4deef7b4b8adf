---------------------------- MODULE MCTaskState ----------------------------
(***************************************************************************)
(* The state that tasks keep in the runtime: CONTROLLED variables, AREAs   *)
(* and priorities.  The three have no state in common, so a behaviour uses *)
(* one of them: `use' is what the program's tasks do.                      *)
(***************************************************************************)
EXTENDS CtlStorage, TLC

CONSTANTS Task, Auto, Static, Regions, Blocks, Null, AreaSize, Sizes, Hdr,
          Callers, Prios, MaxTasks

VARIABLES use, slot, region, payload, todo, next_id, entry, fib, pc, asked

areaVars == <<slot, region, payload, todo>>
prioVars == <<next_id, entry, fib, pc, asked>>
allVars == <<use, vars, areaVars, prioVars>>

A == INSTANCE Area WITH Tasks <- {Task}
P == INSTANCE TaskPriority

\* One task with several CONTROLLED variables, or several with one of the same name.
CtlUses == {[kind |-> "controlled", fibers |-> {f}, keys |-> Keys] : f \in Fibers}
             \cup {[kind |-> "controlled", fibers |-> Fibers, keys |-> {k}] : k \in Keys}
Uses == CtlUses \cup {[kind |-> "area"], [kind |-> "priority"]}

MCInit == use \in Uses /\ Init /\ A!Init /\ P!Init

UseCtl ==
  /\ use.kind = "controlled" /\ ~ended
  /\ \E f \in use.fibers : rt_fiber_prepare(f) \/ \E k \in use.keys : Operate(f, k)
  /\ UNCHANGED <<use, areaVars, prioVars>>
UseArea == use.kind = "area" /\ A!Next /\ UNCHANGED <<use, vars, prioVars>>
UsePriority == use.kind = "priority" /\ P!Next /\ UNCHANGED <<use, vars, areaVars>>

MCSpec == MCInit /\ [][UseCtl \/ UseArea \/ UsePriority]_allVars

\* Buffers are interchangeable, and so are the variables and the fibers.
Symmetry == Permutations(Addrs) \cup Permutations(Keys) \cup Permutations(Fibers)

-----------------------------------------------------------------------------
\* AREAs: a region's account is the sum of its live blocks and within the
\* area's size, and no block outlives its region (ALLOCATE IN, FREE IN, first
\* use, block entry).  TASK handles: PRIORITY(t) = n reaches the running task
\* of the handle t and no other, through any recycling of fibers.
HandlesSound == A!AreaSound /\ P!PriorityLands
=============================================================================
