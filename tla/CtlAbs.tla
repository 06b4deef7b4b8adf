------------------------------- MODULE CtlAbs -------------------------------
(***************************************************************************)
(* What PL/I promises of CONTROLLED variables: every task has, for every   *)
(* variable, a stack of generations of its own.  ALLOCATE pushes one whose *)
(* value is undefined, FREE pops it, an assignment and an extent reach the *)
(* newest generation only, and a new task starts without any.              *)
(***************************************************************************)
EXTENDS Naturals, Sequences

CONSTANTS Fibers, Keys

VARIABLES stack                              \* stack[f][k]: oldest first

Init == stack = [f \in Fibers |-> [k \in Keys |-> <<>>]]

\* What may become of one stack s: t.
Older(s) == SubSeq(s, 1, Len(s) - 1)
Newest(s) == s[Len(s)]

Allocate(s, t) == t # <<>> /\ Older(t) = s
Free(s, t) == s # <<>> /\ t = Older(s)

SameBelow(s, t) == s # <<>> /\ t # <<>> /\ Older(t) = Older(s)
Assign(s, t) == SameBelow(s, t) /\ Newest(t) = [Newest(s) EXCEPT !.val = Newest(t).val]
SetExtents(s, t) ==
  /\ SameBelow(s, t) /\ Newest(t) = [Newest(s) EXCEPT !.dims = Newest(t).dims]
  /\ Len(Newest(t).dims) >= Len(Newest(s).dims)

\* A step on the variable k of task f and on nothing else.
Operate(f, k) ==
  /\ \A j \in Keys \ {k} : stack'[f][j] = stack[f][j]
  /\ LET s == stack[f][k]  t == stack'[f][k] IN
       Allocate(s, t) \/ Free(s, t) \/ Assign(s, t) \/ SetExtents(s, t)

NewTask(f) == \A k \in Keys : stack'[f][k] = <<>>

Next ==
  \E f \in Fibers :
    /\ \A g \in Fibers \ {f} : stack'[g] = stack[g]
    /\ NewTask(f) \/ \E k \in Keys : Operate(f, k)

Spec == Init /\ [][Next]_stack
=============================================================================
