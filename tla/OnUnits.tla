------------------------------ MODULE OnUnits ------------------------------
(***************************************************************************)
(* ON units of one task: the handler stack of runtime/rt_cond.c and the    *)
(* code src/irgen.cpp emits around procedures, BEGIN blocks, ON units,     *)
(* SIGNAL, REVERT, RETURN and GO TO.                                       *)
(*                                                                         *)
(* The program is any: an activation chooses what its block contains.      *)
(* acts is the stack of activations, innermost last.  A block that         *)
(* contains an ON or REVERT at its own level saves the handler depth on    *)
(* entry (depth); any other has depth NoDepth.                             *)
(***************************************************************************)
EXTENDS Integers, Sequences, SequencesExt

CONSTANTS Conds,     \* conditions
          Finish,    \* the FINISH condition
          Programs,  \* kinds of program: the constructs used, and bounds for them
          OnInit     \* PLI_ON_INIT: the first capacity

(* Constructs that the scoping of ON units does not survive. *)
Constructs ==
  {"unit_return",    \* a bare RETURN in a unit that has armed a unit
   "block_return",   \* a RETURN in a BEGIN block of a procedure that arms nothing
   "block_goto",     \* a GO TO out of a BEGIN block that arms nothing
   "unit_begin",     \* a BEGIN block in a unit, arming a unit
   "recursion",      \* the task's procedure calls itself
   "escape"}         \* RETURN(value) or GO TO in a unit

ASSUME OnAssumption ==
  /\ Finish \in Conds /\ OnInit \in Nat \ {0}
  /\ \A p \in Programs : p.uses \subseteq Constructs /\ {p.maxActs, p.maxOn} \subseteq Nat \ {0}

VARIABLES prog,      \* the kind of program, never changed
          acts,      \* the activations
          on_stack,  \* the handler entries; by: who established it (0: somebody gone)
          on_cap,    \* the stack's capacity
          escape     \* onEscapeCode: 0 none, 1 RETURN(value), 2 GO TO

vars == <<prog, acts, on_stack, on_cap, escape>>

NoDepth == -1
on_sp == Len(on_stack)
Depth == Len(acts)
Innermost == acts[Depth]

(* The procedure or unit whose code activation n runs. *)
Frame(n) == CHOOSE m \in 1..n : /\ acts[m].kind \in {"proc", "unit"}
                                /\ \A k \in m+1..n : acts[k].kind = "begin"
Running == Depth > 0 /\ Innermost.kind \in {"proc", "begin", "unit"}
InUnitAt(n) == acts[Frame(n)].kind = "unit"
InUnit == InUnitAt(Depth)

(* The procedure activation that contains activation n, through units. *)
Procedure(n) == IF n = 0 THEN 0 ELSE IF InUnitAt(n) THEN acts[Frame(n)].est ELSE Frame(n)

(* The activations down to n are left; what they established and is still  *)
(* on the stack is nobody's.                                               *)
Leave(n, stack) ==
  /\ acts' = SubSeq(acts, 1, n)
  /\ on_stack' = [i \in DOMAIN stack |-> IF stack[i].by > n THEN [stack[i] EXCEPT !.by = 0] ELSE stack[i]]

(* The program aborts, or runs code the compiler marked unreachable. *)
ProgramEnds == acts' = <<>> /\ on_stack' = <<>> /\ on_cap' = 0 /\ escape' = 0

Enter(act) == Depth < prog.maxActs /\ acts' = Append(acts, act)

-----------------------------------------------------------------------------
(* The handler stack. *)

on_shrink(sp, cap) == IF cap > OnInit /\ sp <= cap \div 4 THEN cap \div 2 ELSE cap

on_grow(sp, cap) == IF sp < cap THEN cap ELSE IF cap = 0 THEN OnInit ELSE 2 * cap

(* The topmost entry of a condition in entries i > low; 0 if there is none. *)
Topmost(key, low) ==
  LET found == {i \in low+1..on_sp : on_stack[i].key = key}
  IN  IF found = {} THEN 0 ELSE CHOOSE i \in found : \A j \in found : j <= i

HasUnit(key) ==
  LET i == Topmost(key, 0) IN IF i = 0 THEN FALSE ELSE on_stack[i].fn # "system"

Without(i) == IF i = 0 THEN on_stack ELSE RemoveAt(on_stack, i)

pli_on_establish(key, fn, base) ==
  LET kept == Without(Topmost(key, base))
  IN  /\ Len(kept) < prog.maxOn
      /\ on_stack' = Append(kept, [key |-> key, fn |-> fn, by |-> Depth])
      /\ on_cap' = on_grow(Len(kept), on_cap)

(* Mutant: REVERT drops the topmost unit wherever it was established. *)
RevertAny(key, base) ==
  /\ on_stack' = Without(Topmost(key, 0))
  /\ on_cap' = IF Topmost(key, 0) = 0 THEN on_cap ELSE on_shrink(on_sp - 1, on_cap)

pli_on_revert(key, base) ==
  IF base > on_sp \/ Topmost(key, base) = 0
  THEN UNCHANGED <<on_stack, on_cap>>
  ELSE /\ on_stack' = Without(Topmost(key, base))
       /\ on_cap' = on_shrink(on_sp - 1, on_cap)

(* Mutant: one entry too many is kept. *)
ResetKeepsOne(d) ==
  IF d >= 0 /\ d <= on_sp THEN SubSeq(on_stack, 1, IF d < on_sp THEN d + 1 ELSE d) ELSE on_stack

pli_on_reset_error(d) ==
  IF d >= 0 /\ d <= on_sp THEN SubSeq(on_stack, 1, d) ELSE on_stack

(* An exit of the activations above n that restores the saved depth d. *)
ExitTo(n, d) ==
  LET stack == pli_on_reset_error(d)
  IN  /\ Leave(n, stack)
      /\ on_cap' = IF d >= 0 /\ d <= on_sp THEN on_shrink(Len(stack), on_cap) ELSE on_cap

-----------------------------------------------------------------------------
(* Blocks. *)

SavedDepth(arms) == IF arms THEN on_sp ELSE NoDepth

(* A procedure is entered; checks: its code tests onEscapeCode after a     *)
(* unit (it is a function, or one of its units has a GO TO).               *)
Call ==
  \E arms \in BOOLEAN, checks \in (IF "escape" \in prog.uses THEN BOOLEAN ELSE {FALSE}),
     same \in (IF Depth = 0 THEN {TRUE} ELSE IF "recursion" \in prog.uses THEN BOOLEAN ELSE {FALSE}) :
    /\ Depth = 0 \/ Running
    /\ same /\ Depth > 0 => arms = (acts[1].depth # NoDepth)
    /\ Enter([kind |-> "proc", depth |-> SavedDepth(arms), checks |-> checks, target |-> same])
    /\ UNCHANGED <<on_stack, on_cap, escape>>

Begin ==
  \E arms \in BOOLEAN :
    /\ Running
    /\ arms /\ InUnit => "unit_begin" \in prog.uses
    /\ Enter([kind |-> "begin", depth |-> SavedDepth(arms)])
    /\ UNCHANGED <<on_stack, on_cap, escape>>

(* The base of ON and REVERT: the unit's, else the block's, else the       *)
(* procedure's saved depth.                                                *)
onBaseDepth ==
  IF InUnit THEN acts[Frame(Depth)].depth
  ELSE IF Innermost.depth # NoDepth THEN Innermost.depth
  ELSE acts[Frame(Depth)].depth

CanArm == Running /\ Innermost.depth # NoDepth

On ==
  /\ CanArm
  /\ \E key \in Conds, fn \in {"unit", "system"} : pli_on_establish(key, fn, onBaseDepth)
  /\ UNCHANGED <<acts, escape>>

Revert ==
  /\ CanArm
  /\ \E key \in Conds : pli_on_revert(key, onBaseDepth)
  /\ UNCHANGED <<acts, escape>>

(* END of a BEGIN block. *)
BeginEnd ==
  /\ Running /\ Innermost.kind = "begin"
  /\ ExitTo(Depth - 1, Innermost.depth)
  /\ UNCHANGED escape

(* A GO TO that leaves the blocks above n: the depth of the outermost one. *)
GotoOut ==
  /\ Running /\ ~InUnit
  /\ \E n \in Frame(Depth)..Depth-1 :
       /\ "block_goto" \in prog.uses \/ acts[n+1].depth # NoDepth
                                \/ \A k \in n+2..Depth : acts[k].depth = NoDepth
       /\ ExitTo(n, acts[n+1].depth)
  /\ UNCHANGED escape


(* FINISH runs first when the procedure is the task's and a unit is armed. *)
FinishUnit(p) == acts[p].depth # NoDepth /\ acts[p].target /\ HasUnit(Finish)

(* The code behind END and RETURN of procedure p, run at activation n. *)
LeaveProc(p, n) ==
  IF FinishUnit(p)
  THEN /\ n < prog.maxActs
       /\ acts' = Append(SubSeq(acts, 1, n), [kind |-> "unit", depth |-> on_sp, raised |-> "finish",
                                                est |-> Procedure(on_stack[Topmost(Finish, 0)].by)])
       /\ UNCHANGED <<on_stack, on_cap>>
  ELSE ExitTo(p - 1, acts[p].depth)

(* END or RETURN of a procedure, from inside its BEGIN blocks too. *)
ProcExit ==
  /\ Running /\ ~InUnit
  /\ LET p == Frame(Depth) IN
       /\ "block_return" \in prog.uses \/ acts[p].depth # NoDepth
                                  \/ \A k \in p+1..Depth : acts[k].depth = NoDepth
       /\ LeaveProc(p, Depth)
  /\ UNCHANGED escape

-----------------------------------------------------------------------------
(* Conditions. *)

(* A condition is raised and its topmost unit runs; without one the system *)
(* action ends the program.  est: the procedure activation that            *)
(* established the unit.                                                   *)
Signal ==
  /\ Running
  /\ \E key \in Conds \ {Finish} :
       /\ HasUnit(key)
       /\ LET by == on_stack[Topmost(key, 0)].by IN
            Enter([kind |-> "unit", depth |-> on_sp, raised |-> "signal",
                   est |-> Procedure(by)])
  /\ UNCHANGED <<on_stack, on_cap, escape>>

SystemAction ==
  /\ Running
  /\ \E key \in Conds \ {Finish} : ~HasUnit(key)
  /\ ProgramEnds

(* The unit's function returns to whoever called it: back records how the  *)
(* unit ended.                                                             *)
Back(u, how) ==
  acts' = Append(SubSeq(acts, 1, u - 1),
                 [kind |-> "back", raised |-> acts[u].raised, est |-> acts[u].est, how |-> how])
Disown(u, stack) ==
  on_stack' = [i \in DOMAIN stack |-> IF stack[i].by >= u THEN [stack[i] EXCEPT !.by = 0] ELSE stack[i]]

(* The end of the unit restores its depth. *)
UnitEnd ==
  /\ Running /\ Innermost.kind = "unit"
  /\ LET stack == pli_on_reset_error(Innermost.depth) IN
       /\ Disown(Depth, stack)
       /\ on_cap' = IF Innermost.depth <= on_sp THEN on_shrink(Len(stack), on_cap) ELSE on_cap
  /\ Back(Depth, "normal")
  /\ UNCHANGED escape

(* A bare RETURN just returns from the unit's function. *)
UnitReturn ==
  /\ Running /\ InUnit
  /\ LET u == Frame(Depth) IN
       /\ "unit_return" \in prog.uses \/ on_sp = acts[u].depth
       /\ Back(u, "normal") /\ Disown(u, on_stack)
  /\ UNCHANGED <<on_cap, escape>>

(* RETURN(value) and GO TO store an escape code and return; a procedure    *)
(* with such a unit tests the code.                                        *)
UnitEscape ==
  /\ Running /\ InUnit /\ "escape" \in prog.uses
  /\ \E code \in {1, 2} : escape' = code
  /\ LET u == Frame(Depth) IN
       /\ IF acts[u].est = 0 THEN TRUE ELSE acts[acts[u].est].checks
       /\ Back(u, "escape") /\ Disown(u, on_stack)
  /\ UNCHANGED on_cap

(* Behind the call of a unit: FINISH goes on to the procedure's exit; a    *)
(* site that tests the escape code returns from its procedure (1) or jumps *)
(* to one of its labels (2); any other resumes.  A site in a unit's code   *)
(* or in a procedure without the case has nowhere to go.                   *)
Dispatch ==
  /\ Depth > 0 /\ Innermost.kind = "back"
  /\ LET site == Depth - 1
         p == Frame(site)
         tests == escape # 0 /\ Innermost.raised = "signal" /\ (IF InUnitAt(site) THEN TRUE ELSE acts[p].checks) IN
     \/ Innermost.raised = "finish" /\ ExitTo(p - 1, acts[p].depth) /\ UNCHANGED escape
     \/ Innermost.raised = "signal" /\ (~tests \/ InUnitAt(site)) /\ Leave(site, on_stack) /\ UNCHANGED <<on_cap, escape>>
     \/ tests /\ ~InUnitAt(site) /\ escape = 1 /\ LeaveProc(p, site) /\ UNCHANGED escape
     \/ /\ tests /\ ~InUnitAt(site) /\ escape = 2
        /\ \E n \in p..site : Leave(n, on_stack)
        /\ UNCHANGED <<on_cap, escape>>
     \/ tests /\ (InUnitAt(site) \/ escape = 2) /\ ProgramEnds

(* The task is over; another one starts afresh. *)
NewTask ==
  /\ Depth = 0 /\ <<on_stack, on_cap, escape>> # <<<<>>, 0, 0>>
  /\ on_stack' = <<>> /\ on_cap' = 0 /\ escape' = 0
  /\ UNCHANGED acts

Init == prog \in Programs /\ acts = <<>> /\ on_stack = <<>> /\ on_cap = 0 /\ escape = 0

Next ==
  /\ UNCHANGED prog
  /\ \/ Call \/ Begin \/ On \/ Revert \/ BeginEnd \/ GotoOut \/ ProcExit
     \/ Signal \/ SystemAction \/ UnitEnd \/ UnitReturn \/ UnitEscape \/ Dispatch \/ NewTask

Spec == Init /\ [][Next]_vars

-----------------------------------------------------------------------------
(* Every variable keeps its type and the handler stack fits its capacity:  *)
(* rt_pli_on_push never writes behind the allocation on_shrink left.       *)
TypeOK ==
  /\ acts \in Seq([kind : {"proc"}, depth : Int, checks : BOOLEAN, target : BOOLEAN]
                   \cup [kind : {"begin"}, depth : Int]
                   \cup [kind : {"unit"}, depth : Nat, raised : {"signal", "finish"}, est : Nat]
                   \cup [kind : {"back"}, raised : {"signal", "finish"}, est : Nat, how : {"normal", "escape"}])
  /\ on_stack \in Seq([key : Conds, fn : {"unit", "system"}, by : Nat])
  /\ escape \in 0..2 /\ on_cap \in Nat /\ on_sp <= on_cap

(* Every handler on the stack was established by an activation that is     *)
(* still there: in a program without the constructs above, no exit leaves  *)
(* a unit behind whose frame is gone.                                      *)
OnlyActiveUnits == prog.uses = {} => \A i \in 1..on_sp : on_stack[i].by # 0

(* In such a program one activation holds at most one unit per condition:  *)
(* ON replaces.                                                            *)
OneUnitPerCondition ==
  prog.uses = {} => \A i, j \in 1..on_sp :
    i # j /\ on_stack[i].key = on_stack[j].key /\ on_stack[i].by # 0 => on_stack[i].by # on_stack[j].by


(* No step touches the units of an activation that it neither runs in nor  *)
(* ends: REVERT, ON and the exit of a block leave an enclosing block's     *)
(* units as they were.                                                     *)
EnclosingUnitsKept ==
  [][LET Encloses(e) == /\ e.by # 0 /\ e.by <= Len(acts') /\ acts'[e.by] = acts[e.by]
                        /\ e.by < Depth \/ Depth < Len(acts')
     IN  SelectSeq(on_stack', Encloses) = SelectSeq(on_stack, Encloses)]_vars

(* The handler stack is well formed: within its capacity, of live          *)
(* activations only, and one unit per activation and condition.            *)
UnitsScoped == TypeOK /\ OnlyActiveUnits /\ OneUnitPerCondition

(* For model checking: programs whose ON units nest four deep, and, three  *)
(* deep, programs that leave blocks and units early, without and with      *)
(* escapes from units.                                                     *)
Kinds == {[uses |-> {}, maxActs |-> 4, maxOn |-> 5],
          [uses |-> {"unit_return", "block_return", "block_goto", "recursion"},
           maxActs |-> 3, maxOn |-> 3],
          [uses |-> {"unit_return", "block_return", "block_goto", "escape"},
           maxActs |-> 3, maxOn |-> 2]}
=============================================================================
