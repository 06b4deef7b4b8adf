----------------------------- MODULE Controlled -----------------------------
(* How compiled code finds the current generation of a CONTROLLED variable.  *)
(* The runtime keeps the generation stack; the compiler keeps copies of its  *)
(* top where it believes it sees every change: an anchor slot in each        *)
(* activation of the declaring procedure (ADR-257), and an address and a     *)
(* length hoisted before a DO loop. One variable is modelled, declared in P, *)
(* which may call itself; Q is nested in P, and P establishes one ON-unit.   *)
(*                                                                           *)
(* A program is a record: type, "fixed" (numeric, constant extent), "dims"   *)
(* (constant extents, several axes) or "star" (CHARACTER(-asterisk-)); body, *)
(* nested and unit, the statements of P, Q and the ON-unit. A statement is   *)
(* [op, form, body, n]; form tells the ALLOCATE's extent or the kind of DO.  *)
EXTENDS Naturals, Sequences, FiniteSets, SequencesExt

CONSTANTS Programs,
          Declared,      \* the declared length
          Other,         \* the length an explicit bound asks for
          MaxDepth,      \* activations
          MaxRounds      \* times round one loop

VARIABLES prog, gens,    \* the generation stack of the runtime, newest last
          fresh,         \* the next generation's address
          stack,         \* the activations
          ref,           \* what the last reference used, and what it should have
          over           \* the program has ended

vars == << prog, gens, fresh, stack, ref, over >>

-----------------------------------------------------------------------------
RECURSIVE Stmts(_)
Stmts(b) == UNION {{b[i]} \cup Stmts(b[i].body) : i \in DOMAIN b}
Changes == {"alloc", "free"}
Mutates(b) == \E st \in Stmts(b) : st.op \in Changes

(* noteCtlTouch: who allocates or frees; a unit's text belongs to P. *)
noteCtlTouch(pr) ==
  LET touch(p, b) == {[proc |-> p, form |-> st.form] : st \in {s \in Stmts(b) : s.op \in Changes}}
  IN touch("P", pr.body) \cup touch("P", pr.unit) \cup touch("Q", pr.nested)
extentDiffers(form) == form \notin {"bare", "declared"}
markDirectCtl(pr) ==
  /\ pr.type = "fixed" /\ noteCtlTouch(pr) # {}
  /\ \A t \in noteCtlTouch(pr) : t.proc = "P" /\ ~extentDiffers(t.form)

(* The anchor is a slot of P's own frame, so a unit that would refresh it    *)
(* does not pass the module verifier.                                        *)
Compiles(pr) == ~(markDirectCtl(pr) /\ Mutates(pr.unit))

NoLoopInfo == [uses |-> FALSE, muts |-> FALSE, hasCall |-> FALSE]
RECURSIVE collectCtlLoopInfo(_, _)
collectCtlLoopInfo(info, b) ==
  FoldLeft(LAMBDA f, st :
    CASE st.op \in {"alloc", "free", "grow"} -> [f EXCEPT !.uses = TRUE, !.muts = TRUE]
      [] st.op = "ref" -> [f EXCEPT !.uses = TRUE]
      [] st.op \in {"callP", "callQ"} -> [f EXCEPT !.hasCall = TRUE]
      [] OTHER -> collectCtlLoopInfo(f, st.body), info, b)

-----------------------------------------------------------------------------
Gen(a, n) == [addr |-> a, len |-> n]
None == Gen(0, 0)
Current == IF gens = << >> THEN None ELSE Last(gens)

Top == stack[Len(stack)]
At(op) == stack # << >> /\ ~over /\ Top.todo # << >> /\ Top.todo[1].op = op
St == Top.todo[1]
Then(act, b) == [act EXCEPT !.todo = b \o Tail(@)]
Goes(act) == stack' = [stack EXCEPT ![Len(stack)] = act]
(* The code of P itself, whose references may use the anchor. *)
UsesAnchor == markDirectCtl(prog) /\ Top.proc = "P"

(* addressOf and the length a subscript is checked against. *)
addressOf(act) ==
  CASE act.hoist # << >> -> act.hoist[1]
    [] UsesAnchor -> Gen(act.anchor, Current.len)
    [] OTHER -> Current
Refers(act) == ref' = [used |-> addressOf(act), current |-> Current]

(* Mutant: the anchor keeps the first generation it was given. *)
ctlNoteOnce(act, a) == IF UsesAnchor /\ act.anchor = 0 THEN [act EXCEPT !.anchor = a] ELSE act
ctlNote(act, a) == IF UsesAnchor THEN [act EXCEPT !.anchor = a] ELSE act

(* Entering P pushes the implicit generation; CHARACTER(-asterisk-) has none. *)
Activation(p, b) == [proc |-> p, anchor |-> 0, hoist |-> << >>, todo |-> b, implicit |-> FALSE]
ensureCtlAlloc(pr) == pr.type # "star"
EnterP(pr, below) ==
  LET act == Activation("P", pr.body)
  IN IF ensureCtlAlloc(pr)
     THEN /\ gens' = Append(gens, Gen(fresh, Declared)) /\ fresh' = fresh + 1
          /\ stack' = Append(below, [act EXCEPT !.anchor = IF markDirectCtl(pr) THEN fresh ELSE 0,
                                                !.implicit = TRUE])
     ELSE stack' = Append(below, act) /\ UNCHANGED << gens, fresh >>

Init ==
  /\ prog \in Programs
  /\ gens = << >> /\ fresh = 1 /\ stack = << >> /\ over = FALSE
  /\ ref = [used |-> None, current |-> None]

Start ==
  /\ stack = << >> /\ ~over /\ Compiles(prog)
  /\ EnterP(prog, << >>)
  /\ UNCHANGED << prog, ref, over >>

(* ALLOCATE: the length follows the bound; INITIAL then refers to the new    *)
(* generation.                                                               *)
AllocLen(form) ==
  CASE form \in {"bare", "declared"} -> Declared
    [] form = "other" -> Other
    [] form = "star" -> IF gens = << >> THEN Declared ELSE Current.len
emitAllocate ==
  /\ At("alloc")
  /\ LET g == Gen(fresh, AllocLen(St.form))
         act == ctlNote(Then(Top, << >>), fresh)
     IN /\ gens' = Append(gens, g) /\ fresh' = fresh + 1
        /\ Goes(act)
        /\ ref' = [used |-> IF act.hoist # << >> THEN act.hoist[1] ELSE g, current |-> g]
  /\ UNCHANGED << prog, over >>

(* FREE: the runtime answers with the generation below. *)
emitFree ==
  /\ At("free")
  /\ IF gens = << >> THEN over' = TRUE /\ UNCHANGED << gens, stack >>
     ELSE /\ gens' = Front(gens)
          /\ Goes(ctlNote(Then(Top, << >>), IF Len(gens) = 1 THEN 0 ELSE gens[Len(gens) - 1].addr))
          /\ UNCHANGED over
  /\ UNCHANGED << prog, fresh, ref >>

(* A store into CHARACTER(-asterisk-) of a value of n characters: a           *)
(* generation too short for it gives way to one that is not, and one of no   *)
(* characters is taken for an empty stack and stays below.                   *)
emitGrow ==
  /\ At("grow")
  /\ LET live == Current.len
         kept == IF live > 0 THEN Front(gens) ELSE gens
     IN IF St.n > live THEN gens' = Append(kept, Gen(fresh, St.n)) /\ fresh' = fresh + 1
        ELSE UNCHANGED << gens, fresh >>
  /\ Goes(Then(Top, << >>))
  /\ UNCHANGED << prog, ref, over >>

emitRef ==
  /\ At("ref")
  /\ Refers(Top) /\ Goes(Then(Top, << >>))
  /\ UNCHANGED << prog, gens, fresh, over >>

emitCall ==
  /\ Len(stack) < MaxDepth
  /\ LET below == [stack EXCEPT ![Len(stack)] = Then(@, << >>)]
     IN \/ At("callP") /\ EnterP(prog, below)
        \/ At("callQ") /\ stack' = Append(below, Activation("Q", prog.nested)) /\ UNCHANGED << gens, fresh >>
        \/ At("signal") /\ stack' = Append(below, Activation("unit", prog.unit)) /\ UNCHANGED << gens, fresh >>
  /\ UNCHANGED << prog, ref, over >>

(* DO: what the body leaves alone is fetched once, before the loop. *)
hoistCtlForLoopBody(act, b) ==
  LET info == collectCtlLoopInfo(NoLoopInfo, b)
  IN IF info.hasCall \/ ~info.uses \/ info.muts \/ act.hoist # << >> THEN act
     ELSE [act EXCEPT !.hoist = << IF UsesAnchor THEN Gen(act.anchor, Declared) ELSE Current >>]
emitDo ==
  /\ At("do")
  /\ LET act == IF St.form = "forever" THEN Top ELSE hoistCtlForLoopBody(Top, St.body)
         erase == IF act.hoist # Top.hoist THEN 1 ELSE 0
         again == [St EXCEPT !.op = "again", !.n = 2 * MaxRounds + erase]
     IN Goes(Then(act, (IF St.form \in {"until", "forever"} THEN St.body ELSE << >>) \o << again >>))
  /\ UNCHANGED << prog, gens, fresh, ref, over >>
Again ==
  /\ At("again")
  /\ \/ Goes(Then(IF St.n % 2 = 1 THEN [Top EXCEPT !.hoist = << >>] ELSE Top, << >>))
     \/ St.n >= 2 /\ Goes(Then(Top, St.body \o << [St EXCEPT !.n = @ - 2] >>))
  /\ UNCHANGED << prog, gens, fresh, ref, over >>

(* The end of an activation: P's epilogue frees one generation. *)
emitCtlEpilogue ==
  /\ stack # << >> /\ ~over /\ Top.todo = << >>
  /\ IF Top.implicit /\ gens # << >> THEN gens' = Front(gens) ELSE UNCHANGED gens
  /\ stack' = Front(stack)
  /\ over' = (Len(stack) = 1 \/ (Top.implicit /\ gens = << >>))
  /\ UNCHANGED << prog, fresh, ref >>

Next ==
  \/ Start \/ emitAllocate \/ emitFree \/ emitGrow \/ emitRef \/ emitCall \/ emitDo \/ Again \/ emitCtlEpilogue

-----------------------------------------------------------------------------
(* A reference reaches the newest generation, with its own length, through   *)
(* whichever copy of the top the compiler chose.                             *)
RefCurrent == ref.used = ref.current

(* The programs the qualification covers: no ON-unit changes the stack under *)
(* a loop, and the activations of a recursive P leave the stack as they      *)
(* found it.                                                                 *)
RECURSIVE Balanced(_)
Balanced(b) ==
  LET frees(i) == Cardinality({j \in 1..i : b[j].op = "free"})
      allocs(i) == Cardinality({j \in 1..i : b[j].op = "alloc"})
  IN /\ \A i \in DOMAIN b : frees(i) <= allocs(i) /\ Balanced(b[i].body)
     /\ allocs(Len(b)) = frees(Len(b))
Tame(pr) ==
  /\ ~Mutates(pr.unit)
  /\ (\E st \in Stmts(pr.body) \cup Stmts(pr.nested) \cup Stmts(pr.unit) : st.op = "callP") => Balanced(pr.body)
ReferencesExact == Tame(prog) => RefCurrent
=============================================================================
