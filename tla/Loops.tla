-------------------------------- MODULE Loops -------------------------------
(* The iterative DO-group as it is compiled, DO i = e1 TO e2 BY e3           *)
(* WHILE(e4), with what the code generator assumes of it: the count it tells *)
(* LLVM and the sign of the control variable, on which MOD relies.           *)
(*                                                                           *)
(* The control variable is FIXED BINARY(prec) in a slot of Bits bits. A      *)
(* clause is [given, lit, v]: lit tells a literal, v its value (a BY of -1   *)
(* is a negated literal: a constant to LLVM, not a literal of the tree). A   *)
(* WHILE of v is the test i ^= v. A body is a sequence of [kind, v, k]: an   *)
(* assignment of v to i, LEAVE or ITERATE when i = v, an assignment of v to  *)
(* the variables TO and BY were taken from, and MOD(i + v, k) or, as         *)
(* "modc", MOD(v + i, k).                                                    *)
EXTENDS Integers, Sequences

CONSTANTS Programs, Bits, MaxTrips

VARIABLES prog,
          i,        \* the control variable
          to, by,   \* the registers TO and BY were put in
          lim,      \* the variable TO and BY were read from
          nonNeg,   \* whether i is taken to be non-negative in the body
          assumed,  \* whether what LLVM was told of the count is so
          pc,
          seen,     \* the values of i the body began with
          mods,     \* the MODs of the last body: [n, k, r]
          wrapped   \* whether a store of i or a bound lost its value

vars == << prog, i, to, by, lim, nonNeg, assumed, pc, seen, mods, wrapped >>

Slot == -(2^(Bits - 1)) .. (2^(Bits - 1) - 1)
WrapTo(v, n) == ((v + 2^(n - 1)) % 2^n) - 2^(n - 1)
Rem(n, d) == LET q == (IF n < 0 THEN -n ELSE n) \div (IF d < 0 THEN -d ELSE d)
             IN n - d * (IF (n < 0) # (d < 0) THEN -q ELSE q)
Abs(v) == IF v < 0 THEN -v ELSE v

-----------------------------------------------------------------------------
(* A store into i, and the conversion of a bound to its type: SIZE when the  *)
(* value is outside the precision, and the value wrapped into it when an     *)
(* ON-unit returns.                                                          *)
fixedBinPrecTrap(v) ==
  IF ~prog.size \/ prog.prec >= Bits - 1 \/ v \in -(2^prog.prec) .. (2^prog.prec - 1)
  THEN [v |-> v, size |-> FALSE]
  ELSE [v |-> WrapTo(v, prog.prec + 1), size |-> TRUE]

(* byNegConst is set by a negative literal; the parser makes none. *)
byNegConst(p) == p.by.given /\ p.by.lit /\ ~p.by.negated /\ p.by.v < 0
nonNegDo(p) == ~byNegConst(p) /\ p.from.lit /\ p.from.v >= 0

(* Mutant: the count of a group without its last round. *)
maxTripShort(p, b) ==
  IF b > 0 /\ p.to.v > p.from.v THEN (p.to.v - p.from.v) \div b
  ELSE IF b < 0 /\ p.from.v > p.to.v THEN (p.from.v - p.to.v) \div (-b)
  ELSE 0
(* The count LLVM is told when all three are constants.                      *)
maxTrip(p, b) ==
  IF b > 0 /\ p.to.v >= p.from.v THEN (p.to.v - p.from.v) \div b + 1
  ELSE IF b < 0 /\ p.from.v >= p.to.v THEN (p.from.v - p.to.v) \div (-b) + 1
  ELSE 0
constBy(p) == ~p.by.given \/ p.by.lit
tripAssumption(p, t, b) ==
  \/ ~(p.from.lit /\ p.to.given /\ p.to.lit /\ constBy(p))
  \/ maxTrip(p, b) = 0
  \/ Abs(t - p.from.v) \div Abs(b) + 1 <= maxTrip(p, b)

-----------------------------------------------------------------------------
Init ==
  /\ prog \in Programs
  /\ pc = "do"
  /\ i = 0 /\ to = 0 /\ by = 1
  /\ lim = 0
  /\ nonNeg = FALSE /\ assumed = TRUE
  /\ seen = << >> /\ mods = << >>
  /\ wrapped = FALSE

(* The head: e1 is stored, then TO and BY are taken once. *)
Enter ==
  LET f == fixedBinPrecTrap(prog.from.v)
      t == fixedBinPrecTrap(prog.to.v)
      b == fixedBinPrecTrap(IF prog.by.given THEN prog.by.v ELSE 1)
      size == f.size \/ (prog.to.given /\ t.size) \/ b.size
  IN /\ pc = "do"
     /\ i' = f.v
     /\ wrapped' = size
     /\ IF size /\ ~prog.handled
        THEN pc' = "error" /\ UNCHANGED << to, by, nonNeg, assumed >>
        ELSE /\ to' = t.v /\ by' = b.v
             /\ nonNeg' = nonNegDo(prog)
             /\ assumed' = tripAssumption(prog, t.v, b.v)
             /\ pc' = "cond"
     /\ UNCHANGED << prog, lim, seen, mods >>

(* TO, by the sign of BY (known at compile time or not), then WHILE. *)
WithinTo(v) == prog.to.given => IF by < 0 THEN v >= to ELSE v <= to
Test ==
  /\ pc = "cond"
  /\ Len(seen) < MaxTrips
  /\ pc' = IF WithinTo(i) /\ (prog.while.given => i # prog.while.v) THEN "body" ELSE "end"
  /\ UNCHANGED << prog, i, to, by, lim, nonNeg, assumed, seen, mods, wrapped >>

(* MOD by a constant. The dividend is traced back to the load of i through   *)
(* the first operand of each instruction, and left as the remainder then. A  *)
(* remainder by a negative divisor is corrected whenever it is not 0 (the    *)
(* test for its sign is an unsigned comparison with 0).                      *)
isDerivedFromNonNegDoIndex(s) == nonNeg /\ s.kind = "mod"
Modulo(n, s) ==
  LET r == Rem(n, s.k)
  IN IF s.k = 0 THEN 0
     ELSE IF \E e \in 0 .. Bits : s.k = 2^e THEN n % s.k
     ELSE IF isDerivedFromNonNegDoIndex(s) /\ s.k > 0 THEN r
     ELSE IF r # 0 /\ (s.k < 0 \/ r < 0) THEN r + s.k
     ELSE r

(* One pass through the body; LEAVE goes to the end, ITERATE to the step. *)
RECURSIVE Statements(_, _, _, _)
Statements(body, v, n, ms) ==
  IF body = << >> THEN [v |-> v, lim |-> n, mods |-> ms, to |-> "step"]
  ELSE LET s == Head(body)
           rest == Tail(body)
       IN CASE s.kind = "set" -> Statements(rest, s.v, n, ms)
            [] s.kind = "bounds" -> Statements(rest, v, s.v, ms)
            [] s.kind = "leave" /\ v = s.v -> [v |-> v, lim |-> n, mods |-> ms, to |-> "end"]
            [] s.kind = "iterate" /\ v = s.v -> [v |-> v, lim |-> n, mods |-> ms, to |-> "step"]
            [] s.kind \in {"mod", "modc"} ->
                 Statements(rest, v, n, Append(ms, [n |-> v + s.v, k |-> s.k, r |-> Modulo(v + s.v, s)]))
            [] OTHER -> Statements(rest, v, n, ms)
Body ==
  LET out == Statements(prog.body, i, lim, << >>)
  IN /\ pc = "body"
     /\ seen' = Append(seen, i)
     /\ i' = out.v /\ lim' = out.lim /\ mods' = out.mods
     /\ pc' = out.to
     /\ UNCHANGED << prog, to, by, nonNeg, assumed, wrapped >>

(* The step adds in the slot. With the checks off the addition is marked as  *)
(* one that cannot overflow: should it, any value may come of it.            *)
Sums ==
  IF i + by \in Slot THEN {i + by}
  ELSE IF ~prog.size /\ ~prog.subs THEN Slot
  ELSE {WrapTo(i + by, Bits)}
Step ==
  /\ pc = "step"
  /\ \E sum \in Sums :
       LET c == fixedBinPrecTrap(sum)
       IN /\ i' = c.v
          /\ wrapped' = (wrapped \/ c.v # i + by)
          /\ pc' = IF c.size /\ ~prog.handled THEN "error" ELSE "cond"
  /\ UNCHANGED << prog, to, by, lim, nonNeg, assumed, seen, mods >>

Next == Enter \/ Test \/ Body \/ Step

-----------------------------------------------------------------------------
(* The DO-group of the language, over the integers: the values the body      *)
(* begins with, at most n of them.                                           *)
RECURSIVE Meaning(_, _)
Meaning(v, n) ==
  LET step == IF prog.by.given THEN prog.by.v ELSE 1
      on == /\ prog.to.given => (IF step < 0 THEN v >= prog.to.v ELSE v <= prog.to.v)
            /\ prog.while.given => v # prog.while.v
      pass == Statements(prog.body, v, 0, << >>)
  IN IF n = 0 \/ ~on THEN << >>
     ELSE << v >> \o (IF pass.to = "end" THEN << >> ELSE Meaning(pass.v + step, n - 1))

IsPrefixOf(s, t) == Len(s) <= Len(t) /\ s = SubSeq(t, 1, Len(s))

(* MOD(n, k): congruent to n, between 0 and k. *)
Remainder(m) ==
  m.k # 0 => m.r \in (IF m.k > 0 THEN 0 .. (m.k - 1) ELSE (m.k + 1) .. 0) /\ Rem(m.n - m.r, m.k) = 0

(* Unless a value of the control variable or a bound was lost at its         *)
(* precision or its slot (with SIZE raised, or with the checks off), the     *)
(* body runs for exactly the values the language gives, as often and in that *)
(* order, whatever the body does to the variables TO and BY were read from;  *)
(* LLVM was told no smaller a count; and a MOD taken without its sign        *)
(* correction is right for every non-negative dividend.                      *)
DoExact ==
  /\ ~wrapped /\ pc # "error" => /\ IsPrefixOf(seen, Meaning(prog.from.v, MaxTrips))
                                 /\ pc = "end" => seen = Meaning(prog.from.v, MaxTrips)
                                 /\ assumed
  /\ \A m \in DOMAIN mods : mods[m].n >= 0 \/ (mods[m].k > 0 /\ ~nonNeg) => Remainder(mods[m])

(* MOD of an expression in a DO control variable takes the sign of the       *)
(* divisor, and is the remainder with that sign.                             *)
ModExact == \A m \in DOMAIN mods : Remainder(mods[m])
=============================================================================
