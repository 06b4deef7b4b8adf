-------------------------------- MODULE Fixed -------------------------------
(* FIXED arithmetic as it is compiled: the type the front end gives an       *)
(* expression, the constants it folds, the rescaling and the checks of the   *)
(* generated code, and the range it promises LLVM of a FIXED BINARY load.    *)
(*                                                                           *)
(* A type is [k, prec, scale, wide], k one of "bin", "dec" and "bit" (prec   *)
(* its length); a value is the stored integer, raw. The slots are named for  *)
(* the widths they stand for: 32, 64 and 128 bits, holding 9, 18 and 38      *)
(* decimal digits, with 31 digits the longest DECIMAL the language has.      *)
(*                                                                           *)
(* An expression is [op, name, v, ty, args]: op "var", "lit" or an operator; *)
(* a statement is [kind, t, e, chk], chk telling whether SIZE is enabled.    *)
EXTENDS Integers, Sequences, FiniteSets, SequencesExt

CONSTANTS Programs,
          Bits32, Bits64, Bits128,
          Digits32, Digits64, Digits128, MaxDigits,
          Short, Long,     \* the precisions of an integer constant, 5 and 15
          Values(_)        \* the raw values a type's variables start with

VARIABLES prog, mem, pc, last

vars == << prog, mem, pc, last >>

-----------------------------------------------------------------------------
Magnitude(v) == IF v < 0 THEN -v ELSE v
Larger(a, b) == IF a < b THEN b ELSE a
Smaller(a, b) == IF a < b THEN a ELSE b
(* sdiv truncates toward zero; d is positive unless it is a divisor. *)
Sdiv(n, d) ==
  LET q == Magnitude(n) \div Magnitude(d) IN IF (n < 0) # (d < 0) THEN -q ELSE q
Wrap(v, bits) == ((v + 2^(bits - 1)) % 2^bits) - 2^(bits - 1)
Wraps(v, bits) == v # Wrap(v, bits)
HalfAway(n, d) == Sdiv(n + (IF n < 0 THEN -1 ELSE 1) * (d \div 2), d)

MaxBin == Bits64 - 1
fixedBin(p, q) == [k |-> "bin", prec |-> p, scale |-> q, wide |-> FALSE]
fixedDec(p, q) == [k |-> "dec", prec |-> p, scale |-> q, wide |-> p > Digits64]
isFixed(t) == t.k # "bit"
intBits(t) ==
  CASE t.k = "bin" -> IF t.prec <= Bits32 - 1 THEN Bits32 ELSE Bits64
    [] t.k = "dec" -> IF t.wide THEN Bits128 ELSE IF t.prec <= Digits32 THEN Bits32 ELSE Bits64
    [] t.k = "bit" -> Bits64

ceilMulDiv(n, mul, div) == (n * mul + div - 1) \div div
decToBinDigits(p) == Smaller(MaxBin, 1 + ceilMulDiv(p, 83, 25))
decToBinScale(q) == IF q < 0 THEN -ceilMulDiv(-q, 83, 25) ELSE ceilMulDiv(q, 83, 25)
BinaryScale(t) == IF t.k = "dec" THEN Smaller(MaxBin - 1, decToBinScale(t.scale)) ELSE t.scale

-----------------------------------------------------------------------------
(* The type of an operation.                                                 *)
arithResultType(a, b) ==
  LET p == IF Larger(intBits(a), intBits(b)) = Bits64 THEN MaxBin ELSE Bits32 - 1
      q == Larger(a.scale, b.scale)
      wideP == IF Larger(intBits(a), intBits(b)) = Bits64 THEN MaxBin ELSE MaxDigits
  IN IF a.k = "dec" /\ b.k = "dec"
     THEN [fixedDec(wideP, q) EXCEPT !.wide = a.wide \/ b.wide]
     ELSE fixedBin(p, q)

Fraction(t, base) == t.k = base /\ t.scale > 0
mulResultType(a, b) ==
  LET c == arithResultType(a, b)
      dec == c.k = "dec" \/ Fraction(a, "dec") \/ Fraction(b, "dec")
      p == IF a.k = "dec" /\ b.k = "dec" THEN Smaller(a.prec + b.prec, MaxDigits) ELSE c.prec
      q == a.scale + b.scale
  IN IF dec THEN [fixedDec(p, q) EXCEPT !.wide = a.wide \/ b.wide \/ p > Digits64]
     ELSE [c EXCEPT !.scale = q]

BothDec(a, b) == a.k = "dec" /\ b.k = "dec"
DividendDigits(a, b) == IF a.k = "dec" /\ b.k # "dec" THEN decToBinDigits(a.prec) ELSE a.prec
QuotientScale(a, b) ==
  IF BothDec(a, b) THEN MaxDigits - a.prec + a.scale - b.scale
  ELSE MaxBin - DividendDigits(a, b)
         + (IF a.k # b.k THEN BinaryScale(a) - BinaryScale(b) ELSE a.scale - b.scale)
divResultType(a, b) ==
  LET q == Larger(QuotientScale(a, b), 0)
  IN IF BothDec(a, b) THEN fixedDec(MaxDigits, q) ELSE fixedBin(MaxBin, q)

(* A fraction of base 2 times a DECIMAL is computed in FLOAT. *)
InFixed(op, a, b) ==
  ~(op = "*" /\ ((Fraction(a, "bin") /\ b.k = "dec") \/ (a.k = "dec" /\ Fraction(b, "bin"))))

-----------------------------------------------------------------------------
(* Constant folding.                                                         *)
NoConst == [ok |-> FALSE, value |-> 0, scale |-> 0]
RECURSIVE constDigits(_)
constDigits(v) == IF Magnitude(v) < 10 THEN 1 ELSE 1 + constDigits(Magnitude(v) \div 10)
scaleUp(v, from, to) == IF to > from THEN v * 10^(to - from) ELSE v

RECURSIVE constNumOf(_)
constNumOf(e) ==
  LET a == constNumOf(e.args[1])
      b == constNumOf(e.args[2])
      s == Larger(a.scale, b.scale)
      at(n) == scaleUp(n.value, n.scale, s)
  IN CASE e.op = "lit" -> [ok |-> TRUE, value |-> e.v, scale |-> e.ty.scale]
       [] e.op = "neg" -> IF a.ok THEN [a EXCEPT !.value = -@] ELSE NoConst
       [] e.op \in {"+", "-"} ->
            IF a.ok /\ b.ok
            THEN [ok |-> TRUE, value |-> IF e.op = "+" THEN at(a) + at(b) ELSE at(a) - at(b), scale |-> s]
            ELSE NoConst
       [] e.op = "*" ->
            IF a.ok /\ b.ok THEN [ok |-> TRUE, value |-> a.value * b.value, scale |-> a.scale + b.scale]
            ELSE NoConst
       [] OTHER -> NoConst

RECURSIVE maxLeafMag(_, _)
maxLeafMag(e, scale) ==
  CASE e.op = "lit" -> Magnitude(scaleUp(e.v, e.ty.scale, scale))
    [] e.op = "neg" -> maxLeafMag(e.args[1], scale)
    [] OTHER -> Larger(maxLeafMag(e.args[1], scale), maxLeafMag(e.args[2], scale))

storageDigits(t) ==
  CASE intBits(t) = Bits128 -> Digits128 [] intBits(t) = Bits64 -> Digits64 [] OTHER -> Digits32

Literal(v, t) == [op |-> "lit", name |-> "", v |-> v, ty |-> t, args |-> << >>]
foldConstExpr(e, t) ==
  LET n == constNumOf(e)
      v == IF t.scale >= n.scale THEN scaleUp(n.value, n.scale, t.scale)
           ELSE HalfAway(n.value, 10^(n.scale - t.scale))
      fits == /\ constDigits(v) <= t.prec /\ constDigits(v) <= storageDigits(t)
              /\ constDigits(maxLeafMag(e, t.scale)) <= t.prec
  IN IF n.ok /\ t.k = "dec" /\ fits THEN Literal(v, t) ELSE e

(* The type of an integer constant, and of a decimal one. *)
IntLit(v) ==
  Literal(v, IF Wraps(v, Bits64) THEN fixedDec(constDigits(v), 0)
             ELSE fixedDec(IF Magnitude(v) >= 10^Short THEN Long ELSE Short, 0))
DecLit(v, s) == Literal(v, fixedDec(Larger(constDigits(v), s), s))

(* typeExpr: types from the leaves up; a constant result is folded.          *)
RECURSIVE typeExpr(_)
typeExpr(e) ==
  IF e.op \in {"var", "lit"} THEN e
  ELSE LET args == [i \in DOMAIN e.args |-> typeExpr(e.args[i])]
           a == args[1].ty
           b == args[Len(args)].ty
           t == CASE e.op = "neg" -> a [] e.op \in {"+", "-"} -> arithResultType(a, b)
                  [] e.op = "*" -> mulResultType(a, b) [] e.op = "/" -> divResultType(a, b)
           typed == [e EXCEPT !.args = args, !.ty = t]
       IN IF e.op \in {"+", "-", "*"} THEN foldConstExpr(typed, t) ELSE typed

-----------------------------------------------------------------------------
(* The checks. A check answers the conditions it raises.                     *)
checkedArith(op, a, b, bits, dec, chk) ==
  LET exact == CASE op = "+" -> a + b [] op = "-" -> a - b [] op = "*" -> a * b
      r == Wrap(exact, bits)
      fover == dec /\ bits = Bits128
      bad == r # exact \/ (fover /\ Magnitude(r) >= 10^MaxDigits)
  IN [v |-> r, conds |-> IF ~bad THEN {} ELSE IF fover THEN {"FIXEDOVERFLOW"}
                         ELSE IF chk THEN {"SIZE"} ELSE {}]

magTrap(v, prec, chk) == IF chk /\ Magnitude(v) >= 10^prec THEN {"SIZE"} ELSE {}

(* Mutant: the upper end of the range is let through. *)
precTrapLate(v, bits, prec, chk) ==
  IF ~chk \/ prec >= bits - 1 \/ (v <= 2^prec /\ v >= -(2^prec)) THEN [v |-> v, conds |-> {}]
  ELSE [v |-> Wrap(v, prec + 1), conds |-> {"SIZE"}]
fixedBinPrecTrap(v, bits, prec, chk) ==
  IF ~chk \/ prec >= bits - 1 \/ (v < 2^prec /\ v >= -(2^prec)) THEN [v |-> v, conds |-> {}]
  ELSE [v |-> Wrap(v, prec + 1), conds |-> {"SIZE"}]

(* convert, between the FIXED types and from BIT. The rescaling is done wide *)
(* enough not to wrap, except a DECIMAL scaled up in its own width.          *)
Val(t, v, conds) == [ty |-> t, v |-> v, conds |-> conds]
fitFixed(x, dst, v, conds) == Val(dst, Wrap(v, intBits(dst)), x.conds \cup conds)
toScale(v, base, q) == IF q >= 0 THEN v * base^q ELSE Sdiv(v, base^(-q))

intoBin(x, dst, v, bits, chk) ==
  LET c == fixedBinPrecTrap(v, bits, dst.prec, chk) IN fitFixed(x, dst, c.v, c.conds)
(* A DECIMAL source whose digits fit the target is not checked again. *)
intoDec(x, dst, v, chk) ==
  LET up == IF x.ty.k = "dec" THEN Larger(dst.scale - x.ty.scale, 0) ELSE 0
      decFits == x.ty.k = "dec" /\ x.ty.prec + up <= dst.prec
      needDec == dst.prec <= Digits64 /\ ~decFits
  IN fitFixed(x, dst, v, IF needDec THEN magTrap(v, dst.prec, chk) ELSE {})

bitToFixed(x, dst, chk) ==
  IF dst.k = "bin" THEN intoBin(x, dst, Wrap(x.v, intBits(dst)), intBits(dst), chk)
  ELSE fitFixed(x, dst, x.v, {})
decToBin(x, dst, chk) ==
  LET v == IF x.ty.wide /\ dst.scale < 0 THEN x.v ELSE toScale(x.v, 2, dst.scale)
  IN intoBin(x, dst, toScale(v, 10, -x.ty.scale), 2 * Bits128, chk)
binToDec(x, dst, chk) ==
  LET r == IF dst.wide /\ dst.scale < 0 THEN x.v ELSE toScale(x.v, 10, dst.scale)
      q == x.ty.scale
      v == IF q > 0 THEN HalfAway(r, 2^q) ELSE r * 2^(-q)
  IN IF dst.wide THEN fitFixed(x, dst, v, magTrap(v, dst.prec, chk)) ELSE intoDec(x, dst, v, chk)
decToDec(x, dst, chk) ==
  LET dq == dst.scale - x.ty.scale
      bits == IF x.ty.wide \/ dst.wide THEN Bits128 ELSE Bits64
      c == checkedArith("*", x.v, 10^dq, bits, FALSE, chk)
  IN IF dq > 0 THEN intoDec([x EXCEPT !.conds = @ \cup c.conds], dst, c.v, chk)
     ELSE intoDec(x, dst, IF dst.scale < 0 THEN Sdiv(x.v, 10^(-dq)) ELSE HalfAway(x.v, 10^(-dq)), chk)

convert(x, dst, chk) ==
  LET src == x.ty
      dq == dst.scale - src.scale
  IN CASE src.k = "bit" -> bitToFixed(x, dst, chk)
       [] src.k = "bin" /\ dst.k = "bin" /\ dq = 0 -> intoBin(x, dst, x.v, intBits(src), chk)
       [] src.k = "bin" /\ dst.k = "bin" -> intoBin(x, dst, toScale(x.v, 2, dq), Bits128, chk)
       [] src.k = "dec" /\ dst.k = "bin" -> decToBin(x, dst, chk)
       [] src.k = "bin" /\ dst.k = "dec" -> binToDec(x, dst, chk)
       [] dq = 0 -> intoDec(x, dst, x.v, chk)
       [] OTHER -> decToDec(x, dst, chk)

-----------------------------------------------------------------------------
(* Expressions. *)
Divide(n, d) == IF d = 0 THEN [v |-> 0, conds |-> {"ZERODIVIDE"}] ELSE [v |-> Sdiv(n, d), conds |-> {}]
toI64(x) == Wrap(x.v, Bits64)

(* FIXED division keeps each operand's own scale and divides the raw values; *)
(* in a mixed pair the DECIMAL side is first taken to its binary view.       *)
DivOperand(x, other, t, chk) ==
  LET o == x.ty
      mixed == o.k # other.k
      view == [t EXCEPT !.scale = IF mixed THEN BinaryScale(o) ELSE o.scale,
                        !.prec = IF mixed /\ o.k = "dec" THEN decToBinDigits(o.prec) ELSE @]
  IN convert(x, view, chk)
Quotient(ax, bx, up, t) ==        \* the dividend scaled up by `up' places
  LET num == IF up <= 0 THEN ax.v
             ELSE IF t.k = "dec" THEN Wrap(ax.v * 10^up, Bits128) ELSE Wrap(ax.v * 2^up, Bits64)
      q == Divide(num, bx.v)
  IN [q EXCEPT !.conds = @ \cup ax.conds \cup bx.conds]
(* A negative scale is worked off by scaling the quotient up. *)
ToResultScale(q, dq, t, chk) ==
  LET c == IF dq >= 0 THEN [v |-> q.v, conds |-> {}]
           ELSE IF t.k = "dec" THEN checkedArith("*", q.v, 10^(-dq), Bits128, TRUE, chk)
           ELSE fixedBinPrecTrap(q.v * 2^(-dq), Bits128, MaxBin, chk)
  IN Val(t, Wrap(c.v, intBits(t)), q.conds \cup c.conds)
fixedDiv(x, y, t, chk) ==
  LET up == (IF t.k = "dec" THEN MaxDigits ELSE MaxBin) - DividendDigits(x.ty, y.ty)
  IN ToResultScale(Quotient(DivOperand(x, y.ty, t, chk), DivOperand(y, x.ty, t, chk), up, t),
                   QuotientScale(x.ty, y.ty), t, chk)

Negate(x, chk) ==
  LET lowest == x.v = -(2^(intBits(x.ty) - 1))
  IN Val(x.ty, Wrap(-x.v, intBits(x.ty)),
         x.conds \cup IF x.ty.k = "bin" /\ chk /\ lowest THEN {"SIZE"} ELSE {})

RECURSIVE emitExpr(_, _, _)
emitExpr(e, m, chk) ==
  IF e.op = "var" THEN Val(e.ty, m[e.name], {})
  ELSE IF e.op = "lit" THEN Val(e.ty, e.v, {})
  ELSE LET x == emitExpr(e.args[1], m, chk)
           y == emitExpr(e.args[Len(e.args)], m, chk)
           own(z) == [e.ty EXCEPT !.scale = IF e.op = "*" /\ isFixed(z.ty) THEN z.ty.scale
                                            ELSE IF e.op = "*" THEN 0 ELSE e.ty.scale]
           a == convert(x, own(x), chk)
           b == convert(y, own(y), chk)
           c == checkedArith(e.op, a.v, b.v, intBits(e.ty), e.ty.k = "dec", chk)
       IN CASE e.op = "neg" -> Negate(x, chk)
            [] e.op = "/" -> fixedDiv(x, y, e.ty, chk)
            [] OTHER -> Val(e.ty, c.v, a.conds \cup b.conds \cup c.conds)

(* The quotient of two integers, assigned to an integer, divides in 64 bits. *)
convRequired(src, dst) == intBits(src) # intBits(dst) \/ src.scale # dst.scale \/ src.k = "bit"
Integer(t) == isFixed(t) /\ t.scale = 0
Quick(e, t) ==
  /\ e.op = "/" /\ convRequired(e.ty, t) /\ Integer(t)
  /\ Integer(e.args[1].ty) /\ Integer(e.args[2].ty)
QuickDiv(x, y) ==
  LET q == Divide(toI64(x), toI64(y))
  IN Val(fixedBin(MaxBin, 0), q.v, x.conds \cup y.conds \cup q.conds)
Assigned(e, t, m, chk) ==
  convert(IF Quick(e, t) THEN QuickDiv(emitExpr(e.args[1], m, chk), emitExpr(e.args[2], m, chk))
          ELSE emitExpr(e, m, chk), t, chk)

(* INITIAL of a FIXED BINARY variable: a constant of its slot, then checked. *)
binLitRescaled(e, t) == Sdiv(toScale(e.v, 2, t.scale), 10^e.ty.scale)
initValue(e, t, chk) ==
  LET c == fixedBinPrecTrap(Wrap(binLitRescaled(e, t), intBits(t)), intBits(t), t.prec, chk)
  IN Val(t, c.v, c.conds)

-----------------------------------------------------------------------------
(* A program runs its statements; a condition with no unit ends it. The      *)
(* kinds in RawKinds store with no check of the declared precision: UNSPEC   *)
(* as a target, READ INTO, a callee it is passed to, a locator of its ADDR.  *)
RawKinds == {"unspec", "read", "call", "addr"}
Init ==
  /\ prog \in Programs
  /\ mem = [n \in DOMAIN prog.decl |-> 0]
  /\ pc = 0
  /\ last = [e |-> Literal(0, fixedDec(1, 0)), t |-> fixedDec(1, 0), from |-> mem, to |-> 0, conds |-> {}, chk |-> FALSE, ran |-> FALSE]

Stmt == prog.body[pc]
Target == prog.decl[Stmt.t].ty
Runs(e, x) ==
  /\ last' = [e |-> e, t |-> Target, from |-> mem, to |-> x.v, conds |-> x.conds,
              chk |-> Stmt.chk /\ Stmt.kind = "assign", ran |-> TRUE]
  /\ IF x.conds = {} \/ prog.handled THEN mem' = [mem EXCEPT ![Stmt.t] = x.v] /\ pc' = pc + 1
     ELSE UNCHANGED mem /\ pc' = Len(prog.body) + 1
  /\ UNCHANGED prog

(* What earlier statements, checked, have left in the two variables.         *)
Enter ==
  /\ pc = 0 /\ pc' = 1
  /\ \E a \in Values(prog.decl["a"].ty), b \in Values(prog.decl["b"].ty) :
       mem' = [mem EXCEPT !["a"] = a, !["b"] = b]
  /\ UNCHANGED << prog, last >>
Assign ==
  /\ pc \in DOMAIN prog.body /\ Stmt.kind = "assign"
  /\ LET e == typeExpr(Stmt.e) IN Runs(e, Assigned(e, Target, mem, Stmt.chk))
Initial ==
  /\ pc \in DOMAIN prog.body /\ Stmt.kind = "init"
  /\ Runs(Stmt.e, initValue(Stmt.e, Target, Stmt.chk))
RawStore ==
  /\ pc \in DOMAIN prog.body /\ Stmt.kind \in RawKinds
  /\ \E v \in {2^(intBits(Target) - 1) - 1, -(2^(intBits(Target) - 1))} :
       Runs(Literal(0, fixedDec(1, 0)), Val(Target, v, {}))

Next == Enter \/ Assign \/ Initial \/ RawStore

-----------------------------------------------------------------------------
(* What the code promises LLVM of a load.                                    *)
rangeUnsafe(pr) ==
  {pr.body[i].t : i \in {j \in DOMAIN pr.body : ~pr.body[j].chk \/ pr.body[j].kind \in RawKinds}}
aliasClass(d) ==
  CASE d.class = "based" -> "Unknown"
    [] d.class \in {"defined", "controlled", "static", "external", "param"} -> "Shares"
    [] OTHER -> "Disjoint"
fixedBinRangeFact(pr, n) ==
  LET d == pr.decl[n]
  IN /\ d.ty.k = "bin" /\ d.ty.prec < intBits(d.ty) - 1
     /\ aliasClass(d) = "Disjoint" /\ n \notin rangeUnsafe(pr)

(* The range metadata on a load is true of what the variable holds (ADR-365), *)
(* also after a SIZE condition whose unit returned.                          *)
RangesHold ==
  \A n \in DOMAIN prog.decl : fixedBinRangeFact(prog, n) =>
     mem[n] \in -(2^prog.decl[n].ty.prec) .. (2^prog.decl[n].ty.prec - 1)

(* The value of an expression as a ratio [n, d]: what its operands are worth, *)
(* with no rounding. *)
Worth(v, t) ==
  LET base == IF t.k = "dec" THEN 10 ELSE 2
  IN IF t.scale >= 0 THEN [n |-> v, d |-> base^t.scale] ELSE [n |-> v * base^(-t.scale), d |-> 1]
RECURSIVE Exact(_, _)
Exact(e, m) ==
  IF e.op = "var" THEN Worth(m[e.name], e.ty) ELSE IF e.op = "lit" THEN Worth(e.v, e.ty)
  ELSE LET a == Exact(e.args[1], m)
           b == Exact(e.args[Len(e.args)], m)
       IN CASE e.op = "neg" -> [a EXCEPT !.n = -@]
            [] e.op = "+" -> [n |-> a.n * b.d + b.n * a.d, d |-> a.d * b.d]
            [] e.op = "-" -> [n |-> a.n * b.d - b.n * a.d, d |-> a.d * b.d]
            [] e.op = "*" -> [n |-> a.n * b.n, d |-> a.d * b.d]
            [] e.op = "/" -> IF b.n < 0 THEN [n |-> -a.n * b.d, d |-> -a.d * b.n]
                             ELSE [n |-> a.n * b.d, d |-> a.d * b.n]
InUnits(r, t) == (IF t.k = "dec" THEN 10 ELSE 2)^t.scale * r.n
Rounded(r, t) == IF t.k = "dec" THEN HalfAway(InUnits(r, t), r.d) ELSE Sdiv(InUnits(r, t), r.d)
Fits(v, t) == IF t.k = "dec" THEN Magnitude(v) < 10^t.prec ELSE v \in -(2^t.prec) .. (2^t.prec - 1)
(* Where the code is exact: integer or same-base operands, scales that are   *)
(* not negative, operands inside their declared precision, a DECIMAL target  *)
(* the code checks, a dividend that is no sum, a 64-bit quick quotient.      *)
RECURSIVE Ops(_)
Ops(e) == {e} \cup UNION {Ops(e.args[i]) : i \in DOMAIN e.args}
Operand(e, i) == e.args[i].ty
Compound(e) == e.op = "/" /\ e.args[1].op \in {"+", "-", "*", "/", "neg"}
SameBase(e) ==
  \/ e.op \in {"var", "lit", "neg", "*"}
  \/ Operand(e, 1).k = Operand(e, 2).k
  \/ \A i \in 1 .. 2 : Operand(e, i).k = "bin" \/ (Operand(e, i).scale = 0 /\ ~Operand(e, i).wide)
Plain(e, t, m) ==
  /\ \A o \in Ops(e) : /\ SameBase(o) /\ isFixed(o.ty) /\ o.ty.scale >= 0
                       /\ o.op = "var" => Fits(m[o.name], o.ty)
  /\ t.scale >= 0 /\ (e.op # "/" => ~\E o \in Ops(e) : o.op = "/")
  /\ (t.wide => e.ty.k = "bin")
  /\ (Quick(e, t) => t.k = "bin" /\ ~Operand(e, 1).wide /\ ~Operand(e, 2).wide)

(* No operation overflows its type, and its operands fit it too.             *)
Slot(t) == IF intBits(t) = Bits128 THEN fixedDec(MaxDigits, 0) ELSE fixedBin(intBits(t) - 1, 0)
Held(o, t, m) == LET r == Exact(o, m) IN Fits(Sdiv(InUnits(r, t), r.d), Slot(t))
Room(e, m) ==
  \A o \in Ops(e) : o.op \notin {"var", "lit"} =>
     /\ Held(o, o.ty, m)
     /\ \A i \in DOMAIN o.args :
          Held(o.args[i], IF o.op \in {"+", "-"} THEN o.ty ELSE [o.ty EXCEPT !.scale = o.args[i].ty.scale], m)
Divides(e, m) == \A o \in Ops(e) : o.op = "/" => Exact(o.args[2], m).n # 0

(* A quotient is cut to its result scale, dq, before it is rounded to the    *)
(* target: it is off by less than one place of each. Both sides are in units *)
(* of the target over r.d.                                                   *)
Near(v, e, t, m) ==
  LET r == Exact(e, m)
      dq == QuotientScale(Operand(e, 1), Operand(e, 2))
      base == IF e.ty.k = "dec" THEN 10 ELSE 2
      one == InUnits([n |-> 1, d |-> 1], t)
      off == Magnitude(v * r.d - InUnits(r, t))
  IN IF dq >= 0 THEN off * base^dq <= r.d * (one + base^dq)
     ELSE off <= r.d * (one * base^(-dq) + 1)
Right(v, e, t, m) == IF e.op = "/" THEN Near(v, e, t, m) ELSE v = Rounded(Exact(e, m), t)
Answered(e, t, m) ==
  /\ last.conds = {} => Divides(e, m) /\ Right(last.to, e, t, m) /\ Fits(last.to, t)
  /\ last.conds # {} => ~Divides(e, m) \/ ~Room(e, m) \/ ~Fits(Rounded(Exact(e, m), t), t)

(* An assignment under SIZE stores the exact value of its expression, rounded *)
(* half away from zero to a DECIMAL and truncated to a BINARY target, or      *)
(* raises a condition; and it raises one only when a divisor is zero, the     *)
(* value does not fit the target or an operation overflows its type.          *)
ArithmeticExact ==
  last.ran /\ last.chk /\ Plain(last.e, last.t, last.from) /\ ~(\E o \in Ops(last.e) : Compound(o))
    => Answered(last.e, last.t, last.from)

(* A quotient of FIXED operands is exact to its last place, whatever its      *)
(* dividend is (ADR-361).                                                     *)
DivideExact ==
  last.ran /\ last.chk /\ Plain(last.e, last.t, last.from) => Answered(last.e, last.t, last.from)
=============================================================================
