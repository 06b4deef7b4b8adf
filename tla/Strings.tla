-------------------------------- MODULE Strings --------------------------------
(***************************************************************************)
(* A program with a CHARACTER(CapF) variable F, a CHARACTER(CapV) VARYING  *)
(* variable V and a number R, compiled twice: once with every character    *)
(* built-in a call to the library, once with the code the compiler puts in *)
(* line.  --experimental-lowering makes exactly these two builds.          *)
(*                                                                         *)
(* Each action is one statement, executed by both.  The result of a        *)
(* built-in is a temporary that the statement then assigns to F or to V.   *)
(***************************************************************************)
EXTENDS Integers, Sequences, SequencesExt, FiniteSetsExt

-------------------------------------------------------------------------------
(***************************************************************************)
(* The character routines of the runtime library (runtime/rt_string.c).    *)
(* A character is a small number, Blank the blank; a string argument (a    *)
(* pointer and a length) is a sequence, since no routine reads past its    *)
(* length.  A routine that fills a buffer returns the characters it wrote. *)
(* Positions count from 1, as in PL/I; 0 means "not found".                *)
(***************************************************************************)

CONSTANTS Blank,      \* the character ' '
          Lower,      \* the lower-case letters
          CaseGap     \* 'a' - 'A'

Text(n, c) == [i \in 1..n |-> c]

\* The least position of a set, 0 when the set is empty.
First(positions) == IF positions = {} THEN 0 ELSE Min(positions)

\* Fixed-length assignment: cut to the target, or blank-padded to it.
pli_assign_char(dstlen, src) ==
  [i \in 1..dstlen |-> IF i <= Len(src) THEN src[i] ELSE Blank]

\* VARYING assignment: the text, the blanks behind it, and the live length.
pli_assign_varying(dstmax, src) ==
  [b |-> pli_assign_char(dstmax, src), n |-> Min({Len(src), dstmax})]

pli_concat(a, b) == a \o b

pli_substr(dstcap, src, start, len) ==
  LET from == IF start < 1 THEN 1 ELSE start
  IN  pli_assign_char(Min({len, dstcap}), SubSeq(src, from, Len(src)))

\* The bytes of `old` from `start` on, replaced by the first len of `src`.
Overlay(old, start, src) ==
  [i \in DOMAIN old |-> IF i \in start .. start + Len(src) - 1
                        THEN src[i - start + 1] ELSE old[i]]

pli_substr_assign(dst, start, len, src) ==
  IF start < 1 \/ Len(dst) - (start - 1) <= 0 THEN dst
  ELSE Overlay(dst, start,
               pli_assign_char(Min({len, Len(dst) - (start - 1)}), src))

\* The same on a VARYING target: a hole behind the old text becomes blank and
\* the live length grows to the last character written, never shrinks.
pli_substr_assign_varying(dst, start, len, src) ==
  LET cap == Len(dst.b)
      old == Min({dst.n, cap})
      n   == Min({len, cap - (start - 1)})
  IN  IF start < 1 \/ cap - (start - 1) <= 0 THEN dst
      ELSE [b |-> Overlay([i \in 1..cap |-> IF i > old /\ i < start THEN Blank ELSE dst.b[i]],
                          start, pli_assign_char(n, src)),
            n |-> Max({old, start - 1 + n})]

pli_repeat(dstcap, src, n) ==
  pli_assign_char(dstcap,
    [i \in 1 .. Len(src) * Max({n, 0}) |-> src[((i - 1) % Len(src)) + 1]])

pli_verify(s, t) == First({i \in DOMAIN s : s[i] \notin Range(t)})

pli_verify_from(s, t, start) ==
  First({i \in DOMAIN s : i >= Max({start, 1}) /\ s[i] \notin Range(t)})

pli_search(s, t, start) ==
  First({i \in DOMAIN s : i >= Max({start, 1}) /\ s[i] \in Range(t)})

\* Each character found in `in` becomes its counterpart in `out`, a blank when
\* `out` is the shorter; the rest of the buffer is blank.
pli_translate(dstcap, s, in, out) ==
  LET Mapped(c) == LET at == First({j \in DOMAIN in : in[j] = c})
                   IN  IF at = 0 THEN c ELSE IF at <= Len(out) THEN out[at] ELSE Blank
  IN  pli_assign_char(dstcap, [i \in DOMAIN s |-> Mapped(s[i])])

pli_trim(dstcap, s, pad) ==
  LET kept == {i \in DOMAIN s : s[i] \notin Range(pad)}
  IN  pli_assign_char(dstcap, IF kept = {} THEN << >> ELSE SubSeq(s, Min(kept), Max(kept)))

\* Occurrences of y in x that do not overlap, from the left.
pli_tally(x, y) ==
  LET count[i \in Nat] ==
        IF i + Len(y) > Len(x) THEN 0
        ELSE IF SubSeq(x, i + 1, i + Len(y)) = y THEN 1 + count[i + Len(y)]
        ELSE count[i + 1]
  IN  IF y = << >> THEN 0 ELSE count[0]

Up(c) == IF c \in Lower THEN c - CaseGap ELSE c
Down(c) == IF c + CaseGap \in Lower THEN c + CaseGap ELSE c

pli_uppercase(dstcap, s) == pli_assign_char(dstcap, [i \in DOMAIN s |-> Up(s[i])])
pli_lowercase(dstcap, s) == pli_assign_char(dstcap, [i \in DOMAIN s |-> Down(s[i])])

\* Blank-extended comparison, by unsigned code: -1, 0 or 1.
pli_cmp_char(a, b) ==
  LET n    == Max({Len(a), Len(b)})
      x    == pli_assign_char(n, a)
      y    == pli_assign_char(n, b)
      diff == First({i \in 1..n : x[i] # y[i]})
  IN  IF diff = 0 THEN 0 ELSE IF x[diff] < y[diff] THEN -1 ELSE 1

pli_index(a, b) ==
  First({i \in 1 .. Len(a) - Len(b) + 1 : SubSeq(a, i, i + Len(b) - 1) = b})

pli_center(dstcap, s, width) ==
  LET field == Min({Max({width, 0}), dstcap})
      text  == SubSeq(s, 1, Min({Len(s), field}))
  IN  pli_assign_char(dstcap, Text((field - Len(text)) \div 2, Blank) \o text)

pli_reverse(dstcap, s) == pli_assign_char(dstcap, Reverse(s))

pli_high(dstcap, top) == Text(dstcap, top)
pli_low(dstcap) == Text(dstcap, 0)
pli_rank(s) == IF s = << >> THEN 0 ELSE s[1]
pli_collate(dstcap, n, codes) == pli_assign_char(dstcap, << n % codes >>)

-------------------------------------------------------------------------------
(***************************************************************************)
(* The code that src/irgen.cpp puts in line for the character built-ins    *)
(* instead of a call to the library (the default lowering policy).         *)
(*                                                                         *)
(* A string argument is what the emitted code holds, an address and a      *)
(* length: a record of the buffer behind the address and the live length.  *)
(* Lengths and positions are machine words, compared without sign; U is    *)
(* that view.  The loops are the basic blocks the functions emit.          *)
(***************************************************************************)

CONSTANTS Codes,      \* the number of character codes (256)
          Word,       \* 2^64, at the size of the model
          Lane        \* bytes of one vector register (16)

U(x) == x % Word
MinU(x, y) == IF U(x) < U(y) THEN U(x) ELSE U(y)

Live(a) == SubSeq(a.b, 1, a.n)
Whole(s) == [b |-> s, n |-> Len(s)]

\* memmove of `take` bytes and a memset of blanks up to n.
MoveAndFill(src, take, n) == [i \in 1..n |-> IF i <= take THEN src[i] ELSE Blank]

emitAssignCharLLVM(cap, src) ==
  LET take == MinU(src.n, cap) IN MoveAndFill(src.b, take, cap)

emitAssignVaryingLLVM(cap, src) ==
  [b |-> emitAssignCharLLVM(cap, src), n |-> MinU(src.n, cap)]

emitSubstrLLVM(dstcap, src, start, len) ==
  LET start0 == U(start - 1)
      n      == MinU(len, dstcap)
      avail  == IF src.n < start0 THEN 0 ELSE src.n - start0
      take   == IF U(start) >= 1 THEN MinU(avail, n) ELSE 0
  IN  MoveAndFill(SubSeq(src.b, start0 + 1, start0 + take), take, n)

\* No guard on the position: sema and STRINGRANGE are what keep it in range.
emitSubstrAssignLLVM(dst, start, len, src) ==
  LET n    == MinU(len, Len(dst) - (start - 1))
      take == MinU(src.n, n)
  IN  Overlay(dst, start, MoveAndFill(src.b, take, n))

emitSubstrAssignVaryingLLVM(dst, start, len, src) ==
  LET start0 == start - 1
      old    == IF dst.n > Len(dst.b) THEN Len(dst.b) ELSE dst.n
      gap    == IF U(start0) > old THEN start0 - old ELSE 0
      holed  == Overlay(dst.b, old + 1, Text(gap, Blank))
      n      == MinU(len, Len(dst.b) - start0)
  IN  [b |-> emitSubstrAssignLLVM(holed, start, len, src),
       n |-> IF start0 + n > old THEN start0 + n ELSE old]

emitRepeatLLVM(dstcap, src, n) ==
  LET rep[k \in Nat] ==                     \* the buffer before round k
        IF k = 0 THEN Text(dstcap, Blank)
        ELSE LET out == (k - 1) * src.n
             IN  Overlay(rep[k - 1], out + 1, SubSeq(src.b, 1, MinU(src.n, dstcap - out)))
      rounds == {k \in 0 .. U(n) : k = U(n) \/ k * src.n >= dstcap}
  IN  rep[Min(rounds)]

\* REPEAT of a literal a literal number of times, computed by the compiler.
foldRepeatText(text, count) ==
  [i \in 1 .. Len(text) * count |-> text[((i - 1) % Len(text)) + 1]]

\* The byte table of a constant alphabet, and of a constant TRANSLATE pair.
searchTableBytes(alphabet) ==
  [c \in 0 .. Codes - 1 |-> IF c \in Range(alphabet) THEN 1 ELSE 0]
translateTableBytes(out, in) ==
  LET fill[k \in 0 .. Len(in)] ==           \* later entries first, so the first wins
        IF k = 0 THEN [c \in 0 .. Codes - 1 |-> c]
        ELSE LET j == Len(in) - k + 1
             IN  [fill[k - 1] EXCEPT ![in[j]] = IF j <= Len(out) THEN out[j] ELSE Blank]
  IN  fill[Len(in)]

\* The scan both built-ins share: from position i on, the first byte that stops it.
ScanFrom(s, i0, Stops(_)) ==
  LET outer[i \in Nat] == IF i >= s.n THEN 0
                          ELSE IF Stops(s.b[i + 1]) THEN i + 1 ELSE outer[i + 1]
  IN  IF s.n <= 0 THEN 0 ELSE outer[i0]
Clamped(start) == IF U(start) < 1 THEN 1 ELSE U(start)
InText(t, c) == \E j \in 1 .. t.n : t.b[j] = c

emitVerifyLLVM(s, t) == ScanFrom(s, 0, LAMBDA c : ~InText(t, c))
emitVerifyFromLLVM(s, t, start) ==
  ScanFrom(s, Clamped(start) - 1, LAMBDA c : ~InText(t, c))
emitSearchLLVM(s, t, start) == ScanFrom(s, Clamped(start) - 1, LAMBDA c : InText(t, c))
emitVerifyTable(s, table) == ScanFrom(s, 0, LAMBDA c : table[c] = 0)
emitVerifyFromTable(s, table, start) ==
  ScanFrom(s, Clamped(start) - 1, LAMBDA c : table[c] = 0)
emitSearchTable(s, table, start) ==
  ScanFrom(s, Clamped(start) - 1, LAMBDA c : table[c] # 0)

emitTranslateLLVM(dstcap, s, out, in) ==
  LET inner(c) == LET k == ScanFrom(in, 0, LAMBDA x : x = c)
                  IN  IF k = 0 THEN c ELSE IF k <= out.n THEN out.b[k] ELSE Blank
      n == MinU(s.n, dstcap)
  IN  MoveAndFill([i \in 1..n |-> inner(s.b[i])], n, dstcap)
emitTranslateTable(dstcap, s, table) ==
  LET n == MinU(s.n, dstcap)
  IN  MoveAndFill([i \in 1..n |-> table[s.b[i]]], n, dstcap)

\* The two trimming scans keep lo and hi; the copy stops at the target's end.
emitTrimLLVM(dstcap, s, pad) ==
  LET loScan[lo \in Nat] == IF lo < s.n /\ InText(pad, s.b[lo + 1]) THEN loScan[lo + 1] ELSE lo
      lo == loScan[0]
      hiScan[hi \in Nat] == IF hi > lo /\ InText(pad, s.b[hi]) THEN hiScan[hi - 1] ELSE hi
      hi == hiScan[s.n]
      n  == MinU(hi - lo, dstcap)
  IN  MoveAndFill(SubSeq(s.b, lo + 1, lo + n), n, dstcap)

emitTallyLLVM(x, y) ==
  LET Match(i) == \A j \in 1 .. y.n : x.b[i + j] = y.b[j]
      outer[i \in Nat] == IF i + y.n > x.n THEN 0
                          ELSE IF Match(i) THEN 1 + outer[i + y.n] ELSE outer[i + 1]
  IN  IF y.n <= 0 \/ x.n < y.n THEN 0 ELSE outer[0]

CaseLoop(dstcap, s, lo, hi, shift) ==
  LET n == MinU(s.n, dstcap)
  IN  MoveAndFill([i \in 1..n |-> IF s.b[i] >= lo /\ s.b[i] <= hi
                                  THEN s.b[i] + shift ELSE s.b[i]], n, dstcap)
emitUppercaseLLVM(dstcap, s) == CaseLoop(dstcap, s, Min(Lower), Max(Lower), -CaseGap)
emitLowercaseLLVM(dstcap, s) ==
  CaseLoop(dstcap, s, Min(Lower) - CaseGap, Max(Lower) - CaseGap, CaseGap)

emitReverseLLVM(dstcap, s) ==
  LET n == MinU(s.n, dstcap)
  IN  MoveAndFill([i \in 1..n |-> s.b[s.n - i + 1]], n, dstcap)

emitCenterLLVM(dstcap, s, width) ==
  LET field == MinU(IF width < 0 THEN 0 ELSE width, dstcap)
      take  == MinU(s.n, field)
      left  == (field - take) \div 2
  IN  Overlay(Text(dstcap, Blank), left + 1, SubSeq(s.b, 1, take))

emitHighLLVM(dstcap) == Text(dstcap, Codes - 1)
emitLowLLVM(dstcap) == Text(dstcap, 0)

emitCmpCharLLVM(a, b) ==
  LET At(s, i) == IF i < s.n THEN s.b[i + 1] ELSE Blank
      loop[i \in Nat] == IF i >= (IF a.n > b.n THEN a.n ELSE b.n) THEN 0
                         ELSE IF At(a, i) # At(b, i)
                              THEN IF At(a, i) < At(b, i) THEN -1 ELSE 1
                              ELSE loop[i + 1]
  IN  loop[0]

\* memchr over n bytes from position i (from 0): the offset found, or -1.
Memchr(a, i, n, c) == LET at == {k \in i .. i + n - 1 : a.b[k + 1] = c}
                      IN  IF at = {} THEN -1 ELSE Min(at)
Memcmp(a, i, b, n) == SubSeq(a.b, i + 1, i + n) = SubSeq(b.b, 1, n)

\* A constant needle on x86-64: Lane bytes at a time, byte by byte at the end.
emitIndexConstantSSE2(a, b) ==
  LET loop[pos \in Nat] ==
        LET rem  == a.n - pos
            vec  == rem >= Lane
            cand == IF vec THEN Memchr(a, pos, Lane, b.b[1])
                    ELSE IF a.b[pos + 1] = b.b[1] THEN pos ELSE -1
        IN  CASE rem = 0 -> 0
              [] rem # 0 /\ cand < 0 -> loop[pos + (IF vec THEN Lane ELSE 1)]
              [] rem # 0 /\ cand >= 0 ->
                   IF cand + b.n > a.n THEN 0
                   ELSE IF Memcmp(a, cand, b, b.n) THEN cand + 1 ELSE loop[cand + 1]
  IN  IF b.n <= 0 THEN 1 ELSE IF b.n > a.n THEN 0 ELSE loop[0]

\* A constant needle on arm64: memchr finds the first byte, a vector load from
\* there is compared under the needle's mask.  The load does not look at the
\* live length; `beyond` is the storage behind the haystack's buffer.
emitIndexConstantNEON(a, b, beyond) ==
  LET mem == [b |-> a.b \o beyond, n |-> a.n]
      search[start \in Nat] ==
        LET pos == Memchr(mem, start, a.n - start, b.b[1])
        IN  IF pos < 0 THEN 0
            ELSE IF Memcmp(mem, pos, b, b.n) THEN pos + 1 ELSE search[pos + 1]
  IN  IF b.n <= 0 THEN 1 ELSE search[0]

\* The general form: one candidate is tried in line, the library does the rest.
emitIndexGeneral(a, b) ==
  LET pos == Memchr(a, 0, a.n, b.b[1])
  IN  IF b.n <= 0 THEN 1
      ELSE IF b.n > a.n \/ pos < 0 \/ pos + b.n > a.n THEN 0
      ELSE IF Memcmp(a, pos, b, b.n) THEN pos + 1 ELSE pli_index(Live(a), Live(b))

emitIndexLLVM(a, b, constant, arch, beyond) ==
  CASE constant /\ arch = "x86_64" /\ b.n \in 1 .. Lane -> emitIndexConstantSSE2(a, b)
    [] constant /\ arch = "aarch64" /\ b.n \in 2 .. Lane + 1 ->
         emitIndexConstantNEON(a, b, beyond)
    [] OTHER -> emitIndexGeneral(a, b)

emitRank(s) == IF s.n > 0 THEN s.b[1] ELSE 0
emitCollate(dstcap, n) == MoveAndFill(<< n % Codes >>, 1, dstcap)

-----------------------------------------------------------------------------
(* Concatenation.  The general form builds the operands end to end in a      *)
(* temporary; two patterns are done in place.                                *)


\* X = X || t1 || ... || tn on a VARYING X: each operand goes behind the text
\* already there, and only the live length is stored; the bytes behind it are
\* left as they were.  An operand may be X itself, whose length is still the old one.
emitSelfAppend(x, tails) ==
  LET put[k \in 0 .. Len(tails)] ==
        IF k = 0 THEN [b |-> x.b, off |-> x.n]
        ELSE LET p    == put[k - 1]
                 take == MinU(tails[k].n, Len(x.b) - p.off)
             IN  [b   |-> Overlay(p.b, p.off + 1, SubSeq(tails[k].b, 1, take)),
                  off |-> p.off + take]
  IN  [b |-> put[Len(tails)].b, n |-> put[Len(tails)].off]

\* How much of each operand of a fixed-length concatenation is stored.
planConcatStore(leafLen, cap) ==
  LET used[k \in 0 .. Len(leafLen)] ==
        IF k = 0 THEN 0 ELSE used[k - 1] + Min({leafLen[k], cap - used[k - 1]})
  IN  [sizes |-> [k \in DOMAIN leafLen |-> used[k] - used[k - 1]],
       pad   |-> cap - used[Len(leafLen)]]

emitConcatConstStore(cap, leaves) ==
  LET plan == planConcatStore([k \in DOMAIN leaves |-> leaves[k].n], cap)
  IN  FlattenSeq([k \in DOMAIN leaves |-> SubSeq(leaves[k].b, 1, plan.sizes[k])])
        \o Text(plan.pad, Blank)

-----------------------------------------------------------------------------
(* Bit-string tests.  A BIT(n) value is the set of its positions that are 1. *)

mergeBitTests(mask1, want1, mask2, want2) ==
  [ok   |-> mask1 \cap mask2 = {} /\ want1 \subseteq mask1 /\ want2 \subseteq mask2,
   mask |-> mask1 \cup mask2, want |-> want1 \cup want2]

\* (X & m1) = w1 & (X & m2) = w2: one masked compare when the tests merge.
emitCombinedBitTest(x, mask1, want1, mask2, want2) ==
  LET m == mergeBitTests(mask1, want1, mask2, want2)
  IN  IF m.ok THEN x \cap m.mask = m.want
      ELSE x \cap mask1 = want1 /\ x \cap mask2 = want2

-------------------------------------------------------------------------------

CONSTANTS CapF, CapV,        \* the declared lengths
          Literals,          \* the character constants of the program
          Starts,            \* the positions it passes to SUBSTR, VERIFY and SEARCH
          AssignStarts,      \* the positions of its SUBSTR assignments
          Lens,              \* the lengths and counts it passes
          Archs,             \* the targets it is compiled for
          Bits               \* the positions of a BIT string

VARIABLES lib,     \* the storage of the build that calls the library
          inl      \* the storage of the build with inline code

vars == << lib, inl >>

Stores == [f : [1..CapF -> 0 .. Codes - 1],
           v : [b : [1..CapV -> 0 .. Codes - 1], n : 0..CapV],
           r : Int]

\* AUTOMATIC strings start blank (allocaLocals), a VARYING one empty.
Blanks == [f |-> Text(CapF, Blank), v |-> [b |-> Text(CapV, Blank), n |-> 0], r |-> 0]
Init == lib = Blanks /\ inl = Blanks

\* An operand is a constant or a variable, read when the statement runs.
Operands == [kind : {"lit"}, t : Literals] \cup [kind : {"F", "V"}, t : {<< >>}]
Arg(st, o) == IF o.kind = "lit" THEN Whole(o.t)
              ELSE IF o.kind = "F" THEN Whole(st.f) ELSE st.v

\* storeTo: the temporary assigned to one of the variables, in each build.
LibStore(st, target, value) ==
  IF target = "F" THEN [st EXCEPT !.f = pli_assign_char(CapF, value)]
  ELSE [st EXCEPT !.v = pli_assign_varying(CapV, value)]
InlineStore(st, target, value) ==
  IF target = "F" THEN [st EXCEPT !.f = emitAssignCharLLVM(CapF, Whole(value))]
  ELSE [st EXCEPT !.v = emitAssignVaryingLLVM(CapV, Whole(value))]

\* A statement  target = built-in(o):  what each build computes.
Character(target, o, Lib(_), Inline(_)) ==
  /\ lib' = LibStore(lib, target, Lib(Live(Arg(lib, o))))
  /\ inl' = InlineStore(inl, target, Inline(Arg(inl, o)))
\* A statement  R = built-in(o, p).
Number(o, p, Lib(_, _), Inline(_, _)) ==
  /\ lib' = [lib EXCEPT !.r = Lib(Live(Arg(lib, o)), Live(Arg(lib, p)))]
  /\ inl' = [inl EXCEPT !.r = Inline(Arg(inl, o), Arg(inl, p))]

Assign(target, o) == Character(target, o, LAMBDA s : s, LAMBDA s : Live(s))

\* SUBSTR: a constant length is the temporary's size, any other is cut to it.
Substr(target, o, start, len, cap) ==
  Character(target, o, LAMBDA s : pli_substr(cap, s, start, len),
                       LAMBDA s : emitSubstrLLVM(cap, s, start, len))

SubstrAssign(start, len, o) ==
  /\ lib' = [lib EXCEPT !.f = pli_substr_assign(@, start, len, Live(Arg(lib, o)))]
  /\ inl' = [inl EXCEPT !.f = emitSubstrAssignLLVM(@, start, len, Arg(inl, o))]
SubstrAssignVarying(start, len, o) ==
  /\ lib' = [lib EXCEPT !.v = pli_substr_assign_varying(@, start, len, Live(Arg(lib, o)))]
  /\ inl' = [inl EXCEPT !.v = emitSubstrAssignVaryingLLVM(@, start, len, Arg(inl, o))]

Case(target, o, upper, cap) ==
  Character(target, o,
    LAMBDA s : IF upper THEN pli_uppercase(cap, s) ELSE pli_lowercase(cap, s),
    LAMBDA s : IF upper THEN emitUppercaseLLVM(cap, s) ELSE emitLowercaseLLVM(cap, s))
ReverseText(target, o, cap) ==
  Character(target, o, LAMBDA s : pli_reverse(cap, s), LAMBDA s : emitReverseLLVM(cap, s))
Center(target, o, width) ==
  Character(target, o, LAMBDA s : pli_center(width, s, width),
                       LAMBDA s : emitCenterLLVM(width, s, width))

\* REPEAT and COPY; of a literal the compiler computes the text itself.
Repeat(target, o, count) ==
  Character(target, o, LAMBDA s : pli_repeat(Len(s) * count, s, count),
    LAMBDA s : IF o.kind = "lit" /\ count > 0 /\ s.n > 0 THEN foldRepeatText(s.b, count)
               ELSE emitRepeatLLVM(s.n * count, s, count))

\* TRANSLATE with a constant pair uses a table; otherwise it scans.
Translate(target, o, out, in, constant) ==
  Character(target, o, LAMBDA s : pli_translate(Len(s), s, in, out),
    LAMBDA s : IF constant THEN emitTranslateTable(s.n, s, translateTableBytes(out, in))
               ELSE emitTranslateLLVM(s.n, s, Whole(out), Whole(in)))
Trim(target, o, pad, cap) ==
  Character(target, o, LAMBDA s : pli_trim(cap, s, pad),
                       LAMBDA s : emitTrimLLVM(cap, s, Whole(pad)))

Fill(target, high, n) ==
  Character(target, [kind |-> "V", t |-> << >>],
    LAMBDA s : IF high THEN pli_high(n, Codes - 1) ELSE pli_low(n),
    LAMBDA s : IF high THEN emitHighLLVM(n) ELSE emitLowLLVM(n))
Collate(target, n) ==
  Character(target, [kind |-> "V", t |-> << >>],
    LAMBDA s : pli_collate(1, n, Codes), LAMBDA s : emitCollate(1, n))

Index(o, p, arch) ==
  Number(o, p, pli_index,
         LAMBDA a, b : emitIndexLLVM(a, b, p.kind = "lit", arch, inl.f))

\* VERIFY and SEARCH: a constant alphabet is a table; VERIFY has a two-argument form.
Verify(o, p) ==
  Number(o, p, pli_verify,
         LAMBDA s, t : IF p.kind = "lit" THEN emitVerifyTable(s, searchTableBytes(t.b))
                       ELSE emitVerifyLLVM(s, t))
VerifyFrom(o, p, start) ==
  Number(o, p, LAMBDA s, t : pli_verify_from(s, t, start),
         LAMBDA s, t : IF p.kind = "lit"
                       THEN emitVerifyFromTable(s, searchTableBytes(t.b), start)
                       ELSE emitVerifyFromLLVM(s, t, start))
Search(o, p, start) ==
  Number(o, p, LAMBDA s, t : pli_search(s, t, start),
         LAMBDA s, t : IF p.kind = "lit"
                       THEN emitSearchTable(s, searchTableBytes(t.b), start)
                       ELSE emitSearchLLVM(s, t, start))

Tally(o, p) == Number(o, p, pli_tally, emitTallyLLVM)
Compare(o, p) == Number(o, p, pli_cmp_char, emitCmpCharLLVM)
Rank(o) == Number(o, o, LAMBDA s, t : pli_rank(s), LAMBDA s, t : emitRank(s))

\* V = V || o || p: in place in both builds' default, through a temporary in the
\* library build.
SelfAppend(o, p) ==
  /\ o.kind # "F" /\ p.kind # "F"
  /\ lib' = LibStore(lib, "V", pli_concat(pli_concat(Live(lib.v), Live(Arg(lib, o))),
                                          Live(Arg(lib, p))))
  /\ inl' = [inl EXCEPT !.v = emitSelfAppend(@, << Arg(inl, o), Arg(inl, p) >>)]

\* F = a || b of operands whose lengths are known: copied straight into F.
ConcatConst(o, p) ==
  /\ o.kind = "lit" /\ p.kind = "lit"
  /\ lib' = LibStore(lib, "F", pli_concat(o.t, p.t))
  /\ inl' = [inl EXCEPT !.f = emitConcatConstStore(CapF, << Whole(o.t), Whole(p.t) >>)]

\* R = (x & m1) = w1 & (x & m2) = w2.
BitTest(x, m1, w1, m2, w2) ==
  LET Truth(p) == IF p THEN 1 ELSE 0
  IN  /\ lib' = [lib EXCEPT !.r = Truth(x \cap m1 = w1 /\ x \cap m2 = w2)]
      /\ inl' = [inl EXCEPT !.r = Truth(emitCombinedBitTest(x, m1, w1, m2, w2))]

\* No statement reads R, so a number that was found ends the program.
Next ==
  /\ lib.r = 0
  /\ \/ \E t \in {"F", "V"}, o \in Operands :
          \/ Assign(t, o)
          \/ \E s \in Starts, n \in Lens : Substr(t, o, s, n, n) \/ Substr(t, o, s, n, CapV)
          \/ \E c \in {CapF, CapF - 1} : ReverseText(t, o, c) \/ \E up \in BOOLEAN : Case(t, o, up, c)
          \/ \E n \in Lens : Center(t, o, n) \/ Repeat(t, o, n) \/ Trim(t, o, <<Blank>>, n)
          \/ \E p \in Literals : Trim(t, o, p, CapV) \/ \E q \in Literals, k \in BOOLEAN : Translate(t, o, p, q, k)
     \/ \E t \in {"F", "V"}, n \in Lens : Collate(t, n) \/ \E h \in BOOLEAN : Fill(t, h, n)
     \/ \E s \in AssignStarts, n \in Lens, o \in Operands :
          SubstrAssign(s, n, o) \/ SubstrAssignVarying(s, n, o)
     \/ \E o \in Operands : Rank(o)
     \/ \E o, p \in Operands :
          \/ \E arch \in Archs : Index(o, p, arch)
          \/ Verify(o, p) \/ Tally(o, p) \/ Compare(o, p)
          \/ \E s \in Starts : VerifyFrom(o, p, s) \/ Search(o, p, s)
          \/ SelfAppend(o, p) \/ ConcatConst(o, p)
     \/ lib = Blanks /\ \E x, m1, w1, m2, w2 \in SUBSET Bits : BitTest(x, m1, w1, m2, w2)

Spec == Init /\ [][Next]_vars

-----------------------------------------------------------------------------
================================================================================
