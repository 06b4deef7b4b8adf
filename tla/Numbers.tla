------------------------------ MODULE Numbers ------------------------------
(* Numbers as text: FIXED(character) in its two builds, the parser of the    *)
(* generated code and the runtime's; CHAR(fixed) in its two builds; and the  *)
(* stream's list images and F(w,d) fields with the readers of list input.    *)
(*                                                                           *)
(* A text is a sequence of characters. A job is one conversion, or one value *)
(* written and read back: [kind, text, after, ty, v, cap, w, d, f], after    *)
(* the byte that happens to follow the text in storage. A type is [base,     *)
(* prec, scale], its stored integer holding the value times base^scale.      *)
EXTENDS Integers, Sequences, FiniteSets, SequencesExt

CONSTANTS Jobs,
          Bits32, Bits64, Bits128,  \* the widths of a stored integer
          Digits32, Digits64,       \* 9 and 18: the decimal digits they hold
          MaxSig, MaxFrac, MaxExp,  \* 38, 76 and 1000: the limits of a parse
          FracRoom, BinRoom,        \* 20 and 60: the most digits of a fraction image
          TokenRoom                 \* 64: the bytes of a list input token

VARIABLES job, text, result, step

vars == << job, text, result, step >>

-----------------------------------------------------------------------------
Digit == {"0", "1", "2", "3", "4", "5", "6", "7", "8", "9"}
Sign == {"+", "-"}
Blanks == {" ", "TAB"}
Separators == {" ", "TAB", "NL", ",", ";"}
Faces == << "0", "1", "2", "3", "4", "5", "6", "7", "8", "9" >>
Val(c) == (CHOOSE i \in 1 .. 10 : Faces[i] = c) - 1
Horner(a, c) == a * 10 + Val(c)
Number(ds) == FoldLeft(Horner, 0, ds)
Wrap(v, bits) == ((v + 2^(bits - 1)) % 2^bits) - 2^(bits - 1)
Magnitude(v) == IF v < 0 THEN -v ELSE v
Signed(neg, m) == IF neg THEN -m ELSE m
Least(a, b) == IF a < b THEN a ELSE b
Most(a, b) == IF a < b THEN b ELSE a
Spaces(n) == [i \in 1 .. Most(n, 0) |-> " "]

(* The first position from i on that is past s or not in C. *)
SpanEnd(s, i, C) ==
  CHOOSE j \in i .. Most(i, Len(s) + 1) :
    /\ j > Len(s) \/ s[j] \notin C
    /\ \A k \in i .. j - 1 : k <= Len(s) /\ s[k] \in C
At(s, i, C) == i <= Len(s) /\ s[i] \in C

intBits(ty) ==
  IF ty.base = 2 THEN IF ty.prec <= Bits32 - 1 THEN Bits32 ELSE Bits64
  ELSE IF ty.prec <= Digits32 THEN Bits32 ELSE IF ty.prec <= Digits64 THEN Bits64 ELSE Bits128

-----------------------------------------------------------------------------
(* pli_fixed_char_parts: the runtime's parse, one loop over digits and point. *)
Scanned == [all |-> 0, digits |-> 0, f |-> 0, saw |-> FALSE, seen |-> FALSE,
            dot |-> FALSE, overflow |-> FALSE, stop |-> FALSE, used |-> 0]

ScanDigit(st, d) ==
  LET sig == st.seen \/ d # 0
      over == st.overflow \/ (sig /\ st.digits >= MaxSig) \/ (st.dot /\ st.f >= MaxFrac)
      kept == ~over /\ sig
  IN [st EXCEPT !.all = IF kept THEN @ * 10 + d ELSE @,
                !.digits = IF kept THEN @ + 1 ELSE @,
                !.f = IF st.dot /\ ~over /\ @ < MaxFrac THEN @ + 1 ELSE @,
                !.overflow = over, !.seen = @ \/ d # 0, !.saw = TRUE, !.used = @ + 1]

ScanChar(st, c) ==
  CASE st.stop -> st
    [] ~st.stop /\ c \in Digit -> ScanDigit(st, Val(c))
    [] ~st.stop /\ c = "." /\ ~st.dot -> [st EXCEPT !.dot = TRUE, !.used = @ + 1]
    [] OTHER -> [st EXCEPT !.stop = TRUE]

ExpDigit(e, c) == Least(MaxExp, IF e <= MaxExp THEN Horner(e, c) ELSE e)

RuntimeExponent(s, i, st) ==
  LET j == IF At(s, i + 1, Sign) THEN i + 2 ELSE i + 1
      k == SpanEnd(s, j, Digit)
      e == FoldLeft(ExpDigit, 0, SubSeq(s, j, k - 1))
      eff == IF At(s, i + 1, {"-"}) THEN st.f + e ELSE st.f - e
  IN CASE ~At(s, i, {"e", "E"}) -> st
       [] At(s, i, {"e", "E"}) /\ k = j -> [st EXCEPT !.overflow = TRUE]
       [] At(s, i, {"e", "E"}) /\ k > j /\ st.all = 0 -> [st EXCEPT !.f = 0]
       [] OTHER -> IF eff \in -MaxFrac .. MaxFrac THEN [st EXCEPT !.f = eff]
                   ELSE [st EXCEPT !.overflow = TRUE]

pli_fixed_char_parts(s) ==
  LET i == SpanEnd(s, 1, Blanks)
      k == IF At(s, i, Sign) THEN i + 1 ELSE i
      st == FoldLeft(ScanChar, Scanned, SubSeq(s, k, Len(s)))
      en == RuntimeExponent(s, k + st.used, st)
  IN [ok |-> en.saw /\ ~en.overflow, frac |-> en.f, all |-> Signed(At(s, i, {"-"}), en.all)]

-----------------------------------------------------------------------------
(* emitFixedCharPartsLLVM: the generated parse, a loop for the integer       *)
(* digits and one for the fraction, bytes loaded before their range is       *)
(* tested: at the end of the text the sign is whatever byte follows it.      *)
emitDigitBody(st, d, fractional) ==
  LET sig == st.seen \/ d # 0
      cap == (sig /\ st.digits >= MaxSig) \/ (fractional /\ st.f >= MaxFrac)
      canAcc == ~st.overflow /\ ~cap
      over == st.overflow \/ cap
  IN [st EXCEPT !.all = IF canAcc THEN @ * 10 + d ELSE @,
                !.digits = IF canAcc /\ sig THEN @ + 1 ELSE @,
                !.f = IF fractional /\ ~over THEN @ + 1 ELSE @,
                !.seen = @ \/ sig, !.overflow = over, !.saw = TRUE]
IntDigit(st, c) == emitDigitBody(st, Val(c), FALSE)
FracDigit(st, c) == emitDigitBody(st, Val(c), TRUE)

InlineExpDigit(e, c) == LET next == Horner(e, c) IN IF next > MaxExp THEN MaxExp ELSE next

InlineExponent(s, i, st) ==
  LET j == IF At(s, i + 1, Sign) THEN i + 2 ELSE i + 1
      k == SpanEnd(s, j + 1, Digit)
      e == FoldLeft(InlineExpDigit, Val(s[j]), SubSeq(s, j + 1, k - 1))
      eff == st.f + (IF At(s, i + 1, {"-"}) THEN e ELSE -e)
      inRange == eff \in -MaxFrac .. MaxFrac \/ st.all = 0
  IN CASE ~At(s, i, {"e", "E"}) -> st
       [] At(s, i, {"e", "E"}) /\ ~At(s, j, Digit) -> [st EXCEPT !.overflow = TRUE]
       [] OTHER -> [st EXCEPT !.overflow = @ \/ ~inRange,
                              !.f = IF st.all = 0 THEN 0 ELSE IF inRange THEN eff ELSE @]

emitFixedCharParts(s, after) ==
  LET i == SpanEnd(s, 1, Blanks)
      neg == IF i <= Len(s) THEN s[i] = "-" ELSE after = "-"
      k == IF At(s, i, Sign) THEN i + 1 ELSE i
      dotAt == SpanEnd(s, k, Digit)
      whole == FoldLeft(IntDigit, Scanned, SubSeq(s, k, dotAt - 1))
      point == At(s, dotAt, {"."})
      end == IF point THEN SpanEnd(s, dotAt + 1, Digit) ELSE dotAt
      st == IF point THEN FoldLeft(FracDigit, whole, SubSeq(s, dotAt + 1, end - 1)) ELSE whole
      en == InlineExponent(s, end, st)
  IN [ok |-> en.saw /\ ~en.overflow, frac |-> en.f, all |-> Signed(neg, en.all)]

-----------------------------------------------------------------------------
(* Mutant: a half is rounded towards zero. *)
fromCharHalfDown(parts, ty) ==
  LET up == IF parts.frac < 0 THEN 10^(-parts.frac) ELSE 1
      den == IF parts.frac < 0 THEN 1 ELSE 10^parts.frac
      scaled == Magnitude(parts.all) * up * ty.base^ty.scale
      half == IF ty.base = 10 /\ 2 * (scaled % den) > den THEN 1 ELSE 0
      raw == Signed(parts.all < 0, (scaled \div den) + half)
      size == IF ty.base = 10 THEN Magnitude(raw) >= 10^ty.prec
              ELSE raw >= 2^ty.prec \/ raw < -(2^ty.prec)
      kept == IF size /\ ty.base = 2 THEN Wrap(raw, ty.prec + 1) ELSE raw
  IN [conversion |-> ~parts.ok, size |-> size, raw |-> Wrap(kept, intBits(ty))]

(* emitFixedFromChar: a DECIMAL target rounds half away from zero, a BINARY  *)
(* one truncates; beyond the declared precision SIZE is raised, and the      *)
(* value a handler resumes with wraps.                                       *)
emitFixedFromChar(parts, ty) ==
  LET up == IF parts.frac < 0 THEN 10^(-parts.frac) ELSE 1
      den == IF parts.frac < 0 THEN 1 ELSE 10^parts.frac
      scaled == Magnitude(parts.all) * up * ty.base^ty.scale
      half == IF ty.base = 10 /\ 2 * (scaled % den) >= den THEN 1 ELSE 0
      raw == Signed(parts.all < 0, (scaled \div den) + half)
      size == IF ty.base = 10 THEN Magnitude(raw) >= 10^ty.prec
              ELSE raw >= 2^ty.prec \/ raw < -(2^ty.prec)
      kept == IF size /\ ty.base = 2 THEN Wrap(raw, ty.prec + 1) ELSE raw
  IN [conversion |-> ~parts.ok, size |-> size, raw |-> Wrap(kept, intBits(ty))]

-----------------------------------------------------------------------------
(* Images. A magnitude's digits, n of them at least.                         *)
RECURSIVE Digits(_)
Digits(m) == IF m < 10 THEN << Faces[m + 1] >> ELSE Append(Digits(m \div 10), Faces[(m % 10) + 1])
Padded(m, n) ==
  LET ds == Digits(m)
  IN SubSeq([i \in 1 .. Most(0, n - Len(ds)) |-> "0"] \o ds,
            1 + Most(0, Len(ds) - n), Most(n, Len(ds)))
Minus(v) == IF v < 0 THEN << "-" >> ELSE << >>

pli_put_list_fixed(v) == Minus(v) \o Digits(Magnitude(v))

rt_format_decfixed(v, q) ==
  LET factor == 10^Least(Magnitude(q), Digits64)
      m == Magnitude(v)
  IN IF q < 0 THEN Minus(v) \o Digits((m * factor) % 2^Bits64)
     ELSE Minus(v) \o Digits(m \div factor)
            \o (IF q > 0 THEN << "." >> \o Padded(m % factor, Least(q, FracRoom)) ELSE << >>)

rt_format_decfixed128(v, q) ==
  LET factor == 10^Least(q, MaxSig)
      m == Magnitude(v)
  IN Minus(v) \o Digits(m \div factor)
       \o (IF q > 0 THEN << "." >> \o Padded(m % factor, Least(q, MaxSig)) ELSE << >>)

(* The fraction of v/2^scale, digit by digit, until nothing remains. *)
RECURSIVE Dyadic(_, _, _)
Dyadic(rem, factor, room) ==
  IF rem = 0 \/ room = 0 THEN << >>
  ELSE << Faces[((rem * 10) \div factor) + 1] >> \o Dyadic((rem * 10) % factor, factor, room - 1)

format_fixed_scaled(v, scale) ==
  LET factor == 2^scale
      rem == Magnitude(v) % factor
  IN Minus(v) \o Digits(Magnitude(v) \div factor)
       \o (IF rem # 0 THEN << "." >> \o Dyadic(rem, factor, BinRoom) ELSE << >>)

(* The routine PUT LIST calls for a type: only a positive scale shows. *)
emitPutItem(v, ty) ==
  CASE ty.base = 10 /\ intBits(ty) = Bits128 -> rt_format_decfixed128(v, Most(ty.scale, 0))
    [] ty.base = 10 /\ intBits(ty) # Bits128 /\ ty.scale > 0 -> rt_format_decfixed(v, ty.scale)
    [] ty.base = 2 /\ ty.scale > 0 -> format_fixed_scaled(v, ty.scale)
    [] OTHER -> pli_put_list_fixed(v)

(* CHAR(fixed): the runtime clips its image to the target; the generated     *)
(* code copies every digit and pads what is left.                            *)
pli_char_of_fixed(v, cap) ==
  LET image == pli_put_list_fixed(v)
      n == Least(Len(image), cap)
  IN SubSeq(image, 1, n) \o Spaces(cap - n)
emitCharOfFixed(v, cap) ==
  LET dstOff == IF v < 0 THEN 1 ELSE 0
      digits == Digits(Magnitude(v))
      writeEnd == dstOff + Len(digits)
  IN [i \in 1 .. Most(cap, writeEnd) |->
        IF i \in dstOff + 1 .. writeEnd THEN digits[i - dstOff] ELSE IF i = 1 THEN "-" ELSE " "]

-----------------------------------------------------------------------------
(* F(w,d): the value split at its scale, rounded to d digits, right-justified. *)
pli_put_edit_fixed(v0, scale0, w, d0) ==
  LET d == Least(Most(d0, 0), BinRoom)
      v == IF scale0 < 0 THEN Wrap(v0 * 10^(-scale0), Bits64) ELSE v0
      scale == Most(scale0, 0)
      sf == 10^Least(scale, Digits64)
      df == 10^(scale - d)
      q == (Magnitude(v) % sf) \div df
      r == (Magnitude(v) % sf) % df
      up == IF 2 * r >= df THEN q + 1 ELSE q
      carried == d < scale /\ up >= 10^d
      ip == (Magnitude(v) \div sf) + (IF carried THEN 1 ELSE 0)
      fr == IF d >= scale THEN Magnitude(v) % sf ELSE IF carried THEN 0 ELSE up
      own == Least(scale, d)
      image == (IF v < 0 /\ (ip # 0 \/ fr # 0) THEN << "-" >> ELSE << >>)
                 \o Digits(ip)
                 \o (IF d > 0 THEN << "." >> ELSE << >>)
                 \o (IF own > 0 THEN Padded(fr, own) ELSE << >>)
                 \o [i \in 1 .. d - own |-> "0"]
  IN Spaces(w - Len(image)) \o image

pli_put_edit_fixed_scaled(v, scale, f, w, d) ==
  IF f >= 0 THEN pli_put_edit_fixed(Wrap(v * 10^f, Bits64), Most(scale, 0), w, d)
  ELSE pli_put_edit_fixed(v, Most(scale - f, 0), w, d)

-----------------------------------------------------------------------------
(* List input: the token, and its readers.                                   *)
rt_get_token(s) ==
  LET i == SpanEnd(s, 1, {" ", "TAB", "NL"})
      ends == {j \in i .. Len(s) : s[j] \in Separators}
      e == IF ends = {} THEN Len(s) ELSE (CHOOSE j \in ends : \A k \in ends : j <= k) - 1
  IN SubSeq(s, i, Least(e, i + TokenRoom - 2))

(* An integer too long for its accumulator reads as all ones. *)
StrtollDigit(acc, c) ==
  IF acc > (2^Bits64 - 1 - Val(c)) \div 10 THEN 2^Bits64 - 1 ELSE Horner(acc, c)
pli_strtoll(t) ==
  LET i == IF At(t, 1, Sign) THEN 2 ELSE 1
  IN Wrap(Signed(At(t, 1, {"-"}), FoldLeft(StrtollDigit, 0, SubSeq(t, i, SpanEnd(t, i, Digit) - 1))), Bits64)

(* The digits of a token before and after its point. *)
TokenParts(t) ==
  LET i == IF At(t, 1, Sign) THEN 2 ELSE 1
      j == SpanEnd(t, i, Digit)
      k == IF At(t, j, {"."}) THEN SpanEnd(t, j + 1, Digit) ELSE j
  IN [neg |-> At(t, 1, {"-"}), whole |-> SubSeq(t, i, j - 1), frac |-> SubSeq(t, j + 1, k - 1)]

pli_get_list_decfixed(t, q) ==
  LET p == TokenParts(t)
      n == Least(Len(p.frac), Most(q, 0))
      frac == Number(SubSeq(p.frac, 1, n)) * 10^(Most(q, 0) - n)
  IN Wrap(Signed(p.neg, IF q >= 0 THEN Number(p.whole) * 10^q + frac
                        ELSE Number(p.whole) \div 10^Least(-q, Digits64)), Bits64)

pli_get_list_decfixed_wide(t, q0) ==
  LET p == TokenParts(t)
      q == Least(Most(q0, 0), MaxSig)
      n == Least(Len(p.frac), q)
      frac == Number(SubSeq(p.frac, 1, n)) * 10^(q - n)
  IN Wrap(Signed(p.neg, Number(p.whole) * 10^q + frac), Bits128)

pli_get_list_fixed_scaled(t, q) ==
  LET p == TokenParts(t)
      whole == SubSeq(p.whole, 1, Least(Len(p.whole), Digits64))
      frac == SubSeq(p.frac, 1, Least(Len(p.frac), Digits64 - Len(whole)))
      num == Number(whole \o frac)
      quo == IF q >= 0 THEN (num * 2^q) \div 10^Len(frac)
             ELSE num \div (10^Len(frac) * 2^(-q))
  IN Signed(p.neg, Least(quo % 2^Bits64, 2^(Bits64 - 1) - 1))

(* What GET LIST hands to the assignment: [raw, scale]. *)
emitGetItem(t, ty) ==
  IF ty.scale > 0
  THEN [scale |-> ty.scale,
        raw |-> IF ty.base = 10 THEN Wrap(pli_get_list_decfixed(t, ty.scale), intBits(ty))
                ELSE pli_get_list_fixed_scaled(t, ty.scale)]
  ELSE [scale |-> 0, raw |-> pli_strtoll(t)]

-----------------------------------------------------------------------------
Nothing == [kind |-> "none"]

Init == job \in Jobs /\ text = job.text /\ result = Nothing /\ step = 0

(* FIXED(character), as each build computes it. *)
Convert ==
  /\ step = 0 /\ job.kind = "convert"
  /\ result' = [kind |-> "convert",
                inline |-> emitFixedCharParts(text, job.after),
                runtime |-> pli_fixed_char_parts(text),
                value |-> emitFixedFromChar(emitFixedCharParts(text, job.after), job.ty)]
  /\ step' = 1
  /\ UNCHANGED << job, text >>

(* CHAR(fixed), as each build computes it. *)
Char ==
  /\ step = 0 /\ job.kind = "char"
  /\ result' = [kind |-> "char", inline |-> emitCharOfFixed(job.v, job.cap),
                runtime |-> pli_char_of_fixed(job.v, job.cap)]
  /\ step' = 1
  /\ UNCHANGED << job, text >>

(* PUT LIST appends the item's image to the stream, PUT EDIT its field. *)
PutList ==
  /\ step = 0 /\ job.kind = "list"
  /\ text' = text \o << " " >> \o emitPutItem(job.v, job.ty)
  /\ step' = 1
  /\ UNCHANGED << job, result >>

PutEdit ==
  /\ step = 0 /\ job.kind = "edit"
  /\ LET v == Wrap(job.v, Bits64)
         scale == IF job.ty.base = 10 THEN job.ty.scale ELSE 0
     IN text' = text \o (IF job.f = 0 THEN pli_put_edit_fixed(v, scale, job.w, job.d)
                         ELSE pli_put_edit_fixed_scaled(v, scale, job.f, job.w, job.d))
  /\ step' = 1
  /\ UNCHANGED << job, result >>

(* GET LIST into a variable of the type, and into a picture. *)
GetList ==
  /\ \/ step = 1 /\ job.kind = "list"
     \/ step = 0 /\ job.kind = "read"
  /\ LET t == rt_get_token(text)
     IN result' = [kind |-> "read", item |-> emitGetItem(t, job.ty),
                   narrow |-> pli_get_list_decfixed(t, job.ty.scale),
                   wide |-> pli_get_list_decfixed_wide(t, job.ty.scale)]
  /\ step' = 2
  /\ UNCHANGED << job, text >>

Next == Convert \/ Char \/ PutList \/ PutEdit \/ GetList

Spec == Init /\ [][Next]_vars

-----------------------------------------------------------------------------
(* The decimal a text begins with: its sign, digits, fraction digits and     *)
(* exponent, each as long as it goes.                                        *)
Numeral(s) ==
  LET i == SpanEnd(s, 1, Blanks)
      p == TokenParts(SubSeq(s, i, Len(s)))
      n == i + (IF At(s, i, Sign) THEN 1 ELSE 0) + Len(p.whole)
      e == IF At(s, n, {"."}) THEN n + 1 + Len(p.frac) ELSE n
      x == TokenParts(SubSeq(s, e + 1, Len(s)))
      marked == At(s, e, {"e", "E"})
  IN [neg |-> p.neg, digits |-> Number(p.whole \o p.frac), frac |-> Len(p.frac),
      some |-> p.whole \o p.frac # << >>,
      exp |-> IF ~marked THEN 0 ELSE Signed(x.neg, Number(x.whole)),
      malformed |-> marked /\ x.whole = << >>]

Convertible(n) ==
  /\ n.some /\ ~n.malformed
  /\ n.digits < 10^MaxSig /\ n.frac <= MaxFrac
  /\ n.digits = 0 \/ n.frac - n.exp \in -MaxFrac .. MaxFrac

(* n.digits * 10^-places at base^scale lies within half a unit of raw, a tie *)
(* away from zero, or raw is its whole part. *)
Nearest(m, n, d) == (2 * m - 1) * d <= 2 * n /\ 2 * n < (2 * m + 1) * d
WholePart(m, n, d) == m * d <= n /\ n < (m + 1) * d

ConvertsTo(n) ==
  LET places == IF n.digits = 0 THEN 0 ELSE n.frac - n.exp
      num == n.digits * (IF places < 0 THEN 10^(-places) ELSE 1) * job.ty.base^job.ty.scale
      den == IF places > 0 THEN 10^places ELSE 1
      r == result.value
  IN /\ result.inline = result.runtime
     /\ r.conversion <=> ~Convertible(n)
     /\ ~r.conversion /\ ~r.size
          => /\ IF job.ty.base = 10 THEN Nearest(Magnitude(r.raw), num, den)
                ELSE WholePart(Magnitude(r.raw), num, den)
             /\ r.raw = 0 \/ (r.raw < 0 <=> n.neg)
     /\ ~r.conversion /\ r.size => 2 * num >= (2 * job.ty.base^job.ty.prec - 1) * den
ConvertExact == ConvertsTo(Numeral(job.text))

CharAgrees == Len(pli_put_list_fixed(job.v)) <= job.cap => result.inline = result.runtime

(* A list image reads back as the value, unless the reader is narrower than  *)
(* the type, keeps fewer digits than the image has, or ignores its scale.    *)
ReadsBack ==
  LET p == TokenParts(rt_get_token(text))
  IN (/\ job.ty.scale >= 0 /\ job.ty.scale <= Digits64
      /\ job.v = Wrap(job.v, Bits64)
      /\ job.ty.base = 2 /\ job.ty.scale > 0 => Len(p.whole \o p.frac) <= Digits64)
     => result.item = [raw |-> job.v, scale |-> job.ty.scale]

(* A token's value times 10^scale, cut to an integer, in either width. *)
ReadsToken ==
  LET p == TokenParts(rt_get_token(text))
      num == Number(p.whole \o p.frac) * 10^job.ty.scale
      whole == num \div 10^Len(p.frac)
  IN /\ whole < 2^(Bits64 - 1) => result.narrow = Signed(p.neg, whole)
     /\ whole < 2^(Bits128 - 1) => result.wide = Signed(p.neg, whole)

(* A field holds the value to d digits, and is w wide or just as wide as it. *)
FieldExact ==
  LET i == SpanEnd(text, 1, Blanks)
      p == TokenParts(SubSeq(text, i, Len(text)))
      n == Number(p.whole \o p.frac)
      up == IF job.f > 0 THEN 10^job.f ELSE 1
      scale == (IF job.ty.base = 10 THEN job.ty.scale ELSE 0) + Most(0, -job.f)
  IN Magnitude(job.v) * up < 2^(Bits64 - 1)
     => /\ Len(p.frac) = job.d /\ p.whole # << >>
        /\ Nearest(n, Magnitude(job.v) * up * 10^job.d, 10^scale)
        /\ p.neg <=> job.v < 0 /\ n # 0
        /\ Len(text) = Most(job.w, Len(text) - i + 1)

(* Numbers and their text agree. Both builds parse a character value alike,  *)
(* raise CONVERSION for exactly the texts outside the rules, and store the   *)
(* rounded or truncated value unless SIZE says it does not fit; both write   *)
(* the same CHAR image where it fits; what PUT LIST writes GET LIST reads    *)
(* back; a token's fraction is cut at the scale; an F field is the value     *)
(* rounded half away from zero to its d digits.                              *)
NumbersExact ==
  /\ step = 1 /\ job.kind = "convert" => ConvertExact
  /\ step = 1 /\ job.kind = "char" => CharAgrees
  /\ step = 2 /\ job.kind = "list" => ReadsBack
  /\ step = 2 /\ job.kind = "read" => ReadsToken
  /\ step = 1 /\ job.kind = "edit" => FieldExact
====
