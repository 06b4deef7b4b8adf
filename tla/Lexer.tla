-------------------------------- MODULE Lexer -------------------------------
(* The lexer: how a source text is cut into tokens.                          *)
(*                                                                           *)
(* A text is a sequence of characters, each a string of one letter or, where *)
(* TLA+ cannot write it, a name: "nl", and the bytes "C2", "AC" (the not     *)
(* sign), "A3" (with C2, the pound sign), "C3", "82" and "FF". A token is    *)
(* [kind, from, upto, line, col, val, flags]: it spells text[from .. upto-1].*)
EXTENDS Naturals, Sequences, SequencesExt, FiniteSets

CONSTANT Texts

VARIABLES text, p, line, col, out, errors, done

lexVars == << text, p, line, col, out, errors, done >>

Capitals == {"A", "B", "E", "I", "S", "U", "X", "$"}
toupper(c) == IF c = "a" THEN "A" ELSE c
pliIsLetter(c) == c \in Capitals \cup {"a"}
isdigit(c) == c \in {"1", "2"}
pliIsAlphameric(c) == pliIsLetter(c) \/ isdigit(c) \/ c = "_"
High == {"C2", "AC", "A3", "C3", "82", "FF"}

At(s, i) == IF i \in DOMAIN s THEN s[i] ELSE "end"

(* The lexer's place in the text; bump moves it over one character.          *)
Place(i, l, c) == [p |-> i, line |-> l, col |-> c]
bump(s, k) ==
  CASE k.p > Len(s) -> k
    [] At(s, k.p) = "nl" -> Place(k.p + 1, k.line + 1, 1)
    [] OTHER -> Place(k.p + 1, k.line, k.col + 1)
RECURSIVE Bumps(_, _, _)
Bumps(s, k, n) == IF n = 0 THEN k ELSE Bumps(s, bump(s, k), n - 1)
BumpWhile(s, k, In(_)) ==
  LET stops == {i \in k.p .. Len(s) : ~In(s[i])} \cup {Len(s) + 1}
  IN Bumps(s, k, Min(stops) - k.p)

-----------------------------------------------------------------------------
(* Blanks and comments. The answer says whether a comment was left open.     *)
RECURSIVE CommentEnd(_, _)
CommentEnd(s, k) ==
  CASE k.p > Len(s) -> [at |-> k, open |-> TRUE]
    [] At(s, k.p) = "*" /\ At(s, k.p + 1) = "/" -> [at |-> Bumps(s, k, 2), open |-> FALSE]
    [] OTHER -> CommentEnd(s, bump(s, k))
RECURSIVE skipSpaceAndComments(_, _)
skipSpaceAndComments(s, start) ==
  LET k == BumpWhile(s, start, LAMBDA c : c \in {" ", "nl"})
      c == CommentEnd(s, Bumps(s, k, 2))
  IN CASE At(s, k.p) = "/" /\ At(s, k.p + 1) = "*" ->
            IF c.open THEN c ELSE skipSpaceAndComments(s, c.at)
       [] At(s, k.p) = "/" /\ At(s, k.p + 1) = "/" ->
            skipSpaceAndComments(s, BumpWhile(s, k, LAMBDA x : x # "nl"))
       [] OTHER -> [at |-> k, open |-> FALSE]

Cut(s, i, j) == SubSeq(s, i, j - 1)
Lexed(kind, from, k, val, flags, err) ==
  [tok |-> [kind |-> kind, from |-> from.p, upto |-> k.p, line |-> from.line, col |-> from.col,
            val |-> val, flags |-> flags],
   at |-> k, err |-> err, keep |-> TRUE]

lexWord(s, k) ==
  LET e == BumpWhile(s, k, pliIsAlphameric)
  IN Lexed("Word", k, e, [i \in 1 .. e.p - k.p |-> toupper(s[k.p + i - 1])], {}, "")

-----------------------------------------------------------------------------
(* Numbers. *)
Digits(s, k) == BumpWhile(s, k, isdigit)
PointDigits(s, k) == At(s, k.p) = "." /\ isdigit(At(s, k.p + 1))
Fraction(s, k) == Digits(s, bump(s, k))
Sub(s, k) == At(s, k.p) = "S" /\ At(s, k.p + 1) = "U" /\ At(s, k.p + 2) = "B"
(* Mutant: the place is not restored when no digit follows. *)
ExponentTaken(s, k) ==
  LET e == bump(s, k)
      d == IF At(s, e.p) \in {"+", "-"} THEN bump(s, e) ELSE e
  IN IF At(s, k.p) = "E" THEN Digits(s, d) ELSE k
(* An E is an exponent only before [sign] digit; else the place is restored. *)
Exponent(s, k) ==
  LET e == bump(s, k)
      d == IF At(s, e.p) \in {"+", "-"} THEN bump(s, e) ELSE e
  IN IF At(s, k.p) = "E" /\ isdigit(At(s, d.p)) THEN Digits(s, d) ELSE k

lexNumber(s, k) ==
  LET int == Digits(s, k)
      float == PointDigits(s, int)
      dec == IF float THEN Fraction(s, int) ELSE int
      money == float /\ PointDigits(s, dec)
      pence == Fraction(s, dec)
      part == IF PointDigits(s, pence) THEN Fraction(s, pence) ELSE pence
      pound == At(s, part.p) = "C2" /\ At(s, part.p + 1) = "A3"
      exp == Exponent(s, dec)
      fl == (IF float \/ exp # dec THEN {"float"} ELSE {}) \cup (IF exp # dec THEN {"exp"} ELSE {})
  IN CASE Sub(s, int) -> Lexed("Isub", k, Bumps(s, int, 3), Cut(s, k.p, int.p), {}, "")
       [] ~Sub(s, int) /\ money /\ pound ->
            Lexed("Number", k, Bumps(s, part, 2), Cut(s, k.p, part.p), {"sterling"}, "")
       [] ~Sub(s, int) /\ money /\ ~pound ->
            Lexed("Number", k, part, Cut(s, k.p, part.p), {"float"}, "sterling")
       [] ~Sub(s, int) /\ ~money /\ At(s, exp.p) = "B" ->
            Lexed("Number", k, bump(s, exp), Cut(s, k.p, exp.p), fl \cup {"binary"}, "")
       [] ~Sub(s, int) /\ ~money /\ At(s, exp.p) = "I" ->
            Lexed("Number", k, bump(s, exp), Cut(s, k.p, exp.p), fl \cup {"imaginary"}, "")
       [] OTHER -> Lexed("Number", k, exp, Cut(s, k.p, exp.p), fl, "")

-----------------------------------------------------------------------------
(* Strings: a doubled quote stands for one; the line's end is an error.      *)
RECURSIVE StringBody(_, _, _)
StringBody(s, k, v) ==
  CASE k.p > Len(s) \/ At(s, k.p) = "nl" -> [at |-> k, val |-> v, open |-> TRUE]
    [] At(s, k.p) = "'" /\ At(s, k.p + 1) = "'" -> StringBody(s, Bumps(s, k, 2), Append(v, "'"))
    [] At(s, k.p) = "'" /\ At(s, k.p + 1) # "'" -> [at |-> bump(s, k), val |-> v, open |-> FALSE]
    [] OTHER -> StringBody(s, bump(s, k), Append(v, At(s, k.p)))
lexString(s, k) ==
  LET b == StringBody(s, bump(s, k), << >>)
      err == IF b.open THEN "string" ELSE ""
  IN CASE At(s, b.at.p) = "B" -> Lexed("BitLit", k, bump(s, b.at), b.val, {}, err)
       [] At(s, b.at.p) = "X" -> Lexed("HexLit", k, bump(s, b.at), b.val, {}, err)
       [] OTHER -> Lexed("CharLit", k, b.at, b.val, {}, err)

-----------------------------------------------------------------------------
(* Delimiters and operators.                                                 *)
Single == [c \in {";", ":", "(", ")", "+", "&", "=", "/", "%"} |->
  CASE c = ";" -> "Semi" [] c = ":" -> "Colon" [] c = "(" -> "LParen" [] c = ")" -> "RParen"
    [] c = "+" -> "Plus" [] c = "&" -> "Amp" [] c = "=" -> "Eq" [] c = "/" -> "Slash" [] OTHER -> "Percent"]
(* first character, then the second that makes the longer one *)
Pairs == {<< ",", ".", "Semi", "Comma" >>, << ".", ".", "Colon", "Dot" >>, << "*", "*", "Power", "Star" >>,
          << "|", "|", "Concat", "Bar" >>, << "-", ">", "Arrow", "Minus" >>,
          << "<", "=", "Le", "Lt" >>, << ">", "=", "Ge", "Gt" >>}
eatNot(s, k) ==
  CASE At(s, k.p) \in {"^", "~"} -> 1
    [] At(s, k.p) = "C2" /\ At(s, k.p + 1) = "AC" -> 2
    [] OTHER -> 0
Invalid(s, k, n, why) == [Lexed("", k, Bumps(s, k, n), << >>, {}, why) EXCEPT !.keep = FALSE]
DoublyEncoded == << "C3", "82", "C2", "AC" >>

lexOperator(s, k) ==
  LET c == At(s, k.p)
      n == eatNot(s, k)
      after == At(s, k.p + n)
      punct(kind, m) == Lexed(kind, k, Bumps(s, k, m), << >>, {}, "")
      pair == CHOOSE q \in Pairs : q[1] = c
  IN CASE c \in DOMAIN Single -> punct(Single[c], 1)
       [] c \in {q[1] : q \in Pairs} ->
            IF At(s, k.p + 1) = pair[2] THEN punct(pair[3], 2) ELSE punct(pair[4], 1)
       [] c = "!" -> IF At(s, k.p + 1) = "!" THEN punct("Concat", 2) ELSE Invalid(s, k, 1, "character")
       [] n > 0 /\ after = "=" -> punct("Ne", n + 1)
       [] n > 0 /\ after = ">" -> punct("Ngt", n + 1)
       [] n > 0 /\ after = "<" -> punct("Nlt", n + 1)
       [] n > 0 /\ after \notin {"=", ">", "<"} -> punct("Not", n)
       [] n = 0 /\ SubSeq(s, k.p, Len(s)) # << >> /\ IsPrefix(DoublyEncoded, SubSeq(s, k.p, Len(s))) ->
            Invalid(s, k, 4, "not sign")
       [] OTHER -> Invalid(s, k, 1, "character")

lexOne(s, k) ==
  CASE pliIsLetter(At(s, k.p)) -> lexWord(s, k)
    [] isdigit(At(s, k.p)) \/ PointDigits(s, k) -> lexNumber(s, k)
    [] At(s, k.p) = "'" -> lexString(s, k)
    [] OTHER -> lexOperator(s, k)

-----------------------------------------------------------------------------
Init ==
  /\ text \in Texts
  /\ p = 1 /\ line = 1 /\ col = 1
  /\ out = << >> /\ errors = << >> /\ done = FALSE

Here == Place(p, line, col)
Move(k) == p' = k.p /\ line' = k.line /\ col' = k.col
Eof(k) == [kind |-> "Eof", from |-> k.p, upto |-> k.p, line |-> k.line, col |-> k.col,
           val |-> << >>, flags |-> {}]

(* One round of lexAll's loop. *)
Ends(skip) ==
  /\ Move(skip.at) /\ done' = TRUE /\ out' = Append(out, Eof(skip.at))
  /\ errors' = IF skip.open THEN Append(errors, "comment") ELSE errors
Takes(t) ==
  /\ Move(t.at) /\ done' = FALSE
  /\ out' = IF t.keep THEN Append(out, t.tok) ELSE out
  /\ errors' = IF t.err # "" THEN Append(errors, t.err) ELSE errors
lexAll ==
  LET skip == skipSpaceAndComments(text, Here)
  IN /\ ~done /\ UNCHANGED text
     /\ IF skip.at.p > Len(text) THEN Ends(skip) ELSE Takes(lexOne(text, skip.at))

Next == lexAll

-----------------------------------------------------------------------------
(* The reference: the language of each kind of token, and the longest match. *)
AllIn(w, In(_)) == \A i \in DOMAIN w : In(w[i])
Some(w) == w # << >>
Splits(w) == {<< SubSeq(w, 1, i), SubSeq(w, i + 1, Len(w)) >> : i \in 0 .. Len(w)}
Ds(w) == Some(w) /\ AllIn(w, isdigit)
DsOrNone(w) == AllIn(w, isdigit)
Pointed(w) == Some(w) /\ w[1] = "." /\ Ds(Tail(w))
Mantissa(w) == Ds(w) \/ \E q \in Splits(w) : DsOrNone(q[1]) /\ Pointed(q[2])
Expo(w) == /\ Len(w) > 1 /\ w[1] = "E"
           /\ Ds(Tail(w)) \/ (w[2] \in {"+", "-"} /\ Ds(Tail(Tail(w))))
Plain(w) == Mantissa(w) \/ \E q \in Splits(w) : Mantissa(q[1]) /\ Expo(q[2])
Amount(w) ==
  \E q \in Splits(w) : /\ Mantissa(q[1]) /\ ~Ds(q[1])
                       /\ \/ Pointed(q[2])
                          \/ \E r \in Splits(q[2]) : Pointed(r[1]) /\ Pointed(r[2])
RECURSIVE Doubled(_)
Doubled(w) ==
  \/ w = << >>
  \/ w[1] \notin {"'", "nl"} /\ Doubled(Tail(w))
  \/ Len(w) > 1 /\ w[1] = "'" /\ w[2] = "'" /\ Doubled(Tail(Tail(w)))
Closed(w) ==
  \E q \in Splits(w) :
     /\ Len(q[1]) > 1 /\ q[1][1] = "'" /\ Last(q[1]) = "'"
     /\ q[2] \in {<< >>, << "B" >>, << "X" >>} /\ Doubled(SubSeq(q[1], 2, Len(q[1]) - 1))
Punctuation ==
  {<< c >> : c \in DOMAIN Single \cup {q[1] : q \in Pairs} \cup {"^", "~"}}
    \cup {<< q[1], q[2] >> : q \in Pairs} \cup {<< "!", "!" >>, << "C2", "AC" >>}
    \cup {n \o << c >> : n \in {<< "^" >>, << "~" >>, << "C2", "AC" >>}, c \in {"=", ">", "<"}}
Token(w) ==
  \/ Some(w) /\ pliIsLetter(w[1]) /\ AllIn(w, pliIsAlphameric)
  \/ \E q \in Splits(w) : Plain(q[1]) /\ q[2] \in {<< >>, << "B" >>, << "I" >>}
  \/ \E q \in Splits(w) : Ds(q[1]) /\ q[2] = << "S", "U", "B" >>
  \/ \E q \in Splits(w) : Amount(q[1]) /\ q[2] \in {<< >>, << "C2", "A3" >>}
  \/ Closed(w) \/ w \in Punctuation
Gap(w) ==
  \/ w \in {<< " " >>, << "nl" >>}
  \/ Len(w) > 3 /\ SubSeq(w, 1, 2) = << "/", "*" >> /\ SubSeq(w, Len(w) - 1, Len(w)) = << "*", "/" >>
       /\ \A i \in 3 .. Len(w) - 2 : ~(w[i] = "*" /\ w[i + 1] = "/")
  \/ Len(w) > 1 /\ SubSeq(w, 1, 2) = << "/", "/" >> /\ AllIn(w, LAMBDA c : c # "nl")

(* The lengths of what can begin at i, and where the next piece begins.      *)
Longest(s, i, Is(_)) ==
  LET ns == {n \in 1 .. Len(s) - i + 1 : Is(SubSeq(s, i, i + n - 1))}
  IN IF ns = {} THEN 0 ELSE CHOOSE n \in ns : \A m \in ns : m <= n
RECURSIVE Munch(_, _)
Munch(s, i) ==
  LET g == Longest(s, i, Gap)
      n == Longest(s, i, Token)
  IN IF i > Len(s) THEN << >>
     ELSE IF g > 0 THEN Munch(s, i + g)
     ELSE IF n > 0 /\ ~IsPrefix(<< "/", "*" >>, SubSeq(s, i, Len(s))) THEN << << i, i + n >> >> \o Munch(s, i + n)
     ELSE << << i, 0 >> >>

Spans == [i \in 1 .. Len(out) - 1 |-> << out[i].from, out[i].upto >>]
LineOf(s, i) == 1 + Cardinality({j \in 1 .. i - 1 : s[j] = "nl"})
ColOf(s, i) == i - Max({0} \cup {j \in 1 .. i - 1 : s[j] = "nl"})
Quoted(t) == FlattenSeq([i \in DOMAIN t.val |-> IF t.val[i] = "'" THEN << "'", "'" >> ELSE << t.val[i] >>])

(* A text the lexer takes without an error is cut into the longest tokens of  *)
(* the language, each with the line and column it begins at and the value it  *)
(* spells (a string's quotes undoubled); a text it rejects has no such cut.   *)
LexExact ==
  done =>
    LET m == Munch(text, 1)
        wrong == m # << >> /\ (Last(m)[2] = 0 \/ \E i \in DOMAIN m : Amount(Cut(text, m[i][1], m[i][2])))
    IN /\ errors = << >> <=> ~wrong
       /\ ~wrong => Spans = m
       /\ \A i \in DOMAIN out : out[i].line = LineOf(text, out[i].from) /\ out[i].col = ColOf(text, out[i].from)
       /\ \A i \in DOMAIN out : out[i].kind \in {"CharLit", "BitLit", "HexLit"} /\ ~wrong =>
            IsPrefix(<< "'" >> \o Quoted(out[i]) \o << "'" >>, Cut(text, out[i].from, out[i].upto))
=============================================================================
