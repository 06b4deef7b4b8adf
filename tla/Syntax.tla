------------------------------- MODULE Syntax -------------------------------
(***************************************************************************)
(* The parser against the concrete syntax.  A source is a program as the   *)
(* grammar derives it; Text is how it is written, Procs the procedures and *)
(* trees it stands for, both by structural recursion and with no notion of *)
(* a position, a lookahead or a pending END.  Parse runs the parser on the *)
(* text; which parser it is, is a parameter.                               *)
(*                                                                         *)
(* A statement of a source has a kind, its labels and condition prefix,    *)
(* the words it begins with and the tree they stand for, its parts, the    *)
(* words that end it (none when an END inside closes it too) and the       *)
(* labels of its exit.  A "bad" statement is malformed up to its ';'.      *)
(***************************************************************************)
EXTENDS Parser

CONSTANTS Sources,
          Parsing(_)       \* the parser under test: Parses

VARIABLES source, parsed
vars == << source, parsed >>

S(k, l, f, t, n, s, e, x) ==
  [k |-> k, l |-> l, f |-> f, t |-> t, n |-> n, s |-> s, e |-> e, x |-> x]
Bad(t) == S("bad", << >>, << >>, t, None, << >>, << >>, << >>)
Simple(t, n) == S("simple", << >>, << >>, t, n, << >>, << >>, << >>)

-----------------------------------------------------------------------------
(* Expressions: parentheses only where rules (115)-(122) need them. *)

Level == << {"|"}, {"&"}, {"=", "<", ">", "<=", ">=", "^=", "^>", "^<"}, {"||"}, {"+", "-"}, {"*", "/"} >>
LevelOf(n) == CASE n.k = "binary" /\ n.w # << "**" >> -> CHOOSE v \in DOMAIN Level : n.w[1] \in Level[v]
                [] n.k = "unary" \/ n.k = "binary" -> 7
                [] OTHER -> 8
RECURSIVE Spell(_), Separated(_)
Separated(s) == IF s = << >> THEN << >>
                ELSE FoldLeft(LAMBDA a, n : a \o << "," >> \o Spell(n), Spell(s[1]), Tail(s))
At(n, level) == IF LevelOf(n) < level THEN << "(" >> \o Spell(n) \o << ")" >> ELSE Spell(n)
Dotted(w) == FoldLeft(LAMBDA a, x : a \o << ".", x >>, << w[1] >>, Tail(w))
Spell(n) ==
  CASE n.k \in {"number", "literal"} -> n.w
    [] n.k = "ref" -> Dotted(n.w)
    [] n.k = "call" -> Dotted(n.w) \o << "(" >> \o Separated(n.s) \o << ")" >>
    [] n.k = "at" -> Spell(n.s[1]) \o << "->" >> \o Spell(n.s[2])
    [] n.k = "star" -> << "*" >>
    [] n.k = "unary" -> n.w \o At(n.s[1], 7)
    [] n.w = << "**" >> -> At(n.s[1], 8) \o n.w \o At(n.s[2], 7)
    [] OTHER -> At(n.s[1], LevelOf(n)) \o n.w \o At(n.s[2], LevelOf(n) + 1)

-----------------------------------------------------------------------------
(* What a prefix says, and how statements nest. *)

Says(f) == CASE f = << >> -> NoPrefix
             [] f = << "NOSIZE" >> -> [size |-> "no", range |-> 0]
             [] f = << "CHECK", "(", "SIZE", ")" >> -> [size |-> "chk", range |-> 0]
             [] f = << "STRINGRANGE" >> -> [size |-> "", range |-> 1]
             [] f = << "NOCHECK" >> -> [size |-> "no", range |-> -1]
             [] f = << "SIZE", ",", "NOSTRINGRANGE" >> -> [size |-> "", range |-> -1]
Colons(l) == FoldLeft(LAMBDA a, x : a \o << x, ":" >>, << >>, l)
RECURSIVE Text(_), Tree(_, _), Hoisted(_, _)
Texts(s) == FoldLeft(LAMBDA a, x : a \o Text(x), << >>, s)
Text(x) ==
  (IF x.f = << >> THEN << >> ELSE << "(" >> \o x.f \o << ")", ":" >>) \o Colons(x.l) \o x.t
   \o (IF x.k # "if" \/ Len(x.s) = 1 THEN Texts(x.s) ELSE Text(x.s[1]) \o << "ELSE" >> \o Text(x.s[2]))
   \o x.e

(* env: whether the procedure's prefix disables SIZE, and the STRINGRANGE state in force. *)
Own(x, env) ==
  LET own == Says(x.f)
  IN [size |-> IF own.size = "" /\ env.off THEN "no" ELSE own.size,
      range |-> IF own.range = 0 THEN env.range ELSE own.range]
Within(x, env) == [env EXCEPT !.range = Own(x, env).range]
InProc(x, env) == [off |-> CASE Own(x, env).size = "no" -> TRUE [] Own(x, env).size = "chk" -> FALSE
                             [] OTHER -> env.off,
                   range |-> Own(x, env).range]
Trees(s, env) == FoldLeft(LAMBDA a, x : IF x.k \in {"proc", "bad"} THEN a ELSE Append(a, Tree(x, env)), << >>, s)
(* A labelled END leaves a null statement where it stands. *)
BodyOf(x, env) == Node("body", << >>, Trees(x.s, env) \o
                    IF ":" \in {x.e[k] : k \in DOMAIN x.e} THEN << Node("null", << >>, << >>) >> ELSE << >>)
Exits(x, tree) ==
  IF x.x = << >> THEN tree
  ELSE Node("group", << >>, << Node("body", << >>, << tree, [Node("null", << >>, << >>) EXCEPT !.l = x.x] >>) >>)
Tree(x, env) ==
  LET in == Within(x, env)
      dress(n) == [n EXCEPT !.l = x.l, !.f = Own(x, env)]
      when(w) == << w.n >> \o Trees(w.s, in)
  IN CASE x.k = "simple" -> dress(x.n)
       [] x.k = "if" -> dress([x.n EXCEPT !.s = @ \o Trees(x.s, in)])
       [] x.k = "block" -> Exits(x, dress([x.n EXCEPT !.s = Append(@, BodyOf(x, in))]))
       [] x.k = "select" ->
            LET last == x.s[Len(x.s)]
                other == last.k = "otherwise"
                arms == IF other THEN SubSeq(x.s, 1, Len(x.s) - 1) ELSE x.s
            IN Exits(x, dress(FoldRight(LAMBDA w, tail : Node("if", << >>, IF tail = None THEN when(w)
                                                                           ELSE Append(when(w), tail)),
                                        arms, IF other THEN Trees(last.s, in)[1] ELSE None)))

Hoisted(s, env) ==       \* the procedures of a statement list, outermost first
  FoldLeft(LAMBDA a, x :
    a \o (IF x.k # "proc" THEN Hoisted(x.s, Within(x, env))
          ELSE << [x.n EXCEPT !.w = << x.l[1] >> \o @,
                              !.s = Append(@, Node("body", << >>,
                                      BodyOf(x, InProc(x, env)).s \o
                                      IF x.x = << >> THEN << >>
                                      ELSE << [Node("null", << >>, << >>) EXCEPT !.l = x.x] >>))] >>
               \o Hoisted(x.s, InProc(x, env))), << >>, s)
RECURSIVE Flattened(_)
Flattened(s) == FoldLeft(LAMBDA a, x : Append(a, x.k) \o Flattened(x.s), << >>, s)
Procs(s) == Hoisted(s, [off |-> FALSE, range |-> 0])

-----------------------------------------------------------------------------
Unread == [done |-> FALSE, err |-> 0, procs |-> << >>]
Init == source \in Sources /\ parsed = Unread
Parse ==
  /\ ~parsed.done
  /\ parsed' = Parsing(Texts(source))
  /\ UNCHANGED source
Next == Parse

Bads(s) == Cardinality({k \in DOMAIN Flattened(s) : Flattened(s)[k] = "bad"})

(* The parser accepts every program the grammar derives and builds exactly *)
(* its trees: precedence, multiple closure, the ELSE and the END that      *)
(* belong to each IF and block, the prefix in force at each statement; a   *)
(* malformed statement costs one diagnostic and nothing around it.         *)
ParseExact == parsed.done => parsed.err = Bads(source) /\ parsed.procs = Procs(source)

(* One bad statement yields one diagnostic, not a cascade (ADR-015). *)
OneDiagnostic == parsed.done => parsed.err = Bads(source)

=============================================================================
