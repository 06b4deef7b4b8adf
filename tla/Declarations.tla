---------------------------- MODULE Declarations ----------------------------
(***************************************************************************)
(* DECLARE and DEFINE ALIAS (parser.cpp, rules (9)-(43)): a name, its      *)
(* dimension and an attribute list read in any order into a bag, then the  *)
(* type the bag stands for.  `has` holds the attributes met, `of` their    *)
(* operands.  The two spellings of an attribute (BIN, BINARY) are one      *)
(* word; warnings and wording are left out, every diagnostic is counted.   *)
(***************************************************************************)
EXTENDS Parser

CONSTANTS kMaxStructureLevel,
          kMaxBound,        \* INT_MAX
          Written,          \* sequences of attributes, each a token string, led by a dimension
          Reading(_)        \* the reader under test: Readings

VARIABLES written, declared
vars == << written, declared >>

Operands == {"BASED", "DEFINED", "POSITION", "LIKE", "TYPE", "EXTERNAL", "OFFSET", "AREA",
  "CHARACTER", "INITIAL", "CALL", "VALUE", "ENTRY", "RETURNS", "USES", "SETS", "ABNORMAL", "GENERIC",
  "REDUCIBLE", "PICTURE"}
NoType == [k |-> "", p |-> 0, q |-> 0, len |-> 0, is |-> {}, dims |-> << >>]
Item(n) == [n |-> n, level |-> 0, has |-> {}, prec |-> 0, scale |-> 0, slen |-> 0, ty |-> NoType,
            of |-> [o \in Operands |-> << >>]]
With(p, m) == [p |-> p, m |-> m]
Add(m, w) == [m EXCEPT !.has = @ \cup {w}]
Put(m, o, s) == [m EXCEPT !.of[o] = s]
Number(p) == cur(p) \in DOMAIN Value
Isubs == {"1SUB", "2SUB"}

-----------------------------------------------------------------------------
(* Scalar attributes. *)

parenNums(p, neg) ==     \* ( [n] [, [-] [+] q] )
  LET a == advance(p)
      b == IF Number(a) THEN advance(a) ELSE a
      c == advance(b)
      d == eat(eat(c, "-"), "+")
      n == IF Number(a) THEN Value[cur(a)] ELSE -1
      q == IF ~Number(d) THEN 0 ELSE IF cur(c) = "-" THEN -Value[cur(d)] ELSE Value[cur(d)]
  IN CASE cur(b) # "," -> [p |-> expect(b, ")"), n |-> n, q |-> 0]
       [] cur(b) = "," /\ cur(c) = "-" /\ ~neg -> [p |-> Error(c), n |-> n, q |-> 0]
       [] OTHER -> [p |-> expect(IF Number(d) THEN advance(d) ELSE d, ")"), n |-> n, q |-> q]

ScalarWords == {"FIXED", "FLOAT", "BINARY", "DECIMAL", "CHARACTER", "BIT", "VARYINGZ", "VARYING",
                "REAL", "CONTROLLED"}
Sized(p, n, m) == With(p, IF n > 0 THEN [m EXCEPT !.slen = n] ELSE m)
Precision(g, w, m) ==    \* the group after an arithmetic word, or after BIT a length
  IF w = "BIT" THEN Sized(g.p, g.n, m)
  ELSE IF g.n <= 0 THEN With(Error(g.p), m)
  ELSE With(g.p, [m EXCEPT !.prec = g.n, !.scale = IF w = "FLOAT" THEN @ ELSE g.q])
parseScalarAttr(p, bag) ==
  LET w == cur(p)
      q == advance(p)
      m == Add(bag, w)
      g == parenNums(q, w \in {"FIXED", "BINARY", "DECIMAL"})
      e == parseExprOrPlaceholder(advance(q))
      star == With(expect(advance(advance(q)), ")"), Add(m, "STAR"))
  IN CASE w \in {"FIXED", "FLOAT", "BINARY", "DECIMAL"} ->
            IF cur(q) = "(" THEN Precision(g, w, m) ELSE With(q, m)
       [] w \in {"CHARACTER", "BIT"} /\ cur(q) # "(" -> With(q, m)
       [] w \in {"CHARACTER", "BIT"} /\ cur(q) = "(" /\ peek(q, 1) = "*" -> star
       [] w = "BIT" /\ cur(q) = "(" /\ peek(q, 1) # "*" -> Precision(g, w, m)
       [] w = "CHARACTER" /\ cur(q) = "(" /\ peek(q, 1) # "*" ->
            IF Number(advance(q)) THEN Sized(expect(advance(advance(q)), ")"), Value[peek(q, 1)], m)
            ELSE With(expect(e.p, ")"), Put(Add(m, "STAR"), "CHARACTER", << e.n >>))
       [] w = "VARYINGZ" -> With(q, Add(m, "VARYING"))
       [] w = "REAL" -> With(q, bag)
       [] OTHER -> With(q, m)

-----------------------------------------------------------------------------
(* INITIAL lists, rules (28)-(31). *)

RECURSIVE parseInitialList(_, _), parseInitialItem(_)
parseInitialList(p, out) ==      \* after the '(', through its ')'
  LET r == parseInitialItem(p)
      all == Append(out, r.n)
  IN IF cur(p) = ")" THEN [p |-> advance(p), s |-> out]
     ELSE IF cur(r.p) = "," THEN parseInitialList(advance(r.p), all)
     ELSE [p |-> expect(r.p, ")"), s |-> all]
parseInitialItem(p) ==
  LET factor == peek(p, 1) \in DOMAIN Value /\ peek(p, 2) = ")"
      q == [p EXCEPT !.i = @ + 3]
      of == IF cur(q) = "(" THEN parseInitialList(advance(q), << >>)
            ELSE LET r == parseInitialItem(q) IN [p |-> r.p, s |-> << r.n >>]
      g == parseInitialList(advance(p), << >>)
  IN CASE cur(p) = "*" -> Got(advance(p), Node("repeat", << >>, << >>))
       [] cur(p) = "(" /\ factor /\ peek(p, 3) \in DOMAIN Value \cup Literals \cup Words \cup {"-", "+", "*", "("} ->
            Got(of.p, Node("iter", << peek(p, 1) >>, of.s))
       [] cur(p) = "(" /\ factor /\ peek(p, 3) \in {",", ")"} -> Got(q, Node("number", << peek(p, 1) >>, << >>))
       [] cur(p) = "(" -> Got(g.p, Node("group", << >>, g.s))
       [] OTHER -> parseExpr(p, 0)

InitialCall(p, m) ==     \* CALL name ( args ) )
  LET q == advance(p)
      a == CASE ~IsWord(cur(q)) -> [p |-> Error(q), s |-> << >>]
             [] IsWord(cur(q)) /\ peek(q, 1) # "(" -> [p |-> Error(advance(q)), s |-> Ref(cur(q))]
             [] OTHER -> LET r == ListOf(advance(q)) IN [r EXCEPT !.s = Ref(cur(q)) \o @]
  IN With(expect(a.p, ")"), Put(m, "CALL", << Node("call", << >>, a.s) >>))
Initial(p, m) ==
  LET q == advance(IF m.of["VALUE"] # << >> THEN Error(p) ELSE p)
      l == parseInitialList(advance(q), << >>)
  IN IF cur(q) # "(" THEN With(Error(q), m)
     ELSE IF peek(q, 1) = "CALL" THEN InitialCall(advance(q), m)
     ELSE With(l.p, Put(m, "INITIAL", l.s))
ValueAttr(p, m) ==
  LET q == advance(p)
      v == parseExpr(advance(q), 0)
  IN IF cur(q) # "(" THEN With(Error(q), m)
     ELSE IF cur(v.p) # ")" THEN With(Error(v.p), m)
     ELSE IF \E o \in {"CALL", "INITIAL", "VALUE"} : m.of[o] # << >> THEN With(Error(advance(v.p)), m)
     ELSE With(advance(v.p), Put(m, "VALUE", << v.n >>))

-----------------------------------------------------------------------------
(* ENTRY descriptors, rules (34)-(38). *)

Ty(k) == [NoType EXCEPT !.k = k]
Fixed(b, p, q) == [Ty(b) EXCEPT !.p = p, !.q = q]
Or(n, default) == IF n > 0 THEN n ELSE default
(* A dimension: each bound is a constant, an expression or the caller's. *)
Const(v) == [k |-> "const", v |-> v]
Dyn == [k |-> "expr", v |-> 0]
Dim(lb, ub) == [lb |-> lb, ub |-> ub]
Star == << Dim(Const(1), [k |-> "star", v |-> 0]) >>
(* The type of a bag of scalar attributes. *)
Computational(m) ==
  CASE "CHARACTER" \in m.has -> [Ty("CHAR") EXCEPT !.len = Or(m.slen, 1),
                                                  !.is = m.has \cap {"VARYING", "VARYINGZ", "STAR"}]
    [] "BIT" \in m.has -> [Ty("BIT") EXCEPT !.len = Or(m.slen, 1)]
    [] "FLOAT" \in m.has -> [Ty("FLOAT") EXCEPT !.p = Or(m.prec, IF "BINARY" \in m.has THEN 21 ELSE 6)]
    [] "BINARY" \in m.has -> Fixed("BIN", Or(m.prec, 15), m.scale)
    [] OTHER -> Fixed("DEC", Or(m.prec, 5), m.scale)

SingleStar(p) == cur(p) = "(" /\ peek(p, 1) = "*" /\ peek(p, 2) = ")"
ConstNum(p) == cur(eat(p, "-")) \in DOMAIN Value
NumOf(p) == Const(IF cur(p) = "-" THEN -Value[peek(p, 1)] ELSE Value[cur(p)])
RECURSIVE StarAxes(_, _)
StarAxes(p, axes) ==     \* the axes of a group, up to the one no comma follows
  LET a == advance(eat(p, "-"))
      b == advance(a)
      c == advance(eat(b, "-"))
      axis(lb, ub) == Append(axes, Dim(lb, ub))
      next(q, s) == IF cur(q) = "," THEN StarAxes(advance(q), s) ELSE [p |-> q, s |-> s, ok |-> TRUE]
  IN CASE cur(p) = "*" -> next(advance(p), axes \o Star)
       [] cur(p) # "*" /\ ~ConstNum(p) -> [p |-> p, s |-> axes, ok |-> FALSE]
       [] cur(a) = ":" /\ ~ConstNum(b) -> [p |-> b, s |-> axes, ok |-> FALSE]
       [] cur(a) = ":" -> next(c, axis(NumOf(p), NumOf(b)))
       [] OTHER -> next(a, axis(Const(1), NumOf(p)))
parseStarGroup(p) ==     \* only (*) and (*, n ...) are served; any other group is skipped
  LET r == StarAxes(advance(p), << >>)
      ok == /\ r.ok /\ cur(r.p) = ")" /\ r.s # << >> /\ r.s[1] = Star[1]
            /\ \A k \in 2..Len(r.s) : r.s[k] # Star[1]
  IN IF cur(p) # "(" THEN [p |-> p, s |-> << >>]
     ELSE IF ok THEN [p |-> advance(r.p), s |-> r.s] ELSE [p |-> Error(skipParen(p)), s |-> << >>]
TrailingStar(p, dims) ==
  IF SingleStar(p) THEN IF dims # << >> THEN [p |-> Error(p), s |-> dims]
                        ELSE [p |-> [p EXCEPT !.i = @ + 3], s |-> Star]
  ELSE IF cur(p) = "(" THEN [p |-> Error(skipParen(p)), s |-> dims] ELSE [p |-> p, s |-> dims]

RECURSIVE parseDescriptorType(_), parseEntryParams(_, _), ScalarAttrs(_)
ScalarAttrs(r) ==
  IF cur(r.p) \in ScalarWords THEN ScalarAttrs(parseScalarAttr(r.p, r.m)) ELSE r
parseEntryParams(p, out) ==      \* after the '(', through its ')'
  LET r == parseDescriptorType(p)
  IN IF cur(p) \in {")", "EOF"} THEN [p |-> expect(p, ")"), s |-> out]
     ELSE IF cur(r.p) = "," THEN parseEntryParams(advance(r.p), Append(out, r.t))
     ELSE [p |-> expect(r.p, ")"), s |-> Append(out, r.t)]
ScalarDescriptor(a, z) ==        \* attributes a, the dimension z with them
  LET array == z.s # << >>
      has == a.m.has
      wide == "CHARACTER" \notin has /\ "BIT" \in has /\ array /\ a.m.slen > 1
      errs == Cardinality({r \in {<< "char", "CHARACTER" \in has /\ array >>,
                                  << "z", "CHARACTER" \notin has /\ {"BIT", "VARYINGZ"} \subseteq has >>,
                                  << "wide", wide >>,
                                  << "star", "CHARACTER" \notin has /\ {"BIT", "STAR"} \subseteq has /\ ~wide >>,
                                  << "varying", "CHARACTER" \notin has /\ array /\ "VARYING" \in has /\ ~wide >>} : r[2]})
  IN [p |-> [z.p EXCEPT !.err = @ + errs],
      t |-> [Computational(a.m) EXCEPT !.is = IF wide THEN @ ELSE @ \cup (has \cap {"CONTROLLED"}),
                                       !.dims = IF wide \/ "CHARACTER" \in has THEN << >> ELSE z.s]]
parseDescriptorType(p) ==
  LET lead == parseStarGroup(p)
      w == cur(lead.p)
      q == advance(lead.p)
      ptr == TrailingStar(q, lead.s)
      entry == IF cur(q) = "(" THEN parseEntryParams(advance(q), << >>).p ELSE q
      result == IF cur(entry) # "RETURNS" THEN entry
                ELSE IF peek(entry, 1) # "(" THEN Error(advance(entry))
                ELSE expect(parseDescriptorType(advance(advance(entry))).p, ")")
      a == ScalarAttrs(With(lead.p, Item("")))
      type(r, t) == [p |-> r, t |-> t]
  IN CASE w = "POINTER" -> type(ptr.p, [Ty("PTR") EXCEPT !.dims = ptr.s])
       [] w \in {"AREA", "OFFSET"} -> type(CASE cur(q) # "(" -> q
                                             [] w = "OFFSET" /\ cur(q) = "(" /\ IsWord(peek(q, 1)) ->
                                                  eat(advance(advance(q)), ")")
                                             [] OTHER -> skipParen(q), Ty(w))
       [] w = "ENTRY" -> type(eat(result, "VARIABLE"), Ty("ENTRY"))
       [] OTHER -> ScalarDescriptor(a, TrailingStar(a.p, lead.s))

(* The attributes of an entry name. *)
RECURSIVE EntryOptions(_, _), UsesSets(_, _, _), GenericEntries(_, _)
EntryOptions(p, m) ==    \* OPTIONS ( ... )
  LET q == advance(p)
      system == IF peek(q, 1) = "SYSTEM" THEN With(expect(advance(advance(q)), ")"), Add(m, "BYVALUE"))
                ELSE With(expect(Error(advance(q)), ")"), m)
      r == CASE cur(p) = "BYVALUE" -> With(q, Add(m, "BYVALUE"))
             [] cur(p) = "LINKAGE" -> IF cur(q) = "(" THEN system ELSE With(Error(q), m)
             [] OTHER -> With(q, m)
  IN IF cur(r.p) = "," THEN EntryOptions(advance(r.p), r.m) ELSE With(expect(r.p, ")"), r.m)
Returns(p, m) ==
  LET q == advance(p)
      struct == IsWord(cur(q)) /\ peek(q, 1) = ")" /\ cur(q) \notin (ScalarWords \ {"REAL", "CONTROLLED"})
                                                              \cup {"ALIGNED", "UNALIGNED", "POINTER", "AREA", "OFFSET"}
      d == parseDescriptorType(q)
      bad == "STAR" \in d.t.is /\ "VARYING" \notin d.t.is
  IN IF cur(p) # "(" THEN With(Error(p), m)
     ELSE IF struct THEN With(expect(advance(q), ")"), Put(Add(m, "FUNCTION"), "RETURNS", Ref(cur(q))))
     ELSE With(expect(IF bad THEN Error(d.p) ELSE d.p, ")"),
               Put(Add(m, "FUNCTION"), "RETURNS", << IF bad THEN [Ty("CHAR") EXCEPT !.len = 1] ELSE d.t >>))
UsesSets(p, m, list) ==  \* names, level numbers and '*'
  LET e == parsePrimary(p)
      plain == e.n.k = "ref"
      r == CASE cur(p) = "*" -> With(advance(p), Put(m, list, Append(m.of[list], Node("star", << >>, << >>))))
             [] Number(p) -> With(advance(p), Put(m, list, Append(m.of[list], Node("level", << cur(p) >>, << >>))))
             [] plain -> With(e.p, Put(m, list, Append(m.of[list], e.n)))
             [] OTHER -> With(Error(e.p), m)
  IN IF cur(p) # "*" /\ ~Number(p) /\ ~IsWord(cur(p)) THEN With(expect(Error(p), ")"), m)
     ELSE IF cur(r.p) = "," THEN UsesSets(advance(r.p), r.m, list) ELSE With(expect(r.p, ")"), r.m)

WhenWords == {"FIXED", "FLOAT", "BINARY", "DECIMAL", "CHARACTER", "BIT", "POINTER", "COMPLEX", "ENTRY",
              "AREA", "OFFSET", "LABEL", "TASK", "EVENT"}
RECURSIVE WhenSet(_, _)
WhenSet(p, has) ==
  LET q == advance(p)
  IN IF cur(p) \notin WhenWords THEN [p |-> p, has |-> has]
     ELSE WhenSet(IF cur(q) = "(" THEN skipParen(q) ELSE q, has \cup {cur(p)})
WhenConflicts == {<< {"FIXED"}, {"FLOAT"} >>, << {"BINARY"}, {"DECIMAL"} >>, << {"CHARACTER"}, {"BIT"} >>,
                  << {"COMPLEX"}, {"CHARACTER", "BIT", "POINTER"} >>, << {"AREA"}, {"OFFSET"} >>,
                  << {"TASK"}, {"EVENT"} >>}
parseWhenType(p) ==      \* the class an argument must have; lengths and precisions match any
  LET w == WhenSet(p, {})
      t == CASE "CHARACTER" \in w.has -> "CHAR"
             [] "CHARACTER" \notin w.has /\ "BIT" \in w.has -> "BIT"
             [] w.has \cap {"CHARACTER", "BIT"} = {} /\ "FLOAT" \in w.has -> "FLOAT"
             [] w.has \cap {"CHARACTER", "BIT", "FLOAT"} = {} /\ w.has \cap {"FIXED", "BINARY", "DECIMAL"} # {} ->
                  IF "BINARY" \in w.has THEN "BIN" ELSE "DEC"
             [] OTHER -> LET rest == SelectSeq(<< "POINTER", "COMPLEX", "ENTRY", "AREA", "OFFSET", "LABEL", "TASK",
                                                  "EVENT" >>, LAMBDA x : x \in w.has)
                         IN IF rest = << >> THEN "" ELSE rest[1]
      ok == /\ w.has \ {"BINARY", "DECIMAL"} # {}
            /\ \A c \in WhenConflicts : w.has \cap c[1] = {} \/ w.has \cap c[2] = {}
  IN IF ok THEN [p |-> w.p, w |-> t, ok |-> TRUE] ELSE [p |-> Error(w.p), w |-> "", ok |-> FALSE]
GenericEntries(p, m) ==           \* GENERIC ( entry WHEN ( class ) {, ...} )
  LET q == advance(p)
      t == parseWhenType(advance(advance(q)))
      skipped == IF cur(t.p) = "(" THEN skipParen(t.p) ELSE advance(t.p)
      z == expect(IF t.ok THEN t.p ELSE eat(skipped, ")"), ")")
      all == Put(m, "GENERIC", Append(m.of["GENERIC"], Node("when", << cur(p), t.w >>, << >>)))
  IN CASE ~IsWord(cur(p)) -> With(expect(Error(p), ")"), m)
       [] IsWord(cur(p)) /\ cur(q) # "WHEN" -> With(expect(Error(q), ")"), m)
       [] IsWord(cur(p)) /\ cur(q) = "WHEN" /\ peek(q, 1) # "(" -> With(expect(Error(advance(q)), ")"), m)
       [] OTHER -> IF cur(z) = "," THEN GenericEntries(advance(z), all) ELSE With(expect(z, ")"), all)

-----------------------------------------------------------------------------
(* The other attributes of parseDeclTail's loop. *)

RECURSIVE Dots(_, _), DefinedSubs(_, _)
Dots(p, w) ==            \* the qualifiers of LIKE
  IF cur(p) # "." THEN [p |-> p, w |-> w]
  ELSE IF IsWord(peek(p, 1)) THEN Dots(advance(advance(p)), Append(w, peek(p, 1))) ELSE [p |-> Error(advance(p)), w |-> w]
DefinedSubs(p, s) ==     \* a base subscript: [m *] kSUB [+|- c], or an expression
  LET times == Number(p) /\ peek(p, 1) = "*" /\ peek(p, 2) \in Isubs
      q == IF times THEN [p EXCEPT !.i = @ + 2] ELSE p
      a == advance(q)
      off == cur(a) \in {"+", "-"}
      n == IF ~off THEN a ELSE IF peek(a, 1) \in DOMAIN Value THEN advance(advance(a)) ELSE Error(advance(a))
      words == << IF times THEN cur(p) ELSE "1", cur(q) >> \o
               IF off /\ peek(a, 1) \in DOMAIN Value THEN << cur(a), peek(a, 1) >> ELSE << >>
      e == parseExpr(p, 0)
      r == IF cur(q) \in Isubs THEN Got(n, Node("isub", words, << >>))
           ELSE IF e.n = None THEN Lost(advance(Error(e.p))) ELSE e
  IN IF cur(r.p) = "," THEN DefinedSubs(advance(r.p), Append(s, r.n)) ELSE [p |-> r.p, s |-> Append(s, r.n)]
Defined(p, m) ==
  LET base == IF IsWord(cur(p)) THEN With(advance(p), Put(m, "DEFINED", Ref(cur(p)))) ELSE With(Error(p), m)
      subs == IF cur(base.p) # "(" THEN [p |-> base.p, s |-> << >>]
              ELSE LET q == advance(base.p)
                       r == IF cur(q) = ")" THEN [p |-> q, s |-> << >>] ELSE DefinedSubs(q, << >>)
                   IN [r EXCEPT !.p = expect(@, ")")]
      d == Put(base.m, "DEFINED", base.m.of["DEFINED"] \o subs.s)
      q == advance(subs.p)
      pos(r, n) == With(r, Put(d, "POSITION", << Node("number", << n >>, << >>) >>))
  IN IF cur(subs.p) # "POSITION" THEN With(subs.p, d)
     ELSE IF cur(q) # "(" THEN pos(Error(q), "1")
     ELSE IF Number(advance(q)) THEN pos(expect(advance(advance(q)), ")"), peek(q, 1))
     ELSE pos(expect(advance(Error(advance(q))), ")"), "1")

Flags == {"OPTIONAL", "VARIABLE", "ALIGNED", "UNALIGNED", "STATIC", "AUTOMATIC", "INTERNAL", "POINTER", "FILE",
          "TASK", "EVENT", "COMPLEX", "IMAGINARY", "CONDITION", "LABEL", "RESERVED", "UNION", "NONPRINT", "NORMAL", "INT"}
AttrWords == ScalarWords \cup Flags \cup (Operands \ {"CALL", "POSITION"})
             \cup {"OPTIONS", "IRREDUCIBLE", "ENVIRONMENT", "BUILTIN"}
Attribute(p, m) ==
  LET w == cur(p)
      q == advance(p)
      named(r) ==        \* ( word )
        IF IsWord(cur(r)) THEN With(expect(advance(r), ")"), Put(m, w, Ref(cur(r)))) ELSE With(expect(Error(r), ")"), m)
      like == Dots(advance(q), << cur(q) >>)
      area == parseExprOrPlaceholder(advance(q))
      entry == parseEntryParams(advance(q), m.of["ENTRY"])
  IN CASE w \in ScalarWords -> parseScalarAttr(p, m)
       [] w = "INITIAL" -> Initial(p, m)
       [] w = "VALUE" -> ValueAttr(p, m)
       [] w = "TYPE" -> IF IsWord(cur(q)) THEN With(advance(q), Put(m, "TYPE", Ref(cur(q)))) ELSE With(Error(q), m)
       [] w \in {"AUTOMATIC", "INTERNAL", "INT"} -> With(q, m)
       [] w \in Flags \ {"AUTOMATIC", "INTERNAL", "INT"} -> With(q, Add(m, w))
       [] w = "EXTERNAL" -> IF cur(q) = "(" /\ peek(q, 1) = "'c'"
                            THEN With(eat([q EXCEPT !.i = @ + 2], ")"), Put(Add(m, w), w, Flag("'c'"))) ELSE With(q, Add(m, w))
       [] w = "OPTIONS" -> IF cur(q) = "(" THEN EntryOptions(advance(q), m) ELSE With(Error(q), m)
       [] w = "ENTRY" -> IF cur(q) = "(" THEN With(entry.p, Put(Add(m, w), w, entry.s)) ELSE With(q, Add(m, w))
       [] w = "RETURNS" -> Returns(q, m)
       [] w \in {"USES", "SETS"} -> IF cur(q) = "(" THEN UsesSets(advance(q), m, w) ELSE With(Error(q), m)
       [] w = "ABNORMAL" -> IF cur(q) = "(" THEN named(advance(q)) ELSE With(Error(q), m)
       [] w \in {"REDUCIBLE", "IRREDUCIBLE"} -> With(q, Put(m, "REDUCIBLE", Flag(w)))
       [] w = "LIKE" -> IF IsWord(cur(q)) THEN With(like.p, Put(m, w, << Node("ref", like.w, << >>) >>)) ELSE With(Error(q), m)
       [] w = "DEFINED" -> Defined(q, m)
       [] w = "ENVIRONMENT" -> With(IF cur(q) = "(" THEN skipParen(q) ELSE q, Add(m, "FILE"))
       [] w = "BASED" -> IF cur(q) = "(" THEN named(advance(q)) ELSE With(q, Add(m, "BASED"))
       [] w = "AREA" -> IF cur(q) # "(" THEN With(q, Add(m, w))
                        ELSE IF peek(q, 1) = "*" THEN With(expect(advance(advance(q)), ")"), Add(Add(m, w), "AREASTAR"))
                        ELSE With(expect(area.p, ")"), Put(Add(m, w), w, << area.n >>))
       [] w = "OFFSET" -> IF cur(q) # "(" THEN With(q, Add(m, w))
                          ELSE LET r == named(advance(q)) IN [r EXCEPT !.m.has = @ \cup {w}]
       [] w = "PICTURE" -> IF cur(q) # "(" THEN With(Error(q), m)
                           ELSE IF peek(q, 1) = "'c'"
                           THEN With(expect(advance(advance(q)), ")"), Put(Add(m, w), w, Flag("'c'")))
                           ELSE With(expect(Error(advance(q)), ")"), m)
       [] w = "GENERIC" -> IF cur(q) = "(" THEN GenericEntries(advance(q), m) ELSE With(Error(q), m)
       [] w = "BUILTIN" -> With(IF cur(q) = "(" THEN skipParen(Error(q)) ELSE Error(q), m)

BareGroup(p, m) ==       \* ( n [, q] ): a length after CHARACTER or BIT, else a precision
  LET a == advance(p)
      b == IF Number(a) THEN advance(a) ELSE a
      c == IF cur(b) = "," THEN advance(b) ELSE b
      scaled == cur(b) = "," /\ Number(c)
      z == expect(IF scaled THEN advance(c) ELSE c, ")")
      n == IF Number(a) THEN Value[cur(a)] ELSE -1
  IN CASE m.has \cap {"CHARACTER", "BIT"} # {} -> With(z, IF n > 0 THEN [m EXCEPT !.slen = n] ELSE m)
       [] m.has \cap {"CHARACTER", "BIT"} = {} /\ n > 0 ->
            With(z, [m EXCEPT !.prec = n, !.scale = IF scaled THEN Value[cur(c)] ELSE 0])
       [] OTHER -> With(Error(z), m)
RECURSIVE AttrLoop(_)
AttrLoop(r) ==
  IF cur(r.p) = "(" THEN AttrLoop(BareGroup(r.p, r.m))
  ELSE IF cur(r.p) \in AttrWords THEN AttrLoop(Attribute(r.p, r.m)) ELSE r

-----------------------------------------------------------------------------
(* The dimension after a name, the conflicts and the type. *)

foldBound(n) == CASE n.k = "number" -> Const(Value[n.w[1]])
                  [] n.k = "unary" /\ n.w = << "-" >> /\ n.s[1].k = "number" -> Const(-Value[n.s[1].w[1]])
                  [] OTHER -> Dyn
dimBoundFits(b) == b.k # "const" \/ b.v \in -kMaxBound..kMaxBound
DimWords == AttrWords \ {"CONDITION", "RESERVED", "NONPRINT", "NORMAL", "IMAGINARY", "USES", "SETS", "ABNORMAL",
                         "RETURNS", "GENERIC", "REDUCIBLE", "IRREDUCIBLE", "OPTIONS", "ENVIRONMENT", "BUILTIN", "INT"}
RECURSIVE Axes(_, _, _)
Axes(p, axes, colon) ==  \* bounds up to the one no comma follows
  LET a == parseExpr(p, 0)
      b == parseExpr(advance(a.p), 0)
      pair == cur(a.p) = ":"
      lb == IF pair THEN foldBound(a.n) ELSE Const(1)
      ub == IF pair THEN foldBound(b.n) ELSE foldBound(a.n)
      lost(q) == [p |-> q, s |-> axes, colon |-> colon, ok |-> FALSE]
      next(q, d, c) == IF cur(q) = "," THEN Axes(advance(q), Append(axes, d), c)
                       ELSE [p |-> q, s |-> Append(axes, d), colon |-> c, ok |-> TRUE]
  IN CASE cur(p) = "*" -> next(advance(p), Star[1], colon)
       [] cur(p) # "*" /\ a.n = None -> lost(a.p)
       [] cur(p) # "*" /\ a.n # None /\ ~dimBoundFits(foldBound(a.n)) -> lost(Error(a.p))
       [] pair /\ b.n = None -> lost(b.p)
       [] pair /\ ~dimBoundFits(ub) -> lost(Error(b.p))
       [] OTHER -> next(IF pair THEN b.p ELSE a.p, Dim(lb, ub), colon \/ pair)
tryParseDimension(p) ==  \* else the group is left to be read as a precision
  LET r == Axes(advance(p), << >>, FALSE)
      q == expect(r.p, ")")
  IN IF cur(p) # "(" THEN [p |-> p, s |-> << >>]
     ELSE IF r.ok /\ (r.colon \/ cur(q) \in DimWords \cup {","}) THEN [p |-> q, s |-> r.s]
     ELSE [p |-> [p EXCEPT !.err = IF r.ok THEN q.err ELSE r.p.err], s |-> << >>]

Arith == {"FIXED", "FLOAT", "BINARY", "DECIMAL"}
Str == {"CHARACTER", "BIT"}
Conflicts ==
  {<< {"TYPE"}, Arith \cup Str \cup {"VARYING", "POINTER", "COMPLEX", "FILE", "TASK", "EVENT", "AREA", "OFFSET"} >>,
   << {"FIXED"}, {"FLOAT"} >>, << {"BINARY"}, {"DECIMAL"} >>, << {"CHARACTER"}, {"BIT"} >>, << Str, Arith >>,
   << {"PICTURE"}, Arith \cup Str \cup {"POINTER", "COMPLEX", "FILE", "TASK", "EVENT", "AREA", "OFFSET", "VARYING"} >>,
   << {"PICTURE"}, {"LIKE", "TYPE"} >>, << {"POINTER"}, Str \cup Arith >>, << {"FILE"}, Str \cup Arith \cup {"POINTER"} >>,
   << {"COMPLEX"}, Str \cup {"POINTER", "FILE"} >>, << {"IMAGINARY"}, Str \cup {"POINTER", "FILE"} >>,
   << {"COMPLEX"}, {"IMAGINARY"} >>, << {"TASK"}, {"EVENT"} >>, << {"ALIGNED"}, {"UNALIGNED"} >>, << {"AREA"}, {"OFFSET"} >>,
   << {"TASK", "EVENT"}, Str \cup Arith \cup {"POINTER", "COMPLEX", "FILE", "VARYING"} >>,
   << {"AREA", "OFFSET"}, Str \cup Arith \cup {"POINTER", "COMPLEX", "FILE", "VARYING", "TASK", "EVENT"} >>}
ConflictsOf(m) ==        \* how many are reported
  LET facts == m.has \cup {o \in {"TYPE", "LIKE"} : m.of[o] # << >>}
  IN Cardinality({c \in Conflicts : facts \cap c[1] # {} /\ facts \cap c[2] # {}})
     + (IF "VARYING" \in facts /\ facts \cap Str = {} THEN 1 ELSE 0)
     + (IF "VARYINGZ" \in facts /\ "CHARACTER" \notin facts THEN 1 ELSE 0)
TypeOf(m) ==             \* the first class that was named, FIXED DECIMAL if none was
  LET named == SelectSeq(<< "TASK", "EVENT", "LABEL", "FILE", "AREA", "OFFSET", "POINTER", "COMPLEX", "IMAGINARY" >>,
                         LAMBDA w : w \in m.has)
      base == IF "FLOAT" \notin m.has /\ "DECIMAL" \in m.has THEN [m EXCEPT !.has = @ \ {"BINARY"}] ELSE m
  IN IF named # << >> THEN Ty(named[1]) ELSE Computational(base)
parseDeclTail(p, m) ==
  LET d == tryParseDimension(p)
      r == AttrLoop(With(d.p, m))
      ty == [TypeOf(r.m) EXCEPT !.dims = d.s]
      errs == ConflictsOf(r.m) + (IF ty.k = "BIT" /\ "STAR" \in r.m.has THEN 1 ELSE 0)
                               + (IF ty.k = "BIT" /\ ty.len > 1 /\ d.s # << >> THEN 1 ELSE 0)
      bagOnly == Arith \cup Str \cup {"VARYING", "VARYINGZ", "STAR", "POINTER", "TASK", "EVENT", "COMPLEX", "PICTURE"}
  IN With([r.p EXCEPT !.err = @ + errs],
          [r.m EXCEPT !.ty = ty, !.has = @ \ bagOnly, !.prec = 0, !.scale = 0, !.slen = 0])

-----------------------------------------------------------------------------
(* Declaration items. *)

parseDeclItem(p) ==
  LET q == IF ~Number(p) THEN p
           ELSE IF Value[cur(p)] > kMaxStructureLevel THEN advance(Error(p)) ELSE advance(p)
      level == IF ~Number(p) \/ Value[cur(p)] > kMaxStructureLevel THEN 0 ELSE Value[cur(p)]
  IN IF IsWord(cur(q)) THEN parseDeclTail(advance(q), [Item(cur(q)) EXCEPT !.level = level])
     ELSE With(Error(q), Item(""))
RECURSIVE FactoredNames(_, _), parseDeclare(_, _), NextDecl(_, _)
FactoredNames(p, out) ==
  IF ~IsWord(cur(p)) THEN [p |-> Error(p), w |-> out]
  ELSE IF peek(p, 1) = "," THEN FactoredNames(advance(advance(p)), Append(out, cur(p)))
  ELSE [p |-> advance(p), w |-> Append(out, cur(p))]
Copies(names, b) ==      \* the tail copied for each name
  LET copy == [b.m EXCEPT !.has = @ \cap {"CONTROLLED", "FILE", "NONPRINT", "ENTRY", "BYVALUE"},
                 !.of = [o \in Operands |-> IF o \in {"EXTERNAL", "ENTRY", "LIKE", "PICTURE", "GENERIC"} THEN @[o]
                                           ELSE << >>]]
      dynamic == \E k \in DOMAIN b.m.ty.dims : "expr" \in {b.m.ty.dims[k].ub.k}
      one == Len(b.m.of["INITIAL"]) = 1 /\ b.m.of["INITIAL"][1].k \notin {"repeat", "iter", "group", "none"}
      errs == Cardinality({r \in {<< "init", one >>, << "call", b.m.of["CALL"] # << >> >>, << "dyn", dynamic >>} : r[2]})
  IN [p |-> [b.p EXCEPT !.err = @ + errs], s |-> [k \in DOMAIN names |-> [copy EXCEPT !.n = names[k]]], ok |-> TRUE]
Factored(p) ==           \* ( A, B ) tail: the tail is read once
  LET n == FactoredNames(advance(p), << >>)
      q == expect(n.p, ")")
  IN Copies(n.w, parseDeclTail(IF n.w = << >> THEN Error(q) ELSE q, Item("")))
Single(i) == [p |-> i.p, s |-> << i.m >>, ok |-> i.m.n # ""]
NextDecl(r, out) ==
  IF ~r.ok THEN [p |-> resync(r.p), s |-> out]
  ELSE IF cur(r.p) = "," THEN parseDeclare(advance(r.p), out \o r.s) ELSE [p |-> expect(r.p, ";"), s |-> out \o r.s]
parseDeclare(p, out) ==
  NextDecl(IF cur(p) = "(" THEN Factored(p) ELSE Single(parseDeclItem(p)), out)
Alias(i) ==
  LET m == i.m
      refused == \/ m.of["TYPE"] # << >> \/ m.ty.dims # << >> \/ m.level # 0
                 \/ \E o \in {"INITIAL", "CALL", "VALUE", "LIKE", "DEFINED", "BASED", "ENTRY"} : m.of[o] # << >>
                 \/ m.has \cap {"BASED", "ENTRY", "FILE"} # {}
      lost(q) == [p |-> resync(q), s |-> << >>]
  IN IF m.n = "" THEN lost(i.p)
     ELSE IF refused \/ cur(i.p) # ";" THEN lost(Error(i.p))
     ELSE [p |-> advance(i.p), s |-> << m >>]
parseDefineAlias(p) ==   \* after DEFINE
  IF cur(p) = "ALIAS" THEN Alias(parseDeclItem(advance(p))) ELSE [p |-> resync(Error(p)), s |-> << >>]

-----------------------------------------------------------------------------
(* A declaration is written as a dimension and attributes; it is read as   *)
(* it stands, with its attributes in a fixed order, for two names apart *)
(* and factored, and its attributes as an ENTRY parameter.                 *)

Outcome(r) == [err |-> r.p.err, items |-> r.s, end |-> r.p.i]
Read(t) == Outcome(parseDeclare(Start(t \o << ";" >>), << >>))
Tail0(w) == w.dim \o FlattenSeq(w.attrs)
Ordered(w) == [w EXCEPT !.attrs = SetToSeq({w.attrs[k] : k \in DOMAIN w.attrs})]
Readings(w) ==
  [done |-> TRUE, as |-> Read(<< "V" >> \o Tail0(w)), ordered |-> Read(<< "V" >> \o Tail0(Ordered(w))),
   apart |-> Read(<< "V" >> \o Tail0(w) \o << ",", "Q" >> \o Tail0(w)),
   factored |-> Read(<< "(", "V", ",", "Q", ")" >> \o Tail0(w)),
   param |-> Read(<< "V", "ENTRY", "(" >> \o FlattenSeq(w.attrs) \o << ")" >>),
   alias |-> Outcome(parseDefineAlias(Start(<< "ALIAS", "V" >> \o Tail0(w) \o << ";" >>)))]

Unread == [done |-> FALSE]
Init == written \in Written /\ declared = Unread
Declare == ~declared.done /\ declared' = Reading(written) /\ UNCHANGED written
Next == Declare

WordsOf(w) == {w.attrs[k][1] : k \in DOMAIN w.attrs}
(* The attributes of a declaration may come in any order: the item, its    *)
(* type, dimension and diagnostics are the same; the attribute list is a   *)
(* bag (rules (14)-(32)).  Scalar attributes make the same type for an     *)
(* ENTRY parameter and for an alias as for a variable.                     *)
DeclareExact ==
  declared.done =>
    /\ declared.as = declared.ordered
    /\ WordsOf(written) \subseteq ScalarWords /\ written.dim = << >> /\ declared.as.err = 0
         => /\ declared.alias.err = 0 /\ declared.alias.items[1].ty = declared.as.items[1].ty
            /\ declared.param.err = 0
            /\ [declared.param.items[1].of["ENTRY"][1] EXCEPT !.is = @ \ {"CONTROLLED"}] = declared.as.items[1].ty

(* Every name in the parenthesised list of a factored declaration shares   *)
(* the dimension and attribute tail: the items are those of the names      *)
(* declared one by one.                                                    *)
FactoredShares == declared.done /\ declared.factored.err = 0 => declared.factored.items = declared.apart.items

=============================================================================
