------------------------------- MODULE Parser -------------------------------
(***************************************************************************)
(* The parser (src/src/parser.cpp): a token string to the tree of the      *)
(* program.  Tokens are strings; a node is a record of its kind, the words *)
(* it keeps, its subtrees, the labels and the condition prefix of a        *)
(* statement.  The parser's members are one record p: the tokens and the   *)
(* position, the count of diagnostics, pendingEnd_, endClauseLabels_, the  *)
(* hoisted procedures, procCond_ and procStrRange_ (one condition of each  *)
(* kind: SIZE is on by default, STRINGRANGE is opt-in), and the two depth  *)
(* counters.  The text of a declaration is in Declarations.                *)
(***************************************************************************)
EXTENDS Naturals, Integers, Sequences, FiniteSets, SequencesExt

CONSTANTS Names,            \* identifiers that spell no keyword
          kMaxBlockDepth, kMaxExprDepth, kMaxReplicatedChars

stmtKeywordSpelling == {"DECLARE", "IF", "DO", "BEGIN", "PUT", "CALL", "RETURN", "STOP", "GET",
  "GO", "GOTO", "ON", "SIGNAL", "REVERT", "ALLOCATE", "FREE", "OPEN", "CLOSE", "READ", "WRITE",
  "REWRITE", "DELETE", "WAIT", "DELAY"}
Keywords == stmtKeywordSpelling \cup {"END", "PROC", "PACKAGE", "ENTRY", "SELECT", "WHEN",
  "OTHERWISE", "LEAVE", "ITERATE", "FORMAT", "DISPLAY", "DEFINE", "THEN", "ELSE", "WHILE", "UNTIL",
  "FOREVER", "TO", "BY", "NAME", "SKIP", "PAGE", "LIST", "FILE", "EDIT", "DATA", "STRING", "LINE",
  "COPY", "REPLY", "TASK", "EVENT", "PRIORITY", "SET", "IN", "CHAR", "VARYING", "BIT", "INTO",
  "FROM", "KEY", "KEYTO", "KEYFROM", "NOLOCK", "LOCATE", "TITLE", "INPUT", "OUTPUT", "UPDATE",
  "STREAM", "RECORD", "KEYED", "DIRECT", "IDENT", "LINESIZE", "PAGESIZE", "ENVIRONMENT", "SYSTEM",
  "SNAP", "ONCODE", "ERROR", "SIZE", "NOSIZE", "STRINGRANGE", "NOSTRINGRANGE", "CHECK", "NOCHECK",
  "ALL", "CONDITION", "ENDFILE", "ENDPAGE", "OPTIONS", "MAIN", "RECURSIVE", "RETURNS", "EXPORTS",
  "FIXED", "NOT", "A", "F", "X", "R", "P", "C", "COL", "CONSTANT", "ALIAS",
  "FLOAT", "BINARY", "DECIMAL", "CHARACTER", "VARYINGZ", "REAL", "CONTROLLED", "OPTIONAL", "VARIABLE",
  "ALIGNED", "UNALIGNED", "STATIC", "AUTOMATIC", "INTERNAL", "INT", "POINTER", "COMPLEX", "IMAGINARY",
  "LABEL", "RESERVED", "UNION", "NONPRINT", "NORMAL", "BASED", "DEFINED", "POSITION", "LIKE", "TYPE",
  "EXTERNAL", "OFFSET", "AREA", "INITIAL", "VALUE", "USES", "SETS", "ABNORMAL", "GENERIC", "REDUCIBLE",
  "IRREDUCIBLE", "PICTURE", "BUILTIN", "BYVALUE", "LINKAGE"}
Word48 == [OR |-> "|", AND |-> "&", CAT |-> "||", GT |-> ">", LT |-> "<", GE |-> ">=", LE |-> "<=",
           NE |-> "^=", NG |-> "^>", NL |-> "^<"]
Words == Names \cup Keywords \cup DOMAIN Word48
Value == [n \in {"0", "1", "2", "3"} |-> CHOOSE v \in 0..3 : n = <<"0", "1", "2", "3">>[v + 1]]
Literals == {"'c'", "'b'B", "'x'X"}

NoEnd == [on |-> FALSE, label |-> "", labels |-> << >>]
NoPrefix == [size |-> "", range |-> 0]
Node(k, w, s) == [k |-> k, w |-> w, s |-> s, l |-> << >>, f |-> NoPrefix]
None == Node("none", << >>, << >>)
Start(t) == [t |-> t, i |-> 1, err |-> 0, pend |-> NoEnd, endl |-> << >>, procs |-> << >>,
             cond |-> 0, range |-> 0, deep |-> 0, ex |-> 0]

(* The token cursor. *)
peek(p, n) == IF p.i + n <= Len(p.t) THEN p.t[p.i + n] ELSE "EOF"
cur(p) == peek(p, 0)
advance(p) == IF p.i <= Len(p.t) THEN [p EXCEPT !.i = @ + 1] ELSE p
Error(p) == [p EXCEPT !.err = @ + 1]
IsWord(t) == t \in Words
eat(p, x) == IF cur(p) = x THEN advance(p) ELSE p
expect(p, x) == IF cur(p) = x THEN advance(p) ELSE Error(p)
Got(p, n) == [p |-> p, n |-> n]
Lost(p) == Got(p, None)
RECURSIVE resync(_)
resync(p) == IF cur(p) \in {"EOF", ";"} THEN eat(p, ";") ELSE resync(advance(p))
Reject(p) == Lost(resync(Error(p)))
Close(r, x) == [r EXCEPT !.p = expect(@, x)]
(* A statement's closing ';'. *)
Done(p, n) == Got(expect(p, ";"), n)

-----------------------------------------------------------------------------
(* Expressions, rules (115)-(129). *)

Prec == [o \in {"|", "&", "=", "<", ">", "<=", ">=", "^=", "^>", "^<", "||", "+", "-", "*", "/"} |->
           CASE o = "|" -> 1 [] o = "&" -> 2 [] o = "||" -> 4
             [] o \in {"+", "-"} -> 5 [] o \in {"*", "/"} -> 6 [] OTHER -> 3]
infixOp(t) == IF t \in DOMAIN Word48 THEN Word48[t] ELSE t
precOf(op) == IF op \in DOMAIN Prec THEN Prec[op] ELSE 0

RECURSIVE parseExpr(_, _), Infix(_, _), parseUnary(_), parseBasic(_), Members(_, _), Args(_, _),
          Located(_)
parsePrimary(p) ==
  CASE cur(p) = "(" /\ peek(p, 1) \in DOMAIN Value /\ peek(p, 2) = ")" /\ peek(p, 3) \in Literals ->
         LET n == Value[peek(p, 1)]
             q == [p EXCEPT !.i = @ + 4]
         IN IF n > kMaxReplicatedChars THEN Got(Error(q), Node("literal", << >>, << >>))
            ELSE Got(q, Node("literal", [k \in 1..n |-> peek(p, 3)], << >>))
    [] cur(p) = "(" -> Close(parseExpr(advance(p), 0), ")")
    [] cur(p) \in DOMAIN Value -> Got(advance(p), Node("number", << cur(p) >>, << >>))
    [] cur(p) \in Literals -> Got(advance(p), Node("literal", << cur(p) >>, << >>))
    [] IsWord(cur(p)) -> Located(parseBasic(p))
    [] OTHER -> Lost(Error(p))

Members(p, path) ==      \* the .WORD qualifiers
  IF cur(p) # "." THEN [p |-> p, w |-> path]
  ELSE IF IsWord(peek(p, 1)) THEN Members(advance(advance(p)), Append(path, peek(p, 1)))
  ELSE [p |-> Error(advance(p)), w |-> path]

Args(p, args) ==         \* arguments or subscripts, up to the one no comma follows
  LET r == IF cur(p) = "*" THEN Got(advance(p), Node("star", << >>, << >>)) ELSE parseExpr(p, 0)
      all == Append(args, r.n)
  IN IF cur(r.p) = "," THEN Args(advance(r.p), all) ELSE [p |-> r.p, s |-> all]

parseBasic(p) ==
  LET m == Members(advance(p), << cur(p) >>)
      none == [p |-> m.p, s |-> << >>]
      a == IF cur(m.p) # "(" THEN none
           ELSE LET q == advance(m.p)
                    r == IF cur(q) = ")" THEN [none EXCEPT !.p = q] ELSE Args(q, << >>)
                IN [r EXCEPT !.p = expect(@, ")")]
      z == Members(a.p, m.w)
  IN Got(z.p, Node(IF cur(m.p) = "(" THEN "call" ELSE "ref", z.w, a.s))

Located(r) ==            \* [reference ->] basic-reference, chained to the left
  IF cur(r.p) # "->" THEN r
  ELSE IF ~IsWord(peek(r.p, 1)) THEN [r EXCEPT !.p = Error(advance(@))]
  ELSE LET b == parseBasic(advance(r.p))
       IN Located(Got(b.p, Node("at", << >>, << r.n, b.n >>)))

parsePower(p) ==
  LET b == parsePrimary(p)
      e == parseUnary(advance(b.p))
  IN IF b.n = None \/ cur(b.p) # "**" THEN b
     ELSE IF e.n = None THEN e ELSE Got(e.p, Node("binary", << "**" >>, << b.n, e.n >>))

parseUnary(p) ==
  LET not == cur(p) = "NOT" /\ (IsWord(peek(p, 1)) \/ peek(p, 1) \in DOMAIN Value \cup {"("} \cup
                                  (Literals \ {"'x'X"}))
      r == parseUnary([advance(p) EXCEPT !.ex = @ + 1])
      inner == IF ~(not \/ cur(p) \in {"+", "-", "^"}) THEN parsePower([p EXCEPT !.ex = @ + 1])
               ELSE IF r.n = None \/ cur(p) = "+" THEN r
               ELSE Got(r.p, Node("unary", << IF not THEN "^" ELSE cur(p) >>, << r.n >>))
  IN IF p.ex >= kMaxExprDepth THEN Lost(Error(p)) ELSE [inner EXCEPT !.p.ex = p.ex]

Infix(r, min) ==         \* the operator loop, its left operand in r
  LET op == infixOp(cur(r.p))
      q == parseExpr(advance(r.p), precOf(op) + 1)
  IN IF r.n = None \/ precOf(op) = 0 \/ precOf(op) < min THEN r
     ELSE IF q.n = None THEN q
     ELSE Infix(Got(q.p, Node("binary", << op >>, << r.n, q.n >>)), min)

parseExpr(p, min) ==
  IF p.ex >= kMaxExprDepth THEN Lost(Error(p))
  ELSE LET r == Infix(parseUnary([p EXCEPT !.ex = @ + 1]), min) IN [r EXCEPT !.p.ex = p.ex]

parseExprOrPlaceholder(p) ==
  LET r == parseExpr(p, 0) IN IF r.n = None THEN Got(r.p, Node("number", << "0" >>, << >>)) ELSE r

ParenExpr(p) == Close(parseExpr(expect(p, "("), 0), ")")

-----------------------------------------------------------------------------
(* Statements made of options.  A table gives each option word the shape of *)
(* its operand; acc holds what each option has collected, the last operand *)
(* of an option replacing the one before, lists growing.                   *)

ListOf(p) ==             \* ( [expr {, expr}] )
  IF cur(p) # "(" THEN [p |-> Error(p), s |-> << >>]
  ELSE LET r == IF peek(p, 1) = ")" THEN [p |-> advance(p), s |-> << >>] ELSE Args(advance(p), << >>)
       IN [r EXCEPT !.p = expect(@, ")")]

FormatWords == {"A", "F", "X", "SKIP", "PAGE", "LINE", "COL", "R", "P", "C"}
RECURSIVE parseFormatItem(_, _), FormatList(_, _), Parts(_, _)
Parts(p, n) ==           \* the real formats of a C item
  LET r == parseFormatItem(p, << >>)
      all == [n EXCEPT !.s = @ \o r.s]
  IN IF ~r.ok \/ cur(p) \notin {"F", "P"} THEN [r EXCEPT !.ok = FALSE]
     ELSE IF cur(r.p) = "," /\ Len(all.s) < 2 THEN Parts(advance(r.p), all)
     ELSE [p |-> expect(eat(r.p, ","), ")"), s |-> << all >>, ok |-> TRUE]

parseSingleFormatItem(p, out) ==
  LET w == cur(p)
      q == advance(p)
      item(r, s) == [p |-> r, s |-> Append(out, Node("format", << w >>, s)), ok |-> TRUE]
      bad(r) == [p |-> Error(r), s |-> out, ok |-> FALSE]
      e == parseExpr(advance(q), 0)
      d == IF w = "F" /\ cur(e.p) = "," THEN Args(advance(e.p), << e.n >>) ELSE [p |-> e.p, s |-> << e.n >>]
      c == Parts(advance(q), Node("format", << "C" >>, << >>))
  IN CASE w \notin FormatWords -> bad(p)
       [] w = "P" -> IF cur(q) # "(" THEN item(Error(q), << >>)
                     ELSE IF peek(q, 1) = "'c'" THEN item(expect(advance(advance(q)), ")"), << >>)
                     ELSE item(expect(Error(advance(q)), ")"), << >>)
       [] w = "R" -> IF cur(q) # "(" THEN bad(q)
                     ELSE IF ~IsWord(peek(q, 1)) THEN bad(advance(q))
                     ELSE item(expect(advance(advance(q)), ")"), << Node("ref", << peek(q, 1) >>, << >>) >>)
       [] w = "C" -> IF cur(q) # "(" THEN bad(q) ELSE [c EXCEPT !.s = out \o @]
       [] OTHER -> IF cur(q) = "(" THEN item(expect(d.p, ")"), d.s)
                   ELSE IF w = "COL" THEN bad(q) ELSE item(q, << >>)

FormatList(p, out) ==    \* items up to the one no comma follows
  LET r == parseFormatItem(p, out)
  IN IF r.ok /\ cur(r.p) = "," THEN FormatList(advance(r.p), r.s) ELSE r

parseFormatItem(p, out) ==
  LET count == parseExpr(advance(p), 0)
      open == expect(count.p, ")")
      g == IF peek(open, 1) = ")" THEN [p |-> advance(open), s |-> << >>, ok |-> TRUE]
           ELSE FormatList(advance(open), << >>)
      n == Value[count.n.w[1]]
      q == expect(g.p, ")")
      unrolled == FoldLeft(LAMBDA a, k : a \o g.s, << >>, [k \in 1..n |-> k])
      bad(r) == [p |-> r, s |-> out, ok |-> FALSE]
  IN CASE cur(p) # "(" -> parseSingleFormatItem(p, out)
       [] cur(count.p) # ")" -> bad(open)
       [] cur(open) # "(" -> bad(Error(open))
       [] ~g.ok -> bad(g.p)
       [] cur(g.p) # ")" -> bad(q)
       [] OTHER -> [p |-> q, ok |-> TRUE,
                    s |-> out \o IF count.n.k = "number" THEN unrolled
                                 ELSE << Node("repeat", << >>, << count.n >> \o g.s) >>]

Formats(p) ==            \* ( [format {, format}] )
  IF cur(p) # "(" THEN [p |-> Error(p), s |-> << >>, ok |-> FALSE]
  ELSE IF peek(p, 1) = ")" THEN [p |-> advance(advance(p)), s |-> << >>, ok |-> TRUE]
  ELSE LET r == FormatList(advance(p), << >>) IN IF r.ok THEN [r EXCEPT !.p = expect(@, ")")] ELSE r

RECURSIVE parseEditClause(_, _)
parseEditClause(p, acc) ==
  LET d == ListOf(p)
      f == Formats(d.p)
      all == [acc EXCEPT !.LIST = @ \o d.s, !.EDIT = @ \o f.s]
  IN IF cur(p) # "(" \/ ~f.ok THEN [p |-> IF cur(p) # "(" THEN d.p ELSE f.p, acc |-> acc, ok |-> FALSE]
     ELSE IF cur(f.p) = "," THEN parseEditClause(advance(f.p), all)
     ELSE [p |-> f.p, acc |-> all, ok |-> TRUE]

Flag(o) == << Node("flag", << o >>, << >>) >>
Ref(w) == << Node("ref", << w >>, << >>) >>
RECURSIVE Balanced(_, _, _)
Balanced(t, k, depth) == \* past the ')' that closes the group at k, or the end of the tokens
  IF k > Len(t) THEN k
  ELSE IF t[k] = ")" /\ depth = 1 THEN k + 1
  ELSE Balanced(t, k + 1, depth + (IF t[k] = "(" THEN 1 ELSE IF t[k] = ")" THEN -1 ELSE 0))
skipParen(p) == [p EXCEPT !.i = Balanced(p.t, p.i, 0)]

RECURSIVE Options(_, _, _, _), OptionsFrom(_, _, _)
Option(p, table, acc) ==
  LET o == cur(p)
      q == advance(p)
      e == parseExpr(advance(q), 0)
      with(r, s) == [p |-> r, acc |-> [acc EXCEPT ![o] = s], ok |-> TRUE]
      fatal(r) == [p |-> r, acc |-> acc, ok |-> FALSE]
      kept == IF acc[o] = << >> THEN Flag(o) ELSE acc[o]
      l == ListOf(q)
      prim == parsePrimary(advance(q))
      named == IF IsWord(peek(q, 1)) THEN with(expect(advance(advance(q)), ")"), Ref(peek(q, 1)))
               ELSE with(expect(Error(advance(q)), ")"), kept)
  IN CASE table[o] = "flag" -> with(q, Flag(o))
       [] table[o] = "opt" -> IF cur(q) # "(" THEN with(q, kept) ELSE with(expect(e.p, ")"), << e.n >>)
       [] table[o] = "arg" -> IF cur(q) # "(" THEN fatal(Error(q)) ELSE with(expect(e.p, ")"), << e.n >>)
       [] table[o] = "list" -> [p |-> l.p, ok |-> TRUE,
                                acc |-> IF o = "LIST" THEN [acc EXCEPT !.LIST = @ \o l.s]
                                        ELSE [acc EXCEPT !.LIST = @ \o l.s, ![o] = Flag(o)]]
       [] table[o] = "name" -> IF cur(q) # "(" THEN with(q, kept) ELSE named
       [] table[o] = "file" -> IF cur(q) # "(" THEN with(Error(q), kept) ELSE named
       [] table[o] = "title" -> IF cur(q) # "(" THEN with(q, acc[o])
                                ELSE IF peek(q, 1) = "'c'" THEN with(expect(advance(advance(q)), ")"), Flag(o))
                                ELSE with(expect(Error(advance(q)), ")"), acc[o])
       [] table[o] = "prim" -> IF cur(q) # "(" THEN with(Error(q), acc[o])
                               ELSE with(expect(prim.p, ")"), << prim.n >>)
       [] table[o] = "edit" -> parseEditClause(q, acc)
       [] table[o] = "refused" -> fatal(Error(p))
       [] table[o] = "noted" -> with(Error(q), acc[o])
       [] table[o] = "skipped" -> with(IF cur(q) = "(" THEN skipParen(Error(q))
                                       ELSE Error(q), acc[o])

OptionNode(k, acc) ==
  LET words == SetToSeq({o \in DOMAIN acc : acc[o] # << >>})
  IN Node(k, words, FlattenSeq([j \in DOMAIN words |-> acc[words[j]]]))
OptionsFrom(r, k, table) ==
  IF r.ok THEN Options(r.p, k, table, r.acc) ELSE [p |-> resync(r.p), acc |-> r.acc, n |-> None]
Options(p, k, table, acc) ==
  IF cur(p) \in {";", "EOF"} THEN [p |-> p, acc |-> acc, n |-> OptionNode(k, acc)]
  ELSE IF cur(p) \notin DOMAIN table THEN [p |-> resync(Error(p)), acc |-> acc, n |-> None]
  ELSE OptionsFrom(Option(p, table, acc), k, table)
Stated(r) == IF r.n = None THEN Lost(r.p) ELSE Done(r.p, r.n)
NoOptions(table) == [o \in DOMAIN table \cup {"LIST", "EDIT"} |-> << >>]
OptionStatement(p, k, table) == Stated(Options(p, k, table, NoOptions(table)))

PutTable ==
  [SKIP |-> "opt", PAGE |-> "flag", LIST |-> "list", FILE |-> "name", EDIT |-> "edit",
   DATA |-> "list", STRING |-> "prim", LINE |-> "opt", COPY |-> "flag"]
parsePut(p) == OptionStatement(advance(p), "put", PutTable)
GetTable == [PutTable EXCEPT !.PAGE = "refused"]
parseGet(p) == OptionStatement(advance(p), "get", GetTable)

CloseTable == [FILE |-> "name", IDENT |-> "refused"]
parseClose(p) ==
  LET r == Options(advance(p), "close", CloseTable, NoOptions(CloseTable))
  IN IF r.n = None THEN Lost(r.p) ELSE Done(IF r.acc.FILE = << >> THEN Error(r.p) ELSE r.p, r.n)

OpenTable ==
  [FILE |-> "file", TITLE |-> "title", INPUT |-> "flag", OUTPUT |-> "flag", UPDATE |-> "flag",
   STREAM |-> "flag", RECORD |-> "flag", KEYED |-> "flag", DIRECT |-> "flag", IDENT |-> "arg",
   LINESIZE |-> "arg", PAGESIZE |-> "arg", ENVIRONMENT |-> "skipped"]
parseOpen(p) ==
  LET r == Options(advance(p), "open", OpenTable, NoOptions(OpenTable))
      has(o) == r.acc[o] # << >>
      wrong == Cardinality({c \in {1, 2, 3} :
                 \/ c = 1 /\ ~has("FILE")
                 \/ c = 2 /\ has("RECORD") /\ has("STREAM")
                 \/ c = 3 /\ has("UPDATE") /\ (~has("RECORD") \/ has("STREAM") \/ has("INPUT"))})
  IN IF r.n = None THEN Lost(r.p) ELSE Done([r.p EXCEPT !.err = @ + wrong], r.n)

RecordTable ==
  [KEY |-> "arg", KEYTO |-> "arg", KEYFROM |-> "arg", NOLOCK |-> "flag", SET |-> "flag",
   LOCATE |-> "noted", EVENT |-> "noted"]
RecordFileOf(p) ==
  LET all == [o \in DOMAIN RecordTable \cup {"FILE", "INTO", "FROM", "LIST", "EDIT"} |-> << >>]
  IN IF peek(p, 1) = "FILE" THEN Option(advance(p), [FILE |-> "file"], all)
     ELSE [p |-> Error(advance(p)), acc |-> all]
RecordData(op, f) ==     \* INTO or FROM ( expression ), not for DELETE
  LET want == IF op = "READ" THEN "INTO" ELSE "FROM"
      e == parseExpr(advance(advance(f.p)), 0)
  IN IF op = "DELETE" THEN f
     ELSE IF cur(f.p) # want THEN [f EXCEPT !.p = Error(@)]
     ELSE IF peek(f.p, 1) # "(" THEN [f EXCEPT !.p = Error(advance(@))]
     ELSE [f EXCEPT !.p = expect(e.p, ")"), !.acc[want] = << e.n >>]
RecordOptions(op, d) == Options(d.p, op, RecordTable, d.acc)
parseRecordIO(p) ==      \* FILE (f), the data clause, then the options
  Stated(RecordOptions(cur(p), RecordData(cur(p), RecordFileOf(p))))

RECURSIVE CallOptions(_, _)
CallOptions(p, acc) ==   \* TASK[(ref)], EVENT(ref), PRIORITY(expr) in any order
  LET o == cur(p)
      q == advance(p)
      e == IF o = "PRIORITY" THEN parseExpr(advance(q), 0) ELSE parsePrimary(advance(q))
      with(r, s) == CallOptions(r, [acc EXCEPT ![o] = s])
  IN IF o \notin DOMAIN acc THEN Done(p, acc)
     ELSE IF acc[o] # << >> THEN CallOptions(Error(q), acc)
     ELSE IF o = "TASK" /\ cur(q) # "(" THEN with(q, Flag(o))
     ELSE IF o = "TASK" /\ peek(q, 1) = ")" THEN with(advance(advance(q)), Flag(o))
     ELSE IF cur(q) # "(" THEN Reject(q)
     ELSE IF e.n = None /\ o # "PRIORITY" THEN Lost(resync(e.p))
     ELSE with(expect(e.p, ")"), << e.n >>)
parseCall(p) ==
  LET q == advance(p)
      a == IF peek(q, 1) # "(" THEN [p |-> advance(q), s |-> << >>]
           ELSE LET b == advance(advance(q))
                    r == IF cur(b) = ")" THEN [p |-> b, s |-> << >>] ELSE Args(b, << >>)
                IN [r EXCEPT !.p = expect(@, ")")]
      r == CallOptions(a.p, [TASK |-> << >>, EVENT |-> << >>, PRIORITY |-> << >>])
      opts == OptionNode("options", r.n)
  IN IF ~IsWord(cur(q)) THEN Reject(q)
     ELSE IF r.n = None THEN Lost(r.p) ELSE Got(r.p, Node("callS", << cur(q) >>, << opts >> \o a.s))

-----------------------------------------------------------------------------
(* The other simple statements. *)

RECURSIVE Primaries(_, _)
Primaries(p, refs) ==    \* reference {, reference}; ok is false when one is missing
  LET r == parsePrimary(p)
  IN IF r.n = None THEN [p |-> r.p, s |-> refs, ok |-> FALSE]
     ELSE IF cur(r.p) = "," THEN Primaries(advance(r.p), Append(refs, r.n))
     ELSE [p |-> r.p, s |-> Append(refs, r.n), ok |-> TRUE]

parseWait(p) ==
  LET q == advance(p)
      r == IF peek(q, 1) = ")" THEN [p |-> advance(q), s |-> << >>, ok |-> TRUE]
           ELSE Primaries(advance(q), << >>)
      c == parseExpr(advance(advance(r.p)), 0)
  IN IF cur(q) # "(" THEN Reject(q)
     ELSE IF ~r.ok THEN Lost(resync(r.p))
     ELSE IF cur(r.p) # ")" THEN Reject(r.p)
     ELSE IF peek(r.p, 1) = "(" THEN Done(expect(c.p, ")"), Node("wait", << "count" >>, << c.n >> \o r.s))
     ELSE Done(advance(r.p), Node("wait", << >>, r.s))

parseDelay(p) ==
  LET r == ParenExpr(advance(p))
  IN IF peek(p, 1) # "(" THEN Reject(advance(p)) ELSE Done(r.p, Node("delay", << >>, << r.n >>))

parseDisplay(p) ==       \* its failures leave the position where it is
  LET q == advance(p)
      v == parseExpr(advance(q), 0)
      z == advance(v.p)
      r == ParenExpr(advance(z))
  IN IF cur(q) # "(" THEN Lost(Error(q))
     ELSE IF cur(v.p) # ")" THEN Lost(Error(v.p))
     ELSE IF cur(z) # "REPLY" THEN Done(z, Node("display", << >>, << v.n >>))
     ELSE IF peek(z, 1) # "(" THEN Lost(Error(advance(z)))
     ELSE Done(r.p, Node("display", << >>, << v.n, r.n >>))

parseAssignment(p) ==
  LET t == Primaries(p, << >>)
      v == parseExpr(advance(t.p), 0)
      by == cur(v.p) = ","
      name == by /\ peek(v.p, 1) = "BY" /\ peek(v.p, 2) = "NAME"
      q == IF name THEN [v.p EXCEPT !.i = @ + 3] ELSE IF by THEN Error(advance(v.p)) ELSE v.p
  IN IF ~t.ok THEN Lost(resync(t.p))
     ELSE IF cur(t.p) # "=" THEN Reject(t.p)
     ELSE Done(q, Node("assign", IF name THEN << "BY NAME" >> ELSE << >>, << v.n >> \o t.s))

AtOpt(p) == cur(p) \in {"SET", "IN"} /\ peek(p, 1) = "("
RECURSIVE SetIn(_, _), Bounds(_, _), StringAttrs(_, _), AllocItems(_, _), AllocNext(_, _),
          FreeItems(_, _)
SetIn(r, n) ==           \* SET (ref) and IN (ref), in either order; a second one replaces the first
  LET o == cur(r.p)
      e == parsePrimary(advance(advance(r.p)))
      dup == n.s # << >> /\ \E k \in DOMAIN n.s : n.s[k].w = << o >>
      kept == SelectSeq(n.s, LAMBDA x : x.w # << o >>)
  IN IF ~AtOpt(r.p) THEN [p |-> r.p, n |-> n]
     ELSE IF e.n = None THEN [p |-> e.p, n |-> None]
     ELSE SetIn([p |-> expect(IF dup THEN Error(e.p) ELSE e.p, ")")],
                [n EXCEPT !.s = Append(kept, Node("option", << o >>, << e.n >>))])
Bounds(p, s) ==          \* bound {, bound}: an extent, lb:ub or *
  LET a == parseExpr(p, 0)
      b == parseExpr(advance(a.p), 0)
      r == IF cur(p) = "*" THEN Got(advance(p), Node("bound", << >>, << >>))
           ELSE IF a.n = None THEN Lost(a.p)
           ELSE IF cur(a.p) # ":" THEN Got(a.p, Node("bound", << >>, << a.n >>))
           ELSE IF b.n = None THEN Lost(b.p)
           ELSE Got(b.p, Node("bound", << >>, << a.n, b.n >>))
  IN IF r.n = None THEN [p |-> r.p, s |-> s, ok |-> FALSE]
     ELSE IF cur(r.p) = "," THEN Bounds(advance(r.p), Append(s, r.n))
     ELSE [p |-> expect(r.p, ")"), s |-> Append(s, r.n), ok |-> TRUE]
StringAttrs(p, n) ==     \* [CHAR[(expr|*)]] [VARYING], in either order
  LET q == advance(p)
      e == parseExpr(advance(q), 0)
      word == [n EXCEPT !.w = IF cur(p) \in {n.w[k] : k \in DOMAIN n.w} THEN @ ELSE Append(@, cur(p))]
      dup == \E k \in DOMAIN n.s : n.s[k].k = "length"
  IN IF cur(p) = "BIT" THEN [p |-> Error(p), n |-> None]
     ELSE IF cur(p) \notin {"CHAR", "VARYING"} THEN [p |-> p, n |-> n]
     ELSE IF cur(p) = "VARYING" \/ cur(q) # "(" THEN StringAttrs(q, word)
     ELSE IF peek(q, 1) = "*" THEN StringAttrs(expect(advance(advance(q)), ")"), word)
     ELSE IF e.n = None THEN [p |-> e.p, n |-> None]
     ELSE IF dup THEN StringAttrs(expect(Error(e.p), ")"), word)
     ELSE StringAttrs(expect(e.p, ")"), [word EXCEPT !.s = Append(@, Node("length", << >>, << e.n >>))])
AllocItem(q) ==
  LET base == Node("item", << cur(q) >>, << >>)
      z == advance(q)
      paren == cur(z) = "("
      o == SetIn([p |-> eat(z, "(")], base)
      b == Bounds(advance(z), << >>)
      a == StringAttrs(IF paren THEN b.p ELSE z, [base EXCEPT !.s = IF paren THEN b.s ELSE << >>])
  IN IF AtOpt(eat(z, "(")) THEN [o EXCEPT !.p = IF paren THEN expect(@, ")") ELSE @]
     ELSE IF paren /\ ~b.ok THEN [p |-> b.p, n |-> None]
     ELSE IF a.n = None \/ ~paren THEN a
     ELSE SetIn([p |-> a.p], a.n)
AllocNext(r, n) ==
  LET all == [n EXCEPT !.s = Append(@, r.n)]
  IN IF r.n = None THEN Lost(resync(r.p))
     ELSE IF cur(r.p) = "," THEN AllocItems(advance(r.p), all) ELSE Done(r.p, all)
AllocItems(p, n) ==
  LET q == IF cur(p) \in DOMAIN Value /\ IsWord(peek(p, 1)) THEN advance(p) ELSE p
  IN IF IsWord(cur(q)) THEN AllocNext(AllocItem(q), n) ELSE Reject(q)
parseAllocate(p) == AllocItems(advance(p), Node("allocate", << >>, << >>))

FreeItems(p, n) ==
  LET b == parsePrimary(p)
      area == cur(b.p) = "IN" /\ peek(b.p, 1) = "("
      e == parsePrimary(advance(advance(b.p)))
      item == Node("item", << >>, IF area THEN << b.n, e.n >> ELSE << b.n >>)
      q == IF area THEN expect(e.p, ")") ELSE b.p
      all == [n EXCEPT !.s = Append(@, item)]
  IN IF b.n = None THEN Lost(resync(b.p))
     ELSE IF area /\ e.n = None THEN Lost(resync(e.p))
     ELSE IF cur(q) = "," THEN FreeItems(advance(q), all) ELSE Got(q, all)
parseFree(p) ==
  LET outer == peek(p, 1) = "("
      r == FreeItems(eat(advance(p), "("), Node("free", << >>, << >>))
  IN IF r.n = None THEN r ELSE Done(IF outer THEN expect(r.p, ")") ELSE r.p, r.n)

Served == {"ERROR", "SIZE", "STRINGRANGE"}
parseCondition(p) ==     \* None is the empty condition name
  LET w == cur(p)
      q == advance(p)
      arg == Got(expect(advance(advance(q)), ")"), Node("cond", << w, peek(q, 1) >>, << >>))
      skipped == IF cur(q) = "(" THEN skipParen(q) ELSE q
  IN CASE w \in Served -> Got(q, Node("cond", << w >>, << >>))
       [] w = "ENDFILE" -> IF cur(q) # "(" THEN Lost(Error(q))
                           ELSE IF ~IsWord(peek(q, 1)) THEN Lost(Error(advance(q))) ELSE arg
       [] w = "CONDITION" -> IF cur(q) # "(" THEN Lost(Error(q))
                             ELSE IF ~IsWord(peek(q, 1)) THEN Lost(Error(advance(q)))
                             ELSE IF peek(q, 2) # ")" THEN Lost(Error(advance(advance(q))))
                             ELSE IF peek(q, 1) \in Served THEN Lost(Error(arg.p)) ELSE arg
       [] w \in {"CHECK", "ENDPAGE"} -> Lost(Error(skipped))
       [] OTHER -> Lost(Error(p))
Revert(c) == IF c.n = None THEN Lost(resync(c.p)) ELSE Done(c.p, Node("revert", << >>, << c.n >>))
parseRevert(p) == Revert(parseCondition(advance(p)))
Signal(c) ==             \* [SET ONCODE ( expression )]
  LET e == parseExprOrPlaceholder([c.p EXCEPT !.i = @ + 3])
  IN IF c.n = None THEN Lost(resync(c.p))
     ELSE IF cur(c.p) # "SET" THEN Done(c.p, Node("signal", << >>, << c.n >>))
     ELSE IF peek(c.p, 1) # "ONCODE" THEN Reject(advance(c.p))
     ELSE IF peek(c.p, 2) # "(" THEN Reject(advance(advance(c.p)))
     ELSE IF cur(e.p) # ")" THEN Reject(e.p)
     ELSE Done(advance(e.p), Node("signal", << >>, << c.n, e.n >>))
parseSignal(p) == Signal(parseCondition(advance(p)))

parseLoopExit(p) ==
  LET named == IsWord(peek(p, 1))
      q == IF named THEN advance(advance(p)) ELSE advance(p)
  IN IF cur(q) # ";" THEN Reject(q)
     ELSE Got(advance(q), Node(cur(p), IF named THEN << peek(p, 1) >> ELSE << >>, << >>))
parseReturn(p) ==
  LET r == parseExprOrPlaceholder(advance(advance(p)))
  IN IF peek(p, 1) = "(" THEN Done(expect(r.p, ")"), Node("return", << >>, << r.n >>))
     ELSE Done(advance(p), Node("return", << >>, << >>))
parseGoto(p) ==          \* p is past GO TO or GOTO
  LET r == parseExprOrPlaceholder(advance(p))
  IN IF IsWord(cur(p)) THEN Done(advance(p), Node("goto", << cur(p) >>, << >>))
     ELSE IF cur(p) = "(" THEN Done(expect(r.p, ")"), Node("goto", << >>, << r.n >>))
     ELSE Done(Error(p), Node("goto", << >>, << >>))
parseFormatStmt(p, labels) ==
  LET f == Formats(advance(p))
      q == IF labels = << >> THEN Error(f.p) ELSE f.p
  IN IF ~f.ok \/ p.t[f.p.i - 1] # ")" THEN Lost(q) ELSE Done(q, Node("formatS", << >>, f.s))
parseDefineConstant(p) ==
  LET n == advance(advance(p))
      v == parseExpr(advance(n), 0)
  IN IF ~IsWord(cur(n)) THEN Reject(n)
     ELSE IF v.n = None THEN Lost(resync(v.p))
     ELSE IF cur(v.p) # ";" THEN Reject(v.p) ELSE Got(advance(v.p), Node("constant", << cur(n) >>, << v.n >>))

-----------------------------------------------------------------------------
(* Keyword or assignment (ADR-004): WORD = and WORD (...) = are assignments. *)

RECURSIVE TargetEnd(_, _)
TargetEnd(t, j) ==       \* past a reference list; 0 when a group is cut by ';' or the end
  LET tok(k) == IF k <= Len(t) THEN t[k] ELSE "EOF"
      z == Balanced(t, j, 0)
  IN IF tok(j) \in {".", "->", ","} /\ IsWord(tok(j + 1)) THEN TargetEnd(t, j + 2)
     ELSE IF tok(j) # "(" THEN j
     ELSE IF tok(z - 1) # ")" \/ \E k \in j..(z - 1) : t[k] = ";" THEN 0
     ELSE TargetEnd(t, z)
looksLikeAssignment(p) ==
  LET j == TargetEnd(p.t, p.i + 1) IN j \in 1..Len(p.t) /\ p.t[j] = "="
atStmtKeyword(p, w) == cur(p) = w /\ ~looksLikeAssignment(p)

-----------------------------------------------------------------------------
(* Condition prefixes, rules (60)-(63). *)

SetCond(f, which, state) ==
  [size |-> IF which \in {"SIZE", "ALL"} THEN (IF state < 0 THEN "no" ELSE "chk") ELSE f.size,
   range |-> IF which \in {"STRINGRANGE", "ALL"} THEN state ELSE f.range]
PrefixWord(a, w) ==      \* one word of a prefix list: mode, whether it named one, the prefix so far
  LET no == w \in {"NOSIZE", "NOSTRINGRANGE"}
      which == CASE w = "NOSIZE" -> "SIZE" [] w = "NOSTRINGRANGE" -> "STRINGRANGE" [] OTHER -> w
      state == CASE no -> -1 [] a.mode = "CHECK" -> 1 [] a.mode = "NOCHECK" -> -1
                 [] OTHER -> IF which = "STRINGRANGE" THEN 1 ELSE 0
  IN IF w \in {"CHECK", "NOCHECK"} THEN [a EXCEPT !.mode = w, !.named = FALSE]
     ELSE IF which \notin {"SIZE", "STRINGRANGE", "ALL"} \/ (which = "ALL" /\ a.mode = "") THEN a
     ELSE [a EXCEPT !.named = (a.mode # "") \/ @,
                    !.f = IF state = 0 THEN @ ELSE SetCond(@, which, state)]
RECURSIVE parseCondPrefixes(_, _)
parseCondPrefixes(p, f) ==
  LET q == skipParen(p)
      words == SelectSeq(SubSeq(p.t, p.i, q.i - 1), IsWord)
      a == FoldLeft(PrefixWord, [mode |-> "", named |-> FALSE, f |-> f], words)
  IN IF cur(p) # "(" THEN [p |-> p, f |-> f, ok |-> TRUE]
     ELSE IF cur(q) # ":" THEN [p |-> Error(q), f |-> f, ok |-> FALSE]
     ELSE parseCondPrefixes(advance(q),
            IF a.mode = "NOCHECK" /\ ~a.named THEN SetCond(a.f, "ALL", -1) ELSE a.f)

RECURSIVE LabelPrefixes(_, _), Subscripts(_)
Subscripts(p) ==         \* signed integers up to the one no comma follows; 0 when one is missing
  LET q == IF cur(p) \in {"+", "-"} THEN advance(p) ELSE p
  IN IF cur(q) \notin DOMAIN Value THEN 0
     ELSE IF peek(q, 1) = "," THEN Subscripts(advance(advance(q))) ELSE q.i + 1
LabelPrefixes(p, l) ==   \* NAME: and NAME(1): before a statement
  LET j == Subscripts(advance(advance(p)))
      elem == peek(p, 1) = "(" /\ j # 0 /\ peek([p EXCEPT !.i = j], 0) = ")"
                /\ peek([p EXCEPT !.i = j], 1) = ":"
  IN IF ~IsWord(cur(p)) THEN [p |-> p, l |-> l]
     ELSE IF peek(p, 1) = ":" THEN LabelPrefixes(advance(advance(p)), Append(l, cur(p)))
     ELSE IF elem THEN LabelPrefixes([p EXCEPT !.i = j + 2], Append(l, "elem"))
     ELSE [p |-> p, l |-> l]
Plain(l) == SelectSeq(l, LAMBDA x : x # "elem")

EndClause(p, labels) ==  \* END [label] ;
  LET q == advance(p)
      named == IsWord(cur(q))
  IN [p |-> expect(IF named THEN advance(q) ELSE q, ";"),
      e |-> [on |-> TRUE, label |-> IF named THEN cur(q) ELSE "", labels |-> labels]]
ClaimedAny(e, own) == [e EXCEPT !.label = ""]   \* mutant: closes one block whatever its label
Claimed(e, own) == IF e.label = own THEN [e EXCEPT !.label = ""] ELSE e

-----------------------------------------------------------------------------
(* Blocks and statements. *)

RECURSIVE parseStatement(_), Sentences(_, _, _), Whens(_, _, _, _), Spec73(_, _)

Sentences(p, own, body) ==
  LET c == EndClause(p, << >>)
      r == parseStatement(p)
      b == IF r.n = None THEN body ELSE Append(body, r.n)
  IN IF cur(p) = "EOF" THEN [p |-> Error(p), s |-> body, e |-> NoEnd]
     ELSE IF atStmtKeyword(p, "END") THEN [p |-> c.p, s |-> body, e |-> Claimed(c.e, own)]
     ELSE IF r.p.pend.on
     THEN [p |-> [r.p EXCEPT !.pend = NoEnd], s |-> b, e |-> Claimed(r.p.pend, own)]
     ELSE Sentences(r.p, own, b)
parseBody(p, own) ==
  IF p.deep >= kMaxBlockDepth THEN [p |-> Error(p), s |-> << >>, e |-> NoEnd]
  ELSE LET r == Sentences([p EXCEPT !.deep = @ + 1], own, << >>) IN [r EXCEPT !.p.deep = p.deep]
Closing(r, n) ==         \* what a block does with the END its body returned
  IF r.e.on /\ r.e.label # "" THEN Got([r.p EXCEPT !.pend = r.e], n)
  ELSE IF r.e.on THEN Got([r.p EXCEPT !.endl = r.e.labels], n) ELSE Got(r.p, n)
OwnName(labels) == IF labels = << >> THEN "" ELSE labels[1]
Block(p, labels, n) ==
  LET r == parseBody(p, OwnName(labels)) IN Closing(r, [n EXCEPT !.s = Append(@, Node("body", << >>, r.s))])

parseIf(p) ==
  LET c == parseExpr(advance(p), 0)
      a == parseStatement(advance(c.p))
      b == parseStatement(advance(a.p))
  IN IF cur(c.p) # "THEN" THEN Reject(c.p)
     ELSE IF a.p.pend.on \/ cur(a.p) # "ELSE" THEN Got(a.p, Node("if", << >>, << c.n, a.n >>))
     ELSE Got(b.p, Node("if", << >>, << c.n, a.n, b.n >>))

Spec73(p, n) ==          \* TO, BY and WHILE in any order; a second one replaces the first
  LET o == cur(p)
      e == IF o # "WHILE" THEN parseExpr(advance(p), 0)
           ELSE IF peek(p, 1) = "(" THEN ParenExpr(advance(p)) ELSE Lost(Error(advance(p)))
      kept == SelectSeq(n.s, LAMBDA x : x.w # << o >>)
  IN IF o \in {"UNTIL", "FOREVER", ","} THEN Lost(Error(p))
     ELSE IF o \notin {"TO", "BY", "WHILE"} THEN Got(p, n)
     ELSE Spec73(e.p, [n EXCEPT !.s = Append(kept, Node("spec", << o >>, << e.n >>))])
parseDo(p, labels) ==
  LET q == advance(p)
      w == IF peek(q, 1) = "(" THEN ParenExpr(advance(q)) ELSE Lost(Error(advance(q)))
      u == parseExpr(advance(advance(q)), 0)
      s == Spec73(u.p, Node("doIter", << cur(q) >>, << Node("spec", << "FROM" >>, << u.n >>) >>))
  IN CASE cur(q) = ";" -> Block(advance(q), labels, Node("group", << >>, << >>))
       [] cur(q) = "WHILE" -> IF cur(w.p) = "UNTIL" THEN Reject(w.p)
                              ELSE Block(expect(w.p, ";"), labels, Node("while", << >>, << w.n >>))
       [] cur(q) = "UNTIL" -> IF peek(q, 1) # "(" THEN Reject(advance(q))
                              ELSE IF cur(u.p) # ")" THEN Reject(u.p)
                              ELSE IF peek(u.p, 1) # ";" THEN Reject(advance(u.p))
                              ELSE Block(advance(advance(u.p)), labels, Node("until", << >>, << u.n >>))
       [] cur(q) = "FOREVER" -> IF peek(q, 1) # ";" THEN Reject(advance(q))
                                ELSE Block(advance(advance(q)), labels, Node("forever", << >>, << >>))
       [] IsWord(cur(q)) /\ cur(q) \notin {"WHILE", "UNTIL", "FOREVER"} ->
            IF peek(q, 1) # "=" THEN Reject(advance(q))
            ELSE IF s.n = None THEN Lost(resync(s.p))
            ELSE Block(expect(s.p, ";"), labels, s.n)
       [] OTHER -> Reject(q)

IfChain(whens, other) == \* SELECT as nested IFs; an OTHERWISE with no WHEN before it is dropped
  FoldRight(LAMBDA w, tail : Node("if", << >>, IF tail = None THEN w ELSE Append(w, tail)),
            whens, IF other = << >> \/ whens = << >> THEN None ELSE other[1])
WhenTest(sel, vals) ==   \* sel = v1 | sel = v2 | ...
  LET eq(v) == Node("binary", << "=" >>, << sel, v >>)
  IN IF sel = None THEN vals[1]
     ELSE FoldLeft(LAMBDA a, v : Node("binary", << "|" >>, << a, eq(v) >>), eq(vals[1]), Tail(vals))
Whens(p, sel, whens, other) ==
  LET head == IfChain(whens, other)
      c == EndClause(p, << >>)
      v == Args(advance(advance(p)), << >>)
      w == parseStatement(advance(v.p))
      o == parseStatement(advance(p))
      is(k) == cur(p) = k /\ ~looksLikeAssignment(p)
  IN CASE cur(p) = "EOF" -> Got(Error(p), head)
       [] p.pend.on -> IF p.pend.label = "" THEN Got([p EXCEPT !.pend = NoEnd, !.endl = p.pend.labels], head)
                       ELSE Got(p, head)
       [] is("END") -> IF p.t[c.p.i - 1] # ";" THEN Got(resync(c.p), head)
                       ELSE IF c.e.label # "" THEN Got([c.p EXCEPT !.pend = c.e], head)
                       ELSE Got(IF whens = << >> THEN Error(c.p) ELSE c.p, head)
       [] is("WHEN") -> IF other # << >> THEN Got(resync(Error(p)), head)
                        ELSE IF peek(p, 1) # "(" THEN Got(resync(Error(advance(p))), head)
                        ELSE IF cur(v.p) # ")" THEN Got(resync(Error(v.p)), head)
                        ELSE IF sel = None /\ Len(v.s) # 1 THEN Got(resync(Error(advance(v.p))), head)
                        ELSE Whens(w.p, sel, Append(whens, << WhenTest(sel, v.s), w.n >>), other)
       [] is("OTHERWISE") -> IF other # << >> THEN Got(resync(Error(p)), head)
                             ELSE Whens(o.p, sel, whens, << o.n >>)
       [] OTHER -> Got(resync(Error(p)), head)
parseSelect(p) ==
  LET q == advance(p)
      e == parseExprOrPlaceholder(advance(q))
      z == IF cur(q) = "(" THEN advance(e.p) ELSE q
  IN IF cur(q) = "(" /\ cur(e.p) # ")" THEN Reject(e.p)
     ELSE IF cur(z) # ";" THEN Reject(z)
     ELSE Whens(advance(z), IF cur(q) = "(" THEN e.n ELSE None, << >>, << >>)

OnUnit(c) ==
  LET q == eat(c.p, "SNAP")
      u == parseStatement(q)
  IN IF c.n = None THEN Lost(resync(c.p))
     ELSE IF cur(q) = "SYSTEM" /\ peek(q, 1) = ";"
     THEN Got(advance(advance(q)), Node("on", << "SYSTEM" >>, << c.n >>))
     ELSE IF u.n = None \/ u.n.k = "if" THEN Reject(u.p)
     ELSE Got(u.p, Node("on", << >>, << c.n, u.n >>))
parseOn(p) == OnUnit(parseCondition(advance(p)))

keywordStatement(p, labels, probe) ==   \* under a probe the spelling alone decides
  LET is(k) == cur(p) = k /\ (probe \/ ~looksLikeAssignment(p))
      d == resync(p)
  IN CASE is("DECLARE") -> Got(d, Node("declare", SubSeq(p.t, p.i + 1, d.i - 2), << >>))
       [] is("DEFINE") /\ peek(p, 1) = "CONSTANT" -> parseDefineConstant(p)
       [] is("IF") -> parseIf(p)
       [] is("DO") -> parseDo(p, labels)
       [] is("SELECT") -> parseSelect(p)
       [] is("LEAVE") \/ is("ITERATE") -> parseLoopExit(p)
       [] is("BEGIN") -> Block(expect(advance(p), ";"), labels, Node("begin", << >>, << >>))
       [] is("FORMAT") -> parseFormatStmt(p, labels)
       [] is("PUT") -> parsePut(p)
       [] is("DISPLAY") -> parseDisplay(p)
       [] is("CALL") -> parseCall(p)
       [] is("WAIT") -> parseWait(p)
       [] is("DELAY") -> parseDelay(p)
       [] is("RETURN") -> parseReturn(p)
       [] is("STOP") -> Done(advance(p), Node("stop", << >>, << >>))
       [] is("GET") -> parseGet(p)
       [] is("GO") /\ peek(p, 1) = "TO" -> parseGoto(advance(advance(p)))
       [] is("GOTO") -> parseGoto(advance(p))
       [] is("ON") -> parseOn(p)
       [] is("SIGNAL") -> parseSignal(p)
       [] is("REVERT") -> parseRevert(p)
       [] is("ALLOCATE") -> parseAllocate(p)
       [] is("FREE") -> parseFree(p)
       [] is("OPEN") -> parseOpen(p)
       [] is("CLOSE") -> parseClose(p)
       [] is("READ") \/ is("WRITE") \/ is("REWRITE") \/ is("DELETE") -> parseRecordIO(p)
       [] OTHER -> Lost(p)

probeKeywordStatement(r, p) ==          \* kept only when it reports nothing; else all is put back
  IF r.n # None /\ r.p.err = p.err THEN r ELSE Lost(p)

closeWithEndLabels(r) ==
  IF r.p.endl = << >> \/ r.n = None THEN r
  ELSE Got([r.p EXCEPT !.endl = << >>],
           Node("group", << >>, << Node("body", << >>, << r.n, [Node("null", << >>, << >>) EXCEPT !.l = r.p.endl] >>) >>))

RECURSIVE ProcOptions(_, _), NameList(_, _)
NameList(p, w) ==        \* names up to ')' or the one no comma follows
  IF cur(p) \in {")", "EOF"} THEN [p |-> expect(p, ")"), w |-> w]
  ELSE LET q == IF IsWord(cur(p)) THEN advance(p) ELSE Error(advance(p))
           all == IF IsWord(cur(p)) THEN Append(w, cur(p)) ELSE w
       IN IF cur(q) = "," THEN NameList(advance(q), all) ELSE [p |-> expect(q, ")"), w |-> all]
ProcOptions(p, n) ==
  LET q == advance(p)
      z == skipParen(q)
      main == \E k \in q.i..(z.i - 1) : p.t[k] = "MAIN"
  IN CASE cur(p) \in {";", "EOF"} -> Done(p, n)
       [] cur(p) = "OPTIONS" -> IF cur(q) # "(" THEN ProcOptions(Error(q), n)
                                ELSE ProcOptions(z, IF main THEN [n EXCEPT !.w = Append(@, "MAIN")] ELSE n)
       [] cur(p) = "RECURSIVE" -> ProcOptions(q, [n EXCEPT !.w = Append(@, "RECURSIVE")])
       [] cur(p) = "RETURNS" -> IF cur(q) # "(" THEN ProcOptions(Error(q), n)
                                ELSE ProcOptions(z, [n EXCEPT !.w = Append(@, "RETURNS")])
       [] OTHER -> ProcOptions(q, n)    \* an unknown option is warned about and passed
parseProcOptions(p, n) ==
  LET r == NameList(advance(p), << >>)
  IN IF cur(p) = "(" THEN ProcOptions(r.p, [n EXCEPT !.s = << Node("params", r.w, << >>) >>])
     ELSE ProcOptions(p, n)

ProcCondGuard(p, f) ==   \* the PROCEDURE statement's prefix over its body
  [p EXCEPT !.cond = CASE f.size = "no" -> 1 [] f.size = "chk" -> 2 [] OTHER -> @,
            !.range = IF f.range # 0 THEN f.range ELSE @]
parseProcBody(p, name) ==
  LET r == parseBody(p, name)
      exit == [Node("null", << >>, << >>) EXCEPT !.l = r.e.labels]
  IN [p |-> IF r.e.on /\ r.e.label # "" THEN Error(r.p) ELSE r.p,
      s |-> IF r.e.on /\ r.e.label = "" /\ r.e.labels # << >> THEN Append(r.s, exit) ELSE r.s]
Procedure(p, name, f) == \* p is past PROCEDURE; the procedure takes its place before its own nested ones
  LET o == parseProcOptions([p EXCEPT !.procs = Append(@, None)], Node("proc", << name >>, << >>))
      r == parseProcBody(ProcCondGuard(o.p, f), name)
      n == [o.n EXCEPT !.s = Append(@, Node("body", << >>, r.s))]
  IN [r.p EXCEPT !.procs[Len(p.procs) + 1] = n, !.cond = p.cond, !.range = p.range]

Dressed(r, l, f) == IF r.n = None THEN r ELSE [r EXCEPT !.n.l = l, !.n.f = f]
parseEntry(p, l, f) ==   \* ENTRY [(params)] [RETURNS (...)] ;
  LET q == NameList(advance(advance(p)), << >>)
      a == IF peek(p, 1) = "(" THEN q ELSE [p |-> advance(p), w |-> << >>]
      z == IF cur(a.p) # "RETURNS" THEN a.p
           ELSE IF peek(a.p, 1) = "(" THEN skipParen(advance(a.p)) ELSE Error(advance(a.p))
  IN IF Plain(l) = << >> THEN Reject(p) ELSE Dressed(Done(z, Node("entry", a.w, << >>)), l, f)

KeywordOrAssignment(k, l, f) ==
  IF k.n # None THEN closeWithEndLabels(Dressed(k, l, f)) ELSE Dressed(parseAssignment(k.p), l, f)
Probed(r, q, l, f) ==    \* a probe keeps the prefix and the label-array elements, not the labels
  IF r.n # None THEN closeWithEndLabels(Dressed(r, SelectSeq(l, LAMBDA y : y = "elem"), f))
  ELSE KeywordOrAssignment(keywordStatement(q, Plain(l), FALSE), l, f)
parseStatement(p) ==
  LET c == parseCondPrefixes(p, [size |-> IF p.cond = 1 THEN "no" ELSE "", range |-> p.range])
      in == [c.p EXCEPT !.range = IF c.f.range # 0 THEN c.f.range ELSE @]
      x == LabelPrefixes(in, << >>)
      q == x.p
      labels == Plain(x.l)
      e == EndClause(q, labels)
      ended == Got([IF x.l = labels THEN e.p ELSE Error(e.p) EXCEPT !.pend = e.e], Node("null", << >>, << >>))
      probed == IF looksLikeAssignment(q) /\ cur(q) \in stmtKeywordSpelling
                THEN probeKeywordStatement(keywordStatement(q, labels, TRUE), q) ELSE Lost(q)
      r == CASE labels # << >> /\ atStmtKeyword(q, "END") -> ended
             [] labels # << >> /\ atStmtKeyword(q, "PACKAGE") -> Reject(q)
             [] labels # << >> /\ atStmtKeyword(q, "PROC") -> Lost(Procedure(advance(q), labels[1], c.f))
             [] atStmtKeyword(q, "ENTRY") -> parseEntry(q, x.l, c.f)
             [] cur(q) = ";" -> Dressed(Got(advance(q), Node("null", << >>, << >>)), x.l, c.f)
             [] OTHER -> Probed(probed, q, x.l, c.f)
  IN IF c.ok THEN [r EXCEPT !.p.range = p.range] ELSE Lost(c.p)

parsePackage(p, name) == \* p is at PACKAGE
  LET q == advance(p)
      z == advance(advance(q))
      x == IF cur(q) # "EXPORTS" THEN [p |-> q, w |-> << >>]
           ELSE IF peek(q, 1) # "(" THEN [p |-> Error(advance(q)), w |-> << >>]
           ELSE NameList(z, << >>)
      b == parseBody(expect([x.p EXCEPT !.procs = Append(@, None)], ";"), name)
      n == Node("package", << name >> \o x.w, << Node("body", << >>, b.s) >>)
  IN [IF b.e.on /\ b.e.label # "" THEN Error(b.p) ELSE b.p EXCEPT !.procs[Len(p.procs) + 1] = n]

RECURSIVE EntryNames(_), parse(_)
EntryNames(p) == IF cur(p) # "," THEN p
                 ELSE IF IsWord(peek(p, 1)) THEN EntryNames(advance(advance(p))) ELSE advance(p)
parseExternalProcedure(p) ==
  LET c == parseCondPrefixes(p, NoPrefix)
      z == EntryNames(advance(c.p))
      q == advance(z)
  IN IF ~c.ok THEN resync(c.p)
     ELSE IF ~IsWord(cur(c.p)) THEN resync(Error(c.p))
     ELSE IF cur(z) # ":" \/ p.t[z.i - 1] = "," THEN resync(Error(z))
     ELSE IF atStmtKeyword(q, "PACKAGE")
     THEN parsePackage(IF z.i > c.p.i + 1 THEN Error(q) ELSE q, cur(c.p))
     ELSE IF atStmtKeyword(q, "PROC") THEN Procedure(advance(q), cur(c.p), c.f)
     ELSE resync(Error(q))

parse(p) ==              \* stops when an external procedure consumes nothing
  LET q == parseExternalProcedure(p)
  IN IF cur(p) = "EOF" THEN p ELSE IF q.i = p.i THEN Error(q) ELSE parse(q)

(* What the parser makes of a token string. *)
Parses(t) == LET p == parse(Start(t)) IN [done |-> TRUE, err |-> p.err, procs |-> p.procs]
=============================================================================
