----------------------------- MODULE MCCompiler -----------------------------
(***************************************************************************)
(* The compiler's passes and the code they generate, each on a set of      *)
(* programs written for it.  A pass works on its own input and shares no   *)
(* state with the others, so a behaviour exercises one of them: `use' says *)
(* which, and v1, v2, ... are its variables, in their order.               *)
(***************************************************************************)
EXTENDS Integers, Sequences, FiniteSets, TLC

CONSTANTS Uses,                              \* the passes of the run
          PrePrograms, PreFiles, LexTexts, SynSources, Declared, UnsetPrograms,
          CallPrograms, CtlPrograms, FixPrograms, LoopPrograms,
          DriverVersions, DriverCommands, DriverRuns, Jobs, StrLiterals,
          SynParsing(_), DclReading(_)       \* the parser, and its declarations

VARIABLES use, v1, v2, v3, v4, v5, v6, v7, v8, v9, v10, v11

Pre == INSTANCE Preprocessor WITH
  prog <- v1, stack <- v2, st <- v3, done <- v4,
  Programs <- PrePrograms, Files <- PreFiles, kMaxScanDepth <- 5
Lex == INSTANCE Lexer WITH
  text <- v1, p <- v2, line <- v3, col <- v4, out <- v5, errors <- v6, done <- v7, Texts <- LexTexts
Syn == INSTANCE Syntax WITH
  source <- v1, parsed <- v2, Sources <- SynSources, Parsing <- SynParsing, Names <- {"V", "Q", "L", "M", "N", "P"},
  kMaxBlockDepth <- 4, kMaxExprDepth <- 20, kMaxReplicatedChars <- 2
Dcl == INSTANCE Declarations WITH
  written <- v1, declared <- v2, Written <- Declared, Reading <- DclReading, Names <- {"V", "Q"},
  kMaxBlockDepth <- 4, kMaxExprDepth <- 20, kMaxReplicatedChars <- 2,
  kMaxStructureLevel <- 2, kMaxBound <- 3
Uns == INSTANCE Unset WITH prog <- v1, warned <- v2, walked <- v3, Programs <- UnsetPrograms
Cal == INSTANCE Calls WITH
  prog <- v1, facts <- v2, stack <- v3, mem <- v4, rmem <- v5, ptr <- v6, entry <- v7,
  handlers <- v8, over <- v9, Programs <- CallPrograms, MaxDepth <- 5
Ctl == INSTANCE Controlled WITH
  prog <- v1, gens <- v2, fresh <- v3, stack <- v4, ref <- v5, over <- v6,
  Programs <- CtlPrograms, Declared <- 1, Other <- 2, MaxDepth <- 4, MaxRounds <- 2

\* The raw values that the variables of a FIXED type start with.
FixValues(t) ==
  CASE t.k = "bit" -> {0, 1, 5}
    [] t.k = "dec" -> {0, 3, -7, 10^t.prec - 1, 1 - 10^t.prec, (10^t.prec) \div 2}
    [] t.k = "bin" -> {0, -3, 5, 2^t.prec - 1, IF t.prec = 7 THEN 1 - 2^t.prec ELSE -(2^t.prec)}
                        \cap (-(2^t.prec) .. 2^t.prec - 1)
\* Slots of 5, 8 and 15 bits hold 1, 2 and 4 digits; no DECIMAL has more than 3.
Fix == INSTANCE Fixed WITH
  prog <- v1, mem <- v2, pc <- v3, last <- v4, Programs <- FixPrograms, Values <- FixValues,
  Bits32 <- 5, Bits64 <- 8, Bits128 <- 15, Digits32 <- 1, Digits64 <- 2, Digits128 <- 4,
  MaxDigits <- 3, Short <- 1, Long <- 2
Loop == INSTANCE Loops WITH
  prog <- v1, i <- v2, to <- v3, by <- v4, lim <- v5, nonNeg <- v6, assumed <- v7, pc <- v8,
  seen <- v9, mods <- v10, wrapped <- v11, Programs <- LoopPrograms, Bits <- 4, MaxTrips <- 6
Drv == INSTANCE Driver WITH
  src <- v1, eff <- v2, obj <- v3, exe <- v4, ll <- v5, temp <- v6, runs <- v7, count <- v8,
  Versions <- DriverVersions, Commands <- DriverCommands, Procs <- DriverRuns,
  MaxRuns <- 3, MaxEdits <- 1, Faults <- {"effects", "space", "emit", "memory", "lld", "kill"}
Num == INSTANCE Numbers WITH
  job <- v1, text <- v2, result <- v3, step <- v4, Bits32 <- 6, Bits64 <- 10, Bits128 <- 18,
  Digits32 <- 1, Digits64 <- 2, MaxSig <- 3, MaxFrac <- 2, MaxExp <- 12, FracRoom <- 4,
  BinRoom <- 5, TokenRoom <- 7
Str == INSTANCE Strings WITH
  lib <- v1, inl <- v2, Literals <- StrLiterals, Blank <- 1, Lower <- {2}, CaseGap <- 2, Codes <- 3, Word <- 64, Lane <- 2,
  CapF <- 2, CapV <- 3, Starts <- {2, 4}, AssignStarts <- {2}, Lens <- {0, 1, 3},
  Archs <- {"x86_64", "other"}, Bits <- {1, 2}

\* The variables from the k-th on, and that a pass leaves them unused.
rest10 == <<v10, v11>>
rest9 == <<v9, rest10>>
rest8 == <<v8, rest9>>
rest7 == <<v7, rest8>>
rest5 == <<v5, v6, rest7>>
rest4 == <<v4, rest5>>
rest3 == <<v3, rest4>>
Idle10 == v10 = 0 /\ v11 = 0
Idle9 == v9 = 0 /\ Idle10
Idle8 == v8 = 0 /\ Idle9
Idle7 == v7 = 0 /\ Idle8
Idle5 == v5 = 0 /\ v6 = 0 /\ Idle7
Idle4 == v4 = 0 /\ Idle5
Idle3 == v3 = 0 /\ Idle4

MCInit ==
  /\ use \in Uses
  /\ \/ use = "preprocessor" /\ Pre!Init /\ Idle5
     \/ use = "lexer" /\ Lex!Init /\ Idle8
     \/ use = "syntax" /\ Syn!Init /\ Idle3
     \/ use = "declare" /\ Dcl!Init /\ Idle3
     \/ use = "unset" /\ Uns!Init /\ Idle4
     \/ use = "calls" /\ Cal!Init /\ Idle10
     \/ use = "controlled" /\ Ctl!Init /\ Idle7
     \/ use = "fixed" /\ Fix!Init /\ Idle5
     \/ use = "loops" /\ Loop!Init
     \/ use = "driver" /\ Drv!Init /\ Idle9
     \/ use = "numbers" /\ Num!Init /\ Idle5
     \/ use = "strings" /\ Str!Init /\ Idle3

Preprocess == use = "preprocessor" /\ Pre!Next /\ UNCHANGED <<use, rest5>>
Scan == use = "lexer" /\ Lex!Next /\ UNCHANGED <<use, rest8>>
Parse == use = "syntax" /\ Syn!Next /\ UNCHANGED <<use, rest3>>
Declare == use = "declare" /\ Dcl!Next /\ UNCHANGED <<use, rest3>>
Warn == use = "unset" /\ Uns!Next /\ UNCHANGED <<use, rest4>>
RunCalls == use = "calls" /\ Cal!Next /\ UNCHANGED <<use, rest10>>
RunControlled == use = "controlled" /\ Ctl!Next /\ UNCHANGED <<use, rest7>>
RunFixed == use = "fixed" /\ Fix!Next /\ UNCHANGED <<use, rest5>>
RunLoop == use = "loops" /\ Loop!Next /\ UNCHANGED use
Drive == use = "driver" /\ Drv!Next /\ UNCHANGED <<use, rest9>>
RunNumbers == use = "numbers" /\ Num!Next /\ UNCHANGED <<use, rest5>>
RunStrings == use = "strings" /\ Str!Next /\ UNCHANGED <<use, rest3>>

MCNext ==
  \/ Preprocess \/ Scan \/ Parse \/ Declare \/ Warn \/ RunCalls \/ RunControlled
  \/ RunFixed \/ RunLoop \/ Drive \/ RunNumbers \/ RunStrings

MCSpec == MCInit /\ [][MCNext]_<<use, v1, v2, v3, v4, v5, v6, v7, v8, v9, v10, v11>>

-----------------------------------------------------------------------------
TheParsing(t) == LET made == Syn!Parses(t) IN made
TheReading(w) == LET made == Dcl!Readings(w) IN made

(* The programs.  Each set is written with local names of its own.           *)

\* Directives in pairs, after %DECLARE and %ACTIVATE of X, and macros.
ThePrePrograms ==
  LET It(op, n) == Pre!Item(op, n, Pre!Nothing)
      Const(c) == [k |-> "const", v |-> "", c |-> c]
      Expr(k, v, c) == [k |-> k, v |-> v, c |-> c]
      Rep(w, text) == [op |-> "replace", n |-> w, e |-> Pre!Nothing, text |-> text]
      If(e, then, else) == [op |-> "if", n |-> "", e |-> e, then |-> then, else |-> else]
      Group(op, v, from, to, by, body) ==
        [op |-> op, n |-> v, e |-> Const(from), to |-> to, by |-> Const(by), body |-> body]
      Once(body) == Group("once", "", 0, Const(0), 0, body)
      Do(from, to, by, body) == Group("do", "X", from, to, by, body)
      Jump(op, l, e, body, then) == [op |-> op, n |-> l, e |-> e, body |-> body, then |-> then]
      A == It("text", "A")
      B == It("text", "B")
      Newl == It("nl", "")
      Ref == It("ref", "X")
      Bump == Pre!Item("assign", "X", Expr("plus", "X", 1))
      Ret(e) == Pre!Item("return", "", e)
      Call(e) == Pre!Item("call", "P", e)
      Leaves == {A, Newl, Bump, Ref, It("include", "f"), It("xinclude", "f"), It("include", "g"),
                 It("xinclude", "h"), It("include", "h"), It("include", "none"),
                 Rep("A", <<B>>), Rep("B", <<A, B>>), Pre!Item("declare", "X", Const(7)),
                 Pre!Item("assign", "Y", Const(1)), It("deactivate", "X")}
      Bodies == {<<>>, <<A, Newl>>, <<Bump, Ref>>, <<Ref, B>>}
      Groups == {Once(b) : b \in Bodies} \cup {Do(1, Const(2), 1, b) : b \in Bodies}
                  \cup {Do(2, Const(0), -1, <<Ref>>), Do(1, Const(0), 1, <<Ref>>),
                        Do(1, Expr("over", "X", 0), 1, <<Ref>>), Do(0, Const(1), 0, <<Ref>>)}
      Arms == {A, Bump, Once(<<Ref, Newl>>), It("include", "f")}
      Ifs == {If(c, t, e) : c \in {Expr("less", "X", 2), Expr("over", "X", 1), Const(0)},
                            t \in Arms, e \in {<<>>} \cup {<<x>> : x \in Arms}}
      Nested == {If(c, i, e) : c \in {Expr("less", "X", 2), Const(0)},
                   i \in {If(Expr("less", "X", 1), A, <<Bump>>),
                          If(Expr("less", "X", 2), Do(1, Const(2), 1, <<Ref>>), <<B>>)},
                   e \in {<<>>, <<A>>, <<If(Const(1), A, <<B>>)>>}}
                  \cup {If(c, Once(<<If(Expr("less", "X", 2), Once(<<A>>), <<B>>)>>), <<A>>)
                          : c \in {Const(0), Const(1)}}
      Jumps == {Jump("skip", "L", Pre!Nothing, b, Once(<<A>>)) : b \in Bodies}
                 \cup {Jump("loop", "M", Expr("less", "X", 3), <<>>, Once(<<Bump, A>>)),
                       Do(1, Const(2), 1, <<Jump("skip", "L", Pre!Nothing, <<Ref>>, Once(<<Newl>>))>>)}
      Macros == {<<[op |-> "proc", n |-> "P", e |-> Pre!Nothing, par |-> "N", body |-> b], Call(Const(1))>> :
                   b \in {<<Ret(Expr("plus", "N", 1)), A>>, <<A>>,
                          <<Call(Expr("plus", "N", 1)), Ret(Const(3))>>,
                          <<Once(<<Once(<<Ret(Const(3))>>), Ret(Const(4))>>), Ret(Const(5))>>,
                          <<If(Expr("less", "N", 1), Ret(Const(0)), <<>>), Ret(Expr("plus", "N", 2))>>}}
      Start == <<Pre!Item("declare", "X", Const(1)), It("activate", "X")>>
  IN  {Start \o <<s, t>> : s \in Leaves \cup Groups \cup Ifs \cup Nested \cup Jumps, t \in Leaves \cup Groups}
        \cup {Start \o s : s \in Macros} \cup {<<s>> : s \in Leaves}

\* The files they include: f is plain, g nests f, h includes itself.
ThePreFiles ==
  LET It(op, n) == Pre!Item(op, n, Pre!Nothing)
  IN  "f" :> <<It("text", "F"), It("nl", ""), Pre!Item("declare", "Y", [k |-> "const", v |-> "", c |-> 5])>>
        @@ "g" :> <<It("xinclude", "f"), Pre!Item("assign", "X", [k |-> "plus", v |-> "X", c |-> 1])>>
        @@ "h" :> <<It("text", "H"), It("xinclude", "h"), It("include", "g"), It("include", "h")>>

\* Every pair of characters, and longer texts of characters that share a token.
TheLexTexts ==
  LET UpTo(n, A) == UNION {[1 .. k -> A] : k \in 0 .. n}
      All == Lex!Capitals \cup Lex!High \cup
               {"a", "1", "_", "nl", " ", ".", "'", "/", "*", ",", "=", ">", "<", "-", "^", "+", ";",
                ":", "|", "!", "(", ")", "&", "%", "~"}
  IN  UpTo(2, All) \cup UpTo(4, {"1", ".", "E", "+"}) \cup UpTo(4, {"1", ".", "E", "B", "I"})
        \cup UpTo(5, {"'", "B", "A", "nl"}) \cup UpTo(5, {"/", "*", "A", "nl"}) \cup UpTo(4, {"1", "S", "U", "B"})
        \cup {<<"1", ".", "1">> \o w : w \in UpTo(4, {".", "1", "C2", "A3"})}
        \cup UpTo(4, {"C3", "82", "C2", "AC", "="})
        \cup {<<"nl", "A", " ">> \o w : w \in UpTo(3, {"1", "E", "nl", " "})}

\* Statements as pairs of a spelling and a tree, for Syntax.
SynV(n) == Syn!Node("ref", <<n>>, <<>>)
SynNum(n) == Syn!Node("number", <<n>>, <<>>)
SynBin(o, x, y) == Syn!Node("binary", <<o>>, <<x, y>>)
SynCall(n, s) == Syn!Node("call", <<n>>, s)
SynAssign(t, e) ==
  Syn!Simple(Syn!Spell(t) \o <<"=">> \o Syn!Spell(e) \o <<";">>, Syn!Node("assign", <<>>, <<e, t>>))
SynNull == Syn!Simple(<<";">>, Syn!Node("null", <<>>, <<>>))

\* Every operator under every other, and keywords as names.
SynAssigns ==
  LET V == SynV("V")
      one == SynNum("1")
      Un(o, x) == Syn!Node("unary", <<o>>, <<x>>)
      E1 == {V, one, Un("-", V), Un("^", V), SynCall("V", <<one>>), Syn!Node("at", <<>>, <<SynV("Q"), V>>)}
              \cup {SynBin(o, V, one) : o \in {"|", "&", "=", "||", "+", "*", "**"}}
      E2 == E1 \cup {Un("-", x) : x \in E1}
              \cup {SynBin(o, x, y) : o \in {"|", "&", "<", "||", "-", "/", "**"}, x \in E1, y \in E1}
  IN  {SynAssign(V, e) : e \in E2}
        \cup {SynAssign(SynV("IF"), one), SynAssign(SynCall("IF", <<one>>), SynV("THEN")),
              SynAssign(SynCall("DO", <<one>>), SynV("DO")), SynAssign(SynCall("FREE", <<V>>), one),
              SynAssign(SynCall("RETURN", <<V>>), one), SynAssign(SynV("END"), SynV("IF")),
              SynAssign(SynV("SELECT"), one)}

\* One statement or more of every other kind.
SynStatements ==
  LET V == SynV("V")
      Q == SynV("Q")
      one == SynNum("1")
      St(t, n) == Syn!Simple(t, n)
      Opt(k, table, vals) ==
        Syn!OptionNode(k, [o \in DOMAIN table \cup {"LIST", "EDIT"} |-> IF o \in DOMAIN vals THEN vals[o] ELSE <<>>])
      Fmt(w, s) == Syn!Node("format", <<w>>, s)
      F31 == Fmt("F", <<SynNum("3"), one>>)
      Record(table) == table @@ [FILE |-> "", INTO |-> "", FROM |-> ""]
      Cond(w) == Syn!Node("cond", w, <<>>)
  IN { SynNull,
    St(<<"V", ",", "Q", "=", "1", ";">>, Syn!Node("assign", <<>>, <<one, V, Q>>)),
    St(<<"V", "=", "Q", ",", "BY", "NAME", ";">>, Syn!Node("assign", <<"BY NAME">>, <<Q, V>>)),
    St(<<"CALL", "P", "(", "V", ",", "*", ")", "TASK", "EVENT", "(", "Q", ")", ";">>,
       Syn!Node("callS", <<"P">>,
         <<Syn!OptionNode("options", [TASK |-> Syn!Flag("TASK"), EVENT |-> <<Q>>, PRIORITY |-> <<>>]),
           V, Syn!Node("star", <<>>, <<>>)>>)),
    St(<<"PUT", "SKIP", "LIST", "(", "V", ",", "1", ")", "FILE", "(", "Q", ")", ";">>,
       Opt("put", Syn!PutTable, [SKIP |-> Syn!Flag("SKIP"), LIST |-> <<V, one>>, FILE |-> <<Q>>])),
    St(<<"PUT", "EDIT", "(", "V", ")", "(", "(", "2", ")", "(", "F", "(", "3", ",", "1", ")", ",",
         "X", "(", "1", ")", ")", ",", "A", ")", "PAGE", ";">>,
       Opt("put", Syn!PutTable, [LIST |-> <<V>>, PAGE |-> Syn!Flag("PAGE"),
            EDIT |-> <<F31, Fmt("X", <<one>>), F31, Fmt("X", <<one>>), Fmt("A", <<>>)>>])),
    St(<<"GET", "DATA", "(", "V", ")", "COPY", ";">>,
       Opt("get", Syn!GetTable, [LIST |-> <<V>>, DATA |-> Syn!Flag("DATA"), COPY |-> Syn!Flag("COPY")])),
    St(<<"GET", "EDIT", "(", "V", ")", "(", "C", "(", "F", "(", "3", ")", ",", "P", "(", "'c'", ")", ")", ",",
         "R", "(", "M", ")", ",", "(", "V", ")", "(", "COL", "(", "1", ")", ")", ")", ";">>,
       Opt("get", Syn!GetTable, [LIST |-> <<V>>,
            EDIT |-> <<Fmt("C", <<Fmt("F", <<SynNum("3")>>), Fmt("P", <<>>)>>), Fmt("R", <<SynV("M")>>),
                       Syn!Node("repeat", <<>>, <<V, Fmt("COL", <<one>>)>>)>>])),
    St(<<"OPEN", "FILE", "(", "Q", ")", "RECORD", "UPDATE", "TITLE", "(", "'c'", ")", "LINESIZE", "(", "2", ")", ";">>,
       Opt("open", Syn!OpenTable, [FILE |-> <<Q>>, RECORD |-> Syn!Flag("RECORD"), UPDATE |-> Syn!Flag("UPDATE"),
                                   TITLE |-> Syn!Flag("TITLE"), LINESIZE |-> <<SynNum("2")>>])),
    St(<<"CLOSE", "FILE", "(", "Q", ")", ";">>, Opt("close", Syn!CloseTable, [FILE |-> <<Q>>])),
    St(<<"READ", "FILE", "(", "Q", ")", "INTO", "(", "V", ")", "KEY", "(", "1", ")", "NOLOCK", ";">>,
       Opt("READ", Record([Syn!RecordTable EXCEPT !.KEY = ""]),
           [FILE |-> <<Q>>, INTO |-> <<V>>, KEY |-> <<one>>, NOLOCK |-> Syn!Flag("NOLOCK")])),
    St(<<"DELETE", "FILE", "(", "Q", ")", "KEY", "(", "1", ")", ";">>,
       Opt("DELETE", Record(Syn!RecordTable), [FILE |-> <<Q>>, KEY |-> <<one>>])),
    St(<<"WAIT", "(", "V", ",", "Q", ")", "(", "1", ")", ";">>, Syn!Node("wait", <<"count">>, <<one, V, Q>>)),
    St(<<"DELAY", "(", "1", ")", ";">>, Syn!Node("delay", <<>>, <<one>>)),
    St(<<"DISPLAY", "(", "V", ")", "REPLY", "(", "Q", ")", ";">>, Syn!Node("display", <<>>, <<V, Q>>)),
    St(<<"ALLOCATE", "V", "(", "1", ":", "3", ",", "*", ")", "CHAR", "(", "1", ")", "VARYING", "SET", "(", "Q", ")",
         ",", "1", "M", ";">>,
       Syn!Node("allocate", <<>>,
         <<Syn!Node("item", <<"V", "CHAR", "VARYING">>,
             <<Syn!Node("bound", <<>>, <<one, SynNum("3")>>), Syn!Node("bound", <<>>, <<>>),
               Syn!Node("length", <<>>, <<one>>), Syn!Node("option", <<"SET">>, <<Q>>)>>),
           Syn!Node("item", <<"M">>, <<>>)>>)),
    St(<<"ALLOCATE", "V", "IN", "(", "M", ")", "SET", "(", "Q", ")", ";">>,
       Syn!Node("allocate", <<>>,
         <<Syn!Node("item", <<"V">>, <<Syn!Node("option", <<"IN">>, <<SynV("M")>>),
                                       Syn!Node("option", <<"SET">>, <<Q>>)>>)>>)),
    St(<<"FREE", "(", "Q", "->", "V", "IN", "(", "M", ")", ",", "V", ")", ";">>,
       Syn!Node("free", <<>>, <<Syn!Node("item", <<>>, <<Syn!Node("at", <<>>, <<Q, V>>), SynV("M")>>),
                                Syn!Node("item", <<>>, <<V>>)>>)),
    St(<<"SIGNAL", "CONDITION", "(", "M", ")", "SET", "ONCODE", "(", "1", ")", ";">>,
       Syn!Node("signal", <<>>, <<Cond(<<"CONDITION", "M">>), one>>)),
    St(<<"REVERT", "ENDFILE", "(", "Q", ")", ";">>, Syn!Node("revert", <<>>, <<Cond(<<"ENDFILE", "Q">>)>>)),
    St(<<"ON", "ERROR", "SYSTEM", ";">>, Syn!Node("on", <<"SYSTEM">>, <<Cond(<<"ERROR">>)>>)),
    St(<<"LEAVE", "L", ";">>, Syn!Node("LEAVE", <<"L">>, <<>>)),
    St(<<"ITERATE", ";">>, Syn!Node("ITERATE", <<>>, <<>>)),
    St(<<"RETURN", "(", "V", ")", ";">>, Syn!Node("return", <<>>, <<V>>)),
    St(<<"STOP", ";">>, Syn!Node("stop", <<>>, <<>>)),
    St(<<"GO", "TO", "L", ";">>, Syn!Node("goto", <<"L">>, <<>>)),
    St(<<"GOTO", "(", "V", ")", ";">>, Syn!Node("goto", <<>>, <<V>>)),
    St(<<"DEFINE", "CONSTANT", "V", "1", ";">>, Syn!Node("constant", <<"V">>, <<one>>)),
    St(<<"DECLARE", "V", "FIXED", ";">>, Syn!Node("declare", <<"V", "FIXED">>, <<>>)) }

\* Blocks and groups, closed by END, by END with their label, from inside
\* (multiple closure) and by a labelled END, and what can contain them.
TheSources ==
  LET V == SynV("V")
      one == SynNum("1")
      A == SynAssign(V, one)
      Small == {A, SynNull}
      Spec(w, e) == Syn!Node("spec", <<w>>, <<e>>)
      Do == <<<<"DO", ";">>, Syn!Node("group", <<>>, <<>>)>>
      Heads == {Do, <<<<"DO", "WHILE", "(", "V", ")", ";">>, Syn!Node("while", <<>>, <<V>>)>>,
                <<<<"DO", "UNTIL", "(", "V", ")", ";">>, Syn!Node("until", <<>>, <<V>>)>>,
                <<<<"DO", "FOREVER", ";">>, Syn!Node("forever", <<>>, <<>>)>>,
                <<<<"DO", "V", "=", "1", "BY", "1", "TO", "2", "WHILE", "(", "V", ")", ";">>,
                  Syn!Node("doIter", <<"V">>, <<Spec("FROM", one), Spec("BY", one), Spec("TO", SynNum("2")),
                                                Spec("WHILE", V)>>)>>,
                <<<<"BEGIN", ";">>, Syn!Node("begin", <<>>, <<>>)>>}
      End == <<"END", ";">>
      EndOf(l) == <<"END", l, ";">>
      N(end) == <<"N", ":">> \o end
      Block(h, l, s, e, x) == Syn!S("block", l, <<>>, h[1], h[2], s, e, x)
      Blocks ==
        {Block(h, <<>>, <<s>>, End, <<>>) : h \in Heads, s \in Small}
          \cup {Block(h, <<"L">>, <<s>>, EndOf("L"), <<>>) : h \in Heads, s \in Small}
          \cup {Block(h, <<"L">>, <<A>>, N(EndOf("L")), <<"N">>) : h \in Heads}
          \cup {Block(h, <<>>, <<A>>, N(End), <<"N">>) : h \in Heads}
          \cup {Block(h, <<"L">>, <<A, Block(g, <<>>, <<SynNull>>, EndOf("L"), <<>>)>>, <<>>, <<>>) : h \in Heads, g \in Heads}
          \cup {Block(Do, <<"L">>,
                  <<Block(g, <<"M">>, <<SynNull, Block(Do, <<>>, <<>>, N(EndOf("L")), <<>>)>>, <<>>, <<>>)>>,
                  <<>>, <<"N">>) : g \in Heads}
      If(t, c, s) == Syn!S("if", <<>>, <<>>, <<"IF">> \o t \o <<"THEN">>, Syn!Node("if", <<>>, <<c>>), s, <<>>, <<>>)
      IfOf(c, s) == If(Syn!Spell(c), c, s)
      \* The shape of an assignment to IF(V).
      IfProbe(s) == If(<<"(", "V", ")", "=", "1">>, SynBin("=", V, one), s)
      Arm(t, n, s) == Syn!S("when", <<>>, <<>>, t, n, <<s>>, <<>>, <<>>)
      Case(s) == Arm(<<"WHEN", "(", "1", ",", "2", ")">>,
                     SynBin("|", SynBin("=", V, one), SynBin("=", V, SynNum("2"))), s)
      Test(s) == Arm(<<"WHEN", "(", "V", ")">>, V, s)
      Other(s) == Syn!S("otherwise", <<>>, <<>>, <<"OTHERWISE">>, Syn!None, <<s>>, <<>>, <<>>)
      Select(t, arms, e) == Syn!S("select", <<>>, <<>>, t, Syn!None, arms, e, <<>>)
      OnV == <<"SELECT", "(", "V", ")", ";">>
      Closing == {Block(Do, <<"L">>, <<s>>, <<>>, <<>>) :
                    s \in {IfOf(V, <<Block(Do, <<>>, <<A>>, EndOf("L"), <<>>)>>),
                           IfOf(V, <<SynNull, Block(Do, <<>>, <<A>>, EndOf("L"), <<>>)>>),
                           Select(OnV, <<Case(A), Case(Block(Do, <<>>, <<>>, EndOf("L"), <<>>))>>, <<>>)}}
      Selects == {Select(OnV, <<Case(s), Case(t), Other(u)>>, End) : s \in Small, t \in Small, u \in Small}
                   \cup {Select(<<"SELECT", ";">>, <<Test(s), Test(b)>>, End) : s \in Small, b \in Blocks}
      Probes == {IfProbe(<<s>>) : s \in Small} \cup {IfProbe(<<s, t>>) : s \in Small \cup Blocks, t \in Small}
      Ifs == {IfOf(c, <<s>>) : c \in {V, SynBin("=", V, one), SynV("IF")}, s \in Small}
               \cup {IfOf(V, <<s, t>>) : s \in Small \cup Blocks, t \in Small}
               \cup {IfOf(SynV("IF"), <<A, t>>) : t \in Blocks}
               \cup {IfOf(V, <<IfProbe(<<A, SynNull>>), IfOf(V, <<A, SynNull>>)>>)}
      Ons == {Syn!S("if", <<>>, <<>>, <<"ON", "ERROR">>, Syn!Node("on", <<>>, <<Syn!Node("cond", <<"ERROR">>, <<>>)>>),
                    <<s>>, <<>>, <<>>) : s \in Small \cup Blocks}
      Stmts == SynStatements \cup SynAssigns \cup Blocks \cup Closing \cup Selects \cup Probes \cup Ifs \cup Ons
      Labelled == {[x EXCEPT !.l = <<"M">>] : x \in SynStatements \cup Selects \cup Ifs \cup Ons}
      Prefixes == {<<"NOSIZE">>, <<"CHECK", "(", "SIZE", ")">>, <<"STRINGRANGE">>, <<"NOCHECK">>,
                   <<"SIZE", ",", "NOSTRINGRANGE">>}
      Prefix(x, f) == [x EXCEPT !.f = f]
      Prefixed == {Prefix(x, f) : f \in Prefixes,
                     x \in {A, IfProbe(<<A>>), Block(Do, <<"L">>, <<A, Prefix(SynNull, <<"NOCHECK">>)>>, End, <<>>)}
                             \cup Selects}
      \* Malformed statements that the parser recovers from at their end, when
      \* an assignment follows.
      Bad == {Syn!Bad(<<h, x, ";">>) :
                h \in {"PUT", "WAIT", "IF", "SELECT", "OPEN", "ON", "DELAY", "ENTRY", "DEFINE"}, x \in {"V"}}
               \cup {Syn!Bad(<<h, "1", ";">>) : h \in {"CALL", "DO", "ALLOCATE", "LEAVE"}}
               \cup {Syn!Bad(<<"V", "Q", ";">>)}
      Proc(l, f, s, e, x) == Syn!S("proc", <<l>>, f, <<"PROC", ";">>, Syn!Node("proc", <<>>, <<>>), s, e, x)
      Main(s) == <<Proc("P", <<>>, s, End, <<>>)>>
  IN  {Main(<<x, SynNull>>) : x \in Stmts \cup Labelled \cup Prefixed}
        \cup {Main(<<x, A, y, A>>) : x \in Bad, y \in Bad}
        \cup {<<Proc("P", f, <<A, Proc("Q", g, <<A, Prefix(A, h)>>, EndOf("Q"), <<>>), A>>, End, <<>>)>> :
                f \in Prefixes, g \in Prefixes \cup {<<>>}, h \in Prefixes}
        \cup {<<Proc("P", <<>>, <<A>>, N(EndOf("P")), <<"N">>), Proc("Q", f, <<A>>, End, <<>>)>> : f \in Prefixes}
        \cup {<<Proc("P", <<>>, <<Block(h, <<>>, <<A>>, EndOf("P"), <<>>)>>, <<>>, <<>>)>> : h \in Heads}

\* Pairs of attributes, with a dimension before them or without.
TheDeclared ==
  LET Attrs ==
        {<<w>> : w \in Dcl!ScalarWords \cup Dcl!Flags \cup
                 {"EXTERNAL", "ENTRY", "BASED", "AREA", "OFFSET", "REDUCIBLE", "ENVIRONMENT", "BUILTIN"}}
          \cup {<<w, "(", "3", ",", "1", ")">> : w \in {"FIXED", "BINARY", "DECIMAL"}}
          \cup {<<"BINARY", "(", "3", ",", "-", "1", ")">>, <<"FIXED", "(", "0", ")">>}
          \cup {<<w, "(", "2", ")">> : w \in {"FLOAT", "CHARACTER", "BIT", "INITIAL", "AREA", "VALUE"}}
          \cup {<<w, "(", "*", ")">> : w \in {"CHARACTER", "BIT", "AREA", "USES"}}
          \cup {<<w, "(", "V", ")">> : w \in {"CHARACTER", "BASED", "OFFSET", "RETURNS", "ABNORMAL", "SETS"}}
          \cup {<<"DEFINED", "Q", "(", "2", "*", "1SUB", "+", "1", ",", "V", ")", "POSITION", "(", "2", ")">>,
                <<"LIKE", "Q", ".", "V">>, <<"TYPE", "Q">>, <<"EXTERNAL", "(", "'c'", ")">>,
                <<"PICTURE", "(", "'c'", ")">>,
                <<"OPTIONS", "(", "BYVALUE", ",", "LINKAGE", "(", "SYSTEM", ")", ")">>,
                <<"ENTRY", "(", "(", "*", ",", "2", ")", "FIXED", ",", "CHARACTER", "(", "*", ")", "VARYING", ",",
                  "POINTER", ")">>,
                <<"RETURNS", "(", "CHARACTER", "(", "*", ")", ")">>,
                <<"INITIAL", "(", "(", "2", ")", "(", "1", ",", "*", ")", ",", "(", "V", ",", "1", ")", ",", "-", "1", ")">>,
                <<"INITIAL", "(", "CALL", "Q", "(", "1", ",", "*", ")", ")">>,
                <<"GENERIC", "(", "Q", "WHEN", "(", "FIXED", "BINARY", "(", "1", ")", ")", ",", "V", "WHEN", "(", "BIT",
                  ")", ")">>}
      \* Words after which a bare "(3)" is not read as the dimension.
      NotBefore == {"CONDITION", "RESERVED", "NONPRINT", "NORMAL", "IMAGINARY", "USES", "SETS", "ABNORMAL", "RETURNS",
                    "GENERIC", "REDUCIBLE", "IRREDUCIBLE", "OPTIONS", "ENVIRONMENT", "BUILTIN", "INT"}
      Precise(x) == Len(x) > 1 /\ x[1] \in {"FIXED", "FLOAT", "BINARY", "DECIMAL"}
      Ok(x, y) == x[1] # y[1] /\ ~(Precise(x) /\ Precise(y)) /\ {x[1], y[1]} # {"VALUE", "INITIAL"}
      Pairs(A) == {<<x, y>> : x \in A, y \in Attrs}
      All(A, dims) == {[dim |-> d, attrs |-> s] : d \in dims, s \in {t \in Pairs(A) : Ok(t[1], t[2])}}
  IN  {w \in All(Attrs, {<<>>}) : w # Dcl!Ordered(w)}
        \cup {w \in All({x \in Attrs : Len(x) > 4}, {<<"(", "3", ")">>, <<"(", "-", "1", ":", "V", ",", "2", ")">>}) :
                Len(w.dim) = 3 => Dcl!WordsOf(w) \cap NotBefore = {}}

\* Two or three statements in a row, loops and branches around them.
TheUnsetPrograms ==
  LET Ex(k, n, args) == [k |-> k, name |-> n, args |-> args]
      X == Ex("var", "x", <<>>)
      Y == Ex("var", "y", <<>>)
      K == Ex("op", "", <<>>)
      AddrX == Ex("addr", "ADDR", <<X>>)
      S(kind, e, t, body, alt, names) == [kind |-> kind, e |-> e, t |-> t, body |-> body, alt |-> alt, names |-> names]
      St(kind, e, t) == S(kind, e, t, <<>>, <<>>, {})
      Bare == {St("assign", <<K>>, <<X>>), St("assign", <<X>>, <<Y>>),
               St("assign", <<Ex("call", "F", <<X>>)>>, <<Ex("var", "y", <<X>>)>>),
               St("put", <<X>>, <<>>), St("put", <<Y>>, <<X>>), St("get", <<Y>>, <<X>>), St("call", <<X>>, <<>>),
               St("return", <<X>>, <<>>), St("stop", <<>>, <<>>), St("read", <<>>, <<X>>),
               St("allocate", <<Y>>, <<X>>), St("on", <<>>, <<>>)}
      FewBare == {St("assign", <<K>>, <<X>>), St("assign", <<X>>, <<Y>>), St("return", <<X>>, <<>>), St("null", <<>>, <<>>)}
      Few == FewBare \cup {St("leave", <<>>, <<>>), St("iterate", <<>>, <<>>)}
      Ifs(A) == {S("if", <<K>>, <<>>, <<x>>, y, {}) : x \in A, y \in {<<>>} \cup {<<q>> : q \in A}}
      Blocks == {S("begin", <<>>, <<>>, <<x, y>>, <<>>, {"y"}) : x \in FewBare, y \in FewBare}
      Loops(b) == {S("while", <<X>>, <<>>, b, <<>>, {}), S("until", <<K>>, <<>>, b, <<>>, {}),
                   S("until", <<X>>, <<>>, b, <<>>, {}), S("forever", <<>>, <<>>, b, <<>>, {}),
                   S("iter", <<Y>>, <<>>, b, <<>>, {"x"})}
      Inner == UNION {Loops(<<x, y>>) : x \in Few \cup Ifs(Few), y \in Few}
      Invoke == S("invoke", <<>>, <<>>, <<>>, <<>>, {"x"})
      SetAddr == St("assign", <<AddrX>>, <<Y>>)
      P(b) == [body |-> b, local |-> {"x", "y"}, other |-> {"z"}]
  IN  {P(<<x, y, z>>) : x \in Bare, y \in Bare, z \in FewBare}
        \cup {P(<<x, z>>) : x \in Inner, z \in {St("assign", <<X>>, <<Y>>), St("null", <<>>, <<>>)}}
        \cup {P(<<x, y, z>>) : x \in Ifs(FewBare), y \in Blocks, z \in FewBare}
        \cup {P(<<x, y>>) : x \in {Invoke}, y \in Bare}
        \cup {P(<<x, SetAddr, y>>) : x \in Bare, y \in {St("label", <<>>, <<>>), St("put", <<X>>, <<>>)}}

\* MAIN calls P, which may call Q, nested in MAIN or in P; x is MAIN's, g STATIC,
\* z BASED, l P's, e an entry variable.
TheCallPrograms ==
  LET E(h, v) == [how |-> h, v |-> v]
      N == E("lit", "")
      Set(v, e) == [Cal!Abort EXCEPT !.op = "assign", !.v = v, !.e = e]
      Call(q, x) == [Cal!Abort EXCEPT !.op = "call", !.q = q, !.args = <<x>>]
      Body(op, v, b) == [Cal!Abort EXCEPT !.op = op, !.v = v, !.body = <<b>>]
      On(k, b) == [Cal!Abort EXCEPT !.op = "on", !.key = k, !.body = <<b>>]
      CallEntry == [Cal!Abort EXCEPT !.op = "callentry"]
      Program(par, chars, checks, m, p, q) ==
        [procs |-> <<"MAIN", "P", "Q", "R">>, parent |-> [MAIN |-> "", P |-> "MAIN", Q |-> par, R |-> "MAIN"],
         params |-> [MAIN |-> <<>>, P |-> <<"a">>, Q |-> <<"b">>, R |-> <<>>],
         owner |-> [x |-> "MAIN", g |-> "MAIN", e |-> "MAIN", p |-> "MAIN", z |-> "MAIN", a |-> "P", l |-> "P", b |-> "Q"],
         static |-> {"g", "e", "p"}, based |-> {"z"}, chars |-> chars, recursive |-> {"P", "Q"},
         body |-> [MAIN |-> m, P |-> p, Q |-> q, R |-> <<Set("g", N)>>], checks |-> checks, byVal |-> {}]
      Starts == {<<>>, <<On("SIZE", Set("x", N))>>, <<Set("p", E("ADDR", "x"))>>}
      Mains == {s \o <<Call("P", x), Set("g", E("var", "x"))>> :
                  s \in Starts, x \in {E("var", "x"), E("var", "g"), E("arith", "x")}}
      Leaves == {Set(v, N) : v \in {"x", "g", "l", "a", "z"}}
                  \cup {Set("l", E(h, v)) : h \in {"var", "arith", "convert", "SUBSTR", "ADDR"}, v \in {"x", "a", "g"}}
                  \cup {Set("l", E("REPEAT", "l")), [Cal!Abort EXCEPT !.op = "put"], Cal!Abort,
                        Body("while", "", Set("l", N)), Body("iter", "l", Set("a", N)), Body("iter", "x", Set("l", N))}
      Calls == {Call("Q", E("var", v)) : v \in {"x", "a", "l", "g"}} \cup {Call("Q", E("arith", "a"))}
      Varying == {Call("Q", E("vary", v)) : v \in {"x", "a", "l", "g"}}
      QBodies == {<<Set(v, N)>> : v \in {"x", "g", "b"}}
                   \cup {<<Set("b", E(h, v))>> : h \in {"var", "arith"}, v \in {"x", "g", "b"}}
                   \cup {<<Call("P", E("var", "b"))>>, <<Set("x", E("var", "b"))>>, <<Cal!Abort>>, <<>>}
      After(c) == {<<c>>, <<c, Set("x", E("var", "a"))>>, <<Body("if", "", c)>>}
  IN  {Program("MAIN", {}, ck, m, <<s>>, <<>>) : ck \in BOOLEAN, m \in Mains, s \in Leaves}
        \cup {Program(par, {}, FALSE, m, p, q) : par \in {"MAIN", "P"}, m \in Mains,
                p \in UNION {After(c) : c \in Calls}, q \in QBodies}
        \cup {Program("P", {"a", "b"}, ck, <<Call("P", E(h, "x"))>>, p, q) : ck \in BOOLEAN, h \in {"var", "vary"},
                p \in UNION {After(c) : c \in Varying}, q \in QBodies}
        \cup {Program("MAIN", {}, FALSE, <<Set("e", E("name", "R")), CallEntry, Set("x", E("var", "g"))>>, <<s>>, <<>>) :
                s \in {Cal!Abort}}

\* Two statements or a loop on a CONTROLLED variable, then a reference to it.
TheCtlPrograms ==
  LET S(op, form, b) == [op |-> op, form |-> form, body |-> b, n |-> 0]
      R == S("ref", "", <<>>)
      Grow == [S("grow", "", <<>>) EXCEPT !.n = 3]
      New == S("alloc", "bare", <<>>)
      NewOther == S("alloc", "other", <<>>)
      Free == S("free", "bare", <<>>)
      Atom == {R, S("signal", "", <<>>), S("callP", "", <<>>), S("callQ", "", <<>>), Free}
                \cup {S("alloc", f, <<>>) : f \in {"bare", "declared", "other", "star"}}
      Loops == {S("do", f, b) : f \in {"while", "until", "forever", "iter"},
                  b \in {<<R, x>> : x \in Atom} \cup {<<x, R>> : x \in Atom}}
      Nested == {<<>>, <<R>>, <<New, R>>, <<Free>>}
      Units == {<<>>, <<R>>, <<NewOther, R>>}
  IN  [type : {"fixed", "dims"}, body : {<<x, y, R>> : x \in Atom, y \in Atom}, nested : Nested, unit : Units]
        \cup [type : {"fixed"}, body : {<<x, l, R>> : x \in {New, NewOther}, l \in Loops}, nested : {<<>>, <<New, R>>},
              unit : {<<R>>}]
        \cup [type : {"star"}, nested : Nested, unit : Units,
              body : {<<Grow, S("do", "while", <<R>>), R>>, <<NewOther, S("do", "while", <<R, Grow>>), R>>}]

\* An operation of two variables, of constants, and three statements in a row
\* on every class of storage.
TheFixPrograms ==
  LET V(n, t) == [op |-> "var", name |-> n, v |-> 0, ty |-> t, args |-> <<>>]
      Op(o, args) == [op |-> o, name |-> "", v |-> 0, ty |-> Fix!fixedDec(1, 0), args |-> args]
      St(k, t, e, c) == [kind |-> k, t |-> t, e |-> e, chk |-> c]
      Auto(t) == [ty |-> t, class |-> "auto"]
      P(x, y, z, h, body) == [decl |-> [a |-> Auto(x), b |-> Auto(y), t |-> Auto(z)], handled |-> h, body |-> body]
      A(x) == V("a", x)
      B(y) == V("b", y)
      Types == {Fix!fixedBin(2, 0), Fix!fixedBin(4, 0), Fix!fixedBin(5, 1), Fix!fixedBin(7, 0),
                Fix!fixedDec(1, 0), Fix!fixedDec(2, 1), Fix!fixedDec(3, 1), Fix!fixedDec(3, 0)}
      Lits == {Fix!IntLit(0), Fix!IntLit(3), Fix!IntLit(12), Fix!IntLit(120), Fix!IntLit(250), Fix!DecLit(5, 1),
               Fix!DecLit(25, 2), Fix!DecLit(15, 1), Fix!DecLit(999, 1)}
      One(x, y, z, e) == P(x, y, z, TRUE, <<St("assign", "t", e, TRUE)>>)
      dec20 == Fix!fixedDec(2, 0)
      bin40 == Fix!fixedBin(4, 0)
      Vars == {One(x, y, z, Op(o, <<A(x), B(y)>>)) : x \in Types, y \in Types,
                 z \in {Fix!fixedBin(4, 0), Fix!fixedBin(5, 1), Fix!fixedDec(2, 1)}, o \in {"+", "-", "*", "/"}}
      Consts == {One(dec20, bin40, z, Op(o, <<x, y>>)) : z \in {Fix!fixedBin(4, 0), Fix!fixedDec(2, 1), Fix!fixedDec(3, 1)},
                   o \in {"+", "-", "*", "/"}, x \in Lits, y \in Lits}
      Nest == {One(dec20, bin40, z, Op(o, <<Op(o2, <<x, y>>), Op("neg", <<A(dec20)>>)>>)) : z \in Types,
                 o \in {"+", "*", "-"}, o2 \in {"+", "*"},
                 x \in {Fix!IntLit(3), Fix!DecLit(15, 1)}, y \in {Fix!IntLit(12), Fix!DecLit(5, 1)}}
                \cup {One(dec20, bin40, z, Op("/", <<Op("+", <<A(dec20), x>>), x>>)) : z \in Types, x \in Lits \cup {B(bin40)}}
      Fixedly(p) == \A o \in Fix!Ops(p.body[1].e) :
                      o.op \in {"var", "lit", "neg"} \/ Fix!InFixed(o.op, o.args[1].ty, o.args[2].ty)
      Rows == UNION {{P(x, y, z, h, <<s1, s2, St("assign", "t", Op("+", <<A(x), B(y)>>), TRUE)>>) :
                 s1 \in {St("init", "a", l, TRUE) : l \in Lits}
                          \cup {St(k, "a", Fix!IntLit(0), TRUE) : k \in {"unspec", "call", "addr"} }
                          \cup {St("assign", "t", Op("*", <<A(x), A(x)>>), FALSE)},
                 s2 \in {St("assign", "t", Op("*", <<A(x), A(x)>>), TRUE), St("assign", "a", Op("neg", <<B(y)>>), TRUE),
                         St("read", "t", Fix!IntLit(0), TRUE)}} :
               x \in {Fix!fixedBin(2, 0), Fix!fixedBin(5, 1)}, y \in {bin40, Fix!fixedDec(2, 1)},
               z \in {Fix!fixedBin(3, 0), Fix!fixedBin(2, 1)}, h \in BOOLEAN}
      Shared == {[p EXCEPT !.decl.a.class = c] : c \in {"static", "param", "based"},
                   p \in {q \in Rows : q.body[1].kind = "unspec"}}
  IN  {p \in Vars \cup Consts \cup Nest : Fixedly(p)} \cup Rows \cup Shared

\* DO groups over constant and variable bounds; the body takes MODs, leaves,
\* iterates and changes what the bounds were read from.
TheLoopPrograms ==
  LET Lit(v) == [given |-> TRUE, lit |-> TRUE, negated |-> v < 0, v |-> v]
      Var(v) == [given |-> TRUE, lit |-> FALSE, negated |-> FALSE, v |-> v]
      None == [given |-> FALSE, lit |-> FALSE, negated |-> FALSE, v |-> 0]
      S(k, v, m) == [kind |-> k, v |-> v, k |-> m]
  IN  [from : {Lit(0), Lit(3), Var(-2)}, to : {None, Lit(2), Lit(5), Lit(7), Var(-3)},
       by : {None, Lit(2), Lit(-1), Var(-2), Var(3)}, while : {None, Var(1)}, prec : {2, 3},
       size : BOOLEAN, subs : {TRUE}, handled : BOOLEAN,
       body : {<<S("mod", 0, 3)>>, <<S("mod", -3, 3), S("bounds", 0, 0)>>, <<S("leave", 2, 0), S("modc", -2, -3)>>,
               <<S("iterate", 1, 0), S("set", -1, 0)>>, <<S("mod", -2, 4), S("set", 1, 0), S("leave", 1, 0)>>}]
        \cup [from : {Lit(0)}, to : {Lit(2)}, by : {None}, while : {None}, prec : {3}, size : BOOLEAN, subs : {FALSE},
              handled : BOOLEAN, body : {<<S("bounds", 0, 0)>>}]

\* Two invocations, alike.
DriverSymmetry == Permutations(DriverRuns)
\* A main unit M and a library unit L, whose versions differ in signature and
\* effects.
TheDriverVersions ==
  LET Ver(n, ok, sig, e) == [ver |-> n, ok |-> ok, sig |-> sig, effect |-> e]
  IN  [M |-> <<Ver(1, TRUE, "a", "")>>,
       L |-> <<Ver(1, TRUE, "a", "readwrite"), Ver(2, TRUE, "b", "argmem-read")>>]
TheDriverCommands ==
  LET A(k) == [k |-> k, v |-> ""]
      V(k, v) == [k |-> k, v |-> v]
      M == V("unit", "M")
      L == V("unit", "L")
  IN  {<<A("-c"), A("--emit-effects="), L>>, <<A("-c"), A("--effects="), M>>, <<V("object", "M"), V("object", "L")>>,
       <<A("--effects="), M, V("object", "L")>>, <<A("-c"), V("-o", "x"), M, L>>,
       <<A("--keep-ll"), A("--release"), A("--size-checks"), A("--no-subscript"), A("-O3"), M, L>>}

\* Texts put together from integers, fractions and exponents; values of every
\* width, at the ends of their ranges.
TheJobs ==
  LET Ty(b, p, q) == [base |-> b, prec |-> p, scale |-> q]
      Job(k, t, after, ty, v, cap, w, d, f) ==
        [kind |-> k, text |-> t, after |-> after, ty |-> ty, v |-> v, cap |-> cap, w |-> w, d |-> d, f |-> f]
      Ints == {<<>>, <<"0">>, <<"0", "0", "1">>, <<"1", "5">>, <<"9", "9", "5">>, <<"1", "0", "0", "0">>}
      Fracs == {<<>>, <<".">>, <<".", "5">>, <<".", "0", "5">>, <<".", "4", "9">>, <<".", "0", "0", "5">>, <<".", "1", ".", "5">>}
      Exps == {<<>>, <<"E">>, <<"E", "1">>, <<"e", "-", "1">>, <<"E", "+", "2">>, <<"E", "3">>, <<"E", "9", "9">>,
               <<"E", "-", "9", "9">>, <<"E", "-">>}
      Built == {s \o i \o f \o x : s \in {<<>>, <<"-">>}, i \in Ints, f \in Fracs, x \in Exps}
      Odd == {<<>>, <<" ">>, <<" ", "-">>, <<"TAB", "+", "5", "X">>, <<"-", "-", "5">>,
              <<" ", " ", "-", ".", "5", "E", "1", " ">>, <<"+", ".", "E", "1">>, <<"5", " ", "1">>}
      Types == {Ty(10, p, q) : p \in 1 .. 4, q \in -1 .. 3} \cup {Ty(2, p, q) : p \in {3, 6, 9}, q \in -1 .. 3}
      Vals(ty) == LET m == ty.base^ty.prec
                  IN  {v \in -m .. m - 1 : /\ v % 97 \in {0, 50} \/ v > m - 3 \/ v < 3 - m \/ v \in {-6, -5, -4, -1, 1, 4}
                                           /\ ty.base = 10 => v # -m}
  IN  {Job("convert", t, " ", ty, 0, 0, 0, 0, 0) : t \in Built, ty \in {Ty(10, 2, 1), Ty(2, 4, 1)}}
        \cup {Job("convert", t, "-", ty, 0, 0, 0, 0, 0) :
                t \in Odd, ty \in {Ty(10, 2, 0), Ty(10, 3, 1), Ty(2, 4, 1), Ty(2, 7, 0)}}
        \cup {Job("char", <<>>, " ", Ty(2, 4, 0), v, c, 0, 0, 0) :
                v \in {-512, -511, -100, -99, -10, -9, -1, 0, 1, 9, 10, 99, 100, 511}, c \in {0, 1, 3, 4, 6}}
        \cup UNION {{Job("list", <<>>, " ", ty, v, 0, 0, 0, 0) : v \in Vals(ty)} : ty \in Types}
        \cup UNION {{Job("edit", <<>>, " ", ty, v, 0, w, d, f) : v \in Vals(ty), w \in {0, 6}, d \in {0, 1, 3}, f \in {-1, 0, 1}} :
                      ty \in {Ty(10, 2, 0), Ty(10, 2, 2), Ty(10, 2, 1), Ty(2, 4, 0)}}
        \cup {Job("read", b \o i \o f \o z, " ", Ty(10, 2, q), 0, 0, 0, 0, 0) : b \in {<<>>, <<" ", "-">>}, i \in Ints,
                f \in Fracs, z \in {<<>>, <<",", "3">>, <<"1", "2", "3">>}, q \in 0 .. 2}

TheLiterals == {<<>>, <<2, 1>>, <<0, 1, 2>>}

-----------------------------------------------------------------------------
\* The output of the preprocessor is the program's text with its directives
\* carried out, as the reference reading of %IF, %DO, %GOTO, macros, %REPLACE
\* and %INCLUDE defines it, whatever way the scan nests and rescans.
PreprocessExact == use = "preprocessor" => Pre!PreprocessExact

\* The tokens of a text, their places and the errors are those of the rules of
\* the language, for every mixture of the characters that compete for a token.
LexExact == use = "lexer" => Lex!LexExact

\* Parsing undoes spelling: the tree of a program's tokens is the program that
\* was spelled, with multiple closure, keywords as names and condition prefixes,
\* and an error costs no statement but its own; a declaration gets the
\* attributes that were written, in any order.
ParserExact ==
  /\ use = "syntax" => Syn!ParseExact
  /\ use = "declare" => Dcl!DeclareExact

\* The warning "used before it is set" is given exactly for the variables that
\* some path of the program reads unset, as far as the walk promises it.
UnsetExact == use = "unset" => Uns!UnsetExact

\* A call does to the caller's storage what by-reference passing does, dummies,
\* displays, ON units and entry variables included, and what the compiler says
\* of a procedure's effects is true of every execution of the programs that its
\* analysis accounts for.
CallsSound == use = "calls" => Cal!CallsSound

\* A reference to a CONTROLLED variable uses the generation that is current,
\* although the compiler keeps its address over statements and loops, in a program
\* whose ON unit neither allocates nor frees it.
ReferencesExact == use = "controlled" => Ctl!ReferencesExact

\* An assignment of FIXED arithmetic under SIZE is exact or raises its condition,
\* and a FIXED BINARY variable stays in the range promised of its loads.
FixedExact == use = "fixed" => Fix!RangesHold /\ Fix!ArithmeticExact

\* A DO group runs its body for the values the language gives, and what LLVM is
\* told of its trip count and of its control variable is true.
DoExact == use = "loops" => Loop!DoExact

\* "MOD(DO_index, k) must produce the same result as MOD(literal, k) for all
\* indices, including sign-of-divisor correctness" (tests/core/mod_index.pli):
\* MOD of a DO group's control variable has the sign of its divisor.
ModExact == use = "loops" => Loop!ModExact

\* Whatever fails and whatever is edited between two runs of the compiler, a run
\* that ends with status 0 has made, whole, what was asked, and a promise about a
\* procedure is one published for its signature.
DriverSound == use = "driver" => Drv!DriverSound

\* Numbers and their text agree: CHAR to FIXED and back, in line and in the
\* library, PUT LIST read by GET LIST, and the field of an F format.
NumbersExact == use = "numbers" => Num!NumbersExact

=============================================================================
