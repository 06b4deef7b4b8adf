----------------------------- MODULE Preprocessor -----------------------------
(***************************************************************************)
(* The compile-time language of src/preprocessor.cpp: a cursor walks the   *)
(* flat text of a file, copies what is not a directive, and runs each      *)
(* directive where it stands.  Nothing is parsed into a tree: %DO finds    *)
(* its %END by counting, %IF finds its %ELSE by looking at what follows    *)
(* the arm, %GOTO moves the cursor.                                        *)
(*                                                                         *)
(* A file is a sequence of items (a word of text, a newline, a directive). *)
(* A call of scan() is a frame of `stack`; the reference semantics         *)
(* (Meaning) works on the program's tree, which only Flat knows.           *)
(***************************************************************************)
EXTENDS Integers, Sequences, SequencesExt, FiniteSetsExt, TLC

CONSTANTS Programs,        \* the programs preprocessed, as trees
          Files,           \* the files they may include, as trees
          kMaxScanDepth    \* nesting of scan() that is still accepted

VARIABLES prog,     \* the program being preprocessed (fixed)
          stack,    \* the active calls of scan(), innermost last
          st,       \* the Preprocessor object's tables
          done      \* "no", "ok" or "error"

vars == << prog, stack, st, done >>

-----------------------------------------------------------------------------
(* Items, trees and their flat text.                                         *)

Item(op, n, e) == [op |-> op, n |-> n, e |-> e]
Nothing == [k |-> "const", v |-> "", c |-> 0]

RECURSIVE FlatOne(_), Flat(_)
Flat(trees) == FlattenSeq([i \in DOMAIN trees |-> FlatOne(trees[i])])
FlatOne(t) ==
  CASE t.op = "if" ->
         << Item("if", "", t.e) >> \o FlatOne(t.then)
           \o (IF t.else = << >> THEN << >>
               ELSE << Item("nl", "", Nothing), Item("else", "", Nothing) >> \o FlatOne(t.else[1]))
    [] t.op \in {"do", "once"} ->
         << [op |-> t.op, n |-> t.n, e |-> t.e, to |-> t.to, by |-> t.by] >>
           \o Flat(t.body) \o << Item("end", "", Nothing) >>
    [] t.op = "skip" ->
         << Item("goto", t.n, Nothing) >> \o Flat(t.body)
           \o << Item("label", t.n, Nothing) >> \o FlatOne(t.then)
    [] t.op = "loop" ->
         << Item("label", t.n, Nothing) >> \o FlatOne(t.then)
           \o << Item("if", "", t.e), Item("goto", t.n, Nothing) >>
    [] t.op = "ref" -> << t, Item("text", ";", Nothing) >>
    [] t.op = "proc" ->
         << [op |-> "proc", n |-> t.n, e |-> t.e, par |-> t.par] >>
           \o Flat(t.body) \o << Item("end", "", Nothing) >>
    [] OTHER -> << t >>

\* evalCondExpr: an unknown variable or a division by zero is an error.
Known(e, known) == e.k = "const" \/ e.v \in known
Eval(e, values) ==
  CASE e.k = "const" -> e.c
    [] e.k = "var" -> values[e.v]
    [] e.k = "plus" -> values[e.v] + e.c
    [] e.k = "less" -> IF values[e.v] < e.c THEN 1 ELSE 0
    [] e.k = "over" -> e.c \div values[e.v]
EvalFails(e, values) == ~Known(e, DOMAIN values) \/ (e.k = "over" /\ values[e.v] = 0)

Bind(f, x, v) == (x :> v) @@ f

-----------------------------------------------------------------------------
(* The text searches.                                                        *)

\* The item that ends a directive's body; 0 when there is none.
findMatchingEnd(src, start) ==
  LET depth[i \in Nat] ==
        IF i < start THEN 1
        ELSE depth[i - 1] + (IF src[i].op \in {"do", "once"} THEN 1
                             ELSE IF src[i].op = "end" THEN -1 ELSE 0)
      ends == {i \in start .. Len(src) : depth[i] = 0}
  IN  IF ends = {} THEN 0 ELSE Min(ends)

collectLabels(src) ==
  [l \in {src[i].n : i \in {j \in DOMAIN src : src[j].op = "label"}} |->
     Max({i \in DOMAIN src : src[i].op = "label" /\ src[i].n = l}) + 1]

SkipNewlines(src, i) == Min({j \in i .. Len(src) + 1 : j > Len(src) \/ src[j].op # "nl"})
HasElse(src, i) == LET e == SkipNewlines(src, i) IN e <= Len(src) /\ src[e].op = "else"

\* processDirective and processIf with active = false: the index past the
\* directive, without any effect.
RECURSIVE Skipped(_, _)
Skipped(src, i) ==
  CASE src[i].op = "if" ->
         LET next == Skipped(src, i + 1)
         IN  IF HasElse(src, next) THEN Skipped(src, SkipNewlines(src, next) + 1) ELSE next
    [] src[i].op \in {"do", "once", "proc"} -> findMatchingEnd(src, i + 1) + 1
    [] OTHER -> i + 1

-----------------------------------------------------------------------------
(* Frames.                                                                   *)

\* kind: "file", "once" (a %DO without a variable), "iter" (one round of a %DO),
\* "text" (a replacement) or "body" (a macro).  els counts the %IFs whose %THEN
\* arm is running; arm says the next item is an arm; chk, that one just ended;
\* dir, that the last thing done was a directive.
Frame(kind, src, lo, hi, line, more) ==
  [kind |-> kind, src |-> src, i |-> lo, lo |-> lo, hi |-> hi, line |-> line,
   out |-> << >>, els |-> 0, arm |-> FALSE, chk |-> FALSE, dir |-> FALSE,
   more |-> more]

Top == Last(stack)
Here == Top.src[Top.i]
FileOf == LET k == Max({j \in DOMAIN stack : stack[j].kind = "file"}) IN stack[k].more.path

Emit(f, text) == [f EXCEPT !.out = @ \o text]
Newlines(text) == Len(SelectSeq(text, LAMBDA x : x = "nl"))

\* The frame after one item of text or one directive is done, at index `next`.
Past(f, next) == [f EXCEPT !.i = next, !.arm = FALSE, !.chk = f.els > 0,
                           !.dir = f.arm \/ f.src[f.i].op \notin {"text", "nl"}]
Stopped(f) == f.i \notin f.lo .. f.hi - 1 \/ (st.returning /\ f.dir)
PutTop(f) == Append(Front(stack), f)
Push(f, g) == Append(PutTop(f), g)

Running == /\ done = "no" /\ ~Top.chk
           /\ ~Stopped(Top)
At(op) == Running /\ Here.op = op
Fail == done' = "error" /\ UNCHANGED << prog, stack, st >>
Step(f) == stack' = PutTop(f) /\ UNCHANGED << prog, done >>
TooDeep == Len(stack) + 1 > kMaxScanDepth
Enter(f, g) == IF TooDeep THEN Fail
               ELSE stack' = Push(f, g) /\ UNCHANGED << prog, done >>


Init ==
  /\ prog \in Programs
  /\ st = [vars |-> << >>, act |-> {}, repl |-> << >>, replacing |-> {},
           labels |-> collectLabels(Flat(prog)), included |-> {}, procs |-> << >>,
           returning |-> FALSE, result |-> 0, map |-> << >>]
  /\ stack = << Frame("file", Flat(prog), 1, Len(Flat(prog)) + 1, 1,
                      [path |-> "main", labels |-> << >>]) >>
  /\ done = "no"

\* A newline is copied, and one entry of the line map recorded for it.
Newline ==
  /\ At("nl")
  /\ st' = [st EXCEPT !.map = Append(@, [file |-> FileOf, line |-> Top.line])]
  /\ Step(Past(Emit([Top EXCEPT !.line = @ + 1], << "nl" >>), Top.i + 1))

\* A word: copied, or replaced by the text %REPLACE gave it, which is scanned in
\* turn with the word itself protected.  The text of an %IF arm is copied as it is.
Word ==
  /\ At("text")
  /\ IF Here.n \in DOMAIN st.repl \ st.replacing /\ ~Top.arm
     THEN /\ Enter(Past(Top, Top.i + 1),
                   Frame("text", st.repl[Here.n], 1, Len(st.repl[Here.n]) + 1, Top.line,
                         [key |-> Here.n]))
          /\ st' = IF done' = "error" THEN st ELSE [st EXCEPT !.replacing = @ \cup {Here.n}]
     ELSE /\ Step(Past(Emit(Top, << Here.n >>), Top.i + 1))
          /\ UNCHANGED st

handleDeclare ==
  /\ At("declare")
  /\ IF EvalFails(Here.e, st.vars) THEN Fail
     ELSE /\ st' = IF Here.n \in DOMAIN st.vars THEN st
                   ELSE [st EXCEPT !.vars = Bind(@, Here.n, Eval(Here.e, st.vars))]
          /\ Step(Past(Top, Top.i + 1))

handleAssignment ==
  /\ At("assign")
  /\ IF Here.n \notin DOMAIN st.vars \/ EvalFails(Here.e, st.vars) THEN Fail
     ELSE /\ st' = [st EXCEPT !.vars[Here.n] = Eval(Here.e, st.vars)]
          /\ Step(Past(Top, Top.i + 1))

handleActivation ==
  /\ Running /\ Here.op \in {"activate", "deactivate"}
  /\ IF Here.n \notin DOMAIN st.vars THEN Fail
     ELSE /\ st' = [st EXCEPT !.act = IF Here.op = "activate" THEN @ \cup {Here.n}
                                      ELSE @ \ {Here.n}]
          /\ Step(Past(Top, Top.i + 1))

handleReplace ==
  /\ At("replace")
  /\ st' = [st EXCEPT !.repl = Bind(@, Here.n, Here.text)]
  /\ Step(Past(Top, Top.i + 1))

substituteRef ==
  /\ At("ref")
  /\ IF Here.n \notin DOMAIN st.vars \/ Here.n \notin st.act THEN Fail
     ELSE /\ Step(Past(Emit(Top, << ToString(st.vars[Here.n]) >>), Top.i + 1))
          /\ UNCHANGED st

\* %IF: the condition chooses the arm that runs; the other is stepped over.
processIf ==
  /\ At("if")
  /\ LET skip == Skipped(Top.src, Top.i + 1)
     IN  IF EvalFails(Here.e, st.vars) \/ TooDeep THEN Fail
         ELSE /\ IF Eval(Here.e, st.vars) # 0
                 THEN Step([Top EXCEPT !.i = @ + 1, !.arm = TRUE, !.els = @ + 1])
                 ELSE IF HasElse(Top.src, skip)
                 THEN Step([Top EXCEPT !.i = SkipNewlines(Top.src, skip) + 1, !.arm = TRUE])
                 ELSE Step(Past(Top, skip))
              /\ UNCHANGED st

\* Mutant: the %ELSE of an enclosing %IF is forgotten.
ElseForgotten ==
  /\ done = "no" /\ Top.chk
  /\ Step([Top EXCEPT !.els = @ - 1, !.chk = FALSE,
                      !.i = IF HasElse(Top.src, @)
                            THEN Skipped(Top.src, SkipNewlines(Top.src, @) + 1) ELSE @])
  /\ UNCHANGED st

\* The arm of a %THEN has ended: an %ELSE that follows is stepped over.
ElseAfterThen ==
  /\ done = "no" /\ Top.chk
  /\ Step([Top EXCEPT !.els = @ - 1, !.chk = Top.els > 1,
                      !.i = IF HasElse(Top.src, @)
                            THEN Skipped(Top.src, SkipNewlines(Top.src, @) + 1) ELSE @])
  /\ UNCHANGED st

\* %DO: the body is scanned once, or once for each value of the variable.
Round(f, d) == Frame("iter", f.src, d.lo, d.hi, f.line, d)
handleDo ==
  /\ Running /\ Here.op \in {"do", "once"}
  /\ LET endPos == findMatchingEnd(Top.src, Top.i + 1)
         after  == Past(Top, endPos + 1)
         values == << Here.e, Here.to, Here.by >>
         d      == [v |-> Here.n, at |-> Eval(Here.e, st.vars), to |-> Eval(Here.to, st.vars),
                    by |-> Eval(Here.by, st.vars), lo |-> Top.i + 1, hi |-> endPos]
     IN  IF endPos = 0 THEN Fail
         ELSE IF Here.op = "once"
         THEN Enter(after, Frame("once", Top.src, Top.i + 1, endPos, Top.line, Nothing))
              /\ UNCHANGED st
         ELSE IF (\E k \in 1..3 : EvalFails(values[k], st.vars)) \/ d.by = 0 THEN Fail
         ELSE IF (IF d.by > 0 THEN d.at <= d.to ELSE d.at >= d.to)
         THEN /\ Enter(after, Round(Top, d))
              /\ st' = IF done' = "error" THEN st ELSE [st EXCEPT !.vars = Bind(@, d.v, d.at)]
         ELSE Step(after) /\ UNCHANGED st

\* A %END that closes no %DO is stepped over; so is a label, with the statement
\* it stands before when that is not a directive.
StepOver ==
  /\ Running /\ Here.op \in {"end", "label"}
  /\ LET next == SkipNewlines(Top.src, Top.i + 1)
     IN  Step(Past(Top, IF Here.op = "end" THEN Top.i + 1
                        ELSE IF next <= Len(Top.src) /\ Top.src[next].op = "text"
                        THEN next + 1 ELSE next))
  /\ UNCHANGED st

handleGoto ==
  /\ At("goto")
  /\ IF Here.n \notin DOMAIN st.labels THEN Fail
     ELSE Step(Past(Top, st.labels[Here.n])) /\ UNCHANGED st

\* The file is scanned in place of the directive; %XINCLUDE passes over a file
\* that was read before.
expandOneInclude(once) ==
  LET path == Here.n
      open == {stack[k].more.path : k \in {j \in DOMAIN stack : stack[j].kind = "file"}}
      flat == Flat(Files[path])
  IN  IF path \notin DOMAIN Files THEN Fail
      ELSE IF once /\ path \in st.included \cup open
      THEN Step(Past(Top, Top.i + 1)) /\ UNCHANGED st
      ELSE IF path \in open THEN Fail
      ELSE /\ Enter(Past(Top, Top.i + 1),
                    Frame("file", flat, 1, Len(flat) + 1, 1,
                          [path |-> path, labels |-> st.labels]))
           /\ st' = IF done' = "error" THEN st
                    ELSE [st EXCEPT !.included = @ \cup {path},
                                    !.labels = collectLabels(flat)]
handleInclude == At("include") /\ expandOneInclude(FALSE)
handleXInclude == At("xinclude") /\ expandOneInclude(TRUE)

\* %label: PROCEDURE: the body is kept as text.
handleDefinition ==
  /\ At("proc")
  /\ LET endPos == findMatchingEnd(Top.src, Top.i + 1)
     IN  IF endPos = 0 \/ Here.n \in DOMAIN st.vars THEN Fail
         ELSE /\ st' = [st EXCEPT !.procs = Bind(@, Here.n,
                          [par |-> Here.par, body |-> SubSeq(Top.src, Top.i + 1, endPos - 1)])]
              /\ Step(Past(Top, endPos + 1))

\* %name(arg): the parameter is bound and the body scanned.  What is saved for
\* the end of the call is a table that holds the parameter and nothing else.
handleInvocation ==
  /\ At("call")
  /\ IF Here.n \notin DOMAIN st.procs \/ EvalFails(Here.e, st.vars) THEN Fail
     ELSE LET p     == st.procs[Here.n]
              saved == [vars |-> p.par :> (IF p.par \in DOMAIN st.vars THEN st.vars[p.par] ELSE 0),
                        returning |-> st.returning, result |-> st.result]
          IN  /\ Enter(Past(Top, Top.i + 1),
                       Frame("body", p.body, 1, Len(p.body) + 1, Top.line, saved))
              /\ st' = IF done' = "error" THEN st
                       ELSE [st EXCEPT !.vars = Bind(@, p.par, Eval(Here.e, st.vars)),
                                       !.act = @ \cup {p.par}, !.returning = FALSE, !.result = 0]

\* %RETURN: the value is kept and the scan of the body stops.
handleReturn ==
  /\ At("return")
  /\ IF st.returning THEN Step(Past(Top, Top.i + 1)) /\ UNCHANGED st
     ELSE IF EvalFails(Here.e, st.vars) \/ TooDeep THEN Fail
     ELSE /\ st' = [st EXCEPT !.returning = TRUE, !.result = Eval(Here.e, st.vars)]
          /\ Step(Past(Top, Top.i + 1))

StrayElse == At("else") /\ Fail

\* scan() returns: the range is used up, a %GOTO left it, or a %RETURN stops it.
ScanEnds ==
  /\ done = "no" /\ ~Top.chk
  /\ Stopped(Top)
  /\ LET f     == Top
         up    == stack[Len(stack) - 1]
         Below(g) == Append(SubSeq(stack, 1, Len(stack) - 2), g)
         joined   == [Emit(up, f.out) EXCEPT !.line = f.line]
         d     == f.more
         \* emit(iterOutput): the round's text is emitted once more into the caller's.
         again == [k \in 1 .. Newlines(f.out) |-> [file |-> FileOf, line |-> up.line + k - 1]]
         next  == [d EXCEPT !.at = @ + d.by]
     IN  CASE Len(stack) = 1 -> done' = "ok" /\ UNCHANGED << prog, stack, st >>
           [] Len(stack) > 1 /\ f.kind = "file" ->
                /\ stack' = Below(Emit(up, f.out))
                /\ st' = [st EXCEPT !.labels = d.labels]
                /\ UNCHANGED << prog, done >>
           [] f.kind = "text" ->
                /\ stack' = Below(joined)
                /\ st' = [st EXCEPT !.replacing = @ \ {d.key}]
                /\ UNCHANGED << prog, done >>
           [] f.kind = "once" -> stack' = Below(joined) /\ UNCHANGED << prog, st, done >>
           [] f.kind = "iter" ->
                /\ IF (IF d.by > 0 THEN next.at <= d.to ELSE next.at >= d.to)
                   THEN /\ stack' = Append(Below(joined), Round([joined EXCEPT !.src = f.src], next))
                        /\ st' = [st EXCEPT !.map = @ \o again, !.vars = Bind(@, d.v, next.at)]
                   ELSE /\ stack' = Below(joined)
                        /\ st' = [st EXCEPT !.map = @ \o again]
                /\ UNCHANGED << prog, done >>
           [] f.kind = "body" ->
                IF ~st.returning THEN Fail
                ELSE /\ stack' = Below(Emit(up, << ToString(st.result) >>))
                     /\ st' = [st EXCEPT !.vars = d.vars, !.act = DOMAIN d.vars,
                                         !.returning = d.returning]
                     /\ UNCHANGED << prog, done >>

Finished == done # "no" /\ UNCHANGED vars

Next == \/ Newline \/ Word \/ handleDeclare \/ handleAssignment \/ handleActivation
        \/ handleReplace \/ substituteRef \/ processIf \/ ElseAfterThen \/ handleDo
        \/ StepOver \/ handleGoto \/ handleInclude \/ handleXInclude \/ handleDefinition
        \/ handleInvocation \/ handleReturn \/ StrayElse \/ ScanEnds \/ Finished

Spec == Init /\ [][Next]_vars /\ WF_vars(Next)

-----------------------------------------------------------------------------
(* What a program means, by recursion over its tree.                         *)

State0 == [out |-> << >>, vars |-> << >>, act |-> {}, repl |-> << >>, within |-> {},
           incl |-> {}, open |-> {"main"}, procs |-> << >>, ret |-> << >>, err |-> FALSE]
Wrong(s) == [s EXCEPT !.err = TRUE]
Say(s, w) == [s EXCEPT !.out = Append(@, w)]

RECURSIVE Mean(_, _, _), MeanOne(_, _, _), MeanDo(_, _, _, _), MeanLoop(_, _, _)
\* The statements in order; nothing runs after an error or a %RETURN.
Mean(ts, s, depth) ==
  IF ts = << >> \/ s.err \/ s.ret # << >> THEN s
  ELSE Mean(Tail(ts), MeanOne(Head(ts), s, depth), depth)
Deeper(ts, s, depth) ==
  IF depth + 1 > kMaxScanDepth THEN Wrong(s) ELSE Mean(ts, s, depth + 1)
\* An arm is text to copy as it is, or a directive.
Arm(t, s, depth) == IF t.op = "text" THEN Say(s, t.n) ELSE MeanOne(t, s, depth)
MeanDo(t, s, depth, at) ==
  LET to == Eval(t.to, s.vars)
      by == Eval(t.by, s.vars)
      rounds == IF by > 0 THEN {k \in 0 .. 9 : at + k * by <= to}
                ELSE {k \in 0 .. 9 : at + k * by >= to}
      Go(acc, k) == IF acc.err THEN acc
                    ELSE Deeper(t.body, [acc EXCEPT !.vars = Bind(@, t.n, at + k * by)], depth)
  IN  FoldLeftDomain(LAMBDA acc, k : Go(acc, k - 1), s, [k \in 1 .. Cardinality(rounds) |-> k])
MeanLoop(t, s, depth) ==
  LET s1 == MeanOne(t.then, s, depth)
  IN  IF s1.err THEN s1 ELSE IF EvalFails(t.e, s1.vars) THEN Wrong(s1)
      ELSE IF Eval(t.e, s1.vars) # 0 THEN MeanLoop(t, s1, depth) ELSE s1
MeanOne(t, s, depth) ==
  LET fails == EvalFails(t.e, s.vars)
      value == Eval(t.e, s.vars)
      known == t.n \in DOMAIN s.vars
  IN
  CASE t.op = "text" ->
         IF t.n \in DOMAIN s.repl \ s.within
         THEN [Deeper(s.repl[t.n], [s EXCEPT !.within = @ \cup {t.n}], depth)
                 EXCEPT !.within = s.within]
         ELSE Say(s, t.n)
    [] t.op = "nl" -> Say(s, "nl")
    [] t.op = "declare" -> IF fails THEN Wrong(s) ELSE IF known THEN s
                           ELSE [s EXCEPT !.vars = Bind(@, t.n, value)]
    [] t.op = "assign" -> IF fails \/ ~known THEN Wrong(s) ELSE [s EXCEPT !.vars[t.n] = value]
    [] t.op = "activate" -> IF known THEN [s EXCEPT !.act = @ \cup {t.n}] ELSE Wrong(s)
    [] t.op = "deactivate" -> IF known THEN [s EXCEPT !.act = @ \ {t.n}] ELSE Wrong(s)
    [] t.op = "replace" -> [s EXCEPT !.repl = Bind(@, t.n, t.text)]
    [] t.op = "ref" -> IF known /\ t.n \in s.act
                       THEN Say(Say(s, ToString(s.vars[t.n])), ";") ELSE Wrong(s)
    [] t.op = "if" -> IF fails \/ depth + 1 > kMaxScanDepth THEN Wrong(s)
                      ELSE IF value # 0 THEN Arm(t.then, s, depth)
                      ELSE IF t.else # << >> THEN Arm(t.else[1], s, depth) ELSE s
    [] t.op = "once" -> Deeper(t.body, s, depth)
    [] t.op = "do" -> IF fails \/ EvalFails(t.to, s.vars) \/ EvalFails(t.by, s.vars) THEN Wrong(s)
                      ELSE IF Eval(t.by, s.vars) = 0 THEN Wrong(s) ELSE MeanDo(t, s, depth, value)
    [] t.op = "skip" -> MeanOne(t.then, s, depth)
    [] t.op = "loop" -> MeanLoop(t, s, depth)
    [] t.op \in {"include", "xinclude"} ->
         IF t.op = "xinclude" /\ t.n \in s.incl \cup s.open THEN s
         ELSE IF t.n \notin DOMAIN Files \ s.open THEN Wrong(s)
         ELSE [Deeper(Files[t.n], [s EXCEPT !.incl = @ \cup {t.n}, !.open = @ \cup {t.n}], depth)
                 EXCEPT !.open = s.open]
    [] t.op = "proc" -> IF known THEN Wrong(s)
                        ELSE [s EXCEPT !.procs = Bind(@, t.n, [par |-> t.par, body |-> t.body])]
    [] t.op = "return" -> IF fails \/ depth + 1 > kMaxScanDepth THEN Wrong(s)
                          ELSE [s EXCEPT !.ret = << value >>]
    [] t.op = "call" ->
         IF fails \/ t.n \notin DOMAIN s.procs THEN Wrong(s)
         ELSE LET p == s.procs[t.n]
                  r == Deeper(p.body, [s EXCEPT !.vars = Bind(@, p.par, value),
                                                !.act = @ \cup {p.par}], depth)
              IN  IF r.err \/ r.ret = << >> THEN Wrong(s)
                  ELSE Say([r EXCEPT !.out = s.out, !.vars = s.vars, !.act = s.act, !.ret = << >>],
                           ToString(r.ret[1]))

Meaning(trees) == Mean(trees, State0, 1)

\* The text handed to the lexer is the one the program's structure asks for, and
\* an error is reported exactly when the program has one: however %DO groups, %IF
\* arms, jumps, files, replacements and macros nest, the cursor that only counts
\* %DO against %END and peeks for %ELSE never runs, skips or repeats the wrong
\* text (Preprocessor::scan, processDirective, processIf, handleDo).
PreprocessExact ==
  LET m == Meaning(prog)
  IN  /\ done = "error" <=> (done # "no" /\ m.err)
      /\ done = "ok" => /\ stack[1].out = m.out
                        /\ Len(stack) = 1 /\ st.replacing = {} /\ stack[1].els = 0

\* Each newline of the text handed to the lexer has its entry in the line map, so
\* that a diagnostic names the line the text came from (Preprocessor::emit).
LineMapExact == done = "ok" => Len(st.map) = Newlines(stack[1].out)
=============================================================================
