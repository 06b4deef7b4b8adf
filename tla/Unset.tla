-------------------------------- MODULE Unset -------------------------------
(* The "used before set" warning: the definite-assignment walk over the body *)
(* of a procedure, against the runs the body can take.                       *)
(*                                                                           *)
(* An expression is [k, name, args], k one of "var" (a whole variable or an  *)
(* element, its subscripts the args), "call", "addr" and "op". A statement   *)
(* is [kind, e, t, body, alt, names]: the expressions it evaluates, those it *)
(* stores to, its nested statements, the variables it controls, declares or, *)
(* for an internal procedure, stores.                                        *)
EXTENDS Naturals, Sequences, FiniteSets, SequencesExt

CONSTANTS Programs      \* records [body, local, other]

VARIABLES prog, warned, walked

unsetVars == << prog, warned, walked >>

-----------------------------------------------------------------------------
(* What the walk leaves out.                                                 *)
RECURSIVE hasJump(_)
hasJump(b) ==
  \E i \in DOMAIN b : b[i].kind \in {"goto", "label", "entry"} \/ hasJump(b[i].body) \/ hasJump(b[i].alt)

(* The expressions a statement names itself, its nested ones apart.          *)
eachStmtExpr(s) == s.e \o s.t

RECURSIVE AddrOf(_)
AddrOf(e) ==
  (IF e.k = "addr" THEN {e.args[i].name : i \in {j \in DOMAIN e.args : e.args[j].k = "var"}} ELSE {})
    \cup UNION {AddrOf(e.args[i]) : i \in DOMAIN e.args}
RECURSIVE collectAddrTaken(_)
collectAddrTaken(b) ==
  UNION {UNION {AddrOf(eachStmtExpr(b[i])[j]) : j \in DOMAIN eachStmtExpr(b[i])}
           \cup collectAddrTaken(b[i].body) \cup collectAddrTaken(b[i].alt) : i \in DOMAIN b}

(* local: the AUTOMATIC scalars and arrays with no INITIAL; what else is     *)
(* declared, a parameter, STATIC, BASED and the rest, is other.              *)
Candidates(pr) == IF hasJump(pr.body) THEN {} ELSE pr.local \ collectAddrTaken(pr.body)

-----------------------------------------------------------------------------
(* The walk. Its state is what is set on this path and what was reported.    *)
use(w, v) ==
  IF v \in w.set THEN w ELSE [w EXCEPT !.set = @ \cup {v}, !.warned = @ \cup {v}]
store(w, v) == IF v \in w.cand THEN [w EXCEPT !.set = @ \cup {v}] ELSE w
tracked(w, e) == e.k = "var" /\ e.name \in w.cand

RECURSIVE read(_, _)
argument(w, e) ==
  IF tracked(w, e) THEN store(FoldLeft(read, w, e.args), e.name) ELSE read(w, e)
read(w, e) ==
  LET at == IF tracked(w, e) THEN use(w, e.name) ELSE w
  IN IF e.k \in {"call", "addr"} THEN FoldLeft(argument, at, e.args) ELSE FoldLeft(read, at, e.args)
assign(w, e) ==
  LET at == FoldLeft(read, w, e.args) IN IF e.k = "var" THEN store(at, e.name) ELSE at
reads(w, es) == FoldLeft(read, w, es)
assigns(w, es) == FoldLeft(assign, w, es)

(* A step of the walk answers its state and whether the path goes on.        *)
Falls(w) == [w |-> w, falls |-> TRUE]
Ends(w) == [w |-> w, falls |-> FALSE]

RECURSIVE stmt(_, _)
RECURSIVE list(_, _)
list(w, b) ==
  IF b = << >> THEN Falls(w)
  ELSE LET r == stmt(w, Head(b)) IN IF r.falls THEN list(r.w, Tail(b)) ELSE r

(* Mutant: the arm of the ELSE starts with what the THEN has set. *)
walkIfThrough(w, s) ==
  LET test == reads(w, s.e)
      then == list(test, s.body)
      else == list(then.w, s.alt)
      merged == IF ~else.falls THEN then.w.set ELSE IF ~then.falls THEN else.w.set
                ELSE then.w.set \cap else.w.set
  IN [w |-> [else.w EXCEPT !.set = merged], falls |-> then.falls \/ else.falls]

(* Only what both paths set is set after the merge.                          *)
walkIf(w, s) ==
  LET test == reads(w, s.e)
      then == list(test, s.body)
      else == list([then.w EXCEPT !.set = test.set], s.alt)
      merged == IF ~else.falls THEN then.w.set ELSE IF ~then.falls THEN else.w.set
                ELSE then.w.set \cap else.w.set
  IN [w |-> [else.w EXCEPT !.set = merged], falls |-> then.falls \/ else.falls]

(* The head reads the test and the bounds; the body is walked once, and what *)
(* it stores is kept where the body runs at least once.                      *)
walkLoop(w, s) ==
  LET head == reads(w, s.e)
      in == [head EXCEPT !.set = @ \cup (s.names \cap w.cand)]
      body == list(in, s.body)
  IN Falls(IF s.kind \in {"until", "forever"} THEN body.w ELSE [body.w EXCEPT !.set = in.set])

walkBegin(w, s) ==
  LET r == list(w, s.body) IN [r EXCEPT !.w.set = @ \ s.names]

stmt(w, s) ==
  CASE s.kind \in {"null", "leave", "iterate", "on", "open", "delete", "label", "entry"} -> Falls(w)
    [] s.kind \in {"assign", "get"} -> Falls(assigns(reads(w, s.e), s.t))
    [] s.kind = "if" -> walkIf(w, s)
    [] s.kind = "group" -> list(w, s.body)
    [] s.kind = "begin" -> walkBegin(w, s)
    [] s.kind \in {"while", "until", "forever", "iter"} -> walkLoop(w, s)
    [] s.kind \in {"put", "write", "display", "signal", "wait", "free"} ->
         Falls(FoldLeft(LAMBDA x, e : IF tracked(x, e) THEN store(x, e.name) ELSE x, reads(w, s.e), s.t))
    [] s.kind \in {"call", "invoke"} -> Falls(FoldLeft(argument, w, s.e))
    [] s.kind \in {"return", "stop"} -> Ends(reads(w, s.e))
    [] s.kind = "goto" -> Ends(w)
    [] s.kind = "read" -> Falls(assigns(w, s.t))
    [] s.kind = "allocate" -> Falls(reads(FoldLeft(LAMBDA x, e : store(x, e.name), w, s.t), s.e))
    [] s.kind = "other" -> Falls(FoldLeft(LAMBDA x, e : IF e.k = "var" THEN store(x, e.name) ELSE x, w, eachStmtExpr(s)))

(* One procedure's walk; the answer is the variables reported.               *)
checkUnset ==
  /\ ~walked /\ walked' = TRUE /\ UNCHANGED prog
  /\ warned' = list([set |-> {}, warned |-> {}, cand |-> Candidates(prog)], prog.body).w.warned

Init == prog \in Programs /\ warned = {} /\ walked = FALSE
Next == checkUnset

-----------------------------------------------------------------------------
(* The runs of a body, loops going round at most twice: each a set of what   *)
(* is set at its end, what it read unset, and how it ended.                  *)
RECURSIVE Names(_)
Names(e) ==
  (IF e.k = "var" THEN {e.name} ELSE {})
    \cup UNION {IF e.k = "call" /\ e.args[i].k = "var" THEN Names([e.args[i] EXCEPT !.k = "op"]) ELSE Names(e.args[i])
                  : i \in DOMAIN e.args}
Passed(e) == IF e.k = "call" THEN {e.args[i].name : i \in {j \in DOMAIN e.args : e.args[j].k = "var"}} ELSE {}
Seen(es) == UNION {Names(es[i]) : i \in DOMAIN es}
Given(es) == UNION {Passed(es[i]) : i \in DOMAIN es}
Stored(ts) == {ts[i].name : i \in {j \in DOMAIN ts : ts[j].k = "var"}}
Indexes(ts) == UNION {Seen(ts[i].args) : i \in DOMAIN ts}

At(set, bad, how) == [set |-> set, bad |-> bad, how |-> how]
(* Reads rs, then stores ws. *)
Does(r, rs, ws, how) == At(r.set \cup ws, r.bad \cup (rs \ r.set), how)

RECURSIVE Run(_, _)
RECURSIVE RunAll(_, _)
RunAll(r, b) ==
  IF b = << >> THEN {r}
  ELSE UNION {IF q.how = "falls" THEN RunAll(q, Tail(b)) ELSE {q} : q \in Run(r, Head(b))}

Round(r, s) == {[q EXCEPT !.how = IF @ = "iterate" THEN "falls" ELSE @] : q \in RunAll(r, s.body)}
Left(q) == [q EXCEPT !.how = IF @ = "leave" THEN "falls" ELSE @]
RECURSIVE Rounds(_, _, _)
Rounds(r, s, n) ==
  LET test(q) == Does(q, Seen(s.e), Given(s.e), "falls")
      once(q) == {IF x.how = "falls" /\ s.kind = "until" THEN test(x) ELSE x : x \in Round(q, s)}
      again(q) == IF q.how = "falls" /\ n > 1 THEN Rounds(IF s.kind = "while" THEN test(q) ELSE q, s, n - 1) ELSE {}
  IN UNION {{IF s.kind = "forever" /\ q.how = "falls" THEN [q EXCEPT !.how = "spins"] ELSE Left(q)} \cup again(q)
              : q \in once(r)}

Run(r, s) ==
  LET does == Does(Does(r, Seen(s.e), Given(s.e), "falls"), Indexes(s.t), Stored(s.t), "falls")
      head == Does(r, Seen(s.e), Given(s.e) \cup (IF s.kind = "iter" THEN s.names ELSE {}), "falls")
  IN CASE s.kind = "if" -> RunAll(head, s.body) \cup RunAll(head, s.alt)
       [] s.kind = "group" -> RunAll(r, s.body)
       [] s.kind = "begin" -> {[q EXCEPT !.set = @ \ s.names] : q \in RunAll(r, s.body)}
       [] s.kind \in {"while", "iter"} -> {head} \cup Rounds(head, s, 2)
       [] s.kind \in {"until", "forever"} -> Rounds(r, s, 2)
       [] s.kind = "call" -> {Does(r, Seen([i \in DOMAIN s.e |-> IF s.e[i].k = "var" THEN [s.e[i] EXCEPT !.k = "op"] ELSE s.e[i]]),
                                   Stored(s.e) \cup Given(s.e), "falls")}
       [] s.kind = "invoke" -> {Does(r, {}, s.names, "falls")}
       [] s.kind \in {"return", "stop"} -> {[does EXCEPT !.how = "ends"]}
       [] s.kind \in {"leave", "iterate"} -> {[r EXCEPT !.how = s.kind]}
       [] OTHER -> {does}

ReadUnset == UNION {q.bad : q \in RunAll(At({}, {}, "falls"), prog.body)} \cap Candidates(prog)

RECURSIVE Lists(_)
Lists(b) == {b} \cup UNION {Lists(b[i].body) \cup Lists(b[i].alt) : i \in DOMAIN b}
Within(b) == UNION {{l[i] : i \in DOMAIN l} : l \in Lists(b)}
CanFall(s) == \E q \in Run(At({}, {}, "falls"), s) : q.how = "falls"

(* The DO that tests its condition after the body, an internal procedure that *)
(* stores for its caller, a LEAVE or an ITERATE, and what follows a loop that *)
(* never ends, are walked otherwise than they run.                            *)
AsWalked(pr) ==
  /\ \A s \in Within(pr.body) : /\ s.kind \notin {"invoke", "leave", "iterate"}
                                /\ s.kind = "until" => Seen(s.e) = {}
  /\ \A l \in Lists(pr.body) : \A i \in 1 .. Len(l) - 1 :
       l[i].kind \in {"until", "forever"} => CanFall(l[i])

(* In the other bodies the variables reported are those that some run of the  *)
(* body, taking its branches and loops any way, reads before they are set.    *)
UnsetExact == walked /\ AsWalked(prog) => warned = ReadUnset

(* The warning is never wrong: "a warning is better withheld than wrong".     *)
NeverWrong == walked => warned \subseteq ReadUnset
=============================================================================
