------------------------------- MODULE Calls -------------------------------
(* The whole-program facts the code generator computes before it emits a     *)
(* procedure: the static links a procedure needs (sema), the parameters it   *)
(* takes by value (ADR-215) and what it may promise LLVM about the memory it *)
(* touches (ADR-264); and procedure activations as irgen compiles them:      *)
(* by-reference and by-value parameters, dummies and their copy-back, static *)
(* links, ON-units run in the frame that raises. Each activation also keeps  *)
(* its static chain and the cells a by-reference call would use, so that     *)
(* what the compiled program computes can be compared with what the language *)
(* prescribes, and the accesses made while it is active, to be compared with *)
(* what its attributes promise LLVM.                                         *)
(*                                                                           *)
(* A program is a record: procs, the procedures in source order; parent, the *)
(* procedure each is nested in ("" for the outermost); params; owner, the    *)
(* procedure that declares a variable; static, based and chars, the STATIC,  *)
(* BASED and CHARACTER variables; body, the statements of each procedure;    *)
(* checks, whether the SIZE, CONVERSION and SUBSCRIPTRANGE checks are        *)
(* compiled in; byVal, filled in here, the parameters passed by value. A     *)
(* statement is a record [op, v, e, q, args, key, body, alt]; an expression  *)
(* [how, v]: a variable, a literal, or a built-in or operator applied to one *)
(* variable. An argument is an expression whose how is "var" for a variable  *)
(* of the parameter's own type and "vary" for a VARYING string of another    *)
(* length.                                                                   *)
EXTENDS Naturals, Sequences, FiniteSets, SequencesExt

CONSTANTS Programs,      \* the programs to compile and run
          MaxDepth       \* activations after which a recursion counts as endless

VARIABLES prog,          \* the program
          facts,         \* what the compiler decided: env and effect flags
          stack,         \* the activations, the outermost first
          mem,           \* the compiled program's storage: cell -> value
          rmem,          \* the storage of the by-reference execution
          ptr,           \* the cell the locator of the BASED variables points to
          entry,         \* the procedure the entry variable holds
          handlers,      \* the established ON-units, the latest last
          over           \* why the program ended, "" while it runs

vars == << prog, facts, stack, mem, rmem, ptr, entry, handlers, over >>

-----------------------------------------------------------------------------
ProcsOf(pr) == ToSet(pr.procs)
Vars(pr) == DOMAIN pr.owner
OwnParams(pr, p) == ToSet(pr.params[p])
AllParams(pr) == UNION {OwnParams(pr, p) : p \in ProcsOf(pr)}

RECURSIVE Ancestors(_, _), Stmts(_)
Ancestors(pr, p) == IF pr.parent[p] = "" THEN {} ELSE {pr.parent[p]} \cup Ancestors(pr, pr.parent[p])
Subtree(pr, p) == {q \in ProcsOf(pr) : q = p \/ p \in Ancestors(pr, q)}
(* Every statement of a list, those nested in it included. *)
Stmts(b) == UNION {{b[i]} \cup Stmts(b[i].body) \cup Stmts(b[i].alt) : i \in DOMAIN b}
BodyStmts(pr, p) == Stmts(pr.body[p])

-----------------------------------------------------------------------------
(* Sema: the enclosing variables a procedure reaches. *)
Mentions(pr, st) == ({st.v, st.e.v} \cup {st.args[i].v : i \in DOMAIN st.args}) \cap Vars(pr)
noteStaticUse(pr, p) ==
  {v \in UNION {Mentions(pr, st) : st \in BodyStmts(pr, p)} : pr.owner[v] \in Ancestors(pr, p)}
RECURSIVE computeEnv(_, _)
computeEnv(pr, p) ==
  noteStaticUse(pr, p)
    \cup UNION {{v \in computeEnv(pr, q) : pr.owner[v] # p} : q \in {q \in ProcsOf(pr) : pr.parent[q] = p}}

collectCallees(pr, p) == {st.q : st \in {s \in BodyStmts(pr, p) : s.op = "call"}}
RECURSIVE Reaches(_, _, _)
Reaches(pr, front, seen) ==
  LET fresh == UNION {collectCallees(pr, q) : q \in front} \ seen
  IN IF fresh = {} THEN seen ELSE Reaches(pr, fresh, seen \cup fresh)
(* A procedure on a call cycle must say RECURSIVE. *)
checkRecursion(pr) == \A p \in ProcsOf(pr) : p \in Reaches(pr, {p}, {}) => p \in pr.recursive

-----------------------------------------------------------------------------
(* Irgen: the parameters that travel by value. *)
exprTakesAddr(e, s) == e.how = "ADDR" /\ e.v = s
stmtTakesAddr(st, s) ==
  \/ st.v = s /\ st.op \in {"assign", "iter"}
  \/ exprTakesAddr(st.e, s)
  \/ \E i \in DOMAIN st.args : \/ st.args[i].v = s /\ st.args[i].how \in {"var", "vary"}
                               \/ exprTakesAddr(st.args[i], s)
addrTaken(pr) ==
  {st.e.v : st \in {s \in UNION {BodyStmts(pr, p) : p \in ProcsOf(pr)} : s.e.how = "name"}}
byValParam(pr, s) ==
  /\ s \notin pr.chars
  /\ ~pr.checks
  /\ pr.owner[s] \notin addrTaken(pr)
  /\ \A q \in Subtree(pr, pr.owner[s]) : \A st \in BodyStmts(pr, q) : ~stmtTakesAddr(st, s)
computeWholeProgramFacts(pr) == [pr EXCEPT !.byVal = {s \in AllParams(pr) : byValParam(pr, s)}]

-----------------------------------------------------------------------------
(* The decision layer: what a body does to memory, as a set of flags.      *)
Keys == {"SIZE", "CONVERSION", "SUBSCRIPTRANGE", "STRINGRANGE"}

wider(R) == IF "other" \in R THEN "other" ELSE IF "arg" \in R THEN "arg" ELSE "frame"
Flag == [read |-> [arg |-> "readsArg", other |-> "readsOther"],
         write |-> [arg |-> "writesArg", other |-> "writesOther"]]
noteReach(r, kind) == IF r = "frame" THEN {} ELSE {Flag[kind][r]}

\* Mutant: a variable of an enclosing procedure is taken for the procedure's own.
reachOfLinked(pr, p, v) ==
  CASE v \in pr.static \cup pr.based -> "other"
    [] v \in OwnParams(pr, p) /\ v \notin pr.byVal -> "arg"
    [] OTHER -> "frame"
reachOf(pr, p, v) ==
  CASE v \in pr.static \cup pr.based -> "other"
    [] pr.owner[v] # p -> "arg"
    [] v \in OwnParams(pr, p) /\ v \notin pr.byVal -> "arg"
    [] OTHER -> "frame"
reachOfExpr(pr, p, e) == IF e.how \in {"var", "vary", "subscript"} THEN reachOf(pr, p, e.v) ELSE "frame"
callArgReach(pr, p, st) ==
  wider({reachOfExpr(pr, p, st.args[i]) :
           i \in {i \in DOMAIN st.args : pr.params[st.q][i] \notin pr.byVal}})

builtinEffect(how) ==
  CASE how = "ABS" -> "Constant" [] how = "SUBSTR" -> "Pure" [] how = "REPEAT" -> "Allocates"
    [] how = "ADDR" -> "Escapes" [] OTHER -> "Unknown"
walkCallExpr(pr, p, e) ==
  LET reach == reachOf(pr, p, e.v)
      effect == builtinEffect(e.how)
  IN noteReach(reach, "read") \cup {"mayUnwind"}
     \cup (IF e.how = "SUBSTR" THEN {"STRINGRANGE"} ELSE {})
     \cup (IF effect = "Allocates" THEN {"writesOther"} ELSE {})
     \cup (IF effect = "Unknown" \/ (effect = "Escapes" /\ reach = "frame") THEN {"opaque"} ELSE {})
walkExpr(pr, p, e) ==
  LET read == noteReach(reachOf(pr, p, e.v), "read")
      raise(key) == IF pr.checks THEN {key} ELSE {}
  IN CASE e.how \in {"lit", "name"} -> {}
       [] e.how \in {"var", "vary"} -> read
       [] e.how = "subscript" -> read \cup raise("SUBSCRIPTRANGE")
       [] e.how = "arith" -> read \cup raise("SIZE")
       [] e.how = "convert" -> read \cup raise("CONVERSION") \cup {"mayUnwind"}
       [] OTHER -> walkCallExpr(pr, p, e)
walkArgs(pr, p, args) == UNION {walkExpr(pr, p, args[i]) : i \in DOMAIN args}

RECURSIVE walkStmt(_, _, _), walkBody(_, _, _)
walkBody(pr, p, b) == UNION {walkStmt(pr, p, b[i]) : i \in DOMAIN b}
walkStmt(pr, p, st) ==
  LET inner == walkBody(pr, p, st.body) \cup walkBody(pr, p, st.alt)
  IN CASE st.op = "assign" ->
            noteReach(reachOf(pr, p, st.v), "write") \cup walkExpr(pr, p, st.e)
              \cup (IF st.v \in pr.chars /\ pr.checks THEN {"SIZE"} ELSE {})
       [] st.op = "if" -> walkExpr(pr, p, st.e) \cup inner
       [] st.op = "while" -> {"mayNotReturn"} \cup walkExpr(pr, p, st.e) \cup inner
       [] st.op = "iter" -> walkExpr(pr, p, st.e) \cup inner
       [] st.op = "stop" -> {"mayNotReturn"}
       [] st.op = "call" -> walkArgs(pr, p, st.args)
       [] st.op = "callentry" -> {"opaque", "mayUnwind"}
       [] st.op = "on" -> {"hasOnUnit", "opaque"} \cup inner
       [] st.op = "put" -> {"io", "opaque"} \cup walkExpr(pr, p, st.e)

handlerKeys(pr) ==
  {st.key : st \in {s \in UNION {BodyStmts(pr, p) : p \in ProcsOf(pr)} : s.op = "on"}}
RECURSIVE callsIn(_)
callsIn(b) == FlattenSeq([i \in DOMAIN b |-> IF b[i].op = "call" THEN << b[i] >>
                                             ELSE callsIn(b[i].body) \o callsIn(b[i].alt)])

(* Depth first over the calls: the procedures a back edge lands on. *)
RECURSIVE visit(_, _, _)
visit(pr, st, n) ==
  LET edge(s, c) == CASE s.colour[c.q] = "grey" -> [s EXCEPT !.cyclic = @ \cup {c.q}]
                      [] s.colour[c.q] = "white" -> visit(pr, s, c.q)
                      [] OTHER -> s
      after == FoldLeft(edge, [st EXCEPT !.colour[n] = "grey"], callsIn(pr.body[n]))
  IN [after EXCEPT !.colour[n] = "black"]
Cyclic(pr) ==
  FoldLeft(LAMBDA s, p : IF s.colour[p] = "white" THEN visit(pr, s, p) ELSE s,
           [colour |-> [p \in ProcsOf(pr) |-> "white"], cyclic |-> {}], pr.procs).cyclic

FromCallee(pr, p, bits, c) ==
  LET reach == callArgReach(pr, p, c)
      cb == bits[c.q]
  IN (cb \cap ({"opaque", "readsOther", "writesOther", "mayUnwind", "mayNotReturn"} \cup Keys))
     \cup (IF "readsArg" \in cb THEN noteReach(reach, "read") ELSE {})
     \cup (IF "writesArg" \in cb THEN noteReach(reach, "write") ELSE {})
Round(pr, bits) ==
  LET calls == FoldLeft(LAMBDA b, p :
                 [b EXCEPT ![p] = @ \cup UNION {FromCallee(pr, p, b, callsIn(pr.body[p])[i]) :
                                                  i \in DOMAIN callsIn(pr.body[p])}],
                 bits, pr.procs)
      handled(b) == b \cap Keys # {} /\ (b \cap handlerKeys(pr) # {} \/ "ERROR" \in handlerKeys(pr))
  IN [p \in ProcsOf(pr) |-> IF handled(calls[p]) THEN calls[p] \cup {"writesOther", "mayUnwind"}
                            ELSE calls[p]]
RECURSIVE Rounds(_, _, _)
Rounds(pr, bits, n) ==
  LET next == Round(pr, bits) IN IF next = bits \/ n = 0 THEN next ELSE Rounds(pr, next, n - 1)
analyzeEffects(pr) ==
  LET start == [p \in ProcsOf(pr) |->
                  walkBody(pr, p, pr.body[p])
                    \cup (IF p \in Cyclic(pr) THEN {"mayNotReturn"} ELSE {})
                    \cup (IF p \in addrTaken(pr) THEN {"opaque", "nameEscapes"} ELSE {})]
  IN Rounds(pr, start, Len(pr.procs) + 1)

(* The verdict, and the accesses it still lets the optimizer expect. *)
Verdict(b) ==
  [effect |-> CASE b \cap {"opaque", "writesOther"} # {} -> "Unknown"
                [] "readsOther" \in b -> "Read"
                [] "writesArg" \in b -> "ArgReadWrite"
                [] "readsArg" \in b -> "ArgRead"
                [] OTHER -> "None",
   willReturn |-> b \cap ({"opaque", "mayNotReturn"} \cup Keys) = {}]
applyMemoryEffect(effect) ==
  CASE effect = "None" -> {}
    [] effect = "ArgRead" -> {"readsArg"}
    [] effect = "ArgReadWrite" -> {"readsArg", "writesArg"}
    [] effect = "Read" -> {"readsArg", "readsOther"}
    [] effect = "Unknown" -> {"readsArg", "writesArg", "readsOther", "writesOther"}

-----------------------------------------------------------------------------
Cell(f, n, dummy) == [f |-> f, n |-> n, dummy |-> dummy]
NoCell == Cell(0, "", FALSE)
Top == stack[Len(stack)]
Own(pr, p) == {v \in Vars(pr) : pr.owner[v] = p /\ v \notin pr.static \cup pr.based \cup OwnParams(pr, p)}

(* appendStaticLinks and the entry assignment diagnose what has no link. *)
Linked(pr, p, q) == \A v \in computeEnv(pr, q) : pr.owner[v] = p \/ v \in computeEnv(pr, p)
Compiles(pr) ==
  /\ checkRecursion(pr)
  /\ \A p \in ProcsOf(pr) : \A q \in collectCallees(pr, p) : Linked(pr, p, q)
  /\ \A q \in addrTaken(pr) : computeEnv(pr, q) = {}


(* addressOf: the address the compiled code uses for a variable. *)
addressOf(act, v) ==
  CASE v \in prog.static -> Cell(0, v, FALSE) [] v \in prog.based -> ptr [] OTHER -> act.addr[v]
(* The storage the language gives it: along the static chain to its owner. *)
RECURSIVE ChainTo(_, _)
ChainTo(k, p) == IF stack[k].proc = p THEN k ELSE ChainTo(stack[k].link, p)
RefCell(k, v) ==
  CASE v \in prog.static -> Cell(0, v, FALSE)
    [] v \in prog.based -> ptr
    [] OTHER -> stack[ChainTo(k, prog.owner[v])].ref[v]

(* The same access as each live activation sees it. *)
Seen(act, j, c, kind) ==
  noteReach(CASE c.f >= j -> "frame" [] c \in act.passed -> "arg" [] OTHER -> "other", kind)
Touch(stk, kind, cells) ==
  [j \in DOMAIN stk |-> [stk[j] EXCEPT !.did = @ \cup UNION {Seen(stk[j], j, c, kind) : c \in cells}]]
Todo(stk, b) == [stk EXCEPT ![Len(stk)].todo = b \o Tail(@)]
Continue(stk) == Todo(stk, << >>)

Reads(e) == IF e.how \in {"lit", "name", "ADDR"} THEN {} ELSE {e.v}
Operands(e) == {addressOf(Top, v) : v \in Reads(e)}
Apply(e, x) == IF e.how = "arith" THEN (x + 1) % 3 ELSE x
Value(e) == IF Reads(e) = {} THEN 1 ELSE Apply(e, mem[addressOf(Top, e.v)])
RefValue(e) == IF Reads(e) = {} THEN 1 ELSE Apply(e, rmem[RefCell(Len(stack), e.v)])
Put(m, c, x) == [d \in DOMAIN m \cup {c} |-> IF d = c THEN x ELSE m[d]]
Update(m, n) == [c \in DOMAIN m \cup DOMAIN n |-> IF c \in DOMAIN n THEN n[c] ELSE m[c]]

At(op) == stack # << >> /\ over = "" /\ Top.todo # << >> /\ Top.todo[1].op = op
St == Top.todo[1]
(* The BASED variables have storage only while the locator points to some. *)
Defined == ptr \in DOMAIN mem \/ ({St.v, St.e.v} \cap prog.based) = {}

-----------------------------------------------------------------------------
Frame(p, link, addr, ref, passed, todo) ==
  [proc |-> p, link |-> link, addr |-> addr, ref |-> ref, passed |-> passed, todo |-> todo,
   back |-> << >>, did |-> {}]
Locals(pr, p, k) == [v \in Own(pr, p) |-> Cell(k, v, FALSE)]
Fresh(cells) == [c \in cells |-> 0]
Statics(pr) == {Cell(0, v, FALSE) : v \in pr.static}

NoFacts == [env |-> << >>, bits |-> << >>]
Init ==
  /\ prog \in Programs
  /\ facts = NoFacts
  /\ stack = << >> /\ mem = Fresh({}) /\ rmem = mem
  /\ ptr = NoCell /\ entry = "" /\ handlers = << >> /\ over = ""

(* Sema and the decision layer; then MAIN starts. *)
Compile ==
  /\ facts = NoFacts /\ Compiles(prog)
  /\ LET pr == computeWholeProgramFacts(prog)
         main == pr.procs[1]
         own == Locals(pr, main, 1)
     IN /\ prog' = pr
        /\ facts' = [env |-> [p \in ProcsOf(pr) |-> computeEnv(pr, p)],
                     bits |-> analyzeEffects(pr)]
        /\ stack' = << Frame(main, 0, own, own, {}, pr.body[main]) >>
        /\ mem' = Fresh(Statics(pr) \cup {own[v] : v \in DOMAIN own})
        /\ rmem' = mem'
  /\ UNCHANGED << ptr, entry, handlers, over >>

(* The established unit a trap runs: its own key's, or an ERROR unit. *)
UnitFor(key) ==
  LET of(k) == {i \in DOMAIN handlers : handlers[i].key = k}
      latest(S) == CHOOSE i \in S : \A j \in S : j <= i
  IN IF of(key) # {} THEN latest(of(key)) ELSE IF of("ERROR") # {} THEN latest(of("ERROR")) ELSE 0

Raised(e) == CASE e.how = "arith" -> "SIZE" [] e.how = "convert" -> "CONVERSION"
               [] e.how = "subscript" -> "SUBSCRIPTRANGE" [] OTHER -> ""
Plain(st) == [st EXCEPT !.e.how = "var"]
Abort == [op |-> "stop", v |-> "", e |-> [how |-> "lit", v |-> ""], q |-> "", args |-> << >>,
          key |-> "", body |-> << >>, alt |-> << >>]

(* emitCondTrap: the check fails; the dispatch runs the unit in this frame. *)
emitCondTrap ==
  /\ At("assign") /\ prog.checks /\ Raised(St.e) # "" /\ Defined
  /\ LET u == UnitFor(Raised(St.e))
         h == handlers[u]
         stk == Todo(Touch(stack, "read", Operands(St.e)), << Plain(St) >>)
     IN IF u = 0 THEN over' = "abort" /\ UNCHANGED stack
        ELSE /\ stack' = Append(stk, Frame("", h.act, stack[h.act].addr, stack[h.act].ref, {},
                                           IF h.key = "ERROR" THEN Append(h.body, Abort) ELSE h.body))
             /\ UNCHANGED over
  /\ UNCHANGED << prog, facts, mem, rmem, ptr, entry, handlers >>

emitAssign ==
  /\ At("assign") /\ Defined
  /\ LET target == addressOf(Top, St.v)
     IN /\ stack' = Continue(Touch(Touch(stack, "read", Operands(St.e)), "write",
                       {target} \cup IF St.e.how \in {"REPEAT", "UNKNOWN"} THEN {NoCell} ELSE {}))
        /\ mem' = Put(mem, target, Value(St.e))
        /\ rmem' = Put(rmem, RefCell(Len(stack), St.v), RefValue(St.e))
        /\ ptr' = IF St.e.how = "ADDR" THEN addressOf(Top, St.e.v) ELSE ptr
        /\ entry' = IF St.e.how = "name" THEN St.e.v ELSE entry
  /\ UNCHANGED << prog, facts, handlers, over >>

emitIf ==
  /\ At("if") /\ Defined
  /\ \E b \in {St.body, St.alt} : stack' = Todo(Touch(stack, "read", Operands(St.e)), b)
  /\ UNCHANGED << prog, facts, mem, rmem, ptr, entry, handlers, over >>

(* A WHILE loop runs no time, once, or for ever. *)
emitDoWhile ==
  /\ At("while") /\ Defined
  /\ \/ stack' = Continue(Touch(stack, "read", Operands(St.e))) /\ UNCHANGED over
     \/ over' = "endless" /\ UNCHANGED stack
     \/ stack' = Todo(Touch(stack, "read", Operands(St.e)), Append(St.body, [St EXCEPT !.op = "if", !.body = << >>])) /\ UNCHANGED over
  /\ UNCHANGED << prog, facts, mem, rmem, ptr, entry, handlers >>

(* The control variable is set before the body and stepped after it. *)
emitDoIter ==
  /\ At("iter") /\ Defined
  /\ LET step == [Abort EXCEPT !.op = "assign", !.v = St.v, !.e = [how |-> "var", v |-> St.v]]
     IN /\ stack' = Todo(Touch(Touch(stack, "read", Operands(St.e)), "write", {addressOf(Top, St.v)}),
                         Append(St.body, step))
        /\ mem' = Put(mem, addressOf(Top, St.v), Value(St.e))
        /\ rmem' = Put(rmem, RefCell(Len(stack), St.v), RefValue(St.e))
  /\ UNCHANGED << prog, facts, ptr, entry, handlers, over >>

emitStop ==
  /\ At("stop")
  /\ over' = "stop"
  /\ UNCHANGED << prog, facts, stack, mem, rmem, ptr, entry, handlers >>

emitPut ==
  /\ At("put") /\ Defined
  /\ stack' = Continue(Touch(Touch(stack, "read", Operands(St.e)), "write", {NoCell}))
  /\ UNCHANGED << prog, facts, mem, rmem, ptr, entry, handlers, over >>

emitOn ==
  /\ At("on")
  /\ handlers' = Append(handlers, [key |-> St.key, act |-> Len(stack), body |-> St.body])
  /\ stack' = Continue(Touch(stack, "write", {NoCell}))
  /\ UNCHANGED << prog, facts, mem, rmem, ptr, entry, over >>

-----------------------------------------------------------------------------
(* argAddr and marshalArg: what the caller puts in an argument's place, and  *)
(* where a VARYING dummy is copied back to.                                  *)
Direct(s, a) == a.how = "var" /\ s \notin prog.byVal
ArgCell(s, a) ==
  CASE s \in prog.byVal -> Cell(Len(stack) + 1, s, FALSE)
    [] Direct(s, a) -> addressOf(Top, a.v)
    [] OTHER -> Cell(Len(stack), s, TRUE)
RefArg(s, a) == IF a.how = "var" THEN RefCell(Len(stack), a.v) ELSE Cell(Len(stack), s, TRUE)

Enter(q, args) ==
  LET k == Len(stack)
      params == prog.params[q]
      at(s) == CHOOSE i \in DOMAIN params : params[i] = s
      P == OwnParams(prog, q)
      links == {v \in facts.env[q] : v \notin prog.static \cup prog.based}
      own == Locals(prog, q, k + 1)
      cell == [s \in P |-> ArgCell(s, args[at(s)])]
      rcell == [s \in P |-> RefArg(s, args[at(s)])]
      copied == {s \in P : ~Direct(s, args[at(s)])}
      back == {s \in copied : args[at(s)].how = "vary"}
      read == UNION {Operands(args[at(s)]) : s \in copied}
      callee == Frame(q, IF prog.parent[q] = "" THEN 0 ELSE ChainTo(k, prog.parent[q]),
                      Update(Update(own, cell), [v \in links |-> addressOf(Top, v)]),
                      Update(own, rcell),
                      {cell[s] : s \in P \ prog.byVal} \cup {addressOf(Top, v) : v \in links},
                      prog.body[q])
      made == [c \in {cell[s] : s \in copied} |->
                 Value(args[at(CHOOSE s \in copied : cell[s] = c)])]
      rmade == [c \in {rcell[s] : s \in {s \in P : args[at(s)].how # "var"}} |->
                  RefValue(args[at(CHOOSE s \in P : rcell[s] = c)])]
      stk == [Continue(Touch(stack, "read", read)) EXCEPT ![k].back =
                SetToSeq({[from |-> cell[s], rfrom |-> rcell[s], v |-> args[at(s)].v] : s \in back})]
  IN /\ stack' = Append(stk, callee)
     /\ mem' = Update(Update(mem, Fresh({own[v] : v \in DOMAIN own})), made)
     /\ rmem' = Update(Update(rmem, Fresh({own[v] : v \in DOMAIN own})), rmade)

emitCall ==
  /\ At("call")
  /\ IF Len(stack) = MaxDepth THEN over' = "endless" /\ UNCHANGED << stack, mem, rmem >>
     ELSE Enter(St.q, St.args) /\ UNCHANGED over
  /\ UNCHANGED << prog, facts, ptr, entry, handlers >>

emitEntryCall ==
  /\ At("callentry") /\ entry # ""
  /\ IF Len(stack) = MaxDepth THEN over' = "endless" /\ UNCHANGED << stack, mem, rmem >>
     ELSE Enter(entry, << >>) /\ UNCHANGED over
  /\ UNCHANGED << prog, facts, ptr, entry, handlers >>

(* The end of a body: the frame goes, then flushVarWrites in the caller. *)
flushVarWrites(m, moves) == FoldLeft(LAMBDA n, b : Put(n, b.to, n[b.at]), m, moves)
Return ==
  /\ stack # << >> /\ over = "" /\ Top.todo = << >>
  /\ IF Len(stack) = 1 THEN over' = "end" /\ UNCHANGED << stack, mem, rmem, handlers >>
     ELSE LET k == Len(stack) - 1
              stk == SubSeq(stack, 1, k)
              back == stk[k].back
              live(m, n) == [c \in {c \in DOMAIN m : c.f <= k} |-> n[c]]
              mem1 == flushVarWrites(mem, [i \in DOMAIN back |->
                        [to |-> addressOf(stk[k], back[i].v), at |-> back[i].from]])
              rmem1 == flushVarWrites(rmem, [i \in DOMAIN back |->
                        [to |-> RefCell(k, back[i].v), at |-> back[i].rfrom]])
          IN /\ stack' = [Touch(stk, "write", {addressOf(stk[k], back[i].v) : i \in DOMAIN back})
                            EXCEPT ![k].back = << >>]
             /\ mem' = live(mem, mem1)
             /\ rmem' = live(rmem, rmem1)
             /\ handlers' = SelectSeq(handlers, LAMBDA h : h.act <= k)
             /\ UNCHANGED over
  /\ UNCHANGED << prog, facts, ptr, entry >>

Next ==
  \/ Compile \/ emitCondTrap \/ emitAssign \/ emitIf \/ emitDoWhile \/ emitDoIter \/ emitStop \/ emitPut
  \/ emitOn \/ emitCall \/ emitEntryCall \/ Return

-----------------------------------------------------------------------------
(* The verdict stamped on a procedure holds of every activation of it: the   *)
(* memory touched while it is active is memory it announced, and one that    *)
(* "always returns" is never active when the program stops, aborts or runs   *)
(* away (ADR-264).                                                           *)
PromiseKept ==
  \A k \in DOMAIN stack : stack[k].proc # "" =>
    LET v == Verdict(facts.bits[stack[k].proc])
    IN /\ stack[k].did \subseteq applyMemoryEffect(v.effect)
       /\ v.willReturn => over \notin {"stop", "abort", "endless"}

(* Static links lead where the static chain leads, however deep the          *)
(* recursion: an activation sees the enclosing procedure's own activation.   *)
LinksExact ==
  \A k \in DOMAIN stack : stack[k].proc # "" =>
    \A v \in facts.env[stack[k].proc] \ (prog.static \cup prog.based) :
      stack[k].addr[v] = stack[ChainTo(k, prog.owner[v])].addr[v]

(* Passing a parameter by value is not observable: the compiled program      *)
(* leaves in every variable what the by-reference program leaves there       *)
(* (ADR-215).                                                                *)
SameStorage == \A c \in {c \in DOMAIN rmem : ~c.dummy} : mem[c] = rmem[c]

(* The accesses the verdict leaves out: an argument written by a procedure   *)
(* that also reads a global, those a callee makes through links its caller   *)
(* only hands on, the control variable of an iterative DO, and the copy-back *)
(* of a VARYING dummy.                                                       *)
Accounted(pr) ==
  \A p \in DOMAIN facts.bits : \A st \in BodyStmts(pr, p) :
    /\ ~({"readsOther", "writesArg"} \subseteq facts.bits[p])
    /\ st.op = "call" => \A v \in computeEnv(pr, st.q) : pr.owner[v] = p \/ v \in pr.static
    /\ st.op = "iter" => st.v \in Own(pr, p)
    /\ \A i \in DOMAIN st.args : st.args[i].how = "vary" => st.args[i].v \in Own(pr, p)
(* No procedure changes a variable a caller may have passed by value. *)
Unshared(pr) ==
  pr.byVal = {} \/ \A p \in ProcsOf(pr) \ {pr.procs[1]} : \A st \in BodyStmts(pr, p) :
                     st.op \in {"assign", "iter"} => st.v \in Own(pr, p) \cup OwnParams(pr, p)

(* What the three promises come to, for the programs the analysis accounts   *)
(* for.                                                                      *)
CallsSound ==
  /\ LinksExact
  /\ Accounted(prog) => PromiseKept
  /\ Unshared(prog) => SameStorage
=============================================================================
