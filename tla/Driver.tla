------------------------------- MODULE Driver -------------------------------
(* The driver: what an invocation of pli makes of its command line, the      *)
(* files it reads and writes, in which order, and what is left of them when  *)
(* a step fails or the process is killed. Two invocations run at a time, as  *)
(* a parallel build runs them, on different inputs.                          *)
(*                                                                           *)
(* A source is a version of Versions: [ok] whether the front end accepts it, *)
(* [sig] the signature of the external procedure it defines or declares,     *)
(* [effect] the memory effect of the definition ("" in a caller). An object  *)
(* is [unit, ver, size, sub, promise, whole]: what it was compiled from, the *)
(* checks it has, the effect it takes the external procedure to have (the    *)
(* promise: [effect, of, cut] with the version it was published for and how  *)
(* much of the file was there to read), and whether                          *)
(* all of it was written.                                                    *)
EXTENDS Integers, Sequences, FiniteSets, SequencesExt

CONSTANTS Versions,   \* the versions a unit's source can have, by unit
          Commands,   \* the command lines: sequences of [k, v]
          Procs, MaxRuns, MaxEdits,
          Faults      \* the failures of the system the run may meet

VARIABLES src, eff, obj, exe, ll, temp, runs, count

vars == << src, eff, obj, exe, ll, temp, runs, count >>

Units == DOMAIN Versions
NoPromise == [effect |-> "readwrite", of |-> 0, cut |-> "none"]
NoObj == [unit |-> "", ver |-> 0, size |-> FALSE, sub |-> FALSE, promise |-> NoPromise, whole |-> FALSE]

-----------------------------------------------------------------------------
(* The command line, an argument at a time; stop is the status of an early   *)
(* exit (99: none).                                                          *)
On == 99
Defaults ==
  [stop |-> On, c |-> FALSE, llvm |-> FALSE, syntax |-> FALSE, print |-> FALSE, mlir |-> FALSE,
   out |-> FALSE, opt |-> "-O2", release |-> FALSE, debug |-> FALSE,
   noSize |-> FALSE, sizeX |-> FALSE, noSub |-> FALSE, subX |-> FALSE,
   eff |-> FALSE, emit |-> FALSE, keepLL |-> FALSE, info |-> FALSE, inline |-> FALSE,
   inputs |-> << >>]
ParseArg(s, a) ==
  IF s.stop # On THEN s
  ELSE CASE a.k = "--help" -> [s EXCEPT !.stop = 0]
         [] a.k = "-o" -> IF a.v = "" THEN [s EXCEPT !.stop = 2] ELSE [s EXCEPT !.out = TRUE]
         [] a.k = "-c" -> [s EXCEPT !.c = TRUE]
         [] a.k = "-emit-llvm" -> [s EXCEPT !.llvm = TRUE]
         [] a.k = "-emit-mlir" -> [s EXCEPT !.mlir = TRUE]
         [] a.k = "-fsyntax-only" -> [s EXCEPT !.syntax = TRUE]
         [] a.k \in {"--print-hir", "--print-facts"} -> [s EXCEPT !.print = TRUE]
         [] a.k = "--keep-ll" -> [s EXCEPT !.keepLL = TRUE]
         [] a.k \in {"-O0", "-O1", "-O2", "-O3", "-Os"} -> [s EXCEPT !.opt = a.k]
         [] a.k = "--release" -> [s EXCEPT !.release = TRUE]
         [] a.k = "--debug" -> [s EXCEPT !.debug = TRUE]
         [] a.k = "--no-size-checks" ->
              [s EXCEPT !.noSize = TRUE, !.sizeX = TRUE, !.noSub = TRUE, !.subX = TRUE]
         [] a.k = "--size-checks" ->
              [s EXCEPT !.noSize = FALSE, !.sizeX = TRUE, !.noSub = FALSE, !.subX = TRUE]
         [] a.k = "--no-subscript" -> [s EXCEPT !.noSub = TRUE, !.subX = TRUE]
         [] a.k = "--subscript-checks" -> [s EXCEPT !.noSub = FALSE, !.subX = TRUE]
         [] a.k = "--emit-effects=" -> [s EXCEPT !.emit = TRUE]
         [] a.k = "--effects=" -> [s EXCEPT !.eff = TRUE]
         [] a.k \in {"--explain", "--version"} -> [s EXCEPT !.info = TRUE]
         [] a.k = "--experimental-lowering=" ->
              IF a.v \in {"auto", "runtime", "llvm"} THEN [s EXCEPT !.inline = a.v # "auto"]
              ELSE [s EXCEPT !.stop = 2]
         [] a.k = "unit" -> [s EXCEPT !.inputs = Append(@, [unit |-> a.v, foreign |-> FALSE])]
         [] a.k = "object" -> [s EXCEPT !.inputs = Append(@, [unit |-> a.v, foreign |-> TRUE])]
         [] OTHER -> [s EXCEPT !.stop = 2]

Sources(s) == SelectSeq(s.inputs, LAMBDA x : ~x.foreign)
Foreign(s) == SelectSeq(s.inputs, LAMBDA x : x.foreign)
TerminalMode(s) == s.c \/ s.llvm \/ s.mlir \/ s.syntax \/ s.print

(* What is refused before anything is read. *)
Refused(s) ==
  \/ s.inputs = << >>
  \/ Foreign(s) # << >> /\ TerminalMode(s)
  \/ s.c /\ Len(Sources(s)) > 1 /\ s.out
  \/ Len(Sources(s)) > 1 /\ s.out /\ (TerminalMode(s) /\ ~s.c)
  \/ s.mlir /\ s.inline

(* Mutant: the level turns off the checks that were asked for. *)
PresetsOverAsked(s) ==
  LET opt == IF s.release THEN "-O3" ELSE IF s.debug THEN "-O0" ELSE s.opt
      fast == opt \in {"-O2", "-O3"}
  IN [s EXCEPT !.opt = opt, !.noSize = @ \/ fast, !.noSub = @ \/ fast, !.llvm = @ \/ s.mlir]

(* The presets choose the level whatever its place on the line; the level    *)
(* turns off the checks nobody asked for.                                    *)
Presets(s) ==
  LET opt == IF s.release THEN "-O3" ELSE IF s.debug THEN "-O0" ELSE s.opt
      fast == opt \in {"-O2", "-O3"}
  IN [s EXCEPT !.opt = opt, !.noSize = @ \/ (~s.sizeX /\ fast), !.noSub = @ \/ (~s.subX /\ fast),
               !.llvm = @ \/ s.mlir]

Options(args) ==
  LET s == FoldLeft(ParseArg, Defaults, args)
  IN IF s.stop # On THEN s
     ELSE IF s.info THEN [s EXCEPT !.stop = 0]
     ELSE IF Refused(s) THEN [s EXCEPT !.stop = 2]
     ELSE Presets(s)

-----------------------------------------------------------------------------
(* The published-effects file. It is written in place: truncated when it is  *)
(* opened, and whole only when the last of it has been written. What is left *)
(* of a file cut short ends anywhere: in the header, before the line, in the *)
(* token, after it.                                                          *)
Cuts == {"none", "header", "line", "token"}
NoFile == [there |-> FALSE, cut |-> "none", digest |-> "", effect |-> "", of |-> 0]
Shortened(e) == CASE e = "readwrite" -> "read" [] e = "argmem-readwrite" -> "argmem-read" [] OTHER -> "?"
effectTokens == {"none", "argmem-read", "argmem-readwrite", "read", "readwrite"}
formatEffectLine(v, cut) == [there |-> TRUE, cut |-> cut, digest |-> v.sig, effect |-> v.effect, of |-> v.ver]

(* Whether the file is accepted, and the effect it gives, if any. *)
parseEffectLine(f) ==
  LET token == IF f.cut = "token" THEN Shortened(f.effect) ELSE f.effect
  IN [ok |-> token \in effectTokens, effect |-> token]
readPublishedEffects(f) ==
  IF ~f.there \/ f.cut = "header" THEN [ok |-> FALSE, found |-> FALSE, effect |-> ""]
  ELSE IF f.cut = "line" \/ f.effect = "" THEN [ok |-> TRUE, found |-> FALSE, effect |-> ""]
  ELSE LET line == parseEffectLine(f) IN [ok |-> line.ok, found |-> line.ok, effect |-> line.effect]

(* A promise is used only for the signature it was published for. *)
applyPublishedEffect(v, f) ==
  LET got == readPublishedEffects(f)
  IN IF got.found /\ f.digest = v.sig THEN [effect |-> got.effect, of |-> f.of, cut |-> f.cut]
     ELSE NoPromise

-----------------------------------------------------------------------------
Idle == [pc |-> "idle", args |-> << >>, set |-> Defaults, k |-> 0, objs |-> << >>, status |-> On,
         promise |-> NoPromise, blobs |-> 0, id |-> 0]

Init ==
  /\ src = [u \in Units |-> 1]
  /\ eff = NoFile
  /\ obj = [u \in Units |-> NoObj]
  /\ exe = << >> /\ ll = [u \in Units |-> 0]
  /\ temp = {}
  /\ runs = [p \in Procs |-> Idle]
  /\ count = [runs |-> 0, edits |-> 0]

Running(p) == runs[p].pc \notin {"idle", "ended"}
InputsOf(s) == {s.inputs[j].unit : j \in DOMAIN s.inputs}
Ended(p, status) == runs' = [runs EXCEPT ![p].pc = "ended", ![p].status = status]

Edit(u) ==
  /\ \A p \in Procs : ~(Running(p) /\ u \in InputsOf(runs[p].set))
  /\ count.edits < MaxEdits
  /\ \E v \in DOMAIN Versions[u] : v # src[u] /\ src' = [src EXCEPT ![u] = v]
  /\ count' = [count EXCEPT !.edits = @ + 1]
  /\ UNCHANGED << eff, obj, exe, ll, temp, runs >>

Start(p, args) ==
  LET s == Options(args)
  IN /\ ~Running(p)
     /\ count.runs < MaxRuns
     /\ \A q \in Procs \ {p} : Running(q) =>
          /\ InputsOf(s) \cap InputsOf(runs[q].set) = {}
          /\ ~(s.emit /\ runs[q].set.emit)
     /\ count' = [count EXCEPT !.runs = @ + 1]
     /\ runs' = [runs EXCEPT ![p] =
          [Idle EXCEPT !.args = args, !.set = s, !.status = s.stop,
                       !.pc = IF s.stop # On THEN "ended"
                              ELSE IF Sources(s) = << >> THEN "link" ELSE "front",
                       !.k = 1, !.id = count.runs, !.objs = [j \in DOMAIN Foreign(s) |-> obj[Foreign(s)[j].unit]]]]
     /\ UNCHANGED << src, eff, obj, exe, ll, temp >>

Unit(p) == Sources(runs[p].set)[runs[p].k].unit
Source(p) == Versions[Unit(p)][src[Unit(p)]]
LastUnit(p) == runs[p].k = Len(Sources(runs[p].set))
Advance(p, r) ==
  runs' = [runs EXCEPT ![p] =
    IF ~LastUnit(p) THEN [r EXCEPT !.k = @ + 1, !.pc = "front", !.promise = NoPromise]
    ELSE IF TerminalMode(r.set) THEN [r EXCEPT !.pc = "ended", !.status = 0]
    ELSE [r EXCEPT !.pc = "link"]]

(* Preprocessor to sema, the effects file read after the parse; the modes    *)
(* that stop here stop.                                                      *)
FrontEnd(p) ==
  LET r == runs[p]
      bad == ~Source(p).ok \/ (r.set.eff /\ ~readPublishedEffects(eff).ok)
      promise == IF r.set.eff THEN applyPublishedEffect(Source(p), eff) ELSE NoPromise
  IN /\ r.pc = "front"
     /\ IF bad THEN Ended(p, 1) /\ UNCHANGED ll
        ELSE IF r.set.syntax \/ r.set.print THEN Advance(p, r) /\ UNCHANGED ll
        ELSE IF r.set.mlir THEN Ended(p, 1) /\ UNCHANGED ll
        ELSE IF r.set.llvm
        THEN Advance(p, r) /\ ll' = [ll EXCEPT ![Unit(p)] = src[Unit(p)]]
        ELSE /\ runs' = [runs EXCEPT ![p].promise = promise,
                                     ![p].pc = IF r.set.emit THEN "publish" ELSE "emit"]
             /\ UNCHANGED ll
     /\ UNCHANGED << src, eff, obj, exe, temp, count >>

(* The file is opened, and part of it is on disk; then the rest, of which    *)
(* nobody asks whether it was written.                                       *)
OpenEffects(p) ==
  /\ runs[p].pc = "publish"
  /\ \/ /\ \E cut \in Cuts \ {"none"} : eff' = formatEffectLine(Source(p), cut)
        /\ runs' = [runs EXCEPT ![p].pc = "publishing"]
     \/ /\ "effects" \in Faults
        /\ Ended(p, 1) /\ UNCHANGED eff
  /\ UNCHANGED << src, obj, exe, ll, temp, count >>
writePublishedEffects(p) ==
  /\ runs[p].pc = "publishing"
  /\ eff' = formatEffectLine(Source(p), "none") \/ ("space" \in Faults /\ UNCHANGED eff)
  /\ runs' = [runs EXCEPT ![p].pc = "emit"]
  /\ UNCHANGED << src, obj, exe, ll, temp, count >>

(* The object: into memory for a link, into its file with -c. *)
Compiled(p, whole) ==
  [unit |-> Unit(p), ver |-> src[Unit(p)], size |-> ~runs[p].set.noSize, sub |-> ~runs[p].set.noSub,
   promise |-> runs[p].promise, whole |-> whole]
EmitObject(p) ==
  LET r == runs[p]
      done == Compiled(p, TRUE)
  IN /\ r.pc = "emit"
     /\ \/ /\ Advance(p, [r EXCEPT !.objs = Append(@, done), !.blobs = IF r.set.c THEN 0 ELSE @ + 1])
           /\ obj' = IF r.set.c THEN [obj EXCEPT ![Unit(p)] = done] ELSE obj
           /\ ll' = IF r.set.keepLL THEN [ll EXCEPT ![Unit(p)] = src[Unit(p)]] ELSE ll
        \/ /\ "emit" \in Faults
           /\ Ended(p, 1)
           /\ obj' = IF r.set.c THEN [obj EXCEPT ![Unit(p)] = Compiled(p, FALSE)] ELSE obj
           /\ UNCHANGED ll
     /\ UNCHANGED << src, eff, exe, temp, count >>

(* The sysroot goes to memory or, when that fails, to a directory of its own *)
(* under the temporary directory.                                            *)
MaterializeSysroot(p) ==
  /\ runs[p].pc = "link"
  /\ \/ runs' = [runs EXCEPT ![p].pc = "lld", ![p].blobs = @ + 1] /\ UNCHANGED temp
     \/ /\ "memory" \in Faults
        /\ \/ /\ runs' = [runs EXCEPT ![p].pc = "lld"]
              /\ temp' = temp \cup {runs[p].id}
           \/ Ended(p, 1) /\ UNCHANGED temp
  /\ UNCHANGED << src, eff, obj, exe, ll, count >>

(* The link, after which the objects in memory and the sysroot are given     *)
(* back either way. An incomplete object or sysroot, or lld, may fail it.    *)
Link(p) ==
  LET r == runs[p]
      good == \A j \in DOMAIN r.objs : r.objs[j].whole
  IN /\ r.pc = "lld"
     /\ \/ good /\ exe' = r.objs
           /\ runs' = [runs EXCEPT ![p] = [r EXCEPT !.pc = "ended", !.status = 0, !.blobs = 0]]
        \/ (~good \/ "lld" \in Faults) /\ UNCHANGED exe
           /\ runs' = [runs EXCEPT ![p] = [r EXCEPT !.pc = "ended", !.status = 1, !.blobs = 0]]
     /\ temp' = temp \ {r.id}
     /\ UNCHANGED << src, eff, obj, ll, count >>

Kill(p) ==
  /\ "kill" \in Faults
  /\ Running(p)
  /\ runs' = [runs EXCEPT ![p].pc = "ended", ![p].status = 9, ![p].blobs = 0]
  /\ obj' = IF runs[p].pc = "emit" /\ runs[p].set.c THEN [obj EXCEPT ![Unit(p)] = Compiled(p, FALSE)] ELSE obj
  /\ UNCHANGED << src, eff, exe, ll, temp, count >>

Next ==
  \/ \E u \in Units : Edit(u)
  \/ \E p \in Procs, args \in Commands : Start(p, args)
  \/ \E p \in Procs : \/ FrontEnd(p) \/ OpenEffects(p) \/ writePublishedEffects(p)
                      \/ EmitObject(p) \/ MaterializeSysroot(p) \/ Link(p) \/ Kill(p)

-----------------------------------------------------------------------------
(* What a command line asks for, read off the line as a whole.               *)
Asked(args, on, off) ==
  LET said == {j \in DOMAIN args : args[j].k \in on \cup off}
  IN IF said = {} THEN "" ELSE IF args[Max(said)].k \in on THEN "on" ELSE "off"
Level(args) ==
  LET has(k) == \E j \in DOMAIN args : args[j].k = k
      said == {j \in DOMAIN args : args[j].k \in {"-O0", "-O1", "-O2", "-O3", "-Os"}}
  IN IF has("--release") THEN "-O3" ELSE IF has("--debug") THEN "-O0"
     ELSE IF said = {} THEN "-O2" ELSE args[Max(said)].k
Checks(args, on, off) ==
  LET a == Asked(args, on, off) IN a = "on" \/ (a = "" /\ Level(args) \notin {"-O2", "-O3"})
SizeAsked(args) == Checks(args, {"--size-checks"}, {"--no-size-checks"})
SubAsked(args) ==
  Checks(args, {"--size-checks", "--subscript-checks"}, {"--no-size-checks", "--no-subscript"})

(* An invocation that ends with status 0 has made what was asked, whole,     *)
(* from the sources it named and with the checks the command line asks for   *)
(* (of several options the last, a preset over a level); the executable has  *)
(* the objects in order, the foreign ones first. However it ends, unless it  *)
(* is killed, it leaves no sysroot directory and holds no object in memory   *)
(* after its link. And whatever was compiled with a promise took it from a   *)
(* line published for the same signature, so that linked with the version it *)
(* was published for, the promise is that version's effect, unless the file  *)
(* was read when it was not whole.                                           *)
DriverSound ==
  /\ \A p \in Procs : LET r == runs[p] IN r.pc = "ended" =>
       /\ r.status # 9 => r.id \notin temp
       /\ r.status = 0 /\ r.set.stop = On /\ (r.set.c \/ ~TerminalMode(r.set)) =>
            LET named == Foreign(r.set) \o Sources(r.set)
            IN /\ Len(r.objs) = Len(named) /\ r.blobs = 0
               /\ \A j \in DOMAIN named : LET o == r.objs[j] IN
                    /\ o.unit = named[j].unit /\ o.whole
                    /\ ~named[j].foreign => o.size = SizeAsked(r.args) /\ o.sub = SubAsked(r.args)
  /\ \A a, b \in DOMAIN exe : LET pr == exe[a].promise IN
       /\ exe[a].whole
       /\ pr.of = exe[b].ver /\ exe[a].unit # exe[b].unit /\ pr.of # 0
          /\ pr.cut = "none" =>
            /\ pr.effect = Versions[exe[b].unit][pr.of].effect
            /\ Versions[exe[a].unit][exe[a].ver].sig = Versions[exe[b].unit][pr.of].sig

(* A promise an object was compiled with is the effect that was published.   *)
PromiseAsPublished ==
  \A a, b \in DOMAIN exe : LET pr == exe[a].promise IN
    pr.of = exe[b].ver /\ exe[a].unit # exe[b].unit /\ pr.of # 0 =>
      pr.effect = Versions[exe[b].unit][pr.of].effect
=============================================================================
