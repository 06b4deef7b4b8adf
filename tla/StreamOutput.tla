---------------------------- MODULE StreamOutput ----------------------------
(***************************************************************************)
(* Stream output (runtime/rt_stream.c, rt_file.c): PUT and DISPLAY through *)
(* two slabs, one for the console and one shared by all named files, under *)
(* the output lock that the compiler takes around each statement.          *)
(*                                                                         *)
(* A character is the task that wrote it, or NL.  Items have the lengths   *)
(* of Lens.  A program closes or reopens a file only when no other task is *)
(* inside a PUT to it.                                                     *)
(***************************************************************************)
EXTENDS Naturals, Sequences, SequencesExt, FiniteSets, Functions

CONSTANTS Tasks, Main,                      \* Main is the main program
          Files, NoFile,
          Lens,                              \* lengths of the items
          LINESIZE,                          \* of every file, 0 for none
          RT_BUF,                            \* RT_STDOUT_BUF and RT_FILE_OUT_BUF
          MaxChars                           \* bound: characters the program writes

ASSUME OutputAssumption == Main \in Tasks /\ NoFile \notin Files /\ RT_BUF \in Nat \ {0} /\ LINESIZE \in Nat

NL == "NL"

VARIABLES console, rt_stdout_buf,            \* the device, the slab
          disk, rt_file_out_buf, rt_file_out_owner,
          files, nonprint,                   \* open files, of which NONPRINT
          rt_out_f, rt_out_discard,          \* the selection
          rt_col,
          rt_tasks_active,                   \* a task has been spawned: the lock is on
          holder,                            \* of the output lock, or whose statement is open
          dest,                              \* destination of each task's PUT, or "idle"
          sent,                              \* history: what was PUT, by destination
          named,                             \* history: a named file was PUT to
          joined,                            \* history: a DISPLAY continued a line
          ended

vars == <<console, rt_stdout_buf, disk, rt_file_out_buf, rt_file_out_owner, files, nonprint,
          rt_out_f, rt_out_discard, rt_col, rt_tasks_active, holder, dest, sent, named, joined, ended>>

Init ==
  /\ console = <<>> /\ rt_stdout_buf = <<>>
  /\ disk = [f \in Files |-> <<>>] /\ rt_file_out_buf = <<>> /\ rt_file_out_owner = NoFile
  /\ files = {} /\ nonprint = {}
  /\ rt_out_f = NoFile /\ rt_out_discard = FALSE /\ rt_col = 0
  /\ rt_tasks_active = FALSE /\ holder = "none" /\ dest = [t \in Tasks |-> "idle"]
  /\ sent = [d \in Files \cup {NoFile} |-> <<>>]
  /\ named = FALSE /\ joined = FALSE /\ ended = FALSE

\* The main program runs alone until it spawns a task.
Runs(t) == ~ended /\ (t = Main \/ rt_tasks_active)

\* rt_stream_enable_threads.  A statement evaluates its items before its
\* calls of the stream runtime, so no spawn comes in between those.
Spawn ==
  /\ ~ended /\ ~rt_tasks_active /\ holder = "none"
  /\ rt_tasks_active' = TRUE
  /\ UNCHANGED <<console, rt_stdout_buf, disk, rt_file_out_buf, rt_file_out_owner, files, nonprint,
                 rt_out_f, rt_out_discard, rt_col, holder, dest, sent, named, joined, ended>>

-----------------------------------------------------------------------------
(* The output state as a record, so that the steps of a statement compose. *)

Out == [con |-> console, sbuf |-> rt_stdout_buf, disk |-> disk, fbuf |-> rt_file_out_buf,
        owner |-> rt_file_out_owner, f |-> rt_out_f, discard |-> rt_out_discard,
        col |-> rt_col, sent |-> sent]

Becomes(o) ==
  /\ console' = o.con /\ rt_stdout_buf' = o.sbuf /\ disk' = o.disk /\ rt_file_out_buf' = o.fbuf
  /\ rt_file_out_owner' = o.owner /\ rt_out_f' = o.f /\ rt_out_discard' = o.discard
  /\ rt_col' = o.col /\ sent' = o.sent

rt_file_out_drain(o) ==
  IF o.owner = NoFile THEN o
  ELSE [o EXCEPT !.disk[o.owner] = @ \o o.fbuf, !.fbuf = <<>>]

rt_file_out_detach(o, f) ==
  IF o.owner = f THEN [rt_file_out_drain(o) EXCEPT !.owner = NoFile] ELSE o

rt_flush_stdout(o) == [o EXCEPT !.con = @ \o o.sbuf, !.sbuf = <<>>]

\* A line that LINESIZE would overflow ends first, past the slab.
Wrapped(o, p) ==
  IF LINESIZE > 0 /\ o.col > 0 /\ o.col + Len(p) > LINESIZE
  THEN LET d == rt_file_out_drain(o) IN
         [d EXCEPT !.disk[o.f] = Append(@, NL), !.col = 0, !.sent[o.f] = Append(@, NL)]
  ELSE o

\* Mutant: the slab changes its owner undrained.
OwnedUndrained(o) == [o EXCEPT !.owner = o.f]

\* A different file starts a fresh slab.
Owned(o) == IF o.owner # o.f THEN [rt_file_out_drain(o) EXCEPT !.owner = o.f] ELSE o

Full(o, p) == Len(p) >= RT_BUF \/ Len(o.fbuf) + Len(p) > RT_BUF

ToFile(o, p) ==
  LET w == Owned(Wrapped(o, p))
      d == IF Full(w, p) THEN rt_file_out_drain(w) ELSE w
      r == IF Len(p) >= RT_BUF THEN [d EXCEPT !.disk[o.f] = @ \o p] ELSE [d EXCEPT !.fbuf = @ \o p]
  IN [r EXCEPT !.col = @ + Len(p), !.sent[o.f] = @ \o p]

ToStdout(o, p) ==
  LET r == IF Len(o.sbuf) + Len(p) <= RT_BUF THEN [o EXCEPT !.sbuf = @ \o p]
           ELSE [rt_flush_stdout(o) EXCEPT !.con = @ \o p]
  IN [r EXCEPT !.col = @ + Len(p), !.sent[NoFile] = @ \o p]

rt_put_raw(o, p) ==
  CASE o.f # NoFile -> ToFile(o, p)
    [] o.f = NoFile /\ o.discard -> o
    [] OTHER -> ToStdout(o, p)

-----------------------------------------------------------------------------
(* Statements. *)

Room(n) == LET total == FoldFunction(LAMBDA s, acc : acc + Len(s), 0, sent) IN total + n <= MaxChars

\* pli_out_begin, and pli_put_select for a named file.  A PUT to a file that
\* is not open ends the program with ERROR.
PutBegin(t, d) ==
  /\ dest[t] = "idle" /\ holder = "none" /\ Runs(t)
  /\ d \in files \cup nonprint \cup {NoFile}
  /\ holder' = t /\ dest' = [dest EXCEPT ![t] = d]
  /\ Becomes(IF d = NoFile THEN Out
             ELSE [rt_flush_stdout(Out) EXCEPT !.f = IF d \in nonprint THEN NoFile ELSE d,
                                               !.discard = d \in nonprint, !.col = 0])
  /\ named' = (named \/ d # NoFile)
  /\ UNCHANGED <<files, nonprint, rt_tasks_active, joined, ended>>

\* One item: rt_separate and the item writer.
PutItem(t) ==
  /\ holder = t /\ dest[t] # "idle"
  /\ \E n \in Lens : Room(n + 1) /\ Becomes(rt_put_raw(Out, [i \in 1 .. n |-> t]))
  /\ UNCHANGED <<files, nonprint, rt_tasks_active, holder, dest, named, joined, ended>>

pli_put_skip(t) ==
  /\ holder = t /\ dest[t] # "idle" /\ Room(1)
  /\ IF rt_out_f # NoFile \/ rt_col > 0
     THEN Becomes([rt_put_raw(Out, <<NL>>) EXCEPT !.col = 0])
     ELSE UNCHANGED <<console, rt_stdout_buf, disk, rt_file_out_buf, rt_file_out_owner,
                      rt_out_f, rt_out_discard, rt_col, sent>>
  /\ UNCHANGED <<files, nonprint, rt_tasks_active, holder, dest, named, joined, ended>>

\* Mutant: the end of a statement leaves the slab full.
EndKeepsSlab(o) == o

\* pli_out_end: with tasks, the file slab is drained while the lock is held.
EndDrain(o) == IF rt_tasks_active THEN rt_file_out_drain(o) ELSE o

PutEnd(t) ==
  /\ holder = t /\ dest[t] # "idle"
  /\ Becomes(EndDrain([Out EXCEPT !.f = NoFile, !.discard = FALSE]))
  /\ holder' = "none" /\ dest' = [dest EXCEPT ![t] = "idle"]
  /\ UNCHANGED <<files, nonprint, rt_tasks_active, named, joined, ended>>

\* Mutant: DISPLAY continues the pending line.
DisplayOnLine(o) == o

\* rt_display_begin ends a pending line.
rt_display_begin(o) == IF o.col > 0 THEN [rt_put_raw(o, <<NL>>) EXCEPT !.col = 0] ELSE o

Console(o) == o.con \o o.sbuf

\* DISPLAY, a statement of its own under the lock.
pli_display(t) ==
  /\ dest[t] = "idle" /\ holder = "none" /\ Runs(t) /\ Room(3)
  /\ LET b == rt_display_begin(Out) IN
       /\ joined' = (joined \/ (Console(b) # <<>> /\ Last(Console(b)) # NL))
       /\ Becomes(EndDrain([rt_put_raw(rt_put_raw(b, <<t>>), <<NL>>) EXCEPT !.col = 0]))
  /\ UNCHANGED <<files, nonprint, rt_tasks_active, holder, dest, named, ended>>

\* OPEN ... OUTPUT: closes what the slot held and truncates.
pli_file_open(f) ==
  /\ ~ended /\ \A t \in Tasks : dest[t] # f
  /\ \E np \in BOOLEAN :
       LET o == IF f \in files THEN rt_file_out_detach(Out, f) ELSE Out IN
         IF np
         THEN files' = files \ {f} /\ nonprint' = nonprint \cup {f} /\ Becomes(o)
         ELSE /\ files' = files \cup {f} /\ nonprint' = nonprint \ {f}
              /\ Becomes([o EXCEPT !.disk[f] = <<>>, !.sent[f] = <<>>])
  /\ UNCHANGED <<rt_tasks_active, holder, dest, named, joined, ended>>

pli_file_close(f) ==
  /\ ~ended /\ f \in files /\ \A t \in Tasks : dest[t] # f
  /\ Becomes(rt_file_out_detach(Out, f))
  /\ files' = files \ {f}
  /\ UNCHANGED <<nonprint, rt_tasks_active, holder, dest, named, joined, ended>>

FiniFlush(o) == rt_flush_stdout(rt_file_out_drain(o))

\* The end of the program; a pending console line is ended.
pli_rt_fini ==
  /\ ~ended /\ holder = "none"
  /\ LET o == FiniFlush(Out) IN
       Becomes(IF o.col > 0 THEN [o EXCEPT !.con = Append(@, NL), !.col = 0, !.sent[NoFile] = Append(@, NL)]
               ELSE o)
  /\ ended' = TRUE
  /\ UNCHANGED <<files, nonprint, rt_tasks_active, holder, dest, named, joined>>

Next ==
  \/ \E t \in Tasks :
       \/ \E d \in Files \cup {NoFile} : PutBegin(t, d)
       \/ PutItem(t) \/ pli_put_skip(t) \/ PutEnd(t) \/ pli_display(t)
  \/ \E f \in Files : pli_file_open(f) \/ pli_file_close(f)
  \/ Spawn \/ pli_rt_fini

Spec == Init /\ [][Next]_vars

-----------------------------------------------------------------------------
(* Properties. *)

\* Slabs stay within their size, and the selection belongs to a statement
\* that holds the lock.
SlabsFit ==
  /\ Len(rt_stdout_buf) <= RT_BUF /\ Len(rt_file_out_buf) <= RT_BUF
  /\ holder = "none" => rt_out_f = NoFile /\ ~rt_out_discard

\* Every character of every PUT is on its own destination or still in the
\* slab that will go there, in the order written, whatever other files,
\* tasks, OPENs and CLOSEs came in between.
NothingLostOrMixed ==
  /\ console \o rt_stdout_buf = sent[NoFile]
  /\ \A f \in Files :
       disk[f] \o (IF rt_file_out_owner = f THEN rt_file_out_buf ELSE <<>>) = sent[f]

\* With tasks, "the record boundary is the atomic unit" (pli_out_end): when a
\* statement gives up the lock, every file holds every record written, whole,
\* those that the main program left in the slab before the first task included.
RecordsDrained ==
  [][rt_tasks_active /\ holder # "none" /\ holder' = "none" => \A f \in Files : disk'[f] = sent'[f]]_vars

\* The end of the program leaves nothing behind in a slab.
EndsFlushed == ended => rt_stdout_buf = <<>> /\ \A f \in Files : disk[f] = sent[f]

\* "Mixed PUT/DISPLAY output never joins two values on one line"
\* (rt_display_begin): as long as no named file has been PUT to, whose column
\* the runtime keeps in the same counter, a DISPLAY starts a line of its own.
DisplayStartsLine == ~named => ~joined

\* Slabs never overflow, lose, mix or reorder characters, up to and including
\* the end of the program.
OutputExact == SlabsFit /\ NothingLostOrMixed /\ EndsFlushed
=============================================================================
