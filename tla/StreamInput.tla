---------------------------- MODULE StreamInput ----------------------------
(***************************************************************************)
(* Stream input from named files (runtime/rt_stream.c, rt_file.c): GET     *)
(* takes characters from one slab that an fread of the selected file       *)
(* fills.  The slab is keyed by the FILE pointer it was filled from.       *)
(*                                                                         *)
(* A file's contents are the characters 1 .. FileLen.  The C library may   *)
(* give a new stream the address of one that was closed; Reuse says        *)
(* whether it does.  The compiler holds the input lock for the whole       *)
(* statement.                                                              *)
(***************************************************************************)
EXTENDS Naturals, Sequences, FiniteSets

CONSTANTS Tasks, Files,
          Addrs, NULL, Reuse,                \* FILE pointers
          FileLen,
          RT_FILE_IN_BUF,
          MaxOpens                           \* bound: OPENs of the program

VARIABLES rt_pli_files,                      \* the open stream of each file, or NULL
          offset,                            \* of each stream
          rt_in_f, owner, buf, pos,          \* selection and slab
          holder,                            \* of the input lock
          opens, used,                       \* OPENs so far, addresses given out
          taken                              \* history: what GETs took since the OPEN

vars == <<rt_pli_files, offset, rt_in_f, owner, buf, pos, holder, opens, used, taken>>
slab == <<owner, buf, pos>>

Init ==
  /\ rt_pli_files = [f \in Files |-> NULL] /\ offset = [a \in Addrs |-> 0]
  /\ rt_in_f = NULL /\ owner = NULL /\ buf = <<>> /\ pos = 0
  /\ holder = "none" /\ opens = 0 /\ used = {} /\ taken = [f \in Files |-> <<>>]

\* OPEN ... INPUT, of a closed file or of an open one.
pli_file_open(f) ==
  /\ opens < MaxOpens /\ opens' = opens + 1 /\ rt_in_f \notin {rt_pli_files[f]} \ {NULL}
  /\ \E a \in Addrs \ {rt_pli_files[g] : g \in Files \ {f}} :
       /\ Reuse \/ a \notin used
       /\ used' = used \cup {a}
       /\ rt_pli_files' = [rt_pli_files EXCEPT ![f] = a]
       /\ offset' = [offset EXCEPT ![a] = 0]
  /\ taken' = [taken EXCEPT ![f] = <<>>]
  /\ UNCHANGED <<rt_in_f, slab, holder>>

pli_file_close(f) ==
  /\ rt_pli_files[f] # NULL /\ rt_in_f # rt_pli_files[f]
  /\ rt_pli_files' = [rt_pli_files EXCEPT ![f] = NULL]
  /\ UNCHANGED <<offset, rt_in_f, slab, holder, opens, used, taken>>

\* pli_in_begin and pli_get_select.  A GET from a file that is not open ends
\* the program with ERROR.
GetBegin(t, f) ==
  /\ holder = "none" /\ rt_pli_files[f] # NULL
  /\ holder' = t /\ rt_in_f' = rt_pli_files[f]
  /\ UNCHANGED <<rt_pli_files, offset, slab, opens, used, taken>>

\* rt_fbroker_fread of a slab's worth.
fread(a) ==
  LET n == IF FileLen - offset[a] < RT_FILE_IN_BUF THEN FileLen - offset[a] ELSE RT_FILE_IN_BUF
  IN [i \in 1 .. n |-> offset[a] + i]

\* A different file's slab starts afresh.
Fresh == IF owner # rt_in_f THEN [buf |-> <<>>, pos |-> 0] ELSE [buf |-> buf, pos |-> pos]

rt_next_char(t) ==
  /\ holder = t
  /\ LET s == Fresh
         fill == s.pos >= Len(s.buf)
         b == IF fill THEN fread(rt_in_f) ELSE s.buf
         p == IF fill THEN 0 ELSE s.pos
     IN /\ owner' = rt_in_f /\ buf' = b
        /\ offset' = IF fill THEN [offset EXCEPT ![rt_in_f] = @ + Len(b)] ELSE offset
        /\ IF b = <<>>
           THEN pos' = 0 /\ taken' = taken
           ELSE /\ pos' = p + 1
                /\ taken' = [f \in Files |-> IF rt_pli_files[f] = rt_in_f
                                             THEN Append(taken[f], b[p + 1]) ELSE taken[f]]
  /\ UNCHANGED <<rt_pli_files, rt_in_f, holder, opens, used>>

\* Mutant: leaving the file drops the slab.
UnselectEmpties == rt_in_f' = NULL /\ owner' = NULL /\ buf' = <<>> /\ pos' = 0

\* The slab is not touched by pli_get_unselect.
pli_get_unselect == rt_in_f' = NULL /\ UNCHANGED slab

GetEnd(t) ==
  /\ holder = t /\ holder' = "none"
  /\ pli_get_unselect
  /\ UNCHANGED <<rt_pli_files, offset, opens, used, taken>>

Next ==
  \/ \E f \in Files : pli_file_open(f) \/ pli_file_close(f) \/ \E t \in Tasks : GetBegin(t, f)
  \/ \E t \in Tasks : rt_next_char(t) \/ GetEnd(t)

Spec == Init /\ [][Next]_vars

-----------------------------------------------------------------------------
(* Properties. *)

\* The characters that the GETs of any task take from a file are the file's
\* characters in order, none skipped and none repeated: "the characters
\* already read but not yet consumed must survive" the end of the statement,
\* and "a slab cannot go stale behind the program's back".
ReadsInOrder == \A f \in Files : taken[f] = [i \in 1 .. Len(taken[f]) |-> i]
=============================================================================
