----------------------------- MODULE RecordFile -----------------------------
(***************************************************************************)
(* SEQUENTIAL RECORD files (runtime/rt_file.c), used by one task: records  *)
(* of the transfer's size back to back in a byte stream, with no marker    *)
(* between them, and the position of the record transferred last, which    *)
(* REWRITE replaces and DELETE removes.  Reads through the broker are in   *)
(* FileBroker.                                                             *)
(*                                                                         *)
(* Sizes are the record sizes of the program's transfers (FIXED, FLOAT,    *)
(* CHAR of a length, BIT).  A byte is the value of its record.             *)
(***************************************************************************)
EXTENDS Naturals, Sequences, SequencesExt

CONSTANTS Vals, Sizes,
          MaxBytes                           \* bound: size of the file

VARIABLES data, exists,                      \* the file
          mode, pos,                         \* the stream: its mode or "closed", its offset
          rec,                               \* rt_rec of the slot
          error                              \* an ERROR has ended the program

vars == <<data, exists, mode, pos, rec, error>>

NoRec == [off |-> 0, size |-> 0, valid |-> FALSE]

Init ==
  /\ data = <<>> /\ exists = FALSE /\ mode = "closed" /\ pos = 0 /\ rec = NoRec /\ error = FALSE

Fail == error' = TRUE /\ UNCHANGED <<data, exists, mode, pos, rec>>

Readable == mode \in {"input", "update"}
Writable == mode \in {"output", "update"}

\* A file that cannot be opened raises UNDEFINEDFILE: without a unit the
\* program ends, after one the file stays closed.
pli_file_open_record(m) ==
  IF m # "output" /\ ~exists
  THEN \/ Fail
       \/ mode' = "closed" /\ pos' = 0 /\ rec' = NoRec /\ UNCHANGED <<data, exists, error>>
  ELSE /\ mode' = m /\ pos' = 0 /\ rec' = NoRec /\ exists' = TRUE
       /\ data' = IF m = "output" THEN <<>> ELSE data
       /\ UNCHANGED error

pli_file_close ==
  /\ mode' = "closed" /\ pos' = 0 /\ rec' = NoRec
  /\ UNCHANGED <<data, exists, error>>

rt_rec_set(off, n) == rec' = [off |-> off, size |-> n, valid |-> TRUE]

Overwritten(off, n, v) ==
  [i \in 1 .. (IF off + n > Len(data) THEN off + n ELSE Len(data)) |->
     IF i \in off + 1 .. off + n THEN v ELSE data[i]]

pli_record_write(n, v) ==
  IF ~Writable THEN Fail
  ELSE /\ data' = Overwritten(pos, n, v) /\ pos' = pos + n /\ rt_rec_set(pos, n)
       /\ UNCHANGED <<exists, mode, error>>

\* A short read takes what is left and raises ENDFILE, which clears the
\* current record and runs the file's unit or ends the program.
pli_record_read(n) ==
  IF mode = "closed" THEN Fail
  ELSE IF Readable /\ pos + n <= Len(data)
  THEN /\ pos' = pos + n /\ rt_rec_set(pos, n)
       /\ UNCHANGED <<data, exists, mode, error>>
  ELSE /\ pos' = IF Readable THEN Len(data) ELSE pos
       /\ rec' = NoRec
       /\ error' \in BOOLEAN
       /\ UNCHANGED <<data, exists, mode>>

rt_rec_current(n) == rec.valid /\ rec.size = n

\* The stream is left after the record.
RewriteEnd(n) == rec.off + n

pli_record_rewrite(n, v) ==
  IF ~Writable \/ ~rt_rec_current(n) THEN Fail
  ELSE /\ data' = Overwritten(rec.off, n, v) /\ pos' = RewriteEnd(n)
       /\ UNCHANGED <<exists, mode, rec, error>>

\* Mutant: the deleted record stays current.
KeepRec == rec

\* There is no current record after a DELETE.
rt_rec_reset == NoRec

\* The tail is read and copied down and the file truncated; the stream is
\* left where the record was.
pli_record_delete ==
  LET after == rec.off + rec.size IN
    IF ~Writable \/ ~rec.valid \/ after > Len(data) \/ (after < Len(data) /\ mode # "update") THEN Fail
    ELSE /\ data' = SubSeq(data, 1, rec.off) \o SubSeq(data, after + 1, Len(data))
         /\ pos' = rec.off /\ rec' = rt_rec_reset
         /\ UNCHANGED <<exists, mode, error>>

Next ==
  /\ ~error
  /\ \/ \E m \in {"input", "output", "update"} : pli_file_open_record(m)
     \/ mode # "closed" /\ pli_file_close
     \/ pli_record_delete
     \/ \E n \in Sizes :
          \/ pli_record_read(n)
          \/ \E v \in Vals : \/ pos + n <= MaxBytes /\ pli_record_write(n, v)
                             \/ pli_record_rewrite(n, v)

Spec == Init /\ [][Next]_vars

-----------------------------------------------------------------------------
(* Properties. *)

\* Of one record size, bytes, offset and current record are a list of
\* records with a cursor.
Size == CHOOSE n \in Sizes : TRUE
Abs == INSTANCE RecordAbs WITH
         recs <- [i \in 1 .. Len(data) \div Size |-> data[i * Size]],
         cursor <- pos \div Size,
         current <- IF rec.valid THEN rec.off \div Size + 1 ELSE 0

\* REWRITE replaces and DELETE removes exactly the record transferred last,
\* and the next READ sees the record that follows it.
Implements == Abs!Spec
=============================================================================
