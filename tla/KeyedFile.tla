----------------------------- MODULE KeyedFile -----------------------------
(***************************************************************************)
(* KEYED record files (runtime/rt_file.c): records back to back in a data  *)
(* file, and an index from keys to offset and length that is loaded from a *)
(* sidecar file at OPEN, kept in memory and written back at CLOSE.         *)
(*                                                                         *)
(* A byte of the data file is the value of the record it belongs to.  Uses *)
(* names what the program does beyond the common pattern: "wide" records   *)
(* (FIXED and FLOAT, of more than one byte and read as one item),          *)
(* "reopen" (an OPEN of a file that is open).                              *)
(***************************************************************************)
EXTENDS Naturals, Sequences, SequencesExt, FiniteSets

CONSTANTS Keys, Vals, Uses,
          MaxLen,                            \* bound: CHAR record length
          MaxBytes                           \* bound: size of the data file

Char == "char"
Wide == "wide"
WideLen == 2                                 \* sizeof(long long): more than one byte

VARIABLES data,                              \* the data file
          exists,                            \* the data file has been created
          kix,                               \* the sidecar's entries
          mode,                              \* of the open file, or "closed"
          ent, dirty,                        \* rt_kix of the slot
          got,                               \* what the last READ returned
          error                              \* the ERROR that ended the program

vars == <<data, exists, kix, mode, ent, dirty, got, error>>

Init ==
  /\ data = <<>> /\ exists = FALSE /\ kix = <<>>
  /\ mode = "closed" /\ ent = <<>> /\ dirty = FALSE
  /\ got = <<>> /\ error = "none"

Fail(what) == error' = what /\ UNCHANGED <<data, exists, kix, mode, ent, dirty, got>>

-----------------------------------------------------------------------------
(* The index. *)

kix_find(k) == SelectInSeq(ent, LAMBDA e : e.key = k)

At(e, d) == SubSeq(d, e.off + 1, e.off + e.len)

\* Mutant: the entry right behind the deleted record stays.
ShiftLater(e, off, size) == [e EXCEPT !.off = IF @ > off + size THEN @ - size ELSE @]

\* Entries past the deleted one move down with their records.
Shifted(e, off, size) == [e EXCEPT !.off = IF @ >= off + size THEN @ - size ELSE @]

\* Written by offset when dirty.
kix_save == IF dirty THEN SortSeq(ent, LAMBDA a, b : a.off < b.off) ELSE kix

-----------------------------------------------------------------------------
(* OPEN and CLOSE. *)

\* A file that does not exist raises UNDEFINEDFILE; a unit that returns
\* leaves the file closed.
pli_file_open_keyed(m) ==
  /\ mode = "closed" \/ "reopen" \in Uses
  /\ IF m # "output" /\ ~exists
     THEN /\ mode' = "closed" /\ ent' = <<>> /\ dirty' = FALSE
          /\ UNCHANGED <<data, exists>>
     ELSE /\ mode' = m /\ exists' = TRUE
          /\ data' = IF m = "output" THEN <<>> ELSE data
          /\ ent' = IF m = "output" THEN <<>> ELSE kix
          /\ dirty' = (m = "output")
  /\ UNCHANGED <<kix, got, error>>

pli_file_close ==
  /\ kix' = kix_save
  /\ mode' = "closed" /\ ent' = <<>> /\ dirty' = FALSE
  /\ UNCHANGED <<data, exists, got, error>>

-----------------------------------------------------------------------------
(* Transfers.  A stream opened for one direction refuses the other. *)

Readable == mode \in {"input", "update"}
Writable == mode \in {"output", "update"}

Length(t, n) == IF t = Wide THEN WideLen ELSE n

\* WRITE ... KEY(k): at the end of the data file.
pli_record_write_keyed(k, t, n, v) ==
  CASE mode = "closed"  -> Fail("not open")
    [] kix_find(k) # 0  -> Fail("duplicate key")
    [] ~Writable        -> Fail("mode")
    [] OTHER ->
         /\ data' = data \o [i \in 1 .. Length(t, n) |-> v]
         /\ ent' = Append(ent, [key |-> k, off |-> Len(data), len |-> Length(t, n)])
         /\ dirty' = TRUE
         /\ UNCHANGED <<exists, kix, mode, got, error>>

\* READ ... KEY(k).  A CHAR record is read as bytes, at most as many as it
\* has; the others as one item, and the count of items fread returns is
\* compared with the size in bytes.
fread(e, size, nitems) ==
  LET left == (Len(data) - e.off) \div size IN IF left < nitems THEN left ELSE nitems

ReadFails(t, e, n) ==
  IF t = Wide THEN fread(e, WideLen, 1) # WideLen
  ELSE LET want == IF e.len < n THEN e.len ELSE n IN fread(e, 1, want) # want

\* Mutant: READ does not seek to the record.
ReadFirst(e, n) == At([e EXCEPT !.off = 0, !.len = IF e.len < n THEN e.len ELSE n], data)

ReadBytes(e, n) == At([e EXCEPT !.len = IF e.len < n THEN e.len ELSE n], data)

pli_record_read_keyed(k, t, n) ==
  CASE mode = "closed"  -> Fail("not open")
    [] kix_find(k) = 0  -> Fail("key not found")
    [] ~Readable        -> Fail("mode")
    [] OTHER ->
         LET e == ent[kix_find(k)] IN
           \/ ReadFails(t, e, n) /\ Fail("read failed")
           \/ /\ ~ReadFails(t, e, n)
              /\ got' = ReadBytes(e, Length(t, n))
              /\ UNCHANGED <<data, exists, kix, mode, ent, dirty, error>>

\* REWRITE ... KEYFROM(k): in place.
pli_record_rewrite_keyed(k, t, n, v) ==
  CASE mode = "closed"  -> Fail("not open")
    [] kix_find(k) = 0  -> Fail("key not found")
    [] kix_find(k) # 0 /\ ent[kix_find(k)].len # Length(t, n) -> Fail("size")
    [] ~Writable        -> Fail("mode")
    [] OTHER ->
         LET e == ent[kix_find(k)] IN
           /\ data' = [i \in DOMAIN data |-> IF i \in e.off + 1 .. e.off + e.len THEN v ELSE data[i]]
           /\ UNCHANGED <<exists, kix, mode, ent, dirty, got, error>>

\* DELETE ... KEYFROM(k): the tail is read and copied down.
pli_record_delete_keyed(k) ==
  LET i == kix_find(k) IN
    CASE mode = "closed" -> Fail("not open")
      [] i = 0           -> Fail("key not found")
      [] i # 0 /\ ent[i].off + ent[i].len > Len(data) -> Fail("delete failed")
      [] i # 0 /\ ent[i].off + ent[i].len < Len(data) /\ mode # "update" -> Fail("mode")
      [] mode = "input"  -> Fail("mode")
      [] OTHER ->
           LET e == ent[i] IN
             /\ data' = SubSeq(data, 1, e.off) \o SubSeq(data, e.off + e.len + 1, Len(data))
             /\ ent' = [j \in DOMAIN RemoveAt(ent, i) |-> Shifted(RemoveAt(ent, i)[j], e.off, e.len)]
             /\ dirty' = TRUE
             /\ UNCHANGED <<exists, kix, mode, got, error>>

Types == {Char} \cup (IF "wide" \in Uses THEN {Wide} ELSE {})

Next ==
  /\ error = "none"
  /\ \/ \E m \in {"input", "output", "update"} : pli_file_open_keyed(m)
     \/ mode # "closed" /\ pli_file_close
     \/ \E k \in Keys :
          \/ \E t \in Types :
               \E n \in 1 .. MaxLen :
                 \/ \E v \in Vals :
                      \/ Len(data) + Length(t, n) <= MaxBytes /\ pli_record_write_keyed(k, t, n, v)
                      \/ pli_record_rewrite_keyed(k, t, n, v)
                 \/ pli_record_read_keyed(k, t, n)
          \/ pli_record_delete_keyed(k)

Spec == Init /\ [][Next]_vars

-----------------------------------------------------------------------------
(* Properties. *)

\* The state is well typed.
TypeOK ==
  /\ data \in Seq(Vals) /\ exists \in BOOLEAN /\ dirty \in BOOLEAN
  /\ mode \in {"closed", "input", "output", "update"}
  /\ \A e \in ToSet(ent) \cup ToSet(kix) : e.key \in Keys /\ e.off \in Nat /\ e.len \in Nat \ {0}

\* The index of an open file covers the data file exactly: every byte
\* belongs to the record of one key, so a WRITE, REWRITE or DELETE of one
\* record leaves every other record's bytes to it.
Tiles(index) ==
  /\ \A i, j \in DOMAIN index : index[i].key = index[j].key => i = j
  /\ \A b \in 1 .. Len(data) :
       Cardinality({i \in DOMAIN index : b \in index[i].off + 1 .. index[i].off + index[i].len}) = 1
  /\ \A i \in DOMAIN index : index[i].off + index[i].len <= Len(data)

IndexTiles == mode # "closed" => Tiles(ent)

\* The sidecar of a closed file does so too: CLOSE leaves a pair of files
\* that the next OPEN can use.
SidecarTiles == mode = "closed" => Tiles(kix)

\* The file as a map, through the index in memory or, closed, the sidecar.
Index == IF mode = "closed" THEN kix ELSE ent
File == [k \in {e.key : e \in ToSet(Index)} |->
           At(Index[SelectInSeq(Index, LAMBDA e : e.key = k)], data)]

Abs == INSTANCE KeyedAbs WITH
         file <- File, Records <- UNION {[1 .. n -> Vals] : n \in 1 .. (IF MaxLen > WideLen THEN MaxLen ELSE WideLen)}

\* Data file, index and sidecar together behave as one map from keys to
\* records, through any sequence of OPEN, transfers and CLOSE.
Implements == Abs!Spec

\* READ ... KEY(k) "looks up k, seeks to off, reads len bytes"
\* (docs/DESIGN-DECISIONS.md, ADR-367): with a working device it does not
\* fail for a key that is in the index.
ReadSucceeds == error # "read failed"

\* "OUTPUT mode opens r+b when the file exists" (the comment on
\* pli_file_open_keyed): opening for OUTPUT keeps the records of an
\* existing file.
OutputKeepsRecords ==
  [][mode = "closed" /\ mode' = "output" => data' = data]_vars

\* The index in memory and the one on disk cover their data files exactly.
IndexSound == TypeOK /\ IndexTiles /\ SidecarTiles
=============================================================================
