--------------------------- MODULE MCLocksRecords ---------------------------
(***************************************************************************)
(* The locks and conditions of tasks (RtSync) and the RECORD files of both *)
(* organisations (KeyedFile, RecordFile).  A file's declaration fixes its  *)
(* organisation, and one task uses the file, so the three share no state   *)
(* and a behaviour uses one of them.                                       *)
(***************************************************************************)
EXTENDS RtSync, TLC

CONSTANTS RecordKeys, Vals, Uses, MaxLen, MaxBytes, Sizes, SeqBytes

VARIABLES way, data, exists, kix, mode, ent, dirty, got, error,
          sdata, sexists, smode, pos, rec, serror

keyVars == <<data, exists, kix, mode, ent, dirty, got, error>>
seqVars == <<sdata, sexists, smode, pos, rec, serror>>

K == INSTANCE KeyedFile WITH Keys <- RecordKeys
S == INSTANCE RecordFile WITH
       data <- sdata, exists <- sexists, mode <- smode, error <- serror, MaxBytes <- SeqBytes

MCInit == way \in {"lock", "keyed", "sequential"} /\ Init /\ K!Init /\ S!Init

LockStep == way = "lock" /\ Next /\ UNCHANGED <<way, keyVars, seqVars>>
KeyedStep == way = "keyed" /\ K!Next /\ UNCHANGED <<way, vars, seqVars>>
SequentialStep == way = "sequential" /\ S!Next /\ UNCHANGED <<way, vars, keyVars>>

MCSpec == MCInit /\ [][LockStep \/ KeyedStep \/ SequentialStep]_<<way, vars, keyVars, seqVars>>

Symmetry ==
  Permutations(Fibers) \cup Permutations(Keys) \cup Permutations(RecordKeys) \cup Permutations(Vals)

-----------------------------------------------------------------------------
\* The index of a KEYED file, and its sidecar on the disk, tile the data file
\* through any sequence of OPENs, transfers and CLOSEs.
IndexSound == K!IndexSound

\* Data, index and sidecar of a KEYED file behave as one map from keys to
\* records; on a SEQUENTIAL file REWRITE replaces and DELETE removes exactly
\* the record transferred last, and the next READ sees the one after it.
FilesImplement == K!Implements /\ S!Implements
=============================================================================
