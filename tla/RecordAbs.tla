----------------------------- MODULE RecordAbs -----------------------------
(***************************************************************************)
(* What a SEQUENTIAL RECORD file promises: a list of records, a cursor     *)
(* between two of them, and the current record, the one transferred last.  *)
(***************************************************************************)
EXTENDS Naturals, Sequences, SequencesExt

CONSTANTS Vals

VARIABLES recs,
          cursor,                            \* records before the cursor
          current                            \* index of the current record, or 0

Init == recs = <<>> /\ cursor = 0 /\ current = 0

Open == recs' \in {<<>>, recs} /\ cursor' = 0 /\ current' = 0

Close == recs' = recs /\ cursor' = 0 /\ current' = 0

Read ==
  /\ recs' = recs
  /\ IF cursor < Len(recs) THEN cursor' = cursor + 1 /\ current' = cursor + 1
     ELSE cursor' = cursor /\ current' = 0

Write == \E v \in Vals :
  /\ recs' = IF cursor < Len(recs) THEN [recs EXCEPT ![cursor + 1] = v] ELSE Append(recs, v)
  /\ cursor' = cursor + 1 /\ current' = cursor + 1

Rewrite == \E v \in Vals :
  /\ current > 0 /\ recs' = [recs EXCEPT ![current] = v]
  /\ cursor' = current /\ current' = current

\* The next READ sees the record that followed.
Delete ==
  /\ current > 0 /\ recs' = RemoveAt(recs, current)
  /\ cursor' = current - 1 /\ current' = 0

Spec == Init /\ [][Open \/ Close \/ Read \/ Write \/ Rewrite \/ Delete]_<<recs, cursor, current>>
=============================================================================
