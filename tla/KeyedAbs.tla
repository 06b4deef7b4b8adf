------------------------------ MODULE KeyedAbs ------------------------------
(***************************************************************************)
(* What a KEYED file promises: a map from keys to records that survives    *)
(* CLOSE and OPEN.  WRITE adds a key, REWRITE replaces a record by one of  *)
(* the same size, DELETE removes one, OPEN OUTPUT starts an empty file.    *)
(***************************************************************************)
EXTENDS Naturals, Sequences

CONSTANTS Keys, Records

VARIABLES file,                              \* a function from some keys to records
          got                                \* what the last READ returned

Init == file = <<>> /\ got = <<>>

\* A READ into a shorter variable takes what fits.
Read == \E k \in DOMAIN file : \E n \in 1 .. Len(file[k]) :
          got' = SubSeq(file[k], 1, n) /\ file' = file

Write == \E k \in Keys \ DOMAIN file, r \in Records :
           /\ file' = [x \in DOMAIN file \cup {k} |-> IF x = k THEN r ELSE file[x]]
           /\ got' = got

Rewrite == \E k \in DOMAIN file, r \in Records :
             Len(r) = Len(file[k]) /\ file' = [file EXCEPT ![k] = r] /\ got' = got

Delete == \E k \in DOMAIN file : file' = [x \in DOMAIN file \ {k} |-> file[x]] /\ got' = got

OpenOutput == file' = <<>> /\ got' = got

Spec == Init /\ [][Read \/ Write \/ Rewrite \/ Delete \/ OpenOutput]_<<file, got>>
=============================================================================
