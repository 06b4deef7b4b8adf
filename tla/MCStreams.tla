----------------------------- MODULE MCStreams ------------------------------
(***************************************************************************)
(* Stream I/O of several tasks: PUT and DISPLAY (StreamOutput), and GET    *)
(* from one named file (StreamInput).  Output and input have a lock and    *)
(* slabs each and share no state, so a behaviour uses one direction.       *)
(***************************************************************************)
EXTENDS StreamOutput

CONSTANTS Addrs, NULL, FileLen, RT_FILE_IN_BUF

VARIABLES way, rt_pli_files, offset, rt_in_f, owner, buf, pos, in_holder, opens, used, taken

inVars == <<rt_pli_files, offset, rt_in_f, owner, buf, pos, in_holder, opens, used, taken>>

\* One file is opened once; the other stays closed.
In == INSTANCE StreamInput WITH Reuse <- TRUE, MaxOpens <- 1, holder <- in_holder

MCInit == way \in {"put", "get"} /\ Init /\ In!Init

PutStep == way = "put" /\ Next /\ UNCHANGED <<way, inVars>>
GetStep == way = "get" /\ In!Next /\ UNCHANGED <<way, vars>>

MCSpec == MCInit /\ [][PutStep \/ GetStep]_<<way, vars, inVars>>

-----------------------------------------------------------------------------
\* Characters go through the slabs exactly: no PUT of any task loses, mixes or
\* reorders any (OutputExact), a DISPLAY starts a line of its own while no
\* named file has been PUT to, and the GETs of all tasks take the characters
\* of a file in order, across the statements that fill and leave the slab.
StreamsExact == OutputExact /\ DisplayStartsLine /\ In!ReadsInOrder
=============================================================================
