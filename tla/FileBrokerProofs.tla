-------------------------- MODULE FileBrokerProofs --------------------------
(***************************************************************************)
(* The broker's work slot and the record lock for every number of tasks    *)
(* and files and every file length: records come once and in order, and a  *)
(* task that resumes finds the answer to its own request.                  *)
(*                                                                         *)
(* The argument: the slot's owner is the one parked task, and its request  *)
(* is in exactly one place (SlotInv); the record lock's owner is the one   *)
(* task between ftell and position update, so a file's offset is ahead of  *)
(* its delivered records by that task's fetched record only (OffsetInv).   *)
(***************************************************************************)
EXTENDS FileBroker, TLAPS

(* What the constants stand for. *)
Constants == NoTask \notin Tasks /\ FileLen \in Nat

TaskOrNone == Tasks \cup {NoTask}

Types ==
  /\ pc \in [Tasks -> {"idle", "slot", "park", "read", "endfile"}]
  /\ off \in [Tasks -> Nat] /\ result \in [Tasks -> Nat]
  /\ pos \in [Files -> Nat] /\ rec \in [Files -> Nat]
  /\ rec_read_mu \in TaskOrNone /\ slot \in TaskOrNone
  /\ req \in TaskOrNone /\ waiter \in TaskOrNone
  /\ taken \in TaskOrNone /\ woken \in TaskOrNone
  /\ answer \in Nat \cup {Pending} /\ ready \subseteq Tasks
  /\ got \in [Files -> Seq(Nat)]

(* The record lock is held from ftell to the position update. *)
LockInv ==
  /\ \A t \in Tasks : rec_read_mu = t <=> File[t] # NoFile /\ pc[t] \in {"slot", "park", "read"}
  /\ \A t \in Tasks : pc[t] \in {"read", "endfile"} => File[t] # NoFile

(* The parked task owns the slot.  Its request waits for the thread, or it *)
(* is answered and its task is about to be unparked or is.                 *)
SlotInv ==
  /\ \A t \in Tasks : slot = t <=> pc[t] = "park"
  /\ waiter = req /\ taken \in {NoTask, req}
  /\ req # NoTask => req = slot /\ woken = NoTask /\ ready = {} /\ answer = Pending
  /\ woken # NoTask => woken = slot /\ ready = {} /\ answer # Pending
  /\ ready # {} => ready = {slot} /\ answer # Pending
  /\ slot # NoTask => req = slot \/ woken = slot \/ ready = {slot}

(* The record a task has had read and not yet delivered. *)
Fetched(t) == IF pc[t] = "park" /\ req # t THEN answer
              ELSE IF pc[t] = "read" THEN result[t] ELSE Short

Delivered(f) == Len(got[f])

OffsetInv ==
  /\ \A f \in Files : \/ rec_read_mu \in Tasks /\ File[rec_read_mu] = f
                      \/ pos[f] = Delivered(f)
  /\ \A t \in Tasks : rec_read_mu = t =>
       /\ off[t] = Delivered(File[t])
       /\ \/ Fetched(t) = Short /\ pos[File[t]] = Delivered(File[t])
          \/ Fetched(t) = Delivered(File[t]) + 1 /\ pos[File[t]] = Fetched(t)

RecordInv == \A f \in Files : rec[f] \in {Short, Delivered(f)}

IInv == Types /\ LockInv /\ SlotInv /\ OffsetInv /\ RecordInv /\ RecordsOnce

(* A task reads a file or GETs. *)
LEMMA FileOfTask == \A t \in Tasks : File[t] # NoFile => File[t] \in Files
  BY DEF Files

(* The initial state. *)
LEMMA InitInv == ASSUME Constants, Init PROVE IInv
<1>1. Types
  BY DEF Constants, Init, Types, TaskOrNone, Short, Pending
<1>2. LockInv /\ SlotInv
  BY DEF Constants, Init, LockInv, SlotInv
<1>3. OffsetInv /\ RecordInv /\ RecordsOnce
  BY DEF Constants, Init, OffsetInv, RecordInv, RecordsOnce, Delivered, Short
<1> QED  BY <1>1, <1>2, <1>3 DEF IInv

-----------------------------------------------------------------------------
(* One lemma per step. *)

(* A task begins a READ or a GET. *)
LEMMA BeginInv == ASSUME Constants, IInv, NEW t \in Tasks, Begin(t) PROVE IInv'
<1> USE DEF Begin, Goto, rt_rec_read_lock, IInv, Constants
<1>0. File[t] # NoFile => File[t] \in Files
  BY FileOfTask
<1>1. Types'
  BY <1>0 DEF Types, TaskOrNone
<1>2. LockInv'
  BY DEF Types, LockInv
<1>3. SlotInv'
  BY DEF Types, SlotInv
<1>4. OffsetInv'
  BY <1>0 DEF Types, LockInv, OffsetInv, Fetched, Delivered, Short
<1>5. RecordInv' /\ RecordsOnce'
  BY DEF RecordInv, RecordsOnce, Delivered
<1> QED  BY <1>1, <1>2, <1>3, <1>4, <1>5

(* The request is published and the task parks. *)
LEMMA PublishInv == ASSUME Constants, IInv, NEW t \in Tasks, Publish(t) PROVE IInv'
<1> USE DEF Publish, AcquireSlot, Goto, IInv, Constants
<1>1. Types'
  BY DEF Types, TaskOrNone
<1>2. LockInv'
  BY DEF Types, LockInv
<1>3. SlotInv'
  BY DEF Types, TaskOrNone, SlotInv
<1>4. OffsetInv'
  BY DEF Types, TaskOrNone, SlotInv, OffsetInv, Fetched, Delivered, Short
<1>5. RecordInv' /\ RecordsOnce'
  BY DEF RecordInv, RecordsOnce, Delivered
<1> QED  BY <1>1, <1>2, <1>3, <1>4, <1>5

(* The unparked task takes its answer. *)
LEMMA ResumeInv == ASSUME Constants, IInv, NEW t \in Tasks, Resume(t) PROVE IInv'
<1> USE DEF Resume, Goto, IInv, Constants
<1>0. slot = t /\ ready = {t} /\ answer \in Nat /\ req = NoTask /\ woken = NoTask
  BY DEF Types, TaskOrNone, SlotInv
<1>1. Types'
  BY <1>0 DEF Types, TaskOrNone, Short
<1>2. LockInv'
  BY DEF Types, LockInv
<1>3. SlotInv'
  BY <1>0 DEF Types, SlotInv
<1>4. OffsetInv'
  BY <1>0 DEF Types, LockInv, SlotInv, OffsetInv, Fetched, Delivered, Short
<1>5. RecordInv' /\ RecordsOnce'
  BY DEF RecordInv, RecordsOnce, Delivered
<1> QED  BY <1>1, <1>2, <1>3, <1>4, <1>5

(* The record read becomes the current one, or the read was short. *)
LEMMA FinishReadInv == ASSUME Constants, IInv, NEW t \in Tasks, FinishRead(t) PROVE IInv'
<1> USE DEF FinishRead, ShortRead, Goto, IInv, Constants
<1> DEFINE f == File[t]
<1>0. f \in Files /\ rec_read_mu = t
  BY FileOfTask DEF LockInv
<1>1. /\ off[t] = Delivered(f) /\ got[f] \in Seq(Nat) /\ result[t] \in Nat
      /\ \/ result[t] = Short /\ pos[f] = Delivered(f)
         \/ result[t] = Delivered(f) + 1 /\ pos[f] = result[t]
  BY <1>0 DEF Types, OffsetInv, Fetched
<1>2. CASE ShortRead(t)
  <2>1. Types' /\ LockInv' /\ SlotInv'
    BY <1>2 DEF Types, TaskOrNone, LockInv, SlotInv
  <2>2. OffsetInv' /\ RecordInv' /\ RecordsOnce'
    BY <1>0, <1>1, <1>2 DEF Types, OffsetInv, RecordInv, RecordsOnce, Delivered, Short
  <2> QED  BY <2>1, <2>2
<1>3. CASE ~ShortRead(t)
  <2>1. /\ result[t] = Delivered(f) + 1 /\ pos[f] = Delivered(f) + 1
        /\ rec' = [rec EXCEPT ![f] = Delivered(f) + 1]
        /\ got' = [got EXCEPT ![f] = Append(got[f], Delivered(f) + 1)]
    BY <1>1, <1>3 DEF RecSet
  <2>2. /\ Delivered(f) \in Nat /\ Delivered(f)' = Delivered(f) + 1
        /\ \A e \in Files \ {f} : got'[e] = got[e]
    BY <1>0, <1>1, <2>1 DEF Types, Delivered
  <2>3. Types'
    <3>1. got' \in [Files -> Seq(Nat)] /\ rec' \in [Files -> Nat]
      BY <1>0, <1>1, <2>1, <2>2 DEF Types
    <3> QED  BY <1>3, <3>1 DEF Types, TaskOrNone
  <2>4. LockInv' /\ SlotInv'
    BY <1>3 DEF Types, LockInv, SlotInv
  <2>5. OffsetInv'
    BY <1>0, <2>1, <2>2 DEF Types, OffsetInv, Delivered
  <2>6. RecordInv'
    BY <1>0, <2>1, <2>2 DEF Types, RecordInv, Delivered
  <2>7. RecordsOnce'
    <3>1. got[f] = [i \in 1 .. Delivered(f) |-> i]
      BY <1>0 DEF RecordsOnce, Delivered
    <3>2. got'[f] = [i \in 1 .. Delivered(f) + 1 |-> i]
      BY <1>0, <1>1, <2>1, <2>2, <3>1 DEF Types, Delivered
    <3> QED  BY <1>0, <2>2, <3>2 DEF RecordsOnce, Delivered
  <2> QED  BY <2>3, <2>4, <2>5, <2>6, <2>7
<1> QED  BY <1>2, <1>3

(* ENDFILE leaves the file without a current record. *)
LEMMA EndfileInv == ASSUME Constants, IInv, NEW t \in Tasks, rt_rec_endfile(t) PROVE IInv'
<1> USE DEF rt_rec_endfile, Goto, IInv, Constants
<1>0. File[t] \in Files
  BY FileOfTask DEF LockInv
<1>1. Types' /\ LockInv' /\ SlotInv'
  BY <1>0 DEF Types, TaskOrNone, LockInv, SlotInv, Short
<1>2. OffsetInv'
  BY DEF Types, LockInv, OffsetInv, Fetched, Delivered, Short
<1>3. RecordInv' /\ RecordsOnce'
  BY <1>0 DEF Types, RecordInv, RecordsOnce, Delivered
<1> QED  BY <1>1, <1>2, <1>3

(* The thread takes a request. *)
LEMMA ThreadTakeInv == ASSUME Constants, IInv, ThreadTake PROVE IInv'
<1> USE DEF ThreadTake, taskVars, IInv, Constants
<1>1. Types' /\ LockInv' /\ SlotInv'
  BY DEF Types, LockInv, SlotInv
<1>2. OffsetInv' /\ RecordInv' /\ RecordsOnce'
  BY DEF OffsetInv, RecordInv, RecordsOnce, Fetched, Delivered
<1> QED  BY <1>1, <1>2

(* The thread reads the device and answers. *)
LEMMA ThreadAnswerInv == ASSUME Constants, IInv, ThreadAnswer PROVE IInv'
<1> USE DEF ThreadAnswer, WakeWaiter, taskVars, IInv, Constants
<1> DEFINE t == taken
           f == File[t]
<1>0. /\ t \in Tasks /\ req = t /\ slot = t /\ waiter = t /\ pc[t] = "park"
      /\ ready = {} /\ woken = NoTask
  BY DEF Types, TaskOrNone, SlotInv
<1>1. f # NoFile => f \in Files /\ rec_read_mu = t /\ pos[f] = Delivered(f)
  BY <1>0, FileOfTask DEF LockInv, OffsetInv, Fetched, Delivered, Short
<1>2. Types'
  <2>1. pos' \in [Files -> Nat] /\ answer' \in Nat
    <3>1. CASE f = NoFile
      BY <3>1 DEF Types
    <3>2. CASE f # NoFile
      <4>1. pos[f] \in Nat /\ pos' = [pos EXCEPT ![f] = IF pos[f] < FileLen THEN pos[f] + 1 ELSE pos[f]]
        BY <1>1, <3>2 DEF Types
      <4>2. answer' \in Nat
        BY <3>2, <4>1 DEF Short
      <4> QED  BY <4>1, <4>2 DEF Types
    <3> QED  BY <3>1, <3>2
  <2> QED  BY <1>0, <2>1 DEF Types, TaskOrNone
<1>3. LockInv'
  BY DEF LockInv
<1>4. SlotInv'
  BY <1>0, <1>1 DEF Types, SlotInv, Short, Pending
<1>5. OffsetInv'
  <2>1. CASE f = NoFile
    BY <1>0, <2>1 DEF Types, LockInv, SlotInv, OffsetInv, Fetched, Delivered
  <2>2. CASE f # NoFile
    BY <1>0, <1>1, <2>2 DEF Types, OffsetInv, Fetched, Delivered, Short
  <2> QED  BY <2>1, <2>2
<1>6. RecordInv' /\ RecordsOnce'
  BY DEF RecordInv, RecordsOnce, Delivered
<1> QED  BY <1>2, <1>3, <1>4, <1>5, <1>6

(* The thread unparks the task it answered. *)
LEMMA ThreadUnparkInv == ASSUME Constants, IInv, ThreadUnpark PROVE IInv'
<1> USE DEF ThreadUnpark, taskVars, IInv, Constants
<1>1. Types' /\ LockInv' /\ SlotInv'
  BY DEF Types, TaskOrNone, LockInv, SlotInv
<1>2. OffsetInv' /\ RecordInv' /\ RecordsOnce'
  BY DEF OffsetInv, RecordInv, RecordsOnce, Fetched, Delivered
<1> QED  BY <1>1, <1>2

(* Every step of tasks and thread keeps the invariant. *)
LEMMA NextInv == ASSUME Constants, IInv, [Next]_vars PROVE IInv'
<1>1. CASE UNCHANGED vars
  BY <1>1 DEF vars, taskVars, IInv, Types, LockInv, SlotInv, OffsetInv, RecordInv,
              RecordsOnce, Fetched, Delivered
<1>2. CASE Thread
  BY <1>2, ThreadTakeInv, ThreadAnswerInv, ThreadUnparkInv DEF Thread
<1>3. CASE \E t \in Tasks : Step(t)
  BY <1>3, BeginInv, PublishInv, ResumeInv, FinishReadInv, EndfileInv DEF Step
<1> QED  BY <1>1, <1>2, <1>3 DEF Next

(* The invariant holds of every behaviour. *)
LEMMA Invariance == ASSUME Constants PROVE Spec => []IInv
<1>1. Init => IInv
  BY InitInv
<1>2. IInv /\ [Next]_vars => IInv'
  BY NextInv
<1> QED  BY <1>1, <1>2, PTL DEF Spec

-----------------------------------------------------------------------------
(* However many tasks READ a file through the broker, they get its records *)
(* once and in order, and when no READ is under way the file's current     *)
(* record is the one read last (rt_read_seq_broker, rt_rec_read_lock).     *)
THEOREM RecordsReadInTurn == ASSUME Constants PROVE Spec => []RecordsInTurn
<1>1. IInv => RecordsInTurn
  BY DEF Constants, IInv, Types, OffsetInv, RecordInv, RecordsInTurn, CurrentIsLast, Delivered
<1> QED  BY <1>1, Invariance, PTL

(* A task that the broker unparks owns the work slot and finds the answer  *)
(* to its own request there (rt_fbroker_fread).                            *)
THEOREM AnswerForItsTask == ASSUME Constants PROVE Spec => []AnswerIsMine
<1>1. IInv => AnswerIsMine
  BY DEF IInv, SlotInv, AnswerIsMine
<1> QED  BY <1>1, Invariance, PTL
=============================================================================
