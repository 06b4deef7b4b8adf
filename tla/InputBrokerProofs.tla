------------------------- MODULE InputBrokerProofs -------------------------
(***************************************************************************)
(* Standard input for every number of tasks, on fibers or on OS threads,   *)
(* every input length and chunk size, and however the bytes arrive: they   *)
(* are delivered once and in order, and the end after the last of them.    *)
(*                                                                         *)
(* The argument: the bytes delivered, the chunks and the reader's buffer   *)
(* adjoin, and the last ends where the reader has got to (BytesInv).  The  *)
(* end of the input is seen by an empty read with nothing left to read,    *)
(* after which the reader adds no chunk (EndInv).                          *)
(***************************************************************************)
EXTENDS InputBroker, Integers, TLAPS

(* What the constants stand for. *)
Constants == InputLen \in Nat /\ RT_INPUT_CHUNK \in Nat

(* The bytes q holds are those that follow byte n. *)
Follow(q, n) == \A j \in 1 .. Len(q) : q[j] = n + j

(* A chunk holds consecutive bytes, the first after Start. *)
Chunk == Seq(Nat)
Size(q) == Len(q)
Start(q) == q[1] - 1
Good(q) == q \in Chunk /\ Size(q) > 0 /\ Follow(q, Start(q))

Types ==
  /\ rpc \in {"wait", "read", "deliver", "unpark", "ended"}
  /\ eof \in BOOLEAN /\ ahead \in Nat
  /\ got \in Seq(Nat) /\ inbuf \in Chunk /\ chunks \in Seq(Chunk)

(* Where the bytes the reader has put into chunks end. *)
Put == IF rpc = "deliver" THEN ahead - Size(inbuf) ELSE ahead

BytesInv ==
  /\ Follow(got, 0)
  /\ \A i \in 1 .. Len(chunks) : Good(chunks[i])
  /\ chunks # <<>> => Start(chunks[1]) = Len(got)
  /\ \A i, j \in 1 .. Len(chunks) : j = i + 1 => Start(chunks[j]) = Start(chunks[i]) + Size(chunks[i])
  /\ Put = IF chunks = <<>> THEN Len(got)
           ELSE Start(chunks[Len(chunks)]) + Size(chunks[Len(chunks)])
  /\ rpc = "deliver" => Follow(inbuf, Put)

EndInv ==
  /\ rpc = "deliver" /\ inbuf = <<>> => ahead = InputLen
  /\ eof => ahead = InputLen /\ rpc \in {"unpark", "ended"} /\ inbuf = <<>>
  /\ ends # {} => eof /\ chunks = <<>>

IInv == Types /\ BytesInv /\ EndInv

inputVars == <<rpc, eof, ahead, got, inbuf, chunks, ends>>

(* The initial state. *)
LEMMA InitInv == ASSUME Constants, Init PROVE IInv
<1>1. chunks \in Seq(Chunk) /\ got \in Seq(Nat) /\ inbuf \in Chunk
  BY DEF Init, Chunk
<1>2. Types
  BY <1>1 DEF Init, Types
<1>3. Len(chunks) = 0 /\ Len(got) = 0
  BY DEF Init
<1>4. BytesInv
  BY <1>3 DEF Init, BytesInv, Follow, Put
<1>5. EndInv
  BY DEF Init, EndInv
<1> QED  BY <1>2, <1>4, <1>5 DEF IInv

(* Steps that only move tasks. *)
LEMMA OtherInv == ASSUME IInv, UNCHANGED inputVars PROVE IInv'
  BY DEF inputVars, IInv, Types, BytesInv, EndInv, Follow, Put

-----------------------------------------------------------------------------
(* Chunks. *)

(* The first byte of a chunk follows its start. *)
LEMMA GoodFacts ==
  ASSUME NEW q, Good(q)
  PROVE  /\ q \in Chunk /\ Size(q) \in Nat /\ Size(q) > 0 /\ Start(q) \in Int
         /\ Head(q) = Start(q) + 1 /\ Head(q) \in Nat
  BY DEF Good, Chunk, Size, Start

(* A chunk without its first byte starts one byte further on. *)
LEMMA GoodTail ==
  ASSUME NEW q, Good(q), Size(q) # 1
  PROVE  Good(Tail(q)) /\ Start(Tail(q)) = Start(q) + 1 /\ Size(Tail(q)) = Size(q) - 1
<1>1. /\ q \in Seq(Nat) /\ Len(q) \in Nat /\ Len(q) > 1
      /\ \A j \in 1 .. Len(q) : q[j] = Start(q) + j
  <2>1. q \in Seq(Nat) /\ Len(q) > 0 /\ Len(q) # 1
    BY DEF Good, Chunk, Size
  <2>2. \A j \in 1 .. Len(q) : q[j] = Start(q) + j
    BY Zenon DEF Good, Follow
  <2>3. Len(q) \in Nat /\ Len(q) > 1
    <3>1. \A m \in Nat : m > 0 /\ m # 1 => m > 1
      OBVIOUS
    <3>2. Len(q) \in Nat
      BY <2>1
    <3> QED  BY <2>1, <3>1, <3>2, Zenon
  <2> QED  BY <2>1, <2>2, <2>3, Zenon
<1>2. /\ Tail(q) \in Seq(Nat) /\ Len(Tail(q)) = Len(q) - 1
      /\ \A j \in 1 .. Len(q) - 1 : Tail(q)[j] = q[j + 1]
  BY <1>1
<1>3. Start(q) \in Int
  BY GoodFacts
<1>4. \A j \in 1 .. Len(q) - 1 : Tail(q)[j] = Start(q) + 1 + j
  BY <1>1, <1>2, <1>3
<1>5. Start(Tail(q)) = Start(q) + 1
  BY <1>1, <1>3, <1>4 DEF Start
<1> QED  BY <1>1, <1>2, <1>4, <1>5 DEF Good, Chunk, Size, Follow

(* What the reader read is a chunk. *)
LEMMA GoodBuf ==
  ASSUME NEW q \in Chunk, q # <<>>, NEW n \in Int, Follow(q, n)
  PROVE  Good(q) /\ Start(q) = n
<1>1. Len(q) \in Nat /\ Len(q) > 0
  BY DEF Chunk
<1>2. Start(q) = n
  BY <1>1 DEF Follow, Start
<1> QED  BY <1>1, <1>2 DEF Good, Size

-----------------------------------------------------------------------------
(* The queue after its first byte is taken: the front chunk is gone ... *)
LEMMA RestUsedUp ==
  ASSUME chunks \in Seq(Chunk), chunks # <<>>, Size(chunks[1]) = 1
  PROVE  /\ Rest \in Seq(Chunk) /\ Len(Rest) = Len(chunks) - 1
         /\ \A i \in 1 .. Len(Rest) : Rest[i] = chunks[i + 1]
<1>1. Rest = Tail(chunks)
  BY DEF Rest, Size
<1> QED  BY <1>1

(* ... or begins one byte further on. *)
LEMMA RestShorter ==
  ASSUME chunks \in Seq(Chunk), chunks # <<>>, Size(chunks[1]) # 1, Tail(chunks[1]) \in Chunk
  PROVE  /\ Rest \in Seq(Chunk) /\ Len(Rest) = Len(chunks)
         /\ Rest[1] = Tail(chunks[1])
         /\ \A i \in 2 .. Len(Rest) : Rest[i] = chunks[i]
<1> DEFINE first == Tail(chunks[1])
           others == Tail(chunks)
<1>1. Head(chunks) = chunks[1]
  OBVIOUS
<1>2. Rest = <<first>> \o others
  BY <1>1, Zenon DEF Rest, Size
<1>3. /\ others \in Seq(Chunk) /\ Len(others) = Len(chunks) - 1
      /\ \A i \in 2 .. Len(chunks) : others[i - 1] = chunks[i]
  OBVIOUS
<1>4. first \in Chunk /\ Len(chunks) \in Nat /\ Len(chunks) > 0
  OBVIOUS
<1> HIDE DEF first, others
<1>5. Rest \in Seq(Chunk) /\ Len(Rest) = Len(chunks) /\ Rest[1] = first
  BY <1>2, <1>3, <1>4
<1>6. \A i \in 2 .. Len(Rest) : Rest[i] = others[i - 1]
  BY <1>2, <1>3, <1>4, <1>5
<1> QED  BY <1>3, <1>5, <1>6 DEF first

(* A GET takes a byte. *)
LEMMA TakeByteInv == ASSUME IInv, NEW t \in Tasks, TakeByte(t) PROVE IInv'
<1> USE DEF TakeByte, readerVars, IInv
<1> DEFINE n == Len(chunks)
           c == chunks[1]
<1>1. /\ chunks \in Seq(Chunk) /\ n \in Nat /\ n > 0 /\ Head(chunks) = c
      /\ got \in Seq(Nat) /\ Len(got) \in Nat /\ Good(c) /\ Start(c) = Len(got)
  BY DEF Types, BytesInv
<1>2. /\ chunks' = Rest /\ got' = Append(got, Len(got) + 1)
      /\ got' \in Seq(Nat) /\ Len(got') = Len(got) + 1
  BY <1>1, GoodFacts
<1>3. Follow(got', 0)
  BY <1>1, <1>2 DEF BytesInv, Follow
<1>4. EndInv'
  BY DEF EndInv
<1>5. \A i \in 1 .. n : Start(chunks[i]) \in Int /\ Size(chunks[i]) \in Nat
  BY GoodFacts DEF BytesInv
<1>6. Put' = Put /\ Put = Start(chunks[n]) + Size(chunks[n])
  BY DEF BytesInv, Put
<1>7. CASE Size(c) = 1
  <2>1. /\ Rest \in Seq(Chunk) /\ Len(Rest) = n - 1
        /\ \A i \in 1 .. n - 1 : Rest[i] = chunks[i + 1]
    BY <1>1, <1>7, RestUsedUp
  <2>2. Types'
    BY <1>2, <2>1 DEF Types
  <2>3. \A i \in 1 .. n - 1 : Good(Rest[i])
    BY <1>1, <2>1 DEF BytesInv
  <2>4. Rest # <<>> => Start(Rest[1]) = Len(got) + 1
    BY <1>1, <1>7, <2>1 DEF BytesInv
  <2>5. \A i, j \in 1 .. n - 1 : j = i + 1 => Start(Rest[j]) = Start(Rest[i]) + Size(Rest[i])
    <3>1. SUFFICES ASSUME NEW i \in 1 .. n - 1, NEW j \in 1 .. n - 1, j = i + 1
                   PROVE  Start(Rest[j]) = Start(Rest[i]) + Size(Rest[i])
      OBVIOUS
    <3>2. /\ i + 1 \in 1 .. n /\ j + 1 \in 1 .. n /\ j + 1 = (i + 1) + 1
          /\ Rest[i] = chunks[i + 1] /\ Rest[j] = chunks[j + 1]
      BY <1>1, <2>1, <3>1
    <3> QED  BY <3>2 DEF BytesInv
  <2>6. Put = IF Rest = <<>> THEN Len(got) + 1 ELSE Start(Rest[n - 1]) + Size(Rest[n - 1])
    <3>1. CASE n = 1
      BY <1>1, <1>6, <1>7, <2>1, <3>1
    <3>2. CASE n > 1
      <4>1. n - 1 \in 1 .. n - 1 /\ (n - 1) + 1 = n /\ Rest # <<>>
        BY <1>1, <2>1, <3>2
      <4>2. Rest[n - 1] = chunks[n]
        BY <2>1, <4>1
      <4> QED  BY <1>6, <4>1, <4>2
    <3>3. n = 1 \/ n > 1
      <4>1. \A m \in Nat : m > 0 => m = 1 \/ m > 1
        OBVIOUS
      <4> QED  BY <1>1, <4>1, Zenon
    <3> QED  BY <3>1, <3>2, <3>3, Zenon
  <2>7. BytesInv'
    BY <1>2, <1>3, <1>6, <2>1, <2>3, <2>4, <2>5, <2>6 DEF BytesInv
  <2> QED  BY <1>4, <2>2, <2>7
<1>8. CASE Size(c) # 1
  <2>1. Good(Tail(c)) /\ Start(Tail(c)) = Len(got) + 1 /\ Size(Tail(c)) = Size(c) - 1 /\ Tail(c) \in Chunk
    BY <1>1, <1>8, GoodTail DEF Good
  <2>2. /\ Rest \in Seq(Chunk) /\ Len(Rest) = n /\ Rest[1] = Tail(c)
        /\ \A i \in 2 .. n : Rest[i] = chunks[i]
    BY <1>1, <1>8, <2>1, RestShorter
  <2>3. Types'
    BY <1>2, <2>2 DEF Types
  <2>4. \A i \in 1 .. n : Good(Rest[i])
    BY <1>1, <2>1, <2>2 DEF BytesInv
  <2>5. \A i \in 1 .. n : Start(Rest[i]) + Size(Rest[i]) = Start(chunks[i]) + Size(chunks[i])
    <3>1. Start(Rest[1]) + Size(Rest[1]) = Start(c) + Size(c)
      <4>1. Start(c) \in Int /\ Size(c) \in Nat
        BY <1>1, GoodFacts
      <4> QED  BY <1>1, <2>1, <2>2, <4>1
    <3> QED  BY <1>1, <2>2, <3>1
  <2>6. \A i, j \in 1 .. n : j = i + 1 => Start(Rest[j]) = Start(Rest[i]) + Size(Rest[i])
    BY <1>1, <2>2, <2>5 DEF BytesInv
  <2>7. Rest # <<>> /\ Start(Rest[1]) = Len(got) + 1 /\ Put = Start(Rest[n]) + Size(Rest[n])
    BY <1>1, <1>6, <2>1, <2>2, <2>5
  <2>8. BytesInv'
    BY <1>2, <1>3, <1>6, <2>2, <2>4, <2>6, <2>7 DEF BytesInv
  <2> QED  BY <1>4, <2>3, <2>8
<1> QED  BY <1>7, <1>8

(* A GET is told the end. *)
LEMMA TakeEofInv == ASSUME IInv, NEW t \in Tasks, TakeEof(t) PROVE IInv'
  BY DEF TakeEof, readerVars, IInv, Types, BytesInv, EndInv, Follow, Put

(* The reader is woken by a request. *)
LEMMA ReaderWakesInv == ASSUME IInv, ReaderWakes PROVE IInv'
  BY DEF ReaderWakes, IInv, Types, BytesInv, EndInv, Follow, Put

(* The reader reads up to a chunk. *)
LEMMA ReaderReadsInv == ASSUME Constants, IInv, ReaderReads PROVE IInv'
<1> USE DEF ReaderReads, IInv, Constants
<1>1. PICK n \in IF ahead = InputLen THEN {0} ELSE 1 .. RT_INPUT_CHUNK :
        ahead + n <= InputLen /\ inbuf' = [i \in 1 .. n |-> ahead + i] /\ ahead' = ahead + n
  BY Zenon
<1>2. n \in Nat /\ (n = 0 => ahead = InputLen) /\ ahead \in Nat
  BY <1>1 DEF Types
<1>3. inbuf' \in Seq(Nat) /\ Len(inbuf') = n /\ \A j \in 1 .. n : inbuf'[j] = ahead + j
  BY <1>1, <1>2
<1>4. Put = ahead /\ Put' = ahead
  BY <1>1, <1>2, <1>3 DEF Put, Size
<1>5. Types'
  BY <1>1, <1>2, <1>3 DEF Types, Chunk
<1>6. BytesInv'
  BY <1>3, <1>4 DEF BytesInv, Follow
<1>7. EndInv'
  BY <1>1, <1>2, <1>3 DEF EndInv
<1> QED  BY <1>5, <1>6, <1>7

(* The reader hands a chunk over, or notes the end. *)
LEMMA ReaderDeliversInv == ASSUME IInv, ReaderDelivers PROVE IInv'
<1> USE DEF ReaderDelivers, AtEnd, IInv
<1>1. /\ Put' = ahead /\ ahead \in Nat /\ inbuf \in Chunk /\ Size(inbuf) \in Nat
      /\ Put = ahead - Size(inbuf) /\ Put \in Int /\ Follow(inbuf, Put)
  BY DEF Put, Types, BytesInv, Chunk, Size
<1>2. CASE AtEnd
  <2>1. Put' = Put
    BY <1>1, <1>2 DEF Size
  <2>2. Types' /\ EndInv'
    BY <1>2 DEF Types, EndInv
  <2>3. BytesInv'
    BY <1>2, <2>1 DEF BytesInv, Follow
  <2> QED  BY <2>2, <2>3
<1>3. CASE ~AtEnd
  <2> DEFINE n == Len(chunks)
             q == chunks'
  <2>1. Good(inbuf) /\ Start(inbuf) = Put
    BY <1>1, <1>3, GoodBuf
  <2>2. /\ n \in Nat /\ chunks \in Seq(Chunk) /\ q \in Seq(Chunk) /\ Len(q) = n + 1 /\ q # <<>>
        /\ q[n + 1] = inbuf /\ \A i \in 1 .. n : q[i] = chunks[i]
    <3>1. chunks \in Seq(Chunk) /\ q = Append(chunks, inbuf)
      BY <1>3 DEF Types
    <3> QED  BY <1>1, <3>1
  <2>3. Types' /\ EndInv'
    BY <1>1, <1>3, <2>2 DEF Types, EndInv
  <2> HIDE DEF q
  <2>4. \A i \in 1 .. n + 1 : Good(q[i])
    BY <2>1, <2>2 DEF BytesInv
  <2>5. Start(q[1]) = Len(got)
    <3>1. CASE n = 0
      BY <2>1, <2>2, <3>1 DEF BytesInv
    <3>2. CASE n > 0
      BY <2>2, <3>2 DEF BytesInv
    <3> QED  BY <2>2, <3>1, <3>2
  <2>6. \A i, j \in 1 .. n + 1 : j = i + 1 => Start(q[j]) = Start(q[i]) + Size(q[i])
    BY <2>1, <2>2 DEF BytesInv
  <2>7. Put' = Start(q[n + 1]) + Size(q[n + 1])
    BY <1>1, <2>1, <2>2
  <2>8. BytesInv'
    BY <2>2, <2>4, <2>5, <2>6, <2>7 DEF BytesInv, q
  <2> QED  BY <2>3, <2>8
<1> QED  BY <1>2, <1>3

(* The reader unparks the fiber that waited. *)
LEMMA ReaderUnparksInv == ASSUME IInv, ReaderUnparks PROVE IInv'
  BY DEF ReaderUnparks, AtEnd, IInv, Types, BytesInv, EndInv, Follow, Put

(* Every step of tasks and reader keeps the invariant. *)
LEMMA NextInv == ASSUME Constants, IInv, [Next]_vars PROVE IInv'
<1>1. CASE UNCHANGED vars
  BY <1>1, OtherInv DEF vars, inputVars
<1>2. CASE Reader
  BY <1>2, ReaderWakesInv, ReaderReadsInv, ReaderDeliversInv, ReaderUnparksInv DEF Reader
<1>3. ASSUME NEW t \in Tasks, GetBegin(t) \/ GetEnd(t) \/ Ask(t) \/ Wake(t)
      PROVE  IInv'
  BY <1>3, OtherInv DEF GetBegin, GetEnd, Ask, Wake, inputVars, readerVars
<1>4. ASSUME NEW t \in Tasks, TakeByte(t) \/ TakeEof(t)
      PROVE  IInv'
  BY <1>4, TakeByteInv, TakeEofInv
<1> QED  BY <1>1, <1>2, <1>3, <1>4 DEF Next, Getc

-----------------------------------------------------------------------------
(* Whatever tasks GET from standard input and however its bytes arrive,    *)
(* they take them once and in order, and are told the end only when every  *)
(* byte has been taken (rt_input_getc, rt_input_thread).                   *)
THEOREM InputReadExactly == ASSUME Constants PROVE Spec => []InputExact
<1>1. Init => IInv
  BY InitInv
<1>2. IInv /\ [Next]_vars => IInv'
  BY NextInv
<1>3. IInv => InputExact
  <2>1. IInv => InputInOrder
    BY DEF IInv, Types, BytesInv, Follow, InputInOrder
  <2>2. IInv => EofIsLast
    BY DEF IInv, Types, BytesInv, EndInv, EofIsLast, Put
  <2> QED  BY <2>1, <2>2 DEF InputExact
<1> QED  BY <1>1, <1>2, <1>3, PTL DEF Spec
=============================================================================
