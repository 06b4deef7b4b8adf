------------------------------- MODULE Queues -------------------------------
(* The intrusive lists of the runtime, seen as sequences of fibers. *)
EXTENDS Naturals, Sequences, TLAPS

(* The members of a queue, and a queue that holds none of them twice. *)
Elems(q) == {q[i] : i \in DOMAIN q}
Distinct(q) == \A i, j \in DOMAIN q : q[i] = q[j] => i = j

-----------------------------------------------------------------------------
(* Enlisting puts the fiber in front of the queue (LockEnqueue, CondWait). *)
LEMMA PushFacts ==
  ASSUME NEW S, NEW q \in Seq(S), NEW x \in S
  PROVE  LET p == <<x>> \o q IN
         /\ p \in Seq(S) /\ p # <<>>
         /\ Elems(p) = Elems(q) \cup {x}
         /\ Distinct(q) /\ x \notin Elems(q) => Distinct(p)
<1> DEFINE p == <<x>> \o q
<1>1. p \in Seq(S) /\ Len(p) = Len(q) + 1
  OBVIOUS
<1>2. p[1] = x /\ \A i \in 1..Len(q) : p[i+1] = q[i]
  OBVIOUS
<1>3. DOMAIN p = 1..(Len(q)+1) /\ DOMAIN q = 1..Len(q)
  BY <1>1
<1>4. Elems(p) = Elems(q) \cup {x}
  <2>1. ASSUME NEW e \in Elems(p) PROVE e \in Elems(q) \cup {x}
    <3>1. PICK i \in 1..(Len(q)+1) : e = p[i]
      BY <2>1, <1>3 DEF Elems
    <3>2. CASE i = 1
      BY <3>1, <3>2, <1>2
    <3>3. CASE i # 1
      <4>1. i - 1 \in 1..Len(q) /\ p[(i-1)+1] = q[i-1]
        BY <3>1, <3>3, <1>2
      <4>2. e = q[i-1]
        BY <3>1, <4>1
      <4> QED  BY <4>1, <4>2, <1>3 DEF Elems
    <3> QED  BY <3>2, <3>3
  <2>2. x \in Elems(p)
    BY <1>2, <1>3 DEF Elems
  <2>3. ASSUME NEW e \in Elems(q) PROVE e \in Elems(p)
    <3>1. PICK i \in 1..Len(q) : e = q[i]
      BY <2>3, <1>3 DEF Elems
    <3>2. i + 1 \in DOMAIN p /\ p[i+1] = e
      BY <3>1, <1>2, <1>3
    <3> QED  BY <3>2 DEF Elems
  <2> QED  BY <2>1, <2>2, <2>3
<1>5. ASSUME Distinct(q), x \notin Elems(q) PROVE Distinct(p)
  <2>1. \A i \in 1..Len(q) : q[i] # x
    BY <1>5, <1>3 DEF Elems
  <2>2. \A i, j \in 1..Len(q) : q[i] = q[j] => i = j
    BY <1>5, <1>3 DEF Distinct
  <2>3. SUFFICES ASSUME NEW i \in 1..(Len(q)+1), NEW j \in 1..(Len(q)+1), p[i] = p[j]
                 PROVE i = j
    BY <1>3 DEF Distinct
  <2>4. i # 1 => i - 1 \in 1..Len(q) /\ p[i] = q[i-1]
    BY <1>2
  <2>5. j # 1 => j - 1 \in 1..Len(q) /\ p[j] = q[j-1]
    BY <1>2
  <2> QED  BY <2>1, <2>2, <2>3, <2>4, <2>5, <1>2
<1> QED  BY <1>1, <1>4, <1>5

(* Taking the head leaves the other fibers (ReleaseLast, WalkStep). *)
LEMMA PopFacts ==
  ASSUME NEW S, NEW q \in Seq(S), q # <<>>
  PROVE  /\ Head(q) \in S /\ Tail(q) \in Seq(S)
         /\ Elems(q) = Elems(Tail(q)) \cup {Head(q)}
         /\ Distinct(q) => Distinct(Tail(q)) /\ Head(q) \notin Elems(Tail(q))
<1> DEFINE t == Tail(q)
<1>1. Len(q) \in Nat /\ Len(q) > 0 /\ Head(q) = q[1] /\ q[1] \in S
  OBVIOUS
<1>2. t \in Seq(S) /\ Len(t) = Len(q) - 1 /\ \A i \in 1..Len(t) : t[i] = q[i+1]
  OBVIOUS
<1>3. DOMAIN q = 1..Len(q) /\ DOMAIN t = 1..(Len(q)-1)
  BY <1>2
<1>4. Elems(q) = Elems(t) \cup {q[1]}
  <2>1. ASSUME NEW e \in Elems(q) PROVE e \in Elems(t) \cup {q[1]}
    <3>1. PICK i \in 1..Len(q) : e = q[i]
      BY <2>1, <1>3 DEF Elems
    <3>2. i # 1 => i - 1 \in 1..Len(t) /\ t[i-1] = q[(i-1)+1]
      BY <1>1, <1>2
    <3>3. i # 1 => i - 1 \in DOMAIN t /\ t[i-1] = e
      BY <3>1, <3>2, <1>1, <1>2, <1>3
    <3> QED  BY <3>1, <3>3 DEF Elems
  <2>2. q[1] \in Elems(q)
    BY <1>1, <1>3 DEF Elems
  <2>3. ASSUME NEW e \in Elems(t) PROVE e \in Elems(q)
    <3>1. PICK i \in 1..Len(t) : e = t[i]
      BY <2>3, <1>2, <1>3 DEF Elems
    <3>2. i + 1 \in DOMAIN q /\ q[i+1] = e
      BY <3>1, <1>1, <1>2, <1>3
    <3> QED  BY <3>2 DEF Elems
  <2> QED  BY <2>1, <2>2, <2>3
<1>5. ASSUME Distinct(q) PROVE Distinct(t) /\ q[1] \notin Elems(t)
  <2>1. \A i, j \in 1..Len(q) : q[i] = q[j] => i = j
    BY <1>5, <1>3 DEF Distinct
  <2>2. Distinct(t)
    BY <2>1, <1>1, <1>2, <1>3 DEF Distinct
  <2>3. \A i \in 1..Len(t) : t[i] # q[1]
    BY <2>1, <1>1, <1>2
  <2> QED  BY <2>2, <2>3, <1>2, <1>3 DEF Elems
<1> QED  BY <1>1, <1>2, <1>4, <1>5

(* Putting a waiter back behind the ones kept so far (WalkStep). *)
LEMMA AppendFacts ==
  ASSUME NEW S, NEW q \in Seq(S), NEW x \in S
  PROVE  /\ Append(q, x) \in Seq(S)
         /\ Elems(Append(q, x)) = Elems(q) \cup {x}
         /\ Distinct(q) /\ x \notin Elems(q) => Distinct(Append(q, x))
<1> DEFINE p == Append(q, x)
<1>1. p \in Seq(S) /\ Len(p) = Len(q) + 1 /\ Len(q) \in Nat
  OBVIOUS
<1>2. p[Len(q)+1] = x /\ \A i \in 1..Len(q) : p[i] = q[i]
  OBVIOUS
<1>3. DOMAIN p = 1..(Len(q)+1) /\ DOMAIN q = 1..Len(q)
  BY <1>1
<1>4. Elems(p) = Elems(q) \cup {x}
  BY <1>1, <1>2, <1>3 DEF Elems
<1>5. ASSUME Distinct(q), x \notin Elems(q) PROVE Distinct(p)
  <2>1. \A i \in 1..Len(q) : q[i] # x
    BY <1>5, <1>3 DEF Elems
  <2>2. \A i, j \in 1..Len(q) : q[i] = q[j] => i = j
    BY <1>5, <1>3 DEF Distinct
  <2> QED  BY <2>1, <2>2, <1>1, <1>2, <1>3 DEF Distinct
<1> QED  BY <1>1, <1>4, <1>5

(* An empty queue has no elements. *)
LEMMA EmptyFacts == Elems(<<>>) = {} /\ Distinct(<<>>)
BY DEF Elems, Distinct

(* Only the empty queue has length zero. *)
LEMMA EmptyLen ==
  ASSUME NEW S, NEW q \in Seq(S)
  PROVE  q = <<>> <=> Len(q) = 0
OBVIOUS
=============================================================================
