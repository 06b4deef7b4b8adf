-------------------------- MODULE CtlStorageProofs --------------------------
(***************************************************************************)
(* CONTROLLED storage for every number of tasks, variables, buffers, sizes *)
(* and generations.                                                        *)
(*                                                                         *)
(* The argument: a table has one entry per variable, so the shortcut and   *)
(* the scan find the same one (TableInv); a buffer belongs to at most one  *)
(* generation or one slot, and whichever it is knows the size the heap     *)
(* handed it out with (OwnInv).  A store therefore reaches one generation  *)
(* of one variable of one task.                                            *)
(***************************************************************************)
EXTENDS CtlStorage, TLAPS

Gen == [addr : Addrs, len : Lens, dims : Seq(Extents \cup {0})]
Entry == [key : Keys, gens : Seq(Gen), cap : Nat]

Types ==
  /\ ctl_vars \in [Fibers -> Seq(Entry)] /\ ctl_last \in [Fibers -> Nat]
  /\ ctl_cache \in [Fibers -> [key : Keys \cup {NoAddr}, addr : Addrs \cup {NoAddr}, len : Nat]]
  /\ size \in [Addrs -> Lens \cup {0}] /\ bytes \in [Addrs -> Vals] /\ ended \in BOOLEAN

(* One entry per variable, with room for its generations. *)
OneEntry(t) == \A i, j \in 1 .. Len(t) : t[i].key = t[j].key => i = j
Roomy(v) == Len(v.gens) <= v.cap /\ \A d \in 1 .. Len(v.gens) : Len(v.gens[d].dims) <= MaxRank
GoodTable(t) == t \in Seq(Entry) /\ OneEntry(t) /\ \A i \in 1 .. Len(t) : Roomy(t[i])

TableInv == \A f \in Fibers : GoodTable(ctl_vars[f]) /\ ctl_last[f] <= Len(ctl_vars[f])

(* Entry i of the table t has a generation d. *)
Has(t, i, d) == i \in 1 .. Len(t) /\ d \in 1 .. Len(t[i].gens)
GenAt(t, i, d) == t[i].gens[d]

(* A buffer has one generation or one slot, which knows its size. *)
OneOwner ==
  \A f, g \in Fibers, i, j, d, e \in Nat :
    /\ Has(ctl_vars[f], i, d) /\ Has(ctl_vars[g], j, e)
    /\ GenAt(ctl_vars[f], i, d).addr = GenAt(ctl_vars[g], j, e).addr
    => f = g /\ i = j /\ d = e
NotCached ==
  \A f, g \in Fibers, i, d \in Nat :
    Has(ctl_vars[f], i, d) => ctl_cache[g].addr # GenAt(ctl_vars[f], i, d).addr
CachesDiffer == \A f, g \in Fibers : ctl_cache[f].addr = ctl_cache[g].addr /\ f # g => ctl_cache[f].addr = NoAddr
Sized ==
  \A f \in Fibers, i, d \in Nat :
    Has(ctl_vars[f], i, d) => size[GenAt(ctl_vars[f], i, d).addr] = GenAt(ctl_vars[f], i, d).len
CacheSized ==
  \A f \in Fibers : ctl_cache[f].addr # NoAddr =>
    ctl_cache[f].len \in Lens /\ size[ctl_cache[f].addr] = ctl_cache[f].len

OwnInv == OneOwner /\ NotCached /\ CachesDiffer /\ Sized /\ CacheSized

IInv == Types /\ TableInv /\ OwnInv

-----------------------------------------------------------------------------
(* Looking a variable up. *)

Place(t, k) ==
  LET hits == {i \in DOMAIN t : t[i].key = k} IN
    IF hits = {} THEN 0 ELSE CHOOSE i \in hits : \A j \in hits : i <= j

(* The first entry of a variable is its only one. *)
LEMMA PlaceFacts ==
  ASSUME NEW t, GoodTable(t), NEW k
  PROVE  /\ Place(t, k) \in 0 .. Len(t)
         /\ Place(t, k) = 0 => \A i \in 1 .. Len(t) : t[i].key # k
         /\ Place(t, k) # 0 => t[Place(t, k)].key = k
         /\ \A i \in 1 .. Len(t) : t[i].key = k => Place(t, k) = i
<1> DEFINE hits == {i \in DOMAIN t : t[i].key = k}
<1>0. t \in Seq(Entry) /\ OneEntry(t)
  BY Zenon DEF GoodTable
<1>1. DOMAIN t = 1 .. Len(t) /\ Len(t) \in Nat
  BY <1>0
<1>2. Place(t, k) = IF hits = {} THEN 0 ELSE CHOOSE i \in hits : \A j \in hits : i <= j
  BY Zenon DEF Place
<1>3. CASE hits = {}
  BY <1>1, <1>2, <1>3
<1>4. CASE hits # {}
  <2>1. PICK i \in hits : TRUE
    BY <1>4, Zenon
  <2>2. \A j \in hits : j = i
    BY <1>0, <1>1, <2>1, Zenon DEF OneEntry
  <2>3. \A j \in hits : i <= j
    BY <1>1, <2>1, <2>2
  <2>4. Place(t, k) \in hits
    BY <1>2, <1>4, <2>1, <2>3, Zenon
  <2>5. Place(t, k) = i
    BY <2>2, <2>4, Zenon
  <2> QED  BY <1>1, <2>1, <2>2, <2>5
<1> QED  BY <1>3, <1>4, Zenon

(* What ctl_find's scan returns depends on the table alone. *)
LEMMA ScanIsPlace ==
  ASSUME NEW f \in Fibers, NEW k \in Keys
  PROVE  Scan(f, k) = Place(ctl_vars[f], k) /\ Scan(f, k)' = Place(ctl_vars'[f], k)
BY Zenon DEF Scan, Place

(* The shortcut finds what the scan finds. *)
LEMMA FindFacts ==
  ASSUME Types, TableInv, NEW f \in Fibers, NEW k \in Keys
  PROVE  ctlFind(f, k) = Place(ctl_vars[f], k)
<1>0. /\ GoodTable(ctl_vars[f])
      /\ ctl_last[f] \in Nat /\ ctl_last[f] <= Len(ctl_vars[f]) /\ Len(ctl_vars[f]) \in Nat
  BY DEF Types, TableInv, GoodTable
<1>1. CASE ctlFind(f, k) = Scan(f, k)
  BY <1>1, ScanIsPlace, Zenon
<1>2. CASE ctlFind(f, k) # Scan(f, k)
  <2>1. ctl_last[f] \in 1 .. Len(ctl_vars[f]) /\ ctl_vars[f][ctl_last[f]].key = k /\ ctlFind(f, k) = ctl_last[f]
    BY <1>0, <1>2 DEF ctlFind
  <2> QED  BY <1>0, <2>1, PlaceFacts, Zenon
<1> QED  BY <1>1, <1>2, Zenon

-----------------------------------------------------------------------------
(* Changing a table: a new entry, and one entry replaced. *)

NewEntry(k) == [key |-> k, gens |-> <<>>, cap |-> 0]

(* ctl_find's append of an empty entry keeps a table good. *)
LEMMA AddEntry ==
  ASSUME NEW t, GoodTable(t), NEW k \in Keys, Place(t, k) = 0
  PROVE  LET w == Append(t, NewEntry(k)) IN
           /\ GoodTable(w) /\ Len(w) = Len(t) + 1
           /\ w[Len(w)] = NewEntry(k)
           /\ \A i \in 1 .. Len(t) : w[i] = t[i]
<1> DEFINE w == Append(t, NewEntry(k))
<1>0. t \in Seq(Entry) /\ OneEntry(t) /\ \A i \in 1 .. Len(t) : Roomy(t[i]) /\ t[i].key # k
  BY PlaceFacts, Zenon DEF GoodTable
<1>1. NewEntry(k) \in Entry /\ Roomy(NewEntry(k)) /\ NewEntry(k).key = k
  BY DEF NewEntry, Entry, Roomy
<1>2. w \in Seq(Entry) /\ Len(w) = Len(t) + 1 /\ w[Len(w)] = NewEntry(k) /\ \A i \in 1 .. Len(t) : w[i] = t[i]
  BY <1>0, <1>1
<1> HIDE DEF w
<1>3. OneEntry(w)
  BY <1>0, <1>1, <1>2 DEF OneEntry
<1>4. \A i \in 1 .. Len(w) : Roomy(w[i])
  <2> SUFFICES ASSUME NEW i \in 1 .. Len(w)  PROVE Roomy(w[i])
    OBVIOUS
  <2>1. i \in 1 .. Len(t) \/ i = Len(w)
    BY <1>0, <1>2
  <2> QED  BY <1>0, <1>1, <1>2, <2>1, Zenon
<1> QED  BY <1>2, <1>3, <1>4, Zenon DEF GoodTable, w

Put(w, i, v) == [w EXCEPT ![i] = v]

(* A write of entry i changes entry i. *)
LEMMA PutFacts ==
  ASSUME NEW S, NEW w \in Seq(S), NEW i \in 1 .. Len(w), NEW v \in S
  PROVE  /\ Put(w, i, v) \in Seq(S) /\ Len(Put(w, i, v)) = Len(w) /\ Len(w) \in Nat
         /\ Put(w, i, v)[i] = v /\ \A j \in 1 .. Len(w) : j # i => Put(w, i, v)[j] = w[j]
BY DEF Put

(* Replacing an entry by a good one of the same variable keeps a table good. *)
LEMMA SetEntry ==
  ASSUME NEW w, GoodTable(w), NEW i \in 1 .. Len(w),
         NEW v \in Entry, v.key = w[i].key, Roomy(v)
  PROVE  LET u == Put(w, i, v) IN
           /\ GoodTable(u) /\ Len(u) = Len(w)
           /\ u[i] = v /\ \A j \in 1 .. Len(w) : j # i => u[j] = w[j]
<1> DEFINE u == Put(w, i, v)
<1>0. w \in Seq(Entry) /\ OneEntry(w) /\ \A j \in 1 .. Len(w) : Roomy(w[j])
  BY Zenon DEF GoodTable
<1>1. u \in Seq(Entry) /\ Len(u) = Len(w) /\ u[i] = v /\ \A j \in 1 .. Len(w) : j # i => u[j] = w[j]
  BY <1>0, PutFacts
<1> HIDE DEF u
<1>2. \A j \in 1 .. Len(u) : u[j].key = w[j].key /\ Roomy(u[j])
  BY <1>0, <1>1, Zenon
<1>3. OneEntry(u)
  BY <1>0, <1>1, <1>2, Zenon DEF OneEntry
<1> QED  BY <1>1, <1>2, <1>3, Zenon DEF GoodTable, u

-----------------------------------------------------------------------------
(* What each operation does to the tables of all tasks. *)

(* What the types say of one task's table. *)
LEMMA TypesFacts ==
  ASSUME Types, TableInv, NEW f \in Fibers
  PROVE  /\ GoodTable(ctl_vars[f]) /\ Len(ctl_vars[f]) \in Nat
         /\ ctl_vars[f] \in Seq(Entry) /\ ctl_last[f] \in Nat
         /\ \A i \in 1 .. Len(ctl_vars[f]) :
              /\ ctl_vars[f][i] \in Entry /\ ctl_vars[f][i].key \in Keys
              /\ ctl_vars[f][i].gens \in Seq(Gen) /\ ctl_vars[f][i].cap \in Nat
<1>1. GoodTable(ctl_vars[f]) /\ ctl_vars[f] \in Seq(Entry) /\ ctl_last[f] \in Nat
  BY Zenon DEF Types, TableInv
<1>2. \A i \in 1 .. Len(ctl_vars[f]) : ctl_vars[f][i] \in Entry
  BY <1>1
<1>3. Len(ctl_vars[f]) \in Nat /\ \A v \in Entry : v.key \in Keys /\ v.gens \in Seq(Gen) /\ v.cap \in Nat
  BY <1>1 DEF Entry
<1> QED  BY <1>1, <1>2, <1>3, Zenon

(* Only f's table changes, to a good one that the shortcut points into. *)
LEMMA TableChange ==
  ASSUME Types, TableInv, NEW f \in Fibers, NEW u, GoodTable(u),
         ctl_vars' = [ctl_vars EXCEPT ![f] = u],
         ctl_last' \in [Fibers -> Nat], ctl_last'[f] <= Len(u),
         \A g \in Fibers : g # f => ctl_last'[g] = ctl_last[g]
  PROVE  /\ ctl_vars' \in [Fibers -> Seq(Entry)] /\ TableInv'
         /\ ctl_vars'[f] = u /\ \A g \in Fibers : g # f => ctl_vars'[g] = ctl_vars[g]
<1>1. u \in Seq(Entry) /\ ctl_vars \in [Fibers -> Seq(Entry)]
  BY Zenon DEF GoodTable, Types
<1>2. /\ ctl_vars' \in [Fibers -> Seq(Entry)]
      /\ ctl_vars'[f] = u /\ \A g \in Fibers : g # f => ctl_vars'[g] = ctl_vars[g]
  BY <1>1, Zenon
<1>3. TableInv'
  BY <1>2, Zenon DEF TableInv
<1> QED  BY <1>2, <1>3, Zenon

(* The entry an ALLOCATE works on. *)
LEMMA EntryFacts ==
  ASSUME Types, TableInv, NEW f \in Fibers, NEW k \in Keys,
         NEW t, t = ctl_vars[f], NEW w, w = WithEntry(f, k), NEW i, i = EntryAt(f, k)
  PROVE  /\ GoodTable(w) /\ i \in 1 .. Len(w) /\ w[i].key = k /\ Len(t) <= Len(w)
         /\ \A j \in 1 .. Len(t) : w[j] = t[j]
         /\ \A j \in 1 .. Len(w) : j \in 1 .. Len(t) \/ (j = i /\ w[j].gens = <<>>)
         /\ w = t \/ Place(t, k) = 0
<1>0. GoodTable(t) /\ Len(t) \in Nat /\ ctlFind(f, k) = Place(t, k)
  BY TypesFacts, FindFacts, Zenon
<1>1. CASE ctlFind(f, k) # 0
  <2>1. w = t /\ i = Place(t, k)
    BY <1>0, <1>1, Zenon DEF WithEntry, EntryAt
  <2>2. i \in 1 .. Len(t) /\ t[i].key = k
    BY <1>0, <1>1, <2>1, PlaceFacts
  <2>3. Len(t) <= Len(w)
    BY <1>0, <2>1
  <2> QED  BY <1>0, <2>1, <2>2, <2>3, Zenon
<1>2. CASE ctlFind(f, k) = 0
  <2>1. w = Append(t, NewEntry(k)) /\ i = Len(t) + 1 /\ Place(t, k) = 0
    BY <1>0, <1>2, Zenon DEF WithEntry, EntryAt, NewEntry
  <2>2. /\ GoodTable(w) /\ Len(w) = Len(t) + 1 /\ w[Len(w)] = NewEntry(k)
        /\ \A j \in 1 .. Len(t) : w[j] = t[j]
    <3>1. LET z == Append(t, NewEntry(k)) IN
            /\ GoodTable(z) /\ Len(z) = Len(t) + 1 /\ z[Len(z)] = NewEntry(k)
            /\ \A j \in 1 .. Len(t) : z[j] = t[j]
      BY <1>0, <2>1, AddEntry, Zenon
    <3> QED  BY <2>1, <3>1, Zenon
  <2>3. NewEntry(k).key = k /\ NewEntry(k).gens = <<>>
    BY Zenon DEF NewEntry
  <2>4. i \in 1 .. Len(w) /\ Len(t) <= Len(w) /\ \A j \in 1 .. Len(w) : j \in 1 .. Len(t) \/ j = i
    BY <1>0, <2>1, <2>2
  <2>5. w[i] = NewEntry(k)
    BY <2>1, <2>2, Zenon
  <2> QED  BY <2>1, <2>2, <2>3, <2>4, <2>5, Zenon
<1> QED  BY <1>1, <1>2, Zenon

(* ALLOCATE appends to that entry. *)
LEMMA PushTable ==
  ASSUME Types, TableInv, NEW f \in Fibers, NEW k \in Keys, NEW a \in Addrs, NEW n \in Lens,
         NEW dims \in Seq(Extents \cup {0}), Len(dims) <= MaxRank, Push(f, k, a, n, dims),
         NEW w, w = WithEntry(f, k), NEW i, i = EntryAt(f, k), NEW x, x = [addr |-> a, len |-> n, dims |-> dims]
  PROVE  /\ x \in Gen /\ w[i].gens \in Seq(Gen)
         /\ ctl_vars' \in [Fibers -> Seq(Entry)] /\ ctl_last' \in [Fibers -> Nat] /\ TableInv'
         /\ \A g \in Fibers : g # f => ctl_vars'[g] = ctl_vars[g]
         /\ Len(ctl_vars'[f]) = Len(w)
         /\ ctl_vars'[f][i].key = k /\ ctl_vars'[f][i].gens = Append(w[i].gens, x)
         /\ \A j \in 1 .. Len(w) : j # i => ctl_vars'[f][j] = w[j]
<1> DEFINE v == [key |-> k, gens |-> Append(w[i].gens, x), cap |-> ctlGrow(w[i])]
           u == Put(w, i, v)
<1>0. GoodTable(w) /\ i \in 1 .. Len(w) /\ w[i].key = k
  BY EntryFacts
<1>1. w \in Seq(Entry) /\ Roomy(w[i]) /\ x \in Gen
  BY <1>0, Zenon DEF GoodTable, Gen
<1>2. w[i] \in Entry /\ w[i].gens \in Seq(Gen) /\ w[i].cap \in Nat
  <2>1. w[i] \in Entry
    BY <1>0, <1>1
  <2> QED  BY <2>1, Zenon DEF Entry
<1>3. ctlGrow(w[i]) \in Nat /\ Len(w[i].gens) + 1 <= ctlGrow(w[i])
  <2>1. Len(w[i].gens) \in Nat /\ Len(w[i].gens) <= w[i].cap
    BY <1>1, <1>2 DEF Roomy
  <2> QED  BY <1>2, <2>1, CtlConstants DEF ctlGrow
<1>4. v \in Entry /\ v.key = w[i].key
  BY <1>0, <1>1, <1>2, <1>3 DEF Entry
<1>5. Roomy(v)
  <2>1. Len(v.gens) <= v.cap
    BY <1>1, <1>2, <1>3
  <2>2. \A d \in 1 .. Len(v.gens) : Len(v.gens[d].dims) <= MaxRank
    BY <1>1, <1>2 DEF Roomy
  <2> QED  BY <2>1, <2>2, Zenon DEF Roomy
<1>6. GoodTable(u) /\ Len(u) = Len(w) /\ u[i] = v /\ \A j \in 1 .. Len(w) : j # i => u[j] = w[j]
  <2> HIDE DEF v
  <2> QED  BY <1>0, <1>4, <1>5, SetEntry, ZenonT(60)
<1>7. ctl_vars' = [ctl_vars EXCEPT ![f] = u] /\ ctl_last' = [ctl_last EXCEPT ![f] = i]
  BY Zenon DEF Push, Put
<1>8. /\ ctl_last' \in [Fibers -> Nat] /\ ctl_last'[f] <= Len(u)
      /\ \A g \in Fibers : g # f => ctl_last'[g] = ctl_last[g]
  <2>1. i \in Nat /\ i <= Len(u)
    BY <1>0, <1>1, <1>6
  <2> QED  BY <1>7, <2>1, Zenon DEF Types
<1>9. /\ ctl_vars' \in [Fibers -> Seq(Entry)] /\ TableInv'
      /\ ctl_vars'[f] = u /\ \A g \in Fibers : g # f => ctl_vars'[g] = ctl_vars[g]
  <2> HIDE DEF u
  <2> QED  BY <1>6, <1>7, <1>8, TableChange, Zenon
<1>10. v.key = k /\ v.gens = Append(w[i].gens, x)
  OBVIOUS
<1> HIDE DEF u, v
<1> QED  BY <1>1, <1>2, <1>6, <1>8, <1>9, <1>10, Zenon

(* The table that an ALLOCATE of k starts from, and what it becomes. *)
PushedTo(f, k, w, i, x) ==
  /\ GoodTable(w) /\ i \in 1 .. Len(w) /\ w[i].key = k /\ Len(ctl_vars[f]) <= Len(w)
  /\ \A j \in 1 .. Len(ctl_vars[f]) : w[j] = ctl_vars[f][j]
  /\ \A j \in 1 .. Len(w) : j \in 1 .. Len(ctl_vars[f]) \/ (j = i /\ w[j].gens = <<>>)
  /\ w = ctl_vars[f] \/ Place(ctl_vars[f], k) = 0
  /\ x \in Gen /\ w[i].gens \in Seq(Gen) /\ TableInv'
  /\ \A g \in Fibers : g # f => ctl_vars'[g] = ctl_vars[g]
  /\ Len(ctl_vars'[f]) = Len(w)
  /\ ctl_vars'[f][i].key = k /\ ctl_vars'[f][i].gens = Append(w[i].gens, x)
  /\ \A j \in 1 .. Len(w) : j # i => ctl_vars'[f][j] = w[j]

(* A push is into some entry of some table, of which only this is needed. *)
LEMMA PushPicks ==
  ASSUME Types, TableInv, NEW f \in Fibers, NEW k \in Keys, NEW a \in Addrs, NEW n \in Lens,
         NEW dims \in Seq(Extents \cup {0}), Len(dims) <= MaxRank, Push(f, k, a, n, dims)
  PROVE  \E w, i : PushedTo(f, k, w, i, [addr |-> a, len |-> n, dims |-> dims])
<1> DEFINE w == WithEntry(f, k)  i == EntryAt(f, k)  x == [addr |-> a, len |-> n, dims |-> dims]
<1>1. /\ GoodTable(w) /\ i \in 1 .. Len(w) /\ w[i].key = k /\ Len(ctl_vars[f]) <= Len(w)
      /\ \A j \in 1 .. Len(ctl_vars[f]) : w[j] = ctl_vars[f][j]
      /\ \A j \in 1 .. Len(w) : j \in 1 .. Len(ctl_vars[f]) \/ (j = i /\ w[j].gens = <<>>)
      /\ w = ctl_vars[f] \/ Place(ctl_vars[f], k) = 0
  BY EntryFacts
<1>2. /\ x \in Gen /\ w[i].gens \in Seq(Gen) /\ TableInv'
      /\ \A g \in Fibers : g # f => ctl_vars'[g] = ctl_vars[g]
      /\ Len(ctl_vars'[f]) = Len(w)
      /\ ctl_vars'[f][i].key = k /\ ctl_vars'[f][i].gens = Append(w[i].gens, x)
      /\ \A j \in 1 .. Len(w) : j # i => ctl_vars'[f][j] = w[j]
  BY PushTable, SMTT(30)
<1> HIDE DEF w, i, x
<1>3. PushedTo(f, k, w, i, x)
  BY <1>1, <1>2, Zenon DEF PushedTo
<1> QED  BY <1>3, Zenon DEF x

(* A push keeps the types and the tables. *)
LEMMA PushTypes ==
  ASSUME Types, TableInv, NEW f \in Fibers, NEW k \in Keys, NEW a \in Addrs, NEW n \in Lens,
         NEW dims \in Seq(Extents \cup {0}), Len(dims) <= MaxRank, Push(f, k, a, n, dims)
  PROVE  /\ [addr |-> a, len |-> n, dims |-> dims] \in Gen
         /\ ctl_vars' \in [Fibers -> Seq(Entry)] /\ ctl_last' \in [Fibers -> Nat] /\ TableInv'
BY PushTable

(* The newest generation of a variable that has one. *)
LEMMA TopFacts ==
  ASSUME Types, TableInv, NEW f \in Fibers, NEW k \in Keys, Depth(f, k) # 0,
         NEW i, i = ctlFind(f, k)
  PROVE  /\ i = Place(ctl_vars[f], k) /\ i \in 1 .. Len(ctl_vars[f]) /\ i \in Nat
         /\ ctl_vars[f][i] \in Entry /\ ctl_vars[f][i].key = k /\ ctl_vars[f][i].gens \in Seq(Gen)
         /\ Depth(f, k) = Len(ctl_vars[f][i].gens) /\ Depth(f, k) \in 1 .. Len(ctl_vars[f][i].gens)
         /\ Depth(f, k) \in Nat /\ Has(ctl_vars[f], i, Depth(f, k))
         /\ Top(f, k) = GenAt(ctl_vars[f], i, Depth(f, k)) /\ Top(f, k) \in Gen
<1>1. i = Place(ctl_vars[f], k) /\ i # 0 /\ Depth(f, k) = Len(ctl_vars[f][i].gens)
  BY FindFacts, Zenon DEF Depth
<1>2. i \in 1 .. Len(ctl_vars[f]) /\ i \in Nat /\ ctl_vars[f][i].key = k
  BY <1>1, TypesFacts, PlaceFacts
<1>3. ctl_vars[f][i] \in Entry /\ ctl_vars[f][i].gens \in Seq(Gen)
  BY <1>2, TypesFacts, Zenon
<1>4. Depth(f, k) \in 1 .. Len(ctl_vars[f][i].gens) /\ Depth(f, k) \in Nat
  BY <1>1, <1>3
<1>5. Top(f, k) = GenAt(ctl_vars[f], i, Depth(f, k))
  BY Zenon DEF Top, GenAt
<1>6. Top(f, k) \in Gen
  BY <1>3, <1>4, <1>5 DEF GenAt
<1> QED  BY <1>1, <1>2, <1>3, <1>4, <1>5, <1>6, Zenon DEF Has

(* The index a lookup remembers is within the table. *)
LEMMA RememberedFacts ==
  ASSUME Types, TableInv, NEW f \in Fibers, NEW k \in Keys
  PROVE  /\ Remembered(f, k) \in Nat /\ Remembered(f, k) <= Len(ctl_vars[f])
         /\ [ctl_last EXCEPT ![f] = Remembered(f, k)] \in [Fibers -> Nat]
<1>1. ctlFind(f, k) \in 0 .. Len(ctl_vars[f]) /\ ctl_last[f] <= Len(ctl_vars[f])
  <2>1. GoodTable(ctl_vars[f]) /\ ctlFind(f, k) = Place(ctl_vars[f], k) /\ ctl_last[f] <= Len(ctl_vars[f])
    BY FindFacts, Zenon DEF TableInv
  <2> QED  BY <2>1, PlaceFacts, Zenon
<1>2. Remembered(f, k) \in Nat /\ Remembered(f, k) <= Len(ctl_vars[f])
  BY <1>1, TypesFacts DEF Remembered
<1> QED  BY <1>2, Zenon DEF Types

(* The generations of k's entry i become s; the rest stays. *)
Regen(f, i, s) ==
  ctl_vars' = [ctl_vars EXCEPT ![f] = [ctl_vars[f] EXCEPT ![i] = [ctl_vars[f][i] EXCEPT !.gens = s]]]

Points(f, m) == ctl_last' = [ctl_last EXCEPT ![f] = m]

(* Entry i of f's table has the generations s now; nothing else is new. *)
Becomes(f, i, s) ==
  /\ \A g \in Fibers : g # f => ctl_vars'[g] = ctl_vars[g]
  /\ Len(ctl_vars'[f]) = Len(ctl_vars[f])
  /\ ctl_vars'[f][i].key = ctl_vars[f][i].key /\ ctl_vars'[f][i].gens = s
  /\ \A j \in 1 .. Len(ctl_vars[f]) : j # i => ctl_vars'[f][j] = ctl_vars[f][j]

(* Another list of generations in one entry keeps the tables good. *)
LEMMA RegenTable ==
  ASSUME Types, TableInv, NEW f \in Fibers, NEW i \in 1 .. Len(ctl_vars[f]),
         NEW s \in Seq(Gen), Len(s) <= Len(ctl_vars[f][i].gens),
         \A d \in 1 .. Len(s) : Len(s[d].dims) <= MaxRank, Regen(f, i, s),
         NEW m \in Nat, m <= Len(ctl_vars[f]), Points(f, m)
  PROVE  /\ ctl_vars' \in [Fibers -> Seq(Entry)] /\ ctl_last' \in [Fibers -> Nat] /\ TableInv'
         /\ Becomes(f, i, s)
<1> DEFINE w == ctl_vars[f]
           v == [w[i] EXCEPT !.gens = s]
           u == Put(w, i, v)
<1>0. GoodTable(w) /\ Roomy(w[i]) /\ w[i] \in Entry /\ w[i].gens \in Seq(Gen) /\ w[i].cap \in Nat
  BY TypesFacts, Zenon DEF GoodTable
<1>1. v \in Entry /\ v.key = w[i].key /\ v.gens = s /\ v.cap = w[i].cap
  BY <1>0, Zenon DEF Entry
<1>2. Roomy(v)
  <2>1. Len(s) <= w[i].cap
    BY <1>0 DEF Roomy
  <2> HIDE DEF v
  <2> QED  BY <1>1, <2>1, Zenon DEF Roomy
<1>3. GoodTable(u) /\ Len(u) = Len(w) /\ u[i] = v /\ \A j \in 1 .. Len(w) : j # i => u[j] = w[j]
  <2> HIDE DEF v
  <2> QED  BY <1>0, <1>1, <1>2, SetEntry, ZenonT(60)
<1>4. /\ ctl_last' \in [Fibers -> Nat] /\ ctl_last'[f] <= Len(u)
      /\ \A g \in Fibers : g # f => ctl_last'[g] = ctl_last[g]
  BY <1>3, Zenon DEF Types, Points
<1>5. /\ ctl_vars' \in [Fibers -> Seq(Entry)] /\ TableInv'
      /\ ctl_vars'[f] = u /\ \A g \in Fibers : g # f => ctl_vars'[g] = ctl_vars[g]
  <2>1. ctl_vars' = [ctl_vars EXCEPT ![f] = u]
    BY Zenon DEF Regen, Put
  <2> HIDE DEF u
  <2> QED  BY <1>3, <1>4, <2>1, TableChange, Zenon
<1> HIDE DEF u, v
<1> QED  BY <1>1, <1>3, <1>4, <1>5, Zenon DEF Becomes

(* FREE writes such a list: the same without the newest. *)
LEMMA FreeIsRegen ==
  ASSUME Types, TableInv, NEW f \in Fibers, NEW k \in Keys, Depth(f, k) # 0,
         NEW i, i = ctlFind(f, k), NEW G, G = ctl_vars[f][i].gens,
         ctl_vars' = [ctl_vars EXCEPT ![f][ctlFind(f, k)].gens = SubSeq(@, 1, Len(@) - 1)]
  PROVE  Regen(f, i, SubSeq(G, 1, Len(G) - 1))
<1>1. ctl_vars \in [Fibers -> Seq(Entry)] /\ ctl_vars[f] \in Seq(Entry)
  BY Zenon DEF Types
<1>2. i \in 1 .. Len(ctl_vars[f]) /\ ctl_vars[f][i] \in Entry
  BY TopFacts, Zenon
<1> QED  BY <1>1, <1>2, Zenon DEF Regen

(* An extent writes such a list: the same with other extents in the newest. *)
LEMMA SetDimIsRegen ==
  ASSUME Types, TableInv, NEW f \in Fibers, NEW k \in Keys, Depth(f, k) # 0, NEW dims,
         NEW i, i = ctlFind(f, k), NEW G, G = ctl_vars[f][i].gens,
         ctl_vars' = [ctl_vars EXCEPT ![f][i].gens[Depth(f, k)].dims = dims]
  PROVE  Regen(f, i, [G EXCEPT ![Depth(f, k)] = [Top(f, k) EXCEPT !.dims = dims]])
<1>1. ctl_vars \in [Fibers -> Seq(Entry)] /\ ctl_vars[f] \in Seq(Entry)
  BY Zenon DEF Types
<1>2. /\ i \in 1 .. Len(ctl_vars[f]) /\ ctl_vars[f][i] \in Entry
      /\ Top(f, k) = ctl_vars[f][i].gens[Depth(f, k)]
  BY TopFacts, Zenon DEF GenAt
<1> QED  BY <1>1, <1>2, Zenon DEF Regen

-----------------------------------------------------------------------------
(* The same in terms of generations: one more, x; one fewer; the same ones, *)
(* up to their extents.                                                     *)

Adds(f, i, m, x) ==
  /\ ~Has(ctl_vars[f], i, m) /\ ctl_vars'[f][i].gens[m] = x
  /\ \A g \in Fibers, j, d \in Nat : Has(ctl_vars'[g], j, d) <=> Has(ctl_vars[g], j, d) \/ (g = f /\ j = i /\ d = m)
  /\ \A g \in Fibers, j, d \in Nat : Has(ctl_vars[g], j, d) => GenAt(ctl_vars'[g], j, d) = GenAt(ctl_vars[g], j, d)

Removes(f, i, m) ==
  /\ Has(ctl_vars[f], i, m)
  /\ \A g \in Fibers, j, d \in Nat : Has(ctl_vars'[g], j, d) <=> Has(ctl_vars[g], j, d) /\ ~(g = f /\ j = i /\ d = m)
  /\ \A g \in Fibers, j, d \in Nat : Has(ctl_vars'[g], j, d) => GenAt(ctl_vars'[g], j, d) = GenAt(ctl_vars[g], j, d)

Keeps ==
  \A g \in Fibers, j, d \in Nat :
    /\ Has(ctl_vars'[g], j, d) <=> Has(ctl_vars[g], j, d)
    /\ Has(ctl_vars[g], j, d) =>
         /\ GenAt(ctl_vars'[g], j, d).addr = GenAt(ctl_vars[g], j, d).addr
         /\ GenAt(ctl_vars'[g], j, d).len = GenAt(ctl_vars[g], j, d).len

(* The tasks whose table is not written keep their generations. *)
LEMMA OthersKept ==
  ASSUME NEW f \in Fibers, \A g \in Fibers : g # f => ctl_vars'[g] = ctl_vars[g]
  PROVE  \A g \in Fibers : g # f =>
           \A j, d \in Nat : /\ Has(ctl_vars'[g], j, d) <=> Has(ctl_vars[g], j, d)
                             /\ GenAt(ctl_vars'[g], j, d) = GenAt(ctl_vars[g], j, d)
BY Zenon DEF Has, GenAt

(* A push adds one generation. *)
LEMMA PushAdds ==
  ASSUME Types, TableInv, NEW f \in Fibers, NEW k \in Keys, NEW a \in Addrs, NEW n \in Lens,
         NEW dims \in Seq(Extents \cup {0}), Len(dims) <= MaxRank, Push(f, k, a, n, dims)
  PROVE  \E i, m \in Nat : Adds(f, i, m, [addr |-> a, len |-> n, dims |-> dims])
<1>a. PICK w, i : PushedTo(f, k, w, i, [addr |-> a, len |-> n, dims |-> dims])
  BY PushPicks, Zenon
<1>b. PICK x : x = [addr |-> a, len |-> n, dims |-> dims]
  BY Zenon
<1>0. x = [addr |-> a, len |-> n, dims |-> dims] /\ PushedTo(f, k, w, i, x)
  BY <1>a, <1>b, Zenon
<1> DEFINE t == ctl_vars[f]  u == ctl_vars'[f]  m == Len(w[i].gens) + 1
<1>1. /\ GoodTable(w) /\ i \in 1 .. Len(w) /\ w[i].key = k /\ Len(t) <= Len(w)
      /\ \A j \in 1 .. Len(t) : w[j] = t[j]
      /\ \A j \in 1 .. Len(w) : j \in 1 .. Len(t) \/ (j = i /\ w[j].gens = <<>>)
  BY <1>0, Zenon DEF PushedTo
<1>2. /\ w[i].gens \in Seq(Gen) /\ \A g \in Fibers : g # f => ctl_vars'[g] = ctl_vars[g]
      /\ Len(u) = Len(w) /\ u[i].gens = Append(w[i].gens, x)
      /\ \A j \in 1 .. Len(w) : j # i => u[j] = w[j]
  BY <1>0, Zenon DEF PushedTo
<1>3. Len(w) \in Nat /\ Len(t) \in Nat /\ t \in Seq(Entry)
  BY <1>1, TypesFacts DEF GoodTable
<1> HIDE DEF t, u
<1>4. i \in Nat /\ m \in Nat /\ m # 0 /\ Len(u[i].gens) = m /\ u[i].gens[m] = x
  BY <1>1, <1>2, <1>3
<1>5. \A d \in 1 .. Len(w[i].gens) : u[i].gens[d] = w[i].gens[d]
  BY <1>2
<1>6. \A j, d \in Nat : Has(w, j, d) <=> Has(t, j, d)
  BY <1>1, <1>3 DEF Has
<1>7. \A j, d \in Nat : Has(u, j, d) <=> Has(w, j, d) \/ (j = i /\ d = m)
  <2> SUFFICES ASSUME NEW j \in Nat, NEW d \in Nat
               PROVE Has(u, j, d) <=> Has(w, j, d) \/ (j = i /\ d = m)
    OBVIOUS
  <2>1. CASE j = i
    BY <1>1, <1>2, <1>4, <2>1 DEF Has
  <2>2. CASE j # i
    BY <1>2, <2>2, Zenon DEF Has
  <2> QED  BY <2>1, <2>2, Zenon
<1>8. ~Has(w, i, m)
  BY <1>2 DEF Has
<1>9. \A j, d \in Nat : Has(w, j, d) => u[j].gens[d] = w[j].gens[d]
  BY <1>2, <1>5, Zenon DEF Has
<1>10. \A j, d \in Nat : Has(t, j, d) => w[j].gens[d] = t[j].gens[d]
  BY <1>1, Zenon DEF Has
<1> HIDE DEF m
<1>11. Adds(f, i, m, x)
  <2>1. \A g \in Fibers : g # f =>
          \A j, d \in Nat : /\ Has(ctl_vars'[g], j, d) <=> Has(ctl_vars[g], j, d)
                            /\ GenAt(ctl_vars'[g], j, d) = GenAt(ctl_vars[g], j, d)
    BY <1>2, OthersKept, Zenon
  <2>2. \A j, d \in Nat : /\ Has(ctl_vars'[f], j, d) <=> Has(ctl_vars[f], j, d) \/ (j = i /\ d = m)
                          /\ Has(ctl_vars[f], j, d) => GenAt(ctl_vars'[f], j, d) = GenAt(ctl_vars[f], j, d)
    BY <1>6, <1>7, <1>9, <1>10, ZenonT(60) DEF Has, GenAt, t, u
  <2>3. ~Has(ctl_vars[f], i, m) /\ ctl_vars'[f][i].gens[m] = x
    BY <1>4, <1>6, <1>8, Zenon DEF Has, t, u
  <2> QED  BY <2>1, <2>2, <2>3, Zenon DEF Adds
<1> QED  BY <1>0, <1>4, <1>11, Zenon

(* FREE removes one generation. *)
LEMMA FreeRemoves ==
  ASSUME Types, TableInv, NEW f \in Fibers, NEW k \in Keys, Depth(f, k) # 0,
         NEW i, i = ctlFind(f, k), NEW G, G = ctl_vars[f][i].gens,
         Regen(f, i, SubSeq(G, 1, Len(G) - 1)), Points(f, i)
  PROVE  /\ ctl_vars' \in [Fibers -> Seq(Entry)] /\ ctl_last' \in [Fibers -> Nat] /\ TableInv'
         /\ Removes(f, i, Depth(f, k)) /\ Becomes(f, i, SubSeq(G, 1, Len(G) - 1))
<1> DEFINE t == ctl_vars[f]  s == SubSeq(G, 1, Len(G) - 1)  u == ctl_vars'[f]  m == Depth(f, k)
<1>1. /\ i \in 1 .. Len(t) /\ i \in Nat /\ G \in Seq(Gen) /\ m = Len(G) /\ m \in Nat /\ m # 0
      /\ Has(ctl_vars[f], i, m)
  BY TopFacts
<1>2. s \in Seq(Gen) /\ Len(s) = m - 1 /\ \A d \in 1 .. Len(s) : s[d] = G[d]
  BY <1>1
<1>3. GoodTable(t) /\ Len(t) \in Nat
  BY TypesFacts, Zenon
<1>4. \A d \in 1 .. Len(G) : Len(G[d].dims) <= MaxRank
  BY <1>1, <1>3, Zenon DEF GoodTable, Roomy
<1>5. Len(s) <= Len(G) /\ \A d \in 1 .. Len(s) : d \in 1 .. Len(G)
  BY <1>1, <1>2
<1>6. \A d \in 1 .. Len(s) : Len(s[d].dims) <= MaxRank
  BY <1>2, <1>4, <1>5, Zenon
<1>7. i <= Len(t)
  BY <1>1, <1>3
<1>8. /\ ctl_vars' \in [Fibers -> Seq(Entry)] /\ ctl_last' \in [Fibers -> Nat] /\ TableInv'
      /\ \A g \in Fibers : g # f => ctl_vars'[g] = ctl_vars[g]
      /\ Len(u) = Len(t) /\ u[i].gens = s /\ Becomes(f, i, s)
      /\ \A j \in 1 .. Len(t) : j # i => u[j] = t[j]
  <2> HIDE DEF s
  <2>1. Regen(f, i, s)
    BY Zenon DEF s
  <2> QED  BY <1>1, <1>2, <1>5, <1>6, <1>7, <2>1, RegenTable, Zenon DEF Becomes
<1> HIDE DEF t, s, u, m
<1>9. \A d \in Nat : d \in 1 .. Len(s) <=> d \in 1 .. Len(G) /\ d # m
  BY <1>1, <1>2
<1>10. \A j, d \in Nat : Has(u, j, d) <=> Has(t, j, d) /\ ~(j = i /\ d = m)
  BY <1>8, <1>9, Zenon DEF Has, t
<1>11. \A j, d \in Nat : Has(u, j, d) => u[j].gens[d] = t[j].gens[d]
  BY <1>2, <1>8, Zenon DEF Has, t
<1>12. Removes(f, i, m)
  <2>1. \A g \in Fibers : g # f =>
          \A j, d \in Nat : /\ Has(ctl_vars'[g], j, d) <=> Has(ctl_vars[g], j, d)
                            /\ GenAt(ctl_vars'[g], j, d) = GenAt(ctl_vars[g], j, d)
    BY <1>8, OthersKept, Zenon
  <2>2. \A j, d \in Nat : /\ Has(ctl_vars'[f], j, d) <=> Has(ctl_vars[f], j, d) /\ ~(j = i /\ d = m)
                          /\ Has(ctl_vars'[f], j, d) => GenAt(ctl_vars'[f], j, d) = GenAt(ctl_vars[f], j, d)
    BY <1>10, <1>11, Zenon DEF Has, GenAt, t, u
  <2>3. Has(ctl_vars[f], i, m)
    BY <1>1, Zenon DEF t
  <2> QED  BY <2>1, <2>2, <2>3, Zenon DEF Removes
<1> QED  BY <1>8, <1>12, Zenon DEF m, s

(* An extent keeps every generation's buffer and length. *)
LEMMA SetDimKeeps ==
  ASSUME Types, TableInv, NEW f \in Fibers, NEW i \in 1 .. Len(ctl_vars[f]),
         NEW G \in Seq(Gen), ctl_vars[f][i].gens = G, NEW m \in 1 .. Len(G),
         NEW x \in Gen, x.addr = G[m].addr, x.len = G[m].len, Len(x.dims) <= MaxRank,
         Regen(f, i, Put(G, m, x)), NEW r \in Nat, r <= Len(ctl_vars[f]), Points(f, r)
  PROVE  /\ ctl_vars' \in [Fibers -> Seq(Entry)] /\ ctl_last' \in [Fibers -> Nat] /\ TableInv'
         /\ Keeps /\ Becomes(f, i, Put(G, m, x))
<1> DEFINE t == ctl_vars[f]  s == Put(G, m, x)  u == ctl_vars'[f]
<1>1. i \in 1 .. Len(t) /\ t[i].gens = G
  OBVIOUS
<1>3. s \in Seq(Gen) /\ Len(s) = Len(G) /\ s[m] = x /\ \A d \in 1 .. Len(s) : d # m => s[d] = G[d]
  BY PutFacts
<1>4. GoodTable(t) /\ Len(t) \in Nat
  BY TypesFacts, Zenon
<1>5. \A d \in 1 .. Len(G) : Len(G[d].dims) <= MaxRank
  BY <1>1, <1>4, Zenon DEF GoodTable, Roomy
<1> HIDE DEF s
<1>6. Len(s) <= Len(G)
  BY <1>1, <1>3
<1>7. \A d \in 1 .. Len(s) : Len(s[d].dims) <= MaxRank
  BY <1>3, <1>5, Zenon
<1>8. /\ ctl_vars' \in [Fibers -> Seq(Entry)] /\ ctl_last' \in [Fibers -> Nat] /\ TableInv'
      /\ \A g \in Fibers : g # f => ctl_vars'[g] = ctl_vars[g]
      /\ Len(u) = Len(t) /\ u[i].gens = s /\ Becomes(f, i, s)
      /\ \A j \in 1 .. Len(t) : j # i => u[j] = t[j]
  <2>1. Regen(f, i, s)
    BY Zenon DEF s
  <2> QED  BY <1>1, <1>3, <1>6, <1>7, <2>1, RegenTable, Zenon DEF Becomes
<1> HIDE DEF t, u
<1>9. \A j, d \in Nat : Has(u, j, d) <=> Has(t, j, d)
  BY <1>3, <1>8, Zenon DEF Has, t
<1>10. \A j, d \in Nat : Has(t, j, d) =>
         u[j].gens[d].addr = t[j].gens[d].addr /\ u[j].gens[d].len = t[j].gens[d].len
  <2> SUFFICES ASSUME NEW j \in Nat, NEW d \in Nat, Has(t, j, d)
               PROVE  u[j].gens[d].addr = t[j].gens[d].addr /\ u[j].gens[d].len = t[j].gens[d].len
    OBVIOUS
  <2>1. CASE j = i
    BY <1>3, <1>8, <2>1, Zenon DEF Has, t
  <2>2. CASE j # i
    BY <1>8, <2>2, Zenon DEF Has
  <2> QED  BY <2>1, <2>2, Zenon
<1>11. Keeps
  <2>1. \A g \in Fibers : g # f =>
          \A j, d \in Nat : /\ Has(ctl_vars'[g], j, d) <=> Has(ctl_vars[g], j, d)
                            /\ GenAt(ctl_vars'[g], j, d) = GenAt(ctl_vars[g], j, d)
    BY <1>8, OthersKept, Zenon
  <2>2. \A j, d \in Nat :
          /\ Has(ctl_vars'[f], j, d) <=> Has(ctl_vars[f], j, d)
          /\ Has(ctl_vars[f], j, d) =>
               /\ GenAt(ctl_vars'[f], j, d).addr = GenAt(ctl_vars[f], j, d).addr
               /\ GenAt(ctl_vars'[f], j, d).len = GenAt(ctl_vars[f], j, d).len
    BY <1>9, <1>10, Zenon DEF Has, GenAt, t, u
  <2> QED  BY <2>1, <2>2, ZenonT(60) DEF Keeps
<1> QED  BY <1>8, <1>11, Zenon DEF s

-----------------------------------------------------------------------------
(* Who owns a buffer. *)

Owned(a) == \/ \E f \in Fibers, i, d \in Nat : Has(ctl_vars[f], i, d) /\ GenAt(ctl_vars[f], i, d).addr = a
            \/ \E f \in Fibers : ctl_cache[f].addr = a

(* What the heap hands out is nobody's, and not empty. *)
LEMMA GensTyped ==
  ASSUME Types, TableInv, NEW f \in Fibers, NEW i \in Nat, NEW d \in Nat, Has(ctl_vars[f], i, d)
  PROVE  /\ GenAt(ctl_vars[f], i, d) \in Gen /\ GenAt(ctl_vars[f], i, d).addr \in Addrs
         /\ GenAt(ctl_vars[f], i, d).len \in Lens
<1>1. ctl_vars[f][i].gens \in Seq(Gen) /\ d \in 1 .. Len(ctl_vars[f][i].gens)
  BY TypesFacts, Zenon DEF Has
<1>2. GenAt(ctl_vars[f], i, d) \in Gen
  BY <1>1 DEF GenAt
<1> QED  BY <1>2, Zenon DEF Gen

(* The buffer malloc returns is owned by nobody. *)
LEMMA FreshIsFree ==
  ASSUME IInv, NEW a \in Addrs \ live
  PROVE  ~Owned(a) /\ a # NoAddr /\ size[a] = 0
<1>1. size[a] = 0 /\ a # NoAddr /\ 0 \notin Lens
  BY CtlConstants, Zenon DEF live
<1>2. \A f \in Fibers, i, d \in Nat : Has(ctl_vars[f], i, d) => GenAt(ctl_vars[f], i, d).addr # a
  <2>1. \A f \in Fibers, i, d \in Nat : Has(ctl_vars[f], i, d) => GenAt(ctl_vars[f], i, d).len \in Lens
    BY GensTyped, Zenon DEF IInv
  <2> QED  BY <1>1, <2>1 DEF IInv, OwnInv, Sized
<1>3. \A f \in Fibers : ctl_cache[f].addr # a
  BY <1>1, Zenon DEF IInv, OwnInv, CacheSized
<1> QED  BY <1>1, <1>2, <1>3, Zenon DEF Owned

(* malloc. *)
LEMMA OwnMalloc ==
  ASSUME IInv, NEW f \in Fibers, NEW i \in Nat, NEW m \in Nat, NEW x \in Gen, Adds(f, i, m, x),
         x.addr \notin live, size' = [size EXCEPT ![x.addr] = x.len], ctl_cache' = ctl_cache
  PROVE  OwnInv'
<1>0. x.addr \in Addrs /\ x.len \in Lens /\ size \in [Addrs -> Lens \cup {0}]
  BY Zenon DEF Gen, IInv, Types
<1>1. ~Owned(x.addr) /\ x.addr # NoAddr
  BY <1>0, FreshIsFree, Zenon
<1>2. size'[x.addr] = x.len /\ \A a \in Addrs : a # x.addr => size'[a] = size[a]
  BY <1>0, Zenon
<1>3. \A g \in Fibers, j, d \in Nat : Has(ctl_vars[g], j, d) => GenAt(ctl_vars[g], j, d).addr \in Addrs
  BY GensTyped, Zenon DEF IInv
<1>4. \A g \in Fibers : ctl_cache[g].addr \in Addrs \cup {NoAddr}
  BY Zenon DEF IInv, Types
<1>5. GenAt(ctl_vars'[f], i, m) = x
  BY Zenon DEF Adds, GenAt
<1>6. \A g \in Fibers, j, d \in Nat : Has(ctl_vars'[g], j, d) =>
        \/ g = f /\ j = i /\ d = m /\ GenAt(ctl_vars'[g], j, d) = x
        \/ /\ Has(ctl_vars[g], j, d) /\ GenAt(ctl_vars'[g], j, d) = GenAt(ctl_vars[g], j, d)
           /\ GenAt(ctl_vars[g], j, d).addr # x.addr
  BY <1>1, <1>5 DEF Adds, Owned
<1>7. \A g \in Fibers : ctl_cache'[g] = ctl_cache[g] /\ ctl_cache[g].addr # x.addr
  BY <1>1, Zenon DEF Owned
<1>8. OneOwner'
  <2> SUFFICES ASSUME NEW g \in Fibers, NEW h \in Fibers, NEW j \in Nat, NEW l \in Nat, NEW d \in Nat, NEW e \in Nat,
                      Has(ctl_vars'[g], j, d), Has(ctl_vars'[h], l, e),
                      GenAt(ctl_vars'[g], j, d).addr = GenAt(ctl_vars'[h], l, e).addr
               PROVE  g = h /\ j = l /\ d = e
    BY DEF OneOwner
  <2>1. GenAt(ctl_vars'[g], j, d) = x /\ GenAt(ctl_vars'[h], l, e) = x => g = h /\ j = l /\ d = e
    BY <1>6
  <2>2. GenAt(ctl_vars'[g], j, d) # x => GenAt(ctl_vars'[g], j, d).addr # x.addr
    BY <1>6
  <2>3. GenAt(ctl_vars'[h], l, e) # x => GenAt(ctl_vars'[h], l, e).addr # x.addr
    BY <1>6
  <2>4. GenAt(ctl_vars'[g], j, d) # x /\ GenAt(ctl_vars'[h], l, e) # x => g = h /\ j = l /\ d = e
    BY <1>6 DEF IInv, OwnInv, OneOwner
  <2> QED  BY <2>1, <2>2, <2>3, <2>4, Zenon
<1>9. NotCached'
  BY <1>6, <1>7, SMTT(30) DEF IInv, OwnInv, NotCached
<1>10. Sized'
  <2> SUFFICES ASSUME NEW g \in Fibers, NEW j \in Nat, NEW d \in Nat, Has(ctl_vars'[g], j, d)
               PROVE  (size[GenAt(ctl_vars[g], j, d).addr] = GenAt(ctl_vars[g], j, d).len)'
    BY Zenon DEF Sized
  <2>1. CASE GenAt(ctl_vars'[g], j, d) = x
    BY <1>2, <2>1, Zenon
  <2>2. CASE GenAt(ctl_vars'[g], j, d) # x
    BY <1>2, <1>3, <1>6, <2>2 DEF IInv, OwnInv, Sized
  <2> QED  BY <2>1, <2>2, Zenon
<1>11. \A g \in Fibers : ctl_cache[g].addr # NoAddr => size'[ctl_cache[g].addr] = size[ctl_cache[g].addr]
  BY <1>2, <1>4, <1>7, Zenon
<1>12. CacheSized' /\ CachesDiffer'
  BY <1>7, <1>11, Zenon DEF IInv, OwnInv, CacheSized, CachesDiffer
<1> QED  BY <1>8, <1>9, <1>10, <1>12, Zenon DEF OwnInv

(* The slot's buffer is handed out. *)
LEMMA OwnTake ==
  ASSUME IInv, NEW f \in Fibers, NEW i \in Nat, NEW m \in Nat, NEW x \in Gen, Adds(f, i, m, x),
         ctl_cache[f].addr # NoAddr, x.addr = ctl_cache[f].addr, x.len = ctl_cache[f].len,
         ctl_cache' = [ctl_cache EXCEPT ![f] = TakeCache(f)], size' = size
  PROVE  OwnInv'
<1>1. ctl_cache'[f].addr = NoAddr /\ \A g \in Fibers : g # f => ctl_cache'[g] = ctl_cache[g]
  BY Zenon DEF TakeCache, IInv, Types
<1>2. x.addr # NoAddr /\ \A g \in Fibers : ctl_cache'[g].addr # x.addr
  BY <1>1, Zenon DEF IInv, OwnInv, CachesDiffer
<1>3. \A g \in Fibers, j, d \in Nat : Has(ctl_vars[g], j, d) => GenAt(ctl_vars[g], j, d).addr \in Addrs
  BY GensTyped, Zenon DEF IInv
<1>4. NoAddr \notin Addrs
  BY CtlConstants, Zenon
<1>5. GenAt(ctl_vars'[f], i, m) = x
  BY Zenon DEF Adds, GenAt
<1>6. \A g \in Fibers, j, d \in Nat : Has(ctl_vars'[g], j, d) =>
        \/ g = f /\ j = i /\ d = m /\ GenAt(ctl_vars'[g], j, d) = x
        \/ /\ Has(ctl_vars[g], j, d) /\ GenAt(ctl_vars'[g], j, d) = GenAt(ctl_vars[g], j, d)
           /\ GenAt(ctl_vars[g], j, d).addr # x.addr
  BY <1>5 DEF Adds, IInv, OwnInv, NotCached
<1>7. OneOwner'
  BY <1>6 DEF IInv, OwnInv, OneOwner
<1>8. NotCached'
  BY <1>1, <1>2, <1>3, <1>4, <1>6 DEF IInv, OwnInv, NotCached
<1>9. Sized'
  BY <1>6 DEF IInv, OwnInv, Sized, CacheSized
<1>10. CacheSized' /\ CachesDiffer'
  BY <1>1 DEF IInv, OwnInv, CacheSized, CachesDiffer
<1> QED  BY <1>7, <1>8, <1>9, <1>10, Zenon DEF OwnInv

(* FREE: the buffer goes to the slot, or back to the heap. *)
GivesUp(f, k, x) ==
  /\ ctl_cache' = [ctl_cache EXCEPT ![f] = Stash(f, k, x)]
  /\ size' = [a \in Addrs |-> IF a \in Returned(f, k, x) THEN 0 ELSE size[a]]

(* FREE: the buffer goes to the slot, or back to the heap with no other owner. *)
LEMMA OwnFree ==
  ASSUME IInv, NEW f \in Fibers, NEW k \in Keys, NEW i \in Nat, NEW m \in Nat, Removes(f, i, m),
         NEW x, x = GenAt(ctl_vars[f], i, m), GivesUp(f, k, x)
  PROVE  OwnInv'
<1>0. x \in Gen /\ x.addr \in Addrs /\ x.len \in Lens /\ x.addr # NoAddr /\ size[x.addr] = x.len
  BY GensTyped, CtlConstants DEF IInv, OwnInv, Sized, Removes
<1>1. ctl_cache'[f] = Stash(f, k, x) /\ \A g \in Fibers : g # f => ctl_cache'[g] = ctl_cache[g]
  BY Zenon DEF IInv, Types, GivesUp
<1>2. \A a \in Addrs : a \notin Returned(f, k, x) => size'[a] = size[a]
  BY Zenon DEF GivesUp
<1>3. \A g \in Fibers : ctl_cache[g].addr # x.addr
  BY Zenon DEF IInv, OwnInv, NotCached, Removes
<1>4. \A g \in Fibers, j, d \in Nat : Has(ctl_vars'[g], j, d) =>
        /\ Has(ctl_vars[g], j, d) /\ GenAt(ctl_vars'[g], j, d) = GenAt(ctl_vars[g], j, d)
        /\ GenAt(ctl_vars[g], j, d).addr # x.addr /\ GenAt(ctl_vars[g], j, d).addr \in Addrs
        /\ \A h \in Fibers : ctl_cache[h].addr # GenAt(ctl_vars[g], j, d).addr
  <2>1. \A g \in Fibers, j, d \in Nat : Has(ctl_vars'[g], j, d) =>
          /\ Has(ctl_vars[g], j, d) /\ GenAt(ctl_vars'[g], j, d) = GenAt(ctl_vars[g], j, d)
          /\ GenAt(ctl_vars[g], j, d).addr # x.addr
    BY DEF Removes, IInv, OwnInv, OneOwner
  <2>2. \A g \in Fibers, j, d \in Nat : Has(ctl_vars[g], j, d) =>
          /\ GenAt(ctl_vars[g], j, d).addr \in Addrs
          /\ \A h \in Fibers : ctl_cache[h].addr # GenAt(ctl_vars[g], j, d).addr
    BY GensTyped, Zenon DEF IInv, OwnInv, NotCached
  <2> QED  BY <2>1, <2>2, ZenonT(60)
<1>5. OneOwner'
  BY <1>4 DEF IInv, OwnInv, OneOwner
<1>6. \/ Stash(f, k, x) = ctl_cache[f] /\ Returned(f, k, x) = {x.addr}
      \/ /\ Stash(f, k, x).addr = x.addr /\ Stash(f, k, x).len = x.len
         /\ Returned(f, k, x) = {ctl_cache[f].addr} \cap Addrs
  BY Zenon DEF Stash, StashAny, Returned
<1>7. \A g \in Fibers, j, d \in Nat : Has(ctl_vars[g], j, d) /\ GenAt(ctl_vars[g], j, d).addr # x.addr =>
        GenAt(ctl_vars[g], j, d).addr \notin Returned(f, k, x)
  BY <1>6, Zenon DEF IInv, OwnInv, NotCached
<1>8. Sized'
  BY <1>2, <1>4, <1>7 DEF IInv, OwnInv, Sized
<1>9. NotCached'
  BY <1>1, <1>4, <1>6 DEF NotCached
<1>10. CachesDiffer'
  BY <1>1, <1>3, <1>6 DEF IInv, OwnInv, CachesDiffer
<1>11. \A g \in Fibers : ctl_cache[g].addr \in Addrs \cup {NoAddr}
  BY Zenon DEF IInv, Types
<1>12. \A g \in Fibers : ctl_cache'[g].addr # NoAddr =>
         ctl_cache'[g].addr \in Addrs \ Returned(f, k, x)
  BY <1>0, <1>1, <1>3, <1>6, <1>11 DEF IInv, OwnInv, CachesDiffer
<1>13. CacheSized'
  BY <1>0, <1>1, <1>2, <1>6, <1>12 DEF IInv, OwnInv, CacheSized
<1> QED  BY <1>5, <1>8, <1>9, <1>10, <1>13, Zenon DEF OwnInv

(* Steps that hand out and give back no buffer. *)
LEMMA OwnKeeps ==
  ASSUME IInv, UNCHANGED <<ctl_cache, size>>,
         \A g \in Fibers, j, d \in Nat : Has(ctl_vars'[g], j, d) =>
           /\ Has(ctl_vars[g], j, d) /\ GenAt(ctl_vars'[g], j, d).addr = GenAt(ctl_vars[g], j, d).addr
           /\ GenAt(ctl_vars'[g], j, d).len = GenAt(ctl_vars[g], j, d).len
  PROVE  OwnInv'
<1>1. OneOwner'
  BY DEF IInv, OwnInv, OneOwner
<1>2. NotCached'
  BY DEF IInv, OwnInv, NotCached
<1>3. Sized'
  BY DEF IInv, OwnInv, Sized
<1>4. CachesDiffer' /\ CacheSized'
  BY Zenon DEF IInv, OwnInv, CachesDiffer, CacheSized
<1> QED  BY <1>1, <1>2, <1>3, <1>4, Zenon DEF OwnInv

-----------------------------------------------------------------------------
(* Every operation preserves the invariant. *)

(* The invariant holds at the start. *)
LEMMA InitInv == Init => IInv
<1> SUFFICES ASSUME Init PROVE IInv
  OBVIOUS
<1>1. Types
  <2>1. NoCache \in [key : Keys \cup {NoAddr}, addr : Addrs \cup {NoAddr}, len : Nat]
    BY Zenon DEF NoCache
  <2>2. (CHOOSE v \in Vals : TRUE) \in Vals
    BY CtlConstants, Zenon
  <2>3. <<>> \in Seq(Entry) /\ 0 \in Nat
    OBVIOUS
  <2> QED  BY <2>1, <2>2, <2>3, Zenon DEF Init, Types
<1>2. TableInv
  <2>1. GoodTable(<<>>)
    BY DEF GoodTable, OneEntry
  <2> QED  BY <2>1 DEF Init, TableInv
<1>3. \A f \in Fibers, i, d \in Nat : ~Has(ctl_vars[f], i, d)
  BY DEF Init, Has
<1>4. \A f \in Fibers : ctl_cache[f].addr = NoAddr
  BY Zenon DEF Init, NoCache
<1>5. OwnInv
  BY <1>3, <1>4, Zenon DEF OwnInv, OneOwner, NotCached, CachesDiffer, Sized, CacheSized
<1> QED  BY <1>1, <1>2, <1>5, Zenon DEF IInv

(* A CONDITION that ends the program keeps the invariant. *)
LEMMA StopInv ==
  ASSUME IInv, UNCHANGED <<ctl_vars, ctl_last, ctl_cache, size, bytes>>, ended' \in BOOLEAN
  PROVE  IInv'
<1>1. Types' /\ TableInv'
  BY Zenon DEF IInv, Types, TableInv
<1>2. OwnInv'
  BY OwnKeeps, Zenon
<1> QED  BY <1>1, <1>2, Zenon DEF IInv

(* An ALLOCATE from the heap keeps the invariant. *)
LEMMA MallocInv ==
  ASSUME IInv, NEW f \in Fibers, NEW k \in Keys, NEW n \in Lens,
         NEW dims \in Seq(Extents \cup {0}), Len(dims) <= MaxRank, Malloc(f, k, n, dims)
  PROVE  IInv'
<1>1. CASE Stop
  BY <1>1, StopInv, Zenon DEF Stop
<1>2. ASSUME NEW a \in Addrs \ live, Push(f, k, a, n, dims), size' = [size EXCEPT ![a] = n],
             UNCHANGED <<ctl_cache, bytes, ended>>
      PROVE  IInv'
  <2> DEFINE x == [addr |-> a, len |-> n, dims |-> dims]
  <2>0. Types /\ TableInv
    BY Zenon DEF IInv
  <2>1. /\ x \in Gen /\ ctl_vars' \in [Fibers -> Seq(Entry)] /\ ctl_last' \in [Fibers -> Nat] /\ TableInv'
    BY <1>2, <2>0, PushTypes, Zenon
  <2>2. size' \in [Addrs -> Lens \cup {0}]
    BY <1>2, <2>0, Zenon DEF Types
  <2>3. Types'
    BY <1>2, <2>0, <2>1, <2>2, Zenon DEF Types
  <2>4. PICK i, m \in Nat : Adds(f, i, m, x)
    BY <1>2, <2>0, PushAdds, Zenon
  <2>5. x.addr = a /\ x.len = n
    OBVIOUS
  <2> HIDE DEF x
  <2>6. OwnInv'
    BY <1>2, <2>1, <2>4, <2>5, OwnMalloc, Zenon
  <2> QED  BY <2>1, <2>3, <2>6, Zenon DEF IInv
<1> QED  BY <1>1, <1>2, Zenon DEF Malloc

(* pli_ctl_alloc keeps the invariant, from the heap and from the slot. *)
LEMMA AllocInv ==
  ASSUME IInv, NEW f \in Fibers, NEW k \in Keys, NEW n \in Lens, pli_ctl_alloc(f, k, n)
  PROVE  IInv'
<1>0. Types /\ TableInv /\ <<>> \in Seq(Extents \cup {0}) /\ Len(<<>>) <= MaxRank
  BY CtlConstants DEF IInv
<1>1. CASE Malloc(f, k, n, <<>>)
  BY <1>0, <1>1, MallocInv, Zenon
<1>2. CASE /\ CacheServes(f, k, n) /\ Push(f, k, ctl_cache[f].addr, n, <<>>)
           /\ ctl_cache' = [ctl_cache EXCEPT ![f] = TakeCache(f)] /\ UNCHANGED <<size, bytes, ended>>
  <2>0. PICK a : a = ctl_cache[f].addr
    BY Zenon
  <2> DEFINE x == [addr |-> a, len |-> n, dims |-> <<>>]
  <2>1. a # NoAddr /\ n = ctl_cache[f].len /\ a \in Addrs
    BY <1>0, <1>2, <2>0, Zenon DEF CacheServes, Types
  <2>2. x \in Gen /\ ctl_vars' \in [Fibers -> Seq(Entry)] /\ ctl_last' \in [Fibers -> Nat] /\ TableInv'
    BY <1>0, <1>2, <2>0, <2>1, PushTypes, Zenon
  <2>3. ctl_cache' \in [Fibers -> [key : Keys \cup {NoAddr}, addr : Addrs \cup {NoAddr}, len : Nat]]
    BY <1>0, <1>2, Zenon DEF Types, TakeCache
  <2>4. Types'
    BY <1>0, <1>2, <2>2, <2>3, Zenon DEF Types
  <2>5. PICK i, m \in Nat : Adds(f, i, m, x)
    BY <1>0, <1>2, <2>0, <2>1, PushAdds, Zenon
  <2>6. x.addr = ctl_cache[f].addr /\ x.len = n
    BY <2>0, Zenon
  <2> HIDE DEF x
  <2>7. OwnInv'
    BY <1>2, <2>0, <2>1, <2>2, <2>5, <2>6, OwnTake, Zenon
  <2> QED  BY <2>2, <2>4, <2>7, Zenon DEF IInv
<1> QED  BY <1>1, <1>2, Zenon DEF pli_ctl_alloc

Extended(d, axis, extent) ==
  [x \in 1 .. (IF axis > Len(d) THEN axis ELSE Len(d)) |->
     IF x = axis THEN extent ELSE IF x <= Len(d) THEN d[x] ELSE 0]

(* The list of extents after realloc. *)
LEMMA ExtendedFacts ==
  ASSUME NEW d \in Seq(Extents \cup {0}), Len(d) <= MaxRank, NEW axis \in 1 .. MaxRank, NEW e \in Extents
  PROVE  /\ Extended(d, axis, e) \in Seq(Extents \cup {0})
         /\ Len(Extended(d, axis, e)) <= MaxRank /\ Len(Extended(d, axis, e)) >= Len(d)
<1> DEFINE n == IF axis > Len(d) THEN axis ELSE Len(d)
           D == Extended(d, axis, e)
<1>1. n \in Nat /\ n <= MaxRank /\ n >= Len(d)
  BY CtlConstants
<1> HIDE DEF n
<1>2. D = [x \in 1 .. n |-> IF x = axis THEN e ELSE IF x <= Len(d) THEN d[x] ELSE 0]
  BY Zenon DEF Extended, n
<1>3. \A x \in 1 .. n : (IF x = axis THEN e ELSE IF x <= Len(d) THEN d[x] ELSE 0) \in Extents \cup {0}
  BY <1>1
<1>4. D \in Seq(Extents \cup {0}) /\ Len(D) = n
  BY <1>1, <1>2, <1>3
<1> QED  BY <1>1, <1>4, Zenon

(* What pli_ctl_set_dim does when there is a generation. *)
LEMMA SetDimFacts ==
  ASSUME Types, TableInv, NEW f \in Fibers, NEW k \in Keys, Depth(f, k) # 0,
         NEW axis \in 1 .. MaxRank, NEW e \in Extents, pli_ctl_set_dim(f, k, axis, e)
  PROVE  \E i \in 1 .. Len(ctl_vars[f]), G \in Seq(Gen), x \in Gen :
           /\ i = Place(ctl_vars[f], k) /\ ctl_vars[f][i].key = k /\ ctl_vars[f][i].gens = G /\ Len(G) \in 1 .. Len(G)
           /\ x = [G[Len(G)] EXCEPT !.dims = x.dims] /\ x.addr = G[Len(G)].addr /\ x.len = G[Len(G)].len
           /\ Len(x.dims) <= MaxRank /\ Len(x.dims) >= Len(G[Len(G)].dims)
           /\ Regen(f, i, Put(G, Len(G), x)) /\ Points(f, Remembered(f, k))
<1>0. PICK i : i = ctlFind(f, k)
  BY Zenon
<1>1. PICK G : G = ctl_vars[f][i].gens
  BY Zenon
<1>2. /\ i = Place(ctl_vars[f], k) /\ i \in 1 .. Len(ctl_vars[f]) /\ ctl_vars[f][i].key = k
      /\ G \in Seq(Gen) /\ Depth(f, k) = Len(G) /\ Len(G) \in 1 .. Len(G)
      /\ Top(f, k) = G[Len(G)] /\ Top(f, k) \in Gen
  BY <1>0, <1>1, TopFacts DEF GenAt
<1>3. PICK g \in Gen : g = Top(f, k)
  BY <1>2, Zenon
<1>4. g.dims \in Seq(Extents \cup {0}) /\ Len(g.dims) <= MaxRank
  <2>1. Roomy(ctl_vars[f][i])
    BY <1>2, Zenon DEF TableInv, GoodTable
  <2>2. Len(G[Len(G)].dims) <= MaxRank
    BY <1>1, <1>2, <2>1, Zenon DEF Roomy
  <2> QED  BY <1>2, <1>3, <2>2, Zenon DEF Gen
<1>5. PICK D : D = Extended(g.dims, axis, e)
  BY Zenon
<1>6. D \in Seq(Extents \cup {0}) /\ Len(D) <= MaxRank /\ Len(D) >= Len(g.dims)
  BY <1>4, <1>5, ExtendedFacts, Zenon
<1>7. PICK x : x = [g EXCEPT !.dims = D]
  BY Zenon
<1>8. x \in Gen /\ x.addr = g.addr /\ x.len = g.len /\ x.dims = D /\ x = [g EXCEPT !.dims = x.dims]
  BY <1>6, <1>7, Zenon DEF Gen
<1>9. Points(f, Remembered(f, k))
  BY Zenon DEF pli_ctl_set_dim, Points
<1>10. ctl_vars' = [ctl_vars EXCEPT ![f][i].gens[Depth(f, k)].dims = D]
  BY <1>0, <1>3, <1>5, Zenon DEF pli_ctl_set_dim, Extended
<1>11. Regen(f, i, [G EXCEPT ![Depth(f, k)] = [Top(f, k) EXCEPT !.dims = D]])
  BY <1>0, <1>1, <1>10, SetDimIsRegen, Zenon
<1>12. Regen(f, i, Put(G, Len(G), x))
  BY <1>2, <1>3, <1>7, <1>11, Zenon DEF Put
<1> QED  BY <1>1, <1>2, <1>3, <1>6, <1>8, <1>9, <1>12, Zenon

(* pli_ctl_set_dim keeps the invariant. *)
LEMMA SetDimInv ==
  ASSUME IInv, NEW f \in Fibers, NEW k \in Keys, NEW axis \in 1 .. MaxRank, NEW e \in Extents,
         pli_ctl_set_dim(f, k, axis, e)
  PROVE  IInv'
<1>0. Types /\ TableInv /\ Remembered(f, k) \in Nat /\ Remembered(f, k) <= Len(ctl_vars[f])
  BY RememberedFacts, Zenon DEF IInv
<1>1. /\ ctl_vars' \in [Fibers -> Seq(Entry)] /\ ctl_last' \in [Fibers -> Nat] /\ TableInv'
      /\ \A g \in Fibers, j, d \in Nat : Has(ctl_vars'[g], j, d) =>
           /\ Has(ctl_vars[g], j, d) /\ GenAt(ctl_vars'[g], j, d).addr = GenAt(ctl_vars[g], j, d).addr
           /\ GenAt(ctl_vars'[g], j, d).len = GenAt(ctl_vars[g], j, d).len
  <2>1. CASE Depth(f, k) = 0
    <3>1. ctl_vars' = ctl_vars /\ ctl_last' = [ctl_last EXCEPT ![f] = Remembered(f, k)]
      BY <2>1, Zenon DEF pli_ctl_set_dim
    <3>2. /\ ctl_last' \in [Fibers -> Nat]
          /\ \A g \in Fibers : ctl_last'[g] <= Len(ctl_vars[g])
      BY <1>0, <3>1, Zenon DEF Types, TableInv
    <3> QED  BY <1>0, <3>1, <3>2, Zenon DEF Types, TableInv
  <2>2. CASE Depth(f, k) # 0
    <3>1. PICK i \in 1 .. Len(ctl_vars[f]), G \in Seq(Gen), x \in Gen :
            /\ ctl_vars[f][i].gens = G /\ Len(G) \in 1 .. Len(G)
            /\ x.addr = G[Len(G)].addr /\ x.len = G[Len(G)].len
            /\ Len(x.dims) <= MaxRank
            /\ Regen(f, i, Put(G, Len(G), x)) /\ Points(f, Remembered(f, k))
      BY <1>0, <2>2, SetDimFacts, Zenon
    <3> QED  BY <1>0, <3>1, SetDimKeeps, Zenon DEF Keeps
  <2> QED  BY <2>1, <2>2, Zenon
<1>2. UNCHANGED <<ctl_cache, size, bytes, ended>>
  BY Zenon DEF pli_ctl_set_dim
<1>3. Types'
  BY <1>0, <1>1, <1>2, Zenon DEF Types
<1>4. OwnInv'
  BY <1>1, <1>2, OwnKeeps, Zenon
<1> QED  BY <1>1, <1>3, <1>4, Zenon DEF IInv

(* What pli_ctl_free_addr does when there is a generation. *)
LEMMA FreeFacts ==
  ASSUME Types, TableInv, NEW f \in Fibers, NEW k \in Keys, Depth(f, k) # 0,
         ctl_vars' = [ctl_vars EXCEPT ![f][ctlFind(f, k)].gens = SubSeq(@, 1, Len(@) - 1)],
         ctl_last' = [ctl_last EXCEPT ![f] = ctlFind(f, k)]
  PROVE  \E i, m \in Nat :
           /\ i = Place(ctl_vars[f], k) /\ i \in 1 .. Len(ctl_vars[f]) /\ m = Depth(f, k)
           /\ m = Len(ctl_vars[f][i].gens)
           /\ Becomes(f, i, SubSeq(ctl_vars[f][i].gens, 1, m - 1))
           /\ Top(f, k) = GenAt(ctl_vars[f], i, m)
           /\ ctl_vars' \in [Fibers -> Seq(Entry)] /\ ctl_last' \in [Fibers -> Nat] /\ TableInv'
           /\ Removes(f, i, m)
<1>0. PICK i : i = ctlFind(f, k)
  BY Zenon
<1>1. PICK G : G = ctl_vars[f][i].gens
  BY Zenon
<1>2. /\ i = Place(ctl_vars[f], k) /\ i \in 1 .. Len(ctl_vars[f]) /\ i \in Nat /\ Depth(f, k) \in Nat
      /\ Depth(f, k) = Len(G) /\ Top(f, k) = GenAt(ctl_vars[f], i, Depth(f, k))
  BY <1>0, <1>1, TopFacts
<1>3. Regen(f, i, SubSeq(G, 1, Len(G) - 1))
  BY <1>0, <1>1, FreeIsRegen, Zenon
<1>4. Points(f, i)
  BY <1>0, Zenon DEF Points
<1>5. /\ ctl_vars' \in [Fibers -> Seq(Entry)] /\ ctl_last' \in [Fibers -> Nat] /\ TableInv'
      /\ Removes(f, i, Depth(f, k)) /\ Becomes(f, i, SubSeq(G, 1, Len(G) - 1))
  BY <1>0, <1>1, <1>3, <1>4, FreeRemoves, Zenon
<1> QED  BY <1>1, <1>2, <1>5, Zenon

(* pli_ctl_free_addr keeps the invariant. *)
LEMMA FreeInv ==
  ASSUME IInv, NEW f \in Fibers, NEW k \in Keys, pli_ctl_free_addr(f, k)
  PROVE  IInv'
<1>0. Types /\ TableInv
  BY Zenon DEF IInv
<1>1. CASE Stop
  BY <1>1, StopInv, Zenon DEF Stop
<1>2. CASE /\ Depth(f, k) > 0
           /\ ctl_vars' = [ctl_vars EXCEPT ![f][ctlFind(f, k)].gens = SubSeq(@, 1, Len(@) - 1)]
           /\ ctl_last' = [ctl_last EXCEPT ![f] = ctlFind(f, k)]
           /\ ctl_cache' = [ctl_cache EXCEPT ![f] = Stash(f, k, Top(f, k))]
           /\ size' = [a \in Addrs |-> IF a \in Returned(f, k, Top(f, k)) THEN 0 ELSE size[a]]
           /\ UNCHANGED <<bytes, ended>>
  <2>1. Depth(f, k) # 0
    BY <1>2
  <2>2. PICK i, m \in Nat :
          /\ Top(f, k) = GenAt(ctl_vars[f], i, m)
          /\ ctl_vars' \in [Fibers -> Seq(Entry)] /\ ctl_last' \in [Fibers -> Nat] /\ TableInv'
          /\ Removes(f, i, m)
    BY <1>0, <1>2, <2>1, FreeFacts, Zenon
  <2>3. PICK x : x = Top(f, k)
    BY Zenon
  <2>4. x \in Gen
    BY <1>0, <2>2, <2>3, GensTyped, Zenon DEF Removes
  <2>5. ctl_cache' \in [Fibers -> [key : Keys \cup {NoAddr}, addr : Addrs \cup {NoAddr}, len : Nat]]
    <3>1. Stash(f, k, x) \in [key : Keys \cup {NoAddr}, addr : Addrs \cup {NoAddr}, len : Nat]
      BY <1>0, <2>4, CtlConstants, Zenon DEF Stash, StashAny, Types, Gen
    <3> QED  BY <1>0, <1>2, <2>3, <3>1, Zenon DEF Types
  <2>6. size' \in [Addrs -> Lens \cup {0}]
    BY <1>0, <1>2, Zenon DEF Types
  <2>7. Types'
    BY <1>0, <1>2, <2>2, <2>5, <2>6, Zenon DEF Types
  <2>8. OwnInv'
    <3>1. GivesUp(f, k, x)
      BY <1>2, <2>3, Zenon DEF GivesUp
    <3> QED  BY <2>2, <2>3, <3>1, OwnFree, Zenon
  <2> QED  BY <2>2, <2>7, <2>8, Zenon DEF IInv
<1> QED  BY <1>1, <1>2, Zenon DEF pli_ctl_free_addr

(* Lookups, and stores through them. *)
LEMMA LookupInv ==
  ASSUME IInv, NEW f \in Fibers, NEW k \in Keys, bytes' \in [Addrs -> Vals],
         ctl_last' = [ctl_last EXCEPT ![f] = Remembered(f, k)],
         UNCHANGED <<ctl_vars, ctl_cache, size, ended>>
  PROVE  IInv'
<1>0. Types /\ TableInv
  BY Zenon DEF IInv
<1>1. /\ ctl_last' \in [Fibers -> Nat] /\ \A g \in Fibers : ctl_last'[g] <= Len(ctl_vars[g])
  BY <1>0, RememberedFacts, Zenon DEF Types, TableInv
<1>2. Types' /\ TableInv'
  BY <1>0, <1>1, Zenon DEF Types, TableInv
<1>3. OwnInv'
  BY OwnKeeps, Zenon
<1> QED  BY <1>2, <1>3, Zenon DEF IInv

(* A new task on a recycled fiber. *)
LEMMA PrepareInv ==
  ASSUME IInv, NEW f \in Fibers, rt_fiber_prepare(f)
  PROVE  IInv'
<1>0. Types /\ TableInv
  BY Zenon DEF IInv
<1>1. GoodTable(<<>>) /\ 0 <= Len(<<>>)
  BY DEF GoodTable, OneEntry
<1>2. /\ ctl_last' \in [Fibers -> Nat] /\ ctl_last'[f] <= Len(<<>>)
      /\ \A g \in Fibers : g # f => ctl_last'[g] = ctl_last[g]
  BY <1>0, <1>1, Zenon DEF rt_fiber_prepare, Types
<1>3. /\ ctl_vars' \in [Fibers -> Seq(Entry)] /\ TableInv'
      /\ ctl_vars'[f] = <<>> /\ \A g \in Fibers : g # f => ctl_vars'[g] = ctl_vars[g]
  BY <1>0, <1>1, <1>2, TableChange, Zenon DEF rt_fiber_prepare
<1>4. Types'
  BY <1>0, <1>2, <1>3, Zenon DEF Types, rt_fiber_prepare
<1>5. \A j, d \in Nat : ~Has(<<>>, j, d)
  BY DEF Has
<1>6. OwnInv'
  BY <1>3, <1>5, OwnKeeps, Zenon DEF rt_fiber_prepare
<1> QED  BY <1>3, <1>4, <1>6, Zenon DEF IInv

(* So does every operation on a variable. *)
LEMMA OperateInv ==
  ASSUME IInv, NEW f \in Fibers, NEW k \in Keys, Operate(f, k)
  PROVE  IInv'
<1>1. ASSUME NEW n \in Lens, pli_ctl_alloc(f, k, n)  PROVE IInv'
  BY <1>1, AllocInv, Zenon
<1>2. ASSUME NEW n \in Lens, NEW r \in 0 .. MaxRank, pli_ctl_alloc_dims(f, k, n, r)  PROVE IInv'
  <2>1. [x \in 1 .. r |-> 0] \in Seq(Extents \cup {0}) /\ Len([x \in 1 .. r |-> 0]) <= MaxRank
    BY CtlConstants
  <2> QED  BY <1>2, <2>1, MallocInv, Zenon DEF pli_ctl_alloc_dims
<1>3. ASSUME NEW x \in 1 .. MaxRank, NEW e \in Extents, pli_ctl_set_dim(f, k, x, e)  PROVE IInv'
  BY <1>3, SetDimInv, Zenon
<1>4. CASE Query(f, k)
  BY <1>4, LookupInv, Zenon DEF Query, IInv, Types
<1>5. ASSUME NEW v \in Vals, Store(f, k, v)  PROVE IInv'
  <2>1. bytes' \in [Addrs -> Vals]
    BY <1>5, Zenon DEF Store, IInv, Types
  <2> QED  BY <1>5, <2>1, LookupInv, Zenon DEF Store
<1> QED  BY <1>1, <1>2, <1>3, <1>4, <1>5, FreeInv, Zenon DEF Operate, pli_ctl_ensure

(* So does every step. *)
LEMMA NextInv == IInv /\ [Next]_vars => IInv'
<1> SUFFICES ASSUME IInv, [Next]_vars PROVE IInv'
  OBVIOUS
<1>1. CASE UNCHANGED vars
  BY <1>1, StopInv, Zenon DEF vars, IInv, Types
<1>2. CASE Next
  BY <1>2, PrepareInv, OperateInv, Zenon DEF Next
<1> QED  BY <1>1, <1>2, Zenon

(* In every state there is one entry per variable in a task's table, and a  *)
(* buffer that pli_ctl_alloc, pli_ctl_alloc_dims or pli_ctl_ensure got is  *)
(* one generation's or one slot's, with the size it was allocated with.    *)
THEOREM StorageKeepsInv == Spec => []IInv
BY InitInv, NextInv, PTL DEF Spec

-----------------------------------------------------------------------------
(* What the invariant says. *)

(* The slots are the generations there are. *)
LEMMA SlotsAre ==
  ASSUME Types, TableInv
  PROVE  /\ \A s \in Slots : \E f \in Fibers, i, d \in Nat : s = <<f, i, d>> /\ Has(ctl_vars[f], i, d)
         /\ \A f \in Fibers, i, d \in Nat : Has(ctl_vars[f], i, d) => <<f, i, d>> \in Slots
<1> DEFINE In(f, i) == {<<f, i, d>> : d \in DOMAIN ctl_vars[f][i].gens}
<1>1. \A s : s \in Slots <=> \E f \in Fibers : \E i \in DOMAIN ctl_vars[f] : s \in In(f, i)
  BY DEF Slots
<1>2. \A f \in Fibers : DOMAIN ctl_vars[f] = 1 .. Len(ctl_vars[f]) /\ Len(ctl_vars[f]) \in Nat
  BY TypesFacts
<1>3. \A f \in Fibers : \A i \in 1 .. Len(ctl_vars[f]) :
        DOMAIN ctl_vars[f][i].gens = 1 .. Len(ctl_vars[f][i].gens) /\ Len(ctl_vars[f][i].gens) \in Nat
  BY TypesFacts
<1>4. \A f, i, s : s \in In(f, i) <=> \E d \in DOMAIN ctl_vars[f][i].gens : s = <<f, i, d>>
  BY Zenon
<1> HIDE DEF In
<1>5. \A f \in Fibers : /\ \A i \in 1 .. Len(ctl_vars[f]) : i \in Nat
                        /\ \A i \in 1 .. Len(ctl_vars[f]) : \A d \in 1 .. Len(ctl_vars[f][i].gens) : d \in Nat
  BY <1>2, <1>3
<1>6. \A s \in Slots : \E f \in Fibers, i, d \in Nat : s = <<f, i, d>> /\ Has(ctl_vars[f], i, d)
  <2> SUFFICES ASSUME NEW s \in Slots
               PROVE  \E f \in Fibers, i, d \in Nat : s = <<f, i, d>> /\ Has(ctl_vars[f], i, d)
    OBVIOUS
  <2>1. PICK f \in Fibers : \E i \in DOMAIN ctl_vars[f] : s \in In(f, i)
    BY <1>1, Zenon
  <2>2. PICK i \in DOMAIN ctl_vars[f] : s \in In(f, i)
    BY <2>1, Zenon
  <2>3. PICK d \in DOMAIN ctl_vars[f][i].gens : s = <<f, i, d>>
    BY <1>4, <2>2, Zenon
  <2>4. Has(ctl_vars[f], i, d) /\ i \in Nat /\ d \in Nat
    BY <1>2, <1>3, <1>5, Zenon DEF Has
  <2> QED  BY <2>3, <2>4, Zenon
<1>7. \A f \in Fibers, i, d \in Nat : Has(ctl_vars[f], i, d) => <<f, i, d>> \in Slots
  BY <1>1, <1>2, <1>3, <1>4, ZenonT(60) DEF Has
<1> QED  BY <1>6, <1>7, Zenon

(* The buffer of a slot. *)
LEMMA BufferIs ==
  ASSUME NEW f, NEW i, NEW d, NEW s, s = <<f, i, d>>
  PROVE  Buffer(s) = GenAt(ctl_vars[f], i, d).addr /\ s[1] = f /\ s[2] = i /\ s[3] = d
BY Zenon DEF Buffer, GenAt

(* The buffers in use are those of the generations. *)
LEMMA InUseAre ==
  ASSUME Types, TableInv
  PROVE  \A a : a \in InUse <=>
           \E f \in Fibers, i, d \in Nat : Has(ctl_vars[f], i, d) /\ GenAt(ctl_vars[f], i, d).addr = a
<1>1. \A a : a \in InUse <=> \E s \in Slots : a = Buffer(s)
  BY Zenon DEF InUse
<1>2. ASSUME NEW a, a \in InUse
      PROVE  \E f \in Fibers, i, d \in Nat : Has(ctl_vars[f], i, d) /\ GenAt(ctl_vars[f], i, d).addr = a
  <2>1. PICK s \in Slots : a = Buffer(s)
    BY <1>1, <1>2, Zenon
  <2>2. PICK f \in Fibers, i, d \in Nat : s = <<f, i, d>> /\ Has(ctl_vars[f], i, d)
    BY SlotsAre, Zenon
  <2>3. Buffer(s) = GenAt(ctl_vars[f], i, d).addr
    BY <2>2, BufferIs
  <2> QED  BY <2>1, <2>2, <2>3, Zenon
<1>3. ASSUME NEW f \in Fibers, NEW i \in Nat, NEW d \in Nat, Has(ctl_vars[f], i, d)
      PROVE  GenAt(ctl_vars[f], i, d).addr \in InUse
  <2>1. PICK s : s = <<f, i, d>>
    BY Zenon
  <2>2. s \in Slots /\ Buffer(s) = GenAt(ctl_vars[f], i, d).addr
    BY <1>3, <2>1, SlotsAre, BufferIs
  <2> QED  BY <1>1, <2>2, Zenon
<1> QED  BY <1>2, <1>3

(* The cached buffers are those of the tasks' slots. *)
LEMMA CachedAre ==
  Types => \A a : a \in Cached <=> a \in Addrs /\ \E f \in Fibers : ctl_cache[f].addr = a
BY Zenon DEF Cached

(* The invariant gives the types. *)
LEMMA InvTypeOK == IInv => TypeOK
<1> SUFFICES ASSUME IInv PROVE TypeOK
  OBVIOUS
<1>0. Types /\ TableInv
  BY Zenon DEF IInv
<1>1. ASSUME NEW f \in Fibers, NEW i \in DOMAIN ctl_vars[f]
      PROVE  LET v == ctl_vars[f][i] IN
               /\ v.key \in Keys /\ v.cap \in Nat /\ Len(v.gens) <= v.cap
               /\ \A d \in DOMAIN v.gens :
                    /\ v.gens[d].addr \in Addrs /\ v.gens[d].len \in Lens
                    /\ v.gens[d].dims \in Seq(Extents \cup {0}) /\ Len(v.gens[d].dims) <= MaxRank
  <2>1. i \in 1 .. Len(ctl_vars[f])
    BY <1>0, <1>1, TypesFacts
  <2>2. PICK v \in Entry : v = ctl_vars[f][i]
    BY <1>0, <2>1, TypesFacts, Zenon
  <2>3. v.key \in Keys /\ v.cap \in Nat /\ v.gens \in Seq(Gen)
    BY Zenon DEF Entry
  <2>4. Roomy(v)
    BY <1>0, <2>1, <2>2, Zenon DEF TableInv, GoodTable
  <2>5. \A d \in DOMAIN v.gens : v.gens[d] \in Gen /\ d \in 1 .. Len(v.gens)
    BY <2>3
  <2>6. \A g \in Gen : g.addr \in Addrs /\ g.len \in Lens /\ g.dims \in Seq(Extents \cup {0})
    BY Zenon DEF Gen
  <2> QED  BY <2>2, <2>3, <2>4, <2>5, <2>6, Zenon DEF Roomy
<1>2. ASSUME NEW f \in Fibers
      PROVE  ctl_last[f] \in 0 .. Len(ctl_vars[f]) /\ ctl_cache[f].addr \in Addrs \cup {NoAddr}
  BY <1>0, TypesFacts DEF Types, TableInv
<1> QED  BY <1>0, <1>1, <1>2, Zenon DEF TypeOK, Types

(* The invariant gives that no two generations share a buffer. *)
LEMMA InvNoAlias == IInv => NoAlias /\ BufferFits
<1> SUFFICES ASSUME IInv PROVE NoAlias /\ BufferFits
  OBVIOUS
<1>0. Types /\ TableInv
  BY Zenon DEF IInv
<1>1. \A s, t \in Slots : Buffer(s) = Buffer(t) => s = t
  <2> SUFFICES ASSUME NEW s \in Slots, NEW t \in Slots, Buffer(s) = Buffer(t)  PROVE s = t
    OBVIOUS
  <2>1. PICK f \in Fibers, i, d \in Nat : s = <<f, i, d>> /\ Has(ctl_vars[f], i, d)
    BY <1>0, SlotsAre, Zenon
  <2>2. PICK g \in Fibers, j, e \in Nat : t = <<g, j, e>> /\ Has(ctl_vars[g], j, e)
    BY <1>0, SlotsAre, Zenon
  <2>3. GenAt(ctl_vars[f], i, d).addr = GenAt(ctl_vars[g], j, e).addr
    BY <2>1, <2>2, BufferIs
  <2>4. f = g /\ i = j /\ d = e
    BY <2>1, <2>2, <2>3, ZenonT(60) DEF IInv, OwnInv, OneOwner
  <2> QED  BY <2>1, <2>2, <2>4, Zenon
<1>2. InUse \cap Cached = {}
  <2> SUFFICES ASSUME NEW a, a \in InUse, a \in Cached  PROVE FALSE
    BY Zenon
  <2>1. PICK f \in Fibers, i, d \in Nat : Has(ctl_vars[f], i, d) /\ GenAt(ctl_vars[f], i, d).addr = a
    BY <1>0, InUseAre, Zenon
  <2>2. PICK g \in Fibers : ctl_cache[g].addr = a
    BY <1>0, CachedAre, Zenon
  <2> QED  BY <2>1, <2>2, Zenon DEF IInv, OwnInv, NotCached
<1>3. \A s \in Slots : size[Buffer(s)] = ctl_vars[s[1]][s[2]].gens[s[3]].len
  <2> SUFFICES ASSUME NEW s \in Slots  PROVE size[Buffer(s)] = ctl_vars[s[1]][s[2]].gens[s[3]].len
    OBVIOUS
  <2>1. PICK f \in Fibers, i, d \in Nat : s = <<f, i, d>> /\ Has(ctl_vars[f], i, d)
    BY <1>0, SlotsAre, Zenon
  <2>2. size[GenAt(ctl_vars[f], i, d).addr] = GenAt(ctl_vars[f], i, d).len
    BY <2>1, Zenon DEF IInv, OwnInv, Sized
  <2>3. s[1] = f /\ s[2] = i /\ s[3] = d /\ Buffer(s) = GenAt(ctl_vars[f], i, d).addr
    BY <2>1, BufferIs
  <2> QED  BY <2>2, <2>3, Zenon DEF GenAt
<1>4. 0 \notin Lens /\ NoAddr \notin Addrs
  BY CtlConstants, Zenon
<1>5. \A a \in InUse : a \in Addrs /\ size[a] # 0
  <2> SUFFICES ASSUME NEW a \in InUse  PROVE a \in Addrs /\ size[a] # 0
    OBVIOUS
  <2>1. PICK f \in Fibers, i, d \in Nat : Has(ctl_vars[f], i, d) /\ GenAt(ctl_vars[f], i, d).addr = a
    BY <1>0, InUseAre, Zenon
  <2>2. a \in Addrs /\ GenAt(ctl_vars[f], i, d).len \in Lens
    BY <1>0, <2>1, GensTyped, Zenon
  <2>3. size[a] = GenAt(ctl_vars[f], i, d).len
    BY <2>1, Zenon DEF IInv, OwnInv, Sized
  <2> QED  BY <1>4, <2>2, <2>3, Zenon
<1>6. \A a \in Cached : a \in Addrs /\ size[a] # 0
  <2> SUFFICES ASSUME NEW a \in Cached  PROVE a \in Addrs /\ size[a] # 0
    OBVIOUS
  <2>1. PICK f \in Fibers : ctl_cache[f].addr = a /\ a \in Addrs
    BY <1>0, CachedAre, Zenon
  <2>2. ctl_cache[f].len \in Lens /\ size[a] = ctl_cache[f].len
    BY <1>4, <2>1, Zenon DEF IInv, OwnInv, CacheSized
  <2> QED  BY <1>4, <2>1, <2>2, Zenon
<1>7. InUse \cup Cached \subseteq live
  BY <1>5, <1>6, Zenon DEF live
<1> QED  BY <1>1, <1>2, <1>3, <1>7, Zenon DEF NoAlias, BufferFits, IInv, OwnInv, CachesDiffer

INSTANCE FiniteSetTheorems

(* The invariant gives that the shortcut and the scan agree. *)
LEMMA InvLookup == IInv => LookupExact
<1> SUFFICES ASSUME IInv, NEW f \in Fibers, NEW k \in Keys
             PROVE  /\ Cardinality({i \in DOMAIN ctl_vars[f] : ctl_vars[f][i].key = k}) <= 1
                    /\ IF ctlFind(f, k) = 0
                       THEN \A i \in DOMAIN ctl_vars[f] : ctl_vars[f][i].key # k
                       ELSE ctl_vars[f][ctlFind(f, k)].key = k
  BY Zenon DEF LookupExact
<1> DEFINE t == ctl_vars[f]  hits == {i \in DOMAIN t : t[i].key = k}
<1>0. Types /\ TableInv
  BY Zenon DEF IInv
<1>1. GoodTable(t) /\ DOMAIN t = 1 .. Len(t) /\ ctlFind(f, k) = Place(t, k)
  BY <1>0, TypesFacts, FindFacts
<1>2. hits = {} \/ hits = {Place(t, k)}
  BY <1>1, PlaceFacts
<1>3. Cardinality(hits) <= 1
  <2>1. Cardinality({}) = 0 /\ Cardinality({Place(t, k)}) = 1
    BY FS_EmptySet, FS_Singleton, Zenon
  <2> HIDE DEF hits
  <2> QED  BY <1>2, <2>1
<1> QED  BY <1>1, <1>3, PlaceFacts

(* For any number of tasks, variables and buffers: no two generations of   *)
(* any variables in any tasks share a buffer, "the cache never aliases a   *)
(* live generation", a buffer from the slot is as long as its generation,  *)
(* and ctl_find's shortcut finds the one entry its scan would.             *)
THEOREM StorageIsSound == Spec => []StorageSound
<1>1. IInv => StorageSound
  BY InvTypeOK, InvLookup, InvNoAlias, Zenon DEF StorageSound
<1> QED  BY <1>1, StorageKeepsInv, PTL

-----------------------------------------------------------------------------
(* No operation loses a buffer. *)

(* Owned buffers are those in use or cached. *)
LEMMA OwnedIs ==
  Types /\ TableInv => \A a \in Addrs : (a \in InUse \/ a \in Cached) <=> Owned(a)
BY InUseAre, CachedAre, Zenon DEF Owned

(* The same after a step. *)
LEMMA OwnedIsNext ==
  (Types /\ TableInv => \A a \in Addrs : (a \in InUse \/ a \in Cached) <=> Owned(a))'
BY OwnedIs, PTL

NoneLost == \A a \in Addrs : size'[a] # 0 => Owned(a)' \/ (~Owned(a) /\ size[a] # 0)

(* A step that changes neither tables, slots nor heap loses nothing. *)
LEMMA SameLost ==
  ASSUME UNCHANGED <<ctl_vars, ctl_cache, size>>
  PROVE  NoneLost
BY Zenon DEF NoneLost, Owned

(* A buffer keeps its owner when a generation is added elsewhere. *)
LEMMA OwnedStays ==
  ASSUME NEW f, NEW i, NEW m, NEW x, Adds(f, i, m, x), NEW b, Owned(b),
         \A g \in Fibers : ctl_cache[g].addr = b => ctl_cache'[g].addr = b
  PROVE  Owned(b)'
<1>1. CASE \E g \in Fibers : ctl_cache[g].addr = b
  BY <1>1, Zenon DEF Owned
<1>2. CASE \E g \in Fibers, j, d \in Nat : Has(ctl_vars[g], j, d) /\ GenAt(ctl_vars[g], j, d).addr = b
  <2>1. PICK g \in Fibers, j \in Nat, d \in Nat :
          Has(ctl_vars[g], j, d) /\ GenAt(ctl_vars[g], j, d).addr = b
    BY <1>2, Zenon
  <2>2. Has(ctl_vars'[g], j, d) /\ GenAt(ctl_vars'[g], j, d) = GenAt(ctl_vars[g], j, d)
    BY <2>1, Zenon DEF Adds
  <2>3. GenAt(ctl_vars'[g], j, d).addr = b
    BY <2>1, <2>2, Zenon
  <2> QED  BY <2>1, <2>2, <2>3, Zenon DEF Owned
<1> QED  BY <1>1, <1>2, Zenon DEF Owned

(* An ALLOCATE from the heap loses nothing. *)
LEMMA MallocLoses ==
  ASSUME IInv, NEW f \in Fibers, NEW k \in Keys, NEW n \in Lens,
         NEW dims \in Seq(Extents \cup {0}), Len(dims) <= MaxRank, Malloc(f, k, n, dims)
  PROVE  NoneLost
<1>1. CASE Stop
  BY <1>1, SameLost, Zenon DEF Stop
<1>2. ASSUME NEW a \in Addrs \ live, Push(f, k, a, n, dims), size' = [size EXCEPT ![a] = n],
             UNCHANGED <<ctl_cache, bytes, ended>>
      PROVE  NoneLost
  <2>1. PICK i, m \in Nat : Adds(f, i, m, [addr |-> a, len |-> n, dims |-> dims])
    BY <1>2, PushAdds, Zenon DEF IInv
  <2>2. PICK x : x = [addr |-> a, len |-> n, dims |-> dims]
    BY Zenon
  <2>3. x.addr = a /\ Adds(f, i, m, x)
    BY <2>1, <2>2, Zenon
  <2>4. Owned(a)'
    BY <2>3, Zenon DEF Owned, Adds, GenAt
  <2>5. \A b \in Addrs : Owned(b) => Owned(b)'
    BY <1>2, <2>3, OwnedStays, Zenon
  <2>6. \A b \in Addrs : b # a => size'[b] = size[b]
    BY <1>2, Zenon DEF IInv, Types
  <2> QED  BY <2>4, <2>5, <2>6, Zenon DEF NoneLost
<1> QED  BY <1>1, <1>2, Zenon DEF Malloc

(* pli_ctl_alloc loses nothing: the slot's buffer becomes a generation's. *)
LEMMA AllocLoses ==
  ASSUME IInv, NEW f \in Fibers, NEW k \in Keys, NEW n \in Lens, pli_ctl_alloc(f, k, n)
  PROVE  NoneLost
<1>0. Types /\ TableInv /\ <<>> \in Seq(Extents \cup {0}) /\ Len(<<>>) <= MaxRank
  BY CtlConstants DEF IInv
<1>1. CASE Malloc(f, k, n, <<>>)
  BY <1>0, <1>1, MallocLoses, Zenon
<1>2. CASE /\ CacheServes(f, k, n) /\ Push(f, k, ctl_cache[f].addr, n, <<>>)
           /\ ctl_cache' = [ctl_cache EXCEPT ![f] = TakeCache(f)] /\ UNCHANGED <<size, bytes, ended>>
  <2>0. PICK a : a = ctl_cache[f].addr
    BY Zenon
  <2>1. a \in Addrs
    BY <1>0, <1>2, <2>0, Zenon DEF CacheServes, Types
  <2>2. PICK i, m \in Nat : Adds(f, i, m, [addr |-> a, len |-> n, dims |-> <<>>])
    BY <1>0, <1>2, <2>0, <2>1, PushAdds, Zenon
  <2>3. PICK x : x = [addr |-> a, len |-> n, dims |-> <<>>]
    BY Zenon
  <2>4. x.addr = a /\ Adds(f, i, m, x)
    BY <2>2, <2>3, Zenon
  <2>5. Owned(a)'
    BY <2>4, Zenon DEF Owned, Adds, GenAt
  <2>6. \A g \in Fibers : g # f => ctl_cache'[g] = ctl_cache[g]
    BY <1>0, <1>2, Zenon DEF Types
  <2>7. \A b \in Addrs : b # a /\ Owned(b) => Owned(b)'
    <3>1. \A b \in Addrs, g \in Fibers : b # a /\ ctl_cache[g].addr = b => ctl_cache'[g].addr = b
      BY <2>0, <2>6, Zenon
    <3> QED  BY <2>4, <3>1, OwnedStays, Zenon
  <2> QED  BY <1>2, <2>5, <2>7, Zenon DEF NoneLost
<1> QED  BY <1>1, <1>2, Zenon DEF pli_ctl_alloc

(* pli_ctl_set_dim loses nothing. *)
LEMMA SetDimLoses ==
  ASSUME IInv, NEW f \in Fibers, NEW k \in Keys, NEW axis \in 1 .. MaxRank, NEW e \in Extents,
         pli_ctl_set_dim(f, k, axis, e)
  PROVE  NoneLost
<1>0. Types /\ TableInv /\ Remembered(f, k) \in Nat /\ Remembered(f, k) <= Len(ctl_vars[f])
  BY RememberedFacts, Zenon DEF IInv
<1>1. UNCHANGED <<ctl_cache, size>>
  BY Zenon DEF pli_ctl_set_dim
<1>2. CASE Depth(f, k) = 0
  <2>1. ctl_vars' = ctl_vars
    BY <1>2, Zenon DEF pli_ctl_set_dim
  <2> QED  BY <1>1, <2>1, SameLost, Zenon
<1>3. CASE Depth(f, k) # 0
  <2>1. PICK i \in 1 .. Len(ctl_vars[f]), G \in Seq(Gen), x \in Gen :
          /\ ctl_vars[f][i].gens = G /\ Len(G) \in 1 .. Len(G)
          /\ x.addr = G[Len(G)].addr /\ x.len = G[Len(G)].len
          /\ Len(x.dims) <= MaxRank
          /\ Regen(f, i, Put(G, Len(G), x)) /\ Points(f, Remembered(f, k))
    BY <1>0, <1>3, SetDimFacts, Zenon
  <2>2. Keeps
    BY <1>0, <2>1, SetDimKeeps, Zenon
  <2>3. \A b \in Addrs : Owned(b) => Owned(b)'
    BY <1>1, <2>2 DEF Owned, Keeps
  <2> QED  BY <1>1, <2>3, Zenon DEF NoneLost
<1> QED  BY <1>2, <1>3, Zenon

(* pli_ctl_free_addr loses nothing: what no slot takes goes back to the heap. *)
LEMMA FreeLoses ==
  ASSUME IInv, NEW f \in Fibers, NEW k \in Keys, pli_ctl_free_addr(f, k)
  PROVE  NoneLost
<1>0. Types /\ TableInv
  BY Zenon DEF IInv
<1>1. CASE Stop
  BY <1>1, SameLost, Zenon DEF Stop
<1>2. CASE /\ Depth(f, k) > 0
           /\ ctl_vars' = [ctl_vars EXCEPT ![f][ctlFind(f, k)].gens = SubSeq(@, 1, Len(@) - 1)]
           /\ ctl_last' = [ctl_last EXCEPT ![f] = ctlFind(f, k)]
           /\ ctl_cache' = [ctl_cache EXCEPT ![f] = Stash(f, k, Top(f, k))]
           /\ size' = [a \in Addrs |-> IF a \in Returned(f, k, Top(f, k)) THEN 0 ELSE size[a]]
           /\ UNCHANGED <<bytes, ended>>
  <2>1. Depth(f, k) # 0
    BY <1>2
  <2>2. PICK i, m \in Nat : Top(f, k) = GenAt(ctl_vars[f], i, m) /\ Removes(f, i, m)
    BY <1>0, <1>2, <2>1, FreeFacts, Zenon
  <2>3. PICK x : x = Top(f, k)
    BY Zenon
  <2>4. ctl_cache'[f] = Stash(f, k, x) /\ \A g \in Fibers : g # f => ctl_cache'[g] = ctl_cache[g]
    BY <1>0, <1>2, <2>3, Zenon DEF Types
  <2>5. \A a \in Addrs : size'[a] # 0 => a \notin Returned(f, k, x) /\ size[a] # 0
    BY <1>2, <2>3, Zenon
  <2>6. \A a \in Addrs : Owned(a) => a = x.addr \/ a = ctl_cache[f].addr \/ Owned(a)'
    BY <2>2, <2>3, <2>4 DEF Owned, Removes
  <2>7. \A a \in Addrs : a = x.addr \/ a = ctl_cache[f].addr => a \in Returned(f, k, x) \/ Owned(a)'
    <3>1. \A a \in Addrs : a = x.addr \/ a = ctl_cache[f].addr =>
            a \in Returned(f, k, x) \/ a = Stash(f, k, x).addr
      BY Zenon DEF Stash, StashAny, Returned
    <3> QED  BY <2>4, <3>1, Zenon DEF Owned
  <2> QED  BY <2>5, <2>6, <2>7, Zenon DEF NoneLost
<1> QED  BY <1>1, <1>2, Zenon DEF pli_ctl_free_addr

(* So no operation on a variable loses a buffer. *)
LEMMA OperateLoses ==
  ASSUME IInv, NEW f \in Fibers, NEW k \in Keys, Operate(f, k)
  PROVE  NoneLost
<1>1. ASSUME NEW n \in Lens, pli_ctl_alloc(f, k, n)  PROVE NoneLost
  BY <1>1, AllocLoses, Zenon
<1>2. ASSUME NEW n \in Lens, NEW r \in 0 .. MaxRank, pli_ctl_alloc_dims(f, k, n, r)  PROVE NoneLost
  <2>1. [x \in 1 .. r |-> 0] \in Seq(Extents \cup {0}) /\ Len([x \in 1 .. r |-> 0]) <= MaxRank
    BY CtlConstants
  <2> QED  BY <1>2, <2>1, MallocLoses, Zenon DEF pli_ctl_alloc_dims
<1>3. ASSUME NEW x \in 1 .. MaxRank, NEW e \in Extents, pli_ctl_set_dim(f, k, x, e)  PROVE NoneLost
  BY <1>3, SetDimLoses, Zenon
<1>4. CASE Query(f, k)
  BY <1>4, SameLost, Zenon DEF Query
<1>5. ASSUME NEW v \in Vals, Store(f, k, v)  PROVE NoneLost
  BY <1>5, SameLost, Zenon DEF Store
<1> QED  BY <1>1, <1>2, <1>3, <1>4, <1>5, FreeLoses, Zenon DEF Operate, pli_ctl_ensure

(* The action of OnlyRecyclingLoses. *)
LosesByRecycling ==
  (\E a \in live' : a \notin (InUse \cup Cached)' /\ (a \in InUse \cup Cached \/ a \notin live))
    => \E f \in Fibers : ctl_vars'[f] = <<>> /\ ctl_vars[f] # <<>>

(* A step that loses a buffer starts a task on a fiber whose table is not empty. *)
LEMMA StepLoses ==
  ASSUME IInv, IInv', [Next]_vars
  PROVE  LosesByRecycling
<1>1. NoneLost => LosesByRecycling
  <2>1. \A a \in Addrs : (a \in InUse \cup Cached) <=> Owned(a)
    BY OwnedIs, Zenon DEF IInv
  <2>2. \A a \in Addrs : (a \in (InUse \cup Cached)') <=> Owned(a)'
    BY OwnedIsNext, Zenon DEF IInv
  <2> QED  BY <2>1, <2>2, Zenon DEF NoneLost, LosesByRecycling, live
<1>2. CASE UNCHANGED vars
  BY <1>1, <1>2, SameLost, Zenon DEF vars
<1>3. ASSUME NEW f \in Fibers, rt_fiber_prepare(f)  PROVE LosesByRecycling
  <2>1. /\ ctl_vars \in [Fibers -> Seq(Entry)] /\ ctl_vars' = [ctl_vars EXCEPT ![f] = <<>>]
        /\ UNCHANGED <<ctl_cache, size>>
    BY <1>3, Zenon DEF rt_fiber_prepare, IInv, Types
  <2>2. CASE ctl_vars[f] = <<>>
    BY <1>1, <2>1, <2>2, SameLost, Zenon
  <2>3. CASE ctl_vars[f] # <<>>
    BY <2>1, <2>3, Zenon DEF LosesByRecycling
  <2> QED  BY <2>2, <2>3, Zenon
<1> QED  BY <1>1, <1>2, <1>3, OperateLoses, Zenon DEF Next

(* A step after which an allocated buffer has neither a generation nor a   *)
(* slot is rt_fiber_prepare emptying the table of a recycled fiber:        *)
(* pli_ctl_free_addr and the slot of pli_ctl_alloc never lose one.         *)
THEOREM RecyclingLosesOnly == Spec => OnlyRecyclingLoses
<1>1. IInv /\ IInv' /\ [Next]_vars => [LosesByRecycling]_vars
  BY StepLoses, Zenon
<1> QED  BY <1>1, StorageKeepsInv, PTL DEF Spec, OnlyRecyclingLoses, LosesByRecycling

-----------------------------------------------------------------------------
(* The stacks of generations that the table and the heap make up. *)

Cell == [len : Lens, dims : Seq(Extents \cup {0}), val : Vals]
View(g, b) == [len |-> g.len, dims |-> g.dims, val |-> b[g.addr]]
Stack(t, b, k) ==
  LET i == Place(t, k) IN
    IF i = 0 THEN <<>> ELSE [d \in DOMAIN t[i].gens |-> View(t[i].gens[d], b)]

(* What a task sees of a variable depends on its table and the buffers' bytes. *)
LEMMA SeenIs ==
  ASSUME NEW f \in Fibers, NEW k \in Keys
  PROVE  Seen(f, k) = Stack(ctl_vars[f], bytes, k) /\ Seen(f, k)' = Stack(ctl_vars'[f], bytes', k)
BY ScanIsPlace, Zenon DEF Seen, Stack, View

(* The stack of a variable with an entry. *)
LEMMA StackAt ==
  ASSUME NEW t, GoodTable(t), NEW b \in [Addrs -> Vals], NEW i \in 1 .. Len(t), NEW k, t[i].key = k
  PROVE  /\ t[i].gens \in Seq(Gen) /\ Stack(t, b, k) \in Seq(Cell) /\ Len(Stack(t, b, k)) = Len(t[i].gens)
         /\ \A d \in 1 .. Len(t[i].gens) : Stack(t, b, k)[d] = View(t[i].gens[d], b)
<1>1. t \in Seq(Entry) /\ Place(t, k) = i /\ i # 0
  BY PlaceFacts DEF GoodTable
<1>2. PICK G : G = t[i].gens
  BY Zenon
<1>3. G \in Seq(Gen)
  <2>1. t[i] \in Entry
    BY <1>1
  <2> QED  BY <1>2, <2>1, Zenon DEF Entry
<1>4. Stack(t, b, k) = [d \in DOMAIN G |-> View(G[d], b)]
  BY <1>1, <1>2, Zenon DEF Stack
<1>5. \A g \in Gen : View(g, b) \in Cell
  BY Zenon DEF View, Gen, Cell
<1>6. \A d \in 1 .. Len(G) : View(G[d], b) \in Cell
  BY <1>3, <1>5
<1>7. /\ Stack(t, b, k) \in Seq(Cell) /\ Len(Stack(t, b, k)) = Len(G)
      /\ \A d \in 1 .. Len(G) : Stack(t, b, k)[d] = View(G[d], b)
  BY <1>3, <1>4, <1>6
<1> QED  BY <1>2, <1>3, <1>7, Zenon

(* The stack of a variable without an entry. *)
LEMMA StackNone ==
  ASSUME NEW t, GoodTable(t), NEW b, NEW k, \A i \in 1 .. Len(t) : t[i].key # k
  PROVE  Stack(t, b, k) = <<>>
<1>1. Place(t, k) = 0
  BY PlaceFacts DEF GoodTable
<1> QED  BY <1>1, Zenon DEF Stack

(* Stacks with the same cells are the same. *)
LEMMA SameCells ==
  ASSUME NEW s \in Seq(Cell), NEW t \in Seq(Cell), Len(s) = Len(t), \A d \in 1 .. Len(s) : s[d] = t[d]
  PROVE  s = t
OBVIOUS

(* The stack of k depends on the generations of k's entry. *)
LEMMA SameStack ==
  ASSUME NEW t, GoodTable(t), NEW u, GoodTable(u), NEW b \in [Addrs -> Vals], NEW c \in [Addrs -> Vals], NEW k,
         Len(t) <= Len(u),
         \A i \in 1 .. Len(t) :
           u[i].key = t[i].key /\
           (t[i].key = k => /\ Len(u[i].gens) = Len(t[i].gens)
                            /\ \A d \in 1 .. Len(t[i].gens) : View(u[i].gens[d], c) = View(t[i].gens[d], b)),
         \A i \in 1 .. Len(u) : u[i].key = k => i \in 1 .. Len(t)
  PROVE  Stack(u, c, k) = Stack(t, b, k)
<1>0. Len(t) \in Nat /\ Len(u) \in Nat
  BY DEF GoodTable
<1>1. CASE \A i \in 1 .. Len(t) : t[i].key # k
  <2>1. \A i \in 1 .. Len(u) : u[i].key # k
    BY <1>1, Zenon
  <2> QED  BY <1>1, <2>1, StackNone
<1>2. CASE \E i \in 1 .. Len(t) : t[i].key = k
  <2>1. PICK i \in 1 .. Len(t) : t[i].key = k
    BY <1>2, Zenon
  <2>2. i \in 1 .. Len(u) /\ u[i].key = k
    BY <1>0, <2>1
  <2>3. /\ Stack(t, b, k) \in Seq(Cell) /\ Len(Stack(t, b, k)) = Len(t[i].gens)
        /\ \A d \in 1 .. Len(t[i].gens) : Stack(t, b, k)[d] = View(t[i].gens[d], b)
    BY <2>1, StackAt
  <2>4. /\ Stack(u, c, k) \in Seq(Cell) /\ Len(Stack(u, c, k)) = Len(u[i].gens)
        /\ \A d \in 1 .. Len(u[i].gens) : Stack(u, c, k)[d] = View(u[i].gens[d], c)
    BY <2>2, StackAt
  <2>5. /\ Len(u[i].gens) = Len(t[i].gens)
        /\ \A d \in 1 .. Len(t[i].gens) : View(u[i].gens[d], c) = View(t[i].gens[d], b)
    BY <2>1, Zenon
  <2> QED  BY <2>3, <2>4, <2>5, SameCells
<1> QED  BY <1>1, <1>2, Zenon

-----------------------------------------------------------------------------
(* What a step of the table is for the stacks. *)

Others(f, k) ==
  /\ \A g \in Fibers : g # f => \A j \in Keys : Seen(g, j)' = Seen(g, j)
  /\ \A j \in Keys : j # k => Seen(f, j)' = Seen(f, j)

AbsStack == [f \in Fibers |-> [k \in Keys |-> Seen(f, k)]]

(* A step that changes one stack in a way PL/I has is an abstract step. *)
LEMMA AbsStep ==
  ASSUME NEW f \in Fibers, NEW k \in Keys, Others(f, k),
         \/ Abs!Allocate(Seen(f, k), Seen(f, k)') \/ Abs!Free(Seen(f, k), Seen(f, k)')
         \/ Abs!Assign(Seen(f, k), Seen(f, k)') \/ Abs!SetExtents(Seen(f, k), Seen(f, k)')
  PROVE  Abs!Next
<1>1. /\ AbsStack = [g \in Fibers |-> [j \in Keys |-> Seen(g, j)]]
      /\ AbsStack' = [g \in Fibers |-> [j \in Keys |-> Seen(g, j)']]
  BY Zenon DEF AbsStack
<1>2. \A g \in Fibers \ {f} : AbsStack'[g] = AbsStack[g]
  BY <1>1, Zenon DEF Others
<1>3. \A g \in Fibers, j \in Keys : AbsStack[g][j] = Seen(g, j) /\ AbsStack'[g][j] = Seen(g, j)'
  BY <1>1, Zenon
<1>4. \A j \in Keys \ {k} : AbsStack'[f][j] = AbsStack[f][j]
  BY <1>3 DEF Others
<1>5. Abs!Operate(f, k)
  BY <1>3, <1>4, Zenon DEF Abs!Operate, AbsStack
<1> QED  BY <1>2, <1>5, Zenon DEF Abs!Next, AbsStack

(* The other tasks, and the other variables of the task, see no change. *)
LEMMA OthersSame ==
  ASSUME NEW f \in Fibers, NEW k \in Keys, \A g \in Fibers : g # f => ctl_vars'[g] = ctl_vars[g], bytes' = bytes,
         \A j \in Keys : j # k => Stack(ctl_vars'[f], bytes, j) = Stack(ctl_vars[f], bytes, j)
  PROVE  Others(f, k)
BY SeenIs, ZenonT(60) DEF Others

(* s is one cell longer than r, or as long, and the same below its top. *)
LEMMA Longer ==
  ASSUME NEW r \in Seq(Cell), NEW s \in Seq(Cell), Len(s) = Len(r) + 1, \A d \in 1 .. Len(r) : s[d] = r[d]
  PROVE  Abs!Allocate(r, s) /\ Abs!Free(s, r)
<1>1. s # <<>> /\ SubSeq(s, 1, Len(s) - 1) \in Seq(Cell) /\ Len(SubSeq(s, 1, Len(s) - 1)) = Len(r)
  OBVIOUS
<1>2. \A d \in 1 .. Len(r) : SubSeq(s, 1, Len(s) - 1)[d] = r[d]
  OBVIOUS
<1>3. SubSeq(s, 1, Len(s) - 1) = r
  BY <1>1, <1>2, SameCells, Zenon
<1> QED  BY <1>1, <1>3, Zenon DEF Abs!Allocate, Abs!Free, Abs!Older

(* Stacks of one length that differ in the newest cell only. *)
LEMMA SameLower ==
  ASSUME NEW r \in Seq(Cell), NEW s \in Seq(Cell), Len(s) = Len(r), Len(r) # 0,
         \A d \in 1 .. Len(r) : d # Len(r) => s[d] = r[d]
  PROVE  Abs!SameBelow(r, s)
<1> DEFINE p == SubSeq(r, 1, Len(r) - 1)  q == SubSeq(s, 1, Len(s) - 1)
<1>1. s # <<>> /\ r # <<>> /\ p \in Seq(Cell) /\ q \in Seq(Cell) /\ Len(p) = Len(q) /\ Len(p) = Len(r) - 1
  OBVIOUS
<1>2. \A d \in 1 .. Len(p) : q[d] = p[d]
  OBVIOUS
<1>3. q = p
  <2> HIDE DEF p, q
  <2> QED  BY <1>1, <1>2, SameCells, Zenon
<1> QED  BY <1>1, <1>3, Zenon DEF Abs!SameBelow, Abs!Older

(* A push is an ALLOCATE. *)
LEMMA PushAllocates ==
  ASSUME IInv, NEW f \in Fibers, NEW k \in Keys, NEW a \in Addrs, NEW n \in Lens,
         NEW dims \in Seq(Extents \cup {0}), Len(dims) <= MaxRank, Push(f, k, a, n, dims), bytes' = bytes
  PROVE  Others(f, k) /\ Abs!Allocate(Seen(f, k), Seen(f, k)')
<1>0. Types /\ TableInv /\ bytes \in [Addrs -> Vals]
  BY Zenon DEF IInv, Types
<1>1. PICK t, u : t = ctl_vars[f] /\ u = ctl_vars'[f]
  BY Zenon
<1>a. PICK w, i, x : PushedTo(f, k, w, i, x)
  BY <1>0, PushPicks, Zenon
<1>2. /\ GoodTable(w) /\ i \in 1 .. Len(w) /\ w[i].key = k /\ Len(t) <= Len(w)
      /\ \A j \in 1 .. Len(t) : w[j] = t[j]
      /\ \A j \in 1 .. Len(w) : j \in 1 .. Len(t) \/ (j = i /\ w[j].gens = <<>>)
      /\ w = t \/ Place(t, k) = 0
  BY <1>1, <1>a, Zenon DEF PushedTo
<1>3. /\ x \in Gen /\ w[i].gens \in Seq(Gen) /\ TableInv'
      /\ \A g \in Fibers : g # f => ctl_vars'[g] = ctl_vars[g]
      /\ Len(u) = Len(w) /\ u[i].key = k /\ u[i].gens = Append(w[i].gens, x)
      /\ \A j \in 1 .. Len(w) : j # i => u[j] = w[j]
  BY <1>1, <1>a, Zenon DEF PushedTo
<1>4. GoodTable(t) /\ GoodTable(u) /\ Len(t) \in Nat /\ Len(w) \in Nat
  BY <1>0, <1>1, <1>2, <1>3 DEF TableInv, GoodTable
<1>5. \A j \in 1 .. Len(t) : j \in 1 .. Len(w)
  BY <1>2, <1>4
<1>6. \A j \in 1 .. Len(t) : u[j].key = t[j].key /\ (t[j].key # k => u[j] = t[j])
  BY <1>2, <1>3, <1>5, Zenon
<1>7. ASSUME NEW j \in Keys, j # k  PROVE Stack(u, bytes, j) = Stack(t, bytes, j)
  <2>1. \A p \in 1 .. Len(u) : u[p].key = j => p \in 1 .. Len(t)
    BY <1>2, <1>3, <1>7, Zenon
  <2>2. Len(t) <= Len(u)
    BY <1>2, <1>3, Zenon
  <2>3. \A p \in 1 .. Len(t) : u[p].key = t[p].key /\
          (t[p].key = j => /\ Len(u[p].gens) = Len(t[p].gens)
                           /\ \A d \in 1 .. Len(t[p].gens) : View(u[p].gens[d], bytes) = View(t[p].gens[d], bytes))
    BY <1>6, <1>7, Zenon
  <2> QED  BY <1>0, <1>4, <2>1, <2>2, <2>3, SameStack
<1>8. Others(f, k)
  BY <1>0, <1>1, <1>3, <1>7, OthersSame, Zenon
<1>9. PICK G, r, s : G = w[i].gens /\ r = Stack(t, bytes, k) /\ s = Stack(u, bytes, k)
  BY Zenon
<1>10. r \in Seq(Cell) /\ Len(r) = Len(G) /\ \A d \in 1 .. Len(G) : r[d] = View(G[d], bytes)
  <2>1. CASE i \in 1 .. Len(t)
    <3>1. t[i] = w[i] /\ t[i].key = k
      BY <1>2, <2>1, Zenon
    <3> QED  BY <1>0, <1>4, <1>9, <2>1, <3>1, StackAt
  <2>2. CASE i \notin 1 .. Len(t)
    <3>1. G = <<>> /\ Place(t, k) = 0
      BY <1>2, <1>9, <2>2, Zenon
    <3>2. r = <<>>
      BY <1>9, <3>1, Zenon DEF Stack
    <3> QED  BY <3>1, <3>2
  <2> QED  BY <2>1, <2>2, Zenon
<1>11. /\ s \in Seq(Cell) /\ Len(s) = Len(u[i].gens)
       /\ \A d \in 1 .. Len(u[i].gens) : s[d] = View(u[i].gens[d], bytes)
  <2>1. i \in 1 .. Len(u)
    BY <1>2, <1>3, Zenon
  <2>2. /\ Stack(u, bytes, k) \in Seq(Cell) /\ Len(Stack(u, bytes, k)) = Len(u[i].gens)
        /\ \A d \in 1 .. Len(u[i].gens) : Stack(u, bytes, k)[d] = View(u[i].gens[d], bytes)
    <3>1. GoodTable(u) /\ u[i].key = k
      BY <1>3, <1>4, Zenon
    <3> QED  BY <1>0, <2>1, <3>1, StackAt, Zenon
  <2> QED  BY <1>9, <2>2, Zenon
<1>12. /\ Len(u[i].gens) = Len(G) + 1 /\ G \in Seq(Gen)
       /\ \A d \in 1 .. Len(G) : d \in 1 .. Len(u[i].gens) /\ u[i].gens[d] = G[d]
  BY <1>3, <1>9
<1>13. Len(s) = Len(r) + 1 /\ \A d \in 1 .. Len(r) : s[d] = r[d]
  BY <1>10, <1>11, <1>12, Zenon
<1>14. Abs!Allocate(r, s)
  BY <1>10, <1>11, <1>13, Longer, Zenon
<1>15. Seen(f, k) = r /\ Seen(f, k)' = s
  BY <1>1, <1>9, SeenIs, Zenon
<1> QED  BY <1>8, <1>14, <1>15, Zenon

(* Another list of generations in one entry is seen in that variable only. *)
LEMMA BecomesOthers ==
  ASSUME Types, TableInv, TableInv', bytes' = bytes, NEW f \in Fibers, NEW k \in Keys,
         NEW i \in 1 .. Len(ctl_vars[f]), ctl_vars[f][i].key = k, NEW s, Becomes(f, i, s)
  PROVE  Others(f, k)
<1>1. PICK t, u : t = ctl_vars[f] /\ u = ctl_vars'[f]
  BY Zenon
<1>2. GoodTable(t) /\ GoodTable(u) /\ Len(u) = Len(t) /\ bytes \in [Addrs -> Vals] /\ Len(t) <= Len(t)
  <2>1. GoodTable(t) /\ GoodTable(u) /\ Len(u) = Len(t) /\ bytes \in [Addrs -> Vals]
    BY <1>1, Zenon DEF TableInv, Becomes, Types
  <2> QED  BY <2>1 DEF GoodTable
<1>3. \A p \in 1 .. Len(t) : u[p].key = t[p].key /\ (t[p].key # k => u[p] = t[p])
  BY <1>1, Zenon DEF Becomes
<1>4. ASSUME NEW j \in Keys, j # k  PROVE Stack(u, bytes, j) = Stack(t, bytes, j)
  <2>1. \A p \in 1 .. Len(t) : u[p].key = t[p].key /\
          (t[p].key = j => /\ Len(u[p].gens) = Len(t[p].gens)
                           /\ \A d \in 1 .. Len(t[p].gens) : View(u[p].gens[d], bytes) = View(t[p].gens[d], bytes))
    BY <1>3, <1>4, Zenon
  <2>2. \A p \in 1 .. Len(u) : u[p].key = j => p \in 1 .. Len(t)
    BY <1>2, Zenon
  <2> QED  BY <1>2, <2>1, <2>2, SameStack
<1>5. \A j \in Keys : j # k => Stack(ctl_vars'[f], bytes, j) = Stack(ctl_vars[f], bytes, j)
  BY <1>1, <1>4, Zenon
<1> QED  BY <1>5, OthersSame, Zenon DEF Becomes

(* The stacks of k before and after, cell by cell. *)
LEMMA BecomesStacks ==
  ASSUME Types, TableInv, TableInv', bytes' = bytes, NEW f \in Fibers, NEW k \in Keys,
         NEW i \in 1 .. Len(ctl_vars[f]), ctl_vars[f][i].key = k, NEW H, Becomes(f, i, H)
  PROVE  /\ Seen(f, k) \in Seq(Cell) /\ Len(Seen(f, k)) = Len(ctl_vars[f][i].gens)
         /\ \A d \in 1 .. Len(ctl_vars[f][i].gens) : Seen(f, k)[d] = View(ctl_vars[f][i].gens[d], bytes)
         /\ Seen(f, k)' \in Seq(Cell) /\ Len(Seen(f, k)') = Len(H)
         /\ \A d \in 1 .. Len(H) : Seen(f, k)'[d] = View(H[d], bytes)
<1>0. PICK G : G = ctl_vars[f][i].gens
  BY Zenon
<1>1. PICK t, u : t = ctl_vars[f] /\ u = ctl_vars'[f]
  BY Zenon
<1>2. GoodTable(t) /\ GoodTable(u) /\ Len(u) = Len(t) /\ bytes \in [Addrs -> Vals]
  BY <1>1, Zenon DEF TableInv, Becomes, Types
<1>3. i \in 1 .. Len(t) /\ i \in 1 .. Len(u) /\ t[i].key = k /\ t[i].gens = G /\ u[i].key = k /\ u[i].gens = H
  BY <1>0, <1>1, <1>2, Zenon DEF Becomes
<1>4. /\ Stack(t, bytes, k) \in Seq(Cell) /\ Len(Stack(t, bytes, k)) = Len(G)
      /\ \A d \in 1 .. Len(G) : Stack(t, bytes, k)[d] = View(G[d], bytes)
  BY <1>2, <1>3, StackAt
<1>5. /\ Stack(u, bytes, k) \in Seq(Cell) /\ Len(Stack(u, bytes, k)) = Len(H)
      /\ \A d \in 1 .. Len(H) : Stack(u, bytes, k)[d] = View(H[d], bytes)
  BY <1>2, <1>3, StackAt
<1>6. Seen(f, k) = Stack(t, bytes, k) /\ Seen(f, k)' = Stack(u, bytes, k)
  BY <1>1, SeenIs, Zenon
<1> QED  BY <1>0, <1>4, <1>5, <1>6, Zenon

(* The stack of a list without its newest generation. *)
LEMMA ShorterFrees ==
  ASSUME Types, TableInv, TableInv', bytes' = bytes, NEW f \in Fibers, NEW k \in Keys,
         NEW i \in 1 .. Len(ctl_vars[f]), ctl_vars[f][i].key = k, NEW m, m = Len(ctl_vars[f][i].gens), m # 0,
         Becomes(f, i, SubSeq(ctl_vars[f][i].gens, 1, m - 1))
  PROVE  Others(f, k) /\ Abs!Free(Seen(f, k), Seen(f, k)')
<1>1. PICK G, H : G = ctl_vars[f][i].gens /\ H = SubSeq(ctl_vars[f][i].gens, 1, m - 1)
  BY Zenon
<1>2. G \in Seq(Gen) /\ m = Len(G)
  BY <1>1, TypesFacts, Zenon
<1>3. Becomes(f, i, H)
  BY <1>1, Zenon
<1>4. Others(f, k)
  BY <1>3, BecomesOthers, Zenon
<1>5. /\ Seen(f, k) \in Seq(Cell) /\ Len(Seen(f, k)) = Len(G)
      /\ \A d \in 1 .. Len(G) : Seen(f, k)[d] = View(G[d], bytes)
      /\ Seen(f, k)' \in Seq(Cell) /\ Len(Seen(f, k)') = Len(H)
      /\ \A d \in 1 .. Len(H) : Seen(f, k)'[d] = View(H[d], bytes)
  <2>1. /\ Seen(f, k) \in Seq(Cell) /\ Len(Seen(f, k)) = Len(ctl_vars[f][i].gens)
        /\ \A d \in 1 .. Len(ctl_vars[f][i].gens) : Seen(f, k)[d] = View(ctl_vars[f][i].gens[d], bytes)
        /\ Seen(f, k)' \in Seq(Cell) /\ Len(Seen(f, k)') = Len(H)
        /\ \A d \in 1 .. Len(H) : Seen(f, k)'[d] = View(H[d], bytes)
    BY <1>3, BecomesStacks
  <2> QED  BY <1>1, <2>1, Zenon
<1>6. PICK r, s : r = Seen(f, k) /\ s = Seen(f, k)'
  BY Zenon
<1>7. Len(G) = Len(H) + 1 /\ Len(H) \in Nat /\ \A d \in 1 .. Len(H) : d \in 1 .. Len(G) /\ H[d] = G[d]
  <2>1. H = SubSeq(G, 1, Len(G) - 1) /\ Len(G) # 0
    BY <1>1, <1>2, Zenon
  <2> QED  BY <1>2, <2>1
<1>8. r \in Seq(Cell) /\ s \in Seq(Cell) /\ Len(r) = Len(s) + 1 /\ \A d \in 1 .. Len(s) : r[d] = s[d]
  BY <1>5, <1>6, <1>7, Zenon
<1>9. Abs!Free(r, s)
  BY <1>8, Longer, Zenon
<1> QED  BY <1>4, <1>6, <1>9, Zenon

(* pli_ctl_free_addr is a FREE. *)
LEMMA FreeFrees ==
  ASSUME IInv, NEW f \in Fibers, NEW k \in Keys, Depth(f, k) # 0, bytes' = bytes,
         ctl_vars' = [ctl_vars EXCEPT ![f][ctlFind(f, k)].gens = SubSeq(@, 1, Len(@) - 1)],
         ctl_last' = [ctl_last EXCEPT ![f] = ctlFind(f, k)]
  PROVE  Others(f, k) /\ Abs!Free(Seen(f, k), Seen(f, k)')
<1>0. Types /\ TableInv
  BY Zenon DEF IInv
<1>1. PICK i, m \in Nat :
        /\ i = Place(ctl_vars[f], k) /\ i \in 1 .. Len(ctl_vars[f]) /\ m = Depth(f, k)
        /\ m = Len(ctl_vars[f][i].gens) /\ Becomes(f, i, SubSeq(ctl_vars[f][i].gens, 1, m - 1)) /\ TableInv'
  BY <1>0, FreeFacts, Zenon
<1>2. ctl_vars[f][i].key = k /\ m # 0
  BY <1>0, <1>1, TypesFacts, PlaceFacts
<1> QED  BY <1>0, <1>1, <1>2, ShorterFrees, Zenon

(* pli_ctl_set_dim sets extents of the newest generation. *)
LEMMA SetDimSets ==
  ASSUME IInv, IInv', NEW f \in Fibers, NEW k \in Keys, NEW axis \in 1 .. MaxRank, NEW e \in Extents,
         Depth(f, k) # 0, pli_ctl_set_dim(f, k, axis, e)
  PROVE  Others(f, k) /\ Abs!SetExtents(Seen(f, k), Seen(f, k)')
<1>0. /\ Types /\ TableInv /\ TableInv' /\ bytes' = bytes
      /\ Remembered(f, k) \in Nat /\ Remembered(f, k) <= Len(ctl_vars[f])
  BY RememberedFacts, Zenon DEF IInv, pli_ctl_set_dim
<1>1. PICK i \in 1 .. Len(ctl_vars[f]), G \in Seq(Gen), x \in Gen :
        /\ i = Place(ctl_vars[f], k) /\ ctl_vars[f][i].key = k /\ ctl_vars[f][i].gens = G /\ Len(G) \in 1 .. Len(G)
        /\ x = [G[Len(G)] EXCEPT !.dims = x.dims] /\ x.addr = G[Len(G)].addr /\ x.len = G[Len(G)].len
        /\ Len(x.dims) <= MaxRank /\ Len(x.dims) >= Len(G[Len(G)].dims)
        /\ Regen(f, i, Put(G, Len(G), x)) /\ Points(f, Remembered(f, k))
  BY <1>0, SetDimFacts, Zenon
<1>2. PICK n, H : n = Len(G) /\ H = Put(G, Len(G), x)
  BY Zenon
<1>3. Becomes(f, i, H)
  BY <1>0, <1>1, <1>2, SetDimKeeps, Zenon
<1>4. Others(f, k)
  BY <1>0, <1>1, <1>3, BecomesOthers, Zenon
<1>5. /\ Seen(f, k) \in Seq(Cell) /\ Len(Seen(f, k)) = Len(G)
      /\ \A d \in 1 .. Len(G) : Seen(f, k)[d] = View(G[d], bytes)
      /\ Seen(f, k)' \in Seq(Cell) /\ Len(Seen(f, k)') = Len(H)
      /\ \A d \in 1 .. Len(H) : Seen(f, k)'[d] = View(H[d], bytes)
  BY <1>0, <1>1, <1>3, BecomesStacks
<1>6. PICK r, s : r = Seen(f, k) /\ s = Seen(f, k)'
  BY Zenon
<1>7. n \in 1 .. Len(G) /\ n \in Nat /\ n # 0 /\ Len(H) = n /\ H[n] = x /\ \A d \in 1 .. n : d # n => H[d] = G[d]
  <2>0. G \in Seq(Gen) /\ x \in Gen
    BY <1>1, Zenon
  <2>1. n \in 1 .. Len(G) /\ n \in Nat /\ n # 0
    BY <1>1, <1>2
  <2>2. Len(Put(G, n, x)) = n /\ Put(G, n, x)[n] = x /\ \A d \in 1 .. n : d # n => Put(G, n, x)[d] = G[d]
    <3>1. Len(Put(G, n, x)) = Len(G) /\ Put(G, n, x)[n] = x /\ \A d \in 1 .. Len(G) : d # n => Put(G, n, x)[d] = G[d]
      BY <2>0, <2>1 DEF Put
    <3> QED  BY <1>2, <3>1, Zenon
  <2> QED  BY <1>2, <2>1, <2>2, Zenon
<1>8. /\ r \in Seq(Cell) /\ s \in Seq(Cell) /\ Len(s) = Len(r) /\ Len(r) = n
      /\ \A d \in 1 .. Len(r) : d # Len(r) => s[d] = r[d]
  BY <1>2, <1>5, <1>6, <1>7
<1>9. Abs!SameBelow(r, s)
  BY <1>7, <1>8, SameLower, Zenon
<1>10. r[n] = View(G[n], bytes) /\ s[n] = View(x, bytes)
  BY <1>2, <1>5, <1>6, <1>7, Zenon
<1>11. View(x, bytes) = [View(G[n], bytes) EXCEPT !.dims = x.dims] /\ View(x, bytes).dims = x.dims
       /\ View(G[n], bytes).dims = G[n].dims
  BY <1>1, <1>2 DEF View
<1>12. s[n] = [r[n] EXCEPT !.dims = s[n].dims] /\ Len(s[n].dims) >= Len(r[n].dims)
  BY <1>1, <1>2, <1>10, <1>11, Zenon
<1>13. Abs!SetExtents(r, s)
  BY <1>8, <1>9, <1>12, ZenonT(60) DEF Abs!SetExtents, Abs!Newest
<1> QED  BY <1>4, <1>6, <1>13, Zenon

(* The stack is the same when the variable's own buffers hold the same bytes. *)
LEMMA SameBytes ==
  ASSUME NEW t, GoodTable(t), NEW b \in [Addrs -> Vals], NEW c \in [Addrs -> Vals], NEW k,
         \A p \in 1 .. Len(t) : t[p].key = k =>
           \A d \in 1 .. Len(t[p].gens) : View(t[p].gens[d], c) = View(t[p].gens[d], b)
  PROVE  Stack(t, c, k) = Stack(t, b, k)
<1>1. Len(t) <= Len(t)
  BY DEF GoodTable
<1> QED  BY <1>1, SameStack

(* A store through pli_ctl_addr is an assignment: no other generation has the buffer. *)
LEMMA StoreAssigns ==
  ASSUME IInv, NEW f \in Fibers, NEW k \in Keys, NEW v \in Vals, Store(f, k, v)
  PROVE  Others(f, k) /\ Abs!Assign(Seen(f, k), Seen(f, k)')
<1>0. Types /\ TableInv /\ Depth(f, k) # 0 /\ ctl_vars' = ctl_vars
  BY Zenon DEF IInv, Store, pli_ctl_addr
<1>1. PICK i, m, a : i = ctlFind(f, k) /\ m = Depth(f, k) /\ a = Top(f, k).addr
  BY Zenon
<1>2. /\ i \in 1 .. Len(ctl_vars[f]) /\ i \in Nat /\ ctl_vars[f][i].key = k /\ ctl_vars[f][i].gens \in Seq(Gen)
      /\ m = Len(ctl_vars[f][i].gens) /\ m \in 1 .. Len(ctl_vars[f][i].gens) /\ m \in Nat
      /\ Has(ctl_vars[f], i, m) /\ Top(f, k) = GenAt(ctl_vars[f], i, m) /\ Top(f, k) \in Gen
  BY <1>0, <1>1, TopFacts, Zenon
<1>3. a \in Addrs /\ a = GenAt(ctl_vars[f], i, m).addr
  BY <1>1, <1>2, Zenon DEF Gen
<1>4. PICK b, c : b = bytes /\ c = bytes'
  BY Zenon
<1>5. b \in [Addrs -> Vals] /\ c = [b EXCEPT ![a] = v]
  BY <1>0, <1>1, <1>4, Zenon DEF Store, pli_ctl_addr, Types
<1>6. b \in [Addrs -> Vals] /\ c \in [Addrs -> Vals] /\ \A g \in Gen : g.addr # a => View(g, c) = View(g, b)
  <2>1. b \in [Addrs -> Vals] /\ c \in [Addrs -> Vals] /\ \A x \in Addrs : x # a => c[x] = b[x]
    BY <1>5, Zenon
  <2>2. \A g \in Gen : g.addr \in Addrs
    BY Zenon DEF Gen
  <2> QED  BY <2>1, <2>2, Zenon DEF View
<1>7. \A g \in Fibers, p, d \in Nat : Has(ctl_vars[g], p, d) /\ ~(g = f /\ p = i /\ d = m) =>
        View(GenAt(ctl_vars[g], p, d), c) = View(GenAt(ctl_vars[g], p, d), b)
  <2>1. \A g \in Fibers, p, d \in Nat : Has(ctl_vars[g], p, d) => GenAt(ctl_vars[g], p, d) \in Gen
    BY <1>0, GensTyped, Zenon
  <2> QED  BY <1>2, <1>3, <1>6, <2>1, SMTT(30) DEF IInv, OwnInv, OneOwner
<1>8. ASSUME NEW g \in Fibers, NEW j \in Keys, g # f \/ j # k
      PROVE  Stack(ctl_vars[g], c, j) = Stack(ctl_vars[g], b, j)
  <2>1. PICK t : t = ctl_vars[g]
    BY Zenon
  <2>2. GoodTable(t) /\ Len(t) \in Nat /\ Len(t) <= Len(t)
    BY <1>0, <2>1, TypesFacts
  <2>3. \A p \in 1 .. Len(t) : \A d \in 1 .. Len(t[p].gens) : p \in Nat /\ d \in Nat /\ Has(t, p, d)
    <3>1. \A p \in 1 .. Len(t) : t[p].gens \in Seq(Gen)
      BY <1>0, <2>1, TypesFacts, ZenonT(60)
    <3> QED  BY <2>2, <3>1 DEF Has
  <2>4. \A p \in 1 .. Len(t) : t[p].key = j =>
          \A d \in 1 .. Len(t[p].gens) : View(t[p].gens[d], c) = View(t[p].gens[d], b)
    BY <1>2, <1>7, <1>8, <2>1, <2>3, ZenonT(60) DEF GenAt
  <2>5. Stack(t, c, j) = Stack(t, b, j)
    BY <1>6, <2>2, <2>4, SameBytes, Zenon
  <2> QED  BY <2>1, <2>5, Zenon
<1>9. Others(f, k)
  <2>1. ASSUME NEW g \in Fibers, NEW j \in Keys, g # f \/ j # k  PROVE Seen(g, j)' = Seen(g, j)
    <3>1. Seen(g, j) = Stack(ctl_vars[g], b, j)
      BY <1>4, SeenIs, Zenon
    <3>2. ctl_vars'[g] = ctl_vars[g]
      BY <1>0, Zenon
    <3>3. Seen(g, j)' = Stack(ctl_vars[g], c, j)
      BY <1>4, <3>2, SeenIs, Zenon
    <3> QED  BY <1>8, <2>1, <3>1, <3>3, Zenon
  <2> QED  BY <2>1, Zenon DEF Others
<1>10. PICK t, G, r, s : t = ctl_vars[f] /\ G = t[i].gens /\ r = Stack(t, b, k) /\ s = Stack(t, c, k)
  BY Zenon
<1>11. GoodTable(t) /\ i \in 1 .. Len(t) /\ t[i].key = k /\ G \in Seq(Gen) /\ m = Len(G) /\ m \in 1 .. Len(G)
  BY <1>0, <1>2, <1>10, TypesFacts, ZenonT(60)
<1>12. r \in Seq(Cell) /\ Len(r) = m /\ \A d \in 1 .. m : r[d] = View(G[d], b)
  BY <1>5, <1>10, <1>11, StackAt
<1>13. s \in Seq(Cell) /\ Len(s) = m /\ \A d \in 1 .. m : s[d] = View(G[d], c)
  BY <1>6, <1>10, <1>11, StackAt
<1>14. \A d \in 1 .. m : d # m => View(G[d], c) = View(G[d], b)
  <2>1. \A d \in 1 .. m : d \in Nat /\ Has(ctl_vars[f], i, d) /\ GenAt(ctl_vars[f], i, d) = G[d]
    BY <1>10, <1>11 DEF Has, GenAt
  <2> QED  BY <1>2, <1>7, <2>1
<1>15. Abs!SameBelow(r, s)
  BY <1>2, <1>11, <1>12, <1>13, <1>14, SameLower
<1>16. s[m] = [r[m] EXCEPT !.val = s[m].val]
  <2>1. r[m] = View(G[m], b) /\ s[m] = View(G[m], c)
    BY <1>11, <1>12, <1>13, Zenon
  <2> QED  BY <2>1 DEF View
<1>17. Abs!Assign(r, s)
  BY <1>12, <1>13, <1>15, <1>16, Zenon DEF Abs!Assign, Abs!Newest
<1>18. Seen(f, k) = r /\ Seen(f, k)' = s
  BY <1>0, <1>4, <1>10, SeenIs, Zenon
<1> QED  BY <1>9, <1>17, <1>18, Zenon

(* What leaves tables and bytes alone is a stutter. *)
LEMMA AbsSame ==
  ASSUME UNCHANGED <<ctl_vars, bytes>>
  PROVE  AbsStack' = AbsStack
<1>1. \A f \in Fibers, k \in Keys : Seen(f, k)' = Seen(f, k)
  BY SeenIs, Zenon
<1> QED  BY <1>1, Zenon DEF AbsStack

(* rt_fiber_prepare starts a task without generations. *)
LEMMA PrepareStarts ==
  ASSUME IInv, NEW f \in Fibers, rt_fiber_prepare(f)
  PROVE  Abs!Next
<1>0. GoodTable(<<>>) /\ \A i \in 1 .. Len(<<>>) : FALSE
  BY DEF GoodTable, OneEntry
<1>1. ctl_vars'[f] = <<>> /\ bytes' = bytes /\ \A g \in Fibers : g # f => ctl_vars'[g] = ctl_vars[g]
  BY Zenon DEF rt_fiber_prepare, IInv, Types
<1>2. \A k \in Keys : Seen(f, k)' = <<>>
  <2>1. \A k : Stack(<<>>, bytes, k) = <<>>
    BY <1>0, StackNone, Zenon
  <2> QED  BY <1>1, <2>1, SeenIs, Zenon
<1>3. \A g \in Fibers : g # f => \A j \in Keys : Seen(g, j)' = Seen(g, j)
  BY <1>1, SeenIs, Zenon
<1>4. /\ AbsStack = [g \in Fibers |-> [j \in Keys |-> Seen(g, j)]]
      /\ AbsStack' = [g \in Fibers |-> [j \in Keys |-> Seen(g, j)']]
  BY Zenon DEF AbsStack
<1>5. \A g \in Fibers \ {f} : AbsStack'[g] = AbsStack[g]
  BY <1>3, <1>4, Zenon
<1>6. Abs!NewTask(f)
  BY <1>2, <1>4, Zenon DEF Abs!NewTask, AbsStack
<1> QED  BY <1>5, <1>6, Zenon DEF Abs!Next, AbsStack

(* An ALLOCATE from the heap is an abstract step, or ends the program. *)
LEMMA MallocAllocates ==
  ASSUME IInv, NEW f \in Fibers, NEW k \in Keys, NEW n \in Lens,
         NEW dims \in Seq(Extents \cup {0}), Len(dims) <= MaxRank, Malloc(f, k, n, dims)
  PROVE  Abs!Next \/ AbsStack' = AbsStack
<1>1. CASE Stop
  BY <1>1, AbsSame, Zenon DEF Stop
<1>2. ASSUME NEW a \in Addrs \ live, Push(f, k, a, n, dims), UNCHANGED <<ctl_cache, bytes, ended>>
      PROVE  Abs!Next
  BY <1>2, PushAllocates, AbsStep, Zenon
<1> QED  BY <1>1, <1>2, Zenon DEF Malloc

(* So is one served by the slot. *)
LEMMA AllocAllocates ==
  ASSUME IInv, NEW f \in Fibers, NEW k \in Keys, NEW n \in Lens, pli_ctl_alloc(f, k, n)
  PROVE  Abs!Next \/ AbsStack' = AbsStack
<1>0. Types /\ <<>> \in Seq(Extents \cup {0}) /\ Len(<<>>) <= MaxRank
  BY CtlConstants DEF IInv
<1>1. CASE Malloc(f, k, n, <<>>)
  BY <1>0, <1>1, MallocAllocates, Zenon
<1>2. CASE CacheServes(f, k, n) /\ Push(f, k, ctl_cache[f].addr, n, <<>>) /\ UNCHANGED <<size, bytes, ended>>
  <2>1. ctl_cache[f].addr \in Addrs
    BY <1>0, <1>2, Zenon DEF CacheServes, Types
  <2> QED  BY <1>0, <1>2, <2>1, PushAllocates, AbsStep, Zenon
<1> QED  BY <1>1, <1>2, Zenon DEF pli_ctl_alloc

(* Every operation on a variable is an abstract step or a stutter. *)
LEMMA OperateImplements ==
  ASSUME IInv, IInv', NEW f \in Fibers, NEW k \in Keys, Operate(f, k)
  PROVE  Abs!Next \/ AbsStack' = AbsStack
<1>1. ASSUME NEW n \in Lens, pli_ctl_alloc(f, k, n)  PROVE Abs!Next \/ AbsStack' = AbsStack
  BY <1>1, AllocAllocates, Zenon
<1>2. ASSUME NEW n \in Lens, NEW r \in 0 .. MaxRank, pli_ctl_alloc_dims(f, k, n, r)
      PROVE  Abs!Next \/ AbsStack' = AbsStack
  <2>1. [x \in 1 .. r |-> 0] \in Seq(Extents \cup {0}) /\ Len([x \in 1 .. r |-> 0]) <= MaxRank
    BY CtlConstants
  <2> QED  BY <1>2, <2>1, MallocAllocates, Zenon DEF pli_ctl_alloc_dims
<1>3. ASSUME NEW x \in 1 .. MaxRank, NEW e \in Extents, pli_ctl_set_dim(f, k, x, e)
      PROVE  Abs!Next \/ AbsStack' = AbsStack
  <2>1. CASE Depth(f, k) = 0
    BY <1>3, <2>1, AbsSame, Zenon DEF pli_ctl_set_dim
  <2>2. CASE Depth(f, k) # 0
    BY <1>3, <2>2, SetDimSets, AbsStep, Zenon
  <2> QED  BY <2>1, <2>2, Zenon
<1>4. CASE Query(f, k)
  BY <1>4, AbsSame, Zenon DEF Query
<1>5. ASSUME NEW v \in Vals, Store(f, k, v)  PROVE Abs!Next
  BY <1>5, StoreAssigns, AbsStep, Zenon
<1>6. CASE pli_ctl_free_addr(f, k)
  <2>1. CASE Stop
    BY <2>1, AbsSame, Zenon DEF Stop
  <2>2. CASE /\ Depth(f, k) > 0
             /\ ctl_vars' = [ctl_vars EXCEPT ![f][ctlFind(f, k)].gens = SubSeq(@, 1, Len(@) - 1)]
             /\ ctl_last' = [ctl_last EXCEPT ![f] = ctlFind(f, k)]
             /\ UNCHANGED <<bytes, ended>>
    <3>1. Depth(f, k) # 0
      BY <2>2
    <3>2. Others(f, k) /\ Abs!Free(Seen(f, k), Seen(f, k)')
      BY <2>2, <3>1, FreeFrees, Zenon
    <3> QED  BY <3>2, AbsStep, Zenon
  <2> QED  BY <1>6, <2>1, <2>2, Zenon DEF pli_ctl_free_addr
<1> QED  BY <1>1, <1>2, <1>3, <1>4, <1>5, <1>6, Zenon DEF Operate, pli_ctl_ensure

(* So is every step. *)
LEMMA StepImplements ==
  ASSUME IInv, IInv', [Next]_vars
  PROVE  Abs!Next \/ AbsStack' = AbsStack
<1>1. CASE UNCHANGED vars
  BY <1>1, AbsSame, Zenon DEF vars
<1>2. CASE Next
  BY <1>2, PrepareStarts, OperateImplements, Zenon DEF Next
<1> QED  BY <1>1, <1>2, Zenon

(* At the start every stack is empty. *)
LEMMA InitImplements == Init => Abs!Init
<1> SUFFICES ASSUME Init PROVE Abs!Init
  OBVIOUS
<1>1. GoodTable(<<>>) /\ \A i \in 1 .. Len(<<>>) : FALSE
  BY DEF GoodTable, OneEntry
<1>2. \A f \in Fibers, k \in Keys : Seen(f, k) = <<>>
  <2>1. \A k : Stack(<<>>, bytes, k) = <<>>
    BY <1>1, StackNone, Zenon
  <2> QED  BY <2>1, SeenIs, Zenon DEF Init
<1> QED  BY <1>2, Zenon DEF Abs!Init

(* CONTROLLED storage implements CtlAbs: with the shortcut, the slot, the  *)
(* growing arrays and the shared heap, every call does to the stack of one *)
(* variable of one task what PL/I says, and to no other stack anything.    *)
THEOREM StorageImplements == Spec => Implements
<1>1. IInv /\ IInv' /\ [Next]_vars => [Abs!Next]_AbsStack
  BY StepImplements, Zenon
<1> QED  BY <1>1, InitImplements, StorageKeepsInv, PTL DEF Spec, Implements, Abs!Spec, AbsStack
=============================================================================
