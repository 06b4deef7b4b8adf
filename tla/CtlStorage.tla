----------------------------- MODULE CtlStorage -----------------------------
(***************************************************************************)
(* CONTROLLED storage (runtime/rt_storage.c).  Each fiber carries a table  *)
(* of the variables it has allocated, a shortcut to the entry it looked up *)
(* last, and one free buffer kept for the next ALLOCATE of the same shape. *)
(* The buffers come from the C heap, which all fibers share.               *)
(***************************************************************************)
EXTENDS Naturals, Sequences, FiniteSets

CONSTANTS Fibers, Keys,
          Lens,                              \* sizes an ALLOCATE asks for
          Extents, Vals,
          Addrs,                             \* buffers the heap can hand out
          NoAddr,
          FirstCap,                          \* 4 in the code
          MaxRank,                           \* bound: axes of a generation
          MaxDepth                           \* bound: generations of a variable

ASSUME CtlConstants ==
  /\ NoAddr \notin Addrs /\ Lens \subseteq Nat \ {0} /\ FirstCap \in Nat \ {0}
  /\ Extents \subseteq Nat /\ Vals # {} /\ MaxRank \in Nat

VARIABLES ctl_vars,                          \* per fiber: the table
          ctl_last,                          \* per fiber: index into it, 0 = NULL
          ctl_cache,                         \* per fiber: the one-slot freelist
          size,                              \* bytes malloc handed out in each buffer, 0 = free
          bytes,                             \* contents of every buffer
          ended                              \* the program has stopped on an error

vars == <<ctl_vars, ctl_last, ctl_cache, size, bytes, ended>>

live == {a \in Addrs : size[a] # 0}

NoCache == [key |-> NoAddr, addr |-> NoAddr, len |-> 0]

Init ==
  /\ ctl_vars = [f \in Fibers |-> <<>>]
  /\ ctl_last = [f \in Fibers |-> 0]
  /\ ctl_cache = [f \in Fibers |-> NoCache]
  /\ size = [a \in Addrs |-> 0]
  /\ bytes = [a \in Addrs |-> CHOOSE v \in Vals : TRUE]
  /\ ended = FALSE

\* pli_signal_error and pli_abort do not return.
Stop == ended' = TRUE /\ UNCHANGED <<ctl_vars, ctl_last, ctl_cache, size, bytes>>

-----------------------------------------------------------------------------
(* ctlFind: the index of k's entry in f's table, 0 when there is none. *)

Scan(f, k) ==
  LET hits == {i \in DOMAIN ctl_vars[f] : ctl_vars[f][i].key = k} IN
    IF hits = {} THEN 0 ELSE CHOOSE i \in hits : \A j \in hits : i <= j

ctlFind(f, k) ==
  IF /\ ctl_last[f] # 0
     /\ Len(ctl_vars[f]) > 0
     /\ IF ctl_last[f] <= Len(ctl_vars[f]) THEN ctl_vars[f][ctl_last[f]].key = k ELSE FALSE
  THEN ctl_last[f]
  ELSE Scan(f, k)

\* A lookup that creates nothing remembers the entry it found.
Remembered(f, k) == IF ctlFind(f, k) # 0 THEN ctlFind(f, k) ELSE ctl_last[f]

Depth(f, k) == IF ctlFind(f, k) = 0 THEN 0 ELSE Len(ctl_vars[f][ctlFind(f, k)].gens)

Top(f, k) == ctl_vars[f][ctlFind(f, k)].gens[Depth(f, k)]

\* A lookup that creates: the table with k's entry in it, and the entry's place.
WithEntry(f, k) ==
  IF ctlFind(f, k) # 0
  THEN ctl_vars[f]
  ELSE Append(ctl_vars[f], [key |-> k, gens |-> <<>>, cap |-> 0])

EntryAt(f, k) == IF ctlFind(f, k) # 0 THEN ctlFind(f, k) ELSE Len(ctl_vars[f]) + 1

\* Room for one generation more.
ctlGrow(v) == IF Len(v.gens) < v.cap THEN v.cap ELSE IF v.cap = 0 THEN FirstCap ELSE 2 * v.cap

-----------------------------------------------------------------------------
(* ALLOCATE. *)

Push(f, k, a, n, dims) ==
  LET i == EntryAt(f, k)
      v == WithEntry(f, k)[i]
  IN  /\ ctl_vars' = [ctl_vars EXCEPT ![f] = [WithEntry(f, k) EXCEPT ![i] =
                        [key |-> k, gens |-> Append(v.gens, [addr |-> a, len |-> n, dims |-> dims]),
                         cap |-> ctlGrow(v)]]]
      /\ ctl_last' = [ctl_last EXCEPT ![f] = i]

\* malloc: any buffer that is free, with whatever its bytes hold; none, and
\* the program stops.
Malloc(f, k, n, dims) ==
  \/ /\ \E a \in Addrs \ live : Push(f, k, a, n, dims) /\ size' = [size EXCEPT ![a] = n]
     /\ UNCHANGED <<ctl_cache, bytes, ended>>
  \/ Addrs \subseteq live /\ Stop

CacheServes(f, k, n) ==
  ctl_cache[f].addr # NoAddr /\ ctl_cache[f].key = k /\ ctl_cache[f].len = n

\* Mutant: the slot keeps the buffer it hands out.
TakeAndKeep(f) == ctl_cache[f]

\* The slot's pointer is cleared when its buffer is taken.
TakeCache(f) == [ctl_cache[f] EXCEPT !.addr = NoAddr]

pli_ctl_alloc(f, k, n) ==
  \/ /\ CacheServes(f, k, n)
     /\ Push(f, k, ctl_cache[f].addr, n, <<>>)
     /\ ctl_cache' = [ctl_cache EXCEPT ![f] = TakeCache(f)]
     /\ UNCHANGED <<size, bytes, ended>>
  \/ ~CacheServes(f, k, n) /\ Malloc(f, k, n, <<>>)

pli_ctl_alloc_dims(f, k, n, rank) == Malloc(f, k, n, [i \in 1 .. rank |-> 0])

\* An axis beyond the rank extends it; the axes between have extent 0.
pli_ctl_set_dim(f, k, axis, extent) ==
  LET i == ctlFind(f, k)
      d == Top(f, k).dims
      dims == [x \in 1 .. (IF axis > Len(d) THEN axis ELSE Len(d)) |->
                 IF x = axis THEN extent ELSE IF x <= Len(d) THEN d[x] ELSE 0]
  IN  /\ IF Depth(f, k) = 0 THEN UNCHANGED ctl_vars
         ELSE ctl_vars' = [ctl_vars EXCEPT ![f][i].gens[Depth(f, k)].dims = dims]
      /\ ctl_last' = [ctl_last EXCEPT ![f] = Remembered(f, k)]
      /\ UNCHANGED <<ctl_cache, size, bytes, ended>>

-----------------------------------------------------------------------------
(* FREE pops the newest generation.  A buffer without extents goes to the  *)
(* slot, which drops what it held; a second one of the same shape, and a   *)
(* buffer with extents, go back to the heap.                               *)

\* The slot's content after g is freed, with extents kept out of it or not.
StashAny(f, k, g) == [key |-> k, addr |-> g.addr, len |-> g.len]

Stash(f, k, g) ==
  IF g.dims # <<>> \/ CacheServes(f, k, g.len) THEN ctl_cache[f] ELSE StashAny(f, k, g)

\* Mutant: the buffer the slot held is forgotten, not freed.
ReturnNothingStale(f, k, g) ==
  IF g.dims # <<>> \/ CacheServes(f, k, g.len) THEN {g.addr} ELSE {}

\* What is given back to the heap.
Returned(f, k, g) ==
  IF g.dims # <<>> \/ CacheServes(f, k, g.len) THEN {g.addr} ELSE {ctl_cache[f].addr} \cap Addrs

pli_ctl_free_addr(f, k) ==
  \/ /\ Depth(f, k) > 0
     /\ ctl_vars' = [ctl_vars EXCEPT ![f][ctlFind(f, k)].gens = SubSeq(@, 1, Len(@) - 1)]
     /\ ctl_last' = [ctl_last EXCEPT ![f] = ctlFind(f, k)]
     /\ ctl_cache' = [ctl_cache EXCEPT ![f] = Stash(f, k, Top(f, k))]
     /\ size' = [a \in Addrs |-> IF a \in Returned(f, k, Top(f, k)) THEN 0 ELSE size[a]]
     /\ UNCHANGED <<bytes, ended>>
  \/ Depth(f, k) = 0 /\ Stop

-----------------------------------------------------------------------------
(* References: the address, length, depth, rank and extent queries all     *)
(* look the variable up; a store goes through the address of the newest    *)
(* generation, and the first store to a variable of adjustable length allocates one.*)

\* Mutant: a reference reaches the oldest generation.
AddrOldest(f, k) == IF Depth(f, k) = 0 THEN NoAddr ELSE Head(ctl_vars[f][ctlFind(f, k)].gens).addr

pli_ctl_addr(f, k) == IF Depth(f, k) = 0 THEN NoAddr ELSE Top(f, k).addr

Query(f, k) ==
  /\ ctl_last' = [ctl_last EXCEPT ![f] = Remembered(f, k)]
  /\ UNCHANGED <<ctl_vars, ctl_cache, size, bytes, ended>>

Store(f, k, v) ==
  /\ pli_ctl_addr(f, k) # NoAddr
  /\ bytes' = [bytes EXCEPT ![pli_ctl_addr(f, k)] = v]
  /\ ctl_last' = [ctl_last EXCEPT ![f] = Remembered(f, k)]
  /\ UNCHANGED <<ctl_vars, ctl_cache, size, ended>>

pli_ctl_ensure(f, k, n) ==
  \/ Depth(f, k) = 0 /\ pli_ctl_alloc(f, k, n)
  \/ Depth(f, k) > 0 /\ Query(f, k)

\* A fiber taken from the pool runs a new task: the count of the table is
\* zeroed and the shortcut cleared, the cached buffer is kept.
rt_fiber_prepare(f) ==
  /\ ctl_vars' = [ctl_vars EXCEPT ![f] = <<>>]
  /\ ctl_last' = [ctl_last EXCEPT ![f] = 0]
  /\ UNCHANGED <<ctl_cache, size, bytes, ended>>

Operate(f, k) ==
  \/ \E n \in Lens : Depth(f, k) < MaxDepth /\ pli_ctl_alloc(f, k, n)
  \/ \E n \in Lens, r \in 0 .. MaxRank : Depth(f, k) < MaxDepth /\ pli_ctl_alloc_dims(f, k, n, r)
  \/ \E x \in 1 .. MaxRank, e \in Extents : pli_ctl_set_dim(f, k, x, e)
  \/ pli_ctl_free_addr(f, k)
  \/ Query(f, k)
  \/ \E v \in Vals : Store(f, k, v)
  \/ \E n \in Lens : pli_ctl_ensure(f, k, n)

Next == ~ended /\ \E f \in Fibers : rt_fiber_prepare(f) \/ \E k \in Keys : Operate(f, k)

Spec == Init /\ [][Next]_vars

-----------------------------------------------------------------------------
(* Properties. *)

\* Every generation, as <<fiber, entry, depth>>, and its buffer.
Slots == UNION {UNION {{<<f, i, d>> : d \in DOMAIN ctl_vars[f][i].gens} : i \in DOMAIN ctl_vars[f]} :
                  f \in Fibers}
Buffer(s) == ctl_vars[s[1]][s[2]].gens[s[3]].addr
Cached == {ctl_cache[f].addr : f \in Fibers} \cap Addrs
InUse == {Buffer(s) : s \in Slots}

\* The state is well typed, and no stack is deeper than the arrays ctlGrow
\* has made room for.
TypeOK ==
  /\ \A f \in Fibers :
       /\ \A i \in DOMAIN ctl_vars[f] :
            LET v == ctl_vars[f][i] IN
              /\ v.key \in Keys /\ v.cap \in Nat /\ Len(v.gens) <= v.cap
              /\ \A d \in DOMAIN v.gens :
                   /\ v.gens[d].addr \in Addrs /\ v.gens[d].len \in Lens
                   /\ v.gens[d].dims \in Seq(Extents \cup {0}) /\ Len(v.gens[d].dims) <= MaxRank
       /\ ctl_last[f] \in 0 .. Len(ctl_vars[f])
       /\ ctl_cache[f].addr \in Addrs \cup {NoAddr}
  /\ size \in [Addrs -> Lens \cup {0}] /\ bytes \in [Addrs -> Vals] /\ ended \in BOOLEAN

\* "The cache never aliases a live generation" (rt_storage.c): the buffers of
\* all generations of all tasks and the cached buffers are pairwise distinct,
\* and none of them has been given back to the heap.
NoAlias ==
  /\ \A s, t \in Slots : Buffer(s) = Buffer(t) => s = t
  /\ InUse \cap Cached = {}
  /\ \A f, g \in Fibers : ctl_cache[f].addr = ctl_cache[g].addr /\ f # g => ctl_cache[f].addr = NoAddr
  /\ InUse \cup Cached \subseteq live

\* A generation's buffer has the length the generation claims, whether it came
\* from the heap or from the one-slot freelist.
BufferFits ==
  \A s \in Slots : size[Buffer(s)] = ctl_vars[s[1]][s[2]].gens[s[3]].len

\* The lookup shortcut changes nothing: ctlFind returns the entry of the
\* variable it is asked for, which is the only one with that key.
LookupExact ==
  \A f \in Fibers, k \in Keys :
    /\ Cardinality({i \in DOMAIN ctl_vars[f] : ctl_vars[f][i].key = k}) <= 1
    /\ IF ctlFind(f, k) = 0
       THEN \A i \in DOMAIN ctl_vars[f] : ctl_vars[f][i].key # k
       ELSE ctl_vars[f][ctlFind(f, k)].key = k

\* A buffer handed out by the heap and held by no generation and no slot is
\* lost.  Only a new task on a recycled fiber, which forgets the generations
\* its predecessor left allocated, loses any.
OnlyRecyclingLoses ==
  [][ (\E a \in live' : a \notin (InUse \cup Cached)' /\ (a \in InUse \cup Cached \/ a \notin live))
        => \E f \in Fibers : ctl_vars'[f] = <<>> /\ ctl_vars[f] # <<>> ]_vars

\* The generations a task sees through the table and the heap.
Seen(f, k) ==
  LET i == Scan(f, k) IN
    IF i = 0 THEN <<>>
    ELSE [d \in DOMAIN ctl_vars[f][i].gens |->
            LET g == ctl_vars[f][i].gens[d] IN [len |-> g.len, dims |-> g.dims, val |-> bytes[g.addr]]]

Abs == INSTANCE CtlAbs WITH stack <- [f \in Fibers |-> [k \in Keys |-> Seen(f, k)]]

\* Table, shortcut, cached buffer and heap together behave as one stack of
\* generations per task and variable: a store changes the newest generation
\* of one variable of one task and no other, and FREE uncovers the previous
\* one unchanged.  (That it is the variable named is LookupExact.)
Implements == Abs!Spec

\* The storage of a task is sound: a variable has one entry, which the lookup
\* finds; its generations have buffers of their own and of their own length.
StorageSound == TypeOK /\ LookupExact /\ NoAlias /\ BufferFits
=============================================================================
