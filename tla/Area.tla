-------------------------------- MODULE Area --------------------------------
(***************************************************************************)
(* AREA regions (runtime/rt_storage.c).  A region counts the bytes it has  *)
(* handed out, one header per block included, and lists its live blocks;   *)
(* FREE takes any pointer and refuses one that is not on the list.  The    *)
(* region of an automatic AREA is created and destroyed with its block;    *)
(* that of a STATIC one is created by whichever task uses it first.        *)
(***************************************************************************)
EXTENDS Naturals, Sequences, SequencesExt, FiniteSets, FiniteSetsExt

CONSTANTS Tasks,
          Auto, Static,                      \* AREA variables by storage class
          Regions, Blocks,                   \* heap addresses
          Null,
          AreaSize,                          \* declared size
          Sizes,                             \* sizes an ALLOCATE asks for
          Hdr                                \* sizeof(PliBlock)

Areas == Auto \cup Static

VARIABLES slot,                              \* per variable: its region or Null
          region,                            \* per region: used, blocks; Null when not allocated
          payload,                           \* per block: its size; Null when not allocated
          todo                               \* per task: the operation it is in the middle of

vars == <<slot, region, payload, todo>>

Idle == [op |-> "idle"]

Init ==
  /\ slot = [a \in Areas |-> Null]
  /\ region = [r \in Regions |-> Null]
  /\ payload = [b \in Blocks |-> Null]
  /\ todo = [t \in Tasks |-> Idle]

Live == {r \in Regions : region[r] # Null}

pli_area_create(a, r) ==
  /\ r \notin Live
  /\ region' = [region EXCEPT ![r] = [used |-> 0, blocks |-> <<>>]]
  /\ slot' = [slot EXCEPT ![a] = r]

\* Entry to and exit from the block that declares an automatic AREA.
Enter(t, a) ==
  /\ todo[t] = Idle /\ slot[a] = Null
  /\ \E r \in Regions : pli_area_create(a, r)
  /\ UNCHANGED <<payload, todo>>

\* The blocks pli_area_destroy releases with the region.
Destroyed(r) == ToSet(region[r].blocks)

pli_area_destroy(t, a) ==
  /\ todo[t] = Idle /\ slot[a] # Null
  /\ payload' = [b \in Blocks |->
                   IF region[slot[a]].blocks # <<>> /\ b \in Destroyed(slot[a]) THEN Null ELSE payload[b]]
  /\ region' = [region EXCEPT ![slot[a]] = Null]
  /\ slot' = [slot EXCEPT ![a] = Null]
  /\ UNCHANGED todo

\* pli_area_lazy: the test of the slot, then the creation.
LazyTest(t, a) ==
  /\ todo[t] = Idle /\ slot[a] = Null
  /\ todo' = [todo EXCEPT ![t] = [op |-> "create", area |-> a]]
  /\ UNCHANGED <<slot, region, payload>>

LazyCreate(t) ==
  /\ todo[t].op = "create"
  /\ \E r \in Regions : pli_area_create(todo[t].area, r)
  /\ todo' = [todo EXCEPT ![t] = Idle]
  /\ UNCHANGED payload

\* Mutant: the header is not counted.
FitsWithoutHeader(r, n) == n + region[r].used <= AreaSize

\* The overflow test: a block needs its payload and its header.
Fits(r, n) == n + Hdr + region[r].used <= AreaSize

\* pli_area_alloc: a request that does not fit raises AREA, and once the unit
\* has returned the statement is over with no effect.
AllocTest(t, a, n) ==
  /\ todo[t] = Idle /\ slot[a] # Null
  /\ todo' = IF Fits(slot[a], n)
             THEN [todo EXCEPT ![t] = [op |-> "alloc", region |-> slot[a], n |-> n]]
             ELSE todo
  /\ UNCHANGED <<slot, region, payload>>

AllocTake(t) ==
  /\ todo[t].op = "alloc"
  /\ \E b \in Blocks :
       /\ payload[b] = Null
       /\ payload' = [payload EXCEPT ![b] = todo[t].n]
       /\ region' = [region EXCEPT ![todo[t].region] =
            [used |-> @.used + todo[t].n + Hdr, blocks |-> <<b>> \o @.blocks]]
  /\ todo' = [todo EXCEPT ![t] = Idle]
  /\ UNCHANGED slot

\* Membership in the live list: the test OFFSET and FREE make of a pointer.
Owns(r, b) == b \in ToSet(region[r].blocks)

\* What a FREE gives back to the region.
Credit(b) == payload[b] + Hdr

\* pli_area_free of any pointer a program may hold: a pointer of this region,
\* of another one, or of a block freed before.
pli_area_free(t, a, b) ==
  /\ todo[t] = Idle /\ slot[a] # Null
  /\ Owns(slot[a], b)
  /\ region' = [region EXCEPT ![slot[a]] =
       [used |-> @.used - Credit(b), blocks |-> Remove(@.blocks, b)]]
  /\ payload' = [payload EXCEPT ![b] = Null]
  /\ UNCHANGED <<slot, todo>>

Next ==
  \E t \in Tasks :
    \/ \E a \in Auto : Enter(t, a) \/ pli_area_destroy(t, a)
    \/ \E a \in Static : LazyTest(t, a)
    \/ LazyCreate(t)
    \/ \E a \in Areas, n \in Sizes : AllocTest(t, a, n)
    \/ AllocTake(t)
    \/ \E a \in Areas, b \in Blocks : pli_area_free(t, a, b)

Spec == Init /\ [][Next]_vars

-----------------------------------------------------------------------------
(* Properties. *)

\* The state is well typed: a slot names an allocated region, a region's list
\* names blocks.
TypeOK ==
  /\ slot \in [Areas -> Live \cup {Null}]
  /\ \A r \in Live : region[r].used \in Nat /\ region[r].blocks \in Seq(Blocks)
  /\ payload \in [Blocks -> Sizes \cup {Null}]

\* The used count is exactly what the listed blocks and their headers occupy:
\* FREE in any order, of any pointer, returns what the ALLOCATE took.
Accounting ==
  \A r \in Live :
    region[r].used = MapThenSumSet(LAMBDA b : payload[b] + Hdr, ToSet(region[r].blocks))

\* "a->used <= a->size always holds" (rt_storage.c, pli_area_alloc).
WithinSize == \A r \in Live : region[r].used <= AreaSize

\* An allocated block is on the list of exactly one live region, once: no
\* block outlives its region and no list names memory that was given back.
OneList ==
  \A b \in Blocks :
    (payload[b] # Null) <=>
      Cardinality({<<r, i>> \in Live \X (1 .. Cardinality(Blocks)) :
                     IF i <= Len(region[r].blocks) THEN region[r].blocks[i] = b ELSE FALSE}) = 1

\* "created on first use and lives for the whole program" (rt_storage.c,
\* pli_area_lazy): a region, once created, stays the region of its AREA until
\* that is destroyed; none is replaced by another and lost.
OneRegion == \A r \in Live : \E a \in Areas : slot[a] = r

\* An AREA is sound: its count is exact and within its size, and its blocks
\* and its region are its own, whatever is freed in whatever order.
AreaSound == TypeOK /\ Accounting /\ WithinSize /\ OneList /\ OneRegion
=============================================================================
