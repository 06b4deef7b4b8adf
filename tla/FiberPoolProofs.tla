-------------------------- MODULE FiberPoolProofs --------------------------
(***************************************************************************)
(* The tagged pool for every number of workers, fibers and tags, whatever  *)
(* the run queues do with the fibers in use: as long as nobody sleeps      *)
(* through a whole round of the tags, no fiber is handed out twice.        *)
(*                                                                         *)
(* The argument: the tag of the head is the tag a worker loaded, advanced  *)
(* by the swaps since (TagInv), so a swap that finds its tag again finds   *)
(* the head it loaded and the link it read (FreshInv).                     *)
(***************************************************************************)
EXTENDS FiberPool

FiberOrNull == Fibers \cup {Null}
Tags == 0..TagMod - 1
Advance(tag, n) == IF tag + n < TagMod THEN tag + n ELSE tag + n - TagMod

(* The head's tag is the loaded one advanced by the swaps since. *)
TagInv ==
  \A w \in Workers :
    /\ pc[w] = "idle" => age[w] = 0
    /\ pc[w] # "idle" => top[2] = Advance(h[w][2], age[w])

(* Without a swap since the load, the loaded head and the link read from   *)
(* it are current; the link of a fiber about to be returned is written.    *)
FreshInv ==
  \A w \in Workers :
    /\ pc[w] # "idle" /\ age[w] = 0 => h[w] = top
    /\ pc[w] = "pop_cas" /\ age[w] = 0 => nx[w] = next[h[w][1]]
    /\ pc[w] = "push_cas" => next[item[w]] = h[w][1]

IInv == PoolTypeOK /\ LinksArePool /\ OneOwner /\ TagInv /\ FreshInv

(* A swap that finds the tag it loaded finds no swap in between. *)
LEMMA SwapIsFresh ==
  ASSUME IInv, NEW w \in Workers, pc[w] # "idle", top = h[w]
  PROVE  age[w] = 0
<1>1. h[w][2] \in Tags /\ age[w] \in Tags
  BY DEF IInv, PoolTypeOK, Tags
<1>2. h[w][2] = Advance(h[w][2], age[w])
  BY DEF IInv, TagInv
<1> QED  BY <1>1, <1>2, TagAssumption DEF Tags, Advance

(* The pool's front is what the head names. *)
LEMMA FrontFacts ==
  ASSUME IInv, top[1] # Null
  PROVE  /\ pool # <<>> /\ Head(pool) = top[1] /\ top[1] = pool[1] /\ 1 \in DOMAIN pool
         /\ top[1] \in Elems(pool) /\ Len(pool) \in Nat /\ Len(pool) > 0
<1>1. pool \in Seq(Fibers)
  BY DEF IInv, PoolTypeOK
<1>2. pool # <<>> /\ top[1] = pool[1]
  BY DEF IInv, LinksArePool
<1> QED  BY <1>1, <1>2 DEF Elems

(* Writing the link of a fiber that somebody holds leaves the pool alone. *)
LEMMA HeldLinkFree ==
  ASSUME IInv, NEW w \in Workers, NEW f \in hand[w]
  PROVE  /\ \A i \in DOMAIN pool : pool[i] # f
         /\ top[1] # f
<1>1. f \notin Elems(pool)
  BY DEF IInv, OneOwner
<1>2. \A i \in DOMAIN pool : pool[i] # f
  BY <1>1 DEF Elems
<1>3. pool = <<>> \/ 1 \in DOMAIN pool
  <2>1. pool \in Seq(Fibers)
    BY DEF IInv, PoolTypeOK
  <2> QED  BY <2>1
<1>4. f \in Fibers
  BY DEF IInv, PoolTypeOK
<1> QED  BY <1>2, <1>3, <1>4, NullAssumption DEF IInv, LinksArePool

-----------------------------------------------------------------------------
(* One lemma per step of the pool. *)

(* The load of rt_pool_pop. *)
LEMMA PopLoadInv ==
  ASSUME IInv, NEW w \in Workers, PopLoad(w)
  PROVE  IInv'
<1> USE DEF PopLoad, Goto
<1>1. PoolTypeOK /\ LinksArePool /\ OneOwner /\ TagInv /\ FreshInv
  BY DEF IInv
<1>2. h'[w] = top /\ pc'[w] = "pop_next" /\ age[w] = 0 /\ top[2] \in Tags
  BY <1>1 DEF PoolTypeOK, TagInv, Tags
<1>3. \A v \in Workers : v # w => h'[v] = h[v] /\ pc'[v] = pc[v]
  BY <1>1 DEF PoolTypeOK
<1>4. PoolTypeOK'
  BY <1>1, <1>2, <1>3 DEF PoolTypeOK
<1>5. LinksArePool' /\ OneOwner'
  BY <1>1 DEF LinksArePool, OneOwner
<1>6. TagInv'
  BY <1>1, <1>2, <1>3, TagAssumption DEF TagInv, Advance, Tags
<1>7. FreshInv'
  BY <1>1, <1>2, <1>3 DEF FreshInv
<1> QED  BY <1>4, <1>5, <1>6, <1>7 DEF IInv

(* The link is read: current if nothing was swapped since the load. *)
LEMMA PopNextInv ==
  ASSUME IInv, NEW w \in Workers, PopNext(w)
  PROVE  IInv'
<1> USE DEF PopNext, Goto
<1>1. PoolTypeOK /\ LinksArePool /\ OneOwner /\ TagInv /\ FreshInv
  BY DEF IInv
<1>2. h[w][1] \in Fibers
  BY <1>1 DEF PoolTypeOK
<1>3. nx'[w] = next[h[w][1]] /\ pc'[w] = "pop_cas" /\ nx'[w] \in FiberOrNull
  BY <1>1, <1>2 DEF PoolTypeOK, FiberOrNull
<1>4. \A v \in Workers : v # w => nx'[v] = nx[v] /\ pc'[v] = pc[v]
  BY <1>1 DEF PoolTypeOK
<1>5. PoolTypeOK'
  BY <1>1, <1>3, <1>4 DEF PoolTypeOK, FiberOrNull
<1>6. LinksArePool' /\ OneOwner'
  BY <1>1 DEF LinksArePool, OneOwner
<1>7. TagInv'
  BY <1>1, <1>3, <1>4 DEF TagInv
<1>8. FreshInv'
  BY <1>1, <1>3, <1>4 DEF FreshInv
<1> QED  BY <1>5, <1>6, <1>7, <1>8 DEF IInv

(* The load of rt_pool_push. *)
LEMMA PushLoadInv ==
  ASSUME IInv, NEW w \in Workers, PushLoad(w)
  PROVE  IInv'
<1> USE DEF PushLoad, Goto
<1>1. PoolTypeOK /\ LinksArePool /\ OneOwner /\ TagInv /\ FreshInv
  BY DEF IInv
<1>2. PICK f \in hand[w] : item' = [item EXCEPT ![w] = f]
  OBVIOUS
<1>3. /\ h'[w] = top /\ pc'[w] = "push_link" /\ item'[w] = f /\ age[w] = 0
      /\ top[2] \in Tags /\ f \in Fibers
  BY <1>1, <1>2 DEF PoolTypeOK, TagInv, Tags
<1>4. \A v \in Workers : v # w => h'[v] = h[v] /\ pc'[v] = pc[v] /\ item'[v] = item[v]
  BY <1>1, <1>2 DEF PoolTypeOK
<1>5. PoolTypeOK'
  BY <1>1, <1>2, <1>3, <1>4 DEF PoolTypeOK
<1>6. LinksArePool' /\ OneOwner'
  BY <1>1 DEF LinksArePool, OneOwner
<1>7. TagInv'
  BY <1>1, <1>3, <1>4, TagAssumption DEF TagInv, Advance, Tags
<1>8. FreshInv'
  BY <1>1, <1>3, <1>4 DEF FreshInv
<1> QED  BY <1>5, <1>6, <1>7, <1>8 DEF IInv

(* The link of a held fiber is written: no pooled fiber's link changes,    *)
(* and no other worker is about to return this fiber.                      *)
LEMMA LinkWriteInv ==
  ASSUME IInv, NEW w \in Workers, NEW f \in hand[w], NEW g \in FiberOrNull,
         next' = [next EXCEPT ![f] = g],
         UNCHANGED <<top, h, nx, item, hand, pool, age>>,
         \A v \in Workers : v # w => pc'[v] = pc[v]
  PROVE  /\ f \in Fibers /\ next'[f] = g /\ next' \in [Fibers -> FiberOrNull]
         /\ LinksArePool' /\ OneOwner'
         /\ \A v \in Workers : /\ age[v] = 0 /\ pc[v] = "pop_cas" => next'[h[v][1]] = next[h[v][1]]
                               /\ v # w /\ pc[v] = "push_cas" => next'[item[v]] = next[item[v]]
<1>1. PoolTypeOK /\ LinksArePool /\ OneOwner /\ TagInv /\ FreshInv
  BY DEF IInv
<1>2. f \in Fibers
  BY <1>1 DEF PoolTypeOK
<1>3. next'[f] = g /\ next' \in [Fibers -> FiberOrNull] /\ \A e \in Fibers : e # f => next'[e] = next[e]
  BY <1>1, <1>2 DEF PoolTypeOK, FiberOrNull
<1>4. /\ \A i \in DOMAIN pool : pool[i] # f
      /\ top[1] # f
  BY HeldLinkFree
<1>5. \A i \in DOMAIN pool : pool[i] \in Fibers
  <2>1. pool \in Seq(Fibers)
    BY <1>1 DEF PoolTypeOK
  <2> QED  BY <2>1
<1>6. LinksArePool'
  BY <1>1, <1>3, <1>4, <1>5 DEF LinksArePool
<1>7. OneOwner'
  BY <1>1 DEF OneOwner
<1>8. ASSUME NEW v \in Workers, age[v] = 0, pc[v] = "pop_cas"
      PROVE  next'[h[v][1]] = next[h[v][1]]
  <2>1. h[v] = top
    BY <1>1, <1>8 DEF FreshInv
  <2>2. h[v][1] \in Fibers
    BY <1>1, <1>8 DEF PoolTypeOK
  <2> QED  BY <2>1, <2>2, <1>3, <1>4
<1>9. ASSUME NEW v \in Workers, v # w, pc[v] = "push_cas"
      PROVE  next'[item[v]] = next[item[v]]
  <2>1. item[v] \in hand[v]
    BY <1>1, <1>9 DEF PoolTypeOK
  <2>2. item[v] # f /\ item[v] \in Fibers
    BY <1>1, <1>9, <2>1 DEF OneOwner, PoolTypeOK
  <2> QED  BY <2>2, <1>3
<1> QED  BY <1>2, <1>3, <1>6, <1>7, <1>8, <1>9

(* rt_pool_push writes the link. *)
LEMMA PushLinkInv ==
  ASSUME IInv, NEW w \in Workers, PushLink(w)
  PROVE  IInv'
<1> USE DEF PushLink, Goto
<1>1. PoolTypeOK /\ LinksArePool /\ OneOwner /\ TagInv /\ FreshInv
  BY DEF IInv
<1>2. item[w] \in hand[w] /\ h[w][1] \in FiberOrNull
  BY <1>1 DEF PoolTypeOK, FiberOrNull
<1>3. pc'[w] = "push_cas" /\ \A v \in Workers : v # w => pc'[v] = pc[v]
  BY <1>1 DEF PoolTypeOK
<1>4. /\ next'[item[w]] = h[w][1] /\ next' \in [Fibers -> FiberOrNull]
      /\ LinksArePool' /\ OneOwner'
      /\ \A v \in Workers : /\ age[v] = 0 /\ pc[v] = "pop_cas" => next'[h[v][1]] = next[h[v][1]]
                            /\ v # w /\ pc[v] = "push_cas" => next'[item[v]] = next[item[v]]
  BY <1>2, <1>3, LinkWriteInv
<1>5. PoolTypeOK'
  BY <1>1, <1>3, <1>4 DEF PoolTypeOK, FiberOrNull
<1>6. TagInv'
  BY <1>1, <1>3 DEF TagInv
<1>7. FreshInv'
  BY <1>1, <1>3, <1>4 DEF FreshInv
<1> QED  BY <1>4, <1>5, <1>6, <1>7 DEF IInv

(* The run queues use fibers that are not in the pool. *)
LEMMA UseFibersInv ==
  ASSUME IInv, UseFibers
  PROVE  IInv'
<1>1. PoolTypeOK /\ LinksArePool /\ OneOwner /\ TagInv /\ FreshInv
  BY DEF IInv
<1>2. /\ UNCHANGED <<top, pc, h, nx, item, pool, age>>
      /\ next' \in [Fibers -> FiberOrNull] /\ hand' \in [Workers -> SUBSET Fibers]
      /\ \A f \in Elems(pool) : next'[f] = next[f]
      /\ \A v, w \in Workers : v # w => hand'[v] \cap hand'[w] = {}
      /\ \A w \in Workers : pc[w] \in {"push_link", "push_cas"} =>
           item[w] \in hand'[w] /\ next'[item[w]] = next[item[w]]
  BY DEF UseFibers, FiberOrNull
<1>3. PoolTypeOK'
  BY <1>1, <1>2 DEF PoolTypeOK, FiberOrNull
<1>4. LinksArePool'
  <2>1. \A i \in DOMAIN pool : pool[i] \in Elems(pool)
    BY DEF Elems
  <2> QED  BY <1>1, <1>2, <2>1 DEF LinksArePool
<1>5. OneOwner'
  <2>1. UNION {hand'[w] : w \in Workers} = UNION {hand[w] : w \in Workers}
    BY DEF UseFibers
  <2>2. ASSUME NEW w \in Workers, NEW f \in hand'[w] PROVE f \notin Elems(pool)
    <3>1. PICK v \in Workers : f \in hand[v]
      BY <2>1, <2>2
    <3> QED  BY <3>1, <1>1 DEF OneOwner
  <2> QED  BY <1>1, <1>2, <2>2 DEF OneOwner
<1>6. TagInv'
  BY <1>1, <1>2 DEF TagInv
<1>7. FreshInv'
  <2>1. ASSUME NEW w \in Workers, pc[w] = "pop_cas", age[w] = 0
        PROVE  nx[w] = next'[h[w][1]]
    <3>1. h[w] = top /\ nx[w] = next[top[1]] /\ top[1] # Null
      BY <1>1, <2>1 DEF FreshInv, PoolTypeOK
    <3>2. top[1] \in Elems(pool)
      BY <3>1, FrontFacts
    <3> QED  BY <3>1, <3>2, <1>2
  <2> QED  BY <1>1, <1>2, <2>1 DEF FreshInv
<1> QED  BY <1>3, <1>4, <1>5, <1>6, <1>7 DEF IInv

(* A successful swap ages every other worker's copy of the head by one. *)
LEMMA SwapInv ==
  ASSUME IInv, NEW w \in Workers, NEW x, top' = <<x, NextTag(top[2])>>,
         TagsSuffice, Swapped, Goto(w, "idle"), UNCHANGED <<next, h>>,
         \A v \in Workers : v # w => item'[v] = item[v]
  PROVE  /\ top'[2] \in Tags /\ age' \in [Workers -> Tags]
         /\ pc' \in [Workers -> {"idle", "pop_next", "pop_cas", "push_link", "push_cas"}]
         /\ pc'[w] = "idle" /\ \A v \in Workers : v # w => pc'[v] = pc[v]
         /\ TagInv' /\ FreshInv'
<1>1. PoolTypeOK /\ TagInv /\ FreshInv
  BY DEF IInv
<1>2. pc'[w] = "idle" /\ \A v \in Workers : v # w => pc'[v] = pc[v]
  BY <1>1 DEF PoolTypeOK, Goto
<1>3. pc' \in [Workers -> {"idle", "pop_next", "pop_cas", "push_link", "push_cas"}]
  BY <1>1 DEF PoolTypeOK, Goto
<1>4. top[2] \in Tags /\ \A v \in Workers : h[v][2] \in Tags /\ age[v] \in Tags
  BY <1>1 DEF PoolTypeOK, Tags
<1>5. top'[2] = NextTag(top[2]) /\ top'[2] \in Tags
  BY <1>4, TagAssumption DEF NextTag, Tags
<1>6. \A v \in Workers : age'[v] = IF pc'[v] = "idle" THEN 0 ELSE age[v] + 1
  BY DEF Swapped
<1>7. \A v \in Workers : pc'[v] # "idle" => pc[v] = pc'[v] /\ v # w /\ age[v] < TagMod - 1 /\ age'[v] = age[v] + 1 /\ age'[v] # 0
  BY <1>2, <1>4, <1>6 DEF TagsSuffice, Tags
<1>8. \A v \in Workers : age'[v] \in Tags
  BY <1>4, <1>6, <1>7, TagAssumption DEF Tags
<1>9. age' \in [Workers -> Tags]
  BY <1>8 DEF Swapped
<1>10. TagInv'
  <2>1. SUFFICES ASSUME NEW v \in Workers
                 PROVE  /\ pc'[v] = "idle" => age'[v] = 0
                        /\ pc'[v] # "idle" => top'[2] = Advance(h[v][2], age'[v])
    BY DEF TagInv
  <2>2. ASSUME pc'[v] # "idle"
        PROVE  top'[2] = Advance(h[v][2], age'[v])
    <3>1. top[2] = Advance(h[v][2], age[v])
      BY <1>1, <1>7, <2>2 DEF TagInv
    <3>2. age[v] < TagMod - 1 /\ age'[v] = age[v] + 1
      BY <1>7, <2>2
    <3> QED  BY <3>1, <3>2, <1>4, <1>5, TagAssumption DEF Advance, NextTag, Tags
  <2> QED  BY <2>2, <1>6
<1>11. FreshInv'
  <2>1. \A v \in Workers : pc'[v] # "idle" => age'[v] # 0
    BY <1>7
  <2>2. \A v \in Workers : pc'[v] = "push_cas" => next'[item'[v]] = h'[v][1]
    BY <1>1, <1>7 DEF FreshInv
  <2> QED  BY <2>1, <2>2 DEF FreshInv
<1> QED  BY <1>2, <1>3, <1>5, <1>9, <1>10, <1>11

(* A failed swap loads the head again. *)
LEMMA ReloadInv ==
  ASSUME IInv, NEW w \in Workers, NEW l \in {"idle", "pop_next", "push_link"}, Goto(w, l),
         h' = [h EXCEPT ![w] = top], age' = [age EXCEPT ![w] = 0],
         UNCHANGED <<top, next, item>>, \A v \in Workers : v # w => nx'[v] = nx[v]
  PROVE  /\ h' \in [Workers -> FiberOrNull \X Tags] /\ age' \in [Workers -> Tags]
         /\ pc' \in [Workers -> {"idle", "pop_next", "pop_cas", "push_link", "push_cas"}]
         /\ pc'[w] = l /\ h'[w] = top /\ \A v \in Workers : v # w => pc'[v] = pc[v] /\ h'[v] = h[v]
         /\ TagInv' /\ FreshInv'
<1>1. PoolTypeOK /\ TagInv /\ FreshInv
  BY DEF IInv
<1>2. pc'[w] = l /\ \A v \in Workers : v # w => pc'[v] = pc[v]
  BY <1>1 DEF PoolTypeOK, Goto
<1>3. pc' \in [Workers -> {"idle", "pop_next", "pop_cas", "push_link", "push_cas"}]
  BY <1>1 DEF PoolTypeOK, Goto
<1>4. h'[w] = top /\ h' \in [Workers -> FiberOrNull \X Tags] /\ \A v \in Workers : v # w => h'[v] = h[v]
  BY <1>1 DEF PoolTypeOK, Tags, FiberOrNull
<1>5. age'[w] = 0 /\ age' \in [Workers -> Tags] /\ \A v \in Workers : v # w => age'[v] = age[v]
  BY <1>1, TagAssumption DEF PoolTypeOK, Tags
<1>6. top[2] \in Tags
  BY <1>1 DEF PoolTypeOK, Tags
<1>7. TagInv'
  BY <1>1, <1>2, <1>4, <1>5, <1>6, TagAssumption DEF TagInv, Advance, Tags
<1>8. FreshInv'
  BY <1>1, <1>2, <1>4, <1>5 DEF FreshInv
<1> QED  BY <1>2, <1>3, <1>4, <1>5, <1>7, <1>8

(* The swap of rt_pool_pop takes the front of the pool. *)
LEMMA PopCasInv ==
  ASSUME IInv, NEW w \in Workers, PopCas(w)
  PROVE  IInv'
<1>1. PoolTypeOK /\ LinksArePool /\ OneOwner /\ TagInv /\ FreshInv
  BY DEF IInv
<1>2. pc[w] = "pop_cas" /\ UNCHANGED <<next, item>> /\ nx' = [nx EXCEPT ![w] = Null]
  BY DEF PopCas
<1>3. nx' \in [Workers -> FiberOrNull] /\ \A v \in Workers : v # w => nx'[v] = nx[v]
  BY <1>1, <1>2 DEF PoolTypeOK, FiberOrNull
<1>4. CASE top = h[w]
  <2>1. /\ TagsSuffice /\ top' = <<nx[w], NextTag(h[w][2])>>
        /\ hand' = [hand EXCEPT ![w] = @ \cup {h[w][1]}] /\ pool' = Tail(pool)
        /\ Goto(w, "idle") /\ Swapped /\ UNCHANGED h
    BY <1>4 DEF PopCas
  <2>2. /\ top'[2] \in Tags /\ age' \in [Workers -> Tags]
        /\ pc' \in [Workers -> {"idle", "pop_next", "pop_cas", "push_link", "push_cas"}]
        /\ pc'[w] = "idle" /\ \A v \in Workers : v # w => pc'[v] = pc[v]
        /\ TagInv' /\ FreshInv'
    BY <1>2, <1>4, <2>1, SwapInv
  <2>3. age[w] = 0 /\ nx[w] = next[top[1]] /\ top[1] # Null
    <3>1. age[w] = 0
      BY <1>2, <1>4, SwapIsFresh
    <3> QED  BY <3>1, <1>1, <1>2, <1>4 DEF FreshInv, PoolTypeOK
  <2>4. /\ pool # <<>> /\ Head(pool) = top[1] /\ top[1] = pool[1] /\ 1 \in DOMAIN pool
        /\ top[1] \in Elems(pool) /\ Len(pool) \in Nat /\ Len(pool) > 0
    BY <2>3, FrontFacts
  <2>5. pool \in Seq(Fibers) /\ top[1] \in Fibers
    BY <1>1, <2>3 DEF PoolTypeOK
  <2>6. /\ Tail(pool) \in Seq(Fibers) /\ Elems(pool) = Elems(Tail(pool)) \cup {top[1]}
        /\ Distinct(Tail(pool)) /\ top[1] \notin Elems(Tail(pool))
    BY <2>4, <2>5, <1>1, PopFacts DEF OneOwner
  <2>7. /\ hand'[w] = hand[w] \cup {top[1]} /\ \A v \in Workers : v # w => hand'[v] = hand[v]
        /\ hand' \in [Workers -> SUBSET Fibers]
    BY <1>1, <1>4, <2>1, <2>5 DEF PoolTypeOK
  <2>8. PoolTypeOK'
    <3>1. top' \in FiberOrNull \X Tags
      BY <1>1, <2>1, <2>2 DEF PoolTypeOK, FiberOrNull
    <3>2. \A v \in Workers : pc'[v] \in {"push_link", "push_cas"} => item'[v] \in hand'[v]
      BY <1>1, <1>2, <2>2, <2>7 DEF PoolTypeOK
    <3>3. \A v \in Workers : pc'[v] \in {"pop_next", "pop_cas"} => h'[v][1] # Null
      BY <1>1, <2>1, <2>2 DEF PoolTypeOK
    <3> QED  BY <1>1, <1>2, <1>3, <2>1, <2>2, <2>6, <2>7, <3>1, <3>2, <3>3 DEF PoolTypeOK, FiberOrNull, Tags
  <2>9. LinksArePool'
    <3>1. /\ Len(Tail(pool)) = Len(pool) - 1 /\ DOMAIN Tail(pool) = 1..Len(pool) - 1
          /\ \A i \in 1..Len(pool) - 1 : Tail(pool)[i] = pool[i + 1]
      BY <2>4, <2>5
    <3>2. DOMAIN pool = 1..Len(pool)
      BY <2>5
    <3>3. \A i \in 1..Len(pool) : next[pool[i]] = IF i < Len(pool) THEN pool[i + 1] ELSE Null
      BY <1>1, <3>2 DEF LinksArePool
    <3>4. top'[1] = IF Tail(pool) = <<>> THEN Null ELSE Tail(pool)[1]
      <4>1. top'[1] = IF 1 < Len(pool) THEN pool[1 + 1] ELSE Null
        BY <2>1, <2>3, <2>4, <3>3
      <4>2. Tail(pool) = <<>> <=> Len(Tail(pool)) = 0
        <5>1. Tail(pool) \in Seq(Fibers)
          BY <2>6
        <5> QED  BY <5>1, EmptyLen
      <4> QED  BY <4>1, <4>2, <2>4, <3>1
    <3>5. ASSUME NEW i \in 1..Len(pool) - 1
          PROVE  next[Tail(pool)[i]] = IF i < Len(pool) - 1 THEN Tail(pool)[i + 1] ELSE Null
      <4>1. i + 1 \in 1..Len(pool) /\ Tail(pool)[i] = pool[i + 1]
        BY <2>4, <3>1, <3>5
      <4>2. i < Len(pool) - 1 => Tail(pool)[i + 1] = pool[(i + 1) + 1]
        BY <2>4, <3>1, <3>5
      <4> QED  BY <2>4, <4>1, <4>2, <3>3
    <3> QED  BY <1>2, <2>1, <3>1, <3>4, <3>5 DEF LinksArePool
  <2>10. OneOwner'
    BY <1>1, <2>1, <2>4, <2>6, <2>7 DEF OneOwner
  <2> QED  BY <2>2, <2>8, <2>9, <2>10 DEF IInv
<1>5. CASE top # h[w]
  <2> DEFINE l == IF top[1] = Null THEN "idle" ELSE "pop_next"
  <2>1. /\ h' = [h EXCEPT ![w] = top] /\ Goto(w, l) /\ age' = [age EXCEPT ![w] = 0]
        /\ UNCHANGED <<top, hand, pool>>
    BY <1>5 DEF PopCas
  <2>2. l \in {"idle", "pop_next", "push_link"}
    OBVIOUS
  <2> HIDE DEF l
  <2>3. /\ h' \in [Workers -> FiberOrNull \X Tags] /\ age' \in [Workers -> Tags]
        /\ pc' \in [Workers -> {"idle", "pop_next", "pop_cas", "push_link", "push_cas"}]
        /\ pc'[w] = l /\ h'[w] = top /\ \A v \in Workers : v # w => pc'[v] = pc[v] /\ h'[v] = h[v]
        /\ TagInv' /\ FreshInv'
    BY <1>2, <1>3, <2>1, <2>2, ReloadInv
  <2>4. PoolTypeOK'
    BY <1>1, <1>2, <1>3, <2>1, <2>3 DEF PoolTypeOK, FiberOrNull, Tags, l
  <2>5. LinksArePool' /\ OneOwner'
    BY <1>1, <1>2, <2>1 DEF LinksArePool, OneOwner
  <2> QED  BY <2>3, <2>4, <2>5 DEF IInv
<1> QED  BY <1>4, <1>5

(* The swap of rt_pool_push puts the fiber in front of the pool. *)
LEMMA PushCasInv ==
  ASSUME IInv, NEW w \in Workers, PushCas(w)
  PROVE  IInv'
<1>1. PoolTypeOK /\ LinksArePool /\ OneOwner /\ TagInv /\ FreshInv
  BY DEF IInv
<1>2. pc[w] = "push_cas" /\ UNCHANGED <<next, nx>>
  BY DEF PushCas
<1>3. CASE top = h[w]
  <2> DEFINE f == item[w]
             p == <<f>> \o pool
  <2>1. /\ TagsSuffice /\ top' = <<f, NextTag(h[w][2])>>
        /\ hand' = [hand EXCEPT ![w] = @ \ {f}] /\ pool' = p
        /\ item' = [item EXCEPT ![w] = Null]
        /\ Goto(w, "idle") /\ Swapped /\ UNCHANGED h
    BY <1>3 DEF PushCas
  <2>2. item' \in [Workers -> FiberOrNull] /\ \A v \in Workers : v # w => item'[v] = item[v]
    BY <1>1, <2>1 DEF PoolTypeOK, FiberOrNull
  <2>3. /\ top'[2] \in Tags /\ age' \in [Workers -> Tags]
        /\ pc' \in [Workers -> {"idle", "pop_next", "pop_cas", "push_link", "push_cas"}]
        /\ pc'[w] = "idle" /\ \A v \in Workers : v # w => pc'[v] = pc[v]
        /\ TagInv' /\ FreshInv'
    BY <1>2, <1>3, <2>1, <2>2, SwapInv
  <2>4. f \in hand[w] /\ f \in Fibers /\ pool \in Seq(Fibers) /\ next[f] = top[1]
    BY <1>1, <1>2, <1>3 DEF PoolTypeOK, FreshInv
  <2>5. f \notin Elems(pool)
    BY <1>1, <2>4 DEF OneOwner
  <2>6. p \in Seq(Fibers) /\ p # <<>> /\ Elems(p) = Elems(pool) \cup {f} /\ Distinct(p)
    BY <1>1, <2>4, <2>5, PushFacts DEF OneOwner
  <2>7. /\ hand'[w] = hand[w] \ {f} /\ \A v \in Workers : v # w => hand'[v] = hand[v]
        /\ hand' \in [Workers -> SUBSET Fibers]
    BY <1>1, <2>1 DEF PoolTypeOK
  <2>8. PoolTypeOK'
    <3>1. top' \in FiberOrNull \X Tags
      BY <2>1, <2>3, <2>4 DEF FiberOrNull
    <3>2. \A v \in Workers : pc'[v] \in {"push_link", "push_cas"} => item'[v] \in hand'[v]
      BY <1>1, <2>2, <2>3, <2>7 DEF PoolTypeOK
    <3>3. \A v \in Workers : pc'[v] \in {"pop_next", "pop_cas"} => h'[v][1] # Null
      BY <1>1, <2>1, <2>3 DEF PoolTypeOK
    <3> QED  BY <1>1, <1>2, <2>1, <2>2, <2>3, <2>6, <2>7, <3>1, <3>2, <3>3 DEF PoolTypeOK, FiberOrNull, Tags
  <2>9. LinksArePool'
    <3>1. Len(pool) \in Nat /\ DOMAIN pool = 1..Len(pool)
      BY <2>4
    <3>2. /\ Len(p) = Len(pool) + 1 /\ DOMAIN p = 1..Len(pool) + 1 /\ p[1] = f
          /\ \A i \in 1..Len(pool) : p[i + 1] = pool[i]
      BY <2>4
    <3> HIDE DEF p
    <3>3. top'[1] = p[1]
      BY <2>1, <3>2
    <3>4. ASSUME NEW i \in 1..Len(pool) + 1
          PROVE  next[p[i]] = IF i < Len(pool) + 1 THEN p[i + 1] ELSE Null
      <4>1. CASE i = 1
        <5>1. next[p[i]] = IF pool = <<>> THEN Null ELSE pool[1]
          BY <4>1, <2>4, <3>2, <1>1 DEF LinksArePool
        <5>2. pool = <<>> <=> Len(pool) = 0
          BY <2>4, EmptyLen
        <5>3. 1 < Len(pool) + 1 => p[1 + 1] = pool[1]
          BY <3>1, <3>2
        <5> QED  BY <4>1, <5>1, <5>2, <5>3, <3>1
      <4>2. CASE i # 1
        <5>1. i - 1 \in 1..Len(pool) /\ p[i] = pool[i - 1]
          <6>1. i - 1 \in 1..Len(pool) /\ (i - 1) + 1 = i
            BY <4>2, <3>4, <3>1
          <6> QED  BY <6>1, <3>2
        <5>2. next[pool[i - 1]] = IF i - 1 < Len(pool) THEN pool[(i - 1) + 1] ELSE Null
          BY <5>1, <3>1, <1>1 DEF LinksArePool
        <5>3. i - 1 < Len(pool) => p[i + 1] = pool[(i - 1) + 1]
          BY <3>1, <3>2, <3>4, <4>2
        <5> QED  BY <5>1, <5>2, <5>3, <3>1, <3>4
      <4> QED  BY <4>1, <4>2
    <3> QED  BY <1>2, <2>1, <2>6, <3>2, <3>3, <3>4 DEF LinksArePool
  <2>10. OneOwner'
    <3> HIDE DEF p, f
    <3>1. Distinct(pool') /\ Elems(pool') = Elems(pool) \cup {f}
      BY <2>1, <2>6
    <3> QED  BY <1>1, <2>4, <2>7, <3>1 DEF OneOwner
  <2> QED  BY <2>3, <2>8, <2>9, <2>10 DEF IInv
<1>4. CASE top # h[w]
  <2>1. /\ h' = [h EXCEPT ![w] = top] /\ Goto(w, "push_link") /\ age' = [age EXCEPT ![w] = 0]
        /\ UNCHANGED <<top, hand, item, pool>>
    BY <1>4 DEF PushCas
  <2>2. /\ h' \in [Workers -> FiberOrNull \X Tags] /\ age' \in [Workers -> Tags]
        /\ pc' \in [Workers -> {"idle", "pop_next", "pop_cas", "push_link", "push_cas"}]
        /\ pc'[w] = "push_link" /\ h'[w] = top /\ \A v \in Workers : v # w => pc'[v] = pc[v] /\ h'[v] = h[v]
        /\ TagInv' /\ FreshInv'
    BY <1>2, <2>1, ReloadInv
  <2>3. PoolTypeOK'
    BY <1>1, <1>2, <2>1, <2>2 DEF PoolTypeOK, FiberOrNull, Tags
  <2>4. LinksArePool' /\ OneOwner'
    BY <1>1, <1>2, <2>1 DEF LinksArePool, OneOwner
  <2> QED  BY <2>2, <2>3, <2>4 DEF IInv
<1> QED  BY <1>3, <1>4

-----------------------------------------------------------------------------
(* The empty pool. *)
LEMMA InitInv == Init => IInv
<1>1. SUFFICES ASSUME Init PROVE IInv
  OBVIOUS
<1>2. PICK w0 \in Workers : hand = [w \in Workers |-> IF w = w0 THEN Fibers ELSE {}]
  BY <1>1 DEF Init
<1>3. PoolTypeOK
  BY <1>1, <1>2, TagAssumption DEF Init, PoolTypeOK
<1>4. LinksArePool
  BY <1>1, NullAssumption DEF Init, LinksArePool
<1>5. OneOwner
  <2>1. Elems(pool) = {} /\ Distinct(pool)
    BY <1>1, EmptyFacts DEF Init
  <2> QED  BY <1>2, <2>1 DEF OneOwner
<1>6. TagInv /\ FreshInv
  BY <1>1 DEF Init, TagInv, FreshInv
<1> QED  BY <1>3, <1>4, <1>5, <1>6 DEF IInv

(* Every step of the pool, and a step that changes nothing, keeps the      *)
(* invariant.                                                              *)
LEMMA NextInv == IInv /\ [Next]_vars => IInv'
<1>1. SUFFICES ASSUME IInv, [Next]_vars PROVE IInv'
  OBVIOUS
<1>2. ASSUME NEW w \in Workers,
             PopLoad(w) \/ PopNext(w) \/ PopCas(w) \/ PushLoad(w) \/ PushLink(w) \/ PushCas(w)
      PROVE  IInv'
  BY <1>1, <1>2, PopLoadInv, PopNextInv, PopCasInv, PushLoadInv, PushLinkInv, PushCasInv
<1>3. CASE UNCHANGED vars
  BY <1>1, <1>3 DEF vars, IInv, PoolTypeOK, LinksArePool, OneOwner, TagInv, FreshInv
<1>4. CASE UseFibers
  BY <1>1, <1>4, UseFibersInv
<1> QED  BY <1>1, <1>2, <1>3, <1>4 DEF Next

(* Whatever the workers do at once, the pool of rt_pool_push and rt_pool_pop *)
(* is one list, a fiber has one owner, and a tag seen is not seen again.     *)
THEOREM PoolInvariant == Spec => []IInv
BY InitInv, NextInv, PTL DEF Spec

(* The variables of the pool keep their types. *)
THEOREM PoolTypeCorrect == Spec => []PoolTypeOK
BY PoolInvariant, PTL DEF IInv

(* rt_pool_pop never installs a stale link: the links spell the pool. *)
THEOREM PoolLinksCorrect == Spec => []LinksArePool
BY PoolInvariant, PTL DEF IInv

(* rt_pool_pop never hands out a fiber that is in use. *)
THEOREM FiberHasOneOwner == Spec => []OneOwner
BY PoolInvariant, PTL DEF IInv
=============================================================================
