----------------------------- MODULE FiberPool -----------------------------
(***************************************************************************)
(* The pool of finished fibers of runtime/rt_sched.c: a Treiber stack      *)
(* whose head packs a fiber and a generation tag (16 bits of the head      *)
(* word) so that a pop cannot succeed against a head that came back (ABA). *)
(* One load, store or compare-and-swap per step.                           *)
(*                                                                         *)
(* pli_fiber.next is also the link of the run queues: a fiber in use has   *)
(* it overwritten while a slow pop still looks at it.  Here the queues may *)
(* do that at any time (UseFibers); module FiberLists puts the real queue  *)
(* code in that place.                                                     *)
(***************************************************************************)
EXTENDS Queues, FiniteSets

CONSTANTS Workers, Fibers, Null,
          TagMod     \* the number of tags: 2^16 in the code

ASSUME NullAssumption == Null \notin Fibers
ASSUME TagAssumption == TagMod \in Nat /\ TagMod > 1

VARIABLES top,     \* rt_pool_head: <<fiber, tag>>
          next,    \* pli_fiber.next
          pc,      \* where each worker is
          h,       \* its copy of the head
          nx,      \* rt_pool_pop: the link it read
          item,    \* rt_pool_push: the fiber it returns
          hand,    \* the fibers in use that are with each worker
          pool,    \* history: the fibers returned and not taken, newest first
          age      \* history: swaps of the head since the worker loaded it

vars == <<top, next, pc, h, nx, item, hand, pool, age>>

Init ==
  /\ top = <<Null, 0>> /\ next = [f \in Fibers |-> Null]
  /\ pc = [w \in Workers |-> "idle"]
  /\ h = [w \in Workers |-> <<Null, 0>>]
  /\ nx = [w \in Workers |-> Null] /\ item = [w \in Workers |-> Null]
  /\ \E w0 \in Workers : hand = [w \in Workers |-> IF w = w0 THEN Fibers ELSE {}]
  /\ pool = <<>> /\ age = [w \in Workers |-> 0]

Goto(w, label) == pc' = [pc EXCEPT ![w] = label]

(* Mutant: the tag does not change. *)
SameTag(tag) == tag

NextTag(tag) == IF tag = TagMod - 1 THEN 0 ELSE tag + 1

(* Nobody stays between its load and its swap for as many swaps as there   *)
(* are tags: the bound that the 16-bit tag relies on.                      *)
TagsSuffice == \A w \in Workers : pc[w] # "idle" => age[w] < TagMod - 1
Swapped == age' = [w \in Workers |-> IF pc'[w] = "idle" THEN 0 ELSE age[w] + 1]

(* rt_pool_pop: load the head (an empty pool ends it) ... *)
PopLoad(w) ==
  /\ pc[w] = "idle" /\ top[1] # Null
  /\ h' = [h EXCEPT ![w] = top]
  /\ Goto(w, "pop_next")
  /\ UNCHANGED <<top, next, nx, item, hand, pool, age>>

(* ... the link of the fiber it saw, which may be gone by now ... *)
PopNext(w) ==
  /\ pc[w] = "pop_next"
  /\ nx' = [nx EXCEPT ![w] = next[h[w][1]]]
  /\ Goto(w, "pop_cas")
  /\ UNCHANGED <<top, next, h, item, hand, pool, age>>

(* ... and swap; a failed swap has loaded the head again. *)
PopCas(w) ==
  /\ pc[w] = "pop_cas"
  /\ nx' = [nx EXCEPT ![w] = Null]
  /\ IF top = h[w]
     THEN /\ TagsSuffice
          /\ top' = <<nx[w], NextTag(h[w][2])>>
          /\ hand' = [hand EXCEPT ![w] = @ \cup {h[w][1]}]
          /\ pool' = Tail(pool)
          /\ Goto(w, "idle")
          /\ Swapped
          /\ UNCHANGED h
     ELSE /\ h' = [h EXCEPT ![w] = top]
          /\ Goto(w, IF top[1] = Null THEN "idle" ELSE "pop_next")
          /\ age' = [age EXCEPT ![w] = 0]
          /\ UNCHANGED <<top, hand, pool>>
  /\ UNCHANGED <<next, item>>

(* rt_pool_push: load the head, link the fiber, swap. *)
PushLoad(w) ==
  /\ pc[w] = "idle"
  /\ \E f \in hand[w] : item' = [item EXCEPT ![w] = f]
  /\ h' = [h EXCEPT ![w] = top]
  /\ Goto(w, "push_link")
  /\ UNCHANGED <<top, next, nx, hand, pool, age>>

PushLink(w) ==
  /\ pc[w] = "push_link"
  /\ next' = [next EXCEPT ![item[w]] = h[w][1]]
  /\ Goto(w, "push_cas")
  /\ UNCHANGED <<top, h, nx, item, hand, pool, age>>

(* Mutant: the worker goes on using the fiber it has returned. *)
PushCasKeeps(w) ==
  /\ pc[w] = "push_cas"
  /\ top = h[w] /\ TagsSuffice
  /\ top' = <<item[w], NextTag(h[w][2])>>
  /\ pool' = <<item[w]>> \o pool
  /\ item' = [item EXCEPT ![w] = Null]
  /\ Goto(w, "idle")
  /\ Swapped
  /\ UNCHANGED <<next, h, nx, hand>>

PushCas(w) ==
  /\ pc[w] = "push_cas"
  /\ IF top = h[w]
     THEN /\ TagsSuffice
          /\ top' = <<item[w], NextTag(h[w][2])>>
          /\ hand' = [hand EXCEPT ![w] = @ \ {item[w]}]
          /\ pool' = <<item[w]>> \o pool
          /\ item' = [item EXCEPT ![w] = Null]
          /\ Goto(w, "idle")
          /\ Swapped
          /\ UNCHANGED h
     ELSE /\ h' = [h EXCEPT ![w] = top]
          /\ Goto(w, "push_link")
          /\ age' = [age EXCEPT ![w] = 0]
          /\ UNCHANGED <<top, hand, item, pool>>
  /\ UNCHANGED <<next, nx>>

(* Fibers in use: the run queues write their links and move them from one  *)
(* worker to another, except a fiber that its worker is returning.         *)
UseFibers ==
  /\ next' \in [Fibers -> Fibers \cup {Null}]
  /\ \A f \in Elems(pool) : next'[f] = next[f]
  /\ hand' \in [Workers -> SUBSET Fibers]
  /\ UNION {hand'[w] : w \in Workers} = UNION {hand[w] : w \in Workers}
  /\ \A v, w \in Workers : v # w => hand'[v] \cap hand'[w] = {}
  /\ \A w \in Workers : pc[w] \in {"push_link", "push_cas"} =>
       item[w] \in hand'[w] /\ next'[item[w]] = next[item[w]]
  /\ UNCHANGED <<top, pc, h, nx, item, pool, age>>

Next ==
  \/ UseFibers
  \/ \E w \in Workers :
       \/ PopLoad(w) \/ PopNext(w) \/ PopCas(w)
       \/ PushLoad(w) \/ PushLink(w) \/ PushCas(w)

Spec == Init /\ [][Next]_vars

-----------------------------------------------------------------------------
(* Every variable keeps its type; a worker that returns a fiber holds it   *)
(* until the swap.                                                         *)
PoolTypeOK ==
  /\ top \in (Fibers \cup {Null}) \X (0..TagMod - 1)
  /\ age \in [Workers -> 0..TagMod - 1]
  /\ next \in [Fibers -> Fibers \cup {Null}]
  /\ pc \in [Workers -> {"idle", "pop_next", "pop_cas", "push_link", "push_cas"}]
  /\ h \in [Workers -> (Fibers \cup {Null}) \X (0..TagMod - 1)]
  /\ nx \in [Workers -> Fibers \cup {Null}]
  /\ item \in [Workers -> Fibers \cup {Null}]
  /\ hand \in [Workers -> SUBSET Fibers] /\ pool \in Seq(Fibers)
  /\ \A w \in Workers : pc[w] \in {"push_link", "push_cas"} => item[w] \in hand[w]
  /\ \A w \in Workers : pc[w] \in {"pop_next", "pop_cas"} => h[w][1] # Null

(* The links from the head spell the fibers that were returned and not     *)
(* taken: a pop never installs a link that changed since it was read.      *)
LinksArePool ==
  /\ top[1] = IF pool = <<>> THEN Null ELSE pool[1]
  /\ \A i \in DOMAIN pool : next[pool[i]] = IF i < Len(pool) THEN pool[i + 1] ELSE Null

(* A fiber is pooled once or held by one worker: a pop never hands out a   *)
(* fiber a peer took and returned in between, so two tasks never share a   *)
(* stack.                                                                  *)
OneOwner ==
  /\ Distinct(pool)
  /\ \A w \in Workers : hand[w] \cap Elems(pool) = {}
  /\ \A v, w \in Workers : v # w => hand[v] \cap hand[w] = {}
=============================================================================
