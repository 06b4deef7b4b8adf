------------------------------ MODULE RunQueue ------------------------------
(***************************************************************************)
(* The lock-free run queues of runtime/rt_sched.c as linked lists: one     *)
(* load, one exchange or one compare-and-swap per step.  A worker pops and *)
(* pushes its own queue, drains its ready list and steals from its peers;  *)
(* any worker pushes to any ready list (an unpark).                        *)
(*                                                                         *)
(* The pop reads h->next before its compare-and-swap while a thief may     *)
(* detach the list: the swap is safe only because a fiber that left the    *)
(* owner's queue comes back to it through the owner alone.                 *)
(*                                                                         *)
(* Memory is sequentially consistent here; the source's orders (release    *)
(* on publish, acquire on detach) are not modelled.                        *)
(***************************************************************************)
EXTENDS Naturals, Sequences, FiniteSets

CONSTANTS Workers, Fibers, Null

VARIABLES head,    \* rt_worker.local
          rhead,   \* rt_worker.ready
          next,    \* pli_fiber.next
          pc,      \* the worker's place in the queue code
          h,       \* its local variable h: the head it loaded
          nx,      \* its local variable next, or n: the rest of a list it walks
          item,    \* the first fiber of the list it publishes or has detached
          last,    \* the last fiber of the list it publishes
          kept,    \* the first fiber of the half a thief keeps
          dest,    \* the queue it publishes to: <<"local" or "ready", worker>>
          cont,    \* where it goes on after publishing
          hand     \* the fibers it runs or is about to queue

vars == <<head, rhead, next, pc, h, nx, item, last, kept, dest, cont, hand>>

Init ==
  /\ head = [w \in Workers |-> Null] /\ rhead = [w \in Workers |-> Null]
  /\ next = [f \in Fibers |-> Null]
  /\ pc = [w \in Workers |-> "idle"] /\ cont = [w \in Workers |-> "idle"]
  /\ h = [w \in Workers |-> Null] /\ nx = [w \in Workers |-> Null]
  /\ item = [w \in Workers |-> Null] /\ last = [w \in Workers |-> Null]
  /\ kept = [w \in Workers |-> Null] /\ dest = [w \in Workers |-> <<"local", w>>]
  /\ \E w0 \in Workers : hand = [w \in Workers |-> IF w = w0 THEN Fibers ELSE {}]

Goto(w, label) == pc' = [pc EXCEPT ![w] = label]

(* The fibers from p to q along the links, or to the end of the list.  A   *)
(* cycle shows as a repeated fiber.                                        *)
Chain(p, q) ==
  LET c[k \in 0..Cardinality(Fibers) + 1, x \in Fibers \cup {Null}] ==
        IF x = Null \/ k = 0 THEN <<>>
        ELSE IF x = q THEN <<x>>
        ELSE <<x>> \o c[k - 1, next[x]]
  IN  c[Cardinality(Fibers) + 1, p]
List(p) == Chain(p, Null)

rt_list_tail(p) == List(p)[Len(List(p))]

-----------------------------------------------------------------------------
(* Publishing the list first .. lst on a queue: rt_queue_push (one fiber), *)
(* rt_queue_push_list, and the end of rt_queue_steal.                      *)

Publish(w, first, lst, queue, then) ==
  /\ item' = [item EXCEPT ![w] = first] /\ last' = [last EXCEPT ![w] = lst]
  /\ dest' = [dest EXCEPT ![w] = queue] /\ cont' = [cont EXCEPT ![w] = then]
  /\ Goto(w, "load")

(* Load the head and link the list in front of it. *)
PublishLoad(w) ==
  /\ pc[w] = "load"
  /\ LET v == dest[w][2]
         top == IF dest[w][1] = "local" THEN head[v] ELSE rhead[v] IN
       /\ h' = [h EXCEPT ![w] = top]
       /\ next' = [next EXCEPT ![last[w]] = top]
  /\ Goto(w, "cas")
  /\ UNCHANGED <<head, rhead, nx, item, last, kept, dest, cont, hand>>

(* The registers a finished publication leaves behind are dead. *)
Published(w) ==
  /\ Goto(w, cont[w])
  /\ hand' = [hand EXCEPT ![w] = @ \ {item[w]}]
  /\ item' = [item EXCEPT ![w] = Null] /\ last' = [last EXCEPT ![w] = Null]
  /\ h' = [h EXCEPT ![w] = Null]
  /\ dest' = [dest EXCEPT ![w] = <<"local", w>>]
  /\ cont' = [cont EXCEPT ![w] = "idle"]
  /\ UNCHANGED <<next, nx, kept>>

(* The compare-and-swap: done, or load again. *)
PublishCas(w) ==
  /\ pc[w] = "cas"
  /\ LET v == dest[w][2] IN
       \/ /\ dest[w][1] = "local" /\ head[v] = h[w]
          /\ head' = [head EXCEPT ![v] = item[w]]
          /\ Published(w) /\ UNCHANGED rhead
       \/ /\ dest[w][1] = "ready" /\ rhead[v] = h[w]
          /\ rhead' = [rhead EXCEPT ![v] = item[w]]
          /\ Published(w) /\ UNCHANGED head
       \/ /\ (IF dest[w][1] = "local" THEN head[v] ELSE rhead[v]) # h[w]
          /\ Goto(w, "load")
          /\ UNCHANGED <<head, rhead, next, h, nx, item, last, kept, dest, cont, hand>>

(* rt_queue_push of a fiber the worker holds: spawn queues the displaced   *)
(* runnext task, an unpark pushes to the owner's ready list.               *)
PushLocal(w) ==
  /\ pc[w] = "idle"
  /\ \E f \in hand[w] : Publish(w, f, f, <<"local", w>>, "idle")
  /\ UNCHANGED <<head, rhead, next, h, nx, kept, hand>>

PushReady(w) ==
  /\ pc[w] = "idle"
  /\ \E f \in hand[w], v \in Workers : Publish(w, f, f, <<"ready", v>>, "idle")
  /\ UNCHANGED <<head, rhead, next, h, nx, kept, hand>>

-----------------------------------------------------------------------------
(* rt_queue_pop on the worker's own queue.                                 *)

PopLoad(w) ==
  /\ pc[w] \in {"idle", "pop"}
  /\ h' = [h EXCEPT ![w] = head[w]]
  /\ Goto(w, IF head[w] = Null THEN "idle" ELSE "pop_next")
  /\ UNCHANGED <<head, rhead, next, nx, item, last, kept, dest, cont, hand>>

PopNext(w) ==
  /\ pc[w] = "pop_next"
  /\ nx' = [nx EXCEPT ![w] = next[h[w]]]
  /\ Goto(w, "pop_cas")
  /\ UNCHANGED <<head, rhead, next, h, item, last, kept, dest, cont, hand>>

(* Mutant: the head is stored without comparing it. *)
PopStore(w) ==
  /\ pc[w] = "pop_cas"
  /\ head' = [head EXCEPT ![w] = nx[w]]
  /\ next' = [next EXCEPT ![h[w]] = Null]
  /\ hand' = [hand EXCEPT ![w] = @ \cup {h[w]}]
  /\ h' = [h EXCEPT ![w] = Null] /\ nx' = [nx EXCEPT ![w] = Null]
  /\ Goto(w, "idle")
  /\ UNCHANGED <<rhead, item, last, kept, dest, cont>>

(* Mutant: the link is cleared even if the swap has failed. *)
PopCasClears(w) ==
  /\ pc[w] = "pop_cas"
  /\ h' = [h EXCEPT ![w] = Null] /\ nx' = [nx EXCEPT ![w] = Null]
  /\ next' = [next EXCEPT ![h[w]] = Null]
  /\ IF head[w] = h[w]
     THEN /\ head' = [head EXCEPT ![w] = nx[w]]
          /\ hand' = [hand EXCEPT ![w] = @ \cup {h[w]}]
          /\ Goto(w, "idle")
     ELSE Goto(w, "pop") /\ UNCHANGED <<head, hand>>
  /\ UNCHANGED <<rhead, item, last, kept, dest, cont>>

PopCas(w) ==
  /\ pc[w] = "pop_cas"
  /\ h' = [h EXCEPT ![w] = Null] /\ nx' = [nx EXCEPT ![w] = Null]
  /\ IF head[w] = h[w]
     THEN /\ head' = [head EXCEPT ![w] = nx[w]]
          /\ next' = [next EXCEPT ![h[w]] = Null]
          /\ hand' = [hand EXCEPT ![w] = @ \cup {h[w]}]
          /\ Goto(w, "idle")
     ELSE Goto(w, "pop") /\ UNCHANGED <<head, next, hand>>
  /\ UNCHANGED <<rhead, item, last, kept, dest, cont>>

-----------------------------------------------------------------------------
(* rt_queue_steal: detach the victim's list, split it in private, publish  *)
(* the older half back, then the newer half on the thief's own queue.      *)

StealDetach(w) ==
  /\ pc[w] = "idle"
  /\ \E v \in Workers \ {w} :
       /\ head[v] # Null
       /\ item' = [item EXCEPT ![w] = head[v]]
       /\ head' = [head EXCEPT ![v] = Null]
       /\ dest' = [dest EXCEPT ![w] = <<"local", v>>]
  /\ Goto(w, "split")
  /\ UNCHANGED <<rhead, next, h, nx, last, kept, cont, hand>>

(* Mutant: the thief keeps the older half and gives the newer one back. *)
StealSplitOlder(w) ==
  /\ pc[w] = "split"
  /\ LET list == List(item[w])
         half == Len(list) \div 2 IN
       IF Len(list) < 2
       THEN /\ Goto(w, "keep")
            /\ kept' = [kept EXCEPT ![w] = item[w]]
            /\ item' = [item EXCEPT ![w] = Null]
            /\ UNCHANGED <<next, last, dest, cont>>
       ELSE /\ Publish(w, item[w], list[half], dest[w], "keep")
            /\ kept' = [kept EXCEPT ![w] = list[half + 1]]
            /\ next' = [next EXCEPT ![list[half]] = Null]
  /\ UNCHANGED <<head, rhead, h, nx, hand>>

StealSplit(w) ==
  /\ pc[w] = "split"
  /\ kept' = [kept EXCEPT ![w] = item[w]]
  /\ LET list == List(item[w])
         half == Len(list) \div 2 IN
       IF Len(list) < 2
       THEN /\ Goto(w, "keep")
            /\ item' = [item EXCEPT ![w] = Null]
            /\ UNCHANGED <<next, last, dest, cont>>
       ELSE /\ Publish(w, list[half + 1], rt_list_tail(item[w]), dest[w], "keep")
            /\ next' = [next EXCEPT ![list[half]] = Null]
  /\ UNCHANGED <<head, rhead, h, nx, hand>>

StealKeep(w) ==
  /\ pc[w] = "keep"
  /\ Publish(w, kept[w], rt_list_tail(kept[w]), <<"local", w>>, "idle")
  /\ kept' = [kept EXCEPT ![w] = Null]
  /\ UNCHANGED <<head, rhead, next, h, nx, hand>>

(* rt_queue_pop_best with priorities in use: detach the own list, take the *)
(* preferred task out of it, publish the rest.                             *)
BestDetach(w) ==
  /\ pc[w] = "idle" /\ head[w] # Null
  /\ item' = [item EXCEPT ![w] = head[w]]
  /\ head' = [head EXCEPT ![w] = Null]
  /\ Goto(w, "best")
  /\ UNCHANGED <<rhead, next, h, nx, last, kept, dest, cont, hand>>

BestTake(w) ==
  /\ pc[w] = "best"
  /\ \E i \in DOMAIN List(item[w]) :
       LET list == List(item[w])
           best == list[i]
           rest == IF i = 1 THEN next[best] ELSE item[w] IN
       /\ next' = [f \in Fibers |-> IF f = best THEN Null
                                    ELSE IF i > 1 /\ f = list[i - 1] THEN next[best]
                                    ELSE next[f]]
       /\ hand' = [hand EXCEPT ![w] = @ \cup {best}]
       /\ item' = [item EXCEPT ![w] = rest]
       /\ Goto(w, IF rest = Null THEN "idle" ELSE "rest")
  /\ UNCHANGED <<head, rhead, h, nx, last, kept, dest, cont>>

BestRest(w) ==
  /\ pc[w] = "rest"
  /\ Publish(w, item[w], rt_list_tail(item[w]), <<"local", w>>, "idle")
  /\ UNCHANGED <<head, rhead, next, h, nx, kept, hand>>

-----------------------------------------------------------------------------
(* rt_worker_loop: detach the ready list and queue its fibers one by one.  *)

DrainDetach(w) ==
  /\ pc[w] = "idle" /\ rhead[w] # Null
  /\ nx' = [nx EXCEPT ![w] = rhead[w]]
  /\ rhead' = [rhead EXCEPT ![w] = Null]
  /\ Goto(w, "drain")
  /\ UNCHANGED <<head, next, h, item, last, kept, dest, cont, hand>>

DrainNext(w) ==
  /\ pc[w] = "drain"
  /\ IF nx[w] = Null
     THEN Goto(w, "idle") /\ UNCHANGED <<nx, item, last, dest, cont>>
     ELSE /\ nx' = [nx EXCEPT ![w] = next[nx[w]]]
          /\ Publish(w, nx[w], nx[w], <<"local", w>>, "drain")
  /\ UNCHANGED <<head, rhead, next, h, kept, hand>>

-----------------------------------------------------------------------------
Step(w) ==
  \/ PublishLoad(w) \/ PublishCas(w) \/ PushLocal(w) \/ PushReady(w)
  \/ PopLoad(w) \/ PopNext(w) \/ PopCas(w)
  \/ StealDetach(w) \/ StealSplit(w) \/ StealKeep(w)
  \/ BestDetach(w) \/ BestTake(w) \/ BestRest(w)
  \/ DrainDetach(w) \/ DrainNext(w)

Next == \E w \in Workers : Step(w)

Spec == Init /\ [][Next]_vars

-----------------------------------------------------------------------------
Publishing(w) == pc[w] \in {"load", "cas"}

(* The list a worker has detached and not yet given back. *)
Mine(w) ==
  IF pc[w] \in {"split", "best", "rest"} THEN List(item[w])
  ELSE IF pc[w] = "keep" THEN List(kept[w])
  ELSE IF pc[w] = "drain" THEN List(nx[w])
  ELSE IF ~Publishing(w) \/ item[w] \in hand[w] THEN <<>>
  ELSE IF cont[w] = "keep" THEN List(kept[w]) \o Chain(item[w], last[w])
  ELSE IF cont[w] = "drain" THEN <<item[w]>> \o List(nx[w])
  ELSE Chain(item[w], last[w])

Abs == INSTANCE RunQueueAbs WITH
         local <- [w \in Workers |-> List(head[w])],
         ready <- [w \in Workers |-> List(rhead[w])],
         mine <- [w \in Workers |-> Mine(w)]

(* The pointer code of the run queues implements the sequences the         *)
(* scheduler works with: pushes, pops, steals, drains and priority scans   *)
(* of all workers, interleaved at every load and compare-and-swap, each    *)
(* take effect at one instant.                                             *)
Implements == Abs!AbsSpec

(* The fibers that are with a worker. *)
With(w) ==
  hand[w] \cup UNION {{q[i] : i \in DOMAIN q} : q \in {List(head[w]), List(rhead[w]), Mine(w)}}

(* The places of a fiber: positions in queues and private lists, hands. *)
Places(f) ==
  UNION {LET In(place, q) == {<<place, w, i>> : i \in {j \in DOMAIN q : q[j] = f}}
         IN  In("local", List(head[w])) \cup In("ready", List(rhead[w]))
               \cup In("mine", Mine(w)) \cup In("hand", IF f \in hand[w] THEN <<f>> ELSE <<>>)
         : w \in Workers}
=============================================================================
