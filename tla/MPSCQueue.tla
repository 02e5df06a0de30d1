----------------------------- MODULE MPSCQueue -----------------------------
(***************************************************************************)
(* The lock-free queues with many producers and one consumer of            *)
(* 3_pool/queue_design-master/MPSCQueue.h: MPSCQueueNonIntrusive, which    *)
(* puts each item into a node of its own, and MPSCQueueIntrusive, which    *)
(* links the items themselves.  Line 145 chooses between them; here kind   *)
(* does.  There is one action per access to a shared word.                 *)
(*                                                                         *)
(* The threads are those of main_mpscqueue.cpp: the producers enqueue new  *)
(* items and leave, the consumer dequeues and deletes until it has enough  *)
(* of it, and the main thread joins them and runs the destructor, which    *)
(* dequeues what is left.                                                  *)
(*                                                                         *)
(* The loads and stores are those of a sequentially consistent memory; the *)
(* only word stored by several threads is _head, by exchange.              *)
(***************************************************************************)
EXTENDS Naturals, Sequences

CONSTANTS
  Producers,   \* the threads that enqueue
  Consumer,    \* the thread that dequeues
  Main,        \* the thread that owns the queue
  Items,       \* the items, each enqueued once
  Stub,        \* the first node of the one kind and _dummy of the other
  Kinds,       \* the kinds of queue to look at
  NULL

Takers == {Consumer, Main}
Threads == Producers \cup Takers
Nodes == Items \cup {Stub}

ASSUME RolesDistinct ==
  Consumer # Main /\ Takers \cap Producers = {} /\ Producers # {}
ASSUME NodesDistinct == Stub \notin Items /\ NULL \notin Nodes
ASSUME KindsKnown == Kinds \subseteq {"plain", "intrusive"}

VARIABLES
  kind,
  pc,          \* the next access of each thread
  node,        \* the node a thread enqueues; for a plain queue, named by its item
  prev,        \* prevHead of Enqueue
  got,         \* the item Dequeue has returned to a thread
  head,
  tail,
  next,        \* the link of each node
  unsent,      \* the items not enqueued yet
  delivered,   \* the items returned by Dequeue
  freed,       \* the nodes that were deleted
  order,       \* history: the nodes from tail on, in the order of the exchanges
  quiet        \* history: since Dequeue was called there was an item to take,
               \* and no Enqueue by a producer was under way

vars == <<kind, pc, node, prev, got, head, tail, next, unsent, delivered,
          freed, order, quiet>>

Init ==
  /\ kind \in Kinds
  /\ pc = [t \in Threads |-> IF t = Main THEN "join" ELSE "idle"]
  /\ node = [t \in Threads |-> NULL]
  /\ prev = [t \in Threads |-> NULL]
  /\ got = [t \in Takers |-> NULL]
  /\ head = Stub
  /\ tail = Stub
  /\ next = [n \in Nodes |-> NULL]
  /\ unsent = Items
  /\ delivered = {}
  /\ freed = {}
  /\ order = <<Stub>>
  /\ quiet = FALSE

Goto(t, from, to) ==
  /\ pc[t] = from
  /\ pc' = [pc EXCEPT ![t] = to]

InOrder(n) == \E k \in 1 .. Len(order) : order[k] = n

\* s without its element at h
Without(s, h) == [k \in 1 .. Len(s) - 1 |-> IF k < h THEN s[k] ELSE s[k + 1]]

\* The items in the queue, oldest first.  A plain queue has returned the item
\* of its first node already; _dummy is none.
Content ==
  IF kind = "plain" THEN Tail(order)
  ELSE IF InOrder(Stub) THEN Without(order, CHOOSE h \in 1 .. Len(order) : order[h] = Stub)
  ELSE order

-----------------------------------------------------------------------------
(* Enqueue *)

\* The allocation of the node, or the store at line 92.
Prepare(p) ==
  /\ Goto(p, "idle", "exchange")
  /\ \E i \in unsent :
       /\ node' = [node EXCEPT ![p] = i]
       /\ next' = [next EXCEPT ![i] = NULL]
       /\ unsent' = unsent \ {i}
  /\ UNCHANGED <<kind, prev, got, head, tail, delivered, freed, order, quiet>>

\* Faulty: the old head is read, but the new one is not stored.
ExchangeNothing(t) ==
  /\ Goto(t, "exchange", "link")
  /\ prev' = [prev EXCEPT ![t] = head]
  /\ order' = Append(order, node[t])
  /\ quiet' = (quiet /\ t \in Takers)
  /\ UNCHANGED <<kind, node, got, head, tail, next, unsent, delivered, freed>>

Exchange(t) ==
  /\ Goto(t, "exchange", "link")
  /\ prev' = [prev EXCEPT ![t] = head]
  /\ head' = node[t]
  /\ order' = Append(order, node[t])
  /\ quiet' = (quiet /\ t \in Takers)
  /\ UNCHANGED <<kind, node, got, tail, next, unsent, delivered, freed>>

Link(t) ==
  /\ Goto(t, "link", IF t \in Producers THEN "idle" ELSE "reread")
  /\ next' = [next EXCEPT ![prev[t]] = node[t]]
  /\ node' = [node EXCEPT ![t] = NULL]
  /\ prev' = [prev EXCEPT ![t] = NULL]
  /\ UNCHANGED <<kind, got, head, tail, unsent, delivered, freed, order, quiet>>

-----------------------------------------------------------------------------
(* Dequeue *)

Call(t, from) ==
  /\ Goto(t, from, "first")
  /\ quiet' = (Content # <<>> /\ \A p \in Producers : pc[p] # "link")
  /\ UNCHANGED <<kind, node, prev, got, head, tail, next, unsent, delivered,
                 freed, order>>

\* _tail moves to the next node.
Advance ==
  /\ tail' = next[tail]
  /\ order' = Tail(order)

\* Faulty: the node that becomes the first one is deleted.
ReadPlainFreeingNext(t) ==
  /\ kind = "plain"
  /\ next[tail] # NULL
  /\ Goto(t, "first", "got")
  /\ got' = [got EXCEPT ![t] = next[tail]]
  /\ delivered' = delivered \cup {next[tail]}
  /\ freed' = freed \cup {next[tail]}
  /\ Advance
  /\ UNCHANGED <<kind, node, prev, head, next, unsent, quiet>>

\* Faulty: the item of the first node is returned again.
ReadPlainOld(t) ==
  /\ kind = "plain"
  /\ next[tail] # NULL
  /\ Goto(t, "first", "got")
  /\ got' = [got EXCEPT ![t] = tail]
  /\ delivered' = delivered \cup {tail}
  /\ freed' = freed \cup {tail}
  /\ Advance
  /\ UNCHANGED <<kind, node, prev, head, next, unsent, quiet>>

ReadPlain(t) ==
  /\ kind = "plain"
  /\ next[tail] # NULL
  /\ Goto(t, "first", "got")
  /\ got' = [got EXCEPT ![t] = next[tail]]
  /\ delivered' = delivered \cup {next[tail]}
  /\ freed' = freed \cup {tail}
  /\ Advance
  /\ UNCHANGED <<kind, node, prev, head, next, unsent, quiet>>

\* There is no next node: lines 42-43 and 104-105.
ReadNothing(t) ==
  /\ tail = Stub \/ kind = "plain"
  /\ next[tail] = NULL
  /\ Goto(t, "first", "false")
  /\ UNCHANGED <<kind, node, prev, got, head, tail, next, unsent, delivered,
                 freed, order, quiet>>

SkipDummy(t) ==
  /\ kind = "intrusive"
  /\ tail = Stub /\ next[tail] # NULL
  /\ Goto(t, "first", "second")
  /\ Advance
  /\ UNCHANGED <<kind, node, prev, got, head, next, unsent, delivered, freed, quiet>>

\* tail has a successor and is returned.
TakeLinked(t, from) ==
  /\ next[tail] # NULL
  /\ Goto(t, from, "got")
  /\ got' = [got EXCEPT ![t] = tail]
  /\ delivered' = delivered \cup {tail}
  /\ Advance
  /\ UNCHANGED <<kind, node, prev, head, next, unsent, freed, quiet>>

ReadIntrusive(t) ==
  /\ kind = "intrusive" /\ tail # Stub
  /\ \/ TakeLinked(t, "first")
     \/ TakeLinked(t, "second")
     \/ /\ next[tail] = NULL
        /\ Goto(t, "first", "compare") \/ Goto(t, "second", "compare")
        /\ UNCHANGED <<kind, node, prev, got, head, tail, next, unsent,
                       delivered, freed, order, quiet>>

\* Faulty: the link of _dummy is not cleared.
CompareHeadDirty(t) ==
  /\ Goto(t, "compare", IF tail = head THEN "exchange" ELSE "false")
  /\ node' = IF tail = head THEN [node EXCEPT ![t] = Stub] ELSE node
  /\ UNCHANGED <<kind, prev, got, head, tail, next, unsent, delivered, freed, order,
                 quiet>>

\* Faulty: the last item waits for another one.
CompareHeadOnly(t) ==
  /\ Goto(t, "compare", "false")
  /\ UNCHANGED <<kind, node, prev, got, head, tail, next, unsent, delivered,
                 freed, order, quiet>>

\* If tail is the last node, _dummy is enqueued behind it.
CompareHead(t) ==
  /\ Goto(t, "compare", IF tail = head THEN "exchange" ELSE "false")
  /\ node' = IF tail = head THEN [node EXCEPT ![t] = Stub] ELSE node
  /\ next' = IF tail = head THEN [next EXCEPT ![Stub] = NULL] ELSE next
  /\ UNCHANGED <<kind, prev, got, head, tail, unsent, delivered, freed, order, quiet>>

Reread(t) ==
  \/ TakeLinked(t, "reread")
  \/ /\ next[tail] = NULL
     /\ Goto(t, "reread", "false")
     /\ UNCHANGED <<kind, node, prev, got, head, tail, next, unsent, delivered,
                    freed, order, quiet>>

-----------------------------------------------------------------------------
(* The threads of main_mpscqueue.cpp and the destructors *)

\* The caller deletes the item, which is the node of an intrusive queue, and
\* dequeues again.
UseItem(t) ==
  /\ Goto(t, "got", IF t = Main THEN "drain" ELSE "idle")
  /\ freed' = IF kind = "intrusive" THEN freed \cup {got[t]} ELSE freed
  /\ got' = [got EXCEPT ![t] = NULL]
  /\ UNCHANGED <<kind, node, prev, head, tail, next, unsent, delivered, order, quiet>>

\* Dequeue returned false.  The consumer of main_mpscqueue.cpp leaves; one that
\* polls calls again.
GetNothing ==
  /\ Goto(Consumer, "false", "idle") \/ Goto(Consumer, "false", "gone")
  /\ UNCHANGED <<kind, node, prev, got, head, tail, next, unsent, delivered,
                 freed, order, quiet>>

Leave(p) ==
  /\ unsent = {}
  /\ Goto(p, "idle", "gone")
  /\ UNCHANGED <<kind, node, prev, got, head, tail, next, unsent, delivered,
                 freed, order, quiet>>

Joined == \A t \in Producers \cup {Consumer} : pc[t] = "gone"

Drain ==
  /\ Joined
  /\ Goto(Main, "join", "drain")
  /\ UNCHANGED <<kind, node, prev, got, head, tail, next, unsent, delivered,
                 freed, order, quiet>>

\* A plain queue deletes the node that is left.
FreeLast ==
  /\ Goto(Main, "false", "destroyed")
  /\ freed' = IF kind = "plain" THEN freed \cup {head} ELSE freed
  /\ UNCHANGED <<kind, node, prev, got, head, tail, next, unsent, delivered, order,
                 quiet>>

Produce(p) == Prepare(p) \/ Exchange(p) \/ Link(p) \/ Leave(p)

Dequeue(t) ==
  \/ ReadPlain(t) \/ ReadNothing(t) \/ SkipDummy(t) \/ ReadIntrusive(t)
  \/ CompareHead(t) \/ Exchange(t) \/ Link(t) \/ Reread(t)

Consume == Call(Consumer, "idle") \/ Dequeue(Consumer) \/ UseItem(Consumer) \/ GetNothing

Destruct ==
  Drain \/ Call(Main, "drain") \/ Dequeue(Main) \/ UseItem(Main) \/ FreeLast

Finished == pc[Main] = "destroyed" /\ UNCHANGED vars

Next == (\E p \in Producers : Produce(p)) \/ Consume \/ Destruct \/ Finished

Spec == Init /\ [][Next]_vars

\* Every thread keeps running; the loops of the program have no other end.
Fairness == (\A p \in Producers : WF_vars(Produce(p))) /\ WF_vars(Consume) /\ WF_vars(Destruct)

FairSpec == Spec /\ Fairness

-----------------------------------------------------------------------------
\* The words of MPSCQueue.h and the locals of Enqueue and Dequeue.
TypeOK ==
  /\ kind \in Kinds
  /\ pc \in [Threads ->
             {"idle", "exchange", "link", "first", "second", "compare", "reread",
              "got", "false", "gone", "join", "drain", "destroyed"}]
  /\ node \in [Threads -> Nodes \cup {NULL}]
  /\ prev \in [Threads -> Nodes \cup {NULL}]
  /\ got \in [Takers -> Items \cup {NULL}]
  /\ head \in Nodes /\ tail \in Nodes
  /\ next \in [Nodes -> Nodes \cup {NULL}]
  /\ unsent \subseteq Items
  /\ delivered \subseteq Items
  /\ freed \subseteq Nodes
  /\ order \in Seq(Nodes)
  /\ quiet \in BOOLEAN

\* Between _tail and _head the links follow the order of the exchanges, except
\* where a thread is between lines 34 and 35 (93 and 94): it has the two nodes
\* in hand.  Every such thread stands at its own gap.
LinksFollowExchanges ==
  /\ TypeOK
  /\ order # <<>> /\ order[1] = tail /\ order[Len(order)] = head
  /\ next[head] = NULL
  /\ \A i \in 1 .. Len(order) - 1 :
       \/ next[order[i]] = order[i + 1]
       \/ /\ next[order[i]] = NULL
          /\ \E t \in Threads :
               pc[t] = "link" /\ prev[t] = order[i] /\ node[t] = order[i + 1]
  /\ \A t \in Threads : pc[t] = "link" =>
       \E i \in 1 .. Len(order) - 1 :
         prev[t] = order[i] /\ node[t] = order[i + 1] /\ next[prev[t]] = NULL

\* No thread uses the link of a node that was deleted: the consumer deletes only
\* nodes that the producer behind them has finished with.  After the destructor
\* every item was returned, and every node deleted.
NodesOutliveUse ==
  /\ pc[Main] = "destroyed" =>
       delivered = Items /\ freed = IF kind = "plain" THEN Nodes ELSE Items
  /\ head \notin freed \/ pc[Main] = "destroyed"
  /\ \A t \in Threads :
       /\ pc[t] = "link" => prev[t] \notin freed
       /\ pc[t] \in {"exchange", "link"} => node[t] \notin freed
       /\ pc[t] \in {"first", "second", "compare", "reread"} => tail \notin freed
       /\ t \in Takers /\ pc[t] = "got" => kind = "plain" \/ got[t] \notin freed

\* Dequeue returns false only if the queue was empty, or an Enqueue was under
\* way, at some time during the call.
FalseOnlyIfBusy == \A t \in Takers : pc[t] = "false" => ~quiet

\* An item is in the queue from its exchange on, and Dequeue returns the oldest,
\* which leaves the queue.
Fifo == INSTANCE FifoQueue WITH Users <- Takers, queue <- Content, out <- got
ImplementsFifo == Fifo!Spec

\* Whatever is enqueued is dequeued, by the consumer or by the destructor.
EventuallyDelivered ==
  \A i \in Items : InOrder(i) ~> i \in delivered
=============================================================================
