-------------------------- MODULE MPSCQueueProofs --------------------------
(***************************************************************************)
(* The queues of MPSCQueue.h are queues, and the node of an item outlives  *)
(* every access to it, for any number of producers and items.              *)
(***************************************************************************)
EXTENDS MPSCQueue, SequenceTheorems, TLAPS

Busy(t) == pc[t] \in {"exchange", "link"}

\* The places in Dequeue that only an intrusive queue has, all but the first of
\* them after _dummy was skipped.
Intrusive == {"second", "compare", "exchange", "link", "reread"}

InDequeue == Intrusive \cup {"first", "false"}

\* Who can be where: one taker at a time, and none before the others are joined.
Calls ==
  /\ \A p \in Producers :
       /\ pc[p] \in {"idle", "exchange", "link", "gone"}
       /\ pc[p] = "gone" => unsent = {}
  /\ pc[Consumer] \notin {"join", "drain", "destroyed"}
  /\ pc[Main] \notin {"idle", "gone"}
  /\ pc[Main] # "join" => Joined
  /\ \A t \in Takers :
       /\ pc[t] \in Intrusive => kind = "intrusive" /\ tail # Stub
       /\ got[t] # NULL <=> pc[t] = "got"

\* Whoever is in Enqueue has a node of its own, which nobody else has seen
\* before the exchange.
Hands ==
  /\ \A t \in Threads : Busy(t) <=> node[t] # NULL
  /\ \A p \in Producers : node[p] # Stub
  /\ \A t \in Takers : node[t] \in {Stub, NULL}
  /\ \A t, u \in Threads : Busy(t) /\ node[t] = node[u] => t = u
  /\ \A t \in Threads : pc[t] = "exchange" =>
       ~InOrder(node[t]) /\ next[node[t]] = NULL /\ node[t] \notin delivered
  /\ \A i \in unsent :
       ~InOrder(i) /\ i \notin delivered /\ \A t \in Threads : node[t] # i

\* Where each node is.  The first node of a plain queue is there although its
\* item was delivered.
Places ==
  /\ \A j, k \in 1 .. Len(order) : order[j] = order[k] => j = k
  /\ kind = "plain" =>
       tail \in delivered \cup {Stub} /\ \A k \in 2 .. Len(order) : order[k] # Stub
  /\ \A i \in delivered : InOrder(i) => kind = "plain" /\ i = tail
  /\ \A i \in Items :
       i \in unsent \cup delivered \/ InOrder(i) \/ \E p \in Producers : node[p] = i
  /\ \A t \in Takers : got[t] # NULL => got[t] \in delivered
  /\ IF pc[Main] = "destroyed"
     THEN delivered = Items /\ freed = IF kind = "plain" THEN Nodes ELSE Items
     ELSE freed = IF kind = "plain" THEN (delivered \cup {Stub}) \ {tail}
                  ELSE {i \in delivered : \A t \in Takers : got[t] # i}

\* What a taker has read stays true as long as no producer exchanges, which is
\* certain once the producers are joined.
Settled ==
  \A t \in Takers : pc[t] \in InDequeue /\ (quiet \/ t = Main) =>
    /\ \A p \in Producers : pc[p] # "link"
    /\ quiet /\ pc[t] = "first" => tail # head \/ (kind = "intrusive" /\ tail # Stub)
    /\ pc[t] \in {"compare", "exchange"} => tail = head
    /\ pc[t] = "link" => prev[t] = tail
    /\ pc[t] = "reread" => next[tail] # NULL
    /\ pc[t] = "false" => ~quiet /\ tail = head /\ (kind = "intrusive" => tail = Stub)

QueueInv == LinksFollowExchanges /\ Calls /\ Hands /\ Places /\ Settled

-----------------------------------------------------------------------------
\* The first node of the queue has a successor: that is the second in order,
\* and nobody stands between the two.
LEMMA Successor ==
  ASSUME LinksFollowExchanges, Places, next[tail] # NULL
  PROVE  /\ Len(order) \in Nat /\ Len(order) > 1
         /\ next[tail] = order[2] /\ order[2] # tail
         /\ Tail(order) \in Seq(Nodes) /\ Len(Tail(order)) = Len(order) - 1
         /\ \A k \in 1 .. Len(order) - 1 : Tail(order)[k] = order[k + 1]
         /\ \A n \in Nodes : (\E k \in 1 .. Len(Tail(order)) : Tail(order)[k] = n)
                               <=> InOrder(n) /\ n # tail
<1> USE NodesDistinct DEF LinksFollowExchanges, TypeOK
<1>1. Len(order) \in Nat /\ Len(order) > 1
  OBVIOUS
<1>2. next[tail] = order[2] /\ order[2] # tail
  BY <1>1 DEF Places
<1>3. /\ Tail(order) \in Seq(Nodes) /\ Len(Tail(order)) = Len(order) - 1
      /\ \A k \in 1 .. Len(order) - 1 : Tail(order)[k] = order[k + 1]
  BY <1>1, HeadTailProperties
<1>4. ASSUME NEW n \in Nodes
      PROVE  (\E k \in 1 .. Len(Tail(order)) : Tail(order)[k] = n) <=> InOrder(n) /\ n # tail
  <2>1. ASSUME NEW k \in 1 .. Len(Tail(order)), Tail(order)[k] = n
        PROVE  InOrder(n) /\ n # tail
    BY <1>1, <1>3, <2>1 DEF InOrder, Places
  <2>2. ASSUME InOrder(n), n # tail
        PROVE  \E k \in 1 .. Len(Tail(order)) : Tail(order)[k] = n
    <3>1. PICK k \in 1 .. Len(order) : order[k] = n
      BY <2>2 DEF InOrder
    <3>2. k # 1
      BY <2>2, <3>1
    <3>3. k - 1 \in 1 .. Len(Tail(order)) /\ Tail(order)[k - 1] = n
      BY <1>1, <1>3, <3>1, <3>2
    <3> QED BY <3>3
  <2> QED BY <2>1, <2>2
<1> QED BY <1>1, <1>2, <1>3, <1>4

\* A node is allocated: nothing of the queue changes.
LEMMA PrepareStep ==
  ASSUME QueueInv, NEW p \in Producers, Prepare(p)
  PROVE  QueueInv'
<1> USE RolesDistinct, NodesDistinct DEF QueueInv, Goto, Threads, Takers, Nodes
<1> PICK i \in unsent : /\ node' = [node EXCEPT ![p] = i]
                        /\ next' = [next EXCEPT ![i] = NULL]
                        /\ unsent' = unsent \ {i}
  BY DEF Prepare
<1>1. TypeOK'
  BY DEF Prepare, LinksFollowExchanges, TypeOK
<1>2. LinksFollowExchanges'
  BY <1>1 DEF Prepare, LinksFollowExchanges, TypeOK, Hands, InOrder
<1>3. Calls'
  BY DEF Prepare, LinksFollowExchanges, TypeOK, Calls, Joined, Intrusive
<1>4. Hands'
  BY DEF Prepare, LinksFollowExchanges, TypeOK, Calls, Hands, Busy, InOrder
<1>5. Places'
  <2>1. ASSUME NEW n \in Items
        PROVE  n \in unsent' \cup delivered \/ InOrder(n) \/ \E q \in Producers : node'[q] = n
    BY DEF LinksFollowExchanges, TypeOK, Hands, Busy, Prepare, Places
  <2> QED BY <2>1 DEF Prepare, Places, LinksFollowExchanges, TypeOK, InOrder
<1>6. Settled'
  <2>1. InOrder(tail)
    BY DEF LinksFollowExchanges, TypeOK, InOrder
  <2> QED
    BY <2>1 DEF Prepare, LinksFollowExchanges, TypeOK, Calls, Hands, Joined, Settled, InDequeue,
                Intrusive
<1> QED BY <1>2, <1>3, <1>4, <1>5, <1>6

\* While one taker is in a call, the other is not.
LEMMA OneTaker ==
  ASSUME Calls, NEW t \in Takers, NEW u \in Takers, t # u,
         pc[t] \notin {"join", "gone", "destroyed"}
  PROVE  pc[u] \notin InDequeue \cup {"got"}
BY RolesDistinct DEF Calls, Joined, Takers, InDequeue, Intrusive

LEMMA Appended ==
  ASSUME TypeOK, NEW n \in Nodes, order' = Append(order, n)
  PROVE  /\ Len(order) \in Nat /\ Len(order') = Len(order) + 1
         /\ order'[Len(order) + 1] = n
         /\ \A k \in 1 .. Len(order) : order'[k] = order[k]
         /\ \A m \in Nodes : InOrder(m)' <=> InOrder(m) \/ m = n
<1>1. /\ Len(order) \in Nat /\ Len(order') = Len(order) + 1
      /\ order'[Len(order) + 1] = n
      /\ \A k \in 1 .. Len(order) : order'[k] = order[k]
  BY AppendProperties DEF TypeOK
<1> QED BY <1>1 DEF InOrder

\* The exchange appends the node, behind a gap.
LEMMA ExchangeStep ==
  ASSUME QueueInv, NEW t \in Threads, Exchange(t)
  PROVE  QueueInv'
<1> USE RolesDistinct, NodesDistinct DEF QueueInv, Goto, Threads, Takers, Nodes
<1>1. /\ node[t] \in Nodes /\ ~InOrder(node[t]) /\ next[node[t]] = NULL
      /\ node[t] \notin delivered /\ (t \in Takers => node[t] = Stub)
      /\ pc[t] = "exchange" /\ order' = Append(order, node[t])
  BY DEF Exchange, LinksFollowExchanges, TypeOK, Hands, Busy
<1>2. /\ Len(order) \in Nat /\ Len(order) > 0 /\ Len(order') = Len(order) + 1
      /\ order'[Len(order) + 1] = node[t]
      /\ \A k \in 1 .. Len(order) : order'[k] = order[k]
      /\ \A m \in Nodes : InOrder(m)' <=> InOrder(m) \/ m = node[t]
  BY <1>1, Appended DEF LinksFollowExchanges, TypeOK
<1>3. TypeOK'
  BY <1>1 DEF Exchange, LinksFollowExchanges, TypeOK
<1>4. LinksFollowExchanges'
  <2>1. /\ order' # <<>> /\ order'[1] = tail' /\ order'[Len(order')] = head'
        /\ next'[head'] = NULL
    BY <1>1, <1>2, <1>3 DEF Exchange, LinksFollowExchanges, TypeOK
  <2>2. prev'[t] = order[Len(order)] /\ node'[t] = order'[Len(order) + 1] /\ pc'[t] = "link"
    BY <1>1, <1>2 DEF Exchange, LinksFollowExchanges, TypeOK
  <2>3. ASSUME NEW k \in 1 .. Len(order') - 1
        PROVE  \/ next'[order'[k]] = order'[k + 1]
               \/ /\ next'[order'[k]] = NULL
                  /\ \E u \in Threads :
                       pc'[u] = "link" /\ prev'[u] = order'[k] /\ node'[u] = order'[k + 1]
    <3>1. CASE k = Len(order)
      BY <1>2, <2>2, <3>1 DEF Exchange, LinksFollowExchanges
    <3>2. CASE k \in 1 .. Len(order) - 1
      BY <1>1, <1>2, <3>2 DEF Exchange, LinksFollowExchanges, TypeOK
    <3> QED BY <1>2, <3>1, <3>2
  <2>4. ASSUME NEW u \in Threads, pc'[u] = "link"
        PROVE  \E k \in 1 .. Len(order') - 1 :
                 prev'[u] = order'[k] /\ node'[u] = order'[k + 1] /\ next'[prev'[u]] = NULL
    <3>1. CASE u = t
      BY <1>2, <2>2, <3>1 DEF Exchange, LinksFollowExchanges
    <3>2. CASE u # t
      BY <1>1, <1>2, <2>4, <3>2 DEF Exchange, LinksFollowExchanges, TypeOK
    <3> QED BY <3>1, <3>2
  <2> QED BY <1>3, <2>1, <2>3, <2>4 DEF LinksFollowExchanges
<1>5. Calls'
  BY DEF Exchange, LinksFollowExchanges, TypeOK, Calls, Joined, Intrusive
<1>6. Hands'
  BY <1>1, <1>2 DEF Exchange, LinksFollowExchanges, TypeOK, Hands, Busy
<1>7. Places'
  <2>1. \A j, k \in 1 .. Len(order') : order'[j] = order'[k] => j = k
    BY <1>1, <1>2 DEF Places, InOrder
  <2>2. kind = "plain" => \A k \in 2 .. Len(order') : order'[k] # Stub
    <3>1. kind = "plain" => node[t] # Stub
      BY <1>1 DEF Calls, Intrusive, Hands
    <3> QED BY <1>2, <3>1 DEF Places
  <2>3. \A i \in delivered : InOrder(i)' => kind = "plain" /\ i = tail
    BY <1>1, <1>2 DEF Places, LinksFollowExchanges, TypeOK
  <2> QED BY <1>2, <2>1, <2>2, <2>3 DEF Exchange, Places, LinksFollowExchanges, TypeOK, Calls
<1>8. Settled'
  <2>1. CASE t \in Producers
    BY <1>1, <2>1 DEF Exchange, LinksFollowExchanges, TypeOK, Calls, Joined, Settled,
                      InDequeue, Intrusive
  <2>2. CASE t \in Takers
    BY <1>1, <2>2, OneTaker DEF Exchange, LinksFollowExchanges, TypeOK, Settled, InDequeue,
                                Intrusive
  <2> QED BY <2>1, <2>2
<1> QED BY <1>4, <1>5, <1>6, <1>7, <1>8

\* The store of the link closes the thread's own gap.
LEMMA LinkStep ==
  ASSUME QueueInv, NEW t \in Threads, Link(t)
  PROVE  QueueInv'
<1> USE RolesDistinct, NodesDistinct DEF QueueInv, Goto, Threads, Takers, Nodes
<1>1. PICK j \in 1 .. Len(order) - 1 :
        prev[t] = order[j] /\ node[t] = order[j + 1] /\ next[prev[t]] = NULL
  BY DEF Link, LinksFollowExchanges
<1>2. /\ Len(order) \in Nat
      /\ \A k \in 1 .. Len(order) : order[k] \in Nodes
      /\ \A k \in 1 .. Len(order) : order[k] = order[j] => k = j
      /\ next' = [next EXCEPT ![order[j]] = order[j + 1]]
  BY <1>1 DEF Link, LinksFollowExchanges, TypeOK, Places
<1>3. TypeOK'
  BY <1>1, <1>2 DEF Link, LinksFollowExchanges, TypeOK
<1>4. LinksFollowExchanges'
  <2>1. order # <<>> /\ order[1] = tail /\ order[Len(order)] = head /\ next'[head] = NULL
    BY <1>1, <1>2 DEF LinksFollowExchanges, TypeOK
  <2>2. ASSUME NEW k \in 1 .. Len(order) - 1
        PROVE  \/ next'[order[k]] = order[k + 1]
               \/ /\ next'[order[k]] = NULL
                  /\ \E u \in Threads :
                       pc'[u] = "link" /\ prev'[u] = order[k] /\ node'[u] = order[k + 1]
    <3>1. CASE k = j
      BY <1>1, <1>2, <3>1 DEF LinksFollowExchanges, TypeOK
    <3>2. CASE k # j
      BY <1>1, <1>2, <3>2 DEF Link, LinksFollowExchanges, TypeOK
    <3> QED BY <3>1, <3>2
  <2>3. ASSUME NEW u \in Threads, pc'[u] = "link"
        PROVE  \E k \in 1 .. Len(order) - 1 :
                 prev'[u] = order[k] /\ node'[u] = order[k + 1] /\ next'[prev'[u]] = NULL
    <3>1. u # t /\ pc[u] = "link"
      BY <2>3 DEF Link, LinksFollowExchanges, TypeOK
    <3>2. PICK k \in 1 .. Len(order) - 1 :
            prev[u] = order[k] /\ node[u] = order[k + 1] /\ next[prev[u]] = NULL
      BY <3>1 DEF LinksFollowExchanges
    <3>3. k # j
      BY <1>1, <3>1, <3>2 DEF Hands, Busy
    <3> QED BY <1>2, <3>1, <3>2, <3>3 DEF Link, LinksFollowExchanges, TypeOK
  <2> QED BY <1>3, <2>1, <2>2, <2>3 DEF Link, LinksFollowExchanges
<1>5. Calls'
  BY DEF Link, LinksFollowExchanges, TypeOK, Calls, Joined, Intrusive
<1>6. Hands'
  <2>1. ASSUME NEW u \in Threads, pc'[u] = "exchange"
        PROVE  ~InOrder(node'[u]) /\ next'[node'[u]] = NULL /\ node'[u] \notin delivered
    <3>1. u # t /\ pc[u] = "exchange" /\ node'[u] = node[u] /\ node[u] # order[j]
      BY <1>1, <1>2, <2>1 DEF Link, LinksFollowExchanges, TypeOK, Hands, InOrder
    <3> QED BY <1>2, <3>1 DEF LinksFollowExchanges, TypeOK, Hands
  <2>2. InOrder(NULL) = FALSE
    BY <1>2 DEF InOrder
  <2> QED BY <2>1 DEF Link, LinksFollowExchanges, TypeOK, Hands, Busy, InOrder
<1>7. Places'
  <2>1. InOrder(node[t])
    BY <1>1, <1>2 DEF InOrder
  <2> QED BY <2>1 DEF Link, LinksFollowExchanges, TypeOK, Calls, Hands, Places, InOrder
<1>8. Settled'
  <2>1. CASE t \in Producers
    BY <2>1 DEF Link, LinksFollowExchanges, TypeOK, Calls, Joined, Settled, InDequeue,
                Intrusive
  <2>2. CASE t \in Takers
    BY <1>1, <1>2, <2>2, OneTaker
    DEF Link, LinksFollowExchanges, TypeOK, Settled, InDequeue, Intrusive
  <2> QED BY <2>1, <2>2
<1> QED BY <1>4, <1>5, <1>6, <1>7, <1>8

-----------------------------------------------------------------------------
\* The links stay as they are and tail moves to the second node.
LEMMA AdvanceKeepsLinks ==
  ASSUME LinksFollowExchanges, Places, TypeOK', next[tail] # NULL, Advance,
         UNCHANGED <<head, next, node, prev>>,
         NEW t \in Threads, NEW to, pc' = [pc EXCEPT ![t] = to],
         pc[t] # "link", to # "link"
  PROVE  LinksFollowExchanges'
<1>1. /\ Len(order) \in Nat /\ Len(order) > 1
      /\ next[tail] = order[2]
      /\ order' = Tail(order) /\ Len(order') = Len(order) - 1
      /\ \A k \in 1 .. Len(order) - 1 : order'[k] = order[k + 1]
  BY Successor DEF Advance
<1>2. order' # <<>> /\ order'[1] = tail' /\ order'[Len(order')] = head' /\ next'[head'] = NULL
  BY <1>1 DEF Advance, LinksFollowExchanges, TypeOK
<1>3. \A u \in Threads : pc'[u] = "link" <=> pc[u] = "link"
  BY DEF LinksFollowExchanges, TypeOK
<1>4. ASSUME NEW k \in 1 .. Len(order') - 1
      PROVE  \/ next'[order'[k]] = order'[k + 1]
             \/ /\ next'[order'[k]] = NULL
                /\ \E u \in Threads :
                     pc'[u] = "link" /\ prev'[u] = order'[k] /\ node'[u] = order'[k + 1]
  <2>1. k + 1 \in 1 .. Len(order) - 1 /\ order'[k] = order[k + 1] /\ order'[k + 1] = order[(k + 1) + 1]
    BY <1>1
  <2> QED BY <1>3, <2>1 DEF LinksFollowExchanges
<1>5. ASSUME NEW u \in Threads, pc'[u] = "link"
      PROVE  \E k \in 1 .. Len(order') - 1 :
               prev'[u] = order'[k] /\ node'[u] = order'[k + 1] /\ next'[prev'[u]] = NULL
  <2>1. PICK k \in 1 .. Len(order) - 1 :
          prev[u] = order[k] /\ node[u] = order[k + 1] /\ next[prev[u]] = NULL
    BY <1>3, <1>5 DEF LinksFollowExchanges
  <2>2. k # 1
    BY <2>1 DEF LinksFollowExchanges
  <2>3. k - 1 \in 1 .. Len(order') - 1 /\ order'[k - 1] = order[k] /\ order'[(k - 1) + 1] = order[k + 1]
    BY <1>1, <2>2
  <2> QED BY <2>1, <2>3
<1> QED BY <1>2, <1>4, <1>5 DEF LinksFollowExchanges

LEMMA AdvanceKeepsPlaces ==
  ASSUME LinksFollowExchanges, Places, next[tail] # NULL, Advance
  PROVE  /\ next[tail] \in Nodes /\ tail \in Nodes /\ next[tail] # tail /\ tail' = next[tail]
         /\ InOrder(next[tail]) /\ InOrder(tail)
         /\ \A n \in Nodes : InOrder(n)' <=> InOrder(n) /\ n # tail
         /\ \A j, k \in 1 .. Len(order') : order'[j] = order'[k] => j = k
         /\ kind = "plain" =>
              next[tail] # Stub /\ \A k \in 2 .. Len(order') : order'[k] # Stub
<1>1. /\ Len(order) \in Nat /\ Len(order) > 1
      /\ next[tail] = order[2] /\ order[2] # tail
      /\ order' = Tail(order) /\ Len(order') = Len(order) - 1
      /\ \A k \in 1 .. Len(order) - 1 : order'[k] = order[k + 1]
      /\ \A n \in Nodes : (\E k \in 1 .. Len(order') : order'[k] = n) <=> InOrder(n) /\ n # tail
  BY Successor DEF Advance
<1>2. /\ next[tail] \in Nodes /\ tail \in Nodes /\ tail' = next[tail]
      /\ InOrder(next[tail]) /\ InOrder(tail)
  BY <1>1 DEF Advance, LinksFollowExchanges, TypeOK, InOrder
<1>3. \A j, k \in 1 .. Len(order') : order'[j] = order'[k] => j = k
  <2> SUFFICES ASSUME NEW j \in 1 .. Len(order'), NEW k \in 1 .. Len(order'), order'[j] = order'[k]
               PROVE  j = k
    OBVIOUS
  <2>1. j + 1 \in 1 .. Len(order) /\ k + 1 \in 1 .. Len(order) /\ order[j + 1] = order[k + 1]
    BY <1>1
  <2>2. j + 1 = k + 1
    BY <2>1 DEF Places
  <2> QED BY <1>1, <2>2
<1>4. kind = "plain" => next[tail] # Stub /\ \A k \in 2 .. Len(order') : order'[k] # Stub
  BY <1>1 DEF Places
<1> QED BY <1>1, <1>2, <1>3, <1>4 DEF InOrder

\* A plain queue returns the item of the second node and deletes the first.
LEMMA ReadPlainStep ==
  ASSUME QueueInv, NEW t \in Takers, ReadPlain(t)
  PROVE  QueueInv'
<1> USE RolesDistinct, NodesDistinct DEF QueueInv, Goto, Threads, Takers, Nodes
<1>1. /\ next[tail] \in Nodes /\ tail \in Nodes /\ next[tail] # tail /\ tail' = next[tail]
      /\ InOrder(next[tail]) /\ InOrder(tail) /\ kind = "plain" /\ next[tail] # Stub
      /\ \A n \in Nodes : InOrder(n)' <=> InOrder(n) /\ n # tail
      /\ \A j, k \in 1 .. Len(order') : order'[j] = order'[k] => j = k
      /\ \A k \in 2 .. Len(order') : order'[k] # Stub
  BY AdvanceKeepsPlaces DEF ReadPlain
<1>2. next[tail] \notin delivered /\ order' \in Seq(Nodes)
  BY <1>1, Successor DEF Places, ReadPlain, Advance
<1>3. TypeOK'
  BY <1>1, <1>2 DEF ReadPlain, LinksFollowExchanges, TypeOK
<1>4. LinksFollowExchanges'
  BY <1>3, AdvanceKeepsLinks DEF ReadPlain
<1>5. Calls'
  BY <1>1 DEF ReadPlain, LinksFollowExchanges, TypeOK, Calls, Joined, Intrusive
<1>6. Hands'
  <2>1. ASSUME NEW u \in Threads, pc'[u] = "exchange"
        PROVE  ~InOrder(node[u])' /\ next[node[u]] = NULL /\ node[u] \notin delivered'
    <3>1. pc[u] = "exchange" /\ node[u] \in Nodes /\ node[u] # next[tail]
      BY <1>1, <2>1 DEF ReadPlain, LinksFollowExchanges, TypeOK, Hands, Busy
    <3> QED BY <1>1, <3>1 DEF ReadPlain, Hands
  <2>2. ASSUME NEW i \in unsent
        PROVE  ~InOrder(i)' /\ i \notin delivered'
    BY <1>1 DEF ReadPlain, LinksFollowExchanges, TypeOK, Hands
  <2> QED BY <2>1, <2>2 DEF ReadPlain, LinksFollowExchanges, TypeOK, Hands, Busy, InOrder
<1>7. Places'
  <2>1. \A i \in delivered' : InOrder(i)' => i = tail'
    BY <1>1 DEF ReadPlain, LinksFollowExchanges, TypeOK, Places
  <2>2. \A i \in Items :
          i \in unsent \cup delivered' \/ InOrder(i)' \/ \E p \in Producers : node[p] = i
    BY <1>1 DEF ReadPlain, Places
  <2>3. freed' = (delivered' \cup {Stub}) \ {tail'} /\ pc'[Main] # "destroyed"
    BY <1>1, <1>2 DEF ReadPlain, LinksFollowExchanges, TypeOK, Places, Calls
  <2> QED BY <1>1, <2>1, <2>2, <2>3 DEF ReadPlain, LinksFollowExchanges, TypeOK, Places
<1>8. Settled'
  BY OneTaker DEF ReadPlain, LinksFollowExchanges, TypeOK, Settled, InDequeue, Intrusive
<1> QED BY <1>4, <1>5, <1>6, <1>7, <1>8

\* _dummy is passed over and belongs to nobody.
LEMMA SkipDummyStep ==
  ASSUME QueueInv, NEW t \in Takers, SkipDummy(t)
  PROVE  QueueInv'
<1> USE RolesDistinct, NodesDistinct DEF QueueInv, Goto, Threads, Takers, Nodes
<1>1. /\ next[tail] \in Nodes /\ tail \in Nodes /\ next[tail] # tail /\ tail' = next[tail]
      /\ InOrder(next[tail]) /\ InOrder(tail)
      /\ kind = "intrusive" /\ tail = Stub /\ next[tail] # Stub
      /\ \A n \in Nodes : InOrder(n)' <=> InOrder(n) /\ n # tail
      /\ \A j, k \in 1 .. Len(order') : order'[j] = order'[k] => j = k
  BY AdvanceKeepsPlaces DEF SkipDummy
<1>2. order' \in Seq(Nodes)
  BY Successor DEF SkipDummy, Advance
<1>3. TypeOK'
  BY <1>1, <1>2 DEF SkipDummy, LinksFollowExchanges, TypeOK
<1>4. LinksFollowExchanges'
  BY <1>3, AdvanceKeepsLinks DEF SkipDummy
<1>5. Calls'
  BY <1>1 DEF SkipDummy, LinksFollowExchanges, TypeOK, Calls, Joined, Intrusive
<1>6. Hands'
  <2>1. ASSUME NEW u \in Threads, pc'[u] = "exchange"
        PROVE  ~InOrder(node[u])' /\ next[node[u]] = NULL /\ node[u] \notin delivered
    <3>1. pc[u] = "exchange" /\ node[u] \in Nodes
      BY <2>1 DEF SkipDummy, LinksFollowExchanges, TypeOK, Hands, Busy
    <3> QED BY <1>1, <3>1 DEF SkipDummy, Hands
  <2>2. \A i \in unsent : ~InOrder(i)'
    BY <1>1 DEF LinksFollowExchanges, TypeOK, Hands
  <2> QED BY <2>1, <2>2 DEF SkipDummy, LinksFollowExchanges, TypeOK, Hands, Busy, InOrder
<1>7. Places'
  <2>1. \A i \in delivered : ~InOrder(i)'
    BY <1>1 DEF LinksFollowExchanges, TypeOK, Places
  <2>2. \A i \in Items :
          i \in unsent \cup delivered \/ InOrder(i)' \/ \E p \in Producers : node[p] = i
    BY <1>1 DEF Places
  <2> QED BY <1>1, <2>1, <2>2 DEF SkipDummy, LinksFollowExchanges, TypeOK, Places, Calls
<1>8. Settled'
  BY <1>1, OneTaker DEF SkipDummy, LinksFollowExchanges, TypeOK, Calls, Joined, Settled, InDequeue,
                        Intrusive
<1> QED BY <1>4, <1>5, <1>6, <1>7, <1>8

\* An intrusive queue returns its first node.
LEMMA TakeLinkedStep ==
  ASSUME QueueInv, NEW t \in Takers, NEW from \in {"first", "second", "reread"},
         kind = "intrusive", tail # Stub, TakeLinked(t, from)
  PROVE  QueueInv'
<1> USE RolesDistinct, NodesDistinct DEF QueueInv, Goto, Threads, Takers, Nodes
<1>1. /\ next[tail] \in Nodes /\ tail \in Items /\ next[tail] # tail /\ tail' = next[tail]
      /\ InOrder(next[tail]) /\ InOrder(tail) /\ pc[t] = from /\ got[t] = NULL
      /\ \A n \in Nodes : InOrder(n)' <=> InOrder(n) /\ n # tail
      /\ \A j, k \in 1 .. Len(order') : order'[j] = order'[k] => j = k
  BY AdvanceKeepsPlaces DEF TakeLinked, Calls
<1>2. tail \notin delivered /\ order' \in Seq(Nodes)
  BY <1>1, Successor DEF Places, TakeLinked, Advance
<1>3. TypeOK'
  BY <1>1, <1>2 DEF TakeLinked, LinksFollowExchanges, TypeOK
<1>4. LinksFollowExchanges'
  BY <1>1, <1>3, AdvanceKeepsLinks DEF TakeLinked
<1>5. Calls'
  <2>1. \A u \in Takers : u # t => pc[u] \notin Intrusive \cup {"got"}
    BY <1>1, OneTaker DEF InDequeue
  <2> QED BY <1>1, <2>1 DEF TakeLinked, LinksFollowExchanges, TypeOK, Calls, Joined, Intrusive
<1>6. Hands'
  <2>1. ASSUME NEW u \in Threads, pc'[u] = "exchange"
        PROVE  ~InOrder(node[u])' /\ next[node[u]] = NULL /\ node[u] \notin delivered'
    <3>1. pc[u] = "exchange" /\ node[u] \in Nodes /\ node[u] # tail
      BY <1>1, <2>1 DEF TakeLinked, LinksFollowExchanges, TypeOK, Hands, Busy
    <3> QED BY <1>1, <3>1 DEF TakeLinked, Hands
  <2>2. ASSUME NEW i \in unsent
        PROVE  ~InOrder(i)' /\ i \notin delivered'
    BY <1>1 DEF TakeLinked, LinksFollowExchanges, TypeOK, Hands
  <2> QED BY <1>1, <2>1, <2>2
       DEF TakeLinked, LinksFollowExchanges, TypeOK, Hands, Busy, InOrder
<1>7. Places'
  <2>1. \A i \in delivered' : ~InOrder(i)'
    BY <1>1 DEF TakeLinked, LinksFollowExchanges, TypeOK, Places
  <2>2. \A i \in Items :
          i \in unsent \cup delivered' \/ InOrder(i)' \/ \E p \in Producers : node[p] = i
    BY <1>1 DEF TakeLinked, Places
  <2>3. freed' = {i \in delivered' : \A u \in Takers : got'[u] # i} /\ pc'[Main] # "destroyed"
    <3>1. freed = {i \in delivered : \A u \in Takers : got[u] # i} /\ pc[Main] # "destroyed"
      BY <1>1 DEF Places, Calls
    <3>2. \A i \in delivered : (\A u \in Takers : got'[u] # i) <=> (\A u \in Takers : got[u] # i)
      BY <1>1, <1>2 DEF TakeLinked, LinksFollowExchanges, TypeOK
    <3>3. got'[t] = tail /\ delivered' = delivered \cup {tail} /\ freed' = freed
      BY DEF TakeLinked, LinksFollowExchanges, TypeOK
    <3>4. pc'[Main] # "destroyed"
      BY <1>1, <3>1 DEF TakeLinked, LinksFollowExchanges, TypeOK
    <3> QED BY <3>1, <3>2, <3>3, <3>4
  <2> QED BY <1>1, <2>1, <2>2, <2>3 DEF TakeLinked, LinksFollowExchanges, TypeOK, Places
<1>8. Settled'
  BY <1>1, OneTaker DEF TakeLinked, LinksFollowExchanges, TypeOK, Settled, InDequeue, Intrusive
<1> QED BY <1>4, <1>5, <1>6, <1>7, <1>8

-----------------------------------------------------------------------------
\* A step that leaves the list alone.
LEMMA SameLinks ==
  ASSUME LinksFollowExchanges, TypeOK', UNCHANGED <<order, head, tail, next, node, prev>>,
         NEW t \in Threads, NEW to, pc' = [pc EXCEPT ![t] = to], pc[t] # "link", to # "link"
  PROVE  LinksFollowExchanges'
<1>1. \A u \in Threads : pc'[u] = "link" <=> pc[u] = "link"
  BY DEF LinksFollowExchanges, TypeOK
<1> QED BY <1>1 DEF LinksFollowExchanges

\* Without a producer between exchange and link, only the last node has no
\* successor: the taker that reads NULL stands at the end.
LEMMA NoGap ==
  ASSUME LinksFollowExchanges, Calls, NEW t \in Takers,
         pc[t] \in InDequeue \cup {"idle", "drain"}, pc[t] # "link",
         \A p \in Producers : pc[p] # "link", next[tail] = NULL
  PROVE  tail = head /\ Len(order) = 1
<1>1. \A u \in Threads : pc[u] # "link"
  BY OneTaker DEF Threads, InDequeue, Intrusive
<1>2. PICK n \in Nat : n = Len(order) /\ n > 0
  BY DEF LinksFollowExchanges, TypeOK
<1>3. n = 1
  <2> SUFFICES ASSUME n # 1
               PROVE  FALSE
    OBVIOUS
  <2>1. 1 \in 1 .. Len(order) - 1
    BY <1>2
  <2>2. next[order[1]] = order[1 + 1] /\ order[1 + 1] \in Nodes
    BY <1>1, <1>2, <2>1 DEF LinksFollowExchanges, TypeOK
  <2> QED BY <2>2, NodesDistinct DEF LinksFollowExchanges
<1> QED BY <1>2, <1>3 DEF LinksFollowExchanges

\* One node is both ends only if it is the only one.
LEMMA OnlyNode ==
  ASSUME LinksFollowExchanges, Places, tail = head
  PROVE  Len(order) = 1 /\ \A n : InOrder(n) <=> n = tail
<1>1. Len(order) \in Nat /\ Len(order) > 0
  BY DEF LinksFollowExchanges, TypeOK
<1>2. /\ 1 \in 1 .. Len(order) /\ Len(order) \in 1 .. Len(order)
      /\ order[1] = order[Len(order)]
  BY <1>1 DEF LinksFollowExchanges
<1>3. Len(order) = 1
  BY <1>2 DEF Places
<1> QED BY <1>3 DEF LinksFollowExchanges, InOrder

\* Dequeue is called: what quiet says holds now.
LEMMA CallStep ==
  ASSUME QueueInv, NEW t \in Takers, NEW from \in {"idle", "drain"}, Call(t, from)
  PROVE  QueueInv'
<1> USE RolesDistinct, NodesDistinct DEF QueueInv, Goto, Threads, Takers, Nodes
<1>1. TypeOK'
  BY DEF Call, LinksFollowExchanges, TypeOK
<1>2. LinksFollowExchanges'
  BY <1>1, SameLinks DEF Call
<1>3. Calls'
  BY DEF Call, LinksFollowExchanges, TypeOK, Calls, Joined, Intrusive
<1>4. Hands'
  BY DEF Call, LinksFollowExchanges, TypeOK, Hands, Busy, InOrder
<1>5. Places'
  BY DEF Call, LinksFollowExchanges, TypeOK, Places, InOrder, Calls
<1>6. Settled'
  <2>1. ASSUME quiet', tail = head, kind = "plain" \/ tail = Stub
        PROVE  FALSE
    <3>1. Len(order) = 1 /\ (InOrder(Stub) <=> Stub = tail)
      BY <2>1, OnlyNode
    <3>2. CASE kind = "plain"
      <4>1. Tail(order) \in Seq(Nodes) /\ Len(Tail(order)) = 0
        BY <3>1, HeadTailProperties DEF LinksFollowExchanges, TypeOK
      <4>2. Tail(order) = <<>>
        BY <4>1, EmptySeq
      <4> QED BY <2>1, <3>2, <4>2 DEF Call, Content
    <3>3. CASE kind # "plain"
      <4>1. Content = [k \in 1 .. 0 |-> IF k < (CHOOSE h \in 1 .. Len(order) : order[h] = Stub)
                                        THEN order[k] ELSE order[k + 1]]
        BY <2>1, <3>1, <3>3 DEF Content, Without
      <4>2. Content = <<>>
        BY <4>1
      <4> QED BY <2>1, <4>2 DEF Call
    <3> QED BY <3>2, <3>3
  <2>2. quiet' => \A p \in Producers : pc'[p] # "link"
    BY DEF Call, LinksFollowExchanges, TypeOK
  <2>3. t = Main => \A p \in Producers : pc'[p] # "link"
    BY DEF Call, LinksFollowExchanges, TypeOK, Calls, Joined
  <2>4. kind \in {"plain", "intrusive"}
    BY KindsKnown DEF LinksFollowExchanges, TypeOK
  <2>5. \A u \in Takers : u # t => pc[u] \notin InDequeue
    BY OneTaker DEF Call
  <2> QED BY <2>1, <2>2, <2>3, <2>4, <2>5
       DEF Call, LinksFollowExchanges, TypeOK, Settled, InDequeue, Intrusive
<1> QED BY <1>2, <1>3, <1>4, <1>5, <1>6

\* The first node is the last one, or its link is not set yet.
LEMMA ReadNothingStep ==
  ASSUME QueueInv, NEW t \in Takers, ReadNothing(t)
  PROVE  QueueInv'
<1> USE RolesDistinct, NodesDistinct DEF QueueInv, Goto, Threads, Takers, Nodes
<1>1. TypeOK'
  BY DEF ReadNothing, LinksFollowExchanges, TypeOK
<1>2. LinksFollowExchanges'
  BY <1>1, SameLinks DEF ReadNothing
<1>3. Calls'
  BY DEF ReadNothing, LinksFollowExchanges, TypeOK, Calls, Joined, Intrusive
<1>4. Hands'
  BY DEF ReadNothing, LinksFollowExchanges, TypeOK, Hands, Busy, InOrder
<1>5. Places'
  BY DEF ReadNothing, LinksFollowExchanges, TypeOK, Places, InOrder, Calls
<1>6. Settled'
  <2>1. (\A p \in Producers : pc[p] # "link") => tail = head
    BY NoGap DEF ReadNothing, InDequeue, Intrusive
  <2>2. \A u \in Takers : u # t => pc[u] \notin InDequeue
    BY OneTaker DEF ReadNothing
  <2>3. kind \in {"plain", "intrusive"}
    BY KindsKnown DEF LinksFollowExchanges, TypeOK
  <2> QED BY <2>1, <2>2, <2>3
       DEF ReadNothing, LinksFollowExchanges, TypeOK, Settled, InDequeue, Intrusive
<1> QED BY <1>2, <1>3, <1>4, <1>5, <1>6

\* The taker goes from one test to the next.
LEMMA ReadIntrusiveStep ==
  ASSUME QueueInv, NEW t \in Takers, ReadIntrusive(t)
  PROVE  QueueInv'
<1> USE RolesDistinct, NodesDistinct DEF QueueInv, Goto, Threads, Takers, Nodes
<1>1. CASE TakeLinked(t, "first") \/ TakeLinked(t, "second")
  BY <1>1, TakeLinkedStep DEF ReadIntrusive
<1>2. CASE /\ next[tail] = NULL
           /\ Goto(t, "first", "compare") \/ Goto(t, "second", "compare")
           /\ UNCHANGED <<kind, node, prev, got, head, tail, next, unsent,
                          delivered, freed, order, quiet>>
  <2>1. TypeOK'
    BY <1>2 DEF LinksFollowExchanges, TypeOK
  <2>2. LinksFollowExchanges'
    BY <1>2, <2>1, SameLinks
  <2>3. Calls'
    BY <1>2 DEF ReadIntrusive, LinksFollowExchanges, TypeOK, Calls, Joined, Intrusive
  <2>4. Hands'
    BY <1>2 DEF LinksFollowExchanges, TypeOK, Hands, Busy, InOrder
  <2>5. Places'
    BY <1>2 DEF LinksFollowExchanges, TypeOK, Places, InOrder, Calls
  <2>6. Settled'
    <3>1. (\A p \in Producers : pc[p] # "link") => tail = head
      BY <1>2, NoGap DEF InDequeue, Intrusive
    <3>2. \A u \in Takers : u # t => pc[u] \notin InDequeue
      BY <1>2, OneTaker
    <3> QED BY <1>2, <3>1, <3>2 DEF LinksFollowExchanges, TypeOK, Settled, InDequeue, Intrusive
  <2> QED BY <2>2, <2>3, <2>4, <2>5, <2>6
<1> QED BY <1>1, <1>2 DEF ReadIntrusive

\* Only at the end of the queue, where _dummy is not, is _dummy enqueued again.
LEMMA CompareHeadStep ==
  ASSUME QueueInv, NEW t \in Takers, CompareHead(t)
  PROVE  QueueInv'
<1> USE RolesDistinct, NodesDistinct DEF QueueInv, Goto, Threads, Takers, Nodes
<1>1. /\ pc[t] = "compare" /\ kind = "intrusive" /\ tail # Stub
      /\ (tail = head => ~InOrder(Stub))
      /\ \A u \in Takers : u # t => pc[u] \notin InDequeue
  BY OnlyNode, OneTaker DEF CompareHead, Calls, Intrusive
<1>2. TypeOK'
  BY DEF CompareHead, LinksFollowExchanges, TypeOK
<1>3. LinksFollowExchanges'
  <2>1. \A u \in Threads : (pc'[u] = "link" <=> pc[u] = "link") /\ (u # t => node'[u] = node[u])
    BY <1>1 DEF CompareHead, LinksFollowExchanges, TypeOK
  <2>2. \A k \in 1 .. Len(order) : order[k] \in Nodes /\ next'[order[k]] = next[order[k]]
    BY <1>1 DEF CompareHead, LinksFollowExchanges, TypeOK, InOrder
  <2>3. next'[head] = NULL
    BY <1>1 DEF CompareHead, LinksFollowExchanges, TypeOK
  <2>4. ASSUME NEW k \in 1 .. Len(order) - 1
        PROVE  \/ next'[order[k]] = order[k + 1]
               \/ /\ next'[order[k]] = NULL
                  /\ \E u \in Threads :
                       pc'[u] = "link" /\ prev[u] = order[k] /\ node'[u] = order[k + 1]
    <3>1. k \in 1 .. Len(order)
      BY DEF LinksFollowExchanges, TypeOK
    <3> QED BY <1>1, <2>1, <2>2, <3>1 DEF LinksFollowExchanges
  <2>5. ASSUME NEW u \in Threads, pc'[u] = "link"
        PROVE  \E k \in 1 .. Len(order) - 1 :
                 prev[u] = order[k] /\ node'[u] = order[k + 1] /\ next'[prev[u]] = NULL
    <3>1. u # t
      BY <1>1, <2>1, <2>5
    <3>2. PICK k \in 1 .. Len(order) - 1 :
            prev[u] = order[k] /\ node[u] = order[k + 1] /\ next[prev[u]] = NULL
      BY <2>1, <2>5 DEF LinksFollowExchanges
    <3>3. k \in 1 .. Len(order)
      BY DEF LinksFollowExchanges, TypeOK
    <3> QED BY <2>1, <2>2, <3>1, <3>2, <3>3
  <2> QED BY <1>2, <2>3, <2>4, <2>5 DEF CompareHead, LinksFollowExchanges
<1>4. Calls'
  BY <1>1 DEF CompareHead, LinksFollowExchanges, TypeOK, Calls, Joined, Intrusive
<1>5. Hands'
  <2>1. CASE tail # head
    BY <2>1 DEF CompareHead, LinksFollowExchanges, TypeOK, Hands, Busy, InOrder
  <2>2. CASE tail = head
    <3>1. \A u \in Threads : u # t => node[u] # Stub
      BY <1>1 DEF Hands, Busy, InDequeue, Intrusive
    <3> QED BY <1>1, <2>2, <3>1 DEF CompareHead, LinksFollowExchanges, TypeOK, Hands, Busy, InOrder
  <2> QED BY <2>1, <2>2
<1>6. Places'
  <2>1. \A p \in Producers : node'[p] = node[p]
    BY DEF CompareHead, LinksFollowExchanges, TypeOK
  <2> QED BY <1>1, <2>1 DEF CompareHead, LinksFollowExchanges, TypeOK, Calls, Places, InOrder
<1>7. Settled'
  BY <1>1 DEF CompareHead, LinksFollowExchanges, TypeOK, Settled, InDequeue, Intrusive
<1> QED BY <1>3, <1>4, <1>5, <1>6, <1>7

\* The second look at the link of the first node.
LEMMA RereadStep ==
  ASSUME QueueInv, NEW t \in Takers, Reread(t)
  PROVE  QueueInv'
<1> USE RolesDistinct, NodesDistinct DEF QueueInv, Goto, Threads, Takers, Nodes
<1>1. CASE TakeLinked(t, "reread")
  BY <1>1, TakeLinkedStep DEF TakeLinked, Calls, Intrusive
<1>2. CASE /\ next[tail] = NULL
           /\ Goto(t, "reread", "false")
           /\ UNCHANGED <<kind, node, prev, got, head, tail, next, unsent, delivered,
                          freed, order, quiet>>
  <2>1. TypeOK'
    BY <1>2 DEF LinksFollowExchanges, TypeOK
  <2>2. LinksFollowExchanges'
    BY <1>2, <2>1, SameLinks
  <2>3. Calls'
    BY <1>2 DEF LinksFollowExchanges, TypeOK, Calls, Joined, Intrusive
  <2>4. Hands'
    BY <1>2 DEF LinksFollowExchanges, TypeOK, Hands, Busy, InOrder
  <2>5. Places'
    BY <1>2 DEF LinksFollowExchanges, TypeOK, Places, InOrder, Calls
  <2>6. Settled'
    BY <1>2, OneTaker DEF LinksFollowExchanges, TypeOK, Settled, InDequeue, Intrusive
  <2> QED BY <2>2, <2>3, <2>4, <2>5, <2>6
<1> QED BY <1>1, <1>2 DEF Reread

-----------------------------------------------------------------------------
\* The caller deletes what it got.
LEMMA UseItemStep ==
  ASSUME QueueInv, NEW t \in Takers, UseItem(t)
  PROVE  QueueInv'
<1> USE RolesDistinct, NodesDistinct DEF QueueInv, Goto, Threads, Takers, Nodes
<1>1. /\ pc[t] = "got" /\ got[t] \in Items /\ got[t] \in delivered
      /\ \A u \in Takers : u # t => pc[u] \notin InDequeue /\ got[u] = NULL
  BY OneTaker DEF UseItem, LinksFollowExchanges, TypeOK, Calls, Places
<1>2. TypeOK'
  BY <1>1 DEF UseItem, LinksFollowExchanges, TypeOK
<1>3. LinksFollowExchanges'
  BY <1>1, <1>2, SameLinks DEF UseItem
<1>4. Calls'
  BY <1>1 DEF UseItem, LinksFollowExchanges, TypeOK, Calls, Joined, Intrusive
<1>5. Hands'
  BY <1>1 DEF UseItem, LinksFollowExchanges, TypeOK, Hands, Busy, InOrder
<1>6. Places'
  <2>1. pc[Main] # "destroyed" /\ pc'[Main] # "destroyed"
    BY <1>1 DEF UseItem, LinksFollowExchanges, TypeOK, Calls, Joined
  <2>2. CASE kind = "plain"
    BY <1>1, <2>1, <2>2 DEF UseItem, LinksFollowExchanges, TypeOK, Places, InOrder
  <2>3. CASE kind # "plain"
    <3>1. \A u \in Takers : got'[u] = NULL
      BY <1>1 DEF UseItem, LinksFollowExchanges, TypeOK
    <3>2. freed = {i \in delivered : i # got[t]}
      BY <1>1, <2>1, <2>3 DEF LinksFollowExchanges, TypeOK, Places
    <3>3. kind = "intrusive"
      BY <2>3, KindsKnown DEF LinksFollowExchanges, TypeOK
    <3>4. freed' = {i \in delivered : \A u \in Takers : got'[u] # i}
      BY <1>1, <3>1, <3>2, <3>3 DEF UseItem, LinksFollowExchanges, TypeOK
    <3> QED BY <2>1, <2>3, <3>1, <3>4 DEF UseItem, LinksFollowExchanges, TypeOK, Places, InOrder
  <2> QED BY <2>2, <2>3
<1>7. Settled'
  BY <1>1 DEF UseItem, LinksFollowExchanges, TypeOK, Settled, InDequeue, Intrusive
<1> QED BY <1>3, <1>4, <1>5, <1>6, <1>7

\* A thread goes on and touches nothing.
LEMMA PassStep ==
  ASSUME QueueInv, GetNothing \/ (\E p \in Producers : Leave(p)) \/ Drain
  PROVE  QueueInv'
<1> USE RolesDistinct, NodesDistinct
    DEF QueueInv, Goto, Threads, Takers, Nodes, GetNothing, Leave, Drain
<1>1. TypeOK'
  BY DEF LinksFollowExchanges, TypeOK
<1>2. LinksFollowExchanges'
  <2>1. PICK t \in Threads, to \in {"idle", "gone", "drain"} :
          pc' = [pc EXCEPT ![t] = to] /\ pc[t] # "link"
    OBVIOUS
  <2> QED BY <1>1, <2>1, SameLinks
<1>3. Calls'
  BY DEF LinksFollowExchanges, TypeOK, Calls, Joined, Intrusive
<1>4. Hands'
  BY DEF LinksFollowExchanges, TypeOK, Hands, Busy, InOrder
<1>5. Places'
  BY DEF LinksFollowExchanges, TypeOK, Calls, Places, InOrder
<1>6. Settled'
  BY DEF LinksFollowExchanges, TypeOK, Settled, InDequeue, Intrusive
<1> QED BY <1>2, <1>3, <1>4, <1>5, <1>6

\* The destructor has found the queue empty, nobody else is left, and every item
\* was delivered.
LEMMA FreeLastStep ==
  ASSUME QueueInv, FreeLast
  PROVE  QueueInv'
<1> USE RolesDistinct, NodesDistinct DEF QueueInv, Goto, Threads, Takers, Nodes
<1>1. /\ pc[Main] = "false" /\ tail = head /\ (kind = "intrusive" => tail = Stub)
      /\ unsent = {} /\ \A u \in Takers : got[u] = NULL
      /\ \A p \in Producers : node[p] = NULL
  BY DEF FreeLast, LinksFollowExchanges, TypeOK, Calls, Joined, Hands, Busy, Settled, InDequeue
<1>2. \A n : InOrder(n) <=> n = tail
  BY <1>1, OnlyNode
<1>3. delivered = Items /\ kind \in {"plain", "intrusive"}
  <2>1. kind \in {"plain", "intrusive"} /\ delivered \subseteq Items
    BY KindsKnown DEF LinksFollowExchanges, TypeOK
  <2>2. ASSUME NEW i \in Items, i \notin delivered
        PROVE  FALSE
    <3>1. InOrder(i)
      BY <1>1, <2>2 DEF Places
    <3> QED BY <1>1, <1>2, <2>1, <2>2, <3>1 DEF Places
  <2> QED BY <2>1, <2>2
<1>4. TypeOK'
  BY DEF FreeLast, LinksFollowExchanges, TypeOK
<1>5. LinksFollowExchanges'
  BY <1>1, <1>4, SameLinks DEF FreeLast
<1>6. Calls'
  BY DEF FreeLast, LinksFollowExchanges, TypeOK, Calls, Joined, Intrusive
<1>7. Hands'
  BY <1>1 DEF FreeLast, LinksFollowExchanges, TypeOK, Hands, Busy, InOrder
<1>8. Places'
  <2>1. freed' = IF kind = "plain" THEN Nodes ELSE Items
    <3>1. CASE kind = "plain"
      <4>1. freed = (Items \cup {Stub}) \ {head} /\ freed' = freed \cup {head} /\ head \in Nodes
        BY <1>1, <1>3, <3>1 DEF FreeLast, LinksFollowExchanges, TypeOK, Places
      <4> QED BY <3>1, <4>1
    <3>2. CASE kind = "intrusive"
      <4>1. freed = {i \in Items : \A u \in Takers : got[u] # i} /\ freed' = freed
        BY <1>1, <1>3, <3>2 DEF FreeLast, Places
      <4>2. freed = Items
        BY <1>1, <4>1
      <4> QED BY <3>2, <4>1, <4>2
    <3> QED BY <1>3, <3>1, <3>2
  <2>2. \A t \in Takers : got[t] = NULL
    BY <1>1
  <2>3. pc'[Main] = "destroyed" /\ UNCHANGED <<kind, node, got, tail, unsent, delivered, order>>
    BY DEF FreeLast, LinksFollowExchanges, TypeOK
  <2>4. \A n : InOrder(n)' <=> InOrder(n)
    BY <2>3 DEF InOrder
  <2> QED BY <1>3, <2>1, <2>2, <2>3, <2>4 DEF Places
<1>9. Settled'
  BY <1>1 DEF FreeLast, LinksFollowExchanges, TypeOK, Calls, Joined, Settled, InDequeue, Intrusive
<1> QED BY <1>5, <1>6, <1>7, <1>8, <1>9

-----------------------------------------------------------------------------
LEMMA InitQueue == Init => QueueInv
<1> SUFFICES ASSUME Init
             PROVE  QueueInv
  OBVIOUS
<1> USE RolesDistinct, NodesDistinct DEF Init, Threads, Takers, Nodes
<1>1. Len(order) = 1 /\ order[1] = Stub /\ order # <<>> /\ order \in Seq(Nodes)
  OBVIOUS
<1>2. LinksFollowExchanges
  <2>1. TypeOK
    BY <1>1 DEF TypeOK
  <2>2. 1 .. 1 - 1 = {}
    OBVIOUS
  <2>3. \A t \in Threads : pc[t] # "link"
    OBVIOUS
  <2> QED BY <1>1, <2>1, <2>2, <2>3 DEF LinksFollowExchanges
<1>3. Calls
  BY DEF Calls, Joined, Intrusive
<1>4. Hands
  <2>1. \A i \in Items : ~InOrder(i)
    BY <1>1 DEF InOrder
  <2>2. \A t \in Threads : node[t] = NULL /\ ~Busy(t)
    BY DEF Busy
  <2> QED BY <2>1, <2>2 DEF Hands, Busy
<1>5. Places
  BY <1>1 DEF Places, InOrder
<1>6. Settled
  BY DEF Settled, InDequeue, Intrusive
<1> QED BY <1>2, <1>3, <1>4, <1>5, <1>6 DEF QueueInv

LEMMA QueueStep ==
  ASSUME QueueInv, [Next]_vars
  PROVE  QueueInv'
<1>1. ASSUME NEW p \in Producers, Produce(p)
      PROVE  QueueInv'
  BY <1>1, PrepareStep, ExchangeStep, LinkStep, PassStep DEF Produce, Threads
<1>2. ASSUME NEW t \in Takers, Dequeue(t)
      PROVE  QueueInv'
  BY <1>2, ReadPlainStep, ReadNothingStep, SkipDummyStep, ReadIntrusiveStep,
     CompareHeadStep, ExchangeStep, LinkStep, RereadStep DEF Dequeue, Threads
<1>3. CASE Consume
  BY <1>2, <1>3, CallStep, UseItemStep, PassStep DEF Consume, Takers
<1>4. CASE Destruct
  BY <1>2, <1>4, CallStep, UseItemStep, PassStep, FreeLastStep DEF Destruct, Takers
<1>5. CASE UNCHANGED vars
  BY <1>5 DEF vars, QueueInv, LinksFollowExchanges, TypeOK, Calls, Hands, Places, Settled,
              Joined, Busy, InOrder
<1> QED BY <1>1, <1>3, <1>4, <1>5 DEF Next, Finished

LEMMA Queues == Spec => []QueueInv
BY InitQueue, QueueStep, PTL DEF Spec

\* In every state the links follow the exchanges but for the gaps of the threads
\* that stand between lines 34 and 35, or 93 and 94, of MPSCQueue.h.
THEOREM LinksCorrect == Spec => []LinksFollowExchanges
BY Queues, PTL DEF QueueInv

\* No access to a deleted node, and after the destructor nothing is left.
THEOREM NodesLive == Spec => []NodesOutliveUse
<1>1. QueueInv => NodesOutliveUse
  <2> SUFFICES ASSUME QueueInv
               PROVE  NodesOutliveUse
    OBVIOUS
  <2> USE RolesDistinct, NodesDistinct DEF QueueInv, Threads, Takers, Nodes
  <2>1. pc[Main] = "destroyed" =>
          delivered = Items /\ freed = IF kind = "plain" THEN Nodes ELSE Items
    BY DEF Places
  <2>2. pc[Main] # "destroyed" => \A n \in Nodes : InOrder(n) => n \notin freed
    BY DEF Places, InOrder, LinksFollowExchanges, TypeOK
  <2>3. InOrder(head) /\ InOrder(tail)
    BY DEF LinksFollowExchanges, TypeOK, InOrder
  <2>4. ASSUME NEW t \in Threads, pc[t] = "link"
        PROVE  prev[t] \notin freed /\ node[t] \notin freed
    <3>1. prev[t] \in Nodes /\ node[t] \in Nodes /\ InOrder(prev[t]) /\ InOrder(node[t])
      BY <2>4 DEF LinksFollowExchanges, TypeOK, InOrder
    <3>2. pc[Main] # "destroyed"
      BY <2>4 DEF Calls, Joined
    <3> QED BY <2>2, <3>1, <3>2
  <2>5. ASSUME NEW t \in Threads, pc[t] = "exchange"
        PROVE  node[t] \notin freed
    BY <2>5 DEF Calls, Joined, Intrusive, Hands, Busy, Places, LinksFollowExchanges, TypeOK
  <2>6. ASSUME NEW t \in Takers, pc[t] \in InDequeue \cup {"got"}
        PROVE  tail \notin freed /\ (pc[t] = "got" => kind = "plain" \/ got[t] \notin freed)
    BY <2>2, <2>3, <2>6 DEF Calls, Joined, Places, LinksFollowExchanges, TypeOK, InDequeue, Intrusive
  <2> QED BY <2>1, <2>2, <2>3, <2>4, <2>5, <2>6
       DEF NodesOutliveUse, LinksFollowExchanges, TypeOK, Calls, InDequeue, Intrusive
<1> QED BY <1>1, Queues, PTL

\* Dequeue returns false only of a queue that was empty, or in motion.
THEOREM FalseIsRight == Spec => []FalseOnlyIfBusy
<1>1. QueueInv => FalseOnlyIfBusy
  BY DEF QueueInv, Settled, FalseOnlyIfBusy, InDequeue
<1> QED BY <1>1, Queues, PTL

-----------------------------------------------------------------------------
(* The refinement of FifoQueue.  First what Content is made of. *)

LEMMA WithoutFacts ==
  ASSUME NEW S, NEW s \in Seq(S), NEW n \in Nat, Len(s) = n + 1, NEW h \in 1 .. n + 1
  PROVE  /\ Without(s, h) \in Seq(S) /\ Len(Without(s, h)) = n
         /\ \A k \in 1 .. n : Without(s, h)[k] = IF k < h THEN s[k] ELSE s[k + 1]
<1>1. \A k \in 1 .. n : s[k] \in S /\ s[k + 1] \in S
  OBVIOUS
<1>2. Len(s) - 1 = n
  OBVIOUS
<1>3. Without(s, h) = [k \in 1 .. n |-> IF k < h THEN s[k] ELSE s[k + 1]]
  BY <1>2 DEF Without
<1>4. Without(s, h) \in [1 .. n -> S]
  BY <1>1, <1>3
<1>5. Without(s, h) \in Seq(S) /\ Len(Without(s, h)) = n
  BY <1>3, <1>4
<1> QED BY <1>3, <1>5

\* The last element goes again.
LEMMA WithoutLast ==
  ASSUME NEW S, NEW s \in Seq(S), NEW e \in S
  PROVE  Without(Append(s, e), Len(s) + 1) = s
<1> DEFINE a == Append(s, e)
<1>1. PICK n \in Nat : n = Len(s)
  OBVIOUS
<1>2. a \in Seq(S) /\ Len(a) = n + 1 /\ \A k \in 1 .. n : a[k] = s[k]
  BY <1>1, AppendProperties
<1> HIDE DEF a
<1>3. /\ Without(a, n + 1) \in Seq(S) /\ Len(Without(a, n + 1)) = n
      /\ \A k \in 1 .. n : Without(a, n + 1)[k] = IF k < n + 1 THEN a[k] ELSE a[k + 1]
  <2>1. n + 1 \in 1 .. n + 1
    OBVIOUS
  <2> QED BY <1>2, <2>1, WithoutFacts
<1>4. \A k \in 1 .. n : Without(a, n + 1)[k] = s[k]
  BY <1>2, <1>3
<1>5. Without(a, n + 1) = s
  BY <1>1, <1>3, <1>4, SeqEqual
<1> QED BY <1>1, <1>5 DEF a

LEMMA WithoutFirst ==
  ASSUME NEW S, NEW s \in Seq(S), s # <<>>
  PROVE  Without(s, 1) = Tail(s)
<1>1. PICK n \in Nat : Len(s) = n + 1
  BY EmptySeq
<1>2. Tail(s) \in Seq(S) /\ Len(Tail(s)) = n /\ \A k \in 1 .. n : Tail(s)[k] = s[k + 1]
  BY <1>1, HeadTailProperties
<1>3. /\ Without(s, 1) \in Seq(S) /\ Len(Without(s, 1)) = n
      /\ \A k \in 1 .. n : Without(s, 1)[k] = IF k < 1 THEN s[k] ELSE s[k + 1]
  <2>1. 1 \in 1 .. n + 1
    OBVIOUS
  <2> QED BY <1>1, <2>1, WithoutFacts
<1>4. \A k \in 1 .. n : Without(s, 1)[k] = Tail(s)[k]
  BY <1>2, <1>3
<1> QED BY <1>2, <1>3, <1>4, SeqEqual

LEMMA AppendWithout ==
  ASSUME NEW S, NEW s \in Seq(S), NEW e \in S, NEW h \in 1 .. Len(s)
  PROVE  Without(Append(s, e), h) = Append(Without(s, h), e)
<1> DEFINE a == Append(s, e)
           w == Without(s, h)
<1>1. PICK n \in Nat : Len(s) = n + 1
  <2>1. PICK m \in Nat : m = Len(s)
    OBVIOUS
  <2>2. m - 1 \in Nat /\ m = (m - 1) + 1
    BY <2>1
  <2> QED BY <2>1, <2>2
<1>2. /\ a \in Seq(S) /\ Len(a) = (n + 1) + 1
      /\ \A k \in 1 .. n + 1 : a[k] = s[k]
      /\ a[(n + 1) + 1] = e
  BY <1>1, AppendProperties
<1>3. /\ w \in Seq(S) /\ Len(w) = n
      /\ \A k \in 1 .. n : w[k] = IF k < h THEN s[k] ELSE s[k + 1]
  <2>1. h \in 1 .. n + 1
    BY <1>1
  <2> QED BY <1>1, <2>1, WithoutFacts
<1> HIDE DEF a, w
<1>4. /\ Append(w, e) \in Seq(S) /\ Len(Append(w, e)) = n + 1
      /\ \A k \in 1 .. n : Append(w, e)[k] = w[k]
      /\ Append(w, e)[n + 1] = e
  BY <1>3, AppendProperties
<1>5. /\ Without(a, h) \in Seq(S) /\ Len(Without(a, h)) = n + 1
      /\ \A k \in 1 .. n + 1 : Without(a, h)[k] = IF k < h THEN a[k] ELSE a[k + 1]
  BY <1>1, <1>2, WithoutFacts
<1>6. ASSUME NEW k \in 1 .. n + 1
      PROVE  Without(a, h)[k] = Append(w, e)[k]
  <2>1. CASE k \in 1 .. n
    BY <1>1, <1>2, <1>3, <1>4, <1>5, <2>1
  <2>2. CASE k = n + 1
    <3>1. ~(k < h)
      BY <1>1, <2>2
    <3> QED BY <1>2, <1>4, <1>5, <2>2, <3>1
  <2>3. k \in 1 .. n \/ k = n + 1
    OBVIOUS
  <2> QED BY <2>1, <2>2, <2>3
<1>7. Without(a, h) = Append(w, e)
  BY <1>4, <1>5, <1>6, SeqEqual
<1> QED BY <1>7 DEF a, w

LEMMA TailWithout ==
  ASSUME NEW S, NEW s \in Seq(S), NEW h \in 2 .. Len(s)
  PROVE  /\ Without(s, h) # <<>> /\ Head(Without(s, h)) = s[1]
         /\ h - 1 \in 1 .. Len(Tail(s)) /\ Tail(s)[h - 1] = s[h]
         /\ Tail(Without(s, h)) = Without(Tail(s), h - 1)
<1> DEFINE w == Without(s, h)
           b == Tail(s)
<1>1. PICK n \in Nat : Len(s) = (n + 1) + 1
  <2>1. PICK m \in Nat : m = Len(s)
    OBVIOUS
  <2>2. m - 2 \in Nat /\ m = ((m - 2) + 1) + 1
    BY <2>1
  <2> QED BY <2>1, <2>2
<1>2. /\ w \in Seq(S) /\ Len(w) = n + 1
      /\ \A k \in 1 .. n + 1 : w[k] = IF k < h THEN s[k] ELSE s[k + 1]
  BY <1>1, WithoutFacts
<1>3. /\ b \in Seq(S) /\ Len(b) = n + 1
      /\ \A k \in 1 .. n + 1 : b[k] = s[k + 1]
  BY <1>1, HeadTailProperties
<1> HIDE DEF w, b
<1>4. h \in 2 .. n + 2
  BY <1>1
<1>5. w # <<>> /\ Head(w) = s[1] /\ h - 1 \in 1 .. n + 1 /\ b[h - 1] = s[h]
  BY <1>2, <1>3, <1>4
<1>6. /\ Tail(w) \in Seq(S) /\ Len(Tail(w)) = n
      /\ \A k \in 1 .. n : Tail(w)[k] = w[k + 1]
  BY <1>2, <1>5, HeadTailProperties
<1>7. /\ Without(b, h - 1) \in Seq(S) /\ Len(Without(b, h - 1)) = n
      /\ \A k \in 1 .. n : Without(b, h - 1)[k] = IF k < h - 1 THEN b[k] ELSE b[k + 1]
  BY <1>3, <1>5, WithoutFacts
<1>8. ASSUME NEW k \in 1 .. n
      PROVE  Tail(w)[k] = Without(b, h - 1)[k]
  <2>1. k + 1 \in 1 .. n + 1 /\ k \in 1 .. n + 1 /\ (k + 1 < h <=> k < h - 1)
    BY <1>4
  <2>2. Tail(w)[k] = IF k + 1 < h THEN s[k + 1] ELSE s[(k + 1) + 1]
    BY <1>2, <1>6, <2>1
  <2>3. Without(b, h - 1)[k] = IF k < h - 1 THEN s[k + 1] ELSE s[(k + 1) + 1]
    BY <1>3, <1>7, <2>1
  <2>4. CASE k + 1 < h
    BY <2>1, <2>2, <2>3, <2>4
  <2>5. CASE ~(k + 1 < h)
    BY <2>1, <2>2, <2>3, <2>5
  <2> QED BY <2>4, <2>5
<1>9. Tail(w) = Without(b, h - 1)
  BY <1>6, <1>7, <1>8, SeqEqual
<1> QED BY <1>3, <1>5, <1>9 DEF w, b

LEMMA DummyPlace ==
  ASSUME NEW s \in Seq(Nodes), \A j, k \in 1 .. Len(s) : s[j] = s[k] => j = k,
         NEW h \in 1 .. Len(s), s[h] = Stub
  PROVE  (CHOOSE k \in 1 .. Len(s) : s[k] = Stub) = h
OBVIOUS

LEMMA WithoutDummy ==
  ASSUME LinksFollowExchanges, Places, kind = "intrusive",
         NEW h \in 1 .. Len(order), order[h] = Stub
  PROVE  Content = Without(order, h)
<1>1. order \in Seq(Nodes) /\ \A j, k \in 1 .. Len(order) : order[j] = order[k] => j = k
  BY DEF LinksFollowExchanges, TypeOK, Places
<1>2. (CHOOSE k \in 1 .. Len(order) : order[k] = Stub) = h
  BY <1>1, DummyPlace
<1>3. InOrder(Stub)
  BY DEF InOrder
<1> QED BY <1>2, <1>3 DEF Content

LEMMA NoDummy ==
  ASSUME kind = "intrusive", ~InOrder(Stub)
  PROVE  Content = order
BY DEF Content

\* What is in Content is in order.
LEMMA ContentInOrder ==
  ASSUME LinksFollowExchanges, Places, NEW m \in 1 .. Len(Content)
  PROVE  InOrder(Content[m])
<1>1. /\ order \in Seq(Nodes) /\ order # <<>> /\ kind \in {"plain", "intrusive"}
  BY KindsKnown DEF LinksFollowExchanges, TypeOK
<1>2. PICK n \in Nat : Len(order) = n + 1
  BY <1>1, EmptySeq
<1>3. CASE kind = "plain"
  <2>1. Content = Tail(order) /\ Len(Tail(order)) = n /\ \A k \in 1 .. n : Tail(order)[k] = order[k + 1]
    BY <1>1, <1>2, <1>3, HeadTailProperties DEF Content
  <2>2. m \in 1 .. n /\ m + 1 \in 1 .. Len(order) /\ Content[m] = order[m + 1]
    BY <1>2, <2>1
  <2> QED BY <2>2 DEF InOrder
<1>4. CASE kind = "intrusive" /\ InOrder(Stub)
  <2>1. PICK h \in 1 .. Len(order) : order[h] = Stub
    BY <1>4 DEF InOrder
  <2>2. h \in 1 .. n + 1 /\ Content = Without(order, h)
    BY <1>2, <1>4, <2>1, WithoutDummy
  <2>3. Len(Content) = n /\ \A k \in 1 .. n : Content[k] = IF k < h THEN order[k] ELSE order[k + 1]
    BY <1>1, <1>2, <2>2, WithoutFacts
  <2>4. m \in 1 .. Len(order) /\ m + 1 \in 1 .. Len(order) /\ (Content[m] = order[m] \/ Content[m] = order[m + 1])
    BY <1>2, <2>3
  <2> QED BY <2>4 DEF InOrder
<1>5. CASE kind = "intrusive" /\ ~InOrder(Stub)
  BY <1>5, NoDummy DEF InOrder
<1> QED BY <1>1, <1>3, <1>4, <1>5

\* The exchange of a producer puts its item into the queue.
LEMMA ExchangeIsPut ==
  ASSUME QueueInv, NEW p \in Producers, Exchange(p)
  PROVE  Fifo!Put(node[p]) /\ node[p] \in Items
<1> USE RolesDistinct, NodesDistinct DEF QueueInv, Goto, Threads, Takers, Nodes
<1>1. /\ node[p] \in Items /\ ~InOrder(node[p]) /\ node[p] \notin delivered
      /\ order' = Append(order, node[p]) /\ UNCHANGED <<kind, got>>
  BY DEF Exchange, LinksFollowExchanges, TypeOK, Hands, Busy
<1>2. \A k \in 1 .. Len(Content) : Content[k] # node[p]
  BY <1>1, ContentInOrder
<1>3. \A u \in Takers : got[u] # node[p]
  BY <1>1 DEF Places
<1>4. /\ order \in Seq(Nodes) /\ order # <<>> /\ kind \in {"plain", "intrusive"}
      /\ \A m \in Nodes : InOrder(m)' <=> InOrder(m) \/ m = node[p]
  BY <1>1, KindsKnown, Appended DEF LinksFollowExchanges, TypeOK
<1>5. Content' = Append(Content, node[p])
  <2>1. CASE kind = "plain"
    BY <1>1, <1>4, <2>1, HeadTailAppend DEF Content
  <2>2. CASE kind = "intrusive" /\ InOrder(Stub)
    <3>1. PICK h \in 1 .. Len(order) : order[h] = Stub
      BY <2>2 DEF InOrder
    <3>2. /\ order' \in Seq(Nodes) /\ h \in 1 .. Len(order') /\ order'[h] = Stub /\ InOrder(Stub)'
          /\ \A j, k \in 1 .. Len(order') : order'[j] = order'[k] => j = k
      <4>1. /\ Len(order) \in Nat /\ Len(order') = Len(order) + 1
            /\ \A k \in 1 .. Len(order) : order'[k] = order[k]
        BY <1>1, Appended DEF LinksFollowExchanges, TypeOK
      <4>2. QueueInv'
        BY ExchangeStep
      <4>3. order' \in Seq(Nodes) /\ \A j, k \in 1 .. Len(order') : order'[j] = order'[k] => j = k
        BY <4>2 DEF Places, LinksFollowExchanges, TypeOK
      <4>4. h \in 1 .. Len(order') /\ order'[h] = Stub
        BY <3>1, <4>1
      <4> QED BY <1>4, <2>2, <4>3, <4>4
    <3>3. Content' = Without(order', h)
      BY <1>1, <2>2, <3>2, DummyPlace DEF Content
    <3>4. Content = Without(order, h)
      BY <2>2, <3>1, WithoutDummy
    <3>5. Without(Append(order, node[p]), h) = Append(Without(order, h), node[p])
      <4>1. order \in Seq(Nodes) /\ node[p] \in Nodes /\ h \in 1 .. Len(order)
        BY <1>1, <1>4, <3>1
      <4> HIDE DEF Nodes
      <4> QED BY ONLY <4>1, AppendWithout
    <3> QED BY <1>1, <3>3, <3>4, <3>5
  <2>3. CASE kind = "intrusive" /\ ~InOrder(Stub)
    BY <1>1, <1>4, <2>3 DEF Content
  <2> QED BY <1>4, <2>1, <2>2, <2>3
<1> QED BY <1>1, <1>2, <1>3, <1>5 DEF Fifo!Put

\* That of a taker puts _dummy, which is no item.
LEMMA DummyIsNoPut ==
  ASSUME QueueInv, NEW t \in Takers, Exchange(t)
  PROVE  UNCHANGED <<Content, got>>
<1> USE RolesDistinct, NodesDistinct DEF QueueInv, Goto, Threads, Takers, Nodes
<1>1. /\ node[t] = Stub /\ ~InOrder(Stub) /\ kind = "intrusive"
      /\ order' = Append(order, Stub) /\ order \in Seq(Nodes) /\ UNCHANGED <<kind, got>>
  BY DEF Exchange, LinksFollowExchanges, TypeOK, Calls, Intrusive, Hands, Busy
<1>2. /\ order' \in Seq(Nodes) /\ Len(order) + 1 \in 1 .. Len(order')
      /\ order'[Len(order) + 1] = Stub /\ InOrder(Stub)'
      /\ \A j, k \in 1 .. Len(order') : order'[j] = order'[k] => j = k
  BY <1>1, Appended, ExchangeStep DEF Places, LinksFollowExchanges, TypeOK
<1>3. Content' = Without(order', Len(order) + 1)
  BY <1>1, <1>2, DummyPlace DEF Content
<1>4. Content' = order
  BY <1>1, <1>3, WithoutLast
<1> QED BY <1>1, <1>4, NoDummy

\* The first item of a plain queue is that of the second node.
LEMMA ReadPlainIsTake ==
  ASSUME QueueInv, NEW t \in Takers, ReadPlain(t)
  PROVE  Fifo!Take(t)
<1> USE RolesDistinct, NodesDistinct DEF QueueInv, Goto, Threads, Takers, Nodes
<1>1. /\ kind = "plain" /\ kind' = kind /\ order' = Tail(order) /\ got[t] = NULL
      /\ got' = [got EXCEPT ![t] = next[tail]]
  BY DEF ReadPlain, Advance, Calls, Intrusive
<1>2. /\ Len(order) \in Nat /\ Len(order) > 1
      /\ Tail(order) \in Seq(Nodes) /\ Len(Tail(order)) = Len(order) - 1
      /\ next[tail] = order[2] /\ \A k \in 1 .. Len(order) - 1 : Tail(order)[k] = order[k + 1]
  BY Successor DEF ReadPlain
<1>3. Tail(order) # <<>> /\ Head(Tail(order)) = order[2]
  <2>1. PICK n \in Nat : n = Len(order) /\ n > 1
    BY <1>2
  <2>2. Len(Tail(order)) = n - 1 /\ 1 \in 1 .. n - 1 /\ Tail(order)[1] = order[1 + 1]
    BY <1>2, <2>1
  <2>3. Tail(order) # <<>>
    <3>1. Len(Tail(order)) # 0
      BY <2>1, <2>2
    <3>2. Len(<<>>) = 0
      OBVIOUS
    <3> QED BY <3>1, <3>2, Zenon
  <2> QED BY <1>2, <2>2, <2>3
<1> QED BY <1>1, <1>2, <1>3 DEF Fifo!Take, Content

\* The first node of an intrusive queue is its first item.
LEMMA TakeLinkedIsTake ==
  ASSUME QueueInv, NEW t \in Takers, NEW from \in {"first", "second", "reread"},
         kind = "intrusive", tail # Stub, TakeLinked(t, from)
  PROVE  Fifo!Take(t)
<1> USE RolesDistinct, NodesDistinct DEF QueueInv, Goto, Threads, Takers, Nodes
<1>1. /\ kind' = kind /\ order' = Tail(order) /\ got[t] = NULL /\ order[1] = tail
      /\ got' = [got EXCEPT ![t] = tail] /\ order \in Seq(Nodes) /\ order # <<>>
  BY DEF TakeLinked, Advance, Calls, LinksFollowExchanges, TypeOK
<1>2. /\ \A n \in Nodes : InOrder(n)' <=> InOrder(n) /\ n # tail
      /\ \A j, k \in 1 .. Len(order') : order'[j] = order'[k] => j = k
      /\ order' \in Seq(Nodes)
  BY <1>1, AdvanceKeepsPlaces, Successor DEF TakeLinked
<1>3. Content # <<>> /\ Head(Content) = tail /\ Content' = Tail(Content)
  <2>1. CASE InOrder(Stub)
    <3>1. PICK h \in 1 .. Len(order) : order[h] = Stub
      BY <2>1 DEF InOrder
    <3>2. h \in 2 .. Len(order) /\ Content = Without(order, h)
      BY <1>1, <3>1, WithoutDummy
    <3>3. /\ Content # <<>> /\ Head(Content) = tail
          /\ h - 1 \in 1 .. Len(order') /\ order'[h - 1] = Stub
          /\ Tail(Content) = Without(order', h - 1)
      BY <1>1, <3>1, <3>2, TailWithout
    <3>4. InOrder(Stub)' /\ (CHOOSE k \in 1 .. Len(order') : order'[k] = Stub) = h - 1
      BY <1>2, <2>1, <3>3, DummyPlace
    <3> QED BY <1>1, <3>3, <3>4 DEF Content
  <2>2. CASE ~InOrder(Stub)
    BY <1>1, <1>2, <2>2 DEF Content
  <2> QED BY <2>1, <2>2
<1> QED BY <1>1, <1>3 DEF Fifo!Take

LEMMA SkipDummyIsNoTake ==
  ASSUME QueueInv, NEW t \in Takers, SkipDummy(t)
  PROVE  UNCHANGED <<Content, got>>
<1> USE RolesDistinct, NodesDistinct DEF QueueInv, Goto, Threads, Takers, Nodes
<1>1. /\ kind = "intrusive" /\ order' = Tail(order) /\ UNCHANGED <<kind, got>> /\ order[1] = Stub
      /\ order \in Seq(Nodes) /\ order # <<>> /\ 1 \in 1 .. Len(order)
  BY Successor DEF SkipDummy, Advance, LinksFollowExchanges, TypeOK
<1>2. ~InOrder(Stub)'
  BY AdvanceKeepsPlaces DEF SkipDummy
<1>3. Content = Tail(order)
  BY <1>1, WithoutDummy, WithoutFirst
<1>4. Content' = order'
  BY <1>1, <1>2 DEF Content
<1> QED BY <1>1, <1>3, <1>4

\* Every other step of the queue is not seen by its users.
LEMMA FifoStep ==
  ASSUME QueueInv, [Next]_vars
  PROVE  [Fifo!Next]_(Fifo!vars)
<1> USE RolesDistinct, NodesDistinct DEF Goto, Threads, Takers, Nodes
<1>1. ASSUME UNCHANGED <<kind, order, got>>
      PROVE  UNCHANGED Fifo!vars
  BY <1>1 DEF Fifo!vars, Content, InOrder
<1>2. ASSUME UNCHANGED <<Content, got>>
      PROVE  UNCHANGED Fifo!vars
  BY <1>2 DEF Fifo!vars
<1>3. ASSUME NEW p \in Producers, Produce(p)
      PROVE  [Fifo!Next]_(Fifo!vars)
  BY <1>1, <1>3, ExchangeIsPut DEF Produce, Prepare, Link, Leave, Fifo!Next
<1>4. ASSUME NEW t \in Takers, Dequeue(t)
      PROVE  [Fifo!Next]_(Fifo!vars)
  <2>1. CASE ReadPlain(t)
    BY <2>1, ReadPlainIsTake DEF Fifo!Next
  <2>2. CASE \/ ReadIntrusive(t) /\ (TakeLinked(t, "first") \/ TakeLinked(t, "second"))
             \/ TakeLinked(t, "reread")
    <3>1. kind = "intrusive" /\ tail # Stub
      BY <2>2 DEF ReadIntrusive, TakeLinked, QueueInv, Calls, Intrusive
    <3> QED BY <2>2, <3>1, TakeLinkedIsTake DEF Fifo!Next
  <2>3. CASE SkipDummy(t) \/ Exchange(t)
    BY <1>2, <2>3, SkipDummyIsNoTake, DummyIsNoPut
  <2>4. CASE UNCHANGED <<kind, order, got>>
    BY <1>1, <2>4
  <2> QED BY <1>4, <2>1, <2>2, <2>3, <2>4
       DEF Dequeue, ReadNothing, ReadIntrusive, CompareHead, Link, Reread
<1>5. ASSUME NEW t \in Takers, UseItem(t)
      PROVE  Fifo!Next
  <2>1. Fifo!Drop(t)
    BY <1>5 DEF UseItem, Fifo!Drop, Content, InOrder
  <2> QED BY <2>1 DEF Fifo!Next
<1>6. CASE Consume
  BY <1>1, <1>4, <1>5, <1>6 DEF Consume, Call, GetNothing
<1>7. CASE Destruct
  BY <1>1, <1>4, <1>5, <1>7 DEF Destruct, Call, Drain, FreeLast
<1>8. CASE UNCHANGED vars
  BY <1>1, <1>8 DEF vars
<1> QED BY <1>3, <1>6, <1>7, <1>8 DEF Next, Finished

\* Items come out once and in the order of the exchanges, from both classes, for
\* any number of producers and items.
THEOREM FifoRefinement == Spec => ImplementsFifo
<1>1. Init => Fifo!Init
  <2> SUFFICES ASSUME Init
               PROVE  Content = <<>> /\ got = [u \in Takers |-> NULL]
    BY DEF Fifo!Init
  <2>1. QueueInv /\ order = <<Stub>> /\ tail = head /\ kind \in {"plain", "intrusive"}
    BY InitQueue, KindsKnown DEF Init
  <2>2. CASE kind = "plain"
    <3>1. Content = Tail(order)
      BY <2>2 DEF Content
    <3> QED BY <2>1, <3>1 DEF Init
  <2>3. CASE kind = "intrusive"
    <3>1. Content = Without(order, 1)
      BY <2>1, <2>3, WithoutDummy DEF QueueInv, LinksFollowExchanges
    <3>2. Content = Tail(order)
      BY <2>1, <3>1, WithoutFirst DEF QueueInv, LinksFollowExchanges, TypeOK
    <3> QED BY <2>1, <3>2 DEF Init
  <2> QED BY <2>1, <2>2, <2>3 DEF Init
<1>2. QueueInv /\ [Next]_vars => [Fifo!Next]_(Fifo!vars)
  BY FifoStep
<1> QED BY <1>1, <1>2, Queues, PTL DEF Spec, ImplementsFifo, Fifo!Spec
=============================================================================
