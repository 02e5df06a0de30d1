-------------------------- MODULE TaskQueueProofs --------------------------
(***************************************************************************)
(* The spinlock excludes, and under it the linked list of the C thread     *)
(* pool is a queue, for any number of threads and nodes.                   *)
(***************************************************************************)
EXTENDS TaskQueue, SequenceTheorems, TLAPS

\* A step of the lock or of a list operation preserves the types.
LEMMA TypeStep ==
  ASSUME TypeOK, PopsOldest, [Next]_vars
  PROVE  TypeOK'
<1> USE RolesDistinct, AddressesDistinct
    DEF TypeOK, Threads, Critical, Goto, list
<1>1. ASSUME NEW t \in Threads, Exchange(t) PROVE TypeOK'
  BY <1>1 DEF Exchange
<1>2. ASSUME NEW t \in Threads, SpinEnds(t) PROVE TypeOK'
  BY <1>2 DEF SpinEnds
<1>3. ASSUME NEW t \in Threads, Unlock(t) PROVE TypeOK'
  BY <1>3 DEF Unlock
<1>4. ASSUME NEW a \in Adders, NewTask(a) PROVE TypeOK'
  BY <1>4 DEF NewTask
<1>5. ASSUME NEW a \in Adders, Link(a) PROVE TypeOK'
  BY <1>5 DEF Link
<1>6. ASSUME NEW a \in Adders, MoveTail(a) PROVE TypeOK'
  BY <1>6 DEF MoveTail
<1>7. ASSUME NEW a \in Adders, Added(a) PROVE TypeOK'
  BY <1>7 DEF Added
<1>8. ASSUME NEW c \in Poppers, BeginPop(c) PROVE TypeOK'
  BY <1>8 DEF BeginPop
<1>9. ASSUME NEW c \in Poppers, ReadHead(c) PROVE TypeOK'
  BY <1>9 DEF ReadHead
<1>10. ASSUME NEW c \in Poppers, Advance(c) PROVE TypeOK'
  <2>1. content # <<>>
    BY <1>10 DEF Advance, PopsOldest
  <2> QED BY <1>10, <2>1 DEF Advance
<1>11. ASSUME NEW c \in Poppers, ResetTail(c) PROVE TypeOK'
  BY <1>11 DEF ResetTail
<1>12. ASSUME NEW c \in Poppers, Popped(c) PROVE TypeOK'
  BY <1>12 DEF Popped
<1>13. CASE UNCHANGED vars
  BY <1>13 DEF vars
<1> QED
  BY <1>1, <1>2, <1>3, <1>4, <1>5, <1>6, <1>7, <1>8, <1>9, <1>10, <1>11,
     <1>12, <1>13
  DEF Next, LockStep, AddStep, PopStep

\* The lock word and the program counters keep step.
LEMMA MutexStep ==
  ASSUME TypeOK, MutualExclusion, [Next]_vars
  PROVE  MutualExclusion'
<1> USE RolesDistinct
    DEF TypeOK, MutualExclusion, Threads, Critical, Goto, list
<1>1. ASSUME NEW t \in Threads, Exchange(t) PROVE MutualExclusion'
  BY <1>1 DEF Exchange
<1>2. ASSUME NEW t \in Threads, SpinEnds(t) PROVE MutualExclusion'
  BY <1>2 DEF SpinEnds
<1>3. ASSUME NEW t \in Threads, Unlock(t) PROVE MutualExclusion'
  BY <1>3 DEF Unlock
<1>4. ASSUME NEW a \in Adders, NewTask(a) PROVE MutualExclusion'
  BY <1>4 DEF NewTask
<1>5. ASSUME NEW a \in Adders, Link(a) PROVE MutualExclusion'
  BY <1>5 DEF Link
<1>6. ASSUME NEW a \in Adders, MoveTail(a) PROVE MutualExclusion'
  BY <1>6 DEF MoveTail
<1>7. ASSUME NEW a \in Adders, Added(a) PROVE MutualExclusion'
  BY <1>7 DEF Added
<1>8. ASSUME NEW c \in Poppers, BeginPop(c) PROVE MutualExclusion'
  BY <1>8 DEF BeginPop
<1>9. ASSUME NEW c \in Poppers, ReadHead(c) PROVE MutualExclusion'
  BY <1>9 DEF ReadHead
<1>10. ASSUME NEW c \in Poppers, Advance(c) PROVE MutualExclusion'
  BY <1>10 DEF Advance
<1>11. ASSUME NEW c \in Poppers, ResetTail(c) PROVE MutualExclusion'
  BY <1>11 DEF ResetTail
<1>12. ASSUME NEW c \in Poppers, Popped(c) PROVE MutualExclusion'
  BY <1>12 DEF Popped
<1>13. CASE UNCHANGED vars
  BY <1>13 DEF vars
<1> QED
  BY <1>1, <1>2, <1>3, <1>4, <1>5, <1>6, <1>7, <1>8, <1>9, <1>10, <1>11,
     <1>12, <1>13
  DEF Next, LockStep, AddStep, PopStep

\* What the list looks like inside the critical sections: after Link the new
\* node is the last one and tail is stale, after Advance tail may be the
\* address of the node just taken.
ListInv ==
  /\ ListIsContent
  /\ PopsOldest
  /\ \A a \in Adders :
       pc[a] \in {"lock", "spin", "append"} => next[node[a]] = NULL
  /\ \A a \in Adders :
       pc[a] = "tail" => content # <<>> /\ content[Len(content)] = node[a]
  /\ (\A t \in Threads : pc[t] # "tail") /\ content # <<>> =>
       tail = content[Len(content)]
  /\ (\A t \in Threads : pc[t] \notin {"tail", "reset"}) /\ content = <<>> =>
       tail = HEAD

\* Cutting off the first element of a linked list leaves a linked list that
\* begins where the first element pointed and ends where it ended.
LEMMA TailOfList ==
  ASSUME NEW s \in Seq(Nodes), s # <<>>, NEW nx,
         \A i \in 1 .. Len(s) :
           nx[s[i]] = IF i = Len(s) THEN NULL ELSE s[i + 1]
  PROVE  /\ nx[s[1]] = IF Tail(s) = <<>> THEN NULL ELSE Tail(s)[1]
         /\ \A i \in 1 .. Len(Tail(s)) :
              nx[Tail(s)[i]] =
                IF i = Len(Tail(s)) THEN NULL ELSE Tail(s)[i + 1]
         /\ Tail(s) # <<>> => Tail(s)[Len(Tail(s))] = s[Len(s)]
<1> DEFINE r == Tail(s)
<1>1. Len(s) \in Nat \ {0}
  OBVIOUS
<1>2. /\ Len(r) = Len(s) - 1
      /\ \A i \in 1 .. Len(r) : r[i] = s[i + 1]
  OBVIOUS
<1>3. r = <<>> <=> Len(r) = 0
  BY HeadTailProperties, EmptySeq
<1> HIDE DEF r
<1>4. nx[s[1]] = IF r = <<>> THEN NULL ELSE r[1]
  <2>1. nx[s[1]] = IF 1 = Len(s) THEN NULL ELSE s[2]
    <3>1. PICK i \in 1 .. Len(s) : i = 1
      BY <1>1
    <3>2. nx[s[i]] = IF i = Len(s) THEN NULL ELSE s[i + 1]
      OBVIOUS
    <3> QED BY <3>1, <3>2
  <2>2. CASE Len(s) = 1
    BY <1>2, <1>3, <2>1, <2>2
  <2>3. CASE Len(s) # 1
    <3>1. 1 \in 1 .. Len(r)
      BY <1>1, <1>2, <2>3
    <3> QED BY <1>1, <1>2, <1>3, <2>1, <2>3, <3>1
  <2> QED BY <2>2, <2>3
<1>5. ASSUME NEW i \in 1 .. Len(r)
      PROVE  nx[r[i]] = IF i = Len(r) THEN NULL ELSE r[i + 1]
  <2>1. i + 1 \in 1 .. Len(s) /\ r[i] = s[i + 1]
    BY <1>1, <1>2
  <2>2. nx[r[i]] = IF i + 1 = Len(s) THEN NULL ELSE s[(i + 1) + 1]
    BY <2>1
  <2>3. i # Len(r) => i + 1 \in 1 .. Len(r)
    BY <1>1, <1>2
  <2> QED BY <1>1, <1>2, <2>2, <2>3
<1>6. r # <<>> => r[Len(r)] = s[Len(s)]
  BY <1>1, <1>2, <1>3
<1> QED BY <1>4, <1>5, <1>6 DEF r

\* Every access keeps the list equal to content.
LEMMA ListStep ==
  ASSUME TypeOK, MutualExclusion, NodesOwnedOnce, ListInv, [Next]_vars
  PROVE  ListInv'
<1> USE RolesDistinct, AddressesDistinct
    DEF TypeOK, MutualExclusion, NodesOwnedOnce, ListInv, ListIsContent,
      PopsOldest, Holds, Threads, Critical, Goto, list
<1>1. ASSUME NEW t \in Threads, Exchange(t) PROVE ListInv'
  BY <1>1 DEF Exchange
<1>2. ASSUME NEW t \in Threads, SpinEnds(t) PROVE ListInv'
  BY <1>2 DEF SpinEnds
<1>3. ASSUME NEW t \in Threads, Unlock(t) PROVE ListInv'
  BY <1>3 DEF Unlock
<1>4. ASSUME NEW a \in Adders, NewTask(a) PROVE ListInv'
  BY <1>4 DEF NewTask
<1>5. ASSUME NEW a \in Adders, Link(a) PROVE ListInv'
  BY <1>5 DEF Link
<1>6. ASSUME NEW a \in Adders, MoveTail(a) PROVE ListInv'
  BY <1>6 DEF MoveTail
<1>7. ASSUME NEW a \in Adders, Added(a) PROVE ListInv'
  BY <1>7 DEF Added
<1>8. ASSUME NEW c \in Poppers, BeginPop(c) PROVE ListInv'
  BY <1>8 DEF BeginPop
<1>9. ASSUME NEW c \in Poppers, ReadHead(c) PROVE ListInv'
  BY <1>9 DEF ReadHead
<1>10. ASSUME NEW c \in Poppers, Advance(c) PROVE ListInv'
  <2>1. /\ content \in Seq(Nodes) /\ content # <<>> /\ node[c] = content[1]
        /\ \A t \in Threads \ {c} : pc[t] \notin Critical
        /\ tail = content[Len(content)]
        /\ \A i \in 1 .. Len(content) :
             next[content[i]] = IF i = Len(content) THEN NULL ELSE content[i + 1]
    BY <1>10 DEF Advance
  <2>2. /\ content' = Tail(content) /\ next' = next /\ tail' = tail
        /\ head' = next[content[1]]
    BY <1>10, <2>1 DEF Advance
  <2>3. /\ ListIsContent'
        /\ content' # <<>> => tail' = content'[Len(content')]
    BY ONLY <2>1, <2>2, TailOfList DEF ListIsContent
  <2>4. /\ \A t \in Threads \ {c} : pc'[t] \notin Critical
        /\ pc'[c] = "reset"
    BY <1>10, <2>1 DEF Advance
  <2>5. \A a \in Adders :
          pc'[a] \in {"lock", "spin", "append"} => next'[node'[a]] = NULL
    BY <1>10 DEF Advance
  <2> QED
    BY <2>3, <2>4, <2>5
<1>11. ASSUME NEW c \in Poppers, ResetTail(c) PROVE ListInv'
  BY <1>11 DEF ResetTail
<1>12. ASSUME NEW c \in Poppers, Popped(c) PROVE ListInv'
  BY <1>12 DEF Popped
<1>13. CASE UNCHANGED vars
  BY <1>13 DEF vars
<1> QED
  BY <1>1, <1>2, <1>3, <1>4, <1>5, <1>6, <1>7, <1>8, <1>9, <1>10, <1>11,
     <1>12, <1>13
  DEF Next, LockStep, AddStep, PopStep

\* Every access keeps each node in one place.
LEMMA OwnStep ==
  ASSUME TypeOK, MutualExclusion, ListInv, NodesOwnedOnce, [Next]_vars
  PROVE  NodesOwnedOnce'
<1> USE RolesDistinct, AddressesDistinct
    DEF TypeOK, MutualExclusion, NodesOwnedOnce, ListInv,
      PopsOldest, Holds, Threads, Critical, Goto, list
<1>1. ASSUME NEW t \in Threads, Exchange(t) PROVE NodesOwnedOnce'
  BY <1>1 DEF Exchange
<1>2. ASSUME NEW t \in Threads, SpinEnds(t) PROVE NodesOwnedOnce'
  BY <1>2 DEF SpinEnds
<1>3. ASSUME NEW t \in Threads, Unlock(t) PROVE NodesOwnedOnce'
  BY <1>3 DEF Unlock
<1>4. ASSUME NEW a \in Adders, NewTask(a) PROVE NodesOwnedOnce'
  BY <1>4 DEF NewTask
<1>5. ASSUME NEW a \in Adders, Link(a) PROVE NodesOwnedOnce'
  BY <1>5 DEF Link
<1>6. ASSUME NEW a \in Adders, MoveTail(a) PROVE NodesOwnedOnce'
  BY <1>6 DEF MoveTail
<1>7. ASSUME NEW a \in Adders, Added(a) PROVE NodesOwnedOnce'
  BY <1>7 DEF Added
<1>8. ASSUME NEW c \in Poppers, BeginPop(c) PROVE NodesOwnedOnce'
  BY <1>8 DEF BeginPop
<1>9. ASSUME NEW c \in Poppers, ReadHead(c) PROVE NodesOwnedOnce'
  BY <1>9 DEF ReadHead
<1>10. ASSUME NEW c \in Poppers, Advance(c) PROVE NodesOwnedOnce'
  BY <1>10 DEF Advance
<1>11. ASSUME NEW c \in Poppers, ResetTail(c) PROVE NodesOwnedOnce'
  BY <1>11 DEF ResetTail
<1>12. ASSUME NEW c \in Poppers, Popped(c) PROVE NodesOwnedOnce'
  BY <1>12 DEF Popped
<1>13. CASE UNCHANGED vars
  BY <1>13 DEF vars
<1> QED
  BY <1>1, <1>2, <1>3, <1>4, <1>5, <1>6, <1>7, <1>8, <1>9, <1>10, <1>11,
     <1>12, <1>13
  DEF Next, LockStep, AddStep, PopStep

-----------------------------------------------------------------------------
QueueInv == TypeOK /\ MutualExclusion /\ ListInv /\ NodesOwnedOnce

\* All of it at once: typing needs the list, the list needs the lock and the
\* ownership of nodes.
LEMMA Inductive == Spec => []QueueInv
<1>1. Init => QueueInv
  BY RolesDistinct, AddressesDistinct
  DEF Init, QueueInv, TypeOK, MutualExclusion, ListInv, ListIsContent,
      PopsOldest, NodesOwnedOnce, Holds, Threads, Critical
<1>2. QueueInv /\ [Next]_vars => QueueInv'
  <2>1. QueueInv => PopsOldest
    BY DEF QueueInv, ListInv
  <2> QED
    BY <2>1, TypeStep, MutexStep, ListStep, OwnStep DEF QueueInv
<1> QED BY <1>1, <1>2, PTL DEF Spec

\* The variables of the queue stay well typed.
THEOREM Typed == Spec => []TypeOK
<1>1. QueueInv => TypeOK
  BY DEF QueueInv
<1> QED BY <1>1, Inductive, PTL

\* spinlock_lock admits one thread at a time (spinlock.h, lines 72-91).
THEOREM Exclusion == Spec => []MutualExclusion
<1>1. QueueInv => MutualExclusion
  BY DEF QueueInv
<1> QED BY <1>1, Inductive, PTL

\* __add_task and __pop_task keep the links equal to the queue they implement
\* (thrd_pool.c, lines 119-160).
THEOREM ListCorrect == Spec => [](ListIsContent /\ PopsOldest)
<1>1. QueueInv => ListIsContent /\ PopsOldest
  BY DEF QueueInv, ListInv
<1> QED BY <1>1, Inductive, PTL

\* Whenever the lock is free, tail addresses the last pointer of the list.
THEOREM TailCorrect == Spec => []TailIsLast
<1>1. QueueInv => TailIsLast
  BY DEF QueueInv, TypeOK, MutualExclusion, ListInv, TailIsLast, Critical
<1> QED BY <1>1, Inductive, PTL

\* No task node is lost, handed out twice or freed while in use.
THEOREM Ownership == Spec => []NodesOwnedOnce
<1>1. QueueInv => NodesOwnedOnce
  BY DEF QueueInv
<1> QED BY <1>1, Inductive, PTL

-----------------------------------------------------------------------------
(* The list implements the queue of FifoQueue.                             *)

\* The nodes that __pop_task has taken out of the list
Out == [c \in Poppers |-> Taken(c)]

\* Line 126 puts the new node into the queue.
LEMMA LinkIsPut ==
  ASSUME QueueInv, NEW a \in Adders, Link(a)
  PROVE  Fifo!Put(node[a]) /\ node[a] \in Nodes
<1> USE RolesDistinct DEF QueueInv, TypeOK, Threads, Goto
<1>1. node[a] \in Nodes /\ Holds(a)
  BY DEF Link, Holds
<1>2. \A k \in 1 .. Len(content) : content[k] # node[a]
  BY <1>1 DEF NodesOwnedOnce
<1>3. \A c \in Poppers : Taken(c) # node[a]
  <2> SUFFICES ASSUME NEW c \in Poppers, Taken(c) = node[a]
               PROVE  FALSE
    OBVIOUS
  <2>1. c \in Threads /\ a \in Threads /\ c # a
    OBVIOUS
  <2>2. node[c] = node[a] /\ node[c] # NULL /\ pc[c] \in {"reset", "unlock", "unlocked"}
    BY <1>1, AddressesDistinct DEF Taken
  <2>3. Holds(c)
    BY <2>2 DEF Holds
  <2> QED BY <1>1, <2>1, <2>2, <2>3 DEF NodesOwnedOnce
<1>4. \A c \in Poppers : Taken(c)' = Taken(c)
  BY DEF Taken, Link
<1>5. content' = Append(content, node[a])
  BY DEF Link
<1> QED
  BY <1>1, <1>2, <1>3, <1>4, <1>5 DEF Fifo!Put

\* Line 153 takes the oldest node out of it.
LEMMA AdvanceIsTake ==
  ASSUME QueueInv, NEW c \in Poppers, Advance(c)
  PROVE  Fifo!Take(c)
<1> USE RolesDistinct DEF QueueInv, TypeOK, Threads, Goto
<1>1. content # <<>> /\ node[c] = Head(content)
  BY DEF Advance, ListInv, PopsOldest
<1>2. Taken(c) = NULL
  BY DEF Advance, Taken
<1>3. content' = Tail(content)
  BY DEF Advance
<1>4. Taken(c)' = Head(content) /\ \A d \in Poppers \ {c} : Taken(d)' = Taken(d)
  BY <1>1 DEF Advance, Taken
<1>5. Out' = [Out EXCEPT ![c] = Head(content)]
  BY <1>4 DEF Out
<1> QED
  BY <1>1, <1>2, <1>3, <1>5 DEF Fifo!Take, Out

\* Whoever frees the node drops it.
LEMMA PoppedIsDrop ==
  ASSUME QueueInv, NEW c \in Poppers, Popped(c)
  PROVE  Fifo!Drop(c)
<1> USE RolesDistinct DEF QueueInv, TypeOK, Threads, Goto
<1>1. content' = content
  BY DEF Popped, list
<1>2. Taken(c)' = NULL /\ \A d \in Poppers \ {c} : Taken(d)' = Taken(d)
  BY DEF Popped, Taken
<1>3. Out' = [Out EXCEPT ![c] = NULL]
  BY <1>2 DEF Out
<1> QED
  BY <1>1, <1>3 DEF Fifo!Drop, Out

\* Every step of the list is one of these three, or is not seen.
LEMMA FifoStep ==
  ASSUME QueueInv, [Next]_vars
  PROVE  [Fifo!Next]_(Fifo!vars)
<1>1. ASSUME NEW a \in Adders, Link(a) PROVE Fifo!Next
  BY <1>1, LinkIsPut DEF Fifo!Next
<1>2. ASSUME NEW c \in Poppers, Advance(c) PROVE Fifo!Next
  BY <1>2, AdvanceIsTake DEF Fifo!Next
<1>3. ASSUME NEW c \in Poppers, Popped(c) PROVE Fifo!Next
  BY <1>3, PoppedIsDrop DEF Fifo!Next
<1>4. ASSUME content' = content, \A c \in Poppers : Taken(c)' = Taken(c)
      PROVE  UNCHANGED Fifo!vars
  BY <1>4 DEF Fifo!vars
<1> USE RolesDistinct DEF QueueInv, TypeOK, Threads, Goto, list, Taken
<1>5. ASSUME NEW t \in Threads, LockStep(t) PROVE UNCHANGED Fifo!vars
  BY <1>4, <1>5 DEF LockStep, Exchange, SpinEnds, Unlock
<1>6. ASSUME NEW a \in Adders, NewTask(a) \/ MoveTail(a) \/ Added(a)
      PROVE  UNCHANGED Fifo!vars
  BY <1>4, <1>6 DEF NewTask, MoveTail, Added
<1>7. ASSUME NEW c \in Poppers, BeginPop(c) \/ ReadHead(c) \/ ResetTail(c)
      PROVE  UNCHANGED Fifo!vars
  BY <1>4, <1>7 DEF BeginPop, ReadHead, ResetTail
<1>8. CASE UNCHANGED vars
  BY <1>4, <1>8 DEF vars
<1> QED
  BY <1>1, <1>2, <1>3, <1>5, <1>6, <1>7, <1>8 DEF Next, AddStep, PopStep

\* What thrdpool_post adds comes out once and in order, for any number of
\* threads and nodes, although malloc hands the nodes out again.
THEOREM FifoRefinement == Spec => ImplementsFifo
<1>1. Init => Fifo!Init
  BY DEF Init, Fifo!Init, Taken, Threads
<1>2. QueueInv /\ [Next]_vars => [Fifo!Next]_(Fifo!vars)
  BY FifoStep
<1> QED
  BY <1>1, <1>2, Inductive, PTL DEF Spec, ImplementsFifo, Fifo!Spec
=============================================================================
