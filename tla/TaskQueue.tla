----------------------------- MODULE TaskQueue -----------------------------
(***************************************************************************)
(* The linked list of the C thread pool, one memory access per step: the   *)
(* bodies of __add_task and __pop_task (thrd_pool.c) under the             *)
(* test-and-test-and-set lock of spinlock.h.                               *)
(*                                                                         *)
(* A task node begins with its link, so that the queue's tail is the       *)
(* address of a pointer: that of the link of the last node, or, when the   *)
(* queue is empty, that of the queue's own head, written HEAD here.  Nodes *)
(* come from malloc and go back to it, and may be handed out again.        *)
(*                                                                         *)
(* The history variable content says what the queue should hold.           *)
(***************************************************************************)
EXTENDS Naturals, Sequences

CONSTANTS
  Adders,    \* the threads inside thrdpool_post
  Poppers,   \* the threads inside __get_task or __taskqueue_destroy
  Nodes,     \* the memory malloc can return
  NULL,
  HEAD       \* &queue->head

Threads == Adders \cup Poppers

ASSUME RolesDistinct == Adders \cap Poppers = {}
ASSUME AddressesDistinct == NULL # HEAD /\ {NULL, HEAD} \cap Nodes = {}

VARIABLES
  pc,       \* the next access of each thread
  node,     \* the local variable link or task of each thread
  head,     \* queue->head
  tail,     \* queue->tail
  next,     \* the first word of each node
  lock,     \* queue->lock
  free,     \* the nodes that are not allocated
  content   \* history: the nodes added and not popped yet, oldest first

vars == <<pc, node, head, tail, next, lock, free, content>>
list == <<head, tail, next, content>>

Init ==
  /\ pc = [t \in Threads |-> "idle"]
  /\ node = [t \in Threads |-> NULL]
  /\ head = NULL
  /\ tail = HEAD
  /\ next = [n \in Nodes |-> NULL]
  /\ lock = 0
  /\ free = Nodes
  /\ content = <<>>

Goto(t, from, to) ==
  /\ pc[t] = from
  /\ pc' = [pc EXCEPT ![t] = to]

-----------------------------------------------------------------------------
(* spinlock_lock and spinlock_unlock *)

\* Faulty: the word is read, found free, and set by a plain store.
StoreLock(t) ==
  /\ Goto(t, "lock", IF t \in Adders THEN "append" ELSE "read")
  /\ lock' = 1
  /\ UNCHANGED <<node, free, list>>

Exchange(t) ==
  /\ Goto(t, "lock", IF lock = 1 THEN "spin"
                     ELSE IF t \in Adders THEN "append" ELSE "read")
  /\ lock' = 1
  /\ UNCHANGED <<node, free, list>>

\* The relaxed load of the inner loop has seen the lock free.
SpinEnds(t) ==
  /\ lock = 0
  /\ Goto(t, "spin", "lock")
  /\ UNCHANGED <<node, lock, free, list>>

Unlock(t) ==
  /\ Goto(t, "unlock", "unlocked")
  /\ lock' = 0
  /\ UNCHANGED <<node, free, list>>

-----------------------------------------------------------------------------
(* __add_task *)

\* malloc in thrdpool_post, then *link = NULL.
NewTask(a) ==
  /\ Goto(a, "idle", "lock")
  /\ \E n \in free :
       /\ node' = [node EXCEPT ![a] = n]
       /\ free' = free \ {n}
       /\ next' = [next EXCEPT ![n] = NULL]
  /\ UNCHANGED <<head, tail, lock, content>>

\* *queue->tail = link
Link(a) ==
  /\ Goto(a, "append", "tail")
  /\ IF tail = HEAD THEN head' = node[a] /\ UNCHANGED next
     ELSE next' = [next EXCEPT ![tail] = node[a]] /\ UNCHANGED head
  /\ content' = Append(content, node[a])
  /\ UNCHANGED <<node, tail, lock, free>>

\* Faulty: tail stays where it was.
KeepTail(a) ==
  /\ Goto(a, "tail", "unlock")
  /\ UNCHANGED <<node, lock, free, list>>

\* queue->tail = link
MoveTail(a) ==
  /\ Goto(a, "tail", "unlock")
  /\ tail' = node[a]
  /\ UNCHANGED <<node, head, next, lock, free, content>>

\* Faulty: the poster frees what it has handed over.
AddedAndFreed(a) ==
  /\ Goto(a, "unlocked", "idle")
  /\ node' = [node EXCEPT ![a] = NULL]
  /\ free' = free \cup {node[a]}
  /\ UNCHANGED <<lock, list>>

Added(a) ==
  /\ Goto(a, "unlocked", "idle")
  /\ node' = [node EXCEPT ![a] = NULL]
  /\ UNCHANGED <<lock, free, list>>

-----------------------------------------------------------------------------
(* __pop_task *)

BeginPop(c) ==
  /\ Goto(c, "idle", "lock")
  /\ UNCHANGED <<node, lock, free, list>>

\* Faulty: the empty queue is reported without unlocking.
ReadHeadLocked(c) ==
  /\ Goto(c, "read", IF head = NULL THEN "unlocked" ELSE "advance")
  /\ node' = [node EXCEPT ![c] = head]
  /\ UNCHANGED <<lock, free, list>>

ReadHead(c) ==
  /\ Goto(c, "read", IF head = NULL THEN "unlock" ELSE "advance")
  /\ node' = [node EXCEPT ![c] = head]
  /\ UNCHANGED <<lock, free, list>>

\* queue->head = *link
Advance(c) ==
  /\ Goto(c, "advance", "reset")
  /\ head' = next[node[c]]
  /\ content' = Tail(content)
  /\ UNCHANGED <<node, tail, next, lock, free>>

\* Faulty: the tail keeps the address of the node that was popped last.
ResetNothing(c) ==
  /\ Goto(c, "reset", "unlock")
  /\ UNCHANGED <<node, lock, free, list>>

ResetTail(c) ==
  /\ Goto(c, "reset", "unlock")
  /\ tail' = IF head = NULL THEN HEAD ELSE tail
  /\ UNCHANGED <<node, head, next, lock, free, content>>

\* The caller frees the task it got; whoever gets the memory next finds there
\* what was left in it.
Popped(c) ==
  /\ Goto(c, "unlocked", "idle")
  /\ free' = free \cup ({node[c]} \ {NULL})
  /\ node' = [node EXCEPT ![c] = NULL]
  /\ UNCHANGED <<lock, list>>

-----------------------------------------------------------------------------
LockStep(t) == Exchange(t) \/ SpinEnds(t) \/ Unlock(t)
AddStep(a) == Link(a) \/ MoveTail(a) \/ Added(a)
PopStep(c) == ReadHead(c) \/ Advance(c) \/ ResetTail(c) \/ Popped(c)

Next ==
  \/ \E t \in Threads : LockStep(t)
  \/ \E a \in Adders : NewTask(a) \/ AddStep(a)
  \/ \E c \in Poppers : BeginPop(c) \/ PopStep(c)

Spec == Init /\ [][Next]_vars

\* A thread inside __add_task or __pop_task keeps running.
Fairness ==
  /\ \A a \in Adders : WF_vars(LockStep(a) \/ AddStep(a))
  /\ \A c \in Poppers : WF_vars(LockStep(c) \/ PopStep(c))

FairSpec == Spec /\ Fairness

-----------------------------------------------------------------------------
Critical == {"append", "tail", "read", "advance", "reset", "unlock"}

\* The list, its lock and the threads at work on it.
TypeOK ==
  /\ pc \in [Threads -> {"idle", "lock", "spin", "unlocked"} \cup Critical]
  /\ \A a \in Adders : pc[a] \notin {"read", "advance", "reset"}
  /\ \A c \in Poppers : pc[c] \notin {"append", "tail"}
  /\ node \in [Threads -> Nodes \cup {NULL}]
  /\ \A a \in Adders : pc[a] # "idle" => node[a] \in Nodes
  /\ \A c \in Poppers : pc[c] \in {"advance", "reset"} => node[c] \in Nodes
  /\ head \in Nodes \cup {NULL}
  /\ tail \in Nodes \cup {HEAD}
  /\ next \in [Nodes -> Nodes \cup {NULL}]
  /\ lock \in {0, 1}
  /\ free \subseteq Nodes
  /\ content \in Seq(Nodes)

\* spinlock.h: at most one thread is between lock and unlock, and only while
\* the lock word is set (lines 72-91).
MutualExclusion ==
  /\ \A t, u \in Threads : pc[t] \in Critical /\ pc[u] \in Critical => t = u
  /\ lock = 1 <=> \E t \in Threads : pc[t] \in Critical

\* Following the links from head yields exactly the nodes that were added and
\* not popped, in their order, at every moment.
ListIsContent ==
  /\ head = IF content = <<>> THEN NULL ELSE content[1]
  /\ \A i \in 1 .. Len(content) :
       next[content[i]] = IF i = Len(content) THEN NULL ELSE content[i + 1]

\* Outside the critical sections tail is the address of the list's last
\* pointer: the next *queue->tail = link (line 126) extends the list instead
\* of writing into a node that has been popped.
TailIsLast ==
  lock = 0 => tail = IF content = <<>> THEN HEAD ELSE content[Len(content)]

\* The threads whose local variable is the only way to a node.
Holds(t) ==
  \/ t \in Adders /\ pc[t] \in {"lock", "spin", "append"}
  \/ t \in Poppers /\ pc[t] \in {"reset", "unlock", "unlocked"} /\ node[t] # NULL

\* No node is in the queue twice, none that is in the queue or in a thread's
\* hands is free, and no two threads hold the same one: no task is lost,
\* handed out twice, or freed while it can still be reached.
NodesOwnedOnce ==
  /\ \A i, j \in 1 .. Len(content) : content[i] = content[j] => i = j
  /\ \A i \in 1 .. Len(content) : content[i] \notin free
  /\ \A t \in Threads : Holds(t) =>
       /\ node[t] \notin free
       /\ \A i \in 1 .. Len(content) : content[i] # node[t]
       /\ \A u \in Threads : Holds(u) /\ node[u] = node[t] => u = t

\* What __pop_task takes is the oldest node, and it returns NULL only for a
\* queue that was empty when head was read.
PopsOldest ==
  \A c \in Poppers :
    /\ pc[c] = "advance" => content # <<>> /\ node[c] = content[1]
    /\ pc[c] = "unlock" /\ node[c] = NULL => content = <<>>

\* With the links, the list is a queue: __add_task puts a node into it at line
\* 126, and __pop_task takes the oldest out of it at line 142.
Taken(c) == IF pc[c] \in {"reset", "unlock", "unlocked"} THEN node[c] ELSE NULL
Fifo == INSTANCE FifoQueue WITH
          Users <- Poppers, Items <- Nodes,
          queue <- content, out <- [c \in Poppers |-> Taken(c)]
ImplementsFifo == Fifo!Spec

\* The lock is always given back.
LockReleased == lock = 1 ~> lock = 0
=============================================================================
