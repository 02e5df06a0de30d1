------------------------------ MODULE MsgQueue ------------------------------
(***************************************************************************)
(* The two-list message queue of 3_pool/queue_design-master/msgqueue.c.    *)
(*                                                                         *)
(* Producers append to the put list, consumers take from the get list, and *)
(* a consumer that finds the get list empty swaps the two.  cell[x] is the *)
(* pointer stored at x, where x is one of the two list heads or a message  *)
(* (its link, at offset linkoff).  Each producer puts messages of its own, *)
(* each consumer calls msgqueue_get until it returns NULL, as main of      *)
(* main_msgqueue.cpp does, and a controller may switch the queue to        *)
(* nonblocking mode and back.  The main thread creates the queue, joins    *)
(* the others and destroys the queue.                                      *)
(*                                                                         *)
(* The history variable content says what the queue should hold.           *)
(***************************************************************************)
EXTENDS Naturals, Sequences

CONSTANTS
  Producers,    \* the threads that call msgqueue_put
  Consumers,    \* the threads that call msgqueue_get
  Main,         \* the thread that creates and destroys the queue
  Controller,   \* the thread that calls msgqueue_set_nonblock and _set_block
  Msgs,         \* the messages, each put once
  MaxLen,       \* maxlen of msgqueue_create
  MaxUpsets,    \* bound on the calls of msgqueue_set_nonblock and the
                \* spurious wakeups together
  SizeMax,      \* SIZE_MAX: size_t counts modulo SizeMax + 1
  NULL

Threads == Producers \cup Consumers \cup {Controller, Main}
Heads == {"head1", "head2"}

ASSUME RolesDistinct ==
  /\ Producers \cap Consumers = {}
  /\ {Controller, Main} \cap (Producers \cup Consumers) = {}
  /\ Controller # Main
ASSUME NULLDistinct ==
  NULL \notin Threads \cup Msgs \cup Heads /\ Msgs \cap Heads = {}
ASSUME Bounds ==
  MaxUpsets \in Nat /\ SizeMax \in Nat /\ MaxLen \in 0 .. SizeMax

VARIABLES
  pc,         \* the next statement of each thread
  msg,        \* the message a producer or a consumer has in hand
  cell,       \* the memory: where each head and each link points
  get_head,   \* the head of the get list
  put_head,   \* the head of the put list
  put_tail,   \* the address of the last pointer of the put list
  msg_cnt,    \* the messages of the put list
  nonblock,
  get_mutex,  \* its holder, or NULL
  put_mutex,
  get_wait,   \* the threads waiting on get_cond
  put_wait,   \* the threads waiting on put_cond
  unput,      \* the messages not put yet
  held,       \* the resources of msgqueue_create not released yet
  switches,   \* the calls of msgqueue_set_nonblock so far
  spurious,   \* the spurious wakeups so far
  content     \* history: the messages put and not taken, oldest first

vars == <<pc, msg, cell, get_head, put_head, put_tail, msg_cnt, nonblock,
          get_mutex, put_mutex, get_wait, put_wait, unput, held, switches, spurious,
          content>>

lists == <<cell, get_head, put_head, put_tail, msg_cnt, content>>
locks == <<get_mutex, put_mutex, get_wait, put_wait>>
mode  == <<nonblock, switches, held, spurious>>

\* In the order in which msgqueue_create acquires them.
Resources == {"memory", "get_mutex", "put_mutex", "get_cond", "put_cond"}

Preceding(r) ==
  CASE r = "memory"    -> {}
    [] r = "get_mutex" -> {"memory"}
    [] r = "put_mutex" -> {"memory", "get_mutex"}
    [] r = "get_cond"  -> {"memory", "get_mutex", "put_mutex"}
    [] r = "put_cond"  -> {"memory", "get_mutex", "put_mutex", "get_cond"}

Init ==
  /\ pc = [t \in Threads |-> IF t = Main THEN "create" ELSE "idle"]
  /\ msg = [t \in Producers \cup Consumers |-> NULL]
  /\ cell = [x \in Heads \cup Msgs |-> NULL]
  /\ get_head = "head1"
  /\ put_head = "head2"
  /\ put_tail = "head2"
  /\ msg_cnt = 0
  /\ nonblock = 0
  /\ get_mutex = NULL /\ put_mutex = NULL
  /\ get_wait = {} /\ put_wait = {}
  /\ unput = Msgs
  /\ held = {}
  /\ switches = 0
  /\ spurious = 0
  /\ content = <<>>

Goto(t, from, to) ==
  /\ pc[t] = from
  /\ pc' = [pc EXCEPT ![t] = to]

\* pthread_cond_signal wakes one waiter, if there is one.
Wakes(waiting, left) ==
  IF waiting = {} THEN left = {} ELSE \E t \in waiting : left = waiting \ {t}

\* The other threads are started after msgqueue_create has returned.
Running == pc[Main] = "join"

LockPut(t, from, to) ==
  /\ put_mutex = NULL
  /\ Goto(t, from, to)
  /\ put_mutex' = t
  /\ UNCHANGED <<msg, lists, mode, get_mutex, get_wait, put_wait, unput>>

-----------------------------------------------------------------------------
(* msgqueue_put *)

\* Messages differ in nothing but their address: which one is next is fixed.
Fresh == CHOOSE m \in unput : TRUE

BeginPut(p) ==
  /\ Running
  /\ Goto(p, "idle", "lock")
  /\ unput # {}
  /\ msg' = [msg EXCEPT ![p] = Fresh]
  /\ cell' = [cell EXCEPT ![Fresh] = NULL]
  /\ unput' = unput \ {Fresh}
  /\ UNCHANGED <<get_head, put_head, put_tail, msg_cnt, content, mode, locks>>

\* Faulty: the limit is exceeded by one.
FullOneLate == msg_cnt > MaxLen

\* msg_max - 1 is computed in size_t.
Full == msg_cnt > (MaxLen + SizeMax) % (SizeMax + 1)

TestFull(p) ==
  /\ IF Full /\ nonblock = 0
     THEN Goto(p, "test", "asleep") /\ put_mutex' = NULL
          /\ put_wait' = put_wait \cup {p}
     ELSE Goto(p, "test", "append") /\ UNCHANGED <<put_mutex, put_wait>>
  /\ UNCHANGED <<msg, lists, mode, get_mutex, get_wait, unput>>

WakePut(p) ==
  /\ p \notin put_wait
  /\ LockPut(p, "asleep", "test")

AppendMsg(p) ==
  /\ Goto(p, "append", "unlock")
  /\ cell' = [cell EXCEPT ![put_tail] = msg[p]]
  /\ put_tail' = msg[p]
  /\ msg_cnt' = msg_cnt + 1
  /\ content' = Append(content, msg[p])
  /\ UNCHANGED <<msg, get_head, put_head, mode, locks, unput>>

UnlockPut(p) ==
  /\ Goto(p, "unlock", "signal")
  /\ put_mutex' = NULL
  /\ UNCHANGED <<msg, lists, mode, get_mutex, get_wait, put_wait, unput>>

\* Faulty: the consumer is not signalled.
SignalNobody(p) ==
  /\ Goto(p, "signal", "idle")
  /\ msg' = [msg EXCEPT ![p] = NULL]
  /\ UNCHANGED <<lists, mode, locks, unput>>

SignalGet(p) ==
  /\ Goto(p, "signal", "idle")
  /\ Wakes(get_wait, get_wait')
  /\ msg' = [msg EXCEPT ![p] = NULL]
  /\ UNCHANGED <<lists, mode, get_mutex, put_mutex, put_wait, unput>>

-----------------------------------------------------------------------------
(* msgqueue_get and __msgqueue_swap *)

\* Faulty: messages are taken without get_mutex.
LockGetShared(c) ==
  /\ Running
  /\ Goto(c, "idle", "look")
  /\ get_mutex' = c
  /\ UNCHANGED <<msg, lists, mode, put_mutex, get_wait, put_wait, unput>>

LockGet(c) ==
  /\ Running
  /\ get_mutex = NULL
  /\ Goto(c, "idle", "look")
  /\ get_mutex' = c
  /\ UNCHANGED <<msg, lists, mode, put_mutex, get_wait, put_wait, unput>>

Look(c) ==
  /\ Goto(c, "look", IF cell[get_head] # NULL THEN "take" ELSE "turn")
  /\ UNCHANGED <<msg, lists, mode, locks, unput>>

\* The old get list is kept in a local variable; here it is the head that
\* get_head no longer is.
Turn(c) ==
  /\ Goto(c, "turn", "lock")
  /\ get_head' = put_head
  /\ UNCHANGED <<msg, cell, put_head, put_tail, msg_cnt, content, mode, locks,
                 unput>>

TestEmpty(c) ==
  /\ IF msg_cnt = 0 /\ nonblock = 0
     THEN Goto(c, "test", "asleep") /\ put_mutex' = NULL
          /\ get_wait' = get_wait \cup {c}
     ELSE Goto(c, "test", "swap") /\ UNCHANGED <<put_mutex, get_wait>>
  /\ UNCHANGED <<msg, lists, mode, get_mutex, put_wait, unput>>

\* Faulty: msg_cnt is not tested again after the wait.
WakeGetUntested(c) ==
  /\ c \notin get_wait
  /\ LockPut(c, "asleep", "swap")

WakeGet(c) ==
  /\ c \notin get_wait
  /\ LockPut(c, "asleep", "test")

Other(h) == CHOOSE g \in Heads : g # h

\* Faulty: put_tail stays at the end of the list that was swapped out.
SwapKeepingTail(c) ==
  /\ Goto(c, "swap", IF msg_cnt > 0 THEN "take" ELSE "null")
  /\ put_wait' = IF Full THEN {} ELSE put_wait
  /\ put_head' = Other(get_head)
  /\ msg_cnt' = 0
  /\ put_mutex' = NULL
  /\ UNCHANGED <<msg, cell, get_head, put_tail, content, mode, get_mutex,
                 get_wait, unput>>

Swap(c) ==
  /\ Goto(c, "swap", IF msg_cnt > 0 THEN "take" ELSE "null")
  /\ put_wait' = IF Full THEN {} ELSE put_wait
  /\ put_head' = Other(get_head)
  /\ put_tail' = Other(get_head)
  /\ msg_cnt' = 0
  /\ put_mutex' = NULL
  /\ UNCHANGED <<msg, cell, get_head, content, mode, get_mutex, get_wait, unput>>

Take(c) ==
  /\ Goto(c, "take", "taken")
  /\ msg' = [msg EXCEPT ![c] = cell[get_head]]
  /\ cell' = [cell EXCEPT ![get_head] = cell[cell[get_head]]]
  /\ content' = Tail(content)
  /\ UNCHANGED <<get_head, put_head, put_tail, msg_cnt, mode, locks, unput>>

\* The consumer gets its message and calls again, or gets NULL and stops.
UnlockGet(c) ==
  /\ Goto(c, "taken", "idle") \/ Goto(c, "null", "gone")
  /\ get_mutex' = NULL
  /\ msg' = [msg EXCEPT ![c] = NULL]
  /\ UNCHANGED <<lists, mode, put_mutex, get_wait, put_wait, unput>>

\* pthread_cond_wait may return without a signal.
SpuriousWake(t) ==
  /\ switches + spurious < MaxUpsets
  /\ t \in get_wait \cup put_wait
  /\ get_wait' = get_wait \ {t}
  /\ put_wait' = put_wait \ {t}
  /\ spurious' = spurious + 1
  /\ UNCHANGED <<pc, msg, lists, nonblock, switches, held, get_mutex, put_mutex,
                 unput>>

-----------------------------------------------------------------------------
(* msgqueue_set_nonblock and msgqueue_set_block *)

\* nonblock is stored before the mutex is taken.
StoreNonblock ==
  /\ switches + spurious < MaxUpsets
  /\ Goto(Controller, "idle", "lock")
  /\ Running
  /\ nonblock' = 1
  /\ switches' = switches + 1
  /\ UNCHANGED <<msg, lists, locks, unput, held, spurious>>

\* Faulty: only the producers are woken.
WakeProducers ==
  /\ Goto(Controller, "test", "unlock")
  /\ put_wait' = {}
  /\ UNCHANGED <<msg, lists, mode, get_mutex, put_mutex, get_wait, unput>>

WakeAll ==
  /\ Goto(Controller, "test", "unlock")
  /\ Wakes(get_wait, get_wait')
  /\ put_wait' = {}
  /\ UNCHANGED <<msg, lists, mode, get_mutex, put_mutex, unput>>

UnlockNonblock ==
  /\ Goto(Controller, "unlock", "idle")
  /\ put_mutex' = NULL
  /\ UNCHANGED <<msg, lists, mode, get_mutex, get_wait, put_wait, unput>>

SetBlock ==
  /\ Running
  /\ pc[Controller] = "idle" /\ nonblock = 1
  /\ nonblock' = 0
  /\ UNCHANGED <<pc, msg, lists, locks, unput, switches, held, spurious>>

-----------------------------------------------------------------------------
(* msgqueue_create and msgqueue_destroy *)

AcquireResource(r) ==
  /\ held = Preceding(r)
  /\ Goto(Main, "create", IF r = "put_cond" THEN "join" ELSE "create")
  /\ held' = held \cup {r}
  /\ UNCHANGED <<msg, lists, locks, nonblock, switches, spurious, unput>>

\* Faulty: the rollback skips put_mutex.
AcquireFailsKeeping(r) ==
  /\ held = Preceding(r)
  /\ Goto(Main, "create", "failed")
  /\ held' = held \cap {"put_mutex"}
  /\ UNCHANGED <<msg, lists, locks, nonblock, switches, spurious, unput>>

AcquireFails(r) ==
  /\ held = Preceding(r)
  /\ Goto(Main, "create", "failed")
  /\ held' = {}
  /\ UNCHANGED <<msg, lists, locks, nonblock, switches, spurious, unput>>

\* The thread function of a producer or of the controller returns.
Leave(t) ==
  /\ Running
  /\ Goto(t, "idle", "gone")
  /\ UNCHANGED <<msg, lists, mode, locks, unput>>

Destroy ==
  /\ \A t \in Threads \ {Main} : pc[t] = "gone"
  /\ Goto(Main, "join", "destroyed")
  /\ held' = {}
  /\ UNCHANGED <<msg, lists, locks, nonblock, switches, spurious, unput>>

-----------------------------------------------------------------------------
PutStep(p) ==
  \/ LockPut(p, "lock", "test") \/ TestFull(p) \/ WakePut(p)
  \/ AppendMsg(p) \/ UnlockPut(p) \/ SignalGet(p)

GetStep(c) ==
  \/ LockGet(c) \/ Look(c) \/ Turn(c) \/ LockPut(c, "lock", "test")
  \/ TestEmpty(c) \/ WakeGet(c) \/ Swap(c) \/ Take(c) \/ UnlockGet(c)

NonblockStep ==
  LockPut(Controller, "lock", "test") \/ WakeAll \/ UnlockNonblock

Next ==
  \/ \E p \in Producers : BeginPut(p) \/ PutStep(p)
  \/ \E c \in Consumers : GetStep(c)
  \/ StoreNonblock \/ SetBlock \/ NonblockStep
  \/ \E t \in Producers \cup Consumers : SpuriousWake(t)
  \/ \E t \in Producers \cup {Controller} : Leave(t)
  \/ \E r \in Resources : AcquireResource(r) \/ AcquireFails(r)
  \/ Destroy

Spec == Init /\ [][Next]_vars

\* A thread inside a call keeps running, and consumers call again: that is
\* what the loop of main_msgqueue.cpp does.  Producers and the controller
\* call when they like.
Fairness ==
  /\ \A p \in Producers : WF_vars(PutStep(p))
  /\ \A c \in Consumers : WF_vars(GetStep(c))
  /\ WF_vars(NonblockStep)

FairSpec == Spec /\ Fairness

-----------------------------------------------------------------------------
\* The state of msgqueue.c and of the threads that use it; a consumer that is
\* about to take a message has one to take.
TypeOK ==
  /\ pc \in [Threads ->
             {"idle", "lock", "test", "asleep", "append", "unlock", "signal",
              "look", "turn", "swap", "take", "taken", "null", "gone",
              "create", "join", "failed", "destroyed"}]
  /\ msg \in [Producers \cup Consumers -> Msgs \cup {NULL}]
  /\ cell \in [Heads \cup Msgs -> Msgs \cup {NULL}]
  /\ get_head \in Heads /\ put_head \in Heads
  /\ put_tail \in Heads \cup Msgs
  /\ msg_cnt \in Nat
  /\ nonblock \in {0, 1}
  /\ get_mutex \in Threads \cup {NULL} /\ put_mutex \in Threads \cup {NULL}
  /\ get_wait \subseteq Consumers /\ put_wait \subseteq Producers
  /\ unput \subseteq Msgs
  /\ held \subseteq Resources
  /\ switches \in 0 .. MaxUpsets
  /\ spurious \in 0 .. MaxUpsets
  /\ content \in Seq(Msgs)
  /\ \A c \in Consumers : pc[c] = "take" => cell[get_head] \in Msgs

PutList == SubSeq(content, Len(content) - msg_cnt + 1, Len(content))
GetList == SubSeq(content, 1, Len(content) - msg_cnt)

\* From head h the links run through the messages of s and then end.
LinkedFrom(h, s) ==
  /\ cell[h] = IF s = <<>> THEN NULL ELSE s[1]
  /\ \A i \in 1 .. Len(s) : cell[s[i]] = IF i = Len(s) THEN NULL ELSE s[i + 1]

\* The messages put and not taken are, in their order, those of the get list
\* followed by those of the put list; between lines 70 and 79 both heads are
\* the same and the other list is empty.  put_tail is the end of the put list.
ListsAreContent ==
  /\ TypeOK
  /\ msg_cnt <= Len(content)
  /\ LinkedFrom(put_head, PutList)
  /\ IF get_head # put_head THEN LinkedFrom(get_head, GetList)
     ELSE GetList = <<>> /\ cell[Other(put_head)] = NULL
  /\ put_tail = IF PutList = <<>> THEN put_head ELSE content[Len(content)]

\* In blocking mode at most twice maxlen messages are pending (msgqueue.h,
\* lines 31-33); with a maxlen of 0 the limit of line 92 wraps around and the
\* queue is unbounded.
PendingBound == MaxLen > 0 /\ switches = 0 => Len(content) <= 2 * MaxLen

\* Only the consumer that holds get_mutex waits for messages, so that the one
\* signal of msgqueue_put or msgqueue_set_nonblock reaches the right thread.
OneGetWaiter ==
  \A c \in Consumers :
    pc[c] \in {"turn", "lock", "test", "asleep", "swap", "take"} =>
      get_mutex = c /\ get_wait \subseteq {c}

\* Nothing is left of a queue that could not be created, and a queue that is
\* destroyed has no mutex locked and nobody waiting.
NothingLeftBehind ==
  pc[Main] \in {"failed", "destroyed"} =>
    held = {} /\ get_mutex = NULL /\ put_mutex = NULL
      /\ get_wait = {} /\ put_wait = {}

\* msgqueue_get returns NULL only of an empty queue, and never of a queue that
\* was in blocking mode all along, whatever woke it.
NullOnlyWhenEmpty ==
  [][\A c \in Consumers :
       pc[c] = "swap" /\ pc'[c] = "null" => content = <<>> /\ switches > 0]_vars

\* The message a consumer got and has not returned yet is out, so that the
\* queue is the queue of FifoQueue: every message is taken once, in the order
\* of line 95, whatever the swaps do.
Fifo == INSTANCE FifoQueue WITH
          Users <- Consumers, Items <- Msgs, queue <- content,
          out <- [c \in Consumers |-> msg[c]]
ImplementsFifo == Fifo!Spec

Pending(m) == \E i \in 1 .. Len(content) : content[i] = m

\* In blocking mode, with consumers that keep calling, every message is taken,
\* and a producer that found the put list full gets its turn, however the
\* signals and the swaps interleave.
NobodyWaitsForEver ==
  /\ \A m \in Msgs : []<>(switches = 0 => ~Pending(m))
  /\ \A p \in Producers : []<>(switches = 0 => pc[p] # "asleep")

\* In nonblocking mode the queue lets every waiter go,
\* although nonblock is stored outside the mutex (line 53).
NonblockReleases ==
  \A t \in Producers \cup Consumers : []<>(nonblock = 1 => pc[t] # "asleep")
=============================================================================
