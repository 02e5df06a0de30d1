------------------------------ MODULE Monitors ------------------------------
(***************************************************************************)
(* The C++ classes that guard one queue with one mutex:                    *)
(*   "pool"    ThreadPool of 1_CPBase/threadPool/tp.cpp,                   *)
(*   "pc"      ProducerConsumerQueue of 3_pool/queue_design-master,        *)
(*   "locked"  LockedQueue of the same directory, as main_lockedqueue.cpp  *)
(*             uses it,                                                    *)
(*   "peek"    LockedQueue with one consumer, which uses what main leaves  *)
(*             out, and                                                    *)
(*   "cv"      the producer and the consumer of                            *)
(*             1_CPBase/thread/condition_variable.cpp.                     *)
(* kind is the class that runs.                                            *)
(*                                                                         *)
(* The queue and the flag are only accessed with the mutex held, so a      *)
(* critical section is one step, but for the test of a waiting condition   *)
(* and the wait that follows it.  A notified thread is back before its     *)
(* test.                                                                   *)
(***************************************************************************)
EXTENDS Naturals, Sequences, FiniteSets

CONSTANTS
  Kinds,        \* the classes to check
  Workers,      \* the worker threads, or the consumers
  EvenWorkers,  \* the consumers whose checker is Check1, or the only consumer
  Producers,
  Owner,        \* the thread that destroys the pool, or cancels the queue
  Items,
  MaxSpurious,  \* a bound on spurious wakeups
  NULL

Threads == Workers \cup Producers \cup {Owner}

ASSUME ClassesKnown == Kinds \subseteq {"pool", "pc", "locked", "peek", "cv"}
ASSUME RolesDisjoint ==
  /\ Workers \cap Producers = {} /\ Owner \notin Workers \cup Producers
  /\ NULL \notin Threads \cup Items
ASSUME ItemsAreNumbers == Items \subseteq Nat /\ MaxSpurious \in Nat

\* One of the consumers has Check1, and the classes with one consumer have one.
ASSUME OneEven == \E w \in Workers : EvenWorkers = {w}
ASSUME ThreadsFinite == IsFiniteSet(Threads)

\* What can become of an item, if no consumer gets it
Fates == {"new", "offered", "queued", "running", "done", "error", "refused", "deleted"}
ASSUME FatesDistinct == Fates \cap Workers = {}

VARIABLES
  kind,
  queue,
  stop,       \* stop, _shutdown, _canceled or done
  mutex,      \* the thread that holds it between a test and the wait
  pc,
  task,       \* the task that each worker has in hand, or what peek returned
  item,       \* what each thread enqueues
  fate,       \* what became of each item: the consumer that got it, if any
  late,       \* history: the items that were enqueued when stop was set
  spurious

vars == <<kind, queue, stop, mutex, pc, task, item, fate, late, spurious>>
aside == <<kind, late, spurious>>

\* One producer and one consumer
Single == kind \in {"peek", "cv"}
First == CHOOSE p \in Producers : TRUE

Init ==
  /\ kind \in Kinds
  /\ queue = <<>>
  /\ stop = FALSE
  /\ mutex = NULL
  /\ pc = [t \in Threads |->
             IF Single /\ t \in (Workers \ EvenWorkers) \cup (Producers \ {First}) THEN "exited"
             ELSE IF t \in Workers /\ kind # "pc" THEN "test" ELSE "idle"]
  /\ task = [w \in Workers |-> NULL]
  /\ item = [t \in Threads |-> NULL]
  /\ fate = [i \in Items |-> "new"]
  /\ late = {}
  /\ spurious = 0

Goto(t, from, to) ==
  /\ pc[t] = from
  /\ pc' = [pc EXCEPT ![t] = to]

\* A step that only moves t on.
Pass(t, from, to) ==
  /\ Goto(t, from, to)
  /\ UNCHANGED <<aside, queue, stop, mutex, task, item, fate>>

\* pop_front with the mutex
TakeHead(outcome) ==
  /\ mutex = NULL /\ queue # <<>>
  /\ queue' = Tail(queue)
  /\ fate' = [fate EXCEPT ![Head(queue)] = outcome]
  /\ UNCHANGED <<aside, stop, mutex, item>>

Asleep == {w \in Workers : pc[w] = "asleep"}

\* notify_one by t, which goes on at to.
WakeOne(t, to) ==
  IF Asleep = {} THEN pc' = [pc EXCEPT ![t] = to]
  ELSE \E w \in Asleep : pc' = [pc EXCEPT ![t] = to, ![w] = "test"]

\* notify_all by t.
WakeAll(t, to) ==
  pc' = [u \in Threads |-> IF u = t THEN to ELSE IF u \in Asleep THEN "test" ELSE pc[u]]

-----------------------------------------------------------------------------
(* Putting: enqueue, Push and add.  producer of "cv" goes on by itself. *)

\* A producer calls.  Nobody calls a pool that is being destroyed.
BeginPut(p, i) ==
  /\ Goto(p, "idle", "put")
  /\ fate[i] = "new"
  /\ kind = "pool" => pc[Owner] = "idle"
  /\ item' = [item EXCEPT ![p] = i]
  /\ fate' = [fate EXCEPT ![i] = "offered"]
  /\ UNCHANGED <<aside, queue, stop, mutex, task>>

\* A task calls enqueue of the pool that runs it, at any time.
BeginNested(w, i) ==
  /\ Goto(w, "run", "put")
  /\ fate[i] = "new"
  /\ item' = [item EXCEPT ![w] = i]
  /\ fate' = [fate EXCEPT ![i] = "offered"]
  /\ UNCHANGED <<aside, queue, stop, mutex, task>>

\* Push notifies before it releases the mutex, enqueue and "cv" after, add nobody.
PutItem(t) ==
  /\ pc[t] = "put" /\ mutex = NULL
  /\ kind = "pool" => ~stop
  /\ queue' = Append(queue, item[t])
  /\ fate' = [fate EXCEPT ![item[t]] = "queued"]
  /\ late' = IF stop THEN late \cup {item[t]} ELSE late
  /\ \/ kind \in {"pool", "cv"} /\ Goto(t, "put", "notify")
     \/ kind = "pc" /\ WakeOne(t, "idle")
     \/ kind \in {"locked", "peek"} /\ Goto(t, "put", "idle")
  /\ UNCHANGED <<kind, spurious, stop, mutex, task, item>>

\* enqueue throws; the exception ends the task that called it and is kept in
\* that task's future.
Refuse(t) ==
  /\ kind = "pool" /\ stop /\ mutex = NULL
  /\ Goto(t, "put", IF t \in Workers THEN "test" ELSE "idle")
  /\ fate' = [i \in Items |-> IF i = item[t] THEN "refused"
                              ELSE IF t \in Workers /\ i = task[t] THEN "error"
                              ELSE fate[i]]
  /\ UNCHANGED <<aside, queue, stop, mutex, task, item>>

\* producer has put everything: it sets done and notifies once more.
SetDone(p) ==
  /\ kind = "cv" /\ mutex = NULL
  /\ \A i \in Items : fate[i] # "new"
  /\ Goto(p, "idle", "notify")
  /\ stop' = TRUE
  /\ UNCHANGED <<aside, queue, mutex, task, item, fate>>

NotifyOne(t) ==
  /\ pc[t] = "notify"
  /\ WakeOne(t, IF t \in Workers THEN "run" ELSE IF kind = "cv" /\ stop THEN "exited" ELSE "idle")
  /\ UNCHANGED <<aside, queue, stop, mutex, task, item, fate>>

-----------------------------------------------------------------------------
(* Getting: the worker loop, WaitAndPop, Pop and next *)

BeginGet(w) == kind = "pc" /\ Pass(w, "idle", "test")

Decide(w) ==
  /\ kind \in {"pool", "pc", "cv"}
  /\ mutex = NULL /\ ~stop /\ queue = <<>>
  /\ Goto(w, "test", "wait")
  /\ mutex' = w
  /\ UNCHANGED <<aside, queue, stop, task, item, fate>>

\* condition.wait releases the mutex.
Sleep(w) ==
  /\ Goto(w, "wait", "asleep")
  /\ mutex' = NULL
  /\ UNCHANGED <<aside, queue, stop, task, item, fate>>

SpuriousWake(w) ==
  /\ spurious < MaxSpurious
  /\ Goto(w, "asleep", "test")
  /\ spurious' = spurious + 1
  /\ UNCHANGED <<kind, late, queue, stop, mutex, task, item, fate>>

TakeTask(w) ==
  /\ kind = "pool"
  /\ Goto(w, "test", "run")
  /\ TakeHead("running")
  /\ task' = [task EXCEPT ![w] = Head(queue)]

\* The future becomes ready.
Finish(w) ==
  /\ Goto(w, "run", "test")
  /\ fate' = [fate EXCEPT ![task[w]] = "done"]
  /\ UNCHANGED <<aside, queue, stop, mutex, task, item>>

Consume(w) ==
  /\ kind = "cv"
  /\ Goto(w, "test", "test")
  /\ TakeHead(w)
  /\ UNCHANGED task

\* Faulty: a worker leaves as soon as stop is set.
LeaveAtOnce(w) ==
  /\ kind \in {"pool", "cv"} /\ mutex = NULL /\ stop
  /\ Pass(w, "test", "exited")

Leave(w) ==
  /\ kind \in {"pool", "cv"} /\ mutex = NULL /\ stop /\ queue = <<>>
  /\ Pass(w, "test", "exited")

\* Pop, which does not wait, and WaitAndPop once it need not wait any more.
PopOrFail(w) ==
  /\ kind = "pc"
  /\ \/ pc[w] = "idle"
     \/ pc[w] = "test" /\ (stop \/ queue # <<>>)
  /\ \/ /\ ~stop /\ TakeHead(w)
        /\ Goto(w, pc[w], "idle")
        /\ UNCHANGED task
     \/ /\ mutex = NULL /\ (stop \/ queue = <<>>)
        /\ Pass(w, pc[w], "idle")

Process(w, i) == (i % 2 = 0) = (w \in EvenWorkers)

\* next with a checker; the consumer stops at the first failure.
NextChecked(w) ==
  /\ kind = "locked"
  /\ \/ /\ TakeHead(w) /\ Process(w, Head(queue))
        /\ Goto(w, "test", "test")
        /\ UNCHANGED task
     \/ /\ mutex = NULL /\ (queue # <<>> => ~Process(w, Head(queue)))
        /\ Pass(w, "test", "exited")

-----------------------------------------------------------------------------
(* The rest of LockedQueue, by one consumer, as the comment on peek asks: it *)
(* takes what empty() said is there, until cancelled() says to stop.         *)

NotEmpty(w) ==
  /\ kind = "peek" /\ mutex = NULL /\ queue # <<>>
  /\ Pass(w, "test", "found")

\* peek, which keeps the mutex unless it is told not to
Peek(w) ==
  /\ mutex = NULL
  /\ \/ Goto(w, "found", "peeked") /\ mutex' = w
     \/ Goto(w, "found", "copied") /\ UNCHANGED mutex
  /\ task' = [task EXCEPT ![w] = Head(queue)]
  /\ UNCHANGED <<aside, queue, stop, item, fate>>

Unlock(w) ==
  /\ Goto(w, "peeked", "copied")
  /\ mutex' = NULL
  /\ UNCHANGED <<aside, queue, stop, task, item, fate>>

PopFront(w) ==
  /\ Goto(w, "copied", "test")
  /\ TakeHead(w)
  /\ UNCHANGED task

\* next without a checker; what it returned is kept, or goes back to the front.
TakeNext(w) ==
  /\ kind = "peek"
  /\ Goto(w, "test", "taken")
  /\ TakeHead(w)
  /\ task' = [task EXCEPT ![w] = Head(queue)]

Keep(w) == Pass(w, "taken", "test")

Readd(w) ==
  /\ mutex = NULL
  /\ Goto(w, "taken", "test")
  /\ queue' = <<task[w]>> \o queue
  /\ fate' = [fate EXCEPT ![task[w]] = "queued"]
  /\ UNCHANGED <<aside, stop, mutex, task, item>>

StopAtCancel(w) ==
  /\ kind = "peek" /\ mutex = NULL /\ stop
  /\ Pass(w, "test", "exited")

CancelLocked ==
  /\ kind = "peek" /\ mutex = NULL
  /\ Goto(Owner, "idle", "canceled")
  /\ stop' = TRUE
  /\ UNCHANGED <<aside, queue, mutex, task, item, fate>>

-----------------------------------------------------------------------------
(* ~ThreadPool and Cancel *)

\* Faulty: stop is set without the mutex.
SetStopUnlocked ==
  /\ kind = "pool"
  /\ \A p \in Producers : pc[p] = "idle"
  /\ Goto(Owner, "idle", "wakeall")
  /\ stop' = TRUE
  /\ UNCHANGED <<aside, queue, mutex, task, item, fate>>

\* The destructor, when nobody but the tasks calls the pool any more.
SetStop == mutex = NULL /\ SetStopUnlocked

\* Faulty: the destructor wakes one worker.
NotifyAllOnce ==
  /\ pc[Owner] = "wakeall"
  /\ WakeOne(Owner, "join")
  /\ UNCHANGED <<aside, queue, stop, mutex, task, item, fate>>

NotifyAll ==
  /\ pc[Owner] = "wakeall"
  /\ WakeAll(Owner, "join")
  /\ UNCHANGED <<aside, queue, stop, mutex, task, item, fate>>

Join ==
  /\ \A w \in Workers : pc[w] = "exited"
  /\ Pass(Owner, "join", "destroyed")

Cancel ==
  /\ kind = "pc" /\ mutex = NULL
  /\ pc[Owner] = "idle"
  /\ fate' = [i \in Items |-> IF fate[i] = "queued" THEN "deleted" ELSE fate[i]]
  /\ queue' = <<>>
  /\ stop' = TRUE
  /\ WakeAll(Owner, "canceled")
  /\ UNCHANGED <<aside, mutex, task, item>>

-----------------------------------------------------------------------------
PutStep(t) == PutItem(t) \/ Refuse(t) \/ NotifyOne(t)

GetStep(w) ==
  \/ Decide(w) \/ Sleep(w) \/ TakeTask(w) \/ Finish(w) \/ Consume(w) \/ Leave(w)
  \/ NextChecked(w) \/ (pc[w] = "test" /\ PopOrFail(w))
  \/ Peek(w) \/ Unlock(w) \/ PopFront(w) \/ Keep(w) \/ Readd(w)

\* What the consumer of "peek" may call next
PeekCall(w) == NotEmpty(w) \/ TakeNext(w) \/ StopAtCancel(w)

OwnerStep == NotifyAll \/ Join

Next ==
  \/ \E t \in Threads : PutStep(t)
  \/ \E w \in Workers :
       GetStep(w) \/ BeginGet(w) \/ PopOrFail(w) \/ PeekCall(w) \/ SpuriousWake(w)
  \/ \E i \in Items :
       \/ \E p \in Producers : BeginPut(p, i)
       \/ \E w \in Workers : kind = "pool" /\ BeginNested(w, i)
  \/ \E p \in Producers : SetDone(p)
  \/ OwnerStep \/ SetStop \/ Cancel \/ CancelLocked

Spec == Init /\ [][Next]_vars

\* A thread inside a call runs, a mutex that is free is granted, tasks return;
\* producer of "cv" goes on to its end.
FairSpec ==
  /\ Spec
  /\ \A t \in Threads : WF_vars(PutStep(t))
  /\ \A w \in Workers : WF_vars(GetStep(w))
  /\ WF_vars(OwnerStep)
  /\ \A p \in Producers : WF_vars(kind = "cv" /\ (SetDone(p) \/ \E i \in Items : BeginPut(p, i)))

-----------------------------------------------------------------------------
TypeOK ==
  /\ kind \in Kinds /\ stop \in BOOLEAN /\ spurious \in 0 .. MaxSpurious
  /\ queue \in Seq(Items)
  /\ mutex \in Workers \cup {NULL}
  /\ pc \in [Threads -> {"idle", "put", "notify", "test", "wait", "asleep", "run",
                         "exited", "wakeall", "join", "destroyed", "canceled",
                         "found", "peeked", "copied", "taken"}]
  /\ task \in [Workers -> Items \cup {NULL}]
  /\ item \in [Threads -> Items \cup {NULL}]
  /\ fate \in [Items -> Fates \cup Workers]
  /\ late \subseteq Items

\* No wakeup is lost: while a worker sleeps, every queued item has a thread of
\* its own that is about to look at the queue, or a notification on its way,
\* and no stop has been announced (tp.cpp:19 and 51, ProducerConsumerQueue.h:29
\* and 62, condition_variable.cpp:21 and 30).
NoSleeperBesideWork ==
  /\ TypeOK
  /\ Asleep # {} =>
       /\ Len(queue) <= Cardinality({t \in Threads : pc[t] \in {"test", "notify"}})
       /\ stop => pc[Owner] = "wakeall" \/ \E p \in Producers : pc[p] = "notify"

\* When ~ThreadPool returns every task that was accepted has run or thrown and
\* no call is open.  Once canceled, the queue of "pc" holds what was pushed
\* since, which nobody gets; all that was there before is deleted or delivered.
\* A consumer of "locked" takes nothing that its checker rejects.  The one of
\* "peek" pops what it saw, although the mutex is free in between.
NothingForgotten ==
  /\ pc[Owner] = "destroyed" =>
       /\ queue = <<>>
       /\ \A i \in Items : fate[i] \in {"new", "done", "error", "refused"}
       /\ \A t \in Threads \ {Owner} : pc[t] \in {"idle", "exited"}
  /\ pc[Owner] = "canceled" /\ kind = "pc" =>
       \A i \in Items : fate[i] = "queued" <=> i \in late
  /\ kind = "locked" =>
       \A i \in Items, w \in Workers : fate[i] = w => Process(w, i)
  /\ \A w \in Workers : pc[w] \in {"peeked", "copied"} => queue # <<>> /\ Head(queue) = task[w]

\* Every accepted task ends, ~ThreadPool returns, after Cancel nobody stays in
\* WaitAndPop, and the consumer of "cv" ends with all that was put.
CallsReturn ==
  /\ []<>(kind = "pool" => /\ \A i \in Items : fate[i] \notin {"queued", "running"}
                           /\ pc[Owner] \in {"idle", "destroyed"})
  /\ \A w \in Workers : []<>(kind = "pc" /\ stop => pc[w] = "idle")
  /\ <>(kind = "cv" => /\ \A w \in Workers : pc[w] = "exited"
                       /\ \A i \in Items : fate[i] \in Workers)
=============================================================================
