------------------------------ MODULE ThrdPool ------------------------------
(***************************************************************************)
(* The C thread pool: 3_pool/thread_pool-master/thrd_pool.c and the way    *)
(* main.c and thrdpool_test.cc use it.                                     *)
(*                                                                         *)
(* Worker threads run __thrdpool_worker, poster threads call               *)
(* thrdpool_post, one owner thread creates the pool, and later calls       *)
(* thrdpool_terminate and thrdpool_waitdone; a task handler may call       *)
(* thrdpool_terminate as well, as do_task of main.c does.                  *)
(*                                                                         *)
(* pc[t] is the next statement of thread t.  A step is one statement that  *)
(* other threads can observe.  The critical sections of the queue's        *)
(* spinlock (lines 125-128 and 142-158) are one step each: module          *)
(* TaskQueue models them access by access.                                 *)
(***************************************************************************)
EXTENDS Naturals, Sequences

CONSTANTS
  Workers,      \* the threads thrdpool_create starts
  Posters,      \* the threads that call thrdpool_post
  Owner,        \* the thread that creates and destroys the pool
  Tasks,        \* one identity per call of thrdpool_post that gets memory
  Terminators,  \* the tasks whose handler calls thrdpool_terminate
  MaxSpurious,  \* bound on the spurious wakeups of pthread_cond_wait
  NULL

Threads == Workers \cup Posters \cup {Owner}

ASSUME ThreadsDistinct ==
  /\ Workers \cap Posters = {}
  /\ Owner \notin Workers \cup Posters
ASSUME NoTaskIsNULL == NULL \notin Threads \cup Tasks
ASSUME TerminatorsAreTasks == Terminators \subseteq Tasks
ASSUME SpuriousBound == MaxSpurious \in Nat

VARIABLES
  pc,         \* the next statement of each thread
  task,       \* the task a worker or a poster holds
  stage,      \* what has become of each task
  queue,      \* task_queue_t.head .. tail, oldest first
  quit,       \* thrdpool_t.quit
  block,      \* task_queue_t.block
  mutex,      \* the holder of task_queue_t.mutex, or NULL
  waiters,    \* the threads blocked in pthread_cond_wait
  held,       \* the resources of thrdpool_create not released yet
  published,  \* thrdpool_create has returned the pool
  late,       \* history: the workers that popped a task after quit was set
  spurious    \* spurious wakeups so far

vars == <<pc, task, stage, queue, quit, block, mutex, waiters, held,
          published, late, spurious>>

lockVars  == <<block, mutex, waiters, spurious>>
taskVars  == <<task, stage, queue, late>>
ownerVars == <<held, published>>

\* In the order in which thrdpool_create acquires them.
Resources == {"pool", "queue", "mutex", "cond", "attr", "threads"}
QueueResources == {"queue", "mutex", "cond"}

Preceding(r) ==
  CASE r = "pool"    -> {}
    [] r = "queue"   -> {"pool"}
    [] r = "mutex"   -> {"pool", "queue"}
    [] r = "cond"    -> {"pool", "queue", "mutex"}
    [] r = "attr"    -> {"pool", "queue", "mutex", "cond"}
    [] r = "threads" -> {"pool", "queue", "mutex", "cond", "attr"}

Stages == {"none", "alloc", "queued", "taken", "running", "done", "discarded"}

Init ==
  /\ pc = [t \in Threads |-> IF t = Owner THEN "create"
                             ELSE IF t \in Posters THEN "idle" ELSE "none"]
  /\ task = [t \in Workers \cup Posters |-> NULL]
  /\ stage = [k \in Tasks |-> "none"]
  /\ queue = <<>>
  /\ quit = 0
  /\ block = 1
  /\ mutex = NULL
  /\ waiters = {}
  /\ held = {}
  /\ published = FALSE
  /\ late = {}
  /\ spurious = 0

Goto(t, from, to) ==
  /\ pc[t] = from
  /\ pc' = [pc EXCEPT ![t] = to]

-----------------------------------------------------------------------------
(* thrdpool_post and __add_task *)

BeginPost(p) ==
  /\ published
  /\ \E k \in Tasks : stage[k] = "none"
  /\ Goto(p, "idle", "check")
  /\ UNCHANGED <<taskVars, lockVars, ownerVars, quit>>

CheckOpen(p) ==
  /\ Goto(p, "check", IF quit = 1 THEN "idle" ELSE "alloc")
  /\ UNCHANGED <<taskVars, lockVars, ownerVars, quit>>

AllocTask(p) ==
  /\ Goto(p, "alloc", "add")
  /\ \E k \in Tasks :
       /\ stage[k] = "none"
       /\ stage' = [stage EXCEPT ![k] = "alloc"]
       /\ task' = [task EXCEPT ![p] = k]
  /\ UNCHANGED <<queue, late, lockVars, ownerVars, quit>>

AllocFails(p) ==
  /\ Goto(p, "alloc", "idle")
  /\ UNCHANGED <<taskVars, lockVars, ownerVars, quit>>

AddTask(p) ==
  /\ Goto(p, "add", "signal")
  /\ queue' = Append(queue, task[p])
  /\ stage' = [stage EXCEPT ![task[p]] = "queued"]
  /\ task' = [task EXCEPT ![p] = NULL]
  /\ UNCHANGED <<late, lockVars, ownerVars, quit>>

\* The signal is sent without the mutex; it is lost if nobody waits.
Signal(p) ==
  /\ Goto(p, "signal", "idle")
  /\ IF waiters = {} THEN UNCHANGED waiters
     ELSE \E w \in waiters : waiters' = waiters \ {w}
  /\ UNCHANGED <<block, mutex, spurious, taskVars, ownerVars, quit>>

Leave(p) ==
  /\ Goto(p, "idle", "gone")
  /\ UNCHANGED <<taskVars, lockVars, ownerVars, quit>>

-----------------------------------------------------------------------------
(* __get_task, __pop_task and __thrdpool_worker *)

CheckQuit(w) ==
  /\ Goto(w, "loop", IF quit = 0 THEN "pop" ELSE "exited")
  /\ UNCHANGED <<taskVars, lockVars, ownerVars, quit>>

\* Faulty: the queue is served from its tail.
PopNewest(w) ==
  /\ queue # <<>>
  /\ Goto(w, "pop", "take")
  /\ LET k == queue[Len(queue)] IN
       /\ task' = [task EXCEPT ![w] = k]
       /\ stage' = [stage EXCEPT ![k] = "taken"]
  /\ queue' = SubSeq(queue, 1, Len(queue) - 1)
  /\ late' = IF quit = 1 THEN late \cup {w} ELSE late
  /\ UNCHANGED <<lockVars, ownerVars, quit>>

PopTask(w) ==
  /\ queue # <<>>
  /\ Goto(w, "pop", "take")
  /\ task' = [task EXCEPT ![w] = Head(queue)]
  /\ stage' = [stage EXCEPT ![Head(queue)] = "taken"]
  /\ queue' = Tail(queue)
  /\ late' = IF quit = 1 THEN late \cup {w} ELSE late
  /\ UNCHANGED <<lockVars, ownerVars, quit>>

PopEmpty(w) ==
  /\ queue = <<>>
  /\ Goto(w, "pop", "lock")
  /\ UNCHANGED <<taskVars, lockVars, ownerVars, quit>>

Acquire(t) == mutex = NULL /\ mutex' = t
Release(t) == mutex' = NULL

LockQueue(w) ==
  /\ Acquire(w)
  /\ Goto(w, "lock", "block")
  /\ UNCHANGED <<block, waiters, spurious, taskVars, ownerVars, quit>>

\* block = 0: __get_task returns NULL and the worker breaks out of its loop.
GiveUp(w) ==
  /\ block = 0
  /\ Goto(w, "block", "exited")
  /\ Release(w)
  /\ UNCHANGED <<block, waiters, spurious, taskVars, ownerVars, quit>>

DecideToWait(w) ==
  /\ block # 0
  /\ Goto(w, "block", "wait")
  /\ UNCHANGED <<taskVars, lockVars, ownerVars, quit>>

CondWait(w) ==
  /\ Goto(w, "wait", "asleep")
  /\ Release(w)
  /\ waiters' = waiters \cup {w}
  /\ UNCHANGED <<block, spurious, taskVars, ownerVars, quit>>

SpuriousWake(w) ==
  /\ w \in waiters
  /\ spurious < MaxSpurious
  /\ waiters' = waiters \ {w}
  /\ spurious' = spurious + 1
  /\ UNCHANGED <<pc, block, mutex, taskVars, ownerVars, quit>>

Reacquire(w) ==
  /\ w \notin waiters
  /\ Acquire(w)
  /\ Goto(w, "asleep", "relocked")
  /\ UNCHANGED <<block, waiters, spurious, taskVars, ownerVars, quit>>

\* Faulty: "if" where __get_task has "while".
RetryNever(w) ==
  /\ Goto(w, "relocked", "exited")
  /\ Release(w)
  /\ UNCHANGED <<block, waiters, spurious, taskVars, ownerVars, quit>>

Retry(w) ==
  /\ Goto(w, "relocked", "pop")
  /\ Release(w)
  /\ UNCHANGED <<block, waiters, spurious, taskVars, ownerVars, quit>>

\* func and arg are copied and the node is freed; then func(ctx) is called.
StartHandler(w) ==
  /\ Goto(w, "take", IF task[w] \in Terminators THEN "t_quit" ELSE "run")
  /\ stage' = [stage EXCEPT ![task[w]] = "running"]
  /\ UNCHANGED <<task, queue, late, lockVars, ownerVars, quit>>

HandlerReturns(w) ==
  /\ Goto(w, "run", "loop")
  /\ stage' = [stage EXCEPT ![task[w]] = "done"]
  /\ task' = [task EXCEPT ![w] = NULL]
  /\ UNCHANGED <<queue, late, lockVars, ownerVars, quit>>

-----------------------------------------------------------------------------
(* thrdpool_terminate and __nonblock, called by the owner, by a handler in a *)
(* worker, and through __threads_terminate by a failing thrdpool_create.     *)

SetQuit(t) ==
  /\ Goto(t, "t_quit", "t_lock")
  /\ quit' = 1
  /\ UNCHANGED <<taskVars, lockVars, ownerVars>>

\* Faulty: block is cleared without the mutex.
UnblockWithoutLock(t) ==
  /\ Goto(t, "t_lock", "t_block")
  /\ UNCHANGED <<lockVars, taskVars, ownerVars, quit>>

LockToUnblock(t) ==
  /\ Acquire(t)
  /\ Goto(t, "t_lock", "t_block")
  /\ UNCHANGED <<block, waiters, spurious, taskVars, ownerVars, quit>>

Unblock(t) ==
  /\ Goto(t, "t_block", "t_unlock")
  /\ block' = 0
  /\ UNCHANGED <<mutex, waiters, spurious, taskVars, ownerVars, quit>>

UnlockUnblocked(t) ==
  /\ Goto(t, "t_unlock", "t_bcast")
  /\ Release(t)
  /\ UNCHANGED <<block, waiters, spurious, taskVars, ownerVars, quit>>

\* The caller goes on: a handler to its return, a thrdpool_create that failed
\* to the joins of __threads_terminate, the owner to its next call.
AfterTerminate(t) ==
  CASE t # Owner -> "run"
    [] t = Owner /\ published -> "closing"
    [] OTHER -> "rollback"

\* Faulty: a signal where all the sleepers must wake.
BroadcastToOne(t) ==
  /\ Goto(t, "t_bcast", AfterTerminate(t))
  /\ IF waiters = {} THEN UNCHANGED waiters
     ELSE \E w \in waiters : waiters' = waiters \ {w}
  /\ UNCHANGED <<block, mutex, spurious, taskVars, ownerVars, quit>>

Broadcast(t) ==
  /\ Goto(t, "t_bcast", AfterTerminate(t))
  /\ waiters' = {}
  /\ UNCHANGED <<block, mutex, spurious, taskVars, ownerVars, quit>>

-----------------------------------------------------------------------------
(* thrdpool_create, __taskqueue_create and __threads_create *)

AcquireResource(r) ==
  /\ held = Preceding(r)
  /\ Goto(Owner, "create", IF r = "threads" THEN "spawn" ELSE "create")
  /\ held' = held \cup {r}
  /\ UNCHANGED <<taskVars, lockVars, published, quit>>

\* Rolls back; __threads_create does not destroy attr when the array of
\* thread handles cannot be allocated.
AcquireFails(r) ==
  /\ held = Preceding(r)
  /\ Goto(Owner, "create", "failed")
  /\ held' = IF r = "threads" THEN {"attr"} ELSE {}
  /\ UNCHANGED <<taskVars, lockVars, published, quit>>

Spawn(w) ==
  /\ pc[Owner] = "spawn"
  /\ Goto(w, "none", "loop")
  /\ UNCHANGED <<taskVars, lockVars, ownerVars, quit>>

SpawnFails ==
  /\ \E w \in Workers : pc[w] = "none"
  /\ Goto(Owner, "spawn", "t_quit")
  /\ held' = held \ {"attr"}
  /\ UNCHANGED <<taskVars, lockVars, published, quit>>

CreateReturns ==
  /\ \A w \in Workers : pc[w] # "none"
  /\ Goto(Owner, "spawn", "ready")
  /\ held' = held \ {"attr"}
  /\ published' = TRUE
  /\ UNCHANGED <<taskVars, lockVars, quit>>

\* pthread_join of every thread that was started, one after the other: the
\* loop ends when all of them have exited.
AllJoined == \A w \in Workers : pc[w] \in {"none", "exited"}

\* Faulty: the queue is freed with its tasks still linked.
DropQueue ==
  /\ queue' = <<>>
  /\ UNCHANGED <<task, stage, late>>

DestroyQueue ==
  /\ queue' = <<>>
  /\ stage' = [k \in Tasks |->
                 IF \E i \in 1 .. Len(queue) : queue[i] = k
                 THEN "discarded" ELSE stage[k]]
  /\ UNCHANGED <<task, late>>

Rollback ==
  /\ AllJoined
  /\ Goto(Owner, "rollback", "failed")
  /\ DestroyQueue
  /\ held' = held \ (QueueResources \cup {"threads", "pool"})
  /\ UNCHANGED <<lockVars, published, quit>>

-----------------------------------------------------------------------------
(* The owner calls thrdpool_terminate at most once, then thrdpool_waitdone, *)
(* as the clients do.                                                       *)

OwnerTerminates ==
  /\ Goto(Owner, "ready", "t_quit")
  /\ UNCHANGED <<taskVars, lockVars, ownerVars, quit>>

BeginWaitdone ==
  /\ Goto(Owner, "ready", "join") \/ Goto(Owner, "closing", "join")
  /\ UNCHANGED <<taskVars, lockVars, ownerVars, quit>>

\* main.c calls thrdpool_waitdone after its own posting loop has seen quit:
\* nobody is inside thrdpool_post, and nobody will be.
CallWaitdone ==
  /\ quit = 1
  /\ \A p \in Posters : pc[p] = "gone"
  /\ BeginWaitdone

\* Faulty: the pool is torn down without joining the workers.
JoinNobody ==
  /\ Goto(Owner, "join", "destroy")
  /\ UNCHANGED <<taskVars, lockVars, ownerVars, quit>>

JoinWorkers ==
  /\ AllJoined
  /\ Goto(Owner, "join", "destroy")
  /\ UNCHANGED <<taskVars, lockVars, ownerVars, quit>>

DestroyPool ==
  /\ Goto(Owner, "destroy", "gone")
  /\ DestroyQueue
  /\ held' = held \ (QueueResources \cup {"threads", "pool"})
  /\ UNCHANGED <<lockVars, published, quit>>

-----------------------------------------------------------------------------
PostStep(p) ==
  \/ CheckOpen(p) \/ AllocTask(p) \/ AllocFails(p)
  \/ AddTask(p) \/ Signal(p)

TerminateStep(t) ==
  \/ SetQuit(t) \/ LockToUnblock(t) \/ Unblock(t)
  \/ UnlockUnblocked(t) \/ Broadcast(t)

WorkerStep(w) ==
  \/ CheckQuit(w) \/ PopTask(w) \/ PopEmpty(w)
  \/ LockQueue(w) \/ GiveUp(w) \/ DecideToWait(w)
  \/ CondWait(w) \/ Reacquire(w) \/ Retry(w)
  \/ StartHandler(w) \/ HandlerReturns(w)
  \/ TerminateStep(w)

\* What the owner does inside a call, apart from starting threads.
OwnerStep ==
  \/ \E r \in Resources : AcquireResource(r) \/ AcquireFails(r)
  \/ SpawnFails \/ CreateReturns \/ Rollback
  \/ TerminateStep(Owner)
  \/ JoinWorkers \/ DestroyPool

\* Nothing remains to be done once the pool is gone or was never built.
Finished ==
  /\ pc[Owner] \in {"gone", "failed"}
  /\ UNCHANGED vars

Next ==
  \/ \E p \in Posters : PostStep(p) \/ BeginPost(p) \/ Leave(p)
  \/ \E w \in Workers : WorkerStep(w) \/ SpuriousWake(w) \/ Spawn(w)
  \/ OwnerStep
  \/ OwnerTerminates
  \/ CallWaitdone
  \/ Finished

Spec == Init /\ [][Next]_vars

\* A thread inside a call of the pool keeps running, a handler returns, and a
\* thread that waits for a free mutex or an ended thread gets it.  Whether and
\* when the clients call the pool is left open, and so are spurious wakeups.
Fairness ==
  /\ \A w \in Workers : WF_vars(WorkerStep(w))
  /\ \A p \in Posters : WF_vars(PostStep(p))
  /\ WF_vars(OwnerStep)

FairSpec == Spec /\ Fairness

-----------------------------------------------------------------------------
PosterLabels == {"idle", "check", "alloc", "add", "signal", "gone"}
TerminateLabels == {"t_quit", "t_lock", "t_block", "t_unlock", "t_bcast"}
WorkerLabels ==
  {"none", "loop", "pop", "lock", "block", "wait", "asleep", "relocked",
   "take", "run", "exited"} \cup TerminateLabels
OwnerLabels ==
  {"create", "spawn", "rollback", "failed", "ready", "closing", "join", "destroy",
   "gone"} \cup TerminateLabels

\* The state of thrd_pool.c and of the threads that use it.
TypeOK ==
  /\ pc \in [Threads -> PosterLabels \cup WorkerLabels \cup OwnerLabels]
  /\ \A w \in Workers : pc[w] \in WorkerLabels
  /\ \A p \in Posters : pc[p] \in PosterLabels
  /\ pc[Owner] \in OwnerLabels
  /\ task \in [Workers \cup Posters -> Tasks \cup {NULL}]
  /\ \A w \in Workers :
       pc[w] \in {"take", "run"} \cup TerminateLabels => task[w] \in Tasks
  /\ \A p \in Posters : pc[p] = "add" => task[p] \in Tasks
  /\ stage \in [Tasks -> Stages]
  /\ queue \in Seq(Tasks)
  /\ quit \in {0, 1}
  /\ block \in {0, 1}
  /\ mutex \in Workers \cup {Owner, NULL}
  /\ waiters \subseteq Workers
  /\ held \subseteq Resources
  /\ published \in BOOLEAN
  /\ late \subseteq Workers
  /\ spurious \in 0 .. MaxSpurious

\* The statements whose execution reads or writes the pool or its queue.
UsesPool(t) ==
  pc[t] \in {"check", "add", "signal",
             "loop", "pop", "lock", "block", "wait", "asleep", "relocked",
             "rollback", "join", "destroy"} \cup TerminateLabels

\* No thread touches the pool, its queue or its locks once thrdpool_waitdone
\* or a failed thrdpool_create has released them (lines 198-208, 323-325,
\* 365-367).
NoUseAfterFree ==
  \A t \in Threads :
    UsesPool(t) => {"pool"} \cup QueueResources \subseteq held

\* When the queue has been made non-blocking and the broadcast of __nonblock
\* is out, no worker is left in pthread_cond_wait and none will enter it: the
\* store to block and the test before the wait are both under the mutex.
NoSleeperAfterShutdown ==
  /\ block = 0 => \A w \in Workers : pc[w] # "wait"
  /\ block = 0 /\ (\A t \in Workers \cup {Owner} :
                     pc[t] \notin {"t_unlock", "t_bcast"})
       => waiters = {}

\* When thrdpool_waitdone returns, every task a worker ever took has run to
\* its end, no task node is left allocated and every resource is released; a
\* thrdpool_create that fails leaves no thread behind and nothing allocated
\* but, on one path, the thread attributes.
NothingLeftBehind ==
  /\ pc[Owner] = "gone" =>
       /\ held = {}
       /\ \A k \in Tasks : stage[k] \in {"none", "done", "discarded"}
  /\ pc[Owner] = "failed" =>
       /\ held \subseteq {"attr"}
       /\ AllJoined
       /\ \A k \in Tasks : stage[k] = "none"

-----------------------------------------------------------------------------
\* The pool implements the abstract task pool.
Abstract == INSTANCE TaskPool WITH
  pending   <- queue,
  running   <- [w \in Workers |-> task[w]],
  submitted <- {k \in Tasks : stage[k] \notin {"none", "alloc"}},
  lastCall  <- late,
  phase     <- IF pc[Owner] \in {"gone", "failed"} THEN "closed"
               ELSE IF quit = 1 THEN "closing" ELSE "open"

\* Tasks start in the order of their submission, once each, one at a time per
\* worker; after quit is set each worker starts at most one more; and what is
\* still queued is dropped only when nothing runs any more.
ImplementsTaskPool == Abstract!Spec

\* Once quit is set every worker leaves its loop: no terminate can leave one
\* asleep, whatever it races with; and thrdpool_waitdone returns.
ShutdownCompletes ==
  /\ quit = 1 ~> AllJoined
  /\ pc[Owner] = "join" ~> pc[Owner] = "gone"

Waiting(k) == stage[k] = "queued" /\ quit = 0

\* A queued task is taken when some worker still has its pop ahead of it, or
\* when the signal of a post finds a worker to wake.
ReachedTaskIsTaken ==
  \A k \in Tasks :
    /\ Waiting(k) /\ (\E w \in Workers :
         pc[w] \in {"loop", "pop", "take", "run", "relocked"})
       ~> ~Waiting(k)
    /\ Waiting(k) /\ waiters # {} /\ (\E p \in Posters : pc[p] = "signal")
       ~> ~Waiting(k)

\* The comment of __get_task (line 165): a worker blocks until there is a new
\* task or the queue is made non-blocking, so a queued task of an open pool is
\* taken eventually.
QueuedTaskTaken ==
  \A k \in Tasks : Waiting(k) ~> ~Waiting(k)
=============================================================================
