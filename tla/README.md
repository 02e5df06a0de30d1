# Specifications of CP_Study

TLA+ models of the concurrent and stateful components of CP_Study, the TLC
configurations that check them, and proofs of their main invariants.  Paths below
are relative to the repository; `TP` stands for `3_pool/thread_pool-master`, `QD`
for `3_pool/queue_design-master`, `AL` for `3_pool/atomic_and_lock-master`, `NET`
for `2_Net/2.1-epoll`.

    tlc -config ThrdPool.cfg ThrdPool          # one run
    tlapm ThrdPoolProofs.tla                   # one module of proofs

`PROJECT.json` lists the components, the runs, the source lines of every definition,
the hazards with the properties that cover them, and for each property a faulty
variant of one definition under which TLC finds it violated.  The faulty variants
stand next to the originals and start with the word "Faulty"; no specification
uses them.

## The system

The repository is a collection of small programs and reusable components.

| Component | State it keeps | Operations | What is hard about it | What makes it correct |
|---|---|---|---|---|
| C thread pool, `TP/thrd_pool.c` | `quit`; the task queue with its lock, mutex, condition and `block`; the threads | create with rollback, post, terminate, waitdone; the worker loop | A spinlock for the list and a mutex for sleeping, not taken together; the shutdown comes from the owner or from a task; every allocation can fail | No worker sleeps through a shutdown; nothing is used after it was freed; tasks start once and in order; teardown leaves nothing |
| Task queue, same file | `head`, `tail`, the link in the first word of each node | `__add_task`, `__pop_task` | `tail` is the address of a pointer, sometimes of `head` itself; nodes are recycled by malloc | The links are the queued nodes in order; `tail` never points into a popped node |
| Spinlock, `TP/spinlock.h` | one word | lock, trylock, unlock | Test and set | One thread at a time; it is given back |
| Load test, `TP/thrdpool_test.cc` | `g_count` | detached producers, polling, teardown | What the counter says about the producers | No producer is in the pool when it is torn down |
| Message queue, `QD/msgqueue.c` | Two lists, `get_head`, `put_head`, `put_tail`, `msg_cnt`, two mutexes, two conditions, `nonblock` | put, get with the swap of the lists, nonblocking mode on and off, create, destroy | The get list is changed under one mutex and swapped under both; one condition waits with the other mutex held; signals without a mutex | Nothing lost or reordered; the pending messages are bounded; nobody waits forever |
| MPSC queues, `QD/MPSCQueue.h` | `_head`, `_tail`, the links, a stub node or `_dummy` | Enqueue, Dequeue, the destructors | Lock-free; a producer between exchange and store leaves a gap; the consumer frees nodes and enqueues `_dummy` again | Order; no use after free; nothing leaked or lost |
| Locked queue, `QD/LockedQueue.h` | A deque, a mutex, `_canceled` | add, readd, next (also with a checker), peek, pop_front, empty, cancel | Two consumers with different checkers look at the same front | One consumer gets an item, and only one its checker accepts |
| Producer-consumer queue, `QD/ProducerConsumerQueue.h` | A queue, a mutex, a condition, `_shutdown` | Push, Pop, WaitAndPop, Size, Cancel | Cancel against waiters and later pushes | Every waiter returns after Cancel; an item is popped or deleted, once |
| C++ thread pool, `1_CPBase/threadPool/tp.cpp` | A queue, a mutex, a condition, `stop` | enqueue with a future, the worker loop, the destructor | Destructor against workers and enqueue | Every accepted task runs before the destructor returns; every future becomes ready |
| Memory pools, `3_pool/3.1.2-mempool-main` | Pages with a bump pointer; a free list in one page | init, alloc, free, dest | Arithmetic at the end of a page; which page is scanned first | Blocks lie inside their pages and do not overlap; a freed block of the list can be found again |
| Skip list, `AL/skiplist.h` | Nodes with a tower of links, `max_height_` | Insert, Contains, iteration | Readers without locks beside one writer that links level by level | A reader sees a sorted list that contains what was inserted before it began |
| Reactor, `NET/reactor.c`; web server, `NET/webserver.c` | The connection table, the epoll set | accept, receive, send callbacks | One thread for all peers; descriptors and table entries that are reused; peers that finish, close or reset at any moment | A peer gets its own answers; registration and pending answer agree; nobody is forgotten or closed without reason |
| Multiplexing variants, `NET/multi-io.c` | `clientfd`, `maxfd`, the sets of `select` and `poll`, the epoll set, a thread for each connection | the loops of five servers, of which the preprocessor chooses one | A variable of `main` that every thread reads; `maxfd`, which is not a maximum; entries that `poll` has not set; edge-triggered events with small reads | A peer gets its own bytes; a connection is not lost from sight; descriptors are closed |
| Load client, `NET/mul_port_client_epoll.c` | a count of connections | connect, send | - | - |
| Memory-order examples, `AL/*.cc`; `mutex.cpp` and `atomic_demo.cpp` of `1_CPBase/thread` | a few atomics or a counter | the functions of two to four threads | What a load may return under each memory order | The value that the comments promise; no lost increment |
| Producer and consumer, `1_CPBase/thread/condition_variable.cpp` | A queue, a mutex, a condition, `done` | produce ten, set `done`; consume until done | The last notification | The consumer gets everything and ends |
| Other thread, language and build demos, `1_CPBase` | Locals of one function | - | - | - |

Interactions: posters, workers and the owner of the C pool share the task queue,
which is built on the spinlock; a task may call back into the pool (`do_task` of
`TP/main.c` terminates it).  The queues of `QD` are shared by the threads of their
main programs.  The reactor's event loop calls the callbacks in the connection table,
which change the table and the epoll set.  The components do not call each other.

## Modules

| Module | Models | Kind |
|---|---|---|
| `TaskPool` | What the C pool promises, without locks | abstract specification |
| `ThrdPool` | `thrd_pool.c` with the clients of `main.c` | detailed specification, implements `TaskPool` |
| `ThrdPoolTest` | `thrdpool_test.cc` on top of `ThrdPool` | composition with a client |
| `FifoQueue` | What the queues of the pool and of `QD` promise: put, take the oldest, drop | abstract specification |
| `TaskQueue` | The list of the pool and the spinlock, access by access | detailed specification, implements `FifoQueue` |
| `MsgQueue` | `msgqueue.c` with the threads of `main_msgqueue.cpp` | detailed specification, implements `FifoQueue` |
| `MPSCQueue` | Both classes of `MPSCQueue.h` with the threads of `main_mpscqueue.cpp` | detailed specification, implements `FifoQueue` |
| `SkipList` | `skiplist.h` with the threads of `test_skiplist.cc` | detailed specification |
| `Sockets` | The descriptor table, epoll, TCP and the peers, as the servers see them | environment |
| `EventLoop` | `reactor.c` and `webserver.c` on `Sockets` | component |
| `MultiIO` | The five servers of `multi-io.c` on `Sockets` | component |
| `Servers` | `EventLoop` and `MultiIO` beside the peers, with their properties; `MCServers` is its instance | composition |
| `Monitors` | `tp.cpp`, `ProducerConsumerQueue.h`, `LockedQueue.h` with the threads of `main_lockedqueue.cpp` and with a consumer that peeks, and `condition_variable.cpp` | detailed specification |
| `Litmus` | The memory-order examples, the counters, both spinlocks and the publication of a node, in a memory that is not sequentially consistent | detailed specification |
| `MemPool` | `mempool.c` and `mempool-v1.c` | detailed specification |
| `ThrdPoolProofs` | - | theorems about `ThrdPool`, and that it implements `TaskPool` |
| `TaskQueueProofs`, `MPSCQueueProofs`, `MsgQueueProofs`, `MonitorsProofs`, `SkipListProofs`, `MemPoolProofs`, `ServersProofs` | - | theorems about the module each is named after |

### ThrdPool

`pc[t]` is the next statement of a thread that others can observe; `queue` is the
list of tasks, `block`, `quit`, `mutex` the fields of the same names, `waiters` the
threads in `pthread_cond_wait`, `held` the resources that `thrdpool_create` has
acquired, `stage` the fate of each task.  The critical sections under the spinlock
are one step each, which `TaskQueue` justifies.  `thrdpool_post` is `BeginPost`,
`CheckOpen` (the test of `quit`), `AllocTask` or `AllocFails`, `AddTask`, `Signal`.
A worker tests `quit` (`CheckQuit`), pops (`PopTask`, `PopEmpty`), and if there was
nothing locks the mutex, tests `block` (`GiveUp`, `DecideToWait`), waits (`CondWait`),
and pops again (`Reacquire`, `Retry`).  `thrdpool_terminate` is `SetQuit`,
`LockToUnblock`, `Unblock`, `UnlockUnblocked`, `Broadcast`, by the owner or by a
worker that runs a task in `Terminators`.  `AcquireResource` and `AcquireFails` go
through the acquisitions of `thrdpool_create` in order, `Spawn` and `SpawnFails`
through the threads; the rollback is `Rollback`.  The owner calls
`thrdpool_waitdone` only when nobody else can call into the pool any more, as `main.c`
arranges by joining its posters; `ThrdPoolTest` is the client that does not.

### TaskQueue

`head` and `tail` are the fields, `next[n]` the first word of node n, `HEAD` the
address of `head`; `tail` is an address, so that `*tail = link` is a write to `head`
or to a node.  `free` are the nodes malloc may return, `content` is a history variable
that says what the queue should hold.  `ImplementsFifo` maps it to the queue of `FifoQueue`, and
the node that a popper has taken and not freed yet (`Taken`) to what that popper holds there:
line 126 is `Put`, line 153 is `Take`, the free is `Drop`, and everything else is not seen.

### MsgQueue

`cell[x]` is the pointer stored at x, a list head or a message; `get_head`,
`put_head` and `put_tail` are addresses of cells.  `Turn` is line 70, outside
`put_mutex`; `Swap` are lines 75-82.  `Full` computes `msg_max - 1` in size_t,
whose largest value is `SizeMax`.  A message goes through `BeginPut`, `TestFull` (and `WakePut`),
`AppendMsg`, `UnlockPut`, `SignalGet`, and out through `LockGet`, `Look`, `Take`,
`UnlockGet`.  The controller is any thread that calls `msgqueue_set_nonblock`
(`StoreNonblock`, `WakeAll`, `UnlockNonblock`) and `msgqueue_set_block`.  `content` is a history
variable, what was put and not taken.  `ImplementsFifo` maps it to the queue of `FifoQueue`, and the
message that a consumer has from line 109 to line 116 to what it holds there.

### MPSCQueue

`kind` is the class that line 145 chooses.  A node is named by its item.  `Exchange`
and `Link` are lines 34-35 and 93-94, with the whole gap between them; `ReadPlain`
is `Dequeue` of the plain queue, of which the load of the link is the only access to
a word that another thread writes; `SkipDummy`, `ReadIntrusive`, `CompareHead`,
`Exchange`, `Link`, `Reread` are `Dequeue` of the intrusive queue.  `order` is a
history variable, the nodes from `_tail` on in the order of the exchanges.  `ImplementsFifo` maps
the items among them to the queue of `FifoQueue`: the exchange is `Put`, the return of `Dequeue`
is `Take`, and the deletion of the item is `Drop`.

### SkipList

`next[n][i]` is the link of node n at level i, `UNSET` before it is first stored;
`prev`, `prev_height` and `max_height` are the fields.  Every load and store of a link
and every load of `max_height` is a step.  `GreaterOrEqual`, `LessThan` and `Last` are
one turn of the loops of `FindGreaterOrEqual`, `FindLessThan` and `FindLast`, with `x`,
`level` and `stop` the locals of each thread.  `Insert` is `FastInsert` (right behind
the last key) or `SlowInsert`, then `ChooseHeight`, and `SetOwn` and `Publish` for each
level.  A reader calls `Contains`, `Seek` and `SeekForPrev` (`Seek`), `SeekToFirst`,
`SeekToLast`, `Next` (`MoveNext`) and `Prev`.  The inserting threads hold one mutex
of `test_skiplist.cc`, so one `Writer` stands for all of them.  `before` is a history
variable, the keys in the list when the reader's operation began, and `tower` another,
the height of each node.  `EstimateCount`, which has no exact answer and
changes nothing, is left out.

### Sockets, EventLoop, MultiIO, Servers

`kind` is the program: "echo" is `reactor.c`, "http" is `webserver.c`, and "blocking",
"threads", "select", "poll" and "edge" are the five programs of `multi-io.c`, of which the last
is compiled.

`Sockets` is what they run on, and external.  `file[fd]` is what a descriptor refers to,
`interest[fd]` its registration, `batch` the events of the last wait that are not handled yet.
A peer connects once, sends up to `bytes[p]` bytes, stops sending ("shut"), closes ("gone"), or
resets; `ends` says which of these a setting lets it do.  What the next `recv` or `send` reports follows
from that, and includes SIGPIPE, which no program handles and which ends the server (`alive`).  `TakeConnection` is `accept`, which gives
out the lowest free descriptor, as POSIX says; `room` is how many there are, as under a small
`ulimit -n`.

`EventLoop`: `rbuf[fd]` and `wbuf[fd]` are the first `rlen` and `wlen` bytes of the buffers of
`connlist[fd]`; they keep their content when the connection ends, until `Accept` clears
them for the next one.  A callback is one step, since the server has one thread: `Accept` and
`AcceptFails` are `accept_cb`; `Disconnect`, `Receive` and `ReceiveError` are the three results of
the `recv` in `recv_cb`; `Reply` is `send_cb`.  `EpollWait` takes the ready descriptors as
`batch`, and `Handle` picks the next event of it, in any order; a descriptor may be closed
and given to another peer in between.  The 20 listening sockets of `reactor.c` behave like one.
The `memcpy` of -1 bytes after an error of `recv` ends `reactor.c` (`ReceiveError`).

`MultiIO`: `SendBack`, `SendError` and `Hangup` are the three results of the `recv` that all five
have.  The blocking server is `BlockingAccept`, `BlockingEcho`, `BlockingClose`, with `clientfd`
None between two connections.  In the threads server `clientfd` is the variable of `main`,
whose address every thread gets: `MainAccept` stores it and creates a thread that is "born", and
`ThreadStart` reads it later; `meant` remembers which descriptor the thread was created for.
`ThreadRecv`, `ThreadSend` (or `ThreadError`) and `ThreadClose` are steps of their own, since other
threads run in between, and each finds out anew what its number refers to.  So two threads that have read
one number (`Misled`) both go on: they receive what they can, send in any order, and the
second `close` hits whatever the number refers to by then.  `send` with the count -1 is SIGPIPE
on the connection that failed; on another one it reads behind `buf`, and may send some of it (`Junk`).
`ThreadRecv` looks its number up when there is something to receive: a thread that waits in `recv` while another
one closes the number is not kept with the old connection.  For select and poll `maxfd` is
the variable; `Pending` are the events that the loop from `sockfd+1` to `maxfd` still has to come
to, lowest first, after the listening socket.  A `select` overwrites the set of the last one,
a `poll` only the entries up to `maxfd`: the others, and those that were never part of a poll,
which hold what was on the stack, stay in `batch`.  For the edge-triggered loop `fresh` are the
descriptors with an edge that was not reported, and `index` is `i`.

### Monitors

`kind` is the class.  All of them keep one queue behind one mutex, and their critical
sections are single steps; only the test of a condition and the wait that follows are two
(`Decide`, `Sleep`), with the mutex held from one to the other.  A put is `BeginPut` (or
`BeginNested`, by a task of the pool), `PutItem` or `Refuse` (the exception of
`enqueue`), and for the pool, which notifies after it has released the mutex, `NotifyOne`.
`TakeTask`, `Finish` and `Leave` are the rest of the worker of `tp.cpp`; `PopOrFail` is `Pop`,
and `WaitAndPop` after its wait; `NextChecked` is `next` with a checker, as the consumers of
`main_lockedqueue.cpp` call it until it fails.  `SetStop`, `NotifyAll` and `Join` are
`~ThreadPool`, `Cancel` is `Cancel`.  Nobody but a task calls a pool that is being
destroyed.  Of `LockedQueue`, "peek" is one consumer that does what the comment
at line 80 asks: it calls `empty` (`NotEmpty`), `peek` with or without the lock (`Peek`), `unlock`
and `pop_front`, or `next` and perhaps `readd`, until `cancelled` (`StopAtCancel`).  "cv" is
`condition_variable.cpp`: its producer puts every item, sets `done` and notifies (`SetDone`,
`NotifyOne`), its consumer takes (`Consume`) and leaves.  `fate` says what became of each item and `late` which were pushed after `Cancel`.

### Litmus

The C++ memory model is external; it is modelled by messages and views.  `mem[l]` are the messages
stored to location l, in its modification order; `view[t]` says how far thread t knows each
location, and a load returns any message from there on.  A message carries the view that its store
releases; a load that acquires, or an exchange, takes it over.  `global` is the view that seq_cst
operations hand on.  Plain accesses to `count` read and write messages too, so that an increment
beside another one may be lost, as in `increment_normal`.  Each function of the sources is a
sequence of operations, named after it; `Programs` says which threads a main starts, among them the
three forms of `incrby`, `spinlock_lock` beside `spinlock_trylock`, and a writer that fills a node
and links it with release (`PublishNode`: `Enqueue`, `SetNext`) beside readers that load the link with
acquire (`MeetNode`: `Dequeue`, `Next`).  Loads do not wait for stores that come later, so the
model leaves out behaviours that no program here could tell; where two threads store one location
(`relaxed_test.cc`) it is read only after the joins.

### MemPool

`kind` is the pool.  Of the paged one (`mempool.c`), `next[p]` and `free_ptr[p]` are the
header of page p; `BeginAlloc`, `TakeRoom` or `NextPage` for each turn of the loop, and `Grow`
are `mp_alloc`.  `mp_free` does nothing, and the loop of `mp_dest` runs while `first` is NULL,
which it never is, so `DestPaged` leaves every page allocated.  Of the block pool
(`mempool-v1.c`), `cell[a]` is the word at offset a; the offset `max` is the word
behind the page, into which `InitBlock` writes the NULL that ends the list when the blocks
fill the page.  `blocks` are the blocks the program has; it frees each once, and writes into
those of the block pool (`WriteBlock`), where the links of the free list were.

## Runs

| Run | Instance | States | What it shows |
|---|---|---|---|
| `thrdpool` | 2 workers, 1 poster, 2 tasks, one terminates, 1 spurious wakeup; fairness | 72 thousand | Every behaviour is one of `TaskPool`; no use after free, no sleeper after the broadcast, complete teardown and rollback; once `quit` is set every worker leaves its loop and `thrdpool_waitdone` returns (`ShutdownCompletes`), and a queued task that a worker's pop or a signal can reach is taken |
| `thrdpool_lost_wakeup` | as `thrdpool`, no terminator | violation | see Findings |
| `thrdpool_test_producers` | 2 producers of 1 task each | violation | see Findings |
| `taskqueue` | 2 adders, 2 poppers, 3 nodes that are recycled | 140 thousand | Mutual exclusion, the links are the queue at every access, the list implements `FifoQueue`, no node has two owners, the lock is given back |
| `msgqueue` | 2 producers, 2 consumers, 3 messages, maxlen 1, 1 switch to nonblocking mode or 1 spurious wakeup; fairness | 358 thousand | The two lists hold the messages in order, at most 2 maxlen are pending, only one consumer waits at a time, NULL is returned only in nonblocking mode and of an empty queue, failed creation and destruction leave nothing; in blocking mode every message is taken and every producer returns, nonblocking mode releases every waiter |
| `mpscqueue` | both kinds, 2 producers, 4 items; fairness | 131 thousand | Links follow the exchanges but for the gaps of stalled producers, no deleted node is used, both kinds implement `FifoQueue`, false only of a queue that was empty or in motion, everything delivered and deleted at the end |
| `skiplist` | 3 keys, towers of 1 or 2 levels, 1 reader; fairness | 196 thousand | At every store the levels are sorted lists inside each other, the searches' assertions hold for a reader that overtakes the writer, a search or an iteration misses nothing that was there when it began, and every search ends |
| `servers` | 7 programs, 2 peers of up to 3 bytes (also 3 peers for select, poll and the threads with two free descriptors, and 4 for the edge-triggered loop with three), buffers of 2 or 1, 1 to 3 free descriptors; fairness | 545 thousand | A peer gets its own bytes or pages and nothing of a former owner of its descriptor; in `reactor.c` and `webserver.c` a connection is registered for output exactly while an answer is pending, and no event of a batch is stale; a connection is closed only when its peer has finished and has got back what it can read, or for one of three reasons that `MayClose` names; a server stops looking at a connection only in the steps that `HasCause` names; whoever is looked at is served and closed in the end.  What these exceptions are is said under "Beyond the findings" |
| `servers_threads` | the threads server alone | violation | see Findings |
| `monitors` | 5 kinds, 2 workers, 2 producers, 3 items, 1 spurious wakeup; fairness | 159 thousand | While a worker sleeps every queued item has a thread or a notification of its own; at the end of `~ThreadPool` every accepted task has run, nested ones too; after `Cancel` only later pushes are left, and nobody waits; a consumer takes nothing its checker rejects, and pops what it has peeked at; the consumer of `condition_variable.cpp` gets everything and ends |
| `mempool` | both pools, pages of 6 and 7 words, sizes 1, 2, 3 and 8, up to 3 pages | 1.2 million | Blocks lie in their pages and do not overlap; the search reaches every page and a new one is made only if none has room; the free list runs through exactly the free blocks, whatever the program writes into its own |
| `litmus` | 10 programs, 2 to 4 threads, 2 rounds; fairness | 15 thousand | z is 1 with release and acquire and not 0 with seq_cst, while relaxed gives both; no increment under a lock, or of an atomic, is lost or raced for; what a linked node holds was written before it is read; every thread ends |

**Bounds.**  Two threads on one side of each queue and at least one on the other give
every pairwise race, and a third party in the owner or controller; the theorems
hold for any number of them.  Two tasks let one be queued behind the other, one of them the
task that terminates the pool.  Three nodes for two adders force the reuse of a node
while another thread still has it in hand, if that were possible.  With maxlen 1 a
list is full after one message, so three messages block a producer on a full list while
the other list is not empty.  Four items let the intrusive queue enqueue `_dummy`
again, behind and between items, several times.  Three keys let the writer insert between
the target of `SeekForPrev` and the node that its search found, so that the step back has
to be repeated; readers write nothing that is shared, so one of them sees everything
that several would.  `MaxSpurious` and `MaxUpsets` bound
events the environment can repeat without end; one meets every wait.
Three bytes and buffers of two make a peer fill its buffer with something left to send;
with one free descriptor for two peers `accept` fails and descriptors pass from one peer to the
other, with two both are served at once.  For `maxfd` to shrink a descriptor must be reused while a
higher one stays open, which takes three peers and two descriptors; one of them sends.  Two threads of the
threads server are enough for one to read the other's descriptor, and for `pthread_create` to fail after; a third
peer takes over the number that both are going to close.  That setting, and the one for `close(i)`, would be too
large with every way for a peer to end: in the first the peers stop sending (`ends` is "shut"), in the second they
send nothing and close.  For `close(3)`, which hits the listening socket, four events must come at once, three
connections and one more peer that waits.  That `i` reaches 4, the epoll set, takes five and is left to the proofs.
Two rounds of `incrby` let a thread that has unlocked come back to a lock that others wait for.  Three items
let one task enqueue another while a third waits.  Of the sizes in `mempool`, 1 is below the
minimum of two words, 2 and 3 divide one of the page sizes, 8 exceeds both.
`SizeMax` is 3: the only arithmetic that wraps is `msg_max - 1` at zero.

**Deadlock** is checked except where the program may really stop.  In the `Servers` runs
the server waits when no peer does anything, and has ended after SIGPIPE; in `Monitors`
workers wait for calls that nobody has to make; in `MemPool` the program ends when it likes; in `Litmus` every program ends.
In `MsgQueue` the consumers of
`main_msgqueue.cpp` call `msgqueue_get` until it returns NULL, which it never does in
blocking mode, so that program ends with its consumers asleep and its main thread in
`join`.

**Fairness** is weak fairness of each thread's steps inside a call: a thread that can
run does, pthread mutexes and conditions are eventually granted when they stay free, and
handlers return.  Calls are not forced, except where the program's loop makes them
(consumers; the threads of `main_mpscqueue.cpp`, which run to their end).  Nothing is
assumed of spurious wakeups.  In `Servers` each thread of the server runs when it can and no peer has to
move; the fairness of TCP is part of the guards, since what a peer did is visible at once.  In `Litmus` a load that can only return the same old message is a
stutter, so weak fairness of a thread means that a store is seen in finite time, which the C++
standard asks for.  The producer of `condition_variable.cpp` goes through its loop to the end.

## Findings

* `__add_task` signals without the mutex (`TP/thrd_pool.c:129`) and `__get_task` does not
  look at the queue again between its failed pop (174) and `pthread_cond_wait` (185).  A
  post in between is lost: the task stays queued while every worker sleeps, against
  the comment at line 165.  `ReachedTaskIsTaken` states what does hold.
* The polling loop of `TP/thrdpool_test.cc:46` ends when all tasks have run; a producer
  may still be in `thrdpool_post`, about to signal a condition that is being destroyed,
  against the comment at line 43.
* The threads server of `NET/multi-io.c` passes the address of the one `clientfd` of `main` to every thread
  (112), which reads it when it runs (16).  After a quick second `accept` two threads serve the second
  connection and none the first, although the comment at line 101 says that each connection has a thread of
  its own (and `NET/technical_doc.md:41` says so too).

## Beyond the findings

What the code does where the repository claims little: `mp_dest` of `mempool.c` frees nothing, since line
49 tests the negated pointer.  With a maxlen of 0 the limit at `QD/msgqueue.c:92` wraps and the queue is unbounded;
`PendingBound` is stated for positive limits.
`thrdpool_waitdone` (365) frees tasks that are still queued without running them, although the comment
at line 353 speaks of waiting for all tasks (`Discard` of `TaskPool`).

The servers of `NET/multi-io.c` break what one would ask of a server in several ways.  The properties of
`Servers` name the steps in which that happens, hold everywhere else, and each case but the close of the epoll set is reachable in the run:

* Two threads that have read one number can receive a byte each and send them in the wrong order, and
  both close the number, the second time perhaps under a connection accepted since.  `AnswersMatch` and
  `ClosedForReason` leave out the connections whose number a thread created for another one has read
  (`Misled`), and nothing else: a connection served by its own thread alone is not disturbed.  That the connection
  which `main` accepted before has no thread any more is the second case of `HasCause`; that no thread
  could be created is the first.
* `maxfd` (lines 151 and 209) is the descriptor accepted last: when that is a reused low
  one, or -1, connections above it are not looked at until a higher one comes (`AcceptsBelow`).  Then `poll` reads
  `revents` that the last call did not set (215), and may block in `recv` for a peer that has sent
  nothing, and everybody waits with it (`Stuck`).
* Line 289 calls `close(i)`, with i the position in the event array, where `connfd` is meant.
  The connection that has ended stays open outside the epoll set, against `NET/README.md:50-51`, "不再使用的文件描述符应立即关闭"
  (a descriptor that is not used any more is closed at once), and number i is closed in its place: standard input
  and output first, and with enough events at once the listening socket or the epoll set; nobody is
  accepted any more, or `epoll_wait` fails for ever (`EdgeAcceptFails`, and the guard of `EdgeWait`).
  `MayClose` and `HasCause` have a case for each; `Accepts` says who is not owed anything then.
* The edge-triggered loop reads one buffer for each edge (284); what is left waits for the next edge.  `Owed`
  asks for the first buffer, and for one more after every new edge.

## Proofs

The theorems hold for all sets of threads, tasks, messages, nodes, keys and sizes, finite or not,
from the named assumptions of the modules.  Most of these say that the roles are disjoint and NULL
is none of the values.  The others:

* `MPSCQueue`: there is a producer (`main_mpscqueue.cpp` starts two).
* `MsgQueue`: maxlen is a size_t, at most `SizeMax`.
* `Monitors`: the threads are finite, since the theorem on wakeups counts them; there is a worker
  (a `ThreadPool(0)` runs nothing), and exactly one consumer has the first checker, which in the classes with
  one consumer is that consumer; the words for the fate of an item are not names of workers.
* `SkipList`: keys are numbers above that of the head; there is a level.
* `MemPool`: sizes are positive, a page is larger than its header, NULL is no page.  `MaxPages` is
  any number.
* `Sockets`: each setting names one of the seven programs, at least one free descriptor, the ways in which
  peers may end, and a number of bytes for each of its peers; the buffers are not empty; no peer is one of the words for the other
  things that a descriptor refers to.

Few of the safety properties are inductive as they stand; what had to be added is named.

* **`ThrdPoolProofs`.**  `Typed`: `TypeOK` is inductive.  `Shutdown`: `SleepInv` adds to
  the property that the mutex belongs to exactly the thread that stands between its
  lock and its unlock (`MutexHeld`); without it a worker could decide to wait while
  another thread stores `block`.  `Lifetime`:
  `LifeInv` says, for each phase of the owner, where the other threads can be and what
  is allocated: no worker before the creation loop, no poster in a call before the pool
  is returned or after the teardown began, nobody once all are joined.  The
  property alone is not inductive: the step that frees the pool needs that everybody
  has left it.  `Teardown`: `StageInv` ties the stage of each task
  to the thread or the queue that has it, so that at the end no task can be in
  an intermediate stage.
  `Refinement`: the initial states map to initial states of
  `TaskPool` and every step to a step of it or a stutter, under the invariants above and
  `MapInv`: a worker outside a task holds NULL, no two posters hold the same task, a worker
  that popped after `quit` was set is in that task or at the head or end of its loop, and
  the owner tears the pool down only after `quit`.
* **`TaskQueueProofs`.**  `QueueInv` is the conjunction of `TypeOK`, `MutualExclusion`,
  `ListInv` (the list property with the intermediate states of the two critical
  sections) and `NodesOwnedOnce`: the list is right because the lock excludes, and
  because a node that is added is in nobody else's hands.  `Typed`, `Exclusion`,
  `ListCorrect`, `TailCorrect` and `Ownership` follow from it.  `FifoRefinement` uses it
  for the steps that `FifoQueue` sees: `LinkIsPut` needs that the new node is neither
  queued nor held (`NodesOwnedOnce`), `AdvanceIsTake` that the node read at line 143 is
  still the oldest (`PopsOldest`).  `TailOfList` is the fact on sequences that the removal
  of the first node needs.

* **`MPSCQueueProofs`.**  `QueueInv` adds to the property on links (`LinksFollowExchanges`): `Calls`,
  one taker at a time, and the destructor's thread only after the producers were joined;
  `Hands`, the node that a thread enqueues is in nobody else's hands, and linked to nothing before the
  exchange; `Places`, a node is unsent, in someone's hands, in the order, delivered or deleted,
  and only one of these; `Settled`, what `Dequeue` has read (`tail`, and that `_head` is the last
  node) stays true while no producer exchanges.  `LinksCorrect`, `NodesLive` and `FalseIsRight`
  follow.  `FifoRefinement` maps the exchange to `Put`, with a case for each class, since an
  exchange of `_dummy` puts nothing; that removing `_dummy` from anywhere in the order commutes
  with adding at the end and taking at the front is a lemma on sequences.
* **`MsgQueueProofs`.**  `QueueInv` is `TypeOK` with `Locks` (the program counters agree with
  the two mutexes and the waiting sets: a consumer anywhere between lines 107 and 116 has `get_mutex`,
  asleep or not), `Hands` (each message is with one thread or in one list), `Lists` (the first g
  messages of `content` are linked from `get_head` and the others from `put_head`, `put_tail` is the
  last link, and from line 70 to line 79 both heads are the same cell and g is 0) and `Limits`
  (in blocking mode the get list has at most maxlen messages, and the put list too).  `ListsCorrect`,
  `BoundKept`, `OneWaiter`, `CleanEnd` follow from it, and the action property `NullIsRight` from it
  and one step.  `FifoRefinement` needs `Given` besides: a message that a consumer has is nowhere else.
  Its statement `ImplementsFifo` is proved and in no run.
* **`MonitorsProofs`.**  `Base` is `TypeOK`, where each class's threads can be (`Roles`) and who has
  the mutex between a test and the wait (`Mutex`).  `NoLostWakeup` is a counting argument: while
  somebody sleeps, the items are at most as many as the threads that will look at the queue or notify
  (`Watched`); each step that queues an item adds such a thread, and each that removes one takes
  an item with it, or wakes a sleeper, or happens when the queue is empty.  `NothingLost`:
  `Accounted` says of each item which thread or queue has it (`Hands`), by its `fate`, and what
  each class may have done with it (`Outcomes`).
* **`SkipListProofs`.**  For the writer: `Linked` (each level is a sorted list and part of the level
  below, as links between neighbours), `Towers` (where the writer stands, and that no tower is higher than
  `max_height`), `Preds` (`prev` holds the predecessors, also when the fast path of line 452
  reuses them).  For each reader: `Standing` (its search is before its key, everything behind
  it on the levels above is out of the way), `Asked`, `Arrived` and `Iterated` (what the search is for, what
  it found, where the iterator is when it is over).  Readers store nothing that is shared, and of
  the writer's steps only `Publish` changes a level, by adding one node (`AddAfter`), so that
  levels only grow (`LevelsGrow`); what a reader knows of the past stays true (`ReaderKept`).
  `SortedLevels`, `RightSearches` and `RightIterator` follow.
* **`MemPoolProofs`.**  `PoolInv` adds to `BlocksApart`: `Paged`, the pages are numbered in the order
  they were added and linked downwards to NULL, every block of a page ends before its `free_ptr`,
  and the search has passed only pages without room; `InBlocks`, there is a sequence that enumerates
  the free blocks along their links (`FreeList`), and blocks lie on a grid.  That a grid of
  blocks fits the page and its members do not overlap are the arithmetic lemmas at the head of the module.
  `BlocksNeverOverlap` and `SpaceFound` follow.  `SpaceIsFound` says that a list runs through a set as
  an enumeration of the set along the links (`Through`), which needs no recursion.

* **`ServersProofs`.**  None of the properties is inductive, and all need that the descriptor table
  is right.  `ServersInv` is `Typed` with
  `Table` (an accepted connection has exactly one descriptor, nothing was exchanged with a peer before it was
  accepted, and but for the edge-triggered server, which closes what it does not mean, the
  descriptors of the server itself stay what they are);
  `Told` (what a peer was sent is a prefix of what was read from it, but for the page, and in the threads server
  only until a thread has read another's number);
  `Buffers` for `reactor.c` and `webserver.c` (what the peer has, and then what `wbuf` still holds, is
  what was read; a descriptor is registered exactly if it has a connection, for output only with something
  to send; and each event left in the batch is what its descriptor is registered for);
  `AtOnce` for `multi-io.c` without threads (what is read is sent in the same step; `i` and the events left are
  together at most as many as the descriptors, so that `close(i)` is given a number in the table);
  `InOrder` for `select` and `poll` (until the first close the descriptors are taken in order and `maxfd` is
  the last);
  `Owned` for the threads server: of a number that no thread created for another connection has read, at most
  one thread is created and not ended, it owes its peer exactly what is in its buffer, and when it is about
  to close, its peer has finished and everything was received (`Minded`).  That a thread's step leaves this alone on
  all other numbers is one lemma (`ThreadTurn`), whatever the step does on a number that two threads share.
  No event is stale since a handler removes its own event from the batch and changes the registration of
  its own descriptor only, and a descriptor that `accept` takes was free, so that no event of the
  batch was for it.  The proof has one lemma for each action, or for what actions of several servers share, with one step for each part; an action of
  one server leaves the parts about the others alone since `kind` never changes.  What was sent is
  what was read is a matter of sequences: the lemmas on `Bytes` say how prefixes of a peer's bytes grow and are cut.
  `ServersInvariant`, and from it the invariants `EveryAnswerMatches` and `NoEventIsStale`, hold for any number
  of peers, threads and descriptors and buffers of any length.  `NoneIsClosedEarly` and `NoneIsLostOtherwise` are
  about steps and follow from `ServersInv` before the step, and for `reactor.c`, `webserver.c` and the blocking server also
  after it; `AcceptedLoses` needs `InOrder`, by which a free number below an open one was given out before.

`TypeOK` of a module is part of its invariant, and of the first invariant of its run except in
`ThrdPool` and `TaskQueue`, where it is proved and in no run; so is `TailIsLast` of `TaskQueue`.

Only model-checked: `NoDataRace` and `FinalValues` of `Litmus`, and all liveness.  `Litmus` is ten fixed
programs of a few operations each, of which TLC sees every execution but for the number of rounds of the
counters; a proof would add little but those rounds.
Liveness under fairness and ENABLED, induction over data, and RECURSIVE operators are out
of the prover's reach.

## Not modelled

* The weak memory of whole components.  `TaskQueue`, `MPSCQueue` and `SkipList` interleave accesses
  to a sequentially consistent memory; `Litmus` checks the orders they rely on, of the lock and of
  a published node, on their own.
* The pthread form of `spinlock.h` and the C++11 and GCC forms of `atomic.h`, which name the same
  operations.
* Scheduling, timing and output; the contents of tasks and messages.
* The demos of `1_CPBase` but for those above: `promise.cpp`, `future.cpp`, `packaged_task.cpp` and
  `ThreadWrapper.hpp` show one library class each, in a thread that another joins; the rest is
  sequential.
* The load client `NET/mul_port_client_epoll.c`: to a server it is a peer, and the peers of `Sockets`
  may do all that it does.  Its own state is a count of connections for a print-out.
* Of TCP, windows: a `send` never blocks for room.  The limits of 1024 entries of `select`, `poll` and
  the event arrays.
* Sizes that are not a multiple of a word, and alignment.

## Plan

1. `ThrdPool`, `TaskPool`, `TaskQueue` and their proofs, `MsgQueue`, `MPSCQueue`, `SkipList`,
   `Monitors`, `MemPool`, `Sockets` with `EventLoop`, `MultiIO` and `Servers`, `Litmus`,
   `FifoQueue` with both its implementations: done.
2. An abstract pool for `tp.cpp`, which runs every task it accepts, with `Monitors` as its
   implementation.
3. Proofs: the safety properties of all components but the memory examples are done.  Left:
   `NoDataRace` of the counters of `Litmus` for any number of rounds; the wakeup invariant of `Monitors`
   as a refinement of the abstract pool.
