--------------------------- MODULE MonitorsProofs ---------------------------
(***************************************************************************)
(* No wakeup is lost and no item forgotten by the C++ classes of Monitors, *)
(* for any number of workers, producers and items.                         *)
(***************************************************************************)
EXTENDS Monitors, FiniteSetTheorems, SequenceTheorems, TLAPS

\* Where the workers of each class can be
Places ==
  IF kind = "pool" THEN {"test", "wait", "asleep", "run", "put", "notify", "exited"}
  ELSE IF kind = "pc" THEN {"idle", "test", "wait", "asleep"}
  ELSE IF kind = "locked" THEN {"test", "exited"}
  ELSE IF kind = "peek" THEN {"test", "found", "peeked", "copied", "taken", "exited"}
  ELSE {"test", "wait", "asleep", "exited"}

\* Who can be where, and what the end of the pool and of the queue means.
Roles ==
  /\ \A w \in Workers : pc[w] \in Places
  /\ \A p \in Producers : /\ pc[p] \in {"idle", "put", "notify", "exited"}
                          /\ pc[p] = "notify" => kind \in {"pool", "cv"}
  /\ pc[Owner] \in IF kind = "pool" THEN {"idle", "wakeall", "join", "destroyed"}
                   ELSE {"idle", "canceled"}
  /\ kind = "pool" =>
       /\ stop <=> pc[Owner] # "idle"
       /\ stop => \A p \in Producers : pc[p] = "idle"
       /\ (\E w \in Workers : pc[w] = "exited") => stop /\ queue = <<>>
  /\ kind = "pc" => (stop <=> pc[Owner] = "canceled")
  /\ Single => \A w \in Workers \ EvenWorkers : pc[w] = "exited"
  /\ pc[Owner] = "destroyed" => \A w \in Workers : pc[w] = "exited"
  /\ \A t \in Threads : pc[t] = "put" => item[t] \in Items
  /\ \A w \in Workers : pc[w] = "taken" => task[w] \in Items

\* A worker that holds the mutex to wait has nothing to do; one that peeked
\* knows the head of the queue, also when it has released the mutex.
Mutex ==
  /\ \A w \in Workers : mutex = w <=> pc[w] \in {"wait", "peeked"}
  /\ \A w \in Workers : pc[w] = "wait" => queue = <<>> /\ ~stop
  /\ \A w \in Workers :
       /\ pc[w] \in {"found", "peeked", "copied"} => queue # <<>>
       /\ pc[w] \in {"peeked", "copied"} => Head(queue) = task[w]

InQueue(i) == \E k \in 1 .. Len(queue) : queue[k] = i

\* A worker that has a task of the pool
Runs(w) == kind = "pool" /\ pc[w] \in {"run", "put", "notify"}

\* fate says where each item is.
Hands ==
  /\ \A j, k \in 1 .. Len(queue) : queue[j] = queue[k] => j = k
  /\ \A i \in Items :
       /\ fate[i] = "queued" <=> InQueue(i)
       /\ fate[i] = "offered" => \E t \in Threads : pc[t] = "put" /\ item[t] = i
       /\ fate[i] = "running" => \E w \in Workers : Runs(w) /\ task[w] = i
  /\ \A t \in Threads : pc[t] = "put" =>
       /\ fate[item[t]] = "offered"
       /\ \A u \in Threads : pc[u] = "put" /\ item[u] = item[t] => t = u
  /\ \A w \in Workers : Runs(w) =>
       /\ task[w] \in Items /\ fate[task[w]] = "running"
       /\ \A v \in Workers : Runs(v) /\ task[v] = task[w] => v = w
  /\ \A w \in Workers : pc[w] = "taken" => fate[task[w]] = w

\* What each class does with the items.
Outcomes ==
  /\ kind = "pool" => \A i \in Items : fate[i] \notin Workers \cup {"deleted"}
  /\ kind = "locked" => \A i \in Items, w \in Workers : fate[i] = w => Process(w, i)
  /\ ~stop => late = {}
  /\ kind = "pc" /\ stop => \A i \in Items : fate[i] = "queued" <=> i \in late

Base == TypeOK /\ Roles /\ Mutex

Accounted == Hands /\ Outcomes

-----------------------------------------------------------------------------
(* The control: Base is invariant. *)

\* What notify_one does to the others.
LEMMA Woken ==
  ASSUME TypeOK, NEW t \in Threads, NEW to, WakeOne(t, to), pc[t] # "asleep"
  PROVE  /\ pc'[t] = to
         /\ \A u \in Threads \ {t} :
              pc'[u] = pc[u] \/ (u \in Workers /\ pc[u] = "asleep" /\ pc'[u] = "test")
         /\ pc' = [u \in Threads |-> pc'[u]]
BY DEF TypeOK, WakeOne, Asleep, Threads

\* pop_front changes the queue.
LEMMA LosesHead ==
  ASSUME TypeOK, queue # <<>>
  PROVE  Tail(queue) # queue
<1>1. PICK n \in Nat : n = Len(queue)
  BY DEF TypeOK
<1>2. Len(Tail(queue)) = n - 1
  BY <1>1, HeadTailProperties DEF TypeOK
<1>3. n - 1 # n
  OBVIOUS
<1> QED BY <1>1, <1>2, <1>3

LEMMA PutBase ==
  ASSUME Base, NEW t \in Threads, PutItem(t)
  PROVE  Base'
<1> USE RolesDisjoint, ItemsAreNumbers, OneEven, FatesDistinct
    DEF Base, TypeOK, Roles, Mutex, Places, Single, Fates, Goto, Threads
<1>1. item[t] \in Items /\ pc[t] = "put" /\ mutex = NULL /\ queue' = Append(queue, item[t])
  BY DEF PutItem
<1>2. /\ queue' \in Seq(Items) /\ queue' # <<>>
      /\ queue # <<>> => Head(queue') = Head(queue)
  BY <1>1, HeadTailAppend, AppendProperties
<1>3. TypeOK'
  <2>1. fate' = [fate EXCEPT ![item[t]] = "queued"] /\ late' \subseteq Items
    BY <1>1 DEF PutItem
  <2>2. fate' \in [Items -> Fates \cup Workers]
    BY <1>1, <2>1
  <2>3. pc' \in [Threads -> {"idle", "put", "notify", "test", "wait", "asleep", "run",
                             "exited", "wakeall", "join", "destroyed", "canceled",
                             "found", "peeked", "copied", "taken"}]
    <3>1. \/ \E to \in {"notify", "idle"} : pc' = [pc EXCEPT ![t] = to]
          \/ \E w \in Threads : pc' = [pc EXCEPT ![t] = "idle", ![w] = "test"]
      BY ONLY PutItem(t) DEF PutItem, WakeOne, Asleep, Goto, Threads
    <3>2. pc \in [Threads -> {"idle", "put", "notify", "test", "wait", "asleep", "run",
                              "exited", "wakeall", "join", "destroyed", "canceled",
                              "found", "peeked", "copied", "taken"}]
      BY DEF TypeOK
    <3> QED BY ONLY <3>1, <3>2, t \in Threads
  <2>4. UNCHANGED <<kind, stop, spurious, mutex, task, item>>
    BY DEF PutItem
  <2> QED BY <1>2, <2>1, <2>2, <2>3, <2>4
<1>4. CASE kind = "pc"
  <2>1. Roles'
    BY <1>1, <1>4 DEF PutItem, WakeOne, Asleep
  <2>2. Mutex'
    BY <1>1, <1>2, <1>4 DEF PutItem, WakeOne, Asleep
  <2> QED BY <1>3, <2>1, <2>2
<1>5. CASE kind # "pc"
  <2>1. Roles'
    BY <1>1, <1>5 DEF PutItem
  <2>2. Mutex'
    BY <1>1, <1>2, <1>5 DEF PutItem
  <2> QED BY <1>3, <2>1, <2>2
<1> QED BY <1>4, <1>5

\* The other steps of those that call enqueue, Push, add and producer of "cv"
LEMMA CallBase ==
  ASSUME Base, 
         \/ \E i \in Items : \/ \E p \in Producers : BeginPut(p, i)
                             \/ \E w \in Workers : kind = "pool" /\ BeginNested(w, i)
         \/ \E t \in Threads : Refuse(t) \/ NotifyOne(t)
         \/ \E p \in Producers : SetDone(p)
  PROVE  Base'
<1> USE RolesDisjoint, ItemsAreNumbers, OneEven, FatesDistinct
    DEF Base, TypeOK, Roles, Mutex, Places, Single, Fates, Goto, Pass, Threads, aside
<1>1. CASE \E i \in Items, p \in Producers : BeginPut(p, i)
  BY <1>1 DEF BeginPut
<1>2. CASE \E i \in Items, w \in Workers : kind = "pool" /\ BeginNested(w, i)
  BY <1>2 DEF BeginNested
<1>3. CASE \E t \in Threads : Refuse(t)
  BY <1>3 DEF Refuse
<1>4. ASSUME NEW t \in Threads, NotifyOne(t)
      PROVE  Base'
  <2>1. TypeOK'
    BY <1>4 DEF NotifyOne, WakeOne, Asleep
  <2>2. Roles'
    BY <1>4 DEF NotifyOne, WakeOne, Asleep
  <2>3. Mutex'
    BY <1>4 DEF NotifyOne, WakeOne, Asleep
  <2> QED BY <2>1, <2>2, <2>3
<1>5. CASE \E p \in Producers : SetDone(p)
  BY <1>5 DEF SetDone
<1> QED BY <1>1, <1>2, <1>3, <1>4, <1>5

\* The steps of a worker that leave the queue alone
LEMMA WaitBase ==
  ASSUME Base, NEW w \in Workers,
         \/ BeginGet(w) \/ Decide(w) \/ Sleep(w) \/ SpuriousWake(w) \/ Finish(w) \/ Leave(w)
         \/ NotEmpty(w) \/ Unlock(w) \/ Keep(w) \/ StopAtCancel(w)
  PROVE  Base'
<1> USE RolesDisjoint, ItemsAreNumbers, OneEven, FatesDistinct
    DEF Base, TypeOK, Roles, Mutex, Places, Single, Fates, Goto, Pass, Threads, aside
<1>1. CASE BeginGet(w)
  BY <1>1 DEF BeginGet
<1>2. CASE Decide(w)
  BY <1>2 DEF Decide
<1>3. CASE Sleep(w)
  BY <1>3 DEF Sleep
<1>4. CASE SpuriousWake(w)
  BY <1>4 DEF SpuriousWake
<1>5. CASE Finish(w)
  BY <1>5 DEF Finish
<1>6. CASE Leave(w)
  BY <1>6 DEF Leave
<1>7. CASE NotEmpty(w)
  BY <1>7 DEF NotEmpty
<1>8. CASE Unlock(w)
  BY <1>8 DEF Unlock
<1>9. CASE Keep(w)
  BY <1>9 DEF Keep
<1>10. CASE StopAtCancel(w)
  BY <1>10 DEF StopAtCancel
<1> QED BY <1>1, <1>2, <1>3, <1>4, <1>5, <1>6, <1>7, <1>8, <1>9, <1>10

\* The steps of a worker that take from the queue, look at its head or put back
LEMMA TakeBase ==
  ASSUME Base, NEW w \in Workers,
         \/ TakeTask(w) \/ Consume(w) \/ PopOrFail(w) \/ NextChecked(w)
         \/ Peek(w) \/ PopFront(w) \/ TakeNext(w) \/ Readd(w)
  PROVE  Base'
<1> USE RolesDisjoint, ItemsAreNumbers, OneEven, FatesDistinct
    DEF Base, TypeOK, Roles, Mutex, Places, Single, Fates, Goto, Pass, Threads, aside
<1>1. CASE TakeTask(w)
  <2>1. queue # <<>> /\ Head(queue) \in Items /\ Tail(queue) \in Seq(Items)
    BY <1>1, HeadTailProperties DEF TakeTask, TakeHead
  <2> QED BY <1>1, <2>1 DEF TakeTask, TakeHead
<1>2. CASE Consume(w)
  BY <1>2 DEF Consume, TakeHead
<1>3. CASE PopOrFail(w)
  <2>1. CASE queue' = queue
    <3>1. Pass(w, pc[w], "idle") /\ pc[w] \in {"idle", "test"} /\ kind = "pc"
      BY <1>3, <2>1, LosesHead DEF PopOrFail, TakeHead
    <3> QED BY <3>1
  <2>2. CASE TakeHead(w)
    <3>1. /\ queue # <<>> /\ Head(queue) \in Items /\ Tail(queue) \in Seq(Items)
          /\ kind = "pc" /\ pc[w] \in {"idle", "test"} /\ pc' = [pc EXCEPT ![w] = "idle"]
          /\ task' = task
      BY <1>3, <2>2, HeadTailProperties, LosesHead DEF PopOrFail, TakeHead
    <3> QED BY <2>2, <3>1 DEF TakeHead
  <2> QED BY <1>3, <2>1, <2>2 DEF PopOrFail
<1>4. CASE NextChecked(w)
  <2>1. CASE queue' = queue
    <3>1. Pass(w, "test", "exited") /\ kind = "locked"
      BY <1>4, <2>1, LosesHead DEF NextChecked, TakeHead
    <3> QED BY <3>1
  <2>2. CASE TakeHead(w)
    <3>1. /\ queue # <<>> /\ Head(queue) \in Items /\ Tail(queue) \in Seq(Items)
          /\ kind = "locked" /\ Goto(w, "test", "test") /\ task' = task
      BY <1>4, <2>2, HeadTailProperties, LosesHead DEF NextChecked, TakeHead
    <3> QED BY <2>2, <3>1 DEF TakeHead
  <2> QED BY <1>4, <2>1, <2>2 DEF NextChecked
<1>5. CASE Peek(w)
  BY <1>5 DEF Peek
<1>6. CASE PopFront(w)
  BY <1>6 DEF PopFront, TakeHead
<1>7. CASE TakeNext(w)
  BY <1>7 DEF TakeNext, TakeHead
<1>8. CASE Readd(w)
  BY <1>8 DEF Readd
<1> QED BY <1>1, <1>2, <1>3, <1>4, <1>5, <1>6, <1>7, <1>8

\* The destructor, the threads that join, and the two ways to cancel
LEMMA EndBase ==
  ASSUME Base, CancelLocked \/ SetStop \/ NotifyAll \/ Join \/ Cancel
  PROVE  Base'
<1> USE RolesDisjoint, ItemsAreNumbers, OneEven, FatesDistinct
    DEF Base, TypeOK, Roles, Mutex, Places, Single, Fates, Goto, Pass, Threads, aside
<1>1. CASE CancelLocked
  BY <1>1 DEF CancelLocked
<1>2. CASE SetStop
  BY <1>2 DEF SetStop, SetStopUnlocked
<1>3. CASE NotifyAll
  BY <1>3 DEF NotifyAll, WakeAll, Asleep
<1>4. CASE Join
  BY <1>4 DEF Join
<1>5. CASE Cancel
  BY <1>5 DEF Cancel, WakeAll, Asleep
<1> QED BY <1>1, <1>2, <1>3, <1>4, <1>5

LEMMA BaseInit == Init => Base
<1> SUFFICES ASSUME Init PROVE Base
  OBVIOUS
<1> USE RolesDisjoint, ItemsAreNumbers, OneEven DEF Init, Threads
<1>1. TypeOK
  <2>1. \A t \in Threads : pc[t] \in {"idle", "test", "exited"}
    OBVIOUS
  <2>2. pc \in [Threads -> {"idle", "test", "exited"}]
    <3>1. pc = [t \in Threads |-> pc[t]]
      BY Zenon
    <3> QED BY <2>1, <3>1, Zenon
  <2>3. fate \in [Items -> Fates \cup Workers] /\ queue \in Seq(Items)
    BY DEF Fates
  <2>4. /\ kind \in Kinds /\ stop \in BOOLEAN /\ spurious \in 0 .. MaxSpurious
        /\ mutex \in Workers \cup {NULL} /\ late \subseteq Items
    <3>1. kind \in Kinds /\ stop = FALSE /\ spurious = 0 /\ mutex = NULL /\ late = {}
      BY Zenon
    <3>2. 0 \in 0 .. MaxSpurious
      BY ItemsAreNumbers
    <3> QED BY <3>1, <3>2, Zenon
  <2>5. /\ task \in [Workers -> Items \cup {NULL}]
        /\ item \in [Threads -> Items \cup {NULL}]
    OBVIOUS
  <2> HIDE DEF Init, Threads
  <2> QED BY <2>2, <2>3, <2>4, <2>5 DEF TypeOK
<1>2. Roles
  BY DEF Roles, Places, Single
<1>3. Mutex
  BY DEF Mutex
<1> QED BY <1>1, <1>2, <1>3 DEF Base

LEMMA BaseStep == Base /\ [Next]_vars => Base'
<1> SUFFICES ASSUME Base, [Next]_vars PROVE Base'
  OBVIOUS
<1>1. CASE \E t \in Threads : PutStep(t)
  BY <1>1, PutBase, CallBase DEF PutStep
<1>2. CASE \E w \in Workers :
             GetStep(w) \/ BeginGet(w) \/ PopOrFail(w) \/ PeekCall(w) \/ SpuriousWake(w)
  BY <1>2, WaitBase, TakeBase DEF GetStep, PeekCall
<1>3. CASE \/ \E i \in Items : \/ \E p \in Producers : BeginPut(p, i)
                               \/ \E w \in Workers : kind = "pool" /\ BeginNested(w, i)
           \/ \E p \in Producers : SetDone(p)
  BY <1>3, CallBase
<1>4. CASE OwnerStep \/ SetStop \/ Cancel \/ CancelLocked
  BY <1>4, EndBase DEF OwnerStep
<1>5. CASE UNCHANGED vars
  BY <1>5 DEF vars, Base, TypeOK, Roles, Mutex, Places, Single
<1> QED BY <1>1, <1>2, <1>3, <1>4, <1>5 DEF Next

LEMMA Bases == Spec => []Base
BY BaseInit, BaseStep, PTL DEF Spec

-----------------------------------------------------------------------------
(* The notifications: NoSleeperBesideWork is invariant. *)

\* The threads that will look at the queue, or make another look at it
Watching == {t \in Threads : pc[t] \in {"test", "notify"}}

\* Nobody sleeps beside an item, and nobody after a stop.
Watched ==
  Asleep # {} =>
    /\ Len(queue) <= Cardinality(Watching)
    /\ stop => pc[Owner] = "wakeall" \/ \E p \in Producers : pc[p] = "notify"

LEMMA WatchingFinite ==
  /\ IsFiniteSet(Watching) /\ Cardinality(Watching) \in Nat
  /\ IsFiniteSet(Watching') /\ Cardinality(Watching)' \in Nat
<1>1. Watching \subseteq Threads /\ Watching' \subseteq Threads
  BY DEF Watching
<1>2. IsFiniteSet(Watching) /\ IsFiniteSet(Watching')
  BY <1>1, ThreadsFinite, FS_Subset
<1> QED BY <1>2, FS_CardinalityType

\* A set with an element that another has not, but with all of the other's
LEMMA OneMore ==
  ASSUME NEW S, NEW T, IsFiniteSet(T), S \subseteq T, NEW x \in T, x \notin S
  PROVE  Cardinality(S) \in Nat /\ Cardinality(T) \in Nat /\ Cardinality(S) + 1 <= Cardinality(T)
<1>1. IsFiniteSet(S) /\ S \cup {x} \subseteq T /\ IsFiniteSet(S \cup {x})
  BY FS_Subset, FS_AddElement
<1>2. Cardinality(S \cup {x}) = Cardinality(S) + 1
  BY <1>1, FS_AddElement
<1>3. Cardinality(S \cup {x}) <= Cardinality(T)
  BY <1>1, FS_Subset
<1> QED BY <1>1, <1>2, <1>3, FS_CardinalityType

\* A set that has all but one of another's elements
LEMMA OneLess ==
  ASSUME NEW S, NEW T, IsFiniteSet(S), IsFiniteSet(T), NEW x, S \ {x} \subseteq T
  PROVE  Cardinality(S) \in Nat /\ Cardinality(T) \in Nat /\ Cardinality(S) <= Cardinality(T) + 1
<1>1. IsFiniteSet(T \cup {x}) /\ S \subseteq T \cup {x}
  BY FS_AddElement
<1>2. Cardinality(T \cup {x}) \in {Cardinality(T), Cardinality(T) + 1}
  BY FS_AddElement
<1>3. Cardinality(S) <= Cardinality(T \cup {x})
  BY <1>1, FS_Subset
<1> QED BY <1>2, <1>3, FS_CardinalityType

\* Steps after which no more items wait than before and no fewer threads watch
LEMMA StillWatched ==
  ASSUME Base, Base', Watched,
         Asleep' \subseteq Asleep, Watching \subseteq Watching', queue' = queue,
         stop' => pc'[Owner] = "wakeall" \/ (\E p \in Producers : pc'[p] = "notify") \/ Asleep' = {}
  PROVE  Watched'
<1>1. Cardinality(Watching) <= Cardinality(Watching')
  BY WatchingFinite, FS_Subset
<1>2. PICK n \in Nat : n = Len(queue)
  BY DEF Base, TypeOK
<1> QED BY <1>1, <1>2, WatchingFinite DEF Watched

\* A new item comes with a thread that watches: the one that will notify, or the
\* one that was notified with the mutex held.
LEMMA PutWatched ==
  ASSUME Base, Base', Watched, NEW t \in Threads, PutItem(t)
  PROVE  Watched'
<1> USE RolesDisjoint DEF Base, TypeOK, Roles, Places, Threads, Goto
<1> SUFFICES ASSUME Asleep' # {}
             PROVE  /\ Len(queue') <= Cardinality(Watching')
                    /\ stop' => pc'[Owner] = "wakeall" \/ \E p \in Producers : pc'[p] = "notify"
  BY DEF Watched
<1>1. PICK n \in Nat : n = Len(queue)
  OBVIOUS
<1>2. Len(queue') = n + 1
  BY <1>1, AppendProperties DEF PutItem
<1>3. kind \in {"pool", "cv", "pc"}
  BY DEF Asleep, PutItem
<1>4. CASE kind \in {"pool", "cv"}
  <2>1. Asleep # {} /\ Asleep' = Asleep
    BY <1>4 DEF PutItem, Asleep
  <2>2. t \in Watching' /\ t \notin Watching /\ Watching \subseteq Watching'
    BY <1>4 DEF PutItem, Watching
  <2>3. Cardinality(Watching) + 1 <= Cardinality(Watching')
    BY <2>2, OneMore, WatchingFinite
  <2>4. stop' => pc'[Owner] = "wakeall" \/ \E p \in Producers : pc'[p] = "notify"
    BY <1>4, <2>1 DEF PutItem, Watched
  <2> QED BY <1>1, <1>2, <2>1, <2>3, <2>4, WatchingFinite DEF Watched
<1>5. CASE kind = "pc"
  <2>1. Asleep # {}
    BY <1>5 DEF PutItem, WakeOne, Asleep
  <2>2. PICK w \in Asleep : pc' = [pc EXCEPT ![t] = "idle", ![w] = "test"]
    BY <1>5, <2>1 DEF PutItem, WakeOne
  <2>3. w \in Watching' /\ w \notin Watching /\ Watching \subseteq Watching'
    BY <2>2 DEF PutItem, Watching, Asleep
  <2>4. Cardinality(Watching) + 1 <= Cardinality(Watching')
    BY <2>3, OneMore, WatchingFinite
  <2>5. ~stop'
    BY <1>5, <2>1 DEF PutItem, Watched
  <2> QED BY <1>1, <1>2, <2>1, <2>4, <2>5, WatchingFinite DEF Watched
<1> QED BY <1>3, <1>4, <1>5

\* The thread that notifies no longer watches, but the one it wakes does.
LEMMA NotifyWatched ==
  ASSUME Base, Base', Watched, NEW t \in Threads, NotifyOne(t)
  PROVE  Watched'
<1> USE RolesDisjoint DEF Base, TypeOK, Roles, Places, Threads, Goto
<1> SUFFICES ASSUME Asleep' # {}
             PROVE  /\ Len(queue') <= Cardinality(Watching')
                    /\ stop' => pc'[Owner] = "wakeall" \/ \E p \in Producers : pc'[p] = "notify"
  BY DEF Watched
<1>1. PICK n \in Nat : n = Len(queue)
  OBVIOUS
<1>2. Asleep # {}
  BY DEF NotifyOne, WakeOne, Asleep
<1>3. PICK w \in Asleep :
        pc' = [pc EXCEPT ![t] = IF t \in Workers THEN "run"
                                ELSE IF kind = "cv" /\ stop THEN "exited" ELSE "idle",
                         ![w] = "test"]
  BY <1>2 DEF NotifyOne, WakeOne
<1>4. /\ w \in Watching' /\ w \notin Watching \ {t} /\ Watching \ {t} \subseteq Watching'
      /\ t \in Watching /\ t # w
  BY <1>3 DEF NotifyOne, Watching, Asleep
<1>5. Cardinality(Watching) <= Cardinality(Watching')
  <2>1. IsFiniteSet(Watching \ {t}) /\ Cardinality(Watching \ {t}) = Cardinality(Watching) - 1
    BY <1>4, WatchingFinite, FS_RemoveElement
  <2>2. Cardinality(Watching \ {t}) + 1 <= Cardinality(Watching')
    BY <1>4, OneMore, WatchingFinite
  <2> QED BY <2>1, <2>2, WatchingFinite
<1>6. stop' => pc'[Owner] = "wakeall" \/ \E p \in Producers : pc'[p] = "notify"
  <2>1. CASE kind = "cv"
    BY <1>3, <2>1, OneEven DEF Asleep, Single
  <2>2. CASE kind # "cv"
    BY <1>2, <1>3, <2>2 DEF NotifyOne, Watched, Asleep
  <2> QED BY <2>1, <2>2
<1> QED BY <1>1, <1>2, <1>5, <1>6, WatchingFinite DEF NotifyOne, Watched

\* One item and one thread that watched are gone.
LEMMA TakeWatched ==
  ASSUME Base, Base', Watched, NEW w \in Workers, queue # <<>>, queue' = Tail(queue),
         Asleep' \subseteq Asleep, Watching \ {w} \subseteq Watching',
         stop' = stop, \A t \in Producers \cup {Owner} : pc'[t] = pc[t]
  PROVE  Watched'
<1>1. PICK n \in Nat : n = Len(queue)
  BY DEF Base, TypeOK
<1>2. n > 0 /\ Len(queue') = n - 1
  BY <1>1, HeadTailProperties DEF Base, TypeOK
<1>3. Cardinality(Watching) <= Cardinality(Watching') + 1
  BY OneLess, WatchingFinite
<1> QED BY <1>1, <1>2, <1>3, WatchingFinite DEF Watched

\* Nobody goes to sleep, or leaves, unless the queue is empty.
LEMMA EmptyWatched ==
  ASSUME Base, Base', Watched, queue' = <<>>,
         stop' => Asleep' = {} \/ pc'[Owner] = "wakeall" \/ \E p \in Producers : pc'[p] = "notify"
  PROVE  Watched'
<1>1. Len(queue') = 0
  OBVIOUS
<1> QED BY <1>1, WatchingFinite DEF Watched

LEMMA WorkerWatched ==
  ASSUME Base, Base', Watched, NEW w \in Workers,
         GetStep(w) \/ BeginGet(w) \/ PopOrFail(w) \/ PeekCall(w) \/ SpuriousWake(w)
  PROVE  Watched'
<1> USE RolesDisjoint DEF Base, TypeOK, Roles, Places, Threads, Goto, Pass
<1>1. CASE kind \in {"locked", "peek"}
  <2>1. kind' = kind
    BY DEF GetStep, Decide, Sleep, TakeTask, Finish, Consume, Leave, NextChecked, PopOrFail, Peek,
           Unlock, PopFront, Keep, Readd, BeginGet, PeekCall, NotEmpty, TakeNext, StopAtCancel,
           SpuriousWake, TakeHead, aside
  <2>2. Asleep' = {}
    BY <1>1, <2>1 DEF Asleep
  <2> QED BY <2>2 DEF Watched
<1>2. CASE TakeTask(w) \/ Consume(w)
  <2>1. /\ queue # <<>> /\ queue' = Tail(queue) /\ Asleep' \subseteq Asleep
        /\ Watching \ {w} \subseteq Watching'
        /\ stop' = stop /\ \A t \in Producers \cup {Owner} : pc'[t] = pc[t]
    BY <1>2 DEF TakeTask, Consume, TakeHead, Asleep, Watching
  <2> QED BY <2>1, TakeWatched
<1>3. CASE PopOrFail(w)
  <2>1. /\ Asleep' \subseteq Asleep /\ Watching \ {w} \subseteq Watching'
        /\ stop' = stop /\ \A t \in Producers \cup {Owner} : pc'[t] = pc[t]
        /\ kind = "pc"
    BY <1>3 DEF PopOrFail, TakeHead, Asleep, Watching, aside
  <2>2. CASE queue # <<>> /\ queue' = Tail(queue)
    BY <2>1, <2>2, TakeWatched
  <2>3. CASE queue' = queue /\ queue = <<>>
    BY <2>1, <2>3, EmptyWatched DEF Watched
  <2>4. CASE stop
    BY <2>1, <2>4 DEF Watched
  <2> QED BY <1>3, <2>2, <2>3, <2>4 DEF PopOrFail, TakeHead, aside
<1>4. CASE Decide(w) \/ Sleep(w)
  <2>1. queue' = <<>> /\ ~stop'
    BY <1>4 DEF Decide, Sleep, Mutex
  <2> QED BY <2>1, EmptyWatched
<1>5. CASE Leave(w)
  <2>1. queue' = <<>> /\ Asleep' = Asleep /\ \A t \in Producers \cup {Owner} : pc'[t] = pc[t]
    BY <1>5 DEF Leave, Asleep
  <2>2. stop' = stop
    BY <1>5 DEF Leave
  <2> QED BY <2>1, <2>2, EmptyWatched DEF Watched
<1>6. CASE BeginGet(w) \/ SpuriousWake(w) \/ Finish(w)
  <2>1. /\ queue' = queue /\ stop' = stop /\ Asleep' \subseteq Asleep /\ Watching \subseteq Watching'
        /\ \A t \in Producers \cup {Owner} : pc'[t] = pc[t]
    BY <1>6 DEF BeginGet, SpuriousWake, Finish, Asleep, Watching
  <2> QED BY <2>1, StillWatched DEF Watched
<1>7. GetStep(w) \/ BeginGet(w) \/ PopOrFail(w) \/ PeekCall(w) \/ SpuriousWake(w)
        => \/ kind \in {"locked", "peek"} \/ TakeTask(w) \/ Consume(w) \/ PopOrFail(w) \/ Decide(w)
           \/ Sleep(w) \/ Leave(w) \/ BeginGet(w) \/ SpuriousWake(w) \/ Finish(w)
  BY DEF GetStep, PeekCall, NextChecked, Peek, Unlock, PopFront, Keep, Readd, NotEmpty, TakeNext,
         StopAtCancel
<1> QED BY <1>1, <1>2, <1>3, <1>4, <1>5, <1>6, <1>7

LEMMA WatchedStep == Base /\ Base' /\ Watched /\ [Next]_vars => Watched'
<1> SUFFICES ASSUME Base, Base', Watched, [Next]_vars PROVE Watched'
  OBVIOUS
<1> USE RolesDisjoint DEF Base, TypeOK, Roles, Places, Threads, Goto, Pass
<1>1. CASE \E t \in Threads : PutStep(t)
  <2> PICK t \in Threads : PutStep(t)
    BY <1>1
  <2>1. CASE Refuse(t)
    <3>1. /\ queue' = queue /\ stop' = stop /\ Asleep' = Asleep /\ Watching \subseteq Watching'
          /\ kind = "pool" /\ pc'[Owner] = pc[Owner] /\ \A p \in Producers : pc[p] # "notify"
      BY <2>1 DEF Refuse, Asleep, Watching
    <3> QED BY <3>1, StillWatched DEF Watched
  <2> QED BY <2>1, PutWatched, NotifyWatched DEF PutStep
<1>2. CASE \E w \in Workers :
             GetStep(w) \/ BeginGet(w) \/ PopOrFail(w) \/ PeekCall(w) \/ SpuriousWake(w)
  BY <1>2, WorkerWatched
<1>3. CASE \E i \in Items : \/ \E p \in Producers : BeginPut(p, i)
                            \/ \E w \in Workers : kind = "pool" /\ BeginNested(w, i)
  <2>1. /\ queue' = queue /\ stop' = stop /\ Asleep' = Asleep /\ Watching \subseteq Watching'
        /\ pc'[Owner] = pc[Owner]
        /\ \A p \in Producers : pc[p] = "notify" => pc'[p] = "notify"
    BY <1>3 DEF BeginPut, BeginNested, Asleep, Watching
  <2> QED BY <2>1, StillWatched DEF Watched
<1>4. CASE \/ \E p \in Producers : SetDone(p)
           \/ SetStop
  <2>1. /\ queue' = queue /\ Asleep' = Asleep /\ Watching \subseteq Watching'
        /\ pc'[Owner] = "wakeall" \/ \E p \in Producers : pc'[p] = "notify"
    BY <1>4 DEF SetDone, SetStop, SetStopUnlocked, Asleep, Watching
  <2> QED BY <2>1, StillWatched
<1>5. CASE NotifyAll \/ Cancel
  <2>1. Asleep' = {}
    BY <1>5 DEF NotifyAll, Cancel, WakeAll, Asleep
  <2> QED BY <2>1 DEF Watched
<1>6. CASE Join
  <2>1. Asleep' = {}
    BY <1>6 DEF Join, Asleep
  <2> QED BY <2>1 DEF Watched
<1>7. CASE CancelLocked
  BY <1>7 DEF CancelLocked, Watched, Asleep
<1>8. CASE UNCHANGED vars
  BY <1>8 DEF vars, Watched, Watching, Asleep
<1> QED BY <1>1, <1>2, <1>3, <1>4, <1>5, <1>6, <1>7, <1>8 DEF Next, OwnerStep

\* While a worker sleeps there is a thread for every queued item that will look
\* at the queue or wake somebody, and no stop that it is not told of: no
\* notification of tp.cpp, ProducerConsumerQueue.h or condition_variable.cpp is
\* lost, for any number of workers and callers.
THEOREM NoLostWakeup == Spec => []NoSleeperBesideWork
<1>1. Init => Watched
  BY RolesDisjoint DEF Init, Watched, Asleep, Threads
<1>2. Spec => []Watched
  BY <1>1, WatchedStep, Bases, PTL DEF Spec
<1>3. Base /\ Watched => NoSleeperBesideWork
  BY DEF Base, Watched, Watching, NoSleeperBesideWork
<1> QED BY <1>2, <1>3, Bases, PTL

-----------------------------------------------------------------------------
(* The items: Hands and Outcomes are invariant. *)

\* What a step that leaves the items alone may do.
LEMMA KeepsItems ==
  ASSUME Accounted, UNCHANGED <<kind, queue, fate, item, late>>,
         kind = "pc" \/ stop => stop' = stop,
         \A t \in Threads : pc'[t] = "put" <=> pc[t] = "put",
         \A w \in Workers : /\ Runs(w)' <=> Runs(w)
                            /\ Runs(w) => task'[w] = task[w]
                            /\ pc'[w] = "taken" => pc[w] = "taken" /\ task'[w] = task[w]
  PROVE  Accounted'
<1>1. Hands'
  BY DEF Accounted, Hands, InQueue
<1>2. Outcomes'
  BY DEF Accounted, Outcomes, Process
<1> QED BY <1>1, <1>2 DEF Accounted

\* push_back and pop_front, by what is in the queue
LEMMA PushedBack ==
  ASSUME TypeOK, Hands, NEW j \in Items, ~InQueue(j), queue' = Append(queue, j)
  PROVE  /\ \A i \in Items : InQueue(i)' <=> InQueue(i) \/ i = j
         /\ \A k, l \in 1 .. Len(queue') : queue'[k] = queue'[l] => k = l
<1>1. PICK n \in Nat : n = Len(queue)
  BY DEF TypeOK
<1>2. /\ Len(queue') = n + 1 /\ queue'[n + 1] = j
      /\ \A k \in 1 .. n : queue'[k] = queue[k]
  BY <1>1, AppendProperties DEF TypeOK
<1>3. \A k \in 1 .. n : queue[k] # j
  BY <1>1 DEF InQueue
<1>4. \A k \in 1 .. n + 1 : k \in 1 .. n \/ k = n + 1
  OBVIOUS
<1>5. \A k, l \in 1 .. n : queue[k] = queue[l] => k = l
  BY <1>1 DEF Hands
<1>6. ASSUME NEW k \in 1 .. n + 1, NEW l \in 1 .. n + 1, queue'[k] = queue'[l]
      PROVE  k = l
  BY <1>2, <1>3, <1>4, <1>5, <1>6
<1>7. ASSUME NEW i \in Items
      PROVE  InQueue(i)' <=> InQueue(i) \/ i = j
  <2>1. n + 1 \in 1 .. n + 1 /\ \A k \in 1 .. n : k \in 1 .. n + 1
    OBVIOUS
  <2> QED BY <1>1, <1>2, <1>4, <2>1 DEF InQueue
<1> QED BY <1>2, <1>6, <1>7

LEMMA PoppedFront ==
  ASSUME TypeOK, Hands, queue # <<>>, queue' = Tail(queue)
  PROVE  /\ Head(queue) \in Items /\ InQueue(Head(queue)) /\ fate[Head(queue)] = "queued"
         /\ \A i \in Items : InQueue(i)' <=> InQueue(i) /\ i # Head(queue)
         /\ \A k, l \in 1 .. Len(queue') : queue'[k] = queue'[l] => k = l
<1>1. PICK n \in Nat : n = Len(queue)
  BY DEF TypeOK
<1>2. /\ n > 0 /\ Len(queue') = n - 1 /\ Head(queue) = queue[1] /\ queue[1] \in Items
      /\ \A k \in 1 .. n - 1 : queue'[k] = queue[k + 1]
  BY <1>1, HeadTailProperties DEF TypeOK
<1>3. 1 \in 1 .. n /\ \A k \in 1 .. n - 1 : k + 1 \in 1 .. n /\ k + 1 # 1
  BY <1>2
<1>4. \A k, l \in 1 .. n : queue[k] = queue[l] => k = l
  BY <1>1 DEF Hands
<1>5. InQueue(queue[1]) /\ fate[queue[1]] = "queued"
  BY <1>1, <1>2, <1>3 DEF InQueue, Hands
<1>6. ASSUME NEW k \in 1 .. n - 1, NEW l \in 1 .. n - 1, queue'[k] = queue'[l]
      PROVE  k = l
  <2>1. k + 1 = l + 1
    BY <1>2, <1>3, <1>4, <1>6
  <2> QED BY <2>1
<1>7. ASSUME NEW i \in Items
      PROVE  InQueue(i)' <=> InQueue(i) /\ i # queue[1]
  <2>1. ASSUME NEW k \in 1 .. n - 1, queue'[k] = i
        PROVE  InQueue(i) /\ i # queue[1]
    BY <1>1, <1>2, <1>3, <1>4, <2>1 DEF InQueue
  <2>2. ASSUME NEW k \in 1 .. n, queue[k] = i, i # queue[1]
        PROVE  \E l \in 1 .. n - 1 : queue'[l] = i
    <3>1. k # 1
      BY <2>2
    <3>2. k - 1 \in 1 .. n - 1 /\ (k - 1) + 1 = k
      BY <1>2, <3>1
    <3>3. queue'[k - 1] = i
      BY <1>2, <2>2, <3>2
    <3> QED BY <3>2, <3>3
  <2> QED BY <1>1, <1>2, <2>1, <2>2 DEF InQueue
<1> QED BY <1>2, <1>5, <1>6, <1>7

\* An item is offered, queued or refused, by whoever has it.
LEMMA OfferItems ==
  ASSUME Base, Accounted, NEW t \in Threads, NEW i \in Items,
         \/ t \in Producers /\ BeginPut(t, i)
         \/ t \in Workers /\ kind = "pool" /\ BeginNested(t, i)
  PROVE  Accounted'
<1> USE RolesDisjoint, FatesDistinct DEF Base, TypeOK, Accounted, Threads, Goto, aside
<1>1. /\ fate[i] = "new" /\ fate' = [fate EXCEPT ![i] = "offered"]
      /\ item' = [item EXCEPT ![t] = i] /\ pc' = [pc EXCEPT ![t] = "put"]
      /\ pc[t] # "put"
      /\ UNCHANGED <<kind, queue, stop, late, task>>
  BY DEF BeginPut, BeginNested
<1>2. \A w \in Workers : (Runs(w)' <=> Runs(w)) /\ (pc'[w] = "taken" => pc[w] = "taken")
  BY <1>1 DEF Runs, Roles, Places, BeginPut, BeginNested
<1>3. Hands'
  <2>1. \A j \in Items : InQueue(j)' <=> InQueue(j)
    BY <1>1 DEF InQueue
  <2>2. \A j \in Items : fate'[j] = IF j = i THEN "offered" ELSE fate[j]
    BY <1>1
  <2>3. \A u \in Threads : /\ pc'[u] = "put" <=> pc[u] = "put" \/ u = t
                           /\ item'[u] = IF u = t THEN i ELSE item[u]
    BY <1>1
  <2>4. \A u \in Threads : pc[u] = "put" => item[u] \in Items /\ item[u] # i
    BY <1>1 DEF Hands, Roles
  <2>5. ASSUME NEW j \in Items
        PROVE  /\ fate'[j] = "queued" <=> InQueue(j)'
               /\ fate'[j] = "offered" => \E u \in Threads : pc'[u] = "put" /\ item'[u] = j
               /\ fate'[j] = "running" => \E w \in Workers : Runs(w)' /\ task'[w] = j
    BY <1>1, <1>2, <2>1, <2>2, <2>3, <2>4 DEF Hands
  <2>6. ASSUME NEW u \in Threads, pc'[u] = "put"
        PROVE  /\ fate'[item'[u]] = "offered"
               /\ \A v \in Threads : pc'[v] = "put" /\ item'[v] = item'[u] => u = v
    BY <1>1, <2>2, <2>3, <2>4, <2>6 DEF Hands
  <2>7. ASSUME NEW w \in Workers, Runs(w)'
        PROVE  /\ task'[w] \in Items /\ fate'[task'[w]] = "running"
               /\ \A v \in Workers : Runs(v)' /\ task'[v] = task'[w] => v = w
    BY <1>1, <1>2, <2>2, <2>7 DEF Hands
  <2>8. ASSUME NEW w \in Workers, pc'[w] = "taken"
        PROVE  fate'[task'[w]] = w
    BY <1>1, <1>2, <2>2, <2>8 DEF Hands, Roles, Fates
  <2>9. \A k, l \in 1 .. Len(queue') : queue'[k] = queue'[l] => k = l
    BY <1>1 DEF Hands
  <2> HIDE DEF Base, TypeOK, Accounted
  <2> QED BY <2>5, <2>6, <2>7, <2>8, <2>9 DEF Hands
<1>4. Outcomes'
  BY <1>1 DEF Outcomes, Process, Fates
<1> QED BY <1>3, <1>4

LEMMA PutItems ==
  ASSUME Base, Accounted, NEW t \in Threads, PutItem(t)
  PROVE  Accounted'
<1> USE RolesDisjoint, FatesDistinct DEF Accounted
<1> DEFINE i == item[t]
<1>1. /\ i \in Items /\ pc[t] = "put" /\ fate[i] = "offered" /\ ~InQueue(i)
      /\ queue' = Append(queue, i) /\ fate' = [fate EXCEPT ![i] = "queued"]
      /\ late' = IF stop THEN late \cup {i} ELSE late
      /\ UNCHANGED <<kind, stop, task, item>>
  BY DEF Base, Roles, Hands, PutItem, Goto
<1>2. /\ \A j \in Items : InQueue(j)' <=> InQueue(j) \/ j = i
      /\ \A k, l \in 1 .. Len(queue') : queue'[k] = queue'[l] => k = l
  BY <1>1, PushedBack DEF Base
<1>3. \A j \in Items : fate'[j] = IF j = i THEN "queued" ELSE fate[j]
  BY <1>1 DEF Base, TypeOK
<1>4. /\ \A u \in Threads : pc'[u] = "put" => pc[u] = "put" /\ u # t
      /\ \A u \in Threads : u # t /\ pc[u] = "put" => pc'[u] = "put"
      /\ \A w \in Workers : /\ Runs(w)' <=> Runs(w)
                            /\ pc'[w] = "taken" => pc[w] = "taken"
  BY <1>1 DEF Base, TypeOK, Roles, Places, Threads, PutItem, Goto, WakeOne, Asleep, Runs
<1>5. Hands'
  <2>1. ASSUME NEW j \in Items
        PROVE  /\ fate'[j] = "queued" <=> InQueue(j)'
               /\ fate'[j] = "offered" => \E u \in Threads : pc'[u] = "put" /\ item'[u] = j
               /\ fate'[j] = "running" => \E w \in Workers : Runs(w)' /\ task'[w] = j
    BY <1>1, <1>2, <1>3, <1>4 DEF Hands
  <2>2. ASSUME NEW u \in Threads, pc'[u] = "put"
        PROVE  /\ fate'[item'[u]] = "offered"
               /\ \A v \in Threads : pc'[v] = "put" /\ item'[v] = item'[u] => u = v
    <3>1. item[u] \in Items /\ item[u] # i
      BY <1>1, <1>4, <2>2 DEF Hands, Base, Roles
    <3> QED BY <1>1, <1>3, <1>4, <2>2, <3>1 DEF Hands
  <2>3. ASSUME NEW w \in Workers, Runs(w)'
        PROVE  /\ task'[w] \in Items /\ fate'[task'[w]] = "running"
               /\ \A v \in Workers : Runs(v)' /\ task'[v] = task'[w] => v = w
    BY <1>1, <1>3, <1>4, <2>3 DEF Hands
  <2>4. ASSUME NEW w \in Workers, pc'[w] = "taken"
        PROVE  fate'[task'[w]] = w
    BY <1>1, <1>3, <1>4, <2>4 DEF Hands, Base, Roles, Fates
  <2> HIDE DEF i
  <2> QED BY <1>2, <2>1, <2>2, <2>3, <2>4 DEF Hands
<1>6. Outcomes'
  BY <1>1, <1>3 DEF Outcomes, Process, Fates
<1> QED BY <1>5, <1>6

\* A call of a pool that was stopped ends the task that makes it.
LEMMA RefuseItems ==
  ASSUME Base, Accounted, NEW t \in Threads, Refuse(t)
  PROVE  Accounted'
<1> USE RolesDisjoint, FatesDistinct DEF Accounted
<1> DEFINE i == item[t]
<1>1. /\ i \in Items /\ pc[t] = "put" /\ fate[i] = "offered" /\ kind = "pool" /\ stop
      /\ UNCHANGED <<kind, stop, task, item, queue, late>>
      /\ pc' = [pc EXCEPT ![t] = IF t \in Workers THEN "test" ELSE "idle"]
  BY DEF Base, Roles, Hands, Refuse, Goto, aside
<1>2. t \in Workers => Runs(t) /\ task[t] \in Items /\ fate[task[t]] = "running" /\ task[t] # i
  BY <1>1 DEF Runs, Hands
<1>3. \A j \in Items : fate'[j] = IF j = i THEN "refused"
                                  ELSE IF t \in Workers /\ j = task[t] THEN "error" ELSE fate[j]
  BY DEF Refuse
<1>4. /\ \A u \in Threads : pc'[u] = "put" <=> pc[u] = "put" /\ u # t
      /\ \A w \in Workers : /\ Runs(w)' <=> Runs(w) /\ w # t
                            /\ pc'[w] # "taken"
  BY <1>1 DEF Base, TypeOK, Roles, Places, Threads, Runs
<1>5. Hands'
  <2>1. ASSUME NEW j \in Items
        PROVE  /\ fate'[j] = "queued" <=> InQueue(j)'
               /\ fate'[j] = "offered" => \E u \in Threads : pc'[u] = "put" /\ item'[u] = j
               /\ fate'[j] = "running" => \E w \in Workers : Runs(w)' /\ task'[w] = j
    <3>1. InQueue(j)' <=> InQueue(j)
      BY <1>1 DEF InQueue
    <3>2. fate'[j] = "queued" <=> InQueue(j)'
      BY <1>1, <1>2, <1>3, <3>1 DEF Hands
    <3>3. ASSUME fate'[j] = "offered"
          PROVE  \E u \in Threads : pc'[u] = "put" /\ item'[u] = j
      <4>1. fate[j] = "offered" /\ j # i
        BY <1>3, <3>3
      <4> QED BY <1>1, <1>4, <4>1 DEF Hands
    <3>4. ASSUME fate'[j] = "running"
          PROVE  \E w \in Workers : Runs(w)' /\ task'[w] = j
      <4>1. fate[j] = "running" /\ j # i /\ (t \in Workers => j # task[t])
        BY <1>3, <3>4
      <4> QED BY <1>1, <1>4, <4>1 DEF Hands
    <3> QED BY <3>2, <3>3, <3>4
  <2>2. ASSUME NEW u \in Threads, pc'[u] = "put"
        PROVE  /\ fate'[item'[u]] = "offered"
               /\ \A v \in Threads : pc'[v] = "put" /\ item'[v] = item'[u] => u = v
    <3>1. item[u] \in Items /\ item[u] # i /\ fate[item[u]] = "offered"
      BY <1>1, <1>4, <2>2 DEF Hands, Base, Roles
    <3> QED BY <1>1, <1>2, <1>3, <1>4, <2>2, <3>1 DEF Hands
  <2>3. ASSUME NEW w \in Workers, Runs(w)'
        PROVE  /\ task'[w] \in Items /\ fate'[task'[w]] = "running"
               /\ \A v \in Workers : Runs(v)' /\ task'[v] = task'[w] => v = w
    BY <1>1, <1>2, <1>3, <1>4, <2>3 DEF Hands
  <2>4. \A k, l \in 1 .. Len(queue') : queue'[k] = queue'[l] => k = l
    BY <1>1 DEF Hands
  <2> HIDE DEF i
  <2> QED BY <1>4, <2>1, <2>2, <2>3, <2>4 DEF Hands
<1>6. Outcomes'
  <2>1. \A j \in Items : fate'[j] \notin Workers \cup {"deleted"}
    BY <1>1, <1>3 DEF Outcomes, Fates
  <2> QED BY <1>1, <2>1 DEF Outcomes
<1> QED BY <1>5, <1>6

\* The future of a task becomes ready.
LEMMA FinishItems ==
  ASSUME Base, Accounted, NEW w \in Workers, Finish(w)
  PROVE  Accounted'
<1> USE RolesDisjoint, FatesDistinct DEF Accounted
<1>1. /\ Runs(w) /\ task[w] \in Items /\ fate[task[w]] = "running" /\ kind = "pool"
      /\ UNCHANGED <<kind, stop, task, item, queue, late>>
      /\ pc' = [pc EXCEPT ![w] = "test"] /\ pc[w] = "run"
  BY DEF Base, Roles, Places, Hands, Finish, Goto, aside, Runs
<1>2. \A j \in Items : fate'[j] = IF j = task[w] THEN "done" ELSE fate[j]
  BY <1>1 DEF Finish, Base, TypeOK
<1>3. /\ \A u \in Threads : pc'[u] = "put" <=> pc[u] = "put"
      /\ \A v \in Workers : /\ Runs(v)' <=> Runs(v) /\ v # w
                            /\ pc'[v] # "taken"
  BY <1>1 DEF Base, TypeOK, Roles, Places, Threads, Runs
<1>4. Hands'
  <2>1. ASSUME NEW j \in Items
        PROVE  /\ fate'[j] = "queued" <=> InQueue(j)'
               /\ fate'[j] = "offered" => \E u \in Threads : pc'[u] = "put" /\ item'[u] = j
               /\ fate'[j] = "running" => \E v \in Workers : Runs(v)' /\ task'[v] = j
    <3>1. InQueue(j)' <=> InQueue(j)
      BY <1>1 DEF InQueue
    <3> QED BY <1>1, <1>2, <1>3, <3>1 DEF Hands
  <2>2. ASSUME NEW u \in Threads, pc'[u] = "put"
        PROVE  /\ fate'[item'[u]] = "offered"
               /\ \A v \in Threads : pc'[v] = "put" /\ item'[v] = item'[u] => u = v
    <3>1. item[u] \in Items /\ fate[item[u]] = "offered"
      BY <1>3, <2>2 DEF Hands, Base, Roles
    <3> QED BY <1>1, <1>2, <1>3, <2>2, <3>1 DEF Hands
  <2>3. ASSUME NEW v \in Workers, Runs(v)'
        PROVE  /\ task'[v] \in Items /\ fate'[task'[v]] = "running"
               /\ \A u \in Workers : Runs(u)' /\ task'[u] = task'[v] => u = v
    BY <1>1, <1>2, <1>3, <2>3 DEF Hands
  <2>4. \A k, l \in 1 .. Len(queue') : queue'[k] = queue'[l] => k = l
    BY <1>1 DEF Hands
  <2> QED BY <1>3, <2>1, <2>2, <2>3, <2>4 DEF Hands
<1>5. Outcomes'
  <2>1. \A j \in Items : fate'[j] \notin Workers \cup {"deleted"}
    BY <1>1, <1>2 DEF Outcomes, Fates
  <2> QED BY <1>1, <2>1 DEF Outcomes
<1> QED BY <1>4, <1>5

\* A worker of the pool takes the oldest task.
LEMMA TakeTaskItems ==
  ASSUME Base, Accounted, NEW w \in Workers, TakeTask(w)
  PROVE  Accounted'
<1> USE RolesDisjoint, FatesDistinct DEF Accounted
<1> DEFINE i == Head(queue)
<1>1. /\ i \in Items /\ fate[i] = "queued" /\ InQueue(i) /\ kind = "pool"
      /\ \A j \in Items : InQueue(j)' <=> InQueue(j) /\ j # i
      /\ \A k, l \in 1 .. Len(queue') : queue'[k] = queue'[l] => k = l
      /\ UNCHANGED <<kind, stop, item, late>>
      /\ task' = [task EXCEPT ![w] = i] /\ fate' = [fate EXCEPT ![i] = "running"]
      /\ pc' = [pc EXCEPT ![w] = "run"] /\ pc[w] = "test"
  BY PoppedFront DEF Base, TakeTask, TakeHead, Goto, aside
<1> HIDE DEF i
<1>2. \A j \in Items : fate'[j] = IF j = i THEN "running" ELSE fate[j]
  BY <1>1 DEF Base, TypeOK
<1>3. /\ \A u \in Threads : pc'[u] = "put" <=> pc[u] = "put"
      /\ \A v \in Workers : /\ Runs(v)' <=> Runs(v) \/ v = w
                            /\ task'[v] = IF v = w THEN i ELSE task[v]
                            /\ pc'[v] # "taken"
      /\ ~Runs(w)
  BY <1>1 DEF Base, TypeOK, Roles, Places, Threads, Runs
<1>4. \A v \in Workers : Runs(v) => task[v] \in Items /\ task[v] # i /\ fate[task[v]] = "running"
  BY <1>1 DEF Hands
<1>5. Hands'
  <2>1. ASSUME NEW j \in Items
        PROVE  /\ fate'[j] = "queued" <=> InQueue(j)'
               /\ fate'[j] = "offered" => \E u \in Threads : pc'[u] = "put" /\ item'[u] = j
               /\ fate'[j] = "running" => \E v \in Workers : Runs(v)' /\ task'[v] = j
    BY <1>1, <1>2, <1>3 DEF Hands
  <2>2. ASSUME NEW u \in Threads, pc'[u] = "put"
        PROVE  /\ fate'[item'[u]] = "offered"
               /\ \A v \in Threads : pc'[v] = "put" /\ item'[v] = item'[u] => u = v
    <3>1. item[u] \in Items /\ fate[item[u]] = "offered"
      BY <1>3, <2>2 DEF Hands, Base, Roles
    <3> QED BY <1>1, <1>2, <1>3, <2>2, <3>1 DEF Hands
  <2>3. ASSUME NEW v \in Workers, Runs(v)'
        PROVE  /\ task'[v] \in Items /\ fate'[task'[v]] = "running"
               /\ \A u \in Workers : Runs(u)' /\ task'[u] = task'[v] => u = v
    BY <1>1, <1>2, <1>3, <1>4, <2>3 DEF Hands
  <2> QED BY <1>1, <1>3, <2>1, <2>2, <2>3 DEF Hands
<1>6. Outcomes'
  <2>1. \A j \in Items : fate'[j] \notin Workers \cup {"deleted"}
    BY <1>1, <1>2 DEF Outcomes, Fates
  <2> QED BY <1>1, <2>1 DEF Outcomes
<1> QED BY <1>5, <1>6

\* A consumer of the other classes gets the oldest item.
LEMMA GetItems ==
  ASSUME Base, Accounted, NEW w \in Workers, TakeHead(w), kind # "pool",
         kind = "pc" => ~stop, kind = "locked" => Process(w, Head(queue)),
         \A u \in Threads : pc'[u] = "put" <=> pc[u] = "put",
         \A v \in Workers : pc'[v] = "taken" =>
           \/ pc[v] = "taken" /\ task'[v] = task[v]
           \/ v = w /\ task'[v] = Head(queue)
  PROVE  Accounted'
<1> USE RolesDisjoint, FatesDistinct DEF Accounted
<1> DEFINE i == Head(queue)
<1>1. /\ i \in Items /\ fate[i] = "queued" /\ InQueue(i)
      /\ \A j \in Items : InQueue(j)' <=> InQueue(j) /\ j # i
      /\ \A k, l \in 1 .. Len(queue') : queue'[k] = queue'[l] => k = l
      /\ UNCHANGED <<kind, stop, item, late>>
      /\ fate' = [fate EXCEPT ![i] = w]
  BY PoppedFront DEF Base, TakeHead, aside
<1>2. kind = "locked" => Process(w, i)
  OBVIOUS
<1>3. \A v \in Workers : pc'[v] = "taken" =>
        (pc[v] = "taken" /\ task'[v] = task[v]) \/ (v = w /\ task'[v] = i)
  OBVIOUS
<1> HIDE DEF i
<1>4. \A j \in Items : fate'[j] = IF j = i THEN w ELSE fate[j]
  BY <1>1 DEF Base, TypeOK
<1>5. \A v \in Workers : ~Runs(v) /\ ~Runs(v)'
  BY <1>1 DEF Runs
<1>6. Hands'
  <2>1. ASSUME NEW j \in Items
        PROVE  /\ fate'[j] = "queued" <=> InQueue(j)'
               /\ fate'[j] = "offered" => \E u \in Threads : pc'[u] = "put" /\ item'[u] = j
               /\ fate'[j] = "running" => \E v \in Workers : Runs(v)' /\ task'[v] = j
    BY <1>1, <1>4, <1>5 DEF Hands, Fates
  <2>2. ASSUME NEW u \in Threads, pc'[u] = "put"
        PROVE  /\ fate'[item'[u]] = "offered"
               /\ \A v \in Threads : pc'[v] = "put" /\ item'[v] = item'[u] => u = v
    <3>1. item[u] \in Items /\ fate[item[u]] = "offered"
      BY <2>2 DEF Hands, Base, Roles
    <3> QED BY <1>1, <1>4, <2>2, <3>1 DEF Hands
  <2>3. ASSUME NEW v \in Workers, pc'[v] = "taken"
        PROVE  fate'[task'[v]] = v
    <3>1. CASE pc[v] = "taken" /\ task'[v] = task[v]
      <4>1. task[v] \in Items /\ fate[task[v]] = v
        BY <3>1 DEF Hands, Base, Roles
      <4> QED BY <1>1, <1>4, <3>1, <4>1 DEF Fates
    <3>2. CASE v = w /\ task'[v] = i
      BY <1>1, <1>4, <3>2
    <3> QED BY <1>3, <2>3, <3>1, <3>2
  <2> QED BY <1>1, <1>5, <2>1, <2>2, <2>3 DEF Hands
<1>7. Outcomes'
  <2>1. kind = "locked" => \A j \in Items, v \in Workers : fate'[j] = v => Process(v, j)
    BY <1>1, <1>2, <1>4 DEF Outcomes
  <2> QED BY <1>1, <2>1 DEF Outcomes, Process
<1> QED BY <1>6, <1>7

\* What next returned goes back to the front of the queue.
LEMMA ReaddItems ==
  ASSUME Base, Accounted, NEW w \in Workers, Readd(w)
  PROVE  Accounted'
<1> USE RolesDisjoint, FatesDistinct DEF Accounted
<1> DEFINE i == task[w]
<1>1. /\ i \in Items /\ fate[i] = w /\ ~InQueue(i) /\ kind = "peek"
      /\ UNCHANGED <<kind, stop, item, task, late>>
      /\ fate' = [fate EXCEPT ![i] = "queued"] /\ queue' = <<i>> \o queue
      /\ pc' = [pc EXCEPT ![w] = "test"] /\ pc[w] = "taken"
  <2>1. /\ UNCHANGED <<kind, stop, item, task, late>>
        /\ fate' = [fate EXCEPT ![i] = "queued"] /\ queue' = <<i>> \o queue
        /\ pc' = [pc EXCEPT ![w] = "test"] /\ pc[w] = "taken"
    BY DEF Readd, Goto, aside
  <2>2. i \in Items /\ fate[i] = w /\ kind = "peek"
    BY <2>1 DEF Base, Roles, Places, Hands
  <2>3. fate[i] # "queued"
    BY <2>2 DEF Fates
  <2>4. ~InQueue(i)
    BY <2>2, <2>3 DEF Hands
  <2> QED BY <2>1, <2>2, <2>4
<1>2. PICK n \in Nat : n = Len(queue)
  BY DEF Base, TypeOK
<1>3. /\ Len(queue') = n + 1 /\ queue'[1] = i
      /\ \A k \in 1 .. n : queue'[k + 1] = queue[k]
  <2>1. /\ queue \in Seq(Items) /\ <<i>> \in Seq(Items) /\ Len(<<i>>) = 1 /\ <<i>>[1] = i
    BY <1>1 DEF Base, TypeOK
  <2>2. /\ Len(<<i>> \o queue) = 1 + n
        /\ \A k \in 1 .. 1 + n : (<<i>> \o queue)[k] = IF k <= 1 THEN <<i>>[k] ELSE queue[k - 1]
    BY <1>2, <2>1, ConcatProperties
  <2>3. 1 \in 1 .. 1 + n /\ \A k \in 1 .. n : k + 1 \in 1 .. 1 + n /\ ~(k + 1 <= 1) /\ (k + 1) - 1 = k
    OBVIOUS
  <2> HIDE DEF i
  <2> QED BY <1>1, <2>1, <2>2, <2>3
<1> HIDE DEF i
<1>4. \A k \in 1 .. n + 1 : k = 1 \/ (k - 1 \in 1 .. n /\ (k - 1) + 1 = k)
  OBVIOUS
<1>5. \A k \in 1 .. n : queue[k] # i
  BY <1>1, <1>2 DEF InQueue
<1>6. \A k, l \in 1 .. Len(queue') : queue'[k] = queue'[l] => k = l
  <2>1. ASSUME NEW k \in 1 .. n + 1, NEW l \in 1 .. n + 1, queue'[k] = queue'[l]
        PROVE  k = l
    <3>1. CASE k = 1 \/ l = 1
      <4>1. ASSUME NEW m \in 1 .. n + 1, m # 1 PROVE queue'[m] # i
        <5>1. m - 1 \in 1 .. n /\ queue'[(m - 1) + 1] = queue[m - 1] /\ (m - 1) + 1 = m
          BY <1>3, <1>4, <4>1
        <5> QED BY <1>5, <5>1
      <4> QED BY <1>3, <2>1, <3>1, <4>1
    <3>2. CASE k - 1 \in 1 .. n /\ l - 1 \in 1 .. n
      <4>1. queue[k - 1] = queue[l - 1]
        BY <1>3, <1>4, <2>1, <3>2
      <4>2. k - 1 = l - 1
        BY <1>2, <3>2, <4>1 DEF Hands
      <4> QED BY <4>2
    <3> QED BY <1>4, <3>1, <3>2
  <2> QED BY <1>3, <2>1
<1>7. ASSUME NEW j \in Items
      PROVE  InQueue(j)' <=> InQueue(j) \/ j = i
  <2>1. ASSUME NEW k \in 1 .. n + 1, queue'[k] = j
        PROVE  InQueue(j) \/ j = i
    BY <1>2, <1>3, <1>4, <2>1 DEF InQueue
  <2>2. ASSUME NEW k \in 1 .. n, queue[k] = j
        PROVE  \E l \in 1 .. n + 1 : queue'[l] = j
    <3>1. k + 1 \in 1 .. n + 1
      OBVIOUS
    <3> QED BY <1>3, <2>2, <3>1
  <2>3. 1 \in 1 .. n + 1
    OBVIOUS
  <2> QED BY <1>2, <1>3, <2>1, <2>2, <2>3 DEF InQueue
<1>8. \A j \in Items : fate'[j] = IF j = i THEN "queued" ELSE fate[j]
  BY <1>1 DEF Base, TypeOK
<1>9. /\ \A u \in Threads : pc'[u] = "put" <=> pc[u] = "put"
      /\ \A v \in Workers : /\ ~Runs(v) /\ ~Runs(v)'
                            /\ pc'[v] = "taken" => pc[v] = "taken" /\ v # w
  BY <1>1 DEF Base, TypeOK, Threads, Runs
<1>10. Hands'
  <2>1. ASSUME NEW j \in Items
        PROVE  /\ fate'[j] = "queued" <=> InQueue(j)'
               /\ fate'[j] = "offered" => \E u \in Threads : pc'[u] = "put" /\ item'[u] = j
               /\ fate'[j] = "running" => \E v \in Workers : Runs(v)' /\ task'[v] = j
    BY <1>1, <1>7, <1>8, <1>9 DEF Hands
  <2>2. ASSUME NEW u \in Threads, pc'[u] = "put"
        PROVE  /\ fate'[item'[u]] = "offered"
               /\ \A v \in Threads : pc'[v] = "put" /\ item'[v] = item'[u] => u = v
    <3>1. item[u] \in Items /\ fate[item[u]] = "offered"
      BY <1>9, <2>2 DEF Hands, Base, Roles
    <3> QED BY <1>1, <1>8, <1>9, <2>2, <3>1 DEF Hands, Fates
  <2>3. ASSUME NEW v \in Workers, pc'[v] = "taken"
        PROVE  fate'[task'[v]] = v
    <3>1. task[v] \in Items /\ fate[task[v]] = v /\ v # w
      BY <1>9, <2>3 DEF Hands, Base, Roles
    <3> QED BY <1>1, <1>8, <3>1
  <2> QED BY <1>6, <1>9, <2>1, <2>2, <2>3 DEF Hands
<1>11. Outcomes'
  BY <1>1 DEF Outcomes
<1> QED BY <1>10, <1>11

\* Cancel deletes what is queued.
LEMMA CancelItems ==
  ASSUME Base, Accounted, Cancel
  PROVE  Accounted'
<1> USE RolesDisjoint, FatesDistinct DEF Accounted
<1>1. /\ kind = "pc" /\ ~stop /\ stop' /\ queue' = <<>>
      /\ UNCHANGED <<kind, item, task, late>>
      /\ late' = {}
  BY DEF Base, Roles, Cancel, aside, Outcomes
<1>2. \A j \in Items : /\ fate'[j] = IF fate[j] = "queued" THEN "deleted" ELSE fate[j]
                       /\ ~InQueue(j)'
  BY <1>1 DEF Cancel, InQueue
<1>3. /\ \A u \in Threads : pc'[u] = "put" <=> pc[u] = "put"
      /\ \A v \in Workers : ~Runs(v) /\ ~Runs(v)' /\ pc'[v] # "taken"
  BY <1>1 DEF Base, TypeOK, Roles, Places, Threads, Runs, Cancel, WakeAll, Asleep
<1>4. Hands'
  <2>1. ASSUME NEW u \in Threads, pc'[u] = "put"
        PROVE  /\ fate'[item'[u]] = "offered"
               /\ \A v \in Threads : pc'[v] = "put" /\ item'[v] = item'[u] => u = v
    <3>1. item[u] \in Items /\ fate[item[u]] = "offered"
      BY <1>3, <2>1 DEF Hands, Base, Roles
    <3> QED BY <1>1, <1>2, <1>3, <2>1, <3>1 DEF Hands
  <2> QED BY <1>1, <1>2, <1>3, <2>1 DEF Hands
<1>5. Outcomes'
  BY <1>1, <1>2 DEF Outcomes
<1> QED BY <1>4, <1>5

LEMMA WorkerItems ==
  ASSUME Base, Accounted, NEW w \in Workers,
         GetStep(w) \/ BeginGet(w) \/ PopOrFail(w) \/ PeekCall(w) \/ SpuriousWake(w)
  PROVE  Accounted'
<1> USE RolesDisjoint DEF Threads, Goto
<1>1. pc \in [Threads -> {"idle", "put", "notify", "test", "wait", "asleep", "run",
                          "exited", "wakeall", "join", "destroyed", "canceled",
                          "found", "peeked", "copied", "taken"}]
  BY DEF Base, TypeOK
<1>2. CASE Consume(w)
  <2>1. TakeHead(w) /\ kind = "cv" /\ pc' = [pc EXCEPT ![w] = "test"] /\ pc[w] = "test" /\ task' = task
    BY <1>2 DEF Consume
  <2> QED BY <1>1, <2>1, GetItems
<1>3. CASE PopOrFail(w)
  <2>1. CASE ~stop /\ TakeHead(w)
    <3>1. kind = "pc" /\ pc' = [pc EXCEPT ![w] = "idle"] /\ pc[w] \in {"idle", "test"} /\ task' = task
      BY <1>3, <2>1, LosesHead DEF PopOrFail, TakeHead, Pass, Base
    <3> QED BY <1>1, <2>1, <3>1, GetItems
  <2>2. CASE Pass(w, pc[w], "idle")
    <3>1. kind = "pc" /\ pc' = [pc EXCEPT ![w] = "idle"] /\ pc[w] \in {"idle", "test"}
      BY <1>3, <2>2 DEF PopOrFail, Pass
    <3> QED BY <1>1, <2>2, <3>1, KeepsItems DEF Pass, aside, Runs
  <2> QED BY <1>3, <2>1, <2>2 DEF PopOrFail
<1>4. CASE NextChecked(w)
  <2>1. CASE TakeHead(w) /\ Process(w, Head(queue))
    <3>1. kind = "locked" /\ pc' = [pc EXCEPT ![w] = "test"] /\ pc[w] = "test" /\ task' = task
      BY <1>4, <2>1, LosesHead DEF NextChecked, TakeHead, Pass, Base
    <3> QED BY <1>1, <2>1, <3>1, GetItems
  <2>2. CASE Pass(w, "test", "exited")
    <3>1. kind = "locked"
      BY <1>4 DEF NextChecked
    <3> QED BY <1>1, <2>2, <3>1, KeepsItems DEF Pass, aside, Runs
  <2> QED BY <1>4, <2>1, <2>2 DEF NextChecked
<1>5. CASE PopFront(w)
  <2>1. TakeHead(w) /\ pc' = [pc EXCEPT ![w] = "test"] /\ pc[w] = "copied" /\ task' = task
    BY <1>5 DEF PopFront
  <2>2. kind = "peek"
    BY <2>1 DEF Base, Roles, Places
  <2> QED BY <1>1, <2>1, <2>2, GetItems
<1>6. CASE TakeNext(w)
  <2>1. /\ TakeHead(w) /\ pc' = [pc EXCEPT ![w] = "taken"] /\ pc[w] = "test" /\ kind = "peek"
        /\ task' = [task EXCEPT ![w] = Head(queue)]
    BY <1>6 DEF TakeNext
  <2> QED BY <1>1, <2>1, GetItems DEF Base, TypeOK
<1>7. CASE Peek(w)
  <2>1. /\ UNCHANGED <<kind, late, queue, stop, fate, item>> /\ pc[w] = "found"
        /\ task' = [task EXCEPT ![w] = Head(queue)]
        /\ \E to \in {"peeked", "copied"} : pc' = [pc EXCEPT ![w] = to]
    BY <1>7 DEF Peek, aside
  <2>2. kind = "peek"
    BY <2>1 DEF Base, Roles, Places
  <2> QED BY <1>1, <2>1, <2>2, KeepsItems DEF Runs, Base, TypeOK
<1>8. CASE \/ BeginGet(w) \/ Decide(w) \/ Sleep(w) \/ SpuriousWake(w) \/ Leave(w) \/ NotEmpty(w)
           \/ Unlock(w) \/ Keep(w) \/ StopAtCancel(w)
  <2>1. /\ UNCHANGED <<kind, late, queue, stop, fate, item, task>>
        /\ \E from \in {"idle", "test", "wait", "asleep", "peeked", "taken"},
              to \in {"test", "wait", "asleep", "exited", "found", "copied"} :
             pc[w] = from /\ pc' = [pc EXCEPT ![w] = to]
    BY <1>8
    DEF BeginGet, Decide, Sleep, SpuriousWake, Leave, NotEmpty, Unlock, Keep, StopAtCancel, Pass,
        aside
  <2> QED BY <1>1, <2>1, KeepsItems DEF Runs
<1> QED BY <1>2, <1>3, <1>4, <1>5, <1>6, <1>7, <1>8, TakeTaskItems, FinishItems, ReaddItems
     DEF GetStep, PeekCall

LEMMA ItemsStep == Base /\ Accounted /\ [Next]_vars => Accounted'
<1> SUFFICES ASSUME Base, Accounted, [Next]_vars PROVE Accounted'
  OBVIOUS
<1> USE RolesDisjoint DEF Threads, Goto
<1>1. pc \in [Threads -> {"idle", "put", "notify", "test", "wait", "asleep", "run",
                          "exited", "wakeall", "join", "destroyed", "canceled",
                          "found", "peeked", "copied", "taken"}]
  BY DEF Base, TypeOK
<1>2. CASE \E t \in Threads : PutStep(t)
  <2> PICK t \in Threads : PutStep(t)
    BY <1>2
  <2>1. CASE NotifyOne(t)
    <3>1. /\ \A u \in Threads : pc'[u] = "put" <=> pc[u] = "put"
          /\ \A w \in Workers : /\ Runs(w)' <=> Runs(w)
                                /\ pc'[w] = "taken" => pc[w] = "taken"
      BY <1>1, <2>1 DEF NotifyOne, WakeOne, Asleep, Runs, aside
    <3> QED BY <2>1, <3>1, KeepsItems DEF NotifyOne, aside
  <2> QED BY <2>1, PutItems, RefuseItems DEF PutStep
<1>3. CASE \E w \in Workers :
             GetStep(w) \/ BeginGet(w) \/ PopOrFail(w) \/ PeekCall(w) \/ SpuriousWake(w)
  BY <1>3, WorkerItems
<1>4. CASE \E i \in Items : \/ \E p \in Producers : BeginPut(p, i)
                            \/ \E w \in Workers : kind = "pool" /\ BeginNested(w, i)
  BY <1>4, OfferItems
<1>5. CASE \/ \E p \in Producers : SetDone(p)
           \/ SetStop \/ CancelLocked \/ NotifyAll \/ Join
  <2>1. /\ UNCHANGED <<kind, late, queue, fate, item, task>>
        /\ kind = "pc" \/ stop => stop' = stop
        /\ \A t \in Threads : pc'[t] = "put" <=> pc[t] = "put"
        /\ \A w \in Workers : pc'[w] = pc[w] \/ (pc[w] = "asleep" /\ pc'[w] = "test")
    BY <1>1, <1>5
    DEF SetDone, SetStop, SetStopUnlocked, CancelLocked, NotifyAll, Join, WakeAll, Asleep, Pass, aside
  <2> QED BY <2>1, KeepsItems DEF Runs
<1>6. CASE Cancel
  BY <1>6, CancelItems
<1>7. CASE UNCHANGED vars
  BY <1>7, KeepsItems DEF vars, Runs
<1> QED BY <1>2, <1>3, <1>4, <1>5, <1>6, <1>7 DEF Next, OwnerStep

\* The pool ends with every accepted task run, a canceled queue holds what was
\* pushed since, no consumer of main_lockedqueue.cpp gets what its checker
\* rejects, and what peek returned is what pop_front removes.
THEOREM NothingLost == Spec => []NothingForgotten
<1>1. Init => Accounted
  BY RolesDisjoint, FatesDistinct
  DEF Init, Accounted, Hands, Outcomes, InQueue, Runs, Fates, Process, Threads
<1>2. Spec => []Accounted
  BY <1>1, ItemsStep, Bases, PTL DEF Spec
<1>3. ASSUME Base, Accounted PROVE NothingForgotten
  <2> USE <1>3, RolesDisjoint DEF Base, Accounted, Threads
  <2>1. ASSUME pc[Owner] = "destroyed"
        PROVE  /\ queue = <<>>
               /\ \A i \in Items : fate[i] \in {"new", "done", "error", "refused"}
               /\ \A t \in Threads \ {Owner} : pc[t] \in {"idle", "exited"}
    <3>1. kind = "pool" /\ stop /\ queue = <<>>
      BY <2>1, OneEven DEF Roles
    <3>2. \A t \in Threads \ {Owner} : pc[t] \in {"idle", "exited"}
      BY <2>1, <3>1 DEF Roles
    <3>3. ASSUME NEW i \in Items
          PROVE  fate[i] \in {"new", "done", "error", "refused"}
      <4>1. fate[i] \in Fates \ {"deleted"}
        BY <3>1 DEF TypeOK, Outcomes
      <4>2. fate[i] # "queued"
        BY <3>1 DEF Hands, InQueue
      <4>3. fate[i] # "offered"
        BY <2>1, <3>2 DEF Hands
      <4>4. fate[i] # "running"
        BY <3>2 DEF Hands, Runs
      <4> QED BY <4>1, <4>2, <4>3, <4>4 DEF Fates
    <3> QED BY <3>1, <3>2, <3>3
  <2>2. pc[Owner] = "canceled" /\ kind = "pc" => \A i \in Items : fate[i] = "queued" <=> i \in late
    BY DEF Roles, Outcomes
  <2>3. kind = "locked" => \A i \in Items, w \in Workers : fate[i] = w => Process(w, i)
    BY DEF Outcomes
  <2>4. \A w \in Workers : pc[w] \in {"peeked", "copied"} => queue # <<>> /\ Head(queue) = task[w]
    BY DEF Mutex
  <2> QED BY <2>1, <2>2, <2>3, <2>4 DEF NothingForgotten
<1> QED BY <1>2, <1>3, Bases, PTL
=============================================================================
