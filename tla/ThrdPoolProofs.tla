--------------------------- MODULE ThrdPoolProofs ---------------------------
(***************************************************************************)
(* Safety of the C thread pool, and that it implements TaskPool, for any   *)
(* number of workers, posters and tasks.                                   *)
(***************************************************************************)
EXTENDS ThrdPool, TLAPS

\* The threads that lock task_queue_t.mutex.
Users == Workers \cup {Owner}

LEMMA TypeStep ==
  ASSUME TypeOK, [Next]_vars
  PROVE  TypeOK'
<1> USE ThreadsDistinct DEF TypeOK, Threads, Goto, Stages,
      taskVars, lockVars, ownerVars,
      PosterLabels, WorkerLabels, OwnerLabels, TerminateLabels
<1>1. ASSUME NEW p \in Posters, CheckOpen(p) PROVE TypeOK'
  BY <1>1 DEF CheckOpen
<1>2. ASSUME NEW p \in Posters, AllocTask(p) PROVE TypeOK'
  BY <1>2 DEF AllocTask
<1>3. ASSUME NEW p \in Posters, AllocFails(p) PROVE TypeOK'
  BY <1>3 DEF AllocFails
<1>4. ASSUME NEW p \in Posters, AddTask(p) PROVE TypeOK'
  BY <1>4 DEF AddTask
<1>5. ASSUME NEW p \in Posters, Signal(p) PROVE TypeOK'
  BY <1>5 DEF Signal
<1>6. ASSUME NEW p \in Posters, BeginPost(p) PROVE TypeOK'
  BY <1>6 DEF BeginPost
<1>7. ASSUME NEW p \in Posters, Leave(p) PROVE TypeOK'
  BY <1>7 DEF Leave
<1>8. ASSUME NEW w \in Workers, CheckQuit(w) PROVE TypeOK'
  BY <1>8 DEF CheckQuit
<1>9. ASSUME NEW w \in Workers, PopTask(w) PROVE TypeOK'
  BY <1>9 DEF PopTask
<1>10. ASSUME NEW w \in Workers, PopEmpty(w) PROVE TypeOK'
  BY <1>10 DEF PopEmpty
<1>11. ASSUME NEW w \in Workers, LockQueue(w) PROVE TypeOK'
  BY <1>11 DEF LockQueue, Acquire
<1>12. ASSUME NEW w \in Workers, GiveUp(w) PROVE TypeOK'
  BY <1>12 DEF GiveUp, Release
<1>13. ASSUME NEW w \in Workers, DecideToWait(w) PROVE TypeOK'
  BY <1>13 DEF DecideToWait
<1>14. ASSUME NEW w \in Workers, CondWait(w) PROVE TypeOK'
  BY <1>14 DEF CondWait, Release
<1>15. ASSUME NEW w \in Workers, Reacquire(w) PROVE TypeOK'
  BY <1>15 DEF Reacquire, Acquire
<1>16. ASSUME NEW w \in Workers, Retry(w) PROVE TypeOK'
  BY <1>16 DEF Retry, Release
<1>17. ASSUME NEW w \in Workers, StartHandler(w) PROVE TypeOK'
  BY <1>17 DEF StartHandler
<1>18. ASSUME NEW w \in Workers, HandlerReturns(w) PROVE TypeOK'
  BY <1>18 DEF HandlerReturns
<1>19. ASSUME NEW w \in Workers, SpuriousWake(w) PROVE TypeOK'
  BY <1>19, SpuriousBound DEF SpuriousWake
<1>20. ASSUME NEW w \in Workers, Spawn(w) PROVE TypeOK'
  BY <1>20 DEF Spawn
<1>21. ASSUME NEW t \in Users, SetQuit(t) PROVE TypeOK'
  BY <1>21 DEF SetQuit
<1>22. ASSUME NEW t \in Users, LockToUnblock(t) PROVE TypeOK'
  BY <1>22 DEF LockToUnblock, Acquire, Users
<1>23. ASSUME NEW t \in Users, Unblock(t) PROVE TypeOK'
  BY <1>23 DEF Unblock
<1>24. ASSUME NEW t \in Users, UnlockUnblocked(t) PROVE TypeOK'
  BY <1>24 DEF UnlockUnblocked, Release
<1>25. ASSUME NEW t \in Users, Broadcast(t) PROVE TypeOK'
  BY <1>25 DEF Broadcast, AfterTerminate
<1>26. ASSUME NEW r \in Resources, AcquireResource(r) PROVE TypeOK'
  BY <1>26 DEF AcquireResource, Resources
<1>27. ASSUME NEW r \in Resources, AcquireFails(r) PROVE TypeOK'
  BY <1>27 DEF AcquireFails, Resources
<1>28. CASE SpawnFails
  BY <1>28 DEF SpawnFails
<1>29. CASE CreateReturns
  BY <1>29 DEF CreateReturns
<1>30. CASE Rollback
  BY <1>30 DEF Rollback, DestroyQueue
<1>31. CASE JoinWorkers
  BY <1>31 DEF JoinWorkers
<1>32. CASE DestroyPool
  BY <1>32 DEF DestroyPool, DestroyQueue
<1>33. CASE OwnerTerminates
  BY <1>33 DEF OwnerTerminates
<1>34. CASE CallWaitdone
  BY <1>34 DEF CallWaitdone, BeginWaitdone
<1>35. CASE Finished
  BY <1>35 DEF Finished, vars
<1>36. CASE UNCHANGED vars
  BY <1>36 DEF vars
<1> QED
  BY <1>1, <1>2, <1>3, <1>4, <1>5, <1>6, <1>7, <1>8, <1>9, <1>10,
     <1>11, <1>12, <1>13, <1>14, <1>15, <1>16, <1>17, <1>18, <1>19, <1>20,
     <1>21, <1>22, <1>23, <1>24, <1>25, <1>26, <1>27, <1>28, <1>29, <1>30,
     <1>31, <1>32, <1>33, <1>34, <1>35, <1>36
  DEF Next, PostStep, WorkerStep, TerminateStep, OwnerStep, Users

-----------------------------------------------------------------------------
\* The mutex belongs to the thread that stands between its lock and its
\* unlock, and to nobody else.
MutexHeld ==
  \A t \in Users :
    mutex = t <=> pc[t] \in {"block", "wait", "relocked", "t_block", "t_unlock"}

SleepInv == MutexHeld /\ NoSleeperAfterShutdown

LEMMA SleepStep ==
  ASSUME TypeOK, SleepInv, [Next]_vars
  PROVE  SleepInv'
<1> USE ThreadsDistinct, NoTaskIsNULL
    DEF TypeOK, SleepInv, MutexHeld, NoSleeperAfterShutdown, Users, Threads,
      Goto, taskVars, lockVars, ownerVars
<1>1. ASSUME NEW p \in Posters, CheckOpen(p) PROVE SleepInv'
  BY <1>1 DEF CheckOpen
<1>2. ASSUME NEW p \in Posters, AllocTask(p) PROVE SleepInv'
  BY <1>2 DEF AllocTask
<1>3. ASSUME NEW p \in Posters, AllocFails(p) PROVE SleepInv'
  BY <1>3 DEF AllocFails
<1>4. ASSUME NEW p \in Posters, AddTask(p) PROVE SleepInv'
  BY <1>4 DEF AddTask
<1>5. ASSUME NEW p \in Posters, Signal(p) PROVE SleepInv'
  BY <1>5 DEF Signal
<1>6. ASSUME NEW p \in Posters, BeginPost(p) PROVE SleepInv'
  BY <1>6 DEF BeginPost
<1>7. ASSUME NEW p \in Posters, Leave(p) PROVE SleepInv'
  BY <1>7 DEF Leave
<1>8. ASSUME NEW w \in Workers, CheckQuit(w) PROVE SleepInv'
  BY <1>8 DEF CheckQuit
<1>9. ASSUME NEW w \in Workers, PopTask(w) PROVE SleepInv'
  BY <1>9 DEF PopTask
<1>10. ASSUME NEW w \in Workers, PopEmpty(w) PROVE SleepInv'
  BY <1>10 DEF PopEmpty
<1>11. ASSUME NEW w \in Workers, LockQueue(w) PROVE SleepInv'
  BY <1>11 DEF LockQueue, Acquire
<1>12. ASSUME NEW w \in Workers, GiveUp(w) PROVE SleepInv'
  BY <1>12 DEF GiveUp, Release
<1>13. ASSUME NEW w \in Workers, DecideToWait(w) PROVE SleepInv'
  BY <1>13 DEF DecideToWait
<1>14. ASSUME NEW w \in Workers, CondWait(w) PROVE SleepInv'
  BY <1>14 DEF CondWait, Release
<1>15. ASSUME NEW w \in Workers, Reacquire(w) PROVE SleepInv'
  BY <1>15 DEF Reacquire, Acquire
<1>16. ASSUME NEW w \in Workers, Retry(w) PROVE SleepInv'
  BY <1>16 DEF Retry, Release
<1>17. ASSUME NEW w \in Workers, StartHandler(w) PROVE SleepInv'
  BY <1>17 DEF StartHandler
<1>18. ASSUME NEW w \in Workers, HandlerReturns(w) PROVE SleepInv'
  BY <1>18 DEF HandlerReturns
<1>19. ASSUME NEW w \in Workers, SpuriousWake(w) PROVE SleepInv'
  BY <1>19 DEF SpuriousWake
<1>20. ASSUME NEW w \in Workers, Spawn(w) PROVE SleepInv'
  BY <1>20 DEF Spawn
<1>21. ASSUME NEW t \in Users, SetQuit(t) PROVE SleepInv'
  BY <1>21 DEF SetQuit
<1>22. ASSUME NEW t \in Users, LockToUnblock(t) PROVE SleepInv'
  BY <1>22 DEF LockToUnblock, Acquire, Users
<1>23. ASSUME NEW t \in Users, Unblock(t) PROVE SleepInv'
  BY <1>23 DEF Unblock
<1>24. ASSUME NEW t \in Users, UnlockUnblocked(t) PROVE SleepInv'
  BY <1>24 DEF UnlockUnblocked, Release
<1>25. ASSUME NEW t \in Users, Broadcast(t) PROVE SleepInv'
  BY <1>25 DEF Broadcast, AfterTerminate
<1>26. ASSUME NEW r \in Resources, AcquireResource(r) PROVE SleepInv'
  BY <1>26 DEF AcquireResource, Resources
<1>27. ASSUME NEW r \in Resources, AcquireFails(r) PROVE SleepInv'
  BY <1>27 DEF AcquireFails
<1>28. CASE SpawnFails
  BY <1>28 DEF SpawnFails
<1>29. CASE CreateReturns
  BY <1>29 DEF CreateReturns
<1>30. CASE Rollback
  BY <1>30 DEF Rollback, DestroyQueue
<1>31. CASE JoinWorkers
  BY <1>31 DEF JoinWorkers
<1>32. CASE DestroyPool
  BY <1>32 DEF DestroyPool, DestroyQueue
<1>33. CASE OwnerTerminates
  BY <1>33 DEF OwnerTerminates
<1>34. CASE CallWaitdone
  BY <1>34 DEF CallWaitdone, BeginWaitdone
<1>35. CASE Finished
  BY <1>35 DEF Finished, vars
<1>36. CASE UNCHANGED vars
  BY <1>36 DEF vars
<1> QED
  BY <1>1, <1>2, <1>3, <1>4, <1>5, <1>6, <1>7, <1>8, <1>9, <1>10,
     <1>11, <1>12, <1>13, <1>14, <1>15, <1>16, <1>17, <1>18, <1>19, <1>20,
     <1>21, <1>22, <1>23, <1>24, <1>25, <1>26, <1>27, <1>28, <1>29, <1>30,
     <1>31, <1>32, <1>33, <1>34, <1>35, <1>36
  DEF Next, PostStep, WorkerStep, TerminateStep, OwnerStep, Users

-----------------------------------------------------------------------------
\* Where the other threads can be, and what is allocated, in each phase of
\* the owner.
LifeInv ==
  /\ ~published => \A p \in Posters : pc[p] \in {"idle", "gone"}
  /\ pc[Owner] \in {"create", "spawn", "rollback", "failed"} => ~published
  /\ pc[Owner] \in {"ready", "closing", "join", "destroy", "gone"} => published
  /\ pc[Owner] = "create" => \A w \in Workers : pc[w] = "none"
  /\ pc[Owner] \in {"join", "destroy", "gone"} =>
       \A p \in Posters : pc[p] = "gone"
  /\ pc[Owner] \in {"destroy", "gone", "failed"} => AllJoined
  /\ pc[Owner] \notin {"create", "gone", "failed"} =>
       {"pool"} \cup QueueResources \subseteq held
  /\ pc[Owner] \notin {"create", "spawn", "failed"} => "attr" \notin held

LEMMA LifeStep ==
  ASSUME TypeOK, LifeInv, [Next]_vars
  PROVE  LifeInv'
<1> USE ThreadsDistinct
    DEF TypeOK, LifeInv, AllJoined, Users, Threads, QueueResources,
      Goto, taskVars, lockVars, ownerVars
<1>1. ASSUME NEW p \in Posters, CheckOpen(p) PROVE LifeInv'
  BY <1>1 DEF CheckOpen
<1>2. ASSUME NEW p \in Posters, AllocTask(p) PROVE LifeInv'
  BY <1>2 DEF AllocTask
<1>3. ASSUME NEW p \in Posters, AllocFails(p) PROVE LifeInv'
  BY <1>3 DEF AllocFails
<1>4. ASSUME NEW p \in Posters, AddTask(p) PROVE LifeInv'
  BY <1>4 DEF AddTask
<1>5. ASSUME NEW p \in Posters, Signal(p) PROVE LifeInv'
  BY <1>5 DEF Signal
<1>6. ASSUME NEW p \in Posters, BeginPost(p) PROVE LifeInv'
  BY <1>6 DEF BeginPost
<1>7. ASSUME NEW p \in Posters, Leave(p) PROVE LifeInv'
  BY <1>7 DEF Leave
<1>8. ASSUME NEW w \in Workers, CheckQuit(w) PROVE LifeInv'
  BY <1>8 DEF CheckQuit
<1>9. ASSUME NEW w \in Workers, PopTask(w) PROVE LifeInv'
  BY <1>9 DEF PopTask
<1>10. ASSUME NEW w \in Workers, PopEmpty(w) PROVE LifeInv'
  BY <1>10 DEF PopEmpty
<1>11. ASSUME NEW w \in Workers, LockQueue(w) PROVE LifeInv'
  BY <1>11 DEF LockQueue, Acquire
<1>12. ASSUME NEW w \in Workers, GiveUp(w) PROVE LifeInv'
  BY <1>12 DEF GiveUp, Release
<1>13. ASSUME NEW w \in Workers, DecideToWait(w) PROVE LifeInv'
  BY <1>13 DEF DecideToWait
<1>14. ASSUME NEW w \in Workers, CondWait(w) PROVE LifeInv'
  BY <1>14 DEF CondWait, Release
<1>15. ASSUME NEW w \in Workers, Reacquire(w) PROVE LifeInv'
  BY <1>15 DEF Reacquire, Acquire
<1>16. ASSUME NEW w \in Workers, Retry(w) PROVE LifeInv'
  BY <1>16 DEF Retry, Release
<1>17. ASSUME NEW w \in Workers, StartHandler(w) PROVE LifeInv'
  BY <1>17 DEF StartHandler
<1>18. ASSUME NEW w \in Workers, HandlerReturns(w) PROVE LifeInv'
  BY <1>18 DEF HandlerReturns
<1>19. ASSUME NEW w \in Workers, SpuriousWake(w) PROVE LifeInv'
  BY <1>19 DEF SpuriousWake
<1>20. ASSUME NEW w \in Workers, Spawn(w) PROVE LifeInv'
  BY <1>20 DEF Spawn
<1>21. ASSUME NEW t \in Users, SetQuit(t) PROVE LifeInv'
  BY <1>21 DEF SetQuit
<1>22. ASSUME NEW t \in Users, LockToUnblock(t) PROVE LifeInv'
  BY <1>22 DEF LockToUnblock, Acquire, Users
<1>23. ASSUME NEW t \in Users, Unblock(t) PROVE LifeInv'
  BY <1>23 DEF Unblock
<1>24. ASSUME NEW t \in Users, UnlockUnblocked(t) PROVE LifeInv'
  BY <1>24 DEF UnlockUnblocked, Release
<1>25. ASSUME NEW t \in Users, Broadcast(t) PROVE LifeInv'
  BY <1>25 DEF Broadcast, AfterTerminate
<1>26. ASSUME NEW r \in Resources, AcquireResource(r) PROVE LifeInv'
  BY <1>26 DEF AcquireResource, Resources, Preceding
<1>27. ASSUME NEW r \in Resources, AcquireFails(r) PROVE LifeInv'
  BY <1>27 DEF AcquireFails
<1>28. CASE SpawnFails
  BY <1>28 DEF SpawnFails
<1>29. CASE CreateReturns
  BY <1>29 DEF CreateReturns
<1>30. CASE Rollback
  BY <1>30 DEF Rollback, DestroyQueue
<1>31. CASE JoinWorkers
  BY <1>31 DEF JoinWorkers
<1>32. CASE DestroyPool
  BY <1>32 DEF DestroyPool, DestroyQueue
<1>33. CASE OwnerTerminates
  BY <1>33 DEF OwnerTerminates
<1>34. CASE CallWaitdone
  BY <1>34 DEF CallWaitdone, BeginWaitdone
<1>35. CASE Finished
  BY <1>35 DEF Finished, vars
<1>36. CASE UNCHANGED vars
  BY <1>36 DEF vars
<1> QED
  BY <1>1, <1>2, <1>3, <1>4, <1>5, <1>6, <1>7, <1>8, <1>9, <1>10,
     <1>11, <1>12, <1>13, <1>14, <1>15, <1>16, <1>17, <1>18, <1>19, <1>20,
     <1>21, <1>22, <1>23, <1>24, <1>25, <1>26, <1>27, <1>28, <1>29, <1>30,
     <1>31, <1>32, <1>33, <1>34, <1>35, <1>36
  DEF Next, PostStep, WorkerStep, TerminateStep, OwnerStep, Users

-----------------------------------------------------------------------------
Executing == {"take", "run"} \cup TerminateLabels

\* Who holds the tasks of each stage.
StageInv ==
  /\ ~published =>
       /\ queue = <<>>
       /\ \A k \in Tasks : stage[k] = "none"
       /\ \A w \in Workers : pc[w] \notin Executing
  /\ \A k \in Tasks : stage[k] = "queued" =>
       \E i \in 1 .. Len(queue) : queue[i] = k
  /\ \A k \in Tasks : stage[k] = "alloc" =>
       \E p \in Posters : pc[p] = "add" /\ task[p] = k
  /\ \A k \in Tasks : stage[k] \in {"taken", "running"} =>
       \E w \in Workers : pc[w] \in Executing /\ task[w] = k

LEMMA StageStep ==
  ASSUME TypeOK, LifeInv, StageInv, [Next]_vars
  PROVE  StageInv'
<1> USE ThreadsDistinct
    DEF TypeOK, LifeInv, StageInv, AllJoined, Threads, Executing,
      TerminateLabels, Goto, taskVars, lockVars, ownerVars
<1>1. ASSUME NEW p \in Posters, CheckOpen(p) PROVE StageInv'
  BY <1>1 DEF CheckOpen
<1>2. ASSUME NEW p \in Posters, AllocTask(p) PROVE StageInv'
  BY <1>2 DEF AllocTask
<1>3. ASSUME NEW p \in Posters, AllocFails(p) PROVE StageInv'
  BY <1>3 DEF AllocFails
<1>4. ASSUME NEW p \in Posters, AddTask(p) PROVE StageInv'
  <2>1. published /\ published' /\ task[p] \in Tasks
    BY <1>4 DEF AddTask
  <2>2. ASSUME NEW k \in Tasks, stage'[k] = "queued"
        PROVE  \E i \in 1 .. Len(queue') : queue'[i] = k
    <3>1. CASE k = task[p]
      <4>1. /\ Len(queue) \in Nat
            /\ Len(queue') = Len(queue) + 1
            /\ queue'[Len(queue) + 1] = task[p]
        BY <1>4, <2>1 DEF AddTask
      <4>2. Len(queue) + 1 \in 1 .. Len(queue')
        BY <4>1
      <4> QED BY <3>1, <4>1, <4>2
    <3>2. CASE k # task[p]
      <4>1. PICK i \in 1 .. Len(queue) : queue[i] = k
        BY <1>4, <2>2, <3>2 DEF AddTask
      <4>2. i \in 1 .. Len(queue') /\ queue'[i] = k
        BY <1>4, <2>1, <4>1 DEF AddTask
      <4> QED BY <4>2
    <3> QED BY <3>1, <3>2
  <2>3. ASSUME NEW k \in Tasks, stage'[k] = "alloc"
        PROVE  \E q \in Posters : pc'[q] = "add" /\ task'[q] = k
    BY <1>4, <2>1, <2>3 DEF AddTask
  <2>4. ASSUME NEW k \in Tasks, stage'[k] \in {"taken", "running"}
        PROVE  \E w \in Workers : pc'[w] \in Executing /\ task'[w] = k
    BY <1>4, <2>1, <2>4 DEF AddTask
  <2> QED BY <2>1, <2>2, <2>3, <2>4
<1>5. ASSUME NEW p \in Posters, Signal(p) PROVE StageInv'
  BY <1>5 DEF Signal
<1>6. ASSUME NEW p \in Posters, BeginPost(p) PROVE StageInv'
  BY <1>6 DEF BeginPost
<1>7. ASSUME NEW p \in Posters, Leave(p) PROVE StageInv'
  BY <1>7 DEF Leave
<1>8. ASSUME NEW w \in Workers, CheckQuit(w) PROVE StageInv'
  BY <1>8 DEF CheckQuit
<1>9. ASSUME NEW w \in Workers, PopTask(w) PROVE StageInv'
  <2>1. /\ Head(queue) = queue[1] /\ Head(queue) \in Tasks
        /\ Len(Tail(queue)) = Len(queue) - 1
        /\ \A i \in 1 .. Len(queue) - 1 : Tail(queue)[i] = queue[i + 1]
    BY <1>9 DEF PopTask
  <2>2. published /\ published'
    BY <1>9 DEF PopTask
  <2>3. ASSUME NEW k \in Tasks, stage'[k] = "queued"
        PROVE  \E i \in 1 .. Len(queue') : queue'[i] = k
    <3>1. stage[k] = "queued" /\ k # queue[1]
      BY <1>9, <2>1, <2>3 DEF PopTask
    <3>2. PICK i \in 1 .. Len(queue) : queue[i] = k
      BY <3>1
    <3>3. i - 1 \in 1 .. Len(queue) - 1 /\ queue[(i - 1) + 1] = k
      BY <3>1, <3>2
    <3>4. i - 1 \in 1 .. Len(queue') /\ queue'[i - 1] = k
      BY <1>9, <2>1, <3>3 DEF PopTask
    <3> QED BY <3>4
  <2>4. ASSUME NEW k \in Tasks, stage'[k] = "alloc"
        PROVE  \E p \in Posters : pc'[p] = "add" /\ task'[p] = k
    BY <1>9, <2>1, <2>4 DEF PopTask
  <2>5. ASSUME NEW k \in Tasks, stage'[k] \in {"taken", "running"}
        PROVE  \E v \in Workers : pc'[v] \in Executing /\ task'[v] = k
    BY <1>9, <2>1, <2>5 DEF PopTask
  <2> QED BY <2>2, <2>3, <2>4, <2>5
<1>10. ASSUME NEW w \in Workers, PopEmpty(w) PROVE StageInv'
  BY <1>10 DEF PopEmpty
<1>11. ASSUME NEW w \in Workers, LockQueue(w) PROVE StageInv'
  BY <1>11 DEF LockQueue, Acquire
<1>12. ASSUME NEW w \in Workers, GiveUp(w) PROVE StageInv'
  BY <1>12 DEF GiveUp, Release
<1>13. ASSUME NEW w \in Workers, DecideToWait(w) PROVE StageInv'
  BY <1>13 DEF DecideToWait
<1>14. ASSUME NEW w \in Workers, CondWait(w) PROVE StageInv'
  BY <1>14 DEF CondWait, Release
<1>15. ASSUME NEW w \in Workers, Reacquire(w) PROVE StageInv'
  BY <1>15 DEF Reacquire, Acquire
<1>16. ASSUME NEW w \in Workers, Retry(w) PROVE StageInv'
  BY <1>16 DEF Retry, Release
<1>17. ASSUME NEW w \in Workers, StartHandler(w) PROVE StageInv'
  BY <1>17 DEF StartHandler
<1>18. ASSUME NEW w \in Workers, HandlerReturns(w) PROVE StageInv'
  BY <1>18 DEF HandlerReturns
<1>19. ASSUME NEW w \in Workers, SpuriousWake(w) PROVE StageInv'
  BY <1>19 DEF SpuriousWake
<1>20. ASSUME NEW w \in Workers, Spawn(w) PROVE StageInv'
  BY <1>20 DEF Spawn
<1>21. ASSUME NEW t \in Users, SetQuit(t) PROVE StageInv'
  BY <1>21 DEF SetQuit
<1>22. ASSUME NEW t \in Users, LockToUnblock(t) PROVE StageInv'
  BY <1>22 DEF LockToUnblock, Acquire, Users
<1>23. ASSUME NEW t \in Users, Unblock(t) PROVE StageInv'
  BY <1>23 DEF Unblock
<1>24. ASSUME NEW t \in Users, UnlockUnblocked(t) PROVE StageInv'
  BY <1>24 DEF UnlockUnblocked, Release
<1>25. ASSUME NEW t \in Users, Broadcast(t) PROVE StageInv'
  BY <1>25 DEF Broadcast, AfterTerminate
<1>26. ASSUME NEW r \in Resources, AcquireResource(r) PROVE StageInv'
  BY <1>26 DEF AcquireResource, Resources
<1>27. ASSUME NEW r \in Resources, AcquireFails(r) PROVE StageInv'
  BY <1>27 DEF AcquireFails
<1>28. CASE SpawnFails
  BY <1>28 DEF SpawnFails
<1>29. CASE CreateReturns
  BY <1>29 DEF CreateReturns
<1>30. CASE Rollback
  BY <1>30 DEF Rollback, DestroyQueue
<1>31. CASE JoinWorkers
  BY <1>31 DEF JoinWorkers
<1>32. CASE DestroyPool
  BY <1>32 DEF DestroyPool, DestroyQueue
<1>33. CASE OwnerTerminates
  BY <1>33 DEF OwnerTerminates
<1>34. CASE CallWaitdone
  BY <1>34 DEF CallWaitdone, BeginWaitdone
<1>35. CASE Finished
  BY <1>35 DEF Finished, vars
<1>36. CASE UNCHANGED vars
  BY <1>36 DEF vars
<1> QED
  BY <1>1, <1>2, <1>3, <1>4, <1>5, <1>6, <1>7, <1>8, <1>9, <1>10,
     <1>11, <1>12, <1>13, <1>14, <1>15, <1>16, <1>17, <1>18, <1>19, <1>20,
     <1>21, <1>22, <1>23, <1>24, <1>25, <1>26, <1>27, <1>28, <1>29, <1>30,
     <1>31, <1>32, <1>33, <1>34, <1>35, <1>36
  DEF Next, PostStep, WorkerStep, TerminateStep, OwnerStep, Users

LEMMA NothingLeftStep ==
  ASSUME TypeOK, LifeInv, StageInv, NothingLeftBehind, [Next]_vars
  PROVE  NothingLeftBehind'
<1> USE ThreadsDistinct
    DEF TypeOK, LifeInv, StageInv, NothingLeftBehind, AllJoined, Threads,
      Executing, TerminateLabels, Stages, Goto, taskVars, lockVars, ownerVars
<1>1. ASSUME NEW p \in Posters, CheckOpen(p) PROVE NothingLeftBehind'
  BY <1>1 DEF CheckOpen
<1>2. ASSUME NEW p \in Posters, AllocTask(p) PROVE NothingLeftBehind'
  BY <1>2 DEF AllocTask
<1>3. ASSUME NEW p \in Posters, AllocFails(p) PROVE NothingLeftBehind'
  BY <1>3 DEF AllocFails
<1>4. ASSUME NEW p \in Posters, AddTask(p) PROVE NothingLeftBehind'
  BY <1>4 DEF AddTask
<1>5. ASSUME NEW p \in Posters, Signal(p) PROVE NothingLeftBehind'
  BY <1>5 DEF Signal
<1>6. ASSUME NEW p \in Posters, BeginPost(p) PROVE NothingLeftBehind'
  BY <1>6 DEF BeginPost
<1>7. ASSUME NEW p \in Posters, Leave(p) PROVE NothingLeftBehind'
  BY <1>7 DEF Leave
<1>8. ASSUME NEW w \in Workers, CheckQuit(w) PROVE NothingLeftBehind'
  BY <1>8 DEF CheckQuit
<1>9. ASSUME NEW w \in Workers, PopTask(w) PROVE NothingLeftBehind'
  BY <1>9 DEF PopTask
<1>10. ASSUME NEW w \in Workers, PopEmpty(w) PROVE NothingLeftBehind'
  BY <1>10 DEF PopEmpty
<1>11. ASSUME NEW w \in Workers, LockQueue(w) PROVE NothingLeftBehind'
  BY <1>11 DEF LockQueue, Acquire
<1>12. ASSUME NEW w \in Workers, GiveUp(w) PROVE NothingLeftBehind'
  BY <1>12 DEF GiveUp, Release
<1>13. ASSUME NEW w \in Workers, DecideToWait(w) PROVE NothingLeftBehind'
  BY <1>13 DEF DecideToWait
<1>14. ASSUME NEW w \in Workers, CondWait(w) PROVE NothingLeftBehind'
  BY <1>14 DEF CondWait, Release
<1>15. ASSUME NEW w \in Workers, Reacquire(w) PROVE NothingLeftBehind'
  BY <1>15 DEF Reacquire, Acquire
<1>16. ASSUME NEW w \in Workers, Retry(w) PROVE NothingLeftBehind'
  BY <1>16 DEF Retry, Release
<1>17. ASSUME NEW w \in Workers, StartHandler(w) PROVE NothingLeftBehind'
  BY <1>17 DEF StartHandler
<1>18. ASSUME NEW w \in Workers, HandlerReturns(w) PROVE NothingLeftBehind'
  BY <1>18 DEF HandlerReturns
<1>19. ASSUME NEW w \in Workers, SpuriousWake(w) PROVE NothingLeftBehind'
  BY <1>19 DEF SpuriousWake
<1>20. ASSUME NEW w \in Workers, Spawn(w) PROVE NothingLeftBehind'
  BY <1>20 DEF Spawn
<1>21. ASSUME NEW t \in Users, SetQuit(t) PROVE NothingLeftBehind'
  BY <1>21 DEF SetQuit
<1>22. ASSUME NEW t \in Users, LockToUnblock(t) PROVE NothingLeftBehind'
  BY <1>22 DEF LockToUnblock, Acquire, Users
<1>23. ASSUME NEW t \in Users, Unblock(t) PROVE NothingLeftBehind'
  BY <1>23 DEF Unblock
<1>24. ASSUME NEW t \in Users, UnlockUnblocked(t) PROVE NothingLeftBehind'
  BY <1>24 DEF UnlockUnblocked, Release
<1>25. ASSUME NEW t \in Users, Broadcast(t) PROVE NothingLeftBehind'
  BY <1>25 DEF Broadcast, AfterTerminate
<1>26. ASSUME NEW r \in Resources, AcquireResource(r) PROVE NothingLeftBehind'
  BY <1>26 DEF AcquireResource, Resources
<1>27. ASSUME NEW r \in Resources, AcquireFails(r) PROVE NothingLeftBehind'
  BY <1>27 DEF AcquireFails
<1>28. CASE SpawnFails
  BY <1>28 DEF SpawnFails
<1>29. CASE CreateReturns
  BY <1>29 DEF CreateReturns
<1>30. CASE Rollback
  BY <1>30 DEF Rollback, DestroyQueue, Resources, QueueResources
<1>31. CASE JoinWorkers
  BY <1>31 DEF JoinWorkers
<1>32. CASE DestroyPool
  BY <1>32 DEF DestroyPool, DestroyQueue, Resources, QueueResources
<1>33. CASE OwnerTerminates
  BY <1>33 DEF OwnerTerminates
<1>34. CASE CallWaitdone
  BY <1>34 DEF CallWaitdone, BeginWaitdone
<1>35. CASE Finished
  BY <1>35 DEF Finished, vars
<1>36. CASE UNCHANGED vars
  BY <1>36 DEF vars
<1> QED
  BY <1>1, <1>2, <1>3, <1>4, <1>5, <1>6, <1>7, <1>8, <1>9, <1>10,
     <1>11, <1>12, <1>13, <1>14, <1>15, <1>16, <1>17, <1>18, <1>19, <1>20,
     <1>21, <1>22, <1>23, <1>24, <1>25, <1>26, <1>27, <1>28, <1>29, <1>30,
     <1>31, <1>32, <1>33, <1>34, <1>35, <1>36
  DEF Next, PostStep, WorkerStep, TerminateStep, OwnerStep, Users

-----------------------------------------------------------------------------
\* Every reachable state of thrd_pool.c is well typed.
THEOREM Typed == Spec => []TypeOK
<1>1. Init => TypeOK
  <2> SUFFICES ASSUME Init PROVE TypeOK
    OBVIOUS
  <2>1. /\ pc \in [Threads -> PosterLabels \cup WorkerLabels \cup OwnerLabels]
        /\ \A w \in Workers : pc[w] = "none"
        /\ \A p \in Posters : pc[p] = "idle"
        /\ pc[Owner] = "create"
    BY ThreadsDistinct
    DEF Init, Threads, PosterLabels, WorkerLabels, OwnerLabels
  <2>2. /\ task \in [Workers \cup Posters -> Tasks \cup {NULL}]
        /\ stage \in [Tasks -> Stages]
        /\ queue \in Seq(Tasks)
    BY DEF Init, Stages
  <2>3. spurious \in 0 .. MaxSpurious
    BY SpuriousBound DEF Init
  <2> QED
    BY <2>1, <2>2, <2>3
    DEF Init, TypeOK, PosterLabels, WorkerLabels, OwnerLabels, TerminateLabels
<1> QED BY <1>1, TypeStep, PTL DEF Spec

\* Once __nonblock has broadcast, no worker is left in pthread_cond_wait and
\* none can enter it any more (lines 99-109 against 175-186).
THEOREM Shutdown == Spec => []NoSleeperAfterShutdown
<1>1. Init => SleepInv
  BY ThreadsDistinct, NoTaskIsNULL
  DEF Init, SleepInv, MutexHeld, NoSleeperAfterShutdown, Users, Threads
<1>2. SleepInv => NoSleeperAfterShutdown
  BY DEF SleepInv
<1> QED BY <1>1, <1>2, Typed, SleepStep, PTL DEF Spec

LEMMA Life == Spec => []LifeInv
<1>1. Init => LifeInv
  BY ThreadsDistinct DEF Init, LifeInv, AllJoined, Threads
<1> QED BY <1>1, Typed, LifeStep, PTL DEF Spec

\* The pool, its queue and its locks outlive every access to them, for the
\* teardown discipline of main.c (lines 198-208, 323-325, 360-367).
THEOREM Lifetime == Spec => []NoUseAfterFree
<1>1. TypeOK /\ LifeInv => NoUseAfterFree
  BY DEF TypeOK, LifeInv, NoUseAfterFree, UsesPool, AllJoined, Threads,
         PosterLabels, TerminateLabels
<1> QED BY <1>1, Typed, Life, PTL

LEMMA Staged == Spec => []StageInv
<1>1. Init => StageInv
  BY ThreadsDistinct
  DEF Init, StageInv, Threads, Executing, TerminateLabels
<1> QED BY <1>1, Typed, Life, StageStep, PTL DEF Spec

\* thrdpool_waitdone returns with every task that was taken completed and
\* nothing left allocated; a failed thrdpool_create leaves no thread behind.
THEOREM Teardown == Spec => []NothingLeftBehind
<1>1. Init => NothingLeftBehind
  BY DEF Init, NothingLeftBehind, Threads
<1> QED BY <1>1, Typed, Life, Staged, NothingLeftStep, PTL DEF Spec

-----------------------------------------------------------------------------
(* The refinement of TaskPool. *)

\* What the mapping needs beyond who holds the tasks: a worker without a task
\* holds NULL, two posters never hold the same task, a worker that popped
\* after quit was set can only go on to the end of its loop, and the owner
\* tears the pool down only after quit.
MapInv ==
  /\ \A w \in Workers :
       IF pc[w] \in Executing THEN stage[task[w]] \notin {"none", "alloc"}
                             ELSE task[w] = NULL
  /\ \A p \in Posters : pc[p] = "add" => stage[task[p]] = "alloc"
  /\ \A p, q \in Posters :
       pc[p] = "add" /\ pc[q] = "add" /\ task[p] = task[q] => p = q
  /\ \A i \in 1 .. Len(queue) : stage[queue[i]] \notin {"none", "alloc"}
  /\ \A w \in late : quit = 1 /\ pc[w] \in Executing \cup {"loop", "exited"}
  /\ pc[Owner] = "create" => quit = 0
  /\ pc[Owner] \in {"t_lock", "t_block", "t_unlock", "t_bcast", "closing",
                    "rollback", "join", "destroy"} => quit = 1

LEMMA MapStep ==
  ASSUME TypeOK, LifeInv, MapInv, [Next]_vars
  PROVE  MapInv'
<1> USE ThreadsDistinct, NoTaskIsNULL
    DEF TypeOK, LifeInv, MapInv, AllJoined, Threads, Executing,
      TerminateLabels, Goto, taskVars, lockVars, ownerVars
<1>1. ASSUME NEW p \in Posters, CheckOpen(p) PROVE MapInv'
  BY <1>1 DEF CheckOpen
<1>2. ASSUME NEW p \in Posters, AllocTask(p) PROVE MapInv'
  BY <1>2 DEF AllocTask
<1>3. ASSUME NEW p \in Posters, AllocFails(p) PROVE MapInv'
  BY <1>3 DEF AllocFails
<1>4. ASSUME NEW p \in Posters, AddTask(p) PROVE MapInv'
  BY <1>4 DEF AddTask
<1>5. ASSUME NEW p \in Posters, Signal(p) PROVE MapInv'
  BY <1>5 DEF Signal
<1>6. ASSUME NEW p \in Posters, BeginPost(p) PROVE MapInv'
  BY <1>6 DEF BeginPost
<1>7. ASSUME NEW p \in Posters, Leave(p) PROVE MapInv'
  BY <1>7 DEF Leave
<1>8. ASSUME NEW w \in Workers, CheckQuit(w) PROVE MapInv'
  BY <1>8 DEF CheckQuit
<1>9. ASSUME NEW w \in Workers, PopTask(w) PROVE MapInv'
  BY <1>9 DEF PopTask
<1>10. ASSUME NEW w \in Workers, PopEmpty(w) PROVE MapInv'
  BY <1>10 DEF PopEmpty
<1>11. ASSUME NEW w \in Workers, LockQueue(w) PROVE MapInv'
  BY <1>11 DEF LockQueue, Acquire
<1>12. ASSUME NEW w \in Workers, GiveUp(w) PROVE MapInv'
  BY <1>12 DEF GiveUp, Release
<1>13. ASSUME NEW w \in Workers, DecideToWait(w) PROVE MapInv'
  BY <1>13 DEF DecideToWait
<1>14. ASSUME NEW w \in Workers, CondWait(w) PROVE MapInv'
  BY <1>14 DEF CondWait, Release
<1>15. ASSUME NEW w \in Workers, Reacquire(w) PROVE MapInv'
  BY <1>15 DEF Reacquire, Acquire
<1>16. ASSUME NEW w \in Workers, Retry(w) PROVE MapInv'
  BY <1>16 DEF Retry, Release
<1>17. ASSUME NEW w \in Workers, StartHandler(w) PROVE MapInv'
  BY <1>17 DEF StartHandler
<1>18. ASSUME NEW w \in Workers, HandlerReturns(w) PROVE MapInv'
  BY <1>18 DEF HandlerReturns
<1>19. ASSUME NEW w \in Workers, SpuriousWake(w) PROVE MapInv'
  BY <1>19 DEF SpuriousWake
<1>20. ASSUME NEW w \in Workers, Spawn(w) PROVE MapInv'
  BY <1>20 DEF Spawn
<1>21. ASSUME NEW t \in Users, SetQuit(t) PROVE MapInv'
  BY <1>21 DEF SetQuit, Users
<1>22. ASSUME NEW t \in Users, LockToUnblock(t) PROVE MapInv'
  BY <1>22 DEF LockToUnblock, Acquire, Users
<1>23. ASSUME NEW t \in Users, Unblock(t) PROVE MapInv'
  BY <1>23 DEF Unblock
<1>24. ASSUME NEW t \in Users, UnlockUnblocked(t) PROVE MapInv'
  BY <1>24 DEF UnlockUnblocked, Release
<1>25. ASSUME NEW t \in Users, Broadcast(t) PROVE MapInv'
  BY <1>25 DEF Broadcast, AfterTerminate
<1>26. ASSUME NEW r \in Resources, AcquireResource(r) PROVE MapInv'
  BY <1>26 DEF AcquireResource, Resources
<1>27. ASSUME NEW r \in Resources, AcquireFails(r) PROVE MapInv'
  BY <1>27 DEF AcquireFails
<1>28. CASE SpawnFails
  BY <1>28 DEF SpawnFails
<1>29. CASE CreateReturns
  BY <1>29 DEF CreateReturns
<1>30. CASE Rollback
  BY <1>30 DEF Rollback, DestroyQueue
<1>31. CASE JoinWorkers
  BY <1>31 DEF JoinWorkers
<1>32. CASE DestroyPool
  BY <1>32 DEF DestroyPool, DestroyQueue
<1>33. CASE OwnerTerminates
  BY <1>33 DEF OwnerTerminates
<1>34. CASE CallWaitdone
  BY <1>34 DEF CallWaitdone, BeginWaitdone
<1>35. CASE Finished
  BY <1>35 DEF Finished, vars
<1>36. CASE UNCHANGED vars
  BY <1>36 DEF vars
<1> QED
  BY <1>1, <1>2, <1>3, <1>4, <1>5, <1>6, <1>7, <1>8, <1>9, <1>10,
     <1>11, <1>12, <1>13, <1>14, <1>15, <1>16, <1>17, <1>18, <1>19, <1>20,
     <1>21, <1>22, <1>23, <1>24, <1>25, <1>26, <1>27, <1>28, <1>29, <1>30,
     <1>31, <1>32, <1>33, <1>34, <1>35, <1>36
  DEF Next, PostStep, WorkerStep, TerminateStep, OwnerStep, Users

-----------------------------------------------------------------------------
LEMMA RefinementStep ==
  ASSUME TypeOK, LifeInv, StageInv, MapInv, [Next]_vars
  PROVE  [Abstract!Next]_(Abstract!apVars)
<1> USE ThreadsDistinct, NoTaskIsNULL
    DEF TypeOK, LifeInv, StageInv, MapInv, AllJoined, Threads, Executing,
      TerminateLabels, Goto, taskVars, lockVars, ownerVars, Abstract!apVars
<1>1. ASSUME NEW p \in Posters, CheckOpen(p) PROVE [Abstract!Next]_(Abstract!apVars)
  BY <1>1 DEF CheckOpen
<1>2. ASSUME NEW p \in Posters, AllocTask(p) PROVE [Abstract!Next]_(Abstract!apVars)
  BY <1>2 DEF AllocTask
<1>3. ASSUME NEW p \in Posters, AllocFails(p) PROVE [Abstract!Next]_(Abstract!apVars)
  BY <1>3 DEF AllocFails
<1>4. ASSUME NEW p \in Posters, AddTask(p) PROVE [Abstract!Next]_(Abstract!apVars)
  <2>1. PICK k \in Tasks : task[p] = k /\ stage[k] = "alloc"
    BY <1>4 DEF AddTask
  <2>2. {j \in Tasks : stage'[j] \notin {"none", "alloc"}}
          = {j \in Tasks : stage[j] \notin {"none", "alloc"}} \cup {k}
    BY <1>4, <2>1 DEF AddTask
  <2>3. [w \in Workers |-> task'[w]] = [w \in Workers |-> task[w]]
    BY <1>4 DEF AddTask
  <2>4. /\ pc[Owner] \notin {"gone", "failed"}
        /\ pc'[Owner] = pc[Owner]
        /\ queue' = Append(queue, k)
        /\ late' = late /\ quit' = quit
    BY <1>4, <2>1 DEF AddTask
  <2>5. Abstract!Submit(k)
    BY <2>1, <2>2, <2>3, <2>4 DEF Abstract!Submit
  <2> QED BY <2>5 DEF Abstract!Next
<1>5. ASSUME NEW p \in Posters, Signal(p) PROVE [Abstract!Next]_(Abstract!apVars)
  BY <1>5 DEF Signal
<1>6. ASSUME NEW p \in Posters, BeginPost(p) PROVE [Abstract!Next]_(Abstract!apVars)
  BY <1>6 DEF BeginPost
<1>7. ASSUME NEW p \in Posters, Leave(p) PROVE [Abstract!Next]_(Abstract!apVars)
  BY <1>7 DEF Leave
<1>8. ASSUME NEW w \in Workers, CheckQuit(w) PROVE [Abstract!Next]_(Abstract!apVars)
  BY <1>8 DEF CheckQuit
<1>9. ASSUME NEW w \in Workers, PopTask(w) PROVE [Abstract!Next]_(Abstract!apVars)
  <2>1. /\ pc[Owner] \notin {"gone", "failed"}
        /\ pc'[Owner] = pc[Owner]
        /\ task[w] = NULL /\ w \notin late
        /\ Head(queue) \in Tasks
        /\ stage[Head(queue)] \notin {"none", "alloc"}
    BY <1>9 DEF PopTask
  <2>2. {k \in Tasks : stage'[k] \notin {"none", "alloc"}}
          = {k \in Tasks : stage[k] \notin {"none", "alloc"}}
    BY <1>9, <2>1 DEF PopTask
  <2>3. [v \in Workers |-> task'[v]]
          = [[v \in Workers |-> task[v]] EXCEPT ![w] = Head(queue)]
    BY <1>9 DEF PopTask
  <2>4. /\ queue # <<>> /\ queue' = Tail(queue) /\ quit' = quit
        /\ late' = IF quit = 1 THEN late \cup {w} ELSE late
    BY <1>9 DEF PopTask
  <2>5. Abstract!Start(w)
    BY <2>1, <2>2, <2>3, <2>4 DEF Abstract!Start
  <2> QED BY <2>5 DEF Abstract!Next
<1>10. ASSUME NEW w \in Workers, PopEmpty(w) PROVE [Abstract!Next]_(Abstract!apVars)
  BY <1>10 DEF PopEmpty
<1>11. ASSUME NEW w \in Workers, LockQueue(w) PROVE [Abstract!Next]_(Abstract!apVars)
  BY <1>11 DEF LockQueue, Acquire
<1>12. ASSUME NEW w \in Workers, GiveUp(w) PROVE [Abstract!Next]_(Abstract!apVars)
  BY <1>12 DEF GiveUp, Release
<1>13. ASSUME NEW w \in Workers, DecideToWait(w) PROVE [Abstract!Next]_(Abstract!apVars)
  BY <1>13 DEF DecideToWait
<1>14. ASSUME NEW w \in Workers, CondWait(w) PROVE [Abstract!Next]_(Abstract!apVars)
  BY <1>14 DEF CondWait, Release
<1>15. ASSUME NEW w \in Workers, Reacquire(w) PROVE [Abstract!Next]_(Abstract!apVars)
  BY <1>15 DEF Reacquire, Acquire
<1>16. ASSUME NEW w \in Workers, Retry(w) PROVE [Abstract!Next]_(Abstract!apVars)
  BY <1>16 DEF Retry, Release
<1>17. ASSUME NEW w \in Workers, StartHandler(w) PROVE [Abstract!Next]_(Abstract!apVars)
  BY <1>17 DEF StartHandler
<1>18. ASSUME NEW w \in Workers, HandlerReturns(w) PROVE [Abstract!Next]_(Abstract!apVars)
  <2>1. /\ pc[Owner] \notin {"gone", "failed"}
        /\ pc'[Owner] = pc[Owner]
        /\ task[w] \in Tasks /\ stage[task[w]] \notin {"none", "alloc"}
    BY <1>18 DEF HandlerReturns
  <2>2. {k \in Tasks : stage'[k] \notin {"none", "alloc"}}
          = {k \in Tasks : stage[k] \notin {"none", "alloc"}}
    BY <1>18, <2>1 DEF HandlerReturns
  <2>3. [v \in Workers |-> task'[v]]
          = [[v \in Workers |-> task[v]] EXCEPT ![w] = NULL]
    BY <1>18 DEF HandlerReturns
  <2>4. queue' = queue /\ late' = late /\ quit' = quit
    BY <1>18 DEF HandlerReturns
  <2>5. Abstract!Finish(w)
    BY <2>1, <2>2, <2>3, <2>4 DEF Abstract!Finish
  <2> QED BY <2>5 DEF Abstract!Next
<1>19. ASSUME NEW w \in Workers, SpuriousWake(w) PROVE [Abstract!Next]_(Abstract!apVars)
  BY <1>19 DEF SpuriousWake
<1>20. ASSUME NEW w \in Workers, Spawn(w) PROVE [Abstract!Next]_(Abstract!apVars)
  BY <1>20 DEF Spawn
<1>21. ASSUME NEW t \in Users, SetQuit(t) PROVE [Abstract!Next]_(Abstract!apVars)
  <2>1. /\ pc[Owner] \notin {"gone", "failed"}
        /\ pc'[Owner] \notin {"gone", "failed"}
    BY <1>21 DEF SetQuit, Users
  <2>2. CASE quit = 0
    <3>1. Abstract!Close
      BY <1>21, <2>1, <2>2 DEF SetQuit, Abstract!Close
    <3> QED BY <3>1 DEF Abstract!Next
  <2>3. CASE quit = 1
    BY <1>21, <2>1, <2>3 DEF SetQuit
  <2> QED BY <2>2, <2>3
<1>22. ASSUME NEW t \in Users, LockToUnblock(t) PROVE [Abstract!Next]_(Abstract!apVars)
  BY <1>22 DEF LockToUnblock, Acquire, Users
<1>23. ASSUME NEW t \in Users, Unblock(t) PROVE [Abstract!Next]_(Abstract!apVars)
  BY <1>23 DEF Unblock
<1>24. ASSUME NEW t \in Users, UnlockUnblocked(t) PROVE [Abstract!Next]_(Abstract!apVars)
  BY <1>24 DEF UnlockUnblocked, Release
<1>25. ASSUME NEW t \in Users, Broadcast(t) PROVE [Abstract!Next]_(Abstract!apVars)
  BY <1>25 DEF Broadcast, AfterTerminate
<1>26. ASSUME NEW r \in Resources, AcquireResource(r) PROVE [Abstract!Next]_(Abstract!apVars)
  BY <1>26 DEF AcquireResource, Resources
<1>27. ASSUME NEW r \in Resources, AcquireFails(r) PROVE [Abstract!Next]_(Abstract!apVars)
  <2>1. quit = 0 /\ ~published
    BY <1>27 DEF AcquireFails
  <2>2. Abstract!Refuse
    BY <1>27, <2>1 DEF AcquireFails, Abstract!Refuse
  <2> QED BY <2>2 DEF Abstract!Next
<1>28. CASE SpawnFails
  BY <1>28 DEF SpawnFails
<1>29. CASE CreateReturns
  BY <1>29 DEF CreateReturns
<1>30. CASE Rollback
  <2>1. /\ quit = 1
        /\ pc[Owner] \notin {"gone", "failed"}
        /\ pc'[Owner] \in {"gone", "failed"}
        /\ \A w \in Workers : task[w] = NULL
    BY <1>30 DEF Rollback
  <2>2. \A k \in Tasks : stage'[k] \notin {"none", "alloc"}
                       <=> stage[k] \notin {"none", "alloc"}
    BY <1>30 DEF Rollback, DestroyQueue
  <2>3. Abstract!Discard
    BY <1>30, <2>1, <2>2 DEF Rollback, DestroyQueue, Abstract!Discard
  <2> QED BY <2>3 DEF Abstract!Next
<1>31. CASE JoinWorkers
  BY <1>31 DEF JoinWorkers
<1>32. CASE DestroyPool
  <2>1. /\ quit = 1
        /\ pc[Owner] \notin {"gone", "failed"}
        /\ pc'[Owner] \in {"gone", "failed"}
        /\ \A w \in Workers : task[w] = NULL
    BY <1>32 DEF DestroyPool
  <2>2. \A k \in Tasks : stage'[k] \notin {"none", "alloc"}
                       <=> stage[k] \notin {"none", "alloc"}
    BY <1>32 DEF DestroyPool, DestroyQueue
  <2>3. Abstract!Discard
    BY <1>32, <2>1, <2>2 DEF DestroyPool, DestroyQueue, Abstract!Discard
  <2> QED BY <2>3 DEF Abstract!Next
<1>33. CASE OwnerTerminates
  BY <1>33 DEF OwnerTerminates
<1>34. CASE CallWaitdone
  BY <1>34 DEF CallWaitdone, BeginWaitdone
<1>35. CASE Finished
  BY <1>35 DEF Finished, vars
<1>36. CASE UNCHANGED vars
  BY <1>36 DEF vars
<1> QED
  BY <1>1, <1>2, <1>3, <1>4, <1>5, <1>6, <1>7, <1>8, <1>9, <1>10,
     <1>11, <1>12, <1>13, <1>14, <1>15, <1>16, <1>17, <1>18, <1>19, <1>20,
     <1>21, <1>22, <1>23, <1>24, <1>25, <1>26, <1>27, <1>28, <1>29, <1>30,
     <1>31, <1>32, <1>33, <1>34, <1>35, <1>36
  DEF Next, PostStep, WorkerStep, TerminateStep, OwnerStep, Users

\* Every behaviour of the pool is one of the abstract task pool: submission
\* order, one task at a time, at most one more task per worker after quit, and
\* nothing dropped while anything runs.
THEOREM Refinement == Spec => ImplementsTaskPool
<1>1. Init => MapInv
  BY ThreadsDistinct DEF Init, MapInv, Threads, Executing, TerminateLabels
<1>2. Spec => []MapInv
  BY <1>1, Typed, Life, MapStep, PTL DEF Spec
<1>3. Init => Abstract!Init
  BY ThreadsDistinct DEF Init, Abstract!Init, Threads
<1> QED
  BY <1>2, <1>3, Typed, Life, Staged, RefinementStep, PTL
  DEF Spec, ImplementsTaskPool, Abstract!Spec
=============================================================================
