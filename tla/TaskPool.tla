------------------------------ MODULE TaskPool ------------------------------
(***************************************************************************)
(* What the C thread pool (3_pool/thread_pool-master/thrd_pool.c) promises *)
(* to its callers, without locks, condition variables or memory: submitted *)
(* tasks are started in the order of their submission, each by one worker  *)
(* and once, a worker runs one task at a time, closing the pool lets every *)
(* worker start at most one more task, and whatever is still pending is    *)
(* dropped only when no task is running any more.                          *)
(***************************************************************************)
EXTENDS Sequences

CONSTANTS
  Workers,    \* the worker threads
  Tasks,      \* the tasks that may be submitted, each at most once
  NULL        \* "no task"

VARIABLES
  pending,    \* the submitted tasks nobody has started, oldest first
  running,    \* running[w]: the task worker w is executing, or NULL
  submitted,  \* the tasks submitted so far
  lastCall,   \* the workers that have started a task since the pool closed
  phase       \* "open", "closing" (no further work wanted), "closed"

apVars == <<pending, running, submitted, lastCall, phase>>

Init ==
  /\ pending = <<>>
  /\ running = [w \in Workers |-> NULL]
  /\ submitted = {}
  /\ lastCall = {}
  /\ phase = "open"

\* A submission that began while the pool was open may still land while the
\* pool is closing.
Submit(k) ==
  /\ phase # "closed"
  /\ k \notin submitted
  /\ submitted' = submitted \cup {k}
  /\ pending' = Append(pending, k)
  /\ UNCHANGED <<running, lastCall, phase>>

Start(w) ==
  /\ phase # "closed"
  /\ pending # <<>>
  /\ running[w] = NULL
  /\ w \notin lastCall
  /\ running' = [running EXCEPT ![w] = Head(pending)]
  /\ pending' = Tail(pending)
  /\ lastCall' = IF phase = "closing" THEN lastCall \cup {w} ELSE lastCall
  /\ UNCHANGED <<submitted, phase>>

Finish(w) ==
  /\ phase # "closed"
  /\ running[w] # NULL
  /\ running' = [running EXCEPT ![w] = NULL]
  /\ UNCHANGED <<pending, submitted, lastCall, phase>>

Close ==
  /\ phase = "open"
  /\ phase' = "closing"
  /\ UNCHANGED <<pending, running, submitted, lastCall>>

Discard ==
  /\ phase = "closing"
  /\ \A w \in Workers : running[w] = NULL
  /\ phase' = "closed"
  /\ pending' = <<>>
  /\ UNCHANGED <<running, submitted, lastCall>>

\* The pool could not be built: it is closed before anything was submitted.
Refuse ==
  /\ phase = "open"
  /\ submitted = {}
  /\ phase' = "closed"
  /\ UNCHANGED <<pending, running, submitted, lastCall>>

Next ==
  \/ \E k \in Tasks : Submit(k)
  \/ \E w \in Workers : Start(w) \/ Finish(w)
  \/ Close
  \/ Discard
  \/ Refuse

Spec == Init /\ [][Next]_apVars
=============================================================================
