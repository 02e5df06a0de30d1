---------------------------- MODULE ThrdPoolTest ----------------------------
(***************************************************************************)
(* The thread pool under the client of thrdpool_test.cc: detached          *)
(* producers post n tasks each, every task adds one to g_count, and the    *)
(* main thread polls g_count until it shows all the tasks, then terminates *)
(* the pool and waits for it.  It never joins the producers.               *)
(***************************************************************************)
EXTENDS ThrdPool, FiniteSets

CONSTANT PerProducer   \* the posts of one producer; "n" in the test

VARIABLES
  g_count,   \* the atomic counter
  posted     \* the iterations each producer has begun

testVars == <<vars, g_count, posted>>

TestInit ==
  /\ Init
  /\ g_count = 0
  /\ posted = [p \in Posters |-> 0]

Total == PerProducer * Cardinality(Posters)

Produce(p) ==
  \/ /\ posted[p] < PerProducer
     /\ BeginPost(p)
     /\ posted' = [posted EXCEPT ![p] = @ + 1]
     /\ UNCHANGED g_count
  \/ /\ posted[p] = PerProducer
     /\ Leave(p)
     /\ UNCHANGED <<g_count, posted>>

JustTask(w) ==
  /\ HandlerReturns(w)
  /\ g_count' = g_count + 1
  /\ UNCHANGED posted

PollAndTerminate ==
  /\ g_count = Total
  /\ OwnerTerminates
  /\ UNCHANGED <<g_count, posted>>

\* The steps of the pool that the test does not constrain.
PoolStep ==
  /\ \/ \E p \in Posters : PostStep(p)
     \/ \E w \in Workers : \/ WorkerStep(w) /\ pc[w] # "run"
                           \/ SpuriousWake(w) \/ Spawn(w)
     \/ OwnerStep
     \/ pc[Owner] = "closing" /\ BeginWaitdone
     \/ Finished
  /\ UNCHANGED <<g_count, posted>>

TestNext ==
  \/ \E p \in Posters : Produce(p)
  \/ \E w \in Workers : JustTask(w)
  \/ PollAndTerminate
  \/ PoolStep

TestSpec == TestInit /\ [][TestNext]_testVars

\* The comment of the test (line 43) on its polling loop, "wait for all
\* producer done": when the loop is over no producer is inside the pool.
ProducersDone ==
  pc[Owner] \in {"closing", "join", "destroy", "gone"} \cup TerminateLabels
    => \A p \in Posters : ~UsesPool(p)
=============================================================================
