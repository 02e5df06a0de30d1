------------------------------- MODULE Litmus -------------------------------
(***************************************************************************)
(* What the memory orders in 3_pool/atomic_and_lock-master mean: relaxed,  *)
(* acquire/release and seq_cst in the programs that print z, the counters  *)
(* of autoinc.cc, atomic_demo.cpp and mutex.cpp, the spinlock that both    *)
(* C projects use, in its two forms, and the links of the lock-free lists. *)
(*                                                                         *)
(* The C++ memory model is external.  A location holds all the messages    *)
(* stored to it; a thread's view says how far it knows each location, and  *)
(* a load may return any message from there on.  A message stored with     *)
(* release carries its thread's view, and a load with acquire takes it.    *)
(* Stores come last in the location's order: a location here has one       *)
(* writer, is written by read-modify-writes, or is read after the joins.   *)
(* Loads do not wait for later stores.                                     *)
(***************************************************************************)
EXTENDS Integers, Sequences, FiniteSets, SequencesExt

CONSTANTS
  Kinds,    \* the programs to check
  Rounds    \* how often a loop counts: num of incrby

ASSUME RoundsPositive == Rounds \in Nat \ {0}

Locs == {"x", "y", "z", "count", "lock"}

-----------------------------------------------------------------------------
(* The functions of the threads.  A load or exchange that returns 0 jumps  *)
(* by its zero, any other by its other.                                    *)

Store(loc, val, order) == [op |-> "store", loc |-> loc, val |-> val, order |-> order]
Load(loc, order, zero, other) ==
  [op |-> "load", loc |-> loc, order |-> order, zero |-> zero, other |-> other]
Exchange(zero, other) == [op |-> "exchange", loc |-> "lock", zero |-> zero, other |-> other]
FetchAdd(loc) == [op |-> "fetch_add", loc |-> loc]

\* ++count of an int
Increment == <<[op |-> "read", loc |-> "count"], [op |-> "write", loc |-> "count"]>>

\* Faulty: y does not release x.
WriteXThenYRelaxed(order) == <<Store("x", 1, "relaxed"), Store("y", 1, "relaxed")>>

WriteXThenY(order) == <<Store("x", 1, "relaxed"), Store("y", 1, order)>>

ReadYThenX(order) ==
  <<Load("y", order, 0, 1), Load("x", "relaxed", 2, 1), FetchAdd("z")>>

WriteX == <<Store("x", 1, "seq_cst")>>
WriteY == <<Store("y", 1, "seq_cst")>>

ReadBoth(first, second) ==
  <<Load(first, "seq_cst", 0, 1), Load(second, "seq_cst", 2, 1), FetchAdd("z")>>

\* thread_func1 and thread_func2 of relaxed_test.cc
StoreAll(sign) == [i \in 1 .. Rounds + 1 |-> Store("x", sign * (i - 1), "relaxed")]

\* Test, and test and set again only when it looks free.
SpinlockLock == <<Exchange(2, 1), Load("lock", "relaxed", -1, 0)>>

\* __sync_lock_test_and_set, and pthread_mutex_lock or std::mutex as well
TestAndSetLock == <<Exchange(1, 0)>>

\* Faulty: the store does not release.
SpinlockUnlockRelaxed == <<Store("lock", 0, "relaxed")>>

SpinlockUnlock == <<Store("lock", 0, "release")>>

Locked(lock) == lock \o Increment \o SpinlockUnlock

\* Faulty: the flag is taken as set when it was clear.
TryLockedSwapped ==
  <<Load("lock", "relaxed", 1, 5), Exchange(4, 1)>> \o Increment \o SpinlockUnlock

\* A node is filled in and then linked by Enqueue or SetNext; who meets it through
\* Dequeue or Next reads what is in it.  count is what is in the node, y the link.
PublishNode == <<Increment[2], Store("y", 1, "release")>>
MeetNode == <<Load("y", "acquire", 2, 1), Increment[1]>>

\* spinlock_trylock, and the increment if it succeeds
TryLocked ==
  <<Load("lock", "relaxed", 1, 5), Exchange(1, 4)>> \o Increment \o SpinlockUnlock

Incrby(body) == FlattenSeq([i \in 1 .. Rounds |-> body])

\* The threads that each main starts
Programs ==
  [relaxed         |-> [a |-> WriteXThenY("relaxed"), b |-> ReadYThenX("relaxed")],
   acquire_release |-> [a |-> WriteXThenY("release"), b |-> ReadYThenX("acquire")],
   seq_cst         |-> [a |-> WriteX, b |-> WriteY,
                        c |-> ReadBoth("x", "y"), d |-> ReadBoth("y", "x")],
   relaxed_test    |-> [a |-> StoreAll(1), b |-> StoreAll(-1)],
   spinlock        |-> [t \in {"a", "b", "c"} |-> Incrby(Locked(SpinlockLock))],
   trylock         |-> [a |-> Incrby(Locked(SpinlockLock)), b |-> Incrby(TryLocked)],
   mutex           |-> [t \in {"a", "b", "c"} |-> Incrby(Locked(TestAndSetLock))],
   publish         |-> [a |-> PublishNode, b |-> MeetNode, c |-> MeetNode],
   atomic          |-> [t \in {"a", "b", "c"} |-> Incrby(<<FetchAdd("count")>>)],
   atomic_demo     |-> [a |-> Incrby(<<FetchAdd("z")>>), b |-> Incrby(<<FetchAdd("z")>>),
                        c |-> Incrby(Increment), d |-> Incrby(Increment)]]

ASSUME KindsKnown == Kinds \subseteq DOMAIN Programs

-----------------------------------------------------------------------------
VARIABLES
  kind,
  pc,       \* the position of each thread in its function
  reg,      \* what it read last from count
  view,     \* the position in mem[loc] it knows
  mem,      \* the messages of each location: val, and the view they release
  global    \* the view of the seq_cst operations

vars == <<kind, pc, reg, view, mem, global>>

Threads == DOMAIN Programs[kind]
Function(t) == Programs[kind][t]

Ended(t) == pc[t] > Len(Function(t))
Op(t) == Function(t)[pc[t]]

Nothing == [l \in Locs |-> 1]
Join(v, w) == [l \in Locs |-> Max({v[l], w[l]})]

\* main sets every location before it starts the threads.
Init ==
  /\ kind \in Kinds
  /\ pc = [t \in Threads |-> 1]
  /\ reg = [t \in Threads |-> 0]
  /\ view = [t \in Threads |-> Nothing]
  /\ mem = [l \in Locs |-> <<[val |-> 0, view |-> Nothing]>>]
  /\ global = Nothing

Newest(l) == Len(mem[l])

Jump(t, by) == pc' = [pc EXCEPT ![t] = @ + by]

At(t, ops) == ~Ended(t) /\ Op(t).op \in ops

Doing(t, op) == At(t, {op}) /\ UNCHANGED kind

\* A thread at view v appends a message to l, which carries released.
AppendMessage(t, l, val, v, released) ==
  LET here == [v EXCEPT ![l] = Newest(l) + 1] IN
    /\ mem' = [mem EXCEPT ![l] =
                 Append(@, [val |-> val, view |-> [released EXCEPT ![l] = Newest(l) + 1]])]
    /\ view' = [view EXCEPT ![t] = here]

DoStore(t) ==
  /\ Doing(t, "store")
  /\ LET o == Op(t)
         v == IF o.order = "seq_cst" THEN Join(view[t], global) ELSE view[t] IN
       /\ AppendMessage(t, o.loc, o.val, v, IF o.order = "relaxed" THEN Nothing ELSE v)
       /\ global' = IF o.order = "seq_cst" THEN view'[t] ELSE global
  /\ Jump(t, 1)
  /\ UNCHANGED reg

DoLoad(t) ==
  /\ Doing(t, "load")
  /\ LET o == Op(t)
         v == IF o.order = "seq_cst" THEN Join(view[t], global) ELSE view[t] IN
       \E i \in v[o.loc] .. Newest(o.loc) :
         LET m == mem[o.loc][i]
             w == [v EXCEPT ![o.loc] = i] IN
           /\ view' = [view EXCEPT ![t] = IF o.order = "relaxed" THEN w ELSE Join(w, m.view)]
           /\ global' = IF o.order = "seq_cst" THEN view'[t] ELSE global
           /\ Jump(t, IF m.val = 0 THEN o.zero ELSE o.other)
  /\ UNCHANGED <<reg, mem>>

\* atomic_exchange_explicit of 1, with acquire.  What the last message releases,
\* the new one releases too; over a 1 it would be the same message again.
DoExchange(t) ==
  /\ Doing(t, "exchange")
  /\ LET o == Op(t)
         m == Last(mem[o.loc])
         v == Join([view[t] EXCEPT ![o.loc] = Newest(o.loc)], m.view) IN
       IF m.val = 0
       THEN AppendMessage(t, o.loc, 1, v, m.view) /\ Jump(t, o.zero)
       ELSE view' = [view EXCEPT ![t] = v] /\ UNCHANGED mem /\ Jump(t, o.other)
  /\ UNCHANGED <<reg, global>>

\* fetch_add or ++ of an atomic: seq_cst
DoFetchAdd(t) ==
  /\ Doing(t, "fetch_add")
  /\ LET l == Op(t).loc
         m == Last(mem[l])
         v == Join(Join(view[t], global), m.view) IN
       /\ AppendMessage(t, l, m.val + 1, v, v)
       /\ global' = view'[t]
  /\ Jump(t, 1)
  /\ UNCHANGED reg

\* A plain read beside a write may see what is old.
DoRead(t) ==
  /\ Doing(t, "read")
  /\ \E i \in view[t]["count"] .. Newest("count") :
       /\ reg' = [reg EXCEPT ![t] = mem["count"][i].val]
       /\ view' = [view EXCEPT ![t]["count"] = i]
  /\ Jump(t, 1)
  /\ UNCHANGED <<mem, global>>

DoWrite(t) ==
  /\ Doing(t, "write")
  /\ AppendMessage(t, "count", reg[t] + 1, view[t], Nothing)
  /\ Jump(t, 1)
  /\ UNCHANGED <<reg, global>>

Step(t) ==
  DoStore(t) \/ DoLoad(t) \/ DoExchange(t) \/ DoFetchAdd(t) \/ DoRead(t) \/ DoWrite(t)

Next == \E t \in Threads : Step(t)

Spec == Init /\ [][Next]_vars

\* Every thread runs on, and a load does not for ever return what is old.
FairSpec == Spec /\ \A t \in {"a", "b", "c", "d"} : WF_vars(t \in Threads /\ Step(t))

-----------------------------------------------------------------------------
TypeOK ==
  /\ kind \in Kinds
  /\ \A t \in Threads : pc[t] \in 1 .. Len(Function(t)) + 1
  /\ \A t \in Threads, l \in Locs : view[t][l] \in 1 .. Newest(l)
  /\ \A l \in Locs : \A i \in 1 .. Newest(l), k \in Locs : mem[l][i].view[k] \in 1 .. Newest(k)

Joined == \A t \in Threads : Ended(t)

\* What main reads after the joins
Final(l) == Last(mem[l]).val

\* With acquire and release z is 1, with seq_cst it is not 0 (acquire_release.cc:21,
\* seq_cst.cc:41).  No increment under a lock or of an atomic is lost
\* (autoinc.cc:64).  What two threads store relaxed ends with the last of one.
FinalValues ==
  /\ TypeOK
  /\ Joined =>
       CASE kind = "acquire_release" -> Final("z") = 1
         [] kind = "seq_cst" -> Final("z") \in {1, 2}
         [] kind = "relaxed_test" -> Final("x") \in {Rounds, -Rounds}
         [] kind \in {"spinlock", "mutex", "atomic"} ->
              Final("count") = Rounds * Cardinality(Threads)
         [] kind = "trylock" -> Final("count") \in Rounds .. 2 * Rounds
         [] kind = "atomic_demo" -> Final("z") = 2 * Rounds
         [] OTHER -> Final("z") \in {0, 1}

\* An increment under a lock is ordered with every other, and what a linked node
\* holds was written before it is read: who is at an access knows all the earlier
\* writes, and nobody is at a write beside it.
NoDataRace ==
  kind \in {"spinlock", "trylock", "mutex", "publish"} =>
    \A t \in Threads : At(t, {"read", "write"}) =>
      /\ view[t]["count"] = Newest("count")
      /\ \A u \in Threads \ {t} :
           /\ ~At(u, {"write"})
           /\ At(t, {"write"}) => ~At(u, {"read"})

\* No lock is left behind and no flag is missed: every main joins its threads.
EveryThreadEnds == <>Joined
=============================================================================
