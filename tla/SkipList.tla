------------------------------ MODULE SkipList ------------------------------
(***************************************************************************)
(* The skip list of 3_pool/atomic_and_lock-master/skiplist.h: one writer   *)
(* inserts, level by level, while readers search and iterate without       *)
(* locks.  The threads of test_skiplist.cc insert under one mutex; Writer  *)
(* stands for whichever of them holds it.                                  *)
(*                                                                         *)
(* A node is named by its key; Head is head_, whose key is never compared. *)
(* There is one action per load or store of a link or of max_height_.      *)
(* EstimateCount, which is not exact and changes nothing, is left out.     *)
(***************************************************************************)
EXTENDS Integers

CONSTANTS
  Keys,        \* the keys to insert
  Writer,
  Readers,
  MaxHeight,   \* kMaxHeight_
  Head,
  NULL,
  UNSET        \* a link that was allocated and not initialised

Threads == Readers \cup {Writer}
Levels == 0 .. MaxHeight - 1

ASSUME KeysAreNumbers == Keys \subseteq Nat \ {0}
ASSUME HeadIsLowest == Head = 0
ASSUME NoKeyIsNULL == {NULL, UNSET} \cap (Keys \cup {Head}) = {} /\ NULL # UNSET
ASSUME WriterIsNoReader == Writer \notin Readers
ASSUME HeightPositive == MaxHeight \in Nat \ {0}

VARIABLES
  next,         \* next[n][i]: the link of node n at level i
  max_height,
  prev,         \* prev_
  prev_height,
  pc,           \* the next access of each thread
  x,            \* where each thread's search stands, and its result
  level,        \* level in the searches, i in Insert
  stop,         \* last_bigger or last_not_after
  key,          \* the key a thread searches for, or inserts
  height,       \* the height of the node being inserted
  op,           \* the last operation of each reader
  goal,         \* its argument, or the key the iterator stood at
  node,         \* the iterator of each reader
  before,       \* history: the keys present when the operation began
  tower         \* history: the height of each node that is in the list

vars == <<next, max_height, prev, prev_height, pc, x, level, stop, key, height,
          op, goal, node, before, tower>>
shared == <<next, max_height, prev, prev_height, height, tower>>
search == <<x, level, stop, key>>
reader == <<op, goal, node, before>>

\* The nodes of level i: those inserted, and the one being inserted up to the
\* level where it is linked.
OnLevel(i) ==
  {k \in Keys : tower[k] > i /\
     (pc[Writer] \in {"own", "publish"} /\ k = key[Writer] => i < level[Writer])}
Present == OnLevel(0)

Init ==
  /\ next = [n \in Keys \cup {Head} |->
               [i \in Levels |-> IF n = Head THEN NULL ELSE UNSET]]
  /\ max_height = 1
  /\ prev = [i \in Levels |-> Head]
  /\ prev_height = 1
  /\ pc = [t \in Threads |-> "idle"]
  /\ x = [t \in Threads |-> Head]
  /\ level = [t \in Threads |-> 0]
  /\ stop = [t \in Threads |-> NULL]
  /\ key = [t \in Threads |-> Head]
  /\ height = 1
  /\ op = [r \in Readers |-> "none"]
  /\ goal = [r \in Readers |-> Head]
  /\ node = [r \in Readers |-> NULL]
  /\ before = [r \in Readers |-> {}]
  /\ tower = [k \in Keys |-> 0]

Goto(t, from, to) ==
  /\ pc[t] = from
  /\ pc' = [pc EXCEPT ![t] = to]

\* KeyIsAfterNode: NULL stands for infinity.
IsAfter(k, n) == n # NULL /\ n < k

-----------------------------------------------------------------------------
(* The searches.  "geq", "less" and "last" are FindGreaterOrEqual,          *)
(* FindLessThan and FindLast.                                               *)

\* A search begins at head_, on the highest level it knows of.
Begin(t, from, find, k) ==
  /\ Goto(t, from, find)
  /\ x' = [x EXCEPT ![t] = Head]
  /\ level' = [level EXCEPT ![t] = max_height - 1]
  /\ stop' = [stop EXCEPT ![t] = NULL]
  /\ key' = [key EXCEPT ![t] = k]

Link(t) == next[x[t]][level[t]]

Found(t, n, find) ==
  /\ pc' = [pc EXCEPT ![t] = find]
  /\ x' = [x EXCEPT ![t] = n]
  /\ UNCHANGED <<level, stop>>

Onward(t) ==
  /\ x' = [x EXCEPT ![t] = Link(t)]
  /\ UNCHANGED <<pc, level, stop>>

Down(t) ==
  /\ stop' = [stop EXCEPT ![t] = Link(t)]
  /\ level' = [level EXCEPT ![t] = @ - 1]
  /\ UNCHANGED <<pc, x>>

\* Faulty: the search goes past an equal key.
GreaterOrEqualPast(t) ==
  /\ pc[t] = "geq"
  /\ LET n == Link(t) IN
       IF n # stop[t] /\ n # NULL /\ n <= key[t] THEN Onward(t)
       ELSE IF level[t] = 0 THEN Found(t, n, "geq_done")
       ELSE Down(t)
  /\ UNCHANGED <<shared, reader, key>>

\* Faulty: the level stays.
GreaterOrEqualLevel(t) ==
  /\ pc[t] = "geq"
  /\ LET n == Link(t) IN
       IF n # stop[t] /\ n # NULL /\ n < key[t] THEN Onward(t)
       ELSE IF n = key[t] \/ level[t] = 0 THEN Found(t, n, "geq_done")
       ELSE stop' = [stop EXCEPT ![t] = n] /\ UNCHANGED <<pc, x, level>>
  /\ UNCHANGED <<shared, reader, key>>

GreaterOrEqual(t) ==
  /\ pc[t] = "geq"
  /\ LET n == Link(t) IN
       IF n # stop[t] /\ n # NULL /\ n < key[t] THEN Onward(t)
       ELSE IF (n # stop[t] /\ n = key[t]) \/ level[t] = 0
            THEN Found(t, n, "geq_done")
       ELSE Down(t)
  /\ UNCHANGED <<shared, reader, key>>

\* Only Insert asks for the predecessors.
LessThan(t) ==
  /\ pc[t] = "less"
  /\ IF Link(t) # stop[t] /\ IsAfter(key[t], Link(t))
     THEN Onward(t) /\ UNCHANGED prev
     ELSE /\ prev' = IF t = Writer THEN [prev EXCEPT ![level[t]] = x[t]] ELSE prev
          /\ IF level[t] = 0 THEN Found(t, x[t], "less_done") ELSE Down(t)
  /\ UNCHANGED <<next, max_height, prev_height, height, tower, reader, key>>

Last(t) ==
  /\ pc[t] = "last"
  /\ IF Link(t) # NULL THEN Onward(t)
     ELSE IF level[t] = 0 THEN Found(t, x[t], "last_done")
     ELSE level' = [level EXCEPT ![t] = @ - 1] /\ UNCHANGED <<pc, x, stop>>
  /\ UNCHANGED <<shared, reader, key>>

-----------------------------------------------------------------------------
(* Insert *)

\* The key comes right behind the one inserted last.
Fast(k) ==
  /\ ~IsAfter(k, next[prev[0]][0])
  /\ prev[0] = Head \/ IsAfter(k, prev[0])

\* Faulty: prev_ stays as it was for the key inserted last.
FastInsertStale(k) ==
  /\ Fast(k)
  /\ Goto(Writer, "idle", "height")
  /\ key' = [key EXCEPT ![Writer] = k]
  /\ UNCHANGED <<shared, x, level, stop, reader>>

FastInsert(k) ==
  /\ Fast(k)
  /\ Goto(Writer, "idle", "height")
  /\ key' = [key EXCEPT ![Writer] = k]
  /\ prev' = [i \in Levels |-> IF i < prev_height THEN prev[0] ELSE prev[i]]
  /\ UNCHANGED <<next, max_height, prev_height, height, tower, x, level, stop, reader>>

SlowInsert(k) ==
  /\ ~Fast(k)
  /\ Begin(Writer, "idle", "less", k)
  /\ UNCHANGED <<shared, reader>>

\* Nothing that compares equal to the key is in the list (line 78).
Insert(k) == tower[k] = 0 /\ (FastInsert(k) \/ SlowInsert(k))

ChooseHeight(h) ==
  /\ Goto(Writer, "height", "own") \/ Goto(Writer, "less_done", "own")
  /\ prev' = [i \in Levels |-> IF max_height <= i /\ i < h THEN Head ELSE prev[i]]
  /\ max_height' = IF h > max_height THEN h ELSE max_height
  /\ height' = h
  /\ level' = [level EXCEPT ![Writer] = 0]
  /\ tower' = [tower EXCEPT ![key[Writer]] = h]
  /\ UNCHANGED <<next, prev_height, x, stop, key, reader>>

SetOwn ==
  /\ Goto(Writer, "own", "publish")
  /\ LET i == level[Writer] IN
       next' = [next EXCEPT ![key[Writer]][i] = next[prev[i]][i]]
  /\ UNCHANGED <<max_height, prev, prev_height, height, tower, search, reader>>

Publish ==
  /\ LET i == level[Writer]
         last == i = height - 1 IN
       /\ Goto(Writer, "publish", IF last THEN "idle" ELSE "own")
       /\ next' = [next EXCEPT ![prev[i]][i] = key[Writer]]
       /\ level' = [level EXCEPT ![Writer] = i + 1]
       /\ prev' = IF last THEN [prev EXCEPT ![0] = key[Writer]] ELSE prev
       /\ prev_height' = IF last THEN height ELSE prev_height
  /\ UNCHANGED <<max_height, height, tower, x, stop, key, reader>>

-----------------------------------------------------------------------------
(* Contains and the iterator *)

Note(r, o, k) ==
  /\ op' = [op EXCEPT ![r] = o]
  /\ goal' = [goal EXCEPT ![r] = k]
  /\ before' = [before EXCEPT ![r] = Present]

\* Contains, Seek and SeekForPrev begin with the same search.
Seek(r, o, k) ==
  /\ Begin(r, "idle", "geq", k)
  /\ Note(r, o, k)
  /\ UNCHANGED <<shared, node>>

SeekToLast(r) ==
  /\ Begin(r, "idle", "last", Head)
  /\ Note(r, "last", Head)
  /\ UNCHANGED <<shared, node>>

Prev(r) ==
  /\ node[r] # NULL
  /\ Begin(r, "idle", "less", node[r])
  /\ Note(r, "prev", node[r])
  /\ UNCHANGED <<shared, node>>

SeekToFirst(r) ==
  /\ pc[r] = "idle"
  /\ node' = [node EXCEPT ![r] = next[Head][0]]
  /\ Note(r, "next", Head)
  /\ UNCHANGED <<shared, search, pc>>

MoveNext(r) ==
  /\ pc[r] = "idle"
  /\ node[r] # NULL
  /\ node' = [node EXCEPT ![r] = next[node[r]][0]]
  /\ Note(r, "next", node[r])
  /\ UNCHANGED <<shared, search, pc>>

\* What the iterator makes of the result of a search.
Reached(r) == IF x[r] = Head THEN NULL ELSE x[r]

Return(r) ==
  /\ op[r] # "forprev"
  /\ Goto(r, "geq_done", "idle") \/ Goto(r, "less_done", "idle")
       \/ Goto(r, "last_done", "idle")
  /\ node' = IF op[r] = "contains" THEN node ELSE [node EXCEPT ![r] = Reached(r)]
  /\ UNCHANGED <<shared, search, op, goal, before>>

\* Faulty: one step back is taken to be enough.
SeekForPrevOnce(r) ==
  /\ op[r] = "forprev"
  /\ pc[r] \in {"geq_done", "less_done", "last_done"}
  /\ node' = [node EXCEPT ![r] = Reached(r)]
  /\ IF pc[r] = "geq_done" /\ Reached(r) = NULL THEN Begin(r, pc[r], "last", Head)
     ELSE IF pc[r] # "less_done" /\ Reached(r) # NULL /\ goal[r] < x[r]
          THEN Begin(r, pc[r], "less", x[r])
     ELSE Goto(r, pc[r], "idle") /\ UNCHANGED search
  /\ UNCHANGED <<shared, op, goal, before>>

\* Seek to the target, or to the end if nothing is there, and step back while
\* the iterator is beyond the target.
SeekForPrev(r) ==
  /\ op[r] = "forprev"
  /\ pc[r] \in {"geq_done", "less_done", "last_done"}
  /\ node' = [node EXCEPT ![r] = Reached(r)]
  /\ IF pc[r] = "geq_done" /\ Reached(r) = NULL THEN Begin(r, pc[r], "last", Head)
     ELSE IF Reached(r) # NULL /\ goal[r] < x[r] THEN Begin(r, pc[r], "less", x[r])
     ELSE Goto(r, pc[r], "idle") /\ UNCHANGED search
  /\ UNCHANGED <<shared, op, goal, before>>

-----------------------------------------------------------------------------
Write ==
  \/ LessThan(Writer) \/ SetOwn \/ Publish
  \/ \E h \in 1 .. MaxHeight : ChooseHeight(h)

Read(r) ==
  GreaterOrEqual(r) \/ LessThan(r) \/ Last(r) \/ Return(r) \/ SeekForPrev(r)

Call(r) ==
  \/ \E o \in {"contains", "seek", "forprev"}, k \in Keys : Seek(r, o, k)
  \/ SeekToLast(r) \/ SeekToFirst(r) \/ Prev(r) \/ MoveNext(r)

Next ==
  \/ Write
  \/ \E k \in Keys : Insert(k)
  \/ \E r \in Readers : Read(r) \/ Call(r)

Spec == Init /\ [][Next]_vars

\* A thread inside an operation keeps running.
FairSpec == Spec /\ WF_vars(Write) /\ \A r \in Readers : WF_vars(Read(r))

-----------------------------------------------------------------------------
Searches == {"geq", "less", "last"}
Results == {"geq_done", "less_done", "last_done"}

\* The list and the threads at work on it; every level a search looks at exists.
TypeOK ==
  /\ next \in [Keys \cup {Head} -> [Levels -> Keys \cup {NULL, UNSET}]]
  /\ max_height \in 1 .. MaxHeight
  /\ prev \in [Levels -> Keys \cup {Head}]
  /\ prev_height \in 1 .. MaxHeight
  /\ pc \in [Threads -> {"idle", "height", "own", "publish"} \cup Searches \cup Results]
  /\ x \in [Threads -> Keys \cup {Head, NULL}]
  /\ level \in [Threads -> 0 .. MaxHeight]
  /\ \A t \in Threads : pc[t] \in Searches => x[t] # NULL /\ level[t] \in Levels
  /\ stop \in [Threads -> Keys \cup {NULL}]
  /\ key \in [Threads -> Keys \cup {Head}]
  /\ height \in 1 .. MaxHeight
  /\ op \in [Readers -> {"none", "contains", "seek", "forprev", "last", "prev", "next"}]
  /\ goal \in [Readers -> Keys \cup {Head}]
  /\ node \in [Readers -> Keys \cup {NULL}]
  /\ before \in [Readers -> SUBSET Keys]
  /\ tower \in [Keys -> 0 .. MaxHeight]

\* n is the first of S after m, or NULL.
FirstAfter(n, m, S) ==
  IF n = NULL THEN \A k \in S : k <= m
  ELSE n \in S /\ m < n /\ \A k \in S : k <= m \/ n <= k

\* n is the last of S before k, or Head.
LastBefore(n, k, S) ==
  n \in S \cup {Head} /\ n < k /\ \A m \in S : m < k => m <= n

\* At every moment of an insertion each level is a sorted list of exactly the
\* nodes that are linked there, and part of the level below; and prev_ is what
\* lines 148-151 say: outside Insert the predecessors of the node inserted last,
\* and inside, once the search is over, those of the new one.
LevelsAreSorted ==
  /\ TypeOK
  /\ \A i \in Levels :
       /\ \A n \in OnLevel(i) \cup {Head} : FirstAfter(next[n][i], n, OnLevel(i))
       /\ i > 0 => OnLevel(i) \subseteq OnLevel(i - 1)
  /\ pc[Writer] = "idle" =>
       IF prev[0] = Head THEN max_height = 1 /\ prev_height = 1
       ELSE /\ prev_height = tower[prev[0]]
            /\ \A i \in 1 .. max_height - 1 : LastBefore(prev[i], prev[0], OnLevel(i))
  /\ pc[Writer] \in {"own", "publish"} =>
       \A i \in level[Writer] .. max_height - 1 :
         LastBefore(prev[i], key[Writer], OnLevel(i))

\* A search returns a node on the right side of its key, with none of the keys
\* in between that were present when the operation began.  On its way it loads
\* no link that is not set, and the assertions of lines 331, 333, 359 and 360
\* hold also for a reader that overtakes the writer.
SearchesAreRight ==
  /\ \A r \in Readers :
       /\ pc[r] = "geq_done" =>
            /\ x[r] # NULL => key[r] <= x[r] /\ x[r] \in Present
            /\ \A k \in before[r] : key[r] <= k => x[r] # NULL /\ x[r] <= k
       /\ pc[r] = "less_done" =>
            /\ x[r] # Head => x[r] < key[r] /\ x[r] \in Present
            /\ \A k \in before[r] : k < key[r] => k <= x[r]
       /\ pc[r] = "last_done" =>
            /\ x[r] \in Present \cup {Head}
            /\ \A k \in before[r] : k <= x[r]
  /\ \A t \in Threads :
       pc[t] \in Searches =>
         /\ Link(t) # UNSET
         /\ Link(t) # NULL => x[t] < Link(t)
         /\ pc[t] # "last" => x[t] = Head \/ x[t] < key[t]

\* Next (and SeekToFirst) skips no key that was there before, SeekForPrev ends
\* at or before its target and not before a key that was there: iterating
\* beside a writer shows every earlier key, once and in order.
IteratorIsRight ==
  \A r \in Readers :
    pc[r] = "idle" =>
      /\ op[r] = "next" =>
           /\ node[r] # NULL => goal[r] < node[r]
           /\ \A k \in before[r] : goal[r] < k => node[r] # NULL /\ node[r] <= k
      /\ op[r] = "forprev" =>
           /\ node[r] # NULL => node[r] <= goal[r]
           /\ \A k \in before[r] : k <= goal[r] => node[r] # NULL /\ k <= node[r]

\* Every operation of a reader ends, however the writer moves the list.
SearchEnds ==
  \A r \in Readers : pc[r] # "idle" ~> pc[r] = "idle"
=============================================================================
