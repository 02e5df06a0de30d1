--------------------------- MODULE SkipListProofs ---------------------------
(***************************************************************************)
(* Every level of the skip list is sorted at every moment of an insertion, *)
(* and what readers find beside the writer is right, for any set of keys,  *)
(* any number of readers and any height.                                   *)
(***************************************************************************)
EXTENDS SkipList, TLAPS

Inserting == pc[Writer] \in {"own", "publish"}

\* Each level is a sorted list, part of the level below.
Linked ==
  /\ \A i \in Levels, n \in Keys \cup {Head} :
       n \in OnLevel(i) \cup {Head} => FirstAfter(next[n][i], n, OnLevel(i))
  /\ \A i \in Levels : i > 0 => OnLevel(i) \subseteq OnLevel(i - 1)

\* Where the writer is, and how high the list is.
Towers ==
  /\ pc[Writer] \in {"idle", "less", "less_done", "height", "own", "publish"}
  /\ \A k \in Keys : tower[k] <= max_height
  /\ pc[Writer] # "idle" => key[Writer] \in Keys
  /\ pc[Writer] \in {"less", "less_done", "height"} => tower[key[Writer]] = 0
  /\ Inserting => tower[key[Writer]] = height /\ level[Writer] \in 0 .. height - 1

\* prev_ at level i, as far as Insert has computed it: outside Insert for the
\* node inserted last, in LessThan above the level of the search.
Preds ==
  /\ pc[Writer] = "idle" =>
       IF prev[0] = Head THEN max_height = 1 /\ prev_height = 1
       ELSE /\ prev_height = tower[prev[0]]
            /\ \A i \in 1 .. max_height - 1 : LastBefore(prev[i], prev[0], OnLevel(i))
  /\ pc[Writer] \in {"height", "less_done", "own", "publish"} =>
       \A i \in 0 .. max_height - 1 : LastBefore(prev[i], key[Writer], OnLevel(i))
  /\ pc[Writer] = "less" =>
       /\ level[Writer] \in 0 .. max_height - 1
       /\ \A i \in level[Writer] + 1 .. max_height - 1 :
            LastBefore(prev[i], key[Writer], OnLevel(i))
       /\ x[Writer] \in OnLevel(level[Writer]) \cup {Head} /\ x[Writer] < key[Writer]
       /\ stop[Writer] # NULL => stop[Writer] >= key[Writer]
  /\ pc[Writer] = "publish" =>
       next[key[Writer]][level[Writer]] = next[prev[level[Writer]]][level[Writer]]

ListInv == TypeOK /\ Linked /\ Towers /\ Preds

\* Where a reader's search stands: before its key, on a level whose nodes are
\* linked, with all that is beyond the key out of the way.
Standing(r) ==
  /\ pc[r] \in {"idle"} \cup Searches \cup Results
  /\ pc[r] \in Searches => x[r] \in OnLevel(level[r]) \cup {Head}
  /\ pc[r] \in {"geq", "less"} => x[r] < key[r]
  /\ pc[r] = "geq" /\ stop[r] # NULL => stop[r] > key[r]
  /\ pc[r] = "less" /\ stop[r] # NULL => stop[r] >= key[r]
  /\ before[r] \subseteq Present
  /\ node[r] # NULL => node[r] \in Present

\* What the search is for.
Asked(r) ==
  /\ pc[r] # "idle" => op[r] \notin {"none", "next"}
  /\ op[r] = "forprev" /\ pc[r] \in {"geq", "geq_done"} => key[r] = goal[r]
  /\ op[r] = "forprev" /\ pc[r] \in {"less", "less_done"} => goal[r] < key[r]
  /\ pc[r] \in {"geq", "geq_done"} => key[r] \in Keys

\* What it has found.
Arrived(r) ==
  /\ pc[r] = "geq_done" =>
       /\ x[r] # NULL => key[r] <= x[r] /\ x[r] \in Present
       /\ \A k \in before[r] : key[r] <= k => x[r] # NULL /\ x[r] <= k
  /\ pc[r] = "less_done" =>
       /\ x[r] # Head => x[r] < key[r] /\ x[r] \in Present
       /\ \A k \in before[r] : k < key[r] => k <= x[r]
  /\ pc[r] = "last_done" =>
       /\ x[r] \in Present \cup {Head}
       /\ \A k \in before[r] : k <= x[r]

\* Where the iterator is when the operation is over.
Iterated(r) ==
  pc[r] = "idle" =>
    /\ op[r] = "next" =>
         /\ node[r] # NULL => goal[r] < node[r]
         /\ \A k \in before[r] : goal[r] < k => node[r] # NULL /\ node[r] <= k
    /\ op[r] = "forprev" =>
         /\ node[r] # NULL => node[r] <= goal[r]
         /\ \A k \in before[r] : k <= goal[r] => node[r] # NULL /\ k <= node[r]

ReaderOK(r) == Standing(r) /\ Asked(r) /\ Arrived(r) /\ Iterated(r)

Inv == ListInv /\ \A r \in Readers : ReaderOK(r)

\* Nothing the readers' searches stand on is taken away, and the reader does not move.
Undisturbed(r) ==
  /\ \A i \in Levels : OnLevel(i) \subseteq OnLevel(i)'
  /\ pc'[r] = pc[r] /\ x'[r] = x[r] /\ level'[r] = level[r]
  /\ stop'[r] = stop[r] /\ key'[r] = key[r]
  /\ op'[r] = op[r] /\ goal'[r] = goal[r] /\ node'[r] = node[r]
  /\ before'[r] = before[r]

\* What a step of a reader leaves alone.
WriterStays ==
  /\ UNCHANGED shared
  /\ pc'[Writer] = pc[Writer] /\ x'[Writer] = x[Writer]
  /\ level'[Writer] = level[Writer] /\ stop'[Writer] = stop[Writer]
  /\ key'[Writer] = key[Writer]

\* What a step of reader r leaves alone.
OthersStay(r) == \A s \in Readers \ {r} :
  /\ pc'[s] = pc[s] /\ x'[s] = x[s] /\ level'[s] = level[s]
  /\ stop'[s] = stop[s] /\ key'[s] = key[s]
  /\ op'[s] = op[s] /\ goal'[s] = goal[s] /\ node'[s] = node[s]
  /\ before'[s] = before[s]

-----------------------------------------------------------------------------
(* Sorted sets of keys *)

LEMMA Numbers ==
  /\ \A k \in Keys : k \in Nat /\ k > 0 /\ k # NULL /\ k # UNSET /\ k # Head
  /\ Head \in Nat /\ Head = 0 /\ Head # NULL
  /\ NULL # UNSET
BY KeysAreNumbers, HeadIsLowest, NoKeyIsNULL

\* Linking k behind the last node before it keeps a level sorted (Publish).
LEMMA AddAfter ==
  ASSUME NEW S \in SUBSET Keys, NEW k \in Keys, NEW p, NEW f, NEW g,
         k \notin S, LastBefore(p, k, S),
         \A n \in S \cup {Head} : FirstAfter(f[n], n, S),
         \A n \in S \cup {Head} : n # p => g[n] = f[n],
         g[p] = k, g[k] = f[p]
  PROVE  \A n \in S \cup {k, Head} : FirstAfter(g[n], n, S \cup {k})
<1> USE Numbers DEF LastBefore, FirstAfter
<1> SUFFICES ASSUME NEW n \in S \cup {k, Head}
             PROVE  FirstAfter(g[n], n, S \cup {k})
  OBVIOUS
<1>0. /\ p \in S \cup {Head} /\ p \in Nat /\ p < k /\ p >= 0
      /\ \A m \in S : m \in Nat /\ m > 0
      /\ k \in Nat /\ k > 0 /\ k # NULL /\ Head = 0
      /\ \A m \in S : m < k => m <= p
  OBVIOUS
<1>1. CASE n = p
  BY <1>1
<1>2. CASE n = k
  <2>1. CASE f[p] = NULL
    BY <1>0, <1>2, <2>1
  <2>2. CASE f[p] # NULL
    <3>1. f[p] \in S /\ p < f[p] /\ \A m \in S : m <= p \/ f[p] <= m
      BY <1>0, <2>2
    <3>2. k < f[p]
      <4>1. f[p] \in Nat /\ f[p] # k /\ ~(f[p] <= p)
        <5>1. f[p] \in Nat /\ f[p] # k
          BY <1>0, <3>1
        <5>2. QED BY ONLY <1>0, <3>1, <5>1
      <4>2. ~(f[p] < k)
        BY <1>0, <3>1, <4>1
      <4>3. QED BY <1>0, <4>1, <4>2
    <3>3. \A m \in S \cup {k} : m <= k \/ f[p] <= m
      BY <1>0, <3>1
    <3>4. QED BY <1>2, <2>2, <3>1, <3>2, <3>3
  <2>3. QED BY <2>1, <2>2
<1>3. CASE n # p /\ n # k
  <2>1. n \in S \cup {Head} /\ g[n] = f[n] /\ FirstAfter(f[n], n, S)
    BY <1>3
  <2>2. CASE n < k
    <3>1. n < p /\ p \in S
      BY <1>0, <1>3, <2>1, <2>2
    <3>2. f[n] # NULL /\ f[n] \in S /\ n < f[n] /\ \A m \in S : m <= n \/ f[n] <= m
      BY <1>0, <2>1, <3>1
    <3>3. f[n] <= p
      BY <1>0, <3>1, <3>2
    <3>4. f[n] \in Nat /\ n \in Nat /\ f[n] <= k
      <4>1. f[n] \in Nat /\ n \in Nat
        BY <1>0, <2>1, <3>2
      <4>2. QED BY ONLY <1>0, <3>3, <4>1
    <3>5. \A m \in S \cup {k} : m <= n \/ f[n] <= m
      BY <3>2, <3>4
    <3>6. QED BY <2>1, <3>2, <3>5
  <2>3. CASE k < n
    BY <1>0, <2>1, <2>3
  <2>4. QED BY <1>0, <1>3, <2>1, <2>2, <2>3
<1>4. QED BY <1>1, <1>2, <1>3

\* Where no link leads to a smaller key than k, a search for k ends (FindLessThan).
LEMMA EndOfSearch ==
  ASSUME NEW S \in SUBSET Keys, NEW k \in Keys \cup {Head}, NEW p \in S \cup {Head}, NEW n,
         FirstAfter(n, p, S), p < k, n # NULL => n >= k
  PROVE  LastBefore(p, k, S)
<1> USE Numbers DEF LastBefore, FirstAfter
<1>1. ASSUME NEW m \in S, m < k
      PROVE  m <= p
  <2>1. m \in Nat /\ k \in Nat /\ p \in Nat
    OBVIOUS
  <2>2. CASE n = NULL
    BY <2>2
  <2>3. CASE n # NULL
    <3>1. n \in Nat /\ n >= k /\ (m <= p \/ n <= m)
      BY <2>3
    <3>2. QED BY <1>1, <2>1, <3>1
  <2>4. QED BY <2>2, <2>3
<1>2. QED BY <1>1

\* The nodes of a level are in the list.
LEMMA LevelIsPresent ==
  ASSUME TypeOK, NEW i \in Levels
  PROVE  /\ OnLevel(i) \subseteq Present
         /\ OnLevel(i) \subseteq Keys
BY HeightPositive DEF TypeOK, OnLevel, Present, Levels, Threads

-----------------------------------------------------------------------------
(* The lists *)

LEMMA InitInv == Init => Inv
<1> USE KeysAreNumbers, HeadIsLowest, NoKeyIsNULL, WriterIsNoReader, HeightPositive
<1> SUFFICES ASSUME Init PROVE Inv
  OBVIOUS
<1>1. TypeOK
  BY DEF Init, TypeOK, Threads, Levels, Searches, Results
<1>2. \A i \in Levels : OnLevel(i) = {}
  BY DEF Init, OnLevel, Threads, Levels
<1>3. Linked
  BY <1>2 DEF Init, Linked, FirstAfter, Levels
<1>4. Towers
  BY DEF Init, Towers, Threads, Inserting
<1>5. Preds
  BY DEF Init, Preds, Threads, Levels
<1>6. \A r \in Readers : ReaderOK(r)
  BY <1>2 DEF Init, ReaderOK, Standing, Asked, Arrived, Iterated, Threads, Searches, Results
<1>7. QED BY <1>1, <1>3, <1>4, <1>5, <1>6 DEF Inv, ListInv

\* A step of a reader leaves the lists as they are.
LEMMA ListKept ==
  ASSUME ListInv, TypeOK', WriterStays
  PROVE  ListInv' /\ \A i \in Levels : OnLevel(i)' = OnLevel(i)
<1> USE DEF WriterStays, shared
<1>1. \A i \in Levels : OnLevel(i)' = OnLevel(i)
  BY DEF OnLevel
<1>2. Linked'
  <2>1. ASSUME NEW i \in Levels, NEW n \in Keys \cup {Head}, n \in OnLevel(i)' \cup {Head}
        PROVE  FirstAfter(next[n][i], n, OnLevel(i))'
    BY <1>1, <2>1 DEF ListInv, Linked, FirstAfter
  <2>2. ASSUME NEW i \in Levels, i > 0
        PROVE  OnLevel(i)' \subseteq OnLevel(i - 1)'
    BY <1>1, <2>2, HeightPositive DEF ListInv, Linked, Levels
  <2>3. QED BY <2>1, <2>2 DEF Linked
<1>3. Towers'
  BY DEF ListInv, Towers, Inserting
<1>4. Preds'
  <2>1. \A i \in 0 .. max_height - 1 : OnLevel(i)' = OnLevel(i)
    BY <1>1, HeightPositive DEF ListInv, TypeOK, Levels
  <2>2. pc[Writer] = "less" => OnLevel(level[Writer])' = OnLevel(level[Writer])
    BY <1>1, HeightPositive DEF ListInv, Preds, TypeOK, Levels
  <2>3. QED BY <2>1, <2>2, HeightPositive DEF ListInv, Preds, TypeOK, Levels, LastBefore
<1>5. QED BY <1>1, <1>2, <1>3, <1>4 DEF ListInv

\* A reader that does not move loses nothing when the lists grow.
LEMMA ReaderKept ==
  ASSUME Inv, NEW r \in Readers, Undisturbed(r)
  PROVE  ReaderOK(r)'
<1> USE DEF Undisturbed
<1>1. Present \subseteq Present'
  BY HeightPositive DEF Present, Levels
<1>2. pc[r] \in Searches => level[r] \in Levels
  BY DEF Inv, ListInv, TypeOK, Threads
<1>3. Standing(r)'
  BY <1>1, <1>2 DEF Inv, ReaderOK, Standing
<1>4. Asked(r)'
  BY DEF Inv, ReaderOK, Asked
<1>5. Arrived(r)'
  BY <1>1 DEF Inv, ReaderOK, Arrived
<1>6. Iterated(r)'
  BY DEF Inv, ReaderOK, Iterated
<1>7. QED BY <1>3, <1>4, <1>5, <1>6 DEF ReaderOK

-----------------------------------------------------------------------------
(* The writer *)

\* Only Publish changes what is on a level, and it adds the new node to one.
LEMMA LevelsGrow ==
  ASSUME Inv, TypeOK'
  PROVE  /\ \A k \in Keys : Insert(k) => \A i \in Levels : OnLevel(i)' = OnLevel(i)
         /\ LessThan(Writer) => \A i \in Levels : OnLevel(i)' = OnLevel(i)
         /\ \A h \in 1 .. MaxHeight : ChooseHeight(h) =>
              \A i \in Levels : OnLevel(i)' = OnLevel(i)
         /\ SetOwn => \A i \in Levels : OnLevel(i)' = OnLevel(i)
         /\ Publish => \A i \in Levels : OnLevel(i)' =
              IF i = level[Writer] THEN OnLevel(i) \cup {key[Writer]} ELSE OnLevel(i)
<1> USE HeightPositive DEF Inv, ListInv, OnLevel, Goto, Threads, Levels, TypeOK
<1>1. ASSUME NEW k \in Keys, Insert(k), NEW i \in Levels
      PROVE  OnLevel(i)' = OnLevel(i)
  <2>1. CASE FastInsert(k)
    BY <2>1 DEF FastInsert
  <2>2. CASE SlowInsert(k)
    BY <2>2 DEF SlowInsert, Begin, shared
  <2>3. QED BY <1>1, <2>1, <2>2 DEF Insert
<1>2. ASSUME LessThan(Writer), NEW i \in Levels
      PROVE  OnLevel(i)' = OnLevel(i)
  BY <1>2 DEF LessThan, Found, Onward, Down
<1>3. ASSUME NEW h \in 1 .. MaxHeight, ChooseHeight(h), NEW i \in Levels
      PROVE  OnLevel(i)' = OnLevel(i)
  BY <1>3 DEF ChooseHeight, Towers
<1>4. ASSUME SetOwn, NEW i \in Levels
      PROVE  OnLevel(i)' = OnLevel(i)
  BY <1>4 DEF SetOwn, search
<1>5. ASSUME Publish, NEW i \in Levels
      PROVE  OnLevel(i)' = IF i = level[Writer] THEN OnLevel(i) \cup {key[Writer]}
                           ELSE OnLevel(i)
  BY <1>5 DEF Publish, Towers, Inserting
<1>6. QED BY <1>1, <1>2, <1>3, <1>4, <1>5

\* The writer's steps move no reader.
LEMMA ReadersKept ==
  ASSUME Inv, TypeOK', NEW r \in Readers,
         (\E k \in Keys : Insert(k)) \/ Write
  PROVE  ReaderOK(r)'
<1>1. \A i \in Levels : OnLevel(i) \subseteq OnLevel(i)'
  BY LevelsGrow DEF Write
<1> DEFINE Stays == /\ pc'[r] = pc[r] /\ x'[r] = x[r] /\ level'[r] = level[r]
                    /\ stop'[r] = stop[r] /\ key'[r] = key[r]
                    /\ UNCHANGED reader
<1>2. Stays
  <2> USE WriterIsNoReader DEF Inv, ListInv, TypeOK, Threads, Goto, search
  <2>1. ASSUME NEW k \in Keys, FastInsert(k) PROVE Stays
    BY <2>1 DEF FastInsert
  <2>2. ASSUME NEW k \in Keys, SlowInsert(k) PROVE Stays
    BY <2>2 DEF SlowInsert, Begin
  <2>3. ASSUME LessThan(Writer) PROVE Stays
    BY <2>3 DEF LessThan, Found, Onward, Down
  <2>4. ASSUME NEW h \in 1 .. MaxHeight, ChooseHeight(h) PROVE Stays
    BY <2>4 DEF ChooseHeight
  <2>5. ASSUME SetOwn PROVE Stays
    BY <2>5 DEF SetOwn
  <2>6. ASSUME Publish PROVE Stays
    BY <2>6 DEF Publish
  <2>7. QED BY <2>1, <2>2, <2>3, <2>4, <2>5, <2>6 DEF Insert, Write
<1>3. Undisturbed(r)
  BY <1>1, <1>2 DEF Undisturbed, reader
<1>4. QED BY <1>3, ReaderKept

\* The new key is not on the level where it is linked next, and goes behind prev_.
LEMMA ToLink ==
  ASSUME ListInv, Inserting
  PROVE  LET i == level[Writer] k == key[Writer] IN
         /\ i \in Levels /\ i \in 0 .. max_height - 1 /\ k \in Keys
         /\ k \notin OnLevel(i)
         /\ prev[i] \in OnLevel(i) \cup {Head} /\ prev[i] # k
         /\ LastBefore(prev[i], k, OnLevel(i))
<1> USE Numbers DEF ListInv, Inserting
<1>1. /\ level[Writer] \in Levels /\ level[Writer] \in 0 .. max_height - 1
      /\ key[Writer] \in Keys
  BY HeightPositive DEF Towers, TypeOK, Levels, Threads
<1>2. key[Writer] \notin OnLevel(level[Writer])
  BY <1>1 DEF OnLevel, Levels
<1>3. LastBefore(prev[level[Writer]], key[Writer], OnLevel(level[Writer]))
  BY <1>1 DEF Preds
<1>4. QED BY <1>1, <1>2, <1>3 DEF LastBefore

LEMMA SetOwnKeeps ==
  ASSUME Inv, SetOwn
  PROVE  ListInv'
<1> DEFINE i == level[Writer]
           k == key[Writer]
<1> USE DEF ListInv
<1>0. ListInv /\ Inserting
  BY DEF Inv, SetOwn, Goto, Inserting
<1>1. /\ i \in Levels /\ i \in 0 .. max_height - 1 /\ k \in Keys /\ k \notin OnLevel(i)
      /\ prev[i] \in OnLevel(i) \cup {Head} /\ prev[i] # k
  BY <1>0, ToLink
<1>2. TypeOK'
  BY <1>0, <1>1 DEF SetOwn, TypeOK, Goto, search, reader, Threads, Searches
<1>3. \A j \in Levels : OnLevel(j)' = OnLevel(j)
  BY <1>2, LevelsGrow
<1>4. \A n \in Keys \cup {Head}, j \in Levels :
        ~(n = k /\ j = i) => next'[n][j] = next[n][j]
  BY <1>0, <1>1 DEF SetOwn, TypeOK
<1>5. Linked'
  <2>1. ASSUME NEW j \in Levels, NEW n \in Keys \cup {Head}, n \in OnLevel(j)' \cup {Head}
        PROVE  FirstAfter(next[n][j], n, OnLevel(j))'
    <3>1. ~(n = k /\ j = i)
      BY <1>1, <1>3, <2>1, Numbers
    <3>2. FirstAfter(next[n][j], n, OnLevel(j))
      BY <1>0, <1>3, <2>1 DEF Linked
    <3>3. QED BY <1>3, <1>4, <3>1, <3>2 DEF FirstAfter
  <2>2. ASSUME NEW j \in Levels, j > 0
        PROVE  OnLevel(j)' \subseteq OnLevel(j - 1)'
    BY <1>0, <1>3, <2>2, HeightPositive DEF Linked, Levels
  <2>3. QED BY <2>1, <2>2 DEF Linked
<1>6. Towers'
  BY <1>0 DEF SetOwn, Towers, Goto, Inserting, search, TypeOK, Threads
<1>7. Preds'
  <2>1. pc'[Writer] = "publish" /\ UNCHANGED <<max_height, prev, key, level>>
    BY <1>0 DEF SetOwn, Goto, search, TypeOK, Threads
  <2>2. \A j \in 0 .. max_height - 1 : LastBefore(prev[j], k, OnLevel(j))
    BY <1>0 DEF Preds, Inserting
  <2>3. \A j \in 0 .. max_height - 1 : OnLevel(j)' = OnLevel(j)
    BY <1>0, <1>3, HeightPositive DEF TypeOK, Levels
  <2>4. next'[k][i] = next[prev[i]][i]
    BY <1>0, <1>1 DEF SetOwn, TypeOK
  <2>5. next'[prev[i]][i] = next[prev[i]][i]
    BY <1>0, <1>1, <1>4, Numbers DEF TypeOK
  <2>6. QED BY <2>1, <2>2, <2>3, <2>4, <2>5 DEF Preds, LastBefore
<1>8. QED BY <1>2, <1>5, <1>6, <1>7

LEMMA PublishKeeps ==
  ASSUME Inv, Publish
  PROVE  ListInv'
<1> DEFINE i == level[Writer]
           k == key[Writer]
           p == prev[i]
<1> USE DEF ListInv
<1>0. ListInv /\ Inserting
  BY DEF Inv, Publish, Goto, Inserting
<1>1. /\ i \in Levels /\ i \in 0 .. max_height - 1 /\ k \in Keys /\ k \notin OnLevel(i)
      /\ p \in OnLevel(i) \cup {Head} /\ p # k /\ LastBefore(p, k, OnLevel(i))
  BY <1>0, ToLink
<1>2. i \in 0 .. height - 1 /\ height = tower[k] /\ height <= max_height
  BY <1>0, <1>1 DEF Towers
<1>3. TypeOK'
  BY <1>0, <1>1, <1>2, HeightPositive DEF Publish, TypeOK, Goto, reader, Threads, Searches, Levels
<1>4. \A j \in Levels : OnLevel(j)' = IF j = i THEN OnLevel(j) \cup {k} ELSE OnLevel(j)
  BY <1>3, LevelsGrow
<1>5. /\ \A n \in Keys \cup {Head}, j \in Levels :
           ~(n = p /\ j = i) => next'[n][j] = next[n][j]
      /\ next'[p][i] = k /\ p \in Keys \cup {Head}
  BY <1>0, <1>1 DEF Publish, TypeOK
<1>6. \A j \in Levels : OnLevel(j) \subseteq Keys
  BY <1>0, LevelIsPresent
<1>7. Linked'
  <2>1. \A n \in OnLevel(i) \cup {k, Head} : FirstAfter(next'[n][i], n, OnLevel(i) \cup {k})
    <3> DEFINE f == [n \in Keys \cup {Head} |-> next[n][i]]
               g == [n \in Keys \cup {Head} |-> next'[n][i]]
               S == OnLevel(i)
    <3>1. S \in SUBSET Keys /\ k \in Keys /\ k \notin S /\ LastBefore(p, k, S)
      BY <1>1, <1>6
    <3>2. \A n \in S \cup {Head} : FirstAfter(f[n], n, S)
      BY <1>0, <1>1, <3>1 DEF Linked
    <3>3. \A n \in S \cup {Head} : n # p => g[n] = f[n]
      BY <1>1, <1>5, <3>1
    <3>4. g[p] = k
      BY <1>5
    <3>5. g[k] = f[p]
      <4>1. next[k][i] = next[p][i]
        BY <1>0 DEF Preds, Publish, Goto
      <4>2. QED BY <1>1, <1>5, <4>1
    <3> HIDE DEF f, g, S
    <3>6. \A n \in S \cup {k, Head} : FirstAfter(g[n], n, S \cup {k})
      BY <3>1, <3>2, <3>3, <3>4, <3>5, AddAfter
    <3>7. QED BY <3>1, <3>6 DEF f, g, S
  <2>2. ASSUME NEW j \in Levels, NEW n \in Keys \cup {Head}, n \in OnLevel(j)' \cup {Head}
        PROVE  FirstAfter(next[n][j], n, OnLevel(j))'
    <3>1. CASE j = i
      BY <1>1, <1>4, <2>1, <2>2, <3>1
    <3>2. CASE j # i
      <4>1. n \in OnLevel(j) \cup {Head} /\ OnLevel(j)' = OnLevel(j) /\ next'[n][j] = next[n][j]
        BY <1>4, <1>5, <2>2, <3>2
      <4>2. FirstAfter(next[n][j], n, OnLevel(j))
        BY <1>0, <4>1 DEF Linked
      <4>3. QED BY <4>1, <4>2 DEF FirstAfter
    <3>3. QED BY <3>1, <3>2
  <2>3. ASSUME NEW j \in Levels, j > 0
        PROVE  OnLevel(j)' \subseteq OnLevel(j - 1)'
    <3>1. j - 1 \in Levels /\ OnLevel(j) \subseteq OnLevel(j - 1)
      BY <1>0, <2>3, HeightPositive DEF Linked, Levels
    <3>2. j = i => k \in OnLevel(j - 1)
      <4>1. height \in Nat /\ i \in Nat /\ MaxHeight \in Nat
        BY <1>0, <1>1, HeightPositive DEF TypeOK, Levels
      <4>2. j = i => tower[k] > j - 1 /\ j - 1 < i
        BY <1>2, <2>3, <4>1
      <4>3. QED BY <1>1, <4>2 DEF OnLevel
    <3>3. QED BY <1>4, <2>3, <3>1, <3>2
  <2>4. QED BY <2>2, <2>3 DEF Linked
<1>8. Towers'
  BY <1>0, <1>1, <1>2, HeightPositive DEF Publish, Towers, Goto, Inserting, TypeOK, Threads, Levels
<1>9. Preds'
  <2>1. \A j \in 0 .. max_height - 1 : LastBefore(prev[j], k, OnLevel(j))
    BY <1>0 DEF Preds, Inserting
  <2>2. \A j \in 0 .. max_height - 1 : j \in Levels
    BY <1>0, HeightPositive DEF TypeOK, Levels
  <2>3. ASSUME NEW j \in 0 .. max_height - 1
        PROVE  LastBefore(prev[j], k, OnLevel(j)')
    BY <1>1, <1>4, <1>6, <2>1, <2>2, <2>3, Numbers DEF LastBefore
  <2>4. CASE i = height - 1
    <3>1. /\ pc'[Writer] = "idle" /\ max_height' = max_height
          /\ prev' = [prev EXCEPT ![0] = k] /\ prev_height' = height /\ tower' = tower
      BY <1>0, <2>4 DEF Publish, Goto, TypeOK, Threads
    <3>2. prev'[0] = k /\ \A j \in 1 .. max_height - 1 : prev'[j] = prev[j]
      BY <1>0, <2>2, <3>1, HeightPositive DEF TypeOK, Levels
    <3>3. \A j \in 1 .. max_height - 1 : LastBefore(prev'[j], prev'[0], OnLevel(j)')
      BY <1>0, <2>3, <3>2 DEF TypeOK
    <3>4. QED BY <1>1, <1>2, <3>1, <3>2, <3>3, Numbers DEF Preds, LastBefore
  <2>5. CASE i # height - 1
    <3>1. /\ pc'[Writer] = "own" /\ UNCHANGED <<max_height, prev, key>>
      BY <1>0, <2>5 DEF Publish, Goto, TypeOK, Threads
    <3>2. QED BY <2>3, <3>1 DEF Preds, LastBefore
  <2>6. QED BY <2>4, <2>5
<1>10. QED BY <1>3, <1>7, <1>8, <1>9

\* The node inserted last is the predecessor of a key that comes right behind it.
LEMMA FastIsRight ==
  ASSUME Inv, TypeOK', NEW k \in Keys, FastInsert(k), pc[Writer] = "idle",
         NEW i \in 0 .. max_height - 1
  PROVE  LastBefore(prev'[i], k, OnLevel(i))
<1> DEFINE p == prev[0]
<1> USE Numbers
<1>0. /\ TypeOK /\ Linked /\ Towers /\ Preds
      /\ i \in Levels /\ 0 \in Levels /\ OnLevel(i) \subseteq Keys /\ OnLevel(0) \subseteq Keys
      /\ OnLevel(i) \subseteq OnLevel(0)
      /\ prev'[i] = IF i < prev_height THEN p ELSE prev[i]
  BY LevelIsPresent, HeightPositive DEF Inv, ListInv, TypeOK, Levels, FastInsert, Present
<1>1. p \in OnLevel(0) \cup {Head}
  BY <1>0, HeightPositive DEF Preds, OnLevel, TypeOK, Levels
<1>2. LastBefore(p, k, OnLevel(0))
  <2>1. FirstAfter(next[p][0], p, OnLevel(0))
    BY <1>0, <1>1 DEF Linked
  <2>2. p < k
    BY <1>1 DEF FastInsert, Fast, IsAfter
  <2>3. next[p][0] # NULL => next[p][0] \in Nat /\ next[p][0] >= k
    BY <1>0, <2>1 DEF FastInsert, Fast, IsAfter, FirstAfter
  <2>4. QED BY <1>0, <1>1, <2>1, <2>2, <2>3, EndOfSearch
<1>3. CASE p = Head
  <2>1. i = 0 /\ prev'[i] = p
    BY <1>0, <1>3 DEF Preds, TypeOK
  <2>2. QED BY <1>2, <2>1
<1>4. CASE p # Head /\ i < prev_height
  <2>1. p \in OnLevel(i)
    BY <1>0, <1>1, <1>4 DEF Preds, OnLevel
  <2>2. QED BY <1>0, <1>2, <1>4, <2>1 DEF LastBefore
<1>5. CASE p # Head /\ ~(i < prev_height)
  <2>1. /\ p \in Keys /\ tower[p] = prev_height /\ prev_height >= 1 /\ i >= 1
        /\ i \in 1 .. max_height - 1
    BY <1>0, <1>1, <1>5 DEF Preds, TypeOK
  <2>2. p \notin OnLevel(i)
    BY <1>0, <1>5, <2>1 DEF OnLevel
  <2>3. LastBefore(prev[i], p, OnLevel(i))
    BY <1>0, <1>5, <2>1 DEF Preds
  <2>4. ASSUME NEW m \in OnLevel(i), m < k
        PROVE  m <= prev[i]
    <3>1. m \in Nat /\ p \in Nat /\ m <= p /\ m # p
      BY <1>0, <1>2, <2>1, <2>2, <2>4 DEF LastBefore
    <3>2. QED BY <2>3, <3>1 DEF LastBefore
  <2>5. prev[i] < k /\ prev[i] \in OnLevel(i) \cup {Head}
    BY <1>0, <1>2, <2>1, <2>3 DEF LastBefore
  <2>6. QED BY <1>0, <1>5, <2>4, <2>5 DEF LastBefore
<1>6. QED BY <1>3, <1>4, <1>5

\* Links are not changed, and neither are the levels.
LEMMA LinkedKept ==
  ASSUME TypeOK, Linked, next' = next, \A i \in Levels : OnLevel(i)' = OnLevel(i)
  PROVE  Linked'
<1>1. ASSUME NEW j \in Levels, NEW n \in Keys \cup {Head}, n \in OnLevel(j)' \cup {Head}
      PROVE  FirstAfter(next[n][j], n, OnLevel(j))'
  BY <1>1 DEF Linked, FirstAfter
<1>2. ASSUME NEW j \in Levels, j > 0
      PROVE  OnLevel(j)' \subseteq OnLevel(j - 1)'
  BY <1>2, HeightPositive DEF Linked, Levels
<1>3. QED BY <1>1, <1>2 DEF Linked

LEMMA InsertKeeps ==
  ASSUME Inv, NEW k \in Keys, Insert(k)
  PROVE  ListInv'
<1> USE Numbers DEF ListInv
<1>0. ListInv /\ pc[Writer] = "idle" /\ tower[k] = 0
  BY DEF Inv, Insert, FastInsert, SlowInsert, Begin, Goto
<1>1. CASE FastInsert(k)
  <2> USE <1>1
  <2>1. TypeOK'
    BY <1>0, HeightPositive DEF FastInsert, shared, TypeOK, Goto, reader, Threads, Searches, Levels
  <2>2. \A i \in Levels : OnLevel(i)' = OnLevel(i)
    BY <2>1, LevelsGrow
  <2>3. Linked'
    BY <1>0, <2>2, LinkedKept DEF FastInsert
  <2>4. /\ pc'[Writer] = "height" /\ key'[Writer] = k
        /\ UNCHANGED <<max_height, tower>>
    BY <1>0 DEF FastInsert, Goto, TypeOK, Threads
  <2>5. Towers'
    BY <1>0, <2>4 DEF Towers, Inserting
  <2>6. ASSUME NEW i \in 0 .. max_height - 1
        PROVE  LastBefore(prev'[i], k, OnLevel(i)')
    <3>1. i \in Levels
      BY <1>0, HeightPositive DEF TypeOK, Levels
    <3>2. QED BY <1>0, <2>1, <2>2, <3>1, FastIsRight
  <2>7. Preds'
    BY <2>4, <2>6 DEF Preds, LastBefore
  <2>8. QED BY <2>1, <2>3, <2>5, <2>7
<1>2. CASE SlowInsert(k)
  <2> USE <1>2
  <2>1. TypeOK'
    BY <1>0, HeightPositive DEF SlowInsert, Begin, shared, TypeOK, Goto, reader, Threads, Searches, Levels
  <2>2. \A i \in Levels : OnLevel(i)' = OnLevel(i)
    BY <2>1, LevelsGrow
  <2>3. Linked'
    BY <1>0, <2>2, LinkedKept DEF SlowInsert, shared
  <2>4. /\ pc'[Writer] = "less" /\ key'[Writer] = k /\ x'[Writer] = Head
        /\ level'[Writer] = max_height - 1 /\ stop'[Writer] = NULL
        /\ UNCHANGED <<max_height, tower, prev>>
    BY <1>0 DEF SlowInsert, Begin, shared, Goto, TypeOK, Threads
  <2>5. Towers'
    BY <1>0, <2>4 DEF Towers, Inserting
  <2>6. Preds'
    BY <1>0, <2>4, HeightPositive DEF Preds, TypeOK
  <2>7. QED BY <2>1, <2>3, <2>5, <2>6
<1>3. QED BY <1>1, <1>2 DEF Insert

LEMMA ChooseHeightKeeps ==
  ASSUME Inv, NEW h \in 1 .. MaxHeight, ChooseHeight(h)
  PROVE  ListInv'
<1> USE Numbers DEF ListInv
<1>0. ListInv /\ pc[Writer] \in {"height", "less_done"}
  BY DEF Inv, ChooseHeight, Goto
<1>1. key[Writer] \in Keys /\ tower[key[Writer]] = 0
  BY <1>0 DEF Towers
<1>2. TypeOK'
  BY <1>0, <1>1, HeightPositive
     DEF ChooseHeight, TypeOK, Goto, reader, Threads, Searches, Levels
<1>3. \A i \in Levels : OnLevel(i)' = OnLevel(i)
  BY <1>2, LevelsGrow
<1>4. Linked'
  BY <1>0, <1>3, LinkedKept DEF ChooseHeight
<1>5. /\ pc'[Writer] = "own" /\ key' = key /\ level'[Writer] = 0 /\ height' = h
      /\ tower' = [tower EXCEPT ![key[Writer]] = h]
      /\ max_height' = IF h > max_height THEN h ELSE max_height
      /\ \A i \in Levels : prev'[i] = IF max_height <= i /\ i < h THEN Head ELSE prev[i]
      /\ h \in Nat /\ h > 0 /\ max_height \in Nat /\ max_height > 0
  BY <1>0, HeightPositive DEF ChooseHeight, Goto, TypeOK, Threads
<1>6. Towers'
  <2>1. \A k \in Keys : tower'[k] <= max_height'
    BY <1>0, <1>1, <1>5, HeightPositive DEF Towers, TypeOK
  <2>2. QED BY <1>0, <1>1, <1>5, <2>1 DEF Towers, Inserting, TypeOK
<1>7. ASSUME NEW i \in Levels, i < max_height'
      PROVE  LastBefore(prev'[i], key[Writer], OnLevel(i)')
  <2>2. CASE i < max_height
    <3>1. LastBefore(prev[i], key[Writer], OnLevel(i))
      BY <1>0, <2>2 DEF Preds, TypeOK, Levels
    <3>2. prev'[i] = prev[i] /\ OnLevel(i)' = OnLevel(i)
      BY <1>3, <1>5, <2>2 DEF Levels
    <3>3. QED BY <3>1, <3>2
  <2>3. CASE ~(i < max_height)
    <3>1. i < h /\ prev'[i] = Head
      BY <1>5, <1>7, <2>3 DEF Levels
    <3>2. OnLevel(i) = {}
      BY <1>0, <1>5, <2>3 DEF Towers, OnLevel, TypeOK, Levels
    <3>3. QED BY <1>1, <1>3, <3>1, <3>2 DEF LastBefore
  <2>4. QED BY <2>2, <2>3
<1>8. Preds'
  <2>1. \A i \in 0 .. max_height' - 1 : i \in Levels /\ i < max_height'
    BY <1>5, <1>0, HeightPositive DEF Levels, TypeOK
  <2>2. QED BY <1>5, <1>7, <2>1 DEF Preds, LastBefore
<1>9. QED BY <1>2, <1>4, <1>6, <1>8

\* What a search finds at the link where it stands.
LEMMA AtLink ==
  ASSUME Inv, NEW t \in Threads, pc[t] \in Searches
  PROVE  /\ level[t] \in Levels /\ OnLevel(level[t]) \subseteq Keys
         /\ OnLevel(level[t]) \subseteq Present
         /\ x[t] \in OnLevel(level[t]) \cup {Head}
         /\ FirstAfter(Link(t), x[t], OnLevel(level[t]))
         /\ Link(t) # NULL => Link(t) \in Nat
         /\ level[t] > 0 => /\ level[t] - 1 \in Levels
                            /\ x[t] \in OnLevel(level[t] - 1) \cup {Head}
<1>1. TypeOK /\ Linked /\ Preds /\ Towers /\ level[t] \in Levels
  BY DEF Inv, ListInv, TypeOK
<1>2. x[t] \in OnLevel(level[t]) \cup {Head}
  <2>1. CASE t \in Readers
    BY <2>1 DEF Inv, ReaderOK, Standing
  <2>2. CASE t = Writer
    BY <1>1, <2>2 DEF Preds, Towers, Searches
  <2>3. QED BY <2>1, <2>2 DEF Threads
<1>3. OnLevel(level[t]) \subseteq Keys /\ OnLevel(level[t]) \subseteq Present
  BY <1>1, LevelIsPresent
<1>4. FirstAfter(Link(t), x[t], OnLevel(level[t]))
  BY <1>1, <1>2, <1>3 DEF Linked, Link
<1>5. Link(t) # NULL => Link(t) \in Nat
  BY <1>3, <1>4, Numbers DEF FirstAfter
<1>6. level[t] > 0 => /\ level[t] - 1 \in Levels
                      /\ OnLevel(level[t]) \subseteq OnLevel(level[t] - 1)
  BY <1>1, HeightPositive DEF Linked, Levels
<1>7. QED BY <1>1, <1>2, <1>3, <1>4, <1>5, <1>6

LEMMA LessThanKeeps ==
  ASSUME Inv, LessThan(Writer)
  PROVE  ListInv'
<1> DEFINE i == level[Writer]
           k == key[Writer]
           p == x[Writer]
           n == Link(Writer)
<1> USE Numbers DEF ListInv
<1>0. ListInv /\ pc[Writer] = "less" /\ Writer \in Threads /\ k \in Keys
  BY DEF Inv, LessThan, Threads, Towers
<1>1. /\ i \in Levels /\ OnLevel(i) \subseteq Keys /\ p \in OnLevel(i) \cup {Head}
      /\ FirstAfter(n, p, OnLevel(i)) /\ (n # NULL => n \in Nat)
      /\ i > 0 => i - 1 \in Levels /\ p \in OnLevel(i - 1) \cup {Head}
  BY <1>0, AtLink DEF Searches
<1>2. n \in Keys \cup {NULL} /\ (n # NULL => p < n)
  BY <1>1 DEF FirstAfter
<1>3. /\ i \in 0 .. max_height - 1 /\ p < k /\ (stop[Writer] # NULL => stop[Writer] >= k)
      /\ \A j \in i + 1 .. max_height - 1 : LastBefore(prev[j], k, OnLevel(j))
  BY <1>0 DEF Preds
<1>4. TypeOK'
  <2> USE <1>0, <1>1, <1>2 DEF TypeOK, reader
  <2>1. prev' \in [Levels -> Keys \cup {Head}]
    BY DEF LessThan
  <2>2. UNCHANGED <<next, max_height, prev_height, height, tower, reader, key>>
    BY DEF LessThan
  <2>3. CASE Onward(Writer) /\ n # NULL
    BY <2>1, <2>2, <2>3 DEF Onward
  <2>4. CASE Found(Writer, p, "less_done")
    BY <2>1, <2>2, <2>4 DEF Found, Results, Searches
  <2>5. CASE Down(Writer) /\ i # 0
    <3>1. i > 0 /\ i - 1 \in Levels /\ i - 1 \in 0 .. MaxHeight
      BY <1>1, <2>5, HeightPositive DEF Levels
    <3>2. QED BY <2>1, <2>2, <2>5, <3>1 DEF Down
  <2>6. QED BY <2>3, <2>4, <2>5 DEF LessThan, IsAfter
<1>5. \A j \in Levels : OnLevel(j)' = OnLevel(j)
  BY <1>4, LevelsGrow
<1>6. Linked'
  BY <1>0, <1>5, LinkedKept DEF LessThan
<1>7. \A j \in 0 .. max_height - 1 : OnLevel(j)' = OnLevel(j)
  BY <1>0, <1>5, HeightPositive DEF TypeOK, Levels
<1>8. UNCHANGED <<next, max_height, prev_height, height, tower, key>>
  BY DEF LessThan
<1>9. pc'[Writer] \in {"less", "less_done"}
  BY <1>0 DEF LessThan, Found, Onward, Down, TypeOK
<1>10. Towers'
  BY <1>0, <1>8, <1>9 DEF Towers, Inserting
<1>11. CASE n # stop[Writer] /\ IsAfter(k, n)
  <2>1. /\ UNCHANGED <<pc, level, stop, prev>> /\ x'[Writer] = n
        /\ n \in OnLevel(i) /\ n < k
    BY <1>0, <1>1, <1>11 DEF LessThan, Onward, TypeOK, IsAfter, FirstAfter
  <2>2. Preds'
    BY <1>0, <1>3, <1>7, <1>8, <2>1 DEF Preds, LastBefore
  <2>3. QED BY <1>4, <1>6, <1>10, <2>2
<1>12. CASE ~(n # stop[Writer] /\ IsAfter(k, n))
  <2>1. n # NULL => n >= k
    BY <1>0, <1>1, <1>3, <1>12 DEF IsAfter
  <2>2. LastBefore(p, k, OnLevel(i))
    BY <1>0, <1>1, <1>3, <2>1, EndOfSearch
  <2>3. prev' = [prev EXCEPT ![i] = p]
    BY <1>12 DEF LessThan
  <2>4. \A j \in i .. max_height - 1 : LastBefore(prev'[j], k, OnLevel(j)')
    <3>1. ASSUME NEW j \in i .. max_height - 1
          PROVE  LastBefore(prev'[j], k, OnLevel(j)')
      <4>1. j \in Levels /\ j \in 0 .. max_height - 1
        BY <1>0, <1>1, HeightPositive DEF TypeOK, Levels
      <4>2. j = i => prev'[j] = p
        BY <1>0, <2>3, <4>1 DEF TypeOK
      <4>3. j # i => prev'[j] = prev[j] /\ j \in i + 1 .. max_height - 1
        BY <1>0, <1>1, <2>3, <4>1 DEF TypeOK, Levels
      <4>4. QED BY <1>3, <1>7, <2>2, <4>1, <4>2, <4>3
    <3>2. QED BY <3>1
  <2>5. CASE i = 0
    <3>1. pc'[Writer] = "less_done"
      BY <1>0, <1>12, <2>5 DEF LessThan, Found, TypeOK
    <3>2. Preds'
      BY <1>8, <2>4, <2>5, <3>1 DEF Preds, LastBefore
    <3>3. QED BY <1>4, <1>6, <1>10, <3>2
  <2>6. CASE i # 0
    <3>1. /\ pc' = pc /\ x' = x /\ level'[Writer] = i - 1 /\ stop'[Writer] = n
      BY <1>0, <1>12, <2>6 DEF LessThan, Down, TypeOK
    <3>2. i > 0 /\ i - 1 \in 0 .. max_height - 1
      BY <1>0, <1>1, <1>3, <2>6, HeightPositive DEF Levels, TypeOK
    <3> PICK m \in Levels : m = i - 1
      BY <1>1, <3>2
    <3>3. p \in OnLevel(m)' \cup {Head}
      BY <1>1, <1>5, <3>2
    <3>4. \A j \in m + 1 .. max_height - 1 : LastBefore(prev'[j], k, OnLevel(j)')
      BY <1>3, <2>4
    <3>5. Preds'
      BY <1>0, <1>3, <1>8, <2>1, <3>1, <3>2, <3>3, <3>4 DEF Preds, LastBefore
    <3>6. QED BY <1>4, <1>6, <1>10, <3>5
  <2>7. QED BY <2>5, <2>6
<1>13. QED BY <1>11, <1>12

-----------------------------------------------------------------------------
(* The readers *)

\* A step of reader r keeps the invariant if it does so for r.
LEMMA ReaderStep ==
  ASSUME Inv, NEW r \in Readers, WriterStays, OthersStay(r), TypeOK',
         (\A i \in Levels : OnLevel(i)' = OnLevel(i)) => ReaderOK(r)'
  PROVE  Inv'
<1>1. ListInv' /\ \A i \in Levels : OnLevel(i)' = OnLevel(i)
  BY ListKept DEF Inv
<1>2. ASSUME NEW s \in Readers \ {r}
      PROVE  ReaderOK(s)'
  <2>1. Undisturbed(s)
    BY <1>1 DEF Undisturbed, OthersStay
  <2>2. QED BY <2>1, ReaderKept
<1>3. QED BY <1>1, <1>2 DEF Inv

\* A search begins at head_, where nothing is behind it.
LEMMA BeginKeeps ==
  ASSUME Inv, NEW r \in Readers, NEW k \in Keys \cup {Head},
         NEW from, NEW find \in Searches, Begin(r, from, find, k), UNCHANGED shared
  PROVE  /\ WriterStays
         /\ \A s \in Readers \ {r} :
              /\ pc'[s] = pc[s] /\ x'[s] = x[s] /\ level'[s] = level[s]
              /\ stop'[s] = stop[s] /\ key'[s] = key[s]
         /\ pc'[r] = find /\ x'[r] = Head /\ stop'[r] = NULL /\ key'[r] = k
         /\ op' \in [Readers -> {"none", "contains", "seek", "forprev", "last", "prev", "next"}]
            /\ goal' \in [Readers -> Keys \cup {Head}]
            /\ node' \in [Readers -> Keys \cup {NULL}]
            /\ before' \in [Readers -> SUBSET Keys] => TypeOK'
<1> USE Numbers, HeightPositive, WriterIsNoReader DEF Begin, Goto
<1>1. TypeOK /\ r \in Threads
  BY DEF Inv, ListInv, Threads
<1>2. max_height - 1 \in Levels /\ max_height - 1 \in 0 .. MaxHeight
  BY <1>1 DEF TypeOK, Levels
<1>3. WriterStays
  BY <1>1 DEF WriterStays, TypeOK, Threads
<1>4. QED BY <1>1, <1>2, <1>3 DEF TypeOK, shared, Threads, Searches

LEMMA CallBegins ==
  ASSUME Inv, NEW r \in Readers, NEW k \in Keys \cup {Head},
         NEW o \in {"contains", "seek", "forprev", "last", "prev"}, NEW find \in Searches,
         Begin(r, "idle", find, k), Note(r, o, k), UNCHANGED <<shared, node>>
  PROVE  /\ WriterStays /\ OthersStay(r) /\ TypeOK'
         /\ pc'[r] = find /\ x'[r] = Head /\ stop'[r] = NULL /\ key'[r] = k
<1>1. TypeOK /\ Present \subseteq Keys
  BY LevelIsPresent, HeightPositive DEF Inv, ListInv, Levels, Present
<1>2. /\ WriterStays
      /\ pc'[r] = find /\ x'[r] = Head /\ stop'[r] = NULL /\ key'[r] = k
      /\ \A s \in Readers \ {r} :
           /\ pc'[s] = pc[s] /\ x'[s] = x[s] /\ level'[s] = level[s]
           /\ stop'[s] = stop[s] /\ key'[s] = key[s]
  BY BeginKeeps
<1>3. OthersStay(r)
  BY <1>1, <1>2 DEF Note, OthersStay, TypeOK
<1>4. /\ op' \in [Readers -> {"none", "contains", "seek", "forprev", "last", "prev", "next"}]
      /\ goal' \in [Readers -> Keys \cup {Head}]
      /\ node' \in [Readers -> Keys \cup {NULL}]
      /\ before' \in [Readers -> SUBSET Keys]
  BY <1>1 DEF Note, TypeOK
<1>5. TypeOK'
  BY <1>4, BeginKeeps
<1>6. QED BY <1>2, <1>3, <1>5

LEMMA CallKeeps ==
  ASSUME Inv, NEW r \in Readers, Call(r)
  PROVE  Inv'
<1> USE Numbers, WriterIsNoReader
<1>0. TypeOK /\ r \in Threads /\ 0 \in Levels /\ Present \subseteq Keys
      /\ (node[r] # NULL => node[r] \in Present)
      /\ (node[r] \in Keys => node[r] \in Keys \cup {Head})
  BY LevelIsPresent, HeightPositive
     DEF Inv, ListInv, Threads, Levels, Present, ReaderOK, Standing
<1> USE <1>0
<1>1. ASSUME NEW o \in {"contains", "seek", "forprev"}, NEW k \in Keys, Seek(r, o, k)
      PROVE  Inv'
  <2>0. Begin(r, "idle", "geq", k) /\ Note(r, o, k) /\ UNCHANGED <<shared, node>>
    BY <1>1 DEF Seek
  <2>1. /\ WriterStays /\ OthersStay(r) /\ TypeOK'
        /\ pc'[r] = "geq" /\ x'[r] = Head /\ stop'[r] = NULL /\ key'[r] = k
    BY <2>0, CallBegins DEF Searches
  <2>2. op'[r] = o /\ goal'[r] = k /\ before'[r] = Present /\ node' = node
    BY <2>0 DEF Note, TypeOK
  <2>3. ASSUME \A i \in Levels : OnLevel(i)' = OnLevel(i)
        PROVE  ReaderOK(r)'
    BY <2>1, <2>2, <2>3 DEF ReaderOK, Standing, Asked, Arrived, Iterated, Searches, Present
  <2>4. QED BY <2>1, <2>3, ReaderStep
<1>2. ASSUME SeekToLast(r)
      PROVE  Inv'
  <2>0. Begin(r, "idle", "last", Head) /\ Note(r, "last", Head) /\ UNCHANGED <<shared, node>>
    BY <1>2 DEF SeekToLast
  <2>1. /\ WriterStays /\ OthersStay(r) /\ TypeOK'
        /\ pc'[r] = "last" /\ x'[r] = Head /\ stop'[r] = NULL /\ key'[r] = Head
    BY <2>0, CallBegins DEF Searches
  <2>2. op'[r] = "last" /\ goal'[r] = Head /\ before'[r] = Present /\ node' = node
    BY <2>0 DEF Note, TypeOK
  <2>3. ASSUME \A i \in Levels : OnLevel(i)' = OnLevel(i)
        PROVE  ReaderOK(r)'
    BY <2>1, <2>2, <2>3 DEF ReaderOK, Standing, Asked, Arrived, Iterated, Searches, Present
  <2>4. QED BY <2>1, <2>3, ReaderStep
<1>3. ASSUME Prev(r)
      PROVE  Inv'
  <2>0. /\ Begin(r, "idle", "less", node[r]) /\ Note(r, "prev", node[r])
        /\ UNCHANGED <<shared, node>> /\ node[r] \in Keys
    BY <1>3 DEF Prev
  <2>1. /\ WriterStays /\ OthersStay(r) /\ TypeOK'
        /\ pc'[r] = "less" /\ x'[r] = Head /\ stop'[r] = NULL /\ key'[r] = node[r]
    BY <2>0, CallBegins DEF Searches
  <2>2. op'[r] = "prev" /\ goal'[r] = node[r] /\ before'[r] = Present /\ node' = node
    BY <2>0 DEF Note, TypeOK
  <2>3. ASSUME \A i \in Levels : OnLevel(i)' = OnLevel(i)
        PROVE  ReaderOK(r)'
    BY <2>0, <2>1, <2>2, <2>3
       DEF ReaderOK, Standing, Asked, Arrived, Iterated, Searches, Present
  <2>4. QED BY <2>1, <2>3, ReaderStep
<1>4. ASSUME NEW n \in Present \cup {Head}, pc[r] = "idle",
             node' = [node EXCEPT ![r] = next[n][0]], Note(r, "next", n),
             UNCHANGED <<shared, search, pc>>
      PROVE  Inv'
  <2>1. FirstAfter(next[n][0], n, Present)
    BY <1>4 DEF Inv, ListInv, Linked, Present
  <2>2. next[n][0] \in Present \cup {NULL}
    BY <2>1 DEF FirstAfter
  <2>3. /\ WriterStays /\ OthersStay(r)
        /\ op'[r] = "next" /\ goal'[r] = n /\ before'[r] = Present /\ node'[r] = next[n][0]
    BY <1>4 DEF Note, TypeOK, WriterStays, OthersStay, search
  <2>4. TypeOK'
    BY <1>4, <2>2 DEF Note, TypeOK, search, shared
  <2>5. ASSUME \A i \in Levels : OnLevel(i)' = OnLevel(i)
        PROVE  ReaderOK(r)'
    <3>1. Present' = Present
      BY <2>5 DEF Present
    <3>2. \A k \in Present : n < k => next[n][0] # NULL /\ next[n][0] <= k
      <4>1. n \in Nat /\ \A k \in Present : k \in Nat
        BY <1>4
      <4>2. QED BY <2>1, <4>1 DEF FirstAfter
    <3>3. next[n][0] # NULL => n < next[n][0]
      BY <2>1 DEF FirstAfter
    <3>4. pc'[r] = "idle"
      BY <1>4
    <3>5. QED BY <2>2, <2>3, <3>1, <3>2, <3>3, <3>4
             DEF ReaderOK, Standing, Asked, Arrived, Iterated, Searches
  <2>6. QED BY <2>3, <2>4, <2>5, ReaderStep
<1>5. ASSUME SeekToFirst(r)
      PROVE  Inv'
  BY <1>4, <1>5 DEF SeekToFirst
<1>6. ASSUME MoveNext(r)
      PROVE  Inv'
  BY <1>4, <1>6 DEF MoveNext
<1>7. QED BY <1>1, <1>2, <1>3, <1>5, <1>6 DEF Call

\* A step within a search: the reader goes to the node n, or down a level, or
\* is through with n as the result.
LEMMA SearchKeeps ==
  ASSUME Inv, NEW r \in Readers,
         pc[r] \in Searches, NEW find \in Results, NEW n \in Keys \cup {Head, NULL},
         NEW s \in Keys \cup {NULL},
         UNCHANGED <<shared, reader, key>>,
         \/ Found(r, n, find)
         \/ Onward(r) /\ Link(r) # NULL
         \/ /\ stop' = [stop EXCEPT ![r] = s] /\ level' = [level EXCEPT ![r] = @ - 1]
            /\ level[r] # 0 /\ UNCHANGED <<pc, x>>
  PROVE  WriterStays /\ OthersStay(r) /\ TypeOK'
<1> USE WriterIsNoReader DEF shared, reader, Found, Onward
<1>0. TypeOK /\ r \in Threads
  BY DEF Inv, ListInv, Threads
<1>1. WriterStays
  BY <1>0 DEF WriterStays, TypeOK, Threads
<1>2. OthersStay(r)
  BY <1>0 DEF OthersStay, TypeOK, Threads
<1>3. Link(r) \in Keys \cup {NULL}
  BY <1>0, AtLink DEF FirstAfter
<1>4. level[r] # 0 => level[r] - 1 \in Levels /\ level[r] - 1 \in 0 .. MaxHeight
  BY <1>0, HeightPositive DEF TypeOK, Levels
<1>5. TypeOK'
  <2>1. CASE Found(r, n, find)
    BY <1>0, <2>1 DEF TypeOK, Searches, Results
  <2>2. CASE Onward(r) /\ Link(r) # NULL
    BY <1>0, <1>3, <2>2 DEF TypeOK
  <2>3. CASE /\ stop' = [stop EXCEPT ![r] = s] /\ level' = [level EXCEPT ![r] = @ - 1]
             /\ level[r] # 0 /\ UNCHANGED <<pc, x>>
    BY <1>0, <1>4, <2>3 DEF TypeOK
  <2>4. QED BY <2>1, <2>2, <2>3
<1>6. QED BY <1>1, <1>2, <1>5

LEMMA GreaterOrEqualKeeps ==
  ASSUME Inv, NEW r \in Readers, GreaterOrEqual(r)
  PROVE  Inv'
<1> DEFINE n == Link(r)
           i == level[r]
           S == OnLevel(i)
           k == key[r]
<1> USE Numbers
<1>0. /\ TypeOK /\ r \in Threads /\ pc[r] = "geq" /\ pc[r] \in Searches
      /\ UNCHANGED <<shared, reader, key>> /\ ReaderOK(r)
  BY DEF GreaterOrEqual, Inv, ListInv, Threads, Searches
<1>1. /\ i \in Levels /\ S \subseteq Keys /\ S \subseteq Present /\ x[r] \in S \cup {Head}
      /\ FirstAfter(n, x[r], S) /\ (n # NULL => n \in Nat)
      /\ i > 0 => i - 1 \in Levels /\ x[r] \in OnLevel(i - 1) \cup {Head}
  BY <1>0, AtLink
<1>2. /\ n # NULL => n \in S /\ n \in Keys
      /\ n = NULL \/ n \in Keys
  BY <1>1 DEF FirstAfter
<1>3. /\ x[r] < k /\ (stop[r] # NULL => stop[r] > k) /\ before[r] \subseteq Present
      /\ k \in Keys
      /\ node[r] # NULL => node[r] \in Present
      /\ op[r] \notin {"none", "next"}
      /\ op[r] = "forprev" => k = goal[r]
  BY <1>0 DEF ReaderOK, Standing, Asked
<1>4. op'[r] = op[r] /\ goal'[r] = goal[r] /\ node'[r] = node[r] /\ before'[r] = before[r] /\ key'[r] = k
  BY <1>0 DEF reader
<1>5. CASE n # stop[r] /\ n # NULL /\ n < k
  <2>1. Onward(r)
    BY <1>5 DEF GreaterOrEqual
  <2>2. /\ pc'[r] = "geq" /\ x'[r] = n /\ level' = level /\ stop' = stop
    BY <1>0, <2>1 DEF Onward, TypeOK
  <2>3. WriterStays /\ OthersStay(r) /\ TypeOK'
    BY <1>0, <1>5, <2>1, SearchKeeps DEF Results
  <2>4. ASSUME \A j \in Levels : OnLevel(j)' = OnLevel(j)
        PROVE  ReaderOK(r)'
    <3>1. OnLevel(level[r])' = S /\ Present' = Present
      BY <1>1, <2>2, <2>4, HeightPositive DEF Present, Levels
    <3>2. QED BY <1>2, <1>3, <1>4, <1>5, <2>2, <3>1
          DEF ReaderOK, Standing, Asked, Arrived, Iterated, Searches, Results
  <2>5. QED BY <2>3, <2>4, ReaderStep
<1>6. CASE ~(n # stop[r] /\ n # NULL /\ n < k) /\ ((n # stop[r] /\ n = k) \/ i = 0)
  <2>1. Found(r, n, "geq_done")
    BY <1>6 DEF GreaterOrEqual
  <2>2. pc'[r] = "geq_done" /\ x'[r] = n
    BY <1>0, <2>1 DEF Found, TypeOK
  <2>3. WriterStays /\ OthersStay(r) /\ TypeOK'
    BY <1>0, <1>2, <2>1, SearchKeeps DEF Results
  <2>4. n # NULL => k <= n
    BY <1>2, <1>3, <1>6
  <2>5. ASSUME NEW m \in before[r], k <= m
        PROVE  n # NULL /\ n <= m
    <3>1. CASE n # NULL /\ n = k
      BY <2>5, <3>1
    <3>2. CASE i = 0
      <4>1. m \in S /\ m \in Nat /\ x[r] \in Nat /\ k \in Nat
        BY <1>1, <1>3, <3>2 DEF Present
      <4>2. ~(m <= x[r])
        BY <1>3, <2>5, <4>1
      <4>3. QED BY <1>1, <4>1, <4>2 DEF FirstAfter
    <3>3. QED BY <1>3, <1>6, <3>1, <3>2
  <2>6. ASSUME \A j \in Levels : OnLevel(j)' = OnLevel(j)
        PROVE  ReaderOK(r)'
    <3>1. Present' = Present
      BY <2>6, HeightPositive DEF Present, Levels
    <3>2. QED BY <1>1, <1>2, <1>3, <1>4, <2>2, <2>4, <2>5, <3>1
          DEF ReaderOK, Standing, Asked, Arrived, Iterated, Searches, Results
  <2>7. QED BY <2>3, <2>6, ReaderStep
<1>7. CASE ~(n # stop[r] /\ n # NULL /\ n < k) /\ ~((n # stop[r] /\ n = k) \/ i = 0)
  <2>1. Down(r) /\ i # 0
    BY <1>7 DEF GreaterOrEqual
  <2>2. /\ pc'[r] = "geq" /\ x' = x /\ stop'[r] = n /\ level'[r] = i - 1
    BY <1>0, <2>1 DEF Down, TypeOK
  <2>3. WriterStays /\ OthersStay(r) /\ TypeOK'
    BY <1>0, <1>2, <2>1, SearchKeeps DEF Results, Down
  <2>4. n # NULL => n > k
    BY <1>2, <1>3, <1>7
  <2>5. ASSUME \A j \in Levels : OnLevel(j)' = OnLevel(j)
        PROVE  ReaderOK(r)'
    <3>1. i - 1 \in Levels /\ x[r] \in OnLevel(i - 1) \cup {Head}
      BY <1>1, <2>1, HeightPositive DEF Levels
    <3>2. PICK j \in Levels : j = i - 1
      BY <3>1
    <3>3. x'[r] \in OnLevel(j)' \cup {Head} /\ level'[r] = j
      BY <2>2, <2>5, <3>1, <3>2
    <3>4. Present' = Present
      BY <2>5, HeightPositive DEF Present, Levels
    <3>5. QED BY <1>3, <1>4, <2>2, <2>4, <3>3, <3>4
          DEF ReaderOK, Standing, Asked, Arrived, Iterated, Searches, Results
  <2>6. QED BY <2>3, <2>5, ReaderStep
<1>8. QED BY <1>5, <1>6, <1>7

LEMMA LessThanReads ==
  ASSUME Inv, NEW r \in Readers, LessThan(r)
  PROVE  Inv'
<1> DEFINE n == Link(r)
           i == level[r]
           S == OnLevel(i)
           k == key[r]
<1> USE Numbers
<1>0. /\ TypeOK /\ r \in Threads /\ pc[r] = "less" /\ pc[r] \in Searches
      /\ UNCHANGED <<shared, reader, key>> /\ ReaderOK(r)
  BY WriterIsNoReader DEF LessThan, Inv, ListInv, Threads, Searches, shared
<1>1. /\ i \in Levels /\ S \subseteq Keys /\ S \subseteq Present /\ x[r] \in S \cup {Head}
      /\ FirstAfter(n, x[r], S) /\ (n # NULL => n \in Nat)
      /\ i > 0 => i - 1 \in Levels /\ x[r] \in OnLevel(i - 1) \cup {Head}
  BY <1>0, AtLink
<1>2. /\ n # NULL => n \in S /\ n \in Keys
      /\ n = NULL \/ n \in Keys
  BY <1>1 DEF FirstAfter
<1>3. /\ x[r] < k /\ (stop[r] # NULL => stop[r] >= k) /\ before[r] \subseteq Present
      /\ k \in Keys \cup {Head}
      /\ node[r] # NULL => node[r] \in Present
      /\ op[r] \notin {"none", "next"}
      /\ op[r] = "forprev" => goal[r] < k
  BY <1>0 DEF ReaderOK, Standing, Asked, TypeOK
<1>4. op'[r] = op[r] /\ goal'[r] = goal[r] /\ node'[r] = node[r] /\ before'[r] = before[r] /\ key'[r] = k
  BY <1>0 DEF reader
<1>5. CASE n # stop[r] /\ IsAfter(k, n)
  <2>1. Onward(r) /\ n # NULL /\ n < k
    BY <1>5 DEF LessThan, IsAfter
  <2>2. /\ pc'[r] = "less" /\ x'[r] = n /\ level' = level /\ stop' = stop
    BY <1>0, <2>1 DEF Onward, TypeOK
  <2>3. WriterStays /\ OthersStay(r) /\ TypeOK'
    BY <1>0, <2>1, SearchKeeps DEF Results
  <2>4. ASSUME \A j \in Levels : OnLevel(j)' = OnLevel(j)
        PROVE  ReaderOK(r)'
    <3>1. OnLevel(level[r])' = S /\ Present' = Present
      BY <1>1, <2>2, <2>4, HeightPositive DEF Present, Levels
    <3>2. QED BY <1>2, <1>3, <1>4, <2>1, <2>2, <3>1
          DEF ReaderOK, Standing, Asked, Arrived, Iterated, Searches, Results
  <2>5. QED BY <2>3, <2>4, ReaderStep
<1>6. CASE ~(n # stop[r] /\ IsAfter(k, n))
  <2>1. n # NULL => n >= k
    BY <1>1, <1>3, <1>6 DEF IsAfter
  <2>2. CASE i = 0
    <3>1. Found(r, x[r], "less_done")
      BY <1>6, <2>2 DEF LessThan
    <3>2. pc'[r] = "less_done" /\ x' = x
      BY <1>0, <3>1 DEF Found, TypeOK
    <3>3. WriterStays /\ OthersStay(r) /\ TypeOK'
      BY <1>0, <1>1, <3>1, SearchKeeps DEF Results
    <3>4. LastBefore(x[r], k, Present)
      BY <1>1, <1>3, <2>1, <2>2, EndOfSearch DEF Present
    <3>5. ASSUME \A j \in Levels : OnLevel(j)' = OnLevel(j)
          PROVE  ReaderOK(r)'
      <4>1. Present' = Present
        BY <3>5, HeightPositive DEF Present, Levels
      <4>2. QED BY <1>3, <1>4, <3>2, <3>4, <4>1
            DEF ReaderOK, Standing, Asked, Arrived, Iterated, Searches, Results, LastBefore
    <3>6. QED BY <3>3, <3>5, ReaderStep
  <2>3. CASE i # 0
    <3>1. Down(r)
      BY <1>6, <2>3 DEF LessThan
    <3>2. /\ pc'[r] = "less" /\ x' = x /\ stop'[r] = n /\ level'[r] = i - 1
      BY <1>0, <3>1 DEF Down, TypeOK
    <3>3. WriterStays /\ OthersStay(r) /\ TypeOK'
      BY <1>0, <1>2, <2>3, <3>1, SearchKeeps DEF Results, Down
    <3>4. ASSUME \A j \in Levels : OnLevel(j)' = OnLevel(j)
          PROVE  ReaderOK(r)'
      <4>1. i - 1 \in Levels /\ x[r] \in OnLevel(i - 1) \cup {Head}
        BY <1>1, <2>3, HeightPositive DEF Levels
      <4>2. PICK j \in Levels : j = i - 1
        BY <4>1
      <4>3. x'[r] \in OnLevel(j)' \cup {Head} /\ level'[r] = j
        BY <3>2, <3>4, <4>1, <4>2
      <4>4. Present' = Present
        BY <3>4, HeightPositive DEF Present, Levels
      <4>5. QED BY <1>3, <1>4, <2>1, <3>2, <4>3, <4>4
            DEF ReaderOK, Standing, Asked, Arrived, Iterated, Searches, Results
    <3>5. QED BY <3>3, <3>4, ReaderStep
  <2>4. QED BY <2>2, <2>3
<1>7. QED BY <1>5, <1>6

LEMMA LastKeeps ==
  ASSUME Inv, NEW r \in Readers, Last(r)
  PROVE  Inv'
<1> DEFINE n == Link(r)
           i == level[r]
           S == OnLevel(i)
<1> USE Numbers
<1>0. /\ TypeOK /\ r \in Threads /\ pc[r] = "last" /\ pc[r] \in Searches
      /\ UNCHANGED <<shared, reader, key>> /\ ReaderOK(r)
  BY DEF Last, Inv, ListInv, Threads, Searches
<1>1. /\ i \in Levels /\ S \subseteq Keys /\ S \subseteq Present /\ x[r] \in S \cup {Head}
      /\ FirstAfter(n, x[r], S)
      /\ i > 0 => i - 1 \in Levels /\ x[r] \in OnLevel(i - 1) \cup {Head}
  BY <1>0, AtLink
<1>2. before[r] \subseteq Present
      /\ (node[r] # NULL => node[r] \in Present)
      /\ op[r] \notin {"none", "next"}
  BY <1>0 DEF ReaderOK, Standing, Asked
<1>3. op'[r] = op[r] /\ goal'[r] = goal[r] /\ node'[r] = node[r] /\ before'[r] = before[r]
  BY <1>0 DEF reader
<1>4. CASE n # NULL
  <2>1. Onward(r) /\ n \in S
    BY <1>1, <1>4 DEF Last, FirstAfter
  <2>2. pc'[r] = "last" /\ x'[r] = n /\ level' = level
    BY <1>0, <2>1 DEF Onward, TypeOK
  <2>3. WriterStays /\ OthersStay(r) /\ TypeOK'
    BY <1>0, <1>4, <2>1, SearchKeeps DEF Results
  <2>4. ASSUME \A j \in Levels : OnLevel(j)' = OnLevel(j)
        PROVE  ReaderOK(r)'
    <3>1. OnLevel(level[r])' = S /\ Present' = Present
      BY <1>1, <2>2, <2>4, HeightPositive DEF Present, Levels
    <3>2. QED BY <1>2, <1>3, <2>1, <2>2, <3>1
          DEF ReaderOK, Standing, Asked, Arrived, Iterated, Searches, Results
  <2>5. QED BY <2>3, <2>4, ReaderStep
<1>5. CASE n = NULL /\ i = 0
  <2>1. Found(r, x[r], "last_done")
    BY <1>5 DEF Last
  <2>2. pc'[r] = "last_done" /\ x' = x
    BY <1>0, <2>1 DEF Found, TypeOK
  <2>3. WriterStays /\ OthersStay(r) /\ TypeOK'
    BY <1>0, <1>1, <2>1, SearchKeeps DEF Results
  <2>4. \A k \in Present : k <= x[r]
    BY <1>1, <1>5 DEF FirstAfter, Present
  <2>5. ASSUME \A j \in Levels : OnLevel(j)' = OnLevel(j)
        PROVE  ReaderOK(r)'
    <3>1. Present' = Present
      BY <2>5, HeightPositive DEF Present, Levels
    <3>2. QED BY <1>1, <1>2, <1>3, <2>2, <2>4, <3>1
          DEF ReaderOK, Standing, Asked, Arrived, Iterated, Searches, Results
  <2>6. QED BY <2>3, <2>5, ReaderStep
<1>6. CASE n = NULL /\ i # 0
  <2>1. level' = [level EXCEPT ![r] = @ - 1] /\ UNCHANGED <<pc, x, stop>>
    BY <1>6 DEF Last
  <2>2. stop' = [stop EXCEPT ![r] = stop[r]] /\ stop[r] \in Keys \cup {NULL}
    BY <1>0, <2>1 DEF TypeOK
  <2>3. pc'[r] = "last" /\ level'[r] = i - 1
    BY <1>0, <2>1 DEF TypeOK
  <2>4. WriterStays /\ OthersStay(r) /\ TypeOK'
    BY <1>0, <1>6, <2>1, <2>2, SearchKeeps DEF Results
  <2>5. ASSUME \A j \in Levels : OnLevel(j)' = OnLevel(j)
        PROVE  ReaderOK(r)'
    <3>1. i - 1 \in Levels /\ x[r] \in OnLevel(i - 1) \cup {Head}
      BY <1>1, <1>6, HeightPositive DEF Levels
    <3>2. PICK j \in Levels : j = i - 1
      BY <3>1
    <3>3. x'[r] \in OnLevel(j)' \cup {Head} /\ level'[r] = j
      BY <2>1, <2>3, <2>5, <3>1, <3>2
    <3>4. Present' = Present
      BY <2>5, HeightPositive DEF Present, Levels
    <3>5. QED BY <1>2, <1>3, <2>3, <3>3, <3>4
          DEF ReaderOK, Standing, Asked, Arrived, Iterated, Searches, Results
  <2>6. QED BY <2>4, <2>5, ReaderStep
<1>7. QED BY <1>4, <1>5, <1>6

\* What the iterator gets is NULL or a node of the list.
LEMMA ReachedIsPresent ==
  ASSUME Inv, NEW r \in Readers, pc[r] \in Results
  PROVE  /\ Present \subseteq Keys
         /\ Reached(r) # NULL => Reached(r) = x[r] /\ x[r] \in Present
         /\ Reached(r) \in Keys \cup {NULL}
         /\ Reached(r) = NULL => x[r] \in {NULL, Head}
         /\ x[r] = Head => pc[r] # "geq_done"
<1>1. Present \subseteq Keys
  BY LevelIsPresent, HeightPositive DEF Inv, ListInv, Levels, Present
<1>2. ReaderOK(r)
  BY DEF Inv
<1>3. QED BY <1>1, <1>2, Numbers DEF Reached, Results, ReaderOK, Arrived, Asked

LEMMA ReturnKeeps ==
  ASSUME Inv, NEW r \in Readers, Return(r)
  PROVE  Inv'
<1> USE Numbers, WriterIsNoReader
<1>0. /\ TypeOK /\ r \in Threads /\ pc[r] \in Results /\ ReaderOK(r)
      /\ pc' = [pc EXCEPT ![r] = "idle"] /\ op[r] # "forprev" /\ op[r] \notin {"none", "next"}
      /\ node' = node \/ node' = [node EXCEPT ![r] = Reached(r)]
      /\ UNCHANGED <<shared, search, op, goal, before>>
  BY DEF Return, Goto, Inv, ListInv, Threads, Results, ReaderOK, Asked
<1>1. TypeOK'
  BY <1>0, ReachedIsPresent DEF TypeOK, shared, search, Searches
<1>2. WriterStays /\ OthersStay(r)
  BY <1>0 DEF WriterStays, OthersStay, TypeOK, search, Threads
<1>3. /\ pc'[r] = "idle" /\ node'[r] \in {node[r], Reached(r)} /\ op'[r] = op[r]
      /\ before'[r] = before[r]
  BY <1>0 DEF TypeOK
<1>4. ASSUME \A j \in Levels : OnLevel(j)' = OnLevel(j)
      PROVE  ReaderOK(r)'
  <2>1. Present' = Present
    BY <1>4, HeightPositive DEF Present, Levels
  <2>2. node'[r] # NULL => node'[r] \in Present
    BY <1>0, <1>3, ReachedIsPresent DEF ReaderOK, Standing
  <2>3. QED BY <1>0, <1>3, <2>1, <2>2
        DEF ReaderOK, Standing, Asked, Arrived, Iterated, Searches, Results
<1>5. QED BY <1>1, <1>2, <1>4, ReaderStep

LEMMA SeekForPrevKeeps ==
  ASSUME Inv, NEW r \in Readers, SeekForPrev(r)
  PROVE  Inv'
<1> USE Numbers, WriterIsNoReader
<1>0. /\ TypeOK /\ r \in Threads /\ pc[r] \in Results /\ ReaderOK(r) /\ op[r] = "forprev"
      /\ node' = [node EXCEPT ![r] = Reached(r)]
      /\ UNCHANGED <<shared, op, goal, before>>
  BY DEF SeekForPrev, Inv, ListInv, Threads, Results
<1>1. /\ Present \subseteq Keys
      /\ Reached(r) # NULL => Reached(r) = x[r] /\ x[r] \in Present
      /\ Reached(r) \in Keys \cup {NULL}
      /\ Reached(r) = NULL => x[r] \in {NULL, Head}
      /\ x[r] = Head => pc[r] # "geq_done"
  BY <1>0, ReachedIsPresent
<1>2. /\ node'[r] = Reached(r) /\ op'[r] = "forprev" /\ goal'[r] = goal[r]
      /\ before'[r] = before[r] /\ before[r] \subseteq Present
      /\ node' \in [Readers -> Keys \cup {NULL}]
      /\ \A s \in Readers \ {r} : node'[s] = node[s]
  BY <1>0, <1>1 DEF TypeOK, ReaderOK, Standing
<1>3. ASSUME NEW find \in {"last", "less"}, NEW k \in Keys \cup {Head}, Begin(r, pc[r], find, k),
             find = "less" => k \in Keys /\ goal[r] < k
      PROVE  Inv'
  <2>1. /\ WriterStays
        /\ pc'[r] = find /\ x'[r] = Head /\ stop'[r] = NULL /\ key'[r] = k
        /\ \A s \in Readers \ {r} :
             /\ pc'[s] = pc[s] /\ x'[s] = x[s] /\ level'[s] = level[s]
             /\ stop'[s] = stop[s] /\ key'[s] = key[s]
    BY <1>0, <1>3, BeginKeeps DEF Searches
  <2>2. TypeOK'
    <3>1. /\ op' \in [Readers -> {"none", "contains", "seek", "forprev", "last", "prev", "next"}]
          /\ goal' \in [Readers -> Keys \cup {Head}]
          /\ node' \in [Readers -> Keys \cup {NULL}]
          /\ before' \in [Readers -> SUBSET Keys]
      BY <1>0, <1>2 DEF TypeOK
    <3>2. QED BY <1>0, <1>3, <3>1, BeginKeeps DEF Searches
  <2>3. OthersStay(r)
    BY <1>0, <1>2, <2>1 DEF OthersStay
  <2>4. ASSUME \A j \in Levels : OnLevel(j)' = OnLevel(j)
        PROVE  ReaderOK(r)'
    <3>1. Present' = Present
      BY <2>4, HeightPositive DEF Present, Levels
    <3>2. QED BY <1>1, <1>2, <1>3, <2>1, <3>1
          DEF ReaderOK, Standing, Asked, Arrived, Iterated, Searches, Results
  <2>5. QED BY <2>1, <2>2, <2>3, <2>4, ReaderStep
<1>4. CASE pc[r] = "geq_done" /\ Reached(r) = NULL
  BY <1>3, <1>4 DEF SeekForPrev
<1>5. CASE ~(pc[r] = "geq_done" /\ Reached(r) = NULL) /\ Reached(r) # NULL /\ goal[r] < x[r]
  <2>1. x[r] \in Keys /\ Begin(r, pc[r], "less", x[r])
    BY <1>1, <1>5 DEF SeekForPrev
  <2>2. QED BY <1>3, <1>5, <2>1
<1>6. CASE ~(pc[r] = "geq_done" /\ Reached(r) = NULL) /\ ~(Reached(r) # NULL /\ goal[r] < x[r])
  <2>1. pc' = [pc EXCEPT ![r] = "idle"] /\ UNCHANGED search
    BY <1>6 DEF SeekForPrev, Goto
  <2>2. pc'[r] = "idle"
    BY <1>0, <2>1 DEF TypeOK
  <2>3. TypeOK'
    BY <1>0, <1>2, <2>1 DEF TypeOK, shared, search, Searches
  <2>4. WriterStays /\ OthersStay(r)
    BY <1>0, <1>2, <2>1 DEF WriterStays, OthersStay, TypeOK, search, Threads
  <2>5. Reached(r) # NULL => Reached(r) <= goal[r]
    BY <1>0, <1>1, <1>6 DEF TypeOK
  <2>6. ASSUME NEW k \in before[r], k <= goal[r]
        PROVE  Reached(r) # NULL /\ k <= Reached(r)
    <3>0. k \in Keys /\ k \in Nat /\ k > 0 /\ goal[r] \in Nat
      BY <1>0, <1>1, <1>2 DEF TypeOK
    <3>1. CASE pc[r] = "geq_done"
      <4>1. Reached(r) # NULL /\ Reached(r) = x[r] /\ x[r] # NULL /\ x[r] \in Nat
        BY <1>1, <1>6, <3>1
      <4>2. key[r] = goal[r] /\ key[r] <= x[r]
        BY <1>0, <3>1, <4>1 DEF ReaderOK, Asked, Arrived
      <4>3. QED BY <2>6, <3>0, <4>1, <4>2
    <3>2. CASE pc[r] = "less_done"
      <4>1. goal[r] < key[r] /\ key[r] \in Nat
        BY <1>0, <3>2 DEF ReaderOK, Asked, TypeOK
      <4>2. k <= x[r]
        BY <1>0, <2>6, <3>0, <3>2, <4>1 DEF ReaderOK, Arrived
      <4>3. x[r] # Head /\ x[r] # NULL
        <5>1. x[r] # Head
          BY ONLY <3>0, <4>2, Numbers
        <5>2. QED BY <1>0, <1>1, <3>2, <5>1 DEF ReaderOK, Arrived
      <4>4. QED BY <1>1, <4>2, <4>3
    <3>3. CASE pc[r] = "last_done"
      <4>1. k <= x[r] /\ x[r] \in Present \cup {Head}
        BY <1>0, <2>6, <3>3 DEF ReaderOK, Arrived
      <4>2. x[r] # Head /\ x[r] # NULL
        <5>1. x[r] # Head
          BY ONLY <3>0, <4>1, Numbers
        <5>2. QED BY <1>1, <4>1, <5>1
      <4>3. QED BY <1>1, <4>1, <4>2
    <3>4. QED BY <1>0, <3>1, <3>2, <3>3 DEF Results
  <2>7. ASSUME \A j \in Levels : OnLevel(j)' = OnLevel(j)
        PROVE  ReaderOK(r)'
    <3>1. Present' = Present
      BY <2>7, HeightPositive DEF Present, Levels
    <3>2. Standing(r)'
      BY <1>1, <1>2, <2>2, <3>1 DEF Standing, Searches, Results
    <3>3. Asked(r)' /\ Arrived(r)'
      BY <2>2 DEF Asked, Arrived
    <3>4. Iterated(r)'
      BY <1>2, <2>2, <2>5, <2>6 DEF Iterated
    <3>5. QED BY <3>2, <3>3, <3>4 DEF ReaderOK
  <2>8. QED BY <2>3, <2>4, <2>7, ReaderStep
<1>7. QED BY <1>4, <1>5, <1>6

-----------------------------------------------------------------------------
(* The theorems *)

LEMMA InvInductive == Inv /\ [Next]_vars => Inv'
<1> SUFFICES ASSUME Inv, [Next]_vars
             PROVE  Inv'
  OBVIOUS
<1>1. CASE UNCHANGED vars
  <2>1. TypeOK' /\ WriterStays
    BY <1>1 DEF vars, Inv, ListInv, TypeOK, WriterStays, shared
  <2>2. ListInv' /\ \A i \in Levels : OnLevel(i)' = OnLevel(i)
    BY <2>1, ListKept DEF Inv
  <2>3. \A r \in Readers : ReaderOK(r)'
    BY <1>1, <2>2, ReaderKept DEF vars, Undisturbed
  <2>4. QED BY <2>2, <2>3 DEF Inv
<1>2. CASE (\E k \in Keys : Insert(k)) \/ Write
  <2>1. ListInv'
    BY <1>2, InsertKeeps, LessThanKeeps, ChooseHeightKeeps, SetOwnKeeps, PublishKeeps DEF Write
  <2>2. TypeOK'
    BY <2>1 DEF ListInv
  <2>3. QED BY <1>2, <2>1, <2>2, ReadersKept DEF Inv
<1>3. ASSUME NEW r \in Readers, Read(r)
      PROVE  Inv'
  BY <1>3, GreaterOrEqualKeeps, LessThanReads, LastKeeps, ReturnKeeps, SeekForPrevKeeps
     DEF Read
<1>4. ASSUME NEW r \in Readers, Call(r)
      PROVE  Inv'
  BY <1>4, CallKeeps
<1>5. QED BY <1>1, <1>2, <1>3, <1>4 DEF Next

LEMMA InvAlways == Spec => []Inv
<1>1. QED BY InitInv, InvInductive, PTL DEF Spec

\* At every load and store of Insert each level is a sorted list of exactly the
\* nodes linked there, and part of the level below, and prev_ is what lines
\* 148-151 say.
THEOREM SortedLevels == Spec => []LevelsAreSorted
<1>1. ASSUME Inv
      PROVE  LevelsAreSorted
  <2>1. TypeOK /\ Linked /\ Towers /\ Preds
    BY <1>1 DEF Inv, ListInv
  <2>2. \A i \in Levels : OnLevel(i) \subseteq Keys
    BY <2>1, LevelIsPresent
  <2>3. \A i \in Levels :
          /\ \A n \in OnLevel(i) \cup {Head} : FirstAfter(next[n][i], n, OnLevel(i))
          /\ i > 0 => OnLevel(i) \subseteq OnLevel(i - 1)
    BY <2>1, <2>2 DEF Linked
  <2>4. ASSUME pc[Writer] \in {"own", "publish"}, NEW i \in level[Writer] .. max_height - 1
        PROVE  LastBefore(prev[i], key[Writer], OnLevel(i))
    BY <2>1, <2>4 DEF Preds, Towers, Inserting, TypeOK
  <2>5. QED BY <2>1, <2>3, <2>4 DEF LevelsAreSorted, Preds
<1>2. QED BY <1>1, InvAlways, PTL

\* FindGreaterOrEqual, FindLessThan and FindLast end on the right side of their
\* key with no earlier key skipped, and meet no unset link and none that leads
\* back, whatever the writer has linked meanwhile.
THEOREM RightSearches == Spec => []SearchesAreRight
<1>1. ASSUME Inv
      PROVE  SearchesAreRight
  <2>1. ASSUME NEW t \in Threads, pc[t] \in Searches
        PROVE  /\ Link(t) # UNSET
               /\ Link(t) # NULL => x[t] < Link(t)
               /\ pc[t] # "last" => x[t] = Head \/ x[t] < key[t]
    <3>1. /\ OnLevel(level[t]) \subseteq Keys
          /\ FirstAfter(Link(t), x[t], OnLevel(level[t]))
      BY <1>1, <2>1, AtLink
    <3>2. Link(t) # UNSET /\ (Link(t) # NULL => x[t] < Link(t))
      BY <3>1, Numbers DEF FirstAfter
    <3>3. CASE t \in Readers
      BY <1>1, <2>1, <3>2, <3>3 DEF Inv, ReaderOK, Standing, Searches
    <3>4. CASE t = Writer
      BY <1>1, <2>1, <3>2, <3>4 DEF Inv, ListInv, Preds, Towers, Searches
    <3>5. QED BY <3>3, <3>4 DEF Threads
  <2>2. \A r \in Readers : Arrived(r)
    BY <1>1 DEF Inv, ReaderOK
  <2>3. QED BY <2>1, <2>2 DEF SearchesAreRight, Arrived
<1>2. QED BY <1>1, InvAlways, PTL

\* Next and SeekToFirst skip no earlier key, and SeekForPrev ends at the last
\* key up to its target or at a newer one.
THEOREM RightIterator == Spec => []IteratorIsRight
<1>1. Inv => IteratorIsRight
  BY DEF Inv, ReaderOK, Iterated, IteratorIsRight
<1>2. QED BY <1>1, InvAlways, PTL
=============================================================================
