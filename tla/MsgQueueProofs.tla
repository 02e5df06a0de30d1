--------------------------- MODULE MsgQueueProofs ---------------------------
(***************************************************************************)
(* The two lists of msgqueue.c are one queue, for any number of producers, *)
(* consumers and messages and every limit.                                 *)
(***************************************************************************)
EXTENDS MsgQueue, SequenceTheorems, TLAPS

\* Where a thread holds put_mutex, and where a consumer holds get_mutex
InPut == {"test", "append", "unlock", "swap"}
InGet == {"look", "turn", "lock", "test", "asleep", "swap", "take", "taken", "null"}

\* Both heads are the same from line 70 to line 79.
Turned(c) == pc[c] \in {"lock", "test", "asleep", "swap"}

\* A producer has a message that is not in the queue yet.
Carries(p) == pc[p] \in {"lock", "test", "asleep", "append"}

\* The program counters agree with the mutexes and the conditions, and nobody
\* is in a call before msgqueue_create returned or after msgqueue_destroy began.
Locks ==
  /\ \A p \in Producers :
       pc[p] \in {"idle", "lock", "test", "asleep", "append", "unlock", "signal", "gone"}
  /\ \A c \in Consumers :
       /\ pc[c] \in InGet \cup {"idle", "gone"}
       /\ pc[c] \in InGet <=> get_mutex = c
  /\ pc[Controller] \in {"idle", "lock", "test", "unlock", "gone"}
  /\ pc[Main] \in {"create", "join", "failed", "destroyed"}
  /\ pc[Main] # "join" => \A t \in Threads \ {Main} : pc[t] \in {"idle", "gone"}
  /\ pc[Main] \in {"failed", "destroyed"} => held = {}
  /\ get_mutex \in Consumers \cup {NULL}
  /\ \A t \in Threads : pc[t] \in InPut <=> put_mutex = t
  /\ \A t \in get_wait \cup put_wait : pc[t] = "asleep"

\* Who has each message.
Hands ==
  /\ \A j, k \in 1 .. Len(content) : content[j] = content[k] => j = k
  /\ \A p \in Producers : Carries(p) =>
       /\ msg[p] \in Msgs /\ cell[msg[p]] = NULL /\ ~Pending(msg[p])
       /\ \A q \in Producers : Carries(q) /\ msg[q] = msg[p] => p = q
  /\ \A m \in unput : ~Pending(m) /\ \A p \in Producers : Carries(p) => msg[p] # m

\* The lists, by position: the first g messages of content are in the get list.
\* While a consumer is between lines 70 and 79 the get list is empty.
Lists ==
  LET n == Len(content)
      g == n - msg_cnt
  IN /\ g \in Nat
     /\ cell[put_head] = IF msg_cnt = 0 THEN NULL ELSE content[g + 1]
     /\ \A k \in 1 .. n : cell[content[k]] = IF k \in {g, n} THEN NULL ELSE content[k + 1]
     /\ put_tail = IF msg_cnt = 0 THEN put_head ELSE content[n]
     /\ (\E c \in Consumers : Turned(c)) <=> get_head = put_head
     /\ IF get_head = put_head THEN g = 0 /\ cell[Other(put_head)] = NULL
        ELSE cell[get_head] = IF g = 0 THEN NULL ELSE content[1]
     /\ \A c \in Consumers : /\ pc[c] = "turn" => g = 0
                             /\ pc[c] = "take" => g > 0

\* In blocking mode, and with a limit that does not wrap around, each list holds
\* at most MaxLen messages.
Limits ==
  /\ nonblock = 1 => switches > 0
  /\ \A c \in Consumers : pc[c] = "swap" => msg_cnt > 0 \/ switches > 0
  /\ MaxLen > 0 /\ switches = 0 =>
       /\ msg_cnt <= MaxLen /\ Len(content) - msg_cnt <= MaxLen
       /\ \A p \in Producers : pc[p] = "append" => msg_cnt < MaxLen

QueueInv == TypeOK /\ Locks /\ Hands /\ Lists /\ Limits

-----------------------------------------------------------------------------
\* There are two heads.
LEMMA OtherHead ==
  \A h \in Heads : Other(h) \in Heads /\ Other(h) # h /\ \A g \in Heads : g = h \/ g = Other(h)
BY DEF Heads, Other

\* A step that moves nobody into or out of the places the lists depend on.
LEMMA KeepsLists ==
  ASSUME Hands, Lists, UNCHANGED <<msg, lists, unput>>,
         \A p \in Producers : Carries(p)' => Carries(p),
         \A c \in Consumers : /\ Turned(c)' <=> Turned(c)
                              /\ pc'[c] \in {"turn", "take"} => pc'[c] = pc[c]
  PROVE  Hands' /\ Lists'
<1>1. Hands'
  BY DEF lists, Hands, Pending
<1>2. Lists'
  BY DEF lists, Lists
<1> QED BY <1>1, <1>2

\* Locking put_mutex, on the way in and after a wait, in all three functions.
LEMMA LockPutStep ==
  ASSUME QueueInv, NEW t \in Threads \ {Main}, NEW from \in {"lock", "asleep"},
         LockPut(t, from, "test"), from = "asleep" => t \notin get_wait \cup put_wait
  PROVE  QueueInv'
<1> USE RolesDistinct, NULLDistinct, Bounds DEF QueueInv, LockPut, Goto, Threads, mode
<1>1. TypeOK'
  BY DEF TypeOK, lists
<1>2. Locks'
  BY DEF TypeOK, Locks, InPut, InGet
<1>3. Hands' /\ Lists'
  BY KeepsLists DEF TypeOK, Locks, Carries, Turned
<1>4. Limits'
  BY DEF TypeOK, Locks, Limits, lists
<1> QED BY <1>1, <1>2, <1>3, <1>4

LEMMA BeginPutStep ==
  ASSUME QueueInv, NEW p \in Producers, BeginPut(p)
  PROVE  QueueInv'
<1> USE RolesDistinct, NULLDistinct, Bounds DEF QueueInv, Goto, Threads, mode, locks
<1>1. Fresh \in unput /\ ~Pending(Fresh) /\ Fresh \in Msgs
  BY DEF BeginPut, Fresh, Hands, TypeOK
<1> HIDE DEF Fresh
<1>2. TypeOK'
  BY <1>1 DEF BeginPut, TypeOK, Heads
<1>3. Locks'
  BY DEF BeginPut, TypeOK, Locks, InPut, InGet, Running
<1>4. Hands'
  BY <1>1 DEF BeginPut, TypeOK, Locks, Hands, Carries, Pending
<1>5. Lists'
  <2>1. \A k \in 1 .. Len(content) : content[k] # Fresh /\ content[k] \in Msgs
    BY <1>1 DEF Pending, TypeOK
  <2>2. \A c \in Consumers : pc'[c] = pc[c]
    BY DEF BeginPut, TypeOK
  <2>3. \A x \in Heads \cup Msgs : x # Fresh => cell'[x] = cell[x]
    BY DEF BeginPut, TypeOK
  <2>4. UNCHANGED <<content, get_head, put_head, put_tail, msg_cnt>>
    BY DEF BeginPut
  <2> QED BY <1>1, <2>1, <2>2, <2>3, <2>4, OtherHead DEF Lists, Turned, TypeOK
<1>6. Limits'
  BY DEF BeginPut, TypeOK, Locks, Limits
<1> QED BY <1>2, <1>3, <1>4, <1>5, <1>6

\* With a limit that does not wrap around, Full is what msgqueue.h says.
LEMMA FullMeans ==
  ASSUME TypeOK, MaxLen > 0
  PROVE  Full <=> msg_cnt >= MaxLen
<1>1. (MaxLen + SizeMax) % (SizeMax + 1) = MaxLen - 1
  BY Bounds
<1> QED BY <1>1, Bounds DEF Full, TypeOK

LEMMA TestFullStep ==
  ASSUME QueueInv, NEW p \in Producers, TestFull(p)
  PROVE  QueueInv'
<1> USE RolesDistinct, NULLDistinct, Bounds DEF QueueInv, Goto, Threads, mode
<1>1. TypeOK'
  BY DEF TestFull, TypeOK, lists
<1>2. Locks'
  BY DEF TestFull, TypeOK, Locks, InPut, InGet
<1>3. Hands' /\ Lists'
  BY KeepsLists DEF TestFull, TypeOK, Locks, Carries, Turned
<1>4. Limits'
  <2>1. \A q \in Producers \ {p} : pc'[q] # "append"
    BY DEF TestFull, TypeOK, Locks, InPut
  <2>2. MaxLen > 0 /\ switches = 0 /\ pc'[p] = "append" => msg_cnt < MaxLen
    BY FullMeans DEF TestFull, TypeOK, Limits
  <2> QED BY <2>1, <2>2 DEF TestFull, TypeOK, Locks, Limits, lists
<1> QED BY <1>1, <1>2, <1>3, <1>4

\* What a producer that is about to append knows, and the new content.
LEMMA AppendKnows ==
  ASSUME QueueInv, NEW p \in Producers, AppendMsg(p)
  PROVE  /\ Len(content) \in Nat /\ Len(content) - msg_cnt \in Nat /\ msg_cnt \in Nat
         /\ pc[p] = "append" /\ put_mutex = p
         /\ msg[p] \in Msgs /\ cell[msg[p]] = NULL /\ ~Pending(msg[p])
         /\ Len(content') = Len(content) + 1
         /\ content'[Len(content) + 1] = msg[p]
         /\ \A k \in 1 .. Len(content) : content'[k] = content[k] /\ content[k] \in Msgs
         /\ cell' = [cell EXCEPT ![put_tail] = msg[p]]
         /\ put_tail' = msg[p] /\ msg_cnt' = msg_cnt + 1
<1>1. /\ pc[p] = "append" /\ put_mutex = p
      /\ msg[p] \in Msgs /\ cell[msg[p]] = NULL /\ ~Pending(msg[p])
  BY DEF QueueInv, AppendMsg, Goto, Locks, Hands, Carries, Threads, InPut
<1>2. content \in Seq(Msgs) /\ content' = Append(content, msg[p])
  BY DEF QueueInv, TypeOK, AppendMsg
<1> QED BY <1>1, <1>2, AppendProperties DEF QueueInv, TypeOK, Lists, AppendMsg

LEMMA AppendMsgStep ==
  ASSUME QueueInv, NEW p \in Producers, AppendMsg(p)
  PROVE  QueueInv'
<1> USE RolesDistinct, NULLDistinct, Bounds DEF QueueInv, Goto, Threads, mode, locks
<1> DEFINE n == Len(content)
           g == n - msg_cnt
<1>1. /\ n \in Nat /\ g \in Nat /\ msg_cnt \in Nat /\ pc[p] = "append" /\ put_mutex = p
      /\ msg[p] \in Msgs /\ cell[msg[p]] = NULL /\ ~Pending(msg[p])
      /\ Len(content') = n + 1 /\ content'[n + 1] = msg[p]
      /\ \A k \in 1 .. n : content'[k] = content[k] /\ content[k] \in Msgs
      /\ cell' = [cell EXCEPT ![put_tail] = msg[p]]
      /\ put_tail' = msg[p] /\ msg_cnt' = msg_cnt + 1
  BY AppendKnows
<1>2. \A k \in 1 .. n : content[k] # msg[p]
  BY <1>1 DEF Pending
<1>3. /\ put_tail # msg[p] /\ put_tail \in Heads \cup Msgs
      /\ cell'[put_tail] = msg[p]
      /\ \A x \in Heads \cup Msgs : x # put_tail => cell'[x] = cell[x]
  BY <1>1, <1>2 DEF TypeOK, Lists
<1>4. Locks'
  BY DEF AppendMsg, TypeOK, Locks, InPut, InGet
<1>5. \A m \in Msgs : Pending(m)' <=> Pending(m) \/ m = msg[p]
  BY <1>1 DEF Pending
<1>6. Hands'
  <2>1. \A j, k \in 1 .. n + 1 : content'[j] = content'[k] => j = k
    <3>1. \A j, k \in 1 .. n : content[j] = content[k] => j = k
      BY DEF Hands
    <3>2. ASSUME NEW j \in 1 .. n + 1, NEW k \in 1 .. n + 1, content'[j] = content'[k]
          PROVE  j = k
      <4>1. (j \in 1 .. n \/ j = n + 1) /\ (k \in 1 .. n \/ k = n + 1)
        BY <1>1
      <4> HIDE DEF n, g
      <4> QED BY <1>1, <1>2, <3>1, <3>2, <4>1
    <3> QED BY <3>2
  <2>2. ASSUME NEW q \in Producers, Carries(q)'
        PROVE  q # p /\ Carries(q) /\ msg[q] # msg[p] /\ msg[q] # put_tail
    BY <2>2, <1>1, <1>3 DEF AppendMsg, TypeOK, Hands, Carries, Lists, Pending
  <2>3. \A m \in unput : m # msg[p]
    BY <1>1 DEF Hands, Carries
  <2> QED BY <1>1, <1>3, <1>5, <2>1, <2>2, <2>3 DEF AppendMsg, TypeOK, Hands
<1>7. Lists'
  <2>1. cell'[put_head] = content'[g + 1]
    BY <1>1, <1>3 DEF Lists, TypeOK
  <2>2. ASSUME NEW k \in 1 .. n + 1
        PROVE  cell'[content'[k]] = IF k \in {g, n + 1} THEN NULL ELSE content'[k + 1]
    <3>1. CASE k = n + 1
      BY <1>1, <1>3, <3>1
    <3>2. CASE k = n /\ msg_cnt = 0
      <4>1. put_tail = put_head /\ put_head \in Heads /\ g = n /\ cell[content[k]] = NULL
        BY <1>1, <3>2 DEF Lists, TypeOK
      <4> QED BY <1>1, <1>3, <3>2, <4>1
    <3>3. CASE k = n /\ msg_cnt # 0
      <4>1. put_tail = content[n] /\ k # g /\ k # n + 1
        BY <1>1, <3>3 DEF Lists
      <4> QED BY <1>1, <1>3, <3>3, <4>1
    <3>4. CASE k \in 1 .. n /\ k # n
      <4>1. content[k] # put_tail
        BY <1>1, <3>4 DEF Lists, Hands, TypeOK
      <4>2. cell[content[k]] = IF k \in {g, n} THEN NULL ELSE content[k + 1]
        BY <3>4 DEF Lists
      <4>3. k + 1 \in 1 .. n /\ content'[k + 1] = content[k + 1]
        BY <1>1, <3>4
      <4> QED BY <1>1, <1>3, <3>4, <4>1, <4>2, <4>3
    <3> QED BY <1>1, <3>1, <3>2, <3>3, <3>4
  <2>3. \A c \in Consumers : pc'[c] = pc[c]
    BY DEF AppendMsg, TypeOK
  <2>4. IF get_head = put_head THEN g = 0 /\ cell'[Other(put_head)] = NULL
        ELSE cell'[get_head] = IF g = 0 THEN NULL ELSE content'[1]
    BY <1>1, <1>3, OtherHead DEF Lists, TypeOK
  <2>5. Len(content') - msg_cnt' = g /\ UNCHANGED <<get_head, put_head>>
    BY <1>1 DEF AppendMsg
  <2>6. /\ (\E c \in Consumers : Turned(c)) <=> get_head = put_head
        /\ \A c \in Consumers : (pc[c] = "turn" => g = 0) /\ (pc[c] = "take" => g > 0)
    BY DEF Lists
  <2>7. msg_cnt' # 0 /\ Len(content') = n + 1
    BY <1>1
  <2>8. \A c \in Consumers : Turned(c)' <=> Turned(c)
    BY <2>3 DEF Turned
  <2>9. put_tail' = content'[n + 1]
    BY <1>1
  <2>10. g \in Nat
    BY <1>1
  <2> HIDE DEF n, g
  <2> QED BY ONLY <2>1, <2>2, <2>3, <2>4, <2>5, <2>6, <2>7, <2>8, <2>9, <2>10 DEF Lists
<1>8. TypeOK'
  BY <1>1, <1>3 DEF AppendMsg, TypeOK, Locks, Lists, Turned, InGet
<1>9. Limits'
  <2>1. \A q \in Producers : pc'[q] # "append"
    BY <1>4 DEF AppendMsg, TypeOK, Locks, InPut
  <2>2. \A c \in Consumers : pc'[c] # "swap"
    BY <1>1 DEF AppendMsg, TypeOK, Locks, InPut
  <2> QED BY <1>1, <2>1, <2>2 DEF AppendMsg, TypeOK, Limits
<1> QED BY <1>4, <1>6, <1>7, <1>8, <1>9

LEMMA LeavePutSteps ==
  ASSUME QueueInv, NEW p \in Producers, UnlockPut(p) \/ SignalGet(p)
  PROVE  QueueInv'
<1> USE RolesDistinct, NULLDistinct, Bounds DEF QueueInv, UnlockPut, SignalGet, Goto, Threads, mode
<1>1. get_wait' \subseteq get_wait
  BY DEF Wakes
<1>2. TypeOK'
  BY <1>1 DEF TypeOK, lists
<1>3. Locks'
  BY <1>1 DEF TypeOK, Locks, InPut, InGet
<1>4. Hands'
  BY DEF TypeOK, Hands, Carries, Pending, lists
<1>5. Lists'
  <2>1. \A c \in Consumers : pc'[c] = pc[c]
    BY DEF TypeOK
  <2> QED BY <2>1 DEF Lists, Turned, lists
<1>6. Limits'
  BY DEF TypeOK, Limits, lists
<1> QED BY <1>2, <1>3, <1>4, <1>5, <1>6

-----------------------------------------------------------------------------
\* The consumer in msgqueue_get is the one that holds get_mutex.
LEMMA OneGetter ==
  ASSUME Locks, NEW c \in Consumers, NEW d \in Consumers, pc[c] \in InGet, pc[d] \in InGet
  PROVE  c = d
BY DEF Locks

LEMMA LockGetStep ==
  ASSUME QueueInv, NEW c \in Consumers, LockGet(c)
  PROVE  QueueInv'
<1> USE RolesDistinct, NULLDistinct, Bounds DEF QueueInv, LockGet, Goto, Threads, mode
<1>1. TypeOK'
  BY DEF TypeOK, lists
<1>2. Locks'
  BY DEF TypeOK, Locks, InPut, InGet, Running
<1>3. Hands' /\ Lists'
  BY KeepsLists DEF TypeOK, Carries, Turned
<1>4. Limits'
  BY DEF TypeOK, Limits, lists
<1> QED BY <1>1, <1>2, <1>3, <1>4

\* Before the lists are turned, the get list is empty exactly if its head says so.
LEMMA LookStep ==
  ASSUME QueueInv, NEW c \in Consumers, Look(c)
  PROVE  QueueInv'
<1> USE RolesDistinct, NULLDistinct, Bounds DEF QueueInv, Look, Goto, Threads, mode, locks
<1> DEFINE g == Len(content) - msg_cnt
<1>1. \A d \in Consumers : ~Turned(d)
  BY OneGetter DEF Locks, InGet, Turned
<1>2. /\ g \in Nat /\ get_head # put_head
      /\ cell[get_head] = IF g = 0 THEN NULL ELSE content[1]
  BY <1>1 DEF Lists
<1>3. g > 0 => content[1] \in Msgs
  BY <1>2 DEF TypeOK
<1>4. pc'[c] = IF g = 0 THEN "turn" ELSE "take"
  BY <1>2, <1>3 DEF TypeOK
<1>5. \A d \in Consumers \ {c} : pc'[d] = pc[d] /\ pc[d] \notin InGet
  BY OneGetter DEF TypeOK, InGet
<1>6. TypeOK'
  BY <1>2, <1>3, <1>4, <1>5 DEF TypeOK, lists, InGet
<1>7. Locks'
  BY DEF TypeOK, Locks, InPut, InGet
<1>8. Hands'
  BY DEF TypeOK, Hands, Carries, Pending, lists
<1>9. Lists'
  <2>1. \A d \in Consumers : ~Turned(d)'
    BY <1>1, <1>4, <1>5 DEF Turned
  <2>2. \A d \in Consumers : (pc'[d] = "turn" => g = 0) /\ (pc'[d] = "take" => g > 0)
    BY <1>2, <1>4, <1>5 DEF InGet
  <2> QED BY <1>1, <2>1, <2>2 DEF Lists, lists
<1>10. Limits'
  BY DEF TypeOK, Limits, lists
<1> QED BY <1>6, <1>7, <1>8, <1>9, <1>10

\* The get list is empty when get_head moves to the put list.
LEMMA TurnStep ==
  ASSUME QueueInv, NEW c \in Consumers, Turn(c)
  PROVE  QueueInv'
<1> USE RolesDistinct, NULLDistinct, Bounds DEF QueueInv, Turn, Goto, Threads, mode, locks
<1> DEFINE g == Len(content) - msg_cnt
<1>1. \A d \in Consumers : ~Turned(d)
  BY OneGetter DEF Locks, InGet, Turned
<1>2. g = 0 /\ get_head # put_head /\ cell[get_head] = NULL /\ get_head = Other(put_head)
  BY <1>1, OtherHead DEF Lists, TypeOK
<1>3. \A d \in Consumers \ {c} : pc'[d] = pc[d] /\ pc[d] \notin InGet
  BY OneGetter DEF TypeOK, InGet
<1>4. TypeOK'
  BY <1>3 DEF TypeOK, InGet
<1>5. Locks'
  BY DEF TypeOK, Locks, InPut, InGet
<1>6. Hands'
  BY DEF TypeOK, Hands, Carries, Pending
<1>7. Lists'
  <2>1. Turned(c)' /\ get_head' = put_head'
    BY DEF TypeOK, Turned
  <2>2. \A d \in Consumers : pc'[d] \notin {"turn", "take"}
    BY <1>3 DEF TypeOK, InGet
  <2> QED BY <1>2, <2>1, <2>2 DEF Lists
<1>8. Limits'
  BY DEF TypeOK, Limits
<1> QED BY <1>4, <1>5, <1>6, <1>7, <1>8

LEMMA TestEmptyStep ==
  ASSUME QueueInv, NEW c \in Consumers, TestEmpty(c)
  PROVE  QueueInv'
<1> USE RolesDistinct, NULLDistinct, Bounds DEF QueueInv, TestEmpty, Goto, Threads, mode
<1>1. TypeOK'
  BY DEF TypeOK, lists
<1>2. Locks'
  BY DEF TypeOK, Locks, InPut, InGet
<1>3. Hands' /\ Lists'
  BY KeepsLists DEF TypeOK, Carries, Turned
<1>4. Limits'
  BY DEF TypeOK, Locks, Limits, lists
<1> QED BY <1>1, <1>2, <1>3, <1>4

\* The put list becomes the get list, and the put list is the old get list,
\* which is empty.
LEMMA SwapStep ==
  ASSUME QueueInv, NEW c \in Consumers, Swap(c)
  PROVE  QueueInv'
<1> USE RolesDistinct, NULLDistinct, Bounds DEF QueueInv, Swap, Goto, Threads, mode
<1> DEFINE n == Len(content)
<1>1. /\ n \in Nat /\ msg_cnt = n /\ get_head = put_head /\ get_head \in Heads
      /\ Other(get_head) \in Heads /\ Other(get_head) # get_head
      /\ cell[Other(get_head)] = NULL
      /\ cell[get_head] = IF n = 0 THEN NULL ELSE content[1]
  BY OtherHead DEF Lists, Turned, TypeOK
<1>2. \A d \in Consumers \ {c} : pc'[d] = pc[d] /\ pc[d] \notin InGet
  BY OneGetter DEF TypeOK, InGet
<1>3. pc'[c] = IF n > 0 THEN "take" ELSE "null"
  BY <1>1 DEF TypeOK
<1>4. n > 0 => content[1] \in Msgs
  BY <1>1 DEF TypeOK
<1>5. TypeOK'
  BY <1>1, <1>2, <1>3, <1>4 DEF TypeOK, InGet
<1>6. Locks'
  BY DEF TypeOK, Locks, InPut, InGet
<1>7. Hands'
  BY DEF TypeOK, Hands, Carries, Pending
<1>8. Lists'
  <2>1. \A d \in Consumers : ~Turned(d)'
    BY <1>2, <1>3 DEF InGet, Turned
  <2>2. \A d \in Consumers : pc'[d] # "turn" /\ (pc'[d] = "take" => n > 0)
    BY <1>2, <1>3 DEF InGet
  <2>3. \A k \in 1 .. n : cell[content[k]] = IF k \in {n} THEN NULL ELSE content[k + 1]
    BY <1>1 DEF Lists
  <2>4. UNCHANGED <<content, cell, get_head>> /\ msg_cnt' = 0
    BY DEF Swap
  <2>5. put_head' = Other(get_head) /\ put_tail' = Other(get_head)
    BY DEF Swap
  <2> HIDE DEF n
  <2>6. n - 0 = n /\ \A k \in 1 .. n : k \in {n, n} <=> k \in {n}
    BY <1>1
  <2> QED BY <1>1, <2>1, <2>2, <2>3, <2>4, <2>5, <2>6 DEF Lists, n
<1>9. Limits'
  BY <1>1, <1>2, <1>3 DEF TypeOK, Limits, InGet
<1> QED BY <1>5, <1>6, <1>7, <1>8, <1>9

\* The first message of the queue is the first of the get list.
LEMMA TakeStep ==
  ASSUME QueueInv, NEW c \in Consumers, Take(c)
  PROVE  QueueInv'
<1> USE RolesDistinct, NULLDistinct, Bounds DEF QueueInv, Take, Goto, Threads, mode, locks
<1> DEFINE n == Len(content)
           g == n - msg_cnt
<1>1. \A d \in Consumers : ~Turned(d)
  BY OneGetter DEF Locks, InGet, Turned
<1>2. /\ n \in Nat /\ g \in Nat /\ msg_cnt \in Nat /\ g > 0 /\ n > 0
      /\ get_head # put_head /\ get_head \in Heads
      /\ cell[get_head] = content[1]
  BY <1>1 DEF Lists, TypeOK
<1>3. \A k \in 1 .. n : content[k] \in Msgs
  BY DEF TypeOK
<1>4. /\ content' = Tail(content) /\ content' \in Seq(Msgs) /\ Len(content') = n - 1
      /\ \A k \in 1 .. n - 1 : content'[k] = content[k + 1]
  <2>1. content \in Seq(Msgs) /\ content # <<>>
    BY <1>2 DEF TypeOK
  <2> QED BY <2>1, HeadTailProperties
<1>5. /\ 1 \in 1 .. n /\ content[1] \in Msgs
      /\ cell' = [cell EXCEPT ![get_head] = cell[content[1]]]
      /\ msg' = [msg EXCEPT ![c] = content[1]]
  BY <1>2, <1>3
<1>6. /\ \A x \in Msgs : cell'[x] = cell[x]
      /\ cell'[get_head] = cell[content[1]]
      /\ cell'[put_head] = cell[put_head]
  BY <1>2, <1>5 DEF TypeOK
<1>7. \A d \in Consumers \ {c} : pc'[d] = pc[d] /\ pc[d] \notin InGet
  BY OneGetter DEF TypeOK, InGet
<1>8. TypeOK'
  BY <1>4, <1>5, <1>7 DEF TypeOK, InGet
<1>9. Locks'
  BY DEF TypeOK, Locks, InPut, InGet
<1>10. \A m \in Msgs : Pending(m)' => Pending(m)
  <2>1. ASSUME NEW m \in Msgs, NEW k \in 1 .. n - 1, content'[k] = m
        PROVE  k + 1 \in 1 .. n /\ content[k + 1] = m
    BY <1>2, <1>4, <2>1
  <2> QED BY <1>4, <2>1 DEF Pending
<1>11. Hands'
  <2>1. ASSUME NEW j \in 1 .. n - 1, NEW k \in 1 .. n - 1, content'[j] = content'[k]
        PROVE  j = k
    <3>1. j + 1 \in 1 .. n /\ k + 1 \in 1 .. n /\ content[j + 1] = content[k + 1]
      BY <1>2, <1>4, <2>1
    <3>2. j + 1 = k + 1
      BY <3>1 DEF Hands
    <3> QED BY <3>2
  <2>2. \A q \in Producers : pc'[q] = pc[q] /\ msg'[q] = msg[q]
    BY DEF TypeOK
  <2> QED BY <1>4, <1>6, <1>10, <2>1, <2>2 DEF TypeOK, Hands, Carries
<1>12. Lists'
  <2>1. Len(content') - msg_cnt' = g - 1 /\ UNCHANGED <<get_head, put_head, put_tail, msg_cnt>>
    BY <1>2, <1>4
  <2>2. cell'[put_head] = IF msg_cnt = 0 THEN NULL ELSE content'[g]
    <3>1. msg_cnt # 0 => g \in 1 .. n - 1
      BY <1>2
    <3> QED BY <1>4, <1>6, <3>1 DEF Lists
  <2>3. ASSUME NEW k \in 1 .. n - 1
        PROVE  cell'[content'[k]] = IF k \in {g - 1, n - 1} THEN NULL ELSE content'[k + 1]
    <3>1. /\ k + 1 \in 1 .. n /\ content'[k] = content[k + 1]
          /\ k + 1 \in {g, n} <=> k \in {g - 1, n - 1}
          /\ k # n - 1 => k + 1 \in 1 .. n - 1
      BY <1>2, <1>4
    <3>2. cell[content[k + 1]] = IF k + 1 \in {g, n} THEN NULL ELSE content[(k + 1) + 1]
      BY <3>1 DEF Lists
    <3> QED BY <1>3, <1>4, <1>6, <3>1, <3>2
  <2>4. put_tail = IF msg_cnt = 0 THEN put_head ELSE content'[n - 1]
    <3>1. msg_cnt # 0 => n - 1 \in 1 .. n - 1 /\ (n - 1) + 1 = n
      BY <1>2
    <3> QED BY <1>4, <3>1 DEF Lists
  <2>5. cell'[get_head] = IF g - 1 = 0 THEN NULL ELSE content'[1]
    <3>1. cell[content[1]] = IF 1 \in {g, n} THEN NULL ELSE content[1 + 1]
      BY <1>5 DEF Lists
    <3>2. g <= n
      BY <1>2
    <3>3. /\ 1 \in {g, n} <=> g - 1 = 0
          /\ g - 1 # 0 => 1 \in 1 .. n - 1
      <4> HIDE DEF g, n
      <4> QED BY <1>2, <3>2
    <3> QED BY <1>4, <1>6, <3>1, <3>3
  <2>6. \A d \in Consumers : ~Turned(d)' /\ pc'[d] \notin {"turn", "take"}
    BY <1>7 DEF TypeOK, InGet, Turned
  <2>7. g - 1 \in Nat
    BY <1>2
  <2> HIDE DEF n, g, Take
  <2> QED BY <1>2, <1>4, <2>1, <2>2, <2>3, <2>4, <2>5, <2>6, <2>7 DEF Lists
<1>13. Limits'
  BY <1>2, <1>4, <1>7 DEF TypeOK, Limits, InGet
<1> QED BY <1>8, <1>9, <1>11, <1>12, <1>13

LEMMA UnlockGetStep ==
  ASSUME QueueInv, NEW c \in Consumers, UnlockGet(c)
  PROVE  QueueInv'
<1> USE RolesDistinct, NULLDistinct, Bounds DEF QueueInv, UnlockGet, Goto, Threads, mode
<1>1. TypeOK'
  BY DEF TypeOK, lists
<1>2. Locks'
  BY DEF TypeOK, Locks, InPut, InGet
<1>3. Hands'
  BY DEF TypeOK, Hands, Carries, Pending, lists
<1>4. Lists'
  <2>1. \A d \in Consumers : Turned(d)' <=> Turned(d)
    BY DEF TypeOK, Turned
  <2>2. \A d \in Consumers : pc'[d] \in {"turn", "take"} => pc'[d] = pc[d]
    BY DEF TypeOK
  <2> QED BY <2>1, <2>2 DEF Lists, lists
<1>5. Limits'
  BY DEF TypeOK, Limits, lists
<1> QED BY <1>1, <1>2, <1>3, <1>4, <1>5

-----------------------------------------------------------------------------
\* Wakeups nobody asked for, and the calls of the controller
LEMMA ControllerSteps ==
  ASSUME QueueInv,
         (\E t \in Producers \cup Consumers : SpuriousWake(t))
           \/ StoreNonblock \/ SetBlock \/ WakeAll \/ UnlockNonblock
  PROVE  QueueInv'
<1> USE RolesDistinct, NULLDistinct, Bounds DEF QueueInv, Goto, Threads
<1>1. UNCHANGED <<msg, lists, unput, held, get_mutex>> /\ \A t \in Threads \ {Controller} : pc'[t] = pc[t]
  BY DEF SpuriousWake, StoreNonblock, SetBlock, WakeAll, UnlockNonblock, TypeOK, mode, locks
<1>2. get_wait' \subseteq get_wait /\ put_wait' \subseteq put_wait
  BY DEF SpuriousWake, StoreNonblock, SetBlock, WakeAll, UnlockNonblock, locks, Wakes
<1>3. /\ nonblock' = 1 => switches' > 0
      /\ switches' \in 0 .. MaxUpsets /\ spurious' \in 0 .. MaxUpsets /\ nonblock' \in {0, 1}
      /\ switches' >= switches
  BY DEF SpuriousWake, StoreNonblock, SetBlock, WakeAll, UnlockNonblock, Limits, TypeOK, mode
<1>4. TypeOK'
  BY <1>1, <1>2, <1>3
  DEF SpuriousWake, StoreNonblock, SetBlock, WakeAll, UnlockNonblock, TypeOK, lists, mode, locks
<1>5. Locks'
  BY <1>1, <1>2
  DEF SpuriousWake, StoreNonblock, SetBlock, WakeAll, UnlockNonblock, TypeOK, Locks, locks,
      InPut, InGet, Running
<1>6. Hands' /\ Lists'
  BY <1>1, KeepsLists DEF Carries, Turned
<1>7. Limits'
  BY <1>1, <1>3 DEF Limits, TypeOK, lists
<1> QED BY <1>4, <1>5, <1>6, <1>7

\* Creating and destroying the queue, and the threads that end
LEMMA MainSteps ==
  ASSUME QueueInv,
         (\E r \in Resources : AcquireResource(r) \/ AcquireFails(r))
           \/ (\E t \in Producers \cup {Controller} : Leave(t)) \/ Destroy
  PROVE  QueueInv'
<1> USE RolesDistinct, NULLDistinct, Bounds DEF QueueInv, Goto, Threads, lists, locks, mode
<1>1. /\ UNCHANGED <<msg, lists, unput, locks, nonblock, switches>>
      /\ \A c \in Consumers : pc'[c] = pc[c]
      /\ \A p \in Producers : pc'[p] \in {pc[p], "gone"}
  BY DEF AcquireResource, AcquireFails, Leave, Destroy, TypeOK
<1>2. TypeOK'
  <2>1. held' \subseteq Resources /\ spurious' = spurious
    BY DEF AcquireResource, AcquireFails, Leave, Destroy, TypeOK
  <2>2. pc' \in [Threads -> {"idle", "lock", "test", "asleep", "append", "unlock", "signal",
                            "look", "turn", "swap", "take", "taken", "null", "gone",
                            "create", "join", "failed", "destroyed"}]
    BY DEF AcquireResource, AcquireFails, Leave, Destroy, TypeOK
  <2> QED BY <1>1, <2>1, <2>2 DEF TypeOK
<1>3. Locks'
  BY DEF AcquireResource, AcquireFails, Leave, Destroy, TypeOK, Locks, InPut, InGet, Running
<1>4. Hands' /\ Lists'
  BY <1>1, KeepsLists DEF Carries, Turned
<1>5. Limits'
  BY <1>1 DEF Limits, TypeOK
<1> QED BY <1>2, <1>3, <1>4, <1>5

-----------------------------------------------------------------------------
LEMMA InitQueue == Init => QueueInv
<1> SUFFICES ASSUME Init PROVE QueueInv
  OBVIOUS
<1> USE RolesDistinct, NULLDistinct, Bounds DEF Init, Threads
<1>1. TypeOK
  BY DEF TypeOK, Heads
<1>2. Locks
  BY DEF Locks, InPut, InGet
<1>3. Len(content) = 0
  OBVIOUS
<1>4. Hands
  BY <1>3 DEF Hands, Carries, Pending
<1>5. Lists
  BY <1>3, OtherHead DEF Lists, Turned, Heads
<1>6. Limits
  BY <1>3 DEF Limits
<1> QED BY <1>1, <1>2, <1>4, <1>5, <1>6 DEF QueueInv

LEMMA QueueStep == QueueInv /\ [Next]_vars => QueueInv'
<1> SUFFICES ASSUME QueueInv, [Next]_vars PROVE QueueInv'
  OBVIOUS
<1> USE RolesDistinct DEF Threads
<1>1. CASE \E p \in Producers : BeginPut(p) \/ PutStep(p)
  <2> PICK p \in Producers : BeginPut(p) \/ PutStep(p)
    BY <1>1
  <2>1. p \in Threads \ {Main} /\ "lock" \in {"lock", "asleep"} /\ "asleep" \in {"lock", "asleep"}
    OBVIOUS
  <2>2. CASE LockPut(p, "lock", "test")
    BY <2>1, <2>2, LockPutStep
  <2>3. CASE WakePut(p)
    <3>1. p \notin get_wait
      BY DEF QueueInv, TypeOK
    <3> QED BY <2>1, <2>3, <3>1, LockPutStep DEF WakePut
  <2> QED BY <2>2, <2>3, BeginPutStep, TestFullStep, AppendMsgStep, LeavePutSteps DEF PutStep
<1>2. CASE \E c \in Consumers : GetStep(c)
  <2> PICK c \in Consumers : GetStep(c)
    BY <1>2
  <2>1. c \in Threads \ {Main} /\ "lock" \in {"lock", "asleep"} /\ "asleep" \in {"lock", "asleep"}
    OBVIOUS
  <2>2. CASE LockPut(c, "lock", "test")
    BY <2>1, <2>2, LockPutStep
  <2>3. CASE WakeGet(c)
    <3>1. c \notin put_wait
      BY DEF QueueInv, TypeOK
    <3> QED BY <2>1, <2>3, <3>1, LockPutStep DEF WakeGet
  <2> QED BY <2>2, <2>3, LockGetStep, LookStep, TurnStep, TestEmptyStep, SwapStep, TakeStep,
             UnlockGetStep DEF GetStep
<1>3. CASE LockPut(Controller, "lock", "test")
  BY <1>3, LockPutStep
<1>4. CASE \/ \E t \in Producers \cup Consumers : SpuriousWake(t)
           \/ StoreNonblock \/ SetBlock \/ WakeAll \/ UnlockNonblock
  BY <1>4, ControllerSteps
<1>5. CASE \/ \E r \in Resources : AcquireResource(r) \/ AcquireFails(r)
           \/ \E t \in Producers \cup {Controller} : Leave(t)
           \/ Destroy
  BY <1>5, MainSteps
<1>6. CASE UNCHANGED vars
  <2> USE <1>6 DEF vars
  <2>1. TypeOK'
    BY DEF QueueInv, TypeOK
  <2>2. Locks'
    BY DEF QueueInv, Locks
  <2>3. Hands'
    BY DEF QueueInv, Hands, Carries, Pending
  <2>4. Lists'
    BY DEF QueueInv, Lists, Turned
  <2>5. Limits'
    BY DEF QueueInv, Limits
  <2> QED BY <2>1, <2>2, <2>3, <2>4, <2>5 DEF QueueInv
<1> QED BY <1>1, <1>2, <1>3, <1>4, <1>5, <1>6 DEF Next, NonblockStep

\* QueueInv is invariant.
LEMMA Queues == Spec => []QueueInv
BY InitQueue, QueueStep, PTL DEF Spec

\* The links say which messages are in the two lists and in which order: those
\* put and not taken, oldest first, wherever the threads stand in msgqueue_put,
\* msgqueue_get and __msgqueue_swap.
THEOREM ListsCorrect == Spec => []ListsAreContent
<1>1. ASSUME QueueInv PROVE ListsAreContent
  <2> DEFINE n == Len(content)
             g == n - msg_cnt
  <2> USE <1>1 DEF QueueInv
  <2>1. /\ n \in Nat /\ g \in Nat /\ msg_cnt \in Nat
        /\ \A k \in 1 .. n : content[k] \in Msgs
    BY DEF TypeOK, Lists
  <2>2. /\ PutList \in Seq(Msgs) /\ Len(PutList) = msg_cnt
        /\ \A i \in 1 .. msg_cnt : PutList[i] = content[g + i]
    <3>1. \A i \in g + 1 .. n : content[i] \in Msgs
      BY <2>1
    <3>2. /\ SubSeq(content, g + 1, n) \in Seq(Msgs)
          /\ Len(SubSeq(content, g + 1, n)) = IF g + 1 <= n THEN n - (g + 1) + 1 ELSE 0
          /\ \A i \in 1 .. n - (g + 1) + 1 : SubSeq(content, g + 1, n)[i] = content[g + 1 + i - 1]
      BY <2>1, <3>1, SubSeqProperties
    <3> QED BY <2>1, <3>2 DEF PutList
  <2>3. /\ GetList \in Seq(Msgs) /\ Len(GetList) = g
        /\ \A i \in 1 .. g : GetList[i] = content[i]
    <3>1. \A i \in 1 .. g : content[i] \in Msgs
      BY <2>1
    <3>2. /\ SubSeq(content, 1, g) \in Seq(Msgs)
          /\ Len(SubSeq(content, 1, g)) = IF 1 <= g THEN g - 1 + 1 ELSE 0
          /\ \A i \in 1 .. g - 1 + 1 : SubSeq(content, 1, g)[i] = content[1 + i - 1]
      BY <2>1, <3>1, SubSeqProperties
    <3> QED BY <2>1, <3>2 DEF GetList
  <2>4. (PutList = <<>> <=> msg_cnt = 0) /\ (GetList = <<>> <=> g = 0)
    BY <2>1, <2>2, <2>3, EmptySeq
  <2>5. LinkedFrom(put_head, PutList)
    <3>1. cell[put_head] = IF PutList = <<>> THEN NULL ELSE PutList[1]
      BY <2>1, <2>2, <2>4 DEF Lists
    <3>2. ASSUME NEW i \in 1 .. msg_cnt
          PROVE  cell[PutList[i]] = IF i = msg_cnt THEN NULL ELSE PutList[i + 1]
      <4>1. g + i \in 1 .. n /\ (g + i \in {g, n} <=> i = msg_cnt) /\ (g + i) + 1 = g + (i + 1)
        BY <2>1
      <4>2. i # msg_cnt => i + 1 \in 1 .. msg_cnt
        BY <2>1
      <4>3. cell[content[g + i]] = IF g + i \in {g, n} THEN NULL ELSE content[(g + i) + 1]
        BY <4>1 DEF Lists
      <4> QED BY <2>2, <4>1, <4>2, <4>3
    <3> QED BY <2>2, <3>1, <3>2 DEF LinkedFrom
  <2>6. CASE get_head # put_head
    <3>1. cell[get_head] = IF GetList = <<>> THEN NULL ELSE GetList[1]
      BY <2>1, <2>3, <2>4, <2>6 DEF Lists
    <3>2. ASSUME NEW i \in 1 .. g
          PROVE  cell[GetList[i]] = IF i = g THEN NULL ELSE GetList[i + 1]
      <4>1. i \in 1 .. n /\ (i \in {g, n} <=> i = g)
        BY <2>1
      <4>2. i # g => i + 1 \in 1 .. g
        BY <2>1
      <4>3. cell[content[i]] = IF i \in {g, n} THEN NULL ELSE content[i + 1]
        BY <4>1 DEF Lists
      <4> QED BY <2>3, <4>1, <4>2, <4>3
    <3>3. LinkedFrom(get_head, GetList)
      BY <2>3, <3>1, <3>2 DEF LinkedFrom
    <3> QED BY <2>1, <2>4, <2>5, <2>6, <3>3 DEF ListsAreContent, Lists
  <2>7. CASE get_head = put_head
    BY <2>1, <2>4, <2>5, <2>7 DEF ListsAreContent, Lists
  <2> QED BY <2>6, <2>7
<1> QED BY <1>1, Queues, PTL

\* In blocking mode at most twice maxlen messages are pending, unless the limit
\* of line 92 wraps around: neither list grows beyond maxlen.
THEOREM BoundKept == Spec => []PendingBound
<1>1. QueueInv => PendingBound
  BY Bounds DEF QueueInv, TypeOK, Limits, PendingBound
<1> QED BY <1>1, Queues, PTL

\* One consumer at a time is in msgqueue_get, and only it can be waiting.
THEOREM OneWaiter == Spec => []OneGetWaiter
<1>1. QueueInv => OneGetWaiter
  BY DEF QueueInv, TypeOK, Locks, InGet, OneGetWaiter
<1> QED BY <1>1, Queues, PTL

\* No failure of msgqueue_create leaves a resource behind, and nobody holds or
\* awaits what msgqueue_destroy destroys.
THEOREM CleanEnd == Spec => []NothingLeftBehind
<1>1. QueueInv => NothingLeftBehind
  BY RolesDistinct, NULLDistinct
  DEF QueueInv, TypeOK, Locks, InPut, InGet, Threads, NothingLeftBehind
<1> QED BY <1>1, Queues, PTL

\* msgqueue_get returns NULL only of an empty queue that was in nonblocking mode
\* at some time: a consumer that msgqueue_set_nonblock did not release has
\* tested msg_cnt under put_mutex, and nobody changed it since.
THEOREM NullIsRight == Spec => NullOnlyWhenEmpty
<1>1. ASSUME QueueInv, [Next]_vars, NEW c \in Consumers, pc[c] = "swap", pc'[c] = "null"
      PROVE  content = <<>> /\ switches > 0
  <2>1. msg_cnt = 0
    <3>1. Swap(c)
      BY <1>1, RolesDistinct
      DEF QueueInv, TypeOK, Locks, Next, PutStep, GetStep, NonblockStep, BeginPut, LockPut,
          TestFull, WakePut, AppendMsg, UnlockPut, SignalGet, LockGet, Look, Turn, TestEmpty,
          WakeGet, Swap, Take, UnlockGet, SpuriousWake, StoreNonblock, WakeAll, UnlockNonblock,
          SetBlock, AcquireResource, AcquireFails, Leave, Destroy, Goto, Threads, vars
    <3> QED BY <1>1, <3>1 DEF Swap, Goto, QueueInv, TypeOK, Threads
  <2>2. Len(content) = 0 /\ content \in Seq(Msgs)
    BY <1>1, <2>1 DEF QueueInv, TypeOK, Lists, Turned
  <2> QED BY <1>1, <2>1, <2>2, EmptySeq DEF QueueInv, TypeOK, Limits
<1>2. QueueInv /\ [Next]_vars =>
        [\A c \in Consumers :
           pc[c] = "swap" /\ pc'[c] = "null" => content = <<>> /\ switches > 0]_vars
  BY <1>1
<1> QED BY <1>2, Queues, PTL DEF Spec, NullOnlyWhenEmpty

-----------------------------------------------------------------------------
(* The refinement of FifoQueue. *)

\* A consumer has a message from line 109 to line 116, which is nowhere else.
Given ==
  \A c \in Consumers :
    /\ msg[c] # NULL <=> pc[c] = "taken"
    /\ pc[c] = "taken" => /\ msg[c] \in Msgs \ unput /\ ~Pending(msg[c])
                          /\ \A p \in Producers : Carries(p) => msg[p] # msg[c]

LEMMA GivenInit == Init => Given
BY RolesDistinct DEF Init, Given, Threads

\* What the first message of the queue is, and that it is there once.
LEMMA TakeKnows ==
  ASSUME QueueInv, NEW c \in Consumers, Take(c)
  PROVE  /\ content \in Seq(Msgs) /\ content # <<>> /\ Head(content) = content[1]
         /\ content[1] \in Msgs /\ Pending(content[1])
         /\ content' = Tail(content)
         /\ msg' = [msg EXCEPT ![c] = content[1]]
         /\ \A m \in Msgs : Pending(m)' => Pending(m) /\ m # content[1]
<1> USE RolesDistinct, NULLDistinct DEF QueueInv, Take, Goto, Threads
<1>1. \A d \in Consumers : ~Turned(d)
  BY OneGetter DEF Locks, InGet, Turned
<1>2. PICK n \in Nat : n = Len(content)
  BY DEF TypeOK
<1>3. n > 0 /\ cell[get_head] = content[1]
  BY <1>1, <1>2 DEF Lists, TypeOK
<1>4. content \in Seq(Msgs) /\ content # <<>> /\ 1 \in 1 .. n
  BY <1>2, <1>3 DEF TypeOK
<1>5. content[1] \in Msgs /\ Pending(content[1]) /\ Head(content) = content[1]
  BY <1>2, <1>4 DEF Pending
<1>6. ASSUME NEW m \in Msgs, Pending(m)'
      PROVE  Pending(m) /\ m # content[1]
  <2>1. Len(content') = n - 1 /\ \A k \in 1 .. n - 1 : content'[k] = content[k + 1]
    BY <1>2, <1>4, HeadTailProperties
  <2>2. PICK k \in 1 .. n - 1 : content'[k] = m
    BY <1>6, <2>1 DEF Pending
  <2>3. k + 1 \in 1 .. n /\ k + 1 # 1 /\ content[k + 1] = m
    BY <1>3, <2>1, <2>2
  <2>4. Pending(m)
    BY <1>2, <2>3 DEF Pending
  <2> QED BY <1>2, <1>4, <2>3, <2>4 DEF Hands
<1> QED BY <1>3, <1>4, <1>5, <1>6

LEMMA GivenStep ==
  ASSUME QueueInv, Given, [Next]_vars
  PROVE  Given'
<1> USE RolesDistinct, NULLDistinct DEF Goto, Threads
<1>1. ASSUME UNCHANGED <<content, msg, unput>>,
             \A p \in Producers : Carries(p)' => Carries(p),
             \A c \in Consumers : pc'[c] = "taken" <=> pc[c] = "taken"
      PROVE  Given'
  BY <1>1 DEF Given, Pending
<1>2. CASE \E p \in Producers : BeginPut(p)
  <2> PICK p \in Producers : BeginPut(p)
    BY <1>2
  <2>1. Fresh \in unput
    BY DEF BeginPut, Fresh
  <2> HIDE DEF Fresh
  <2> QED BY <2>1 DEF BeginPut, QueueInv, TypeOK, Locks, Given, Carries, Pending
<1>3. CASE \E p \in Producers : AppendMsg(p)
  <2> PICK p \in Producers : AppendMsg(p)
    BY <1>3
  <2>1. Carries(p)
    BY DEF AppendMsg, Carries
  <2>2. ASSUME NEW m \in Msgs, Pending(m)'
        PROVE  Pending(m) \/ m = msg[p]
    <3>1. PICK n \in Nat : n = Len(content)
      BY DEF QueueInv, TypeOK
    <3>2. /\ Len(content') = n + 1 /\ content'[n + 1] = msg[p]
          /\ \A k \in 1 .. n : content'[k] = content[k]
      BY <3>1, AppendKnows
    <3>3. PICK k \in 1 .. n + 1 : content'[k] = m
      BY <2>2, <3>2 DEF Pending
    <3> QED BY <3>1, <3>2, <3>3 DEF Pending
  <2> QED BY <2>1, <2>2 DEF AppendMsg, QueueInv, TypeOK, Locks, Given, Carries
<1>4. CASE \E p \in Producers : SignalGet(p)
  BY <1>4 DEF SignalGet, QueueInv, TypeOK, Locks, Given, Carries, Pending, lists, mode
<1>5. CASE \E c \in Consumers : Take(c)
  <2> PICK c \in Consumers : Take(c)
    BY <1>5
  <2>1. \A m \in Msgs : Pending(m)' => Pending(m) /\ m # content[1]
    BY TakeKnows
  <2>2. \A p \in Producers : Carries(p)' => Carries(p) /\ msg'[p] = msg[p]
    BY DEF Take, QueueInv, TypeOK, Carries
  <2>3. content[1] \notin unput /\ \A p \in Producers : Carries(p) => msg[p] # content[1]
    BY TakeKnows DEF QueueInv, Hands
  <2>4. \A d \in Consumers \ {c} : pc'[d] = pc[d] /\ msg'[d] = msg[d]
    BY DEF Take, QueueInv, TypeOK
  <2>5. pc'[c] = "taken" /\ unput' = unput
    BY DEF Take, QueueInv, TypeOK
  <2>6. msg'[c] = content[1] /\ content[1] \in Msgs
    BY TakeKnows DEF QueueInv, TypeOK
  <2>7. ASSUME NEW d \in Consumers, d # c, pc[d] = "taken"
        PROVE  FALSE
    BY <2>7, OneGetter DEF Take, QueueInv, InGet
  <2> QED BY <2>1, <2>2, <2>3, <2>4, <2>5, <2>6, <2>7 DEF Given
<1>6. CASE \E c \in Consumers : UnlockGet(c)
  BY <1>6 DEF UnlockGet, QueueInv, TypeOK, Locks, Given, Carries, Pending, lists, mode
<1>7. CASE \/ \E p \in Producers : LockPut(p, "lock", "test") \/ TestFull(p) \/ WakePut(p)
                                     \/ UnlockPut(p)
           \/ \E c \in Consumers : \/ LockGet(c) \/ Look(c) \/ Turn(c)
                                   \/ LockPut(c, "lock", "test") \/ TestEmpty(c)
                                   \/ WakeGet(c) \/ Swap(c)
           \/ StoreNonblock \/ SetBlock \/ NonblockStep
           \/ \E t \in Producers \cup Consumers : SpuriousWake(t)
           \/ \E t \in Producers \cup {Controller} : Leave(t)
           \/ \E r \in Resources : AcquireResource(r) \/ AcquireFails(r)
           \/ Destroy \/ UNCHANGED vars
  <2>1. UNCHANGED <<content, msg, unput>>
    BY <1>7
    DEF LockPut, TestFull, WakePut, UnlockPut, LockGet, Look, Turn, TestEmpty, WakeGet, Swap,
        StoreNonblock, SetBlock, NonblockStep, WakeAll, UnlockNonblock, SpuriousWake, Leave,
        AcquireResource, AcquireFails, Destroy, lists, vars
  <2>2. /\ \A p \in Producers : Carries(p)' => Carries(p)
        /\ \A c \in Consumers : pc'[c] = "taken" <=> pc[c] = "taken"
    BY <1>7
    DEF LockPut, TestFull, WakePut, UnlockPut, LockGet, Look, Turn, TestEmpty, WakeGet, Swap,
        StoreNonblock, SetBlock, NonblockStep, WakeAll, UnlockNonblock, SpuriousWake, Leave,
        AcquireResource, AcquireFails, Destroy, vars, QueueInv, TypeOK, Locks, Carries
  <2> QED BY <1>1, <2>1, <2>2
<1> QED BY <1>2, <1>3, <1>4, <1>5, <1>6, <1>7 DEF Next, PutStep, GetStep

\* For the users of msgqueue.c the two lists are one queue: a message comes out
\* once, to one consumer, after every message that was put before it at line 95,
\* for any number of threads and messages, in both modes.
THEOREM FifoRefinement == Spec => ImplementsFifo
<1> USE RolesDistinct, NULLDistinct DEF Goto, Threads
<1>1. Init => Fifo!Init
  BY DEF Init, Fifo!Init
<1>2. ASSUME QueueInv, Given, [Next]_vars
      PROVE  [Fifo!Next]_(Fifo!vars)
  <2>1. ASSUME content' = content, \A c \in Consumers : msg'[c] = msg[c]
        PROVE  UNCHANGED Fifo!vars
    BY <2>1 DEF Fifo!vars
  <2>2. CASE \E p \in Producers : AppendMsg(p)
    <3> PICK p \in Producers : AppendMsg(p)
      BY <2>2
    <3>1. /\ msg[p] \in Msgs /\ content' = Append(content, msg[p])
          /\ \A k \in 1 .. Len(content) : content[k] # msg[p]
      BY <1>2, AppendKnows DEF AppendMsg, Pending
    <3>2. \A c \in Consumers : msg[c] # msg[p]
      BY <1>2, <3>1 DEF AppendMsg, Given, Carries
    <3>3. msg' = msg
      BY DEF AppendMsg
    <3>4. Fifo!Put(msg[p])
      BY <3>1, <3>2, <3>3 DEF Fifo!Put
    <3> QED BY <3>1, <3>4 DEF Fifo!Next
  <2>3. CASE \E c \in Consumers : Take(c)
    <3> PICK c \in Consumers : Take(c)
      BY <2>3
    <3>1. msg[c] = NULL
      BY <1>2 DEF Take, Given
    <3>2. [d \in Consumers |-> msg[d]]' = [[d \in Consumers |-> msg[d]] EXCEPT ![c] = Head(content)]
      <4>1. /\ msg' = [msg EXCEPT ![c] = content[1]] /\ Head(content) = content[1]
            /\ msg \in [Producers \cup Consumers -> Msgs \cup {NULL}]
        BY <1>2, TakeKnows DEF QueueInv, TypeOK
      <4> QED BY ONLY <4>1, c \in Consumers
    <3>3. Fifo!Take(c)
      BY <1>2, <3>1, <3>2, TakeKnows DEF Fifo!Take
    <3> QED BY <3>3 DEF Fifo!Next
  <2>4. CASE \E c \in Consumers : UnlockGet(c)
    <3> PICK c \in Consumers : UnlockGet(c)
      BY <2>4
    <3>1. [d \in Consumers |-> msg[d]]' = [[d \in Consumers |-> msg[d]] EXCEPT ![c] = NULL]
      BY <1>2 DEF UnlockGet, QueueInv, TypeOK
    <3>2. Fifo!Drop(c)
      BY <3>1 DEF UnlockGet, lists, Fifo!Drop
    <3> QED BY <3>2 DEF Fifo!Next
  <2>5. CASE \/ \E p \in Producers : \/ BeginPut(p) \/ LockPut(p, "lock", "test") \/ TestFull(p)
                                     \/ WakePut(p) \/ UnlockPut(p) \/ SignalGet(p)
             \/ \E c \in Consumers : \/ LockGet(c) \/ Look(c) \/ Turn(c)
                                     \/ LockPut(c, "lock", "test") \/ TestEmpty(c)
                                     \/ WakeGet(c) \/ Swap(c)
             \/ StoreNonblock \/ SetBlock \/ NonblockStep
             \/ \E t \in Producers \cup Consumers : SpuriousWake(t)
             \/ \E t \in Producers \cup {Controller} : Leave(t)
             \/ \E r \in Resources : AcquireResource(r) \/ AcquireFails(r)
             \/ Destroy \/ UNCHANGED vars
    <3>1. content' = content /\ \A c \in Consumers : msg'[c] = msg[c]
      BY <1>2, <2>5
      DEF BeginPut, LockPut, TestFull, WakePut, UnlockPut, SignalGet, LockGet, Look, Turn,
          TestEmpty, WakeGet, Swap, StoreNonblock, SetBlock, NonblockStep, WakeAll,
          UnlockNonblock, SpuriousWake, Leave, AcquireResource, AcquireFails, Destroy, lists,
          vars, QueueInv, TypeOK
    <3> QED BY <2>1, <3>1
  <2> QED BY <1>2, <2>2, <2>3, <2>4, <2>5 DEF Next, PutStep, GetStep
<1>3. Spec => []Given
  BY GivenInit, GivenStep, Queues, PTL DEF Spec
<1> QED BY <1>1, <1>2, <1>3, Queues, PTL DEF Spec, ImplementsFifo, Fifo!Spec
=============================================================================
