--------------------------- MODULE ServersProofs ---------------------------
(***************************************************************************)
(* Every peer of the servers of 2_Net/2.1-epoll gets its own bytes, no     *)
(* event is stale, and no connection is closed or lost but for the named   *)
(* reasons, for any number of peers, threads and descriptors, and buffers  *)
(* of any length.                                                          *)
(***************************************************************************)
EXTENDS Servers, FiniteSetTheorems, SequenceTheorems, WellFoundedInduction, TLAPS

Data == (Peers \X Nat) \cup {Response, Junk}

Sides == {"none", "backlog", "accepted", "closed"}

PeerStates == {"new", "open", "shut", "gone", "hit", "cut", "reset", "dead"}

Interests == {"none", "in", "out", "edge"}

ThreadStates ==
  [pc : {"none", "born", "recv", "send", "error", "close", "ended"},
   fd : Fds \cup {None}, meant : Fds \cup {None}, buf : Seq(Data)]

Typed ==
  /\ kind \in Programs /\ room \in Nat \ {0} /\ alive \in BOOLEAN
  /\ DOMAIN bytes \subseteq Peers /\ \A p \in DOMAIN bytes : bytes[p] \in Nat
  /\ file \in [Fds -> Files \cup Peers]
  /\ interest \in [Fds -> Interests]
  /\ batch \subseteq Fds \X {"in", "out", "edge"} /\ fresh \subseteq Fds
  /\ conn \in [Peers -> Sides]
  /\ peer \in [Peers -> PeerStates]
  /\ sent \in [Peers -> Nat] /\ read \in [Peers -> Nat]
  /\ \A p \in Peers : read[p] <= sent[p]
  /\ got \in [Peers -> Seq(Data)]
  /\ rbuf \in [Fds -> Seq(Data)] /\ wbuf \in [Fds -> Seq(Data)]
  /\ clientfd \in Fds \cup {None} /\ maxfd \in Fds \cup {None} /\ index \in Nat
  /\ thread \in [Threads -> ThreadStates]

\* Each accepted connection has one descriptor, and nothing was exchanged on
\* one that was not accepted.
Placed(fd) ==
  file[fd] \in Peers =>
    /\ conn[file[fd]] = "accepted"
    /\ \A other \in Fds : file[other] = file[fd] => other = fd

Known(p) ==
  /\ conn[p] = "accepted" => \E fd \in Fds : file[fd] = p
  /\ conn[p] \in {"none", "backlog"} => read[p] = 0 /\ got[p] = <<>>
  /\ conn[p] = "none" => sent[p] = 0
  /\ conn[p] # "none" => peer[p] # "new" /\ p \in DOMAIN bytes /\ sent[p] <= bytes[p]

Registered ==
  /\ \A fd \in fresh : interest[fd] = "edge" /\ file[fd] \in Peers
  /\ kind # "edge" => \A fd \in Fds : interest[fd] # "edge"
  /\ file[ListenFd] = "listen" => interest[ListenFd] = "in"

Table ==
  /\ \A fd \in Fds : Placed(fd)
  /\ \A p \in Peers : Known(p)
  /\ kind # "edge" =>
       \A fd \in Fds : fd <= Reserved =>
         file[fd] = IF fd < ListenFd THEN "std" ELSE IF fd = ListenFd THEN "listen" ELSE "epoll"
  /\ Registered

\* What peers have been sent; in the threads server only while every thread
\* has the descriptor it was created for.
Told ==
  ~(kind = "threads" /\ \E fd \in Fds : Misled(fd)) =>
    \A p \in Peers :
      /\ Len(got[p]) <= read[p]
      /\ kind # "http" => got[p] = Bytes(p, Len(got[p]))

\* reactor.c and webserver.c: the buffers and the registration of a connection
\* agree with what was read from it.
Open(fd) == file[fd] \in Peers /\ alive /\ peer[file[fd]] # "dead"

Buffered(fd) ==
  /\ Len(rbuf[fd]) <= BufLen /\ Len(wbuf[fd]) <= BufLen
  /\ kind = "echo" => rbuf[fd] = <<>>
  /\ file[fd] \in Peers <=> interest[fd] # "none" /\ fd # ListenFd
  /\ file[fd] \in Peers /\ kind = "http" =>
       rbuf[fd] = Bytes(file[fd], read[file[fd]])
  /\ Open(fd) /\ interest[fd] = "out" => wbuf[fd] # <<>>
  /\ Open(fd) /\ kind = "echo" =>
       got[file[fd]] \o Unsent(fd) = Bytes(file[fd], read[file[fd]])
  /\ Open(fd) /\ kind = "http" =>
       Len(got[file[fd]]) + Len(Unsent(fd)) <= read[file[fd]]

Buffers ==
  kind \in {"echo", "http"} =>
    /\ \A fd \in Fds : Buffered(fd)
    /\ alive => \A e \in batch : interest[e[1]] = e[2]

\* multi-io.c without threads: what is read is sent at once.
Direct == {"blocking", "select", "poll", "edge"}

\* i of the edge-triggered loop stays below the number of events.
Counted ==
  /\ kind # "edge" => index = 0
  /\ kind = "edge" =>
       IsFiniteSet(batch) /\ index + Cardinality(batch) <= Cardinality(Fds)

AtOnce ==
  /\ kind \in Direct =>
       \A fd \in Fds : Open(fd) => got[file[fd]] = Bytes(file[fd], read[file[fd]])
  /\ kind \notin {"echo", "http"} =>
       \A fd \in Fds : rbuf[fd] = <<>> /\ wbuf[fd] = <<>>
  /\ kind # "threads" => \A t \in Threads : thread[t].pc = "none" /\ thread[t].buf = <<>>
  /\ kind = "blocking" => \A fd \in Fds : file[fd] \in Peers <=> fd = clientfd
  /\ Counted

\* select and poll: until a connection is closed descriptors are given out in
\* order, and maxfd is the last of them.
InOrder ==
  kind \in {"select", "poll"} /\ (\A p \in Peers : conn[p] # "closed") =>
    IF maxfd = None THEN FreeFds = {}
    ELSE ListenFd <= maxfd /\ \A fd \in Fds : file[fd] = "free" <=> fd > maxfd

\* The threads of multi-io.c: where each is, and, as long as no other thread
\* has read the number of a connection, that at most one is at work for it,
\* what that one owes it, and what it knows of it.
AtWork(t) ==
  /\ thread[t].pc = "none" => thread[t].meant = None
  /\ thread[t].pc \in {"none", "born"} => thread[t].fd = None
  /\ thread[t].pc # "send" => thread[t].buf = <<>>
  /\ Len(thread[t].buf) <= BufLen
  /\ thread[t].pc \in {"send", "error", "close"} => thread[t].fd \in Fds
  /\ thread[t].fd # None => thread[t].fd > Reserved

Meant(fd) == {t \in Threads : thread[t].meant = fd /\ thread[t].pc # "ended"}

Owing(fd) ==
  /\ \A t \in OwnersOf(fd) :
       got[file[fd]] \o thread[t].buf = Bytes(file[fd], read[file[fd]])
  /\ OwnersOf(fd) = {} => got[file[fd]] = Bytes(file[fd], read[file[fd]])

Knows(fd) ==
  \A t \in OwnersOf(fd) :
    /\ thread[t].pc = "close" =>
         peer[file[fd]] # "open" /\ read[file[fd]] = sent[file[fd]]
    /\ thread[t].pc = "error" => peer[file[fd]] = "dead"

Minded(fd) ==
  /\ file[fd] \notin Peers => Meant(fd) = {}
  /\ \A t, u \in Meant(fd) : t = u
  /\ Open(fd) => Owing(fd)
  /\ file[fd] \in Peers => Knows(fd)

Owned ==
  kind = "threads" =>
    /\ \A t \in Threads : AtWork(t)
    /\ \A fd \in Fds : ~Misled(fd) => Minded(fd)
    /\ clientfd # None => clientfd > Reserved

ServersInv ==
  Typed /\ Table /\ Told /\ Buffers /\ AtOnce /\ InOrder /\ Owned

-----------------------------------------------------------------------------
(* Descriptors, and what recv returns *)

LEMMA FdFacts ==
  ASSUME Typed
  PROVE  /\ Fds \subseteq Nat /\ ListenFd \in Fds /\ None \notin Fds
         /\ Reserved \in Nat /\ ListenFd <= Reserved /\ Reserved \in Fds
         /\ IsFiniteSet(Fds)
         /\ BufLen \in Nat \ {0}
<1>1. room \in Nat /\ Reserved \in {3, 4}
  BY DEF Typed, Reserved, EpollFd, ListenFd
<1>2. IsFiniteSet(0 .. Reserved + room)
  BY <1>1, FS_Interval
<1>3. BufLen \in Nat \ {0}
  BY BuffersPositive DEF BufLen
<1> QED BY <1>1, <1>2, <1>3 DEF Fds, ListenFd, None

LEMMA SameProgram ==
  ASSUME UNCHANGED program
  PROVE  /\ Fds' = Fds /\ Reserved' = Reserved /\ BufLen' = BufLen
         /\ kind' = kind /\ room' = room /\ bytes' = bytes
BY DEF program, Fds, Reserved, BufLen

\* accept returns the lowest free descriptor.
LEMMA Lowest ==
  ASSUME Typed, FreeFds # {}
  PROVE  /\ Min(FreeFds) \in Fds /\ file[Min(FreeFds)] = "free"
         /\ \A fd \in Fds : file[fd] = "free" => Min(FreeFds) <= fd
<1>1. FreeFds \in SUBSET Nat
  BY FdFacts DEF FreeFds
<1>2. PICK m \in FreeFds : \A n \in FreeFds : ~(<<n, m>> \in OpToRel(<, Nat))
  BY <1>1, NatLessThanWellFounded, WFMin
<1>3. \A n \in FreeFds : ~(n < m)
  BY <1>1, <1>2 DEF OpToRel
<1>4. \A n \in FreeFds : m <= n
  BY <1>1, <1>3
<1>5. Min(FreeFds) \in FreeFds /\ \A n \in FreeFds : Min(FreeFds) <= n
  BY <1>4 DEF Min
<1> QED BY <1>5 DEF FreeFds

LEMMA MinOfTwo ==
  ASSUME NEW a \in Nat, NEW b \in Nat
  PROVE  Min({a, b}) = IF a <= b THEN a ELSE b
BY DEF Min

LEMMA CountFacts ==
  ASSUME Typed, NEW fd \in Fds, NEW len \in Nat
  PROVE  /\ Count(fd, len) \in Int /\ -1 <= Count(fd, len) /\ Count(fd, len) <= len
         /\ Count(fd, len) >= 0 => file[fd] \in Peers
         /\ Count(fd, len) > 0 => read[file[fd]] + Count(fd, len) <= sent[file[fd]]
         /\ Count(fd, len) <= 0 /\ len > 0 /\ file[fd] \in Peers =>
              read[file[fd]] = sent[file[fd]]
         /\ Count(fd, len) = -1 /\ file[fd] \in Peers => peer[file[fd]] = "reset"
<1>1. CASE file[fd] \notin Peers
  BY <1>1 DEF Count
<1>2. CASE file[fd] \in Peers
  <2> DEFINE p == file[fd]
  <2>1. read[p] \in Nat /\ sent[p] \in Nat /\ read[p] <= sent[p]
    BY <1>2 DEF Typed
  <2>2. CASE read[p] < sent[p]
    <3>1. sent[p] - read[p] \in Nat
      BY <2>1, <2>2
    <3>2. Count(fd, len) = IF len <= sent[p] - read[p] THEN len ELSE sent[p] - read[p]
      BY <1>2, <2>2, <3>1, MinOfTwo DEF Count
    <3> QED BY <1>2, <2>1, <2>2, <3>2
  <2>3. CASE read[p] = sent[p]
    BY <1>2, <2>1, <2>3 DEF Count
  <2> QED BY <2>1, <2>2, <2>3
<1> QED BY <1>1, <1>2

-----------------------------------------------------------------------------
(* Bytes *)

LEMMA BytesFacts ==
  ASSUME NEW p \in Peers, NEW n \in Nat
  PROVE  /\ Bytes(p, n) \in Seq(Data) /\ Len(Bytes(p, n)) = n
         /\ \A j \in 1 .. n : Bytes(p, n)[j] = <<p, j>>
<1>1. \A j \in 1 .. n : <<p, j>> \in Data
  BY DEF Data
<1> QED BY <1>1 DEF Bytes

LEMMA NoBytes ==
  ASSUME NEW p \in Peers
  PROVE  Bytes(p, 0) = <<>>
BY BytesFacts, EmptySeq DEF Bytes

\* What comes after n bytes of p.
LEMMA BytesGrow ==
  ASSUME NEW p \in Peers, NEW n \in Nat, NEW s \in Seq(Data),
         \A j \in 1 .. Len(s) : s[j] = <<p, n + j>>
  PROVE  Bytes(p, n) \o s = Bytes(p, n + Len(s))
<1>1. /\ Bytes(p, n) \in Seq(Data) /\ Len(Bytes(p, n)) = n
      /\ \A j \in 1 .. n : Bytes(p, n)[j] = <<p, j>>
  BY BytesFacts
<1>0. Len(s) \in Nat /\ n + Len(s) \in Nat
  BY LenProperties
<1>2. /\ Bytes(p, n + Len(s)) \in Seq(Data) /\ Len(Bytes(p, n + Len(s))) = n + Len(s)
      /\ \A j \in 1 .. n + Len(s) : Bytes(p, n + Len(s))[j] = <<p, j>>
  BY <1>0, BytesFacts
<1>5. PICK b : b = Bytes(p, n)
  OBVIOUS
<1>6. /\ b \o s \in Seq(Data) /\ Len(b \o s) = Len(b) + Len(s)
      /\ \A j \in 1 .. Len(b) + Len(s) :
           (b \o s)[j] = IF j <= Len(b) THEN b[j] ELSE s[j - Len(b)]
  BY <1>1, <1>5, ConcatProperties
<1>3. /\ Bytes(p, n) \o s \in Seq(Data) /\ Len(Bytes(p, n) \o s) = n + Len(s)
      /\ \A j \in 1 .. n + Len(s) :
           (Bytes(p, n) \o s)[j] = IF j <= n THEN Bytes(p, n)[j] ELSE s[j - n]
  BY <1>1, <1>5, <1>6
<1>4. ASSUME NEW j \in 1 .. n + Len(s)
      PROVE  (Bytes(p, n) \o s)[j] = Bytes(p, n + Len(s))[j]
  <2>1. Bytes(p, n + Len(s))[j] = <<p, j>>
    BY <1>2
  <2>2. CASE j <= n
    <3>1. j \in 1 .. n
      BY <1>0, <2>2
    <3> QED BY <1>1, <1>3, <2>1, <2>2, <3>1
  <2>3. CASE ~(j <= n)
    <3>1. j - n \in 1 .. Len(s) /\ n + (j - n) = j
      BY <1>0, <2>3
    <3>2. s[j - n] = <<p, j>>
      BY <3>1
    <3> QED BY <1>3, <2>1, <2>3, <3>2
  <2> QED BY <2>2, <2>3
<1> QED BY <1>0, <1>2, <1>3, <1>4, SeqEqual

LEMMA BytesSplit ==
  ASSUME NEW p \in Peers, NEW n \in Nat, NEW s \in Seq(Data), NEW u \in Seq(Data),
         s \o u = Bytes(p, n)
  PROVE  Len(s) + Len(u) = n /\ s = Bytes(p, Len(s))
<1>1. /\ Bytes(p, n) \in Seq(Data) /\ Len(Bytes(p, n)) = n
      /\ \A j \in 1 .. n : Bytes(p, n)[j] = <<p, j>>
  BY BytesFacts
<1>3. Len(s) \in Nat /\ Len(u) \in Nat
  BY LenProperties
<1>2. /\ Len(s \o u) = Len(s) + Len(u)
      /\ \A j \in 1 .. Len(s) : (s \o u)[j] = s[j]
  BY <1>3, ConcatProperties
<1>4. /\ Bytes(p, Len(s)) \in Seq(Data) /\ Len(Bytes(p, Len(s))) = Len(s)
      /\ \A j \in 1 .. Len(s) : Bytes(p, Len(s))[j] = <<p, j>>
  BY <1>3, BytesFacts
<1>5. ASSUME NEW j \in 1 .. Len(s)
      PROVE  s[j] = Bytes(p, Len(s))[j]
  <2>1. j \in 1 .. n
    BY <1>1, <1>2, <1>3
  <2>2. Bytes(p, n)[j] = <<p, j>> /\ (s \o u)[j] = s[j]
    BY <2>1, <1>1, <1>2
  <2> QED BY <1>4, <2>2
<1> QED BY <1>1, <1>2, <1>3, <1>4, <1>5, SeqEqual

\* Something is still to be sent while less was sent than was read.
LEMMA RestIsSome ==
  ASSUME NEW p \in Peers, NEW n \in Nat, NEW s \in Seq(Data), NEW u \in Seq(Data),
         s \o u = Bytes(p, n)
  PROVE  Len(s) < n <=> u # <<>>
<1>1. Len(s) + Len(u) = n
  BY BytesSplit
<1>2. Len(s) \in Nat /\ Len(u) \in Nat
  BY LenProperties
<1>3. Len(u) = 0 <=> u = <<>>
  BY EmptySeq
<1> QED BY <1>1, <1>2, <1>3

LEMMA BytesPrefix ==
  ASSUME NEW p \in Peers, NEW m \in Nat, NEW n \in Nat, m <= n
  PROVE  IsPrefix(Bytes(p, m), Bytes(p, n))
<1>1. \A k \in Nat : Bytes(p, k) \in Seq(Data) /\ Len(Bytes(p, k)) = k
  BY BytesFacts
<1>2. \A j \in 1 .. m : Bytes(p, m)[j] = <<p, j>> /\ Bytes(p, n)[j] = <<p, j>> /\ <<p, j>> \in Data
  BY DEF Bytes, Data
<1>4. ASSUME NEW s, \A j \in 1 .. m : s[j] = <<p, j>>
      PROVE  /\ SubSeq(s, 1, m) \in Seq(Data) /\ Len(SubSeq(s, 1, m)) = m
             /\ \A j \in 1 .. m : SubSeq(s, 1, m)[j] = <<p, j>>
  <2>1. \A j \in 1 .. m : s[j] \in Data
    BY <1>2, <1>4
  <2>2. /\ SubSeq(s, 1, m) \in Seq(Data)
        /\ Len(SubSeq(s, 1, m)) = IF 1 <= m THEN m - 1 + 1 ELSE 0
        /\ \A j \in 1 .. m - 1 + 1 : SubSeq(s, 1, m)[j] = s[1 + j - 1]
    BY <2>1, SubSeqProperties
  <2> QED BY <1>4, <2>2
<1>3. SubSeq(Bytes(p, m), 1, m) = SubSeq(Bytes(p, n), 1, m)
  <2>1. PICK a, b : a = SubSeq(Bytes(p, m), 1, m) /\ b = SubSeq(Bytes(p, n), 1, m)
    OBVIOUS
  <2>2. /\ a \in Seq(Data) /\ Len(a) = m /\ \A j \in 1 .. m : a[j] = <<p, j>>
        /\ b \in Seq(Data) /\ Len(b) = m /\ \A j \in 1 .. m : b[j] = <<p, j>>
    BY <1>2, <1>4, <2>1
  <2>3. a = b
    BY <2>2, SeqEqual
  <2> QED BY <2>1, <2>3
<1> QED BY <1>1, <1>3 DEF IsPrefix

\* What recv returned are the next bytes of the peer.
LEMMA ChunkFacts ==
  ASSUME Typed, NEW fd \in Fds, NEW len \in Nat
  PROVE  /\ Chunk(fd, len) \in Seq(Data)
         /\ Len(Chunk(fd, len)) = IF Count(fd, len) > 0 THEN Count(fd, len) ELSE 0
         /\ \A j \in 1 .. Len(Chunk(fd, len)) :
              Chunk(fd, len)[j] = <<file[fd], read[file[fd]] + j>>
<1> DEFINE n == Count(fd, len)
<1>1. n \in Int /\ -1 <= n /\ (n >= 0 => file[fd] \in Peers)
  BY CountFacts
<1>2. CASE n > 0
  <2>1. read[file[fd]] \in Nat
    BY <1>1, <1>2 DEF Typed
  <2>2. \A j \in 1 .. n : <<file[fd], read[file[fd]] + j>> \in Data
    BY <1>1, <1>2, <2>1 DEF Data
  <2> HIDE DEF n
  <2>3. Chunk(fd, len) = [j \in 1 .. n |-> <<file[fd], read[file[fd]] + j>>]
    BY DEF Chunk, n
  <2> QED BY <1>1, <1>2, <2>2, <2>3 DEF n
<1>3. CASE n <= 0
  <2>1. 1 .. n = 1 .. 0
    BY <1>1, <1>3
  <2>2. Chunk(fd, len) = [j \in 1 .. 0 |-> <<file[fd], read[file[fd]] + j>>]
    BY <2>1 DEF Chunk
  <2>3. Chunk(fd, len) \in Seq(Data) /\ Len(Chunk(fd, len)) = 0
    BY <2>2
  <2> QED BY <1>1, <1>3, <2>3
<1> QED BY <1>1, <1>2, <1>3

-----------------------------------------------------------------------------
(* What a step keeps if it does not touch it *)

LEMMA StaysTyped ==
  ASSUME Typed, UNCHANGED program, alive' \in BOOLEAN,
         file' \in [Fds -> Files \cup Peers], interest' \in [Fds -> Interests],
         batch' \subseteq Fds \X {"in", "out", "edge"}, fresh' \subseteq Fds,
         conn' \in [Peers -> Sides], peer' \in [Peers -> PeerStates],
         sent' \in [Peers -> Nat], read' \in [Peers -> Nat],
         \A p \in Peers : read'[p] <= sent'[p],
         got' \in [Peers -> Seq(Data)],
         rbuf' \in [Fds -> Seq(Data)], wbuf' \in [Fds -> Seq(Data)],
         clientfd' \in Fds \cup {None}, maxfd' \in Fds \cup {None}, index' \in Nat,
         thread' \in [Threads -> ThreadStates]
  PROVE  Typed'
<1>1. /\ kind \in Programs /\ room \in Nat \ {0}
      /\ DOMAIN bytes \subseteq Peers /\ \A p \in DOMAIN bytes : bytes[p] \in Nat
  BY DEF Typed
<1>2. Fds' = Fds /\ kind' = kind /\ room' = room /\ bytes' = bytes
  BY SameProgram
<1>3. ThreadStates' = ThreadStates
  BY <1>2 DEF ThreadStates
<1> QED BY <1>1, <1>2, <1>3 DEF Typed

LEMMA KeepsTable ==
  ASSUME Typed, Table, UNCHANGED <<program, file>>, Registered',
         \A p \in Peers :
           /\ \/ conn'[p] = conn[p]
              \/ conn[p] = "none" /\ conn'[p] = "backlog" /\ p \in DOMAIN bytes
           /\ conn'[p] # "none" => peer'[p] # "new"
           /\ conn'[p] = "none" => sent'[p] = sent[p]
           /\ p \in DOMAIN bytes /\ sent[p] <= bytes[p] => sent'[p] <= bytes[p]
           /\ conn'[p] \in {"none", "backlog"} => read'[p] = read[p] /\ got'[p] = got[p]
  PROVE  Table'
<1>0. Fds' = Fds /\ kind' = kind /\ bytes' = bytes /\ file' = file /\ Reserved' = Reserved
  BY SameProgram
<1>1. ASSUME NEW fd \in Fds
      PROVE  Placed(fd)'
  BY <1>0 DEF Table, Placed
<1>2. ASSUME NEW p \in Peers
      PROVE  Known(p)'
  <2>1. Known(p)
    BY DEF Table
  <2>2. p \in DOMAIN bytes => bytes[p] \in Nat
    BY DEF Typed
  <2> QED BY <1>0, <2>1, <2>2 DEF Known
<1>3. kind' # "edge" =>
        \A fd \in Fds' : fd <= Reserved' =>
          file'[fd] = IF fd < ListenFd THEN "std" ELSE IF fd = ListenFd THEN "listen" ELSE "epoll"
  BY <1>0 DEF Table
<1> QED BY <1>0, <1>1, <1>2, <1>3 DEF Table

LEMMA KeepsServers ==
  ASSUME Typed, Buffers, AtOnce, InOrder, Owned,
         UNCHANGED <<program, alive, file, interest, batch, read, got, buffers, memory>>,
         \A p \in Peers : /\ peer'[p] = "dead" <=> peer[p] = "dead"
                          /\ conn'[p] = "closed" <=> conn[p] = "closed"
                          /\ peer[p] # "open" /\ p \in {file[fd] : fd \in Fds} =>
                               peer'[p] # "open" /\ sent'[p] = sent[p]
  PROVE  Buffers' /\ AtOnce' /\ InOrder' /\ Owned'
<1>0. /\ Fds' = Fds /\ Reserved' = Reserved /\ BufLen' = BufLen /\ kind' = kind /\ alive' = alive
      /\ file' = file /\ interest' = interest /\ batch' = batch
      /\ read' = read /\ got' = got /\ rbuf' = rbuf /\ wbuf' = wbuf
      /\ clientfd' = clientfd /\ maxfd' = maxfd /\ index' = index /\ thread' = thread
  BY SameProgram DEF buffers, memory
<1>1. ASSUME NEW fd \in Fds
      PROVE  /\ Open(fd)' <=> Open(fd)
             /\ Unsent(fd)' = Unsent(fd) /\ OwnersOf(fd)' = OwnersOf(fd)
  BY <1>0 DEF Open, Unsent, OwnersOf, Typed
<1>2. ASSUME NEW fd \in Fds
      PROVE  Buffered(fd)' <=> Buffered(fd)
  BY <1>0, <1>1 DEF Buffered
<1>3. Buffers'
  BY <1>0, <1>2 DEF Buffers
<1>4. AtOnce'
  BY <1>0, <1>1 DEF AtOnce, Counted
<1>5. InOrder'
  BY <1>0 DEF InOrder, FreeFds
<1>6. \A t \in Threads : AtWork(t)' <=> AtWork(t)
  BY <1>0 DEF AtWork
<1>7. ASSUME NEW fd \in Fds, Minded(fd)
      PROVE  Minded(fd)'
  <2>1. Meant(fd)' = Meant(fd)
    BY <1>0 DEF Meant
  <2>2. Owing(fd)' <=> Owing(fd)
    BY <1>0, <1>1 DEF Owing
  <2>3. file[fd] \in Peers /\ Knows(fd) => Knows(fd)'
    BY <1>0, <1>1 DEF Knows
  <2> QED BY <1>0, <1>1, <1>7, <2>1, <2>2, <2>3 DEF Minded
<1>8. \A fd \in Fds : Misled(fd)' <=> Misled(fd)
  BY <1>0 DEF Misled
<1>9. Owned'
  BY <1>0, <1>6, <1>7, <1>8 DEF Owned
<1> QED BY <1>3, <1>4, <1>5, <1>9

-----------------------------------------------------------------------------
(* The peers *)

LEMMA MoveStep ==
  ASSUME ServersInv, NEW p \in Peers, Move(p), UNCHANGED <<buffers, memory>>
  PROVE  ServersInv'
<1>0. /\ Typed /\ Table /\ Told /\ Buffers /\ AtOnce /\ InOrder /\ Owned
      /\ conn \in [Peers -> Sides]
      /\ peer \in [Peers -> PeerStates]
      /\ sent \in [Peers -> Nat] /\ fresh \subseteq Fds
  BY DEF ServersInv, Typed
<1>1. UNCHANGED <<program, alive, file, interest, batch, read, got>>
  BY DEF Move, Connect, Send, Finish, Reset, table
<1>2. /\ peer' \in [Peers -> PeerStates]
      /\ \A q \in Peers : /\ peer'[q] = "dead" <=> peer[q] = "dead"
                          /\ peer'[q] = "new" => peer[q] = "new"
                          /\ peer[q] \notin {"new", "open"} => peer'[q] # "open"
                          /\ peer[q] # "open" /\ conn[q] # "none" => sent'[q] = sent[q]
  BY <1>0 DEF Move, Connect, Send, Finish, Reset, PeerStates
<1>3. /\ conn' \in [Peers -> Sides]
      /\ \A q \in Peers :
           \/ conn'[q] = conn[q]
           \/ conn[q] = "none" /\ conn'[q] = "backlog" /\ q \in DOMAIN bytes /\ peer'[q] # "new"
                /\ sent'[q] = sent[q]
  <2>1. CASE conn' = conn
    BY <1>0, <2>1
  <2>2. CASE Connect(p)
    <3>1. p \in DOMAIN bytes /\ peer'[p] # "new" /\ sent' = sent /\ conn[p] = "none"
      BY <1>0, <2>2 DEF Connect, Table, Known
    <3>2. conn' = [conn EXCEPT ![p] = "backlog"]
      BY <2>2 DEF Connect
    <3> QED BY <1>0, <3>1, <3>2 DEF Sides
  <2> QED BY <2>1, <2>2 DEF Move, Send, Finish, Reset
<1>4. /\ sent' \in [Peers -> Nat]
      /\ \A q \in Peers :
           /\ sent'[q] >= sent[q]
           /\ sent[q] <= bytes[q] => sent'[q] <= bytes[q]
           /\ conn[q] \in {"none", "closed"} => sent'[q] = sent[q]
  <2>1. CASE sent' = sent
    BY <1>0, <2>1
  <2>2. CASE Send(p)
    <3>1. conn[p] \notin {"none", "closed"} /\ sent[p] < bytes[p] /\ bytes[p] \in Nat
      BY <1>0, <2>2 DEF Send, Connected, Typed, Table, Known
    <3>2. sent' = [sent EXCEPT ![p] = @ + 1]
      BY <2>2 DEF Send
    <3> QED BY <1>0, <3>1, <3>2
  <2> QED BY <2>1, <2>2 DEF Move, Connect, Finish, Reset
<1>5. fresh' \subseteq Fds /\ \A fd \in fresh' : interest[fd] = "edge" /\ file[fd] \in Peers
  BY <1>0 DEF Move, Connect, Send, Finish, Reset, Table, Registered, Arrive
<1>6. Typed'
  <2>1. \A q \in Peers : read[q] <= sent[q] /\ read[q] \in Nat
    BY <1>0 DEF Typed
  <2>2. \A q \in Peers : read'[q] <= sent'[q]
    BY <1>0, <1>1, <1>4, <2>1
  <2>3. UNCHANGED <<alive, file, interest, batch, read, got, rbuf, wbuf, clientfd, maxfd, index, thread>>
    BY <1>1 DEF buffers, memory
  <2> QED BY <1>0, <1>1, <1>2, <1>3, <1>4, <1>5, <2>2, <2>3, StaysTyped DEF Typed
<1>7. Table'
  <2>1. Registered'
    BY <1>0, <1>1, <1>5, SameProgram DEF Table, Registered
  <2>2. \A q \in Peers : conn[q] # "none" => peer[q] # "new"
    BY <1>0 DEF Table, Known
  <2>3. \A q \in Peers : sent'[q] \in Nat /\ sent[q] \in Nat
    BY <1>0, <1>4
  <2>4. ASSUME NEW q \in Peers
        PROVE  /\ \/ conn'[q] = conn[q]
                  \/ conn[q] = "none" /\ conn'[q] = "backlog" /\ q \in DOMAIN bytes
               /\ conn'[q] # "none" => peer'[q] # "new"
               /\ conn'[q] = "none" => sent'[q] = sent[q]
               /\ q \in DOMAIN bytes /\ sent[q] <= bytes[q] => sent'[q] <= bytes[q]
               /\ conn'[q] \in {"none", "backlog"} => read'[q] = read[q] /\ got'[q] = got[q]
    BY <1>1, <1>2, <1>3, <1>4, <2>2
  <2> QED BY <1>0, <1>1, <2>1, <2>4, KeepsTable
<1>8. Told'
  BY <1>0, <1>1, SameProgram DEF Told, Misled, memory
<1>9. Buffers' /\ AtOnce' /\ InOrder' /\ Owned'
  <2>1. \A q \in Peers : q \in {file[fd] : fd \in Fds} => conn[q] = "accepted" /\ peer[q] # "new"
    BY <1>0 DEF Table, Placed, Known
  <2> QED BY <1>0, <1>1, <1>2, <1>3, <2>1, KeepsServers
<1> QED BY <1>6, <1>7, <1>8, <1>9 DEF ServersInv

-----------------------------------------------------------------------------
(* The calls *)

LEMMA TakeFacts ==
  ASSUME Typed, Table, NEW p \in Peers, NEW event \in {"in", "edge", "none"},
         TakeConnection(p, event), UNCHANGED program, event = "edge" => kind = "edge"
  PROVE  LET m == Min(FreeFds) IN
         /\ m \in Fds /\ file[m] = "free" /\ m # None
         /\ \A fd \in Fds : file[fd] = "free" => m <= fd
         /\ kind # "edge" => m > Reserved /\ m # ListenFd
         /\ file' = [file EXCEPT ![m] = p] /\ file' \in [Fds -> Files \cup Peers]
         /\ interest' = [interest EXCEPT ![m] = event] /\ interest' \in [Fds -> Interests]
         /\ conn' = [conn EXCEPT ![p] = "accepted"] /\ conn' \in [Peers -> Sides]
         /\ conn[p] = "backlog"
         /\ fresh' \subseteq Fds /\ Registered'
<1> DEFINE m == Min(FreeFds)
<1>0. /\ file \in [Fds -> Files \cup Peers] /\ interest \in [Fds -> Interests]
      /\ conn \in [Peers -> Sides] /\ fresh \subseteq Fds
  BY DEF Typed
<1>1. m \in Fds /\ file[m] = "free" /\ \A fd \in Fds : file[fd] = "free" => m <= fd
  BY Lowest DEF TakeConnection
<1>2. m \in Nat /\ Reserved \in Nat /\ ListenFd <= Reserved /\ ListenFd \in Nat /\ ListenFd \in Fds
  BY <1>1, FdFacts DEF ListenFd
<1>3. m # None
  BY <1>1, FdFacts
<1>4. kind # "edge" => m > Reserved /\ m # ListenFd
  <2>1. ASSUME kind # "edge", m <= Reserved
        PROVE  FALSE
    BY <1>1, <2>1 DEF Table
  <2>2. Reserved # m \/ m <= Reserved
    BY <1>2
  <2> QED BY <1>2, <2>1
<1> HIDE DEF m
<1>5. /\ conn[p] = "backlog" /\ file' = [file EXCEPT ![m] = p]
      /\ interest' = [interest EXCEPT ![m] = event] /\ conn' = [conn EXCEPT ![p] = "accepted"]
      /\ fresh' \subseteq fresh \cup (IF event = "edge" THEN {m} ELSE {})
  BY DEF TakeConnection, m
<1>6. /\ file' \in [Fds -> Files \cup Peers] /\ interest' \in [Fds -> Interests]
      /\ conn' \in [Peers -> Sides]
  BY <1>0, <1>5 DEF Interests, Sides
<1>7. fresh' \subseteq Fds
  BY <1>0, <1>1, <1>5
<1>8. Registered'
  <2>0. kind' = kind /\ Fds' = Fds /\ Registered
    BY SameProgram DEF Table
  <2>1. \A fd \in fresh' : interest'[fd] = "edge" /\ file'[fd] \in Peers
    <3>1. m \notin fresh
      BY <1>1, <2>0, PeersAreNoFiles DEF Registered, Files
    <3> QED BY <1>0, <1>1, <1>5, <2>0, <3>1 DEF Registered
  <2>2. kind # "edge" => \A fd \in Fds : interest'[fd] # "edge"
    BY <1>0, <1>1, <1>5, <2>0 DEF Registered
  <2>3. p # "listen"
    BY PeersAreNoFiles DEF Files
  <2>4. file'[ListenFd] = "listen" => interest'[ListenFd] = "in"
    BY <1>0, <1>2, <1>5, <2>0, <2>3 DEF Registered
  <2> QED BY <2>0, <2>1, <2>2, <2>4 DEF Registered
<1> QED BY <1>1, <1>3, <1>4, <1>5, <1>6, <1>7, <1>8 DEF m

LEMMA TakeTable ==
  ASSUME Typed, Table, NEW p \in Peers, NEW event \in {"in", "edge", "none"},
         TakeConnection(p, event), UNCHANGED <<program, peer, sent, read, got>>,
         event = "edge" => kind = "edge"
  PROVE  Table'
<1> DEFINE m == Min(FreeFds)
<1>0. /\ m \in Fds /\ file[m] = "free" /\ conn[p] = "backlog"
      /\ file' = [file EXCEPT ![m] = p] /\ conn' = [conn EXCEPT ![p] = "accepted"]
      /\ kind # "edge" => m > Reserved
      /\ Registered'
  BY TakeFacts
<1> HIDE DEF m
<1>1. /\ file \in [Fds -> Files \cup Peers] /\ conn \in [Peers -> Sides]
      /\ Fds' = Fds /\ kind' = kind /\ bytes' = bytes /\ Reserved' = Reserved
      /\ Fds \subseteq Nat /\ Reserved \in Nat
  BY SameProgram, FdFacts DEF Typed
<1>2. \A fd \in Fds : file[fd] # p
  BY <1>0 DEF Table, Placed
<1>3. ASSUME NEW fd \in Fds
      PROVE  Placed(fd)'
  BY <1>0, <1>1, <1>2 DEF Table, Placed
<1>4. ASSUME NEW q \in Peers
      PROVE  Known(q)'
  <2>1. Known(q) /\ Known(p)
    BY DEF Table
  <2>2. CASE q = p
    BY <1>0, <1>1, <2>1, <2>2 DEF Known
  <2>3. CASE q # p
    <3>1. "free" \notin Peers
      BY PeersAreNoFiles DEF Files
    <3>2. \A fd \in Fds : file[fd] = q => file'[fd] = q
      BY <1>0, <1>1, <3>1
    <3> QED BY <1>0, <1>1, <2>1, <2>3, <3>2 DEF Known
  <2> QED BY <2>2, <2>3
<1>5. kind' # "edge" =>
        \A fd \in Fds' : fd <= Reserved' =>
          file'[fd] = IF fd < ListenFd THEN "std" ELSE IF fd = ListenFd THEN "listen" ELSE "epoll"
  <2>1. ASSUME kind # "edge", NEW fd \in Fds, fd <= Reserved
        PROVE  file'[fd] = file[fd]
    BY <1>0, <1>1, <2>1
  <2> QED BY <1>1, <2>1 DEF Table
<1> QED BY <1>0, <1>1, <1>3, <1>4, <1>5 DEF Table

LEMMA CloseTable ==
  ASSUME Typed, Table, NEW fd \in Fds, UNCHANGED <<program, sent>>, Registered',
         file' = [file EXCEPT ![fd] = "free"],
         conn' = [p \in Peers |-> IF file[fd] = p THEN "closed" ELSE conn[p]],
         kind # "edge" => file[fd] \in Peers \/ fd > Reserved,
         \A p \in Peers : /\ peer'[p] = "new" => peer[p] = "new"
                          /\ conn[p] \in {"none", "backlog"} => read'[p] = read[p] /\ got'[p] = got[p]
  PROVE  /\ file' \in [Fds -> Files \cup Peers] /\ conn' \in [Peers -> Sides]
         /\ Table'
<1>1. /\ file \in [Fds -> Files \cup Peers] /\ conn \in [Peers -> Sides]
      /\ Fds' = Fds /\ kind' = kind /\ bytes' = bytes /\ Reserved' = Reserved
  BY SameProgram DEF Typed
<1>2. file' \in [Fds -> Files \cup Peers] /\ conn' \in [Peers -> Sides]
  BY <1>1 DEF Files, Sides
<1>3. "free" \notin Peers /\ {"std", "listen", "epoll"} \cap Peers = {}
  BY PeersAreNoFiles DEF Files
<1>4. ASSUME NEW other \in Fds
      PROVE  Placed(other)'
  <2>1. Placed(other)
    BY DEF Table
  <2>2. CASE other = fd
    BY <1>1, <1>3, <2>2 DEF Placed
  <2>3. CASE other # fd
    BY <1>1, <1>3, <2>1, <2>3 DEF Placed
  <2> QED BY <2>2, <2>3
<1>5. ASSUME NEW q \in Peers
      PROVE  Known(q)'
  <2>1. Known(q) /\ (file[fd] = q => conn[q] = "accepted")
    BY DEF Table, Placed
  <2>2. CASE file[fd] = q
    BY <1>1, <2>1, <2>2 DEF Known
  <2>3. CASE file[fd] # q
    <3>1. \A other \in Fds : file[other] = q => file'[other] = q
      BY <1>1, <2>3
    <3>2. conn'[q] = conn[q]
      BY <2>3
    <3> QED BY <1>1, <2>1, <3>1, <3>2 DEF Known
  <2> QED BY <2>2, <2>3
<1>6. kind' # "edge" =>
        \A f \in Fds' : f <= Reserved' =>
          file'[f] = IF f < ListenFd THEN "std" ELSE IF f = ListenFd THEN "listen" ELSE "epoll"
  <2>1. ASSUME kind # "edge"
        PROVE  ~(fd <= Reserved)
    <3>1. fd \in Nat /\ Reserved \in Nat
      BY FdFacts
    <3> QED BY <1>3, <2>1, <3>1 DEF Table
  <2>2. ASSUME kind # "edge", NEW f \in Fds, f <= Reserved
        PROVE  file'[f] = file[f]
    BY <1>1, <2>1, <2>2
  <2> QED BY <1>1, <2>2 DEF Table
<1> QED BY <1>1, <1>2, <1>4, <1>5, <1>6 DEF Table

LEMMA RecvFacts ==
  ASSUME Typed, NEW fd \in Fds, NEW len \in Nat, Recv(fd, len)
  PROVE  /\ read' \in [Peers -> Nat]
         /\ \A p \in Peers : /\ read[p] <= read'[p] /\ read'[p] <= sent[p]
                             /\ p # file[fd] => read'[p] = read[p]
         /\ Count(fd, len) <= 0 => read' = read
         /\ file[fd] \in Peers => read'[file[fd]] = read[file[fd]] + Len(Chunk(fd, len))
         /\ Count(fd, len) = 0 /\ len > 0 => peer[file[fd]] # "open"
<1>1. \A p \in Peers : read[p] \in Nat /\ sent[p] \in Nat /\ read[p] <= sent[p]
  BY DEF Typed
<1>2. read \in [Peers -> Nat]
  BY DEF Typed
<1>3. /\ Count(fd, len) \in Int /\ (Count(fd, len) >= 0 => file[fd] \in Peers)
      /\ Count(fd, len) > 0 => read[file[fd]] + Count(fd, len) <= sent[file[fd]]
      /\ Count(fd, len) <= 0 /\ len > 0 /\ file[fd] \in Peers => read[file[fd]] = sent[file[fd]]
  BY CountFacts
<1>4. Len(Chunk(fd, len)) = IF Count(fd, len) > 0 THEN Count(fd, len) ELSE 0
  BY ChunkFacts
<1>5. PICK n \in Int : n = Count(fd, len)
  BY <1>3
<1>6. read' = IF n > 0 THEN [read EXCEPT ![file[fd]] = @ + n] ELSE read
  BY <1>5 DEF Recv
<1>7. n = 0 /\ len > 0 => peer[file[fd]] # "open"
  <2>1. file[fd] \in Peers => Readable(file[fd])
    BY DEF Recv
  <2> QED BY <1>1, <1>3, <1>5, <2>1 DEF Readable
<1>8. CASE n > 0
  BY <1>1, <1>2, <1>3, <1>4, <1>5, <1>6, <1>7, <1>8
<1>9. CASE ~(n > 0)
  BY <1>1, <1>2, <1>3, <1>4, <1>5, <1>6, <1>7, <1>9
<1> QED BY <1>8, <1>9

LEMMA WriteFacts ==
  ASSUME Typed, alive, NEW p \in Peers, NEW data \in Seq(Data), Write(p, data)
  PROVE  /\ alive' \in BOOLEAN /\ peer' \in [Peers -> PeerStates]
         /\ got' \in [Peers -> Seq(Data)]
         /\ \A q \in Peers : /\ q # p => peer'[q] = peer[q] /\ got'[q] = got[q]
                             /\ peer'[q] = "new" <=> peer[q] = "new"
                             /\ peer'[q] = "open" <=> peer[q] = "open"
                             /\ peer[q] = "dead" => peer'[q] = "dead"
         /\ got'[p] = got[p] \/ got'[p] = got[p] \o data
         /\ alive' /\ peer'[p] # "dead" => peer[p] # "dead" /\ got'[p] = got[p] \o data
<1>1. /\ peer \in [Peers -> PeerStates] /\ got \in [Peers -> Seq(Data)] /\ alive = TRUE
  BY DEF Typed
<1>2. got[p] \o data \in Seq(Data)
  BY <1>1, ConcatProperties
<1>3. CASE peer[p] \in {"cut", "dead"}
  BY <1>1, <1>3 DEF Write
<1>4. CASE peer[p] \notin {"cut", "dead"}
  <2>1. /\ alive' = TRUE
        /\ peer' = [peer EXCEPT ![p] = IF @ = "gone" THEN "hit"
                                       ELSE IF @ = "reset" THEN "dead" ELSE @]
        /\ got' = IF peer[p] = "reset" THEN got ELSE [got EXCEPT ![p] = @ \o data]
    BY <1>1, <1>4 DEF Write
  <2>2. peer' \in [Peers -> PeerStates]
    BY <1>1, <2>1 DEF PeerStates
  <2>3. got' \in [Peers -> Seq(Data)]
    BY <1>1, <1>2, <2>1
  <2>4. ASSUME NEW q \in Peers
        PROVE  /\ q # p => peer'[q] = peer[q] /\ got'[q] = got[q]
               /\ peer'[q] = "new" <=> peer[q] = "new"
               /\ peer'[q] = "open" <=> peer[q] = "open"
               /\ peer[q] = "dead" => peer'[q] = "dead"
    BY <1>1, <2>1
  <2>5. /\ got'[p] = got[p] \/ got'[p] = got[p] \o data
        /\ peer'[p] # "dead" => peer[p] # "dead" /\ got'[p] = got[p] \o data
    BY <1>1, <1>4, <2>1
  <2> QED BY <2>1, <2>2, <2>3, <2>4, <2>5
<1> QED BY <1>3, <1>4

\* What is written is what was read.
LEMMA KeepsTold ==
  ASSUME Typed, Told, UNCHANGED program, NEW p \in Peers, NEW data \in Seq(Data),
         kind = "threads" => \A fd \in Fds : ~Misled(fd)' => ~Misled(fd),
         \A q \in Peers : /\ read[q] <= read'[q] /\ read'[q] \in Nat
                          /\ q # p => got'[q] = got[q],
         \/ kind = "threads" /\ \E fd \in Fds : Misled(fd)'
         \/ got'[p] = got[p]
         \/ /\ got'[p] = got[p] \o data
            /\ Len(got[p]) + Len(data) <= read'[p]
            /\ kind # "http" => got[p] \o data = Bytes(p, read'[p])
  PROVE  Told'
<1> SUFFICES ASSUME ~(kind = "threads" /\ \E fd \in Fds : Misled(fd)')
             PROVE  Told'
  BY SameProgram DEF Told
<1>1. /\ kind' = kind /\ Fds' = Fds
      /\ got \in [Peers -> Seq(Data)] /\ \A q \in Peers : read[q] \in Nat
  BY SameProgram DEF Typed
<1>2. ASSUME NEW q \in Peers, got'[q] = got[q]
      PROVE  /\ Len(got'[q]) <= read'[q]
             /\ kind # "http" => got'[q] = Bytes(q, Len(got'[q]))
  <2>1. Len(got[q]) \in Nat /\ read[q] \in Nat /\ read'[q] \in Nat /\ read[q] <= read'[q]
    BY <1>1, LenProperties
  <2>2. ~(kind = "threads" /\ \E fd \in Fds : Misled(fd))
    OBVIOUS
  <2>3. Len(got[q]) <= read[q] /\ (kind # "http" => got[q] = Bytes(q, Len(got[q])))
    BY <2>2 DEF Told
  <2>4. Len(got'[q]) <= read'[q]
    BY <1>2, <2>1, <2>3
  <2> QED BY <1>2, <2>3, <2>4
<1>3. ASSUME got'[p] = got[p] \o data, Len(got[p]) + Len(data) <= read'[p],
             kind # "http" => got[p] \o data = Bytes(p, read'[p])
      PROVE  /\ Len(got'[p]) <= read'[p]
             /\ kind # "http" => got'[p] = Bytes(p, Len(got'[p]))
  <2>1. PICK g \in Seq(Data) : g = got[p]
    BY <1>1
  <2>2. Len(g \o data) = Len(g) + Len(data)
    BY ConcatProperties
  <2>3. Len(Bytes(p, read'[p])) = read'[p]
    BY BytesFacts
  <2> QED BY <1>3, <2>1, <2>2, <2>3
<1> QED BY <1>1, <1>2, <1>3 DEF Told

-----------------------------------------------------------------------------
(* reactor.c and webserver.c *)

LEMMA SameBuffer ==
  ASSUME Typed, kind \in {"echo", "http"}, UNCHANGED program, NEW fd \in Fds, Buffered(fd),
         file'[fd] = file[fd], interest'[fd] = interest[fd],
         rbuf'[fd] = rbuf[fd], wbuf'[fd] = wbuf[fd],
         file[fd] \in Peers => read'[file[fd]] = read[file[fd]] /\ got'[file[fd]] = got[file[fd]],
         Open(fd)' => Open(fd)
  PROVE  Buffered(fd)'
<1>1. kind' = kind /\ BufLen' = BufLen
  BY SameProgram
<1>2. Unsent(fd)' = Unsent(fd)
  BY <1>1 DEF Unsent
<1>3. Open(fd) => file[fd] \in Peers
  BY DEF Open
<1> QED BY <1>1, <1>2, <1>3 DEF Buffered

\* An event is still current after the handling of another.
LEMMA CurrentAfter ==
  ASSUME Typed, Buffers, kind \in {"echo", "http"}, NEW fd, NEW event, Handle(fd, event),
         \A f \in Fds : f # fd /\ interest[f] # "none" => interest'[f] = interest[f]
  PROVE  /\ fd \in Fds /\ interest[fd] = event
         /\ batch' \subseteq Fds \X {"in", "out", "edge"}
         /\ \A e \in batch' : interest'[e[1]] = e[2]
<1>1. batch \subseteq Fds \X {"in", "out", "edge"} /\ batch' = batch \ {<<fd, event>>}
  BY DEF Typed, Handle
<1>2. \A e \in batch : interest[e[1]] = e[2]
  BY DEF Buffers, Handle
<1>3. fd \in Fds /\ interest[fd] = event
  BY <1>1, <1>2 DEF Handle
<1>4. ASSUME NEW e \in batch'
      PROVE  interest'[e[1]] = e[2]
  <2>1. PICK f \in Fds, v \in {"in", "out", "edge"} : e = <<f, v>>
    BY <1>1
  <2>2. interest[f] = v /\ v # "none"
    BY <1>1, <1>2, <2>1
  <2>3. f # fd
    BY <1>1, <1>3, <2>1, <2>2
  <2> QED BY <2>1, <2>2, <2>3
<1> QED BY <1>1, <1>3, <1>4

LEMMA LoopOthers ==
  ASSUME Typed, AtOnce, kind \in {"echo", "http"}, UNCHANGED <<program, memory>>
  PROVE  AtOnce' /\ InOrder' /\ Owned'
<1>1. /\ kind' = kind /\ index' = index /\ thread' = thread
  BY SameProgram DEF memory
<1> QED BY <1>1 DEF AtOnce, Counted, Direct, InOrder, Owned

LEMMA LoopWait ==
  ASSUME ServersInv, kind \in {"echo", "http"}, EpollWait, UNCHANGED <<buffers, memory>>
  PROVE  ServersInv'
<1>0. Typed /\ Table /\ Told /\ Buffers /\ AtOnce
  BY DEF ServersInv
<1>1. /\ UNCHANGED <<program, alive, file, interest, conn, peer, sent, read, got>>
      /\ UNCHANGED <<rbuf, wbuf, clientfd, maxfd, index, thread>>
      /\ fresh' = {} /\ batch' = Events(Fds)
  BY DEF EpollWait, table, buffers, memory
<1>2. \A e \in batch' : \E fd \in Fds : Ready(fd) /\ e = <<fd, interest[fd]>>
  BY <1>1 DEF Events
<1>3. \A fd \in Fds : Ready(fd) => interest[fd] \in {"in", "out", "edge"}
  BY <1>0 DEF Ready, Table, Registered
<1>4. batch' \subseteq Fds \X {"in", "out", "edge"}
  BY <1>2, <1>3
<1>5. Typed'
  BY <1>0, <1>1, <1>4, StaysTyped DEF Typed
<1>6. Table'
  <2>1. Registered'
    BY <1>0, <1>1, SameProgram DEF Table, Registered
  <2>2. \A p \in Peers : conn[p] # "none" => peer[p] # "new"
    BY <1>0 DEF Table, Known
  <2> QED BY <1>0, <1>1, <2>1, <2>2, KeepsTable
<1>7. Told'
  BY <1>0, <1>1, SameProgram DEF Told
<1>8. Buffers'
  <2>1. ASSUME NEW fd \in Fds
        PROVE  Buffered(fd)'
    BY <1>0, <1>1, SameBuffer DEF Buffers, Open
  <2>2. \A e \in batch' : interest'[e[1]] = e[2]
    BY <1>1, <1>2
  <2> QED BY <2>1, <2>2, SameProgram, <1>1 DEF Buffers
<1> QED BY <1>0, <1>1, <1>5, <1>6, <1>7, <1>8, LoopOthers DEF ServersInv

LEMMA LoopAccept ==
  ASSUME ServersInv, kind \in {"echo", "http"}, NEW p \in Peers, Accept(p), UNCHANGED memory
  PROVE  ServersInv'
<1> DEFINE m == Min(FreeFds)
<1>0. Typed /\ Table /\ Told /\ Buffers /\ AtOnce
  BY DEF ServersInv
<1>1. /\ UNCHANGED <<program, alive, peer, sent, read, got, clientfd, maxfd, index, thread>>
      /\ rbuf' = [rbuf EXCEPT ![m] = <<>>] /\ wbuf' = [wbuf EXCEPT ![m] = <<>>]
      /\ TakeConnection(p, "in") /\ Handle(ListenFd, "in")
  BY DEF Accept, AcceptInto, Handle, memory
<1>2. /\ m \in Fds /\ file[m] = "free" /\ m # ListenFd /\ conn[p] = "backlog"
      /\ file' = [file EXCEPT ![m] = p] /\ file' \in [Fds -> Files \cup Peers]
      /\ interest' = [interest EXCEPT ![m] = "in"] /\ interest' \in [Fds -> Interests]
      /\ conn' = [conn EXCEPT ![p] = "accepted"] /\ conn' \in [Peers -> Sides]
      /\ fresh' \subseteq Fds
  BY <1>0, <1>1, TakeFacts
<1> HIDE DEF m
<1>3. /\ file \in [Fds -> Files \cup Peers] /\ interest \in [Fds -> Interests]
      /\ rbuf \in [Fds -> Seq(Data)] /\ wbuf \in [Fds -> Seq(Data)] /\ BufLen \in Nat
      /\ "free" \notin Peers /\ conn \in [Peers -> Sides]
  BY <1>0, FdFacts, PeersAreNoFiles DEF Typed, Files
<1>4. Table'
  BY <1>0, <1>1, TakeTable
<1>5. \A f \in Fds : interest[f] # "none" => f # m
  BY <1>0, <1>2, <1>3 DEF Buffers, Buffered
<1>6. /\ batch' \subseteq Fds \X {"in", "out", "edge"}
      /\ \A e \in batch' : interest'[e[1]] = e[2]
  BY <1>0, <1>1, <1>2, <1>3, <1>5, CurrentAfter
<1>7. Typed'
  <2>1. rbuf' \in [Fds -> Seq(Data)] /\ wbuf' \in [Fds -> Seq(Data)]
    BY <1>1, <1>3, EmptySeq
  <2> QED BY <1>0, <1>1, <1>2, <1>6, <2>1, StaysTyped DEF Typed
<1>8. Told'
  BY <1>0, <1>1, <1>2, <1>3, SameProgram DEF Told
<1>9. ASSUME NEW fd \in Fds
      PROVE  Buffered(fd)'
  <2>1. CASE fd # m
    BY <1>0, <1>1, <1>2, <1>3, <2>1, SameBuffer DEF Buffers, Open
  <2>2. CASE fd = m
    <3>1. read[p] = 0 /\ got[p] = <<>>
      BY <1>0, <1>2 DEF Table, Known
    <3>2. Bytes(p, 0) = <<>> /\ <<>> \o <<>> = <<>>
      BY NoBytes
    <3>3. rbuf'[fd] = <<>> /\ wbuf'[fd] = <<>> /\ file'[fd] = p /\ interest'[fd] = "in" /\ fd # ListenFd
      BY <1>1, <1>2, <1>3, <2>2
    <3>4. kind' = kind /\ BufLen' = BufLen
      BY <1>1, SameProgram
    <3>5. Unsent(fd)' = <<>>
      BY <3>3, <3>4 DEF Unsent
    <3> QED BY <1>1, <1>3, <3>1, <3>2, <3>3, <3>4, <3>5, EmptySeq DEF Buffered
  <2> QED BY <2>1, <2>2
<1>10. Buffers'
  BY <1>1, <1>6, <1>9, SameProgram DEF Buffers
<1> QED BY <1>0, <1>1, <1>4, <1>7, <1>8, <1>10, LoopOthers DEF ServersInv, memory

LEMMA LoopAcceptFails ==
  ASSUME ServersInv, kind \in {"echo", "http"}, AcceptFails, UNCHANGED memory
  PROVE  ServersInv'
<1>0. Typed /\ Table /\ Told /\ Buffers /\ AtOnce
  BY DEF ServersInv
<1>1. /\ UNCHANGED <<program, alive, peer, sent, read, got, clientfd, maxfd, index, thread>>
      /\ UNCHANGED <<file, interest, fresh, conn, rbuf, wbuf>> /\ Handle(ListenFd, "in")
  BY DEF AcceptFails, Handle, memory, table, buffers
<1>2. /\ batch' \subseteq Fds \X {"in", "out", "edge"}
      /\ \A e \in batch' : interest'[e[1]] = e[2]
  BY <1>0, <1>1, CurrentAfter
<1>3. Typed'
  BY <1>0, <1>1, <1>2, StaysTyped DEF Typed
<1>4. Table'
  <2>1. Registered'
    BY <1>0, <1>1, SameProgram DEF Table, Registered
  <2>2. \A p \in Peers : conn[p] # "none" => peer[p] # "new"
    BY <1>0 DEF Table, Known
  <2> QED BY <1>0, <1>1, <2>1, <2>2, KeepsTable
<1>5. Told'
  BY <1>0, <1>1, SameProgram DEF Told
<1>6. ASSUME NEW fd \in Fds
      PROVE  Buffered(fd)'
  BY <1>0, <1>1, SameBuffer DEF Buffers, Open
<1>7. Buffers'
  BY <1>1, <1>2, <1>6, SameProgram DEF Buffers
<1> QED BY <1>0, <1>1, <1>3, <1>4, <1>5, <1>7, LoopOthers DEF ServersInv

\* The descriptor of an event is that of a connection, and there is room for
\* what is received unless the web server has filled the buffer.
LEMMA Registers ==
  ASSUME Typed, Buffers, kind \in {"echo", "http"}, NEW fd \in Fds,
         interest[fd] # "none", fd # ListenFd
  PROVE  /\ file[fd] \in Peers
         /\ Space(fd) \in Nat /\ Len(rbuf[fd]) \in Nat /\ Space(fd) + Len(rbuf[fd]) = BufLen
         /\ kind = "http" => Len(rbuf[fd]) = read[file[fd]]
         /\ Space(fd) = 0 => kind = "http" /\ read[file[fd]] = BufLen
<1>1. Buffered(fd) /\ rbuf[fd] \in Seq(Data) /\ BufLen \in Nat \ {0}
  BY FdFacts DEF Buffers, Typed
<1>2. file[fd] \in Peers /\ Len(rbuf[fd]) \in Nat /\ Len(rbuf[fd]) <= BufLen
  BY <1>1, LenProperties DEF Buffered
<1>3. read[file[fd]] \in Nat
  BY <1>2 DEF Typed
<1>4. kind = "http" => Len(rbuf[fd]) = read[file[fd]]
  BY <1>1, <1>2, <1>3, BytesFacts DEF Buffered
<1>5. kind = "echo" => Len(rbuf[fd]) = 0
  BY <1>1, EmptySeq DEF Buffered
<1> QED BY <1>1, <1>2, <1>4, <1>5 DEF Space

LEMMA LoopDisconnect ==
  ASSUME ServersInv, kind \in {"echo", "http"}, NEW fd \in Fds, Disconnect(fd), UNCHANGED memory
  PROVE  ServersInv'
<1>0. Typed /\ Table /\ Told /\ Buffers /\ AtOnce
  BY DEF ServersInv
<1>1. /\ UNCHANGED <<program, alive, peer, sent, got, clientfd, maxfd, index, thread, rbuf, wbuf>>
      /\ Handle(fd, "in") /\ fd # ListenFd
      /\ Recv(fd, Space(fd)) /\ Count(fd, Space(fd)) = 0
      /\ file' = [file EXCEPT ![fd] = "free"] /\ interest' = [interest EXCEPT ![fd] = "none"]
      /\ fresh' = fresh \ {fd}
      /\ conn' = [p \in Peers |-> IF file[fd] = p THEN "closed" ELSE conn[p]]
  BY DEF Disconnect, Handle, Close, memory
<1>2. /\ interest[fd] = "in" /\ batch' \subseteq Fds \X {"in", "out", "edge"}
      /\ \A e \in batch' : interest'[e[1]] = e[2]
  BY <1>0, <1>1, CurrentAfter DEF Typed
<1>3. /\ file[fd] \in Peers /\ Space(fd) \in Nat
      /\ Space(fd) = 0 => kind = "http" /\ read[file[fd]] = BufLen
  BY <1>0, <1>1, <1>2, Registers
<1>4. /\ read' = read
      /\ Space(fd) > 0 => peer[file[fd]] # "open" /\ read[file[fd]] = sent[file[fd]]
  BY <1>0, <1>1, <1>3, RecvFacts, CountFacts
<1>5. /\ interest \in [Fds -> Interests] /\ interest' \in [Fds -> Interests]
      /\ fresh' \subseteq Fds /\ file \in [Fds -> Files \cup Peers]
  BY <1>0, <1>1 DEF Typed, Interests
<1>6. Registered'
  BY <1>0, <1>1, <1>5, SameProgram DEF Table, Registered
<1>7. file' \in [Fds -> Files \cup Peers] /\ conn' \in [Peers -> Sides] /\ Table'
  BY <1>0, <1>1, <1>3, <1>4, <1>6, CloseTable
<1>8. Typed'
  BY <1>0, <1>1, <1>2, <1>4, <1>5, <1>7, StaysTyped DEF Typed
<1>9. Told'
  BY <1>0, <1>1, <1>4, SameProgram DEF Told
<1>11. ASSUME NEW f \in Fds
       PROVE  Buffered(f)'
  <2>1. CASE f # fd
    BY <1>0, <1>1, <1>4, <1>5, <2>1, SameBuffer DEF Buffers, Open
  <2>2. CASE f = fd
    <3>1. Buffered(f) /\ kind' = kind /\ BufLen' = BufLen
      BY <1>0, <1>1, SameProgram DEF Buffers
    <3>2. file'[f] \notin Peers /\ interest'[f] = "none"
      BY <1>1, <1>5, <2>2, PeersAreNoFiles DEF Files
    <3> QED BY <1>1, <3>1, <3>2 DEF Buffered, Open
  <2> QED BY <2>1, <2>2
<1>12. Buffers'
  BY <1>1, <1>2, <1>11, SameProgram DEF Buffers
<1> QED BY <1>0, <1>1, <1>7, <1>8, <1>9, <1>12, LoopOthers DEF ServersInv

LEMMA LoopReceive ==
  ASSUME ServersInv, kind \in {"echo", "http"}, NEW fd \in Fds, Receive(fd), UNCHANGED memory
  PROVE  ServersInv'
<1> DEFINE p == file[fd]  c == Chunk(fd, Space(fd))
<1>0. Typed /\ Table /\ Told /\ Buffers /\ AtOnce
  BY DEF ServersInv
<1>1. /\ UNCHANGED <<program, alive, peer, sent, got, clientfd, maxfd, index, thread>>
      /\ UNCHANGED <<file, fresh, conn>>
      /\ Handle(fd, "in") /\ fd # ListenFd
      /\ Recv(fd, Space(fd)) /\ Count(fd, Space(fd)) > 0
      /\ rbuf' = [rbuf EXCEPT ![fd] = IF kind = "http" THEN rbuf[fd] \o c ELSE <<>>]
      /\ wbuf' = [wbuf EXCEPT ![fd] = Answer(rbuf[fd] \o c)]
      /\ interest' = [interest EXCEPT ![fd] = "out"]
  BY DEF Receive, ReceiveAnd, Handle, SetEvent, memory
<1>2. /\ interest[fd] = "in" /\ batch' \subseteq Fds \X {"in", "out", "edge"}
      /\ \A e \in batch' : interest'[e[1]] = e[2]
  BY <1>0, <1>1, CurrentAfter DEF Typed
<1>3. /\ p \in Peers /\ Space(fd) \in Nat /\ Len(rbuf[fd]) \in Nat
      /\ Space(fd) + Len(rbuf[fd]) = BufLen
      /\ kind = "http" => Len(rbuf[fd]) = read[p]
  BY <1>0, <1>1, <1>2, Registers
<1>4. /\ c \in Seq(Data) /\ Len(c) = Count(fd, Space(fd))
      /\ \A j \in 1 .. Len(c) : c[j] = <<p, read[p] + j>>
  BY <1>0, <1>1, <1>3, ChunkFacts
<1>5. Len(c) \in Nat /\ Len(c) > 0 /\ Len(c) <= Space(fd)
  BY <1>0, <1>1, <1>3, <1>4, CountFacts, LenProperties
<1>6. /\ read' \in [Peers -> Nat] /\ read'[p] = read[p] + Len(c)
      /\ \A q \in Peers : read[q] <= read'[q] /\ read'[q] <= sent[q] /\ (q # p => read'[q] = read[q])
  BY <1>0, <1>1, <1>3, RecvFacts
<1>7. /\ interest \in [Fds -> Interests] /\ interest' \in [Fds -> Interests]
      /\ file \in [Fds -> Files \cup Peers] /\ read[p] \in Nat /\ got[p] \in Seq(Data)
      /\ rbuf \in [Fds -> Seq(Data)] /\ wbuf \in [Fds -> Seq(Data)] /\ BufLen \in Nat \ {0}
      /\ rbuf[fd] \in Seq(Data) /\ Buffered(fd) /\ conn[p] = "accepted"
  BY <1>0, <1>1, <1>3, FdFacts DEF Typed, Interests, Buffers, Table, Placed
<1> HIDE DEF c, p
<1>8. PICK all \in Seq(Data) : all = rbuf[fd] \o c
  BY <1>4, <1>7, ConcatProperties
<1>9. Len(all) = Len(rbuf[fd]) + Len(c) /\ Len(all) \in Nat /\ Len(all) <= BufLen
  <2>1. PICK r \in Seq(Data) : r = rbuf[fd]
    BY <1>7
  <2>2. Len(r \o c) = Len(r) + Len(c)
    BY <1>4, ConcatProperties
  <2>3. Len(all) = Len(rbuf[fd]) + Len(c)
    BY <1>8, <2>1, <2>2
  <2> QED BY <1>3, <1>5, <1>7, <2>3
<1>9a. Bytes(p, read[p]) \o c = Bytes(p, read'[p])
  <2>1. Bytes(p, read[p]) \o c = Bytes(p, read[p] + Len(c))
    BY <1>3, <1>4, <1>7, BytesGrow
  <2> QED BY <1>6, <2>1
<1>10. PICK ans \in Seq(Data) : ans = Answer(rbuf[fd] \o c) /\ Len(ans) <= BufLen /\ ans # <<>>
                                 /\ (kind = "echo" => ans = c) /\ (kind = "http" => Len(ans) = 1)
  <2>1. CASE kind = "echo"
    <3>1. all = c /\ c # <<>>
      BY <1>4, <1>5, <1>7, <1>8, <2>1, ConcatEmptySeq, EmptySeq DEF Buffered
    <3> QED BY <1>8, <1>9, <2>1, <3>1 DEF Answer
  <2>2. CASE kind = "http"
    <3>1. <<Response>> \in Seq(Data) /\ Len(<<Response>>) = 1 /\ <<Response>> # <<>>
      BY DEF Data
    <3>2. Answer(rbuf[fd] \o c) = <<Response>>
      BY <2>2 DEF Answer
    <3>3. 1 <= BufLen
      BY <1>7
    <3> QED BY <2>2, <3>1, <3>2, <3>3
  <2> QED BY <2>1, <2>2
<1>11. /\ rbuf' = [rbuf EXCEPT ![fd] = IF kind = "http" THEN all ELSE <<>>]
       /\ wbuf' = [wbuf EXCEPT ![fd] = ans]
  BY <1>1, <1>8, <1>10
<1>12. rbuf' \in [Fds -> Seq(Data)] /\ wbuf' \in [Fds -> Seq(Data)]
  BY <1>7, <1>11, EmptySeq
<1>13. Typed'
  BY <1>0, <1>1, <1>2, <1>6, <1>7, <1>12, StaysTyped DEF Typed
<1>14. Table'
  <2>1. Registered'
    <3>1. interest[fd] # "edge"
      BY <1>2
    <3> QED BY <1>0, <1>1, <1>7, <3>1, SameProgram DEF Table, Registered
  <2>2. \A q \in Peers : conn[q] # "none" => peer[q] # "new"
    BY <1>0 DEF Table, Known
  <2>3. \A q \in Peers : conn[q] \in {"none", "backlog"} => read'[q] = read[q] /\ got'[q] = got[q]
    BY <1>1, <1>6, <1>7
  <2> QED BY <1>0, <1>1, <2>1, <2>2, <2>3, KeepsTable
<1>15. Told'
  BY <1>0, <1>1, <1>3, <1>6, EmptySeq, KeepsTold
<1>17. ASSUME NEW f \in Fds
       PROVE  Buffered(f)'
  <2>1. CASE f # fd
    <3>1. file[f] \in Peers => file[f] # p
      BY <1>0, <1>3, <2>1 DEF p, Table, Placed
    <3> QED BY <1>0, <1>1, <1>6, <1>7, <1>11, <2>1, <3>1, SameBuffer DEF Buffers, Open
  <2>2. CASE f = fd
    <3>1. /\ kind' = kind /\ BufLen' = BufLen /\ file'[f] = p /\ interest'[f] = "out"
          /\ rbuf'[f] = (IF kind = "http" THEN all ELSE <<>>) /\ wbuf'[f] = ans
          /\ got'[p] = got[p]
      BY <1>1, <1>7, <1>11, <2>2, SameProgram DEF p
    <3>2. Unsent(f)' = ans
      BY <3>1 DEF Unsent
    <3>3. Open(f)' => Open(f)
      BY <1>1, <2>2 DEF Open
    <3>4. kind = "http" => all = Bytes(p, read'[p])
      BY <1>3, <1>7, <1>8, <1>9a DEF p, Buffered
    <3>5. Open(f) /\ kind = "echo" => got[p] \o ans = Bytes(p, read'[p])
      <4>1. Unsent(f) = <<>>
        BY <1>2, <2>2 DEF Unsent
      <4>2. Open(f) /\ kind = "echo" => got[p] = Bytes(p, read[p])
        BY <1>7, <2>2, <4>1, ConcatEmptySeq DEF Buffered, p
      <4> QED BY <1>10, <1>9a, <4>2
    <3>6. Len(got[p]) <= read[p] /\ Len(got[p]) \in Nat
      BY <1>0, <1>3, <1>7, LenProperties DEF Told
    <3>7. Len(rbuf'[f]) <= BufLen
      BY <1>7, <1>9, <3>1, EmptySeq
    <3>8. kind = "http" => Len(got[p]) + Len(ans) <= read'[p]
      <4>1. \A g, r, n \in Nat : g <= r /\ n > 0 => g + 1 <= r + n
        OBVIOUS
      <4> QED BY <1>5, <1>6, <1>7, <1>10, <3>6, <4>1
    <3> QED BY <1>1, <1>3, <1>10, <2>2, <3>1, <3>2, <3>3, <3>4, <3>5, <3>7, <3>8 DEF Buffered
  <2> QED BY <2>1, <2>2
<1>18. Buffers'
  BY <1>1, <1>2, <1>17, SameProgram DEF Buffers
<1> QED BY <1>0, <1>1, <1>13, <1>14, <1>15, <1>18, LoopOthers DEF ServersInv

LEMMA LoopReceiveError ==
  ASSUME ServersInv, kind \in {"echo", "http"}, NEW fd \in Fds, ReceiveError(fd), UNCHANGED memory
  PROVE  ServersInv'
<1> DEFINE p == file[fd]
<1>0. Typed /\ Table /\ Told /\ Buffers /\ AtOnce
  BY DEF ServersInv
<1>1. /\ UNCHANGED <<program, sent, got, clientfd, maxfd, index, thread>>
      /\ UNCHANGED <<file, fresh, rbuf, conn>>
      /\ Handle(fd, "in") /\ fd # ListenFd
      /\ Recv(fd, Space(fd)) /\ Count(fd, Space(fd)) = -1
      /\ alive' = (kind = "http") /\ alive
      /\ peer' = [peer EXCEPT ![p] = "dead"]
      /\ wbuf' = [wbuf EXCEPT ![fd] = IF kind = "http" THEN Answer(rbuf[fd]) ELSE @]
      /\ interest' = [interest EXCEPT ![fd] = "out"]
  BY DEF ReceiveError, Handle, SetEvent, memory
<1>2. /\ interest[fd] = "in" /\ batch' \subseteq Fds \X {"in", "out", "edge"}
      /\ \A e \in batch' : interest'[e[1]] = e[2]
  BY <1>0, <1>1, CurrentAfter DEF Typed
<1>3. p \in Peers /\ Space(fd) \in Nat
  BY <1>0, <1>1, <1>2, Registers
<1>4. read' = read
  BY <1>0, <1>1, <1>3, RecvFacts
<1>5. /\ interest \in [Fds -> Interests] /\ interest' \in [Fds -> Interests]
      /\ peer \in [Peers -> PeerStates] /\ peer' \in [Peers -> PeerStates]
      /\ wbuf \in [Fds -> Seq(Data)] /\ BufLen \in Nat \ {0} /\ Buffered(fd)
      /\ file \in [Fds -> Files \cup Peers]
  BY <1>0, <1>1, <1>3, FdFacts DEF Typed, Interests, PeerStates, Buffers
<1> HIDE DEF p
<1>6. PICK ans \in Seq(Data) : ans = wbuf'[fd] /\ Len(ans) <= BufLen /\ wbuf' = [wbuf EXCEPT ![fd] = ans]
  <2>1. CASE kind = "echo"
    BY <1>1, <1>5, <2>1 DEF Buffered
  <2>2. CASE kind = "http"
    <3>1. <<Response>> \in Seq(Data) /\ Len(<<Response>>) = 1
      BY DEF Data
    <3>2. Answer(rbuf[fd]) = <<Response>> /\ 1 <= BufLen
      BY <1>5, <2>2 DEF Answer
    <3> QED BY <1>1, <1>5, <2>2, <3>1, <3>2
  <2> QED BY <2>1, <2>2
<1>7. wbuf' \in [Fds -> Seq(Data)]
  BY <1>5, <1>6
<1>8. Typed'
  <2>1. alive' \in BOOLEAN
    BY <1>1
  <2> QED BY <1>0, <1>1, <1>2, <1>4, <1>5, <1>7, <2>1, StaysTyped DEF Typed
<1>9. Table'
  <2>1. Registered'
    BY <1>0, <1>1, <1>2, <1>5, SameProgram DEF Table, Registered
  <2>2. \A q \in Peers : conn[q] # "none" => peer'[q] # "new"
    BY <1>0, <1>1, <1>5 DEF Table, Known
  <2> QED BY <1>0, <1>1, <1>4, <2>1, <2>2, KeepsTable
<1>10. Told'
  BY <1>0, <1>1, <1>4, SameProgram DEF Told
<1>12. ASSUME NEW f \in Fds
       PROVE  Buffered(f)'
  <2>1. CASE f # fd
    BY <1>0, <1>1, <1>4, <1>5, <1>6, <2>1, SameBuffer DEF Buffers, Open
  <2>2. CASE f = fd
    <3>1. ~Open(f)'
      BY <1>1, <1>3, <1>5, <2>2 DEF Open, p
    <3>2. /\ kind' = kind /\ BufLen' = BufLen /\ interest'[f] = "out" /\ interest[f] = "in"
          /\ Len(wbuf'[f]) <= BufLen
      BY <1>1, <1>2, <1>5, <1>6, <2>2, SameProgram
    <3>3. UNCHANGED <<file, rbuf, read, got>> /\ Buffered(f)
      BY <1>1, <1>4, <1>5, <2>2
    <3> QED BY <3>1, <3>2, <3>3 DEF Buffered
  <2> QED BY <2>1, <2>2
<1>13. Buffers'
  BY <1>1, <1>2, <1>12, SameProgram DEF Buffers
<1> QED BY <1>0, <1>1, <1>8, <1>9, <1>10, <1>13, LoopOthers DEF ServersInv

LEMMA LoopReply ==
  ASSUME ServersInv, kind \in {"echo", "http"}, NEW fd \in Fds, Reply(fd), UNCHANGED memory
  PROVE  ServersInv'
<1> DEFINE p == file[fd]
<1>0. Typed /\ Table /\ Told /\ Buffers /\ AtOnce
  BY DEF ServersInv
<1>1. /\ UNCHANGED <<program, sent, read, clientfd, maxfd, index, thread>>
      /\ UNCHANGED <<file, fresh, rbuf, wbuf, conn>>
      /\ Handle(fd, "out") /\ alive
      /\ Write(p, wbuf[fd])
      /\ interest' = [interest EXCEPT ![fd] = "in"]
  BY DEF Reply, Handle, SetEvent, memory
<1>2. /\ interest[fd] = "out" /\ batch' \subseteq Fds \X {"in", "out", "edge"}
      /\ \A e \in batch' : interest'[e[1]] = e[2]
  BY <1>0, <1>1, CurrentAfter DEF Typed
<1>3. fd # ListenFd
  BY <1>0, <1>2, FdFacts DEF Table, Registered
<1>4. p \in Peers
  BY <1>0, <1>2, <1>3, Registers
<1>5. /\ interest \in [Fds -> Interests] /\ interest' \in [Fds -> Interests]
      /\ got[p] \in Seq(Data) /\ wbuf[fd] \in Seq(Data) /\ Buffered(fd) /\ read[p] \in Nat
      /\ file \in [Fds -> Files \cup Peers] /\ Open(fd) <=> peer[p] # "dead"
      /\ conn[p] = "accepted"
  BY <1>0, <1>1, <1>4 DEF Typed, Interests, Buffers, Open, Table, Placed
<1>6. /\ alive' \in BOOLEAN /\ peer' \in [Peers -> PeerStates] /\ got' \in [Peers -> Seq(Data)]
      /\ \A q \in Peers : /\ q # p => peer'[q] = peer[q] /\ got'[q] = got[q]
                          /\ peer'[q] = "new" <=> peer[q] = "new"
                          /\ peer'[q] = "open" <=> peer[q] = "open"
                          /\ peer[q] = "dead" => peer'[q] = "dead"
      /\ got'[p] = got[p] \/ got'[p] = got[p] \o wbuf[fd]
      /\ alive' /\ peer'[p] # "dead" => peer[p] # "dead" /\ got'[p] = got[p] \o wbuf[fd]
  BY <1>0, <1>1, <1>4, <1>5, WriteFacts
<1>7. /\ Open(fd) /\ kind = "echo" => got[p] \o wbuf[fd] = Bytes(p, read[p])
      /\ Open(fd) /\ kind = "http" => Len(got[p]) + Len(wbuf[fd]) <= read[p]
  <2>1. Unsent(fd) = wbuf[fd]
    BY <1>2 DEF Unsent
  <2> QED BY <1>4, <1>5, <2>1 DEF Buffered, p
<1>8. peer[p] = "dead" => got'[p] = got[p]
  BY <1>1 DEF Write
<1> HIDE DEF p
<1>9. Typed'
  BY <1>0, <1>1, <1>2, <1>5, <1>6, StaysTyped DEF Typed
<1>10. Table'
  <2>1. Registered'
    BY <1>0, <1>1, <1>2, <1>5, SameProgram DEF Table, Registered
  <2>2. \A q \in Peers : conn[q] # "none" => peer'[q] # "new"
    BY <1>0, <1>6 DEF Table, Known
  <2>3. \A q \in Peers : conn[q] \in {"none", "backlog"} => got'[q] = got[q]
    BY <1>5, <1>6
  <2> QED BY <1>0, <1>1, <2>1, <2>2, <2>3, KeepsTable
<1>11. Told'
  <2>1. \A q \in Peers : read[q] <= read'[q] /\ read'[q] \in Nat
    BY <1>0, <1>1 DEF Typed
  <2>2. CASE peer[p] = "dead"
    BY <1>0, <1>1, <1>4, <1>5, <1>6, <1>8, <2>1, <2>2, KeepsTold
  <2>3. CASE peer[p] # "dead"
    <3>1. Len(got[p]) + Len(wbuf[fd]) <= read[p]
      <4>1. CASE kind = "echo"
        <5>1. PICK g \in Seq(Data), w \in Seq(Data) : g = got[p] /\ w = wbuf[fd]
          BY <1>5
        <5>2. g \o w = Bytes(p, read[p])
          BY <1>5, <1>7, <2>3, <4>1, <5>1
        <5>3. Len(g) + Len(w) = read[p]
          <6>1. PICK n \in Nat : n = read[p]
            BY <1>5
          <6>2. g \o w = Bytes(p, n)
            BY <5>2, <6>1
          <6>3. Len(g) + Len(w) = n
            BY <1>4, <6>2, BytesSplit
          <6> QED BY <6>1, <6>3
        <5>4. Len(got[p]) + Len(wbuf[fd]) = read[p]
          BY <5>1, <5>3
        <5>5. read[p] <= read[p]
          BY <1>5
        <5> QED BY <5>4, <5>5
      <4>2. CASE kind = "http"
        BY <1>5, <1>7, <2>3, <4>2
      <4> QED BY <4>1, <4>2
    <3> QED BY <1>0, <1>1, <1>4, <1>5, <1>6, <1>7, <2>1, <2>3, <3>1, KeepsTold
  <2> QED BY <2>2, <2>3
<1>13. ASSUME NEW f \in Fds
       PROVE  Buffered(f)'
  <2>1. CASE f # fd
    <3>1. file[f] \in Peers => file[f] # p
      BY <1>0, <1>4, <2>1 DEF p, Table, Placed
    <3>2. Open(f)' => Open(f)
      BY <1>1, <1>6, <3>1 DEF Open
    <3> QED BY <1>0, <1>1, <1>5, <1>6, <2>1, <3>1, <3>2, SameBuffer DEF Buffers
  <2>2. CASE f = fd
    <3>1. /\ kind' = kind /\ BufLen' = BufLen /\ file'[f] = p /\ interest'[f] = "in"
          /\ rbuf' = rbuf /\ wbuf' = wbuf /\ read' = read
      BY <1>1, <1>5, <2>2, SameProgram DEF p
    <3>2. Unsent(f)' = <<>>
      BY <3>1 DEF Unsent
    <3>3. Open(f)' => peer[p] # "dead" /\ got'[p] = got[p] \o wbuf[fd]
      BY <1>6, <3>1 DEF Open
    <3>4. Open(f)' => Open(fd)
      BY <1>5, <3>3
    <3>5. Open(f)' /\ kind = "echo" => got'[p] \o <<>> = Bytes(p, read[p])
      <4>1. got'[p] \o <<>> = got'[p]
        BY <1>4, <1>6, ConcatEmptySeq
      <4> QED BY <1>7, <3>3, <3>4, <4>1
    <3>6. Open(f)' /\ kind = "http" => Len(got'[p]) + Len(<<>>) <= read[p]
      <4>1. PICK g \in Seq(Data), w \in Seq(Data) : g = got[p] /\ w = wbuf[fd]
        BY <1>5
      <4>2. Len(g \o w) = Len(g) + Len(w) /\ Len(<<>>) = 0 /\ Len(g) \in Nat /\ Len(w) \in Nat
        BY ConcatProperties, LenProperties, EmptySeq
      <4>3. CASE Open(f)' /\ kind = "http"
        <5>1. Len(g) + Len(w) <= read[p] /\ got'[p] = g \o w
          BY <1>7, <3>3, <3>4, <4>1, <4>3
        <5>2. Len(got'[p]) = Len(g) + Len(w)
          BY <4>2, <5>1
        <5> QED BY <4>2, <5>1, <5>2
      <4> QED BY <4>3
    <3> QED BY <1>3, <1>4, <1>5, <2>2, <3>1, <3>2, <3>5, <3>6 DEF Buffered, p
  <2> QED BY <2>1, <2>2
<1>14. Buffers'
  BY <1>1, <1>2, <1>13, SameProgram DEF Buffers
<1> QED BY <1>0, <1>1, <1>9, <1>10, <1>11, <1>14, LoopOthers DEF ServersInv, memory

LEMMA LoopStep ==
  ASSUME ServersInv, Loop
  PROVE  ServersInv'
<1>1. kind \in {"echo", "http"} /\ Serve /\ UNCHANGED memory
  BY DEF Loop
<1>2. CASE EpollWait /\ UNCHANGED buffers
  BY <1>1, <1>2, LoopWait
<1>3. CASE AcceptFails
  BY <1>1, <1>3, LoopAcceptFails
<1>4. ASSUME NEW p \in Peers, Accept(p)
      PROVE  ServersInv'
  BY <1>1, <1>4, LoopAccept
<1>5. ASSUME NEW fd \in Fds, Disconnect(fd) \/ Receive(fd) \/ ReceiveError(fd) \/ Reply(fd)
      PROVE  ServersInv'
  BY <1>1, <1>5, LoopDisconnect, LoopReceive, LoopReceiveError, LoopReply
<1> QED BY <1>1, <1>2, <1>3, <1>4, <1>5 DEF Serve

-----------------------------------------------------------------------------
(* multi-io.c without threads *)

LEMMA OthersVoid ==
  ASSUME UNCHANGED program, kind \in Direct
  PROVE  Buffers' /\ Owned' /\ kind' \in Direct
BY SameProgram DEF Buffers, Owned, Direct

\* One more event is handled, and i is one more.
LEMMA TurnFacts ==
  ASSUME Typed, Counted, kind = "edge", NEW fd, NEW event, EdgeTurn(fd, event)
  PROVE  /\ fd \in Fds /\ index \in Fds /\ index' = index + 1 /\ index' \in Nat
         /\ batch' \subseteq Fds \X {"in", "out", "edge"}
         /\ Counted'
<1>1. /\ <<fd, event>> \in batch /\ batch' = batch \ {<<fd, event>>}
      /\ index' = index + 1 /\ UNCHANGED program
  BY DEF EdgeTurn, Handle
<1>2. /\ batch \subseteq Fds \X {"in", "out", "edge"} /\ index \in Nat
      /\ IsFiniteSet(batch) /\ index + Cardinality(batch) <= Cardinality(Fds)
      /\ room \in Nat
  BY DEF Typed, Counted
<1>3. /\ IsFiniteSet(batch') /\ Cardinality(batch') = Cardinality(batch) - 1
      /\ Cardinality(batch) \in Nat /\ Cardinality(batch') \in Nat
  BY <1>1, <1>2, FS_RemoveElement, FS_CardinalityType
<1>4. Cardinality(Fds) = Reserved + room + 1 /\ Reserved \in Nat
  <2>1. Reserved + room \in Nat /\ Reserved \in Nat
    BY <1>2, FdFacts
  <2>2. PICK n \in Nat : n = Reserved + room
    BY <2>1
  <2>3. Cardinality(0 .. n) = IF 0 > n THEN 0 ELSE n - 0 + 1
    BY FS_Interval
  <2>4. Cardinality(0 .. n) = n + 1
    BY <2>3
  <2> QED BY <1>2, <2>1, <2>2, <2>4 DEF Fds
<1>5. index + 1 + Cardinality(batch') <= Cardinality(Fds)
  BY <1>2, <1>3, <1>4
<1>6. index \in Fds
  BY <1>2, <1>3, <1>4, <1>5 DEF Fds
<1>7. Counted'
  BY <1>1, <1>3, <1>5, SameProgram DEF Counted
<1> QED BY <1>1, <1>2, <1>6, <1>7

LEMMA EventsFacts ==
  ASSUME Typed, Table, NEW S \in SUBSET Fds
  PROVE  /\ Events(S) \subseteq Fds \X {"in", "out", "edge"}
         /\ IsFiniteSet(Events(S)) /\ Cardinality(Events(S)) <= Cardinality(Fds)
<1> DEFINE R == {f \in S : Ready(f)}
           f == [fd \in R |-> <<fd, interest[fd]>>]
<1>1. IsFiniteSet(Fds) /\ R \in SUBSET Fds
  BY FdFacts
<1>2. IsFiniteSet(R) /\ Cardinality(R) <= Cardinality(Fds) /\ Cardinality(Fds) \in Nat
  BY <1>1, FS_Subset, FS_CardinalityType
<1>3. Events(S) = {<<fd, interest[fd]>> : fd \in R}
  BY DEF Events
<1>4. \A fd \in Fds : Ready(fd) => interest[fd] \in {"in", "out", "edge"}
  BY DEF Ready, Table, Registered
<1>5. Events(S) \subseteq Fds \X {"in", "out", "edge"}
  BY <1>1, <1>3, <1>4
<1> HIDE DEF R
<1>6. f \in Surjection(R, Events(S))
  BY <1>3 DEF Surjection
<1>7. IsFiniteSet(Events(S)) /\ Cardinality(Events(S)) <= Cardinality(R)
  BY <1>2, <1>6, FS_Surjection
<1>8. Cardinality(R) \in Nat /\ Cardinality(Events(S)) \in Nat
  BY <1>2, <1>7, FS_CardinalityType
<1> QED BY <1>2, <1>5, <1>7, <1>8

\* A wait, or an accept that fails.
LEMMA WaitStep ==
  ASSUME ServersInv, kind \in Direct,
         UNCHANGED <<program, alive, file, interest, conn, peer, sent, read, got>>,
         UNCHANGED <<rbuf, wbuf, clientfd, thread>>,
         fresh' \subseteq fresh, batch' \subseteq Fds \X {"in", "out", "edge"},
         index' \in Nat, Counted',
         maxfd' = maxfd \/ (maxfd' = None /\ FreeFds = {})
  PROVE  ServersInv'
<1>0. Typed /\ Table /\ Told /\ AtOnce /\ InOrder
  BY DEF ServersInv
<1>1. Fds' = Fds /\ kind' = kind
  BY SameProgram
<1>2. Typed'
  <2>1. maxfd' \in Fds \cup {None} /\ fresh' \subseteq Fds
    BY <1>0 DEF Typed
  <2> QED BY <1>0, <2>1, StaysTyped DEF Typed
<1>3. Table'
  <2>1. Registered'
    BY <1>0, <1>1 DEF Table, Registered
  <2>2. \A p \in Peers : conn[p] # "none" => peer[p] # "new"
    BY <1>0 DEF Table, Known
  <2> QED BY <1>0, <2>1, <2>2, KeepsTable
<1>4. Told'
  BY <1>0, SameProgram DEF Told, Direct
<1>5. AtOnce'
  BY <1>0, <1>1 DEF AtOnce, Open
<1>6. InOrder'
  BY <1>0, <1>1 DEF InOrder, FreeFds
<1> QED BY <1>2, <1>3, <1>4, <1>5, <1>6, OthersVoid DEF ServersInv

LEMMA TakeStep ==
  ASSUME ServersInv, kind \in Direct, NEW p \in Peers, NEW event \in {"in", "edge", "none"},
         TakeConnection(p, event), event = "edge" => kind = "edge",
         UNCHANGED <<program, alive, peer, sent, read, got, rbuf, wbuf, thread>>,
         batch' \subseteq Fds \X {"in", "out", "edge"}, index' \in Nat, Counted',
         kind = "blocking" => clientfd = None,
         clientfd' = IF kind = "blocking" THEN Min(FreeFds) ELSE clientfd,
         maxfd' = maxfd \/ maxfd' = Min(FreeFds),
         kind \in {"select", "poll"} => maxfd' = Min(FreeFds)
  PROVE  ServersInv'
<1>0. Typed /\ Table /\ Told /\ AtOnce /\ InOrder
  BY DEF ServersInv
<1>1. Fds' = Fds /\ kind' = kind /\ Reserved' = Reserved
  BY SameProgram
<1>3. PICK m \in Fds :
        /\ m = Min(FreeFds) /\ file[m] = "free" /\ m # None
        /\ \A fd \in Fds : file[fd] = "free" => m <= fd
        /\ kind # "edge" => m > Reserved /\ m # ListenFd
        /\ file' = [file EXCEPT ![m] = p] /\ file' \in [Fds -> Files \cup Peers]
        /\ interest' \in [Fds -> Interests]
        /\ conn' = [conn EXCEPT ![p] = "accepted"] /\ conn' \in [Peers -> Sides]
        /\ conn[p] = "backlog" /\ fresh' \subseteq Fds
  BY <1>0, TakeFacts
<1>4. Table'
  BY <1>0, TakeTable
<1>5. /\ file \in [Fds -> Files \cup Peers] /\ conn \in [Peers -> Sides] /\ Fds \subseteq Nat
      /\ clientfd \in Fds \cup {None} /\ maxfd \in Fds \cup {None} /\ "free" \notin Peers
      /\ Reserved \in Nat /\ ListenFd <= Reserved /\ None \notin Fds /\ ListenFd \in Nat
  BY <1>0, FdFacts, PeersAreNoFiles DEF Typed, Files, ListenFd
<1>6. Typed'
  <2>1. clientfd' \in Fds \cup {None} /\ maxfd' \in Fds \cup {None}
    BY <1>3, <1>5
  <2> QED BY <1>0, <1>3, <2>1, StaysTyped DEF Typed
<1>7. Told'
  BY <1>0, <1>3, <1>5, SameProgram DEF Told, Direct
<1>8. AtOnce'
  <2>1. ASSUME NEW fd \in Fds, Open(fd)'
        PROVE  got'[file'[fd]] = Bytes(file'[fd], read'[file'[fd]])
    <3>1. CASE fd = m
      <4>1. file'[fd] = p /\ read'[p] = 0 /\ got'[p] = <<>>
        BY <1>0, <1>3, <1>5, <3>1 DEF Table, Known
      <4> QED BY <4>1, NoBytes
    <3>2. CASE fd # m
      <4>1. file'[fd] = file[fd] /\ Open(fd)
        BY <1>3, <1>5, <2>1, <3>2 DEF Open
      <4> QED BY <1>0, <4>1 DEF AtOnce, Direct
    <3> QED BY <3>1, <3>2
  <2>2. kind = "blocking" => \A fd \in Fds : file'[fd] \in Peers <=> fd = clientfd'
    BY <1>0, <1>3, <1>5 DEF AtOnce
  <2> QED BY <1>0, <1>1, <2>1, <2>2 DEF AtOnce
<1>9. InOrder'
  <2>1. CASE kind \in {"select", "poll"} /\ \A q \in Peers : conn'[q] # "closed"
    <3>1. /\ \A q \in Peers : conn[q] # "closed"
          /\ maxfd' = m /\ m # None
      BY <1>3, <1>5, <2>1
    <3>2. maxfd # None /\ \A fd \in Fds : file[fd] = "free" <=> fd > maxfd
      BY <1>0, <1>3, <2>1, <3>1 DEF InOrder, FreeFds
    <3>3. maxfd \in Nat /\ m \in Nat /\ ListenFd <= m
      BY <1>3, <1>5, <2>1, <3>2
    <3>4. ASSUME NEW fd \in Fds
          PROVE  file'[fd] = "free" <=> fd > m
      BY <1>3, <1>5, <3>2, <3>3
    <3> QED BY <1>1, <3>1, <3>3, <3>4 DEF InOrder
  <2>2. CASE ~(kind \in {"select", "poll"} /\ \A q \in Peers : conn'[q] # "closed")
    BY <1>1, <2>2 DEF InOrder
  <2> QED BY <2>1, <2>2
<1> QED BY <1>4, <1>6, <1>7, <1>8, <1>9, OthersVoid DEF ServersInv

LEMMA HangupFacts ==
  ASSUME Typed, NEW fd \in Fds, Recv(fd, BufLen), Count(fd, BufLen) <= 0, file[fd] \in Peers
  PROVE  read' = read /\ peer[file[fd]] # "open" /\ read[file[fd]] = sent[file[fd]]
<1>1. BufLen \in Nat /\ BufLen > 0
  BY FdFacts
<1>2. Count(fd, BufLen) \in Int /\ -1 <= Count(fd, BufLen)
  BY <1>1, CountFacts
<1>3. read' = read /\ read[file[fd]] = sent[file[fd]]
  BY <1>1, RecvFacts, CountFacts
<1>4. CASE Count(fd, BufLen) = 0
  BY <1>1, <1>3, <1>4, RecvFacts
<1>5. CASE Count(fd, BufLen) = -1
  BY <1>1, <1>3, <1>5, CountFacts
<1> QED BY <1>2, <1>4, <1>5

\* The connection of the descriptor c is closed, for the edge-triggered loop
\* whatever c is.
LEMMA CloseStep ==
  ASSUME ServersInv, kind \in Direct, NEW fd \in Fds, NEW c \in Fds,
         kind # "edge" => c = fd /\ file[fd] \in Peers,
         Recv(fd, BufLen), Count(fd, BufLen) <= 0, read' = read,
         file' = [file EXCEPT ![c] = "free"],
         conn' = [p \in Peers |-> IF file[c] = p THEN "closed" ELSE conn[p]],
         interest' \in [Fds -> Interests], fresh' \subseteq Fds, Registered',
         UNCHANGED <<program, alive, peer, sent, got, rbuf, wbuf, thread, maxfd>>,
         batch' \subseteq Fds \X {"in", "out", "edge"}, index' \in Nat, Counted',
         kind = "blocking" => clientfd = c,
         clientfd' = IF kind = "blocking" THEN None ELSE clientfd
  PROVE  ServersInv'
<1>0. Typed /\ Table /\ Told /\ AtOnce /\ InOrder
  BY DEF ServersInv
<1>1. Fds' = Fds /\ kind' = kind
  BY SameProgram
<1>2. /\ file' \in [Fds -> Files \cup Peers] /\ conn' \in [Peers -> Sides] /\ Table'
  BY <1>0, CloseTable
<1>3. /\ file \in [Fds -> Files \cup Peers] /\ conn \in [Peers -> Sides]
      /\ clientfd \in Fds \cup {None} /\ "free" \notin Peers /\ None \notin Fds
  BY <1>0, FdFacts, PeersAreNoFiles DEF Typed, Files
<1>4. Typed'
  <2>1. clientfd' \in Fds \cup {None}
    BY <1>3
  <2> QED BY <1>0, <1>2, <2>1, StaysTyped DEF Typed
<1>5. Told'
  BY <1>0, SameProgram DEF Told, Direct
<1>7. AtOnce'
  <2>1. ASSUME NEW f \in Fds, Open(f)'
        PROVE  got'[file'[f]] = Bytes(file'[f], read'[file'[f]])
    <3>1. f # c /\ file'[f] = file[f] /\ Open(f)
      BY <1>3, <2>1 DEF Open
    <3> QED BY <1>0, <3>1 DEF AtOnce
  <2>2. kind = "blocking" => \A f \in Fds : file'[f] \in Peers <=> f = clientfd'
    BY <1>0, <1>3 DEF AtOnce
  <2> QED BY <1>0, <1>1, <2>1, <2>2 DEF AtOnce
<1>8. InOrder'
  <2>1. kind \in {"select", "poll"} => file[c] \in Peers /\ conn'[file[c]] = "closed"
    OBVIOUS
  <2> QED BY <1>1, <2>1 DEF InOrder
<1> QED BY <1>2, <1>4, <1>5, <1>7, <1>8, OthersVoid DEF ServersInv

LEMMA SendErrorStep ==
  ASSUME ServersInv, kind \in Direct, NEW fd \in Fds, SendError(fd), alive,
         UNCHANGED <<program, sent, rbuf, wbuf, thread, clientfd, maxfd>>,
         batch' \subseteq Fds \X {"in", "out", "edge"}, index' \in Nat, Counted'
  PROVE  ServersInv'
<1>0. Typed /\ Table /\ Told /\ AtOnce /\ InOrder
  BY DEF ServersInv
<1>1. Fds' = Fds /\ kind' = kind
  BY SameProgram
<1>2. /\ UNCHANGED <<file, interest, fresh, conn, peer, got>>
      /\ alive' = (file[fd] \notin Peers) /\ alive' \in BOOLEAN
  BY DEF SendError, table
<1>3. read' = read
  BY <1>0, FdFacts, RecvFacts DEF SendError
<1>4. Typed'
  BY <1>0, <1>2, <1>3, StaysTyped DEF Typed
<1>5. Table'
  <2>1. Registered'
    BY <1>0, <1>1, <1>2 DEF Table, Registered
  <2>2. \A p \in Peers : conn[p] # "none" => peer[p] # "new"
    BY <1>0 DEF Table, Known
  <2> QED BY <1>0, <1>2, <1>3, <2>1, <2>2, KeepsTable
<1>6. Told'
  BY <1>0, <1>2, <1>3, SameProgram DEF Told, Direct
<1>7. AtOnce'
  BY <1>0, <1>1, <1>2, <1>3 DEF AtOnce, Open
<1>8. InOrder'
  BY <1>0, <1>1, <1>2 DEF InOrder, FreeFds
<1> QED BY <1>4, <1>5, <1>6, <1>7, <1>8, OthersVoid DEF ServersInv

LEMMA SendBackStep ==
  ASSUME ServersInv, kind \in Direct, NEW fd \in Fds, SendBack(fd), alive,
         UNCHANGED <<program, sent, rbuf, wbuf, thread, clientfd, maxfd>>,
         batch' \subseteq Fds \X {"in", "out", "edge"}, index' \in Nat, Counted'
  PROVE  ServersInv'
<1> DEFINE p == file[fd]  c == Chunk(fd, BufLen)
<1>0. Typed /\ Table /\ Told /\ AtOnce /\ InOrder /\ BufLen \in Nat
  BY FdFacts DEF ServersInv
<1>1. Fds' = Fds /\ kind' = kind /\ kind # "threads"
  BY SameProgram DEF Direct
<1>2. /\ UNCHANGED <<file, interest, fresh, conn>>
      /\ Recv(fd, BufLen) /\ Count(fd, BufLen) > 0 /\ Write(p, c)
  BY DEF SendBack, table
<1>3. p \in Peers /\ c \in Seq(Data) /\ \A j \in 1 .. Len(c) : c[j] = <<p, read[p] + j>>
  <2>1. p \in Peers
    BY <1>0, <1>2, CountFacts
  <2> QED BY <1>0, <2>1, ChunkFacts
<1>4. /\ read' \in [Peers -> Nat] /\ read'[p] = read[p] + Len(c)
      /\ \A q \in Peers : read[q] <= read'[q] /\ read'[q] <= sent[q] /\ (q # p => read'[q] = read[q])
  BY <1>0, <1>2, <1>3, RecvFacts
<1>5. /\ alive' \in BOOLEAN /\ peer' \in [Peers -> PeerStates] /\ got' \in [Peers -> Seq(Data)]
      /\ \A q \in Peers : /\ q # p => peer'[q] = peer[q] /\ got'[q] = got[q]
                          /\ peer'[q] = "new" <=> peer[q] = "new"
                          /\ peer'[q] = "open" <=> peer[q] = "open"
                          /\ peer[q] = "dead" => peer'[q] = "dead"
      /\ got'[p] = got[p] \/ got'[p] = got[p] \o c
      /\ alive' /\ peer'[p] # "dead" => peer[p] # "dead" /\ got'[p] = got[p] \o c
  BY <1>0, <1>2, <1>3, WriteFacts
<1>6. peer[p] = "dead" => got'[p] = got[p]
  BY <1>2 DEF Write
<1>7. /\ read[p] \in Nat /\ got[p] \in Seq(Data) /\ conn[p] = "accepted"
      /\ Open(fd) <=> peer[p] # "dead"
  BY <1>0, <1>3 DEF Typed, Table, Placed, Open
<1>8. peer[p] # "dead" => got[p] = Bytes(p, read[p])
  BY <1>0, <1>7 DEF AtOnce
<1> HIDE DEF p, c
<1>9. Bytes(p, read[p]) \o c = Bytes(p, read'[p])
  <2>1. Bytes(p, read[p]) \o c = Bytes(p, read[p] + Len(c))
    BY <1>3, <1>7, BytesGrow
  <2> QED BY <1>4, <2>1
<1>10. Typed'
  BY <1>0, <1>2, <1>4, <1>5, StaysTyped DEF Typed
<1>11. Table'
  <2>1. Registered'
    BY <1>0, <1>1, <1>2 DEF Table, Registered
  <2>2. \A q \in Peers : conn[q] # "none" => peer'[q] # "new"
    BY <1>0, <1>5 DEF Table, Known
  <2>3. \A q \in Peers : conn[q] \in {"none", "backlog"} => read'[q] = read[q] /\ got'[q] = got[q]
    BY <1>4, <1>5, <1>7
  <2> QED BY <1>0, <1>2, <2>1, <2>2, <2>3, KeepsTable
<1>12. Told'
  <2>1. \A q \in Peers : read[q] <= read'[q] /\ read'[q] \in Nat
    BY <1>4
  <2>2. CASE peer[p] = "dead"
    BY <1>0, <1>3, <1>1, <1>5, <1>6, <2>1, <2>2, KeepsTold
  <2>3. CASE peer[p] # "dead"
    <3>1. got[p] \o c = Bytes(p, read'[p])
      BY <1>8, <1>9, <2>3
    <3>2. Len(got[p]) + Len(c) <= read'[p]
      <4>1. Len(got[p]) = read[p]
        BY <1>3, <1>7, <1>8, <2>3, BytesFacts
      <4>2. read'[p] \in Nat
        BY <1>3, <2>1
      <4> QED BY <1>4, <4>1, <4>2
    <3> QED BY <1>0, <1>1, <1>3, <1>5, <2>1, <3>1, <3>2, KeepsTold
  <2> QED BY <2>2, <2>3
<1>14. AtOnce'
  <2>1. ASSUME NEW f \in Fds, Open(f)'
        PROVE  got'[file'[f]] = Bytes(file'[f], read'[file'[f]])
    <3>1. CASE file[f] = p
      <4>1. peer[p] # "dead" /\ got'[p] = got[p] \o c
        BY <1>2, <1>5, <2>1, <3>1 DEF Open
      <4> QED BY <1>2, <1>8, <1>9, <3>1, <4>1
    <3>2. CASE file[f] # p
      <4>1. Open(f) /\ file[f] \in Peers
        BY <1>2, <1>5, <2>1, <3>2 DEF Open
      <4> QED BY <1>0, <1>2, <1>4, <1>5, <3>2, <4>1 DEF AtOnce
    <3> QED BY <3>1, <3>2
  <2> QED BY <1>0, <1>1, <1>2, <2>1 DEF AtOnce
<1>15. InOrder'
  BY <1>0, <1>1, <1>2 DEF InOrder, FreeFds
<1> QED BY <1>10, <1>11, <1>12, <1>14, <1>15, OthersVoid DEF ServersInv

LEMMA CloseRegistered ==
  ASSUME Typed, Table, UNCHANGED program, NEW fd \in Fds, Close(fd)
  PROVE  interest' \in [Fds -> Interests] /\ fresh' \subseteq Fds /\ Registered'
<1>1. /\ interest \in [Fds -> Interests] /\ file \in [Fds -> Files \cup Peers]
      /\ fresh \subseteq Fds /\ ListenFd \in Fds /\ Fds' = Fds /\ kind' = kind
  BY FdFacts, SameProgram DEF Typed
<1>2. /\ file' = [file EXCEPT ![fd] = "free"] /\ interest' = [interest EXCEPT ![fd] = "none"]
      /\ fresh' = fresh \ {fd}
  BY DEF Close
<1> QED BY <1>1, <1>2 DEF Table, Registered, Interests

LEMMA BlockingStep ==
  ASSUME ServersInv, UNCHANGED buffers,
         BlockingEcho \/ BlockingClose \/ \E p \in Peers : BlockingAccept(p)
  PROVE  ServersInv'
<1>0. /\ kind = "blocking" /\ kind \in Direct /\ alive /\ Typed /\ Table /\ AtOnce
      /\ UNCHANGED <<program, batch, sent, maxfd, index, thread, rbuf, wbuf>>
  BY DEF BlockingEcho, BlockingClose, BlockingAccept, Direct, ServersInv, memory, buffers
<1>1. batch' \subseteq Fds \X {"in", "out", "edge"} /\ index' \in Nat /\ Counted'
  BY <1>0, SameProgram DEF Typed, AtOnce, Counted
<1>2. CASE BlockingEcho
  BY <1>0, <1>1, <1>2, SendBackStep DEF BlockingEcho, memory
<1>3. CASE BlockingClose
  <2>1. PICK c \in Fds : c = clientfd
    BY <1>3 DEF BlockingClose
  <2>2. /\ Recv(c, BufLen) /\ Count(c, BufLen) <= 0 /\ file[c] \in Peers /\ Close(c)
        /\ UNCHANGED <<alive, peer, got>> /\ clientfd' = None
    BY <1>0, <1>3, <2>1 DEF BlockingClose, AtOnce
  <2>3. read' = read
    BY <1>0, <2>2, HangupFacts
  <2>4. interest' \in [Fds -> Interests] /\ fresh' \subseteq Fds /\ Registered'
    BY <1>0, <2>2, CloseRegistered
  <2> QED BY <1>0, <1>1, <2>1, <2>2, <2>3, <2>4, CloseStep DEF Close
<1>4. ASSUME NEW p \in Peers, BlockingAccept(p)
      PROVE  ServersInv'
  BY <1>0, <1>1, <1>4, TakeStep DEF BlockingAccept
<1> QED BY <1>2, <1>3, <1>4

LEMMA ExchangeStep ==
  ASSUME ServersInv, kind \in {"select", "poll"}, NEW fd \in Fds, Exchange(fd), alive,
         UNCHANGED <<program, sent, rbuf, wbuf, memory>>,
         batch' \subseteq Fds \X {"in", "out", "edge"}
  PROVE  ServersInv'
<1>0. /\ kind \in Direct /\ Typed /\ Table /\ AtOnce
      /\ UNCHANGED <<clientfd, maxfd, index, thread>>
  BY DEF Direct, ServersInv, memory
<1>1. index' \in Nat /\ Counted'
  BY <1>0, SameProgram DEF Typed, AtOnce, Counted
<1>2. CASE SendBack(fd)
  BY <1>0, <1>1, <1>2, SendBackStep
<1>3. CASE SendError(fd)
  BY <1>0, <1>1, <1>3, SendErrorStep
<1>4. CASE Hangup(fd)
  <2>1. /\ Recv(fd, BufLen) /\ Count(fd, BufLen) = 0 /\ Close(fd)
        /\ UNCHANGED <<alive, peer, got>>
    BY <1>4 DEF Hangup
  <2>2. file[fd] \in Peers
    BY <1>0, <2>1, FdFacts, CountFacts
  <2>3. read' = read
    BY <1>0, <2>1, <2>2, HangupFacts
  <2>4. interest' \in [Fds -> Interests] /\ fresh' \subseteq Fds /\ Registered'
    BY <1>0, <2>1, CloseRegistered
  <2>5. /\ Count(fd, BufLen) <= 0 /\ kind # "blocking"
        /\ clientfd' = IF kind = "blocking" THEN None ELSE clientfd
        /\ file' = [file EXCEPT ![fd] = "free"]
        /\ conn' = [p \in Peers |-> IF file[fd] = p THEN "closed" ELSE conn[p]]
    BY <1>0, <2>1 DEF Close
  <2> QED BY <1>0, <1>1, <2>1, <2>2, <2>3, <2>4, <2>5, CloseStep
<1> QED BY <1>2, <1>3, <1>4 DEF Exchange

LEMMA SelectPollStep ==
  ASSUME ServersInv, UNCHANGED buffers,
         \/ Select \/ SelectAccept \/ Poll \/ PollAccept
         \/ \E fd \in Fds : SelectServe(fd) \/ PollServe(fd)
  PROVE  ServersInv'
<1>0. /\ kind \in {"select", "poll"} /\ kind \in Direct /\ Typed /\ Table /\ AtOnce
      /\ alive /\ UNCHANGED <<rbuf, wbuf>>
  BY DEF Select, SelectAccept, Poll, PollAccept, SelectServe, PollServe, Turn, Handle,
         Direct, ServersInv, buffers
<1>1. /\ batch \subseteq Fds \X {"in", "out", "edge"} /\ index \in Nat /\ Counted
      /\ kind # "edge"
  BY <1>0 DEF Typed, AtOnce
<1>2. UNCHANGED <<program, index>> => Counted' /\ index' \in Nat
  BY <1>1, SameProgram DEF Counted
<1>3. CASE Select \/ Poll
  <2>1. 0 .. maxfd \in SUBSET Fds
    <3>1. maxfd \in Fds \cup {None} /\ Reserved + room \in Int
      BY <1>0, FdFacts DEF Typed
    <3> QED BY <3>1 DEF Fds, None
  <2>2. Events(0 .. maxfd) \subseteq Fds \X {"in", "out", "edge"}
    BY <1>0, <2>1, EventsFacts
  <2>3. batch' \subseteq Events(0 .. maxfd) \cup batch
    BY <1>3 DEF Select, Poll
  <2>4. /\ UNCHANGED <<program, alive, file, interest, fresh, conn, peer, sent, read, got>>
        /\ UNCHANGED <<clientfd, maxfd, index, thread>>
    BY <1>3 DEF Select, Poll, table, memory
  <2>5. batch' \subseteq Fds \X {"in", "out", "edge"} /\ fresh' \subseteq fresh
    BY <1>1, <2>2, <2>3, <2>4
  <2> QED BY <1>0, <1>2, <2>4, <2>5, WaitStep
<1>4. ASSUME NEW program_, NEW fd, Turn(program_, fd)
      PROVE  batch' \subseteq Fds \X {"in", "out", "edge"} /\ UNCHANGED <<program, sent>>
  BY <1>1, <1>4 DEF Turn, Handle
<1>5. CASE SelectAccept \/ PollAccept
  <2>1. /\ batch' \subseteq Fds \X {"in", "out", "edge"} /\ UNCHANGED <<program, sent>>
        /\ Refused \/ \E p \in Peers : Accepted(p)
    BY <1>4, <1>5 DEF SelectAccept, PollAccept
  <2>2. CASE Refused
    <3>1. /\ UNCHANGED <<alive, file, interest, fresh, conn, peer, read, got, clientfd, index, thread>>
          /\ maxfd' = None /\ FreeFds = {}
      BY <2>2 DEF Refused, table
    <3> QED BY <1>0, <1>2, <2>1, <3>1, WaitStep
  <2>3. ASSUME NEW p \in Peers, Accepted(p)
        PROVE  ServersInv'
    <3>1. /\ TakeConnection(p, "in") /\ maxfd' = Min(FreeFds)
          /\ UNCHANGED <<alive, peer, read, got, clientfd, index, thread>>
      BY <2>3 DEF Accepted, AcceptedBelow
    <3>2. kind # "blocking"
      BY <1>0
    <3> QED BY <1>0, <1>2, <2>1, <3>1, <3>2, TakeStep
  <2> QED BY <2>1, <2>2, <2>3
<1>6. ASSUME NEW fd \in Fds, SelectServe(fd) \/ PollServe(fd)
      PROVE  ServersInv'
  <2>1. /\ batch' \subseteq Fds \X {"in", "out", "edge"} /\ UNCHANGED <<program, sent, memory>>
        /\ Exchange(fd)
    BY <1>4, <1>6 DEF SelectServe, PollServe
  <2> QED BY <1>0, <2>1, ExchangeStep
<1> QED BY <1>3, <1>5, <1>6

LEMMA EdgeStep ==
  ASSUME ServersInv, UNCHANGED buffers,
         \/ EdgeWait \/ EdgeAcceptFails
         \/ \E p \in Peers : EdgeAccept(p)
         \/ \E fd \in Fds : EdgeHangup(fd) \/ EdgeEcho(fd)
  PROVE  ServersInv'
<1>0. /\ kind = "edge" /\ kind \in Direct /\ Typed /\ Table /\ Counted
      /\ alive /\ UNCHANGED <<program, sent, clientfd, maxfd, thread, rbuf, wbuf>>
  BY DEF EdgeWait, EdgeAcceptFails, EdgeAccept, EdgeHangup, EdgeEcho, EdgeTurn, EpollWait, Handle,
         Direct, ServersInv, AtOnce, buffers
<1>1. CASE EdgeWait
  <2>1. /\ UNCHANGED <<alive, file, interest, conn, peer, read, got>>
        /\ fresh' = {} /\ batch' = Events(Fds) /\ index' = 0
    BY <1>1 DEF EdgeWait, EpollWait, table
  <2>2. /\ batch' \subseteq Fds \X {"in", "out", "edge"}
        /\ IsFiniteSet(batch') /\ Cardinality(batch') <= Cardinality(Fds)
        /\ Cardinality(batch') \in Nat
    BY <1>0, <2>1, EventsFacts, FS_CardinalityType
  <2>3. Counted'
    BY <1>0, <2>1, <2>2, SameProgram DEF Counted
  <2> QED BY <1>0, <2>1, <2>2, <2>3, WaitStep
<1>2. ASSUME NEW fd, NEW event, EdgeTurn(fd, event)
      PROVE  /\ fd \in Fds /\ index \in Fds /\ index' \in Nat
             /\ batch' \subseteq Fds \X {"in", "out", "edge"} /\ Counted'
  BY <1>0, <1>2, TurnFacts
<1>3. CASE EdgeAcceptFails
  <2>1. /\ UNCHANGED <<alive, file, interest, fresh, conn, peer, read, got>>
        /\ index' \in Nat /\ batch' \subseteq Fds \X {"in", "out", "edge"} /\ Counted'
    BY <1>2, <1>3 DEF EdgeAcceptFails, table
  <2> QED BY <1>0, <2>1, WaitStep
<1>4. ASSUME NEW p \in Peers, EdgeAccept(p)
      PROVE  ServersInv'
  <2>1. /\ UNCHANGED <<alive, peer, read, got>>
        /\ index' \in Nat /\ batch' \subseteq Fds \X {"in", "out", "edge"} /\ Counted'
        /\ TakeConnection(p, IF file[EpollFd] = "epoll" THEN "edge" ELSE "none")
    BY <1>2, <1>4 DEF EdgeAccept
  <2>2. kind # "blocking" /\ kind \notin {"select", "poll"}
    BY <1>0
  <2> QED BY <1>0, <2>1, <2>2, TakeStep
<1>5. ASSUME NEW fd \in Fds, EdgeEcho(fd)
      PROVE  ServersInv'
  <2>1. /\ index' \in Nat /\ batch' \subseteq Fds \X {"in", "out", "edge"} /\ Counted'
        /\ SendBack(fd) \/ SendError(fd)
    BY <1>2, <1>5 DEF EdgeEcho
  <2> QED BY <1>0, <2>1, SendBackStep, SendErrorStep
<1>6. ASSUME NEW fd \in Fds, EdgeHangup(fd)
      PROVE  ServersInv'
  <2>1. PICK c \in Fds : c = index
    BY <1>2, <1>6 DEF EdgeHangup
  <2>2. /\ index' \in Nat /\ batch' \subseteq Fds \X {"in", "out", "edge"} /\ Counted'
        /\ fd # ListenFd /\ Recv(fd, BufLen) /\ Count(fd, BufLen) = 0
        /\ file' = [file EXCEPT ![c] = "free"]
        /\ interest' = [interest EXCEPT ![fd] = "none", ![c] = "none"]
        /\ fresh' = fresh \ {fd, c}
        /\ conn' = [p \in Peers |-> IF file[c] = p THEN "closed" ELSE conn[p]]
        /\ UNCHANGED <<alive, peer, got>>
    BY <1>2, <1>6, <2>1 DEF EdgeHangup
  <2>3. read' = read
    BY <1>0, <2>2, FdFacts, RecvFacts
  <2>4. /\ interest \in [Fds -> Interests] /\ file \in [Fds -> Files \cup Peers]
        /\ fresh \subseteq Fds /\ ListenFd \in Fds
    BY <1>0, FdFacts DEF Typed
  <2>5. interest' \in [Fds -> Interests] /\ fresh' \subseteq Fds
    BY <2>2, <2>4 DEF Interests
  <2>6. Registered'
    BY <1>0, <2>2, <2>4, SameProgram DEF Table, Registered
  <2>7. /\ Count(fd, BufLen) <= 0 /\ kind # "blocking"
        /\ clientfd' = IF kind = "blocking" THEN None ELSE clientfd
    BY <1>0, <2>2
  <2> QED BY <1>0, <2>2, <2>3, <2>5, <2>6, <2>7, CloseStep
<1> QED BY <1>1, <1>3, <1>4, <1>5, <1>6

-----------------------------------------------------------------------------
(* The threads of multi-io.c *)

LEMMA ThreadsOthers ==
  ASSUME AtOnce, kind = "threads", UNCHANGED <<program, rbuf, wbuf, index>>
  PROVE  Buffers' /\ AtOnce' /\ InOrder'
BY SameProgram DEF Buffers, AtOnce, InOrder, Counted, Direct

\* Nobody was sent anything.
LEMMA SameTold ==
  ASSUME Typed, Told, UNCHANGED <<program, got>>,
         \A q \in Peers : read[q] <= read'[q] /\ read'[q] \in Nat,
         \A fd \in Fds : ~Misled(fd)' => ~Misled(fd)
  PROVE  Told'
<1> SUFFICES ASSUME ~(kind = "threads" /\ \E fd \in Fds : Misled(fd)')
             PROVE  Told'
  BY SameProgram DEF Told
<1>1. kind' = kind /\ Fds' = Fds
  BY SameProgram
<1>2. ASSUME NEW q \in Peers
      PROVE  /\ Len(got'[q]) <= read'[q]
             /\ kind # "http" => got'[q] = Bytes(q, Len(got'[q]))
  <2>1. got[q] \in Seq(Data) /\ read[q] \in Nat
    BY DEF Typed
  <2>2. Len(got[q]) \in Nat
    BY <2>1, LenProperties
  <2>3. Len(got[q]) <= read[q] /\ (kind # "http" => got[q] = Bytes(q, Len(got[q])))
    BY DEF Told
  <2> QED BY <2>1, <2>2, <2>3
<1> QED BY <1>1, <1>2 DEF Told

\* A descriptor that nobody but the thread it is meant for has read has at most
\* one owner.
LEMMA OneOwner ==
  ASSUME Owned, kind = "threads", NEW fd \in Fds, ~Misled(fd), NEW t \in Threads,
         thread[t].fd = fd, thread[t].pc # "ended"
  PROVE  /\ file[fd] \in Peers /\ Minded(fd)
         /\ OwnersOf(fd) \subseteq {t} /\ Meant(fd) = {t}
<1>1. Minded(fd)
  BY DEF Owned
<1>2. \A u \in Threads : thread[u].fd = fd => thread[u].meant = fd
  BY DEF Misled
<1>3. t \in Meant(fd) /\ OwnersOf(fd) \subseteq Meant(fd)
  BY <1>2 DEF Meant, OwnersOf
<1> QED BY <1>1, <1>3 DEF Minded

\* What is known of a descriptor, its peer and its owners is not touched.
LEMMA SameMinded ==
  ASSUME NEW fd \in Fds, Minded(fd), OwnersOf(fd)' = OwnersOf(fd),
         Meant(fd)' \subseteq Meant(fd), file'[fd] = file[fd],
         file[fd] \in Peers =>
           /\ read'[file[fd]] = read[file[fd]] /\ got'[file[fd]] = got[file[fd]]
           /\ sent'[file[fd]] = sent[file[fd]] /\ peer'[file[fd]] = peer[file[fd]],
         \A t \in OwnersOf(fd) : thread'[t] = thread[t],
         alive' => alive
  PROVE  Minded(fd)'
<1>1. Open(fd)' => Open(fd) /\ file[fd] \in Peers
  BY DEF Open
<1>2. ASSUME Open(fd)'
      PROVE  Owing(fd)'
  <2>1. Owing(fd)
    BY <1>1, <1>2 DEF Minded
  <2>2. \A t \in OwnersOf(fd)' :
          got'[file'[fd]] \o thread'[t].buf = Bytes(file'[fd], read'[file'[fd]])
    BY <1>1, <1>2, <2>1 DEF Owing
  <2>3. OwnersOf(fd)' = {} => got'[file'[fd]] = Bytes(file'[fd], read'[file'[fd]])
    BY <1>1, <1>2, <2>1 DEF Owing
  <2> QED BY <2>2, <2>3 DEF Owing
<1>3. file'[fd] \in Peers => Knows(fd)'
  BY DEF Minded, Knows
<1>4. /\ file'[fd] \notin Peers => Meant(fd)' = {}
      /\ \A t, u \in Meant(fd)' : t = u
  BY DEF Minded
<1> QED BY <1>2, <1>3, <1>4 DEF Minded

\* Main creates a thread that has no descriptor yet, or none.
LEMMA CreateFacts ==
  ASSUME Typed, Owned, kind = "threads", NEW fd \in Fds \cup {None}, Create(fd), UNCHANGED program
  PROVE  /\ thread' \in [Threads -> ThreadStates]
         /\ \A t \in Threads : AtWork(t)'
         /\ \A f \in Fds : /\ OwnersOf(f)' = OwnersOf(f)
                           /\ \A t \in OwnersOf(f) : thread'[t] = thread[t]
                           /\ Misled(f)' <=> Misled(f)
                           /\ f # fd => Meant(f)' = Meant(f)
         /\ Meant(fd) = {} => \A t, u \in Meant(fd)' : t = u
<1>1. /\ thread \in [Threads -> ThreadStates] /\ \A t \in Threads : AtWork(t)
      /\ BufLen' = BufLen /\ BufLen \in Nat /\ Fds' = Fds /\ None \notin Fds
      /\ Reserved' = Reserved
  BY SameProgram, FdFacts DEF Typed, Owned
<1>2. CASE Unused = {}
  <2>1. thread' = thread
    BY <1>2 DEF Create
  <2> QED BY <1>1, <1>2, <2>1 DEF Misled, OwnersOf, Meant, AtWork
<1>3. CASE Unused # {}
  <2>1. PICK t0 \in Unused : thread' = [thread EXCEPT ![t0] = [@ EXCEPT !.pc = "born", !.meant = fd]]
    <3>1. (CHOOSE t \in Unused : TRUE) \in Unused
      BY <1>3
    <3> QED BY <1>3, <3>1 DEF Create
  <2>2. /\ t0 \in Threads /\ thread[t0].pc = "none" /\ thread[t0].meant = None
        /\ thread[t0].fd = None /\ thread[t0].buf = <<>> /\ thread[t0] \in ThreadStates
    BY <1>1, <2>1 DEF Unused, AtWork
  <2>3. PICK r : r = [thread[t0] EXCEPT !.pc = "born", !.meant = fd]
    OBVIOUS
  <2>4. r \in ThreadStates /\ r.pc = "born" /\ r.meant = fd /\ r.fd = None /\ r.buf = <<>>
    BY <2>2, <2>3 DEF ThreadStates
  <2>5. thread' = [thread EXCEPT ![t0] = r]
    BY <2>1, <2>3
  <2>6. /\ thread' \in [Threads -> ThreadStates] /\ thread'[t0] = r
        /\ \A t \in Threads : t # t0 => thread'[t] = thread[t]
    BY <1>1, <2>2, <2>4, <2>5
  <2>7. ASSUME NEW t \in Threads
        PROVE  AtWork(t)'
    <3>1. CASE t = t0
      BY <1>1, <2>4, <2>6, <3>1, EmptySeq DEF AtWork
    <3>2. CASE t # t0
      BY <1>1, <2>6, <3>2 DEF AtWork
    <3> QED BY <3>1, <3>2
  <2>8. ASSUME NEW f \in Fds
        PROVE  /\ OwnersOf(f)' = OwnersOf(f)
               /\ \A t \in OwnersOf(f) : thread'[t] = thread[t]
    BY <2>2, <2>4, <2>6 DEF OwnersOf
  <2>9. ASSUME NEW f \in Fds
        PROVE  Misled(f)' <=> Misled(f)
    BY <1>1, <2>2, <2>4, <2>6 DEF Misled
  <2>10. ASSUME NEW f \in Fds, f # fd
         PROVE  Meant(f)' = Meant(f)
    BY <1>1, <2>2, <2>4, <2>6, <2>10 DEF Meant
  <2>11. Meant(fd)' \subseteq Meant(fd) \cup {t0}
    BY <2>6 DEF Meant
  <2> QED BY <2>6, <2>7, <2>8, <2>9, <2>10, <2>11
<1> QED BY <1>2, <1>3

LEMMA MainAcceptStep ==
  ASSUME ServersInv, NEW p \in Peers, MainAccept(p), UNCHANGED buffers
  PROVE  ServersInv'
<1>0. Typed /\ Table /\ Told /\ AtOnce /\ Owned
  BY DEF ServersInv
<1>1. /\ kind = "threads" /\ TakeConnection(p, "in") /\ clientfd' = Min(FreeFds) /\ Create(clientfd')
      /\ UNCHANGED <<program, alive, batch, sent, peer, read, got, maxfd, index, rbuf, wbuf>>
  BY DEF MainAccept, buffers
<1>2. PICK m \in Fds :
        /\ m = Min(FreeFds) /\ file[m] = "free" /\ m # None /\ m > Reserved
        /\ file' = [file EXCEPT ![m] = p] /\ file' \in [Fds -> Files \cup Peers]
        /\ interest' \in [Fds -> Interests]
        /\ conn' = [conn EXCEPT ![p] = "accepted"] /\ conn' \in [Peers -> Sides]
        /\ conn[p] = "backlog" /\ fresh' \subseteq Fds
  BY <1>0, <1>1, TakeFacts
<1>3. Table'
  BY <1>0, <1>1, TakeTable
<1>4. /\ thread' \in [Threads -> ThreadStates]
      /\ \A t \in Threads : AtWork(t)'
      /\ \A f \in Fds : /\ OwnersOf(f)' = OwnersOf(f)
                        /\ \A t \in OwnersOf(f) : thread'[t] = thread[t]
                        /\ Misled(f)' <=> Misled(f)
                        /\ f # m => Meant(f)' = Meant(f)
      /\ Meant(m) = {} => \A t, u \in Meant(m)' : t = u
  <2>1. Create(m)
    BY <1>1, <1>2
  <2> QED BY <1>0, <1>1, <2>1, CreateFacts
<1>5. /\ file \in [Fds -> Files \cup Peers] /\ "free" \notin Peers
      /\ Fds' = Fds /\ kind' = kind /\ Reserved' = Reserved
  BY <1>0, <1>1, SameProgram, PeersAreNoFiles DEF Typed, Files
<1>6. Typed'
  <2>1. clientfd' \in Fds \cup {None}
    BY <1>1, <1>2
  <2> QED BY <1>0, <1>1, <1>2, <1>4, <2>1, StaysTyped DEF Typed
<1>7. Told'
  <2>1. \A q \in Peers : read[q] <= read'[q] /\ read'[q] \in Nat
    BY <1>0, <1>1 DEF Typed
  <2> QED BY <1>0, <1>1, <1>4, <2>1, SameTold
<1>8. ASSUME NEW fd \in Fds, ~Misled(fd)'
      PROVE  Minded(fd)'
  <2>1. Minded(fd) /\ ~Misled(fd)
    BY <1>0, <1>1, <1>4, <1>8 DEF Owned
  <2>2. CASE fd # m
    <3>1. file'[fd] = file[fd]
      BY <1>2, <1>5, <2>2
    <3> QED BY <1>1, <1>4, <2>1, <2>2, <3>1, SameMinded
  <2>3. CASE fd = m
    <3>1. Meant(m) = {}
      BY <1>2, <1>5, <2>1, <2>3 DEF Minded
    <3>2. OwnersOf(m)' = {}
      BY <1>4, <2>1, <2>3, <3>1 DEF Misled, OwnersOf, Meant
    <3>3. file'[m] = p /\ read'[p] = 0 /\ got'[p] = <<>>
      BY <1>0, <1>1, <1>2, <1>5 DEF Table, Known
    <3>4. Owing(m)'
      BY <3>2, <3>3, NoBytes DEF Owing
    <3>5. Knows(m)'
      BY <3>2 DEF Knows
    <3> QED BY <1>4, <2>3, <3>1, <3>3, <3>4, <3>5 DEF Minded
  <2> QED BY <2>2, <2>3
<1>9. Owned'
  BY <1>1, <1>2, <1>4, <1>5, <1>8 DEF Owned
<1> QED BY <1>0, <1>1, <1>3, <1>6, <1>7, <1>9, ThreadsOthers DEF ServersInv

LEMMA MainAcceptFailsStep ==
  ASSUME ServersInv, MainAcceptFails, UNCHANGED buffers
  PROVE  ServersInv'
<1>0. Typed /\ Table /\ Told /\ AtOnce /\ Owned
  BY DEF ServersInv
<1>1. /\ kind = "threads" /\ clientfd' = None /\ Create(None)
      /\ UNCHANGED <<program, alive, file, interest, fresh, conn>>
      /\ UNCHANGED <<batch, sent, peer, read, got, maxfd, index, rbuf, wbuf>>
  BY DEF MainAcceptFails, buffers, sockets, table
<1>2. Fds' = Fds /\ kind' = kind /\ Reserved' = Reserved /\ None \notin Fds
  BY <1>0, <1>1, FdFacts, SameProgram
<1>3. /\ thread' \in [Threads -> ThreadStates]
      /\ \A t \in Threads : AtWork(t)'
      /\ \A f \in Fds : /\ OwnersOf(f)' = OwnersOf(f)
                        /\ \A t \in OwnersOf(f) : thread'[t] = thread[t]
                        /\ Misled(f)' <=> Misled(f)
                        /\ Meant(f)' = Meant(f)
  <2>1. None \in Fds \cup {None}
    OBVIOUS
  <2> QED BY <1>0, <1>1, <1>2, <2>1, CreateFacts
<1>4. Typed'
  <2>1. clientfd' \in Fds \cup {None}
    BY <1>1
  <2> QED BY <1>0, <1>1, <1>3, <2>1, StaysTyped DEF Typed
<1>5. Table'
  <2>1. Registered'
    BY <1>0, <1>1, <1>2 DEF Table, Registered
  <2>2. \A p \in Peers : conn[p] # "none" => peer[p] # "new"
    BY <1>0 DEF Table, Known
  <2> QED BY <1>0, <1>1, <2>1, <2>2, KeepsTable
<1>6. Told'
  <2>1. \A q \in Peers : read[q] <= read'[q] /\ read'[q] \in Nat
    BY <1>0, <1>1 DEF Typed
  <2> QED BY <1>0, <1>1, <1>3, <2>1, SameTold
<1>7. ASSUME NEW fd \in Fds, ~Misled(fd)'
      PROVE  Minded(fd)'
  <2>1. Minded(fd)
    BY <1>0, <1>1, <1>3, <1>7 DEF Owned
  <2> QED BY <1>1, <1>3, <2>1, SameMinded
<1>8. Owned'
  BY <1>1, <1>2, <1>3, <1>7 DEF Owned
<1> QED BY <1>0, <1>1, <1>4, <1>5, <1>6, <1>8, ThreadsOthers DEF ServersInv

\* A thread reads its descriptor from clientfd.
LEMMA ThreadStartStep ==
  ASSUME ServersInv, NEW t \in Threads, kind = "threads", ThreadStart(t), UNCHANGED buffers
  PROVE  ServersInv'
<1>0. Typed /\ Table /\ Told /\ AtOnce /\ Owned
  BY DEF ServersInv
<1>1. /\ thread[t].pc = "born"
      /\ thread' = [thread EXCEPT ![t].pc = "recv", ![t].fd = clientfd]
      /\ UNCHANGED <<program, alive, file, interest, fresh, conn, peer, read, got>>
      /\ UNCHANGED <<batch, sent, clientfd, maxfd, index, rbuf, wbuf>>
  BY DEF ThreadStart, Proceed, table, buffers
<1>2. /\ thread \in [Threads -> ThreadStates] /\ clientfd \in Fds \cup {None}
      /\ Fds' = Fds /\ BufLen' = BufLen /\ kind' = kind /\ Reserved' = Reserved
      /\ None \notin Fds
      /\ \A u \in Threads : AtWork(u)
  BY <1>0, <1>1, FdFacts, SameProgram DEF Typed, Owned
<1>3. thread[t].fd = None /\ thread[t].buf = <<>> /\ thread[t] \in ThreadStates
  BY <1>1, <1>2 DEF AtWork
<1>4. /\ thread' \in [Threads -> ThreadStates]
      /\ thread'[t].pc = "recv" /\ thread'[t].fd = clientfd /\ thread'[t].buf = <<>>
      /\ thread'[t].meant = thread[t].meant
      /\ \A u \in Threads : u # t => thread'[u] = thread[u]
  BY <1>1, <1>2, <1>3 DEF ThreadStates
<1>5. Typed'
  BY <1>0, <1>1, <1>4, StaysTyped DEF Typed
<1>6. Table'
  <2>1. Registered'
    BY <1>0, <1>1, <1>2 DEF Table, Registered
  <2>2. \A p \in Peers : conn[p] # "none" => peer[p] # "new"
    BY <1>0 DEF Table, Known
  <2> QED BY <1>0, <1>1, <2>1, <2>2, KeepsTable
<1>7. \A fd \in Fds : ~Misled(fd)' => ~Misled(fd)
  BY <1>2, <1>3, <1>4 DEF Misled
<1>8. Told'
  <2>1. \A q \in Peers : read[q] <= read'[q] /\ read'[q] \in Nat
    BY <1>0, <1>1 DEF Typed
  <2> QED BY <1>0, <1>1, <1>7, <2>1, SameTold
<1>9. ASSUME NEW u \in Threads
      PROVE  AtWork(u)'
  <2>1. CASE u = t
    <3>1. clientfd # None => clientfd > Reserved
      BY <1>0 DEF Owned
    <3> QED BY <1>2, <1>3, <1>4, <2>1, <3>1 DEF AtWork
  <2>2. CASE u # t
    BY <1>2, <1>4, <2>2 DEF AtWork
  <2> QED BY <2>1, <2>2
<1>10. ASSUME NEW fd \in Fds, ~Misled(fd)'
       PROVE  Minded(fd)'
  <2>1. Minded(fd) /\ ~Misled(fd)
    BY <1>0, <1>7, <1>10 DEF Owned
  <2>2. Meant(fd)' = Meant(fd)
    BY <1>1, <1>4 DEF Meant
  <2>3. CASE fd # clientfd
    <3>1. OwnersOf(fd)' = OwnersOf(fd) /\ \A u \in OwnersOf(fd) : thread'[u] = thread[u]
      BY <1>2, <1>3, <1>4, <2>3 DEF OwnersOf
    <3> QED BY <1>1, <2>1, <2>2, <3>1, SameMinded
  <2>4. CASE fd = clientfd
    <3>1. t \in Meant(fd)
      BY <1>1, <1>4, <1>10, <2>4 DEF Misled, Meant
    <3>2. file[fd] \in Peers /\ Meant(fd) = {t}
      BY <2>1, <3>1 DEF Minded
    <3>3. OwnersOf(fd) = {}
      <4>1. OwnersOf(fd) \subseteq Meant(fd)
        BY <2>1 DEF Misled, OwnersOf, Meant
      <4>2. t \notin OwnersOf(fd)
        BY <1>1 DEF OwnersOf
      <4> QED BY <3>2, <4>1, <4>2
    <3>4. OwnersOf(fd)' = {t}
      BY <1>4, <2>4, <3>3 DEF OwnersOf
    <3>5. Open(fd)' => Open(fd)
      BY <1>1 DEF Open
    <3>6. ASSUME Open(fd)'
          PROVE  Owing(fd)'
      <4>1. got[file[fd]] = Bytes(file[fd], read[file[fd]]) /\ got[file[fd]] \in Seq(Data)
        BY <1>0, <2>1, <3>2, <3>3, <3>5, <3>6 DEF Minded, Owing, Typed
      <4>2. got[file[fd]] \o <<>> = got[file[fd]]
        BY <4>1, ConcatEmptySeq
      <4> QED BY <1>1, <1>4, <3>4, <4>1, <4>2 DEF Owing
    <3>7. Knows(fd)'
      BY <1>4, <3>4 DEF Knows
    <3> QED BY <1>1, <2>2, <3>2, <3>6, <3>7 DEF Minded
  <2> QED BY <2>3, <2>4
<1>11. Owned'
  BY <1>0, <1>1, <1>2, <1>9, <1>10 DEF Owned
<1> QED BY <1>0, <1>1, <1>5, <1>6, <1>8, <1>11, ThreadsOthers DEF ServersInv

\* A step of the thread t, which becomes r, on its descriptor f; if nobody else
\* has read f, r owes and knows what it should.
Turned(t, f, r) ==
  /\ thread[t].pc \in {"recv", "send", "error", "close"} /\ f = thread[t].fd
  /\ thread' = [thread EXCEPT ![t] = r]
  /\ r.fd = f /\ r.meant = thread[t].meant
  /\ r.pc \in {"recv", "send", "error", "close", "ended"}
  /\ r.pc # "send" => r.buf = <<>>
  /\ Len(r.buf) <= BufLen
  /\ UNCHANGED <<program, sent, clientfd>> /\ (alive' => alive)
  /\ \A fd \in Fds : fd # f => file'[fd] = file[fd]
  /\ \A q \in Peers : q # file[f] =>
       read'[q] = read[q] /\ got'[q] = got[q] /\ peer'[q] = peer[q]
  /\ ~Misled(f) =>
       \/ r.pc = "ended" /\ file'[f] = "free"
       \/ /\ r.pc # "ended" /\ file'[f] = file[f]
          /\ Open(f)' => got'[file[f]] \o r.buf = Bytes(file[f], read'[file[f]])
          /\ r.pc = "close" => peer'[file[f]] # "open" /\ read'[file[f]] = sent[file[f]]
          /\ r.pc = "error" => peer'[file[f]] = "dead"

LEMMA ThreadTurn ==
  ASSUME ServersInv, kind = "threads", NEW t \in Threads, NEW f \in Fds,
         NEW r \in ThreadStates, Turned(t, f, r)
  PROVE  Owned' /\ \A fd \in Fds : Misled(fd)' <=> Misled(fd)
<1>0. Typed /\ Table /\ Owned
  BY DEF ServersInv
<1>1. /\ thread \in [Threads -> ThreadStates]
      /\ Fds' = Fds /\ BufLen' = BufLen /\ kind' = kind /\ Reserved' = Reserved
      /\ \A u \in Threads : AtWork(u)
      /\ "free" \notin Peers
  BY <1>0, SameProgram, PeersAreNoFiles DEF Typed, Owned, Files, Turned
<1>2. /\ thread'[t] = r /\ \A u \in Threads : u # t => thread'[u] = thread[u]
      /\ thread[t].pc \in {"recv", "send", "error", "close"} /\ f = thread[t].fd
      /\ r.fd = f /\ r.meant = thread[t].meant
      /\ r.pc \in {"recv", "send", "error", "close", "ended"}
  BY <1>1 DEF Turned
<1>3. \A fd \in Fds : Misled(fd)' <=> Misled(fd)
  BY <1>2 DEF Misled
<1>4. ASSUME NEW u \in Threads
      PROVE  AtWork(u)'
  <2>1. CASE u = t
    BY <1>1, <1>2, <2>1 DEF AtWork, Turned
  <2>2. CASE u # t
    BY <1>1, <1>2, <2>2 DEF AtWork
  <2> QED BY <2>1, <2>2
<1>5. ASSUME NEW fd \in Fds, ~Misled(fd)
      PROVE  Minded(fd)'
  <2>1. Minded(fd)
    BY <1>0, <1>5 DEF Owned
  <2>2. Meant(fd)' \subseteq Meant(fd)
    BY <1>2 DEF Meant
  <2>3. CASE fd # f
    <3>1. OwnersOf(fd)' = OwnersOf(fd) /\ \A u \in OwnersOf(fd) : thread'[u] = thread[u]
      BY <1>2, <2>3 DEF OwnersOf
    <3>2. file[fd] \in Peers => file[fd] # file[f]
      BY <1>0, <2>3 DEF Table, Placed
    <3>3. /\ UNCHANGED <<sent>> /\ (alive' => alive) /\ file'[fd] = file[fd]
          /\ \A q \in Peers : q # file[f] =>
               read'[q] = read[q] /\ got'[q] = got[q] /\ peer'[q] = peer[q]
      BY <2>3 DEF Turned
    <3> QED BY <2>1, <2>2, <2>3, <3>1, <3>2, <3>3, SameMinded
  <2>4. CASE fd = f
    <3>1. file[f] \in Peers /\ OwnersOf(f) \subseteq {t} /\ Meant(f) = {t}
      BY <1>0, <1>2, <1>5, <2>4, OneOwner
    <3>2. CASE r.pc = "ended" /\ file'[f] = "free"
      <4>1. Meant(f)' = {}
        BY <1>2, <2>2, <2>4, <3>1, <3>2 DEF Meant
      <4> QED BY <1>1, <2>4, <3>2, <4>1 DEF Minded, Open
    <3>3. CASE r.pc # "ended"
      <4>1. OwnersOf(f)' = {t}
        BY <1>2, <3>1, <3>3 DEF OwnersOf
      <4>2. /\ file'[f] = file[f]
            /\ Open(f)' => got'[file[f]] \o r.buf = Bytes(file[f], read'[file[f]])
            /\ r.pc = "close" => peer'[file[f]] # "open" /\ read'[file[f]] = sent[file[f]]
            /\ r.pc = "error" => peer'[file[f]] = "dead"
        BY <1>5, <2>4, <3>3 DEF Turned
      <4>3. Open(f)' => Owing(f)'
        BY <1>2, <4>1, <4>2 DEF Owing
      <4>4. Knows(f)'
        BY <1>2, <4>1, <4>2 DEF Knows, Turned
      <4> QED BY <2>2, <2>4, <3>1, <4>2, <4>3, <4>4 DEF Minded
    <3> QED BY <1>5, <2>4, <3>2, <3>3 DEF Turned
  <2> QED BY <2>3, <2>4
<1>6. Owned'
  BY <1>0, <1>1, <1>3, <1>4, <1>5 DEF Owned, Turned
<1> QED BY <1>3, <1>6

LEMMA ThreadRecvStep ==
  ASSUME ServersInv, NEW t \in Threads, kind = "threads", ThreadRecv(t), UNCHANGED buffers
  PROVE  ServersInv'
<1>0. Typed /\ Table /\ Told /\ AtOnce /\ Owned
  BY DEF ServersInv
<1>1. /\ thread \in [Threads -> ThreadStates] /\ peer \in [Peers -> PeerStates]
      /\ Fds' = Fds /\ kind' = kind /\ BufLen \in Nat /\ BufLen > 0
      /\ \A u \in Threads : AtWork(u)
  <2>1. UNCHANGED program
    BY DEF ThreadRecv, Proceed
  <2>2. BufLen \in Nat /\ BufLen > 0
    BY <1>0, FdFacts
  <2> QED BY <1>0, <2>1, <2>2, SameProgram DEF Typed, Owned
<1>2. PICK f \in Fds : f = thread[t].fd
  BY <1>1 DEF ThreadRecv, ThreadStates
<1>3. PICK c, n : c = Chunk(f, BufLen) /\ n = Count(f, BufLen)
  OBVIOUS
<1>4. /\ thread[t].pc = "recv" /\ alive /\ Recv(f, BufLen)
      /\ thread' = [thread EXCEPT
                      ![t].pc = IF n > 0 THEN "send" ELSE IF n = 0 THEN "close" ELSE "error",
                      ![t].buf = c]
      /\ peer' = IF n = -1 /\ file[f] \in Peers THEN [peer EXCEPT ![file[f]] = "dead"] ELSE peer
      /\ UNCHANGED <<program, alive, file, interest, fresh, conn, got>>
      /\ UNCHANGED <<batch, sent, clientfd, maxfd, index, rbuf, wbuf>>
  BY <1>2, <1>3 DEF ThreadRecv, Proceed, table, buffers
<1>5. /\ n \in Int /\ -1 <= n /\ n <= BufLen
      /\ c \in Seq(Data) /\ Len(c) = (IF n > 0 THEN n ELSE 0)
      /\ \A j \in 1 .. Len(c) : c[j] = <<file[f], read[file[f]] + j>>
      /\ n <= 0 => c = <<>>
  <2>1. n \in Int /\ -1 <= n /\ n <= BufLen
    BY <1>0, <1>1, <1>3, CountFacts
  <2>2. /\ c \in Seq(Data) /\ Len(c) = (IF n > 0 THEN n ELSE 0)
        /\ \A j \in 1 .. Len(c) : c[j] = <<file[f], read[file[f]] + j>>
    BY <1>0, <1>1, <1>3, ChunkFacts
  <2> QED BY <2>1, <2>2, EmptySeq
<1>6. /\ read' \in [Peers -> Nat]
      /\ \A q \in Peers : /\ read[q] <= read'[q] /\ read'[q] <= sent[q]
                          /\ q # file[f] => read'[q] = read[q]
      /\ file[f] \in Peers => read'[file[f]] = read[file[f]] + Len(c)
  BY <1>0, <1>1, <1>3, <1>4, RecvFacts
<1>7. PICK r \in ThreadStates :
        /\ r.pc = (IF n > 0 THEN "send" ELSE IF n = 0 THEN "close" ELSE "error")
        /\ r.fd = f /\ r.meant = thread[t].meant /\ r.buf = c
        /\ thread' = [thread EXCEPT ![t] = r] /\ thread' \in [Threads -> ThreadStates]
  <2>1. thread[t] \in ThreadStates
    BY <1>1
  <2>2. PICK r : r = [thread[t] EXCEPT
                        !.pc = IF n > 0 THEN "send" ELSE IF n = 0 THEN "close" ELSE "error",
                        !.buf = c]
    OBVIOUS
  <2>3. thread' = [thread EXCEPT ![t] = r]
    BY <1>1, <1>4, <2>2
  <2>4. /\ r \in ThreadStates /\ r.fd = f /\ r.meant = thread[t].meant /\ r.buf = c
        /\ r.pc = (IF n > 0 THEN "send" ELSE IF n = 0 THEN "close" ELSE "error")
    BY <1>2, <1>5, <2>1, <2>2 DEF ThreadStates
  <2> QED BY <1>1, <2>3, <2>4
<1>8. /\ peer' \in [Peers -> PeerStates]
      /\ \A q \in Peers : /\ peer'[q] = peer[q] \/ peer'[q] = "dead"
                          /\ q # file[f] => peer'[q] = peer[q]
      /\ n = -1 /\ file[f] \in Peers => peer'[file[f]] = "dead"
      /\ n # -1 => peer' = peer
  BY <1>1, <1>4 DEF PeerStates
<1>9. ASSUME ~Misled(f)
      PROVE  /\ r.pc # "ended"
             /\ Open(f)' => got'[file[f]] \o r.buf = Bytes(file[f], read'[file[f]])
             /\ r.pc = "close" => peer'[file[f]] # "open" /\ read'[file[f]] = sent[file[f]]
             /\ r.pc = "error" => peer'[file[f]] = "dead"
  <2>1. t \in OwnersOf(f) /\ thread[t].buf = <<>> /\ AtWork(t)
    BY <1>1, <1>2, <1>4 DEF OwnersOf, AtWork
  <2>2. file[f] \in Peers /\ Minded(f)
    BY <1>0, <1>2, <1>4, <1>9, OneOwner
  <2>3. PICK p \in Peers : p = file[f]
    BY <2>2
  <2>4. got[p] \in Seq(Data) /\ read[p] \in Nat
    BY <1>0 DEF Typed
  <2>5. ASSUME Open(f)'
        PROVE  got'[p] \o c = Bytes(p, read'[p])
    <3>1. Open(f)
      BY <1>4, <1>8, <2>5 DEF Open
    <3>2. got[p] \o <<>> = Bytes(p, read[p])
      BY <2>1, <2>2, <2>3, <3>1 DEF Minded, Owing
    <3>3. got[p] = Bytes(p, read[p])
      BY <2>4, <3>2, ConcatEmptySeq
    <3>4. Bytes(p, read[p]) \o c = Bytes(p, read[p] + Len(c))
      BY <1>5, <2>3, <2>4, BytesGrow
    <3> QED BY <1>4, <1>6, <2>3, <3>3, <3>4
  <2>6. r.pc = "close" => n = 0
    BY <1>7
  <2>7. n = 0 => peer'[p] # "open" /\ read'[p] = sent[p]
    <3>1. ASSUME n = 0
          PROVE  read' = read /\ peer[p] # "open" /\ read[p] = sent[p]
      <4>1. Count(f, BufLen) <= 0
        BY <1>3, <3>1
      <4>2. read' = read /\ peer[file[f]] # "open" /\ read[file[f]] = sent[file[f]]
        BY <1>0, <1>4, <2>2, <4>1, HangupFacts
      <4> QED BY <2>3, <4>2
    <3> QED BY <1>8, <3>1
  <2>8. r.pc = "error" => n = -1
    BY <1>5, <1>7
  <2> QED BY <1>7, <1>8, <2>3, <2>5, <2>6, <2>7, <2>8
<1>10. Typed'
  BY <1>0, <1>4, <1>6, <1>7, <1>8, StaysTyped DEF Typed
<1>11. Table'
  <2>1. Registered'
    BY <1>0, <1>1, <1>4 DEF Table, Registered
  <2>2. \A q \in Peers : conn[q] # "none" => peer'[q] # "new"
    BY <1>0, <1>8 DEF Table, Known
  <2>3. \A q \in Peers : conn[q] \in {"none", "backlog"} => read'[q] = read[q]
    BY <1>0, <1>6 DEF Table, Placed
  <2> QED BY <1>0, <1>4, <2>1, <2>2, <2>3, KeepsTable
<1>12. Owned' /\ \A fd \in Fds : Misled(fd)' <=> Misled(fd)
  <2>1. Len(r.buf) <= BufLen
    BY <1>1, <1>5, <1>7
  <2>2. /\ \A fd \in Fds : fd # f => file'[fd] = file[fd]
        /\ \A q \in Peers : q # file[f] =>
             read'[q] = read[q] /\ got'[q] = got[q] /\ peer'[q] = peer[q]
        /\ thread[t].pc \in {"recv", "send", "error", "close"}
        /\ r.pc \in {"recv", "send", "error", "close", "ended"}
        /\ r.pc # "send" => r.buf = <<>>
        /\ UNCHANGED <<program, sent, clientfd>> /\ (alive' => alive)
    BY <1>4, <1>5, <1>6, <1>7, <1>8
  <2>3. ~Misled(f) =>
           \/ r.pc = "ended" /\ file'[f] = "free"
           \/ /\ r.pc # "ended" /\ file'[f] = file[f]
              /\ Open(f)' => got'[file[f]] \o r.buf = Bytes(file[f], read'[file[f]])
              /\ r.pc = "close" =>
                   peer'[file[f]] # "open" /\ read'[file[f]] = sent[file[f]]
              /\ r.pc = "error" => peer'[file[f]] = "dead"
    BY <1>4, <1>9
  <2>4. Turned(t, f, r)
    BY <1>2, <1>7, <2>1, <2>2, <2>3 DEF Turned
  <2> QED BY <2>4, ThreadTurn
<1>13. Told'
  BY <1>0, <1>4, <1>6, <1>12, SameTold
<1> QED BY <1>0, <1>4, <1>10, <1>11, <1>12, <1>13, ThreadsOthers DEF ServersInv

\* What a thread writes goes to whoever has its descriptor now.
LEMMA ThreadWriteFacts ==
  ASSUME Typed, Table, NEW t \in Threads, NEW f \in Fds, f = thread[t].fd, alive,
         NEW data \in Seq(Data), ThreadWrite(t, data)
  PROVE  /\ alive' \in BOOLEAN /\ peer' \in [Peers -> PeerStates]
         /\ got' \in [Peers -> Seq(Data)]
         /\ \A q \in Peers : /\ q # file[f] => peer'[q] = peer[q] /\ got'[q] = got[q]
                             /\ peer'[q] = "new" <=> peer[q] = "new"
                             /\ peer[q] = "dead" => peer'[q] = "dead" /\ got'[q] = got[q]
         /\ \A p \in Peers : p = file[f] =>
              /\ got'[p] = got[p] \/ got'[p] = got[p] \o data
              /\ alive' /\ peer'[p] # "dead" => peer[p] # "dead" /\ got'[p] = got[p] \o data
              /\ peer[p] = "dead" => alive' = FALSE
<1>1. CASE file[f] \notin Peers
  BY <1>1 DEF ThreadWrite, Typed
<1>2. CASE file[f] \in Peers
  <2>1. PICK p \in Peers : p = file[f]
    BY <1>2
  <2>2. Write(p, data)
    BY <1>2, <2>1 DEF ThreadWrite
  <2>3. peer[p] = "dead" => got' = got /\ alive' = FALSE
    BY <2>2 DEF Write
  <2> QED BY <2>1, <2>2, <2>3, WriteFacts
<1> QED BY <1>1, <1>2

\* A thread sends, or ends the process, and goes back to recv.
LEMMA ThreadBack ==
  ASSUME ServersInv, kind = "threads", NEW t \in Threads, NEW f \in Fds, f = thread[t].fd, alive,
         thread[t].pc \in {"send", "error"},
         thread' = [thread EXCEPT ![t].pc = "recv", ![t].buf = <<>>],
         NEW data \in Seq(Data),
         ThreadWrite(t, data) \/ (alive' = FALSE /\ UNCHANGED <<peer, got>>),
         thread[t].pc = "send" => data = thread[t].buf,
         UNCHANGED <<program, file, interest, fresh, conn, read>>,
         UNCHANGED <<batch, sent, clientfd, maxfd, index, rbuf, wbuf>>
  PROVE  ServersInv'
<1>0. Typed /\ Table /\ Told /\ AtOnce /\ Owned
  BY DEF ServersInv
<1>1. /\ thread \in [Threads -> ThreadStates] /\ Fds' = Fds /\ kind' = kind /\ BufLen \in Nat
      /\ read \in [Peers -> Nat] /\ got \in [Peers -> Seq(Data)]
  BY <1>0, FdFacts, SameProgram DEF Typed
<1>2. /\ alive' \in BOOLEAN /\ peer' \in [Peers -> PeerStates] /\ got' \in [Peers -> Seq(Data)]
      /\ \A q \in Peers : /\ q # file[f] => peer'[q] = peer[q] /\ got'[q] = got[q]
                          /\ peer'[q] = "new" <=> peer[q] = "new"
                          /\ peer[q] = "dead" => peer'[q] = "dead" /\ got'[q] = got[q]
      /\ \A p \in Peers : p = file[f] =>
           /\ got'[p] = got[p] \/ got'[p] = got[p] \o data
           /\ alive' /\ peer'[p] # "dead" => peer[p] # "dead" /\ got'[p] = got[p] \o data
           /\ peer[p] = "dead" => alive' = FALSE
  <2>1. CASE ThreadWrite(t, data)
    BY <1>0, <2>1, ThreadWriteFacts
  <2>2. CASE alive' = FALSE /\ UNCHANGED <<peer, got>>
    BY <1>0, <2>2 DEF Typed
  <2> QED BY <2>1, <2>2
<1>3. PICK r \in ThreadStates :
        /\ r.pc = "recv" /\ r.fd = f /\ r.meant = thread[t].meant /\ r.buf = <<>>
        /\ thread' = [thread EXCEPT ![t] = r] /\ thread' \in [Threads -> ThreadStates]
  <2>1. thread[t] \in ThreadStates
    BY <1>1
  <2>2. PICK r : r = [thread[t] EXCEPT !.pc = "recv", !.buf = <<>>]
    OBVIOUS
  <2>3. thread' = [thread EXCEPT ![t] = r]
    BY <1>1, <2>2
  <2>4. /\ r \in ThreadStates /\ r.fd = f /\ r.meant = thread[t].meant /\ r.buf = <<>>
        /\ r.pc = "recv"
    BY <2>1, <2>2, EmptySeq DEF ThreadStates
  <2> QED BY <1>1, <2>3, <2>4
\* What the thread owed is what it wrote.
<1>4. ASSUME ~Misled(f)
      PROVE  /\ file[f] \in Peers
             /\ peer[file[f]] # "dead" =>
                  /\ thread[t].pc = "send"
                  /\ got[file[f]] \o data = Bytes(file[f], read[file[f]])
  <2>1. t \in OwnersOf(f)
    BY DEF OwnersOf
  <2>2. file[f] \in Peers /\ Minded(f)
    BY <1>0, <1>4, OneOwner
  <2>3. peer[file[f]] # "dead" => Open(f) /\ thread[t].pc = "send"
    BY <2>1, <2>2 DEF Open, Minded, Knows
  <2> QED BY <2>1, <2>2, <2>3 DEF Minded, Owing
<1>5. ASSUME ~Misled(f), Open(f)'
      PROVE  got'[file[f]] \o <<>> = Bytes(file[f], read[file[f]])
  <2>1. PICK p \in Peers : p = file[f]
    BY <1>4, <1>5
  <2>2. peer[p] # "dead" /\ got'[p] = got[p] \o data
    BY <1>2, <1>5, <2>1 DEF Open
  <2>3. got'[p] = Bytes(p, read[p])
    BY <1>4, <1>5, <2>1, <2>2
  <2> QED BY <1>2, <2>1, <2>3, ConcatEmptySeq
<1>6. Typed'
  BY <1>0, <1>2, <1>3, StaysTyped DEF Typed
<1>7. Table'
  <2>1. Registered'
    BY <1>0, <1>1 DEF Table, Registered
  <2>2. \A q \in Peers : conn[q] # "none" => peer'[q] # "new"
    BY <1>0, <1>2 DEF Table, Known
  <2>3. \A q \in Peers : conn[q] \in {"none", "backlog"} => got'[q] = got[q]
    BY <1>0, <1>2 DEF Table, Placed
  <2> QED BY <1>0, <2>1, <2>2, <2>3, KeepsTable
<1>8. Owned' /\ \A fd \in Fds : Misled(fd)' <=> Misled(fd)
  <2>1. Len(r.buf) <= BufLen
    BY <1>1, <1>3, EmptySeq
  <2>2. /\ \A fd \in Fds : fd # f => file'[fd] = file[fd]
        /\ \A q \in Peers : q # file[f] =>
             read'[q] = read[q] /\ got'[q] = got[q] /\ peer'[q] = peer[q]
        /\ thread[t].pc \in {"recv", "send", "error", "close"}
        /\ r.pc \in {"recv", "send", "error", "close", "ended"}
        /\ r.pc # "send" => r.buf = <<>>
        /\ UNCHANGED <<program, sent, clientfd>> /\ (alive' => alive)
    BY <1>2, <1>3
  <2>3. ~Misled(f) =>
           \/ r.pc = "ended" /\ file'[f] = "free"
           \/ /\ r.pc # "ended" /\ file'[f] = file[f]
              /\ Open(f)' => got'[file[f]] \o r.buf = Bytes(file[f], read'[file[f]])
              /\ r.pc = "close" =>
                   peer'[file[f]] # "open" /\ read'[file[f]] = sent[file[f]]
              /\ r.pc = "error" => peer'[file[f]] = "dead"
    BY <1>3, <1>5
  <2>4. Turned(t, f, r)
    BY <1>3, <2>1, <2>2, <2>3 DEF Turned
  <2> QED BY <2>4, ThreadTurn
<1>9. Told'
  <2>1. \A q \in Peers : read[q] <= read'[q] /\ read'[q] \in Nat
    BY <1>1
  <2>2. CASE got' = got
    BY <1>0, <1>8, <2>1, <2>2, SameTold
  <2>3. CASE got' # got
    <3>1. PICK p \in Peers : p = file[f] /\ got'[p] # got[p]
      BY <1>1, <1>2, <2>3
    <3>2. peer[p] # "dead" /\ got'[p] = got[p] \o data
      BY <1>2, <3>1
    <3>3. CASE Misled(f)
      BY <1>0, <1>2, <1>8, <2>1, <3>1, <3>3, KeepsTold
    <3>4. CASE ~Misled(f)
      <4>1. PICK g \in Seq(Data), n \in Nat : g = got[p] /\ n = read[p]
        BY <1>1
      <4>2. g \o data = Bytes(p, n)
        BY <1>4, <3>1, <3>2, <3>4, <4>1
      <4>3. Len(g) + Len(data) = n
        BY <4>2, BytesSplit
      <4>4. Len(got[p]) + Len(data) <= read'[p]
        BY <1>1, <4>1, <4>3
      <4>5. got[p] \o data = Bytes(p, read'[p])
        BY <4>1, <4>2
      <4> QED BY <1>0, <1>2, <1>8, <2>1, <3>1, <3>2, <4>4, <4>5, KeepsTold
    <3> QED BY <3>3, <3>4
  <2> QED BY <2>2, <2>3
<1> QED BY <1>0, <1>6, <1>7, <1>8, <1>9, ThreadsOthers DEF ServersInv

LEMMA ThreadSendStep ==
  ASSUME ServersInv, NEW t \in Threads, kind = "threads", ThreadSend(t), UNCHANGED buffers
  PROVE  ServersInv'
<1>1. /\ thread[t].pc = "send" /\ alive /\ ThreadWrite(t, thread[t].buf)
      /\ thread' = [thread EXCEPT ![t].pc = "recv", ![t].buf = <<>>]
      /\ UNCHANGED <<program, file, interest, fresh, conn, read>>
      /\ UNCHANGED <<batch, sent, clientfd, maxfd, index, rbuf, wbuf>>
  BY DEF ThreadSend, Proceed, table, buffers
<1>2. PICK f \in Fds, data \in Seq(Data) : f = thread[t].fd /\ data = thread[t].buf
  BY <1>1 DEF ServersInv, Typed, Owned, AtWork, ThreadStates
<1> QED BY <1>1, <1>2, ThreadBack

LEMMA ThreadErrorStep ==
  ASSUME ServersInv, NEW t \in Threads, kind = "threads", ThreadError(t), UNCHANGED buffers
  PROVE  ServersInv'
<1>1. /\ thread[t].pc = "error" /\ alive
      /\ \/ \E beyond \in {<<>>, <<Junk>>} : ThreadWrite(t, beyond)
         \/ alive' = FALSE /\ UNCHANGED <<peer, got>>
      /\ thread' = [thread EXCEPT ![t].pc = "recv"]
      /\ UNCHANGED <<program, file, interest, fresh, conn, read>>
      /\ UNCHANGED <<batch, sent, clientfd, maxfd, index, rbuf, wbuf>>
  BY DEF ThreadError, Proceed, Goto, table, buffers
<1>2. /\ thread \in [Threads -> ThreadStates] /\ thread[t].fd \in Fds /\ thread[t].buf = <<>>
  BY <1>1 DEF ServersInv, Typed, Owned, AtWork
<1>3. thread' = [thread EXCEPT ![t].pc = "recv", ![t].buf = <<>>]
  <2>1. [thread[t] EXCEPT !.pc = "recv", !.buf = <<>>] = [thread[t] EXCEPT !.pc = "recv"]
    BY <1>2 DEF ThreadStates
  <2> QED BY <1>1, <1>2, <2>1
<1>4. <<>> \in Seq(Data) /\ <<Junk>> \in Seq(Data)
  BY EmptySeq DEF Data
<1>5. PICK data \in Seq(Data) : ThreadWrite(t, data) \/ (alive' = FALSE /\ UNCHANGED <<peer, got>>)
  BY <1>1, <1>4
<1> QED BY <1>1, <1>2, <1>3, <1>5, ThreadBack

LEMMA ThreadCloseStep ==
  ASSUME ServersInv, NEW t \in Threads, kind = "threads", ThreadClose(t), UNCHANGED buffers
  PROVE  ServersInv'
<1>0. Typed /\ Table /\ Told /\ AtOnce /\ Owned
  BY DEF ServersInv
<1>1. /\ thread[t].pc = "close" /\ alive /\ Close(thread[t].fd)
      /\ thread' = [thread EXCEPT ![t].pc = "ended"]
      /\ UNCHANGED <<program, alive, peer, read, got>>
      /\ UNCHANGED <<batch, sent, clientfd, maxfd, index, rbuf, wbuf>>
  BY DEF ThreadClose, Proceed, Goto, buffers
<1>2. /\ thread \in [Threads -> ThreadStates] /\ thread[t] \in ThreadStates /\ AtWork(t)
      /\ BufLen \in Nat /\ None \notin Fds /\ file \in [Fds -> Files \cup Peers]
  BY <1>0, <1>1, FdFacts DEF Typed, Owned
<1>3. PICK f \in Fds : f = thread[t].fd /\ f > Reserved
  BY <1>1, <1>2 DEF AtWork
<1>4. /\ file' = [file EXCEPT ![f] = "free"]
      /\ conn' = [p \in Peers |-> IF file[f] = p THEN "closed" ELSE conn[p]]
      /\ Close(f)
  BY <1>1, <1>3 DEF Close
<1>5. interest' \in [Fds -> Interests] /\ fresh' \subseteq Fds /\ Registered'
  BY <1>0, <1>1, <1>4, CloseRegistered
<1>6. /\ file' \in [Fds -> Files \cup Peers] /\ conn' \in [Peers -> Sides] /\ Table'
  BY <1>0, <1>1, <1>3, <1>4, <1>5, CloseTable
<1>7. PICK r \in ThreadStates :
        /\ r.pc = "ended" /\ r.fd = f /\ r.meant = thread[t].meant /\ r.buf = <<>>
        /\ thread' = [thread EXCEPT ![t] = r] /\ thread' \in [Threads -> ThreadStates]
  <2>1. PICK r : r = [thread[t] EXCEPT !.pc = "ended"]
    OBVIOUS
  <2>2. thread' = [thread EXCEPT ![t] = r]
    BY <1>1, <1>2, <2>1
  <2>3. /\ r \in ThreadStates /\ r.fd = f /\ r.meant = thread[t].meant /\ r.buf = <<>>
        /\ r.pc = "ended"
    BY <1>1, <1>2, <1>3, <2>1 DEF ThreadStates, AtWork
  <2> QED BY <1>2, <2>2, <2>3
<1>8. Typed'
  BY <1>0, <1>1, <1>5, <1>6, <1>7, StaysTyped DEF Typed
<1>9. Owned' /\ \A fd \in Fds : Misled(fd)' <=> Misled(fd)
  <2>1. Len(r.buf) <= BufLen
    BY <1>2, <1>7, EmptySeq
  <2>2. file'[f] = "free" /\ \A fd \in Fds : fd # f => file'[fd] = file[fd]
    BY <1>2, <1>4
  <2>3. /\ \A fd \in Fds : fd # f => file'[fd] = file[fd]
        /\ \A q \in Peers : q # file[f] =>
             read'[q] = read[q] /\ got'[q] = got[q] /\ peer'[q] = peer[q]
        /\ thread[t].pc \in {"recv", "send", "error", "close"}
        /\ r.pc \in {"recv", "send", "error", "close", "ended"}
        /\ r.pc # "send" => r.buf = <<>>
        /\ UNCHANGED <<program, sent, clientfd>> /\ (alive' => alive)
    BY <1>1, <1>7, <2>2
  <2>4. ~Misled(f) =>
           \/ r.pc = "ended" /\ file'[f] = "free"
           \/ /\ r.pc # "ended" /\ file'[f] = file[f]
              /\ Open(f)' => got'[file[f]] \o r.buf = Bytes(file[f], read'[file[f]])
              /\ r.pc = "close" =>
                   peer'[file[f]] # "open" /\ read'[file[f]] = sent[file[f]]
              /\ r.pc = "error" => peer'[file[f]] = "dead"
    BY <1>7, <2>2
  <2>5. Turned(t, f, r)
    BY <1>3, <1>7, <2>1, <2>3, <2>4 DEF Turned
  <2> QED BY <2>5, ThreadTurn
<1>10. Told'
  <2>1. \A q \in Peers : read[q] <= read'[q] /\ read'[q] \in Nat
    BY <1>0, <1>1 DEF Typed
  <2> QED BY <1>0, <1>1, <1>9, <2>1, SameTold
<1> QED BY <1>0, <1>1, <1>6, <1>8, <1>9, <1>10, ThreadsOthers DEF ServersInv

-----------------------------------------------------------------------------
(* The servers and their peers *)

LEMMA ServersStart ==
  ASSUME Init
  PROVE  ServersInv
<1>1. PICK s \in Settings : kind = s.kind /\ room = s.room /\ bytes = s.bytes
  BY DEF Init, SocketsInit
<1>2. /\ kind \in Programs /\ room \in Nat \ {0}
      /\ DOMAIN bytes \subseteq Peers /\ \A p \in DOMAIN bytes : bytes[p] \in Nat
  BY <1>1, SettingsKnown
<1>3. /\ alive = TRUE /\ fresh = {}
      /\ file = [fd \in Fds |-> IF fd < ListenFd THEN "std"
                                ELSE IF fd = ListenFd THEN "listen"
                                ELSE IF fd <= Reserved THEN "epoll" ELSE "free"]
      /\ interest = [fd \in Fds |-> IF fd = ListenFd THEN "in" ELSE "none"]
      /\ conn = [p \in Peers |-> "none"] /\ peer = [p \in Peers |-> "new"]
      /\ sent = [p \in Peers |-> 0] /\ read = [p \in Peers |-> 0] /\ got = [p \in Peers |-> <<>>]
      /\ rbuf = [fd \in Fds |-> <<>>] /\ wbuf = [fd \in Fds |-> <<>>]
      /\ clientfd = None /\ maxfd = ListenFd /\ index = 0
      /\ thread = [t \in Threads |-> [pc |-> "none", fd |-> None, meant |-> None, buf |-> <<>>]]
  BY DEF Init, SocketsInit, BuffersInit, MemoryInit
<1>4. /\ Reserved \in {3, 4} /\ ListenFd = 3 /\ Fds = 0 .. Reserved + room
      /\ kind \notin EpollKinds => Reserved = 3
  BY DEF Reserved, EpollFd, ListenFd, Fds
<1>5. /\ batch \subseteq Fds \X {"in", "out", "edge"}
      /\ kind # "poll" => batch = {}
  <2>1. CASE kind = "poll"
    <3>1. batch \subseteq (ListenFd + 1 .. ListenFd + room) \X {"in"}
      BY <2>1 DEF Init, SocketsInit
    <3>2. ListenFd + 1 .. ListenFd + room \subseteq Fds
      BY <1>2, <1>4
    <3> QED BY <2>1, <3>1, <3>2
  <2>2. CASE kind # "poll"
    BY <2>2 DEF Init, SocketsInit
  <2> QED BY <2>1, <2>2
<1>6. <<>> \in Seq(Data) /\ Len(<<>>) = 0
  BY EmptySeq
<1>7. ListenFd \in Fds
  BY <1>2, <1>4
<1>8. Typed
  <2>1. file \in [Fds -> Files \cup Peers] /\ interest \in [Fds -> Interests]
    BY <1>3 DEF Files, Interests
  <2>2. conn \in [Peers -> Sides] /\ peer \in [Peers -> PeerStates]
    BY <1>3 DEF Sides, PeerStates
  <2>3. thread \in [Threads -> ThreadStates]
    BY <1>3, <1>6 DEF ThreadStates
  <2>4. /\ sent \in [Peers -> Nat] /\ read \in [Peers -> Nat] /\ got \in [Peers -> Seq(Data)]
        /\ rbuf \in [Fds -> Seq(Data)] /\ wbuf \in [Fds -> Seq(Data)]
        /\ \A p \in Peers : read[p] <= sent[p]
    BY <1>3, <1>6
  <2> QED BY <1>2, <1>3, <1>5, <1>7, <2>1, <2>2, <2>3, <2>4 DEF Typed
<1>9. \A fd \in Fds : file[fd] \notin Peers
  BY <1>3, PeersAreNoFiles DEF Files
<1>10. Table
  <2>1. Registered
    BY <1>3, <1>7 DEF Registered
  <2>2. kind # "edge" =>
          \A fd \in Fds : fd <= Reserved =>
            file[fd] = IF fd < ListenFd THEN "std" ELSE IF fd = ListenFd THEN "listen" ELSE "epoll"
    BY <1>3
  <2> QED BY <1>3, <1>9, <2>1, <2>2 DEF Table, Placed, Known
<1>11. Told
  BY <1>3, <1>6, NoBytes DEF Told
<1>12. None \notin Fds
  BY <1>8, FdFacts
<1>13. BufLen \in Nat
  BY <1>8, FdFacts
<1>14. Buffers
  <2>1. ASSUME NEW fd \in Fds
        PROVE  Buffered(fd)
    BY <1>3, <1>6, <1>9, <1>13 DEF Buffered, Open
  <2> QED BY <1>5, <2>1 DEF Buffers
<1>15. AtOnce
  <2>1. Counted
    <3>1. Cardinality(Fds) \in Nat
      BY <1>8, FdFacts, FS_CardinalityType
    <3>2. kind = "edge" => IsFiniteSet(batch) /\ Cardinality(batch) = 0
      BY <1>5, FS_EmptySet
    <3> QED BY <1>3, <3>1, <3>2 DEF Counted
  <2> QED BY <1>3, <1>9, <1>12, <2>1 DEF AtOnce, Open
<1>16. InOrder
  <2>1. CASE kind \in {"select", "poll"}
    <3>1. Reserved = 3 /\ maxfd = 3 /\ maxfd # None /\ ListenFd = 3
      BY <1>3, <1>4, <2>1 DEF EpollKinds, None
    <3>2. \A fd \in Fds : file[fd] = "free" <=> fd > maxfd
      BY <1>2, <1>3, <1>4, <3>1
    <3> QED BY <3>1, <3>2 DEF InOrder
  <2>2. CASE kind \notin {"select", "poll"}
    BY <2>2 DEF InOrder
  <2> QED BY <2>1, <2>2
<1>17. Owned
  <2>1. \A t \in Threads : AtWork(t)
    BY <1>3, <1>6, <1>13 DEF AtWork
  <2>2. ASSUME NEW fd \in Fds
        PROVE  Minded(fd)
    BY <1>3, <1>9, <1>12 DEF Minded, Meant, Open
  <2> QED BY <1>3, <2>1, <2>2 DEF Owned
<1> QED BY <1>8, <1>10, <1>11, <1>14, <1>15, <1>16, <1>17 DEF ServersInv

LEMMA ServersStep ==
  ASSUME ServersInv, [Next]_vars
  PROVE  ServersInv'
<1>1. CASE Loop
  BY <1>1, LoopStep
<1>2. CASE MultiIOMain
  <2>1. Main /\ UNCHANGED buffers
    BY <1>2 DEF MultiIOMain
  <2>2. CASE BlockingEcho \/ BlockingClose \/ \E p \in Peers : BlockingAccept(p)
    BY <2>1, <2>2, BlockingStep
  <2>3. CASE MainAcceptFails
    BY <2>1, <2>3, MainAcceptFailsStep
  <2>4. CASE \E p \in Peers : MainAccept(p)
    BY <2>1, <2>4, MainAcceptStep
  <2>5. CASE \/ Select \/ SelectAccept \/ Poll \/ PollAccept
             \/ \E fd \in Fds : SelectServe(fd) \/ PollServe(fd)
    BY <2>1, <2>5, SelectPollStep
  <2>6. CASE \/ EdgeWait \/ EdgeAcceptFails
             \/ \E p \in Peers : EdgeAccept(p)
             \/ \E fd \in Fds : EdgeHangup(fd) \/ EdgeEcho(fd)
    BY <2>1, <2>6, EdgeStep
  <2> QED BY <2>1, <2>2, <2>3, <2>4, <2>5, <2>6 DEF Main
<1>3. ASSUME NEW t \in Threads, MultiIOThread(t)
      PROVE  ServersInv'
  <2>1. Thread(t) /\ UNCHANGED buffers
    BY <1>3 DEF MultiIOThread
  <2>2. kind = "threads"
    <3>1. thread[t].pc # "none"
      BY <2>1 DEF Thread, ThreadStart, ThreadRecv, ThreadSend, ThreadError, ThreadClose, Proceed
    <3> QED BY <3>1 DEF ServersInv, AtOnce
  <2> QED BY <2>1, <2>2, ThreadStartStep, ThreadRecvStep, ThreadSendStep, ThreadErrorStep,
             ThreadCloseStep DEF Thread
<1>4. ASSUME NEW p \in Peers, Move(p), UNCHANGED <<buffers, memory>>
      PROVE  ServersInv'
  BY <1>4, MoveStep
<1>5. CASE UNCHANGED vars
  <2>1. /\ UNCHANGED <<program, alive, file, interest, batch, fresh, conn, peer, sent, read, got>>
        /\ UNCHANGED <<rbuf, wbuf, clientfd, maxfd, index, thread, buffers, memory>>
    BY <1>5 DEF vars, sockets, table, buffers, memory
  <2>2. Typed /\ Table /\ Told /\ Buffers /\ AtOnce /\ InOrder /\ Owned
    BY DEF ServersInv
  <2>3. Typed'
    BY <2>1, <2>2, StaysTyped DEF Typed
  <2>4. Table'
    <3>1. Registered'
      BY <2>1, <2>2, SameProgram DEF Table, Registered
    <3>2. \A q \in Peers : conn[q] # "none" => peer[q] # "new"
      BY <2>2 DEF Table, Known
    <3> QED BY <2>1, <2>2, <3>1, <3>2, KeepsTable
  <2>5. Told'
    BY <2>1, <2>2, SameProgram DEF Told, Misled
  <2>6. Buffers' /\ AtOnce' /\ InOrder' /\ Owned'
    BY <2>1, <2>2, KeepsServers
  <2> QED BY <2>3, <2>4, <2>5, <2>6 DEF ServersInv
<1> QED BY <1>1, <1>2, <1>3, <1>4, <1>5 DEF Next

\* The servers' state agrees with what was exchanged, whichever server runs and
\* whatever its peers do.
THEOREM ServersInvariant == Spec => []ServersInv
<1>1. Init => ServersInv
  BY ServersStart
<1>2. ServersInv /\ [Next]_vars => ServersInv'
  BY ServersStep
<1> QED BY <1>1, <1>2, PTL DEF Spec

LEMMA TypesFollow ==
  ASSUME ServersInv
  PROVE  TypeOK
<1>0. Typed /\ Table /\ Buffers /\ AtOnce /\ Owned /\ BufLen \in Nat
  BY FdFacts DEF ServersInv
<1>1. SocketsTypeOK
  <2>1. ASSUME NEW p \in Peers
        PROVE  /\ sent[p] \in Nat /\ (sent[p] > 0 => sent[p] <= bytes[p])
               /\ read[p] \in 0 .. sent[p]
    <3>1. sent[p] \in Nat /\ read[p] \in Nat /\ read[p] <= sent[p] /\ Known(p)
      BY <1>0 DEF Typed, Table
    <3> QED BY <3>1 DEF Known
  <2>2. \A fd \in Fds : file[fd] \in Files \cup Peers
    BY <1>0 DEF Typed
  <2> QED BY <1>0, <2>1, <2>2 DEF SocketsTypeOK, Typed, Interests, Sides, PeerStates
<1>2. ASSUME NEW fd \in Fds
      PROVE  Len(rbuf[fd]) <= BufLen /\ Len(wbuf[fd]) <= BufLen
  BY <1>0, EmptySeq DEF Buffers, Buffered, AtOnce
<1>3. {clientfd, maxfd} \subseteq Fds \cup {None}
  BY <1>0 DEF Typed
<1>4. index \in 0 .. Cardinality(Fds)
  <2>1. Cardinality(Fds) \in Nat /\ index \in Nat /\ Counted
    BY <1>0, FdFacts, FS_CardinalityType DEF Typed, AtOnce
  <2>2. kind = "edge" => Cardinality(batch) \in Nat
    BY <2>1, FS_CardinalityType DEF Counted
  <2> QED BY <2>1, <2>2 DEF Counted
<1>5. ASSUME NEW t \in Threads
      PROVE  /\ thread[t].pc \in {"none", "born", "recv", "send", "error", "close", "ended"}
             /\ {thread[t].fd, thread[t].meant} \subseteq Fds \cup {None}
             /\ Len(thread[t].buf) <= BufLen
  <2>1. thread[t] \in ThreadStates
    BY <1>0 DEF Typed
  <2>2. Len(thread[t].buf) <= BufLen
    BY <1>0, EmptySeq DEF Owned, AtWork, AtOnce
  <2> QED BY <2>1, <2>2 DEF ThreadStates
<1> QED BY <1>1, <1>2, <1>3, <1>4, <1>5 DEF TypeOK

LEMMA AnswersFollow ==
  ASSUME ServersInv
  PROVE  AnswersMatch
<1>0. Typed /\ Table /\ Told /\ Buffers /\ AtOnce /\ Owned
  BY DEF ServersInv
<1>1. ASSUME NEW p \in Peers, kind # "http", ~(\E fd \in Fds : Misled(fd))
      PROVE  IsPrefix(got[p], Bytes(p, read[p]))
  <2>1. /\ got[p] \in Seq(Data) /\ read[p] \in Nat /\ Len(got[p]) <= read[p]
        /\ got[p] = Bytes(p, Len(got[p]))
    BY <1>0, <1>1 DEF Typed, Told
  <2>2. PICK n \in Nat : n = Len(got[p])
    BY <2>1, LenProperties
  <2>3. IsPrefix(Bytes(p, n), Bytes(p, read[p]))
    BY <2>1, <2>2, BytesPrefix
  <2> QED BY <2>1, <2>2, <2>3
<1>2. ASSUME NEW fd \in Fds, Open(fd)
      PROVE  /\ kind # "http" /\ ~Misled(fd) =>
                  got[file[fd]] \o Unsent(fd) = Bytes(file[fd], read[file[fd]])
             /\ kind = "http" => /\ rbuf[fd] = Bytes(file[fd], read[file[fd]])
                                 /\ Len(got[file[fd]] \o Unsent(fd)) <= read[file[fd]]
  <2>1. file[fd] \in Peers /\ got[file[fd]] \in Seq(Data) /\ kind \in Programs
    BY <1>0, <1>2 DEF Open, Typed
  <2>2. CASE kind = "echo"
    BY <1>0, <1>2, <2>2 DEF Buffers, Buffered
  <2>3. CASE kind = "http"
    <3>1. /\ Buffered(fd) /\ wbuf[fd] \in Seq(Data) /\ Unsent(fd) \in Seq(Data)
      BY <1>0, <2>3, EmptySeq DEF Buffers, Typed, Unsent
    <3>2. Len(got[file[fd]] \o Unsent(fd)) = Len(got[file[fd]]) + Len(Unsent(fd))
      BY <2>1, <3>1, ConcatProperties
    <3> QED BY <1>2, <2>1, <2>3, <3>1, <3>2 DEF Buffered
  <2>4. CASE kind \in Direct
    <3>1. OwnersOf(fd) = {}
      BY <1>0, <2>4 DEF AtOnce, OwnersOf, Direct
    <3>2. Unsent(fd) = <<>> /\ got[file[fd]] = Bytes(file[fd], read[file[fd]])
      BY <1>0, <1>2, <2>4, <3>1 DEF Unsent, Direct, AtOnce
    <3> QED BY <2>1, <2>4, <3>2, ConcatEmptySeq DEF Direct
  <2>5. CASE kind = "threads" /\ ~Misled(fd)
    <3>1. Owing(fd)
      BY <1>0, <1>2, <2>5 DEF Owned, Minded
    <3>2. CASE OwnersOf(fd) = {}
      <4>1. Unsent(fd) = <<>>
        BY <2>5, <3>2 DEF Unsent
      <4> QED BY <2>1, <2>5, <3>1, <3>2, <4>1, ConcatEmptySeq DEF Owing
    <3>3. CASE OwnersOf(fd) # {}
      <4>1. PICK t \in OwnersOf(fd) : t = CHOOSE u \in OwnersOf(fd) : TRUE
        BY <3>3
      <4>2. Unsent(fd) = thread[t].buf
        BY <2>5, <3>3, <4>1 DEF Unsent
      <4> QED BY <2>5, <3>1, <4>2 DEF Owing
    <3> QED BY <3>2, <3>3
  <2>6. CASE kind = "threads" /\ Misled(fd)
    BY <2>6
  <2> QED BY <2>1, <2>2, <2>3, <2>4, <2>5, <2>6 DEF Programs, EpollKinds, Direct
<1> QED BY <1>1, <1>2, TypesFollow DEF AnswersMatch, Open

LEMMA EventsFollow ==
  ASSUME ServersInv
  PROVE  EventsAreCurrent
<1> SUFFICES ASSUME kind \in {"echo", "http"}, alive
             PROVE  EventsAreCurrent
  BY DEF EventsAreCurrent
<1>0. Typed /\ Table /\ Buffers
  BY DEF ServersInv
<1>1. ASSUME NEW fd \in Fds
      PROVE  /\ file[fd] \in Peers <=> interest[fd] # "none" /\ fd # ListenFd
             /\ file[fd] \in Peers /\ kind = "echo" /\ peer[file[fd]] # "dead" =>
                  (interest[fd] = "out" <=> Len(got[file[fd]]) < read[file[fd]])
  <2>1. Buffered(fd)
    BY <1>0 DEF Buffers
  <2>2. ASSUME file[fd] \in Peers, kind = "echo", peer[file[fd]] # "dead"
        PROVE  interest[fd] = "out" <=> Len(got[file[fd]]) < read[file[fd]]
    <3>1. PICK p \in Peers : p = file[fd]
      BY <2>2
    <3>2. PICK g \in Seq(Data), n \in Nat : g = got[p] /\ n = read[p]
      BY <1>0 DEF Typed
    <3>3. PICK u \in Seq(Data) : u = Unsent(fd)
      BY <1>0, EmptySeq DEF Unsent, Typed
    <3>4. Open(fd) /\ g \o u = Bytes(p, n)
      BY <2>1, <2>2, <3>1, <3>2, <3>3 DEF Buffered, Open
    <3>5. Len(g) < n <=> u # <<>>
      BY <3>4, RestIsSome
    <3>6. u # <<>> <=> interest[fd] = "out"
      BY <2>1, <2>2, <3>3, <3>4 DEF Unsent, Buffered
    <3> QED BY <3>1, <3>2, <3>5, <3>6
  <2> QED BY <2>1, <2>2 DEF Buffered
<1>2. \A e \in batch : interest[e[1]] = e[2]
  BY <1>0 DEF Buffers
<1>3. \A p \in Peers : conn[p] = "accepted" => \E fd \in Fds : file[fd] = p
  BY <1>0 DEF Table, Known
<1> QED BY <1>1, <1>2, <1>3 DEF EventsAreCurrent

\* Servers.AnswersMatch: whichever server it is, a peer gets back what it sent, in
\* order and nothing of another's, and what was received and not sent back yet
\* waits in the buffer of its own connection (recv_cb, send_cb, client_thread).
THEOREM EveryAnswerMatches == Spec => []AnswersMatch
BY ServersInvariant, AnswersFollow, PTL

\* Servers.EventsAreCurrent: no event that epoll_wait has listed is stale when
\* its turn comes, whatever the handlers before it closed or accepted, and a
\* connection is registered for output exactly while something is to be sent.
THEOREM NoEventIsStale == Spec => []EventsAreCurrent
BY ServersInvariant, EventsFollow, PTL

-----------------------------------------------------------------------------
(* Why connections are closed *)

LEMMA TakesFree ==
  ASSUME Typed, NEW p \in Peers, NEW event, TakeConnection(p, event), NEW fd \in Fds,
         file[fd] \in Peers
  PROVE  file'[fd] = file[fd]
<1>1. Min(FreeFds) \in Fds /\ file[Min(FreeFds)] = "free" /\ "free" \notin Peers
  BY Lowest, PeersAreNoFiles DEF TakeConnection, Files
<1>2. file' = [file EXCEPT ![Min(FreeFds)] = p] /\ file \in [Fds -> Files \cup Peers]
  BY DEF TakeConnection, Typed
<1> QED BY <1>1, <1>2

\* recv has returned 0, or an error, to a server that echoes at once.
LEMMA EchoedAll ==
  ASSUME Typed, AtOnce, kind \in Direct, alive, NEW fd \in Fds, file[fd] \in Peers,
         Recv(fd, BufLen), Count(fd, BufLen) <= 0
  PROVE  Finished(file[fd])
<1>1. peer[file[fd]] # "open" /\ read[file[fd]] = sent[file[fd]]
  BY HangupFacts
<1>2. peer[file[fd]] = "shut" => got[file[fd]] = Bytes(file[fd], read[file[fd]])
  BY DEF AtOnce, Open
<1> QED BY <1>1, <1>2 DEF Finished

LEMMA LoopCloses ==
  ASSUME ServersInv, Loop, NEW fd \in Fds, file[fd] \in Peers, file'[fd] # file[fd]
  PROVE  MayClose(fd)
<1>0. /\ Typed /\ Buffers /\ kind \in {"echo", "http"} /\ Serve
      /\ file \in [Fds -> Files \cup Peers]
  BY DEF ServersInv, Loop, Typed
<1>1. PICK f \in Fds : Disconnect(f)
  <2>1. ASSUME NEW p \in Peers, Accept(p)
        PROVE  FALSE
    BY <1>0, <2>1, TakesFree DEF Accept, AcceptInto
  <2>2. ASSUME NEW f \in Fds, Receive(f) \/ ReceiveError(f) \/ Reply(f)
        PROVE  FALSE
    BY <2>2 DEF Receive, ReceiveAnd, ReceiveError, Reply
  <2> QED BY <1>0, <2>1, <2>2 DEF Serve, EpollWait, AcceptFails, table
<1>2. f = fd /\ alive /\ interest[fd] = "in" /\ fd # ListenFd
  <2>1. alive /\ <<f, "in">> \in batch /\ f # ListenFd /\ file' = [file EXCEPT ![f] = "free"]
    BY <1>1 DEF Disconnect, Handle, Close
  <2>2. interest[f] = "in"
    BY <1>0, <2>1 DEF Buffers
  <2> QED BY <1>0, <2>1, <2>2
<1>3. PICK n \in Nat : n = Space(fd)
  BY <1>0, <1>2, Registers
<1>4. Recv(fd, n) /\ Count(fd, n) = 0
  BY <1>1, <1>2, <1>3 DEF Disconnect
<1>5. CASE n = 0
  BY <1>0, <1>2, <1>3, <1>5, Registers DEF MayClose
<1>6. CASE n > 0
  <2>1. peer[file[fd]] # "open" /\ read[file[fd]] = sent[file[fd]]
    BY <1>0, <1>4, <1>6, RecvFacts, CountFacts
  <2>2. ASSUME kind = "echo", peer[file[fd]] = "shut"
        PROVE  got[file[fd]] = Bytes(file[fd], read[file[fd]])
    <3>1. Buffered(fd) /\ Open(fd) /\ Unsent(fd) = <<>>
      BY <1>0, <1>2, <2>2 DEF Buffers, Open, Unsent
    <3>2. got[file[fd]] \in Seq(Data)
      BY <1>0 DEF Typed
    <3> QED BY <2>2, <3>1, <3>2, ConcatEmptySeq DEF Buffered
  <2>3. Finished(file[fd])
    BY <1>0, <2>1, <2>2 DEF Finished
  <2> QED BY <2>3 DEF MayClose
<1> QED BY <1>3, <1>5, <1>6

LEMMA MainCloses ==
  ASSUME ServersInv, MultiIOMain, NEW fd \in Fds, file[fd] \in Peers, file'[fd] # file[fd]
  PROVE  MayClose(fd)
<1>0. Typed /\ AtOnce /\ Main /\ file \in [Fds -> Files \cup Peers]
  BY DEF ServersInv, MultiIOMain, Typed
<1>1. CASE BlockingClose
  <2>1. kind = "blocking" /\ alive /\ Recv(clientfd, BufLen) /\ Count(clientfd, BufLen) <= 0
    BY <1>1 DEF BlockingClose
  <2>2. fd = clientfd /\ kind \in Direct
    BY <1>0, <2>1 DEF AtOnce, Direct
  <2> QED BY <1>0, <2>1, <2>2, EchoedAll DEF MayClose
<1>2. ASSUME NEW f \in Fds, SelectServe(f) \/ PollServe(f)
      PROVE  MayClose(fd)
  <2>1. kind \in Direct /\ alive /\ Exchange(f)
    BY <1>2 DEF SelectServe, PollServe, Turn, Handle, Direct
  <2>2. Hangup(f)
    BY <2>1 DEF Exchange, SendBack, SendError, table
  <2>3. f = fd /\ Recv(f, BufLen) /\ Count(f, BufLen) = 0
    BY <1>0, <2>2 DEF Hangup, Close
  <2> QED BY <1>0, <2>1, <2>3, EchoedAll DEF MayClose
<1>3. ASSUME NEW f \in Fds, EdgeHangup(f)
      PROVE  MayClose(fd)
  BY <1>0, <1>3 DEF EdgeHangup, EdgeTurn, MayClose
<1>4. ASSUME NEW p \in Peers, NEW event, TakeConnection(p, event)
      PROVE  FALSE
  BY <1>0, <1>4, TakesFree
<1>5. CASE SelectAccept \/ PollAccept \/
             \E p \in Peers : BlockingAccept(p) \/ MainAccept(p) \/ EdgeAccept(p)
  BY <1>4, <1>5
  DEF SelectAccept, PollAccept, Refused, Accepted, AcceptedBelow, BlockingAccept, MainAccept,
      EdgeAccept, table
<1>6. CASE \/ BlockingEcho \/ MainAcceptFails \/ Select \/ Poll \/ EdgeWait \/ EdgeAcceptFails
           \/ \E f \in Fds : EdgeEcho(f)
  BY <1>6
  DEF BlockingEcho, MainAcceptFails, Select, Poll, EdgeWait, EpollWait, EdgeAcceptFails, EdgeEcho,
      SendBack, SendError, sockets, table
<1> QED BY <1>0, <1>1, <1>2, <1>3, <1>5, <1>6 DEF Main

LEMMA ThreadCloses ==
  ASSUME ServersInv, NEW t \in Threads, MultiIOThread(t), NEW fd \in Fds, file[fd] \in Peers,
         file'[fd] # file[fd]
  PROVE  MayClose(fd)
<1>0. Typed /\ AtOnce /\ Owned /\ Thread(t) /\ file \in [Fds -> Files \cup Peers]
  BY DEF ServersInv, MultiIOThread, Typed
<1>1. ThreadClose(t)
  BY <1>0 DEF Thread, ThreadStart, ThreadRecv, ThreadSend, ThreadError, table
<1>2. thread[t].pc = "close" /\ alive /\ thread[t].fd = fd
  BY <1>0, <1>1 DEF ThreadClose, Proceed, Close
<1>3. kind = "threads"
  BY <1>0, <1>2 DEF AtOnce
<1>4. ASSUME ~Misled(fd)
      PROVE  Finished(file[fd])
  <2>1. t \in OwnersOf(fd) /\ Minded(fd) /\ AtWork(t)
    BY <1>0, <1>2, <1>3, <1>4, OneOwner DEF OwnersOf, Owned
  <2>2. peer[file[fd]] # "open" /\ read[file[fd]] = sent[file[fd]]
    BY <1>2, <2>1 DEF Minded, Knows
  <2>3. ASSUME peer[file[fd]] = "shut"
        PROVE  got[file[fd]] = Bytes(file[fd], read[file[fd]])
    <3>1. got[file[fd]] \o <<>> = Bytes(file[fd], read[file[fd]])
      BY <1>2, <2>1, <2>3 DEF Minded, Open, Owing, AtWork
    <3>2. got[file[fd]] \in Seq(Data)
      BY <1>0 DEF Typed
    <3> QED BY <3>1, <3>2, ConcatEmptySeq
  <2> QED BY <2>2, <2>3 DEF Finished
<1> QED BY <1>3, <1>4 DEF MayClose

\* Servers.ClosedForReason: no server closes a connection before its peer has
\* finished and has got back all it can read; but the web server does when its
\* buffer is full, the edge-triggered loop that of the number i, and a thread
\* that of a number which it, or another one, read in place of its own.
THEOREM NoneIsClosedEarly == Spec => ClosedForReason
<1>1. ASSUME ServersInv, [Next]_vars, NEW fd \in Fds, file[fd] \in Peers, file'[fd] # file[fd]
      PROVE  MayClose(fd)
  BY <1>1, LoopCloses, MainCloses, ThreadCloses
  DEF Next, Move, Connect, Send, Finish, Reset, vars, sockets, table
<1>2. ServersInv /\ [Next]_vars =>
        [\A fd \in Fds : file[fd] \in Peers /\ file'[fd] # file[fd] => MayClose(fd)]_vars
  BY <1>1
<1> QED BY <1>2, ServersInvariant, PTL DEF Spec, ClosedForReason

-----------------------------------------------------------------------------
(* How connections are lost from sight *)

LEMMA SameInSight ==
  ASSUME UNCHANGED <<program, file, interest, clientfd, maxfd, thread>>, NEW fd \in Fds
  PROVE  ~Loses(fd)
<1>1. /\ kind' = kind /\ file' = file /\ interest' = interest
      /\ clientfd' = clientfd /\ maxfd' = maxfd /\ thread' = thread
  BY DEF program
<1>2. OwnersOf(fd)' = OwnersOf(fd)
  BY <1>1 DEF OwnersOf
<1>3. Watches(fd)' <=> Watches(fd)
  BY <1>1, <1>2 DEF Watches
<1> QED BY <1>1, <1>3 DEF Loses

\* In multi-io.c, but for the edge-triggered loop, closing a connection leaves
\* the others in sight.
LEMMA OthersInSight ==
  ASSUME kind \in {"blocking", "select", "poll"},
         UNCHANGED <<program, clientfd, maxfd, thread>>,
         NEW fd \in Fds, file'[fd] \in Peers => file'[fd] = file[fd]
  PROVE  ~Loses(fd)
<1>1. kind' = kind /\ clientfd' = clientfd /\ maxfd' = maxfd /\ thread' = thread
  BY DEF program
<1>2. OwnersOf(fd)' = OwnersOf(fd)
  BY <1>1 DEF OwnersOf
<1>3. Watches(fd)' <=> Watches(fd)
  BY <1>1, <1>2 DEF Watches
<1> QED BY <1>3 DEF Loses

LEMMA LoopLoses ==
  ASSUME ServersInv', Loop, NEW fd \in Fds
  PROVE  ~Loses(fd)
<1>1. kind \in {"echo", "http"} /\ UNCHANGED program
  BY DEF Loop, Serve, EpollWait, Accept, AcceptInto, AcceptFails, Disconnect, Receive, ReceiveAnd,
         ReceiveError, Reply, Handle
<1>2. kind' = kind /\ Fds' = Fds
  BY <1>1, SameProgram
<1>3. Buffered(fd)'
  BY <1>1, <1>2 DEF ServersInv, Buffers
<1> QED BY <1>1, <1>2, <1>3 DEF Loses, Watches, Buffered

LEMMA BlockingLoses ==
  ASSUME ServersInv', NEW fd \in Fds,
         BlockingEcho \/ BlockingClose \/ \E p \in Peers : BlockingAccept(p)
  PROVE  ~Loses(fd)
<1>1. kind = "blocking" /\ UNCHANGED program
  BY DEF BlockingEcho, BlockingClose, BlockingAccept
<1>2. kind' = kind /\ Fds' = Fds
  BY <1>1, SameProgram
<1>3. file'[fd] \in Peers <=> fd = clientfd'
  BY <1>1, <1>2 DEF ServersInv, AtOnce
<1> QED BY <1>1, <1>2, <1>3 DEF Loses, Watches

\* accept returns the lowest free descriptor: one below a connection that is
\* open was given out before.
LEMMA AcceptedLoses ==
  ASSUME ServersInv, kind \in {"select", "poll"}, UNCHANGED program,
         NEW p \in Peers, Accepted(p), NEW fd \in Fds, Loses(fd)
  PROVE  HasCause(fd)
<1>0. Typed /\ Table /\ InOrder /\ "free" \notin Peers /\ Fds \subseteq Nat /\ None \notin Fds
  BY FdFacts, PeersAreNoFiles DEF ServersInv, Typed, Files
<1>1. TakeConnection(p, "in") /\ maxfd' = Min(FreeFds) /\ kind' = kind
  BY DEF Accepted, AcceptedBelow, program
<1>2. PICK m \in Fds : /\ m = Min(FreeFds) /\ file[m] = "free" /\ m > Reserved
                       /\ file' = [file EXCEPT ![m] = p]
  BY <1>0, <1>1, TakeFacts
<1>3. file \in [Fds -> Files \cup Peers] /\ maxfd \in Fds \cup {None}
  BY <1>0 DEF Typed
<1>4. m \in Nat /\ fd \in Nat /\ ListenFd < m /\ Reserved \in Nat
  BY <1>0, <1>2, FdFacts DEF ListenFd, Reserved, EpollFd
<1>5. m < fd
  BY <1>1, <1>2, <1>4 DEF Loses, Watches
<1>6. file[fd] # "free"
  BY <1>0, <1>2, <1>3, <1>4, <1>5 DEF Loses
<1>7. \E q \in Peers : conn[q] = "closed"
  <2>1. ASSUME \A q \in Peers : conn[q] # "closed"
        PROVE  FALSE
    <3>1. maxfd # None
      BY <1>0, <1>2, <2>1 DEF InOrder, FreeFds
    <3>2. maxfd \in Nat /\ \A f \in Fds : file[f] = "free" <=> f > maxfd
      BY <1>0, <1>3, <2>1, <3>1 DEF InOrder
    <3>3. m > maxfd /\ ~(fd > maxfd)
      BY <1>2, <1>6, <3>2
    <3> QED BY <1>4, <1>5, <3>2, <3>3
  <2> QED BY <2>1
<1>8. AcceptsBelow(fd)
  BY <1>1, <1>2, <1>3, <1>4, <1>5, <1>7 DEF AcceptsBelow
<1> QED BY <1>8 DEF HasCause

LEMMA SelectPollLoses ==
  ASSUME ServersInv, NEW fd \in Fds, Loses(fd),
         \/ Select \/ SelectAccept \/ Poll \/ PollAccept
         \/ \E f \in Fds : SelectServe(f) \/ PollServe(f)
  PROVE  HasCause(fd)
<1>1. kind \in {"select", "poll"} /\ UNCHANGED program
  BY DEF Select, SelectAccept, Poll, PollAccept, SelectServe, PollServe, Turn, Handle
<1>2. CASE Select \/ Poll
  BY <1>2, SameInSight DEF Select, Poll, table, memory
<1>3. CASE SelectAccept \/ PollAccept
  <2>1. Refused \/ \E p \in Peers : Accepted(p)
    BY <1>3 DEF SelectAccept, PollAccept
  <2>2. CASE Refused
    BY <1>1, <2>2 DEF Refused, HasCause, AcceptsBelow
  <2> QED BY <1>1, <2>1, <2>2, AcceptedLoses
<1>4. ASSUME NEW f \in Fds, SelectServe(f) \/ PollServe(f)
      PROVE  FALSE
  <2>1. Exchange(f) /\ UNCHANGED memory
    BY <1>4 DEF SelectServe, PollServe
  <2>2. CASE SendBack(f) \/ SendError(f)
    BY <1>1, <2>1, <2>2, SameInSight DEF SendBack, SendError, table, memory
  <2>3. CASE Hangup(f)
    <3>1. file \in [Fds -> Files \cup Peers] /\ "free" \notin Peers
      BY PeersAreNoFiles DEF ServersInv, Typed, Files
    <3>2. file' = [file EXCEPT ![f] = "free"]
      BY <2>3 DEF Hangup, Close
    <3>3. file'[fd] \in Peers => file'[fd] = file[fd]
      BY <3>1, <3>2
    <3> QED BY <1>1, <2>1, <3>3, OthersInSight DEF memory
  <2> QED BY <2>1, <2>2, <2>3 DEF Exchange
<1> QED BY <1>2, <1>3, <1>4

LEMMA EdgeLoses ==
  ASSUME ServersInv, NEW fd \in Fds, Loses(fd),
         \/ EdgeWait \/ EdgeAcceptFails
         \/ \E p \in Peers : EdgeAccept(p)
         \/ \E f \in Fds : EdgeHangup(f) \/ EdgeEcho(f)
  PROVE  HasCause(fd)
<1>0. /\ Typed /\ Table /\ AtOnce /\ {"free", "epoll"} \cap Peers = {}
      /\ file \in [Fds -> Files \cup Peers] /\ interest \in [Fds -> Interests]
  BY PeersAreNoFiles DEF ServersInv, Typed, Files
<1>1. kind = "edge" /\ kind' = kind /\ UNCHANGED <<program, clientfd, maxfd, thread>>
  BY DEF EdgeWait, EdgeAcceptFails, EdgeAccept, EdgeHangup, EdgeEcho, EdgeTurn, Handle, EpollWait,
         program
<1>2. EpollFd \in Fds
  BY <1>0, <1>1, FdFacts DEF Reserved, EpollKinds
<1>3. OwnersOf(fd)' = OwnersOf(fd)
  BY <1>1 DEF OwnersOf
\* It was in sight, and the epoll set or its registration is gone.
<1>4. ASSUME file'[fd] = file[fd], file'[EpollFd] = "epoll"
      PROVE  file[EpollFd] # "epoll" \/ interest'[fd] # interest[fd]
  BY <1>1, <1>3, <1>4 DEF Loses, Watches
<1>5. CASE EdgeWait \/ EdgeAcceptFails \/ \E f \in Fds : EdgeEcho(f)
  BY <1>1, <1>5, SameInSight
  DEF EdgeWait, EdgeAcceptFails, EdgeEcho, SendBack, SendError, EpollWait, table
<1>6. ASSUME NEW p \in Peers, EdgeAccept(p), file'[EpollFd] = "epoll"
      PROVE  FALSE
  <2>1. PICK event \in {"in", "edge", "none"} :
          /\ event = IF file[EpollFd] = "epoll" THEN "edge" ELSE "none"
          /\ TakeConnection(p, event)
    BY <1>6 DEF EdgeAccept
  <2>2. PICK m \in Fds : /\ file[m] = "free" /\ file' = [file EXCEPT ![m] = p]
                         /\ interest' = [interest EXCEPT ![m] = event]
    BY <1>0, <1>1, <2>1, TakeFacts
  <2>3. file[EpollFd] = "epoll"
    BY <1>0, <1>2, <1>6, <2>2
  <2>4. fd # m
    BY <1>0, <1>1, <1>6, <2>1, <2>2, <2>3 DEF Loses, Watches
  <2> QED BY <1>0, <1>4, <1>6, <2>2, <2>3, <2>4
<1>7. ASSUME NEW f \in Fds, EdgeHangup(f), file'[EpollFd] = "epoll"
      PROVE  file[fd] \in Peers /\ Finished(file[fd])
  <2>1. /\ alive /\ Recv(f, BufLen) /\ Count(f, BufLen) = 0
        /\ file' = [file EXCEPT ![index] = "free"]
        /\ interest' = [interest EXCEPT ![f] = "none", ![index] = "none"]
    BY <1>7 DEF EdgeHangup, EdgeTurn, Handle
  <2>2. fd # index /\ file'[fd] = file[fd] /\ file[fd] \in Peers
    BY <1>0, <2>1 DEF Loses
  <2>3. file[EpollFd] = "epoll"
    BY <1>0, <1>2, <1>7, <2>1
  <2>4. fd = f
    BY <1>0, <1>4, <1>7, <2>1, <2>2, <2>3
  <2> QED BY <1>0, <1>1, <2>1, <2>2, <2>4, EchoedAll DEF Direct
<1> QED BY <1>1, <1>5, <1>6, <1>7 DEF HasCause

\* A thread that is at work on another descriptor, or stays at work, takes
\* nothing from sight.
LEMMA StillAtWork ==
  ASSUME kind = "threads", UNCHANGED <<program, clientfd>>, NEW t \in Threads, NEW fd \in Fds,
         thread[t].pc \in {"recv", "send", "error", "close"},
         \A u \in Threads : u # t => thread'[u] = thread[u],
         thread'[t].fd = thread[t].fd,
         thread'[t].pc \in {"recv", "send", "error", "close"} \/ thread[t].fd # fd,
         file'[fd] \in Peers => file'[fd] = file[fd]
  PROVE  ~Loses(fd)
<1>1. kind' = kind /\ clientfd' = clientfd
  BY DEF program
<1>2. OwnersOf(fd) \subseteq OwnersOf(fd)'
  BY DEF OwnersOf
<1>3. \A u \in Threads : thread[u].pc = "born" => thread'[u].pc = "born"
  OBVIOUS
<1>4. Watches(fd) => Watches(fd)'
  BY <1>1, <1>2, <1>3 DEF Watches
<1> QED BY <1>4 DEF Loses

LEMMA MainThreadLoses ==
  ASSUME ServersInv, NEW fd \in Fds, Loses(fd), MainAcceptFails \/ \E p \in Peers : MainAccept(p)
  PROVE  HasCause(fd)
<1>0. /\ Typed /\ Table /\ Owned /\ "free" \notin Peers /\ None \notin Fds
      /\ file \in [Fds -> Files \cup Peers] /\ thread \in [Threads -> ThreadStates]
  BY FdFacts, PeersAreNoFiles DEF ServersInv, Typed, Files
<1>1. kind = "threads" /\ kind' = kind /\ UNCHANGED program
  BY DEF MainAccept, MainAcceptFails, sockets, program
<1>2. PICK c \in Fds \cup {None} :
        /\ clientfd' = c /\ Create(c)
        /\ c = fd => file[fd] = "free"
        /\ c # fd => file'[fd] = file[fd]
  <2>1. CASE MainAcceptFails
    BY <1>0, <2>1 DEF MainAcceptFails, sockets, table
  <2>2. ASSUME NEW p \in Peers, MainAccept(p)
        PROVE  \E c \in Fds \cup {None} :
                 /\ clientfd' = c /\ Create(c)
                 /\ c = fd => file[fd] = "free"
                 /\ c # fd => file'[fd] = file[fd]
    <3>1. TakeConnection(p, "in") /\ clientfd' = Min(FreeFds) /\ Create(clientfd')
      BY <2>2 DEF MainAccept
    <3>2. PICK m \in Fds : /\ m = Min(FreeFds) /\ file[m] = "free"
                           /\ file' = [file EXCEPT ![m] = p]
      BY <1>0, <1>1, <3>1, TakeFacts
    <3> QED BY <1>0, <3>1, <3>2
  <2> QED BY <2>1, <2>2
<1>3. OwnersOf(fd)' = OwnersOf(fd)
  BY <1>0, <1>1, <1>2, CreateFacts
<1>4. OwnersOf(fd) = {}
  BY <1>3 DEF Loses, Watches
<1>5. CASE c = fd
  <2>1. ASSUME Unused # {}
        PROVE  FALSE
    <3>1. PICK u \in Unused : u = CHOOSE v \in Unused : TRUE
      BY <2>1
    <3>2. thread' = [thread EXCEPT ![u] = [@ EXCEPT !.pc = "born", !.meant = c]]
      BY <1>2, <2>1, <3>1 DEF Create
    <3>3. u \in Threads /\ thread'[u].pc = "born"
      BY <1>0, <3>2 DEF Unused, ThreadStates
    <3> QED BY <1>2, <1>5, <3>3 DEF Loses, Watches
  <2> QED BY <1>1, <1>2, <1>5, <2>1 DEF HasCause
<1>6. CASE c # fd
  <2>1. Watches(fd)
    BY <1>2, <1>6 DEF Loses
  <2>2. clientfd = fd
    BY <1>1, <1>4, <2>1 DEF Watches
  <2> QED BY <1>1, <1>2, <1>4, <1>6, <2>2 DEF HasCause
<1> QED BY <1>5, <1>6

LEMMA ThreadLoses ==
  ASSUME ServersInv, NEW t \in Threads, MultiIOThread(t), NEW fd \in Fds
  PROVE  ~Loses(fd)
<1>0. /\ Typed /\ AtOnce /\ Thread(t) /\ "free" \notin Peers
      /\ file \in [Fds -> Files \cup Peers] /\ thread \in [Threads -> ThreadStates]
  BY PeersAreNoFiles DEF ServersInv, MultiIOThread, Typed, Files
<1>1. /\ UNCHANGED <<program, clientfd>> /\ kind' = kind
      /\ thread[t].pc \in {"born", "recv", "send", "error", "close"}
  BY <1>0 DEF Thread, ThreadStart, ThreadRecv, ThreadSend, ThreadError, ThreadClose, Proceed, program
<1>2. kind = "threads"
  BY <1>0, <1>1 DEF AtOnce
<1>3. CASE ThreadStart(t)
  <2>1. /\ file' = file
        /\ thread' = [thread EXCEPT ![t].pc = "recv", ![t].fd = clientfd]
        /\ thread[t].pc = "born"
    BY <1>3 DEF ThreadStart, Proceed, table
  <2>2. OwnersOf(fd) \subseteq OwnersOf(fd)' /\ (clientfd = fd => t \in OwnersOf(fd)')
    BY <1>0, <2>1 DEF OwnersOf, ThreadStates
  <2>3. Watches(fd) => Watches(fd)'
    BY <1>1, <1>2, <2>2 DEF Watches
  <2> QED BY <2>1, <2>3 DEF Loses
<1>4. CASE ThreadRecv(t)
  <2>1. PICK pc \in {"send", "close", "error"} :
          \E b : thread' = [thread EXCEPT ![t].pc = pc, ![t].buf = b]
    BY <1>4 DEF ThreadRecv
  <2>2. file' = file /\ thread[t].pc = "recv"
    BY <1>4 DEF ThreadRecv, Proceed, table
  <2>3. thread'[t].pc = pc /\ thread'[t].fd = thread[t].fd
    BY <1>0, <2>1 DEF ThreadStates
  <2> QED BY <1>0, <1>1, <1>2, <2>1, <2>2, <2>3, StillAtWork
<1>5. CASE ThreadSend(t) \/ ThreadError(t)
  <2>1. PICK b : thread' = [thread EXCEPT ![t].pc = "recv", ![t].buf = b]
    <3>1. CASE ThreadSend(t)
      BY <3>1 DEF ThreadSend
    <3>2. CASE ThreadError(t)
      <4>1. thread' = [thread EXCEPT ![t].pc = "recv"]
        BY <3>2 DEF ThreadError, Goto
      <4>2. thread' = [thread EXCEPT ![t].pc = "recv", ![t].buf = thread[t].buf]
        BY <1>0, <4>1 DEF ThreadStates
      <4> QED BY <4>2
    <3> QED BY <1>5, <3>1, <3>2
  <2>2. file' = file /\ thread[t].pc \in {"send", "error"}
    BY <1>5 DEF ThreadSend, ThreadError, Proceed, table
  <2>3. thread'[t].pc = "recv" /\ thread'[t].fd = thread[t].fd
    BY <1>0, <2>1 DEF ThreadStates
  <2> QED BY <1>0, <1>1, <1>2, <2>1, <2>2, <2>3, StillAtWork
<1>6. CASE ThreadClose(t)
  <2>1. /\ thread' = [thread EXCEPT ![t].pc = "ended"] /\ thread[t].pc = "close"
        /\ file' = [file EXCEPT ![thread[t].fd] = "free"]
    BY <1>6 DEF ThreadClose, Proceed, Goto, Close
  <2>2. thread'[t].fd = thread[t].fd
    BY <1>0, <2>1 DEF ThreadStates
  <2>3. CASE thread[t].fd = fd
    BY <1>0, <2>1, <2>3 DEF Loses
  <2>4. CASE thread[t].fd # fd
    BY <1>0, <1>1, <1>2, <2>1, <2>2, <2>4, StillAtWork
  <2> QED BY <2>3, <2>4
<1> QED BY <1>0, <1>3, <1>4, <1>5, <1>6 DEF Thread

\* Servers.LossHasCause: reactor.c, webserver.c and the blocking server never
\* lose sight of an open connection; select and poll only when accept fails or
\* returns a number below it that was closed before, the threads only when main
\* cannot create one or overwrites clientfd, the edge-triggered loop only when
\* close(i) hits the epoll set or spares a connection that has finished.
THEOREM NoneIsLostOtherwise == Spec => LossHasCause
<1>1. ASSUME ServersInv, [Next]_vars, NEW fd \in Fds, Loses(fd)
      PROVE  HasCause(fd)
  <2>0. ServersInv'
    BY <1>1, ServersStep
  <2>1. CASE Loop
    BY <1>1, <2>0, <2>1, LoopLoses
  <2>2. CASE MultiIOMain
    BY <1>1, <2>0, <2>2, BlockingLoses, SelectPollLoses, EdgeLoses, MainThreadLoses
    DEF MultiIOMain, Main
  <2>3. CASE \E t \in Threads : MultiIOThread(t)
    BY <1>1, <2>3, ThreadLoses
  <2>4. CASE \/ UNCHANGED vars
             \/ \E p \in Peers : Move(p) /\ UNCHANGED <<buffers, memory>>
    BY <1>1, <2>4, SameInSight DEF Move, Connect, Send, Finish, Reset, vars, sockets, table, memory
  <2> QED BY <1>1, <2>1, <2>2, <2>3, <2>4 DEF Next
<1>2. ServersInv /\ [Next]_vars => [\A fd \in Fds : Loses(fd) => HasCause(fd)]_vars
  BY <1>1
<1> QED BY <1>2, ServersInvariant, PTL DEF Spec, LossHasCause
=============================================================================
