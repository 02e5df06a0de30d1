------------------------------ MODULE Sockets -------------------------------
(***************************************************************************)
(* What the servers of 2_Net/2.1-epoll run on: their process's descriptor  *)
(* table, its epoll set, TCP connections, and the peers at their other     *)
(* end.  All of it is external; it is modelled as far as the servers can   *)
(* tell.  A peer makes one connection, on which it sends, stops sending,   *)
(* closes or resets at any time.  A byte is the pair of its sender and its *)
(* position.  Sends to a peer never wait for room.                         *)
(*                                                                         *)
(* kind is the server: reactor.c ("echo"), webserver.c ("http"), or one of *)
(* the five programs in multi-io.c, which its #if chooses from: "blocking", *)
(* "threads", "select", "poll" and "edge".                                 *)
(***************************************************************************)
EXTENDS Integers, Sequences, SequencesExt

CONSTANTS
  Peers,
  Settings,       \* the programs to check, each with its bounds
  BUFFER_LENGTH,  \* the buffers of reactor.c and webserver.c
  SmallBuffer     \* the buffers of multi-io.c

\* What a descriptor can refer to besides the connection to a peer
Files == {"std", "listen", "epoll", "free"}

EpollKinds == {"echo", "http", "edge"}

Programs == EpollKinds \cup {"blocking", "threads", "select", "poll"}

\* room is how many descriptors are left under the limit of the process, bytes
\* how many bytes each peer that comes sends at most, ends how they may end.
ASSUME SettingsKnown ==
  \A s \in Settings :
    /\ s.kind \in Programs /\ s.room \in Nat \ {0}
    /\ s.ends \subseteq {"shut", "gone", "reset"}
    /\ DOMAIN s.bytes \subseteq Peers /\ \A p \in DOMAIN s.bytes : s.bytes[p] \in Nat
ASSUME PeersAreNoFiles == Peers \cap Files = {}
ASSUME BuffersPositive == {BUFFER_LENGTH, SmallBuffer} \subseteq Nat \ {0}

VARIABLES
  kind,
  room,
  bytes,
  ends,
  alive,      \* whether the server process runs
  file,       \* what each descriptor refers to
  interest,   \* the event each descriptor is registered for
  batch,      \* the events of the last wait that are not handled yet
  fresh,      \* the edge-triggered descriptors with an unreported edge
  conn,       \* the server's side of each connection
  peer,       \* the peer's side of it
  sent,       \* how many bytes each peer has sent
  read,       \* how many of them the server has received
  got         \* what the server has sent to each peer

program == <<kind, room, bytes, ends>>
table == <<file, interest>>
sockets == <<program, alive, table, batch, fresh, conn, peer, sent, read, got>>

ListenFd == 3
EpollFd == 4
Reserved == IF kind \in EpollKinds THEN EpollFd ELSE ListenFd
Fds == 0 .. Reserved + room

BufLen == IF kind \in {"echo", "http"} THEN BUFFER_LENGTH ELSE SmallBuffer

SocketsInit ==
  /\ \E s \in Settings :
       /\ kind = s.kind /\ room = s.room /\ bytes = s.bytes /\ ends = s.ends
  /\ alive = TRUE
  /\ file = [fd \in Fds |-> IF fd < ListenFd THEN "std"
                            ELSE IF fd = ListenFd THEN "listen"
                            ELSE IF fd <= Reserved THEN "epoll" ELSE "free"]
  /\ interest = [fd \in Fds |-> IF fd = ListenFd THEN "in" ELSE "none"]
  /\ batch \in IF kind = "poll" THEN SUBSET ((ListenFd + 1 .. ListenFd + room) \X {"in"})
               ELSE {{}}                    \* poll's array is not initialised
  /\ fresh = {}
  /\ conn = [p \in Peers |-> "none"]
  /\ peer = [p \in Peers |-> "new"]
  /\ sent = [p \in Peers |-> 0]
  /\ read = [p \in Peers |-> 0]
  /\ got = [p \in Peers |-> <<>>]

-----------------------------------------------------------------------------
(* The peers.  A peer that has connected is "open", has "shut" its sending side, is "gone"     *)
(* after a close, has been "hit" by data after it closed, has "cut" the     *)
(* connection after its FIN, or has "reset" it before; a reset that a call  *)
(* has reported leaves the connection "dead".                               *)

Connected(p) == conn[p] \in {"backlog", "accepted"}

\* Something happens to the connection that epoll can see.
Arrive(p) ==
  fresh' = fresh \cup {fd \in Fds : file[fd] = p /\ interest[fd] = "edge"}

Connect(p) ==
  /\ peer[p] = "new" /\ p \in DOMAIN bytes
  /\ peer' = [peer EXCEPT ![p] = "open"]
  /\ conn' = [conn EXCEPT ![p] = "backlog"]
  /\ UNCHANGED <<program, alive, table, batch, fresh, sent, read, got>>

Send(p) ==
  /\ Connected(p) /\ peer[p] = "open" /\ sent[p] < bytes[p]
  /\ sent' = [sent EXCEPT ![p] = @ + 1]
  /\ Arrive(p)
  /\ UNCHANGED <<program, alive, table, batch, conn, peer, read, got>>

\* The peer stops sending, and goes on reading or not.
Finish(p) ==
  /\ Connected(p) /\ peer[p] = "open"
  /\ \E s \in {"shut", "gone"} \cap ends : peer' = [peer EXCEPT ![p] = s]
  /\ Arrive(p)
  /\ UNCHANGED <<program, alive, table, batch, conn, sent, read, got>>

Reset(p) ==
  /\ "reset" \in ends /\ Connected(p) /\ peer[p] \in {"open", "shut", "hit"}
  /\ peer' = [peer EXCEPT ![p] = IF @ = "open" THEN "reset" ELSE "cut"]
  /\ Arrive(p)
  /\ UNCHANGED <<program, alive, table, batch, conn, sent, read, got>>

Move(p) == Connect(p) \/ Send(p) \/ Finish(p) \/ Reset(p)

-----------------------------------------------------------------------------
(* The calls of the servers *)

Readable(p) == read[p] < sent[p] \/ peer[p] # "open"

\* What recv returns for len bytes of a connection that is readable.
Count(fd, len) ==
  LET p == file[fd] IN
    IF p \notin Peers THEN -1
    ELSE IF read[p] < sent[p] THEN Min({len, sent[p] - read[p]})
    ELSE IF peer[p] = "reset" THEN -1 ELSE 0

Chunk(fd, len) ==
  [j \in 1 .. Count(fd, len) |-> <<file[fd], read[file[fd]] + j>>]

\* recv on a blocking socket; an error is reported once.
Recv(fd, len) ==
  LET p == file[fd] IN
    /\ p \in Peers => Readable(p)
    /\ read' = IF Count(fd, len) > 0 THEN [read EXCEPT ![p] = @ + Count(fd, len)]
               ELSE read

\* send: SIGPIPE, which nobody handles, if the connection is known to be broken.
Write(p, data) ==
  IF peer[p] \in {"cut", "dead"} THEN alive' = FALSE /\ UNCHANGED <<peer, got>>
  ELSE /\ UNCHANGED alive
       /\ peer' = [peer EXCEPT ![p] = IF @ = "gone" THEN "hit"
                                      ELSE IF @ = "reset" THEN "dead" ELSE @]
       /\ got' = IF peer[p] = "reset" THEN got
                 ELSE [got EXCEPT ![p] = @ \o data]

\* close, and the deregistration before it
Close(fd) ==
  /\ file' = [file EXCEPT ![fd] = "free"]
  /\ interest' = [interest EXCEPT ![fd] = "none"]
  /\ fresh' = fresh \ {fd}
  /\ conn' = [p \in Peers |-> IF file[fd] = p THEN "closed" ELSE conn[p]]

FreeFds == {fd \in Fds : file[fd] = "free"}

\* accept, which returns the lowest free descriptor, and its registration.
TakeConnection(p, event) ==
  /\ conn[p] = "backlog" /\ FreeFds # {}
  /\ file' = [file EXCEPT ![Min(FreeFds)] = p]
  /\ interest' = [interest EXCEPT ![Min(FreeFds)] = event]
  /\ fresh' = IF event = "edge" /\ Readable(p) THEN fresh \cup {Min(FreeFds)} ELSE fresh
  /\ conn' = [conn EXCEPT ![p] = "accepted"]

Ready(fd) ==
  \/ fd = ListenFd /\ file[fd] = "listen" /\ \E p \in Peers : conn[p] = "backlog"
  \/ /\ file[fd] \in Peers
     /\ \/ interest[fd] = "out"
        \/ interest[fd] = "in" /\ Readable(file[fd])
        \/ fd \in fresh /\ Readable(file[fd])

Events(fds) == {<<fd, interest[fd]>> : fd \in {f \in fds : Ready(f)}}

\* epoll_wait; the order in which it lists the events is open.
EpollWait ==
  /\ alive /\ batch = {}
  /\ \E fd \in Fds : Ready(fd)
  /\ batch' = Events(Fds)
  /\ fresh' = {}
  /\ UNCHANGED <<program, alive, table, conn, peer, sent, read, got>>

\* The turn of one of the events comes.
Handle(fd, event) ==
  /\ alive
  /\ <<fd, event>> \in batch
  /\ batch' = batch \ {<<fd, event>>}
  /\ UNCHANGED <<program, sent>>

SocketsTypeOK ==
  /\ kind \in Programs /\ alive \in BOOLEAN
  /\ \A fd \in Fds : file[fd] \in Files \cup Peers
  /\ interest \in [Fds -> {"none", "in", "out", "edge"}]
  /\ batch \subseteq Fds \X {"in", "out", "edge"}
  /\ fresh \subseteq Fds
  /\ conn \in [Peers -> {"none", "backlog", "accepted", "closed"}]
  /\ peer \in [Peers -> {"new", "open", "shut", "gone", "hit", "cut", "reset", "dead"}]
  /\ \A p \in Peers : sent[p] \in Nat /\ (sent[p] > 0 => sent[p] <= bytes[p])
  /\ \A p \in Peers : read[p] \in 0 .. sent[p]
=============================================================================
