------------------------------ MODULE Servers ------------------------------
(***************************************************************************)
(* Any one of the servers of 2_Net/2.1-epoll (modules EventLoop, MultiIO)  *)
(* beside its peers (module Sockets), and what is asked of all of them.    *)
(***************************************************************************)
EXTENDS EventLoop, MultiIO

vars == <<sockets, buffers, memory>>

Init == SocketsInit /\ BuffersInit /\ MemoryInit

Loop == kind \in {"echo", "http"} /\ Serve /\ UNCHANGED memory

MultiIOMain == Main /\ UNCHANGED buffers

MultiIOThread(t) == Thread(t) /\ UNCHANGED buffers

Next ==
  \/ Loop
  \/ MultiIOMain
  \/ \E t \in Threads : MultiIOThread(t)
  \/ \E p \in Peers : Move(p) /\ UNCHANGED <<buffers, memory>>

Spec == Init /\ [][Next]_vars

\* Every thread of the server runs whenever it can; nobody makes a peer move.
FairSpec ==
  /\ Spec
  /\ WF_vars(Loop \/ MultiIOMain)
  /\ \A t \in Threads : WF_vars(MultiIOThread(t))

-----------------------------------------------------------------------------
\* The buffers stay within their lengths (recv_cb, and memcpy of rlen bytes).
TypeOK ==
  /\ SocketsTypeOK
  /\ \A fd \in Fds : Len(rbuf[fd]) <= BufLen /\ Len(wbuf[fd]) <= BufLen
  /\ {clientfd, maxfd} \subseteq Fds \cup {None}
  /\ index \in 0 .. Cardinality(Fds)
  /\ \A t \in Threads :
       /\ thread[t].pc \in {"none", "born", "recv", "send", "error", "close", "ended"}
       /\ {thread[t].fd, thread[t].meant} \subseteq Fds \cup {None}
       /\ Len(thread[t].buf) <= BufLen

Bytes(p, n) == [j \in 1 .. n |-> <<p, j>>]

\* The threads that are at work on fd
OwnersOf(fd) ==
  {t \in Threads : thread[t].fd = fd /\ thread[t].pc \in {"recv", "send", "error", "close"}}

\* A thread that was created for another connection has read the number fd.
Misled(fd) == \E t \in Threads : thread[t].fd = fd /\ thread[t].meant # fd

\* What was received on fd and is still to be sent.
Unsent(fd) ==
  IF kind \in {"echo", "http"} THEN IF interest[fd] = "out" THEN wbuf[fd] ELSE <<>>
  ELSE IF OwnersOf(fd) # {} THEN thread[CHOOSE t \in OwnersOf(fd) : TRUE].buf
  ELSE <<>>

\* A peer gets back what it sent, and nothing of another peer whose descriptor
\* it has taken over: the rest of what was received waits to be sent.  The web
\* server keeps all it received and answers each receive.  In the threads server
\* this holds of every connection but those whose number was read by a thread
\* that main had created for another one (multi-io.c:16, OwnThread).
AnswersMatch ==
  /\ TypeOK
  /\ kind # "http" /\ ~(\E fd \in Fds : Misled(fd)) =>
       \A p \in Peers : IsPrefix(got[p], Bytes(p, read[p]))
  /\ \A fd \in Fds : file[fd] \in Peers /\ alive /\ peer[file[fd]] # "dead" =>
       LET p == file[fd] IN
         /\ kind # "http" /\ ~Misled(fd) => got[p] \o Unsent(fd) = Bytes(p, read[p])
         /\ kind = "http" => /\ rbuf[fd] = Bytes(p, read[p])
                             /\ Len(got[p] \o Unsent(fd)) <= read[p]

\* In reactor.c and webserver.c every open connection is registered, for output
\* exactly while it has an answer to send, and an event that is still to be
\* handled is about the connection, and the registration, it was reported for.
EventsAreCurrent ==
  kind \in {"echo", "http"} /\ alive =>
    /\ \A fd \in Fds :
         /\ file[fd] \in Peers <=> interest[fd] # "none" /\ fd # ListenFd
         /\ file[fd] \in Peers /\ kind = "echo" /\ peer[file[fd]] # "dead" =>
              (interest[fd] = "out" <=> Len(got[file[fd]]) < read[file[fd]])
    /\ \A e \in batch : interest[e[1]] = e[2]
    /\ \A p \in Peers : conn[p] = "accepted" => \E fd \in Fds : file[fd] = p

\* p has finished, or was reset; all it sent was received and, if it still
\* reads, sent back.
Finished(p) ==
  /\ peer[p] # "open" /\ read[p] = sent[p]
  /\ peer[p] = "shut" /\ kind # "http" => got[p] = Bytes(p, sent[p])

\* Besides, webserver.c closes when rbuffer is full; the edge-triggered loop
\* whichever has the number of the event (multi-io.c:289); and the threads server
\* closes twice a number that a thread created for another has read (OwnThread).
MayClose(fd) ==
  \/ Finished(file[fd])
  \/ kind = "http" /\ read[file[fd]] = BufLen
  \/ kind = "edge" /\ fd = index
  \/ kind = "threads" /\ Misled(fd)

\* A server closes a connection only when its peer has finished and has got back
\* all it can read, but for the reasons above (recv_cb, client_thread, and the
\* loops of multi-io.c).
ClosedForReason ==
  [][\A fd \in Fds : file[fd] \in Peers /\ file'[fd] # file[fd] => MayClose(fd)]_vars

\* "每个客户端连接都由独立线程处理", each connection is served by a thread of its own
\* (multi-io.c:101): no two threads are at work on one descriptor.
OwnThread ==
  \A t, u \in Threads :
    t # u /\ thread[t].fd = thread[u].fd /\ thread[t].fd # None =>
      "ended" \in {thread[t].pc, thread[u].pc}

\* The server still looks at the connection.
Watches(fd) ==
  \/ kind \in {"echo", "http"} /\ interest[fd] # "none"
  \/ kind = "edge" /\ interest[fd] # "none" /\ file[EpollFd] = "epoll"
  \/ kind \in {"select", "poll"} /\ fd <= maxfd
  \/ kind = "blocking" /\ fd = clientfd
  \/ OwnersOf(fd) # {}
  \/ \E t \in Threads : thread[t].pc = "born" /\ clientfd = fd

\* A server stops looking at an open connection, or has just accepted one and
\* does not look at it.
Loses(fd) ==
  /\ file'[fd] \in Peers /\ ~Watches(fd)'
  /\ file[fd] = file'[fd] => Watches(fd)

\* In select and poll: accept fails for want of a descriptor, or returns a
\* number below fd, which a connection had that was closed before.  (maxfd is
\* set to what accept returns, lines 151 and 209.)
AcceptsBelow(fd) ==
  \/ maxfd' = None /\ FreeFds = {}
  \/ /\ maxfd' \in Fds /\ ListenFd < maxfd' /\ maxfd' < fd
     /\ file[maxfd'] = "free" /\ file'[maxfd'] \in Peers
     /\ \E q \in Peers : conn[q] = "closed"

\* In the threads server, an accept after which no thread can be created, or
\* which overwrites clientfd before a thread has read it; in the edge-triggered
\* loop, the close of the epoll set, or of another number than that of fd.
HasCause(fd) ==
  \/ kind \in {"select", "poll"} /\ AcceptsBelow(fd)
  \/ /\ kind = "threads"
     /\ \/ file[fd] = "free" /\ Unused = {}
        \/ clientfd = fd /\ clientfd' # fd /\ OwnersOf(fd) = {}
  \/ /\ kind = "edge"
     /\ \/ file'[EpollFd] # "epoll"
        \/ file[fd] \in Peers /\ Finished(file[fd])

\* The steps above are the only ones in which select, poll, the threads and the
\* edge-triggered loop lose a connection from sight, and reactor.c, webserver.c
\* and the blocking server never do.
LossHasCause == [][\A fd \in Fds : Loses(fd) => HasCause(fd)]_vars

\* The one thread of poll or of the edge-triggered loop believes a stale event
\* (line 215; a number that was closed and reused in the batch) and waits in
\* recv for a peer that has sent nothing, and everybody with it.
Stuck ==
  /\ kind \in {"poll", "edge"}
  /\ \E e \in batch :
       /\ e[1] > ListenFd /\ (kind = "poll" => e[1] \in Pending)
       /\ file[e[1]] \in Peers /\ ~Readable(file[e[1]])

\* The server comes back to accept: not when it has no descriptor left, nor in
\* the blocking server before the connection it has is over, nor after an accept
\* that failed has set maxfd to -1, nor after close(i) has hit the listening
\* socket or the epoll set.
Accepts ==
  /\ FreeFds # {}
  /\ kind = "blocking" => clientfd = None
  /\ kind \in {"select", "poll"} => maxfd # None
  /\ kind = "edge" => file[ListenFd] = "listen" /\ file[EpollFd] = "epoll"

\* A peer that reads is owed the echo of every byte, or the page.  From the
\* edge-triggered loop, which reads one buffer for each edge (line 282), it is
\* owed the first buffer, and one more whenever there is a new edge.
Owed(p) ==
  /\ peer[p] \in {"open", "shut"}
  /\ \/ conn[p] = "backlog" /\ Accepts
     \/ \E fd \in Fds : file[fd] = p /\ Watches(fd)
  /\ \/ kind = "http" /\ (read[p] < sent[p] \/ (read[p] > 0 /\ got[p] = <<>>))
     \/ kind = "edge" /\ Len(got[p]) < Min({sent[p], BufLen})
     \/ kind = "edge" /\ read[p] < sent[p] /\ \E fd \in fresh : file[fd] = p
     \/ kind \notin {"http", "edge"} /\ Len(got[p]) < sent[p]

\* A peer that has finished still has its descriptor.
Lingers(p) ==
  /\ kind # "edge" /\ conn[p] = "accepted" /\ peer[p] # "open"
  /\ \E fd \in Fds : file[fd] = p /\ Watches(fd)

\* While the server lives and is not stuck, a peer that it looks at, or has yet
\* to accept, gets what it is owed, whatever the others do; and when it has
\* finished its connection is closed.  Who is not looked at any more is the
\* subject of LossHasCause.
WatchedAreServed ==
  \A p \in Peers : []<>(alive /\ ~Stuck => ~Owed(p) /\ ~Lingers(p))
=============================================================================
