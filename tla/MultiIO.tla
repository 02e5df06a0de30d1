------------------------------ MODULE MultiIO -------------------------------
(***************************************************************************)
(* The five echo servers of 2_Net/2.1-epoll/multi-io.c: one connection at  *)
(* a time ("blocking"), a thread for each ("threads"), and one thread over *)
(* select, poll, or edge-triggered epoll.  What can go on beside a step of *)
(* theirs are the peers (module Sockets) and the other threads.            *)
(***************************************************************************)
EXTENDS Sockets, FiniteSets

CONSTANT Threads   \* how many threads the process can create; none is ever joined

VARIABLES
  clientfd,   \* clientfd of main (blocking, threads)
  maxfd,      \* select, poll
  index,      \* i, the position in events (edge)
  thread      \* client_thread: where it is, its descriptor, the one main
              \* created it for, and buf

memory == <<clientfd, maxfd, index, thread>>

None == -1

\* What lies in memory behind buf
Junk == <<None, None>>

MemoryInit ==
  /\ clientfd = None
  /\ maxfd = ListenFd
  /\ index = 0
  /\ thread = [t \in Threads |-> [pc |-> "none", fd |-> None, meant |-> None, buf |-> <<>>]]

\* recv, and send of what it returned
SendBack(fd) ==
  /\ Recv(fd, BufLen) /\ Count(fd, BufLen) > 0
  /\ Write(file[fd], Chunk(fd, BufLen))
  /\ UNCHANGED <<table, fresh, conn>>

\* The count -1 is passed to send, which ends the process if there was a connection.
SendError(fd) ==
  /\ Recv(fd, BufLen) /\ Count(fd, BufLen) = -1
  /\ alive' = (file[fd] \notin Peers)
  /\ UNCHANGED <<table, fresh, conn, peer, got>>

\* Faulty: the descriptor leaves the set and is not closed.
HangupLeaking(fd) ==
  /\ Recv(fd, BufLen) /\ Count(fd, BufLen) = 0
  /\ interest' = [interest EXCEPT ![fd] = "none"]
  /\ UNCHANGED <<alive, file, fresh, conn, peer, got>>

Hangup(fd) ==
  /\ Recv(fd, BufLen) /\ Count(fd, BufLen) = 0
  /\ Close(fd)
  /\ UNCHANGED <<alive, peer, got>>

Exchange(fd) == SendBack(fd) \/ SendError(fd) \/ Hangup(fd)

-----------------------------------------------------------------------------
(* Blocking: the next connection is accepted when the last is closed. *)

BlockingAccept(p) ==
  /\ alive /\ kind = "blocking" /\ clientfd = None
  /\ TakeConnection(p, "in")
  /\ clientfd' = Min(FreeFds)
  /\ UNCHANGED <<program, alive, batch, sent, peer, read, got, maxfd, index, thread>>

BlockingEcho ==
  /\ alive /\ clientfd \in Fds /\ kind = "blocking"
  /\ SendBack(clientfd)
  /\ UNCHANGED <<program, batch, sent, memory>>

\* recv returns 0, or fails
BlockingClose ==
  /\ alive /\ clientfd \in Fds /\ kind = "blocking"
  /\ Recv(clientfd, BufLen) /\ Count(clientfd, BufLen) <= 0
  /\ Close(clientfd)
  /\ clientfd' = None
  /\ UNCHANGED <<program, alive, batch, sent, peer, got, maxfd, index, thread>>

-----------------------------------------------------------------------------
(* Threads: each reads its descriptor from clientfd of main, which the next *)
(* accept overwrites.                                                       *)

Unused == {t \in Threads : thread[t].pc = "none"}

Goto(t, pc) == thread' = [thread EXCEPT ![t].pc = pc]

\* pthread_create, whose result is not looked at
Create(fd) ==
  IF Unused = {} THEN UNCHANGED thread
  ELSE thread' = [thread EXCEPT ![CHOOSE t \in Unused : TRUE] =
                    [@ EXCEPT !.pc = "born", !.meant = fd]]

MainAccept(p) ==
  /\ alive /\ kind = "threads"
  /\ TakeConnection(p, "in")
  /\ clientfd' = Min(FreeFds)
  /\ Create(clientfd')
  /\ UNCHANGED <<program, alive, batch, sent, peer, read, got, maxfd, index>>

\* Without a free descriptor accept returns -1, whether somebody waits or not.
MainAcceptFails ==
  /\ alive /\ kind = "threads" /\ FreeFds = {}
  /\ clientfd' = None
  /\ Create(None)
  /\ UNCHANGED <<sockets, maxfd, index>>

Proceed(t, pc) ==
  /\ alive /\ thread[t].pc = pc
  /\ UNCHANGED <<program, batch, sent, clientfd, maxfd, index>>

ThreadStart(t) ==
  /\ Proceed(t, "born")
  /\ thread' = [thread EXCEPT ![t].pc = "recv", ![t].fd = clientfd]
  /\ UNCHANGED <<alive, table, fresh, conn, peer, read, got>>

\* A receive on the descriptor -1, and the send after it, do nothing, for ever.
ThreadRecv(t) ==
  LET fd == thread[t].fd
      n == Count(fd, BufLen) IN
    /\ Proceed(t, "recv") /\ fd # None
    /\ Recv(fd, BufLen)
    /\ thread' = [thread EXCEPT ![t].pc = IF n > 0 THEN "send" ELSE IF n = 0 THEN "close" ELSE "error",
                                ![t].buf = Chunk(fd, BufLen)]
    /\ peer' = IF n = -1 /\ file[fd] \in Peers THEN [peer EXCEPT ![file[fd]] = "dead"]
               ELSE peer
    /\ UNCHANGED <<alive, table, fresh, conn, got>>

\* send by number: to nobody if another thread has closed it, and to whoever
\* was accepted on it since.
ThreadWrite(t, data) ==
  LET p == file[thread[t].fd] IN
    IF p \in Peers THEN Write(p, data) ELSE UNCHANGED <<alive, peer, got>>

ThreadSend(t) ==
  /\ Proceed(t, "send")
  /\ ThreadWrite(t, thread[t].buf)
  /\ thread' = [thread EXCEPT ![t].pc = "recv", ![t].buf = <<>>]
  /\ UNCHANGED <<table, fresh, conn, read>>

\* send with the count -1: SIGPIPE on the connection that failed; on one that
\* was accepted since it reads behind buf, which sends something or nothing, or
\* ends the process.
ThreadError(t) ==
  /\ Proceed(t, "error")
  /\ \/ \E beyond \in {<<>>, <<Junk>>} : ThreadWrite(t, beyond)
     \/ file[thread[t].fd] \in Peers /\ alive' = FALSE /\ UNCHANGED <<peer, got>>
  /\ Goto(t, "recv")
  /\ UNCHANGED <<table, fresh, conn, read>>

\* close by number too
ThreadClose(t) ==
  /\ Proceed(t, "close")
  /\ Close(thread[t].fd)
  /\ Goto(t, "ended")
  /\ UNCHANGED <<alive, peer, read, got>>

Thread(t) == ThreadStart(t) \/ ThreadRecv(t) \/ ThreadSend(t) \/ ThreadError(t) \/ ThreadClose(t)

-----------------------------------------------------------------------------
(* Select and poll.  After the listening socket, the loop looks at each     *)
(* descriptor up to maxfd, which is the one that accept returned last.       *)

Pending == {fd \in Fds : <<fd, "in">> \in batch /\ fd <= maxfd}

Turn(program_, fd) ==
  /\ kind = program_
  /\ Pending # {} /\ fd = Min(Pending)
  /\ Handle(fd, "in")

\* rset is overwritten.
Select ==
  /\ alive /\ kind = "select" /\ Pending = {}
  /\ Events(0 .. maxfd) # {}
  /\ batch' = Events(0 .. maxfd)
  /\ UNCHANGED <<program, alive, table, fresh, conn, peer, sent, read, got, memory>>

AcceptedBelow(p, max) ==
  /\ TakeConnection(p, "in")
  /\ maxfd' = max
  /\ UNCHANGED <<alive, peer, read, got, clientfd, index, thread>>

\* Faulty: the first to come stays the last to be watched.
AcceptedOnce(p) == AcceptedBelow(p, IF maxfd = ListenFd THEN Min(FreeFds) ELSE maxfd)

Accepted(p) == AcceptedBelow(p, Min(FreeFds))

\* accept returns -1, and so maxfd is -1.
Refused ==
  /\ FreeFds = {}
  /\ maxfd' = None
  /\ UNCHANGED <<alive, table, fresh, conn, peer, read, got, clientfd, index, thread>>

SelectAccept == Turn("select", ListenFd) /\ (Refused \/ \E p \in Peers : Accepted(p))

SelectServe(fd) ==
  /\ fd # ListenFd /\ Turn("select", fd)
  /\ Exchange(fd)
  /\ UNCHANGED memory

\* poll sets revents of the first maxfd+1 entries; the others keep theirs, and
\* those never used hold what was on the stack.
Poll ==
  /\ alive /\ kind = "poll" /\ Pending = {}
  /\ Events(0 .. maxfd) # {}
  /\ batch' = Events(0 .. maxfd) \cup {e \in batch : e[1] > maxfd}
  /\ UNCHANGED <<program, alive, table, fresh, conn, peer, sent, read, got, memory>>

PollAccept == Turn("poll", ListenFd) /\ (Refused \/ \E p \in Peers : Accepted(p))

PollServe(fd) ==
  /\ fd # ListenFd /\ Turn("poll", fd)
  /\ Exchange(fd)
  /\ UNCHANGED memory

-----------------------------------------------------------------------------
(* Edge-triggered epoll.  A descriptor that was closed since epoll_wait      *)
(* gives an error, and one that was opened again blocks until there is data. *)
(* close(i) may close the listening socket, or the epoll set: epoll_wait     *)
(* then returns -1 for ever.                                                 *)

EdgeTurn(fd, event) ==
  /\ kind = "edge"
  /\ Handle(fd, event)
  /\ index' = index + 1
  /\ UNCHANGED <<clientfd, maxfd, thread>>

EdgeWait ==
  /\ kind = "edge" /\ file[EpollFd] = "epoll" /\ EpollWait
  /\ index' = 0
  /\ UNCHANGED <<clientfd, maxfd, thread>>

EdgeAccept(p) ==
  /\ EdgeTurn(ListenFd, "in") /\ file[ListenFd] = "listen"
  /\ TakeConnection(p, IF file[EpollFd] = "epoll" THEN "edge" ELSE "none")
  /\ UNCHANGED <<alive, peer, read, got>>

\* epoll_ctl refuses the descriptor -1.
EdgeAcceptFails ==
  /\ \E event \in {"in", "edge"} : EdgeTurn(ListenFd, event)
  /\ FreeFds = {} \/ file[ListenFd] # "listen"
  /\ UNCHANGED <<alive, table, fresh, conn, peer, read, got>>

\* The descriptor leaves the epoll set, and close(i) closes another.
EdgeHangup(fd) ==
  /\ EdgeTurn(fd, "edge") /\ fd # ListenFd
  /\ Recv(fd, BufLen) /\ Count(fd, BufLen) = 0
  /\ file' = [file EXCEPT ![index] = "free"]
  /\ interest' = [interest EXCEPT ![fd] = "none", ![index] = "none"]
  /\ fresh' = fresh \ {fd, index}
  /\ conn' = [p \in Peers |-> IF file[index] = p THEN "closed" ELSE conn[p]]
  /\ UNCHANGED <<alive, peer, got>>

EdgeEcho(fd) ==
  /\ EdgeTurn(fd, "edge") /\ fd # ListenFd
  /\ SendBack(fd) \/ SendError(fd)

-----------------------------------------------------------------------------
Main ==
  \/ BlockingEcho \/ BlockingClose \/ MainAcceptFails
  \/ Select \/ SelectAccept \/ Poll \/ PollAccept
  \/ EdgeWait \/ EdgeAcceptFails
  \/ \E p \in Peers : BlockingAccept(p) \/ MainAccept(p) \/ EdgeAccept(p)
  \/ \E fd \in Fds : SelectServe(fd) \/ PollServe(fd) \/ EdgeHangup(fd) \/ EdgeEcho(fd)
=============================================================================
