----------------------------- MODULE EventLoop ------------------------------
(***************************************************************************)
(* reactor.c and webserver.c of 2_Net/2.1-epoll: one thread that waits on  *)
(* an epoll set and calls the handler of each event it is told of.  What   *)
(* interleaves with the handlers are the peers (module Sockets).           *)
(***************************************************************************)
EXTENDS Sockets

CONSTANT Response   \* the page of http_response

VARIABLES
  rbuf,       \* rbuffer of each connlist entry, rlen bytes of it
  wbuf        \* wbuffer, wlen bytes of it

buffers == <<rbuf, wbuf>>

BuffersInit == rbuf = [fd \in Fds |-> <<>>] /\ wbuf = [fd \in Fds |-> <<>>]

\* set_event with the flag 0
SetEvent(fd, event) == interest' = [interest EXCEPT ![fd] = event]

\* What a receive that leaves all in rbuffer puts into wbuffer.
Answer(all) == IF kind = "echo" THEN all ELSE <<Response>>

AcceptInto(p, r, w) ==
  /\ Handle(ListenFd, "in")
  /\ TakeConnection(p, "in")
  /\ rbuf' = [rbuf EXCEPT ![Min(FreeFds)] = r]
  /\ wbuf' = [wbuf EXCEPT ![Min(FreeFds)] = w]
  /\ UNCHANGED <<alive, peer, read, got>>

\* Faulty: the entry of an earlier connection is not cleared.
AcceptUncleared(p) == AcceptInto(p, rbuf[Min(FreeFds)], wbuf[Min(FreeFds)])

\* accept_cb
Accept(p) == AcceptInto(p, <<>>, <<>>)

\* accept returns -1 and accept_cb gives up.
AcceptFails ==
  /\ Handle(ListenFd, "in")
  /\ FreeFds = {}
  /\ UNCHANGED <<alive, table, fresh, conn, peer, read, got, buffers>>

-----------------------------------------------------------------------------
(* recv_cb and send_cb *)

Space(fd) == BufLen - Len(rbuf[fd])

Disconnect(fd) ==
  /\ Handle(fd, "in") /\ fd # ListenFd
  /\ Recv(fd, Space(fd)) /\ Count(fd, Space(fd)) = 0
  /\ Close(fd)
  /\ UNCHANGED <<alive, rbuf, wbuf, peer, got>>

\* What was received goes to wbuffer; with keep it stays in rbuffer too.
ReceiveAnd(fd, keep, event) ==
  /\ Handle(fd, "in") /\ fd # ListenFd
  /\ Recv(fd, Space(fd)) /\ Count(fd, Space(fd)) > 0
  /\ LET all == rbuf[fd] \o Chunk(fd, Space(fd)) IN
       /\ rbuf' = [rbuf EXCEPT ![fd] = IF keep THEN all ELSE <<>>]
       /\ wbuf' = [wbuf EXCEPT ![fd] = Answer(all)]
  /\ SetEvent(fd, event)
  /\ UNCHANGED <<alive, file, fresh, conn, peer, got>>

\* Faulty: rlen is kept after the echo.
ReceiveKeeping(fd) == ReceiveAnd(fd, TRUE, "out")

\* Faulty: the connection stays registered for input.
ReceiveStaying(fd) == ReceiveAnd(fd, kind = "http", "in")

\* The echo copies rlen bytes and resets rlen; the web server does not.
Receive(fd) == ReceiveAnd(fd, kind = "http", "out")

\* recv returns -1, which both add to rlen: the echo then copies -1 bytes, as a
\* size_t.  The web server answers; its next send ends it before rlen is used.
ReceiveError(fd) ==
  /\ Handle(fd, "in") /\ fd # ListenFd
  /\ Recv(fd, Space(fd)) /\ Count(fd, Space(fd)) = -1
  /\ alive' = (kind = "http")
  /\ peer' = [peer EXCEPT ![file[fd]] = "dead"]
  /\ wbuf' = [wbuf EXCEPT ![fd] = IF kind = "http" THEN Answer(rbuf[fd]) ELSE @]
  /\ SetEvent(fd, "out")
  /\ UNCHANGED <<file, fresh, rbuf, conn, got>>

Reply(fd) ==
  /\ Handle(fd, "out")
  /\ Write(file[fd], wbuf[fd])
  /\ SetEvent(fd, "in")
  /\ UNCHANGED <<file, fresh, rbuf, wbuf, conn, read>>

-----------------------------------------------------------------------------
Serve ==
  \/ EpollWait /\ UNCHANGED buffers
  \/ \E p \in Peers : Accept(p)
  \/ AcceptFails
  \/ \E fd \in Fds :
       Disconnect(fd) \/ Receive(fd) \/ ReceiveError(fd) \/ Reply(fd)
=============================================================================
