------------------------------ MODULE Acceptor ------------------------------
(***************************************************************************)
(* myMuduo/lib/Acceptor.cpp with what it calls in Socket.cpp and           *)
(* SocketOps.cpp: a listening socket, its channel in the loop, and the     *)
(* reserve descriptor idleFd_ that handleRead gives up to get rid of a     *)
(* connection the process has no descriptor for.  The process's table of   *)
(* descriptors is shared: other threads open and close their own between   *)
(* any two system calls, and the kernel hands out the lowest free number.  *)
(*                                                                         *)
(* pc is where the loop thread stands in a member function; "-" is between *)
(* calls.  died is what ended the process, SYSFATAL or an assertion.       *)
(***************************************************************************)
EXTENDS Integers, FiniteSets, FiniteSetsExt

CONSTANTS MaxFd,        \* RLIMIT_NOFILE - 1
          MaxBacklog    \* bound: connections that wait to be accepted

ConstantsOK == MaxFd \in Nat /\ MaxBacklog \in Nat

Fds == 0 .. MaxFd
None == -1

VARIABLES owner,      \* by descriptor: what it refers to
          backlog,
          errno,      \* of the loop thread: "EMFILE" or "other"
          sockfd_, idleFd_, connfd,
          channelFd,  \* acceptChannel_.fd()
          watched,    \* the loop polls channelFd
          listening_, callbackSet,
          pc, died

vars == <<owner, backlog, errno, sockfd_, idleFd_, connfd, channelFd,
          watched, listening_, callbackSet, pc, died>>
settings == <<channelFd, listening_, callbackSet>>

Owners == {"free", "other", "socket", "idle", "connection"}

TypeOK ==
    /\ owner \in [Fds -> Owners] /\ backlog \in 0 .. MaxBacklog
    /\ {sockfd_, idleFd_, connfd, channelFd} \subseteq Fds \cup {None}
    /\ {watched, listening_, callbackSet} \subseteq BOOLEAN
    /\ errno \in {"EMFILE", "other"}
    /\ died \in {"no", "socket", "idle", "bind", "listen", "channel", "EMFILE",
                 "EAGAIN", "ECONNABORTED", "EPERM"}

Free == {fd \in Fds : owner[fd] = "free"}
Lowest == Min(Free)

(* close() of a number that is not open only sets errno.                    *)
Closed(fd) == [f \in Fds |-> IF f = fd THEN "free" ELSE owner[f]]

Init ==
    /\ owner = [fd \in Fds |-> "free"]
    /\ backlog = 0 /\ errno = "other"
    /\ sockfd_ = None /\ idleFd_ = None /\ connfd = None
    /\ channelFd = None /\ watched = FALSE
    /\ listening_ = FALSE /\ callbackSet = FALSE
    /\ pc = "Socket" /\ died = "no"

Dies(why) ==
    /\ died' = why
    /\ UNCHANGED <<owner, backlog, errno, sockfd_, idleFd_, connfd, watched, pc, settings>>

-----------------------------------------------------------------------------
(* Acceptor::Acceptor.  acceptChannel_ is initialised with its own fd(),    *)
(* which is whatever lay in that memory.                                    *)
CreateNonblockingOrDie ==
    /\ pc = "Socket"
    /\ IF Free = {} THEN Dies("socket")
       ELSE /\ owner' = [owner EXCEPT ![Lowest] = "socket"]
            /\ sockfd_' = Lowest
            /\ channelFd' \in Fds \cup {None}
            /\ pc' = "Idle"
            /\ UNCHANGED <<backlog, errno, idleFd_, connfd, watched,
                           listening_, callbackSet, died>>

OpenIdle ==
    /\ pc = "Idle"
    /\ IF Free = {} THEN Dies("idle")
       ELSE /\ owner' = [owner EXCEPT ![Lowest] = "idle"]
            /\ idleFd_' = Lowest
            /\ pc' = "Bind"
            /\ UNCHANGED <<backlog, errno, sockfd_, connfd, watched, settings, died>>

(* bindOrDie fails when the address is in use, and always for AF_INET6: it  *)
(* passes the size of a sockaddr, which is too small for such an address.   *)
BindOrDie ==
    /\ pc = "Bind"
    /\ \/ Dies("bind")
       \/ /\ pc' = "-"
          /\ UNCHANGED <<owner, backlog, errno, sockfd_, idleFd_, connfd, watched,
                         settings, died>>

SetNewConnectionCallback ==
    /\ pc = "-"
    /\ callbackSet' = TRUE
    /\ UNCHANGED <<owner, backlog, errno, sockfd_, idleFd_, connfd, channelFd,
                   watched, listening_, pc, died>>

(* epoll_ctl takes the socket, refuses a number that is not open or is      *)
(* /dev/null's, and may do either with a descriptor of somebody else.       *)
MayWatch == channelFd # None /\ owner[channelFd] \notin {"free", "idle"}
MayRefuse == channelFd # sockfd_

(* listen raises listening_ before either of its calls can fail.            *)
Listen ==
    /\ pc = "-"
    /\ listening_' = TRUE
    /\ \/ MayWatch /\ watched' = TRUE /\ UNCHANGED died
       \/ died' = "listen" /\ UNCHANGED watched
       \/ MayRefuse /\ died' = "channel" /\ UNCHANGED watched
    /\ UNCHANGED <<owner, backlog, errno, sockfd_, idleFd_, connfd, channelFd,
                   callbackSet, pc>>

-----------------------------------------------------------------------------
(* Acceptor::handleRead, one system call a step. *)

HandleRead ==
    /\ pc = "-" /\ watched
    /\ channelFd = sockfd_ => backlog > 0
    /\ pc' = "Accept"
    /\ UNCHANGED <<owner, backlog, errno, sockfd_, idleFd_, connfd, watched, settings, died>>

(* What accept4 on the socket fails with: the connection in front may be    *)
(* gone, or one may not be let in.                                          *)
AcceptErrors ==
    IF backlog = 0 THEN {"EAGAIN"}
    ELSE {"ECONNABORTED", "EPERM"} \cup (IF Free = {} THEN {"EMFILE"} ELSE {})

Accepts(fd) ==
    /\ backlog > 0 /\ Free # {} /\ fd = Lowest
    /\ owner' = [owner EXCEPT ![fd] = "connection"]
    /\ backlog' = backlog - 1

(* sockets::accept logs each failure as SYSFATAL before it looks at errno.  *)
Accept ==
    /\ pc = "Accept"
    /\ \/ \E why \in AcceptErrors : Dies(why)
       \/ \E fd \in Fds :
             /\ Accepts(fd)
             /\ connfd' = fd
             /\ pc' = "Deliver"
             /\ UNCHANGED <<errno, sockfd_, idleFd_, watched, settings, died>>

(* connfd > 0: the callback owns it, or it is closed.                       *)
Deliver ==
    /\ pc = "Deliver" /\ connfd > 0
    /\ owner' = IF callbackSet THEN [owner EXCEPT ![connfd] = "other"]
                               ELSE Closed(connfd)
    /\ connfd' = None
    /\ pc' = "-"
    /\ UNCHANGED <<backlog, errno, sockfd_, idleFd_, watched, settings, died>>

(* Descriptor 0 counts as a failure; errno is what it was, or LOG_SYSERR's. *)
TakeZeroForFailure ==
    /\ pc = "Deliver" /\ connfd = 0
    /\ errno' \in {errno, "other"}
    /\ connfd' = None
    /\ pc' = IF errno' = "EMFILE" THEN "CloseIdle" ELSE "-"
    /\ UNCHANGED <<owner, backlog, sockfd_, idleFd_, watched, settings, died>>

CloseIdle ==
    /\ pc = "CloseIdle"
    /\ owner' = Closed(idleFd_)
    /\ errno' = IF idleFd_ = None THEN "other" ELSE errno
    /\ pc' = "AcceptIdle"
    /\ UNCHANGED <<backlog, sockfd_, idleFd_, connfd, watched, settings, died>>

AcceptIdle ==
    /\ pc = "AcceptIdle"
    /\ \/ \E fd \in Fds : Accepts(fd) /\ idleFd_' = fd /\ UNCHANGED errno
       \/ \E why \in AcceptErrors :
             /\ idleFd_' = None
             /\ errno' = IF why = "EMFILE" THEN "EMFILE" ELSE "other"
             /\ UNCHANGED <<owner, backlog>>
    /\ pc' = "CloseAccepted"
    /\ UNCHANGED <<sockfd_, connfd, watched, settings, died>>

CloseAccepted ==
    /\ pc = "CloseAccepted"
    /\ owner' = Closed(idleFd_)
    /\ errno' = IF idleFd_ = None THEN "other" ELSE errno
    /\ pc' = "Reopen"
    /\ UNCHANGED <<backlog, sockfd_, idleFd_, connfd, watched, settings, died>>

(* Mutant: the number is kept when /dev/null cannot be opened again.        *)
ReopenOrKeep ==
    /\ pc = "Reopen"
    /\ IF Free = {} THEN errno' = "EMFILE" /\ UNCHANGED <<owner, idleFd_>>
       ELSE /\ owner' = [owner EXCEPT ![Lowest] = "idle"]
            /\ idleFd_' = Lowest /\ UNCHANGED errno
    /\ pc' = "-"
    /\ UNCHANGED <<backlog, sockfd_, connfd, watched, settings, died>>

Reopen ==
    /\ pc = "Reopen"
    /\ IF Free = {} THEN errno' = "EMFILE" /\ idleFd_' = None /\ UNCHANGED owner
       ELSE /\ owner' = [owner EXCEPT ![Lowest] = "idle"]
            /\ idleFd_' = Lowest /\ UNCHANGED errno
    /\ pc' = "-"
    /\ UNCHANGED <<backlog, sockfd_, connfd, watched, settings, died>>

(* ~Acceptor and ~Socket.  disableall of a channel the poller does not know *)
(* adds it first, which is refused as in Listen.                            *)
Destroy ==
    /\ pc = "-"
    /\ \/ ~watched /\ MayRefuse /\ Dies("channel")
       \/ /\ watched \/ MayWatch
          /\ owner' = [f \in Fds |-> IF f \in {idleFd_, sockfd_} THEN "free" ELSE owner[f]]
          /\ watched' = FALSE
          /\ backlog' = 0
          /\ pc' = "gone"
          /\ UNCHANGED <<errno, sockfd_, idleFd_, connfd, settings, died>>

-----------------------------------------------------------------------------
(* The rest of the program and the peers. *)

OthersOpen ==
    /\ Free # {}
    /\ owner' = [owner EXCEPT ![Lowest] = "other"]
    /\ UNCHANGED <<backlog, errno, sockfd_, idleFd_, connfd, watched, pc, settings, died>>

(* A handler on the loop thread finds no descriptor.                        *)
OpenFails ==
    /\ pc = "-" /\ Free = {}
    /\ errno' = "EMFILE"
    /\ UNCHANGED <<owner, backlog, sockfd_, idleFd_, connfd, watched, pc, settings, died>>

(* The kernel stops watching what is closed.                                *)
OthersClose(fd) ==
    /\ owner[fd] = "other"
    /\ owner' = Closed(fd)
    /\ watched' = (watched /\ channelFd # fd)
    /\ UNCHANGED <<backlog, errno, sockfd_, idleFd_, connfd, pc, settings, died>>

PeerConnects ==
    /\ listening_ /\ pc # "gone" /\ backlog < MaxBacklog
    /\ backlog' = backlog + 1
    /\ UNCHANGED <<owner, errno, sockfd_, idleFd_, connfd, watched, pc, settings, died>>

PeerGivesUp ==
    /\ backlog > 0
    /\ backlog' = backlog - 1
    /\ UNCHANGED <<owner, errno, sockfd_, idleFd_, connfd, watched, pc, settings, died>>

Next ==
    /\ died = "no"
    /\ \/ CreateNonblockingOrDie \/ OpenIdle \/ BindOrDie
       \/ SetNewConnectionCallback \/ Listen
       \/ HandleRead \/ Accept \/ Deliver \/ TakeZeroForFailure
       \/ CloseIdle \/ AcceptIdle \/ CloseAccepted \/ Reopen
       \/ Destroy
       \/ OthersOpen \/ OpenFails \/ PeerConnects \/ PeerGivesUp
       \/ \E fd \in Fds : OthersClose(fd)

Spec == Init /\ [][Next]_vars

-----------------------------------------------------------------------------
(* Wherever the other threads' opens and closes fall, the acceptor closes   *)
(* nothing but its own: whenever idleFd_ is about to be closed it is the    *)
(* reserve or the connection just taken, also after the reserve could not   *)
(* be opened again (Acceptor.cpp:53-56).  Nothing of it is forgotten, but   *)
(* for a connection that gets number 0, which line 44 takes for a failure.  *)
DescriptorsOwned ==
    LET held == {fd \in Fds : owner[fd] \in {"socket", "idle"}}
        taken == {fd \in Fds : owner[fd] = "connection"}
    IN  /\ pc \notin {"Socket", "gone"} => owner[sockfd_] = "socket"
        /\ pc \in {"-", "CloseIdle"} /\ idleFd_ # None => owner[idleFd_] = "idle"
        /\ pc = "CloseAccepted" /\ idleFd_ # None => owner[idleFd_] = "connection"
        /\ held \subseteq (IF pc = "gone" THEN {} ELSE {sockfd_, idleFd_})
        /\ taken \subseteq {0, connfd} \cup (IF pc = "CloseAccepted" THEN {idleFd_} ELSE {})

(* "unexpect Error of accept()" (SocketOps.cpp:119) ends the process for    *)
(* EBADF and the like; the errors listed before it are to be survived, and  *)
(* Acceptor.cpp:52 has an answer to EMFILE.  The code breaks it: line 102   *)
(* logs any failure as SYSFATAL, whose Logger aborts.                       *)
AcceptSurvivesExpectedErrors ==
    died \notin {"EAGAIN", "ECONNABORTED", "EPERM", "EMFILE"}
=============================================================================
