---------------------------- MODULE EpollPoller ----------------------------
(***************************************************************************)
(* myMuduo/lib/EpollPoller.cpp with the part of EventLoop that dispatches  *)
(* and removes channels.  Three records of the same fact have to agree:    *)
(* Channel::index_, the map channels_ and the kernel's interest list; and  *)
(* the channels poll returned are dereferenced one after the other while   *)
(* their handlers enable, disable, remove and destroy channels.            *)
(*                                                                         *)
(* The kernel (epoll, file descriptors) is modelled from how the code uses *)
(* it: level triggered, EPOLLHUP reported whatever the events asked for,   *)
(* at most events_.size() descriptors a call, any of those that are ready. *)
(* One kind of event stands for kReadEvent and kWriteEvent.  epoll_ctl may *)
(* fail: for ADD and MOD that ends the process, for DEL it is only logged. *)
(***************************************************************************)
EXTENDS Integers, FiniteSets

CONSTANTS Channels,   \* addresses of Channel objects
          Fds,        \* file descriptors
          None,
          kInitEventListSize

ASSUME ConstantsAssumption ==
    /\ None \notin Channels
    /\ None \notin [in : BOOLEAN, ptr : Channels]
    /\ kInitEventListSize \in Nat \ {0}

VARIABLES
    alive,          \* Channel objects that exist
    fd_, events_, index_,   \* their fields; events_: not isNoneEvent()
    channels_,      \* Poller::channels_
    interest,       \* kernel: per descriptor, None or what epoll_ctl set
    undeleted,      \* descriptors an EPOLL_CTL_DEL failed for, still watched
    ready,          \* kernel: per descriptor, what happened and was not read
    eventListSize,  \* EpollPoller::events_.size()
    activeChannel_, \* EventLoop::activeChannel_, each with the descriptor
                    \* it was reported for
    rest,           \* those of them the dispatch loop has not reached
    currentActiveChannel_,
    polling,        \* the loop thread is in poll, not in user code
    died            \* an assertion or LOG_SYSFATAL ended the process

object == <<alive, fd_, events_, index_>>
kernel == <<interest, undeleted>>
poller == <<channels_, kernel, eventListSize>>
dispatch == <<activeChannel_, rest, currentActiveChannel_, polling>>
vars == <<object, poller, ready, dispatch, died>>

kNew == -1
kAdded == 1
kDeleted == 2

Ptrs(entries) == {e.ptr : e \in entries}

TypeOK ==
    /\ alive \subseteq Channels
    /\ fd_ \in [Channels -> Fds]
    /\ events_ \in [Channels -> BOOLEAN]
    /\ index_ \in [Channels -> {kNew, kAdded, kDeleted}]
    /\ channels_ \in [Fds -> Channels \cup {None}]
    /\ interest \in [Fds -> {None} \cup [in : BOOLEAN, ptr : Channels]]
    /\ undeleted \subseteq {f \in Fds : interest[f] # None}
    /\ ready \in [Fds -> SUBSET {"in", "hup"}]
    /\ eventListSize \in Nat \ {0}
    /\ activeChannel_ \subseteq [fd : Fds, ptr : Channels]
    /\ rest \subseteq activeChannel_
    /\ currentActiveChannel_ \in Ptrs(activeChannel_) \cup {None}
    /\ polling \in BOOLEAN /\ died \in BOOLEAN
    /\ polling => activeChannel_ = {}

Init ==
    /\ alive = {}
    /\ fd_ \in [Channels -> Fds]
    /\ events_ = [c \in Channels |-> FALSE]
    /\ index_ = [c \in Channels |-> kNew]
    /\ channels_ = [f \in Fds |-> None]
    /\ interest = [f \in Fds |-> None] /\ undeleted = {}
    /\ ready = [f \in Fds |-> {}]
    /\ eventListSize = kInitEventListSize
    /\ activeChannel_ = {} /\ rest = {}
    /\ currentActiveChannel_ = None
    /\ polling = FALSE /\ died = FALSE

(* abort(): nothing happens after it.                                       *)
Dies ==
    /\ died' = TRUE
    /\ UNCHANGED <<object, poller, ready, dispatch>>

(* eventHandling_ and currentActivceChannel_ are set together.              *)
Handling == currentActiveChannel_ # None

-----------------------------------------------------------------------------
(* User code: a handler, a functor, or the program before loop().           *)
InUserCode == ~polling /\ (Handling \/ rest = {})

Create(c, f) ==
    /\ InUserCode
    /\ c \notin alive
    /\ alive' = alive \cup {c}
    /\ fd_' = [fd_ EXCEPT ![c] = f]
    /\ events_' = [events_ EXCEPT ![c] = FALSE]
    /\ index_' = [index_ EXCEPT ![c] = kNew]
    /\ UNCHANGED <<poller, ready, dispatch, died>>

(* ~Channel asserts that its handler is not running; its owner removed it   *)
(* from the loop first.                                                     *)
Destroy(c) ==
    /\ InUserCode
    /\ c \in alive
    /\ index_[c] = kNew
    /\ c # currentActiveChannel_
    /\ alive' = alive \ {c}
    /\ UNCHANGED <<fd_, events_, index_, poller, ready, dispatch, died>>

(* epoll_ctl ADD and MOD, when they succeed.                                *)
Control(c, in) ==
    /\ interest' = [interest EXCEPT ![fd_[c]] = [in |-> in, ptr |-> c]]
    /\ UNCHANGED undeleted

(* epoll_ctl DEL; when it fails that is logged, and the kernel may still    *)
(* watch the descriptor for the channel.                                    *)
Forget(c) ==
    \/ /\ interest' = [interest EXCEPT ![fd_[c]] = None]
       /\ UNCHANGED undeleted
    \/ /\ undeleted' = undeleted \cup {fd_[c]}
       /\ UNCHANGED interest

(* updateChannel, after the caller set events_: a channel that is not in    *)
(* the kernel's list is added to it whatever its events are.  ADD succeeds  *)
(* only for a descriptor that is not watched yet.                           *)
UpdateChannel(c, in) ==
    /\ events_' = [events_ EXCEPT ![c] = in]
    /\ channels_' = [channels_ EXCEPT ![fd_[c]] = c]
    /\ \/ /\ index_[c] \in {kNew, kDeleted}
          /\ interest[fd_[c]] = None
          /\ index_' = [index_ EXCEPT ![c] = kAdded]
          /\ Control(c, in)
       \/ /\ index_[c] = kAdded /\ ~in
          /\ index_' = [index_ EXCEPT ![c] = kDeleted]
          /\ Forget(c)
       \/ /\ index_[c] = kAdded /\ in
          /\ Control(c, in)
          /\ UNCHANGED index_

(* enableReading, disableAll.  The assertion of the kNew branch: no other   *)
(* channel is registered for the descriptor.                                *)
MayUpdate(c) ==
    /\ InUserCode
    /\ c \in alive
    /\ index_[c] = kNew => channels_[fd_[c]] = None

Update(c, in) ==
    /\ MayUpdate(c)
    /\ UpdateChannel(c, in)
    /\ UNCHANGED <<alive, fd_, eventListSize, ready, dispatch, died>>

(* A failed ADD or MOD is LOG_SYSFATAL.                                     *)
UpdateFails(c, in) ==
    /\ MayUpdate(c)
    /\ index_[c] # kAdded \/ in
    /\ Dies

(* Mutant: removeChannel's assertion about activeChannel_ is left out.      *)
MayRemoveAny(c) == TRUE

(* EventLoop::removeChannel's assertion.                                    *)
MayRemove(c) ==
    Handling => currentActiveChannel_ = c \/ c \notin Ptrs(activeChannel_)

(* A channel that is kDeleted is not in the kernel's list, as far as the    *)
(* poller knows.                                                            *)
ForgetIfAdded(c) ==
    IF index_[c] = kAdded THEN Forget(c) ELSE UNCHANGED kernel

(* Mutant: the index is not set back to kNew.                               *)
RemoveChannelKeepsIndex(c) ==
    /\ channels_' = [channels_ EXCEPT ![fd_[c]] = None]
    /\ ForgetIfAdded(c)
    /\ UNCHANGED index_

RemoveChannel(c) ==
    /\ channels_' = [channels_ EXCEPT ![fd_[c]] = None]
    /\ ForgetIfAdded(c)
    /\ index_' = [index_ EXCEPT ![c] = kNew]

Remove(c) ==
    /\ InUserCode
    /\ c \in alive
    /\ channels_[fd_[c]] = c
    /\ ~events_[c]
    /\ MayRemove(c)
    /\ RemoveChannel(c)
    /\ UNCHANGED <<alive, fd_, events_, eventListSize, ready, dispatch, died>>

-----------------------------------------------------------------------------
(* The loop. *)

(* Mutant: activeChannel_ is not cleared.                                   *)
EnterPollKeepsActive ==
    /\ ~polling /\ ~Handling
    /\ rest = {}
    /\ polling' = TRUE
    /\ UNCHANGED <<object, poller, ready, activeChannel_, rest,
                   currentActiveChannel_, died>>

(* activeChannel_.clear() and into poll; in between the functors have run.  *)
EnterPoll ==
    /\ ~polling /\ ~Handling
    /\ rest = {}
    /\ polling' = TRUE
    /\ activeChannel_' = {}
    /\ UNCHANGED <<object, poller, ready, rest, currentActiveChannel_, died>>

Reported(f) ==
    /\ interest[f] # None
    /\ "hup" \in ready[f] \/ ("in" \in ready[f] /\ interest[f].in)

ReadyFds == {f \in Fds : Reported(f)}

(* Mutant: the event list keeps its size.                                   *)
GrownNever(n) == eventListSize

(* events_ is doubled when it was filled.                                   *)
Grown(n) == IF n = eventListSize THEN 2 * eventListSize ELSE eventListSize

(* fillActiveChannels asserts that the pointer the kernel kept is of the    *)
(* channel registered for its descriptor.  Whatever it reads in place of a  *)
(* channel that was destroyed, it finds no registered channel there.        *)
Registered(p) == p \in alive /\ channels_[fd_[p]] = p

Poll ==
    /\ polling
    /\ \E S \in SUBSET ReadyFds :
         /\ S # {}
         /\ Cardinality(S) <= eventListSize
         /\ Cardinality(S) = eventListSize \/ S = ReadyFds
         /\ \/ /\ \A f \in S : Registered(interest[f].ptr)
               /\ activeChannel_' = {[fd |-> f, ptr |-> interest[f].ptr] : f \in S}
               /\ rest' = activeChannel_'
               /\ eventListSize' = Grown(Cardinality(S))
               /\ polling' = FALSE
               /\ UNCHANGED <<object, channels_, kernel, ready,
                              currentActiveChannel_, died>>
            \/ /\ \E f \in S : ~Registered(interest[f].ptr)
               /\ Dies

PollTimeout ==
    /\ polling
    /\ ReadyFds = {}
    /\ polling' = FALSE
    /\ UNCHANGED <<object, poller, ready, activeChannel_, rest,
                   currentActiveChannel_, died>>

(* handleEvent of the next active channel.  Whether it comes to read what   *)
(* is there depends on the events it dispatches and on its callback.        *)
HandleEvent(e) ==
    /\ ~Handling
    /\ e \in rest
    /\ rest' = rest \ {e}
    /\ currentActiveChannel_' = e.ptr
    /\ \/ ready' = [ready EXCEPT ![fd_[e.ptr]] = @ \ {"in"}]
       \/ UNCHANGED ready
    /\ UNCHANGED <<object, poller, activeChannel_, polling, died>>

(* handleEvent of a channel that was destroyed need not get that far.       *)
HandleDestroyed(e) ==
    /\ ~Handling
    /\ e \in rest
    /\ e.ptr \notin alive
    /\ Dies

HandlerReturns ==
    /\ Handling
    /\ currentActiveChannel_' = None
    /\ UNCHANGED <<object, poller, ready, activeChannel_, rest, polling, died>>

(* The peer sends, or hangs up.                                             *)
Happens(f, e) ==
    /\ e \notin ready[f]
    /\ ready' = [ready EXCEPT ![f] = @ \cup {e}]
    /\ UNCHANGED <<object, poller, dispatch, died>>

(* A descriptor is closed once its channel was removed, and its number is   *)
(* given to the next one opened.  Closing takes it off the kernel's list.   *)
CloseAndReuse(f) ==
    /\ InUserCode
    /\ channels_[f] = None
    /\ ready[f] # {} \/ interest[f] # None
    /\ ready' = [ready EXCEPT ![f] = {}]
    /\ interest' = [interest EXCEPT ![f] = None]
    /\ undeleted' = undeleted \ {f}
    /\ UNCHANGED <<object, channels_, eventListSize, dispatch, died>>

LoopStep ==
    /\ ~died
    /\ \/ EnterPoll \/ Poll \/ PollTimeout \/ HandlerReturns
       \/ \E e \in rest : HandleEvent(e) \/ HandleDestroyed(e)

UserStep ==
    /\ ~died
    /\ \/ \E c \in Channels :
            \/ Destroy(c) \/ Remove(c)
            \/ \E f \in Fds : Create(c, f)
            \/ \E in \in BOOLEAN : Update(c, in) \/ UpdateFails(c, in)
       \/ \E f \in Fds : CloseAndReuse(f)

PeerStep ==
    /\ ~died
    /\ \E f \in Fds, e \in {"in", "hup"} : Happens(f, e)

Next == LoopStep \/ UserStep \/ PeerStep

Safety == Init /\ [][Next]_vars

(* The loop thread runs, and user code returns to it.                       *)
Spec == Safety /\ WF_vars(LoopStep)

-----------------------------------------------------------------------------
(* index_, channels_ and the kernel's list tell the same story, so that the *)
(* assertions of updateChannel hold, and the events the kernel watches are  *)
(* those the channel asked for last; what it watches beside them is left    *)
(* from an EPOLL_CTL_DEL that failed.                                       *)
RegistryAgrees ==
    /\ \A c \in alive : (index_[c] = kNew) <=> (channels_[fd_[c]] # c)
    /\ \A f \in Fds : channels_[f] # None =>
         channels_[f] \in alive /\ fd_[channels_[f]] = f
    /\ \A f \in Fds :
         LET c == channels_[f]
         IN  IF c # None /\ index_[c] = kAdded
             THEN interest[f] = [in |-> events_[c], ptr |-> c] /\ f \notin undeleted
             ELSE interest[f] = None \/ f \in undeleted

(* One channel is in activeChannel_ for two descriptors: the kernel kept    *)
(* its address after a failed EPOLL_CTL_DEL, and the address and another    *)
(* descriptor now belong to a new channel.                                  *)
Twice == \E d, e \in activeChannel_ : d # e /\ d.ptr = e.ptr

(* What the dispatch loop is about to dereference exists and is registered, *)
(* whatever the handlers before it removed and destroyed, a failed DEL or   *)
(* not.  The exception is Twice: such a channel may remove itself when it   *)
(* is reached the first time, which is its right, and is reached again.     *)
NoDangling ==
    \/ Twice
    \/ /\ \A e \in rest : Registered(e.ptr)
       /\ Handling => currentActiveChannel_ \in alive

(* However the kernel chooses among more ready descriptors than the event   *)
(* list holds, each one that stays enabled gets its turn, handleEvent of    *)
(* its channel is called: the list grows.  Not claimed is that handleEvent  *)
(* then reads it.  The other outcomes: it is no longer ready or no longer   *)
(* asked for, its DEL failed, or the process died.                          *)
EveryReadyIsHandled ==
    \A f \in Fds :
        (interest[f] # None /\ interest[f].in /\ "in" \in ready[f])
            ~> \/ Handling /\ fd_[currentActiveChannel_] = f
               \/ "in" \notin ready[f]
               \/ interest[f] = None \/ ~interest[f].in
               \/ f \in undeleted
               \/ died
=============================================================================
