----------------------------- MODULE Connector -----------------------------
(***************************************************************************)
(* myMuduo/lib/Connector.cpp: a non-blocking connect with retries, driven  *)
(* by the loop thread (queued functors, retry timers, the events of the    *)
(* connecting socket) and by start() and stop() on another thread.         *)
(*                                                                         *)
(* The loop's functor queue is FIFO (module EventLoop) and a retry timer   *)
(* fires at some time after it is armed (module TimerQueue).  sockets::    *)
(* and Channel are modelled from their use here.  handleWrite after        *)
(* handleError in one dispatch finds kDisConnected and does nothing, so an *)
(* event is one or the other.  A failing assert ends the process.          *)
(***************************************************************************)
EXTENDS Integers, Sequences, SequencesExt, FiniteSets

CONSTANTS Fds, None,
          MaxTimers,  \* bound: retry timers pending at a time
          MaxQueue    \* bound: functors queued when start or stop is called

ASSUME ConstantsAssumption ==
    None \notin Fds /\ MaxTimers \in Nat /\ MaxQueue \in Nat

kInitRetryDelayMs == 500
kMaxRetryDelayMs == 30 * 1000

States == {"kDisConnected", "kConnecting", "kConnected"}

VARIABLES
    connect_, state_, retryDelayMs_,
    channel_,       \* the descriptor of *channel_, or None
    registered,     \* the channel is enabled in the poller
    queue,          \* the functors queued on the loop
    caller,         \* the other thread, inside start() or stop()
    timers,         \* retry timers that have not fired
    open,           \* open sockets
    handedOut,      \* those newConnectionCallback_ received
    failed,         \* the assertion that ended the process
    wanted,         \* history: the user's last call was start or restart
    gaveUp,         \* history: the last connect(2) failed for good
    orphan          \* history: the socket of the attempt that was under way
                    \* when restart() was called, or None

sockets == <<open, handedOut>>
vars == <<connect_, state_, retryDelayMs_, channel_, registered, queue, caller,
          timers, sockets, failed, wanted, gaveUp, orphan>>

TypeOK ==
    /\ connect_ \in BOOLEAN
    /\ state_ \in States
    /\ retryDelayMs_ \in kInitRetryDelayMs .. kMaxRetryDelayMs
    /\ channel_ \in Fds \cup {None}
    /\ registered \in BOOLEAN /\ (registered => channel_ # None)
    /\ queue \in Seq({"startInLoop", "stopInLoop", "resetChannel"})
    /\ caller \in {"none", "startInLoop", "stopInLoop"}
    /\ timers \in 0 .. MaxTimers
    /\ handedOut \subseteq open /\ open \subseteq Fds
    /\ failed \in {"none", "startInLoop", "connecting"}
    /\ wanted \in BOOLEAN /\ gaveUp \in BOOLEAN
    /\ orphan \in Fds \cup {None}

Init ==
    /\ connect_ = FALSE
    /\ state_ = "kDisConnected"
    /\ retryDelayMs_ = kInitRetryDelayMs
    /\ channel_ = None
    /\ registered = FALSE
    /\ queue = <<>>
    /\ caller = "none"
    /\ timers = 0
    /\ open = {} /\ handedOut = {}
    /\ failed = "none"
    /\ wanted = FALSE
    /\ gaveUp = FALSE
    /\ orphan = None

Running == failed = "none"

-----------------------------------------------------------------------------
(* start() and stop(): the flag first, then the functor.  start() sets      *)
(* connect_ to false.                                                       *)
CallStart ==
    /\ Running /\ caller = "none" /\ Len(queue) < MaxQueue
    /\ connect_' = FALSE
    /\ wanted' = TRUE
    /\ caller' = "startInLoop"
    /\ UNCHANGED <<state_, retryDelayMs_, channel_, registered, queue, timers,
                   sockets, failed, gaveUp, orphan>>

CallStop ==
    /\ Running /\ caller = "none" /\ Len(queue) < MaxQueue
    /\ connect_' = FALSE
    /\ wanted' = FALSE
    /\ caller' = "stopInLoop"
    /\ UNCHANGED <<state_, retryDelayMs_, channel_, registered, queue, timers,
                   sockets, failed, gaveUp, orphan>>

Enqueue ==
    /\ Running /\ caller # "none"
    /\ queue' = Append(queue, caller)
    /\ caller' = "none"
    /\ UNCHANGED <<connect_, state_, retryDelayMs_, channel_, registered, timers,
                   sockets, failed, wanted, gaveUp, orphan>>

-----------------------------------------------------------------------------
(* Parts of the handlers; connect_' is assigned by the handler.             *)

(* Mutant: no kMaxRetryDelayMs.                                             *)
DoubledUncapped(ms) == 2 * ms

Doubled(ms) == IF 2 * ms > kMaxRetryDelayMs THEN kMaxRetryDelayMs ELSE 2 * ms

(* Mutant: the retry is armed only for the first delay.                     *)
RetryOnce(ms, pending) ==
    /\ state_' = "kDisConnected"
    /\ IF connect_' /\ ms = kInitRetryDelayMs
       THEN /\ pending < MaxTimers
            /\ timers' = pending + 1
            /\ retryDelayMs_' = Doubled(ms)
       ELSE /\ timers' = pending
            /\ retryDelayMs_' = ms

(* retry() with the present delay and the retry timers that are pending;    *)
(* the caller closes the socket in its assignment to open.                  *)
Retry(ms, pending) ==
    /\ state_' = "kDisConnected"
    /\ IF connect_'
       THEN /\ pending < MaxTimers
            /\ timers' = pending + 1
            /\ retryDelayMs_' = Doubled(ms)
       ELSE /\ timers' = pending
            /\ retryDelayMs_' = ms

Keep(state, ms, pending) ==
    /\ state_' = state
    /\ retryDelayMs_' = ms
    /\ timers' = pending

(* connect(): a new socket, closed again unless the connection is under way.*)
(* connecting() asserts that there is no channel.                           *)
Connect(ms, pending) ==
    \/ /\ channel_ = None
       /\ \E fd \in Fds \ open : channel_' = fd /\ open' = open \cup {fd}
       /\ registered' = TRUE
       /\ Keep("kConnecting", ms, pending)
       /\ gaveUp' = FALSE
       /\ UNCHANGED failed
    \/ /\ channel_ # None
       /\ failed' = "connecting"
       /\ Keep("kConnecting", ms, pending)
       /\ gaveUp' = FALSE
       /\ UNCHANGED <<channel_, registered, open>>
    \/ /\ Retry(ms, pending)
       /\ gaveUp' = FALSE
       /\ UNCHANGED <<channel_, registered, open, failed>>
    \/ /\ gaveUp' = TRUE
       /\ Keep("kDisConnected", ms, pending)
       /\ UNCHANGED <<channel_, registered, open, failed>>

(* startInLoop() in a given state.                                          *)
StartInLoop(state, ms, pending) ==
    \/ /\ state = "kDisConnected"
       /\ connect_'
       /\ Connect(ms, pending)
    \/ /\ state = "kDisConnected"
       /\ ~connect_'
       /\ Keep(state, ms, pending)
       /\ UNCHANGED <<channel_, registered, open, failed, gaveUp>>
    \/ /\ state # "kDisConnected"
       /\ failed' = "startInLoop"
       /\ Keep(state, ms, pending)
       /\ UNCHANGED <<channel_, registered, open, gaveUp>>

(* Mutant: resetChannel is not queued.                                      *)
RemoveChannelOnly(q) == registered' = FALSE /\ queue' = q

(* removeAndResetChannel(): the channel leaves the poller now and is        *)
(* destroyed later, for its handler may be running.                         *)
RemoveAndResetChannel(q) ==
    /\ registered' = FALSE
    /\ queue' = Append(q, "resetChannel")

-----------------------------------------------------------------------------
(* The loop thread. *)

RunStartInLoop ==
    /\ Running
    /\ queue # <<>> /\ Head(queue) = "startInLoop"
    /\ queue' = Tail(queue)
    /\ UNCHANGED <<connect_, caller, handedOut, wanted, orphan>>
    /\ StartInLoop(state_, retryDelayMs_, timers)

(* A retry timer fires: nothing cancels it when stop or restart is called.  *)
RetryTimerFires ==
    /\ Running
    /\ timers > 0
    /\ UNCHANGED <<connect_, queue, caller, handedOut, wanted, orphan>>
    /\ StartInLoop(state_, retryDelayMs_, timers - 1)

(* restart() does not look at the channel of an attempt under way.          *)
Restart ==
    /\ Running
    /\ connect_' = TRUE
    /\ wanted' = TRUE
    /\ orphan' = IF state_ = "kConnecting" THEN channel_ ELSE orphan
    /\ StartInLoop("kDisConnected", kInitRetryDelayMs, timers)
    /\ UNCHANGED <<queue, caller, handedOut>>

(* Mutant: stopInLoop leaves an attempt under way alone.                    *)
RunStopInLoopIgnores ==
    /\ Running
    /\ queue # <<>> /\ Head(queue) = "stopInLoop"
    /\ queue' = Tail(queue)
    /\ Keep(state_, retryDelayMs_, timers)
    /\ UNCHANGED <<connect_, channel_, registered, caller, sockets, failed,
                   wanted, gaveUp, orphan>>

RunStopInLoop ==
    /\ Running
    /\ queue # <<>> /\ Head(queue) = "stopInLoop"
    /\ UNCHANGED <<connect_, channel_, caller, handedOut, failed, wanted, gaveUp,
                   orphan>>
    /\ \/ /\ state_ = "kConnecting"
          /\ RemoveAndResetChannel(Tail(queue))
          /\ open' = open \ {channel_}
          /\ Retry(retryDelayMs_, timers)
       \/ /\ state_ # "kConnecting"
          /\ queue' = Tail(queue)
          /\ Keep(state_, retryDelayMs_, timers)
          /\ UNCHANGED <<registered, open>>

RunResetChannel ==
    /\ Running
    /\ queue # <<>> /\ Head(queue) = "resetChannel"
    /\ queue' = Tail(queue)
    /\ channel_' = None
    /\ UNCHANGED <<connect_, state_, retryDelayMs_, registered, caller, timers,
                   sockets, failed, wanted, gaveUp, orphan>>

(* handleError, or handleWrite that finds SO_ERROR set or a self connection.*)
HandleFailure ==
    /\ Running
    /\ registered
    /\ state_ = "kConnecting"
    /\ RemoveAndResetChannel(queue)
    /\ open' = open \ {channel_}
    /\ UNCHANGED <<connect_, channel_, caller, handedOut, failed, wanted, gaveUp,
                   orphan>>
    /\ Retry(retryDelayMs_, timers)

(* Mutant: a connection nobody waits for any more is not closed.            *)
HandleConnectedLeaks ==
    /\ Running
    /\ registered
    /\ state_ = "kConnecting"
    /\ RemoveAndResetChannel(queue)
    /\ state_' = "kConnected"
    /\ handedOut' = IF connect_ THEN handedOut \cup {channel_} ELSE handedOut
    /\ UNCHANGED <<connect_, retryDelayMs_, channel_, caller, timers, open,
                   failed, wanted, gaveUp, orphan>>

(* handleWrite of an established connection.                                *)
HandleConnected ==
    /\ Running
    /\ registered
    /\ state_ = "kConnecting"
    /\ RemoveAndResetChannel(queue)
    /\ state_' = "kConnected"
    /\ IF connect_
       THEN /\ handedOut' = handedOut \cup {channel_}
            /\ UNCHANGED open
       ELSE /\ open' = open \ {channel_}
            /\ UNCHANGED handedOut
    /\ UNCHANGED <<connect_, retryDelayMs_, channel_, caller, timers,
                   failed, wanted, gaveUp, orphan>>

(* The owner of an established connection closes it.                        *)
UserCloses(fd) ==
    /\ fd \in handedOut
    /\ handedOut' = handedOut \ {fd}
    /\ open' = open \ {fd}
    /\ UNCHANGED <<connect_, state_, retryDelayMs_, channel_, registered, queue,
                   caller, timers, failed, wanted, gaveUp, orphan>>

Next ==
    \/ CallStart \/ CallStop \/ Enqueue
    \/ RunStartInLoop \/ RunStopInLoop \/ RunResetChannel
    \/ RetryTimerFires \/ Restart
    \/ HandleFailure \/ HandleConnected
    \/ \E fd \in Fds : UserCloses(fd)

Spec == Init /\ [][Next]_vars

-----------------------------------------------------------------------------
(* Every open socket is the user's or that of the attempt under way, which  *)
(* its handlers and stopInLoop will close, and none of theirs was closed.   *)
(* The exception is the socket of an attempt that was under way when        *)
(* restart() was called and whose successor did not get as far as the       *)
(* assertion in connecting(): its channel stays registered while state_ is  *)
(* kDisConnected, so that nothing ever closes it.                           *)
SocketsOwned ==
    Running =>
        open = handedOut \cup (IF state_ = "kConnecting" THEN {channel_} ELSE {})
                         \cup ({orphan} \ {None})

(* A queued resetChannel is for the channel that was removed, never for a   *)
(* newer one, and every removed channel has one queued.                     *)
ResetIsForRemoved ==
    Running =>
        Cardinality({k \in DOMAIN queue : queue[k] = "resetChannel"})
            = IF channel_ # None /\ ~registered THEN 1 ELSE 0

(* After stop() an attempt still under way is on its way to be closed: the  *)
(* stopInLoop of that call is queued or about to be.  (A startInLoop before *)
(* it in the queue would end the process, StartAsserts.)                    *)
StopFollows ==
    Running /\ state_ = "kConnecting" /\ ~wanted
        => caller = "stopInLoop" \/ \E k \in DOMAIN queue : queue[k] = "stopInLoop"

(* While a connection is asked for there is always a next attempt: nothing, *)
(* not a late stopInLoop or timer, leaves the connector idle, unless its    *)
(* last connect(2) failed with an error connect() does not retry after.     *)
NeverStalls ==
    Running /\ connect_ /\ state_ = "kDisConnected" /\ ~gaveUp => timers > 0

(* "not connected yet: go on connecting": connect_ says what was asked.     *)
ConnectIsWanted == caller = "none" => connect_ = wanted

(* assert(state_==kDisConnected) of startInLoop.                            *)
StartAsserts == failed # "startInLoop"
=============================================================================
