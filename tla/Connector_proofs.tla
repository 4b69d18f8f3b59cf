-------------------------- MODULE Connector_proofs --------------------------
(***************************************************************************)
(* Proofs about Connector, for any set of descriptors and any bounds on    *)
(* timers and queued functors.                                             *)
(*                                                                         *)
(* Four of the runs' invariants hold together or not at all: a socket is   *)
(* closed by the right owner because the registered channel is never one   *)
(* that was handed out, it is never one that was handed out because a new  *)
(* channel is made only after the old one is gone, and the old one goes    *)
(* exactly once because resetChannel is queued exactly when a channel was  *)
(* removed.  What the runs do not state and the induction needs is that    *)
(* the channel in the poller is that of the attempt under way or the one a *)
(* restart abandoned (AttemptIsWatched), and that connect_ is set only     *)
(* while a connection is wanted (AskedFor).                                *)
(***************************************************************************)
EXTENDS Connector, FiniteSetTheorems, TLAPS

Functors == {"startInLoop", "stopInLoop", "resetChannel"}

(* How many of the functors in q are resetChannel, and whether one is       *)
(* stopInLoop.                                                              *)
NoReset(q) == \A k \in DOMAIN q : q[k] # "resetChannel"
OneReset(q) == \E k \in DOMAIN q : \A j \in DOMAIN q : q[j] = "resetChannel" <=> j = k
HasStop(q) == \E k \in DOMAIN q : q[k] = "stopInLoop"

(* An attempt under way has its channel registered, and so has the one a    *)
(* restart abandoned; there is one of them at most, and it is not a socket  *)
(* the user has.                                                            *)
AttemptIsWatched ==
    Running => /\ registered <=> (state_ = "kConnecting" \/ orphan # None)
               /\ state_ = "kConnecting" => orphan = None
               /\ orphan # None => orphan = channel_
               /\ registered => channel_ \notin handedOut

AskedFor == connect_ => wanted

(* ResetIsForRemoved without counting.                                      *)
ResetPending ==
    Running => IF channel_ # None /\ ~registered THEN OneReset(queue) ELSE NoReset(queue)

Inv == /\ TypeOK
       /\ AttemptIsWatched /\ SocketsOwned
       /\ ResetPending
       /\ AskedFor /\ StopFollows /\ NeverStalls

-----------------------------------------------------------------------------
(* The queue of functors. *)

LEMMA AppendedCall ==
  ASSUME NEW q \in Seq(Functors), NEW f \in {"startInLoop", "stopInLoop"}
  PROVE  /\ Append(q, f) \in Seq(Functors)
         /\ NoReset(q) => NoReset(Append(q, f))
         /\ OneReset(q) => OneReset(Append(q, f))
         /\ f = "stopInLoop" \/ HasStop(q) => HasStop(Append(q, f))
<1> DEFINE a == Append(q, f)
<1>1. /\ a \in Seq(Functors) /\ Len(a) = Len(q) + 1 /\ DOMAIN a = 1 .. Len(q) + 1
      /\ DOMAIN q = 1 .. Len(q) /\ Len(q) \in Nat
      /\ \A k \in DOMAIN q : a[k] = q[k]
      /\ a[Len(q) + 1] = f
  BY DEF Functors
<1>2. NoReset(q) => NoReset(a)
  BY <1>1 DEF NoReset
<1>3. ASSUME OneReset(q) PROVE OneReset(a)
  <2>1. PICK k \in DOMAIN q : \A j \in DOMAIN q : q[j] = "resetChannel" <=> j = k
    BY <1>3 DEF OneReset
  <2>2. k \in DOMAIN a /\ \A j \in DOMAIN a : a[j] = "resetChannel" <=> j = k
    BY <1>1, <2>1
  <2> QED
    BY <2>2 DEF OneReset
<1>4. ASSUME f = "stopInLoop" \/ HasStop(q) PROVE HasStop(a)
  BY <1>1, <1>4 DEF HasStop
<1> QED
  BY <1>1, <1>2, <1>3, <1>4

LEMMA AppendedReset ==
  ASSUME NEW q \in Seq(Functors)
  PROVE  /\ Append(q, "resetChannel") \in Seq(Functors)
         /\ NoReset(q) => OneReset(Append(q, "resetChannel"))
<1> DEFINE a == Append(q, "resetChannel")
<1>1. /\ a \in Seq(Functors) /\ DOMAIN a = 1 .. Len(q) + 1
      /\ DOMAIN q = 1 .. Len(q) /\ Len(q) \in Nat
      /\ \A k \in DOMAIN q : a[k] = q[k]
      /\ a[Len(q) + 1] = "resetChannel"
  BY DEF Functors
<1>2. ASSUME NoReset(q) PROVE OneReset(a)
  <2>1. /\ Len(q) + 1 \in DOMAIN a
        /\ \A j \in DOMAIN a : a[j] = "resetChannel" <=> j = Len(q) + 1
    BY <1>1, <1>2 DEF NoReset
  <2> QED
    BY <2>1 DEF OneReset
<1> QED
  BY <1>1, <1>2

LEMMA Rest ==
  ASSUME NEW q \in Seq(Functors), q # <<>>
  PROVE  /\ Tail(q) \in Seq(Functors)
         /\ NoReset(q) => NoReset(Tail(q))
         /\ OneReset(q) /\ Head(q) # "resetChannel" => OneReset(Tail(q))
         /\ OneReset(q) /\ Head(q) = "resetChannel" => NoReset(Tail(q))
         /\ HasStop(q) /\ Head(q) = "resetChannel" => HasStop(Tail(q))
         /\ NoReset(q) => Head(q) # "resetChannel"
<1> DEFINE r == Tail(q)
<1>1. /\ r \in Seq(Functors) /\ DOMAIN r = 1 .. Len(q) - 1
      /\ DOMAIN q = 1 .. Len(q) /\ Len(q) \in Nat /\ Len(q) > 0
      /\ \A k \in DOMAIN r : r[k] = q[k + 1]
      /\ Head(q) = q[1]
  OBVIOUS
<1>2. NoReset(q) => NoReset(r) /\ Head(q) # "resetChannel"
  BY <1>1 DEF NoReset
<1>3. ASSUME OneReset(q) PROVE IF Head(q) = "resetChannel" THEN NoReset(r) ELSE OneReset(r)
  <2>1. PICK k \in DOMAIN q : \A j \in DOMAIN q : q[j] = "resetChannel" <=> j = k
    BY <1>3 DEF OneReset
  <2>2. CASE k = 1
    BY <1>1, <2>1, <2>2 DEF NoReset
  <2>3. CASE k # 1
    <3>1. k - 1 \in DOMAIN r /\ \A j \in DOMAIN r : r[j] = "resetChannel" <=> j = k - 1
      BY <1>1, <2>1, <2>3
    <3>2. Head(q) # "resetChannel"
      BY <1>1, <2>1, <2>3
    <3> QED
      BY <3>1, <3>2 DEF OneReset
  <2> QED
    BY <2>2, <2>3
<1>4. ASSUME HasStop(q), Head(q) = "resetChannel" PROVE HasStop(r)
  <2>1. PICK k \in DOMAIN q : q[k] = "stopInLoop"
    BY <1>4 DEF HasStop
  <2>2. k - 1 \in DOMAIN r /\ r[k - 1] = "stopInLoop"
    BY <1>1, <1>4, <2>1
  <2> QED
    BY <2>2 DEF HasStop
<1> QED
  BY <1>1, <1>2, <1>3, <1>4

-----------------------------------------------------------------------------
(* The parts of the handlers. *)

Delays == kInitRetryDelayMs .. kMaxRetryDelayMs

LEMMA InitialDelay == kInitRetryDelayMs \in kInitRetryDelayMs .. kMaxRetryDelayMs
<1>1. 30 * 1000 = 30000
  OBVIOUS
<1> QED
  BY <1>1 DEF kInitRetryDelayMs, kMaxRetryDelayMs

(* A value not below the range, capped at its top, is in the range.         *)
LEMMA CappedIsInRange ==
  ASSUME NEW lo \in Int, NEW hi \in Int, lo <= hi, NEW d \in Int, lo <= d
  PROVE  (IF d > hi THEN hi ELSE d) \in lo .. hi
<1>1. CASE d > hi
  BY <1>1
<1>2. CASE d <= hi
  BY <1>2
<1> QED
  BY <1>1, <1>2

(* Doubling a delay and capping it, as retry() does, leaves a delay.        *)
LEMMA DoubledStaysInRange ==
  ASSUME NEW ms \in Delays
  PROVE  Doubled(ms) \in Delays
<1> DEFINE lo == kInitRetryDelayMs
           hi == kMaxRetryDelayMs
           d  == 2 * ms
<1>1. lo \in Int /\ hi \in Int /\ lo <= hi /\ 0 <= lo
  BY DEF kInitRetryDelayMs, kMaxRetryDelayMs
<1>2. ms \in lo .. hi /\ Delays = lo .. hi
  BY DEF Delays
<1>3. Doubled(ms) = IF d > hi THEN hi ELSE d
  BY DEF Doubled
<1> HIDE DEF lo, hi
<1>4. ms \in Int /\ lo <= ms
  BY <1>1, <1>2
<1>5. d \in Int /\ lo <= d
  BY <1>1, <1>4
<1> HIDE DEF d
<1>6. (IF d > hi THEN hi ELSE d) \in lo .. hi
  BY <1>1, <1>5, CappedIsInRange
<1> QED
  BY <1>2, <1>3, <1>6

LEMMA RetryKeeps ==
  ASSUME NEW ms \in Delays, NEW pending \in 0 .. MaxTimers, Retry(ms, pending)
  PROVE  /\ state_' = "kDisConnected"
         /\ retryDelayMs_' \in Delays
         /\ timers' \in 0 .. MaxTimers
         /\ connect_' => timers' > 0
<1>1. CASE connect_'
  <2>1. timers' = pending + 1 /\ retryDelayMs_' = Doubled(ms) /\ pending < MaxTimers
    BY <1>1 DEF Retry
  <2>2. Doubled(ms) \in Delays
    BY DoubledStaysInRange
  <2> QED
    BY <2>1, <2>2, ConstantsAssumption DEF Retry
<1>2. CASE ~connect_'
  BY <1>2, ConstantsAssumption DEF Retry
<1> QED
  BY <1>1, <1>2

(* startInLoop, called as the functor, the timer or restart() does.  An     *)
(* attempt it starts is wanted and watched, and it neither removes a        *)
(* channel nor makes one beside another.                                    *)
LEMMA StartInLoopKeeps ==
  ASSUME Inv, Running, NEW state \in States, NEW ms \in Delays,
         NEW pending \in 0 .. MaxTimers, StartInLoop(state, ms, pending),
         state = state_ \/ state = "kDisConnected",
         connect_' \in BOOLEAN, UNCHANGED handedOut,
         orphan' = IF state # state_ /\ state_ = "kConnecting" THEN channel_ ELSE orphan
  PROVE  /\ state_' \in States /\ retryDelayMs_' \in Delays
         /\ timers' \in 0 .. MaxTimers
         /\ channel_' \in Fds \cup {None} /\ registered' \in BOOLEAN
         /\ registered' => channel_' # None
         /\ handedOut' \subseteq open' /\ open' \subseteq Fds
         /\ failed' \in {"none", "startInLoop", "connecting"}
         /\ gaveUp' \in BOOLEAN /\ orphan' \in Fds \cup {None}
         /\ AttemptIsWatched' /\ SocketsOwned' /\ NeverStalls'
         /\ Running' =>
               /\ state_' = "kConnecting" => connect_'
               /\ (channel_' # None /\ ~registered') <=> (channel_ # None /\ ~registered)
<1> USE DEF Running
<1>0. /\ state # state_ => open = handedOut \cup ({orphan'} \ {None})
      /\ orphan' \in Fds \cup {None}
      /\ registered <=> orphan' # None \/ (state = state_ /\ state_ = "kConnecting")
      /\ state # state_ /\ orphan' # None => orphan' = channel_
  <2>1. CASE state = state_
    BY <2>1 DEF Inv, TypeOK, AttemptIsWatched
  <2>2. CASE state # state_ /\ state_ = "kConnecting"
    BY <2>2, ConstantsAssumption DEF Inv, TypeOK, AttemptIsWatched, SocketsOwned
  <2>3. CASE state # state_ /\ state_ # "kConnecting"
    BY <2>3 DEF Inv, TypeOK, AttemptIsWatched, SocketsOwned
  <2> QED
    BY <2>1, <2>2, <2>3
<1>1. CASE state = "kDisConnected" /\ connect_' /\ Connect(ms, pending)
  <2>1. CASE /\ channel_ = None
             /\ \E fd \in Fds \ open : channel_' = fd /\ open' = open \cup {fd}
             /\ registered' = TRUE
             /\ Keep("kConnecting", ms, pending)
             /\ gaveUp' = FALSE
             /\ UNCHANGED failed
    <3>1. PICK fd \in Fds \ open : channel_' = fd /\ open' = open \cup {fd}
      BY <2>1
    <3>2. fd # None /\ fd \notin handedOut /\ ~registered
      BY <2>1, <3>1, ConstantsAssumption DEF Inv, TypeOK
    <3> QED
      BY <1>1, <2>1, <3>1, <3>2
         DEF Inv, TypeOK, Keep, States, AttemptIsWatched, SocketsOwned, NeverStalls
  <2>2. CASE /\ channel_ # None
             /\ failed' = "connecting"
             /\ Keep("kConnecting", ms, pending)
             /\ gaveUp' = FALSE
             /\ UNCHANGED <<channel_, registered, open>>
    BY <2>2 DEF Inv, TypeOK, Keep, States, AttemptIsWatched, SocketsOwned, NeverStalls
  <2>3. CASE /\ Retry(ms, pending)
             /\ gaveUp' = FALSE
             /\ UNCHANGED <<channel_, registered, open, failed>>
    BY <1>0, <1>1, <2>3, RetryKeeps
       DEF Inv, TypeOK, States, AttemptIsWatched, SocketsOwned, NeverStalls
  <2>4. CASE /\ gaveUp' = TRUE
             /\ Keep("kDisConnected", ms, pending)
             /\ UNCHANGED <<channel_, registered, open, failed>>
    BY <1>0, <1>1, <2>4
       DEF Inv, TypeOK, Keep, States, AttemptIsWatched, SocketsOwned, NeverStalls
  <2> QED
    BY <1>1, <2>1, <2>2, <2>3, <2>4 DEF Connect
<1>2. CASE /\ state = "kDisConnected"
           /\ ~connect_'
           /\ Keep(state, ms, pending)
           /\ UNCHANGED <<channel_, registered, open, failed, gaveUp>>
  BY <1>2 DEF Inv, TypeOK, Keep, States, AttemptIsWatched, SocketsOwned, NeverStalls
<1>3. CASE /\ state # "kDisConnected"
           /\ failed' = "startInLoop"
           /\ Keep(state, ms, pending)
           /\ UNCHANGED <<channel_, registered, open, gaveUp>>
  BY <1>3 DEF Inv, TypeOK, Keep, States, AttemptIsWatched, SocketsOwned, NeverStalls
<1> QED
  BY <1>1, <1>2, <1>3 DEF StartInLoop

-----------------------------------------------------------------------------
(* The actions. *)

LEMMA InvInit == Init => Inv
<1> SUFFICES ASSUME Init PROVE Inv
  OBVIOUS
<1>1. TypeOK
  <2>1. /\ connect_ \in BOOLEAN /\ state_ \in States /\ channel_ \in Fds \cup {None}
        /\ retryDelayMs_ \in kInitRetryDelayMs .. kMaxRetryDelayMs
        /\ registered = FALSE
        /\ handedOut \subseteq open /\ open \subseteq Fds
        /\ wanted \in BOOLEAN /\ gaveUp \in BOOLEAN /\ orphan \in Fds \cup {None}
    BY InitialDelay DEF Init, States
  <2>2. /\ queue \in Seq({"startInLoop", "stopInLoop", "resetChannel"})
        /\ timers \in 0 .. MaxTimers
        /\ caller \in {"none", "startInLoop", "stopInLoop"}
        /\ failed \in {"none", "startInLoop", "connecting"}
    BY ConstantsAssumption DEF Init
  <2> QED
    BY <2>1, <2>2 DEF TypeOK
<1>2. AttemptIsWatched /\ SocketsOwned /\ AskedFor /\ StopFollows /\ NeverStalls
  BY DEF Init, AttemptIsWatched, SocketsOwned, AskedFor, StopFollows, NeverStalls
<1>3. ResetPending
  BY DEF Init, ResetPending, NoReset
<1> QED
  BY <1>1, <1>2, <1>3 DEF Inv

(* start() and stop() lower connect_ before their functor is queued.        *)
LEMMA CallKeeps == ASSUME Inv, CallStart \/ CallStop PROVE Inv'
<1> USE DEF Inv, Running
<1>1. /\ connect_' = FALSE /\ wanted' \in BOOLEAN /\ gaveUp' \in BOOLEAN
      /\ caller' \in {"startInLoop", "stopInLoop"}
      /\ wanted' \/ caller' = "stopInLoop"
      /\ UNCHANGED <<state_, retryDelayMs_, channel_, registered, queue, timers,
                     open, handedOut, failed, orphan>>
  BY DEF CallStart, CallStop, TypeOK, sockets
<1>2. TypeOK'
  BY <1>1 DEF TypeOK
<1>3. AttemptIsWatched' /\ SocketsOwned' /\ AskedFor' /\ StopFollows' /\ NeverStalls'
  BY <1>1 DEF TypeOK, AttemptIsWatched, SocketsOwned, AskedFor, StopFollows, NeverStalls
<1>4. ResetPending'
  BY <1>1 DEF ResetPending
<1> QED
  BY <1>2, <1>3, <1>4

LEMMA EnqueueKeeps == ASSUME Inv, Enqueue PROVE Inv'
<1> USE DEF Inv, Running
<1>1. caller \in {"startInLoop", "stopInLoop"} /\ queue \in Seq(Functors)
  BY DEF Enqueue, TypeOK, Functors
<1>2. /\ queue' \in Seq(Functors)
      /\ caller = "stopInLoop" \/ HasStop(queue) => HasStop(queue')
      /\ NoReset(queue) => NoReset(queue')
      /\ OneReset(queue) => OneReset(queue')
  BY <1>1, AppendedCall DEF Enqueue
<1>3. TypeOK'
  BY <1>2 DEF Enqueue, TypeOK, Functors, sockets
<1>4. AttemptIsWatched' /\ SocketsOwned' /\ AskedFor' /\ NeverStalls'
  BY DEF Enqueue, sockets, AttemptIsWatched, SocketsOwned, AskedFor, NeverStalls
<1>5. StopFollows'
  BY <1>2 DEF Enqueue, StopFollows, HasStop
<1>6. ResetPending'
  BY <1>2 DEF Enqueue, ResetPending
<1> QED
  BY <1>3, <1>4, <1>5, <1>6

(* The three callers of startInLoop change nothing else but the queue.      *)
LEMMA StartInLoopInv ==
  ASSUME Inv, Running, NEW state \in States, NEW ms \in Delays,
         NEW pending \in 0 .. MaxTimers, StartInLoop(state, ms, pending),
         state = state_ \/ state = "kDisConnected",
         connect_' \in BOOLEAN, wanted' \in BOOLEAN, UNCHANGED <<caller, handedOut>>,
         connect_' => wanted',
         orphan' = IF state # state_ /\ state_ = "kConnecting" THEN channel_ ELSE orphan,
         queue' \in Seq(Functors),
         NoReset(queue) => NoReset(queue'),
         OneReset(queue) => OneReset(queue')
  PROVE  Inv'
<1>1. /\ state_' \in States /\ retryDelayMs_' \in Delays
      /\ timers' \in 0 .. MaxTimers
      /\ channel_' \in Fds \cup {None} /\ registered' \in BOOLEAN
      /\ registered' => channel_' # None
      /\ handedOut' \subseteq open' /\ open' \subseteq Fds
      /\ failed' \in {"none", "startInLoop", "connecting"}
      /\ gaveUp' \in BOOLEAN /\ orphan' \in Fds \cup {None}
      /\ AttemptIsWatched' /\ SocketsOwned' /\ NeverStalls'
      /\ Running' =>
            /\ state_' = "kConnecting" => connect_'
            /\ (channel_' # None /\ ~registered') <=> (channel_ # None /\ ~registered)
  BY StartInLoopKeeps
<1>2. TypeOK'
  BY <1>1 DEF TypeOK, Inv, Functors, Delays
<1>3. AskedFor' /\ StopFollows'
  BY <1>1 DEF AskedFor, StopFollows
<1>4. ResetPending'
  BY <1>1 DEF ResetPending, Inv
<1> QED
  BY <1>1, <1>2, <1>3, <1>4 DEF Inv

LEMMA RunStartInLoopKeeps == ASSUME Inv, RunStartInLoop PROVE Inv'
<1>1. /\ queue \in Seq(Functors) /\ queue # <<>> /\ queue' = Tail(queue)
      /\ Head(queue) # "resetChannel"
  BY DEF RunStartInLoop, Inv, TypeOK, Functors
<1>2. /\ queue' \in Seq(Functors)
      /\ NoReset(queue) => NoReset(queue')
      /\ OneReset(queue) => OneReset(queue')
  BY <1>1, Rest
<1>3. /\ StartInLoop(state_, retryDelayMs_, timers) /\ Running
      /\ UNCHANGED <<connect_, caller, handedOut, wanted, orphan>>
  BY DEF RunStartInLoop
<1>4. /\ state_ \in States /\ retryDelayMs_ \in Delays /\ timers \in 0 .. MaxTimers
      /\ connect_' \in BOOLEAN /\ wanted' \in BOOLEAN /\ (connect_' => wanted')
  BY <1>3 DEF Inv, TypeOK, Delays, AskedFor
<1> QED
  BY <1>2, <1>3, <1>4, StartInLoopInv

LEMMA RetryTimerFiresKeeps == ASSUME Inv, RetryTimerFires PROVE Inv'
<1>1. /\ StartInLoop(state_, retryDelayMs_, timers - 1) /\ Running /\ timers > 0
      /\ UNCHANGED <<connect_, queue, caller, handedOut, wanted, orphan>>
  BY DEF RetryTimerFires
<1>2. /\ state_ \in States /\ retryDelayMs_ \in Delays /\ timers - 1 \in 0 .. MaxTimers
      /\ connect_' \in BOOLEAN /\ wanted' \in BOOLEAN /\ queue' \in Seq(Functors)
      /\ connect_' => wanted'
  BY <1>1, ConstantsAssumption DEF Inv, TypeOK, Delays, Functors, AskedFor
<1>3. /\ NoReset(queue) => NoReset(queue')
      /\ OneReset(queue) => OneReset(queue')
  BY <1>1
<1> QED
  BY <1>1, <1>2, <1>3, StartInLoopInv

LEMMA RestartKeeps == ASSUME Inv, Restart PROVE Inv'
<1>1. /\ StartInLoop("kDisConnected", kInitRetryDelayMs, timers) /\ Running
      /\ connect_' \in BOOLEAN /\ wanted' = TRUE
      /\ UNCHANGED <<queue, caller, handedOut>>
      /\ orphan' = IF state_ = "kConnecting" THEN channel_ ELSE orphan
  BY DEF Restart
<1>2. kInitRetryDelayMs \in Delays
  BY InitialDelay DEF Delays
<1>3. "kDisConnected" \in States /\ timers \in 0 .. MaxTimers /\ queue' \in Seq(Functors)
  BY <1>1 DEF Inv, TypeOK, States, Functors
<1>4. /\ NoReset(queue) => NoReset(queue')
      /\ OneReset(queue) => OneReset(queue')
  BY <1>1
<1> QED
  BY <1>1, <1>2, <1>3, <1>4, StartInLoopInv

(* An attempt ends, by stopInLoop or by an error: its socket is closed, its *)
(* channel removed and the next attempt arranged.                           *)
LEMMA AttemptEnds ==
  ASSUME Inv, Running, registered, state_ = "kConnecting",
         NEW q \in Seq(Functors), NoReset(q),
         RemoveAndResetChannel(q), open' = open \ {channel_},
         Retry(retryDelayMs_, timers),
         UNCHANGED <<connect_, channel_, caller, handedOut, failed, wanted, gaveUp, orphan>>
  PROVE  Inv'
<1>1. /\ state_' = "kDisConnected"
      /\ retryDelayMs_' \in Delays
      /\ timers' \in 0 .. MaxTimers
      /\ connect_' => timers' > 0
  BY RetryKeeps DEF Inv, TypeOK, Delays
<1>2. /\ registered' = FALSE
      /\ queue' \in Seq(Functors)
      /\ OneReset(queue')
  BY AppendedReset DEF RemoveAndResetChannel
<1>3. /\ channel_ # None /\ channel_ \notin handedOut /\ orphan = None
      /\ open = handedOut \cup {channel_}
  BY DEF Inv, TypeOK, AttemptIsWatched, SocketsOwned
<1>4. TypeOK'
  BY <1>1, <1>2, <1>3 DEF Inv, TypeOK, Delays, Functors, States
<1>5. AttemptIsWatched' /\ SocketsOwned' /\ AskedFor' /\ StopFollows' /\ NeverStalls'
  BY <1>1, <1>2, <1>3
     DEF Inv, AttemptIsWatched, SocketsOwned, AskedFor, StopFollows, NeverStalls
<1>6. ResetPending'
  BY <1>2, <1>3 DEF ResetPending
<1> QED
  BY <1>4, <1>5, <1>6 DEF Inv

LEMMA RunStopInLoopKeeps == ASSUME Inv, RunStopInLoop PROVE Inv'
<1>1. /\ queue \in Seq(Functors) /\ queue # <<>> /\ Head(queue) # "resetChannel" /\ Running
      /\ UNCHANGED <<connect_, channel_, caller, handedOut, failed, wanted, gaveUp,
                     orphan>>
  BY DEF RunStopInLoop, Inv, TypeOK, Functors
<1>2. /\ Tail(queue) \in Seq(Functors)
      /\ NoReset(queue) => NoReset(Tail(queue))
      /\ OneReset(queue) => OneReset(Tail(queue))
  BY <1>1, Rest
<1>3. CASE /\ state_ = "kConnecting"
           /\ RemoveAndResetChannel(Tail(queue))
           /\ open' = open \ {channel_}
           /\ Retry(retryDelayMs_, timers)
  <2>1. registered /\ NoReset(Tail(queue))
    BY <1>1, <1>2, <1>3 DEF Inv, AttemptIsWatched, ResetPending
  <2> QED
    BY <1>1, <1>2, <1>3, <2>1, AttemptEnds
<1>4. CASE /\ state_ # "kConnecting"
           /\ queue' = Tail(queue)
           /\ Keep(state_, retryDelayMs_, timers)
           /\ UNCHANGED <<registered, open>>
  <2>1. TypeOK'
    BY <1>1, <1>2, <1>4 DEF Inv, TypeOK, Keep, Functors
  <2>2. AttemptIsWatched' /\ SocketsOwned' /\ AskedFor' /\ StopFollows' /\ NeverStalls'
    BY <1>1, <1>4 DEF Inv, Running, Keep, AttemptIsWatched, SocketsOwned, AskedFor,
                      StopFollows, NeverStalls
  <2>3. ResetPending'
    BY <1>1, <1>2, <1>4 DEF Inv, Running, ResetPending
  <2> QED
    BY <2>1, <2>2, <2>3 DEF Inv
<1> QED
  BY <1>3, <1>4 DEF RunStopInLoop

(* The channel that goes is the removed one: a registered one would have    *)
(* no resetChannel in the queue.                                            *)
LEMMA RunResetChannelKeeps == ASSUME Inv, RunResetChannel PROVE Inv'
<1>1. /\ queue \in Seq(Functors) /\ queue # <<>> /\ Head(queue) = "resetChannel" /\ Running
      /\ queue' = Tail(queue) /\ channel_' = None
      /\ UNCHANGED <<connect_, state_, retryDelayMs_, registered, caller, timers,
                     open, handedOut, failed, wanted, gaveUp, orphan>>
  BY DEF RunResetChannel, Inv, TypeOK, Functors, sockets
<1>2. /\ Tail(queue) \in Seq(Functors)
      /\ NoReset(queue) => Head(queue) # "resetChannel"
      /\ OneReset(queue) => NoReset(Tail(queue))
      /\ HasStop(queue) => HasStop(Tail(queue))
  BY <1>1, Rest
<1>3. ~registered /\ NoReset(queue')
  BY <1>1, <1>2 DEF Inv, ResetPending
<1>4. TypeOK'
  BY <1>1, <1>2, <1>3 DEF Inv, TypeOK, Functors
<1>5. AttemptIsWatched' /\ SocketsOwned' /\ AskedFor' /\ NeverStalls'
  BY <1>1, <1>3 DEF Inv, Running, AttemptIsWatched, SocketsOwned, AskedFor, NeverStalls
<1>6. StopFollows'
  BY <1>1, <1>2 DEF Inv, Running, StopFollows, HasStop
<1>7. ResetPending'
  BY <1>1, <1>3 DEF ResetPending
<1> QED
  BY <1>4, <1>5, <1>6, <1>7 DEF Inv

LEMMA HandleFailureKeeps == ASSUME Inv, HandleFailure PROVE Inv'
<1>1. queue \in Seq(Functors) /\ NoReset(queue)
  BY DEF HandleFailure, Inv, TypeOK, Functors, ResetPending
<1> QED
  BY <1>1, AttemptEnds DEF HandleFailure

LEMMA HandleConnectedKeeps == ASSUME Inv, HandleConnected PROVE Inv'
<1>1. /\ Running /\ registered /\ state_ = "kConnecting" /\ state_' = "kConnected"
      /\ RemoveAndResetChannel(queue)
      /\ UNCHANGED <<connect_, retryDelayMs_, channel_, caller, timers,
                     failed, wanted, gaveUp, orphan>>
      /\ IF connect_ THEN handedOut' = handedOut \cup {channel_} /\ open' = open
                     ELSE open' = open \ {channel_} /\ handedOut' = handedOut
  BY DEF HandleConnected
<1>2. queue \in Seq(Functors) /\ NoReset(queue)
  BY <1>1 DEF Inv, TypeOK, Functors, ResetPending
<1>3. registered' = FALSE /\ queue' \in Seq(Functors) /\ OneReset(queue')
  BY <1>1, <1>2, AppendedReset DEF RemoveAndResetChannel
<1>4. /\ channel_ \in Fds /\ channel_ \notin handedOut /\ orphan = None
      /\ open = handedOut \cup {channel_}
  BY <1>1 DEF Inv, TypeOK, AttemptIsWatched, SocketsOwned
<1>5. handedOut' = open' /\ open' \subseteq Fds
  BY <1>1, <1>4 DEF Inv, TypeOK
<1>6. TypeOK'
  BY <1>1, <1>3, <1>5 DEF Inv, TypeOK, Functors, States
<1>7. AttemptIsWatched' /\ SocketsOwned' /\ AskedFor' /\ StopFollows' /\ NeverStalls'
  BY <1>1, <1>3, <1>4, <1>5
     DEF Inv, AttemptIsWatched, SocketsOwned, AskedFor, StopFollows, NeverStalls
<1>8. channel_ # None
  BY <1>4, ConstantsAssumption
<1>9. ResetPending'
  BY <1>1, <1>3, <1>8 DEF ResetPending
<1> QED
  BY <1>6, <1>7, <1>9 DEF Inv

(* The user closes a socket of its own, maybe after the process has met a   *)
(* failed assertion.                                                        *)
LEMMA UserClosesKeeps == ASSUME Inv, NEW fd \in Fds, UserCloses(fd) PROVE Inv'
<1> USE DEF Running
<1>1. TypeOK'
  BY DEF UserCloses, Inv, TypeOK
<1>2. AttemptIsWatched' /\ SocketsOwned'
  BY DEF UserCloses, Inv, AttemptIsWatched, SocketsOwned
<1>3. AskedFor' /\ StopFollows' /\ NeverStalls'
  BY DEF UserCloses, Inv, AskedFor, StopFollows, NeverStalls
<1>4. ResetPending'
  BY DEF UserCloses, Inv, ResetPending
<1> QED
  BY <1>1, <1>2, <1>3, <1>4 DEF Inv

LEMMA InvNext == Inv /\ [Next]_vars => Inv'
<1>1. ASSUME Inv, Next PROVE Inv'
  BY <1>1, CallKeeps, EnqueueKeeps, RunStartInLoopKeeps, RunStopInLoopKeeps,
     RunResetChannelKeeps, RetryTimerFiresKeeps, RestartKeeps, HandleFailureKeeps,
     HandleConnectedKeeps, UserClosesKeeps DEF Next
<1>2. ASSUME Inv, UNCHANGED vars PROVE Inv'
  <2>1. TypeOK' /\ AttemptIsWatched' /\ SocketsOwned'
    BY <1>2 DEF Inv, vars, sockets, Running, TypeOK, AttemptIsWatched, SocketsOwned
  <2>2. AskedFor' /\ StopFollows' /\ NeverStalls' /\ ResetPending'
    BY <1>2 DEF Inv, vars, sockets, Running, AskedFor, StopFollows, NeverStalls,
                ResetPending
  <2> QED
    BY <2>1, <2>2 DEF Inv
<1> QED
  BY <1>1, <1>2

LEMMA Invariance == Spec => []Inv
BY InvInit, InvNext, PTL DEF Spec

-----------------------------------------------------------------------------
(* The results. *)

(* The variables have their types: retryDelayMs_ stays between 500 ms and   *)
(* 30 s, and a registered channel exists.                                   *)
THEOREM TypeCorrect == Spec => []TypeOK
<1>1. Inv => TypeOK
  BY DEF Inv
<1> QED
  BY <1>1, Invariance, PTL

(* Whatever start, stop, restart, errors and timers do to each other, an    *)
(* open socket is the user's or that of the attempt under way, and none is  *)
(* closed twice (Connector.cpp:83, 87, 139, 158); the one socket that is    *)
(* left open for ever is that of an attempt under way at a restart() whose  *)
(* own connect() failed.                                                    *)
THEOREM EverySocketHasItsOwner == Spec => []SocketsOwned
<1>1. Inv => SocketsOwned
  BY DEF Inv
<1> QED
  BY <1>1, Invariance, PTL

LEMMA CountResets ==
  ASSUME NEW q \in Seq(Functors)
  PROVE  LET resets == {k \in DOMAIN q : q[k] = "resetChannel"}
         IN  /\ NoReset(q) => Cardinality(resets) = 0
             /\ OneReset(q) => Cardinality(resets) = 1
<1> DEFINE resets == {k \in DOMAIN q : q[k] = "resetChannel"}
<1>1. ASSUME NoReset(q) PROVE Cardinality(resets) = 0
  <2>1. resets = {}
    BY <1>1 DEF NoReset
  <2> QED
    BY <2>1, FS_EmptySet
<1>2. ASSUME OneReset(q) PROVE Cardinality(resets) = 1
  <2>1. PICK k \in DOMAIN q : \A j \in DOMAIN q : q[j] = "resetChannel" <=> j = k
    BY <1>2 DEF OneReset
  <2>2. resets = {k}
    BY <2>1
  <2> QED
    BY <2>2, FS_Singleton
<1> QED
  BY <1>1, <1>2

(* The queued resetChannel destroys the channel it was queued for: a new    *)
(* attempt cannot have put its own into channel_ by then                    *)
(* (removeAndResetChannel and resetChannel, Connector.cpp:111-121).         *)
THEOREM ResetMeetsItsChannel == Spec => []ResetIsForRemoved
<1>1. Inv => ResetIsForRemoved
  <2> SUFFICES ASSUME Inv, Running PROVE ResetIsForRemoved
    BY DEF ResetIsForRemoved
  <2>1. queue \in Seq(Functors)
    BY DEF Inv, TypeOK, Functors
  <2>2. IF channel_ # None /\ ~registered THEN OneReset(queue) ELSE NoReset(queue)
    BY DEF Inv, ResetPending
  <2> QED
    BY <2>1, <2>2, CountResets DEF ResetIsForRemoved
<1> QED
  BY <1>1, Invariance, PTL

(* After stop() an attempt does not stay under way: the stopInLoop of that  *)
(* call is still to run.                                                    *)
THEOREM StopIsFollowed == Spec => []StopFollows
<1>1. Inv => StopFollows
  BY DEF Inv
<1> QED
  BY <1>1, Invariance, PTL

(* While connect_ is set, a connector that is neither connecting nor        *)
(* connected, and did not give up in its last connect(2), has a retry timer.*)
THEOREM RetriesGoOn == Spec => []NeverStalls
<1>1. Inv => NeverStalls
  BY DEF Inv
<1> QED
  BY <1>1, Invariance, PTL
=============================================================================
