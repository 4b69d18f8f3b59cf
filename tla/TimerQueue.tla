----------------------------- MODULE TimerQueue -----------------------------
(***************************************************************************)
(* myMuduo/lib/TimerQueue.cpp: timers ordered by expiration in timers_, by *)
(* object in activeTimers_, and one timerfd armed for the earliest.        *)
(* addTimer and cancel may be called from any thread; the work is done on  *)
(* the loop thread, at once when that is the caller and otherwise through  *)
(* EventLoop::queueInLoop, here the FIFO queue that module EventLoop is    *)
(* shown to implement.                                                     *)
(*                                                                         *)
(* A Timer object is an address with its fields, so that an address can be *)
(* freed and reused: a TimerId is the pair of an address and a sequence    *)
(* number.  Time is counted in units of which a second has Second.  There  *)
(* are two clocks: Timestamp::now() is the wall clock, which can be set;   *)
(* the timerfd counts down on CLOCK_MONOTONIC, which cannot.  The 100      *)
(* microseconds that howMuchTimeFromNow arms at least are less than a      *)
(* unit, so a timerfd armed for the past is readable at once.              *)
(***************************************************************************)
EXTENDS Integers, Sequences, FiniteSetsExt, SequencesExt

CONSTANTS Addrs,      \* addresses operator new can return
          NoTimer,    \* the thread holds no Timer*
          Threads,    \* the threads other than the loop's own
          Second,     \* units of time in a second
          Intervals,  \* intervals a timer is created with, 0 = runs once
          MaxTime,    \* bound: the wall clock goes no further
          MaxSteps,   \* bound: how often somebody sets the wall clock
          MaxSeq,     \* bound: timers created in a behaviour
          MaxPending  \* bound: functors queued at a time

ASSUME ConstantsAssumption ==
    /\ NoTimer \notin Addrs
    /\ Second \in Nat \ {0}
    /\ Intervals \subseteq Nat
    /\ MaxTime \in Nat \ {0} /\ MaxSteps \in Nat
    /\ MaxSeq \in Nat /\ MaxPending \in Nat

VARIABLES
    now,                  \* the wall clock
    steps,                \* how often it has been set
    live,                 \* addresses that hold a Timer
    expiration, interval, sequence,   \* fields of the Timer at an address
    s_numCreate_,         \* the next sequence number
    timers_,              \* set of <<expiration, address>>
    activeTimers_,        \* set of <<address, sequence>>
    cancelingTimers_,     \* set of <<address, sequence>>
    callingExpiredTimer_,
    timerfd,              \* time left until it is readable, or Off
    drift,                \* history: what the wall clock has gained on the
                          \* monotonic one since the timerfd was armed
    pc,                   \* the loop thread: idle, run, callback
    expired,              \* addresses getExpired took out of timers_
    toRun,                \* those whose callback has not been called
    handledAt,            \* the time handleRead read
    pending,              \* functors queued on the loop
    caller, held,         \* each thread in addTimer, and its Timer*
    made,                 \* history: the number of the timer it created
    ids,                  \* TimerIds that addTimer has returned
    asked,                \* history: those that were passed to cancel
    cancelled             \* history: cancelInLoop has seen this timer

fields == <<expiration, interval, sequence>>
sets == <<timers_, activeTimers_>>
handling == <<pc, expired, toRun, handledAt, callingExpiredTimer_>>
threads == <<caller, held, made>>
clock == <<now, steps>>
arming == <<timerfd, drift>>
given == <<ids, asked>>
vars == <<clock, live, fields, s_numCreate_, sets, cancelingTimers_, arming,
          handling, pending, threads, given, cancelled>>

Off == -1       \* timerfd is not armed
NoSeq == -1     \* a number no timer has: what freed memory may hold

TimerIds == Addrs \X (0 .. MaxSeq - 1 \cup {NoSeq})

(* What addTimer returned, and the number of the timer it was called for,   *)
(* which the caller takes the id to name.                                   *)
Returned == [id : TimerIds, of : 0 .. MaxSeq - 1]

Functors == [op : {"add"}, timer : Addrs] \cup [op : {"cancel"}, id : TimerIds]

TypeOK ==
    /\ now \in 1 .. MaxTime
    /\ steps \in 0 .. MaxSteps
    /\ live \subseteq Addrs
    /\ expiration \in [Addrs -> Nat]
    /\ interval \in [Addrs -> Nat]
    /\ sequence \in [Addrs -> Int]
    /\ s_numCreate_ \in 0 .. MaxSeq
    /\ timers_ \subseteq Nat \X Addrs
    /\ activeTimers_ \subseteq Addrs \X Int
    /\ cancelingTimers_ \subseteq Addrs \X Int
    /\ callingExpiredTimer_ \in BOOLEAN
    /\ timerfd \in Nat \cup {Off}
    /\ drift \in Int
    /\ pc \in {"idle", "run", "callback"}
    /\ callingExpiredTimer_ <=> pc # "idle"
    /\ expired \subseteq Addrs
    /\ toRun \subseteq expired
    /\ handledAt \in Nat
    /\ pending \in Seq(Functors)
    /\ caller \in [Threads -> {"idle", "new", "handed"}]
    /\ held \in [Threads -> Addrs \cup {NoTimer}]
    /\ \A t \in Threads : held[t] = NoTimer <=> caller[t] = "idle"
    /\ made \in [Threads -> Int]
    /\ ids \subseteq Returned
    /\ asked \subseteq ids
    /\ cancelled \subseteq Nat

Init ==
    /\ now = 1 /\ steps = 0
    /\ live = {}
    /\ expiration = [a \in Addrs |-> 0]
    /\ interval = [a \in Addrs |-> 0]
    /\ sequence = [a \in Addrs |-> NoSeq]
    /\ s_numCreate_ = 0
    /\ timers_ = {} /\ activeTimers_ = {} /\ cancelingTimers_ = {}
    /\ callingExpiredTimer_ = FALSE
    /\ timerfd = Off /\ drift = 0
    /\ pc = "idle"
    /\ expired = {} /\ toRun = {} /\ handledAt = 0
    /\ pending = <<>>
    /\ caller = [t \in Threads |-> "idle"]
    /\ held = [t \in Threads |-> NoTimer]
    /\ made = [t \in Threads |-> NoSeq]
    /\ ids = {} /\ asked = {} /\ cancelled = {}

-----------------------------------------------------------------------------
(* addTime takes its seconds as an int: the fraction of a delay is lost.    *)
AddTime(t, delay) == t + (delay \div Second) * Second

(* howMuchTimeFromNow: the difference to the wall clock, which is not       *)
(* negative.                                                                *)
TimeFromNow(when) == IF when > now THEN when - now ELSE 0

(* resetTimerfd: that difference is armed on the monotonic clock.           *)
ArmAt(when) == timerfd' = TimeFromNow(when) /\ drift' = 0

Readable == timerfd = 0

(* new Timer(cb, when, interval) at address a.                              *)
NewTimer(a, when, i) ==
    /\ a \notin live
    /\ s_numCreate_ < MaxSeq
    /\ live' = live \cup {a}
    /\ expiration' = [expiration EXCEPT ![a] = when]
    /\ interval' = [interval EXCEPT ![a] = i]
    /\ sequence' = [sequence EXCEPT ![a] = s_numCreate_]
    /\ s_numCreate_' = s_numCreate_ + 1

(* Mutant: the timerfd is left to reset, which is to arm it for what is     *)
(* pending after a batch.                                                   *)
AddTimerInLoopUnarmed(a, when, seq) ==
    /\ timers_' = timers_ \cup {<<when, a>>}
    /\ activeTimers_' = activeTimers_ \cup {<<a, seq>>}
    /\ UNCHANGED arming

(* addTimerInLoop: insert, and arm the timerfd for a new earliest timer.    *)
AddTimerInLoop(a, when, seq) ==
    /\ timers_' = timers_ \cup {<<when, a>>}
    /\ activeTimers_' = activeTimers_ \cup {<<a, seq>>}
    /\ IF \A e \in timers_ : when < e[1] THEN ArmAt(when)
                                         ELSE UNCHANGED arming

(* Mutant: the object is deleted and stays in activeTimers_.                *)
CancelInLoopKeepsActive(id) ==
    /\ IF id \in activeTimers_
       THEN /\ timers_' = timers_ \ {<<expiration[id[1]], id[1]>>}
            /\ live' = live \ {id[1]}
       ELSE UNCHANGED <<timers_, live>>
    /\ UNCHANGED <<activeTimers_, cancelingTimers_, cancelled>>

(* Mutant: the timer is looked up by its address alone.                     *)
CancelInLoopByAddress(id) ==
    LET found == {x \in activeTimers_ : x[1] = id[1]}
    IN  /\ activeTimers_' = activeTimers_ \ found
        /\ timers_' = timers_ \ {<<expiration[x[1]], x[1]>> : x \in found}
        /\ live' = live \ {x[1] : x \in found}
        /\ cancelled' = cancelled \cup {id[2]}
        /\ UNCHANGED cancelingTimers_

(* cancelInLoop: an active timer is deleted; one whose batch is being run   *)
(* is remembered, for reset not to restart it.                              *)
CancelInLoop(id) ==
    LET a == id[1]
    IN  IF id \in activeTimers_
        THEN /\ timers_' = timers_ \ {<<expiration[a], a>>}
             /\ activeTimers_' = activeTimers_ \ {id}
             /\ live' = live \ {a}
             /\ cancelled' = cancelled \cup {id[2]}
             /\ UNCHANGED cancelingTimers_
        ELSE /\ cancelingTimers_' = IF callingExpiredTimer_
                                    THEN cancelingTimers_ \cup {id}
                                    ELSE cancelingTimers_
             /\ cancelled' = IF a \in expired /\ sequence[a] = id[2]
                             THEN cancelled \cup {id[2]}
                             ELSE cancelled
             /\ UNCHANGED <<sets, live>>

-----------------------------------------------------------------------------
(* addTimer from another thread: three steps, and the last one reads a      *)
(* Timer that the loop thread may by then have run and deleted.             *)
ThreadNew(t) ==
    /\ caller[t] = "idle"
    /\ \E a \in Addrs, when \in 0 .. MaxTime, i \in Intervals :
         /\ NewTimer(a, when, i)
         /\ held' = [held EXCEPT ![t] = a]
    /\ caller' = [caller EXCEPT ![t] = "new"]
    /\ made' = [made EXCEPT ![t] = s_numCreate_]
    /\ UNCHANGED <<clock, sets, cancelingTimers_, arming, handling, pending, given,
                   cancelled>>

ThreadPush(t) ==
    /\ caller[t] = "new"
    /\ Len(pending) < MaxPending
    /\ pending' = Append(pending, [op |-> "add", timer |-> held[t]])
    /\ caller' = [caller EXCEPT ![t] = "handed"]
    /\ UNCHANGED <<clock, live, fields, s_numCreate_, sets, cancelingTimers_,
                   arming, handling, held, made, given, cancelled>>

(* TimerId(timer, timer->sequence()): the field of a freed Timer holds what *)
(* it held or something else; of an address used again, another timer's.    *)
ThreadReturns(t) ==
    LET a == held[t]
    IN  /\ caller[t] = "handed"
        /\ \E seq \in {sequence[a]} \cup (IF a \in live THEN {} ELSE {NoSeq}) :
             ids' = ids \cup {[id |-> <<a, seq>>, of |-> made[t]]}
        /\ caller' = [caller EXCEPT ![t] = "idle"]
        /\ held' = [held EXCEPT ![t] = NoTimer]
        /\ made' = [made EXCEPT ![t] = NoSeq]
        /\ UNCHANGED <<clock, live, fields, s_numCreate_, sets, cancelingTimers_,
                       arming, handling, pending, asked,
                       cancelled>>

ThreadCancel(t, r) ==
    /\ caller[t] = "idle"
    /\ Len(pending) < MaxPending
    /\ pending' = Append(pending, [op |-> "cancel", id |-> r.id])
    /\ asked' = asked \cup {r}
    /\ UNCHANGED <<clock, live, fields, s_numCreate_, sets, cancelingTimers_,
                   arming, handling, threads, ids, cancelled>>

-----------------------------------------------------------------------------
(* The loop thread runs a queued functor, or user code that adds or cancels *)
(* a timer: in a channel's callback or a functor, or in a timer's callback. *)

RunPending ==
    /\ pc = "idle"
    /\ pending # <<>>
    /\ pending' = Tail(pending)
    /\ LET f == Head(pending)
       IN  \/ /\ f.op = "add"
              /\ AddTimerInLoop(f.timer, expiration[f.timer], sequence[f.timer])
              /\ UNCHANGED <<live, cancelingTimers_, cancelled>>
           \/ /\ f.op = "cancel"
              /\ CancelInLoop(f.id)
              /\ UNCHANGED arming
    /\ UNCHANGED <<clock, fields, s_numCreate_, handling, threads, given>>

InUserCode == pc \in {"idle", "callback"}

LoopAdd ==
    /\ InUserCode
    /\ \E a \in Addrs, when \in 0 .. MaxTime, i \in Intervals :
         /\ NewTimer(a, when, i)
         /\ AddTimerInLoop(a, when, s_numCreate_)
         /\ ids' = ids \cup {[id |-> <<a, s_numCreate_>>, of |-> s_numCreate_]}
    /\ UNCHANGED <<clock, cancelingTimers_, handling, pending, threads, asked,
                   cancelled>>

LoopCancel(r) ==
    /\ InUserCode
    /\ CancelInLoop(r.id)
    /\ asked' = asked \cup {r}
    /\ UNCHANGED <<clock, fields, s_numCreate_, arming, handling, pending,
                   threads, ids>>

-----------------------------------------------------------------------------
(* handleRead, getExpired included: up to the first callback.               *)
HandleRead ==
    LET due == {e \in timers_ : e[1] <= now}
    IN  /\ pc = "idle"
        /\ Readable
        /\ pc' = "run"
        /\ timerfd' = Off /\ drift' = 0
        /\ handledAt' = now
        /\ timers_' = timers_ \ due
        /\ expired' = {e[2] : e \in due}
        /\ toRun' = expired'
        /\ activeTimers_' = {x \in activeTimers_ : x[1] \notin expired'}
        /\ callingExpiredTimer_' = TRUE
        /\ cancelingTimers_' = {}
        /\ UNCHANGED <<clock, live, fields, s_numCreate_, pending, threads, given,
                       cancelled>>

(* The callbacks run in the order of timers_.                               *)
RunTimer(a) ==
    /\ pc = "run"
    /\ a \in toRun
    /\ \A b \in toRun : expiration[a] <= expiration[b]
    /\ toRun' = toRun \ {a}
    /\ pc' = "callback"
    /\ UNCHANGED <<clock, live, fields, s_numCreate_, sets, cancelingTimers_,
                   callingExpiredTimer_, arming, expired, handledAt, pending,
                   threads, given, cancelled>>

CallbackReturns ==
    /\ pc = "callback"
    /\ pc' = "run"
    /\ UNCHANGED <<clock, live, fields, s_numCreate_, sets, cancelingTimers_,
                   callingExpiredTimer_, arming, expired, toRun, handledAt,
                   pending, threads, given, cancelled>>

(* Mutant: cancelingTimers_ is not consulted.                               *)
RestartedAll == {a \in expired : interval[a] > 0}

(* Mutant: nothing to do when no timer expired.                             *)
RearmForExpired(entries) ==
    LET times == {e[1] : e \in entries}
    IN  IF expired # {} /\ times # {} THEN ArmAt(Min(times))
                                      ELSE UNCHANGED arming

(* reset: restart the repeating timers that were not cancelled, delete the  *)
(* others, and arm the timerfd for the earliest if its time is valid().     *)
Restarted ==
    {a \in expired : interval[a] > 0 /\ <<a, sequence[a]>> \notin cancelingTimers_}

RearmFor(entries) ==
    LET times == {e[1] : e \in entries}
    IN  IF times # {} /\ Min(times) > 0 THEN ArmAt(Min(times))
                                        ELSE UNCHANGED arming

(* Mutant: callingExpiredTimer_ stays up.                                   *)
ResetKeepsFlag ==
    /\ pc = "run"
    /\ toRun = {}
    /\ pc' = "idle"
    /\ live' = live \ (expired \ Restarted)
    /\ RearmFor(timers_)
    /\ expired' = {}
    /\ UNCHANGED <<clock, fields, s_numCreate_, sets, cancelingTimers_, toRun,
                   callingExpiredTimer_, handledAt, pending, threads, given,
                   cancelled>>

(* Mutant: a timer that is not restarted is not deleted either.             *)
ResetLeaks ==
    /\ pc = "run"
    /\ toRun = {}
    /\ pc' = "idle"
    /\ callingExpiredTimer_' = FALSE
    /\ RearmFor(timers_)
    /\ expired' = {}
    /\ UNCHANGED <<clock, live, fields, s_numCreate_, sets, cancelingTimers_, toRun,
                   handledAt, pending, threads, given, cancelled>>

Reset ==
    /\ pc = "run"
    /\ toRun = {}
    /\ pc' = "idle"
    /\ callingExpiredTimer_' = FALSE
    /\ expiration' = [a \in Addrs |-> IF a \in Restarted
                                       THEN AddTime(handledAt, interval[a])
                                       ELSE expiration[a]]
    /\ live' = live \ (expired \ Restarted)
    /\ timers_' = timers_ \cup {<<expiration'[a], a>> : a \in Restarted}
    /\ activeTimers_' = activeTimers_ \cup {<<a, sequence[a]>> : a \in Restarted}
    /\ RearmFor(timers_')
    /\ expired' = {}
    /\ handledAt' = 0
    /\ UNCHANGED <<clock, interval, sequence, s_numCreate_, cancelingTimers_, toRun,
                   pending, threads, given, cancelled>>

(* The wall clock gains d on the monotonic one.                             *)
Gains(d) == drift' = IF timerfd' > 0 THEN drift + d ELSE 0

(* Time passes on both clocks.  At its bound the wall clock is held, as if  *)
(* it were set back a unit each time.                                       *)
Tick ==
    /\ now < MaxTime \/ timerfd > 0
    /\ now' = IF now < MaxTime THEN now + 1 ELSE now
    /\ timerfd' = IF timerfd > 0 THEN timerfd - 1 ELSE timerfd
    /\ Gains(now' - now - 1)
    /\ UNCHANGED <<steps, live, fields, s_numCreate_, sets, cancelingTimers_,
                   handling, pending, threads, given, cancelled>>

(* Somebody sets the wall clock, forward or back.                           *)
SetClock ==
    /\ steps < MaxSteps
    /\ now' \in 1 .. MaxTime
    /\ steps' = steps + 1
    /\ timerfd' = timerfd
    /\ Gains(now' - now)
    /\ UNCHANGED <<live, fields, s_numCreate_, sets, cancelingTimers_,
                   handling, pending, threads, given, cancelled>>

-----------------------------------------------------------------------------
LoopStep ==
    RunPending \/ HandleRead \/ (\E a \in Addrs : RunTimer(a))
               \/ CallbackReturns \/ Reset

Next ==
    \/ LoopStep
    \/ LoopAdd
    \/ \E r \in ids : LoopCancel(r)
    \/ \E t \in Threads :
         \/ ThreadNew(t) \/ ThreadPush(t) \/ ThreadReturns(t)
         \/ \E r \in ids : ThreadCancel(t, r)
    \/ Tick
    \/ SetClock

(* Time passes, a readable timerfd is handled, that is Channel::handleEvent *)
(* calls the read callback of a readable descriptor, and callbacks return.  *)
Fairness ==
    /\ WF_vars(Tick)
    /\ WF_vars(HandleRead)
    /\ WF_vars((\E a \in Addrs : RunTimer(a)) \/ CallbackReturns \/ Reset)

Safety == Init /\ [][Next]_vars

Spec == Safety /\ Fairness

-----------------------------------------------------------------------------
Active == {x[1] : x \in activeTimers_}

QueuedAdds == {pending[k].timer : k \in {j \in DOMAIN pending : pending[j].op = "add"}}

Unpushed == {held[t] : t \in {u \in Threads : caller[u] = "new"}}

(* What the assertions of cancelInLoop, getExpired and insert rely on: the  *)
(* two sets hold the same timers, under the keys the objects have now.      *)
SetsAgree ==
    /\ timers_ = {<<expiration[a], a>> : a \in Active}
    /\ activeTimers_ = {<<a, sequence[a]>> : a \in Active}

(* Every Timer has one owner: the sets, the batch being run, a queued       *)
(* functor or the thread about to queue it.  None leaks, none is reachable  *)
(* after its delete, none is queued twice.                                  *)
OneOwner ==
    /\ live = Active \cup expired \cup QueuedAdds \cup Unpushed
    /\ Active \cap expired = {}
    /\ (Active \cup expired) \cap (QueuedAdds \cup Unpushed) = {}
    /\ QueuedAdds \cap Unpushed = {}
    /\ \A j, k \in DOMAIN pending :
         j # k /\ pending[j].op = "add" /\ pending[k].op = "add"
            => pending[j].timer # pending[k].timer
    /\ \A t, u \in Threads :
         t # u /\ caller[t] = "new" /\ caller[u] = "new" => held[t] # held[u]

(* Outside handleRead no timer is stranded: the timerfd is readable, or will *)
(* be no later than the earliest timer is due on a wall clock that runs as   *)
(* it did when the timerfd was armed.  If the wall clock was set forward     *)
(* since, that timer is late by as much and no more; if it was set back, the *)
(* timerfd is early, and reset has to arm it again although nothing expired. *)
(* Nothing arms it on cancel, and reset does not for a time that is not      *)
(* valid().                                                                  *)
TimerfdArmed ==
    pc = "idle" /\ timers_ # {}
        => /\ timerfd # Off
           /\ timerfd = 0 \/ \A e \in timers_ : timerfd <= e[1] - now + drift

(* A timer that cancelInLoop has seen, active or in the batch being run, is *)
(* never scheduled again.                                                   *)
CancelSticks == \A x \in activeTimers_ : x[2] \notin cancelled

(* cancel was called with the id that the addTimer of timer x returned.     *)
OwnIdGiven(x) == \E r \in asked : r.id = x /\ r.of = x[2]

(* cancel was called with an id that addTimer returned for an earlier timer *)
(* and read from the object when the loop thread had already deleted that   *)
(* timer and x lived at its address: the race of line 84.                   *)
TakenForEarlier(x) == \E r \in asked : r.id = x /\ r.of < x[2]

(* A timer leaves the sets because it expired, or because it was cancelled  *)
(* with its own id: an id of a timer that lived at its address before does  *)
(* not take it out.  The exception is the id that addTimer itself got wrong *)
(* in the race of line 84, which names a later timer than the caller's.     *)
OnlyExpiredOrCancelledLeave ==
    [][\A x \in activeTimers_ \ activeTimers_' :
          \/ x[1] \in expired'
          \/ /\ expired' = expired
             /\ x[2] \in cancelled'
             /\ OwnIdGiven(x)' \/ TakenForEarlier(x)']_vars

(* A scheduled timer is handled or cancelled once the clocks get there.  The *)
(* wall clock is set finitely often: set back again and again it would never *)
(* get there.                                                                *)
TimersFire ==
    \A when \in 0 .. MaxTime, a \in Addrs :
        <<when, a>> \in timers_ ~> <<when, a>> \notin timers_
=============================================================================
