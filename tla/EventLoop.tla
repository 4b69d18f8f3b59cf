----------------------------- MODULE EventLoop -----------------------------
(***************************************************************************)
(* myMuduo/lib/EventLoop.cpp: one loop thread that polls, dispatches the   *)
(* active channels and then runs the functors other threads (or its own    *)
(* callbacks) queued.  The thread blocks in Poller::poll; an eventfd wakes *)
(* it up.  The interleavings that matter are those of queueInLoop, which   *)
(* pushes under mutex_ and wakes the loop after releasing it, with the     *)
(* poll / handleRead / swap / run cycle of loop().                         *)
(*                                                                         *)
(* A functor is a member of Tasks, queued again only when no copy of it is *)
(* queued: that bounds the queue and nothing else.  What user code does    *)
(* inside a functor or a channel callback is left open: it may call        *)
(* queueInLoop and quit any number of times before it returns.  runInLoop  *)
(* is queueInLoop from another thread, and from the loop thread it calls   *)
(* the functor in place, which is one of the things user code may do.      *)
(***************************************************************************)
EXTENDS Sequences, SequencesExt

CONSTANTS Tasks,      \* functors
          NoTask,     \* no functor is running
          Threads     \* the threads other than the loop's own

ASSUME NoTaskAssumption == NoTask \notin Tasks

VARIABLES
    pc,                      \* where the loop thread is, see LoopPoints
    quit_,                   \* std::atomic_bool quit_
    callingPendingFunctors_,
    pendingFunctors_,        \* guarded by mutex_
    functors,                \* rest of doPendingFunctors' local vector
    current,                 \* the functor being executed
    wakeupFd,                \* the eventfd's counter is not zero
    io,                      \* another channel's file descriptor is ready
    activeChannel_,          \* filled by poll, what is left to handle
    caller,                  \* where each thread is inside queueInLoop
    unannounced              \* history: queued outside loop() with no wakeup

vars == <<pc, quit_, callingPendingFunctors_, pendingFunctors_, functors,
          current, wakeupFd, io, activeChannel_, caller, unannounced>>

Channels == {"wakeup", "io"}

(* outside: not in loop(); test: at while(!quit_); poll: in epoll_wait;     *)
(* dispatch: between two handlers; handler: in the io channel's callback;   *)
(* run: between two functors of the batch; functor: inside one.             *)
LoopPoints == {"outside", "test", "poll", "dispatch", "handler", "run",
               "functor"}

Looping == pc # "outside"

InFlight == Range(functors) \cup Range(pendingFunctors_)

(* callingPendingFunctors_ is up exactly while a batch is being run.        *)
FlagsMatch ==
    /\ callingPendingFunctors_ <=> pc \in {"run", "functor"}
    /\ current # NoTask <=> pc = "functor"
    /\ functors # <<>> => pc \in {"run", "functor"}

(* The variables have their types, and the flags say where the loop is.     *)
TypeOK ==
    /\ pc \in LoopPoints
    /\ quit_ \in BOOLEAN
    /\ callingPendingFunctors_ \in BOOLEAN
    /\ pendingFunctors_ \in Seq(Tasks)
    /\ functors \in Seq(Tasks)
    /\ current \in Tasks \cup {NoTask}
    /\ wakeupFd \in BOOLEAN
    /\ io \in BOOLEAN
    /\ activeChannel_ \subseteq Channels
    /\ caller \in [Threads -> {"idle", "pushed"}]
    /\ unannounced \subseteq Tasks
    /\ FlagsMatch

Init ==
    /\ pc = "outside"
    /\ quit_ = FALSE
    /\ callingPendingFunctors_ = FALSE
    /\ pendingFunctors_ = <<>>
    /\ functors = <<>>
    /\ current = NoTask
    /\ wakeupFd = FALSE
    /\ io = FALSE
    /\ activeChannel_ = {}
    /\ caller = [t \in Threads |-> "idle"]
    /\ unannounced = {}

-----------------------------------------------------------------------------
(* Calls from other threads. *)

(* queueInLoop up to the release of mutex_. *)
Push(t, f) ==
    /\ caller[t] = "idle"
    /\ f \notin InFlight
    /\ pendingFunctors_' = Append(pendingFunctors_, f)
    /\ caller' = [caller EXCEPT ![t] = "pushed"]
    /\ UNCHANGED <<pc, quit_, callingPendingFunctors_, functors, current,
                   wakeupFd, io, activeChannel_, unannounced>>

(* Mutant: && for || in the test that precedes wakeup().                    *)
WakeupWhileCalling(t) ==
    /\ caller[t] = "pushed"
    /\ wakeupFd' = (wakeupFd \/ callingPendingFunctors_)
    /\ caller' = [caller EXCEPT ![t] = "idle"]
    /\ UNCHANGED <<pc, quit_, callingPendingFunctors_, pendingFunctors_,
                   functors, current, io, activeChannel_, unannounced>>

(* ... and the wakeup() that follows it: !isInLoopThread() holds. *)
Wakeup(t) ==
    /\ caller[t] = "pushed"
    /\ wakeupFd' = TRUE
    /\ caller' = [caller EXCEPT ![t] = "idle"]
    /\ UNCHANGED <<pc, quit_, callingPendingFunctors_, pendingFunctors_,
                   functors, current, io, activeChannel_, unannounced>>

(* quit() from another thread: wakeup() is called by the loop thread only. *)
QuitFromThread(t) ==
    /\ caller[t] = "idle"
    /\ quit_' = TRUE
    /\ UNCHANGED <<pc, callingPendingFunctors_, pendingFunctors_, functors,
                   current, wakeupFd, io, activeChannel_, caller, unannounced>>

-----------------------------------------------------------------------------
(* Calls of user code on the loop thread: before or after loop(), inside a  *)
(* channel's callback, inside a functor.                                    *)

InUserCode == pc \in {"outside", "handler", "functor"}

(* Mutant: a functor that queues a functor does not wake the loop up.       *)
QueueInLoopSilent(f) ==
    /\ InUserCode
    /\ f \notin InFlight
    /\ pendingFunctors_' = Append(pendingFunctors_, f)
    /\ unannounced' = IF pc = "outside" THEN unannounced \cup {f}
                                        ELSE unannounced
    /\ UNCHANGED <<pc, quit_, callingPendingFunctors_, functors, current, io,
                   wakeupFd, activeChannel_, caller>>

QueueInLoop(f) ==
    /\ InUserCode
    /\ f \notin InFlight
    /\ pendingFunctors_' = Append(pendingFunctors_, f)
    /\ wakeupFd' = (wakeupFd \/ callingPendingFunctors_)
    /\ unannounced' = IF pc = "outside" THEN unannounced \cup {f}
                                        ELSE unannounced
    /\ UNCHANGED <<pc, quit_, callingPendingFunctors_, functors, current, io,
                   activeChannel_, caller>>

Quit ==
    /\ InUserCode
    /\ quit_' = TRUE
    /\ wakeupFd' = TRUE
    /\ UNCHANGED <<pc, callingPendingFunctors_, pendingFunctors_, functors,
                   current, io, activeChannel_, caller, unannounced>>

-----------------------------------------------------------------------------
(* loop() *)

(* The entry of loop() forgets every quit() called before it. *)
EnterLoop ==
    /\ pc = "outside"
    /\ pc' = "test"
    /\ quit_' = FALSE
    /\ UNCHANGED <<callingPendingFunctors_, pendingFunctors_, functors, current,
                   wakeupFd, io, activeChannel_, caller, unannounced>>

TestQuit ==
    /\ pc = "test"
    /\ pc' = IF quit_ THEN "outside" ELSE "poll"
    /\ activeChannel_' = {}
    /\ UNCHANGED <<quit_, callingPendingFunctors_, pendingFunctors_, functors,
                   current, wakeupFd, io, caller, unannounced>>

Ready == (IF wakeupFd THEN {"wakeup"} ELSE {}) \cup (IF io THEN {"io"} ELSE {})

(* epoll_wait returns with the ready channels, level triggered. *)
Poll ==
    /\ pc = "poll"
    /\ Ready # {}
    /\ activeChannel_' = Ready
    /\ pc' = "dispatch"
    /\ UNCHANGED <<quit_, callingPendingFunctors_, pendingFunctors_, functors,
                   current, wakeupFd, io, caller, unannounced>>

(* Mutant: poll(-1), epoll_wait never times out.                            *)
PollForever == FALSE /\ UNCHANGED vars

(* epoll_wait returns 0: kPollTimeMs (10 s) went by with nothing ready. *)
PollTimeout ==
    /\ pc = "poll"
    /\ Ready = {}
    /\ pc' = "dispatch"
    /\ UNCHANGED <<quit_, callingPendingFunctors_, pendingFunctors_, functors,
                   current, wakeupFd, io, activeChannel_, caller, unannounced>>

(* EventLoop::handleRead, the wakeup channel's read callback: one read of   *)
(* an eventfd returns the counter and sets it to 0.                         *)
HandleRead ==
    /\ pc = "dispatch"
    /\ "wakeup" \in activeChannel_
    /\ activeChannel_' = activeChannel_ \ {"wakeup"}
    /\ wakeupFd' = FALSE
    /\ UNCHANGED <<pc, quit_, callingPendingFunctors_, pendingFunctors_,
                   functors, current, io, caller, unannounced>>

(* The other channel's callback reads its file descriptor. *)
HandleEvent ==
    /\ pc = "dispatch"
    /\ "io" \in activeChannel_
    /\ activeChannel_' = activeChannel_ \ {"io"}
    /\ io' = FALSE
    /\ pc' = "handler"
    /\ UNCHANGED <<quit_, callingPendingFunctors_, pendingFunctors_, functors,
                   current, wakeupFd, caller, unannounced>>

HandlerReturns ==
    /\ pc = "handler"
    /\ pc' = "dispatch"
    /\ UNCHANGED <<quit_, callingPendingFunctors_, pendingFunctors_, functors,
                   current, wakeupFd, io, activeChannel_, caller, unannounced>>

-----------------------------------------------------------------------------
(* doPendingFunctors() *)

(* Mutant: the batch is taken by copying, pendingFunctors_ is not emptied. *)
SwapFunctorsCopies ==
    /\ pc = "dispatch"
    /\ activeChannel_ = {}
    /\ callingPendingFunctors_' = TRUE
    /\ functors' = pendingFunctors_
    /\ unannounced' = {}
    /\ pc' = "run"
    /\ UNCHANGED <<quit_, pendingFunctors_, current, wakeupFd, io,
                   activeChannel_, caller>>

SwapFunctors ==
    /\ pc = "dispatch"
    /\ activeChannel_ = {}
    /\ callingPendingFunctors_' = TRUE
    /\ functors' = pendingFunctors_
    /\ pendingFunctors_' = <<>>
    /\ unannounced' = {}
    /\ pc' = "run"
    /\ UNCHANGED <<quit_, current, wakeupFd, io, activeChannel_, caller>>

(* Mutant: no batch, pendingFunctors_ itself is drained.                    *)
RunFunctorDrains ==
    LET all == functors \o pendingFunctors_
    IN  /\ pc = "run"
        /\ all # <<>>
        /\ current' = Head(all)
        /\ functors' = Tail(all)
        /\ pendingFunctors_' = <<>>
        /\ pc' = "functor"
        /\ UNCHANGED <<quit_, callingPendingFunctors_, wakeupFd, io,
                       activeChannel_, caller, unannounced>>

RunFunctor ==
    /\ pc = "run"
    /\ functors # <<>>
    /\ current' = Head(functors)
    /\ functors' = Tail(functors)
    /\ pc' = "functor"
    /\ UNCHANGED <<quit_, callingPendingFunctors_, pendingFunctors_, wakeupFd,
                   io, activeChannel_, caller, unannounced>>

FunctorReturns ==
    /\ pc = "functor"
    /\ current' = NoTask
    /\ pc' = "run"
    /\ UNCHANGED <<quit_, callingPendingFunctors_, pendingFunctors_, functors,
                   wakeupFd, io, activeChannel_, caller, unannounced>>

(* Mutant: callingPendingFunctors_ is never lowered.                        *)
FunctorsDoneKeepsFlag ==
    /\ pc = "run"
    /\ functors = <<>>
    /\ pc' = "test"
    /\ UNCHANGED <<quit_, callingPendingFunctors_, pendingFunctors_, functors,
                   current, wakeupFd, io, activeChannel_, caller, unannounced>>

FunctorsDone ==
    /\ pc = "run"
    /\ functors = <<>>
    /\ callingPendingFunctors_' = FALSE
    /\ pc' = "test"
    /\ UNCHANGED <<quit_, pendingFunctors_, functors, current, wakeupFd, io,
                   activeChannel_, caller, unannounced>>

-----------------------------------------------------------------------------
(* The peer of the io channel. *)
IoArrives ==
    /\ ~io
    /\ io' = TRUE
    /\ UNCHANGED <<pc, quit_, callingPendingFunctors_, pendingFunctors_,
                   functors, current, wakeupFd, activeChannel_, caller,
                   unannounced>>

(* What the loop thread does by itself once it is in loop().  The poll's    *)
(* timeout is kept apart: fairness of it is a promise of 10 s, not of now.  *)
LoopStep ==
    \/ TestQuit \/ Poll \/ HandleRead \/ HandleEvent \/ HandlerReturns
    \/ SwapFunctors \/ RunFunctor \/ FunctorReturns \/ FunctorsDone

Next ==
    \/ LoopStep
    \/ PollTimeout
    \/ EnterLoop
    \/ Quit
    \/ \E f \in Tasks : QueueInLoop(f)
    \/ \E t \in Threads :
         Wakeup(t) \/ QuitFromThread(t) \/ \E f \in Tasks : Push(t, f)
    \/ IoArrives

(***************************************************************************)
(* Fairness.  The operating system schedules the loop thread and lets a    *)
(* thread that released mutex_ go on to wakeup(); callbacks and functors   *)
(* return.  Nobody promises that work is queued, that quit is called or    *)
(* that loop() is entered.  The poll timeout is not counted on: a property *)
(* that needs it has PollTimesOut as its hypothesis.                       *)
(***************************************************************************)
Scheduled ==
    /\ WF_vars(LoopStep)
    /\ \A t \in Threads : WF_vars(Wakeup(t))

Spec == Init /\ [][Next]_vars /\ Scheduled

PollTimesOut == WF_vars(PollTimeout)

-----------------------------------------------------------------------------
(* While the loop thread blocks, a functor nobody told it about is one that *)
(* its own thread queued before entering loop(): every other one has a      *)
(* wakeup pending or a thread on its way to write one.                      *)
NoLostWakeup ==
    pc = "poll" /\ ~wakeupFd /\ (\A t \in Threads : caller[t] = "idle")
        => Range(pendingFunctors_) \subseteq unannounced

(* The loop is a task queue: submission is the push under mutex_, wherever  *)
(* it happens, and batches taken by swap keep the order of the pushes.      *)
TQ == INSTANCE TaskQueue
        WITH queue <- functors \o pendingFunctors_, running <- current

ImplementsTaskQueue == TQ!Spec

(* A functor queued by another thread, a callback or a functor is executed  *)
(* without the help of the poll timeout, unless the loop is left first.     *)
QueuedIsRun ==
    \A f \in Tasks :
        f \in Range(pendingFunctors_) \ unannounced
            ~> (current = f \/ ~Looping)

(* Functors that keep queueing functors do not starve the channels: the     *)
(* batch is fixed by the swap, and the next poll sees the ready channel.    *)
IoIsServed == io ~> (~io \/ ~Looping)

(* quit() called after loop() was entered makes loop() return.  From        *)
(* another thread there is no wakeup, so this needs the poll timeout.       *)
QuitReturns == PollTimesOut => ((quit_ /\ Looping) ~> ~Looping)
=============================================================================
