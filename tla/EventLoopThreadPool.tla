------------------------ MODULE EventLoopThreadPool ------------------------
(***************************************************************************)
(* myMuduo/lib/EventLoopThreadPool.cpp, EventLoopThread.cpp and Thread.cpp:*)
(* the base thread starts numThreads_ threads one after the other, each    *)
(* time waiting until the new thread has published the address of the      *)
(* EventLoop on its stack, hands the loops out in turn, and in the end     *)
(* quits and joins them.                                                   *)
(*                                                                         *)
(* Critical sections of mutex_ are single steps.  Of the loop itself only  *)
(* what its owner sees is kept: loop() clears quit_ on entry, and returns  *)
(* some time after quit_ is set (QuitReturns of module EventLoop).  The    *)
(* model goes on where an assertion fails, as a build with NDEBUG does;    *)
(* the assertion itself is the property JoinAsserts.                       *)
(***************************************************************************)
EXTENDS Integers, Sequences, FiniteSets, FiniteSetsExt, Functions

CONSTANTS MaxThreads, \* bound: numThreads_
          MaxCalls    \* bound: calls of getNextLoop

ASSUME BoundsAssumption == MaxThreads \in Nat /\ MaxCalls \in Nat

(* What is returned for a loop: a thread's loop is the number of the thread. *)
baseLoop == 0
Garbage == -2   \* control ran off the end of the function

Index == 1 .. MaxThreads

VARIABLES
    numThreads_, next_,
    loops_,     \* the loops startLoop returned, in order
    base,       \* where the base thread is
    i,          \* the thread it is starting or destroying
    started_,   \* Thread::started_
    joined_,    \* Thread::joined_
    worker,     \* where each thread is
    loop_,      \* EventLoopThread::loop_ # nullptr
    quit_,      \* quit_ of the EventLoop on the thread's stack
    result,     \* the loops the pool returned last
    handed,     \* how often getNextLoop returned each loop
    quitAsked,  \* history: quit() was called on this loop
    quitLost,   \* history: ... before loop() was entered
    quitDead    \* history: quit() of the destructor touched a loop that was gone

vars == <<numThreads_, next_, loops_, base, i, started_, joined_, worker, loop_,
          quit_, result, handed, quitAsked, quitLost, quitDead>>
pool == <<numThreads_, next_, loops_>>
threads == <<started_, joined_, worker, loop_, quit_>>
calls == <<result, handed>>
history == <<quitAsked, quitLost, quitDead>>

BasePoints == {"new", "start", "latch", "wait", "asleep", "running", "dtor",
               "quitting", "join", "done", "aborted"}
WorkerPoints == {"none", "created", "constructing", "entering", "looping",
                 "returned", "finished"}

(* Calls of getNextLoop that returned a loop.                               *)
Calls == MapThenSumSet(LAMBDA k : handed[k], Index)

TypeOK ==
    /\ numThreads_ \in 0 .. MaxThreads
    /\ loops_ \in Seq(Index) /\ Len(loops_) <= numThreads_
    /\ loops_ # <<>> => next_ \in 0 .. Len(loops_) - 1
    /\ base \in BasePoints
    /\ i \in 1 .. MaxThreads + 1
    /\ started_ \in [Index -> BOOLEAN]
    /\ joined_ \in [Index -> BOOLEAN]
    /\ worker \in [Index -> WorkerPoints]
    /\ loop_ \in [Index -> BOOLEAN]
    /\ quit_ \in [Index -> BOOLEAN]
    /\ result \subseteq Index \cup {baseLoop, Garbage}
    /\ handed \in [Index -> Nat]
    /\ quitAsked \in [Index -> BOOLEAN]
    /\ quitLost \in [Index -> BOOLEAN]
    /\ quitDead \in [Index -> BOOLEAN]

Init ==
    /\ numThreads_ \in 0 .. MaxThreads
    /\ next_ = 0
    /\ loops_ = <<>>
    /\ base = "new"
    /\ i = 1
    /\ started_ = [k \in Index |-> FALSE]
    /\ joined_ = [k \in Index |-> FALSE]
    /\ worker = [k \in Index |-> "none"]
    /\ loop_ = [k \in Index |-> FALSE]
    /\ quit_ = [k \in Index |-> FALSE]
    /\ result = {}
    /\ handed = [k \in Index |-> 0]
    /\ quitAsked = [k \in Index |-> FALSE]
    /\ quitLost = [k \in Index |-> FALSE]
    /\ quitDead = [k \in Index |-> FALSE]

-----------------------------------------------------------------------------
(* EventLoopThreadPool::start on the base thread. *)

Start ==
    /\ base = "new"
    /\ base' = IF numThreads_ = 0 THEN "running" ELSE "start"
    /\ UNCHANGED <<pool, i, threads, calls, history>>

(* Thread::start: pthread_create, and wait for the latch.  started_ stays   *)
(* false on this path.                                                      *)
ThreadStart ==
    /\ base = "start"
    /\ worker' = [worker EXCEPT ![i] = "created"]
    /\ base' = "latch"
    /\ UNCHANGED <<pool, i, started_, joined_, loop_, quit_, calls, history>>

(* pthread_create fails: LOG_SYSFATAL ends the process.                     *)
ThreadStartFails ==
    /\ base = "start"
    /\ base' = "aborted"
    /\ UNCHANGED <<pool, i, threads, calls, history>>

LatchOpens ==
    /\ base = "latch"
    /\ worker[i] # "created"
    /\ base' = "wait"
    /\ UNCHANGED <<pool, i, threads, calls, history>>

(* startLoop: cond_.wait for loop_ != nullptr.                              *)
Sleep ==
    /\ base = "wait"
    /\ ~loop_[i]
    /\ base' = "asleep"
    /\ UNCHANGED <<pool, i, threads, calls, history>>

StartLoopReturns ==
    /\ base = "wait"
    /\ loop_[i]
    /\ loops_' = Append(loops_, i)
    /\ IF i < numThreads_ THEN i' = i + 1 /\ base' = "start"
                          ELSE i' = 1 /\ base' = "running"
    /\ UNCHANGED <<numThreads_, next_, threads, calls, history>>

-----------------------------------------------------------------------------
(* Thread k: runInThread and then EventLoopThread::threadFunc. *)

CountDown(k) ==
    /\ worker[k] = "created"
    /\ worker' = [worker EXCEPT ![k] = "constructing"]
    /\ UNCHANGED <<pool, base, i, started_, joined_, loop_, quit_, calls, history>>

(* Mutant: no notify_all.                                                   *)
PublishSilently(k) ==
    /\ worker[k] = "constructing"
    /\ worker' = [worker EXCEPT ![k] = "entering"]
    /\ loop_' = [loop_ EXCEPT ![k] = TRUE]
    /\ UNCHANGED <<pool, base, i, started_, joined_, quit_, calls, history>>

(* The EventLoop and the callback are done: publish and notify_all.         *)
Publish(k) ==
    /\ worker[k] = "constructing"
    /\ worker' = [worker EXCEPT ![k] = "entering"]
    /\ loop_' = [loop_ EXCEPT ![k] = TRUE]
    /\ base' = IF base = "asleep" /\ i = k THEN "wait" ELSE base
    /\ UNCHANGED <<pool, i, started_, joined_, quit_, calls, history>>

(* loop(): quit_=false.                                                     *)
EnterLoop(k) ==
    /\ worker[k] = "entering"
    /\ worker' = [worker EXCEPT ![k] = "looping"]
    /\ quit_' = [quit_ EXCEPT ![k] = FALSE]
    /\ quitLost' = [quitLost EXCEPT ![k] = quit_[k]]
    /\ UNCHANGED <<pool, base, i, started_, joined_, loop_, calls, quitAsked,
                   quitDead>>

(* A functor or callback of the loop quits it.                              *)
QuitFromInside(k) ==
    /\ worker[k] = "looping"
    /\ quit_' = [quit_ EXCEPT ![k] = TRUE]
    /\ quitAsked' = [quitAsked EXCEPT ![k] = TRUE]
    /\ UNCHANGED <<pool, base, i, started_, joined_, worker, loop_, calls, quitLost,
                   quitDead>>

LoopReturns(k) ==
    /\ worker[k] = "looping"
    /\ quit_[k]
    /\ worker' = [worker EXCEPT ![k] = "returned"]
    /\ UNCHANGED <<pool, base, i, started_, joined_, loop_, quit_, calls, history>>

(* The EventLoop on the stack is gone.  threadFunc assigns nullptr to the   *)
(* local, loop_ keeps the address.                                          *)
ThreadFinishes(k) ==
    /\ worker[k] = "returned"
    /\ worker' = [worker EXCEPT ![k] = "finished"]
    /\ UNCHANGED <<pool, base, i, started_, joined_, loop_, quit_, calls, history>>

(* The init callback or a functor of the loop throws: abort(), or rethrow   *)
(* into terminate().                                                        *)
ThreadThrows(k) ==
    /\ worker[k] \in {"constructing", "looping"}
    /\ base' = "aborted"
    /\ UNCHANGED <<pool, i, threads, calls, history>>

-----------------------------------------------------------------------------
(* The loops are asked for on the base thread.                              *)

(* Mutant: > for >= when next_ wraps.                                       *)
WrapLate(n) == IF n > Len(loops_) THEN 0 ELSE n

(* Mutant: the last loop is skipped.                                        *)
WrapEarly(n) == IF n >= Len(loops_) - 1 THEN 0 ELSE n

Wrap(n) == IF n >= Len(loops_) THEN 0 ELSE n

GetNextLoop ==
    /\ base = "running"
    /\ loops_ # <<>>
    /\ Calls < MaxCalls
    /\ result' = {IF next_ < Len(loops_) THEN loops_[next_ + 1] ELSE Garbage}
    /\ next_' = Wrap(next_ + 1)
    /\ handed' = [k \in Index |-> handed[k] + (IF k \in result' THEN 1 ELSE 0)]
    /\ UNCHANGED <<numThreads_, loops_, base, i, threads, history>>

(* With no loops control reaches the end of the function: any value.        *)
GetNextLoopEmpty ==
    /\ base = "running"
    /\ loops_ = <<>>
    /\ result' \in {{baseLoop}, {Garbage}}
    /\ UNCHANGED <<pool, base, i, threads, handed, history>>

(* It does not ask for started_; before start it returns baseLoop_, which    *)
(* is left out.                                                             *)
getLoopForHash(hashCode) ==
    /\ base = "running"
    /\ result' = {IF loops_ = <<>> THEN baseLoop
                                  ELSE loops_[(hashCode % Len(loops_)) + 1]}
    /\ UNCHANGED <<pool, base, i, threads, handed, history>>

getAllLoops ==
    /\ base = "running"
    /\ result' = IF loops_ = <<>> THEN {baseLoop} ELSE Range(loops_)
    /\ UNCHANGED <<pool, base, i, threads, handed, history>>

-----------------------------------------------------------------------------
(* The pool is destroyed: ~EventLoopThread of each, quit() and join().      *)

BeginDtor ==
    /\ base = "running"
    /\ base' = IF loops_ = <<>> THEN "done" ELSE "dtor"
    /\ UNCHANGED <<pool, i, threads, calls, history>>

(* Mutant: the destructor joins without quit().                             *)
DtorQuitForgets ==
    /\ base = "dtor"
    /\ base' = "join"
    /\ UNCHANGED <<pool, i, threads, calls, history>>

(* The EventLoop on the stack of thread i was destroyed.                    *)
LoopIsGone == worker[i] = "finished"

(* One access of quit() to *loop_.  When the loop is gone that is an access *)
(* to a dead stack frame, which the process may survive, with what it read  *)
(* or overwrote, or not.                                                    *)
QuitAccess(then) ==
    /\ base' \in IF LoopIsGone THEN {then, "aborted"} ELSE {then}
    /\ quitDead' = [quitDead EXCEPT ![i] = @ \/ LoopIsGone]

(* loop_->quit(): quit_=true, and then isInLoopThread() reads threadId_.    *)
(* Between the two the loop may see quit_ and return.                       *)
DtorQuit ==
    /\ base = "dtor"
    /\ QuitAccess("quitting")
    /\ quit_' = [quit_ EXCEPT ![i] = TRUE]
    /\ quitAsked' = [quitAsked EXCEPT ![i] = TRUE]
    /\ UNCHANGED <<pool, i, started_, joined_, worker, loop_, calls, quitLost>>

DtorQuitTests ==
    /\ base = "quitting"
    /\ QuitAccess("join")
    /\ UNCHANGED <<pool, i, threads, calls, quitAsked, quitLost>>

DtorJoin ==
    /\ base = "join"
    /\ worker[i] = "finished"
    /\ joined_' = [joined_ EXCEPT ![i] = TRUE]
    /\ IF i < numThreads_ THEN i' = i + 1 /\ base' = "dtor"
                          ELSE i' = i /\ base' = "done"
    /\ UNCHANGED <<pool, started_, worker, loop_, quit_, calls, history>>

-----------------------------------------------------------------------------
BaseStep == Start \/ ThreadStart \/ LatchOpens \/ Sleep \/ StartLoopReturns
              \/ DtorQuit \/ DtorQuitTests \/ DtorJoin

WorkerStep(k) ==
    /\ base # "aborted"
    /\ CountDown(k) \/ Publish(k) \/ EnterLoop(k) \/ LoopReturns(k) \/ ThreadFinishes(k)

(* The process ends or aborts, or hangs in join for ever: nothing else may  *)
(* be left.                                                                 *)
Next ==
    \/ BaseStep
    \/ ThreadStartFails
    \/ GetNextLoop \/ GetNextLoopEmpty \/ BeginDtor
    \/ \E hashCode \in 0 .. MaxThreads : getLoopForHash(hashCode)
    \/ getAllLoops
    \/ \E k \in Index : WorkerStep(k)
    \/ \E k \in Index : base # "aborted" /\ (QuitFromInside(k) \/ ThreadThrows(k))

(* The operating system runs every thread, and a loop told to quit returns. *)
Spec == /\ Init /\ [][Next]_vars
        /\ WF_vars(BaseStep)
        /\ \A k \in Index : WF_vars(WorkerStep(k))

-----------------------------------------------------------------------------
(* A pool with loops returns nothing but its own, and each lives on its     *)
(* thread's stack until somebody asks it to quit.                           *)
LoopsAreLive ==
    base \in {"running", "dtor"} =>
        /\ loops_ # <<>> => result \subseteq Range(loops_)
        /\ \A n \in DOMAIN loops_ :
               ~quitAsked[loops_[n]] => worker[loops_[n]] \in {"entering", "looping"}

(* Work is dealt out evenly: no loop is two calls ahead of another.         *)
DealtEvenly ==
    \A m, n \in DOMAIN loops_ : base = "running" =>
        handed[loops_[m]] <= handed[loops_[n]] + 1

(* start() waits for every thread and returns, unless a thread cannot be    *)
(* made or throws: no notification is missed.                               *)
StartReturns == base = "start" ~> base \in {"running", "aborted"}

(* The destructor returns, with two exceptions: it called quit() on a loop  *)
(* whose thread had published it and was not yet in loop(), which forgets   *)
(* the call; or on a loop that was gone when quit() accessed it, because    *)
(* somebody quit it before, or because it returned between quit_=true and   *)
(* isInLoopThread().  After that nothing is claimed.                        *)
DtorReturns ==
    base = "dtor" ~> \/ base \in {"done", "aborted"}
                     \/ \E k \in Index : quitLost[k] \/ quitDead[k]

(* Thread::join asserts that the thread was started.                        *)
JoinAsserts == base = "join" => started_[i]
=============================================================================
