--------------------- MODULE EventLoopThreadPool_proofs ---------------------
(***************************************************************************)
(* Proofs about EventLoopThreadPool, for any number of threads.            *)
(*                                                                         *)
(* startLoop makes one thread at a time, and returns its loop only when    *)
(* the thread has published it; so the loops the pool has are those of the *)
(* threads 1, 2, ... up to the one being started (InOrder), and the later  *)
(* threads do not exist yet (NotYet).  A published loop is left only for   *)
(* quit_, which nothing sets without being asked (ReturnsWhenAsked).       *)
(* getNextLoop has gone round a whole number of times and handed out the   *)
(* loops up to next_ once more (Rounds).                                   *)
(***************************************************************************)
EXTENDS EventLoopThreadPool, TLAPS

Published == {"entering", "looping", "returned", "finished"}
Starting == {"start", "latch", "wait", "asleep"}

(* Which loops the pool has, by where the base thread is.                   *)
InOrder ==
    /\ \A n \in DOMAIN loops_ : loops_[n] = n
    /\ base = "new" => loops_ = <<>> /\ i = 1
    /\ base \in Starting => Len(loops_) = i - 1 /\ i <= numThreads_
    /\ base = "running" => i = 1
    /\ base \in {"dtor", "quitting", "join"} => i <= numThreads_

(* Nothing was asked for before start() returned.                           *)
NotAskedYet ==
    base \in {"new"} \cup Starting =>
        next_ = 0 /\ result = {} /\ handed = [k \in Index |-> 0]

(* Threads that were not made, and those whose loop is known.               *)
NotYet ==
    \A k \in Index :
        /\ base \in {"new", "start"} /\ k >= i => worker[k] = "none"
        /\ base \in Starting /\ k > i => worker[k] = "none"
        /\ loop_[k] => worker[k] \in Published
        /\ k <= Len(loops_) => worker[k] \in Published

ReturnsWhenAsked ==
    \A k \in Index :
        /\ quit_[k] => quitAsked[k]
        /\ worker[k] \in {"returned", "finished"} => quitAsked[k]

OwnLoops ==
    base \in {"running", "dtor", "quitting", "join"} /\ loops_ # <<>> =>
        result \subseteq Range(loops_)

Dealt(c) ==
    \A n \in DOMAIN loops_ : handed[n] = c + (IF n <= next_ THEN 1 ELSE 0)

Rounds == base = "running" => \E c \in Nat : Dealt(c)

Inv == /\ TypeOK
       /\ InOrder /\ NotAskedYet /\ NotYet
       /\ ReturnsWhenAsked
       /\ OwnLoops /\ Rounds

-----------------------------------------------------------------------------
LEMMA InvInit == Init => Inv
<1> SUFFICES ASSUME Init PROVE Inv
  OBVIOUS
<1> USE BoundsAssumption DEF Init
<1>1. TypeOK
  <2>1. /\ loops_ \in Seq(Index) /\ Len(loops_) <= numThreads_
        /\ i \in 1 .. MaxThreads + 1 /\ base \in BasePoints
    BY DEF BasePoints
  <2>2. /\ worker \in [Index -> WorkerPoints]
        /\ handed \in [Index -> Nat]
        /\ result \subseteq Index \cup {baseLoop, Garbage}
    BY DEF WorkerPoints
  <2> QED
    BY <2>1, <2>2 DEF TypeOK
<1>2. InOrder /\ NotAskedYet /\ OwnLoops /\ Rounds
  BY DEF InOrder, NotAskedYet, OwnLoops, Rounds, Starting
<1>3. NotYet /\ ReturnsWhenAsked
  BY DEF NotYet, ReturnsWhenAsked
<1> QED
  BY <1>1, <1>2, <1>3 DEF Inv

(* The step that adds a loop, and the lists it leaves alone otherwise.      *)
LEMMA LoopAdded ==
  ASSUME Inv, StartLoopReturns
  PROVE  /\ i \in Index /\ Len(loops_) = i - 1 /\ loop_[i]
         /\ loops_' \in Seq(Index) /\ Len(loops_') = i /\ DOMAIN loops_' = 1 .. i
         /\ \A n \in DOMAIN loops_' : loops_'[n] = n
<1>1. /\ base = "wait" /\ loop_[i] /\ loops_' = Append(loops_, i)
  BY DEF StartLoopReturns
<1>2. /\ loops_ \in Seq(Index) /\ Len(loops_) = i - 1 /\ i \in Int
      /\ i <= numThreads_ /\ numThreads_ <= MaxThreads /\ 1 <= i
      /\ numThreads_ \in Int /\ MaxThreads \in Int
      /\ \A n \in DOMAIN loops_ : loops_[n] = n
  BY <1>1, BoundsAssumption DEF Inv, InOrder, TypeOK, Starting
<1>3. i \in Index
  BY <1>2 DEF Index
<1> QED
  BY <1>1, <1>2, <1>3

(* What getNextLoop returns: the loop next_ stands at.                      *)
LEMMA NextLoop ==
  ASSUME Inv, GetNextLoop
  PROVE  /\ Len(loops_) \in Nat /\ Len(loops_) > 0
         /\ next_ \in 0 .. Len(loops_) - 1
         /\ next_ + 1 \in DOMAIN loops_ /\ next_ + 1 \in Index
         /\ result' = {next_ + 1}
         /\ next_' = IF next_ + 1 = Len(loops_) THEN 0 ELSE next_ + 1
         /\ \A k \in Index : handed'[k] = handed[k] + (IF k = next_ + 1 THEN 1 ELSE 0)
<1>1. /\ loops_ # <<>> /\ loops_ \in Seq(Index)
      /\ result' = {IF next_ < Len(loops_) THEN loops_[next_ + 1] ELSE Garbage}
      /\ next_' = Wrap(next_ + 1)
      /\ handed' = [k \in Index |-> handed[k] + (IF k \in result' THEN 1 ELSE 0)]
  BY DEF GetNextLoop, Inv, TypeOK
<1>2. Len(loops_) \in Nat /\ Len(loops_) > 0 /\ next_ \in 0 .. Len(loops_) - 1
  BY <1>1 DEF Inv, TypeOK
<1>3. next_ + 1 \in DOMAIN loops_ /\ next_ < Len(loops_)
  BY <1>1, <1>2
<1>4. loops_[next_ + 1] = next_ + 1
  BY <1>3 DEF Inv, InOrder
<1>5. next_ + 1 \in Index
  BY <1>1, <1>3, <1>4
<1>6. next_' = IF next_ + 1 = Len(loops_) THEN 0 ELSE next_ + 1
  BY <1>1, <1>2 DEF Wrap
<1> QED
  BY <1>1, <1>2, <1>3, <1>4, <1>5, <1>6

LEMMA HashedLoop ==
  ASSUME Inv, NEW hashCode \in 0 .. MaxThreads, getLoopForHash(hashCode)
  PROVE  /\ loops_ = <<>> => result' = {baseLoop}
         /\ loops_ # <<>> => \E n \in DOMAIN loops_ : result' = {loops_[n]}
         /\ result' \subseteq Index \cup {baseLoop, Garbage}
<1> USE BoundsAssumption
<1>1. loops_ \in Seq(Index) /\ Len(loops_) \in Nat
  BY DEF Inv, TypeOK
<1>2. CASE loops_ = <<>>
  BY <1>2 DEF getLoopForHash
<1>3. CASE loops_ # <<>>
  <2>1. Len(loops_) > 0
    BY <1>1, <1>3
  <2>2. hashCode % Len(loops_) \in 0 .. Len(loops_) - 1
    BY <1>1, <2>1
  <2>3. (hashCode % Len(loops_)) + 1 \in DOMAIN loops_
    BY <1>1, <2>2
  <2> QED
    BY <1>1, <1>3, <2>3 DEF getLoopForHash
<1> QED
  BY <1>2, <1>3

-----------------------------------------------------------------------------
(* Types. *)

LEMMA TypeNext == ASSUME Inv, [Next]_vars PROVE TypeOK'
<1> USE BoundsAssumption
<1>1. TypeOK /\ i \in Int /\ numThreads_ \in Int /\ numThreads_ <= MaxThreads
        /\ Index = 1 .. MaxThreads
  <2>1. TypeOK
    BY DEF Inv
  <2>2. MaxThreads \in Int /\ numThreads_ \in 0 .. MaxThreads /\ i \in 1 .. MaxThreads + 1
    BY <2>1 DEF TypeOK
  <2> QED
    BY <2>1, <2>2 DEF Index
<1> USE <1>1 DEF pool, threads, calls, history
<1>2. CASE Start
  BY <1>2 DEF Start, TypeOK, BasePoints
<1>3. CASE ThreadStart
  BY <1>3 DEF ThreadStart, TypeOK, BasePoints, WorkerPoints
<1>4. CASE LatchOpens \/ Sleep \/ ThreadStartFails
  BY <1>4 DEF LatchOpens, Sleep, ThreadStartFails, TypeOK, BasePoints
<1>5. CASE StartLoopReturns
  <2>1. loops_' \in Seq(Index) /\ Len(loops_') = i /\ i \in Index /\ i <= numThreads_
        /\ next_ = 0
    BY <1>5, LoopAdded DEF StartLoopReturns, Inv, InOrder, NotAskedYet, Starting
  <2>2. i' \in 1 .. MaxThreads + 1 /\ base' \in BasePoints
    <3>1. \/ i < numThreads_ /\ i' = i + 1 /\ base' = "start"
          \/ i' = 1 /\ base' = "running"
      BY <1>5 DEF StartLoopReturns
    <3> QED
      BY <2>1, <3>1 DEF BasePoints
  <2>3. next_' \in 0 .. Len(loops_') - 1
    BY <1>5, <2>1 DEF StartLoopReturns
  <2> QED
    BY <1>5, <2>1, <2>2, <2>3 DEF StartLoopReturns, TypeOK
<1>6. ASSUME NEW k \in Index,
             CountDown(k) \/ Publish(k) \/ EnterLoop(k) \/ LoopReturns(k)
                 \/ ThreadFinishes(k) \/ QuitFromInside(k) \/ ThreadThrows(k)
      PROVE  TypeOK'
  <2>1. /\ UNCHANGED <<numThreads_, next_, loops_, i, started_, joined_, result, handed>>
        /\ base' \in {base, "wait", "aborted"}
    BY <1>6 DEF CountDown, Publish, EnterLoop, LoopReturns, ThreadFinishes,
                QuitFromInside, ThreadThrows
  <2>2. worker' \in [Index -> WorkerPoints]
    BY <1>6 DEF CountDown, Publish, EnterLoop, LoopReturns, ThreadFinishes,
                QuitFromInside, ThreadThrows, TypeOK, WorkerPoints
  <2>3. /\ loop_' \in [Index -> BOOLEAN] /\ quit_' \in [Index -> BOOLEAN]
        /\ quitAsked' \in [Index -> BOOLEAN]
    BY <1>6 DEF CountDown, Publish, EnterLoop, LoopReturns, ThreadFinishes,
                QuitFromInside, ThreadThrows, TypeOK
  <2>4. quitLost' \in [Index -> BOOLEAN] /\ quitDead' \in [Index -> BOOLEAN]
    BY <1>6 DEF CountDown, Publish, EnterLoop, LoopReturns, ThreadFinishes,
                QuitFromInside, ThreadThrows, TypeOK
  <2> QED
    BY <2>1, <2>2, <2>3, <2>4 DEF TypeOK, BasePoints
<1>7. CASE GetNextLoop
  <2>1. /\ next_' \in 0 .. Len(loops_) - 1 /\ result' \subseteq Index
    BY <1>7, NextLoop
  <2>2. handed' \in [Index -> Nat]
    BY <1>7 DEF GetNextLoop, TypeOK
  <2> QED
    BY <1>7, <2>1, <2>2 DEF GetNextLoop, TypeOK
<1>8. CASE GetNextLoopEmpty
  BY <1>8 DEF GetNextLoopEmpty, TypeOK
<1>9. ASSUME NEW hashCode \in 0 .. MaxThreads, getLoopForHash(hashCode) PROVE TypeOK'
  <2>1. result' \subseteq Index \cup {baseLoop, Garbage}
    BY <1>9, HashedLoop
  <2> QED
    BY <1>9, <2>1 DEF getLoopForHash, TypeOK
<1>10. CASE getAllLoops
  <2>1. result' \subseteq Index \cup {baseLoop, Garbage}
    BY <1>10 DEF getAllLoops, TypeOK, Range
  <2> QED
    BY <1>10, <2>1 DEF getAllLoops, TypeOK
<1>11. CASE BeginDtor
  BY <1>11 DEF BeginDtor, TypeOK, BasePoints
<1>12. CASE DtorQuit \/ DtorQuitTests
  BY <1>12 DEF DtorQuit, DtorQuitTests, QuitAccess, TypeOK, BasePoints
<1>13. CASE DtorJoin
  <2>1. i' \in 1 .. MaxThreads + 1 /\ base' \in BasePoints
    BY <1>13 DEF DtorJoin, TypeOK, BasePoints
  <2> QED
    BY <1>13, <2>1 DEF DtorJoin, TypeOK
<1>14. CASE UNCHANGED vars
  BY <1>14 DEF vars, TypeOK
<1> QED
  BY <1>2, <1>3, <1>4, <1>5, <1>6, <1>7, <1>8, <1>9, <1>10, <1>11, <1>12, <1>13, <1>14
     DEF Next, BaseStep, WorkerStep

-----------------------------------------------------------------------------
(* The loops, in the order of their threads. *)

LEMMA InOrderNext == ASSUME Inv, [Next]_vars PROVE InOrder'
<1> USE DEF pool, threads, calls, history
<1>1. InOrder /\ loops_ \in Seq(Index) /\ i \in Int /\ numThreads_ \in Nat
      /\ Len(loops_) \in Nat /\ Len(loops_) <= numThreads_
  BY BoundsAssumption DEF Inv, TypeOK
<1>2. CASE Start
  BY <1>1, <1>2 DEF Start, InOrder, Starting
<1>3. CASE ThreadStart \/ LatchOpens \/ Sleep \/ ThreadStartFails
  BY <1>1, <1>3 DEF ThreadStart, LatchOpens, Sleep, ThreadStartFails, InOrder, Starting
<1>4. CASE StartLoopReturns
  BY <1>1, <1>4, LoopAdded DEF StartLoopReturns, InOrder, Starting
<1>5. ASSUME NEW k \in Index,
             CountDown(k) \/ Publish(k) \/ EnterLoop(k) \/ LoopReturns(k)
                 \/ ThreadFinishes(k) \/ QuitFromInside(k) \/ ThreadThrows(k)
      PROVE  InOrder'
  <2>1. /\ UNCHANGED <<numThreads_, loops_, i>>
        /\ base' = base \/ base' = "aborted" \/ (base = "asleep" /\ base' = "wait")
    BY <1>5 DEF CountDown, Publish, EnterLoop, LoopReturns, ThreadFinishes,
                QuitFromInside, ThreadThrows
  <2> QED
    BY <1>1, <2>1 DEF InOrder, Starting
<1>6. CASE GetNextLoop \/ GetNextLoopEmpty \/ getAllLoops
               \/ \E hashCode \in 0 .. MaxThreads : getLoopForHash(hashCode)
  BY <1>1, <1>6 DEF GetNextLoop, GetNextLoopEmpty, getAllLoops, getLoopForHash, InOrder
<1>7. CASE BeginDtor
  <2>1. loops_ # <<>> => Len(loops_) > 0
    BY <1>1
  <2> QED
    BY <1>1, <1>7, <2>1 DEF BeginDtor, InOrder, Starting
<1>8. CASE DtorQuit \/ DtorQuitTests \/ DtorJoin
  BY <1>1, <1>8 DEF DtorQuit, DtorQuitTests, QuitAccess, DtorJoin, InOrder, Starting
<1>9. CASE UNCHANGED vars
  BY <1>1, <1>9 DEF vars, InOrder, Starting
<1> QED
  BY <1>2, <1>3, <1>4, <1>5, <1>6, <1>7, <1>8, <1>9 DEF Next, BaseStep, WorkerStep

LEMMA NotAskedNext == ASSUME Inv, [Next]_vars PROVE NotAskedYet'
<1> USE DEF pool, threads, calls, history, Starting
<1>1. NotAskedYet
  BY DEF Inv
<1>2. CASE Start \/ ThreadStart \/ LatchOpens \/ Sleep \/ ThreadStartFails
               \/ StartLoopReturns
  BY <1>1, <1>2 DEF Start, ThreadStart, LatchOpens, Sleep, ThreadStartFails,
                    StartLoopReturns, NotAskedYet
<1>3. ASSUME NEW k \in Index,
             CountDown(k) \/ Publish(k) \/ EnterLoop(k) \/ LoopReturns(k)
                 \/ ThreadFinishes(k) \/ QuitFromInside(k) \/ ThreadThrows(k)
      PROVE  NotAskedYet'
  BY <1>1, <1>3 DEF CountDown, Publish, EnterLoop, LoopReturns, ThreadFinishes,
                    QuitFromInside, ThreadThrows, NotAskedYet
<1>4. CASE GetNextLoop \/ GetNextLoopEmpty \/ getAllLoops \/ BeginDtor
               \/ \E hashCode \in 0 .. MaxThreads : getLoopForHash(hashCode)
  BY <1>4 DEF GetNextLoop, GetNextLoopEmpty, getAllLoops, getLoopForHash, BeginDtor,
              NotAskedYet
<1>5. CASE DtorQuit \/ DtorQuitTests \/ DtorJoin
  BY <1>5 DEF DtorQuit, DtorQuitTests, QuitAccess, DtorJoin, NotAskedYet
<1>6. CASE UNCHANGED vars
  BY <1>1, <1>6 DEF vars, NotAskedYet
<1> QED
  BY <1>2, <1>3, <1>4, <1>5, <1>6 DEF Next, BaseStep, WorkerStep

-----------------------------------------------------------------------------
(* The threads. *)

(* A thread is made when it is its turn; what was published stays so.       *)
LEMMA NotYetNext == ASSUME Inv, [Next]_vars PROVE NotYet'
<1> USE DEF pool, threads, calls, history
<1>1. /\ NotYet /\ i \in Int /\ Index = 1 .. MaxThreads /\ MaxThreads \in Nat
      /\ worker \in [Index -> WorkerPoints] /\ loop_ \in [Index -> BOOLEAN]
      /\ Len(loops_) \in Nat
  BY BoundsAssumption DEF Inv, TypeOK, Index
<1> SUFFICES ASSUME NEW k \in Index
             PROVE  /\ base' \in {"new", "start"} /\ k >= i' => worker'[k] = "none"
                    /\ base' \in Starting /\ k > i' => worker'[k] = "none"
                    /\ loop_'[k] => worker'[k] \in Published
                    /\ k <= Len(loops_') => worker'[k] \in Published
  BY DEF NotYet
<1>2. /\ base \in {"new", "start"} /\ k >= i => worker[k] = "none"
      /\ base \in Starting /\ k > i => worker[k] = "none"
      /\ loop_[k] => worker[k] \in Published
      /\ k <= Len(loops_) => worker[k] \in Published
      /\ k \in Int /\ i \in Int
  BY <1>1 DEF NotYet
<1>3. CASE Start \/ LatchOpens \/ Sleep \/ ThreadStartFails
  BY <1>2, <1>3 DEF Start, LatchOpens, Sleep, ThreadStartFails, Starting
<1>4. CASE ThreadStart
  <2>1. base = "start" /\ base' = "latch" /\ i \in Index /\ Len(loops_) = i - 1
        /\ worker' = [worker EXCEPT ![i] = "created"] /\ UNCHANGED <<loops_, i, loop_>>
    BY <1>4, BoundsAssumption DEF ThreadStart, Inv, InOrder, TypeOK, Starting, Index
  <2>2. worker[i] = "none" /\ ~loop_[i]
    BY <1>1, <2>1 DEF NotYet, Published
  <2> QED
    BY <1>1, <1>2, <2>1, <2>2 DEF Starting
<1>5. CASE StartLoopReturns
  <2>1. /\ i \in Index /\ Len(loops_) = i - 1 /\ loop_[i] /\ Len(loops_') = i
        /\ UNCHANGED <<worker, loop_>> /\ base = "wait"
        /\ \/ i' = i + 1 /\ base' = "start"
           \/ base' = "running"
    BY <1>5, LoopAdded DEF StartLoopReturns
  <2>2. worker[i] \in Published
    BY <1>1, <2>1 DEF NotYet
  <2> QED
    BY <1>2, <2>1, <2>2 DEF Starting
<1>6. ASSUME NEW j \in Index,
             CountDown(j) \/ Publish(j) \/ EnterLoop(j) \/ LoopReturns(j)
                 \/ ThreadFinishes(j) \/ QuitFromInside(j) \/ ThreadThrows(j)
      PROVE  /\ base' \in {"new", "start"} /\ k >= i' => worker'[k] = "none"
             /\ base' \in Starting /\ k > i' => worker'[k] = "none"
             /\ loop_'[k] => worker'[k] \in Published
             /\ k <= Len(loops_') => worker'[k] \in Published
  <2>1. /\ UNCHANGED <<loops_, i>>
        /\ base' \notin {"new", "start"} \/ base' = base
        /\ base' \in Starting => base \in Starting
    BY <1>6 DEF CountDown, Publish, EnterLoop, LoopReturns, ThreadFinishes,
                QuitFromInside, ThreadThrows, Starting
  <2>2. /\ worker[k] = "none" => worker'[k] = "none"
        /\ worker[k] \in Published => worker'[k] \in Published
    BY <1>1, <1>6 DEF CountDown, Publish, EnterLoop, LoopReturns, ThreadFinishes,
                      QuitFromInside, ThreadThrows, Published
  <2>3. loop_'[k] => loop_[k] \/ worker'[k] \in Published
    BY <1>1, <1>6 DEF CountDown, Publish, EnterLoop, LoopReturns, ThreadFinishes,
                      QuitFromInside, ThreadThrows, Published
  <2> QED
    BY <1>2, <2>1, <2>2, <2>3
<1>7. CASE GetNextLoop \/ GetNextLoopEmpty \/ getAllLoops
               \/ \E hashCode \in 0 .. MaxThreads : getLoopForHash(hashCode)
  BY <1>2, <1>7 DEF GetNextLoop, GetNextLoopEmpty, getAllLoops, getLoopForHash
<1>8. CASE BeginDtor \/ DtorQuit \/ DtorQuitTests \/ DtorJoin
  BY <1>2, <1>8 DEF BeginDtor, DtorQuit, DtorQuitTests, QuitAccess, DtorJoin, Starting
<1>9. CASE UNCHANGED vars
  BY <1>2, <1>9 DEF vars
<1> QED
  BY <1>3, <1>4, <1>5, <1>6, <1>7, <1>8, <1>9 DEF Next, BaseStep, WorkerStep

LEMMA ReturnsNext == ASSUME Inv, [Next]_vars PROVE ReturnsWhenAsked'
<1> USE DEF pool, threads, calls, history
<1>1. /\ worker \in [Index -> WorkerPoints]
      /\ quit_ \in [Index -> BOOLEAN] /\ quitAsked \in [Index -> BOOLEAN]
  BY DEF Inv, TypeOK
<1> SUFFICES ASSUME NEW k \in Index
             PROVE  /\ quit_'[k] => quitAsked'[k]
                    /\ worker'[k] \in {"returned", "finished"} => quitAsked'[k]
  BY DEF ReturnsWhenAsked
<1>2. /\ quit_[k] => quitAsked[k]
      /\ worker[k] \in {"returned", "finished"} => quitAsked[k]
  BY DEF Inv, ReturnsWhenAsked
<1>3. CASE ThreadStart
  BY <1>1, <1>2, <1>3 DEF ThreadStart
<1>4. CASE Start \/ LatchOpens \/ Sleep \/ ThreadStartFails \/ StartLoopReturns
  BY <1>2, <1>4 DEF Start, LatchOpens, Sleep, ThreadStartFails, StartLoopReturns
<1>5. ASSUME NEW j \in Index,
             CountDown(j) \/ Publish(j) \/ EnterLoop(j) \/ LoopReturns(j)
                 \/ ThreadFinishes(j) \/ QuitFromInside(j) \/ ThreadThrows(j)
      PROVE  /\ quit_'[k] => quitAsked'[k]
             /\ worker'[k] \in {"returned", "finished"} => quitAsked'[k]
  <2>1. CASE CountDown(j) \/ Publish(j) \/ ThreadThrows(j)
    BY <1>1, <1>2, <2>1 DEF CountDown, Publish, ThreadThrows
  <2>2. CASE EnterLoop(j) \/ QuitFromInside(j)
    BY <1>1, <1>2, <2>2 DEF EnterLoop, QuitFromInside
  <2>3. CASE LoopReturns(j) \/ ThreadFinishes(j)
    BY <1>1, <1>2, <2>3 DEF LoopReturns, ThreadFinishes
  <2> QED
    BY <1>5, <2>1, <2>2, <2>3
<1>6. CASE GetNextLoop \/ GetNextLoopEmpty \/ getAllLoops
               \/ \E hashCode \in 0 .. MaxThreads : getLoopForHash(hashCode)
  BY <1>2, <1>6 DEF GetNextLoop, GetNextLoopEmpty, getAllLoops, getLoopForHash
<1>7. CASE BeginDtor \/ DtorQuitTests \/ DtorJoin
  BY <1>2, <1>7 DEF BeginDtor, DtorQuitTests, DtorJoin
<1>8. CASE DtorQuit
  BY <1>1, <1>2, <1>8 DEF DtorQuit
<1>9. CASE UNCHANGED vars
  BY <1>2, <1>9 DEF vars
<1> QED
  BY <1>3, <1>4, <1>5, <1>6, <1>7, <1>8, <1>9 DEF Next, BaseStep, WorkerStep

-----------------------------------------------------------------------------
(* What the pool returns. *)

LEMMA OwnLoopsNext == ASSUME Inv, [Next]_vars PROVE OwnLoops'
<1> USE DEF pool, threads, calls, history
<1>1. OwnLoops /\ loops_ \in Seq(Index)
  BY DEF Inv, TypeOK
<1>2. CASE Start \/ ThreadStart \/ LatchOpens \/ Sleep \/ ThreadStartFails
  <2>1. base' \in {"running", "dtor", "quitting", "join"} => base = "new" /\ UNCHANGED result
    BY <1>2 DEF Start, ThreadStart, LatchOpens, Sleep, ThreadStartFails
  <2> QED
    BY <2>1 DEF Inv, NotAskedYet, OwnLoops
<1>3. CASE StartLoopReturns
  BY <1>3 DEF StartLoopReturns, Inv, NotAskedYet, OwnLoops, Starting
<1>4. ASSUME NEW k \in Index,
             CountDown(k) \/ Publish(k) \/ EnterLoop(k) \/ LoopReturns(k)
                 \/ ThreadFinishes(k) \/ QuitFromInside(k) \/ ThreadThrows(k)
      PROVE  OwnLoops'
  <2>1. /\ UNCHANGED <<loops_, result>>
        /\ base' = base \/ base' = "aborted" \/ base' = "wait"
    BY <1>4 DEF CountDown, Publish, EnterLoop, LoopReturns, ThreadFinishes,
                QuitFromInside, ThreadThrows
  <2> QED
    BY <1>1, <2>1 DEF OwnLoops
<1>5. CASE GetNextLoop
  <2>1. next_ + 1 \in DOMAIN loops_ /\ result' = {next_ + 1} /\ loops_' = loops_
    BY <1>5, NextLoop DEF GetNextLoop
  <2>2. loops_[next_ + 1] = next_ + 1
    BY <2>1 DEF Inv, InOrder
  <2>3. next_ + 1 \in Range(loops_)
    BY <2>1, <2>2 DEF Range
  <2> QED
    BY <2>1, <2>3 DEF OwnLoops
<1>6. CASE GetNextLoopEmpty
  BY <1>6 DEF GetNextLoopEmpty, OwnLoops
<1>7. ASSUME NEW hashCode \in 0 .. MaxThreads, getLoopForHash(hashCode) PROVE OwnLoops'
  <2>1. loops_ # <<>> => \E n \in DOMAIN loops_ : result' = {loops_[n]}
    BY <1>7, HashedLoop
  <2>2. loops_ # <<>> => result' \subseteq Range(loops_)
    BY <2>1 DEF Range
  <2>3. loops_' = loops_
    BY <1>7 DEF getLoopForHash
  <2> QED
    BY <2>2, <2>3 DEF OwnLoops
<1>8. CASE getAllLoops
  BY <1>8 DEF getAllLoops, OwnLoops
<1>9. CASE BeginDtor \/ DtorQuit \/ DtorQuitTests \/ DtorJoin
  <2>1. /\ UNCHANGED <<loops_, result>>
        /\ base \in {"running", "dtor", "quitting", "join"} /\ base' # "running"
    BY <1>9 DEF BeginDtor, DtorQuit, DtorQuitTests, QuitAccess, DtorJoin
  <2> QED
    BY <1>1, <2>1 DEF OwnLoops
<1>10. CASE UNCHANGED vars
  BY <1>1, <1>10 DEF vars, OwnLoops
<1> QED
  BY <1>2, <1>3, <1>4, <1>5, <1>6, <1>7, <1>8, <1>9, <1>10 DEF Next, BaseStep, WorkerStep

(* A call hands out the loop after next_: the rounds go on, or a new one    *)
(* begins.                                                                  *)
LEMMA RoundsNext == ASSUME Inv, [Next]_vars PROVE Rounds'
<1> USE DEF pool, threads, calls, history
<1>1. loops_ \in Seq(Index) /\ Len(loops_) \in Nat /\ DOMAIN loops_ = 1 .. Len(loops_)
  BY DEF Inv, TypeOK
<1>2. ASSUME base' = "running", UNCHANGED <<next_, loops_, handed>>, base = "running"
      PROVE  Rounds'
  BY <1>2 DEF Inv, Rounds, Dealt
<1>3. CASE Start \/ ThreadStart \/ LatchOpens \/ Sleep \/ ThreadStartFails
               \/ StartLoopReturns
  <2>1. CASE base' # "running"
    BY <2>1 DEF Rounds
  <2>2. CASE base' = "running"
    <3>1. base \in {"new"} \cup Starting /\ UNCHANGED <<next_, handed>>
      BY <1>3, <2>2 DEF Start, ThreadStart, LatchOpens, Sleep, ThreadStartFails,
                        StartLoopReturns, Starting
    <3>2. next_ = 0 /\ handed = [k \in Index |-> 0]
      BY <3>1 DEF Inv, NotAskedYet
    <3>3. loops_' \in Seq(Index) /\ \A n \in DOMAIN loops_' : loops_'[n] = n
      BY <1>1, <1>3, LoopAdded DEF Start, ThreadStart, LatchOpens, Sleep,
         ThreadStartFails, Inv, InOrder
    <3>4. \A n \in DOMAIN loops_' : n \in Index /\ n \in Int /\ n > 0
      BY <3>3
    <3>5. \A n \in DOMAIN loops_' : handed'[n] = 0 + (IF n <= next_' THEN 1 ELSE 0)
      BY <3>1, <3>2, <3>4
    <3> QED
      BY <3>5 DEF Rounds, Dealt
  <2> QED
    BY <2>1, <2>2
<1>4. ASSUME NEW k \in Index,
             CountDown(k) \/ Publish(k) \/ EnterLoop(k) \/ LoopReturns(k)
                 \/ ThreadFinishes(k) \/ QuitFromInside(k) \/ ThreadThrows(k)
      PROVE  Rounds'
  <2>1. /\ UNCHANGED <<next_, loops_, handed>>
        /\ base' = base \/ base' = "aborted" \/ base' = "wait"
    BY <1>4 DEF CountDown, Publish, EnterLoop, LoopReturns, ThreadFinishes,
                QuitFromInside, ThreadThrows
  <2> QED
    BY <1>2, <2>1 DEF Rounds
<1>5. CASE GetNextLoop
  <2>1. /\ next_ \in 0 .. Len(loops_) - 1 /\ next_ + 1 \in DOMAIN loops_
        /\ next_' = IF next_ + 1 = Len(loops_) THEN 0 ELSE next_ + 1
        /\ \A k \in Index : handed'[k] = handed[k] + (IF k = next_ + 1 THEN 1 ELSE 0)
        /\ loops_' = loops_ /\ base = "running"
    BY <1>5, NextLoop DEF GetNextLoop
  <2>2. PICK c \in Nat : Dealt(c)
    BY <2>1 DEF Inv, Rounds
  <2>3. \A n \in DOMAIN loops_ : n \in Index /\ n \in 1 .. Len(loops_)
    BY <1>1 DEF Inv, InOrder
  <2>4. \A n \in DOMAIN loops_ :
           handed'[n] = c + (IF n <= next_ THEN 1 ELSE 0) + (IF n = next_ + 1 THEN 1 ELSE 0)
    BY <2>1, <2>2, <2>3 DEF Dealt
  <2>5. CASE next_ + 1 = Len(loops_)
    <3>1. \A n \in DOMAIN loops_ : handed'[n] = (c + 1) + (IF n <= next_' THEN 1 ELSE 0)
      BY <1>1, <2>1, <2>3, <2>4, <2>5
    <3>2. c + 1 \in Nat /\ Dealt(c + 1)'
      BY <2>1, <3>1 DEF Dealt
    <3> QED
      BY <3>2 DEF Rounds
  <2>6. CASE next_ + 1 # Len(loops_)
    <3>1. \A n \in DOMAIN loops_ : handed'[n] = c + (IF n <= next_' THEN 1 ELSE 0)
      <4> SUFFICES ASSUME NEW n \in DOMAIN loops_
                   PROVE  handed'[n] = c + (IF n <= next_' THEN 1 ELSE 0)
        OBVIOUS
      <4>1. n \in Int /\ next_ \in Int /\ next_' = next_ + 1
        BY <2>1, <2>3, <2>6
      <4>2. handed'[n] = c + (IF n <= next_ THEN 1 ELSE 0)
                           + (IF n = next_ + 1 THEN 1 ELSE 0)
        BY <2>4
      <4>3. CASE n <= next_
        BY <4>1, <4>2, <4>3
      <4>4. CASE n = next_ + 1
        BY <4>1, <4>2, <4>4
      <4>5. CASE n > next_ + 1
        BY <4>1, <4>2, <4>5
      <4> QED
        BY <4>1, <4>3, <4>4, <4>5
    <3> QED
      BY <2>1, <3>1 DEF Rounds, Dealt
  <2> QED
    BY <2>5, <2>6
<1>6. CASE GetNextLoopEmpty \/ getAllLoops
               \/ \E hashCode \in 0 .. MaxThreads : getLoopForHash(hashCode)
  <2>1. base = "running" /\ UNCHANGED <<base, next_, loops_, handed>>
    BY <1>6 DEF GetNextLoopEmpty, getAllLoops, getLoopForHash
  <2> QED
    BY <1>2, <2>1 DEF Rounds
<1>7. CASE BeginDtor \/ DtorQuit \/ DtorQuitTests \/ DtorJoin
  BY <1>7 DEF BeginDtor, DtorQuit, DtorQuitTests, QuitAccess, DtorJoin, Rounds
<1>8. CASE UNCHANGED vars
  BY <1>2, <1>8 DEF vars, Rounds
<1> QED
  BY <1>3, <1>4, <1>5, <1>6, <1>7, <1>8 DEF Next, BaseStep, WorkerStep

-----------------------------------------------------------------------------
LEMMA Invariance == Spec => []Inv
<1>1. Inv /\ [Next]_vars => Inv'
  BY TypeNext, InOrderNext, NotAskedNext, NotYetNext, ReturnsNext, OwnLoopsNext,
     RoundsNext DEF Inv
<1> QED
  BY InvInit, <1>1, PTL DEF Spec

(* The variables have their types; next_ is a place in loops_ whenever      *)
(* there are loops.                                                         *)
THEOREM TypeCorrect == Spec => []TypeOK
<1>1. Inv => TypeOK
  BY DEF Inv
<1> QED
  BY <1>1, Invariance, PTL

(* Every loop the pool returns is one of its own, and is alive on its       *)
(* thread's stack as long as nobody asked it to quit                        *)
(* (EventLoopThread.cpp:23-60, EventLoopThreadPool.cpp:40-78).              *)
THEOREM PoolLoopsAreLive == Spec => []LoopsAreLive
<1>1. Inv => LoopsAreLive
  <2> SUFFICES ASSUME Inv, base \in {"running", "dtor"} PROVE LoopsAreLive
    BY DEF LoopsAreLive
  <2>1. loops_ # <<>> => result \subseteq Range(loops_)
    BY DEF Inv, OwnLoops
  <2>2. ASSUME NEW n \in DOMAIN loops_, ~quitAsked[loops_[n]]
        PROVE  worker[loops_[n]] \in {"entering", "looping"}
    <3>1. loops_[n] = n /\ n \in Index /\ n <= Len(loops_)
      BY DEF Inv, InOrder, TypeOK
    <3>2. worker[n] \in Published /\ worker[n] \notin {"returned", "finished"}
      BY <2>2, <3>1 DEF Inv, NotYet, ReturnsWhenAsked
    <3> QED
      BY <3>1, <3>2 DEF Published
  <2> QED
    BY <2>1, <2>2 DEF LoopsAreLive
<1> QED
  BY <1>1, Invariance, PTL

(* getNextLoop deals the loops out in turn: no loop was returned two times  *)
(* more than another, after any number of calls.                            *)
THEOREM WorkIsDealtEvenly == Spec => []DealtEvenly
<1>1. Inv => DealtEvenly
  <2> SUFFICES ASSUME Inv, base = "running",
                      NEW m \in DOMAIN loops_, NEW n \in DOMAIN loops_
               PROVE  handed[loops_[m]] <= handed[loops_[n]] + 1
    BY DEF DealtEvenly
  <2>1. PICK c \in Nat : Dealt(c)
    BY DEF Inv, Rounds
  <2>2. loops_[m] = m /\ loops_[n] = n
    BY DEF Inv, InOrder
  <2>3. handed[m] \in c .. c + 1 /\ handed[n] \in c .. c + 1
    BY <2>1 DEF Dealt
  <2> QED
    BY <2>1, <2>2, <2>3
<1> QED
  BY <1>1, Invariance, PTL
=============================================================================
