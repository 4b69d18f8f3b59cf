-------------------------- MODULE EventLoop_proofs --------------------------
(***************************************************************************)
(* Proofs about EventLoop for any sets of functors and threads: the type   *)
(* invariant, the absence of lost wakeups, and that the loop implements    *)
(* TaskQueue.                                                              *)
(***************************************************************************)
EXTENDS EventLoop, SequenceTheorems, TLAPS

(* What an append adds to the elements of a sequence.                       *)
LEMMA RangeOfAppend ==
  ASSUME NEW S, NEW s \in Seq(S), NEW e \in S
  PROVE  Range(Append(s, e)) = Range(s) \cup {e}
<1>1. DOMAIN s = 1 .. Len(s) /\ Len(s) \in Nat
  BY LenProperties
<1>2. /\ Append(s, e) \in Seq(S)
      /\ Len(Append(s, e)) = Len(s) + 1
      /\ \A i \in 1 .. Len(s) : Append(s, e)[i] = s[i]
      /\ Append(s, e)[Len(s) + 1] = e
  BY AppendProperties
<1>3. DOMAIN Append(s, e) = 1 .. Len(s) + 1
  BY <1>2, LenProperties
<1>4. 1 .. Len(s) + 1 = (1 .. Len(s)) \cup {Len(s) + 1}
  BY <1>1
<1> QED
  <2>1. \A x \in Range(Append(s, e)) : x \in Range(s) \/ x = e
    BY <1>1, <1>2, <1>3, <1>4 DEF Range
  <2>2. \A x \in Range(s) : x \in Range(Append(s, e))
    BY <1>1, <1>2, <1>3, <1>4 DEF Range
  <2>3. e \in Range(Append(s, e))
    BY <1>2, <1>3, <1>4 DEF Range
  <2> QED
    BY <2>1, <2>2, <2>3

LEMMA TypeInit == Init => TypeOK
<1> SUFFICES ASSUME Init PROVE TypeOK
  OBVIOUS
<1>1. FlagsMatch
  BY DEF Init, FlagsMatch
<1> QED
  BY <1>1, NoTaskAssumption, EmptySeq DEF Init, TypeOK, LoopPoints

LEMMA FlagsNext == TypeOK /\ [Next]_vars => FlagsMatch'
<1> SUFFICES ASSUME TypeOK, [Next]_vars PROVE FlagsMatch'
  OBVIOUS
<1> USE DEF TypeOK, FlagsMatch
<1>1. CASE TestQuit
  BY <1>1 DEF TestQuit
<1>2. CASE Poll \/ PollTimeout
  BY <1>2 DEF Poll, PollTimeout
<1>3. CASE EnterLoop \/ Quit \/ IoArrives
  BY <1>3 DEF EnterLoop, Quit, IoArrives
<1>4. CASE HandleRead \/ HandleEvent \/ HandlerReturns
  BY <1>4 DEF HandleRead, HandleEvent, HandlerReturns
<1>5. CASE SwapFunctors
  BY <1>5 DEF SwapFunctors
<1>6. CASE RunFunctor
  BY <1>6, HeadTailProperties, NoTaskAssumption DEF RunFunctor
<1>7. CASE FunctorReturns \/ FunctorsDone
  BY <1>7 DEF FunctorReturns, FunctorsDone
<1>8. ASSUME NEW f \in Tasks, QueueInLoop(f) PROVE FlagsMatch'
  BY <1>8 DEF QueueInLoop
<1>9. ASSUME NEW t \in Threads, Wakeup(t) \/ QuitFromThread(t)
      PROVE  FlagsMatch'
  BY <1>9 DEF Wakeup, QuitFromThread
<1>10. ASSUME NEW t \in Threads, NEW f \in Tasks, Push(t, f)
       PROVE  FlagsMatch'
  BY <1>10 DEF Push
<1>11. CASE UNCHANGED vars
  BY <1>11 DEF vars
<1> QED
  BY <1>1, <1>2, <1>3, <1>4, <1>5, <1>6, <1>7, <1>8, <1>9, <1>10, <1>11
     DEF Next, LoopStep

LEMMA TypeNext == TypeOK /\ [Next]_vars => TypeOK'
<1> SUFFICES ASSUME TypeOK, [Next]_vars, FlagsMatch' PROVE TypeOK'
  BY FlagsNext
<1> USE DEF TypeOK, LoopPoints, Channels
<1>1. CASE TestQuit
  BY <1>1 DEF TestQuit
<1>2. CASE Poll \/ PollTimeout
  BY <1>2 DEF Poll, PollTimeout, Ready
<1>3. CASE EnterLoop \/ Quit \/ IoArrives
  BY <1>3 DEF EnterLoop, Quit, IoArrives
<1>4. CASE HandleRead \/ HandleEvent \/ HandlerReturns
  BY <1>4 DEF HandleRead, HandleEvent, HandlerReturns
<1>5. CASE SwapFunctors
  BY <1>5, EmptySeq DEF SwapFunctors
<1>6. CASE RunFunctor
  BY <1>6, HeadTailProperties DEF RunFunctor
<1>7. CASE FunctorReturns \/ FunctorsDone
  BY <1>7 DEF FunctorReturns, FunctorsDone
<1>8. ASSUME NEW f \in Tasks, QueueInLoop(f) PROVE TypeOK'
  BY <1>8, AppendProperties DEF QueueInLoop
<1>9. ASSUME NEW t \in Threads, Wakeup(t) \/ QuitFromThread(t) PROVE TypeOK'
  BY <1>9 DEF Wakeup, QuitFromThread
<1>10. ASSUME NEW t \in Threads, NEW f \in Tasks, Push(t, f) PROVE TypeOK'
  BY <1>10, AppendProperties DEF Push
<1>11. CASE UNCHANGED vars
  BY <1>11 DEF vars
<1> QED
  BY <1>1, <1>2, <1>3, <1>4, <1>5, <1>6, <1>7, <1>8, <1>9, <1>10, <1>11
     DEF Next, LoopStep

(* Every variable keeps its type and the flags match the control point, in  *)
(* every behaviour of loop() and of the threads that call it.               *)
THEOREM TypeCorrect == Spec => []TypeOK
<1>1. Init => TypeOK
  BY TypeInit
<1>2. TypeOK /\ [Next]_vars => TypeOK'
  BY TypeNext
<1> QED
  BY <1>1, <1>2, PTL DEF Spec

-----------------------------------------------------------------------------
(* NoLostWakeup is about the blocked thread.  What makes it inductive is    *)
(* that it holds wherever a functor can be queued and is not in the batch   *)
(* about to be swapped: while a batch runs, at the loop's test and outside. *)
Announced ==
    /\ pc \in {"outside", "test", "poll", "run", "functor"}
    /\ ~wakeupFd
    /\ \A t \in Threads : caller[t] = "idle"
    => Range(pendingFunctors_) \subseteq unannounced

Inv == TypeOK /\ Announced

LEMMA InvInit == Init => Inv
<1> SUFFICES ASSUME Init PROVE Inv
  OBVIOUS
<1>1. Range(pendingFunctors_) = {}
  BY DEF Init, Range
<1> QED
  BY <1>1, TypeInit DEF Inv, Announced

LEMMA InvNext == Inv /\ [Next]_vars => Inv'
<1> SUFFICES ASSUME TypeOK, Announced, [Next]_vars PROVE Announced'
  BY TypeNext DEF Inv
<1> USE DEF Announced
<1>1. CASE TestQuit \/ Poll \/ PollTimeout \/ EnterLoop
  BY <1>1 DEF TestQuit, Poll, PollTimeout, EnterLoop
<1>2. CASE HandleRead \/ HandleEvent \/ HandlerReturns \/ IoArrives \/ Quit
  BY <1>2 DEF HandleRead, HandleEvent, HandlerReturns, IoArrives, Quit
<1>3. CASE SwapFunctors
  <2>1. Range(pendingFunctors_') = {}
    BY <1>3 DEF SwapFunctors, Range
  <2> QED
    BY <2>1
<1>4. CASE RunFunctor \/ FunctorReturns \/ FunctorsDone
  BY <1>4 DEF RunFunctor, FunctorReturns, FunctorsDone
<1>5. ASSUME NEW f \in Tasks, QueueInLoop(f) PROVE Announced'
  <2>1. Range(pendingFunctors_') = Range(pendingFunctors_) \cup {f}
    BY <1>5, RangeOfAppend DEF QueueInLoop, TypeOK
  <2>2. CASE pc = "outside"
    BY <1>5, <2>1, <2>2 DEF QueueInLoop
  <2>3. CASE pc = "handler"
    BY <1>5, <2>3 DEF QueueInLoop
  <2>4. CASE pc = "functor"
    BY <1>5, <2>4 DEF QueueInLoop, TypeOK, FlagsMatch
  <2> QED
    BY <1>5, <2>2, <2>3, <2>4 DEF QueueInLoop, InUserCode
<1>6. ASSUME NEW t \in Threads, NEW f \in Tasks, Push(t, f) PROVE Announced'
  BY <1>6 DEF Push, TypeOK
<1>7. ASSUME NEW t \in Threads, Wakeup(t) PROVE Announced'
  BY <1>7 DEF Wakeup
<1>8. ASSUME NEW t \in Threads, QuitFromThread(t) PROVE Announced'
  BY <1>8 DEF QuitFromThread
<1>9. CASE UNCHANGED vars
  BY <1>9 DEF vars
<1> QED
  BY <1>1, <1>2, <1>3, <1>4, <1>5, <1>6, <1>7, <1>8, <1>9 DEF Next, LoopStep

LEMMA Invariance == Spec => []Inv
<1>1. Inv /\ [Next]_vars => Inv'
  BY InvNext
<1> QED
  BY <1>1, InvInit, PTL DEF Spec

(* A loop thread blocked in poll has been told of every functor queued      *)
(* while it was in loop(), for any number of threads and functors.          *)
THEOREM WakeupsAreNotLost == Spec => []NoLostWakeup
<1>1. Inv => NoLostWakeup
  BY DEF Inv, Announced, NoLostWakeup
<1> QED
  BY <1>1, Invariance, PTL

-----------------------------------------------------------------------------
(* The head of the batch is the head of batch and queue together.           *)
LEMMA HeadOfConcat ==
  ASSUME NEW S, NEW s \in Seq(S), NEW t \in Seq(S), s # <<>>
  PROVE  /\ s \o t # <<>>
         /\ Head(s \o t) = Head(s)
         /\ Tail(s \o t) = Tail(s) \o t
<1> DEFINE u == s \o t
<1>1. Len(s) \in Nat \ {0} /\ Len(t) \in Nat
  BY EmptySeq, LenProperties
<1>2. /\ u \in Seq(S)
      /\ Len(u) = Len(s) + Len(t)
      /\ \A i \in 1 .. Len(s) + Len(t) :
           u[i] = IF i <= Len(s) THEN s[i] ELSE t[i - Len(s)]
  BY ConcatProperties
<1>3. u # <<>>
  BY <1>1, <1>2, EmptySeq
<1>4. Head(u) = Head(s)
  <2>1. Head(u) = u[1] /\ Head(s) = s[1]
    BY <1>3
  <2> QED
    BY <1>1, <1>2, <2>1
<1>5. Tail(u) = Tail(s) \o t
  <2>1. /\ Tail(u) \in Seq(S)
        /\ Len(Tail(u)) = Len(u) - 1
        /\ \A i \in 1 .. Len(Tail(u)) : Tail(u)[i] = u[i + 1]
    BY <1>2, <1>3, HeadTailProperties
  <2>2. /\ Tail(s) \in Seq(S)
        /\ Len(Tail(s)) = Len(s) - 1
        /\ \A i \in 1 .. Len(Tail(s)) : Tail(s)[i] = s[i + 1]
    BY HeadTailProperties
  <2>3. /\ Tail(s) \o t \in Seq(S)
        /\ Len(Tail(s) \o t) = Len(Tail(s)) + Len(t)
        /\ \A i \in 1 .. Len(Tail(s)) + Len(t) : (Tail(s) \o t)[i] =
             IF i <= Len(Tail(s)) THEN Tail(s)[i] ELSE t[i - Len(Tail(s))]
    BY <2>2, ConcatProperties
  <2>4. Len(Tail(u)) = Len(Tail(s) \o t)
    BY <1>1, <1>2, <2>1, <2>2, <2>3
  <2>5. ASSUME NEW i \in 1 .. Len(Tail(u))
        PROVE  Tail(u)[i] = (Tail(s) \o t)[i]
    BY <1>1, <1>2, <2>1, <2>2, <2>3
  <2> QED
    BY <2>1, <2>3, <2>4, <2>5, SeqEqual
<1> QED
  BY <1>3, <1>4, <1>5

(* A push at the end of pendingFunctors_ is a submission.                   *)
LEMMA PushIsSubmit ==
  ASSUME TypeOK, NEW f \in Tasks,
         pendingFunctors_' = Append(pendingFunctors_, f),
         UNCHANGED <<functors, current>>
  PROVE  TQ!Submit(f)
<1>1. functors \o Append(pendingFunctors_, f) =
        functors \o (pendingFunctors_ \o <<f>>)
  BY AppendIsConcat DEF TypeOK
<1>2. <<f>> \in Seq(Tasks)
  OBVIOUS
<1>3. functors \o (pendingFunctors_ \o <<f>>) =
        (functors \o pendingFunctors_) \o <<f>>
  BY <1>2, ConcatAssociative DEF TypeOK
<1>4. functors \o pendingFunctors_ \in Seq(Tasks)
  BY ConcatProperties DEF TypeOK
<1>5. (functors \o pendingFunctors_) \o <<f>> =
        Append(functors \o pendingFunctors_, f)
  BY <1>4, AppendIsConcat
<1> QED
  BY <1>1, <1>3, <1>5 DEF TQ!Submit

LEMMA StepRefines == TypeOK /\ [Next]_vars => [TQ!Next]_TQ!vars
<1> SUFFICES ASSUME TypeOK, [Next]_vars PROVE [TQ!Next]_TQ!vars
  OBVIOUS
<1>1. ASSUME UNCHANGED <<functors, pendingFunctors_, current>>
      PROVE  UNCHANGED TQ!vars
  BY <1>1 DEF TQ!vars
<1>2. CASE TestQuit \/ Poll \/ PollTimeout \/ EnterLoop \/ Quit
  BY <1>1, <1>2 DEF TestQuit, Poll, PollTimeout, EnterLoop, Quit
<1>3. CASE HandleRead \/ HandleEvent \/ HandlerReturns \/ FunctorsDone
  BY <1>1, <1>3 DEF HandleRead, HandleEvent, HandlerReturns, FunctorsDone
<1>4. CASE IoArrives \/ UNCHANGED vars
  BY <1>1, <1>4 DEF IoArrives, vars
<1>5. ASSUME NEW t \in Threads, Wakeup(t) \/ QuitFromThread(t)
      PROVE  UNCHANGED TQ!vars
  BY <1>1, <1>5 DEF Wakeup, QuitFromThread
<1>6. CASE SwapFunctors
  <2>1. functors = <<>>
    BY <1>6 DEF SwapFunctors, TypeOK, FlagsMatch
  <2>2. functors' \o pendingFunctors_' = functors \o pendingFunctors_
    BY <1>6, <2>1, ConcatEmptySeq DEF SwapFunctors, TypeOK
  <2> QED
    BY <1>6, <2>2 DEF SwapFunctors, TQ!vars
<1>7. CASE RunFunctor
  <2>1. current = NoTask
    BY <1>7 DEF RunFunctor, TypeOK, FlagsMatch
  <2>2. /\ functors \o pendingFunctors_ # <<>>
        /\ Head(functors \o pendingFunctors_) = Head(functors)
        /\ Tail(functors \o pendingFunctors_) =
             Tail(functors) \o pendingFunctors_
    BY <1>7, HeadOfConcat DEF RunFunctor, TypeOK
  <2>3. TQ!Start
    BY <1>7, <2>1, <2>2 DEF RunFunctor, TQ!Start
  <2> QED
    BY <2>3 DEF TQ!Next
<1>8. CASE FunctorReturns
  <2>1. current # NoTask
    BY <1>8 DEF FunctorReturns, TypeOK, FlagsMatch
  <2>2. TQ!Finish
    BY <1>8, <2>1 DEF FunctorReturns, TQ!Finish
  <2> QED
    BY <2>2 DEF TQ!Next
<1>9. ASSUME NEW f \in Tasks, QueueInLoop(f) PROVE TQ!Next
  BY <1>9, PushIsSubmit DEF QueueInLoop, TQ!Next
<1>10. ASSUME NEW t \in Threads, NEW f \in Tasks, Push(t, f) PROVE TQ!Next
  BY <1>10, PushIsSubmit DEF Push, TQ!Next
<1> QED
  BY <1>2, <1>3, <1>4, <1>5, <1>6, <1>7, <1>8, <1>9, <1>10 DEF Next, LoopStep

(* The loop, its batches and its wakeups implement a first-in first-out     *)
(* queue served by one thread: no functor is lost, run twice or overtaken.  *)
THEOREM LoopIsTaskQueue == Spec => ImplementsTaskQueue
<1>1. Init => TQ!Init
  BY ConcatEmptySeq, EmptySeq DEF Init, TQ!Init
<1>2. TypeOK /\ [Next]_vars => [TQ!Next]_TQ!vars
  BY StepRefines
<1> QED
  BY <1>1, <1>2, TypeCorrect, PTL DEF Spec, ImplementsTaskQueue, TQ!Spec
=============================================================================
