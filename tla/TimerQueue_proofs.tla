------------------------- MODULE TimerQueue_proofs -------------------------
(***************************************************************************)
(* Proofs about TimerQueue for any threads, addresses, intervals and       *)
(* bounds.  The inductive invariant adds to the checked ones what the code *)
(* relies on silently: sequence numbers are unique among living timers, a  *)
(* cancelled timer of the batch being run is in cancelingTimers_, and a    *)
(* timer set for time 0 while the batch runs has armed the timerfd itself. *)
(***************************************************************************)
EXTENDS TimerQueue, SequenceTheorems, WellFoundedInduction, TLAPS

USE DEF clock, arming, given

(* TimerIds are told apart by sequence numbers.                             *)
Numbered ==
    /\ \A a \in Addrs : sequence[a] \in {NoSeq} \cup 0 .. s_numCreate_ - 1
    /\ \A a \in live : sequence[a] # NoSeq
    /\ \A a, b \in live : sequence[a] = sequence[b] => a = b
    /\ cancelled \subseteq 0 .. s_numCreate_ - 1

(* A living timer that was cancelled is about to be deleted by reset.       *)
CancelRemembered ==
    \A a \in live : sequence[a] \in cancelled =>
        a \in expired /\ <<a, sequence[a]>> \in cancelingTimers_

(* There is a batch, and a time it was taken at, during handleRead.         *)
BatchIsOpen ==
    /\ pc = "idle" => expired = {}
    /\ pc # "idle" => handledAt \in Nat \ {0}

(* What reset does not arm the timerfd for, addTimerInLoop has.             *)
ZeroIsArmed ==
    pc # "idle" => \A e \in timers_ : e[1] = 0 => timerfd = 0

(* What is queued for cancelInLoop was passed to cancel.                    *)
CancelsAreOfKnown ==
    \A k \in DOMAIN pending :
        pending[k].op = "cancel" => \E r \in asked : r.id = pending[k].id

(* An id names the timer it was returned for or a later one, as the object  *)
(* it is read from holds the timer of the call or a later one.              *)
IdsNameNoEarlier ==
    /\ \A r \in ids : r.id[2] = NoSeq \/ r.of <= r.id[2]
    /\ \A t \in Threads : caller[t] # "idle" =>
         made[t] \in 0 .. s_numCreate_ - 1 /\ made[t] <= sequence[held[t]]

Inv ==
    /\ TypeOK /\ Numbered /\ BatchIsOpen /\ CancelsAreOfKnown /\ IdsNameNoEarlier
    /\ SetsAgree /\ OneOwner
    /\ CancelRemembered
    /\ TimerfdArmed /\ ZeroIsArmed

-----------------------------------------------------------------------------
(* Data: the earliest time, and the functors in a queue.                    *)

LEMMA MinOfNats ==
    ASSUME NEW S \in SUBSET Nat, S # {}
    PROVE  Min(S) \in S /\ \A x \in S : Min(S) <= x
<1> DEFINE R == {ss \in Nat \X Nat : ss[1] < ss[2]}
<1>1. IsWellFoundedOn(R, Nat)
      BY NatLessThanWellFounded, Zenon DEF OpToRel
<1>2. \A x, m \in S : <<x, m>> \notin R => m <= x
      OBVIOUS
<1> HIDE DEF R
<1>3. PICK m \in S : \A x \in S : <<x, m>> \notin R
      BY <1>1, WFMin, Zenon
<1>4. \A x \in S : m <= x
      BY <1>2, <1>3
<1> QED
    BY <1>4 DEF Min

AddsIn(q) == {q[k].timer : k \in {j \in DOMAIN q : q[j].op = "add"}}

AddsOnce(q) ==
    \A j, k \in DOMAIN q :
        j # k /\ q[j].op = "add" /\ q[k].op = "add" => q[j].timer # q[k].timer

(* A functor queued at the end.                                             *)
LEMMA AddsAppend ==
    ASSUME NEW q \in Seq(Functors), NEW f \in Functors
    PROVE  /\ AddsIn(Append(q, f)) =
                AddsIn(q) \cup (IF f.op = "add" THEN {f.timer} ELSE {})
           /\ AddsOnce(q) /\ (f.op = "add" => f.timer \notin AddsIn(q))
                => AddsOnce(Append(q, f))
<1>1. /\ DOMAIN q = 1 .. Len(q) /\ Len(q) \in Nat
      /\ DOMAIN Append(q, f) = 1 .. Len(q) + 1
      /\ \A i \in 1 .. Len(q) : Append(q, f)[i] = q[i]
      /\ Append(q, f)[Len(q) + 1] = f
      BY AppendProperties, LenProperties
<1>2. 1 .. Len(q) + 1 = (1 .. Len(q)) \cup {Len(q) + 1}
      BY <1>1
<1>3. AddsIn(Append(q, f)) =
        AddsIn(q) \cup (IF f.op = "add" THEN {f.timer} ELSE {})
      BY <1>1, <1>2 DEF AddsIn
<1>4. AddsOnce(q) /\ (f.op = "add" => f.timer \notin AddsIn(q))
        => AddsOnce(Append(q, f))
      BY <1>1, <1>2 DEF AddsIn, AddsOnce
<1> QED
    BY <1>3, <1>4

(* The first functor taken.                                                 *)
LEMMA AddsTail ==
    ASSUME NEW q \in Seq(Functors), q # <<>>, AddsOnce(q)
    PROVE  /\ AddsOnce(Tail(q))
           /\ Head(q).op = "add" => /\ Head(q).timer \in AddsIn(q)
                                    /\ AddsIn(Tail(q)) = AddsIn(q) \ {Head(q).timer}
           /\ Head(q).op # "add" => AddsIn(Tail(q)) = AddsIn(q)
<1>1. /\ DOMAIN q = 1 .. Len(q) /\ Len(q) \in Nat \ {0}
      /\ DOMAIN Tail(q) = 1 .. Len(q) - 1
      /\ \A i \in 1 .. Len(q) - 1 : Tail(q)[i] = q[i + 1]
      /\ Head(q) = q[1]
      BY HeadTailProperties, LenProperties, EmptySeq
<1>2. \A k \in DOMAIN q : k # 1 => k - 1 \in DOMAIN Tail(q) /\ Tail(q)[k - 1] = q[k]
      BY <1>1
<1>3. \A k \in DOMAIN Tail(q) : /\ k + 1 \in DOMAIN q /\ k + 1 # 1
                                /\ Tail(q)[k] = q[k + 1]
      BY <1>1
<1>4. AddsOnce(Tail(q))
      BY <1>1, <1>3 DEF AddsOnce
<1>5. AddsIn(Tail(q)) = {q[k].timer : k \in {j \in DOMAIN q : j # 1 /\ q[j].op = "add"}}
      <2>1. ASSUME NEW x \in AddsIn(Tail(q))
            PROVE  \E k \in DOMAIN q : k # 1 /\ q[k].op = "add" /\ q[k].timer = x
            BY <1>3 DEF AddsIn
      <2>2. ASSUME NEW k \in DOMAIN q, k # 1, q[k].op = "add"
            PROVE  q[k].timer \in AddsIn(Tail(q))
            BY <1>2, <2>2 DEF AddsIn
      <2> QED
          BY <2>1, <2>2
<1>6. 1 \in DOMAIN q
      BY <1>1
<1>7. ASSUME Head(q).op = "add"
      PROVE  /\ Head(q).timer \in AddsIn(q)
             /\ AddsIn(Tail(q)) = AddsIn(q) \ {Head(q).timer}
      <2>1. Head(q) = q[1] /\ q[1].op = "add"
            BY <1>1, <1>7
      <2>2. Head(q).timer \in AddsIn(q)
            BY <1>6, <2>1 DEF AddsIn
      <2>3. \A k \in DOMAIN q : k # 1 /\ q[k].op = "add" => q[k].timer # q[1].timer
            BY <1>6, <2>1 DEF AddsOnce
      <2>4. AddsIn(Tail(q)) = AddsIn(q) \ {q[1].timer}
            BY <1>5, <2>3 DEF AddsIn
      <2> QED
          BY <2>1, <2>2, <2>4
<1>8. Head(q).op # "add" => AddsIn(Tail(q)) = AddsIn(q)
      BY <1>1, <1>5, <1>6 DEF AddsIn
<1> QED
    BY <1>4, <1>7, <1>8

-----------------------------------------------------------------------------
(* The two sets.  Each operation on them leaves them with the same timers;  *)
(* which ones is what the ownership of the objects is told in terms of.     *)

LEMMA SetsFrom ==
    ASSUME NEW A,
           timers_' = {<<expiration'[a], a>> : a \in A},
           activeTimers_' = {<<a, sequence'[a]>> : a \in A}
    PROVE  Active' = A /\ SetsAgree'
<1>1. Active' = A
      <2>1. ASSUME NEW x \in activeTimers_' PROVE x[1] \in A
            OBVIOUS
      <2>2. ASSUME NEW a \in A PROVE \E x \in activeTimers_' : x[1] = a
            <3>1. <<a, sequence'[a]>> \in activeTimers_'
                  OBVIOUS
            <3> QED
                BY <3>1
      <2> QED
          BY <2>1, <2>2 DEF Active
<1> QED
    BY <1>1 DEF SetsAgree

LEMMA ActiveAddrs ==
    ASSUME TypeOK, SetsAgree
    PROVE  /\ Active \subseteq Addrs
           /\ \A id \in activeTimers_ : id[1] \in Active /\ id = <<id[1], sequence[id[1]]>>
           /\ \A e \in timers_ : e[2] \in Active /\ e = <<expiration[e[2]], e[2]>>
           /\ \A a \in Active : /\ <<a, sequence[a]>> \in activeTimers_
                              /\ <<expiration[a], a>> \in timers_
<1>1. \A a \in Active : \E x \in activeTimers_ : a = x[1]
      BY DEF Active
<1> QED
    BY <1>1 DEF SetsAgree, TypeOK

LEMMA AddSets ==
    ASSUME TypeOK, SetsAgree, NEW a \in Addrs, NEW when, NEW seq,
           AddTimerInLoop(a, when, seq),
           expiration'[a] = when, sequence'[a] = seq,
           \A b \in Active : expiration'[b] = expiration[b] /\ sequence'[b] = sequence[b]
    PROVE  Active' = Active \cup {a} /\ SetsAgree'
<1> DEFINE A == Active \cup {a}
<1>1. timers_' = {<<expiration'[b], b>> : b \in A}
      BY DEF AddTimerInLoop, SetsAgree
<1>2. activeTimers_' = {<<b, sequence'[b]>> : b \in A}
      BY DEF AddTimerInLoop, SetsAgree
<1> QED
    BY <1>1, <1>2, SetsFrom

LEMMA CancelSets ==
    ASSUME TypeOK, SetsAgree, NEW id, CancelInLoop(id), UNCHANGED fields
    PROVE  /\ SetsAgree'
           /\ id \in activeTimers_ => Active' = Active \ {id[1]}
           /\ id \notin activeTimers_ => Active' = Active
<1> USE DEF fields
<1>1. CASE id \in activeTimers_
      <2> DEFINE A == Active \ {id[1]}
      <2>1. timers_' = {<<expiration'[b], b>> : b \in A}
            BY <1>1 DEF CancelInLoop, SetsAgree
      <2>2. activeTimers_' = {<<b, sequence'[b]>> : b \in A}
            BY <1>1, ActiveAddrs DEF CancelInLoop, SetsAgree
      <2> QED
          BY <1>1, <2>1, <2>2, SetsFrom
<1>2. CASE id \notin activeTimers_
      BY <1>2 DEF CancelInLoop, sets, SetsAgree, Active
<1> QED
    BY <1>1, <1>2

LEMMA HandleReadSets ==
    ASSUME TypeOK, SetsAgree, HandleRead
    PROVE  /\ expired' = {a \in Active : expiration[a] <= now}
           /\ Active' = Active \ expired'
           /\ SetsAgree'
<1> DEFINE due == {e \in timers_ : e[1] <= now}
           A == Active \ expired'
<1>1. expired' = {e[2] : e \in due}
      BY DEF HandleRead
<1>2. expired' = {a \in Active : expiration[a] <= now}
      <2>1. ASSUME NEW a \in expired' PROVE a \in Active /\ expiration[a] <= now
            <3>1. PICK e \in timers_ : a = e[2] /\ e[1] <= now
                  BY <1>1
            <3> QED
                BY <3>1, ActiveAddrs
      <2>2. ASSUME NEW a \in Active, expiration[a] <= now PROVE a \in expired'
            <3>1. <<expiration[a], a>> \in due
                  BY <2>2, ActiveAddrs
            <3> QED
                BY <1>1, <3>1
      <2> QED
          BY <2>1, <2>2
<1>3. timers_' = timers_ \ due /\ UNCHANGED fields
      BY DEF HandleRead
<1>4. activeTimers_' = {x \in activeTimers_ : x[1] \notin expired'}
      BY DEF HandleRead
<1>5. timers_' = {<<expiration'[b], b>> : b \in A}
      BY <1>2, <1>3 DEF SetsAgree, fields
<1>6. activeTimers_' = {<<b, sequence'[b]>> : b \in A}
      BY <1>3, <1>4 DEF SetsAgree, fields
<1>7. Active' = A /\ SetsAgree'
      BY <1>5, <1>6, SetsFrom
<1> QED
    BY <1>2, <1>7

LEMMA ResetSets ==
    ASSUME TypeOK, SetsAgree, OneOwner, Reset
    PROVE  /\ Active' = Active \cup Restarted
           /\ SetsAgree'
<1> DEFINE A == Active \cup Restarted
<1>1. /\ Active \subseteq Addrs /\ Restarted \subseteq expired
      /\ Active \cap expired = {}
      BY ActiveAddrs DEF OneOwner, Restarted
<1>2. /\ \A b \in Active : expiration'[b] = expiration[b]
      /\ sequence' = sequence
      /\ timers_' = timers_ \cup {<<expiration'[a], a>> : a \in Restarted}
      /\ activeTimers_' = activeTimers_ \cup {<<a, sequence[a]>> : a \in Restarted}
      BY <1>1 DEF Reset, TypeOK
<1>3. timers_' = {<<expiration'[b], b>> : b \in A}
      BY <1>2 DEF SetsAgree
<1>4. activeTimers_' = {<<b, sequence'[b]>> : b \in A}
      BY <1>2 DEF SetsAgree
<1> QED
    BY <1>3, <1>4, SetsFrom

-----------------------------------------------------------------------------
(* Before loop() there are no timers.                                       *)
LEMMA InvInit == Init => Inv
<1> SUFFICES ASSUME Init PROVE Inv
    OBVIOUS
<1> USE DEF Init
<1>1. TypeOK
      <2>1. now \in 1 .. MaxTime /\ s_numCreate_ \in 0 .. MaxSeq
            BY ConstantsAssumption
      <2>2. pending \in Seq(Functors)
            BY EmptySeq
      <2>3. /\ expiration \in [Addrs -> Nat] /\ interval \in [Addrs -> Nat]
            /\ sequence \in [Addrs -> Int]
            /\ timerfd \in Nat \cup {Off} /\ drift \in Int /\ handledAt \in Nat
            /\ made \in [Threads -> Int] /\ steps \in 0 .. MaxSteps
            BY ConstantsAssumption DEF Off, NoSeq
      <2>4. callingExpiredTimer_ \in BOOLEAN /\ (callingExpiredTimer_ <=> pc # "idle")
            BY Zenon
      <2>5. \A t \in Threads : held[t] = NoTimer <=> caller[t] = "idle"
            OBVIOUS
      <2>6. /\ caller \in [Threads -> {"idle", "new", "handed"}]
            /\ held \in [Threads -> Addrs \cup {NoTimer}]
            OBVIOUS
      <2> QED
          BY <2>1, <2>2, <2>3, <2>4, <2>5, <2>6, Zenon DEF TypeOK
<1>2. Numbered /\ BatchIsOpen /\ CancelRemembered
      BY DEF Numbered, BatchIsOpen, CancelRemembered
<1>3. Active = {}
      BY DEF Active
<1>4. DOMAIN pending = {}
      BY EmptySeq
<1>5. QueuedAdds = {} /\ Unpushed = {}
      BY <1>4 DEF QueuedAdds, Unpushed
<1>6. SetsAgree /\ OneOwner
      BY <1>3, <1>4, <1>5 DEF SetsAgree, OneOwner
<1>7. CancelsAreOfKnown /\ IdsNameNoEarlier /\ TimerfdArmed /\ ZeroIsArmed
      BY <1>4 DEF CancelsAreOfKnown, IdsNameNoEarlier, TimerfdArmed, ZeroIsArmed
<1> QED
    BY <1>1, <1>2, <1>6, <1>7 DEF Inv

(* A timer restarts in the future.                                          *)
LEMMA AddTimeGrows ==
    ASSUME NEW t \in Nat, NEW delay \in Nat
    PROVE  AddTime(t, delay) \in Nat /\ AddTime(t, delay) >= t
<1>1. delay \div Second \in Nat
      BY ConstantsAssumption
<1>2. \A m, n \in Nat : m * n \in Nat
      OBVIOUS
<1> QED
    BY <1>1, <1>2, ConstantsAssumption DEF AddTime

LEMMA ArmedNat ==
    ASSUME TypeOK, NEW when \in Nat
    PROVE  /\ TimeFromNow(when) \in Nat
           /\ ArmAt(when) => timerfd' \in Nat \cup {Off} /\ drift' \in Int
BY ConstantsAssumption DEF TypeOK, TimeFromNow, ArmAt

(* A head of the queue, and what it is about.                               *)
LEMMA HeadFunctor ==
    ASSUME TypeOK, CancelsAreOfKnown, pending # <<>>
    PROVE  /\ Head(pending) \in Functors /\ Tail(pending) \in Seq(Functors)
           /\ Head(pending).op = "add" => Head(pending).timer \in Addrs
           /\ Head(pending).op = "cancel" => /\ Head(pending).id \in TimerIds
                                             /\ \E r \in asked : r.id = Head(pending).id
<1>1. Head(pending) \in Functors /\ Tail(pending) \in Seq(Functors)
      BY HeadTailProperties DEF TypeOK
<1>2. Head(pending).op = "add" => Head(pending).timer \in Addrs
      BY <1>1 DEF Functors
<1>3. Head(pending) = pending[1] /\ 1 \in DOMAIN pending
      BY LenProperties, EmptySeq DEF TypeOK
<1>4. Head(pending).op = "cancel" => \E r \in asked : r.id = Head(pending).id
      BY <1>3 DEF CancelsAreOfKnown
<1>5. Head(pending).op = "cancel" => Head(pending).id \in TimerIds
      BY <1>1 DEF Functors
<1> QED
    BY <1>1, <1>2, <1>4, <1>5

(* Adding and cancelling keep the types of what they change.                *)
LEMMA AddTypes ==
    ASSUME TypeOK, NEW a \in Addrs, NEW when \in Nat, NEW seq \in Int,
           AddTimerInLoop(a, when, seq)
    PROVE  /\ timers_' \subseteq Nat \X Addrs
           /\ activeTimers_' \subseteq Addrs \X Int
           /\ timerfd' \in Nat \cup {Off} /\ drift' \in Int
<1>1. timers_' = timers_ \cup {<<when, a>>} /\ activeTimers_' = activeTimers_ \cup {<<a, seq>>}
      BY DEF AddTimerInLoop
<1>2. ArmAt(when) \/ UNCHANGED arming
      BY DEF AddTimerInLoop
<1>3. timers_ \subseteq Nat \X Addrs /\ activeTimers_ \subseteq Addrs \X Int
      BY DEF TypeOK
<1>4. timerfd \in Nat \cup {Off} /\ drift \in Int
      BY DEF TypeOK
<1> QED
    BY <1>1, <1>2, <1>3, <1>4, ArmedNat

LEMMA CancelTypes ==
    ASSUME TypeOK, Numbered, SetsAgree, OneOwner, NEW id \in TimerIds,
           CancelInLoop(id)
    PROVE  /\ live' \subseteq live
           /\ timers_' \subseteq Nat \X Addrs /\ activeTimers_' \subseteq Addrs \X Int
           /\ cancelingTimers_' \subseteq Addrs \X Int
           /\ cancelled' \subseteq 0 .. s_numCreate_ - 1 /\ cancelled' \subseteq Nat
<1>1. id[1] \in Addrs /\ id[2] \in Int /\ id \in Addrs \X Int
      BY ConstantsAssumption DEF TimerIds, NoSeq
<1>2. \A b \in live : sequence[b] \in 0 .. s_numCreate_ - 1
      BY DEF Numbered, TypeOK
<1>3. id \in activeTimers_ => id[1] \in live /\ id[2] = sequence[id[1]]
      <2>1. ASSUME id \in activeTimers_
            PROVE  id[1] \in Active /\ id[2] = sequence[id[1]]
            BY <2>1, ActiveAddrs
      <2> QED
          BY <2>1 DEF OneOwner
<1>4. expired \subseteq live
      BY DEF OneOwner
<1>5. cancelled' \subseteq 0 .. s_numCreate_ - 1
      <2>1. cancelled \subseteq 0 .. s_numCreate_ - 1
            BY DEF Numbered
      <2>2. \/ cancelled' = cancelled
            \/ /\ cancelled' = cancelled \cup {id[2]}
               /\ id[1] \in live /\ id[2] = sequence[id[1]]
            <3>1. CASE id \in activeTimers_
                  BY <1>3, <3>1 DEF CancelInLoop
            <3>2. CASE id \notin activeTimers_
                  <4>1. CASE id[1] \in expired /\ sequence[id[1]] = id[2]
                        <5>1. cancelled' = cancelled \cup {id[2]}
                              BY <3>2, <4>1 DEF CancelInLoop
                        <5> QED
                            BY <1>4, <4>1, <5>1
                  <4>2. CASE ~ (id[1] \in expired /\ sequence[id[1]] = id[2])
                        <5>1. cancelled' = cancelled
                              BY <3>2, <4>2 DEF CancelInLoop
                        <5> QED
                            BY <5>1
                  <4> QED
                      BY <4>1, <4>2
            <3> QED
                BY <3>1, <3>2
      <2> QED
          BY <1>2, <2>1, <2>2
<1>6. cancelled' \subseteq Nat
      BY <1>5
<1>7. /\ live' \subseteq live
      /\ timers_' \subseteq timers_ /\ activeTimers_' \subseteq activeTimers_
      BY DEF CancelInLoop, sets
<1>8. timers_' \subseteq Nat \X Addrs /\ activeTimers_' \subseteq Addrs \X Int
      BY <1>7 DEF TypeOK
<1>9. cancelingTimers_' \subseteq Addrs \X Int
      BY <1>1 DEF CancelInLoop, TypeOK
<1> QED
    BY <1>5, <1>6, <1>7, <1>8, <1>9

(* Steps keep the types.                                                    *)
LEMMA TypeNext ==
    ASSUME Inv, [Next]_vars
    PROVE  TypeOK'
<1>0. /\ TypeOK /\ Numbered /\ CancelsAreOfKnown /\ IdsNameNoEarlier
      /\ SetsAgree /\ OneOwner /\ BatchIsOpen
      BY DEF Inv
<1> USE <1>0
<1>1. ASSUME NEW t \in Threads, ThreadNew(t) PROVE TypeOK'
      <2>1. PICK a \in Addrs, when \in 0 .. MaxTime, i \in Intervals :
              NewTimer(a, when, i) /\ held' = [held EXCEPT ![t] = a]
            BY <1>1 DEF ThreadNew
      <2>2. /\ live' \subseteq Addrs
            /\ expiration' \in [Addrs -> Nat] /\ interval' \in [Addrs -> Nat]
            /\ sequence' \in [Addrs -> Int]
            /\ s_numCreate_' \in 0 .. MaxSeq
            BY <2>1, ConstantsAssumption DEF NewTimer, TypeOK
      <2>3. /\ caller' = [caller EXCEPT ![t] = "new"]
            /\ made' = [made EXCEPT ![t] = s_numCreate_]
            /\ UNCHANGED <<clock, sets, cancelingTimers_, arming, handling, pending, given,
                           cancelled>>
            BY <1>1 DEF ThreadNew
      <2>4. /\ caller' \in [Threads -> {"idle", "new", "handed"}]
            /\ held' \in [Threads -> Addrs \cup {NoTimer}]
            /\ made' \in [Threads -> Int]
            BY <2>1, <2>3 DEF TypeOK
      <2>5. \A u \in Threads : held'[u] = NoTimer <=> caller'[u] = "idle"
            BY <2>1, <2>3, ConstantsAssumption DEF TypeOK
      <2> QED
          BY <2>2, <2>3, <2>4, <2>5 DEF TypeOK, sets, handling
<1>2. ASSUME NEW t \in Threads, ThreadPush(t) PROVE TypeOK'
      <2>1. [op |-> "add", timer |-> held[t]] \in Functors
            BY <1>2 DEF ThreadPush, TypeOK, Functors
      <2>2. pending' \in Seq(Functors)
            BY <1>2, <2>1, AppendProperties DEF ThreadPush, TypeOK
      <2> QED
          BY <1>2, <2>2 DEF ThreadPush, TypeOK, fields, sets, handling
<1>3. ASSUME NEW t \in Threads, ThreadReturns(t) PROVE TypeOK'
      <2>1. held[t] \in Addrs
            BY <1>3 DEF ThreadReturns, TypeOK
      <2>2. \A seq \in {sequence[held[t]]} \cup {NoSeq} : <<held[t], seq>> \in TimerIds
            <3>1. sequence[held[t]] \in {NoSeq} \cup 0 .. MaxSeq - 1
                  BY <2>1, ConstantsAssumption DEF Numbered, TypeOK
            <3> QED
                BY <2>1, <3>1 DEF TimerIds
      <2>3. ids' \subseteq Returned /\ asked' \subseteq ids'
            <3>1. PICK seq \in {sequence[held[t]]} \cup {NoSeq} :
                    ids' = ids \cup {[id |-> <<held[t], seq>>, of |-> made[t]]}
                  BY <1>3 DEF ThreadReturns
            <3>2. made[t] \in 0 .. MaxSeq - 1
                  BY <1>3, ConstantsAssumption DEF ThreadReturns, IdsNameNoEarlier, TypeOK
            <3>3. asked' = asked
                  BY <1>3 DEF ThreadReturns
            <3>4. [id |-> <<held[t], seq>>, of |-> made[t]] \in Returned
                  BY <2>2, <3>2 DEF Returned
            <3> QED
                BY <3>1, <3>3, <3>4 DEF TypeOK
      <2>4. made' \in [Threads -> Int]
            BY <1>3 DEF ThreadReturns, TypeOK, NoSeq
      <2> QED
          BY <1>3, <2>3, <2>4 DEF ThreadReturns, TypeOK, fields, sets, handling
<1>4. ASSUME NEW t \in Threads, NEW r \in ids, ThreadCancel(t, r) PROVE TypeOK'
      <2>1. [op |-> "cancel", id |-> r.id] \in Functors
            BY DEF TypeOK, Returned, Functors
      <2>2. pending' \in Seq(Functors)
            BY <1>4, <2>1, AppendProperties DEF ThreadCancel, TypeOK
      <2>3. asked' \subseteq ids'
            BY <1>4 DEF ThreadCancel, TypeOK
      <2> QED
          BY <1>4, <2>2, <2>3 DEF ThreadCancel, TypeOK, fields, sets, handling, threads
<1>5. CASE RunPending
      <2> DEFINE f == Head(pending)
      <2>1. /\ pending # <<>> /\ pending' = Tail(pending)
            /\ UNCHANGED <<clock, fields, s_numCreate_, handling, threads, given>>
            BY <1>5 DEF RunPending
      <2>2. pending' \in Seq(Functors)
            BY <2>1, HeadFunctor
      <2>3. CASE /\ f.op = "add"
                 /\ AddTimerInLoop(f.timer, expiration[f.timer], sequence[f.timer])
                 /\ UNCHANGED <<live, cancelingTimers_, cancelled>>
            <3>1. /\ f.timer \in Addrs
                  /\ expiration[f.timer] \in Nat /\ sequence[f.timer] \in Int
                  BY <2>1, <2>3, HeadFunctor DEF TypeOK
            <3>2. /\ timers_' \subseteq Nat \X Addrs
                  /\ activeTimers_' \subseteq Addrs \X Int
                  /\ timerfd' \in Nat \cup {Off} /\ drift' \in Int
                  BY <2>3, <3>1, AddTypes
            <3> QED
                BY <2>1, <2>2, <2>3, <3>2 DEF TypeOK, fields, handling, threads
      <2>4. CASE f.op = "cancel" /\ CancelInLoop(f.id) /\ UNCHANGED arming
            <3>1. f.id \in TimerIds
                  BY <2>1, <2>4, HeadFunctor
            <3>2. /\ live' \subseteq live
                  /\ timers_' \subseteq Nat \X Addrs /\ activeTimers_' \subseteq Addrs \X Int
                  /\ cancelingTimers_' \subseteq Addrs \X Int
                  /\ cancelled' \subseteq Nat
                  BY <2>4, <3>1, CancelTypes
            <3> QED
                BY <2>1, <2>2, <2>4, <3>2 DEF TypeOK, fields, handling, threads
      <2> QED
          BY <1>5, <2>3, <2>4 DEF RunPending
<1>6. CASE LoopAdd
      <2>1. PICK a \in Addrs, when \in 0 .. MaxTime, i \in Intervals :
              /\ NewTimer(a, when, i)
              /\ AddTimerInLoop(a, when, s_numCreate_)
              /\ ids' = ids \cup {[id |-> <<a, s_numCreate_>>, of |-> s_numCreate_]}
            BY <1>6 DEF LoopAdd
      <2>2. when \in Nat /\ s_numCreate_ \in Int /\ i \in Nat
            BY ConstantsAssumption DEF TypeOK
      <2>3. /\ timers_' \subseteq Nat \X Addrs
            /\ activeTimers_' \subseteq Addrs \X Int
            /\ timerfd' \in Nat \cup {Off} /\ drift' \in Int
            BY <2>1, <2>2, AddTypes
      <2>4. [id |-> <<a, s_numCreate_>>, of |-> s_numCreate_] \in Returned
            <3>1. s_numCreate_ \in 0 .. MaxSeq - 1
                  BY <2>1, ConstantsAssumption DEF NewTimer, TypeOK
            <3> QED
                BY <3>1 DEF TimerIds, Returned
      <2>5. /\ live' \subseteq Addrs
            /\ expiration' \in [Addrs -> Nat] /\ interval' \in [Addrs -> Nat]
            /\ sequence' \in [Addrs -> Int]
            /\ s_numCreate_' \in 0 .. MaxSeq
            BY <2>1, <2>2, ConstantsAssumption DEF NewTimer, TypeOK
      <2> QED
          BY <1>6, <2>1, <2>3, <2>4, <2>5 DEF LoopAdd, TypeOK, handling, threads
<1>7. ASSUME NEW r \in ids, LoopCancel(r) PROVE TypeOK'
      <2>1. r.id \in TimerIds
            BY DEF TypeOK, Returned
      <2>2. /\ live' \subseteq live
            /\ timers_' \subseteq Nat \X Addrs /\ activeTimers_' \subseteq Addrs \X Int
            /\ cancelingTimers_' \subseteq Addrs \X Int
            /\ cancelled' \subseteq Nat
            BY <1>7, <2>1, CancelTypes DEF LoopCancel
      <2>3. /\ UNCHANGED <<clock, fields, s_numCreate_, arming, handling, pending, threads, ids>>
            /\ asked' \subseteq ids'
            BY <1>7 DEF LoopCancel, TypeOK
      <2> QED
          BY <2>2, <2>3 DEF TypeOK, fields, handling, threads
<1>8. CASE HandleRead
      <2>1. /\ expired' \subseteq Addrs /\ toRun' = expired'
            /\ timers_' \subseteq timers_ /\ activeTimers_' \subseteq activeTimers_
            BY <1>8, HandleReadSets, ActiveAddrs DEF HandleRead
      <2>2. callingExpiredTimer_' \in BOOLEAN /\ (callingExpiredTimer_' <=> pc' # "idle")
            BY <1>8, Zenon DEF HandleRead
      <2> QED
          BY <1>8, <2>1, <2>2 DEF HandleRead, TypeOK, fields, threads
<1>9. ASSUME NEW a \in Addrs, RunTimer(a) PROVE TypeOK'
      BY <1>9 DEF RunTimer, TypeOK, fields, sets, threads
<1>10. CASE CallbackReturns
      BY <1>10 DEF CallbackReturns, TypeOK, fields, sets, threads
<1>11. CASE Reset
      <2>1. \A a \in Restarted : /\ a \in Addrs /\ interval[a] \in Nat
                                 /\ AddTime(handledAt, interval[a]) \in Nat
            BY AddTimeGrows DEF Restarted, TypeOK
      <2>2. expiration' \in [Addrs -> Nat]
            BY <1>11, <2>1 DEF Reset, TypeOK
      <2>3. timers_' \subseteq Nat \X Addrs /\ activeTimers_' \subseteq Addrs \X Int
            BY <1>11, <2>1, <2>2 DEF Reset, TypeOK
      <2>4. timerfd' \in Nat \cup {Off} /\ drift' \in Int
            <3> DEFINE times == {e[1] : e \in timers_'}
            <3>1. times \subseteq Nat
                  BY <2>3
            <3>2. times # {} => Min(times) \in Nat
                  BY <3>1, MinOfNats
            <3>3. \/ ArmAt(Min(times)) /\ times # {}
                  \/ UNCHANGED arming
                  BY <1>11 DEF Reset, RearmFor
            <3>4. timerfd \in Nat \cup {Off} /\ drift \in Int
                  BY DEF TypeOK
            <3> HIDE DEF times
            <3> QED
                BY <3>2, <3>3, <3>4, ArmedNat
      <2>5. callingExpiredTimer_' \in BOOLEAN /\ (callingExpiredTimer_' <=> pc' # "idle")
            BY <1>11, Zenon DEF Reset
      <2> QED
          BY <1>11, <2>2, <2>3, <2>4, <2>5 DEF Reset, TypeOK, threads
<1>12. CASE Tick \/ SetClock
      <2>1. now' \in 1 .. MaxTime /\ steps' \in 0 .. MaxSteps
            BY <1>12, ConstantsAssumption DEF Tick, SetClock, TypeOK
      <2>2. timerfd' \in Nat \cup {Off}
            BY <1>12 DEF Tick, SetClock, TypeOK, Off
      <2>3. drift' \in Int
            BY <1>12, <2>1, ConstantsAssumption DEF Tick, SetClock, Gains, TypeOK
      <2>4. UNCHANGED <<live, fields, s_numCreate_, sets, cancelingTimers_, handling,
                        pending, threads, given, cancelled>>
            BY <1>12 DEF Tick, SetClock
      <2> QED
          BY <2>1, <2>2, <2>3, <2>4 DEF TypeOK, fields, sets, handling, threads
<1>13. CASE UNCHANGED vars
      BY <1>13 DEF vars, TypeOK, fields, sets, handling, threads
<1> QED
    BY <1>1, <1>2, <1>3, <1>4, <1>5, <1>6, <1>7, <1>8, <1>9, <1>10, <1>11, <1>12,
       <1>13 DEF Next, LoopStep

-----------------------------------------------------------------------------
(* Sequence numbers.                                                        *)

LEMMA NewTimerNumbered ==
    ASSUME TypeOK, Numbered, NEW a \in Addrs, NEW when, NEW i, NewTimer(a, when, i),
           UNCHANGED cancelled
    PROVE  Numbered'
<1>1. /\ s_numCreate_ \in Nat /\ s_numCreate_' = s_numCreate_ + 1
      /\ live' = live \cup {a}
      /\ sequence' = [sequence EXCEPT ![a] = s_numCreate_]
      BY DEF NewTimer, TypeOK
<1>2. /\ sequence'[a] = s_numCreate_
      /\ \A b \in Addrs : b # a => sequence'[b] = sequence[b]
      BY <1>1 DEF TypeOK
<1>3. \A b \in live : sequence[b] \in 0 .. s_numCreate_ - 1
      BY DEF Numbered, TypeOK
<1>4. \A b \in Addrs : sequence'[b] \in {NoSeq} \cup 0 .. s_numCreate_' - 1
      BY <1>1, <1>2 DEF Numbered
<1>5. \A b \in live' : sequence'[b] # NoSeq
      BY <1>1, <1>2 DEF Numbered, TypeOK, NoSeq
<1>6. \A b, c \in live' : sequence'[b] = sequence'[c] => b = c
      BY <1>1, <1>2, <1>3 DEF Numbered, TypeOK
<1>7. cancelled' \subseteq 0 .. s_numCreate_' - 1
      BY <1>1 DEF Numbered
<1> QED
    BY <1>4, <1>5, <1>6, <1>7 DEF Numbered

LEMMA NumberedNext ==
    ASSUME Inv, [Next]_vars
    PROVE  Numbered'
<1>0. TypeOK /\ Numbered /\ CancelsAreOfKnown /\ SetsAgree /\ OneOwner
      BY DEF Inv
<1> USE <1>0
<1>1. ASSUME live' \subseteq live, cancelled' \subseteq 0 .. s_numCreate_ - 1,
             UNCHANGED <<sequence, s_numCreate_>>
      PROVE  Numbered'
      BY <1>1 DEF Numbered
<1>2. ASSUME UNCHANGED <<live, fields, s_numCreate_, cancelled>> PROVE Numbered'
      BY <1>2 DEF Numbered, fields
<1>3. ASSUME NEW t \in Threads, ThreadNew(t) PROVE Numbered'
      BY <1>3, NewTimerNumbered DEF ThreadNew
<1>4. ASSUME NEW t \in Threads,
             \/ ThreadPush(t) \/ ThreadReturns(t)
             \/ \E r \in ids : ThreadCancel(t, r)
      PROVE  Numbered'
      BY <1>2, <1>4 DEF ThreadPush, ThreadReturns, ThreadCancel
<1>5. CASE RunPending
      <2>1. CASE UNCHANGED <<live, cancelled>>
            BY <1>2, <1>5, <2>1 DEF RunPending
      <2>2. CASE Head(pending).op = "cancel" /\ CancelInLoop(Head(pending).id)
            BY <1>1, <1>5, <2>2, CancelTypes, HeadFunctor DEF RunPending, fields
      <2> QED
          BY <1>5, <2>1, <2>2 DEF RunPending
<1>6. CASE LoopAdd
      BY <1>6, NewTimerNumbered DEF LoopAdd
<1>7. ASSUME NEW r \in ids, LoopCancel(r) PROVE Numbered'
      BY <1>1, <1>7, CancelTypes DEF LoopCancel, fields, TypeOK, Returned
<1>8. CASE HandleRead \/ (\E a \in Addrs : RunTimer(a)) \/ CallbackReturns \/ Tick \/ SetClock
      BY <1>2, <1>8 DEF HandleRead, RunTimer, CallbackReturns, Tick, SetClock
<1>9. CASE Reset
      BY <1>1, <1>9 DEF Reset, Numbered
<1>10. CASE UNCHANGED vars
      BY <1>2, <1>10 DEF vars
<1> QED
    BY <1>3, <1>4, <1>5, <1>6, <1>7, <1>8, <1>9, <1>10 DEF Next, LoopStep

(* A timer cancelled while its batch runs is remembered until reset.        *)
LEMMA CancelInLoopRemembered ==
    ASSUME Inv, NEW id \in TimerIds, CancelInLoop(id), UNCHANGED <<fields, expired>>
    PROVE  CancelRemembered'
<1> USE DEF fields
<1>1. \A a, b \in live : sequence[a] = sequence[b] => a = b
      BY DEF Inv, Numbered
<1>2. CASE id \in activeTimers_
      <2>1. /\ id[1] \in live /\ id[2] = sequence[id[1]]
            BY <1>2, ActiveAddrs DEF Inv, OneOwner
      <2>2. /\ live' = live \ {id[1]} /\ cancelled' = cancelled \cup {id[2]}
            /\ cancelingTimers_' = cancelingTimers_
            BY <1>2 DEF CancelInLoop
      <2> QED
          BY <1>1, <2>1, <2>2 DEF Inv, CancelRemembered
<1>3. CASE id \notin activeTimers_
      <2>1. live' = live /\ cancelingTimers_ \subseteq cancelingTimers_'
            BY <1>3 DEF CancelInLoop
      <2>2. CASE id[1] \in expired /\ sequence[id[1]] = id[2]
            <3>1. pc # "idle" /\ id[1] \in live
                  BY <2>2 DEF Inv, BatchIsOpen, OneOwner
            <3>2. callingExpiredTimer_
                  BY <3>1, Zenon DEF Inv, TypeOK
            <3>3. id \in cancelingTimers_' /\ cancelled' = cancelled \cup {id[2]}
                  BY <1>3, <2>2, <3>2 DEF CancelInLoop
            <3>4. ASSUME NEW a \in live, sequence[a] = id[2]
                  PROVE  a \in expired /\ <<a, sequence[a]>> \in cancelingTimers_'
                  <4>1. a = id[1]
                        BY <1>1, <2>2, <3>1, <3>4
                  <4>2. id = <<id[1], id[2]>>
                        BY DEF TimerIds
                  <4> QED
                      BY <2>2, <3>3, <3>4, <4>1, <4>2
            <3> QED
                BY <2>1, <3>3, <3>4 DEF Inv, CancelRemembered
      <2>3. CASE ~ (id[1] \in expired /\ sequence[id[1]] = id[2])
            <3>1. cancelled' = cancelled
                  BY <1>3, <2>3 DEF CancelInLoop
            <3> QED
                BY <2>1, <3>1 DEF Inv, CancelRemembered
      <2> QED
          BY <2>2, <2>3
<1> QED
    BY <1>2, <1>3

LEMMA NewTimerRemembered ==
    ASSUME Inv, NEW a \in Addrs, NEW when, NEW i, NewTimer(a, when, i),
           UNCHANGED <<cancelled, expired, cancelingTimers_>>
    PROVE  CancelRemembered'
<1>1. /\ live' = live \cup {a} /\ a \notin live
      /\ sequence' = [sequence EXCEPT ![a] = s_numCreate_]
      BY DEF NewTimer
<1>2. sequence'[a] \notin cancelled
      BY <1>1 DEF Inv, TypeOK, Numbered
<1>3. \A b \in live : sequence'[b] = sequence[b]
      BY <1>1 DEF Inv, TypeOK
<1> QED
    BY <1>1, <1>2, <1>3 DEF Inv, CancelRemembered

LEMMA RememberedNext ==
    ASSUME Inv, [Next]_vars
    PROVE  CancelRemembered'
<1> USE DEF Inv
<1>1. ASSUME UNCHANGED <<live, fields, expired, cancelingTimers_, cancelled>>
      PROVE  CancelRemembered'
      BY <1>1 DEF CancelRemembered, fields
<1>2. ASSUME NEW t \in Threads, ThreadNew(t) PROVE CancelRemembered'
      BY <1>2, NewTimerRemembered DEF ThreadNew, handling
<1>3. ASSUME NEW t \in Threads,
             \/ ThreadPush(t) \/ ThreadReturns(t)
             \/ \E r \in ids : ThreadCancel(t, r)
      PROVE  CancelRemembered'
      BY <1>1, <1>3 DEF ThreadPush, ThreadReturns, ThreadCancel, handling
<1>4. CASE RunPending
      <2>1. CASE UNCHANGED <<live, cancelingTimers_, cancelled>>
            BY <1>1, <1>4, <2>1 DEF RunPending, handling
      <2>2. CASE Head(pending).op = "cancel" /\ CancelInLoop(Head(pending).id)
            BY <1>4, <2>2, CancelInLoopRemembered, HeadFunctor DEF RunPending, handling
      <2> QED
          BY <1>4, <2>1, <2>2 DEF RunPending
<1>5. CASE LoopAdd
      BY <1>5, NewTimerRemembered DEF LoopAdd, handling
<1>6. ASSUME NEW r \in ids, LoopCancel(r) PROVE CancelRemembered'
      BY <1>6, CancelInLoopRemembered DEF LoopCancel, handling, TypeOK, Returned
<1>7. CASE HandleRead
      <2>1. \A a \in live : sequence[a] \notin cancelled
            BY <1>7 DEF HandleRead, BatchIsOpen, CancelRemembered
      <2> QED
          BY <1>7, <2>1 DEF HandleRead, CancelRemembered, fields
<1>8. CASE (\E a \in Addrs : RunTimer(a)) \/ CallbackReturns \/ Tick \/ SetClock
      BY <1>1, <1>8 DEF RunTimer, CallbackReturns, Tick, SetClock, handling
<1>9. CASE Reset
      <2>1. ASSUME NEW a \in live' PROVE sequence[a] \notin cancelled
            <3>1. a \in live /\ (a \in expired => a \in Restarted)
                  BY <1>9 DEF Reset
            <3> QED
                BY <3>1 DEF CancelRemembered, Restarted
      <2> QED
          BY <1>9, <2>1 DEF Reset, CancelRemembered
<1>10. CASE UNCHANGED vars
      BY <1>1, <1>10 DEF vars, handling
<1> QED
    BY <1>2, <1>3, <1>4, <1>5, <1>6, <1>7, <1>8, <1>9, <1>10 DEF Next, LoopStep

-----------------------------------------------------------------------------
(* A batch is taken at a time, and reset ends it.                           *)
LEMMA BatchNext ==
    ASSUME Inv, [Next]_vars
    PROVE  BatchIsOpen'
<1> USE DEF Inv
<1>1. ASSUME UNCHANGED handling PROVE BatchIsOpen'
      BY <1>1 DEF BatchIsOpen, handling
<1>2. CASE HandleRead
      BY <1>2 DEF HandleRead, BatchIsOpen, TypeOK
<1>3. CASE (\E a \in Addrs : RunTimer(a)) \/ CallbackReturns
      BY <1>3 DEF RunTimer, CallbackReturns, BatchIsOpen
<1>4. CASE Reset
      BY <1>4 DEF Reset, BatchIsOpen
<1>5. CASE RunPending \/ LoopAdd \/ Tick \/ SetClock \/ \E r \in ids : LoopCancel(r)
      BY <1>1, <1>5 DEF RunPending, LoopAdd, Tick, SetClock, LoopCancel
<1>6. ASSUME NEW t \in Threads,
             \/ ThreadNew(t) \/ ThreadPush(t) \/ ThreadReturns(t)
             \/ \E r \in ids : ThreadCancel(t, r)
      PROVE  BatchIsOpen'
      BY <1>1, <1>6 DEF ThreadNew, ThreadPush, ThreadReturns, ThreadCancel
<1>7. CASE UNCHANGED vars
      BY <1>1, <1>7 DEF vars
<1> QED
    BY <1>2, <1>3, <1>4, <1>5, <1>6, <1>7 DEF Next, LoopStep

(* Only what addTimer returned is handed to cancel.                         *)
LEMMA KnownNext ==
    ASSUME Inv, [Next]_vars
    PROVE  CancelsAreOfKnown'
<1> USE DEF Inv
<1>1. ASSUME asked \subseteq asked', UNCHANGED pending PROVE CancelsAreOfKnown'
      BY <1>1 DEF CancelsAreOfKnown
<1>2. ASSUME NEW f \in Functors, f.op = "cancel" => \E r \in asked' : r.id = f.id,
             pending' = Append(pending, f), asked \subseteq asked'
      PROVE  CancelsAreOfKnown'
      <2>1. /\ DOMAIN pending = 1 .. Len(pending) /\ Len(pending) \in Nat
            /\ DOMAIN pending' = 1 .. Len(pending) + 1
            /\ \A k \in 1 .. Len(pending) : pending'[k] = pending[k]
            /\ pending'[Len(pending) + 1] = f
            BY <1>2, AppendProperties, LenProperties DEF TypeOK
      <2> QED
          BY <1>2, <2>1 DEF CancelsAreOfKnown
<1>3. ASSUME NEW t \in Threads, ThreadPush(t) PROVE CancelsAreOfKnown'
      <2> DEFINE f == [op |-> "add", timer |-> held[t]]
      <2>1. f \in Functors /\ f.op # "cancel"
            BY <1>3 DEF ThreadPush, TypeOK, Functors
      <2> QED
          BY <1>2, <1>3, <2>1 DEF ThreadPush
<1>4. ASSUME NEW t \in Threads, NEW r \in ids, ThreadCancel(t, r)
      PROVE  CancelsAreOfKnown'
      <2> DEFINE f == [op |-> "cancel", id |-> r.id]
      <2>1. f \in Functors /\ f.id = r.id
            BY DEF TypeOK, Returned, Functors
      <2>2. r \in asked' /\ asked \subseteq asked' /\ pending' = Append(pending, f)
            BY <1>4 DEF ThreadCancel
      <2> QED
          BY <1>2, <2>1, <2>2
<1>5. CASE RunPending
      <2>1. /\ pending # <<>> /\ pending' = Tail(pending) /\ asked' = asked
            BY <1>5 DEF RunPending
      <2>2. \A k \in DOMAIN pending' : k + 1 \in DOMAIN pending
                                         /\ pending'[k] = pending[k + 1]
            BY <2>1, HeadTailProperties, LenProperties, EmptySeq DEF TypeOK
      <2> QED
          BY <2>1, <2>2 DEF CancelsAreOfKnown
<1>6. ASSUME NEW t \in Threads, ThreadNew(t) \/ ThreadReturns(t)
      PROVE  CancelsAreOfKnown'
      BY <1>1, <1>6 DEF ThreadNew, ThreadReturns
<1>7. CASE LoopAdd \/ Tick \/ SetClock \/ \E r \in ids : LoopCancel(r)
      BY <1>1, <1>7 DEF LoopAdd, Tick, SetClock, LoopCancel
<1>8. CASE HandleRead \/ (\E a \in Addrs : RunTimer(a)) \/ CallbackReturns \/ Reset
      BY <1>1, <1>8 DEF HandleRead, RunTimer, CallbackReturns, Reset
<1>9. CASE UNCHANGED vars
      BY <1>1, <1>9 DEF vars
<1> QED
    BY <1>3, <1>4, <1>5, <1>6, <1>7, <1>8, <1>9 DEF Next, LoopStep

(* Numbers only grow, those at an address included.                         *)
LEMMA NamesNext ==
    ASSUME Inv, [Next]_vars
    PROVE  IdsNameNoEarlier'
<1> USE DEF Inv
<1>1. ASSUME UNCHANGED <<sequence, s_numCreate_, threads, ids>> PROVE IdsNameNoEarlier'
      BY <1>1 DEF IdsNameNoEarlier, threads
<1>2. ASSUME NEW a \in Addrs, NEW when, NEW i, NewTimer(a, when, i)
      PROVE  /\ s_numCreate_ \in Nat /\ s_numCreate_' = s_numCreate_ + 1
             /\ sequence'[a] = s_numCreate_
             /\ \A b \in Addrs : b # a => sequence'[b] = sequence[b]
             /\ \A t \in Threads : caller[t] # "idle" =>
                  made[t] \in 0 .. s_numCreate_' - 1 /\ made[t] <= sequence'[held[t]]
      <2>1. /\ s_numCreate_ \in Nat /\ s_numCreate_' = s_numCreate_ + 1
            /\ sequence'[a] = s_numCreate_
            /\ \A b \in Addrs : b # a => sequence'[b] = sequence[b]
            BY <1>2 DEF NewTimer, TypeOK
      <2>2. \A t \in Threads : caller[t] # "idle" => held[t] \in Addrs
            BY DEF TypeOK
      <2>3. ASSUME NEW t \in Threads, caller[t] # "idle"
            PROVE  made[t] \in 0 .. s_numCreate_' - 1 /\ made[t] <= sequence'[held[t]]
            <3>1. made[t] \in 0 .. s_numCreate_ - 1 /\ made[t] <= sequence[held[t]]
                  BY <2>3 DEF IdsNameNoEarlier
            <3>2. sequence'[held[t]] \in {s_numCreate_, sequence[held[t]]}
                  BY <2>1, <2>2, <2>3
            <3> QED
                BY <2>1, <3>1, <3>2
      <2> QED
          BY <2>1, <2>3
<1>3. ASSUME NEW t \in Threads, ThreadNew(t) PROVE IdsNameNoEarlier'
      <2>1. PICK a \in Addrs, when \in 0 .. MaxTime, i \in Intervals :
              NewTimer(a, when, i) /\ held' = [held EXCEPT ![t] = a]
            BY <1>3 DEF ThreadNew
      <2>2. /\ held'[t] = a /\ made'[t] = s_numCreate_ /\ ids' = ids
            /\ \A u \in Threads : u # t => /\ caller'[u] = caller[u] /\ held'[u] = held[u]
                                           /\ made'[u] = made[u]
            BY <1>3, <2>1 DEF ThreadNew, TypeOK
      <2>3. \A u \in Threads : caller'[u] # "idle" =>
              made'[u] \in 0 .. s_numCreate_' - 1 /\ made'[u] <= sequence'[held'[u]]
            BY <1>2, <2>1, <2>2
      <2> QED
          BY <2>2, <2>3 DEF IdsNameNoEarlier
<1>4. ASSUME NEW t \in Threads, ThreadPush(t) PROVE IdsNameNoEarlier'
      <2>1. /\ \A u \in Threads : caller'[u] # "idle" => caller[u] # "idle"
            /\ UNCHANGED <<sequence, s_numCreate_, held, made, ids>>
            BY <1>4 DEF ThreadPush, TypeOK, fields
      <2> QED
          BY <2>1 DEF IdsNameNoEarlier
<1>5. ASSUME NEW t \in Threads, ThreadReturns(t) PROVE IdsNameNoEarlier'
      <2>1. /\ made[t] <= sequence[held[t]] /\ caller'[t] = "idle"
            /\ \A u \in Threads : u # t => /\ caller'[u] = caller[u] /\ held'[u] = held[u]
                                           /\ made'[u] = made[u]
            /\ UNCHANGED <<sequence, s_numCreate_>>
            BY <1>5 DEF ThreadReturns, IdsNameNoEarlier, TypeOK, fields
      <2>2. PICK seq \in {sequence[held[t]]} \cup {NoSeq} :
              ids' = ids \cup {[id |-> <<held[t], seq>>, of |-> made[t]]}
            BY <1>5 DEF ThreadReturns
      <2>3. \A r \in ids' : r.id[2] = NoSeq \/ r.of <= r.id[2]
            BY <2>1, <2>2 DEF IdsNameNoEarlier
      <2> QED
          BY <2>1, <2>3 DEF IdsNameNoEarlier
<1>6. CASE LoopAdd
      <2>1. PICK a \in Addrs, when \in 0 .. MaxTime, i \in Intervals :
              /\ NewTimer(a, when, i)
              /\ ids' = ids \cup {[id |-> <<a, s_numCreate_>>, of |-> s_numCreate_]}
            BY <1>6 DEF LoopAdd
      <2>2. UNCHANGED <<caller, held, made>>
            BY <1>6 DEF LoopAdd, threads
      <2>3. s_numCreate_ <= s_numCreate_
            BY <1>2, <2>1
      <2>4. \A r \in ids' : r.id[2] = NoSeq \/ r.of <= r.id[2]
            BY <2>1, <2>3 DEF IdsNameNoEarlier
      <2> QED
          BY <1>2, <2>1, <2>2, <2>4 DEF IdsNameNoEarlier
<1>7. ASSUME NEW r \in ids, LoopCancel(r) \/ \E t \in Threads : ThreadCancel(t, r)
      PROVE  IdsNameNoEarlier'
      BY <1>1, <1>7 DEF LoopCancel, ThreadCancel, fields
<1>8. CASE RunPending \/ HandleRead \/ (\E a \in Addrs : RunTimer(a))
             \/ CallbackReturns \/ Reset \/ Tick \/ SetClock
      BY <1>1, <1>8 DEF RunPending, HandleRead, RunTimer, CallbackReturns, Reset, Tick,
                        SetClock, fields
<1>9. CASE UNCHANGED vars
      BY <1>1, <1>9 DEF vars, fields
<1> QED
    BY <1>3, <1>4, <1>5, <1>6, <1>7, <1>8, <1>9 DEF Next, LoopStep

-----------------------------------------------------------------------------
(* Ownership of the Timer objects: each step moves one, or a batch of them, *)
(* from one owner to the next.                                              *)

HeldOnce ==
    \A t, u \in Threads :
        t # u /\ caller[t] = "new" /\ caller[u] = "new" => held[t] # held[u]

LEMMA OwnerForm ==
    /\ QueuedAdds = AddsIn(pending)
    /\ OneOwner <=>
         /\ live = Active \cup expired \cup QueuedAdds \cup Unpushed
         /\ Active \cap expired = {}
         /\ (Active \cup expired) \cap (QueuedAdds \cup Unpushed) = {}
         /\ QueuedAdds \cap Unpushed = {}
         /\ AddsOnce(pending) /\ HeldOnce
<1>1. QueuedAdds = AddsIn(pending)
      BY DEF QueuedAdds, AddsIn
<1> QED
    BY <1>1, Zenon DEF OneOwner, AddsOnce, HeldOnce

(* The threads between new and queueInLoop.                                 *)
LEMMA UnpushedIs ==
    \A a : a \in Unpushed <=> \E t \in Threads : caller[t] = "new" /\ held[t] = a
BY DEF Unpushed

LEMMA NewOwner ==
    ASSUME Inv, NEW t \in Threads, ThreadNew(t)
    PROVE  OneOwner'
<1>1. PICK a \in Addrs : /\ a \notin live /\ live' = live \cup {a}
                         /\ held' = [held EXCEPT ![t] = a]
      BY DEF ThreadNew, NewTimer
<1>2. /\ caller' = [caller EXCEPT ![t] = "new"] /\ caller[t] = "idle"
      /\ Active' = Active /\ expired' = expired /\ pending' = pending
      BY DEF ThreadNew, Active, sets, handling
<1>3. \A u \in Threads : caller[u] = "new" => held[u] \in live
      BY UnpushedIs DEF Inv, OneOwner
<1>4. /\ caller'[t] = "new" /\ held'[t] = a
      /\ \A u \in Threads : u # t => caller'[u] = caller[u] /\ held'[u] = held[u]
      BY <1>1, <1>2 DEF Inv, TypeOK
<1>5. Unpushed' = Unpushed \cup {a}
      BY <1>2, <1>4 DEF Unpushed
<1>6. HeldOnce'
      BY <1>1, <1>3, <1>4 DEF HeldOnce, Inv, OneOwner
<1>7. QueuedAdds' = QueuedAdds /\ AddsOnce(pending')
      BY <1>2, OwnerForm DEF QueuedAdds, Inv
<1> QED
    BY <1>1, <1>2, <1>5, <1>6, <1>7 DEF OneOwner, AddsOnce, HeldOnce, Inv

LEMMA PushOwner ==
    ASSUME Inv, NEW t \in Threads, ThreadPush(t)
    PROVE  OneOwner'
<1> DEFINE a == held[t]
           f == [op |-> "add", timer |-> a]
<1>1. /\ caller[t] = "new" /\ caller' = [caller EXCEPT ![t] = "handed"]
      /\ pending' = Append(pending, f)
      /\ live' = live /\ Active' = Active /\ expired' = expired /\ held' = held
      BY DEF ThreadPush, Active, sets, handling
<1>2. f \in Functors /\ f.op = "add" /\ f.timer = a
      BY <1>1 DEF Inv, TypeOK, Functors
<1>3. a \in Unpushed
      BY <1>1, UnpushedIs
<1>4. a \notin QueuedAdds
      BY <1>3 DEF Inv, OneOwner
<1>5. QueuedAdds' = QueuedAdds \cup {a} /\ AddsOnce(pending')
      <2> HIDE DEF f
      <2>1. pending \in Seq(Functors) /\ AddsOnce(pending) /\ QueuedAdds = AddsIn(pending)
            BY OwnerForm DEF Inv, TypeOK
      <2>2. /\ AddsIn(Append(pending, f)) = AddsIn(pending) \cup {a}
            /\ AddsOnce(Append(pending, f))
            BY <1>2, <1>4, <2>1, AddsAppend
      <2>3. QueuedAdds' = AddsIn(pending')
            BY DEF QueuedAdds, AddsIn
      <2> QED
          BY <1>1, <2>1, <2>2, <2>3
<1>6. \A u \in Threads : caller'[u] = "new" <=> u # t /\ caller[u] = "new"
      BY <1>1 DEF Inv, TypeOK
<1>7. HeldOnce' /\ Unpushed' = Unpushed \ {a}
      BY <1>1, <1>6 DEF Unpushed, HeldOnce, Inv, OneOwner
<1> QED
    BY <1>1, <1>3, <1>5, <1>7 DEF OneOwner, AddsOnce, HeldOnce, Inv

LEMMA CancelOwner ==
    ASSUME Inv, NEW id \in TimerIds, CancelInLoop(id), UNCHANGED <<fields, expired, threads>>,
           AddsIn(pending') = AddsIn(pending), AddsOnce(pending')
    PROVE  OneOwner'
<1>1. QueuedAdds' = QueuedAdds /\ Unpushed' = Unpushed
      BY DEF QueuedAdds, AddsIn, Unpushed, threads
<1>2. HeldOnce'
      BY DEF HeldOnce, threads, Inv, OneOwner
<1>3. CASE id \in activeTimers_
      <2>1. id[1] \in Active
            BY <1>3, ActiveAddrs DEF Inv
      <2>2. live' = live \ {id[1]} /\ Active' = Active \ {id[1]}
            BY <1>3, CancelSets DEF CancelInLoop, Inv
      <2> QED
          BY <1>1, <1>2, <2>1, <2>2 DEF OneOwner, AddsOnce, HeldOnce, Inv
<1>4. CASE id \notin activeTimers_
      <2>1. live' = live /\ Active' = Active
            BY <1>4, CancelSets DEF CancelInLoop, Inv
      <2> QED
          BY <1>1, <1>2, <2>1 DEF OneOwner, AddsOnce, HeldOnce, Inv
<1> QED
    BY <1>3, <1>4

LEMMA RunPendingOwner ==
    ASSUME Inv, RunPending
    PROVE  OneOwner' /\ SetsAgree'
<1> DEFINE f == Head(pending)
<1>1. /\ pending # <<>> /\ pending' = Tail(pending)
      /\ UNCHANGED <<fields, expired, threads>>
      BY DEF RunPending, handling
<1>2. AddsOnce(pending')
      BY <1>1, OwnerForm, AddsTail DEF Inv, TypeOK
<1>3. CASE f.op = "add"
      <2>1. /\ AddTimerInLoop(f.timer, expiration[f.timer], sequence[f.timer])
            /\ live' = live
            BY <1>3 DEF RunPending
      <2>2. f.timer \in Addrs
            BY <1>1, <1>3, HeadFunctor DEF Inv
      <2>3. f.timer \in AddsIn(pending) /\ AddsIn(pending') = AddsIn(pending) \ {f.timer}
            BY <1>1, <1>3, OwnerForm, AddsTail DEF Inv, TypeOK
      <2>4. f.timer \in QueuedAdds /\ QueuedAdds' = QueuedAdds \ {f.timer}
            BY <2>3 DEF QueuedAdds, AddsIn
      <2>5. Active' = Active \cup {f.timer} /\ SetsAgree'
            BY <1>1, <2>1, <2>2, AddSets DEF Inv, fields
      <2>6. Unpushed' = Unpushed /\ HeldOnce'
            BY <1>1 DEF Unpushed, HeldOnce, threads, Inv, OneOwner
      <2> QED
          BY <1>1, <1>2, <2>1, <2>4, <2>5, <2>6 DEF OneOwner, AddsOnce, HeldOnce, Inv
<1>4. CASE f.op # "add"
      <2>1. f.op = "cancel" /\ CancelInLoop(f.id)
            BY <1>4 DEF RunPending
      <2>2. f.id \in TimerIds
            BY <1>1, <2>1, HeadFunctor DEF Inv
      <2>3. AddsIn(pending') = AddsIn(pending)
            BY <1>1, <1>4, OwnerForm, AddsTail DEF Inv, TypeOK
      <2> QED
          BY <1>1, <1>2, <2>1, <2>2, <2>3, CancelOwner, CancelSets DEF Inv
<1> QED
    BY <1>3, <1>4

LEMMA OwnerNext ==
    ASSUME Inv, [Next]_vars
    PROVE  OneOwner' /\ SetsAgree'
<1>1. ASSUME UNCHANGED <<fields, sets>> PROVE SetsAgree' /\ Active' = Active
      BY <1>1 DEF Inv, SetsAgree, Active, fields, sets
<1>2. ASSUME UNCHANGED <<fields, sets, live, expired, pending, threads>>
      PROVE  OneOwner' /\ SetsAgree'
      <2>1. QueuedAdds' = QueuedAdds /\ Unpushed' = Unpushed
            BY <1>2 DEF QueuedAdds, Unpushed, threads
      <2> QED
          BY <1>1, <1>2, <2>1 DEF Inv, OneOwner, threads
<1>3. ASSUME NEW t \in Threads, ThreadNew(t) PROVE OneOwner' /\ SetsAgree'
      <2>1. PICK a \in Addrs : /\ a \notin live
                               /\ \A b \in Addrs : b # a => /\ expiration'[b] = expiration[b]
                                                          /\ sequence'[b] = sequence[b]
            BY <1>3 DEF ThreadNew, NewTimer, Inv, TypeOK
      <2>2. \A b \in Active : b \in Addrs /\ b # a
            BY <2>1, ActiveAddrs DEF Inv, OneOwner
      <2>3. \A b \in Active : expiration'[b] = expiration[b] /\ sequence'[b] = sequence[b]
            BY <2>1, <2>2
      <2>4. sets' = sets
            BY <1>3 DEF ThreadNew
      <2>5. SetsAgree'
            <3>1. /\ timers_' = {<<expiration'[b], b>> : b \in Active}
                  /\ activeTimers_' = {<<b, sequence'[b]>> : b \in Active}
                  BY <2>3, <2>4 DEF Inv, SetsAgree, sets
            <3> QED
                BY <3>1, SetsFrom
      <2> QED
          BY <1>3, <2>5, NewOwner
<1>4. ASSUME NEW t \in Threads, ThreadPush(t) PROVE OneOwner' /\ SetsAgree'
      BY <1>1, <1>4, PushOwner DEF ThreadPush
<1>5. ASSUME NEW t \in Threads, ThreadReturns(t) PROVE OneOwner' /\ SetsAgree'
      <2>1. /\ caller[t] = "handed" /\ caller' = [caller EXCEPT ![t] = "idle"]
            /\ held' = [held EXCEPT ![t] = NoTimer]
            /\ UNCHANGED <<fields, sets, live, expired, pending>>
            BY <1>5 DEF ThreadReturns, handling
      <2>2. /\ caller'[t] # "new" /\ caller[t] # "new"
            /\ \A u \in Threads : u # t => caller'[u] = caller[u] /\ held'[u] = held[u]
            BY <2>1 DEF Inv, TypeOK
      <2>3. HeldOnce' /\ Unpushed' = Unpushed /\ QueuedAdds' = QueuedAdds
            BY <2>1, <2>2 DEF HeldOnce, Unpushed, QueuedAdds, Inv, OneOwner
      <2> QED
          BY <1>1, <2>1, <2>3 DEF OneOwner, HeldOnce, Inv
<1>6. ASSUME NEW t \in Threads, NEW r \in ids, ThreadCancel(t, r)
      PROVE  OneOwner' /\ SetsAgree'
      <2> DEFINE f == [op |-> "cancel", id |-> r.id]
      <2>1. f \in Functors /\ f.op # "add"
            BY DEF Inv, TypeOK, Returned, Functors
      <2>2. /\ pending' = Append(pending, f)
            /\ UNCHANGED <<fields, sets, live, expired, threads>>
            BY <1>6 DEF ThreadCancel, handling
      <2> HIDE DEF f
      <2>3. pending \in Seq(Functors) /\ AddsOnce(pending) /\ QueuedAdds = AddsIn(pending)
            BY OwnerForm DEF Inv, TypeOK
      <2>4. AddsIn(Append(pending, f)) = AddsIn(pending) /\ AddsOnce(Append(pending, f))
            BY <2>1, <2>3, AddsAppend
      <2>5. QueuedAdds' = AddsIn(pending')
            BY DEF QueuedAdds, AddsIn
      <2>6. /\ QueuedAdds' = QueuedAdds /\ AddsOnce(pending')
            /\ Unpushed' = Unpushed /\ HeldOnce'
            BY <2>2, <2>3, <2>4, <2>5 DEF Unpushed, HeldOnce, threads, Inv, OneOwner
      <2> QED
          BY <1>1, <2>2, <2>6 DEF OneOwner, AddsOnce, HeldOnce, Inv
<1>7. CASE RunPending
      BY <1>7, RunPendingOwner
<1>8. CASE LoopAdd
      <2>1. PICK a \in Addrs, when \in 0 .. MaxTime, i \in Intervals :
              NewTimer(a, when, i) /\ AddTimerInLoop(a, when, s_numCreate_)
            BY <1>8 DEF LoopAdd
      <2>2. /\ a \notin live /\ live' = live \cup {a}
            /\ expiration'[a] = when /\ sequence'[a] = s_numCreate_
            /\ \A b \in Addrs : b # a => /\ expiration'[b] = expiration[b]
                                       /\ sequence'[b] = sequence[b]
            BY <2>1 DEF NewTimer, Inv, TypeOK
      <2>3. Active \subseteq Addrs /\ a \notin Active
            BY <2>2, ActiveAddrs DEF Inv, OneOwner
      <2>4. Active' = Active \cup {a} /\ SetsAgree'
            BY <2>1, <2>2, <2>3, AddSets DEF Inv
      <2>5. /\ UNCHANGED <<expired, pending>>
            /\ QueuedAdds' = QueuedAdds /\ Unpushed' = Unpushed /\ HeldOnce'
            BY <1>8 DEF LoopAdd, QueuedAdds, Unpushed, HeldOnce, handling, threads, Inv,
                        OneOwner
      <2> QED
          BY <2>2, <2>4, <2>5 DEF OneOwner, AddsOnce, HeldOnce, Inv
<1>9. ASSUME NEW r \in ids, LoopCancel(r) PROVE OneOwner' /\ SetsAgree'
      <2>1. /\ r.id \in TimerIds /\ CancelInLoop(r.id)
            /\ UNCHANGED <<fields, expired, pending, threads>>
            BY <1>9 DEF LoopCancel, handling, Inv, TypeOK, Returned
      <2>2. AddsIn(pending') = AddsIn(pending) /\ AddsOnce(pending')
            BY <2>1, OwnerForm DEF Inv
      <2> QED
          BY <2>1, <2>2, CancelOwner, CancelSets DEF Inv
<1>10. CASE HandleRead
      <2>1. /\ UNCHANGED <<live, pending, threads>> /\ expired = {}
            BY <1>10 DEF HandleRead, Inv, BatchIsOpen
      <2>2. /\ expired' \subseteq Active /\ Active' = Active \ expired' /\ SetsAgree'
            BY <1>10, HandleReadSets DEF Inv
      <2>3. QueuedAdds' = QueuedAdds /\ Unpushed' = Unpushed
            BY <2>1 DEF QueuedAdds, Unpushed, threads
      <2> QED
          BY <2>1, <2>2, <2>3 DEF OneOwner, Inv, threads
<1>11. CASE (\E a \in Addrs : RunTimer(a)) \/ CallbackReturns \/ Tick \/ SetClock
      BY <1>2, <1>11 DEF RunTimer, CallbackReturns, Tick, SetClock, handling
<1>12. CASE Reset
      <2>1. /\ UNCHANGED <<pending, threads>> /\ expired' = {}
            /\ live' = live \ (expired \ Restarted) /\ Restarted \subseteq expired
            BY <1>12 DEF Reset, Restarted
      <2>2. Active' = Active \cup Restarted /\ SetsAgree'
            BY <1>12, ResetSets DEF Inv
      <2>3. QueuedAdds' = QueuedAdds /\ Unpushed' = Unpushed
            BY <2>1 DEF QueuedAdds, Unpushed, threads
      <2> QED
          BY <2>1, <2>2, <2>3 DEF OneOwner, Inv, threads
<1>13. CASE UNCHANGED vars
      BY <1>2, <1>13 DEF vars, handling
<1> QED
    BY <1>3, <1>4, <1>5, <1>6, <1>7, <1>8, <1>9, <1>10, <1>11, <1>12, <1>13
       DEF Next, LoopStep

-----------------------------------------------------------------------------
(* The timerfd.                                                             *)

Armed == /\ timerfd # Off
         /\ timerfd = 0 \/ \A e \in timers_ : timerfd <= e[1] - now + drift

LEMMA ArmedTypes ==
    ASSUME TypeOK
    PROVE  /\ now \in Nat \ {0} /\ (timerfd # Off => timerfd \in Nat) /\ drift \in Int
           /\ \A e \in timers_ : e[1] \in Nat
BY ConstantsAssumption DEF TypeOK

LEMMA AddArmed ==
    ASSUME Inv, NEW a, NEW when \in Nat, NEW seq, AddTimerInLoop(a, when, seq),
           UNCHANGED <<now, pc>>
    PROVE  TimerfdArmed' /\ ZeroIsArmed'
<1>1. /\ now \in Nat \ {0} /\ (timerfd # Off => timerfd \in Nat) /\ drift \in Int
      /\ \A e \in timers_ : e[1] \in Nat
      BY ArmedTypes DEF Inv
<1>2. timers_' = timers_ \cup {<<when, a>>}
      BY DEF AddTimerInLoop
<1>3. CASE \A e \in timers_ : when < e[1]
      <2>1. ArmAt(when)
            BY <1>3 DEF AddTimerInLoop
      <2>2. /\ timerfd' # Off /\ drift' = 0
            /\ timerfd' = 0 \/ timerfd' = when - now
            /\ when = 0 => timerfd' = 0
            BY <1>1, <2>1 DEF ArmAt, TimeFromNow, Off
      <2>3. \A e \in timers_' : when <= e[1]
            BY <1>1, <1>2, <1>3
      <2>4. TimerfdArmed'
            <3>1. \A e \in timers_' : e[1] \in Nat
                  BY <1>1, <1>2
            <3> QED
                BY <1>1, <2>2, <2>3, <3>1 DEF TimerfdArmed
      <2>5. ZeroIsArmed'
            <3>1. \A e \in timers_' : e[1] = 0 => when = 0
                  BY <1>1, <1>2, <1>3
            <3> QED
                BY <2>2, <3>1 DEF ZeroIsArmed
      <2> QED
          BY <2>4, <2>5
<1>4. CASE \E e \in timers_ : ~ (when < e[1])
      <2>1. UNCHANGED arming
            BY <1>4 DEF AddTimerInLoop
      <2>2. PICK e \in timers_ : e[1] <= when
            BY <1>1, <1>4
      <2>3. TimerfdArmed'
            <3> SUFFICES ASSUME pc = "idle"
                         PROVE  /\ timerfd # Off
                                /\ timerfd = 0 \/ \A d \in timers_' : timerfd <= d[1] - now + drift
                BY <2>1 DEF TimerfdArmed
            <3>1. /\ timerfd # Off
                  /\ timerfd = 0 \/ \A d \in timers_ : timerfd <= d[1] - now + drift
                  BY <2>2 DEF Inv, TimerfdArmed
            <3>2. timerfd \in Nat
                  BY <1>1, <3>1
            <3> QED
                BY <1>1, <1>2, <2>2, <3>1, <3>2
      <2>4. ZeroIsArmed'
            <3>1. when = 0 => e[1] = 0
                  BY <1>1, <2>2
            <3> QED
                BY <1>2, <2>1, <2>2, <3>1 DEF Inv, ZeroIsArmed
      <2> QED
          BY <2>3, <2>4
<1> QED
    BY <1>3, <1>4

(* After reset the timerfd is armed for the earliest timer, or that one is  *)
(* set for time 0, where addTimerInLoop has armed it.                       *)
LEMMA ResetArmed ==
    ASSUME Inv, Reset
    PROVE  TimerfdArmed'
<1> DEFINE times == {e[1] : e \in timers_'}
<1>1. now \in Nat \ {0} /\ now' = now
      BY ArmedTypes DEF Inv, Reset
<1>2. times \in SUBSET Nat
      <2>1. [Next]_vars
            BY Zenon DEF Next, LoopStep
      <2>2. timers_' \subseteq Nat \X Addrs
            BY <2>1, TypeNext DEF TypeOK
      <2> QED
          BY <2>2
<1>3. IF times # {} /\ Min(times) > 0 THEN ArmAt(Min(times)) ELSE UNCHANGED arming
      BY DEF Reset, RearmFor
<1>4. \A e \in timers_' : e[1] \in times
      OBVIOUS
<1>5. ASSUME NEW e \in timers_', e[1] = 0 PROVE e \in timers_
      <2>1. ASSUME NEW a \in Restarted PROVE expiration'[a] \in Nat \ {0}
            <3>1. /\ a \in Addrs /\ expiration'[a] = AddTime(handledAt, interval[a])
                  /\ interval[a] \in Nat /\ handledAt \in Nat \ {0}
                  BY DEF Reset, Restarted, Inv, TypeOK, BatchIsOpen
            <3>2. AddTime(handledAt, interval[a]) \in Nat
                    /\ AddTime(handledAt, interval[a]) >= handledAt
                  BY <3>1, AddTimeGrows
            <3> QED
                BY <3>1, <3>2
      <2>2. timers_' = timers_ \cup {<<expiration'[a], a>> : a \in Restarted}
            BY DEF Reset
      <2> QED
          BY <1>5, <2>1, <2>2
<1>6. ASSUME timers_' # {} PROVE Armed'
      <2>1. Min(times) \in times /\ \A x \in times : Min(times) <= x
            <3>1. times # {}
                  BY <1>6
            <3> HIDE DEF times
            <3> QED
                BY <1>2, <3>1, MinOfNats
      <2>2. CASE Min(times) > 0
            <3>1. ArmAt(Min(times))
                  BY <1>3, <2>1, <2>2
            <3>2. /\ timerfd' # Off /\ drift' = 0
                  /\ timerfd' = 0 \/ timerfd' = Min(times) - now
                  <4> HIDE DEF times
                  <4>1. Min(times) \in Nat
                        BY <1>2, <2>1
                  <4> QED
                      BY <1>1, <3>1, <4>1 DEF ArmAt, TimeFromNow, Off
            <3>3. \A e \in timers_' : Min(times) <= e[1]
                  BY <1>4, <2>1
            <3>4. Min(times) \in Nat /\ \A e \in timers_' : e[1] \in Nat
                  BY <1>2, <1>4, <2>1
            <3> QED
                <4> HIDE DEF times
                <4> QED
                    BY <1>1, <3>2, <3>3, <3>4 DEF Armed
      <2>3. CASE ~ (Min(times) > 0)
            <3>1. Min(times) = 0
                  <4> HIDE DEF times
                  <4>1. Min(times) \in Nat
                        BY <1>2, <2>1
                  <4>2. \A n \in Nat : ~ (n > 0) => n = 0
                        OBVIOUS
                  <4> QED
                      BY <2>3, <4>1, <4>2
            <3>2. PICK e \in timers_' : e[1] = 0
                  BY <2>1, <3>1
            <3>3. timerfd = 0
                  BY <1>5, <3>2 DEF Inv, ZeroIsArmed, Reset
            <3>4. UNCHANGED arming
                  BY <1>3, <2>3
            <3> QED
                BY <3>3, <3>4 DEF Armed, Off
      <2> QED
          BY <2>2, <2>3
<1> QED
    BY <1>6 DEF TimerfdArmed, Armed

LEMMA ArmedNext ==
    ASSUME Inv, [Next]_vars
    PROVE  TimerfdArmed' /\ ZeroIsArmed'
<1> USE DEF Inv
<1>1. ASSUME timers_' \subseteq timers_, UNCHANGED <<arming, now>>,
             pc' = "idle" <=> pc = "idle"
      PROVE  TimerfdArmed' /\ ZeroIsArmed'
      BY <1>1 DEF TimerfdArmed, ZeroIsArmed
<1>2. ASSUME NEW t \in Threads,
             \/ ThreadNew(t) \/ ThreadPush(t) \/ ThreadReturns(t)
             \/ \E r \in ids : ThreadCancel(t, r)
      PROVE  TimerfdArmed' /\ ZeroIsArmed'
      BY <1>1, <1>2 DEF ThreadNew, ThreadPush, ThreadReturns, ThreadCancel, sets, handling
<1>3. CASE RunPending
      <2>1. CASE /\ Head(pending).op = "add"
                 /\ AddTimerInLoop(Head(pending).timer, expiration[Head(pending).timer],
                                   sequence[Head(pending).timer])
            <3>1. expiration[Head(pending).timer] \in Nat
                  BY <1>3, <2>1, HeadFunctor DEF RunPending, TypeOK
            <3> QED
                BY <1>3, <2>1, <3>1, AddArmed DEF RunPending, handling
      <2>2. CASE CancelInLoop(Head(pending).id) /\ UNCHANGED arming
            <3>1. timers_' \subseteq timers_
                  BY <2>2 DEF CancelInLoop, sets
            <3> QED
                BY <1>1, <1>3, <2>2, <3>1 DEF RunPending, handling
      <2> QED
          BY <1>3, <2>1, <2>2 DEF RunPending
<1>4. CASE LoopAdd
      <2>1. PICK a \in Addrs, when \in 0 .. MaxTime :
              AddTimerInLoop(a, when, s_numCreate_)
            BY <1>4 DEF LoopAdd
      <2>2. when \in Nat
            BY ConstantsAssumption
      <2> QED
          BY <1>4, <2>1, <2>2, AddArmed DEF LoopAdd, handling
<1>5. ASSUME NEW r \in ids, LoopCancel(r) PROVE TimerfdArmed' /\ ZeroIsArmed'
      <2>1. timers_' \subseteq timers_
            BY <1>5 DEF LoopCancel, CancelInLoop, sets
      <2> QED
          BY <1>1, <1>5, <2>1 DEF LoopCancel, handling
<1>6. CASE HandleRead
      <2>1. \A e \in timers_' : e[1] # 0
            BY <1>6, ArmedTypes DEF HandleRead
      <2> QED
          BY <1>6, <2>1 DEF HandleRead, TimerfdArmed, ZeroIsArmed
<1>7. CASE (\E a \in Addrs : RunTimer(a)) \/ CallbackReturns
      BY <1>1, <1>7 DEF RunTimer, CallbackReturns, sets
<1>8. CASE Reset
      BY <1>8, ResetArmed DEF Reset, ZeroIsArmed
<1>9. ASSUME Tick \/ SetClock PROVE TimerfdArmed' /\ ZeroIsArmed'
      <2>1. /\ now \in Int /\ now' \in Int /\ (timerfd # Off => timerfd \in Nat)
            /\ drift \in Int /\ \A e \in timers_ : e[1] \in Nat
            /\ UNCHANGED <<timers_, pc>>
            BY <1>9, ArmedTypes DEF Tick, SetClock, sets, handling
      <2>2. timerfd = 0 => timerfd' = 0
            BY <1>9 DEF Tick, SetClock
      <2>3. ASSUME timerfd # Off
            PROVE  /\ timerfd' # Off
                   /\ timerfd' = 0 \/ timerfd' - drift' + now' = timerfd - drift + now
            BY <1>9, <2>1, <2>3 DEF Tick, SetClock, Gains, Off
      <2>4. timerfd # Off => drift' \in Int /\ timerfd' \in Int
            BY <1>9, <2>1 DEF Tick, SetClock, Gains
      <2>5. TimerfdArmed'
            <3> SUFFICES ASSUME pc = "idle", timers_ # {} PROVE Armed'
                BY <2>1 DEF TimerfdArmed, Armed
            <3>1. Armed
                  BY DEF TimerfdArmed, Armed
            <3> QED
                BY <2>1, <2>2, <2>3, <2>4, <3>1 DEF Armed
      <2> QED
          BY <2>1, <2>2, <2>5 DEF ZeroIsArmed
<1>10. CASE UNCHANGED vars
      BY <1>1, <1>10 DEF vars, sets, handling
<1> QED
    BY <1>2, <1>3, <1>4, <1>5, <1>6, <1>7, <1>8, <1>9, <1>10 DEF Next, LoopStep

-----------------------------------------------------------------------------
(* Inv is inductive and so holds in every reachable state.                  *)
LEMMA Invariance == Safety => []Inv
<1>1. Inv /\ [Next]_vars => Inv'
      BY TypeNext, NumberedNext, BatchNext, KnownNext, NamesNext, OwnerNext, RememberedNext,
         ArmedNext DEF Inv
<1> QED
    BY <1>1, InvInit, PTL DEF Safety

(* The variables have their types in every state.                           *)
THEOREM TypeCorrect == Safety => []TypeOK
<1>1. Inv => TypeOK
      BY DEF Inv
<1> QED
    BY <1>1, Invariance, PTL

(* timers_ and activeTimers_ hold the same timers under their current keys, *)
(* as the assertions of cancelInLoop, getExpired and insert require.        *)
THEOREM SetsStayEqual == Safety => []SetsAgree
<1>1. Inv => SetsAgree
      BY DEF Inv
<1> QED
    BY <1>1, Invariance, PTL

(* No Timer leaks, is freed twice or is reachable after its delete, through *)
(* any mix of adds, cancels and expirations and any reuse of addresses.     *)
THEOREM EveryTimerHasOneOwner == Safety => []OneOwner
<1>1. Inv => OneOwner
      BY DEF Inv
<1> QED
    BY <1>1, Invariance, PTL

(* No timer is stranded: outside handleRead the timerfd is readable, or will *)
(* be no later than the earliest timer is due plus what the wall clock was   *)
(* set forward since the timerfd was armed, however the clocks run.          *)
THEOREM NoTimerStranded == Safety => []TimerfdArmed
<1>1. Inv => TimerfdArmed
      BY DEF Inv
<1> QED
    BY <1>1, Invariance, PTL

(* A timer that was cancelled, were it in its own callback, is not          *)
(* scheduled again.                                                         *)
THEOREM CancelledStaysCancelled == Safety => []CancelSticks
<1>1. Inv => CancelSticks
      <2> SUFFICES ASSUME Inv, NEW x \in activeTimers_ PROVE x[2] \notin cancelled
          BY DEF CancelSticks
      <2>1. x[1] \in Active /\ x[2] = sequence[x[1]]
            BY ActiveAddrs DEF Inv
      <2>2. x[1] \in live /\ x[1] \notin expired
            BY <2>1 DEF Inv, OneOwner
      <2> QED
          BY <2>1, <2>2 DEF Inv, CancelRemembered
<1> QED
    BY <1>1, Invariance, PTL

(* A timer leaves the sets because it expired, or because cancel was called *)
(* with the TimerId that addTimer returned for it.  One exception is left:  *)
(* an id that addTimer returned for an earlier timer and read, in the race  *)
(* of line 84, from the later timer at the same address.                    *)
THEOREM OnlyExpiredOrCancelled == Safety => OnlyExpiredOrCancelledLeave
<1> DEFINE A == \A x \in activeTimers_ \ activeTimers_' :
                  \/ x[1] \in expired'
                  \/ /\ expired' = expired
                     /\ x[2] \in cancelled'
                     /\ OwnIdGiven(x)' \/ TakenForEarlier(x)'
<1>1. Inv /\ [Next]_vars => [A]_vars
      <2> SUFFICES ASSUME Inv, Next PROVE A
          OBVIOUS
      <2>1. ASSUME activeTimers_ \subseteq activeTimers_' PROVE A
            BY <2>1
      <2>2. ASSUME NEW r \in ids, r \in asked', CancelInLoop(r.id), expired' = expired
            PROVE  A
            <3> SUFFICES ASSUME NEW x \in activeTimers_ \ activeTimers_'
                         PROVE  /\ x[2] \in cancelled'
                                /\ OwnIdGiven(x)' \/ TakenForEarlier(x)'
                BY <2>2
            <3>1. r.id = x /\ x[2] \in cancelled'
                  BY <2>2 DEF CancelInLoop, sets
            <3>2. x[2] # NoSeq /\ x[2] \in Int
                  BY ActiveAddrs DEF Inv, Numbered, OneOwner, TypeOK
            <3>3. r.of \in Int /\ r.of <= x[2]
                  BY <3>1, <3>2 DEF Inv, IdsNameNoEarlier, TypeOK, Returned
            <3> QED
                BY <2>2, <3>1, <3>2, <3>3 DEF OwnIdGiven, TakenForEarlier
      <2>3. CASE RunPending
            <3>1. CASE Head(pending).op = "cancel" /\ CancelInLoop(Head(pending).id)
                  <4>1. PICK r \in asked : r.id = Head(pending).id
                        BY <2>3, <3>1, HeadFunctor DEF RunPending, Inv
                  <4>2. r \in ids /\ r \in asked' /\ expired' = expired
                        BY <2>3 DEF RunPending, handling, Inv, TypeOK
                  <4> QED
                      BY <2>2, <3>1, <4>1, <4>2
            <3> QED
                BY <2>1, <2>3, <3>1 DEF RunPending, AddTimerInLoop
      <2>4. ASSUME NEW r \in ids, LoopCancel(r) PROVE A
            BY <2>2, <2>4 DEF LoopCancel, handling
      <2>5. CASE HandleRead
            BY <2>5 DEF HandleRead
      <2>6. CASE LoopAdd \/ Tick \/ SetClock \/ Reset
            BY <2>1, <2>6 DEF LoopAdd, AddTimerInLoop, Tick, SetClock, Reset, sets
      <2>7. CASE (\E a \in Addrs : RunTimer(a)) \/ CallbackReturns
            BY <2>1, <2>7 DEF RunTimer, CallbackReturns, sets
      <2>8. ASSUME NEW t \in Threads,
                   \/ ThreadNew(t) \/ ThreadPush(t) \/ ThreadReturns(t)
                   \/ \E r \in ids : ThreadCancel(t, r)
            PROVE  A
            BY <2>1, <2>8 DEF ThreadNew, ThreadPush, ThreadReturns, ThreadCancel, sets
      <2> HIDE DEF A
      <2> QED
          BY <2>3, <2>4, <2>5, <2>6, <2>7, <2>8 DEF Next, LoopStep
<1> QED
    BY <1>1, Invariance, PTL DEF Safety, OnlyExpiredOrCancelledLeave

=============================================================================
