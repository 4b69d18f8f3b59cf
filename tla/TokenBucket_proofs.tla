------------------------- MODULE TokenBucket_proofs -------------------------
(***************************************************************************)
(* Proofs about TokenBucket, for any sets of threads and buckets, any      *)
(* length of the table and any rates.  TypeOK, SlotsAgree, TokensInRange   *)
(* and FetchTakesSome are not inductive: that a bucket's fields are left   *)
(* alone rests on who holds which mutex, that the table stays true on who  *)
(* is inside a call on which bucket.  The conjuncts of Inv say both.       *)
(***************************************************************************)
EXTENDS TokenBucket, TLAPS

(* The alarm thread holds mut_job during a round and at no other time.      *)
AlarmHolds ==
    mut_job = Alarm <=> tid \in {"look", "mutex", "add", "cap", "unlock"}

(* A call that is under way is on a bucket that exists.                     *)
CallsLive == \A t \in Threads : pc[t] # "idle" => me[t] \in live

(* A bucket that is being made or destroyed is in no other call.            *)
Exclusive ==
    \A t, u \in Threads :
        t # u /\ me[t] = me[u] /\ pc[t] \in {"register", "unlist", "free"}
            => pc[u] = "idle"

(* A bucket's mutex is held by the one thread inside its section.           *)
Holders ==
    \A b \in Buckets :
        /\ \A t \in Threads :
             mut[b] = t <=> (me[t] = b /\ pc[t] \in {"check", "give", "cut"})
        /\ mut[b] = Alarm <=> (tid \in {"add", "cap"} /\ job[i] = b)

(* Tokens exceed brust only between the addition and the cap.               *)
Tokens ==
    \A b \in live :
        /\ token[b] >= 0
        /\ \/ token[b] <= brust[b]
           \/ mut[b] = Alarm /\ tid = "cap"
           \/ \E t \in Threads : mut[b] = t /\ pc[t] = "cut"

Inv ==
    /\ TypeOK
    /\ AlarmHolds
    /\ CallsLive
    /\ Exclusive
    /\ Holders
    /\ SlotsAgree
    /\ Tokens
    /\ FetchTakesSome

-----------------------------------------------------------------------------
(* The initial state satisfies every part.                                  *)
LEMMA InvInit == Init => Inv
<1> SUFFICES ASSUME Init PROVE Inv
    OBVIOUS
<1>1. TypeOK
      <2>1. 1 \in Rates /\ 1 \in Sizes /\ 0 \in Slots /\ 0 \in 0 .. MYTBF_MAX
            BY ConstantsAssumption DEF Rates, Sizes, Slots
      <2>2. /\ live \subseteq Buckets
            /\ cps \in [Buckets -> Rates] /\ brust \in [Buckets -> Rates]
            /\ token \in [Buckets -> Int] /\ pos \in [Buckets -> Slots]
            /\ mut \in [Buckets -> Threads \cup {Alarm, None}]
            /\ completed \in [Buckets -> BOOLEAN]
            BY <2>1 DEF Init
      <2>3. /\ pc \in [Threads -> Points] /\ size \in [Threads -> Sizes]
            /\ me \in [Threads -> Buckets \cup {None}]
            /\ \A t \in Threads : pc[t] # "idle" => me[t] \in Buckets
            BY <2>1 DEF Init, Points
      <2> QED
          BY <2>1, <2>2, <2>3 DEF Init, TypeOK, AlarmPoints
<1>2. AlarmHolds /\ CallsLive /\ Exclusive /\ Tokens /\ FetchTakesSome
      BY ConstantsAssumption
         DEF Init, AlarmHolds, CallsLive, Exclusive, Tokens, FetchTakesSome
<1>3. Holders
      BY ConstantsAssumption DEF Init, Holders
<1>4. SlotsAgree
      BY ConstantsAssumption DEF Init, SlotsAgree, Registered, Slots
<1> QED
    BY <1>1, <1>2, <1>3, <1>4 DEF Inv

(* What Register does to the table: the bucket takes a free slot, or there  *)
(* is none and it is gone.                                                  *)
LEMMA RegisterCases ==
    ASSUME TypeOK, NEW t \in Threads, Register(t)
    PROVE  \/ /\ \E s \in Slots : /\ job[s] = None
                                 /\ pos' = [pos EXCEPT ![me[t]] = s]
                                 /\ job' = [job EXCEPT ![s] = me[t]]
              /\ live' = live
           \/ /\ live' = live \ {me[t]}
              /\ pos' = pos /\ job' = job
BY DEF Register, FreeSlots

(* Steps keep the types.                                                    *)
LEMMA TypeNext ==
    ASSUME TypeOK, SlotsAgree, [Next]_vars
    PROVE  TypeOK'
<1>1. CASE AlarmLocks
      BY <1>1, ConstantsAssumption DEF AlarmLocks, fields, callers, history,
          TypeOK, Slots, Rates, Sizes, AlarmPoints, Points, CallPoints,
          FetchPoints, ReturnPoints
<1>2. CASE AlarmLooks
      BY <1>2, ConstantsAssumption DEF AlarmLooks, fields, callers, history,
          TypeOK, Slots, Rates, Sizes, AlarmPoints, Points, CallPoints,
          FetchPoints, ReturnPoints
<1>3. CASE AlarmMutex
      BY <1>3, ConstantsAssumption DEF AlarmMutex, fields, callers, history,
          TypeOK, Slots, Rates, Sizes, AlarmPoints, Points, CallPoints,
          FetchPoints, ReturnPoints
<1>4. CASE AlarmAdds
      <2>1. job[i] \in Buckets
            <3>1. i \in Slots /\ job[i] # None
                  BY <1>4 DEF AlarmAdds, SlotsAgree, TypeOK
            <3>2. job \in [Slots -> Buckets \cup {None}]
                  BY DEF TypeOK
            <3> QED
                BY <3>1, <3>2
      <2>2. token' \in [Buckets -> Int]
            BY <1>4, <2>1 DEF AlarmAdds, TypeOK, Rates
      <2> QED
          BY <1>4, <2>2 DEF AlarmAdds, callers, history, TypeOK, Slots, Rates, Sizes, AlarmPoints,
          Points, CallPoints, FetchPoints, ReturnPoints
<1>5. CASE AlarmCaps
      <2>1. job[i] \in Buckets /\ i \in Slots
            <3>1. i \in Slots /\ job[i] # None
                  BY <1>5 DEF AlarmCaps, SlotsAgree, TypeOK
            <3>2. job \in [Slots -> Buckets \cup {None}]
                  BY DEF TypeOK
            <3> QED
                BY <3>1, <3>2
      <2>2. token' \in [Buckets -> Int] /\ mut' \in [Buckets -> Threads \cup {Alarm, None}]
            BY <1>5, <2>1 DEF AlarmCaps, Capped, TypeOK, Rates
      <2>3. pc' \in [Threads -> Points] /\ \A t \in Threads : pc'[t] # "idle" => pc[t] # "idle"
            BY <1>5 DEF AlarmCaps, Broadcast, TypeOK, Points, CallPoints, FetchPoints
      <2>4. i' \in 0 .. MYTBF_MAX
            BY <1>5, <2>1, ConstantsAssumption DEF AlarmCaps, Slots
      <2> QED
          BY <1>5, <2>2, <2>3, <2>4 DEF AlarmCaps, history, TypeOK, AlarmPoints
<1>6. CASE AlarmUnlocks
      BY <1>6, ConstantsAssumption DEF AlarmUnlocks, fields, callers, history,
          TypeOK, Slots, Rates, Sizes, AlarmPoints, Points, CallPoints,
          FetchPoints, ReturnPoints
<1>7. ASSUME NEW t \in Threads, New(t)
      PROVE  TypeOK'
      BY <1>7, ConstantsAssumption DEF New, Goto, history, TypeOK, Slots,
          Rates, Sizes, AlarmPoints, Points, CallPoints, FetchPoints,
          ReturnPoints
<1>8. ASSUME NEW t \in Threads, Register(t)
      PROVE  TypeOK'
      <2>1. pos' \in [Buckets -> Slots] /\ job' \in [Slots -> Buckets \cup {None}]
            BY <1>8, RegisterCases DEF Register, TypeOK
      <2>2. live' \subseteq Buckets
            BY <1>8, RegisterCases DEF TypeOK
      <2> QED
          BY <1>8, <2>1, <2>2 DEF Register, Goto, alarm, history, TypeOK, Points
<1>9. ASSUME NEW t \in Threads, NEW b \in Buckets, NEW n \in Sizes, Call(t, b, n, "fetch")
      PROVE  TypeOK'
      BY <1>9, ConstantsAssumption DEF Call, Goto, Usable, fields, alarm,
          history, TypeOK, Slots, Rates, Sizes, AlarmPoints, Points,
          CallPoints, FetchPoints, ReturnPoints
<1>10. ASSUME NEW t \in Threads, NEW b \in Buckets, NEW n \in Sizes, Call(t, b, n, "return")
      PROVE  TypeOK'
      BY <1>10, ConstantsAssumption DEF Call, Goto, Usable, fields, alarm,
          history, TypeOK, Slots, Rates, Sizes, AlarmPoints, Points,
          CallPoints, FetchPoints, ReturnPoints
<1>11. ASSUME NEW t \in Threads, LockFetch(t)
      PROVE  TypeOK'
      BY <1>11, ConstantsAssumption DEF LockFetch, Lock, Goto, fields, alarm,
          history, TypeOK, Slots, Rates, Sizes, AlarmPoints, Points,
          CallPoints, FetchPoints, ReturnPoints
<1>12. ASSUME NEW t \in Threads, LockReturn(t)
      PROVE  TypeOK'
      BY <1>12, ConstantsAssumption DEF LockReturn, Lock, Goto, fields, alarm,
          history, TypeOK, Slots, Rates, Sizes, AlarmPoints, Points,
          CallPoints, FetchPoints, ReturnPoints
<1>13. ASSUME NEW t \in Threads, FetchWaits(t)
      PROVE  TypeOK'
      BY <1>13, ConstantsAssumption DEF FetchWaits, Goto, fields, alarm,
          history, TypeOK, Slots, Rates, Sizes, AlarmPoints, Points,
          CallPoints, FetchPoints, ReturnPoints
<1>14. ASSUME NEW t \in Threads, FetchTakes(t)
      PROVE  TypeOK'
      BY <1>14, ConstantsAssumption DEF FetchTakes, Goto, Completes, alarm,
          TypeOK, Slots, Rates, Sizes, AlarmPoints, Points, CallPoints,
          FetchPoints, ReturnPoints
<1>15. ASSUME NEW t \in Threads, Gives(t)
      PROVE  TypeOK'
      BY <1>15, ConstantsAssumption DEF Gives, Goto, alarm, history, TypeOK,
          Slots, Rates, Sizes, AlarmPoints, Points, CallPoints, FetchPoints,
          ReturnPoints
<1>16. ASSUME NEW t \in Threads, Cuts(t)
      PROVE  TypeOK'
      BY <1>16, ConstantsAssumption DEF Cuts, Broadcast, Capped, Completes,
          alarm, TypeOK, Slots, Rates, Sizes, AlarmPoints, Points, CallPoints,
          FetchPoints, ReturnPoints
<1>17. ASSUME NEW t \in Threads, SpuriousWakeup(t)
      PROVE  TypeOK'
      BY <1>17, ConstantsAssumption DEF SpuriousWakeup, Goto, fields, alarm,
          history, TypeOK, Slots, Rates, Sizes, AlarmPoints, Points,
          CallPoints, FetchPoints, ReturnPoints
<1>18. ASSUME NEW t \in Threads, NEW b \in Buckets, Destroy(t, b)
      PROVE  TypeOK'
      BY <1>18, ConstantsAssumption DEF Destroy, Goto, Usable, fields, alarm,
          history, TypeOK, Slots, Rates, Sizes, AlarmPoints, Points,
          CallPoints, FetchPoints, ReturnPoints
<1>19. ASSUME NEW t \in Threads, Unlist(t)
      PROVE  TypeOK'
      BY <1>19, ConstantsAssumption DEF Unlist, Goto, fields, alarm, history,
          TypeOK, Slots, Rates, Sizes, AlarmPoints, Points, CallPoints,
          FetchPoints, ReturnPoints
<1>20. ASSUME NEW t \in Threads, Free(t)
      PROVE  TypeOK'
      BY <1>20, ConstantsAssumption DEF Free, Goto, fields, alarm, history,
          TypeOK, Slots, Rates, Sizes, AlarmPoints, Points, CallPoints,
          FetchPoints, ReturnPoints
<1>21. CASE UNCHANGED vars
      BY <1>21 DEF vars, fields, alarm, callers, history, TypeOK, Slots,
          Rates, Sizes, AlarmPoints, Points, CallPoints, FetchPoints,
          ReturnPoints
<1>22. ASSUME NEW t \in Threads, ModuleLoadFails(t)
      PROVE  TypeOK'
      BY <1>22, ConstantsAssumption DEF ModuleLoadFails, fields, callers, history,
          TypeOK, Slots, Rates, Sizes, AlarmPoints, Points, CallPoints,
          FetchPoints, ReturnPoints
<1> QED
      BY <1>1, <1>2, <1>3, <1>4, <1>5, <1>6, <1>7, <1>8, <1>9, <1>10, <1>11,
          <1>12, <1>13, <1>14, <1>15, <1>16, <1>17, <1>18, <1>19, <1>20, <1>21, <1>22
          DEF Next, Exited, AlarmStep, CallerStep, Section

(* Only the alarm thread takes mut_job across steps.                        *)
LEMMA AlarmHoldsNext ==
    ASSUME TypeOK, AlarmHolds, [Next]_vars
    PROVE  AlarmHolds'
<1>1. CASE AlarmStep
      BY <1>1, ConstantsAssumption DEF AlarmStep, AlarmLocks, fields, callers,
          history, AlarmLooks, AlarmMutex, AlarmAdds, AlarmCaps, Broadcast,
          Capped, AlarmUnlocks, AlarmHolds, TypeOK, AlarmPoints
<1>2. ASSUME NEW t \in Threads, CallerStep(t)
      PROVE  AlarmHolds'
      <2>1. CASE New(t)
            BY <2>1, ConstantsAssumption DEF New, Goto, history, AlarmHolds,
                TypeOK, AlarmPoints
      <2>2. CASE Register(t) \/ Unlist(t) \/ Free(t)
            BY <2>2, ConstantsAssumption DEF Register, Goto, FreeSlots, alarm,
                history, Unlist, fields, Free, AlarmHolds, TypeOK, AlarmPoints
      <2>3. CASE \/ (\E b \in Buckets, n \in Sizes : Call(t, b, n, "fetch"))
                 \/ (\E b \in Buckets, n \in Sizes : Call(t, b, n, "return"))
                 \/ (\E b \in Buckets : Destroy(t, b))
            BY <2>3, ConstantsAssumption DEF Call, Goto, Usable, fields,
                alarm, history, Destroy, AlarmHolds, TypeOK, AlarmPoints
      <2>4. CASE LockFetch(t) \/ LockReturn(t) \/ SpuriousWakeup(t)
            BY <2>4, ConstantsAssumption DEF LockFetch, Lock, Goto, fields,
                alarm, history, LockReturn, SpuriousWakeup, AlarmHolds,
                TypeOK, AlarmPoints
      <2>5. CASE FetchWaits(t) \/ FetchTakes(t) \/ Gives(t) \/ Cuts(t)
            BY <2>5, ConstantsAssumption DEF FetchWaits, Goto, fields, alarm,
                history, FetchTakes, Completes, Gives, Cuts, Broadcast,
                Capped, AlarmHolds, TypeOK, AlarmPoints
      <2>6. CASE ModuleLoadFails(t)
            BY <2>6, ConstantsAssumption DEF ModuleLoadFails, fields, callers, history, AlarmHolds,
                TypeOK, AlarmPoints
      <2> QED
          BY <1>2, <2>1, <2>2, <2>3, <2>4, <2>5, <2>6 DEF CallerStep, Section
<1>3. CASE UNCHANGED vars
      BY <1>3 DEF vars, fields, alarm, callers, history, AlarmHolds, TypeOK,
          AlarmPoints
<1> QED
    BY <1>1, <1>2, <1>3 DEF Next, Exited

(* Nobody frees a bucket under a call.                                      *)
LEMMA CallsLiveNext ==
    ASSUME TypeOK, CallsLive, Exclusive, [Next]_vars
    PROVE  CallsLive'
<1>1. CASE AlarmLocks
      BY <1>1, ConstantsAssumption DEF AlarmLocks, fields, callers, history,
          CallsLive, Exclusive, TypeOK, Slots, Rates, Sizes, AlarmPoints,
          Points, CallPoints, FetchPoints, ReturnPoints
<1>2. CASE AlarmLooks
      BY <1>2, ConstantsAssumption DEF AlarmLooks, fields, callers, history,
          CallsLive, Exclusive, TypeOK, Slots, Rates, Sizes, AlarmPoints,
          Points, CallPoints, FetchPoints, ReturnPoints
<1>3. CASE AlarmMutex
      BY <1>3, ConstantsAssumption DEF AlarmMutex, fields, callers, history,
          CallsLive, Exclusive, TypeOK, Slots, Rates, Sizes, AlarmPoints,
          Points, CallPoints, FetchPoints, ReturnPoints
<1>4. CASE AlarmAdds
      BY <1>4, ConstantsAssumption DEF AlarmAdds, callers, history, CallsLive,
          Exclusive, TypeOK, Slots, Rates, Sizes, AlarmPoints, Points,
          CallPoints, FetchPoints, ReturnPoints
<1>5. CASE AlarmCaps
      BY <1>5, ConstantsAssumption DEF AlarmCaps, Broadcast, Capped, history,
          CallsLive, Exclusive, TypeOK, Slots, Rates, Sizes, AlarmPoints,
          Points, CallPoints, FetchPoints, ReturnPoints
<1>6. CASE AlarmUnlocks
      BY <1>6, ConstantsAssumption DEF AlarmUnlocks, fields, callers, history,
          CallsLive, Exclusive, TypeOK, Slots, Rates, Sizes, AlarmPoints,
          Points, CallPoints, FetchPoints, ReturnPoints
<1>7. ASSUME NEW t \in Threads, New(t)
      PROVE  CallsLive'
      BY <1>7, ConstantsAssumption DEF New, Goto, history, CallsLive,
          Exclusive, TypeOK, Slots, Rates, Sizes, AlarmPoints, Points,
          CallPoints, FetchPoints, ReturnPoints
<1>8. ASSUME NEW t \in Threads, Register(t)
      PROVE  CallsLive'
      BY <1>8, ConstantsAssumption DEF Register, Goto, FreeSlots, alarm,
          history, CallsLive, Exclusive, TypeOK, Slots, Rates, Sizes,
          AlarmPoints, Points, CallPoints, FetchPoints, ReturnPoints
<1>9. ASSUME NEW t \in Threads, NEW b \in Buckets, NEW n \in Sizes, Call(t, b, n, "fetch")
      PROVE  CallsLive'
      BY <1>9, ConstantsAssumption DEF Call, Goto, Usable, fields, alarm,
          history, CallsLive, Exclusive, TypeOK, Slots, Rates, Sizes,
          AlarmPoints, Points, CallPoints, FetchPoints, ReturnPoints
<1>10. ASSUME NEW t \in Threads, NEW b \in Buckets, NEW n \in Sizes, Call(t, b, n, "return")
      PROVE  CallsLive'
      BY <1>10, ConstantsAssumption DEF Call, Goto, Usable, fields, alarm,
          history, CallsLive, Exclusive, TypeOK, Slots, Rates, Sizes,
          AlarmPoints, Points, CallPoints, FetchPoints, ReturnPoints
<1>11. ASSUME NEW t \in Threads, LockFetch(t)
      PROVE  CallsLive'
      BY <1>11, ConstantsAssumption DEF LockFetch, Lock, Goto, fields, alarm,
          history, CallsLive, Exclusive, TypeOK, Slots, Rates, Sizes,
          AlarmPoints, Points, CallPoints, FetchPoints, ReturnPoints
<1>12. ASSUME NEW t \in Threads, LockReturn(t)
      PROVE  CallsLive'
      BY <1>12, ConstantsAssumption DEF LockReturn, Lock, Goto, fields, alarm,
          history, CallsLive, Exclusive, TypeOK, Slots, Rates, Sizes,
          AlarmPoints, Points, CallPoints, FetchPoints, ReturnPoints
<1>13. ASSUME NEW t \in Threads, FetchWaits(t)
      PROVE  CallsLive'
      BY <1>13, ConstantsAssumption DEF FetchWaits, Goto, fields, alarm,
          history, CallsLive, Exclusive, TypeOK, Slots, Rates, Sizes,
          AlarmPoints, Points, CallPoints, FetchPoints, ReturnPoints
<1>14. ASSUME NEW t \in Threads, FetchTakes(t)
      PROVE  CallsLive'
      BY <1>14, ConstantsAssumption DEF FetchTakes, Goto, Completes, alarm,
          CallsLive, Exclusive, TypeOK, Slots, Rates, Sizes, AlarmPoints,
          Points, CallPoints, FetchPoints, ReturnPoints
<1>15. ASSUME NEW t \in Threads, Gives(t)
      PROVE  CallsLive'
      BY <1>15, ConstantsAssumption DEF Gives, Goto, alarm, history,
          CallsLive, Exclusive, TypeOK, Slots, Rates, Sizes, AlarmPoints,
          Points, CallPoints, FetchPoints, ReturnPoints
<1>16. ASSUME NEW t \in Threads, Cuts(t)
      PROVE  CallsLive'
      BY <1>16, ConstantsAssumption DEF Cuts, Broadcast, Capped, Completes,
          alarm, CallsLive, Exclusive, TypeOK, Slots, Rates, Sizes,
          AlarmPoints, Points, CallPoints, FetchPoints, ReturnPoints
<1>17. ASSUME NEW t \in Threads, SpuriousWakeup(t)
      PROVE  CallsLive'
      BY <1>17, ConstantsAssumption DEF SpuriousWakeup, Goto, fields, alarm,
          history, CallsLive, Exclusive, TypeOK, Slots, Rates, Sizes,
          AlarmPoints, Points, CallPoints, FetchPoints, ReturnPoints
<1>18. ASSUME NEW t \in Threads, NEW b \in Buckets, Destroy(t, b)
      PROVE  CallsLive'
      BY <1>18, ConstantsAssumption DEF Destroy, Goto, Usable, fields, alarm,
          history, CallsLive, Exclusive, TypeOK, Slots, Rates, Sizes,
          AlarmPoints, Points, CallPoints, FetchPoints, ReturnPoints
<1>19. ASSUME NEW t \in Threads, Unlist(t)
      PROVE  CallsLive'
      BY <1>19, ConstantsAssumption DEF Unlist, Goto, fields, alarm, history,
          CallsLive, Exclusive, TypeOK, Slots, Rates, Sizes, AlarmPoints,
          Points, CallPoints, FetchPoints, ReturnPoints
<1>20. ASSUME NEW t \in Threads, Free(t)
      PROVE  CallsLive'
      BY <1>20, ConstantsAssumption DEF Free, Goto, fields, alarm, history,
          CallsLive, Exclusive, TypeOK, Slots, Rates, Sizes, AlarmPoints,
          Points, CallPoints, FetchPoints, ReturnPoints
<1>21. CASE UNCHANGED vars
      BY <1>21 DEF vars, fields, alarm, callers, history, CallsLive,
          Exclusive, TypeOK, Slots, Rates, Sizes, AlarmPoints, Points,
          CallPoints, FetchPoints, ReturnPoints
<1>22. ASSUME NEW t \in Threads, ModuleLoadFails(t)
      PROVE  CallsLive'
      BY <1>22, ConstantsAssumption DEF ModuleLoadFails, fields, callers, history,
          CallsLive, Exclusive, TypeOK, Slots, Rates, Sizes, AlarmPoints,
          Points, CallPoints, FetchPoints, ReturnPoints
<1> QED
      BY <1>1, <1>2, <1>3, <1>4, <1>5, <1>6, <1>7, <1>8, <1>9, <1>10, <1>11,
          <1>12, <1>13, <1>14, <1>15, <1>16, <1>17, <1>18, <1>19, <1>20, <1>21, <1>22
          DEF Next, Exited, AlarmStep, CallerStep, Section

(* A bucket is made by the thread that just got its address, and destroyed *)
(* when every other thread has left it.                                     *)
LEMMA ExclusiveNext ==
    ASSUME TypeOK, CallsLive, Exclusive, [Next]_vars
    PROVE  Exclusive'
<1>1. CASE AlarmLocks
      BY <1>1, ConstantsAssumption DEF AlarmLocks, fields, callers, history,
          CallsLive, Exclusive, TypeOK, Slots, Rates, Sizes, AlarmPoints,
          Points, CallPoints, FetchPoints, ReturnPoints
<1>2. CASE AlarmLooks
      BY <1>2, ConstantsAssumption DEF AlarmLooks, fields, callers, history,
          CallsLive, Exclusive, TypeOK, Slots, Rates, Sizes, AlarmPoints,
          Points, CallPoints, FetchPoints, ReturnPoints
<1>3. CASE AlarmMutex
      BY <1>3, ConstantsAssumption DEF AlarmMutex, fields, callers, history,
          CallsLive, Exclusive, TypeOK, Slots, Rates, Sizes, AlarmPoints,
          Points, CallPoints, FetchPoints, ReturnPoints
<1>4. CASE AlarmAdds
      BY <1>4, ConstantsAssumption DEF AlarmAdds, callers, history, CallsLive,
          Exclusive, TypeOK, Slots, Rates, Sizes, AlarmPoints, Points,
          CallPoints, FetchPoints, ReturnPoints
<1>5. CASE AlarmCaps
      BY <1>5, ConstantsAssumption DEF AlarmCaps, Broadcast, Capped, history,
          CallsLive, Exclusive, TypeOK, Slots, Rates, Sizes, AlarmPoints,
          Points, CallPoints, FetchPoints, ReturnPoints
<1>6. CASE AlarmUnlocks
      BY <1>6, ConstantsAssumption DEF AlarmUnlocks, fields, callers, history,
          CallsLive, Exclusive, TypeOK, Slots, Rates, Sizes, AlarmPoints,
          Points, CallPoints, FetchPoints, ReturnPoints
<1>7. ASSUME NEW t \in Threads, New(t)
      PROVE  Exclusive'
      BY <1>7, ConstantsAssumption DEF New, Goto, history, CallsLive,
          Exclusive, TypeOK, Slots, Rates, Sizes, AlarmPoints, Points,
          CallPoints, FetchPoints, ReturnPoints
<1>8. ASSUME NEW t \in Threads, Register(t)
      PROVE  Exclusive'
      BY <1>8, ConstantsAssumption DEF Register, Goto, FreeSlots, alarm,
          history, CallsLive, Exclusive, TypeOK, Slots, Rates, Sizes,
          AlarmPoints, Points, CallPoints, FetchPoints, ReturnPoints
<1>9. ASSUME NEW t \in Threads, NEW b \in Buckets, NEW n \in Sizes, Call(t, b, n, "fetch")
      PROVE  Exclusive'
      BY <1>9, ConstantsAssumption DEF Call, Goto, Usable, fields, alarm,
          history, CallsLive, Exclusive, TypeOK, Slots, Rates, Sizes,
          AlarmPoints, Points, CallPoints, FetchPoints, ReturnPoints
<1>10. ASSUME NEW t \in Threads, NEW b \in Buckets, NEW n \in Sizes, Call(t, b, n, "return")
      PROVE  Exclusive'
      BY <1>10, ConstantsAssumption DEF Call, Goto, Usable, fields, alarm,
          history, CallsLive, Exclusive, TypeOK, Slots, Rates, Sizes,
          AlarmPoints, Points, CallPoints, FetchPoints, ReturnPoints
<1>11. ASSUME NEW t \in Threads, LockFetch(t)
      PROVE  Exclusive'
      BY <1>11, ConstantsAssumption DEF LockFetch, Lock, Goto, fields, alarm,
          history, CallsLive, Exclusive, TypeOK, Slots, Rates, Sizes,
          AlarmPoints, Points, CallPoints, FetchPoints, ReturnPoints
<1>12. ASSUME NEW t \in Threads, LockReturn(t)
      PROVE  Exclusive'
      BY <1>12, ConstantsAssumption DEF LockReturn, Lock, Goto, fields, alarm,
          history, CallsLive, Exclusive, TypeOK, Slots, Rates, Sizes,
          AlarmPoints, Points, CallPoints, FetchPoints, ReturnPoints
<1>13. ASSUME NEW t \in Threads, FetchWaits(t)
      PROVE  Exclusive'
      BY <1>13, ConstantsAssumption DEF FetchWaits, Goto, fields, alarm,
          history, CallsLive, Exclusive, TypeOK, Slots, Rates, Sizes,
          AlarmPoints, Points, CallPoints, FetchPoints, ReturnPoints
<1>14. ASSUME NEW t \in Threads, FetchTakes(t)
      PROVE  Exclusive'
      BY <1>14, ConstantsAssumption DEF FetchTakes, Goto, Completes, alarm,
          CallsLive, Exclusive, TypeOK, Slots, Rates, Sizes, AlarmPoints,
          Points, CallPoints, FetchPoints, ReturnPoints
<1>15. ASSUME NEW t \in Threads, Gives(t)
      PROVE  Exclusive'
      BY <1>15, ConstantsAssumption DEF Gives, Goto, alarm, history,
          CallsLive, Exclusive, TypeOK, Slots, Rates, Sizes, AlarmPoints,
          Points, CallPoints, FetchPoints, ReturnPoints
<1>16. ASSUME NEW t \in Threads, Cuts(t)
      PROVE  Exclusive'
      BY <1>16, ConstantsAssumption DEF Cuts, Broadcast, Capped, Completes,
          alarm, CallsLive, Exclusive, TypeOK, Slots, Rates, Sizes,
          AlarmPoints, Points, CallPoints, FetchPoints, ReturnPoints
<1>17. ASSUME NEW t \in Threads, SpuriousWakeup(t)
      PROVE  Exclusive'
      BY <1>17, ConstantsAssumption DEF SpuriousWakeup, Goto, fields, alarm,
          history, CallsLive, Exclusive, TypeOK, Slots, Rates, Sizes,
          AlarmPoints, Points, CallPoints, FetchPoints, ReturnPoints
<1>18. ASSUME NEW t \in Threads, NEW b \in Buckets, Destroy(t, b)
      PROVE  Exclusive'
      BY <1>18, ConstantsAssumption DEF Destroy, Goto, Usable, fields, alarm,
          history, CallsLive, Exclusive, TypeOK, Slots, Rates, Sizes,
          AlarmPoints, Points, CallPoints, FetchPoints, ReturnPoints
<1>19. ASSUME NEW t \in Threads, Unlist(t)
      PROVE  Exclusive'
      BY <1>19, ConstantsAssumption DEF Unlist, Goto, fields, alarm, history,
          CallsLive, Exclusive, TypeOK, Slots, Rates, Sizes, AlarmPoints,
          Points, CallPoints, FetchPoints, ReturnPoints
<1>20. ASSUME NEW t \in Threads, Free(t)
      PROVE  Exclusive'
      BY <1>20, ConstantsAssumption DEF Free, Goto, fields, alarm, history,
          CallsLive, Exclusive, TypeOK, Slots, Rates, Sizes, AlarmPoints,
          Points, CallPoints, FetchPoints, ReturnPoints
<1>21. CASE UNCHANGED vars
      BY <1>21 DEF vars, fields, alarm, callers, history, CallsLive,
          Exclusive, TypeOK, Slots, Rates, Sizes, AlarmPoints, Points,
          CallPoints, FetchPoints, ReturnPoints
<1>22. ASSUME NEW t \in Threads, ModuleLoadFails(t)
      PROVE  Exclusive'
      BY <1>22, ConstantsAssumption DEF ModuleLoadFails, fields, callers, history,
          CallsLive, Exclusive, TypeOK, Slots, Rates, Sizes, AlarmPoints,
          Points, CallPoints, FetchPoints, ReturnPoints
<1> QED
      BY <1>1, <1>2, <1>3, <1>4, <1>5, <1>6, <1>7, <1>8, <1>9, <1>10, <1>11,
          <1>12, <1>13, <1>14, <1>15, <1>16, <1>17, <1>18, <1>19, <1>20, <1>21, <1>22
          DEF Next, Exited, AlarmStep, CallerStep, Section

(* Mutexes pass from hand to hand as the program counters say.              *)
LEMMA HoldersNext ==
    ASSUME TypeOK, AlarmHolds, CallsLive, SlotsAgree, Holders, [Next]_vars
    PROVE  Holders'
<1>1. CASE AlarmLocks
      BY <1>1, ConstantsAssumption DEF AlarmLocks, fields, callers, history,
          Holders, TypeOK, Slots, Rates, Sizes, AlarmPoints, Points,
          CallPoints, FetchPoints, ReturnPoints
<1>2. CASE AlarmLooks
      BY <1>2, ConstantsAssumption DEF AlarmLooks, fields, callers, history,
          Holders, TypeOK, Slots, Rates, Sizes, AlarmPoints, Points,
          CallPoints, FetchPoints, ReturnPoints
<1>3. CASE AlarmMutex
      BY <1>3, ConstantsAssumption DEF AlarmMutex, fields, callers, history,
          Holders, TypeOK, Slots, Rates, Sizes, AlarmPoints, Points,
          CallPoints, FetchPoints, ReturnPoints
<1>4. CASE AlarmAdds
      BY <1>4, ConstantsAssumption DEF AlarmAdds, callers, history, Holders,
          TypeOK, Slots, Rates, Sizes, AlarmPoints, Points, CallPoints,
          FetchPoints, ReturnPoints
<1>5. CASE AlarmCaps
      BY <1>5, ConstantsAssumption DEF AlarmCaps, Broadcast, Capped, history,
          Holders, TypeOK, Slots, Rates, Sizes, AlarmPoints, Points,
          CallPoints, FetchPoints, ReturnPoints
<1>6. CASE AlarmUnlocks
      BY <1>6, ConstantsAssumption DEF AlarmUnlocks, fields, callers, history,
          Holders, TypeOK, Slots, Rates, Sizes, AlarmPoints, Points,
          CallPoints, FetchPoints, ReturnPoints
<1>7. ASSUME NEW t \in Threads, New(t)
      PROVE  Holders'
      <2>1. PICK b \in Buckets \ live :
              /\ mut' = [mut EXCEPT ![b] = None] /\ me' = [me EXCEPT ![t] = b]
              /\ pc[t] = "idle" /\ pc' = [pc EXCEPT ![t] = "register"]
              /\ job' = job /\ i' = i /\ tid' = IF tid = "none" THEN "lock" ELSE tid
            BY <1>7 DEF New, Goto
      <2>2. \A u \in Threads : me[u] = b => pc[u] = "idle"
            BY <2>1 DEF CallsLive
      <2>3. tid \in {"add", "cap"} => job[i] # b
            BY <2>1 DEF SlotsAgree, Registered, TypeOK
      <2>4. ASSUME NEW c \in Buckets, NEW u \in Threads
            PROVE  mut'[c] = u <=> (me'[u] = c /\ pc'[u] \in {"check", "give", "cut"})
            BY <2>1, <2>2, ConstantsAssumption DEF Holders, TypeOK
      <2>5. ASSUME NEW c \in Buckets
            PROVE  mut'[c] = Alarm <=> (tid' \in {"add", "cap"} /\ job'[i'] = c)
            BY <2>1, <2>3, ConstantsAssumption DEF Holders, TypeOK
      <2> QED
          BY <2>4, <2>5 DEF Holders
<1>8. ASSUME NEW t \in Threads, Register(t)
      PROVE  Holders'
      <2>1. tid \notin {"add", "cap"} /\ tid' = tid /\ mut' = mut /\ me' = me
            BY <1>8, ConstantsAssumption DEF Register, AlarmHolds, alarm
      <2>2. pc[t] = "register" /\ pc' = [pc EXCEPT ![t] = "idle"]
            BY <1>8 DEF Register, Goto
      <2> QED
          BY <2>1, <2>2 DEF Holders, TypeOK
<1>9. ASSUME NEW t \in Threads, NEW b \in Buckets, NEW n \in Sizes, Call(t, b, n, "fetch")
      PROVE  Holders'
      BY <1>9, ConstantsAssumption DEF Call, Goto, Usable, fields, alarm,
          history, Holders, TypeOK, Slots, Rates, Sizes, AlarmPoints, Points,
          CallPoints, FetchPoints, ReturnPoints
<1>10. ASSUME NEW t \in Threads, NEW b \in Buckets, NEW n \in Sizes, Call(t, b, n, "return")
      PROVE  Holders'
      BY <1>10, ConstantsAssumption DEF Call, Goto, Usable, fields, alarm,
          history, Holders, TypeOK, Slots, Rates, Sizes, AlarmPoints, Points,
          CallPoints, FetchPoints, ReturnPoints
<1>11. ASSUME NEW t \in Threads, LockFetch(t)
      PROVE  Holders'
      BY <1>11, ConstantsAssumption DEF LockFetch, Lock, Goto, fields, alarm,
          history, Holders, TypeOK, Slots, Rates, Sizes, AlarmPoints, Points,
          CallPoints, FetchPoints, ReturnPoints
<1>12. ASSUME NEW t \in Threads, LockReturn(t)
      PROVE  Holders'
      BY <1>12, ConstantsAssumption DEF LockReturn, Lock, Goto, fields, alarm,
          history, Holders, TypeOK, Slots, Rates, Sizes, AlarmPoints, Points,
          CallPoints, FetchPoints, ReturnPoints
<1>13. ASSUME NEW t \in Threads, FetchWaits(t)
      PROVE  Holders'
      BY <1>13, ConstantsAssumption DEF FetchWaits, Goto, fields, alarm,
          history, Holders, TypeOK, Slots, Rates, Sizes, AlarmPoints, Points,
          CallPoints, FetchPoints, ReturnPoints
<1>14. ASSUME NEW t \in Threads, FetchTakes(t)
      PROVE  Holders'
      BY <1>14, ConstantsAssumption DEF FetchTakes, Goto, Completes, alarm,
          Holders, TypeOK, Slots, Rates, Sizes, AlarmPoints, Points,
          CallPoints, FetchPoints, ReturnPoints
<1>15. ASSUME NEW t \in Threads, Gives(t)
      PROVE  Holders'
      BY <1>15, ConstantsAssumption DEF Gives, Goto, alarm, history, Holders,
          TypeOK, Slots, Rates, Sizes, AlarmPoints, Points, CallPoints,
          FetchPoints, ReturnPoints
<1>16. ASSUME NEW t \in Threads, Cuts(t)
      PROVE  Holders'
      BY <1>16, ConstantsAssumption DEF Cuts, Broadcast, Capped, Completes,
          alarm, Holders, TypeOK, Slots, Rates, Sizes, AlarmPoints, Points,
          CallPoints, FetchPoints, ReturnPoints
<1>17. ASSUME NEW t \in Threads, SpuriousWakeup(t)
      PROVE  Holders'
      BY <1>17, ConstantsAssumption DEF SpuriousWakeup, Goto, fields, alarm,
          history, Holders, TypeOK, Slots, Rates, Sizes, AlarmPoints, Points,
          CallPoints, FetchPoints, ReturnPoints
<1>18. ASSUME NEW t \in Threads, NEW b \in Buckets, Destroy(t, b)
      PROVE  Holders'
      BY <1>18, ConstantsAssumption DEF Destroy, Goto, Usable, fields, alarm,
          history, Holders, TypeOK, Slots, Rates, Sizes, AlarmPoints, Points,
          CallPoints, FetchPoints, ReturnPoints
<1>19. ASSUME NEW t \in Threads, Unlist(t)
      PROVE  Holders'
      <2>1. tid \notin {"add", "cap"} /\ tid' = tid /\ mut' = mut /\ me' = me
            BY <1>19, ConstantsAssumption DEF Unlist, AlarmHolds, alarm
      <2>2. pc[t] = "unlist" /\ pc' = [pc EXCEPT ![t] = "free"]
            BY <1>19 DEF Unlist, Goto
      <2> QED
          BY <2>1, <2>2 DEF Holders, TypeOK
<1>20. ASSUME NEW t \in Threads, Free(t)
      PROVE  Holders'
      BY <1>20, ConstantsAssumption DEF Free, Goto, fields, alarm, history,
          Holders, TypeOK, Slots, Rates, Sizes, AlarmPoints, Points,
          CallPoints, FetchPoints, ReturnPoints
<1>21. CASE UNCHANGED vars
      BY <1>21 DEF vars, fields, alarm, callers, history, Holders, TypeOK,
          Slots, Rates, Sizes, AlarmPoints, Points, CallPoints, FetchPoints,
          ReturnPoints
<1>22. ASSUME NEW t \in Threads, ModuleLoadFails(t)
      PROVE  Holders'
      BY <1>22, ConstantsAssumption DEF ModuleLoadFails, fields, callers, history,
          Holders, TypeOK, Slots, Rates, Sizes, AlarmPoints, Points,
          CallPoints, FetchPoints, ReturnPoints
<1> QED
      BY <1>1, <1>2, <1>3, <1>4, <1>5, <1>6, <1>7, <1>8, <1>9, <1>10, <1>11,
          <1>12, <1>13, <1>14, <1>15, <1>16, <1>17, <1>18, <1>19, <1>20, <1>21, <1>22
          DEF Next, Exited, AlarmStep, CallerStep, Section

(* The table and the buckets change together.                               *)
LEMMA SlotsNext ==
    ASSUME TypeOK, AlarmHolds, CallsLive, Exclusive, SlotsAgree, [Next]_vars
    PROVE  SlotsAgree'
<1>1. CASE AlarmLocks
      BY <1>1, ConstantsAssumption DEF AlarmLocks, fields, callers, history,
          SlotsAgree, Registered, AlarmHolds, CallsLive, Exclusive, TypeOK,
          Slots, Rates, Sizes, AlarmPoints, Points, CallPoints, FetchPoints,
          ReturnPoints
<1>2. CASE AlarmLooks
      BY <1>2, ConstantsAssumption DEF AlarmLooks, fields, callers, history,
          SlotsAgree, Registered, AlarmHolds, CallsLive, Exclusive, TypeOK,
          Slots, Rates, Sizes, AlarmPoints, Points, CallPoints, FetchPoints,
          ReturnPoints
<1>3. CASE AlarmMutex
      BY <1>3, ConstantsAssumption DEF AlarmMutex, fields, callers, history,
          SlotsAgree, Registered, AlarmHolds, CallsLive, Exclusive, TypeOK,
          Slots, Rates, Sizes, AlarmPoints, Points, CallPoints, FetchPoints,
          ReturnPoints
<1>4. CASE AlarmAdds
      BY <1>4, ConstantsAssumption DEF AlarmAdds, callers, history,
          SlotsAgree, Registered, AlarmHolds, CallsLive, Exclusive, TypeOK,
          Slots, Rates, Sizes, AlarmPoints, Points, CallPoints, FetchPoints,
          ReturnPoints
<1>5. CASE AlarmCaps
      BY <1>5, ConstantsAssumption DEF AlarmCaps, Broadcast, Capped, history,
          SlotsAgree, Registered, AlarmHolds, CallsLive, Exclusive, TypeOK,
          Slots, Rates, Sizes, AlarmPoints, Points, CallPoints, FetchPoints,
          ReturnPoints
<1>6. CASE AlarmUnlocks
      BY <1>6, ConstantsAssumption DEF AlarmUnlocks, fields, callers, history,
          SlotsAgree, Registered, AlarmHolds, CallsLive, Exclusive, TypeOK,
          Slots, Rates, Sizes, AlarmPoints, Points, CallPoints, FetchPoints,
          ReturnPoints
<1>7. ASSUME NEW t \in Threads, New(t)
      PROVE  SlotsAgree'
      <2>1. PICK b \in Buckets \ live :
              /\ live' = live \cup {b} /\ me' = [me EXCEPT ![t] = b]
              /\ pc[t] = "idle" /\ pc' = [pc EXCEPT ![t] = "register"]
              /\ job' = job /\ i' = i /\ pos' = pos
              /\ tid' = IF tid = "none" THEN "lock" ELSE tid
            BY <1>7 DEF New, Goto
      <2>2. Registered' = Registered
            BY <2>1 DEF Registered, CallsLive, TypeOK
      <2> QED
          BY <2>1, <2>2 DEF SlotsAgree
<1>8. ASSUME NEW t \in Threads, Register(t)
      PROVE  SlotsAgree'
      <2>1. /\ pc[t] = "register" /\ pc' = [pc EXCEPT ![t] = "idle"]
            /\ me' = me /\ tid' = tid /\ i' = i
            /\ tid \notin {"mutex", "add", "cap"}
            BY <1>8, ConstantsAssumption DEF Register, Goto, alarm, AlarmHolds
      <2>2. me[t] \in live /\ me[t] \notin Registered
            BY <2>1 DEF CallsLive, Registered
      <2>3. \A u \in Threads : u # t /\ me[u] = me[t] => pc[u] = "idle"
            BY <2>1 DEF Exclusive
      <2>4. CASE live' = live \ {me[t]} /\ pos' = pos /\ job' = job
            <3>1. Registered' = Registered
                  BY <2>1, <2>2, <2>4 DEF Registered, TypeOK
            <3> QED
                BY <2>1, <2>4, <3>1 DEF SlotsAgree
      <2>5. CASE /\ \E s \in Slots : /\ job[s] = None
                                  /\ pos' = [pos EXCEPT ![me[t]] = s]
                                  /\ job' = [job EXCEPT ![s] = me[t]]
                 /\ live' = live
            <3>1. Registered' = Registered \cup {me[t]}
                  BY <2>1, <2>2, <2>3, <2>5 DEF Registered, TypeOK
            <3>2. PICK s \in Slots : /\ job[s] = None
                                    /\ pos' = [pos EXCEPT ![me[t]] = s]
                                    /\ job' = [job EXCEPT ![s] = me[t]]
                  BY <2>5
            <3>3. \A r \in Slots : job[r] # me[t]
                  BY <2>2, ConstantsAssumption DEF SlotsAgree, TypeOK
            <3>4. ASSUME NEW b \in Registered' PROVE job'[pos'[b]] = b
                  BY <2>2, <3>1, <3>2, ConstantsAssumption
                     DEF SlotsAgree, TypeOK, Registered
            <3>5. ASSUME NEW r \in Slots, job'[r] # None
                  PROVE  job'[r] \in Registered' /\ pos'[job'[r]] = r
                  BY <2>2, <3>1, <3>2, <3>3, <3>5, ConstantsAssumption
                     DEF SlotsAgree, TypeOK
            <3> QED
                BY <2>1, <3>4, <3>5 DEF SlotsAgree
      <2> QED
          BY <1>8, <2>4, <2>5, RegisterCases
<1>9. ASSUME NEW t \in Threads, NEW b \in Buckets, NEW n \in Sizes, Call(t, b, n, "fetch")
      PROVE  SlotsAgree'
      <2>1. Registered' = Registered
            BY <1>9 DEF Call, Goto, alarm, fields, Registered, TypeOK
      <2> QED
          BY <1>9, <2>1 DEF Call, Goto, alarm, fields, SlotsAgree
<1>10. ASSUME NEW t \in Threads, NEW b \in Buckets, NEW n \in Sizes, Call(t, b, n, "return")
      PROVE  SlotsAgree'
      <2>1. Registered' = Registered
            BY <1>10 DEF Call, Goto, alarm, fields, Registered, TypeOK
      <2> QED
          BY <1>10, <2>1 DEF Call, Goto, alarm, fields, SlotsAgree
<1>11. ASSUME NEW t \in Threads, LockFetch(t)
      PROVE  SlotsAgree'
      <2>1. Registered' = Registered
            BY <1>11 DEF LockFetch, Lock, Goto, alarm, fields, Registered, TypeOK
      <2> QED
          BY <1>11, <2>1 DEF LockFetch, Lock, Goto, alarm, fields, SlotsAgree
<1>12. ASSUME NEW t \in Threads, LockReturn(t)
      PROVE  SlotsAgree'
      <2>1. Registered' = Registered
            BY <1>12 DEF LockReturn, Lock, Goto, alarm, fields, Registered, TypeOK
      <2> QED
          BY <1>12, <2>1 DEF LockReturn, Lock, Goto, alarm, fields, SlotsAgree
<1>13. ASSUME NEW t \in Threads, FetchWaits(t)
      PROVE  SlotsAgree'
      <2>1. Registered' = Registered
            BY <1>13 DEF FetchWaits, Goto, alarm, fields, Registered, TypeOK
      <2> QED
          BY <1>13, <2>1 DEF FetchWaits, Goto, alarm, fields, SlotsAgree
<1>14. ASSUME NEW t \in Threads, FetchTakes(t)
      PROVE  SlotsAgree'
      <2>1. Registered' = Registered
            BY <1>14 DEF FetchTakes, Goto, alarm, Registered, TypeOK
      <2> QED
          BY <1>14, <2>1 DEF FetchTakes, Goto, alarm, SlotsAgree
<1>15. ASSUME NEW t \in Threads, Gives(t)
      PROVE  SlotsAgree'
      <2>1. Registered' = Registered
            BY <1>15 DEF Gives, Goto, alarm, Registered, TypeOK
      <2> QED
          BY <1>15, <2>1 DEF Gives, Goto, alarm, SlotsAgree
<1>16. ASSUME NEW t \in Threads, Cuts(t)
      PROVE  SlotsAgree'
      BY <1>16, ConstantsAssumption DEF Cuts, Broadcast, Capped, Completes,
          alarm, SlotsAgree, Registered, AlarmHolds, CallsLive, Exclusive,
          TypeOK, Slots, Rates, Sizes, AlarmPoints, Points, CallPoints,
          FetchPoints, ReturnPoints
<1>17. ASSUME NEW t \in Threads, SpuriousWakeup(t)
      PROVE  SlotsAgree'
      <2>1. Registered' = Registered
            BY <1>17 DEF SpuriousWakeup, Goto, alarm, Registered, TypeOK
      <2> QED
          BY <1>17, <2>1 DEF SpuriousWakeup, alarm, fields, SlotsAgree
<1>18. ASSUME NEW t \in Threads, NEW b \in Buckets, Destroy(t, b)
      PROVE  SlotsAgree'
      <2>1. Registered' = Registered
            BY <1>18 DEF Destroy, Goto, alarm, fields, Registered, TypeOK
      <2> QED
          BY <1>18, <2>1 DEF Destroy, Goto, alarm, fields, SlotsAgree
<1>19. ASSUME NEW t \in Threads, Unlist(t)
      PROVE  SlotsAgree'
      <2>1. /\ pc[t] = "unlist" /\ pc' = [pc EXCEPT ![t] = "free"]
            /\ me' = me /\ tid' = tid /\ i' = i /\ live' = live /\ pos' = pos
            /\ job' = [job EXCEPT ![pos[me[t]]] = None]
            /\ tid \notin {"mutex", "add", "cap"}
            BY <1>19, ConstantsAssumption DEF Unlist, Goto, alarm, fields, AlarmHolds
      <2>2. me[t] \in Registered
            BY <2>1 DEF CallsLive, Exclusive, Registered
      <2>3. Registered' = Registered \ {me[t]}
            BY <2>1 DEF Registered, TypeOK
      <2>4. ASSUME NEW b \in Registered' PROVE job'[pos'[b]] = b
            BY <2>1, <2>2, <2>3 DEF SlotsAgree, TypeOK, Registered
      <2>5. ASSUME NEW r \in Slots, job'[r] # None
            PROVE  job'[r] \in Registered' /\ pos'[job'[r]] = r
            BY <2>1, <2>2, <2>3, <2>5 DEF SlotsAgree, TypeOK
      <2> QED
          BY <2>1, <2>4, <2>5 DEF SlotsAgree
<1>20. ASSUME NEW t \in Threads, Free(t)
      PROVE  SlotsAgree'
      BY <1>20, ConstantsAssumption DEF Free, Goto, fields, alarm, history,
          SlotsAgree, Registered, AlarmHolds, CallsLive, Exclusive, TypeOK,
          Slots, Rates, Sizes, AlarmPoints, Points, CallPoints, FetchPoints,
          ReturnPoints
<1>21. CASE UNCHANGED vars
      BY <1>21 DEF vars, fields, alarm, callers, history, SlotsAgree,
          Registered, AlarmHolds, CallsLive, Exclusive, TypeOK, Slots, Rates,
          Sizes, AlarmPoints, Points, CallPoints, FetchPoints, ReturnPoints
<1>22. ASSUME NEW t \in Threads, ModuleLoadFails(t)
      PROVE  SlotsAgree'
      BY <1>22, ConstantsAssumption DEF ModuleLoadFails, fields, callers, history,
          SlotsAgree, Registered, AlarmHolds, CallsLive, Exclusive, TypeOK,
          Slots, Rates, Sizes, AlarmPoints, Points, CallPoints, FetchPoints,
          ReturnPoints
<1> QED
      BY <1>1, <1>2, <1>3, <1>4, <1>5, <1>6, <1>7, <1>8, <1>9, <1>10, <1>11,
          <1>12, <1>13, <1>14, <1>15, <1>16, <1>17, <1>18, <1>19, <1>20, <1>21, <1>22
          DEF Next, Exited, AlarmStep, CallerStep, Section

(* A section that finds more than brust tokens is the one that cuts them.   *)
LEMMA TokensNext ==
    ASSUME TypeOK, Holders, Tokens, SlotsAgree, [Next]_vars
    PROVE  Tokens'
<1>1. CASE AlarmLocks
      BY <1>1, ConstantsAssumption DEF AlarmLocks, fields, callers, history,
          Tokens, Holders, TypeOK, Slots, Rates, Sizes, AlarmPoints, Points,
          CallPoints, FetchPoints, ReturnPoints
<1>2. CASE AlarmLooks
      BY <1>2, ConstantsAssumption DEF AlarmLooks, fields, callers, history,
          Tokens, Holders, TypeOK, Slots, Rates, Sizes, AlarmPoints, Points,
          CallPoints, FetchPoints, ReturnPoints
<1>3. CASE AlarmMutex
      BY <1>3, ConstantsAssumption DEF AlarmMutex, fields, callers, history,
          Tokens, Holders, TypeOK, Slots, Rates, Sizes, AlarmPoints, Points,
          CallPoints, FetchPoints, ReturnPoints
<1>4. CASE AlarmAdds
      BY <1>4, ConstantsAssumption DEF AlarmAdds, callers, history, Tokens,
          Holders, TypeOK, Slots, Rates, Sizes, AlarmPoints, Points,
          CallPoints, FetchPoints, ReturnPoints
<1>5. CASE AlarmCaps
      BY <1>5, ConstantsAssumption DEF AlarmCaps, Broadcast, Capped, history,
          Tokens, Holders, TypeOK, Slots, Rates, Sizes, AlarmPoints, Points,
          CallPoints, FetchPoints, ReturnPoints
<1>6. CASE AlarmUnlocks
      BY <1>6, ConstantsAssumption DEF AlarmUnlocks, fields, callers, history,
          Tokens, Holders, TypeOK, Slots, Rates, Sizes, AlarmPoints, Points,
          CallPoints, FetchPoints, ReturnPoints
<1>7. ASSUME NEW t \in Threads, New(t)
      PROVE  Tokens'
      BY <1>7, ConstantsAssumption DEF New, Goto, history, Tokens, Holders,
          TypeOK, Slots, Rates, Sizes, AlarmPoints, Points, CallPoints,
          FetchPoints, ReturnPoints
<1>8. ASSUME NEW t \in Threads, Register(t)
      PROVE  Tokens'
      <2>1. live' \subseteq live
            BY <1>8, RegisterCases
      <2>2. /\ token' = token /\ brust' = brust /\ mut' = mut /\ tid' = tid
            /\ pc[t] = "register" /\ pc' = [pc EXCEPT ![t] = "idle"]
            BY <1>8 DEF Register, Goto, alarm
      <2> QED
          BY <2>1, <2>2 DEF Tokens, TypeOK
<1>9. ASSUME NEW t \in Threads, NEW b \in Buckets, NEW n \in Sizes, Call(t, b, n, "fetch")
      PROVE  Tokens'
      BY <1>9, ConstantsAssumption DEF Call, Goto, Usable, fields, alarm,
          history, Tokens, Holders, TypeOK, Slots, Rates, Sizes, AlarmPoints,
          Points, CallPoints, FetchPoints, ReturnPoints
<1>10. ASSUME NEW t \in Threads, NEW b \in Buckets, NEW n \in Sizes, Call(t, b, n, "return")
      PROVE  Tokens'
      BY <1>10, ConstantsAssumption DEF Call, Goto, Usable, fields, alarm,
          history, Tokens, Holders, TypeOK, Slots, Rates, Sizes, AlarmPoints,
          Points, CallPoints, FetchPoints, ReturnPoints
<1>11. ASSUME NEW t \in Threads, LockFetch(t)
      PROVE  Tokens'
      BY <1>11, ConstantsAssumption DEF LockFetch, Lock, Goto, fields, alarm,
          history, Tokens, Holders, TypeOK, Slots, Rates, Sizes, AlarmPoints,
          Points, CallPoints, FetchPoints, ReturnPoints
<1>12. ASSUME NEW t \in Threads, LockReturn(t)
      PROVE  Tokens'
      BY <1>12, ConstantsAssumption DEF LockReturn, Lock, Goto, fields, alarm,
          history, Tokens, Holders, TypeOK, Slots, Rates, Sizes, AlarmPoints,
          Points, CallPoints, FetchPoints, ReturnPoints
<1>13. ASSUME NEW t \in Threads, FetchWaits(t)
      PROVE  Tokens'
      BY <1>13, ConstantsAssumption DEF FetchWaits, Goto, fields, alarm,
          history, Tokens, Holders, TypeOK, Slots, Rates, Sizes, AlarmPoints,
          Points, CallPoints, FetchPoints, ReturnPoints
<1>14. ASSUME NEW t \in Threads, FetchTakes(t)
      PROVE  Tokens'
      BY <1>14, ConstantsAssumption DEF FetchTakes, Goto, Completes, alarm,
          Tokens, Holders, TypeOK, Slots, Rates, Sizes, AlarmPoints, Points,
          CallPoints, FetchPoints, ReturnPoints
<1>15. ASSUME NEW t \in Threads, Gives(t)
      PROVE  Tokens'
      BY <1>15, ConstantsAssumption DEF Gives, Goto, alarm, history, Tokens,
          Holders, TypeOK, Slots, Rates, Sizes, AlarmPoints, Points,
          CallPoints, FetchPoints, ReturnPoints
<1>16. ASSUME NEW t \in Threads, Cuts(t)
      PROVE  Tokens'
      BY <1>16, ConstantsAssumption DEF Cuts, Broadcast, Capped, Completes,
          alarm, Tokens, Holders, TypeOK, Slots, Rates, Sizes, AlarmPoints,
          Points, CallPoints, FetchPoints, ReturnPoints
<1>17. ASSUME NEW t \in Threads, SpuriousWakeup(t)
      PROVE  Tokens'
      BY <1>17, ConstantsAssumption DEF SpuriousWakeup, Goto, fields, alarm,
          history, Tokens, Holders, TypeOK, Slots, Rates, Sizes, AlarmPoints,
          Points, CallPoints, FetchPoints, ReturnPoints
<1>18. ASSUME NEW t \in Threads, NEW b \in Buckets, Destroy(t, b)
      PROVE  Tokens'
      BY <1>18, ConstantsAssumption DEF Destroy, Goto, Usable, fields, alarm,
          history, Tokens, Holders, TypeOK, Slots, Rates, Sizes, AlarmPoints,
          Points, CallPoints, FetchPoints, ReturnPoints
<1>19. ASSUME NEW t \in Threads, Unlist(t)
      PROVE  Tokens'
      BY <1>19, ConstantsAssumption DEF Unlist, Goto, fields, alarm, history,
          Tokens, Holders, TypeOK, Slots, Rates, Sizes, AlarmPoints, Points,
          CallPoints, FetchPoints, ReturnPoints
<1>20. ASSUME NEW t \in Threads, Free(t)
      PROVE  Tokens'
      BY <1>20, ConstantsAssumption DEF Free, Goto, fields, alarm, history,
          Tokens, Holders, TypeOK, Slots, Rates, Sizes, AlarmPoints, Points,
          CallPoints, FetchPoints, ReturnPoints
<1>21. CASE UNCHANGED vars
      BY <1>21 DEF vars, fields, alarm, callers, history, Tokens, Holders,
          TypeOK, Slots, Rates, Sizes, AlarmPoints, Points, CallPoints,
          FetchPoints, ReturnPoints
<1>22. ASSUME NEW t \in Threads, ModuleLoadFails(t)
      PROVE  Tokens'
      BY <1>22, ConstantsAssumption DEF ModuleLoadFails, fields, callers, history,
          Tokens, Holders, TypeOK, Slots, Rates, Sizes, AlarmPoints, Points,
          CallPoints, FetchPoints, ReturnPoints
<1> QED
      BY <1>1, <1>2, <1>3, <1>4, <1>5, <1>6, <1>7, <1>8, <1>9, <1>10, <1>11,
          <1>12, <1>13, <1>14, <1>15, <1>16, <1>17, <1>18, <1>19, <1>20, <1>21, <1>22
          DEF Next, Exited, AlarmStep, CallerStep, Section

(* A fetch that gets past the wait takes at least one token.                *)
LEMMA FetchNext ==
    ASSUME TypeOK, FetchTakesSome, [Next]_vars
    PROVE  FetchTakesSome'
<1>1. CASE AlarmStep
      BY <1>1, ConstantsAssumption DEF AlarmStep, AlarmLocks, fields, callers,
          history, AlarmLooks, AlarmMutex, AlarmAdds, AlarmCaps, Broadcast,
          Capped, AlarmUnlocks, FetchTakesSome, TypeOK, Slots, Rates, Sizes,
          AlarmPoints, Points, CallPoints, FetchPoints, ReturnPoints
<1>2. ASSUME NEW t \in Threads, CallerStep(t)
      PROVE  FetchTakesSome'
      <2>1. CASE New(t)
            BY <2>1, ConstantsAssumption DEF New, Goto, history,
                FetchTakesSome, TypeOK, Slots, Rates, Sizes, AlarmPoints,
                Points, CallPoints, FetchPoints, ReturnPoints
      <2>2. CASE Register(t) \/ Unlist(t) \/ Free(t)
            BY <2>2, ConstantsAssumption DEF Register, Goto, FreeSlots, alarm,
                history, Unlist, fields, Free, FetchTakesSome, TypeOK, Slots,
                Rates, Sizes, AlarmPoints, Points, CallPoints, FetchPoints,
                ReturnPoints
      <2>3. CASE \/ (\E b \in Buckets, n \in Sizes : Call(t, b, n, "fetch"))
                 \/ (\E b \in Buckets, n \in Sizes : Call(t, b, n, "return"))
                 \/ (\E b \in Buckets : Destroy(t, b))
            BY <2>3, ConstantsAssumption DEF Call, Goto, Usable, fields,
                alarm, history, Destroy, FetchTakesSome, TypeOK, Slots, Rates,
                Sizes, AlarmPoints, Points, CallPoints, FetchPoints,
                ReturnPoints
      <2>4. CASE LockFetch(t) \/ LockReturn(t) \/ SpuriousWakeup(t)
            BY <2>4, ConstantsAssumption DEF LockFetch, Lock, Goto, fields,
                alarm, history, LockReturn, SpuriousWakeup, FetchTakesSome,
                TypeOK, Slots, Rates, Sizes, AlarmPoints, Points, CallPoints,
                FetchPoints, ReturnPoints
      <2>5. CASE FetchWaits(t) \/ FetchTakes(t) \/ Gives(t) \/ Cuts(t)
            BY <2>5, ConstantsAssumption DEF FetchWaits, Goto, fields, alarm,
                history, FetchTakes, Completes, Gives, Cuts, Broadcast,
                Capped, FetchTakesSome, TypeOK, Slots, Rates, Sizes,
                AlarmPoints, Points, CallPoints, FetchPoints, ReturnPoints
      <2>6. CASE ModuleLoadFails(t)
            BY <2>6, ConstantsAssumption DEF ModuleLoadFails, fields, callers, history,
                FetchTakesSome, TypeOK, Slots, Rates, Sizes, AlarmPoints,
                Points, CallPoints, FetchPoints, ReturnPoints
      <2> QED
          BY <1>2, <2>1, <2>2, <2>3, <2>4, <2>5, <2>6 DEF CallerStep, Section
<1>3. CASE UNCHANGED vars
      BY <1>3 DEF vars, fields, alarm, callers, history, FetchTakesSome,
          TypeOK, Slots, Rates, Sizes, AlarmPoints, Points, CallPoints,
          FetchPoints, ReturnPoints
<1> QED
    BY <1>1, <1>2, <1>3 DEF Next, Exited

-----------------------------------------------------------------------------
(* Inv is inductive.                                                        *)
LEMMA InvNext == Inv /\ [Next]_vars => Inv'
BY TypeNext, AlarmHoldsNext, CallsLiveNext, ExclusiveNext, HoldersNext, SlotsNext,
   TokensNext, FetchNext
   DEF Inv

(* ... and therefore holds in every reachable state.                        *)
LEMMA Invariance == Safety => []Inv
<1>1. Init => Inv
      BY InvInit
<1>2. Inv /\ [Next]_vars => Inv'
      BY InvNext
<1> QED
    BY <1>1, <1>2, PTL DEF Safety

(* The variables have their types in every state.                           *)
THEOREM TypeCorrect == Safety => []TypeOK
<1>1. Inv => TypeOK
      BY DEF Inv
<1> QED
    BY <1>1, Invariance, PTL

(* mytbf_init, mytbf_destory and the alarm thread agree on the table: every *)
(* bucket in use has its slot to itself, and the alarm thread never follows *)
(* a slot to a bucket that was freed.                                       *)
THEOREM TableIsTrue == Safety => []SlotsAgree
<1>1. Inv => SlotsAgree
      BY DEF Inv
<1> QED
    BY <1>1, Invariance, PTL

(* A free mutex has nobody between an addition and its cap.                 *)
LEMMA FreeMeansInRange == Inv => TokensInRange
<1> SUFFICES ASSUME Inv, NEW b \in live, mut[b] = None
             PROVE  token[b] \in 0 .. brust[b]
    BY DEF TokensInRange
<1>1. b \in Buckets /\ token[b] \in Int /\ brust[b] \in Int
      BY DEF Inv, TypeOK, Rates
<1>2. token[b] >= 0 /\ token[b] <= brust[b]
      BY ConstantsAssumption DEF Inv, Tokens
<1> QED
    BY <1>1, <1>2

(* thr_alrm, mytbf_fetchtocken and mytbf_returntoken leave between 0 and    *)
(* brust tokens in a bucket, whatever the rates and sizes.                  *)
THEOREM TokensStayInRange == Safety => []TokensInRange
BY Invariance, FreeMeansInRange, PTL

(* No fetch returns without having taken a token, spurious wakeups or not.  *)
THEOREM FetchesTakeTokens == Safety => []FetchTakesSome
<1>1. Inv => FetchTakesSome
      BY DEF Inv
<1> QED
    BY <1>1, Invariance, PTL
=============================================================================
