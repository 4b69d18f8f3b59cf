---------------------------- MODULE TokenBucket ----------------------------
(***************************************************************************)
(* BroadCast/lib/mytbf.cpp: token buckets shared by threads.  Once a       *)
(* second the alarm thread walks the table job under mut_job and, under    *)
(* each bucket's own mutex, adds cps tokens, at most up to brust; fetchers *)
(* wait on the bucket's condition variable while it is empty.              *)
(*                                                                         *)
(* Both mutexes are modelled, held from one step to the next, because the  *)
(* alarm thread takes the second while it holds the first.  A wait may end *)
(* without a broadcast, as POSIX allows.  The callers of a bucket obey the *)
(* rules the interface implies, none of which the code checks: a bucket is *)
(* destroyed when no other call on it is under way, and not used afterwards*)
(* (one that did would touch freed memory); cps, brust and the sizes are at*)
(* least 1.  A bucket made with less never holds a token (or only those    *)
(* that were returned to it), and a fetch from it never comes back.        *)
(***************************************************************************)
EXTENDS Integers, FiniteSets, FiniteSetsExt

CONSTANTS Buckets,    \* addresses operator new can return
          Threads,    \* the threads that call the module
          None,       \* nullptr, and the owner of a free mutex
          MYTBF_MAX,  \* the length of job
          MaxRate,    \* bound: cps and brust
          MaxSize     \* bound: the size of one fetch or return

Alarm == "thr_alrm"

ASSUME ConstantsAssumption ==
    /\ None \notin Buckets /\ None \notin Threads
    /\ Alarm \notin Threads /\ Alarm # None
    /\ MYTBF_MAX \in Nat \ {0}
    /\ MaxRate \in Nat \ {0} /\ MaxSize \in Nat \ {0}

Slots == 0 .. MYTBF_MAX - 1
Rates == 1 .. MaxRate
Sizes == 1 .. MaxSize

VARIABLES
    live,           \* buckets that exist
    cps, brust, token, pos,   \* their fields
    mut,            \* the thread that holds each bucket's mutex
    job,            \* the table
    mut_job,        \* the thread that holds its mutex
    tid,            \* where the alarm thread is
    i,              \* the slot it has reached
    pc,             \* where each thread is
    me, size,       \* the arguments of its call
    completed,      \* history, one bit: flips when a call on the bucket ends
    emptyHanded     \* history: some fetch ended without a token

fields == <<cps, brust, token, pos>>
alarm == <<tid, i>>
callers == <<pc, me, size>>
history == <<completed, emptyHanded>>
vars == <<live, fields, mut, job, mut_job, alarm, callers, history>>

AlarmPoints == {"none", "exited", "lock", "look", "mutex", "add", "cap", "unlock"}
FetchPoints == {"fetch", "check", "wait"}
ReturnPoints == {"return", "give", "cut"}
CallPoints == FetchPoints \cup ReturnPoints
Points == CallPoints \cup {"idle", "register", "unlist", "free"}

TypeOK ==
    /\ live \subseteq Buckets
    /\ cps \in [Buckets -> Rates] /\ brust \in [Buckets -> Rates]
    /\ token \in [Buckets -> Int]
    /\ pos \in [Buckets -> Slots]
    /\ mut \in [Buckets -> Threads \cup {Alarm, None}]
    /\ job \in [Slots -> Buckets \cup {None}]
    /\ mut_job \in {Alarm, None}
    /\ tid \in AlarmPoints
    /\ i \in 0 .. MYTBF_MAX
    /\ tid \in {"mutex", "add", "cap"} => i \in Slots
    /\ pc \in [Threads -> Points]
    /\ me \in [Threads -> Buckets \cup {None}]
    /\ \A t \in Threads : pc[t] # "idle" => me[t] \in Buckets
    /\ size \in [Threads -> Sizes]
    /\ completed \in [Buckets -> BOOLEAN]
    /\ emptyHanded \in BOOLEAN

Init ==
    /\ live = {}
    /\ cps = [b \in Buckets |-> 1] /\ brust = [b \in Buckets |-> 1]
    /\ token = [b \in Buckets |-> 0]
    /\ pos = [b \in Buckets |-> 0]
    /\ mut = [b \in Buckets |-> None]
    /\ job = [s \in Slots |-> None]
    /\ mut_job = None
    /\ tid = "none" /\ i = 0
    /\ pc = [t \in Threads |-> "idle"]
    /\ me = [t \in Threads |-> None]
    /\ size = [t \in Threads |-> 1]
    /\ completed = [b \in Buckets |-> FALSE]
    /\ emptyHanded = FALSE

Goto(t, point) == pc' = [pc EXCEPT ![t] = point]

(* pthread_cond_broadcast: the waiters go on to lock the mutex again.       *)
Broadcast(b) ==
    [t \in Threads |-> IF pc[t] = "wait" /\ me[t] = b THEN "fetch" ELSE pc[t]]

Capped(b) == IF token[b] > brust[b] THEN brust[b] ELSE token[b]

Completes(t) == completed' = [completed EXCEPT ![me[t]] = ~@]

-----------------------------------------------------------------------------
(* thr_alrm. *)

(* Mutant: mut_job is not taken.                                            *)
AlarmLocksNothing ==
    /\ tid = "lock"
    /\ mut_job = None
    /\ tid' = "look" /\ i' = 0
    /\ UNCHANGED <<live, fields, mut, job, mut_job, callers, history>>

AlarmLocks ==
    /\ tid = "lock"
    /\ mut_job = None
    /\ mut_job' = Alarm
    /\ tid' = "look" /\ i' = 0
    /\ UNCHANGED <<live, fields, mut, job, callers, history>>

AlarmLooks ==
    /\ tid = "look"
    /\ \/ i \notin Slots /\ tid' = "unlock" /\ UNCHANGED i
       \/ i \in Slots /\ job[i] # None /\ tid' = "mutex" /\ UNCHANGED i
       \/ i \in Slots /\ job[i] = None /\ i' = i + 1 /\ UNCHANGED tid
    /\ UNCHANGED <<live, fields, mut, job, mut_job, callers, history>>

AlarmMutex ==
    /\ tid = "mutex"
    /\ mut[job[i]] = None
    /\ mut' = [mut EXCEPT ![job[i]] = Alarm]
    /\ tid' = "add"
    /\ UNCHANGED <<live, fields, job, mut_job, i, callers, history>>

AlarmAdds ==
    /\ tid = "add"
    /\ token' = [token EXCEPT ![job[i]] = @ + cps[job[i]]]
    /\ tid' = "cap"
    /\ UNCHANGED <<live, cps, brust, pos, mut, job, mut_job, i, callers, history>>

(* Mutant: tokens pile up beyond brust.                                     *)
AlarmWakesOnly ==
    /\ tid = "cap"
    /\ pc' = Broadcast(job[i])
    /\ mut' = [mut EXCEPT ![job[i]] = None]
    /\ tid' = "look" /\ i' = i + 1
    /\ UNCHANGED <<live, fields, job, mut_job, me, size, history>>

(* Mutant: no broadcast.                                                    *)
AlarmCapsOnly ==
    /\ tid = "cap"
    /\ token' = [token EXCEPT ![job[i]] = Capped(job[i])]
    /\ mut' = [mut EXCEPT ![job[i]] = None]
    /\ tid' = "look" /\ i' = i + 1
    /\ UNCHANGED <<live, cps, brust, pos, job, mut_job, callers, history>>

(* Cap, broadcast and unlock.                                               *)
AlarmCaps ==
    /\ tid = "cap"
    /\ token' = [token EXCEPT ![job[i]] = Capped(job[i])]
    /\ pc' = Broadcast(job[i])
    /\ mut' = [mut EXCEPT ![job[i]] = None]
    /\ tid' = "look" /\ i' = i + 1
    /\ UNCHANGED <<live, cps, brust, pos, job, mut_job, me, size, history>>

(* ... and sleep(1), which always ends.                                     *)
AlarmUnlocks ==
    /\ tid = "unlock"
    /\ mut_job' = None
    /\ tid' = "lock"
    /\ UNCHANGED <<live, fields, mut, job, i, callers, history>>

AlarmStep == AlarmLocks \/ AlarmLooks \/ AlarmMutex \/ AlarmAdds \/ AlarmCaps
               \/ AlarmUnlocks

-----------------------------------------------------------------------------
(* mytbf_init: the first one starts the alarm thread.                       *)
New(t) ==
    /\ pc[t] = "idle"
    /\ tid # "exited"
    /\ \E b \in Buckets \ live, rate \in Rates, most \in Rates :
         /\ live' = live \cup {b}
         /\ cps' = [cps EXCEPT ![b] = rate]
         /\ brust' = [brust EXCEPT ![b] = most]
         /\ token' = [token EXCEPT ![b] = 0]
         /\ mut' = [mut EXCEPT ![b] = None]
         /\ me' = [me EXCEPT ![t] = b]
    /\ Goto(t, "register")
    /\ tid' = IF tid = "none" THEN "lock" ELSE tid
    /\ UNCHANGED <<pos, job, mut_job, i, size, history>>

(* module_load, when pthread_create fails: exit.                            *)
ModuleLoadFails(t) ==
    /\ pc[t] = "idle"
    /\ tid = "none"
    /\ tid' = "exited"
    /\ UNCHANGED <<live, fields, mut, job, mut_job, i, callers, history>>

(* Nothing is left to do.                                                   *)
Exited ==
    /\ tid = "exited"
    /\ UNCHANGED vars

FreeSlots == {s \in Slots : job[s] = None}

(* Mutant: a full table yields MYTBF_MAX, where the search ended, not -1.   *)
RegisterPastEnd(t) ==
    /\ pc[t] = "register"
    /\ mut_job = None
    /\ \E s \in IF FreeSlots = {} THEN {MYTBF_MAX} ELSE FreeSlots :
         /\ \A r \in FreeSlots : s <= r
         /\ pos' = [pos EXCEPT ![me[t]] = s]
         /\ job' = [job EXCEPT ![s] = me[t]]
    /\ Goto(t, "idle")
    /\ UNCHANGED <<live, cps, brust, token, mut, mut_job, alarm, me, size, history>>

(* The first free slot, or nullptr when there is none.                      *)
Register(t) ==
    /\ pc[t] = "register"
    /\ mut_job = None
    /\ \/ /\ FreeSlots # {}
          /\ \E s \in FreeSlots :
               /\ \A r \in FreeSlots : s <= r
               /\ pos' = [pos EXCEPT ![me[t]] = s]
               /\ job' = [job EXCEPT ![s] = me[t]]
          /\ UNCHANGED live
       \/ /\ FreeSlots = {}
          /\ live' = live \ {me[t]}
          /\ UNCHANGED <<pos, job>>
    /\ Goto(t, "idle")
    /\ UNCHANGED <<cps, brust, token, mut, mut_job, alarm, me, size, history>>

(* A bucket that mytbf_init returned and nobody is destroying.              *)
Usable(b) == b \in live /\ \A t \in Threads :
                 me[t] = b => pc[t] \notin {"register", "unlist", "free"}

Call(t, b, n, point) ==
    /\ pc[t] = "idle"
    /\ Usable(b)
    /\ me' = [me EXCEPT ![t] = b]
    /\ size' = [size EXCEPT ![t] = n]
    /\ Goto(t, point)
    /\ UNCHANGED <<live, fields, mut, job, mut_job, alarm, history>>

Lock(t, from, to) ==
    /\ pc[t] = from
    /\ mut[me[t]] = None
    /\ mut' = [mut EXCEPT ![me[t]] = t]
    /\ Goto(t, to)
    /\ UNCHANGED <<live, fields, job, mut_job, alarm, me, size, history>>

LockFetch(t) == Lock(t, "fetch", "check")
LockReturn(t) == Lock(t, "return", "give")

(* mytbf_fetchtocken: the wait gives the mutex back ...                     *)
FetchWaits(t) ==
    /\ pc[t] = "check"
    /\ token[me[t]] <= 0
    /\ mut' = [mut EXCEPT ![me[t]] = None]
    /\ Goto(t, "wait")
    /\ UNCHANGED <<live, fields, job, mut_job, alarm, me, size, history>>

(* Mutant: the condition is not tested after the wait.                      *)
FetchTakesAnything(t) ==
    /\ pc[t] = "check"
    /\ LET n == IF token[me[t]] > size[t] THEN size[t] ELSE token[me[t]]
       IN  /\ token' = [token EXCEPT ![me[t]] = @ - n]
           /\ emptyHanded' = (emptyHanded \/ n < 1)
    /\ mut' = [mut EXCEPT ![me[t]] = None]
    /\ Completes(t)
    /\ Goto(t, "idle")
    /\ UNCHANGED <<live, cps, brust, pos, job, mut_job, alarm, me, size>>

(* ... and a fetch that finds tokens takes as many as it may.               *)
FetchTakes(t) ==
    /\ pc[t] = "check"
    /\ token[me[t]] > 0
    /\ LET n == IF token[me[t]] > size[t] THEN size[t] ELSE token[me[t]]
       IN  /\ token' = [token EXCEPT ![me[t]] = @ - n]
           /\ emptyHanded' = (emptyHanded \/ n < 1)
    /\ mut' = [mut EXCEPT ![me[t]] = None]
    /\ Completes(t)
    /\ Goto(t, "idle")
    /\ UNCHANGED <<live, cps, brust, pos, job, mut_job, alarm, me, size>>

SpuriousWakeup(t) ==
    /\ pc[t] = "wait"
    /\ Goto(t, "fetch")
    /\ UNCHANGED <<live, fields, mut, job, mut_job, alarm, me, size, history>>

(* mytbf_returntoken.                                                       *)
Gives(t) ==
    /\ pc[t] = "give"
    /\ token' = [token EXCEPT ![me[t]] = @ + size[t]]
    /\ Goto(t, "cut")
    /\ UNCHANGED <<live, cps, brust, pos, mut, job, mut_job, alarm, me, size, history>>

Cuts(t) ==
    /\ pc[t] = "cut"
    /\ token' = [token EXCEPT ![me[t]] = Capped(me[t])]
    /\ pc' = [Broadcast(me[t]) EXCEPT ![t] = "idle"]
    /\ mut' = [mut EXCEPT ![me[t]] = None]
    /\ Completes(t)
    /\ UNCHANGED <<live, cps, brust, pos, job, mut_job, alarm, me, size, emptyHanded>>

(* mytbf_destory.                                                           *)
Destroy(t, b) ==
    /\ pc[t] = "idle"
    /\ Usable(b)
    /\ \A u \in Threads : me[u] = b => pc[u] = "idle"
    /\ me' = [me EXCEPT ![t] = b]
    /\ Goto(t, "unlist")
    /\ UNCHANGED <<live, fields, mut, job, mut_job, alarm, size, history>>

Unlist(t) ==
    /\ pc[t] = "unlist"
    /\ mut_job = None
    /\ job' = [job EXCEPT ![pos[me[t]]] = None]
    /\ Goto(t, "free")
    /\ UNCHANGED <<live, fields, mut, mut_job, alarm, me, size, history>>

Free(t) ==
    /\ pc[t] = "free"
    /\ live' = live \ {me[t]}
    /\ Goto(t, "idle")
    /\ UNCHANGED <<fields, mut, job, mut_job, alarm, me, size, history>>

Section(t) == FetchWaits(t) \/ FetchTakes(t) \/ Gives(t) \/ Cuts(t)

CallerStep(t) ==
    \/ New(t) \/ ModuleLoadFails(t) \/ Register(t)
    \/ \E b \in Buckets, n \in Sizes :
         Call(t, b, n, "fetch") \/ Call(t, b, n, "return")
    \/ LockFetch(t) \/ LockReturn(t) \/ Section(t) \/ SpuriousWakeup(t)
    \/ \E b \in Buckets : Destroy(t, b)
    \/ Unlist(t) \/ Free(t)

Next == AlarmStep \/ Exited \/ \E t \in Threads : CallerStep(t)

Safety == Init /\ [][Next]_vars

(* The threads run.  A mutex is not withheld for ever from a thread that is *)
(* waiting for it: the alarm thread sleeps a second between its rounds.     *)
Fairness ==
    /\ WF_vars(AlarmStep) /\ SF_vars(AlarmLocks) /\ SF_vars(AlarmMutex)
    /\ \A t \in Threads :
         /\ WF_vars(Section(t)) /\ SF_vars(LockFetch(t)) /\ SF_vars(LockReturn(t))

Spec == Safety /\ Fairness

-----------------------------------------------------------------------------
(* Buckets that are in the table as far as their callers know: registered,  *)
(* and not unlisted by a destroy.                                           *)
Registered == {b \in live : \A t \in Threads :
                   me[t] = b => pc[t] \notin {"register", "free"}}

(* Every registered bucket has the slot it recorded, to itself, and no slot *)
(* leads to a bucket that was destroyed; the bucket the alarm thread works  *)
(* on stays where it is.  It feeds all of them and touches none freed.      *)
SlotsAgree ==
    /\ \A b \in Registered : job[pos[b]] = b
    /\ \A s \in Slots : job[s] # None => job[s] \in Registered /\ pos[job[s]] = s
    /\ tid \in {"mutex", "add", "cap"} => job[i] # None

(* Whoever can lock a bucket finds between 0 and brust tokens in it: no     *)
(* fetch takes more than there are, no wait and no return exceeds the burst.*)
TokensInRange ==
    \A b \in live : mut[b] = None => token[b] \in 0 .. brust[b]

(* The wait may end early, the fetch does not: it never comes back without  *)
(* a token, though another fetcher may have been faster.                    *)
FetchTakesSome == ~emptyHanded

(* A thread whose fetch goes on for ever sees other calls on its bucket     *)
(* complete for ever: as long as somebody waits, tokens flow.               *)
FetchersAreServed ==
    \A t \in Threads, v \in BOOLEAN :
        (pc[t] \in FetchPoints /\ completed[me[t]] = v)
            ~> (pc[t] = "idle" \/ completed[me[t]] # v)
=============================================================================
