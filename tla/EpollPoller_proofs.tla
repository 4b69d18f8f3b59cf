------------------------- MODULE EpollPoller_proofs -------------------------
(***************************************************************************)
(* Proofs about EpollPoller, for any channels and descriptors and any size *)
(* of the event list, and any failure of epoll_ctl.  RegistryAgrees is     *)
(* inductive; NoDangling rests on it and on one fact more: the channel     *)
(* being handled is no longer among those that wait, unless one is active  *)
(* twice, so that the one channel a handler may remove although it is      *)
(* active, its own, is not dereferenced again.                             *)
(***************************************************************************)
EXTENDS EpollPoller, TLAPS

(* NoDangling's second half, and the dispatch loop does not come back to    *)
(* the channel it is handling.                                              *)
Settled ==
    /\ \A e \in rest : Registered(e.ptr) /\ e.ptr # currentActiveChannel_
    /\ Handling => currentActiveChannel_ \in alive

Inv == TypeOK /\ RegistryAgrees /\ (Twice \/ Settled)

-----------------------------------------------------------------------------
(* Before loop() there are no channels.                                     *)
LEMMA InvInit == Init => Inv
<1> SUFFICES ASSUME Init PROVE Inv
    OBVIOUS
<1>1. TypeOK
      BY ConstantsAssumption DEF Init, TypeOK, kNew, kAdded, kDeleted, Ptrs
<1>2. RegistryAgrees
      BY DEF Init, RegistryAgrees
<1>3. Settled
      BY DEF Init, Settled, Handling
<1> QED
    BY <1>1, <1>2, <1>3 DEF Inv

(* Only the active list decides whether a channel is active twice.          *)
LEMMA TwiceKept ==
    ASSUME activeChannel_' = activeChannel_
    PROVE  Twice' <=> Twice
BY DEF Twice

(* EPOLL_CTL_DEL touches one descriptor; when it fails nothing but the      *)
(* record of that changes.                                                  *)
LEMMA ForgetEffect ==
    ASSUME TypeOK, NEW c \in Channels, Forget(c),
           interest[fd_[c]] # None, fd_[c] \notin undeleted
    PROVE  /\ interest' \in [Fds -> {None} \cup [in : BOOLEAN, ptr : Channels]]
           /\ undeleted' \subseteq {f \in Fds : interest'[f] # None}
           /\ \A f \in Fds : f # fd_[c] => interest'[f] = interest[f]
           /\ interest'[fd_[c]] = None \/ fd_[c] \in undeleted'
           /\ undeleted \subseteq undeleted'
<1>1. fd_[c] \in Fds
      BY DEF TypeOK
<1>2. CASE interest' = [interest EXCEPT ![fd_[c]] = None] /\ undeleted' = undeleted
      BY <1>1, <1>2 DEF TypeOK
<1>3. CASE undeleted' = undeleted \cup {fd_[c]} /\ interest' = interest
      BY <1>1, <1>3 DEF TypeOK
<1> QED
    BY <1>2, <1>3 DEF Forget

(* What a channel that is in the kernel's list knows of its descriptor.     *)
LEMMA AddedIsWatched ==
    ASSUME TypeOK, RegistryAgrees, NEW c \in Channels, channels_[fd_[c]] = c,
           index_[c] = kAdded
    PROVE  interest[fd_[c]] # None /\ fd_[c] \notin undeleted
<1>1. fd_[c] \in Fds /\ c # None
      BY ConstantsAssumption DEF TypeOK
<1>2. interest[fd_[c]] = [in |-> events_[c], ptr |-> c] /\ fd_[c] \notin undeleted
      BY <1>1 DEF RegistryAgrees
<1>3. [in |-> events_[c], ptr |-> c] \in [in : BOOLEAN, ptr : Channels]
      BY DEF TypeOK
<1> QED
    BY <1>2, <1>3, ConstantsAssumption

(* Steps keep the types.                                                    *)
LEMMA TypeNext ==
    ASSUME TypeOK, RegistryAgrees, [Next]_vars
    PROVE  TypeOK'
<1> USE DEF kernel
<1>1. CASE EnterPoll
      BY <1>1 DEF EnterPoll, Handling, TypeOK, object, poller, Ptrs
<1>2. CASE Poll
      <2>1. PICK S \in SUBSET ReadyFds :
              \/ /\ activeChannel_' = {[fd |-> f, ptr |-> interest[f].ptr] : f \in S}
                 /\ rest' = activeChannel_'
                 /\ eventListSize' = Grown(Cardinality(S))
                 /\ polling' = FALSE
                 /\ UNCHANGED <<object, channels_, kernel, ready,
                                currentActiveChannel_, died>>
              \/ Dies
            BY <1>2 DEF Poll
      <2>2. CASE Dies
            BY <2>2 DEF Dies, TypeOK, object, poller, dispatch
      <2>3. CASE ~Dies
            <3>1. \A f \in S : [fd |-> f, ptr |-> interest[f].ptr]
                                 \in [fd : Fds, ptr : Channels]
                  BY DEF ReadyFds, Reported, TypeOK
            <3>2. activeChannel_' \subseteq [fd : Fds, ptr : Channels]
                  BY <2>1, <2>3, <3>1
            <3>3. eventListSize' \in Nat \ {0}
                  BY <2>1, <2>3 DEF Grown, TypeOK
            <3>4. currentActiveChannel_ = None
                  BY <1>2 DEF Poll, TypeOK, Ptrs
            <3> QED
                BY <2>1, <2>3, <3>2, <3>3, <3>4 DEF TypeOK, object
      <2> QED
          BY <2>2, <2>3
<1>3. CASE PollTimeout
      BY <1>3 DEF PollTimeout, TypeOK, object, poller, Ptrs
<1>4. CASE HandlerReturns
      BY <1>4 DEF HandlerReturns, TypeOK, object, poller, Ptrs
<1>5. ASSUME NEW e \in rest, HandleEvent(e) PROVE TypeOK'
      <2>1. e \in activeChannel_ /\ e.ptr \in Channels
            BY DEF TypeOK
      <2>2. ready' \in [Fds -> SUBSET {"in", "hup"}]
            BY <1>5, <2>1 DEF HandleEvent, TypeOK
      <2> QED
          BY <1>5, <2>1, <2>2 DEF HandleEvent, TypeOK, object, poller, Ptrs
<1>6. ASSUME NEW c \in Channels, Destroy(c) PROVE TypeOK'
      BY <1>6 DEF Destroy, TypeOK, poller, dispatch, Ptrs
<1>7. ASSUME NEW c \in Channels, Remove(c) PROVE TypeOK'
      <2>1. /\ interest' \in [Fds -> {None} \cup [in : BOOLEAN, ptr : Channels]]
            /\ undeleted' \subseteq {f \in Fds : interest'[f] # None}
            <3>1. CASE index_[c] = kAdded
                  BY <1>7, <3>1, ForgetEffect, AddedIsWatched
                     DEF Remove, RemoveChannel, ForgetIfAdded
            <3>2. CASE index_[c] # kAdded
                  BY <1>7, <3>2 DEF Remove, RemoveChannel, ForgetIfAdded, TypeOK
            <3> QED
                BY <3>1, <3>2
      <2> QED
          BY <1>7, <2>1 DEF Remove, RemoveChannel, TypeOK, dispatch, Ptrs
<1>8. ASSUME NEW c \in Channels, NEW f \in Fds, Create(c, f) PROVE TypeOK'
      BY <1>8 DEF Create, TypeOK, poller, dispatch, Ptrs
<1>9. ASSUME NEW c \in Channels, NEW in \in BOOLEAN, Update(c, in) PROVE TypeOK'
      <2>1. /\ interest' \in [Fds -> {None} \cup [in : BOOLEAN, ptr : Channels]]
            /\ undeleted' \subseteq {f \in Fds : interest'[f] # None}
            <3>1. CASE Control(c, in)
                  <4>1. [in |-> in, ptr |-> c] \in [in : BOOLEAN, ptr : Channels]
                        OBVIOUS
                  <4> QED
                      BY <3>1, <4>1, ConstantsAssumption DEF Control, TypeOK
            <3>2. CASE index_[c] = kAdded /\ Forget(c)
                  <4>1. channels_[fd_[c]] = c
                        BY <1>9, <3>2
                           DEF Update, MayUpdate, RegistryAgrees, kNew, kAdded
                  <4> QED
                      BY <3>2, <4>1, ForgetEffect, AddedIsWatched
            <3> QED
                BY <1>9, <3>1, <3>2 DEF Update, UpdateChannel
      <2>2. index_' \in [Channels -> {kNew, kAdded, kDeleted}]
            BY <1>9 DEF Update, UpdateChannel, TypeOK
      <2> QED
          BY <1>9, <2>1, <2>2 DEF Update, UpdateChannel, TypeOK, dispatch, Ptrs
<1>10. ASSUME NEW f \in Fds, CloseAndReuse(f) PROVE TypeOK'
      BY <1>10 DEF CloseAndReuse, TypeOK, object, poller, dispatch, Ptrs
<1>11. ASSUME NEW f \in Fds, NEW e \in {"in", "hup"}, Happens(f, e) PROVE TypeOK'
      BY <1>11 DEF Happens, TypeOK, object, poller, dispatch, Ptrs
<1>12. CASE Dies
      BY <1>12 DEF Dies, TypeOK, object, poller, dispatch, Ptrs
<1>13. CASE UNCHANGED vars
      BY <1>13 DEF vars, object, poller, dispatch, TypeOK, Ptrs
<1> QED
    BY <1>1, <1>2, <1>3, <1>4, <1>5, <1>6, <1>7, <1>8, <1>9, <1>10, <1>11, <1>12,
       <1>13
       DEF Next, LoopStep, UserStep, PeerStep, UpdateFails, HandleDestroyed

(* The registry changes only in the operations on channels and where a      *)
(* descriptor is closed; the loop and the peers leave it alone.             *)
LEMMA RegistryNext ==
    ASSUME TypeOK, RegistryAgrees, [Next]_vars
    PROVE  RegistryAgrees'
<1> DEFINE Watched(f) ==
             LET d == channels_[f]
             IN  IF d # None /\ index_[d] = kAdded
                 THEN /\ interest[f] = [in |-> events_[d], ptr |-> d]
                      /\ f \notin undeleted
                 ELSE interest[f] = None \/ f \in undeleted
<1>1. CASE UNCHANGED <<object, channels_, kernel>>
      BY <1>1 DEF object, kernel, RegistryAgrees
<1>2. ASSUME NEW c \in Channels, Destroy(c) PROVE RegistryAgrees'
      <2>1. \A f \in Fds : channels_[f] # c
            <3>1. channels_[fd_[c]] # c
                  BY <1>2 DEF Destroy, RegistryAgrees
            <3> QED
                BY <3>1, ConstantsAssumption DEF RegistryAgrees
      <2> QED
          BY <1>2, <2>1 DEF Destroy, RegistryAgrees, poller, kernel
<1>3. ASSUME NEW c \in Channels, Remove(c) PROVE RegistryAgrees'
      <2>1. \A f \in Fds : channels_[f] = c => f = fd_[c]
            BY <1>3, ConstantsAssumption DEF RegistryAgrees
      <2>2. /\ fd_[c] \in Fds /\ c # None
            /\ channels_[fd_[c]] = c
            /\ channels_' = [channels_ EXCEPT ![fd_[c]] = None]
            /\ index_' = [index_ EXCEPT ![c] = kNew]
            /\ alive' = alive /\ fd_' = fd_ /\ events_' = events_
            BY <1>3, ConstantsAssumption DEF Remove, RemoveChannel, TypeOK
      <2>3. \A d \in alive' : (index_'[d] = kNew) <=> (channels_'[fd_'[d]] # d)
            BY <2>1, <2>2, ConstantsAssumption DEF RegistryAgrees, TypeOK
      <2>4. \A f \in Fds : channels_'[f] # None =>
                channels_'[f] \in alive' /\ fd_'[channels_'[f]] = f
            BY <2>2 DEF RegistryAgrees, TypeOK
      <2>5. /\ \A f \in Fds : f # fd_[c] => interest'[f] = interest[f]
            /\ \A f \in Fds : f # fd_[c] => (f \in undeleted' <=> f \in undeleted)
            /\ interest'[fd_[c]] = None \/ fd_[c] \in undeleted'
            <3>1. CASE index_[c] = kAdded
                  <4>1. Forget(c)
                        BY <1>3, <3>1 DEF Remove, RemoveChannel, ForgetIfAdded
                  <4>2. interest[fd_[c]] # None /\ fd_[c] \notin undeleted
                        BY <2>2, <3>1, AddedIsWatched
                  <4>3. \A f \in Fds :
                          f # fd_[c] => (f \in undeleted' <=> f \in undeleted)
                        BY <4>1 DEF Forget
                  <4> QED
                      BY <4>1, <4>2, <4>3, ForgetEffect
            <3>2. CASE index_[c] # kAdded
                  <4>1. UNCHANGED <<interest, undeleted>>
                        BY <1>3, <3>2 DEF Remove, RemoveChannel, ForgetIfAdded, kernel
                  <4>2. interest[fd_[c]] = None \/ fd_[c] \in undeleted
                        BY <2>2, <3>2 DEF RegistryAgrees
                  <4> QED
                      BY <4>1, <4>2
            <3> QED
                BY <3>1, <3>2
      <2>6. ASSUME NEW f \in Fds PROVE Watched(f)'
            <3>1. CASE f = fd_[c]
                  BY <2>2, <2>5, <3>1 DEF RegistryAgrees, TypeOK
            <3>2. CASE f # fd_[c]
                  BY <2>1, <2>2, <2>5, <3>2 DEF RegistryAgrees, TypeOK
            <3> QED
                BY <3>1, <3>2
      <2> QED
          BY <2>3, <2>4, <2>6 DEF RegistryAgrees
<1>4. ASSUME NEW c \in Channels, NEW g \in Fds, Create(c, g) PROVE RegistryAgrees'
      <2>1. \A f \in Fds : channels_[f] # c
            BY <1>4, ConstantsAssumption DEF Create, RegistryAgrees
      <2>2. /\ alive' = alive \cup {c}
            /\ fd_' = [fd_ EXCEPT ![c] = g]
            /\ events_' = [events_ EXCEPT ![c] = FALSE]
            /\ index_' = [index_ EXCEPT ![c] = kNew]
            /\ channels_' = channels_ /\ interest' = interest
            /\ undeleted' = undeleted
            BY <1>4 DEF Create, poller, kernel
      <2>3. \A d \in alive' : (index_'[d] = kNew) <=> (channels_'[fd_'[d]] # d)
            BY <2>1, <2>2 DEF RegistryAgrees, TypeOK
      <2>4. \A f \in Fds : channels_'[f] # None =>
                channels_'[f] \in alive' /\ fd_'[channels_'[f]] = f
            BY <2>1, <2>2 DEF RegistryAgrees, TypeOK
      <2>5. ASSUME NEW f \in Fds PROVE Watched(f)'
            BY <2>1, <2>2 DEF RegistryAgrees, TypeOK
      <2> QED
          BY <2>3, <2>4, <2>5 DEF RegistryAgrees
<1>5. ASSUME NEW c \in Channels, NEW in \in BOOLEAN, Update(c, in)
      PROVE  RegistryAgrees'
      <2>1. /\ c \in alive /\ c # None /\ fd_[c] \in Fds
            /\ alive' = alive /\ fd_' = fd_
            /\ events_' = [events_ EXCEPT ![c] = in]
            /\ channels_' = [channels_ EXCEPT ![fd_[c]] = c]
            BY <1>5, ConstantsAssumption DEF Update, MayUpdate, UpdateChannel, TypeOK
      <2>2. channels_[fd_[c]] = IF index_[c] = kNew THEN None ELSE c
            BY <1>5 DEF Update, MayUpdate, RegistryAgrees
      <2>3. \A f \in Fds : channels_[f] = c => f = fd_[c]
            BY <2>1 DEF RegistryAgrees
      <2>4. /\ index_'[c] \in {kAdded, kDeleted}
            /\ \A d \in Channels : d # c => index_'[d] = index_[d]
            /\ \A f \in Fds : f # fd_[c] => interest'[f] = interest[f]
            /\ \A f \in Fds : f # fd_[c] => (f \in undeleted' <=> f \in undeleted)
            /\ IF index_'[c] = kAdded
               THEN /\ interest'[fd_[c]] = [in |-> in, ptr |-> c]
                    /\ fd_[c] \notin undeleted'
               ELSE interest'[fd_[c]] = None \/ fd_[c] \in undeleted'
            <3>1. CASE /\ index_[c] \in {kNew, kDeleted}
                       /\ interest[fd_[c]] = None
                       /\ index_' = [index_ EXCEPT ![c] = kAdded]
                       /\ Control(c, in)
                  <4>1. fd_[c] \notin undeleted
                        BY <3>1 DEF TypeOK
                  <4> QED
                      BY <2>1, <3>1, <4>1 DEF Control, TypeOK
            <3>2. CASE /\ index_[c] = kAdded /\ ~in
                       /\ index_' = [index_ EXCEPT ![c] = kDeleted]
                       /\ Forget(c)
                  <4>1. channels_[fd_[c]] = c
                        BY <2>2, <3>2 DEF kNew, kAdded
                  <4>2. interest[fd_[c]] # None /\ fd_[c] \notin undeleted
                        BY <3>2, <4>1, AddedIsWatched
                  <4>3. \A f \in Fds :
                          f # fd_[c] => (f \in undeleted' <=> f \in undeleted)
                        BY <3>2 DEF Forget
                  <4>4. /\ index_'[c] = kDeleted
                        /\ \A d \in Channels : d # c => index_'[d] = index_[d]
                        BY <3>2 DEF TypeOK
                  <4> QED
                      BY <3>2, <4>2, <4>3, <4>4, ForgetEffect DEF kAdded, kDeleted
            <3>3. CASE /\ index_[c] = kAdded /\ in
                       /\ Control(c, in)
                       /\ UNCHANGED index_
                  <4>1. channels_[fd_[c]] = c
                        BY <2>2, <3>3 DEF kNew, kAdded
                  <4>2. fd_[c] \notin undeleted
                        BY <3>3, <4>1, AddedIsWatched
                  <4> QED
                      BY <2>1, <3>3, <4>2 DEF Control, TypeOK
            <3> QED
                BY <1>5, <3>1, <3>2, <3>3 DEF Update, UpdateChannel
      <2>5. \A d \in alive' : (index_'[d] = kNew) <=> (channels_'[fd_'[d]] # d)
            BY <2>1, <2>2, <2>4, ConstantsAssumption
               DEF RegistryAgrees, TypeOK, kNew, kAdded, kDeleted
      <2>6. \A f \in Fds : channels_'[f] # None =>
                channels_'[f] \in alive' /\ fd_'[channels_'[f]] = f
            BY <2>1 DEF RegistryAgrees, TypeOK
      <2>7. ASSUME NEW f \in Fds PROVE Watched(f)'
            <3>1. CASE f = fd_[c]
                  BY <2>1, <2>4, <3>1 DEF TypeOK
            <3>2. CASE f # fd_[c]
                  <4>1. channels_'[f] = channels_[f] /\ channels_[f] # c
                        BY <2>1, <2>3, <3>2 DEF TypeOK
                  <4> QED
                      BY <2>1, <2>4, <3>2, <4>1 DEF RegistryAgrees, TypeOK
            <3> QED
                BY <3>1, <3>2
      <2> QED
          BY <2>5, <2>6, <2>7 DEF RegistryAgrees
<1>6. ASSUME NEW g \in Fds, CloseAndReuse(g) PROVE RegistryAgrees'
      <2>1. /\ channels_[g] = None
            /\ UNCHANGED <<alive, fd_, events_, index_, channels_>>
            /\ interest' = [interest EXCEPT ![g] = None]
            /\ undeleted' = undeleted \ {g}
            BY <1>6 DEF CloseAndReuse, object
      <2>2. ASSUME NEW f \in Fds PROVE Watched(f)'
            <3>1. CASE f = g
                  BY <2>1, <3>1 DEF TypeOK
            <3>2. CASE f # g
                  BY <2>1, <3>2 DEF RegistryAgrees, TypeOK
            <3> QED
                BY <3>1, <3>2
      <2> QED
          BY <2>1, <2>2 DEF RegistryAgrees
<1>7. CASE LoopStep
      BY <1>1, <1>7 DEF LoopStep, EnterPoll, Poll, PollTimeout, HandlerReturns,
                        HandleEvent, HandleDestroyed, Dies, poller
<1>8. CASE PeerStep
      BY <1>1, <1>8 DEF PeerStep, Happens, poller
<1>9. CASE Dies
      BY <1>1, <1>9 DEF Dies, poller
<1>10. CASE UNCHANGED vars
      BY <1>1, <1>10 DEF vars, poller
<1> QED
    BY <1>2, <1>3, <1>4, <1>5, <1>6, <1>7, <1>8, <1>9, <1>10
       DEF Next, UserStep, UpdateFails

(* What poll returns is registered.                                         *)
LEMMA PollSettles ==
    ASSUME Inv, Poll
    PROVE  Twice' \/ Settled'
<1>1. PICK S \in SUBSET ReadyFds :
        \/ /\ \A f \in S : Registered(interest[f].ptr)
           /\ activeChannel_' = {[fd |-> f, ptr |-> interest[f].ptr] : f \in S}
           /\ rest' = activeChannel_'
           /\ UNCHANGED <<object, channels_, currentActiveChannel_>>
        \/ Dies
      BY DEF Poll
<1>2. CASE Dies
      BY <1>2 DEF Inv, Dies, Twice, Settled, Registered, Handling, object, poller,
                  dispatch
<1>3. CASE ~Dies
      <2>1. currentActiveChannel_ = None
            BY DEF Poll, Inv, TypeOK, Ptrs
      <2>2. \A f \in S : interest[f].ptr # None
            BY ConstantsAssumption DEF ReadyFds, Reported, Inv, TypeOK
      <2>3. UNCHANGED <<alive, fd_, channels_, currentActiveChannel_>>
            BY <1>1, <1>3 DEF object
      <2>4. \A f \in S : /\ interest[f].ptr \in alive'
                         /\ channels_'[fd_'[interest[f].ptr]] = interest[f].ptr
            BY <1>1, <1>3, <2>3 DEF Registered
      <2>5. \A e \in rest' : /\ e.ptr \in alive' /\ e.ptr # None
                            /\ channels_'[fd_'[e.ptr]] = e.ptr
            BY <1>1, <1>3, <2>2, <2>4
      <2> QED
          BY <2>1, <2>3, <2>5 DEF Settled, Registered, Handling
<1> QED
    BY <1>2, <1>3

(* What waits to be dispatched survives every handler.                      *)
LEMMA DispatchNext ==
    ASSUME Inv, [Next]_vars
    PROVE  Twice' \/ Settled'
<1>1. CASE EnterPoll
      BY <1>1 DEF EnterPoll, Settled, Handling
<1>2. CASE Poll
      BY <1>2, PollSettles
<1>3. CASE activeChannel_' = activeChannel_ /\ Twice
      BY <1>3, TwiceKept
<1> SUFFICES ASSUME [Next]_vars, ~EnterPoll, ~Poll, ~Twice PROVE Settled'
    <2>1. ~EnterPoll /\ ~Poll => activeChannel_' = activeChannel_
          BY DEF Next, LoopStep, UserStep, PeerStep, PollTimeout, HandlerReturns,
                 HandleEvent, HandleDestroyed, Destroy, Remove, Create, Update,
                 UpdateFails, CloseAndReuse, Happens, Dies, vars, dispatch
    <2> QED
        BY <1>1, <1>2, <1>3, <2>1
<1>4. /\ \A e \in rest : Registered(e.ptr) /\ e.ptr # currentActiveChannel_
      /\ Handling => currentActiveChannel_ \in alive
      BY DEF Inv, Settled
<1>5. /\ \A e \in rest : e \in activeChannel_ /\ e.ptr \in Channels
      /\ \A d, e \in rest : d.ptr = e.ptr => d = e
      BY DEF Inv, TypeOK, Twice
<1>6. CASE PollTimeout
      BY <1>4, <1>6 DEF PollTimeout, Settled, Registered, Handling, object, poller
<1>7. CASE HandlerReturns
      BY <1>4, <1>5, <1>7, ConstantsAssumption
         DEF HandlerReturns, Settled, Registered, Handling, object, poller
<1>8. ASSUME NEW e \in rest, HandleEvent(e) PROVE Settled'
      <2>1. UNCHANGED <<alive, fd_, channels_>>
            BY <1>8 DEF HandleEvent, object, poller
      <2>2. rest' = rest \ {e} /\ currentActiveChannel_' = e.ptr
            BY <1>8 DEF HandleEvent
      <2> QED
          BY <1>4, <1>5, <2>1, <2>2 DEF Settled, Registered
<1>9. ASSUME NEW c \in Channels, Destroy(c) PROVE Settled'
      <2>1. \A e \in rest : e.ptr # c
            BY <1>4, <1>9 DEF Destroy, Registered, Inv, RegistryAgrees
      <2> QED
          BY <1>4, <1>9, <2>1
             DEF Destroy, Settled, Registered, Handling, poller, dispatch
<1>10. ASSUME NEW c \in Channels, Remove(c) PROVE Settled'
      <2>1. \A e \in rest : e.ptr # c
            BY <1>4, <1>5, <1>10 DEF Remove, InUserCode, MayRemove, Ptrs
      <2>2. channels_[fd_[c]] = c
            BY <1>10 DEF Remove
      <2>3. \A e \in rest : fd_[e.ptr] # fd_[c]
            BY <1>4, <2>1, <2>2 DEF Registered
      <2>4. /\ channels_' = [channels_ EXCEPT ![fd_[c]] = None]
            /\ UNCHANGED <<alive, fd_, rest, currentActiveChannel_>>
            BY <1>10 DEF Remove, RemoveChannel, dispatch
      <2>5. \A e \in rest : fd_[e.ptr] \in Fds
            BY <1>5 DEF Inv, TypeOK
      <2>6. \A e \in rest : channels_'[fd_[e.ptr]] = channels_[fd_[e.ptr]]
            BY <2>3, <2>4, <2>5 DEF Inv, TypeOK
      <2> QED
          BY <1>4, <2>4, <2>6 DEF Settled, Registered, Handling
<1>11. ASSUME NEW c \in Channels, NEW f \in Fds, Create(c, f) PROVE Settled'
      <2>1. \A e \in rest : e.ptr # c
            BY <1>4, <1>11 DEF Create, Registered
      <2>2. /\ alive' = alive \cup {c} /\ fd_' = [fd_ EXCEPT ![c] = f]
            /\ UNCHANGED <<channels_, rest, currentActiveChannel_>>
            BY <1>11 DEF Create, poller, dispatch
      <2>3. \A e \in rest : fd_'[e.ptr] = fd_[e.ptr]
            BY <1>5, <2>1, <2>2 DEF Inv, TypeOK
      <2> QED
          BY <1>4, <2>2, <2>3 DEF Settled, Registered, Handling
<1>12. ASSUME NEW c \in Channels, NEW in \in BOOLEAN, Update(c, in) PROVE Settled'
      <2>1. /\ channels_' = [channels_ EXCEPT ![fd_[c]] = c]
            /\ UNCHANGED <<alive, fd_, rest, currentActiveChannel_>>
            BY <1>12 DEF Update, UpdateChannel, dispatch
      <2>2. channels_[fd_[c]] \in {None, c}
            BY <1>12 DEF Update, MayUpdate, Inv, RegistryAgrees
      <2>3. \A e \in rest : fd_[e.ptr] = fd_[c] => e.ptr = c
            BY <1>4, <1>5, <2>2, ConstantsAssumption DEF Registered
      <2>4. \A e \in rest : fd_[e.ptr] \in Fds
            BY <1>5 DEF Inv, TypeOK
      <2>5. \A e \in rest : channels_'[fd_[e.ptr]] = e.ptr
            BY <1>4, <2>1, <2>3, <2>4 DEF Registered, Inv, TypeOK
      <2> QED
          BY <1>4, <2>1, <2>5 DEF Settled, Registered, Handling
<1>13. CASE Dies \/ PeerStep \/ \E f \in Fds : CloseAndReuse(f)
      BY <1>4, <1>13
         DEF Dies, PeerStep, Happens, CloseAndReuse, Settled, Registered, Handling,
             object, poller, dispatch
<1>14. CASE UNCHANGED vars
      BY <1>4, <1>14 DEF vars, object, poller, dispatch, Settled, Registered, Handling
<1> QED
    BY <1>6, <1>7, <1>8, <1>9, <1>10, <1>11, <1>12, <1>13, <1>14
       DEF Next, LoopStep, UserStep, UpdateFails, HandleDestroyed

(* Inv is inductive and so holds in every reachable state.                  *)
LEMMA Invariance == Safety => []Inv
<1>1. Inv /\ [Next]_vars => Inv'
      BY TypeNext, RegistryNext, DispatchNext DEF Inv
<1> QED
    BY <1>1, InvInit, PTL DEF Safety

-----------------------------------------------------------------------------
(* The variables have their types in every state.                           *)
THEOREM TypeCorrect == Safety => []TypeOK
<1>1. Inv => TypeOK
      BY DEF Inv
<1> QED
    BY <1>1, Invariance, PTL

(* updateChannel and removeChannel keep Channel::index_, channels_ and the  *)
(* kernel's list in step, through any sequence of calls and any reuse of    *)
(* descriptors and addresses; the list has beside that only descriptors     *)
(* that an EPOLL_CTL_DEL failed for.                                        *)
THEOREM RegistryIsTrue == Safety => []RegistryAgrees
<1>1. Inv => RegistryAgrees
      BY DEF Inv
<1> QED
    BY <1>1, Invariance, PTL

(* The dispatch of EventLoop::loop dereferences no channel that was removed *)
(* or destroyed by an earlier handler, because removeChannel's assertion    *)
(* forbids to remove another active channel.  It takes a channel that is    *)
(* active twice, after an EPOLL_CTL_DEL that failed, to break that.         *)
THEOREM NothingDangles == Safety => []NoDangling
<1>1. Inv => NoDangling
      BY DEF Inv, NoDangling, Settled
<1> QED
    BY <1>1, Invariance, PTL
=============================================================================
