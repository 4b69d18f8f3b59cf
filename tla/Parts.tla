-------------------------------- MODULE Parts --------------------------------
(***************************************************************************)
(* The components that share nothing with the others, each by itself:      *)
(* subject says which of them a behaviour is about.  The components' own   *)
(* modules say what they do and what their constants are.                  *)
(***************************************************************************)
EXTENDS Buffer

CONSTANTS SIZE, kMaxNumericSize, TextLens, DoubleLens,   \* LogStream
          Ints, Addresses, Mantissas, Quotients,
          Threads, UsedLevels, Seconds, Zones, Utc,      \* Logging
          MaxFd, MaxBacklog,                             \* Acceptor
          Keys, MaxNodes,                                \* SearchTree
          Values, MaxLen,                                \* Heap
          Map, FirstMap, RoleX, RoleY, TileSize, speed,  \* Game
          FramePeriod,
          Ports, Ips, LocalIps, Ips6                     \* InetAddress

VARIABLES subject,
          cur_, last, shown,                             \* LogStream
          now, g_logLevel, g_logTimeZone, t_lastSecond,  \* Logging
          t_time, spell, line, aborted,
          owner, backlog, errno, sockfd_, idleFd_,       \* Acceptor
          connfd, channelFd, watched, listening_,
          callbackSet, pc, died,
          tree, live, call, answer,                      \* SearchTree
          vec, given, i, heapsize, index, sorting,       \* Heap
          x_, y_, direction_, frame_, frameCounter_,     \* Game
          trigerZone_, currentMap_, isRunning_, playing,
          addr, asked, local, peer, selfConnected        \* InetAddress

L == INSTANCE LogStream
G == INSTANCE Logging
A == INSTANCE Acceptor
T == INSTANCE SearchTree WITH t <- tree
H == INSTANCE Heap WITH at <- sorting
M == INSTANCE Game WITH at <- playing
I == INSTANCE InetAddress

ASSUME PartsAssumption ==
    /\ ConstantsOK /\ L!ConstantsOK /\ G!ConstantsOK /\ A!ConstantsOK
    /\ T!ConstantsOK /\ H!ConstantsOK /\ M!ConstantsOK /\ I!ConstantsOK

streamVars == <<cur_, last, shown>>
loggerVars == <<now, g_logLevel, g_logTimeZone, t_lastSecond, t_time, spell, line,
                aborted>>
acceptorVars == <<owner, backlog, errno, sockfd_, idleFd_, connfd, channelFd, watched,
                  listening_, callbackSet, pc, died>>
treeVars == <<tree, live, call, answer>>
heapVars == <<vec, given, i, heapsize, index, sorting>>
gameVars == <<x_, y_, direction_, frame_, frameCounter_, trigerZone_, currentMap_,
              isRunning_, playing>>
addressVars == <<addr, asked, local, peer, selfConnected>>

Subjects == {"buffer", "stream", "logger", "acceptor", "tree", "heap", "game",
             "address"}

PartsInit ==
    /\ subject \in Subjects
    /\ Init /\ L!Init /\ A!Init /\ T!Init /\ H!Init /\ M!Init /\ I!Init
    /\ G!Init
    /\ subject # "logger" => now = 1 /\ g_logLevel = G!INFO

PartsNext ==
    /\ UNCHANGED subject
    /\ \/ subject = "buffer" /\ Next
          /\ UNCHANGED <<streamVars, loggerVars, acceptorVars, treeVars,
                         heapVars, gameVars, addressVars>>
       \/ subject = "stream" /\ L!Next
          /\ UNCHANGED <<b, loggerVars, acceptorVars, treeVars,
                         heapVars, gameVars, addressVars>>
       \/ subject = "logger" /\ G!Next
          /\ UNCHANGED <<b, streamVars, acceptorVars, treeVars,
                         heapVars, gameVars, addressVars>>
       \/ subject = "acceptor" /\ A!Next
          /\ UNCHANGED <<b, streamVars, loggerVars, treeVars,
                         heapVars, gameVars, addressVars>>
       \/ subject = "tree" /\ T!Next
          /\ UNCHANGED <<b, streamVars, loggerVars, acceptorVars,
                         heapVars, gameVars, addressVars>>
       \/ subject = "heap" /\ H!Next
          /\ UNCHANGED <<b, streamVars, loggerVars, acceptorVars,
                         treeVars, gameVars, addressVars>>
       \/ subject = "game" /\ M!Next
          /\ UNCHANGED <<b, streamVars, loggerVars, acceptorVars,
                         treeVars, heapVars, addressVars>>
       \/ subject = "address" /\ I!Next
          /\ UNCHANGED <<b, streamVars, loggerVars, acceptorVars,
                         treeVars, heapVars, gameVars>>

vars == <<subject, b, streamVars, loggerVars, acceptorVars, treeVars, heapVars,
          gameVars, addressVars>>

PartsSpec == PartsInit /\ [][PartsNext]_vars

-----------------------------------------------------------------------------
(* The properties, stated and explained in the components' modules.  What   *)
(* is not the subject stays as it is initially and need not be looked at.   *)
(* StreamOrder is Buffer's.                                                 *)

(* LogStream: the byte after the text is inside the buffer. *)
TerminatorFits == subject = "stream" => L!TerminatorFits
(* LogStream: numbers are shown by their digits and no longer than promised. *)
FormatsAreRight == subject = "stream" => L!FormatsAreRight
(* Logging: the date on a line is of its second, its zone in force in it. *)
StampIsTrue == subject = "logger" => G!StampIsTrue
(* Acceptor: descriptors are closed once, by their owner. *)
DescriptorsOwned == subject = "acceptor" => A!DescriptorsOwned
(* SearchTree: the tree is a bag of keys. *)
ImplementsBag == T!ImplementsBag
(* Heap: the invariants of the two loops of heapSort. *)
SortLoop == subject = "heap" => H!SortLoop
(* Game: the player is never inside a wall. *)
NotInWall == subject = "game" => M!NotInWall
(* InetAddress: an address goes where it was asked to. *)
AddressesAgree == subject = "address" => I!AddressesAgree
=============================================================================
