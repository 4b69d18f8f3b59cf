------------------------------ MODULE Logging ------------------------------
(***************************************************************************)
(* myMuduo/lib/Logging.hpp and Logging.cpp: one Logger object is one line. *)
(* Its constructor stamps the line, operator<< adds to it (module          *)
(* LogStream) and its destructor hands it to g_output.  Every thread keeps *)
(* the date it rendered last and the second that date is of, so that a     *)
(* line in the same second costs no conversion; level and time zone are    *)
(* shared.  The wall clock may step back.                                  *)
(***************************************************************************)
EXTENDS Integers, FiniteSets

CONSTANTS Threads,
          UsedLevels,  \* the levels of the lines written and of setLogLevel
          Seconds,     \* the seconds since 1970 the clock may show
          Zones,       \* the valid time zones setTimeZone may be given
          Utc          \* what a g_logTimeZone that is not valid() stands for

Levels == 0 .. 5       \* TRACE, DEBUG, INFO, WARN, ERROR, FATAL
INFO == 2
FATAL == 5

(* t_lastSecond starts as 0, before any date was rendered.                  *)
ConstantsOK ==
    /\ UsedLevels \subseteq Levels
    /\ Seconds \subseteq Nat \ {0}
    /\ Utc \notin Zones

VARIABLES now, g_logLevel, g_logTimeZone,
          t_lastSecond,  \* by thread
          t_time,        \* by thread: the second and the zone of the date in it
          spell,         \* by thread, a history: see Spells
          line,          \* by thread: the line in hand
          aborted

vars == <<now, g_logLevel, g_logTimeZone, t_lastSecond, t_time, spell, line,
          aborted>>
globals == <<now, g_logLevel, g_logTimeZone>>
cache == <<t_lastSecond, t_time>>

NoDate == [second |-> 0, zone |-> Utc]
Dates == [second : Seconds \cup {0}, zone : Zones \cup {Utc}]
NoLine == [at |-> "none"]

(* A spell is a row of lines of one thread whose times fall in the same     *)
(* second: that second, and every zone that was in force since the first of *)
(* them took its time.  The code has no such thing; the properties do.      *)
Spells == [second : Seconds \cup {0}, zones : SUBSET (Zones \cup {Utc})]
NoSpell == [second |-> 0, zones |-> {Utc}]

TypeOK ==
    /\ now \in Seconds /\ g_logLevel \in Levels
    /\ g_logTimeZone \in Zones \cup {Utc}
    /\ t_lastSecond \in [Threads -> Seconds \cup {0}]
    /\ t_time \in [Threads -> Dates]
    /\ spell \in [Threads -> Spells]
    /\ \A t \in Threads : line[t].at \in {"none", "time", "date", "text"}
    /\ aborted \in BOOLEAN

(* initLogLevel looks at two environment variables.                         *)
initLogLevel == 0 .. INFO

Init ==
    /\ now \in Seconds
    /\ g_logLevel \in initLogLevel
    /\ g_logTimeZone = Utc
    /\ t_lastSecond = [t \in Threads |-> 0]
    /\ t_time = [t \in Threads |-> NoDate]
    /\ spell = [t \in Threads |-> NoSpell]
    /\ line = [t \in Threads |-> NoLine]
    /\ aborted = FALSE

(* The macros LOG_TRACE to LOG_SYSFATAL: only the first three look at the   *)
(* level.                                                                   *)
Logged(level) == level > INFO \/ g_logLevel <= level

(* Logger::Impl takes the time of the line first.                           *)
Impl(t, level) ==
    /\ line' = [line EXCEPT ![t] =
                   [at |-> "time", level |-> level, second |-> now]]
    /\ spell' = [spell EXCEPT ![t] =
                    IF @.second = now THEN @
                    ELSE [second |-> now, zones |-> {g_logTimeZone}]]
    /\ UNCHANGED <<globals, cache, aborted>>

(* The four constructors differ in where the level comes from.              *)
Logger(t, level) ==
    /\ line[t] = NoLine
    /\ Logged(level)
    /\ Impl(t, level)

(* The pointer was null.                                                    *)
CheckNotNull(t) == Logger(t, FATAL)

(* Mutant: a date is only replaced by a later one.                          *)
OutdatedIfLater(t) == line[t].second > t_lastSecond[t]

Outdated(t) == line[t].second # t_lastSecond[t]

(* formatTime renders the date of a new second in the zone of the moment... *)
formatTime(t) ==
    /\ line[t].at = "time"
    /\ line' = [line EXCEPT ![t].at = "date"]
    /\ IF Outdated(t)
       THEN /\ t_lastSecond' = [t_lastSecond EXCEPT ![t] = line[t].second]
            /\ t_time' = [t_time EXCEPT ![t] = [second |-> line[t].second,
                                                zone |-> g_logTimeZone]]
       ELSE UNCHANGED cache
    /\ UNCHANGED <<globals, spell, aborted>>

(* ... and then looks at the zone again, to add Z for UTC or nothing.       *)
formatZone(t) ==
    /\ line[t].at = "date"
    /\ line' = [line EXCEPT ![t] =
                   [at |-> "text", level |-> @.level, second |-> @.second,
                    date |-> t_time[t], Z |-> g_logTimeZone = Utc]]
    /\ UNCHANGED <<globals, cache, spell, aborted>>

(* ~Logger: finish and g_output; after a FATAL line g_flush and abort.       *)
Output(t) ==
    /\ line[t].at = "text"
    /\ line' = [line EXCEPT ![t] = NoLine]
    /\ aborted' = (line[t].level = FATAL)
    /\ UNCHANGED <<globals, cache, spell>>

setLogLevel(level) ==
    /\ g_logLevel' = level
    /\ UNCHANGED <<now, g_logTimeZone, cache, spell, line, aborted>>

(* A TimeZone that is not valid() may be given too, and means UTC again.    *)
setTimeZone(tz) ==
    /\ g_logTimeZone' = tz
    /\ spell' = [t \in Threads |-> [spell[t] EXCEPT !.zones = @ \cup {tz}]]
    /\ UNCHANGED <<now, g_logLevel, cache, line, aborted>>

ClockSteps(s) ==
    /\ now' = s
    /\ UNCHANGED <<g_logLevel, g_logTimeZone, cache, spell, line, aborted>>

Next ==
    /\ ~aborted
    /\ \/ \E t \in Threads : \/ \E level \in UsedLevels : Logger(t, level)
                             \/ CheckNotNull(t)
                             \/ formatTime(t)
                             \/ formatZone(t)
                             \/ Output(t)
       \/ \E level \in UsedLevels : setLogLevel(level)
       \/ \E tz \in Zones \cup {Utc} : setTimeZone(tz)
       \/ \E s \in Seconds \ {now} : ClockSteps(s)

Spec == Init /\ [][Next]_vars

-----------------------------------------------------------------------------
(* The date on a line is that of the line's own second, wherever the clock  *)
(* and the other threads went since (the test at Logging.cpp:134 is the only*)
(* thing that renews it).  The cached date and the Z behind it come from two*)
(* readings of the zone, at lines 138 and 152, and setTimeZone does not make*)
(* any thread forget its date; but neither is older than the thread's first *)
(* line of that second in a row: both were in force since, and if the zone  *)
(* stayed the same since, then both are that zone.                          *)
StampIsTrue ==
    \A t \in Threads :
        line[t].at = "text" =>
            /\ line[t].date.second = line[t].second
            /\ line[t].date.zone \in spell[t].zones
            /\ \E zone \in spell[t].zones : line[t].Z = (zone = Utc)
=============================================================================
