--------------------------- MODULE MonitorSchedule ---------------------------
(***************************************************************************)
(* When the status monitor prints: the timers of RMHMonitor_Event_Thread   *)
(* (rmh_monitor_events.c), which decide between a full status dump, a      *)
(* one-line ping and nothing, and the time stamp app->lastPrint that the   *)
(* macro RMH_Print (rmh_monitor.h) sets on every line, whichever thread    *)
(* prints it.  What an event means is left to MonitorStatus; here it only  *)
(* matters whether handling it prints and whether it asks for a dump.      *)
(*                                                                         *)
(* A time stamp is written as its age in seconds.  The code compares       *)
(* gettimeofday() readings; the clock is assumed not to be set back.       *)
(***************************************************************************)
EXTENDS Naturals

CONSTANTS
    Stable,     \* RMH_MONITOR_MIN_NETWORK_STABALIZE_SEC
    Ping,       \* RMH_MONITOR_STATUS_PING_MIN, in seconds
    Dump,       \* RMH_MONITOR_STATUS_DUMP_MIN, in seconds
    Period,     \* bound: the longest time from one pass of the loop to the next
    Horizon     \* bound: older ages are not told apart

ASSUME ScheduleAssumption ==
    /\ Stable \in Nat /\ Ping \in Nat /\ Dump \in Nat /\ Period \in Nat \ {0}
    /\ Stable < Ping /\ Ping + Period <= Dump
    /\ Horizon \in Nat /\ Dump + Period < Horizon /\ 2 * (Ping + Period) < Horizon

VARIABLES
    pc,             \* where the event thread is
    enabled,        \* what RMH_Self_GetEnabled answers
    sincePrint,     \* age of app->lastPrint
    sinceDump,      \* age of lastStatusPrint
    sincePing,      \* age of lastStatusPing
    sincePass,      \* age of the latest pass of the loop
    printStatus,    \* a dump is owed
    appPrefix       \* app->appPrefix: "INIT", "CHANGE" or "NULL"

vars == <<pc, enabled, sincePrint, sinceDump, sincePing, sincePass, printStatus, appPrefix>>

Age == 0 .. Horizon

ThreadState == {"exited", "init", "wait", "events"}

Running == pc \in {"wait", "events"}

Init == /\ pc = "exited"
        /\ enabled \in BOOLEAN
        /\ sincePrint = Horizon /\ sinceDump = Horizon /\ sincePing = Horizon
        /\ sincePass = 0
        /\ printStatus = FALSE /\ appPrefix = "NULL"

NetworkStable == sincePrint > Stable

DumpDueAlways == sinceDump > Dump \/ printStatus
DumpDueOnlyWhenCalm == printStatus /\ NetworkStable
DumpDueSpaced == sinceDump > Dump \/ (printStatus /\ NetworkStable /\ sinceDump > Ping)
DumpDue == sinceDump > Dump \/ (printStatus /\ NetworkStable)

PingDueHourly == NetworkStable /\ sincePing > Dump
PingDue == NetworkStable /\ sincePing > Ping

Printed == sincePrint' = 0

\* RMHMonitor_Event_PrintFull prints nothing when MoCA is not enabled, save
\* the errors it meets with its temporary handle.
PrintFull == IF enabled THEN Printed ELSE Printed \/ UNCHANGED sincePrint

\* main attempts to connect, which creates the thread.
Connects == /\ pc = "exited"
            /\ Printed
            /\ pc' = "init" /\ appPrefix' = "INIT"
            /\ UNCHANGED <<enabled, sinceDump, sincePing, sincePass, printStatus>>

\* The event thread up to its loop.  It reports the state of the link if it can
\* read it and prints a full status if MoCA is enabled (taken to be read alike
\* both times), so at least one line.
ThreadStarts == /\ pc = "init"
                /\ Printed
                /\ pc' = "wait"
                /\ sinceDump' = 0 /\ sincePing' = 0 /\ sincePass' = 0
                /\ printStatus' = FALSE /\ appPrefix' = "NULL"
                /\ UNCHANGED enabled

\* The handle is not or no longer valid; printStatus is a local of the thread.
ThreadExits == /\ pc \in {"init", "wait"}
               /\ Printed
               /\ pc' = "exited"
               /\ printStatus' = FALSE
               /\ sincePass' = 0
               /\ UNCHANGED <<enabled, sinceDump, sincePing, appPrefix>>

-----------------------------------------------------------------------------
\* The thread wakes, for an event or because two seconds are over, and prints
\* what is due.
PrintsFull == /\ pc = "wait" /\ DumpDue
              /\ PrintFull
              /\ pc' = "events"
              /\ sinceDump' = 0 /\ sincePing' = 0
              /\ printStatus' = FALSE /\ appPrefix' = "NULL"
              /\ UNCHANGED <<enabled, sincePass>>

PrintsPing == /\ pc = "wait" /\ ~DumpDue /\ PingDue
              /\ Printed
              /\ pc' = "events"
              /\ sincePing' = 0
              /\ UNCHANGED <<enabled, sinceDump, sincePass, printStatus, appPrefix>>

PrintsNothing == /\ pc = "wait" /\ ~DumpDue /\ ~PingDue
                 /\ pc' = "events"
                 /\ UNCHANGED <<enabled, sincePrint, sinceDump, sincePing, sincePass,
                                printStatus, appPrefix>>

\* The end of the pass: an event was handled that asks for a dump or not.
PassEnds(owed, prefix) == /\ pc = "events" /\ pc' = "wait"
                          /\ sincePass' = 0
                          /\ printStatus' = owed
                          /\ appPrefix' = prefix
                          /\ UNCHANGED <<enabled, sinceDump, sincePing>>

\* The queue is empty.
HandlesNothing == PassEnds(printStatus, appPrefix) /\ UNCHANGED sincePrint

\* The prefix stays after an event while a dump is owed.
PrefixStays(prefix, owed) == prefix
PrefixAfter(prefix, owed) == IF owed THEN prefix ELSE "NULL"

\* A link, node, NC or version event that changes what the monitor knows.
HandlesChange == PassEnds(TRUE, PrefixAfter("CHANGE", TRUE)) /\ Printed

\* The same kinds of event, when they bring nothing new.
HandlesRepeat == /\ PassEnds(printStatus, PrefixAfter("CHANGE", printStatus))
                 /\ UNCHANGED sincePrint

\* An admission, reset, bandwidth or unknown event, reported in one line.
HandlesReport == PassEnds(printStatus, PrefixAfter(appPrefix, printStatus)) /\ Printed

\* An NC event without an NC is dequeued and does nothing else.
HandlesNoNC == PassEnds(printStatus, PrefixAfter(appPrefix, printStatus)) /\ UNCHANGED sincePrint

-----------------------------------------------------------------------------
\* A line of the library or of the driver, printed by RMHMonitor_RMHCallback.
LibraryPrints == Printed /\ UNCHANGED <<pc, enabled, sinceDump, sincePing, sincePass,
                                        printStatus, appPrefix>>

EnabledChanges == /\ enabled' = ~enabled
                  /\ UNCHANGED <<pc, sincePrint, sinceDump, sincePing, sincePass,
                                 printStatus, appPrefix>>

OlderForever(age) == age + 1
Older(age) == IF age < Horizon THEN age + 1 ELSE age

\* A second passes.  The thread is never later than Period: the wait ends
\* after two seconds, and a pass is taken to be done within the rest.
Tick == /\ ~Running \/ (pc = "wait" /\ sincePass < Period)
        /\ sincePrint' = Older(sincePrint) /\ sinceDump' = Older(sinceDump)
        /\ sincePing' = Older(sincePing)
        /\ sincePass' = IF Running THEN sincePass + 1 ELSE 0
        /\ UNCHANGED <<pc, enabled, printStatus, appPrefix>>

Pass == \/ PrintsFull \/ PrintsPing \/ PrintsNothing
        \/ HandlesNothing \/ HandlesChange \/ HandlesRepeat \/ HandlesReport \/ HandlesNoNC

Next == Connects \/ ThreadStarts \/ ThreadExits \/ Pass \/ LibraryPrints \/ EnabledChanges \/ Tick

Spec == Init /\ [][Next]_vars

\* The thread is scheduled, and time passes between its passes (strongly fair,
\* as each pass disables Tick for a moment).  Nothing is promised about events,
\* about the lines of the library or about reconnecting.
FairSpec == Spec /\ WF_vars(Pass) /\ SF_vars(Tick)

-----------------------------------------------------------------------------
\* The ages stay within the horizon, the flags are flags.
TypeOK == /\ pc \in ThreadState
          /\ enabled \in BOOLEAN /\ printStatus \in BOOLEAN
          /\ appPrefix \in {"NULL", "INIT", "CHANGE"}
          /\ sincePrint \in Age /\ sinceDump \in Age /\ sincePing \in Age
          /\ sincePass \in 0 .. Period

(***************************************************************************)
(* rmh_monitor_events.c:276: the ping is there "to indicate the logger is  *)
(* still alive".  The log is never silent for longer than two pings, even  *)
(* when a dump that printed nothing (MoCA not enabled) has put the ping    *)
(* off.                                                                    *)
(***************************************************************************)
NeverSilent == Running => sincePrint <= 2 * (Ping + Period)

(***************************************************************************)
(* The lines carry "[CHANGE] " exactly while the dump that follows a       *)
(* change is owed, and nothing otherwise: the prefix is a field of app     *)
(* that main and the event thread set, the debt a local variable, and they *)
(* are set and cleared on four different paths (rmh_monitor.c:257,         *)
(* rmh_monitor_events.c:400, 437, 456-481, 489).                           *)
(***************************************************************************)
PrefixMeansOwed == Running => appPrefix = IF printStatus THEN "CHANGE" ELSE "NULL"

(***************************************************************************)
(* rmh_monitor_events.c:430-431: "make sure we don't flood logs with       *)
(* status updates if the network is changing frequently".  The loop does   *)
(* not print two full dumps within the stabilization time, although        *)
(* lastPrint is what it tests, which a silent dump does not move.          *)
(***************************************************************************)
DumpsSpaced == [][PrintsFull => sinceDump > Stable]_vars

(***************************************************************************)
(* rmh_monitor_events.c:433-434: the dump that a change asked for waits    *)
(* for a quiet log only.  While it is owed the log is never quiet for more *)
(* than the stabilization time and a pass, whatever repeats and pings,     *)
(* which share app->lastPrint with it, come in between.                    *)
(***************************************************************************)
OwedWhileBusy == Running /\ printStatus => sincePrint <= Stable + Period

(***************************************************************************)
(* A dump that a change asked for is printed, or the thread ends: lines of *)
(* the library can keep the network from looking stable, but not beyond    *)
(* the hourly dump.  That rests on the hourly dump not waiting for a       *)
(* stable network (lines 433-434), against the comment at                  *)
(* rmh_monitor_events.c:430-431; if the code did what the comment says,    *)
(* this would fail, and OwedWhileBusy be all that is promised.             *)
(***************************************************************************)
OwedDumpComes == printStatus ~> ~printStatus
=============================================================================
