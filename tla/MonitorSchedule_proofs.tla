----------------------- MODULE MonitorSchedule_proofs -----------------------
(***************************************************************************)
(* The timers of MonitorSchedule for every value of the three times.  The  *)
(* inductive invariant dates each age by the pass the thread is in: what   *)
(* was not due at the last pass can be overdue by sincePass at most.       *)
(***************************************************************************)
EXTENDS MonitorSchedule, TLAPS

\* How late the thread is: nothing passes while it works.
Late == IF pc = "wait" THEN sincePass ELSE 0

\* After a pass that printed no dump none was due for its age.
DumpInTime == Running => sinceDump <= Dump + Late

\* After a pass either the log was written to lately or the ping was not due.
PingInTime == Running => sincePrint <= Stable + Late \/ sincePing <= Ping + Late

\* The change that asks for a dump was printed after the last dump.
OwedIsPrinted == Running /\ printStatus => sincePrint <= sinceDump

\* After a pass that left a dump owed the log had been written to lately.
OwedInTime == Running /\ printStatus => sincePrint <= Stable + Late

\* Only a silent dump restarts the ping timer without a line in the log, and
\* it finds the previous line no older than a ping.
SilentDump == Running => \/ sincePrint <= sincePing
                         \/ sincePing = sinceDump /\ sincePrint <= sincePing + Ping + Period

Inv == /\ TypeOK
       /\ DumpInTime
       /\ PingInTime
       /\ OwedIsPrinted
       /\ OwedInTime
       /\ SilentDump
       /\ PrefixMeansOwed

USE ScheduleAssumption DEF ScheduleAssumption

-----------------------------------------------------------------------------
\* The ages, prefix and debt the thread starts with.
LEMMA InitInv == Init => Inv
  <1> SUFFICES ASSUME Init PROVE Inv
    OBVIOUS
  <1>1. TypeOK
    <2>1. enabled \in BOOLEAN /\ printStatus \in BOOLEAN
      BY Zenon DEF Init
    <2>2. Horizon \in Age /\ 0 \in 0 .. Period
      BY DEF Age
    <2> QED
      BY <2>1, <2>2, Zenon DEF Init, TypeOK, ThreadState
  <1>2. ~Running
    BY DEF Init, Running
  <1> QED
    BY <1>1, <1>2 DEF Inv, DumpInTime, PingInTime, OwedIsPrinted, OwedInTime, SilentDump, PrefixMeansOwed

\* Every step of the thread, the library, the driver and the clock keeps the
\* invariant.
LEMMA NextInv == Inv /\ [Next]_vars => Inv'
  <1> SUFFICES ASSUME Inv, [Next]_vars PROVE Inv'
    OBVIOUS
  <1> USE DEF Inv, TypeOK, Age, ThreadState, Running, Late, DumpInTime, PingInTime, OwedIsPrinted,
              OwedInTime, SilentDump, PrefixMeansOwed
  <1>0. CASE Connects
    BY <1>0 DEF Connects, Printed
  <1>1. CASE ThreadStarts
    <2>1. enabled' \in BOOLEAN /\ printStatus' \in BOOLEAN
      BY <1>1, Zenon DEF ThreadStarts
    <2>2. pc' \in ThreadState /\ appPrefix' \in {"NULL", "INIT", "CHANGE"}
          /\ sincePrint' \in Age /\ sinceDump' \in Age
          /\ sincePing' \in Age /\ sincePass' \in 0 .. Period
      BY <1>1 DEF ThreadStarts, Printed
    <2>3. DumpInTime' /\ PingInTime' /\ OwedIsPrinted' /\ OwedInTime' /\ SilentDump'
      BY <1>1 DEF ThreadStarts, Printed
    <2>4. PrefixMeansOwed'
      BY <1>1 DEF ThreadStarts
    <2> QED
      BY <2>1, <2>2, <2>3, <2>4, Zenon
  <1>2. CASE ThreadExits
    <2>1. enabled' \in BOOLEAN /\ printStatus' \in BOOLEAN
      BY <1>2, Zenon DEF ThreadExits
    <2>2. pc' \in ThreadState /\ appPrefix' \in {"NULL", "INIT", "CHANGE"}
          /\ sincePrint' \in Age /\ sinceDump' \in Age
          /\ sincePing' \in Age /\ sincePass' \in 0 .. Period
      BY <1>2 DEF ThreadExits, Printed
    <2>3. DumpInTime' /\ PingInTime' /\ OwedIsPrinted' /\ OwedInTime' /\ SilentDump'
      BY <1>2 DEF ThreadExits, Printed
    <2>4. PrefixMeansOwed'
      BY <1>2 DEF ThreadExits
    <2> QED
      BY <2>1, <2>2, <2>3, <2>4, Zenon
  <1>3. CASE PrintsFull
    <2>1. enabled' \in BOOLEAN /\ printStatus' \in BOOLEAN
      BY <1>3, Zenon DEF PrintsFull
    <2>2. pc' \in ThreadState /\ appPrefix' \in {"NULL", "INIT", "CHANGE"}
          /\ sincePrint' \in Age /\ sinceDump' \in Age
          /\ sincePing' \in Age /\ sincePass' \in 0 .. Period
      BY <1>3 DEF PrintsFull, DumpDue, NetworkStable, PrintFull, Printed
    <2>3. DumpInTime' /\ PingInTime' /\ OwedIsPrinted' /\ OwedInTime' /\ SilentDump'
      <3>1. DumpInTime' /\ PingInTime'
        BY <1>3 DEF PrintsFull
      <3>2. OwedIsPrinted' /\ OwedInTime'
        BY <1>3, Zenon DEF PrintsFull
      <3>3. sincePrint <= Ping + Period
        <4>1. CASE sinceDump > Dump
          BY <4>1, <1>3 DEF PrintsFull
        <4>2. CASE printStatus /\ NetworkStable
          BY <4>2, <1>3 DEF PrintsFull, NetworkStable
        <4> QED
          BY <4>1, <4>2, <1>3 DEF PrintsFull, DumpDue
      <3>4. sincePrint' = 0 \/ sincePrint' = sincePrint
        BY <1>3 DEF PrintsFull, PrintFull, Printed
      <3>5. SilentDump'
        BY <3>3, <3>4, <1>3 DEF PrintsFull
      <3> QED
        BY <3>1, <3>2, <3>5
    <2>4. PrefixMeansOwed'
      BY <1>3 DEF PrintsFull
    <2> QED
      BY <2>1, <2>2, <2>3, <2>4, Zenon
  <1>4. CASE PrintsPing
    BY <1>4 DEF PrintsPing, DumpDue, PingDue, NetworkStable, Printed
  <1>5. CASE PrintsNothing
    BY <1>5 DEF PrintsNothing, DumpDue, PingDue, NetworkStable
  <1>6. CASE HandlesNothing
    <2>1. TypeOK'
      BY <1>6 DEF HandlesNothing, PassEnds
    <2>2. DumpInTime' /\ PingInTime' /\ SilentDump'
      BY <1>6 DEF HandlesNothing, PassEnds
    <2>3. OwedIsPrinted' /\ OwedInTime'
      BY <1>6 DEF HandlesNothing, PassEnds
    <2>4. PrefixMeansOwed'
      BY <1>6 DEF HandlesNothing, PassEnds
    <2> QED
      BY <2>1, <2>2, <2>3, <2>4
  <1>7. CASE HandlesChange
    <2>1. TypeOK'
      BY <1>7 DEF HandlesChange, PassEnds, PrefixAfter, Printed
    <2>2. DumpInTime' /\ PingInTime' /\ SilentDump'
      BY <1>7 DEF HandlesChange, PassEnds, PrefixAfter, Printed
    <2>3. OwedIsPrinted' /\ OwedInTime'
      BY <1>7 DEF HandlesChange, PassEnds, PrefixAfter, Printed
    <2>4. PrefixMeansOwed'
      BY <1>7 DEF HandlesChange, PassEnds, PrefixAfter, Printed
    <2> QED
      BY <2>1, <2>2, <2>3, <2>4
  <1>8. CASE HandlesRepeat
    <2>1. TypeOK'
      BY <1>8 DEF HandlesRepeat, PassEnds, PrefixAfter
    <2>2. DumpInTime' /\ PingInTime' /\ SilentDump'
      BY <1>8 DEF HandlesRepeat, PassEnds, PrefixAfter
    <2>3. OwedIsPrinted' /\ OwedInTime'
      BY <1>8 DEF HandlesRepeat, PassEnds, PrefixAfter
    <2>4. PrefixMeansOwed'
      BY <1>8 DEF HandlesRepeat, PassEnds, PrefixAfter
    <2> QED
      BY <2>1, <2>2, <2>3, <2>4
  <1>9. CASE HandlesReport
    BY <1>9 DEF HandlesReport, PassEnds, PrefixAfter, Printed
  <1>10. CASE HandlesNoNC
    <2>1. TypeOK'
      BY <1>10 DEF HandlesNoNC, PassEnds, PrefixAfter
    <2>2. DumpInTime' /\ PingInTime' /\ SilentDump'
      BY <1>10 DEF HandlesNoNC, PassEnds, PrefixAfter
    <2>3. OwedIsPrinted' /\ OwedInTime'
      BY <1>10 DEF HandlesNoNC, PassEnds, PrefixAfter
    <2>4. PrefixMeansOwed'
      BY <1>10 DEF HandlesNoNC, PassEnds, PrefixAfter
    <2> QED
      BY <2>1, <2>2, <2>3, <2>4
  <1>11. CASE LibraryPrints
    BY <1>11 DEF LibraryPrints, Printed
  <1>12. CASE EnabledChanges
    BY <1>12 DEF EnabledChanges
  <1>13. CASE Tick
    <2>1. TypeOK'
      BY <1>13 DEF Tick, Older
    <2>2. DumpInTime' /\ PingInTime' /\ SilentDump'
      BY <1>13 DEF Tick, Older
    <2>3. OwedIsPrinted' /\ OwedInTime'
      BY <1>13 DEF Tick, Older
    <2>4. PrefixMeansOwed'
      BY <1>13 DEF Tick, Older
    <2> QED
      BY <2>1, <2>2, <2>3, <2>4
  <1>14. CASE UNCHANGED vars
    BY <1>14 DEF vars
  <1> QED
    BY <1>0, <1>1, <1>2, <1>3, <1>4, <1>5, <1>6, <1>7, <1>8, <1>9, <1>10, <1>11, <1>12, <1>13, <1>14
       DEF Next, Pass

\* The invariant holds in every reachable state.
THEOREM InvHolds == Spec => []Inv
  <1>1. Init => Inv
    BY InitInv
  <1>2. Inv /\ [Next]_vars => Inv'
    BY NextInv
  <1> QED
    BY <1>1, <1>2, PTL DEF Spec

(***************************************************************************)
(* The thread's place, its flags and the ages of its three timers keep     *)
(* their types: no age leaves the range in which the timers are compared.  *)
(***************************************************************************)
THEOREM TypeCorrect == Spec => []TypeOK
<1>1. Inv => TypeOK
  BY DEF Inv
<1>. QED
  BY <1>1, InvHolds, PTL

-----------------------------------------------------------------------------
\* The latest status dump is an hour and a pass old at most.
DumpedHourly == Running => sinceDump <= Dump + Period

\* No more than an hour and a pass from one status dump to the next, whatever
\* the library prints meanwhile: the hourly dump does not wait for a stable
\* network (rmh_monitor_events.c:433), although the comment at lines 430-431
\* says that every print does.
THEOREM DumpedHourlyHolds == Spec => []DumpedHourly
  <1>1. Inv => DumpedHourly
    BY DEF Inv, TypeOK, Age, DumpInTime, DumpedHourly, Late, Running
  <1> QED
    BY <1>1, InvHolds, PTL

\* The log is never silent for longer than two pings, though a dump that
\* prints nothing restarts the ping timer (rmh_monitor_events.c:436-445).
THEOREM NeverSilentHolds == Spec => []NeverSilent
  <1>1. Inv => NeverSilent
    BY DEF Inv, TypeOK, Age, PingInTime, SilentDump, NeverSilent, Late, Running
  <1> QED
    BY <1>1, InvHolds, PTL

\* The "[CHANGE] " prefix is set exactly while a dump is owed
\* (rmh_monitor_events.c:437-440, 489).
THEOREM PrefixMeansOwedHolds == Spec => []PrefixMeansOwed
  <1>1. Inv => PrefixMeansOwed
    BY DEF Inv
  <1> QED
    BY <1>1, InvHolds, PTL

\* While a dump is owed the log is not quiet for longer than the stabilization
\* time and a pass (rmh_monitor_events.c:424, 433-434).
THEOREM OwedWhileBusyHolds == Spec => []OwedWhileBusy
  <1>1. Inv => OwedWhileBusy
    BY DEF Inv, TypeOK, Age, OwedInTime, OwedWhileBusy, Late, Running
  <1> QED
    BY <1>1, InvHolds, PTL

\* Two status dumps of one thread are further apart than the stabilization
\* time (rmh_monitor_events.c:424, 434).
THEOREM DumpsSpacedHolds == Spec => DumpsSpaced
  <1>1. Inv /\ [Next]_vars => [PrintsFull => sinceDump > Stable]_vars
    BY DEF Inv, TypeOK, Age, OwedIsPrinted, Running, PrintsFull, DumpDue, NetworkStable
  <1> QED
    BY <1>1, InvHolds, PTL DEF Spec, DumpsSpaced
=============================================================================
