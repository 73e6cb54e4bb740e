-------------------------- MODULE MCMonitorSchedule --------------------------
(***************************************************************************)
(* MonitorSchedule with the three times scaled down in order: 10 seconds,  *)
(* 2 minutes and 1 hour become 2, 4 and 9 ticks.                           *)
(***************************************************************************)
EXTENDS MonitorSchedule
=============================================================================
