--------------------------- MODULE MCMonitorQueue ---------------------------
(***************************************************************************)
(* MonitorQueue on a small instance: two callback threads, three events.   *)
(* Three events let one be handled, one overtake it in the unlocked window *)
(* and one wait behind both.                                               *)
(***************************************************************************)
EXTENDS MonitorQueue

CONSTANTS c1, c2, e1, e2, e3

MCCallback == {c1, c2}
MCEvent == {e1, e2, e3}
=============================================================================
