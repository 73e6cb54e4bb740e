----------------------------- MODULE MCRMHMonitor -----------------------------
(***************************************************************************)
(* RMHMonitor with one callback thread and two events, so that one event   *)
(* can overtake another; the failures reach the cap of a minute.           *)
(***************************************************************************)
EXTENDS RMHMonitor

CONSTANTS c1, e1, e2

MCCallback == {c1}
MCEvent == {e1, e2}
===============================================================================
