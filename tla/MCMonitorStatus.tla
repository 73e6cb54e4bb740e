--------------------------- MODULE MCMonitorStatus ---------------------------
(***************************************************************************)
(* MonitorStatus on a small instance: this node with id 1, one remote node *)
(* with id 0 (the id memset leaves behind), one or two network versions.   *)
(***************************************************************************)
EXTENDS MonitorStatus

CONSTANTS v10, v20

MCNode == {0, 1}
MCVersion == {v10, v20}
=============================================================================
