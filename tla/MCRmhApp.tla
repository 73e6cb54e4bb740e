------------------------------ MODULE MCRmhApp ------------------------------
(***************************************************************************)
(* A small instance of the rmh application: a word for every kind of       *)
(* handler, for the five local commands (one by its alias), for an API     *)
(* that has no handler and for nothing at all.                             *)
(***************************************************************************)
EXTENDS RmhApp

MCWords ==
    { "RMH_Log_SetDriverLevel", "RMH_Self_SetEnabled", "RMH_Log_SetDriverFilename",
      "RMH_Self_RestoreDefaultSettings", "RMH_RemoteNode_SetMaxConstellation_GCD100",
      "RMH_Power_SetStandbyMode", "RMH_RemoteNode_GetRxUnicastSubcarrierModulation",
      "RMH_ACA_Request", "RMH_Self_GetLOF", "RMH_ResultToString",
      "log", "RMHApp_DriverLogForever", "logstop", "RMHApp_Start", "RMHApp_Stop",
      "RMH_Log_CreateDriverFile", "nonsense" }

MCOptionSets == {{}, {"debug"}, {"help"}, {"match"}, {"list"}}

\* All that is expected but one.
MCSocExports == ApiNames \ {"RMH_Self_GetLOF"}

MCStartLevels == {{}, RMH_LOG_DEFAULT, RMH_LOG_DEFAULT \cup {DEBUG}}
MCOtherLevels == {{4}}
=============================================================================
