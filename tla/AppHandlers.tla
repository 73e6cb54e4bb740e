---------------------------- MODULE AppHandlers ----------------------------
(***************************************************************************)
(* The handlers of the rmh application: how each one reads its arguments,  *)
(* what it passes to the API it was registered with, and which failures    *)
(* its result tells of; and the table of APIs it can run.                  *)
(***************************************************************************)
EXTENDS ApiTable

\* A handler function: the readers it calls in order, the prototype it calls
\* the API with, how many APIs it calls after that one before it returns, and
\* how many of its steps (reads and calls together) count for its result: a
\* variable declared again in an inner block hides the outcome of the later
\* ones.
Handler(name, reads, args, later, counted) ==
    [name |-> name, reads |-> reads, args |-> args, later |-> later, counted |-> counted]

\* A handler that reads, calls and returns the first failure.
H(name, reads, args) == Handler(name, reads, args, 0, Len(reads) + 1)

\* A handler that calls the API with a handle and nothing to read.
Out(name, args) == H(name, <<>>, WithHandle(args))

NumberHandlers ==
    { Out("RMHApp__OUT_UINT32", <<"uint32_t*">>),
      Out("RMHApp__OUT_UINT32_HEX", <<"uint32_t*">>),
      Out("RMHApp__OUT_INT32", <<"int32_t*">>),
      Out("RMHApp__OUT_UINT32_ARRAY", <<"uint32_t*", "size_t", "size_t*">>),
      Out("RMHApp__OUT_MAC_ARRAY", <<"RMH_MacAddress_t*", "size_t", "size_t*">>) }

\* RMHApp__IN_UINT32_IN_UINT32 declares ret again after its first read.
NodeHandlers ==
    { H("RMHApp__IN_UINT32_OUT_UINT32", <<"uint32">>, WithHandle(<<"uint32_t", "uint32_t*">>)),
      Handler("RMHApp__IN_UINT32_IN_UINT32", <<"uint32", "uint32">>,
              WithHandle(<<"uint32_t", "uint32_t">>), 0, 1),
      H("RMHApp__IN_UINT32_OUT_INT32", <<"uint32">>, WithHandle(<<"uint32_t", "int32_t*">>)),
      H("RMHApp__IN_UINT32_OUT_FLOAT", <<"uint32">>, WithHandle(<<"uint32_t", "float*">>)) }

\* RMHApp__IN_RMH_ENUM has no handle to pass.
BoolTextHandlers ==
    { Out("RMHApp__OUT_BOOL", <<"bool*">>),
      H("RMHApp__IN_UINT32_OUT_BOOL", <<"uint32">>, WithHandle(<<"uint32_t", "bool*">>)),
      Out("RMHApp__OUT_STRING", <<"char*", "size_t">>),
      Out("RMHApp__OUT_UINT8_ARRAY", <<"uint8_t*", "size_t", "size_t*">>),
      H("RMHApp__IN_UINT32_OUT_STRING", <<"uint32">>, WithHandle(<<"uint32_t", "char*", "size_t">>)),
      H("RMHApp__IN_RMH_ENUM", <<"uint32">>, <<"RMH_Result">>) }

MacHandlers ==
    { Out("RMHApp__OUT_MAC", <<"RMH_MacAddress_t*">>),
      H("RMHApp__IN_MAC", <<"mac">>, WithHandle(<<"RMH_MacAddress_t">>)),
      H("RMHApp__IN_MAC_OUT_UINT32", <<"mac">>, WithHandle(<<"RMH_MacAddress_t", "uint32_t*">>)),
      H("RMHApp__IN_MAC_OUT_MAC", <<"mac">>, WithHandle(<<"RMH_MacAddress_t", "RMH_MacAddress_t*">>)),
      H("RMHApp__IN_UINT32_OUT_MAC", <<"uint32">>, WithHandle(<<"uint32_t", "RMH_MacAddress_t*">>)) }

\* RMHApp__IN_POWER_MODE declares ret again for the call.
EnumHandlers ==
    { Out("RMHApp__OUT_POWER_MODE", <<"RMH_PowerMode*">>),
      Handler("RMHApp__IN_POWER_MODE", <<"powerMode">>, WithHandle(<<"RMH_PowerMode">>), 0, 1),
      Out("RMHApp__OUT_BAND", <<"RMH_Band*">>),
      Out("RMHApp__OUT_LINK_STATUS", <<"RMH_LinkStatus*">>),
      Out("RMHApp__OUT_MOCA_VERSION", <<"RMH_MoCAVersion*">>),
      H("RMHApp__IN_UINT32_OUT_MOCA_VERSION", <<"uint32">>, WithHandle(<<"uint32_t", "RMH_MoCAVersion*">>)),
      Out("RMHApp__OUT_LOGLEVEL", <<"RMH_LogLevel*">>) }

NodeListHandlers ==
    { Out("RMHApp__OUT_UINT32_NODELIST", <<"RMH_NodeList_Uint32_t*">>),
      Out("RMHApp__OUT_UINT32_NODEMESH", <<"RMH_NodeMesh_Uint32_t*">>) }

\* RMHApp__LOCAL_HANDLE_ONLY runs a function of the application itself.
SetHandlers ==
    { H("RMHApp__IN_BOOL", <<"bool">>, WithHandle(<<"bool">>)),
      H("RMHApp__IN_UINT32", <<"uint32">>, WithHandle(<<"uint32_t">>)),
      H("RMHApp__IN_INT32", <<"int32">>, WithHandle(<<"int32_t">>)),
      H("RMHApp__IN_UINT32_HEX", <<"hex">>, WithHandle(<<"uint32_t">>)),
      H("RMHApp__IN_STRING", <<"string">>, WithHandle(<<"char*">>)),
      H("RMHApp__IN_LOGLEVEL", <<"logLevel">>, WithHandle(<<"RMH_LogLevel">>)),
      Out("RMHApp__PRINT_STATUS", <<"char*">>),
      Out("RMHApp__HANDLE_ONLY", <<>>),
      H("RMHApp__LOCAL_HANDLE_ONLY", <<>>, <<"RMHApp*">>) }

\* RMHApp__SET_TABOO declares ret again after its first read.  What
\* RMHApp__REQUEST_ACA asks after its request is printed and never counts.
TabooAcaHandlers ==
    { Out("RMHApp__GET_TABOO", <<"uint32_t*", "uint32_t*">>),
      Handler("RMHApp__SET_TABOO", <<"uint32", "hex">>, WithHandle(<<"uint32_t", "uint32_t">>), 0, 1),
      Out("RMHApp__OUT_ACA_TYPE", <<"RMH_ACAType*">>),
      Out("RMHApp__OUT_ACA_STATUS", <<"RMH_ACAStatus*">>),
      H("RMHApp__REQUEST_ACA", <<"uint32", "uint32", "hex", "acaType">>,
        WithHandle(<<"uint32_t", "uint32_t", "uint32_t", "RMH_ACAType">>)) }

\* RMHApp__OUT_MODULATION also needs RMH_RemoteNode_GetActiveMoCAVersion.
ResetModulationHandlers ==
    { H("RMHApp__MoCA_RESET", <<"hex", "uint32">>, WithHandle(<<"uint32_t", "uint32_t">>)),
      Out("RMHApp__OUT_RESET_REASON", <<"RMH_MoCAResetReason*">>),
      Handler("RMHApp__OUT_MODULATION", <<"uint32", "perMode">>,
              WithHandle(<<"uint32_t", "RMH_PERMode", "RMH_SubcarrierProfile*", "size_t", "size_t*">>), 1, 4) }

Handlers ==
    UNION {NumberHandlers, NodeHandlers, BoolTextHandlers, MacHandlers, EnumHandlers,
           NodeListHandlers, SetHandlers, TabooAcaHandlers, ResetModulationHandlers}

HandlerNamed == [n \in {h.name : h \in Handlers} |-> CHOOSE h \in Handlers : h.name = n]

-----------------------------------------------------------------------------
\* RMHApp_RegisterAPIHandlers, by section: the handler, the APIs it is
\* registered for and the aliases of their rows.
Rows(handler, apis, aliases) ==
    {[handler |-> handler, api |-> n, aliases |-> aliases] : n \in apis}

SelfRows ==
    Rows("RMHApp__OUT_BOOL",
        {"RMH_Self_GetEnabled", "RMH_Self_GetMoCALinkUp", "RMH_Self_GetScanLOFOnly",
         "RMH_Self_GetPreferredNCEnabled", "RMH_Self_GetQAM256Enabled", "RMH_Self_GetTurboEnabled",
         "RMH_Self_GetBondingEnabled", "RMH_Self_GetPrivacyEnabled"}, {})
    \cup Rows("RMHApp__IN_BOOL",
        {"RMH_Self_SetEnabled", "RMH_Self_SetScanLOFOnly", "RMH_Self_SetPreferredNCEnabled",
         "RMH_Self_SetQAM256Enabled", "RMH_Self_SetTurboEnabled", "RMH_Self_SetBondingEnabled",
         "RMH_Self_SetPrivacyEnabled"}, {})
    \cup Rows("RMHApp__OUT_UINT32",
        {"RMH_Self_GetLOF", "RMH_Self_GetMaxPacketAggregation", "RMH_Self_GetMaxFrameSize",
         "RMH_Self_GetLowBandwidthLimit", "RMH_Self_GetMaxBitrate", "RMH_Self_GetQAM256TargetPhyRate",
         "RMH_Self_GetPrimaryChannelTargetPhyRate", "RMH_Self_GetSecondaryChannelTargetPhyRate",
         "RMH_Self_GetMaxAllocationElements"}, {})
    \cup Rows("RMHApp__IN_UINT32",
        {"RMH_Self_SetLOF", "RMH_Self_SetMaxPacketAggregation", "RMH_Self_SetMaxFrameSize",
         "RMH_Self_SetLowBandwidthLimit", "RMH_Self_SetQAM256TargetPhyRate",
         "RMH_Self_SetPrimaryChannelTargetPhyRate", "RMH_Self_SetSecondaryChannelTargetPhyRate"}, {})
    \cup Rows("RMHApp__OUT_MOCA_VERSION", {"RMH_Self_GetHighestSupportedMoCAVersion"}, {})
    \cup Rows("RMHApp__OUT_STRING",
        {"RMH_Self_GetSoftwareVersion", "RMH_Self_GetPrivacyPassword",
         "RMH_Self_GetPrivacyMACManagementKey"}, {})
    \cup Rows("RMHApp__OUT_UINT32_HEX", {"RMH_Self_GetFrequencyMask"}, {})
    \cup Rows("RMHApp__IN_UINT32_HEX", {"RMH_Self_SetFrequencyMask"}, {})
    \cup Rows("RMHApp__IN_INT32",
        {"RMH_Self_SetTxPowerLimit", "RMH_Self_SetPrimaryChannelOffset",
         "RMH_Self_SetSecondaryChannelOffset"}, {})
    \cup Rows("RMHApp__OUT_INT32",
        {"RMH_Self_GetTxPowerLimit", "RMH_Self_GetPrimaryChannelOffset",
         "RMH_Self_GetSecondaryChannelOffset"}, {})
    \cup Rows("RMHApp__OUT_UINT32_ARRAY", {"RMH_Self_GetSupportedFrequencies"}, {})
    \cup Rows("RMHApp__HANDLE_ONLY", {"RMH_Self_RestoreDefaultSettings", "RMH_Self_RestoreRDKDefaultSettings"}, {})
    \cup Rows("RMHApp__OUT_LINK_STATUS", {"RMH_Self_GetLinkStatus"}, {})
    \cup Rows("RMHApp__OUT_BAND", {"RMH_Self_GetSupportedBand"}, {})
    \cup Rows("RMHApp__GET_TABOO", {"RMH_Self_GetTabooChannels"}, {})
    \cup Rows("RMHApp__SET_TABOO", {"RMH_Self_SetTabooChannels"}, {})
    \cup Rows("RMHApp__IN_STRING", {"RMH_Self_SetPrivacyPassword"}, {})
    \cup Rows("RMHApp__OUT_RESET_REASON", {"RMH_Self_GetLastResetReason"}, {})

InterfaceRows ==
    Rows("RMHApp__OUT_BOOL", {"RMH_Interface_GetEnabled"}, {})
    \cup Rows("RMHApp__IN_BOOL", {"RMH_Interface_SetEnabled"}, {})
    \cup Rows("RMHApp__OUT_STRING", {"RMH_Interface_GetName"}, {})
    \cup Rows("RMHApp__OUT_MAC", {"RMH_Interface_GetMac"}, {})
    \cup Rows("RMHApp__IN_MAC", {"RMH_Interface_SetMac"}, {})

PowerRows ==
    Rows("RMHApp__OUT_POWER_MODE",
        {"RMH_Power_GetMode", "RMH_Power_GetStandbyMode", "RMH_Power_GetSupportedModes"}, {})
    \cup Rows("RMHApp__IN_POWER_MODE", {"RMH_Power_SetStandbyMode"}, {})
    \cup Rows("RMHApp__OUT_BOOL",
        {"RMH_Power_GetTxPowerControlEnabled", "RMH_Power_GetTxBeaconPowerReductionEnabled"}, {})
    \cup Rows("RMHApp__IN_BOOL",
        {"RMH_Power_SetTxPowerControlEnabled", "RMH_Power_SetTxBeaconPowerReductionEnabled"}, {})
    \cup Rows("RMHApp__OUT_UINT32", {"RMH_Power_GetTxBeaconPowerReduction"}, {})
    \cup Rows("RMHApp__IN_UINT32", {"RMH_Power_SetTxBeaconPowerReduction"}, {})

StatsRows ==
    Rows("RMHApp__OUT_UINT32",
        {"RMH_Stats_GetTxTotalBytes", "RMH_Stats_GetRxTotalBytes", "RMH_Stats_GetTxTotalPackets",
         "RMH_Stats_GetRxTotalPackets", "RMH_Stats_GetTxUnicastPackets", "RMH_Stats_GetRxUnicastPackets",
         "RMH_Stats_GetTxBroadcastPackets", "RMH_Stats_GetRxBroadcastPackets",
         "RMH_Stats_GetTxMulticastPackets", "RMH_Stats_GetRxMulticastPackets",
         "RMH_Stats_GetRxReservationRequestPackets", "RMH_Stats_GetTxReservationRequestPackets",
         "RMH_Stats_GetRxMapPackets", "RMH_Stats_GetTxMapPackets", "RMH_Stats_GetTxLinkControlPackets",
         "RMH_Stats_GetRxLinkControlPackets", "RMH_Stats_GetRxUnknownProtocolPackets",
         "RMH_Stats_GetTxDroppedPackets", "RMH_Stats_GetRxDroppedPackets", "RMH_Stats_GetTxTotalErrors",
         "RMH_Stats_GetRxTotalErrors", "RMH_Stats_GetRxCRCErrors", "RMH_Stats_GetRxTimeoutErrors",
         "RMH_Stats_GetAdmissionAttempts", "RMH_Stats_GetAdmissionSucceeded",
         "RMH_Stats_GetAdmissionFailures", "RMH_Stats_GetAdmissionsDeniedAsNC", "RMH_Stats_GetRxBeacons",
         "RMH_Stats_GetTxBeacons", "RMH_Stats_GetRxTotalAggregatedPackets",
         "RMH_Stats_GetTxTotalAggregatedPackets"}, {})
    \cup Rows("RMHApp__OUT_UINT32_NODELIST",
        {"RMH_Stats_GetRxCorrectedErrors", "RMH_Stats_GetRxUncorrectedErrors"}, {})
    \cup Rows("RMHApp__OUT_UINT32_ARRAY", {"RMH_Stats_GetRxPacketAggregation", "RMH_Stats_GetTxPacketAggregation"}, {})
    \cup Rows("RMHApp__HANDLE_ONLY", {"RMH_Stats_Reset"}, {})

PQoSRows ==
    Rows("RMHApp__OUT_UINT32",
        {"RMH_PQOS_GetMaxIngressFlows", "RMH_PQOS_GetMaxEgressFlows", "RMH_PQoS_GetNumIngressFlows",
         "RMH_PQoS_GetNumEgressFlows", "RMH_PQoS_GetMaxEgressBandwidth", "RMH_PQoS_GetMinEgressBandwidth"}, {})
    \cup Rows("RMHApp__IN_UINT32_OUT_UINT32", {"RMH_PQoS_GetEgressBandwidth"}, {})
    \cup Rows("RMHApp__OUT_MAC_ARRAY", {"RMH_PQoS_GetIngressFlowIds"}, {})
    \cup Rows("RMHApp__IN_MAC_OUT_UINT32",
        {"RMH_PQoSFlow_GetPeakDataRate", "RMH_PQoSFlow_GetBurstSize", "RMH_PQoSFlow_GetLeaseTime",
         "RMH_PQoSFlow_GetLeaseTimeRemaining", "RMH_PQoSFlow_GetFlowTag", "RMH_PQoSFlow_GetMaxLatency",
         "RMH_PQoSFlow_GetShortTermAvgRatio", "RMH_PQoSFlow_GetMaxRetry", "RMH_PQoSFlow_GetVLANTag",
         "RMH_PQoSFlow_GetFlowPer", "RMH_PQoSFlow_GetIngressClassificationRule",
         "RMH_PQoSFlow_GetPacketSize", "RMH_PQoSFlow_GetTotalTxPackets", "RMH_PQoSFlow_GetDSCPMoCA",
         "RMH_PQoSFlow_GetDFID"}, {})
    \cup Rows("RMHApp__IN_MAC_OUT_MAC",
        {"RMH_PQoSFlow_GetDestination", "RMH_PQoSFlow_GetIngressMac", "RMH_PQoSFlow_GetEgressMac"}, {})

NetworkRows ==
    Rows("RMHApp__OUT_UINT32",
        {"RMH_Network_GetNumNodes", "RMH_Network_GetNodeId", "RMH_Network_GetNCNodeId",
         "RMH_Network_GetBackupNCNodeId", "RMH_Network_GetLinkUptime", "RMH_Network_GetResetCount",
         "RMH_Network_GetLinkDownCount", "RMH_Network_GetRFChannelFreq",
         "RMH_Network_GetPrimaryChannelFreq", "RMH_Network_GetSecondaryChannelFreq",
         "RMH_Network_GetTxMapPhyRate", "RMH_Network_GetTxBroadcastPhyRate", "RMH_Network_GetTxGCDPhyRate",
         "RMH_Network_GetTxGcdPowerReduction"}, {})
    \cup Rows("RMHApp__OUT_UINT32_NODELIST",
        {"RMH_Network_GetNodeIds", "RMH_Network_GetRemoteNodeIds", "RMH_Network_GetAssociatedIds"}, {})
    \cup Rows("RMHApp__OUT_MAC", {"RMH_Network_GetNCMac"}, {})
    \cup Rows("RMHApp__OUT_MOCA_VERSION", {"RMH_Network_GetMoCAVersion"}, {})
    \cup Rows("RMHApp__OUT_BOOL", {"RMH_Network_GetMixedMode"}, {})
    \cup Rows("RMHApp__OUT_UINT32_NODEMESH",
        {"RMH_Network_GetTxUnicastPhyRate", "RMH_Network_GetTxVLPER", "RMH_Network_GetTxNPER",
         "RMH_Network_GetBitLoadingInfo", "RMH_Network_GetBondedConnections"}, {})
    \cup Rows("RMHApp__GET_TABOO", {"RMH_Network_GetTabooChannels"}, {})

RemoteNodeRows ==
    Rows("RMHApp__IN_UINT32_OUT_UINT32",
        {"RMH_RemoteNode_GetNodeIdFromAssociatedId", "RMH_RemoteNode_GetAssociatedIdFromNodeId",
         "RMH_RemoteNode_GetMaxPacketAggregation", "RMH_RemoteNode_GetMaxFrameSize",
         "RMH_RemoteNode_GetRxPackets", "RMH_RemoteNode_GetRxUnicastPhyRate",
         "RMH_RemoteNode_GetRxBroadcastPhyRate", "RMH_RemoteNode_GetRxTotalErrors",
         "RMH_RemoteNode_GetRxCorrectedErrors", "RMH_RemoteNode_GetRxUnCorrectedErrors",
         "RMH_RemoteNode_GetTxPowerReduction", "RMH_RemoteNode_GetTxUnicastPhyRate",
         "RMH_RemoteNode_GetTxPackets", "RMH_RemoteNode_GetMaxConstellation_GCD100",
         "RMH_RemoteNode_GetMaxConstellation_GCD50", "RMH_RemoteNode_GetMaxConstellation_P2P100",
         "RMH_RemoteNode_GetMaxConstellation_P2P50"}, {})
    \cup Rows("RMHApp__IN_UINT32_OUT_MAC", {"RMH_RemoteNode_GetMac"}, {})
    \cup Rows("RMHApp__IN_UINT32_OUT_BOOL",
        {"RMH_RemoteNode_GetPreferredNC", "RMH_RemoteNode_GetQAM256Capable",
         "RMH_RemoteNode_GetBondingCapable"}, {})
    \cup Rows("RMHApp__IN_UINT32_OUT_MOCA_VERSION",
        {"RMH_RemoteNode_GetHighestSupportedMoCAVersion", "RMH_RemoteNode_GetActiveMoCAVersion"}, {})
    \cup Rows("RMHApp__IN_UINT32_OUT_FLOAT",
        {"RMH_RemoteNode_GetRxUnicastPower", "RMH_RemoteNode_GetRxBroadcastPower",
         "RMH_RemoteNode_GetRxMapPower", "RMH_RemoteNode_GetRxSNR", "RMH_RemoteNode_GetTxUnicastPower"}, {})
    \cup Rows("RMHApp__OUT_MODULATION",
        {"RMH_RemoteNode_GetRxUnicastSubcarrierModulation",
         "RMH_RemoteNode_GetTxUnicastSubcarrierModulation",
         "RMH_RemoteNode_GetSecondaryRxUnicastSubcarrierModulation",
         "RMH_RemoteNode_GetSecondaryTxUnicastSubcarrierModulation",
         "RMH_RemoteNode_GetRxBroadcastSubcarrierModulation",
         "RMH_RemoteNode_GetTxBroadcastSubcarrierModulation"}, {})
    \cup Rows("RMHApp__IN_UINT32_IN_UINT32",
        {"RMH_RemoteNode_SetMaxConstellation_GCD100", "RMH_RemoteNode_SetMaxConstellation_GCD50",
         "RMH_RemoteNode_SetMaxConstellation_P2P100", "RMH_RemoteNode_SetMaxConstellation_P2P50"}, {})
    \cup Rows("RMHApp__MoCA_RESET", {"RMH_RemoteNode_Reset"}, {})

LogRows ==
    Rows("RMHApp__OUT_LOGLEVEL", {"RMH_Log_GetAPILevel", "RMH_Log_GetDriverLevel"}, {})
    \cup Rows("RMHApp__IN_LOGLEVEL", {"RMH_Log_SetAPILevel", "RMH_Log_SetDriverLevel"}, {})
    \cup Rows("RMHApp__OUT_STRING", {"RMH_Log_GetDriverFilename"}, {})
    \cup Rows("RMHApp__IN_STRING", {"RMH_Log_SetDriverFilename"}, {})
    \cup Rows("RMHApp__PRINT_STATUS", {"RMH_Log_PrintStatus"}, {"status"})
    \cup Rows("RMHApp__PRINT_STATUS", {"RMH_Log_PrintStats"}, {"stats"})
    \cup Rows("RMHApp__PRINT_STATUS", {"RMH_Log_PrintFlows"}, {"flows"})
    \cup Rows("RMHApp__PRINT_STATUS", {"RMH_Log_PrintModulation"}, {"modulation"})

ACARows ==
    Rows("RMHApp__REQUEST_ACA", {"RMH_ACA_Request"}, {})
    \cup Rows("RMHApp__OUT_UINT32",
        {"RMH_ACA_GetChannel", "RMH_ACA_GetSourceNodeId", "RMH_ACA_GetDestinationNodeMask"}, {})
    \cup Rows("RMHApp__OUT_ACA_TYPE", {"RMH_ACA_GetType"}, {})
    \cup Rows("RMHApp__OUT_ACA_STATUS", {"RMH_ACA_GetStatus"}, {})
    \cup Rows("RMHApp__OUT_INT32", {"RMH_ACA_GetTotalRxPower"}, {})
    \cup Rows("RMHApp__OUT_UINT8_ARRAY", {"RMH_ACA_GetPowerProfile"}, {})

ResultRowsOfNumber == Rows("RMHApp__IN_UINT32", {"RMH_ResultToString"}, {})

ResultRows ==
    Rows("RMHApp__IN_RMH_ENUM", {"RMH_ResultToString"}, {})

\* SET_LOCAL_API_HANDLER also lists the function among the local APIs.
LocalRows ==
    Rows("RMHApp__LOCAL_HANDLE_ONLY", {"RMHApp_DriverLogForever"}, {"log_forever", "logforever"})
    \cup Rows("RMHApp__LOCAL_HANDLE_ONLY", {"RMHApp_EnableDriverDebugLogging"}, {"log"})
    \cup Rows("RMHApp__LOCAL_HANDLE_ONLY", {"RMHApp_DisableDriverDebugLogging"}, {"log_stop", "logstop"})
    \cup Rows("RMHApp__LOCAL_HANDLE_ONLY", {"RMHApp_Start"}, {"start"})
    \cup Rows("RMHApp__LOCAL_HANDLE_ONLY", {"RMHApp_Stop"}, {"stop"})

LocalNames == {r.api : r \in LocalRows}

\* handledAPIs after registration (RMHApp_AddAPI does not look at its size).
HandledRows ==
    UNION {SelfRows, InterfaceRows, PowerRows, StatsRows, PQoSRows, NetworkRows,
           RemoteNodeRows, LogRows, ACARows, ResultRows, LocalRows}

NoRow == [handler |-> "none", api |-> "none", aliases |-> {}]

\* RMHApp_FindHandler: the names first, the aliases if no name matches.
\* Words stand for themselves in any mixture of cases (strcasecmp).
RMHApp_FindHandler(word) ==
    IF \E r \in HandledRows : r.api = word THEN CHOOSE r \in HandledRows : r.api = word
    ELSE IF \E r \in HandledRows : word \in r.aliases
      THEN CHOOSE r \in HandledRows : word \in r.aliases
      ELSE NoRow

\* RMHApp_FindAPI finds something.
RMHApp_FindAPI(word) == word \in ApiNames \cup LocalNames

\* The most entries RMHApp_FindSimilarAPIs can write to its list: one for an
\* API whose name, declaration, description or tags match, else one for every
\* parameter whose description does (its loop does not stop at the first).
LargestSearch ==
    LET most(a) == IF Len(a.params) = 0 THEN 1 ELSE Len(a.params)
        longest == CHOOSE n \in {most(a) : a \in AllApis} : \A a \in AllApis : n >= most(a)
        withAtLeast(n) == Cardinality({a \in AllApis : most(a) >= n})
        upTo[n \in 0 .. longest] == IF n = 0 THEN 0 ELSE upTo[n - 1] + withAtLeast(n)
    IN upTo[longest]

-----------------------------------------------------------------------------
\* The registration only makes the compiler warn of a handler that does not
\* fit: it calls the API through a pointer of its own type.  A log level or a
\* power mode travels as the unsigned it is made of.
SameWidth(type) ==
    CASE type \in {"RMH_LogLevel", "RMH_PowerMode"} -> "uint32_t"
      [] type \in {"RMH_LogLevel*", "RMH_PowerMode*"} -> "uint32_t*"
      [] OTHER -> type

Widths(types) == [i \in DOMAIN types |-> SameWidth(types[i])]

HandlersFit ==
    \A r \in HandledRows \ LocalRows :
        /\ r.api \in ApiNames
        /\ r.handler \in DOMAIN HandlerNamed
        /\ Widths(HandlerNamed[r.handler].args) = Widths(ApiOf[r.api].params)

\* No list of the library or of the application is written past its end, and
\* none of them drops an entry.
ListsFit ==
    /\ RegisteredCount(AllApis) = Cardinality(AllApis)
    /\ DroppedTags(AllApis) = 0
    /\ LargestSearch <= RMH_MAX_NUM_APIS
    /\ Cardinality(HandledRows) <= RMH_MAX_NUM_APIS

\* Every word names one row at most, so that the order of registration and
\* of the search does not matter.
WordsAreUnique ==
    \A r, s \in HandledRows :
        r # s => ({r.api} \cup r.aliases) \cap ({s.api} \cup s.aliases) = {}

\* The handlers of the application fit the APIs they are registered for, the
\* fixed lists of rmh_type.h hold what is put into them, and no word stands
\* for two commands.
TablesFit == HandlersFit /\ ListsFit /\ WordsAreUnique
=============================================================================
