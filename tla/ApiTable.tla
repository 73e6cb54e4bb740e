------------------------------ MODULE ApiTable ------------------------------
(***************************************************************************)
(* The API definitions of rmh_api.h.  The header is a list of macro calls, *)
(* one per API, that the library, the rmh application and the generators   *)
(* include with definitions of their own.  Every call is a row here: who   *)
(* implements it, the types it is declared with and its tags.  Parameter   *)
(* names and descriptions are left out.  The prototypes after line 6774    *)
(* are for Doxygen only and compiled by nobody.                            *)
(***************************************************************************)
EXTENDS Naturals, FiniteSets, Sequences

\* Size of RMH_APIList.apiList, of the list of handlers of rmh and of the
\* registry of the library.
RMH_MAX_NUM_APIS == 1024

\* Size of RMH_APITagList.tagList.
RMH_MAX_NUM_TAGS == 32

\* The fields of RMH_API a program can see: socApiExpected,
\* genericApiExpected, the types of the parameters, the tags; and whether
\* the library wraps the API (argument Wrap API of the macro).  The tags are
\* listed as pRMH_FindTagList keeps them: first letter in upper case.
Api(name, soc, generic, wrapped, params, tags) ==
    [name |-> name, soc |-> soc, generic |-> generic, wrapped |-> wrapped,
     params |-> params, tags |-> tags]

\* The tags of more than one word.
ConfigurationGet == "Configuration [Get]"
ConfigurationSet == "Configuration [Set]"
RemoteNode == "Remote Node"

\* The parameters of an API that is wrapped begin with the handle.
WithHandle(params) == <<"RMH_Handle">> \o params

\* RMH_API_IMPLEMENTATION_SOC_ONLY, wrapped.
Soc(names, params, tags) ==
    {Api(n, TRUE, FALSE, TRUE, WithHandle(params), tags) : n \in names}

\* RMH_API_IMPLEMENTATION_GENERIC_ONLY, wrapped.
Generic(names, params, tags) ==
    {Api(n, FALSE, TRUE, TRUE, WithHandle(params), tags) : n \in names}

\* RMH_API_IMPLEMENTATION_SOC_THEN_GENERIC and .._GENERIC_THEN_SOC, wrapped.
Both(names, params, tags) ==
    {Api(n, TRUE, TRUE, TRUE, WithHandle(params), tags) : n \in names}

\* Not wrapped: registered with socApiExpected false whatever the macro says.
Plain(names, params, tags) ==
    {Api(n, FALSE, TRUE, FALSE, params, tags) : n \in names}

-----------------------------------------------------------------------------
\* The rows, in the order of the header.

HandleApis ==
    Plain({"RMH_Initialize"}, <<"RMH_EventCallback", "void*">>, {"Core"})
    \cup Both({"RMH_Destroy"}, <<>>, {"Core"})
    \cup Soc({"RMH_ValidateHandle"}, <<>>, {"Core"})
    \cup Both({"RMH_SetEventCallbacks"}, <<"uint32_t">>, {"Core"})
    \cup Generic({"RMH_GetEventCallbacks"}, <<"uint32_t*">>, {"Core"})

ListApis ==
    Generic({"RMH_GetAllAPIs", "RMH_GetUnimplementedAPIs"}, <<"RMH_APIList**">>, {"Core"})
    \cup Generic({"RMH_GetAPITags"}, <<"RMH_APITagList**">>, {"Core"})
    \cup Plain({"RMH_ResultToString"}, <<"RMH_Result">>, {"Core"})
    \cup Plain({"RMH_LinkStatusToString"}, <<"RMH_LinkStatus">>, {"Core", "Link"})

TextApis1 ==
    Plain({"RMH_AdmissionStatusToString"}, <<"RMH_AdmissionStatus">>, {"Core"})
    \cup Plain({"RMH_MoCAResetReasonToString"}, <<"RMH_MoCAResetReason">>, {"Core"})
    \cup Plain({"RMH_SubcarrierProfileToString"}, <<"RMH_SubcarrierProfile">>, {"Core"})
    \cup Plain({"RMH_PERModeToString"}, <<"RMH_PERMode">>, {"Core"})
    \cup Plain({"RMH_MoCAVersionToString"}, <<"RMH_MoCAVersion">>, {"Core", "Version"})

TextApis2 ==
    Plain({"RMH_PowerModeToString"}, <<"uint32_t", "char*", "size_t">>, {"Core", "Power"})
    \cup Plain({"RMH_BandToString"}, <<"RMH_Band">>, {"Core"})
    \cup Plain({"RMH_LogLevelToString"}, <<"uint32_t", "char*", "size_t">>, {"Core", "Log"})
    \cup Plain({"RMH_EventToString"}, <<"uint32_t", "char*", "size_t">>, {"Core"})
    \cup Plain({"RMH_MacToString"}, <<"RMH_MacAddress_t", "char*", "size_t">>, {"Core", "Mac"})

TextApis3 ==
    Plain({"RMH_ACATypeToString"}, <<"RMH_ACAType">>, {"Core"})
    \cup Plain({"RMH_ACAStatusToString"}, <<"RMH_ACAStatus">>, {"Core"})

EnableApis ==
    Soc({"RMH_Self_GetEnabled"}, <<"bool*">>, {"Self", "Status"})
    \cup Soc({"RMH_Self_SetEnabled"}, <<"bool">>, {ConfigurationSet})
    \cup Soc({"RMH_Self_GetMoCALinkUp"}, <<"bool*">>, {ConfigurationGet, "Link"})
    \cup Soc({"RMH_Self_GetLOF"}, <<"uint32_t*">>, {ConfigurationGet, "Frequency"})
    \cup Soc({"RMH_Self_SetLOF"}, <<"uint32_t">>, {ConfigurationSet, "Frequency"})

ScanApis ==
    Soc({"RMH_Self_GetScanLOFOnly"}, <<"bool*">>, {ConfigurationGet, "Frequency"})
    \cup Soc({"RMH_Self_SetScanLOFOnly"}, <<"bool">>, {ConfigurationSet, "Frequency"})
    \cup Soc({"RMH_Self_GetPreferredNCEnabled"}, <<"bool*">>, {ConfigurationGet, "NC"})
    \cup Soc({"RMH_Self_SetPreferredNCEnabled"}, <<"bool">>, {ConfigurationSet, "NC"})
    \cup Soc({"RMH_Self_GetPrimaryChannelOffset"}, <<"int32_t*">>, {ConfigurationGet, "NC"})

OffsetApis ==
    Soc({"RMH_Self_SetPrimaryChannelOffset", "RMH_Self_SetSecondaryChannelOffset"},
        <<"int32_t">>, {ConfigurationSet, "NC"})
    \cup Soc({"RMH_Self_GetSecondaryChannelOffset"}, <<"int32_t*">>, {ConfigurationGet, "NC"})
    \cup Soc({"RMH_Self_GetSoftwareVersion"}, <<"char*", "size_t">>, {ConfigurationGet, "Version"})
    \cup Soc({"RMH_Self_GetHighestSupportedMoCAVersion"}, <<"RMH_MoCAVersion*">>, {ConfigurationGet, "Version"})

FrequencyApis ==
    Soc({"RMH_Self_GetFrequencyMask"}, <<"uint32_t*">>, {ConfigurationGet, "Frequency"})
    \cup Soc({"RMH_Self_SetFrequencyMask"}, <<"uint32_t">>, {ConfigurationSet, "Frequency"})
    \cup Soc({"RMH_Self_GetMaxPacketAggregation"}, <<"uint32_t*">>, {ConfigurationGet})
    \cup Soc({"RMH_Self_SetMaxPacketAggregation"}, <<"uint32_t">>, {ConfigurationSet})

FrameApis ==
    Soc({"RMH_Self_GetMaxFrameSize", "RMH_Self_GetLowBandwidthLimit"}, <<"uint32_t*">>, {ConfigurationGet})
    \cup Soc({"RMH_Self_SetMaxFrameSize", "RMH_Self_SetLowBandwidthLimit"}, <<"uint32_t">>, {ConfigurationSet})
    \cup Soc({"RMH_Self_GetMaxBitrate"}, <<"uint32_t*">>, {ConfigurationGet, "Phy"})

BandApis ==
    Soc({"RMH_Self_SetTxPowerLimit"}, <<"int32_t">>, {ConfigurationSet, "Power"})
    \cup Soc({"RMH_Self_GetTxPowerLimit"}, <<"int32_t*">>, {ConfigurationGet, "Power"})
    \cup Soc({"RMH_Self_GetSupportedFrequencies"},
        <<"uint32_t*", "size_t", "size_t*">>, {ConfigurationGet, "Frequency"})
    \cup Soc({"RMH_Self_GetSupportedBand"}, <<"RMH_Band*">>, {ConfigurationGet, "Frequency"})
    \cup Soc({"RMH_Self_GetQAM256Enabled"}, <<"bool*">>, {"QAM", "Self"})

QAMApis ==
    Soc({"RMH_Self_SetQAM256Enabled"}, <<"bool">>, {ConfigurationSet, "QAM"})
    \cup Soc({"RMH_Self_GetQAM256TargetPhyRate", "RMH_Self_GetPrimaryChannelTargetPhyRate"},
        <<"uint32_t*">>, {"Phy", "QAM", "Self"})
    \cup Soc({"RMH_Self_SetQAM256TargetPhyRate", "RMH_Self_SetPrimaryChannelTargetPhyRate"},
        <<"uint32_t">>, {ConfigurationSet, "Phy", "QAM"})

ChannelRateApis ==
    Soc({"RMH_Self_GetSecondaryChannelTargetPhyRate"}, <<"uint32_t*">>, {"Phy", "QAM", "Self"})
    \cup Soc({"RMH_Self_SetSecondaryChannelTargetPhyRate"}, <<"uint32_t">>, {ConfigurationSet, "Phy", "QAM"})
    \cup Soc({"RMH_Self_GetTurboEnabled"}, <<"bool*">>, {"Self", "Turbo"})
    \cup Soc({"RMH_Self_SetTurboEnabled"}, <<"bool">>, {ConfigurationSet, "Turbo"})
    \cup Soc({"RMH_Self_GetBondingEnabled"}, <<"bool*">>, {"Bonding", "Self"})

LinkApis ==
    Soc({"RMH_Self_SetBondingEnabled"}, <<"bool">>, {"Bonding", ConfigurationSet})
    \cup Generic({"RMH_Self_GetLinkStatus"}, <<"RMH_LinkStatus*">>, {ConfigurationGet, "Link"})
    \cup Soc({"RMH_Self_GetPrivacyEnabled"}, <<"bool*">>, {ConfigurationGet, "Privacy", "Self"})
    \cup Soc({"RMH_Self_SetPrivacyEnabled"}, <<"bool">>, {ConfigurationSet, "Privacy", "Self"})
    \cup Soc({"RMH_Self_GetPrivacyPassword"}, <<"char*", "size_t">>, {"Privacy", "Self"})

PrivacyApis ==
    Soc({"RMH_Self_SetPrivacyPassword"}, <<"char*">>, {ConfigurationSet, "Privacy"})
    \cup Soc({"RMH_Self_GetPrivacyMACManagementKey"}, <<"char*", "size_t">>, {"Privacy", "Self"})
    \cup Soc({"RMH_Self_GetTabooChannels"}, <<"uint32_t*", "uint32_t*">>, {"Frequency", "Self", "Taboo"})
    \cup Soc({"RMH_Self_SetTabooChannels"}, <<"uint32_t", "uint32_t">>, {ConfigurationSet, "Taboo"})
    \cup Soc({"RMH_Self_RestoreDefaultSettings"}, <<>>, {ConfigurationSet})

ResetApis ==
    Generic({"RMH_Self_RestoreRDKDefaultSettings"}, <<>>, {ConfigurationSet})
    \cup Soc({"RMH_Self_GetMaxAllocationElements"}, <<"uint32_t*">>, {ConfigurationGet})
    \cup Soc({"RMH_Self_GetLastResetReason"}, <<"RMH_MoCAResetReason*">>, {"Network", RemoteNode})

InterfaceApis ==
    Generic({"RMH_Interface_GetEnabled"}, <<"bool*">>, {ConfigurationGet, "Interface"})
    \cup Generic({"RMH_Interface_SetEnabled"}, <<"bool">>, {ConfigurationSet, "Interface"})
    \cup Soc({"RMH_Interface_GetName"}, <<"char*", "size_t">>, {ConfigurationGet, "Interface"})
    \cup Soc({"RMH_Interface_GetMac"}, <<"RMH_MacAddress_t*">>, {ConfigurationGet, "Interface", "Mac"})
    \cup Soc({"RMH_Interface_SetMac"}, <<"RMH_MacAddress_t">>, {ConfigurationSet, "Interface", "Mac"})

PowerModeApis ==
    Soc({"RMH_Power_GetMode", "RMH_Power_GetStandbyMode"}, <<"RMH_PowerMode*">>, {ConfigurationGet, "Power"})
    \cup Soc({"RMH_Power_GetSupportedModes"}, <<"uint32_t*">>, {ConfigurationGet, "Power"})
    \cup Soc({"RMH_Power_SetStandbyMode"}, <<"RMH_PowerMode">>, {ConfigurationSet, "Power"})
    \cup Soc({"RMH_Power_GetTxPowerControlEnabled"}, <<"bool*">>, {ConfigurationGet, "Power"})

BeaconPowerApis ==
    Soc({"RMH_Power_SetTxPowerControlEnabled", "RMH_Power_SetTxBeaconPowerReductionEnabled"},
        <<"bool">>, {ConfigurationSet, "Power"})
    \cup Soc({"RMH_Power_GetTxBeaconPowerReductionEnabled"}, <<"bool*">>, {ConfigurationGet, "Power"})
    \cup Soc({"RMH_Power_GetTxBeaconPowerReduction"}, <<"uint32_t*">>, {"Power", "Self"})
    \cup Soc({"RMH_Power_SetTxBeaconPowerReduction"}, <<"uint32_t">>, {ConfigurationSet, "Power"})

NodeIdApis ==
    Soc({"RMH_Network_GetNumNodes", "RMH_Network_GetNodeId"}, <<"uint32_t*">>, {"Network"})
    \cup Soc({"RMH_Network_GetNodeIds"}, <<"RMH_NodeList_Uint32_t*">>, {"Network"})
    \cup Soc({"RMH_Network_GetRemoteNodeIds"}, <<"RMH_NodeList_Uint32_t*">>, {"Network", RemoteNode})
    \cup Generic({"RMH_Network_GetAssociatedIds"}, <<"RMH_NodeList_Uint32_t*">>, {"Network"})

NCApis ==
    Soc({"RMH_Network_GetNCNodeId", "RMH_Network_GetBackupNCNodeId"}, <<"uint32_t*">>, {"NC", "Network"})
    \cup Soc({"RMH_Network_GetNCMac"}, <<"RMH_MacAddress_t*">>, {"Mac", "NC", "Network"})
    \cup Soc({"RMH_Network_GetLinkUptime", "RMH_Network_GetResetCount"}, <<"uint32_t*">>, {"Link", "Network"})

ChannelFreqApis ==
    Soc({"RMH_Network_GetLinkDownCount"}, <<"uint32_t*">>, {"Link", "Network"})
    \cup Soc({"RMH_Network_GetMixedMode"}, <<"bool*">>, {"Network"})
    \cup Soc({"RMH_Network_GetRFChannelFreq",
         "RMH_Network_GetPrimaryChannelFreq",
         "RMH_Network_GetSecondaryChannelFreq"},
        <<"uint32_t*">>, {"Frequency", "Network"})

TxRateApis ==
    Soc({"RMH_Network_GetMoCAVersion"}, <<"RMH_MoCAVersion*">>, {"Network", "Version"})
    \cup Soc({"RMH_Network_GetTxBroadcastPhyRate", "RMH_Network_GetTxGCDPhyRate"},
        <<"uint32_t*">>, {ConfigurationGet, "Phy"})
    \cup Soc({"RMH_Network_GetTxMapPhyRate"}, <<"uint32_t*">>, {"Network", "Phy"})
    \cup Soc({"RMH_Network_GetTxGcdPowerReduction"}, <<"uint32_t*">>, {"Network", "Power"})

MeshApis ==
    Soc({"RMH_Network_GetTabooChannels"}, <<"uint32_t*", "uint32_t*">>, {"Frequency", "Network", "Taboo"})
    \cup Soc({"RMH_Network_GetTxUnicastPhyRate", "RMH_Network_GetTxVLPER", "RMH_Network_GetTxNPER"},
        <<"RMH_NodeMesh_Uint32_t*">>, {"Network", "Phy"})
    \cup Soc({"RMH_Network_GetBitLoadingInfo"}, <<"RMH_NodeMesh_Uint32_t*">>, {"Network"})

BondingApis ==
    Soc({"RMH_Network_GetBondedConnections"}, <<"RMH_NodeMesh_Uint32_t*">>, {"Network"})

RemoteIdApis ==
    Generic({"RMH_RemoteNode_GetNodeIdFromAssociatedId", "RMH_RemoteNode_GetAssociatedIdFromNodeId"},
        <<"uint32_t", "uint32_t*">>, {RemoteNode})
    \cup Soc({"RMH_RemoteNode_GetMac"}, <<"uint32_t", "RMH_MacAddress_t*">>, {"Mac", RemoteNode})
    \cup Soc({"RMH_RemoteNode_GetPreferredNC"}, <<"uint32_t", "bool*">>, {"NC", RemoteNode})
    \cup Soc({"RMH_RemoteNode_GetHighestSupportedMoCAVersion"},
        <<"uint32_t", "RMH_MoCAVersion*">>, {RemoteNode, "Version"})

RemoteCapabilityApis ==
    Soc({"RMH_RemoteNode_GetActiveMoCAVersion"}, <<"uint32_t", "RMH_MoCAVersion*">>, {RemoteNode, "Version"})
    \cup Soc({"RMH_RemoteNode_GetQAM256Capable"}, <<"uint32_t", "bool*">>, {RemoteNode})
    \cup Soc({"RMH_RemoteNode_GetMaxPacketAggregation", "RMH_RemoteNode_GetMaxFrameSize"},
        <<"uint32_t", "uint32_t*">>, {RemoteNode})
    \cup Soc({"RMH_RemoteNode_GetBondingCapable"}, <<"uint32_t", "bool*">>, {"Bonding", RemoteNode})

RemoteRxRateApis ==
    Soc({"RMH_RemoteNode_GetRxUnicastPhyRate", "RMH_RemoteNode_GetRxBroadcastPhyRate"},
        <<"uint32_t", "uint32_t*">>, {"Phy", RemoteNode})
    \cup Soc({"RMH_RemoteNode_GetRxBroadcastPower",
         "RMH_RemoteNode_GetRxUnicastPower",
         "RMH_RemoteNode_GetRxMapPower"},
        <<"uint32_t", "float*">>, {"Power", RemoteNode})

RemoteRxErrorApis ==
    Soc({"RMH_RemoteNode_GetRxPackets",
         "RMH_RemoteNode_GetRxCorrectedErrors",
         "RMH_RemoteNode_GetRxUnCorrectedErrors",
         "RMH_RemoteNode_GetRxTotalErrors"},
        <<"uint32_t", "uint32_t*">>, {RemoteNode})
    \cup Soc({"RMH_RemoteNode_GetRxSNR"}, <<"uint32_t", "float*">>, {RemoteNode})

RemoteTxApis ==
    Soc({"RMH_RemoteNode_GetTxUnicastPhyRate"}, <<"uint32_t", "uint32_t*">>, {"Phy", RemoteNode})
    \cup Soc({"RMH_RemoteNode_GetTxUnicastPower"}, <<"uint32_t", "float*">>, {"Power", RemoteNode})
    \cup Soc({"RMH_RemoteNode_GetTxPowerReduction"}, <<"uint32_t", "uint32_t*">>, {"Power", RemoteNode})
    \cup Soc({"RMH_RemoteNode_GetTxPackets"}, <<"uint32_t", "uint32_t*">>, {RemoteNode})
    \cup Soc({"RMH_RemoteNode_Reset"}, <<"uint32_t", "uint32_t">>, {"Network", RemoteNode})

ModulationApis1 ==
    Soc({"RMH_RemoteNode_GetRxUnicastSubcarrierModulation",
         "RMH_RemoteNode_GetTxUnicastSubcarrierModulation",
         "RMH_RemoteNode_GetSecondaryRxUnicastSubcarrierModulation",
         "RMH_RemoteNode_GetSecondaryTxUnicastSubcarrierModulation"},
        <<"uint32_t", "RMH_PERMode", "RMH_SubcarrierProfile*", "size_t", "size_t*">>, {"Phy", RemoteNode})

ModulationApis2 ==
    Soc({"RMH_RemoteNode_GetRxBroadcastSubcarrierModulation",
         "RMH_RemoteNode_GetTxBroadcastSubcarrierModulation"},
        <<"uint32_t", "RMH_PERMode", "RMH_SubcarrierProfile*", "size_t", "size_t*">>, {"Phy", RemoteNode})
    \cup Soc({"RMH_RemoteNode_GetMaxConstellation_GCD100", "RMH_RemoteNode_GetMaxConstellation_GCD50"},
        <<"uint32_t", "uint32_t*">>, {RemoteNode})
    \cup Soc({"RMH_RemoteNode_SetMaxConstellation_GCD100"}, <<"uint32_t", "uint32_t">>, {RemoteNode})

ConstellationApis ==
    Soc({"RMH_RemoteNode_SetMaxConstellation_GCD50",
         "RMH_RemoteNode_SetMaxConstellation_P2P100",
         "RMH_RemoteNode_SetMaxConstellation_P2P50"},
        <<"uint32_t", "uint32_t">>, {RemoteNode})
    \cup Soc({"RMH_RemoteNode_GetMaxConstellation_P2P100", "RMH_RemoteNode_GetMaxConstellation_P2P50"},
        <<"uint32_t", "uint32_t*">>, {RemoteNode})

FlowLimitApis ==
    Soc({"RMH_PQOS_GetMaxIngressFlows", "RMH_PQOS_GetMaxEgressFlows"}, <<"uint32_t*">>, {"PQoS"})

FlowApis ==
    Soc({"RMH_PQoS_GetNumIngressFlows", "RMH_PQoS_GetNumEgressFlows"}, <<"uint32_t*">>, {"PQoS"})
    \cup Soc({"RMH_PQoS_GetEgressBandwidth"}, <<"uint32_t", "uint32_t*">>, {"PQoS"})
    \cup Soc({"RMH_PQoS_GetIngressFlowIds"}, <<"RMH_MacAddress_t*", "size_t", "size_t*">>, {"PQoS"})

FlowTimeApis ==
    Soc({"RMH_PQoSFlow_GetPeakDataRate",
         "RMH_PQoSFlow_GetBurstSize",
         "RMH_PQoSFlow_GetLeaseTime",
         "RMH_PQoSFlow_GetLeaseTimeRemaining",
         "RMH_PQoSFlow_GetFlowTag"},
        <<"RMH_MacAddress_t", "uint32_t*">>, {"PQoS"})

FlowRuleApis ==
    Soc({"RMH_PQoSFlow_GetMaxLatency",
         "RMH_PQoSFlow_GetShortTermAvgRatio",
         "RMH_PQoSFlow_GetMaxRetry",
         "RMH_PQoSFlow_GetVLANTag",
         "RMH_PQoSFlow_GetFlowPer"},
        <<"RMH_MacAddress_t", "uint32_t*">>, {"PQoS"})

FlowClassApis ==
    Soc({"RMH_PQoSFlow_GetIngressClassificationRule",
         "RMH_PQoSFlow_GetPacketSize",
         "RMH_PQoSFlow_GetTotalTxPackets",
         "RMH_PQoSFlow_GetDSCPMoCA",
         "RMH_PQoSFlow_GetDFID"},
        <<"RMH_MacAddress_t", "uint32_t*">>, {"PQoS"})

FlowMacApis ==
    Soc({"RMH_PQoSFlow_GetDestination", "RMH_PQoSFlow_GetIngressMac", "RMH_PQoSFlow_GetEgressMac"},
        <<"RMH_MacAddress_t", "RMH_MacAddress_t*">>, {"PQoS"})

BandwidthApis ==
    Generic({"RMH_PQoS_GetMaxEgressBandwidth", "RMH_PQoS_GetMinEgressBandwidth"}, <<"uint32_t*">>, {"PQoS"})

AdmissionApis ==
    Soc({"RMH_Stats_GetAdmissionAttempts",
         "RMH_Stats_GetAdmissionFailures",
         "RMH_Stats_GetAdmissionSucceeded",
         "RMH_Stats_GetAdmissionsFailedNoResponse"},
        <<"uint32_t*">>, {"Stats"})
    \cup Soc({"RMH_Stats_GetAdmissionsDeniedAsNC"}, <<"uint32_t*">>, {"NC", "Stats"})

AdmissionFailureApis ==
    Soc({"RMH_Stats_GetAdmissionsFailedChannelUnusable",
         "RMH_Stats_GetAdmissionsFailedT2Timeout",
         "RMH_Stats_GetAdmissionsFailedResyncLoss",
         "RMH_Stats_GetAdmissionsFailedPrivacyFullBlacklist",
         "RMH_Stats_GetTxTotalBytes"},
        <<"uint32_t*">>, {"Stats"})

TotalPacketApis ==
    Soc({"RMH_Stats_GetRxTotalBytes",
         "RMH_Stats_GetTxTotalPackets",
         "RMH_Stats_GetRxTotalPackets",
         "RMH_Stats_GetTxUnicastPackets",
         "RMH_Stats_GetRxUnicastPackets"},
        <<"uint32_t*">>, {"Stats"})

CastPacketApis ==
    Soc({"RMH_Stats_GetTxBroadcastPackets",
         "RMH_Stats_GetRxBroadcastPackets",
         "RMH_Stats_GetTxMulticastPackets",
         "RMH_Stats_GetRxMulticastPackets",
         "RMH_Stats_GetTxReservationRequestPackets"},
        <<"uint32_t*">>, {"Stats"})

ControlPacketApis ==
    Soc({"RMH_Stats_GetRxReservationRequestPackets",
         "RMH_Stats_GetTxMapPackets",
         "RMH_Stats_GetRxMapPackets",
         "RMH_Stats_GetTxLinkControlPackets",
         "RMH_Stats_GetRxLinkControlPackets"},
        <<"uint32_t*">>, {"Stats"})

BeaconApis ==
    Soc({"RMH_Stats_GetTxBeacons",
         "RMH_Stats_GetRxBeacons",
         "RMH_Stats_GetRxUnknownProtocolPackets",
         "RMH_Stats_GetTxDroppedPackets",
         "RMH_Stats_GetRxDroppedPackets"},
        <<"uint32_t*">>, {"Stats"})

ErrorApis ==
    Soc({"RMH_Stats_GetTxTotalErrors",
         "RMH_Stats_GetRxTotalErrors",
         "RMH_Stats_GetRxCRCErrors",
         "RMH_Stats_GetRxTimeoutErrors",
         "RMH_Stats_GetRxTotalAggregatedPackets"},
        <<"uint32_t*">>, {"Stats"})

AggregationApis ==
    Soc({"RMH_Stats_GetTxTotalAggregatedPackets"}, <<"uint32_t*">>, {"Stats"})
    \cup Soc({"RMH_Stats_GetRxPacketAggregation", "RMH_Stats_GetTxPacketAggregation"},
        <<"uint32_t*", "size_t", "size_t*">>, {"Stats"})
    \cup Soc({"RMH_Stats_GetRxCorrectedErrors", "RMH_Stats_GetRxUncorrectedErrors"},
        <<"RMH_NodeList_Uint32_t*">>, {"Stats"})

StatsResetApis ==
    Soc({"RMH_Stats_Reset"}, <<>>, {"Stats"})

LogLevelApis ==
    Both({"RMH_Log_GetAPILevel"}, <<"uint32_t*">>, {"Log"})
    \cup Both({"RMH_Log_SetAPILevel"}, <<"uint32_t">>, {"Log"})
    \cup Soc({"RMH_Log_GetDriverLevel"}, <<"RMH_LogLevel*">>, {"Log"})
    \cup Soc({"RMH_Log_SetDriverLevel"}, <<"RMH_LogLevel">>, {"Log"})
    \cup Soc({"RMH_Log_GetDriverFilename"}, <<"char*", "size_t">>, {"Log"})

LogPrintApis ==
    Soc({"RMH_Log_SetDriverFilename"}, <<"char*">>, {"Log"})
    \cup Generic({"RMH_Log_CreateDriverFile"}, <<"char*", "size_t">>, {"Log"})
    \cup Generic({"RMH_Log_PrintStatus"}, <<"char*">>, {"Status"})
    \cup Generic({"RMH_Log_PrintStats"}, <<"char*">>, {"Stats", "Status"})
    \cup Generic({"RMH_Log_PrintFlows"}, <<"char*">>, {"PQoS", "Status"})

LogModulationApis ==
    Generic({"RMH_Log_PrintModulation"}, <<"char*">>, {"Status"})

ACARequestApis ==
    Soc({"RMH_ACA_Request"}, <<"uint32_t", "uint32_t", "uint32_t", "RMH_ACAType">>, {"ACA"})
    \cup Soc({"RMH_ACA_GetChannel", "RMH_ACA_GetSourceNodeId", "RMH_ACA_GetDestinationNodeMask"},
        <<"uint32_t*">>, {"ACA"})
    \cup Soc({"RMH_ACA_GetType"}, <<"RMH_ACAType*">>, {"ACA"})

ACAResultApis ==
    Soc({"RMH_ACA_GetStatus"}, <<"RMH_ACAStatus*">>, {"ACA"})
    \cup Soc({"RMH_ACA_GetTotalRxPower"}, <<"int32_t*">>, {"ACA"})
    \cup Soc({"RMH_ACA_GetPowerProfile"}, <<"uint8_t*", "size_t", "size_t*">>, {"ACA"})

-----------------------------------------------------------------------------
\* What pRMH_APIWRAP_RegisterAPI gathers, when nothing is dropped.
AllApis ==
    UNION {HandleApis, ListApis, TextApis1, TextApis2, TextApis3,
           EnableApis, ScanApis, OffsetApis, FrequencyApis, FrameApis,
           BandApis, QAMApis, ChannelRateApis, LinkApis, PrivacyApis,
           ResetApis, InterfaceApis, PowerModeApis, BeaconPowerApis,
           NodeIdApis, NCApis, ChannelFreqApis, TxRateApis, MeshApis,
           BondingApis, RemoteIdApis, RemoteCapabilityApis,
           RemoteRxRateApis, RemoteRxErrorApis, RemoteTxApis,
           ModulationApis1, ModulationApis2, ConstellationApis,
           FlowLimitApis, FlowApis, FlowTimeApis, FlowRuleApis,
           FlowClassApis, FlowMacApis, BandwidthApis, AdmissionApis,
           AdmissionFailureApis, TotalPacketApis, CastPacketApis,
           ControlPacketApis, BeaconApis, ErrorApis, AggregationApis,
           StatsResetApis, LogLevelApis, LogPrintApis, LogModulationApis,
           ACARequestApis, ACAResultApis}

ApiNames == {a.name : a \in AllApis}

ApiOf == [n \in ApiNames |-> CHOOSE a \in AllApis : a.name = n]

\* The list pRMH_APIWRAP_RegisterAPI keeps of the APIs it is given: nothing
\* of what comes after the last place.  Which APIs come late is the linker's
\* choice, so only the number is told.
RegisteredCount(apis) ==
    IF Cardinality(apis) <= RMH_MAX_NUM_APIS THEN Cardinality(apis) ELSE RMH_MAX_NUM_APIS

\* The tags RMH_GetAPITags finds in a set of APIs, the APIs it lists under a
\* tag, and those it drops because every list is taken.
TagsOf(apis) == UNION {a.tags : a \in apis}

Tagged(apis, tag) == {a.name : a \in {b \in apis : tag \in b.tags}}

DroppedTags(apis) ==
    IF Cardinality(TagsOf(apis)) <= RMH_MAX_NUM_TAGS
      THEN 0 ELSE Cardinality(TagsOf(apis)) - RMH_MAX_NUM_TAGS

\* RMH_GetUnimplementedAPIs: what the SoC library should export and does not.
Unimplemented(exports) == {a.name : a \in {b \in AllApis : b.soc /\ b.name \notin exports}}

\* A wrapped API whose SoC half is not exported never succeeds
\* (pRMH_APIWRAP_GetSoCAPI gives RMH_UNIMPLEMENTED); one that is not wrapped
\* returns a text.
CallResults(name, exports) ==
    IF name \notin ApiNames THEN BOOLEAN
    ELSE IF ~ApiOf[name].wrapped THEN {TRUE}
    ELSE IF name \in Unimplemented(exports) THEN {FALSE}
    ELSE BOOLEAN
=============================================================================
