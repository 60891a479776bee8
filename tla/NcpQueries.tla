----------------------------- MODULE NcpQueries -----------------------------
(***************************************************************************)
(* The replies of the network co-processor to the calls of a Matter host,  *)
(* src/src/common/ncp/ncp_glue_matter.c.  A handler clears ncp_cmd_size,   *)
(* writes the operation code and, nearly always, its ret_val into the      *)
(* header of ncp_cmd_buf, calls OpenThread, appends the error of the call  *)
(* and the values asked for, and sends the buffer.  The buffer is static:  *)
(* what a handler does not write is what an earlier reply left there.      *)
(*                                                                         *)
(* A handler is the set of replies it may build: a table, with no property *)
(* of its own.  appOtInit sets gInstance before the main loop runs the     *)
(* first handler, so the branches for a NULL gInstance are dead and left   *)
(* out.                                                                    *)
(***************************************************************************)
EXTENDS Integers

\* A reply: the handler's ret_val, whether it is written to the header, the
\* error byte ("none" where the call gives none) and the values that follow.
Built(ret, written, status, data) ==
  [ret |-> ret, written |-> written, status |-> status, data |-> data]

\* The forms of a reply.  "stale": bytes the call did not fill in; "over": the
\* string with its null and the byte after it.
Done == {Built(0, TRUE, "none", "none")}
Value == {Built(0, TRUE, "none", "own")}
Status == {Built(0, TRUE, s, "none") : s \in {"ok", "error"}}
StatusThenValue == {Built(0, TRUE, "ok", "own"), Built(0, TRUE, "error", "none")}
StatusAndValue == {Built(0, TRUE, "ok", "own"), Built(0, TRUE, "error", "stale")}

\* ncp_memcpy and ncp_val_mem_copy only append: a reply that forgot to write
\* its return value still sends the eight bytes of the header.
ValueWithoutRet == {Built(0, FALSE, "none", "own")}

-----------------------------------------------------------------------------
(* Dataset, instance and IPv6.                                             *)

process_otDatasetSetActiveTlvs == Status
process_otThreadGetDeviceRole == Value
process_SetThreadEnabled == Status
process_otIp6SetEnabled == Status
process_otIp6IsEnabled == Value
process_otIp6GetUnicastAddresses == Value
process_otDatasetGetActiveTlvs == StatusThenValue
process_otDatasetIsCommissioned == Value
process_otDatasetGetActive == StatusThenValue
process_otDatasetGetPendingTlvs == StatusThenValue
process_otDatasetSetPendingTlvs == Status
process_otInstanceErasePersistentInfo == Status

DatasetApi ==
  [SetActiveTlvs |-> process_otDatasetSetActiveTlvs, GetDeviceRole |-> process_otThreadGetDeviceRole,
   SetThreadEnabled |-> process_SetThreadEnabled, Ip6SetEnabled |-> process_otIp6SetEnabled,
   Ip6IsEnabled |-> process_otIp6IsEnabled, GetUnicastAddresses |-> process_otIp6GetUnicastAddresses,
   GetActiveTlvs |-> process_otDatasetGetActiveTlvs, IsCommissioned |-> process_otDatasetIsCommissioned,
   GetActive |-> process_otDatasetGetActive, GetPendingTlvs |-> process_otDatasetGetPendingTlvs,
   SetPendingTlvs |-> process_otDatasetSetPendingTlvs,
   ErasePersistentInfo |-> process_otInstanceErasePersistentInfo]

-----------------------------------------------------------------------------
(* Thread and link layer.                                                  *)

process_otThreadIsRouterEligible == Value
process_otLinkGetCslPeriod == Value
process_otThreadSetRouterEligible == Status
process_otThreadGetRloc16 == Value
process_otThreadGetLeaderRouterId == Value
process_otThreadGetPartitionId == Value
process_otPlatRadioGetRssi == Value
process_otThreadGetLeaderWeight == Value
process_otThreadGetLocalLeaderWeight == Value
process_otThreadGetVersion == Value
process_otLinkGetPollPeriod == Value
process_otLinkSetCslPeriod == Status
process_otLinkSetPollPeriod == Status
process_otLinkGetPanId == Value
process_otNetDataGetStableVersion == Value
process_otThreadSetLinkMode == Status
process_otThreadGetLinkMode == Value
process_otThreadGetParentAverageRssi == StatusThenValue
process_otThreadGetParentLastRssi == StatusThenValue
process_otThreadGetNetworkKey == Value
process_otThreadErrorToString == {Built(0, FALSE, "none", "over")}
process_otBorderAgentGetId == StatusThenValue
process_otThreadGetNetworkName == {Built(0, TRUE, "none", "over")}
process_otLinkGetExtendedAddress == Value
process_otThreadGetExtendedPanId == Value
process_otThreadGetMeshLocalPrefix == Value
process_otThreadGetLeaderRloc == StatusThenValue
process_otNetDataGet == StatusAndValue
process_otIp6SubscribeMulticastAddress == Status
process_otIp6UnsubscribeMulticastAddress == Status
process_otThreadGetNextNeighborInfo == StatusAndValue
process_otNetDataGetNextRoute == StatusAndValue
process_otLinkGetCounters == Value
process_otThreadGetIp6Counters == Value
process_otIp6AddressFromString == StatusAndValue
process_otIp6AddressToString == Value
process_otNetDataGetVersion == Value
process_otThreadGetChildInfoById == StatusAndValue
process_otIp6GetMulticastAddresses == Value
process_otLinkGetChannel == Value

ThreadApi ==
  [IsRouterEligible |-> process_otThreadIsRouterEligible, GetCslPeriod |-> process_otLinkGetCslPeriod,
   SetRouterEligible |-> process_otThreadSetRouterEligible, GetRloc16 |-> process_otThreadGetRloc16,
   GetLeaderRouterId |-> process_otThreadGetLeaderRouterId, GetPartitionId |-> process_otThreadGetPartitionId,
   GetRssi |-> process_otPlatRadioGetRssi, GetLeaderWeight |-> process_otThreadGetLeaderWeight,
   GetLocalLeaderWeight |-> process_otThreadGetLocalLeaderWeight, GetVersion |-> process_otThreadGetVersion,
   GetPollPeriod |-> process_otLinkGetPollPeriod, SetCslPeriod |-> process_otLinkSetCslPeriod,
   SetPollPeriod |-> process_otLinkSetPollPeriod, GetPanId |-> process_otLinkGetPanId,
   GetStableVersion |-> process_otNetDataGetStableVersion, SetLinkMode |-> process_otThreadSetLinkMode,
   GetLinkMode |-> process_otThreadGetLinkMode, GetParentAverageRssi |-> process_otThreadGetParentAverageRssi,
   GetParentLastRssi |-> process_otThreadGetParentLastRssi, GetNetworkKey |-> process_otThreadGetNetworkKey,
   ErrorToString |-> process_otThreadErrorToString, BorderAgentGetId |-> process_otBorderAgentGetId,
   GetNetworkName |-> process_otThreadGetNetworkName, GetExtendedAddress |-> process_otLinkGetExtendedAddress,
   GetExtendedPanId |-> process_otThreadGetExtendedPanId,
   GetMeshLocalPrefix |-> process_otThreadGetMeshLocalPrefix]

NetDataApi ==
  [GetLeaderRloc |-> process_otThreadGetLeaderRloc, NetDataGet |-> process_otNetDataGet,
   SubscribeMulticast |-> process_otIp6SubscribeMulticastAddress,
   UnsubscribeMulticast |-> process_otIp6UnsubscribeMulticastAddress,
   GetNextNeighborInfo |-> process_otThreadGetNextNeighborInfo,
   GetNextRoute |-> process_otNetDataGetNextRoute, GetCounters |-> process_otLinkGetCounters,
   GetIp6Counters |-> process_otThreadGetIp6Counters, AddressFromString |-> process_otIp6AddressFromString,
   AddressToString |-> process_otIp6AddressToString, NetDataGetVersion |-> process_otNetDataGetVersion,
   GetChildInfoById |-> process_otThreadGetChildInfoById,
   GetMulticastAddresses |-> process_otIp6GetMulticastAddresses, GetChannel |-> process_otLinkGetChannel]

-----------------------------------------------------------------------------
(* Sockets, SRP and DNS: the handlers that keep nothing of their own (the  *)
(* others are in NcpContexts).                                             *)

process_otUdpBind == Status
process_otUdpIsOpen == Value
process_otMessageAppend == Status
process_otSrpClientSetLeaseInterval == Done
process_otSrpClientSetKeyLeaseInterval == Done
process_otSrpClientEnableAutoHostAddress == Status
process_otSrpClientSetHostName == Status
process_otSrpClientEnableAutoStartMode == Done

\* Without a response to read, ret_val is -1 and the error byte stays 0: the
\* name is appended on both.
process_otDnsBrowseResponseGetServiceName == StatusThenValue \cup {Built(-1, TRUE, "ok", "none")}

process_otDnsClientGetDefaultConfig == Value
process_otDnsClientSetDefaultConfig == Done
process_otDnsInitTxtEntryIterator == ValueWithoutRet
process_otDnsGetNextTxtEntry == StatusThenValue \cup StatusAndValue
process_otIp6IsAddressUnspecified == Value
process_otIcmp6SetEchoMode == Done
process_otIp6SetReceiveFilterEnabled == Done
process_otIp6SetSlaacEnabled == Done

ServiceApi ==
  [UdpBind |-> process_otUdpBind, UdpIsOpen |-> process_otUdpIsOpen, MessageAppend |-> process_otMessageAppend,
   SetLeaseInterval |-> process_otSrpClientSetLeaseInterval,
   SetKeyLeaseInterval |-> process_otSrpClientSetKeyLeaseInterval,
   EnableAutoHostAddress |-> process_otSrpClientEnableAutoHostAddress,
   SetHostName |-> process_otSrpClientSetHostName,
   EnableAutoStartMode |-> process_otSrpClientEnableAutoStartMode,
   BrowseGetServiceName |-> process_otDnsBrowseResponseGetServiceName,
   GetDefaultConfig |-> process_otDnsClientGetDefaultConfig,
   SetDefaultConfig |-> process_otDnsClientSetDefaultConfig,
   InitTxtEntryIterator |-> process_otDnsInitTxtEntryIterator, GetNextTxtEntry |-> process_otDnsGetNextTxtEntry,
   IsAddressUnspecified |-> process_otIp6IsAddressUnspecified, SetEchoMode |-> process_otIcmp6SetEchoMode,
   SetReceiveFilter |-> process_otIp6SetReceiveFilterEnabled, SetSlaac |-> process_otIp6SetSlaacEnabled]

-----------------------------------------------------------------------------
VARIABLES
  headerWord,   \* the return value in the header of ncp_cmd_buf
  sentReply,    \* the last reply: its handler, what it built, the word sent
  dispatchHalted   \* has processApi stopped the device?

queryVars == <<headerWord, sentReply, dispatchHalted>>

Nothing == [api |-> "none", built |-> Built(0, TRUE, "none", "none"), word |-> 0]

QueryInit == headerWord = 0 /\ sentReply = Nothing /\ dispatchHalted = FALSE

\* ot_send_response copies the buffer as it stands.
Answer(api, r) ==
  LET word == IF r.written THEN r.ret ELSE headerWord
  IN  headerWord' = word /\ sentReply' = [api |-> api, built |-> r, word |-> word]

Dispatch(apis) ==
  /\ ~dispatchHalted
  /\ \E api \in DOMAIN apis : \E r \in apis[api] : Answer(api, r)
  /\ UNCHANGED dispatchHalted

\* These handlers copy into memory they have asked for without looking whether
\* they got it (2568, 2996, 3734, 4575).
Unchecked == {"NetDataGet", "AddressToString", "MessageAppend", "InitTxtEntryIterator"}

\* Without that memory the copy goes to address 0; an operation code that is not
\* in the table runs into configASSERT(false).
Halts ==
  /\ ~dispatchHalted /\ dispatchHalted' = TRUE
  /\ \/ \E api \in Unchecked : sentReply' = [Nothing EXCEPT !.api = api]
     \/ UNCHANGED sentReply
  /\ UNCHANGED headerWord

processApi ==
  \/ Dispatch(DatasetApi)
  \/ Dispatch(ThreadApi)
  \/ Dispatch(NetDataApi)
  \/ Dispatch(ServiceApi)
  \/ Halts

QueryNext == processApi

QuerySpec == QueryInit /\ [][QueryNext]_queryVars
=============================================================================
