------------------------- MODULE SteamLanguageInternal -------------------------
(***************************************************************************)
(* The structures of the wire protocol. A layout names the fields of a     *)
(* structure with their types and the values the constructor gives them,   *)
(* the calls of Serialize and the calls of Deserialize in their order,     *)
(* each with the type it writes or reads; -1 stands for UINT64_MAX.        *)
(***************************************************************************)
EXTENDS Stream

CONSTANT P2PDataSize   \* bytes of MsgClientP2PIntroducerMessage::data: 1450

ASSUME P2PDataSizeAssumption == P2PDataSize \in Nat

\* A field and its initial value, a stream.Write of it, a stream.Read into it.
F(n, t, d) == [n |-> n, t |-> t, d |-> LE(d, t.w)]
W(n, t) == [n |-> n, t |-> t]
R(n, t) == [n |-> n, t |-> t]

\* std::vector<unsigned char>: Write takes as many bytes as the vector has by
\* then, ReadArray as many as the structure was given, checked as a whole.
Bytes == [w |-> P2PDataSize, s |-> FALSE, array |-> TRUE]

\* A structure whose Serialize and Deserialize do nothing.
Empty(emsg) ==
  [emsg |-> emsg, fields |-> << >>, writes |-> << >>, reads |-> << >>]

-----------------------------------------------------------------------------
(* Transport and message headers.                                          *)

UdpHeader ==
  [emsg |-> 0,
   fields |-> <<F("magic", U32, 825250646), F("payloadSize", U16, 0),
                F("packetType", U8, 0), F("flags", U8, 0), F("sourceConnID", U32, 512),
                F("destConnID", U32, 0), F("seqThis", U32, 0), F("seqAck", U32, 0),
                F("packetsInMsg", U32, 0), F("msgStartSeq", U32, 0),
                F("msgSize", U32, 0)>>,
   writes |-> <<W("magic", U32), W("payloadSize", U16), W("packetType", U8),
                W("flags", U8), W("sourceConnID", U32), W("destConnID", U32),
                W("seqThis", U32), W("seqAck", U32), W("packetsInMsg", U32),
                W("msgStartSeq", U32), W("msgSize", U32)>>,
   reads  |-> <<R("magic", I32), R("payloadSize", I16), R("packetType", U8),
                R("flags", U8), R("sourceConnID", I32), R("destConnID", I32),
                R("seqThis", I32), R("seqAck", I32), R("packetsInMsg", I32),
                R("msgStartSeq", I32), R("msgSize", I32)>>]

ChallengeData ==
  [emsg |-> 0,
   fields |-> <<F("challengeValue", U32, 0), F("serverLoad", U32, 0)>>,
   writes |-> <<W("challengeValue", U32), W("serverLoad", U32)>>,
   reads  |-> <<R("challengeValue", I32), R("serverLoad", I32)>>]

ConnectData ==
  [emsg |-> 0,
   fields |-> <<F("challengeValue", U32, 0)>>,
   writes |-> <<W("challengeValue", U32)>>,
   reads  |-> <<R("challengeValue", I32)>>]

Accept == Empty(0)

Datagram == Empty(0)

Disconnect == Empty(0)

MsgHdr ==
  [emsg |-> 0,
   fields |-> <<F("Msg", I32, 0), F("targetJobID", U64, -1), F("sourceJobID", U64, -1)>>,
   writes |-> <<W("Msg", I32), W("targetJobID", U64), W("sourceJobID", U64)>>,
   reads  |-> <<R("Msg", I32), R("targetJobID", I64), R("sourceJobID", I64)>>]

ExtendedClientMsgHdr ==
  [emsg |-> 0,
   fields |-> <<F("Msg", I32, 0), F("headerSize", U8, 36), F("headerVersion", U16, 2),
                F("targetJobID", U64, -1), F("sourceJobID", U64, -1),
                F("headerCanary", U8, 239), F("steamID", U64, 0), F("sessionID", I32, 0)>>,
   writes |-> <<W("Msg", I32), W("headerSize", U8), W("headerVersion", U16),
                W("targetJobID", U64), W("sourceJobID", U64), W("headerCanary", U8),
                W("steamID", U64), W("sessionID", I32)>>,
   reads  |-> <<R("Msg", I32), R("headerSize", U8), R("headerVersion", I16),
                R("targetJobID", I64), R("sourceJobID", I64), R("headerCanary", U8),
                R("steamID", I64), R("sessionID", I32)>>]

MsgGCHdr ==
  [emsg |-> 0,
   fields |-> <<F("headerVersion", U16, 1), F("targetJobID", U64, -1),
                F("sourceJobID", U64, -1)>>,
   writes |-> <<W("headerVersion", U16), W("targetJobID", U64), W("sourceJobID", U64)>>,
   reads  |-> <<R("headerVersion", I16), R("targetJobID", I64), R("sourceJobID", I64)>>]

-----------------------------------------------------------------------------
(* Message bodies.                                                         *)

MsgClientJustStrings == Empty(0)

MsgClientGenericResponse ==
  [emsg |-> 0,
   fields |-> <<F("result", I32, 0)>>,
   writes |-> <<W("result", I32)>>,
   reads  |-> <<R("result", I32)>>]

MsgChannelEncryptRequest ==
  [emsg |-> 1303,
   fields |-> <<F("protocolVersion", U32, 1), F("universe", I32, 0)>>,
   writes |-> <<W("protocolVersion", U32), W("universe", I32)>>,
   reads  |-> <<R("protocolVersion", I32), R("universe", I32)>>]

MsgChannelEncryptResponse ==
  [emsg |-> 1304,
   fields |-> <<F("protocolVersion", U32, 1), F("keySize", U32, 128)>>,
   writes |-> <<W("protocolVersion", U32), W("keySize", U32)>>,
   reads  |-> <<R("protocolVersion", I32), R("keySize", I32)>>]

MsgChannelEncryptResult ==
  [emsg |-> 1305,
   fields |-> <<F("result", I32, 0)>>,
   writes |-> <<W("result", I32)>>,
   reads  |-> <<R("result", I32)>>]

MsgClientLogon == Empty(5514)

MsgClientVACBanStatus ==
  [emsg |-> 782,
   fields |-> <<F("numBans", U32, 0)>>,
   writes |-> <<W("numBans", U32)>>,
   reads  |-> <<R("numBans", I32)>>]

MsgClientAppUsageEvent ==
  [emsg |-> 747,
   fields |-> <<F("appUsageEvent", I32, 0), F("gameID", U64, 0), F("offline", U16, 0)>>,
   writes |-> <<W("appUsageEvent", I32), W("gameID", U64), W("offline", U16)>>,
   reads  |-> <<R("appUsageEvent", I32), R("gameID", I64), R("offline", I16)>>]

MsgClientUpdateGuestPassesList ==
  [emsg |-> 798,
   fields |-> <<F("result", I32, 0), F("countGuestPassesToGive", I32, 0),
                F("countGuestPassesToRedeem", I32, 0)>>,
   writes |-> <<W("result", I32), W("countGuestPassesToGive", I32),
                W("countGuestPassesToRedeem", I32)>>,
   reads  |-> <<R("result", I32), R("countGuestPassesToGive", I32),
                R("countGuestPassesToRedeem", I32)>>]

MsgClientP2PIntroducerMessage ==
  [emsg |-> 813,
   fields |-> <<F("steamID", U64, 0), F("routingType", I32, 0),
                F("data", Bytes, 0), F("dataLen", U32, 0)>>,
   writes |-> <<W("steamID", U64), W("routingType", I32), W("data", Bytes),
                W("dataLen", U32)>>,
   reads  |-> <<R("steamID", I64), R("routingType", I32), R("data", Bytes),
                R("dataLen", I32)>>]

MsgClientOGSBeginSession ==
  [emsg |-> 5490,
   fields |-> <<F("accountType", U8, 0), F("accountId", U64, 0), F("appId", U32, 0),
                F("timeStarted", U32, 0)>>,
   writes |-> <<W("accountType", U8), W("accountId", U64), W("appId", U32),
                W("timeStarted", U32)>>,
   reads  |-> <<R("accountType", U8), R("accountId", I64), R("appId", I32),
                R("timeStarted", I32)>>]

MsgClientOGSBeginSessionResponse ==
  [emsg |-> 5491,
   fields |-> <<F("result", I32, 0), F("collectingAny", U8, 0),
                F("collectingDetails", U8, 0), F("sessionId", U64, 0)>>,
   writes |-> <<W("result", I32), W("collectingAny", U8), W("collectingDetails", U8),
                W("sessionId", U64)>>,
   reads  |-> <<R("result", I32), R("collectingAny", U8), R("collectingDetails", U8),
                R("sessionId", I64)>>]

MsgClientOGSEndSession ==
  [emsg |-> 5492,
   fields |-> <<F("sessionId", U64, 0), F("timeEnded", U32, 0), F("reasonCode", I32, 0),
                F("countAttributes", I32, 0)>>,
   writes |-> <<W("sessionId", U64), W("timeEnded", U32), W("reasonCode", I32),
                W("countAttributes", I32)>>,
   reads  |-> <<R("sessionId", I64), R("timeEnded", I32), R("reasonCode", I32),
                R("countAttributes", I32)>>]

MsgClientOGSEndSessionResponse ==
  [emsg |-> 5493,
   fields |-> <<F("result", I32, 0)>>,
   writes |-> <<W("result", I32)>>,
   reads  |-> <<R("result", I32)>>]

MsgClientOGSWriteRow ==
  [emsg |-> 5494,
   fields |-> <<F("sessionId", U64, 0), F("countAttributes", I32, 0)>>,
   writes |-> <<W("sessionId", U64), W("countAttributes", I32)>>,
   reads  |-> <<R("sessionId", I64), R("countAttributes", I32)>>]

MsgClientGetFriendsWhoPlayGame ==
  [emsg |-> 5488,
   fields |-> <<F("gameId", U64, 0)>>,
   writes |-> <<W("gameId", U64)>>,
   reads  |-> <<R("gameId", I64)>>]

MsgClientGetFriendsWhoPlayGameResponse ==
  [emsg |-> 5489,
   fields |-> <<F("result", I32, 0), F("gameId", U64, 0), F("countFriends", U32, 0)>>,
   writes |-> <<W("result", I32), W("gameId", U64), W("countFriends", U32)>>,
   reads  |-> <<R("result", I32), R("gameId", I64), R("countFriends", I32)>>]

MsgGSPerformHardwareSurvey ==
  [emsg |-> 5440,
   fields |-> <<F("flags", U32, 0)>>,
   writes |-> <<W("flags", U32)>>,
   reads  |-> <<R("flags", I32)>>]

MsgGSGetPlayStatsResponse ==
  [emsg |-> 919,
   fields |-> <<F("result", I32, 0), F("rank", I32, 0), F("lifetimeConnects", U32, 0),
                F("lifetimeMinutesPlayed", U32, 0)>>,
   writes |-> <<W("result", I32), W("rank", I32), W("lifetimeConnects", U32),
                W("lifetimeMinutesPlayed", U32)>>,
   reads  |-> <<R("result", I32), R("rank", I32), R("lifetimeConnects", I32),
                R("lifetimeMinutesPlayed", I32)>>]

MsgGSGetReputationResponse ==
  [emsg |-> 937,
   fields |-> <<F("result", I32, 0), F("reputationScore", U32, 0), F("banned", U8, 0),
                F("bannedIp", U32, 0), F("bannedPort", U16, 0),
                F("bannedGameId", U64, 0), F("timeBanExpires", U32, 0)>>,
   writes |-> <<W("result", I32), W("reputationScore", U32), W("banned", U8),
                W("bannedIp", U32), W("bannedPort", U16), W("bannedGameId", U64),
                W("timeBanExpires", U32)>>,
   reads  |-> <<R("result", I32), R("reputationScore", I32), R("banned", U8),
                R("bannedIp", I32), R("bannedPort", I16), R("bannedGameId", I64),
                R("timeBanExpires", I32)>>]

MsgGSDeny ==
  [emsg |-> 759,
   fields |-> <<F("steamId", U64, 0), F("denyReason", I32, 0)>>,
   writes |-> <<W("steamId", U64), W("denyReason", I32)>>,
   reads  |-> <<R("steamId", I64), R("denyReason", I32)>>]

MsgGSApprove ==
  [emsg |-> 758,
   fields |-> <<F("steamId", U64, 0)>>,
   writes |-> <<W("steamId", U64)>>,
   reads  |-> <<R("steamId", I64)>>]

MsgGSKick ==
  [emsg |-> 760,
   fields |-> <<F("steamId", U64, 0), F("denyReason", I32, 0),
                F("waitTilMapChange", I32, 0)>>,
   writes |-> <<W("steamId", U64), W("denyReason", I32), W("waitTilMapChange", I32)>>,
   reads  |-> <<R("steamId", I64), R("denyReason", I32), R("waitTilMapChange", I32)>>]

MsgGSGetUserGroupStatus ==
  [emsg |-> 920,
   fields |-> <<F("steamIdUser", U64, 0), F("steamIdGroup", U64, 0)>>,
   writes |-> <<W("steamIdUser", U64), W("steamIdGroup", U64)>>,
   reads  |-> <<R("steamIdUser", I64), R("steamIdGroup", I64)>>]

MsgGSGetUserGroupStatusResponse ==
  [emsg |-> 923,
   fields |-> <<F("steamIdUser", U64, 0), F("steamIdGroup", U64, 0),
                F("clanRelationship", I32, 0), F("clanRank", I32, 0)>>,
   writes |-> <<W("steamIdUser", U64), W("steamIdGroup", U64),
                W("clanRelationship", I32), W("clanRank", I32)>>,
   reads  |-> <<R("steamIdUser", I64), R("steamIdGroup", I64),
                R("clanRelationship", I32), R("clanRank", I32)>>]

MsgClientJoinChat ==
  [emsg |-> 801,
   fields |-> <<F("steamIdChat", U64, 0), F("isVoiceSpeaker", U8, 0)>>,
   writes |-> <<W("steamIdChat", U64), W("isVoiceSpeaker", U8)>>,
   reads  |-> <<R("steamIdChat", I64), R("isVoiceSpeaker", U8)>>]

MsgClientChatEnter ==
  [emsg |-> 807,
   fields |-> <<F("steamIdChat", U64, 0), F("steamIdFriend", U64, 0),
                F("chatRoomType", I32, 0), F("steamIdOwner", U64, 0),
                F("steamIdClan", U64, 0), F("chatFlags", U8, 0),
                F("enterResponse", I32, 0), F("numMembers", I32, 0)>>,
   writes |-> <<W("steamIdChat", U64), W("steamIdFriend", U64), W("chatRoomType", I32),
                W("steamIdOwner", U64), W("steamIdClan", U64), W("chatFlags", U8),
                W("enterResponse", I32), W("numMembers", I32)>>,
   reads  |-> <<R("steamIdChat", I64), R("steamIdFriend", I64), R("chatRoomType", I32),
                R("steamIdOwner", I64), R("steamIdClan", I64), R("chatFlags", U8),
                R("enterResponse", I32), R("numMembers", I32)>>]

MsgClientChatMsg ==
  [emsg |-> 799,
   fields |-> <<F("steamIdChatter", U64, 0), F("steamIdChatRoom", U64, 0),
                F("chatMsgType", I32, 0)>>,
   writes |-> <<W("steamIdChatter", U64), W("steamIdChatRoom", U64),
                W("chatMsgType", I32)>>,
   reads  |-> <<R("steamIdChatter", I64), R("steamIdChatRoom", I64),
                R("chatMsgType", I32)>>]

MsgClientChatMemberInfo ==
  [emsg |-> 802,
   fields |-> <<F("steamIdChat", U64, 0), F("type", I32, 0)>>,
   writes |-> <<W("steamIdChat", U64), W("type", I32)>>,
   reads  |-> <<R("steamIdChat", I64), R("type", I32)>>]

MsgClientChatAction ==
  [emsg |-> 597,
   fields |-> <<F("steamIdChat", U64, 0), F("steamIdUserToActOn", U64, 0),
                F("chatAction", I32, 0)>>,
   writes |-> <<W("steamIdChat", U64), W("steamIdUserToActOn", U64),
                W("chatAction", I32)>>,
   reads  |-> <<R("steamIdChat", I64), R("steamIdUserToActOn", I64),
                R("chatAction", I32)>>]

MsgClientChatActionResult ==
  [emsg |-> 814,
   fields |-> <<F("steamIdChat", U64, 0), F("steamIdUserActedOn", U64, 0),
                F("chatAction", I32, 0), F("actionResult", I32, 0)>>,
   writes |-> <<W("steamIdChat", U64), W("steamIdUserActedOn", U64),
                W("chatAction", I32), W("actionResult", I32)>>,
   reads  |-> <<R("steamIdChat", I64), R("steamIdUserActedOn", I64),
                R("chatAction", I32), R("actionResult", I32)>>]

MsgClientChatRoomInfo ==
  [emsg |-> 4026,
   fields |-> <<F("steamIdChat", U64, 0), F("type", I32, 0)>>,
   writes |-> <<W("steamIdChat", U64), W("type", I32)>>,
   reads  |-> <<R("steamIdChat", I64), R("type", I32)>>]

MsgClientSetIgnoreFriend ==
  [emsg |-> 855,
   fields |-> <<F("mySteamId", U64, 0), F("steamIdFriend", U64, 0), F("ignore", U8, 0)>>,
   writes |-> <<W("mySteamId", U64), W("steamIdFriend", U64), W("ignore", U8)>>,
   reads  |-> <<R("mySteamId", I64), R("steamIdFriend", I64), R("ignore", U8)>>]

MsgClientSetIgnoreFriendResponse ==
  [emsg |-> 856,
   fields |-> <<F("friendId", U64, 0), F("result", I32, 0)>>,
   writes |-> <<W("friendId", U64), W("result", I32)>>,
   reads  |-> <<R("friendId", I64), R("result", I32)>>]

MsgClientLoggedOff ==
  [emsg |-> 757,
   fields |-> <<F("result", I32, 0), F("secMinReconnectHint", I32, 0),
                F("secMaxReconnectHint", I32, 0)>>,
   writes |-> <<W("result", I32), W("secMinReconnectHint", I32),
                W("secMaxReconnectHint", I32)>>,
   reads  |-> <<R("result", I32), R("secMinReconnectHint", I32),
                R("secMaxReconnectHint", I32)>>]

MsgClientLogOnResponse ==
  [emsg |-> 751,
   fields |-> <<F("result", I32, 0), F("outOfGameHeartbeatRateSec", I32, 0),
                F("inGameHeartbeatRateSec", I32, 0), F("clientSuppliedSteamId", U64, 0),
                F("ipPublic", U32, 0), F("serverRealTime", U32, 0)>>,
   writes |-> <<W("result", I32), W("outOfGameHeartbeatRateSec", I32),
                W("inGameHeartbeatRateSec", I32), W("clientSuppliedSteamId", U64),
                W("ipPublic", U32), W("serverRealTime", U32)>>,
   reads  |-> <<R("result", I32), R("outOfGameHeartbeatRateSec", I32),
                R("inGameHeartbeatRateSec", I32), R("clientSuppliedSteamId", I64),
                R("ipPublic", I32), R("serverRealTime", I32)>>]

MsgClientServerUnavailable ==
  [emsg |-> 5500,
   fields |-> <<F("jobidSent", U64, 0), F("eMsgSent", U32, 0),
                F("eServerTypeUnavailable", I32, 0)>>,
   writes |-> <<W("jobidSent", U64), W("eMsgSent", U32),
                W("eServerTypeUnavailable", I32)>>,
   reads  |-> <<R("jobidSent", I64), R("eMsgSent", I32),
                R("eServerTypeUnavailable", I32)>>]

MsgClientCreateChat ==
  [emsg |-> 809,
   fields |-> <<F("chatRoomType", I32, 0), F("gameId", U64, 0),
                F("steamIdClan", U64, 0), F("permissionOfficer", I32, 282),
                F("permissionMember", I32, 282), F("permissionAll", I32, 891),
                F("membersMax", U32, 0), F("chatFlags", U8, 0),
                F("steamIdFriendChat", U64, 0), F("steamIdInvited", U64, 0)>>,
   writes |-> <<W("chatRoomType", I32), W("gameId", U64), W("steamIdClan", U64),
                W("permissionOfficer", I32), W("permissionMember", I32),
                W("permissionAll", I32), W("membersMax", U32), W("chatFlags", U8),
                W("steamIdFriendChat", U64), W("steamIdInvited", U64)>>,
   reads  |-> <<R("chatRoomType", I32), R("gameId", I64), R("steamIdClan", I64),
                R("permissionOfficer", I32), R("permissionMember", I32),
                R("permissionAll", I32), R("membersMax", I32), R("chatFlags", U8),
                R("steamIdFriendChat", I64), R("steamIdInvited", I64)>>]

MsgClientCreateChatResponse ==
  [emsg |-> 810,
   fields |-> <<F("result", I32, 0), F("steamIdChat", U64, 0),
                F("chatRoomType", I32, 0), F("steamIdFriendChat", U64, 0)>>,
   writes |-> <<W("result", I32), W("steamIdChat", U64), W("chatRoomType", I32),
                W("steamIdFriendChat", U64)>>,
   reads  |-> <<R("result", I32), R("steamIdChat", I64), R("chatRoomType", I32),
                R("steamIdFriendChat", I64)>>]

MsgClientMarketingMessageUpdate2 ==
  [emsg |-> 5510,
   fields |-> <<F("marketingMessageUpdateTime", U32, 0), F("count", U32, 0)>>,
   writes |-> <<W("marketingMessageUpdateTime", U32), W("count", U32)>>,
   reads  |-> <<R("marketingMessageUpdateTime", I32), R("count", I32)>>]

MsgClientGetLegacyGameKey ==
  [emsg |-> 730,
   fields |-> <<F("appId", U32, 0)>>,
   writes |-> <<W("appId", U32)>>,
   reads  |-> <<R("appId", I32)>>]

MsgClientGetLegacyGameKeyResponse ==
  [emsg |-> 785,
   fields |-> <<F("appId", U32, 0), F("result", I32, 0), F("length", U32, 0)>>,
   writes |-> <<W("appId", U32), W("result", I32), W("length", U32)>>,
   reads  |-> <<R("appId", I32), R("result", I32), R("length", I32)>>]

-----------------------------------------------------------------------------
\* The structures that are not the body of a message.
Headers ==
  {UdpHeader, ChallengeData, ConnectData, Accept, Datagram, Disconnect,
   MsgHdr, ExtendedClientMsgHdr, MsgGCHdr}

\* The structures that implement ISteamSerializableMessage.
Bodies ==
  {MsgClientJustStrings, MsgClientGenericResponse, MsgChannelEncryptRequest,
   MsgChannelEncryptResponse, MsgChannelEncryptResult, MsgClientLogon,
   MsgClientVACBanStatus, MsgClientAppUsageEvent,
   MsgClientUpdateGuestPassesList, MsgClientP2PIntroducerMessage,
   MsgClientOGSBeginSession, MsgClientOGSBeginSessionResponse,
   MsgClientOGSEndSession, MsgClientOGSEndSessionResponse,
   MsgClientOGSWriteRow, MsgClientGetFriendsWhoPlayGame,
   MsgClientGetFriendsWhoPlayGameResponse, MsgGSPerformHardwareSurvey,
   MsgGSGetPlayStatsResponse, MsgGSGetReputationResponse, MsgGSDeny,
   MsgGSApprove, MsgGSKick, MsgGSGetUserGroupStatus,
   MsgGSGetUserGroupStatusResponse, MsgClientJoinChat, MsgClientChatEnter,
   MsgClientChatMsg, MsgClientChatMemberInfo, MsgClientChatAction,
   MsgClientChatActionResult, MsgClientChatRoomInfo, MsgClientSetIgnoreFriend,
   MsgClientSetIgnoreFriendResponse, MsgClientLoggedOff,
   MsgClientLogOnResponse, MsgClientServerUnavailable, MsgClientCreateChat,
   MsgClientCreateChatResponse, MsgClientMarketingMessageUpdate2,
   MsgClientGetLegacyGameKey, MsgClientGetLegacyGameKeyResponse}
=============================================================================
