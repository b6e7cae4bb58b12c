----------------------------- MODULE MCHandlers -----------------------------
(* The handlers of every family on the runtime, and the handlers each       *)
(* property is not checked for. A handler is in a set when the model has a  *)
(* run of it that lacks the property; choices that depend on data are open  *)
(* in the model, so that some of these runs need an answer that the data    *)
(* rules out.                                                               *)
EXTENDS HandlerRuntime, RemoteHandlers, FileHandlers, SqlHandlers,
        StoreHandlers, MessagingHandlers, EmailHandlers, WebHandlers,
        NetworkHandlers, AccessHandlers, MediaHandlers, SpecialtyHandlers,
        SessionHandlers, TLC

MCProgram ==
  RemoteProgram @@
  FileProgram @@
  SqlProgram @@
  StoreProgram @@
  MessagingProgram @@
  EmailProgram @@
  WebProgram @@
  NetworkProgram @@
  AccessProgram @@
  MediaProgram @@
  SpecialtyProgram @@
  SessionProgram

(* The timer of the handler wins and the call that lost waits for a silent  *)
(* peer before its close(); or an early return, a timeout outside the try   *)
(* that closes, or a releaseLock() that throws leaves the socket open.      *)
MayLeaveOpen ==
  {"handle9PConnect", "handle9PLs", "handle9PRead", "handle9PStat",
   "handleAFPConnect", "handleAFPGetServerInfo", "handleAFPOpenSession",
   "handleAJPConnect", "handleAJPRequest", "handleAMICliCommand",
   "handleAMIHangup", "handleAMIOriginate", "handleAMISendText",
   "handleAMQPBind", "handleAMQPConfirmPublish", "handleAMQPConnect",
   "handleAMQPConsume", "handleAMQPGet", "handleAMQPPublish",
   "handleAMQPSConsume", "handleAMQPSPublish",
   "handleActiveMQDurableSubscribe", "handleActiveMQQueues",
   "handleBGPAnnounce", "handleBGPConnect", "handleBGPRouteTable",
   "handleBitTorrentHandshake", "handleBitTorrentPiece",
   "handleBitcoinConnect", "handleBitcoinGetAddr", "handleBitcoinMempool",
   "handleCDPHealth", "handleCDPQuery", "handleCassandraConnect",
   "handleCassandraPrepare", "handleCassandraQuery", "handleCephClusterInfo",
   "handleCephConnect", "handleCephProbe", "handleClamAVPing",
   "handleClamAVStats", "handleClamAVVersion", "handleCoAPBlockGet",
   "handleCoAPObserve", "handleDAPHealth", "handleDCERPCConnect",
   "handleDCERPCEPMEnum", "handleDCERPCProbe", "handleDNP3Connect",
   "handleDNP3Read", "handleDNP3SelectOperate", "handleDNSQuery",
   "handleDRDACall", "handleDRDAConnect", "handleDRDAExecute",
   "handleDRDALogin", "handleDRDAPreparex", "handleDRDAProbe",
   "handleDRDAQuery", "handleDiameterACR", "handleDiameterAuth",
   "handleDiameterConnect", "handleDiameterSTR", "handleDiameterWatchdog",
   "handleDoTQuery", "handleEchoWebSocket", "handleEtherNetIPCIPRead",
   "handleEtherNetIPGetAttributeAll", "handleEtherNetIPIdentity",
   "handleEtherNetIPListServices", "handleEtherNetIPSetAttribute",
   "handleFINSConnect", "handleFINSMemoryRead", "handleFINSMemoryWrite",
   "handleFTPDownload", "handleFTPList", "handleFTPNlst", "handleFTPSConnect",
   "handleFTPSDelete", "handleFTPSDownload", "handleFTPSList",
   "handleFTPSLogin", "handleFTPSMkdir", "handleFTPSRename",
   "handleFTPSUpload", "handleFTPUpload", "handleFastCGIProbe",
   "handleFastCGIRequest", "handleFirebirdAuth", "handleFirebirdProbe",
   "handleFirebirdQuery", "handleFirebirdVersion", "handleGPSDWatch",
   "handleGaduGaduContacts", "handleGaduGaduSendMessage",
   "handleGangliaConnect", "handleGangliaProbe", "handleGelfProbe",
   "handleGelfSend", "handleGitFetch", "handleGitRefs",
   "handleGrafanaAlertRules", "handleGrafanaAnnotationCreate",
   "handleGrafanaDashboard", "handleGrafanaDashboardCreate",
   "handleGrafanaDashboards", "handleGrafanaDatasources",
   "handleGrafanaFolders", "handleGrafanaHealth", "handleGrafanaOrg",
   "handleGraphiteSend", "handleH323Capabilities", "handleH323Connect",
   "handleH323Info", "handleH323Register", "handleHL7ADT_A08",
   "handleHL7Connect", "handleHL7Query", "handleHL7Send", "handleHSRPCoup",
   "handleHSRPv2Probe", "handleHTTPProxyConnect", "handleHTTPProxyProbe",
   "handleHazelcastMapDelete", "handleHazelcastMapGet",
   "handleHazelcastMapSet", "handleHazelcastProbe",
   "handleHazelcastQueueOffer", "handleHazelcastQueuePoll",
   "handleHazelcastSetAdd", "handleHazelcastSetContains",
   "handleHazelcastSetRemove", "handleHazelcastTopicPublish",
   "handleIEC104Probe", "handleIEC104ReadData", "handleIEC104Write",
   "handleIMAPConnect", "handleIMAPList", "handleIMAPSConnect",
   "handleIMAPSList", "handleIMAPSSelect", "handleIMAPSSession",
   "handleIMAPSelect", "handleIMAPSession", "handleIPMIConnect",
   "handleIPMIGetAuthCaps", "handleIPMIGetDeviceID", "handleIRCConnect",
   "handleIRCSConnect", "handleIRCSWebSocket", "handleISCSIDiscover",
   "handleISCSILogin", "handleIcecastSource", "handleIgniteCacheGet",
   "handleIgniteCachePut", "handleIgniteCacheRemove", "handleIgniteConnect",
   "handleIgniteListCaches", "handleIgniteProbe", "handleJetDirectConnect",
   "handleJetDirectPrint", "handleJsonRpcWs", "handleKafkaApiVersions",
   "handleKafkaDescribeGroups", "handleKafkaFetch", "handleKafkaListGroups",
   "handleKafkaListOffsets", "handleKafkaMetadata",
   "handleKafkaProduceMessage", "handleKerberosConnect",
   "handleKerberosSPNCheck", "handleKerberosUserEnum", "handleKibanaAlerts",
   "handleKibanaIndexPatterns", "handleKibanaQuery",
   "handleKibanaSavedObjects", "handleKibanaStatus", "handleL2TPSession",
   "handleL2TPStartControl", "handleLDAPAdd", "handleLDAPConnect",
   "handleLDAPDelete", "handleLDAPModify", "handleLDAPPagedSearch",
   "handleLDAPSAdd", "handleLDAPSConnect", "handleLDAPSDelete",
   "handleLDAPSModify", "handleLDAPSPagedSearch", "handleLDAPSSearch",
   "handleLDAPSearch", "handleLDPConnect", "handleLDPLabelMap",
   "handleLDPProbe", "handleLLMNRScan", "handleLMTPConnect", "handleLMTPSend",
   "handleLPDPrint", "handleLPDProbe", "handleLPDQueue", "handleLPDRemove",
   "handleLSPSession", "handleLokiHealth", "handleLokiMetrics",
   "handleLokiQuery", "handleLokiRangeQuery", "handleLspConnect",
   "handleMDNSAnnounce", "handleMGCPAudit", "handleMGCPCallSetup",
   "handleMGCPCommand", "handleMQTTConnect", "handleMQTTPublish",
   "handleMQTTSession", "handleManageSieveDeleteScript",
   "handleManageSieveGetScript", "handleManageSievePutScript",
   "handleManageSieveSetActive", "handleMemcachedCommand",
   "handleMemcachedConnect", "handleMemcachedGets", "handleMemcachedSession",
   "handleMemcachedStats", "handleModbusConnect", "handleModbusRead",
   "handleModbusWriteCoil", "handleModbusWriteRegisters",
   "handleMongoDBConnect", "handleMongoDBPing", "handleMumbleAuth",
   "handleMumblePing", "handleMumbleProbe", "handleMumbleTextMessage",
   "handleMumbleVersion", "handleMuninConnect", "handleMuninFetch",
   "handleMySQLConnect", "handleMySQLQuery", "handleMySQLShowDatabases",
   "handleMySQLShowTables", "handleNATSConnect", "handleNATSJetStreamInfo",
   "handleNATSJetStreamPublish", "handleNATSJetStreamPull",
   "handleNATSJetStreamStream", "handleNATSPublish", "handleNATSRequest",
   "handleNATSSubscribe", "handleNBDConnect", "handleNBDProbe",
   "handleNBDRead", "handleNBDWrite", "handleNFSCreate", "handleNFSExports",
   "handleNFSGetAttr", "handleNFSLookup", "handleNFSMkdir", "handleNFSProbe",
   "handleNFSRead", "handleNFSReaddir", "handleNFSRemove", "handleNFSRename",
   "handleNFSRmdir", "handleNFSWrite", "handleNSQConnect",
   "handleNSQDeferredPublish", "handleNSQMultiPublish", "handleNSQPublish",
   "handleNSQSubscribe", "handleNTPPoll", "handleNeo4jConnect",
   "handleNeo4jCreate", "handleNeo4jQuery", "handleNeo4jQueryParams",
   "handleNeo4jSchema", "handleNetBIOSConnect", "handleNetBIOSNameQuery",
   "handleNetBIOSProbe", "handleNodeInspectorHealth",
   "handleNodeInspectorQuery", "handleOPCUAEndpoints", "handleOPCUAHello",
   "handleOPCUARead", "handleOSCARAuth", "handleOSCARLogin",
   "handleOSCARPing", "handleOSCARProbe", "handleOSCARSendIM",
   "handleOpenFlowEcho", "handleOpenFlowProbe", "handleOpenFlowStats",
   "handleOpenTSDBPut", "handleOpenTSDBStats", "handleOpenTSDBSuggest",
   "handleOpenTSDBVersion", "handleOpenVPNHandshake",
   "handleOpenVPNTLSHandshake", "handleOracleConnect", "handleOracleQuery",
   "handleOracleSQLQuery", "handleOracleTNSConnect", "handleOracleTNSProbe",
   "handleOracleTNSServices", "handlePCEPCompute", "handlePCEPConnect",
   "handlePCEPProbe", "handlePJLinkPower", "handlePJLinkProbe",
   "handlePOP3Capa", "handlePOP3Connect", "handlePOP3Dele", "handlePOP3List",
   "handlePOP3Retrieve", "handlePOP3SCapa", "handlePOP3SConnect",
   "handlePOP3SDele", "handlePOP3SList", "handlePOP3SRetrieve",
   "handlePOP3STop", "handlePOP3SUidl", "handlePOP3Top", "handlePOP3Uidl",
   "handlePPTPCallSetup", "handlePPTPConnect", "handlePPTPStartControl",
   "handlePostgreSQLConnect", "handlePostgreSQLQuery",
   "handlePostgresDescribe", "handlePostgresListen", "handlePostgresNotify",
   "handleRDPConnect", "handleRDPNLAProbe", "handleRDPNegotiate",
   "handleRELPBatch", "handleRIPAuthUpdate", "handleRIPMD5Update",
   "handleRIPSend", "handleRIPUpdate", "handleRMIInvoke", "handleRTMPConnect",
   "handleRTMPPlay", "handleRTMPPublish", "handleRTSPSession",
   "handleRadiusAccounting", "handleRadiusAuth", "handleRadiusProbe",
   "handleRedisCommand", "handleRedisConnect", "handleRelpConnect",
   "handleRelpSend", "handleRethinkDBConnect", "handleRethinkDBInsert",
   "handleRethinkDBListTables", "handleRethinkDBProbe",
   "handleRethinkDBQuery", "handleRethinkDBServerInfo",
   "handleRethinkDBTableCreate", "handleRexecExecute", "handleRexecWebSocket",
   "handleRloginBanner", "handleRloginConnect", "handleRloginWebSocket",
   "handleRshExecute", "handleRshProbe", "handleRshTrustScan",
   "handleRshWebSocket", "handleRtspDescribe", "handleRtspOptions",
   "handleSANEGetDevices", "handleSANEOpen", "handleSANEOptions",
   "handleSANEProbe", "handleSANEScan", "handleSCCPCallSetup",
   "handleSCCPLineState", "handleSCCPProbe", "handleSCCPRegister",
   "handleSCPConnect", "handleSCPGet", "handleSCPList", "handleSCPPut",
   "handleSFTPConnect", "handleSFTPStat", "handleSHOUTcastAdmin",
   "handleSHOUTcastSource", "handleSLPAttributes", "handleSLPServiceFind",
   "handleSLPServiceTypes", "handleSMBConnect", "handleSMBNegotiate",
   "handleSMBSession", "handleSMBStat", "handleSMBTreeConnect",
   "handleSMPPConnect", "handleSMPPProbe", "handleSMPPQuery",
   "handleSMPPSubmit", "handleSMTPConnect", "handleSMTPSConnect",
   "handleSMTPSSend", "handleSMTPSend", "handleSOCKS4Connect",
   "handleSPDYConnect", "handleSPDYH2Probe", "handleSSHConnect",
   "handleSVNInfo", "handleSVNList", "handleSentinelFailover",
   "handleSentinelGet", "handleSentinelGetMasterAddr", "handleSentinelProbe",
   "handleSentinelQuery", "handleSentinelReset", "handleSentinelSet",
   "handleShadowsocksProbe", "handleSipInvite", "handleSipsDigestAuth",
   "handleSocks5Connect", "handleSocks5Relay", "handleSonicPush",
   "handleSonicQuery", "handleSonicSuggest", "handleStunBinding",
   "handleStunProbe", "handleSubmissionConnect", "handleSubmissionSend",
   "handleTDSConnect", "handleTDSLogin", "handleTDSQuery",
   "handleTacacsAuthenticate", "handleTacacsProbe", "handleTarantoolConnect",
   "handleTarantoolEval", "handleTarantoolSQL", "handleTcpSend",
   "handleTelnetConnect", "handleTelnetLogin", "handleTelnetNegotiate",
   "handleTelnetWebSocket", "handleThriftCall", "handleThriftProbe",
   "handleTorControlGetInfo", "handleTorControlProbe",
   "handleTorControlSignal", "handleUwsgiProbe", "handleUwsgiRequest",
   "handleVNCAuth", "handleVNCConnect", "handleVarnishBan",
   "handleVarnishParam", "handleVaultSecretWrite", "handleWebSocketProbe",
   "handleWhoisIP", "handleWhoisLookup", "handleWinRMAuth",
   "handleWinRMIdentify", "handleXMPPConnect", "handleXMPPLogin",
   "handleXMPPMessage", "handleXMPPRoster", "handleXMPPS2STlsDialback",
   "handleXmppS2SPing", "handleZMTPRecv", "handleZMTPSend",
   "handleZooKeeperCreate", "handleZooKeeperGet", "handleZooKeeperSet"}

(* A read follows one that timed out and is still outstanding.              *)
MayReadBehind ==
  {"handle9PConnect", "handle9PLs", "handle9PRead", "handle9PStat",
   "handleAFPCreateDir", "handleAFPCreateFile", "handleAFPDelete",
   "handleAFPGetInfo", "handleAFPListDir", "handleAFPReadFile",
   "handleAFPReadResourceFork", "handleAFPRename", "handleAFPWriteFile",
   "handleAMICliCommand", "handleAMICommand", "handleAMQPBind",
   "handleAMQPConfirmPublish", "handleAMQPConsume", "handleAMQPGet",
   "handleAMQPPublish", "handleAMQPSConsume", "handleAMQPSPublish",
   "handleBGPRouteTable", "handleBattlenetAuthInfo", "handleBeanstalkdKick",
   "handleBeanstalkdPut", "handleBeanstalkdReserve", "handleBitTorrentPiece",
   "handleBitcoinConnect", "handleBitcoinGetAddr", "handleBitcoinMempool",
   "handleCVSCheckout", "handleCVSList", "handleClickHouseNative",
   "handleDNSAXFR", "handleDRDACall", "handleEPPDomainCreate",
   "handleEPPDomainDelete", "handleEPPDomainInfo", "handleEPPDomainRenew",
   "handleEPPDomainUpdate", "handleEtherNetIPCIPRead",
   "handleEtherNetIPGetAttributeAll", "handleEtherNetIPSetAttribute",
   "handleFINSConnect", "handleFIXHeartbeat", "handleFIXOrder",
   "handleFTPList", "handleFTPSConnect", "handleFTPSDelete",
   "handleFTPSDownload", "handleFTPSList", "handleFTPSLogin",
   "handleFTPSMkdir", "handleFTPSRename", "handleFTPSUpload",
   "handleFastCGIRequest", "handleGPSDCommand", "handleGPSDDevices",
   "handleGPSDPoll", "handleGPSDWatch", "handleGaduGaduContacts",
   "handleGearmanConnect", "handleGearmanSubmit", "handleH323Capabilities",
   "handleH323Connect", "handleHTTPHead", "handleHTTPOptions",
   "handleHTTPRequest", "handleHazelcastMapDelete", "handleHazelcastMapGet",
   "handleHazelcastMapSet", "handleHazelcastProbe",
   "handleHazelcastQueueOffer", "handleHazelcastQueuePoll",
   "handleHazelcastSetAdd", "handleHazelcastSetContains",
   "handleHazelcastSetRemove", "handleHazelcastTopicPublish",
   "handleIEC104Probe", "handleIEC104ReadData", "handleIMAPSSession",
   "handleIMAPSession", "handleIPFSProbe", "handleIgniteCacheGet",
   "handleIgniteCachePut", "handleIgniteCacheRemove",
   "handleIgniteListCaches", "handleInformixQuery", "handleJDWPThreads",
   "handleJDWPVersion", "handleJabberComponentRoster",
   "handleJabberComponentSend", "handleL2TPSession", "handleLDPLabelMap",
   "handleLPDPrint", "handleLSPSession", "handleMMSDescribe",
   "handleMMSNameList", "handleMMSProbe", "handleMMSRead",
   "handleMSNClientVersion", "handleMSNLogin", "handleMSNMD5Login",
   "handleManageSieveDeleteScript", "handleManageSieveGetScript",
   "handleManageSieveList", "handleManageSievePutScript",
   "handleManageSieveSetActive", "handleMemcachedSession",
   "handleMsrpSession", "handleMumbleAuth", "handleMumblePing",
   "handleMumbleProbe", "handleMumbleTextMessage", "handleMumbleVersion",
   "handleMuninConnect", "handleMuninFetch", "handleNATSJetStreamInfo",
   "handleNATSJetStreamPublish", "handleNATSJetStreamPull",
   "handleNATSJetStreamStream", "handleNATSRequest", "handleNATSSubscribe",
   "handleNNTPConnect", "handleNNTPSConnect", "handleNapsterBrowse",
   "handleNapsterSearch", "handleNapsterStats", "handleNeo4jQuery",
   "handleNeo4jSchema", "handleOSCARAuth", "handleOSCARBuddyList",
   "handleOSCARLogin", "handleOSCARSendIM", "handleOpenFlowEcho",
   "handleOpenFlowProbe", "handleOpenFlowStats", "handleOpenVPNTLSHandshake",
   "handleOracleSQLQuery", "handlePerforceChanges", "handlePerforceDescribe",
   "handlePerforceLogin", "handlePostgresListen", "handleRCONCommand",
   "handleRMIInvoke", "handleRMIList", "handleRTSPSession",
   "handleRealAudioSession", "handleRealAudioSetup", "handleRserveEval",
   "handleSANEGetDevices", "handleSANEOpen", "handleSANEOptions",
   "handleSANEScan", "handleSCCPCallSetup", "handleSCCPLineState",
   "handleSMBSession", "handleSMBStat", "handleSMBTreeConnect",
   "handleSNMPWalk", "handleSPICEChannels", "handleSPICEConnect",
   "handleSVNInfo", "handleSVNList", "handleSipInvite",
   "handleSipsDigestAuth", "handleSipsRegister", "handleStompSend",
   "handleStompSubscribe", "handleTelnetLogin", "handleTelnetNegotiate",
   "handleTorControlGetInfo", "handleTorControlSignal", "handleUUCPHandshake",
   "handleVarnishBan", "handleVarnishCommand", "handleVarnishParam",
   "handleWebSocketProbe", "handleX11QueryTree", "handleXMPPLogin",
   "handleXMPPMessage", "handleXMPPRoster", "handleXMPPS2STlsDialback",
   "handleYMSGAuth", "handleYMSGLogin", "handleZMTPHandshake",
   "handleZMTPRecv", "handleZMTPSend"}

(* A wait for the peer has no timer.                                        *)
MayWaitForever ==
  {"handleAFPCreateDir", "handleAFPCreateFile", "handleAFPDelete",
   "handleAFPGetInfo", "handleAFPListDir", "handleAFPLogin",
   "handleAFPReadFile", "handleAFPReadResourceFork", "handleAFPRename",
   "handleAFPWriteFile", "handleAMQPSConnect", "handleCVSCheckout",
   "handleCVSConnect", "handleCVSList", "handleCVSLogin",
   "handleEchoWebSocket", "handleFTPDownload", "handleFTPList",
   "handleFTPNlst", "handleFTPSDownload", "handleFTPSList",
   "handleFTPSUpload", "handleFTPUpload", "handleGrafanaAnnotationCreate",
   "handleGrafanaDashboardCreate", "handleH323Capabilities",
   "handleIMAPSSession", "handleIMAPSession", "handleMQTTSession",
   "handleMemcachedSession", "handleRexecWebSocket", "handleRloginWebSocket",
   "handleRshWebSocket", "handleSFTPStat", "handleSSHConnect",
   "handleSSHExecute", "handleSipInvite", "handleSonicPing",
   "handleSonicProbe", "handleTelnetWebSocket", "handleVNCAuth",
   "handleVentriloStatus"}

(* A reader or a writer is asked for, or used, while its lock is elsewhere. *)
MayClash ==
  {"handleCDPTunnel", "handleCIFSList", "handleCIFSRead", "handleCIFSStat",
   "handleCIFSWrite", "handleDAPTunnel", "handleDRDACall",
   "handleDRDAExecute", "handleDRDAPreparex", "handleDRDAQuery",
   "handleHazelcastTopicPublish", "handleIRCConnect", "handleIRCSConnect",
   "handleIRCSWebSocket", "handleNodeInspectorTunnel", "handleXMPPLogin",
   "handleXMPPMessage", "handleXMPPRoster"}

(* Every session leaves its socket open, and waits for the server for ever, *)
(* when the browser leaves before the listener for that is installed; the   *)
(* run takes the browser to stay until then.                                *)
MCExcuses ==
  [SocketsClosed  |-> MayLeaveOpen,
   ReadsInOrder   |-> MayReadBehind,
   PeerWaitsTimed |-> MayWaitForever,
   LocksRespected |-> MayClash,
   BrowserStays   |-> DOMAIN SessionProgram]

-----------------------------------------------------------------------------
(* One handler by itself, excused from nothing: handleTcpSend of tcp.ts.    *)
TcpProgram == [handleTcpSend |-> handleTcpSend]
NoExcuses  == << >>

=============================================================================
