-------------------------- MODULE SessionHandlers --------------------------
(* The handlers that answer with a WebSocket and then run a session between *)
(* the browser and a server, apart from those that have a module of their   *)
(* own (Tunnel, SshTerminal, RedisSession, IrcSession).                     *)
EXTENDS StoreHandlers, MessagingHandlers, EmailHandlers

(* Credentials come in the first message.  Seven sessions wait for them     *)
(* with the same lines: a promise, a timer of 15 s and a listener.          *)
credentialPromise ==
  Call(<< Task("credentialPromise", << Signal >>),
          Task("authTimer", << Sleep, Send, CloseWeb, Reject("credentialPromise") >>),
          Listen("message", "onAuth",
                 << Maybe(<< ClearTimer("authTimer"), Unlisten("onAuth"), Resolve("credentialPromise") >>) >>) >>)

(* Bytes from the server are sent on to the browser; at the end of them the *)
(* WebSocket is closed.                                                     *)
ForwardsOutput ==
  Loose(<< TryCatchFinally(<< Forever(<< Read("socket"), When(GotEnd, << Break >>), Send >>) >>,
                           << >>, << CloseWeb >>) >>)
ForwardsInput  == Listen("message", "none", << Maybe(<< Write("socket") >>) >>)
ReleasesAll    == Listen("close", "none", << FreeWriter("socket"), FreeReader("socket"), CloseQuietly("socket") >>)

-----------------------------------------------------------------------------
\* src/src/worker/echo.ts

handleEchoWebSocket ==
  << MayReturn,
     Try(<< checkIfCloudflare, MayReturn, Accept, Connect("socket"),
            Loose(<< Try(<< Race(Opened("socket"), "throw"), GetWriter("socket"), GetReader("socket"),
                            ForwardsInput, ForwardsOutput, ReleasesAll >>,
                         << CloseWeb, CloseQuietly("socket") >>) >>),
            HandOver >>,
         << Return >>) >>

-----------------------------------------------------------------------------
\* src/src/worker/rlogin.ts, rsh.ts and rexec.ts

handleRloginWebSocket ==
  << MayReturn,
     Try(<< checkIfCloudflare, MayReturn, Accept, credentialPromise,
            Loose(<< Try(<< Join("credentialPromise"), Connect("socket"), Race(Opened("socket"), "throw"),
                            GetWriter("socket"), GetReader("socket"), Write("socket"), Write("socket"),
                            ForwardsOutput, ForwardsInput, ReleasesAll >>,
                         << CloseWeb >>) >>),
            HandOver >>,
         << Return >>) >>

handleRshWebSocket ==
  << MayReturn,
     Try(<< checkIfCloudflare, MayReturn, Accept, credentialPromise,
            Loose(<< Try(<< Join("credentialPromise"), Connect("socket"), Race(Opened("socket"), "throw"),
                            GetWriter("socket"), GetReader("socket"),
                            Write("socket"), Write("socket"), Write("socket"), Write("socket"),
                            ForwardsOutput, ForwardsInput, ReleasesAll >>,
                         << CloseWeb >>) >>),
            HandOver >>,
         << Return >>) >>

handleRexecWebSocket == handleRshWebSocket   \* the same steps

-----------------------------------------------------------------------------
\* src/src/worker/telnet.ts

(* The writes are chained: each waits for the one before it.                *)
pipeWebSocketToTelnet ==
  Call(<< Listen("message", "none",
                 << ThenElse("writeChain", "writeChain", << Try(<< Write("socket") >>, << CloseWeb >>) >>, << Throw >>) >>),
          Listen("close", "none",
                 << ThenElse("none", "writeChain", << FinishQuietly("socket") >>, << FinishQuietly("socket") >>) >>) >>)

pipeTelnetToWebSocket ==
  Loose(<< GetReader("socket"),
           TryCatchFinally(
             << Forever(<< Read("socket"), When(GotEnd, << CloseWeb, Break >>),
                           Maybe(<< ThenElse("writeChain", "writeChain", << Quietly(<< Write("socket") >>) >>, << Throw >>) >>),
                           Maybe(<< Send >>) >>) >>,
             << >>, << FreeReaderQuietly("socket"), CloseWeb >>) >>)

handleTelnetWebSocket ==
  << MayReturn,
     Try(<< checkIfCloudflare, MayReturn, Accept, Connect("socket"), Race(Opened("socket"), "throw"), Send,
            GetWriter("socket"), pipeWebSocketToTelnet, pipeTelnetToWebSocket, HandOver >>,
         << Return >>) >>

-----------------------------------------------------------------------------
\* src/src/worker/ssh.ts

(* writer.close().catch(...); socket.close().catch(...)                     *)
SocketCleanup == << Loose(<< FinishQuietly("socket") >>), CloseQuietly("socket") >>

pipeWebSocketToSocket ==
  Call(<< GetWriter("socket"),
          Listen("message", "none",
                 << Maybe(<< ThenElse("writeChain", "writeChain", << Write("socket") >>, SocketCleanup) >>) >>),
          Listen("close", "none", << ThenElse("none", "writeChain", SocketCleanup, SocketCleanup) >>),
          Listen("error", "none", SocketCleanup) >>)

pipeSocketToWebSocket ==
  Loose(<< GetReader("socket"),
           TryCatchFinally(
             << Forever(<< Loop(<< If(WebOpen, << Sleep >>, << Break >>) >>), If(WebOpen, << >>, << Break >>),
                           Read("socket"), When(GotEnd, << Break >>), Send >>) >>,
             << >>, << FreeReaderQuietly("socket"), CloseWeb, CloseQuietly("socket") >>) >>)

(* Without an upgrade it reads the server's banner; with one it connects,   *)
(* and pipes once the credentials have come, within 30 s.                   *)
handleSSHConnect ==
  << Try(<< Maybe(<< Await, MayReturn, checkIfCloudflare, MayReturn, Connect("socket"), Race(Opened("socket"), "throw"),
                     GetReader("socket"), TryFinally(<< Read("socket") >>, << FreeReaderQuietly("socket") >>),
                     Close("socket"), Return >>),
            MayReturn, checkIfCloudflare, MayReturn, Accept, Connect("socket"), Race(Opened("socket"), "throw"),
            Task("credentialTimeout", << Sleep, Quietly(<< Send >>), CloseWeb, CloseQuietly("socket") >>),
            Listen("message", "onCredentials",
                   << MayReturn,
                      Quietly(<< Maybe(<< Send, CloseWeb, CloseQuietly("socket"), Return >>),
                                 ClearTimer("credentialTimeout"), Unlisten("onCredentials"), Send,
                                 pipeWebSocketToSocket, pipeSocketToWebSocket >>) >>),
            HandOver >>,
         << Return >>) >>

-----------------------------------------------------------------------------
\* src/src/worker/cdp.ts and node-inspector.ts: a WebSocket inside the socket

readHttpHeaders(socket) ==
  Call(<< Forever(<< MayReturn, Read(socket), When(GotEnd, << Throw >>) >>) >>)

(* The frames of a chunk: text, close or ping.                              *)
HandlesFrames(pongs) ==
  Loop(<< Either(<< Send >>, << Either(<< CloseWeb, Return >>, pongs) >>) >>)

WritesAlone ==
  << GetWriter("cdpSocket"), TryFinally(<< Write("cdpSocket") >>, << FreeWriterQuietly("cdpSocket") >>) >>

handleCDPTunnel ==
  << MayReturn, checkIfCloudflare, MayReturn, Accept,
     Loose(<< Try(<< Connect("cdpSocket"), Opened("cdpSocket"),
                     GetWriter("cdpSocket"), Write("cdpSocket"), FreeWriter("cdpSocket"),
                     GetReader("cdpSocket"), readHttpHeaders("cdpSocket"), MayThrow, Send,
                     Listen("message", "none", << MayReturn, Quietly(WritesAlone) >>),
                     Loose(<< TryCatchFinally(
                                << Forever(<< When(WebLeft, << Break >>), HandlesFrames(WritesAlone),
                                              Read("cdpSocket"), When(GotEnd, << Break >>) >>) >>,
                                << CloseWeb >>, << FreeReaderQuietly("cdpSocket") >>) >>),
                     Listen("close", "none", << CloseQuietly("cdpSocket") >>) >>,
                  << Send, CloseWeb, When(HasSocket("cdpSocket"), << CloseQuietly("cdpSocket") >>) >>) >>),
     HandOver >>

readHandshakeResponse(socket) ==
  Call(<< Forever(<< Read(socket), When(GotEnd, << Break >>), MayReturn >>) >>)

WritesFrame(socket) == << GetWriter(socket), Write(socket), FreeWriter(socket) >>

handleNodeInspectorTunnel ==
  << MayReturn, checkIfCloudflare, MayReturn, Accept,
     Loose(<< Try(<< Connect("inspectorSocket"), Opened("inspectorSocket") >> \o WritesFrame("inspectorSocket") \o
                  << GetReader("inspectorSocket"), readHandshakeResponse("inspectorSocket"),
                     Maybe(<< FreeReader("inspectorSocket"), Throw >>), Await,
                     Maybe(<< FreeReader("inspectorSocket"), Throw >>), Send,
                     Listen("message", "none", << MayReturn, Quietly(WritesFrame("inspectorSocket")) >>),
                     Listen("close", "none", << CloseQuietly("inspectorSocket") >>),
                     Loose(<< TryCatchFinally(
                                << Forever(<< Read("inspectorSocket"), When(GotEnd, << Break >>), MayThrow,
                                              HandlesFrames(WritesFrame("inspectorSocket")) >>) >>,
                                << CloseWeb >>, << FreeReader("inspectorSocket") >>) >>) >>,
                  << Send, CloseWeb, When(HasSocket("inspectorSocket"), << CloseQuietly("inspectorSocket") >>) >>) >>),
     HandOver >>

-----------------------------------------------------------------------------
\* src/src/worker/dap.ts

handleDAPTunnel ==
  << MayReturn, checkIfCloudflare, MayReturn, Accept,
     Loose(<< Try(<< Connect("dapSocket"), Opened("dapSocket"), Send,
                     Listen("message", "none",
                            << MayReturn, Try(<< MayThrow >> \o WritesFrame("dapSocket"), << Send >>) >>),
                     Loose(<< GetReader("dapSocket"),
                              TryCatchFinally(
                                << Forever(<< Read("dapSocket"), When(GotEnd, << Break >>),
                                              Maybe(<< CloseWeb, Break >>), Loop(<< Send >>) >>) >>,
                                << CloseWeb >>, << FreeReader("dapSocket") >>) >>),
                     Listen("close", "none", << CloseQuietly("dapSocket") >>) >>,
                  << Send, CloseWeb, When(HasSocket("dapSocket"), << CloseQuietly("dapSocket") >>) >>) >>),
     HandOver >>

-----------------------------------------------------------------------------
\* src/src/worker/memcached.ts

handleMemcachedSession ==
  << MayReturn, checkIfCloudflare, MayReturn, Accept,
     Loose(<< Try(<< Connect("socket"), Opened("socket"), GetReader("socket"), GetWriter("socket"), Write("socket"),
                     readMemcachedResponse("socket"), Send,
                     Listen("message", "none",
                            << Try(<< MayThrow, MayReturn, Maybe(<< Send, Return >>), Write("socket"),
                                      Maybe(<< Write("socket") >>), readMemcachedResponse("socket"), Send >>,
                                   << Send >>) >>),
                     Listen("close", "none", << CloseQuietly("socket") >>) >>,
                  << Send, CloseWeb >>) >>),
     HandOver >>

-----------------------------------------------------------------------------
\* src/src/worker/imap.ts and imaps.ts

(* What is sent to the browser before the session gives up.                 *)
GivesUp == Maybe(<< Send, CloseWeb, Return >>)

IMAPGreeting == Forever(<< Read("socket"), When(GotEnd, << Break >>), MayBreak >>)

(* The commands of the browser are chained.                                 *)
IMAPCommands(command) ==
  Listen("message", "none",
         << ThenElse("commandChain", "commandChain",
                     << Try(<< MayThrow, Maybe(<< command, Send >>) >>, << Send >>) >>, << Throw >>) >>)

(* The listener for "close" sends LOGOUT while a command may be under way.  *)
handleIMAPSession ==
  << MayReturn, checkIfCloudflare, MayReturn, Accept, credentialPromise,
     Loose(<< Try(<< Join("credentialPromise"), GivesUp, Connect("socket"), Opened("socket"),
                     GetReader("socket"), GetWriter("socket"), IMAPGreeting, GivesUp,
                     sendIMAPCommand_imap("socket"), GivesUp, sendIMAPCommand_imap("socket"), Send,
                     IMAPCommands(sendIMAPCommand_imap("socket")),
                     Listen("close", "none",
                            << Quietly(<< sendIMAPCommand_imap("socket") >>), CloseQuietly("socket") >>) >>,
                  << Send, CloseWeb >>) >>),
     HandOver >>

(* The listener for "close" waits for the commands that are under way.      *)
handleIMAPSSession ==
  << MayReturn, checkIfCloudflare, MayReturn, Accept, credentialPromise,
     Loose(<< Try(<< Join("credentialPromise"), GivesUp, Connect("socket"), Opened("socket"),
                     GetReader("socket"), GetWriter("socket"), IMAPGreeting, GivesUp,
                     sendIMAPCommand_imaps("socket"), GivesUp, sendIMAPCommand_imaps("socket"), Send,
                     IMAPCommands(sendIMAPCommand_imaps("socket")),
                     Listen("close", "none",
                            << Quietly(<< JoinSettled({"commandChain"}), sendIMAPCommand_imaps("socket") >>),
                               CloseQuietly("socket") >>) >>,
                  << Send, CloseWeb >>) >>),
     HandOver >>

-----------------------------------------------------------------------------
\* src/src/worker/mqtt.ts

(* The packets of a chunk: a PUBLISH of QoS 1 is acknowledged first.        *)
MqttReadLoop ==
  Task("readLoop",
       << Forever(<< Read("socket"), When(GotEnd, << Break >>), Maybe(<< Send, Break >>),
                     Loop(<< Maybe(<< Quietly(<< Write("socket") >>) >>), Maybe(<< Send >>) >>) >>) >>)

MqttCommands ==
  Listen("message", "none",
         << ThenElse("writeChain", "writeChain",
                     << Try(<< MayThrow, Either(<< Maybe(<< Write("socket"), Maybe(<< Send >>) >>) >>,
                                                << Quietly(<< Write("socket") >>), CloseWeb >>) >>,
                            << Send >>) >>,
                     << Throw >>) >>)

handleMQTTSession ==
  << MayReturn, checkIfCloudflare, MayReturn, Accept, credentialPromise,
     Loose(<< Try(<< Join("credentialPromise"), mqttConnect("socket") >>, << Send, CloseWeb, Return >>),
              Try(<< Send, MqttReadLoop, MqttCommands,
                     Listen("close", "none", << Quietly(<< Write("socket") >>), CloseQuietly("socket") >>),
                     ThenElse("none", "readLoop", << CloseWeb >>, << CloseWeb >>) >>,
                  << Send, CloseWeb, CloseQuietly("socket") >>) >>),
     HandOver >>

-----------------------------------------------------------------------------
\* src/src/worker/ircs.ts

(* A line from the server: PING or AUTHENTICATE, CAP or 903, a refusal of   *)
(* SASL, the end of the welcome (which joins the channels), or another.     *)
IrcsLine ==
  Either(WritesFrame("socket"),
         << Either(<< Send >> \o WritesFrame("socket"),
                   << Either(<< Send, CloseWeb >>,
                             << Maybe(<< GetWriter("socket"), Loop(<< Write("socket") >>), FreeWriter("socket") >>) >>) >>) >>)

handleIRCSWebSocket ==
  << MayReturn,
     Try(<< checkIfCloudflare, MayReturn, Accept, credentialPromise,
            Loose(<< Try(<< Join("credentialPromise"), Connect("socket"), Race(Opened("socket"), "throw"), Send,
                            GetWriter("socket"), Maybe(<< Write("socket") >>),
                            Write("socket"), Write("socket"), Write("socket"), FreeWriter("socket"),
                            Listen("message", "none",
                                   << Try(<< Try(<< MayThrow, GetWriter("socket"), Maybe(<< Write("socket") >>),
                                                    FreeWriter("socket") >>,
                                                 WritesFrame("socket")) >>,
                                          << Send >>) >>),
                            Listen("close", "none", << Quietly(WritesFrame("socket")), CloseQuietly("socket") >>),
                            GetReader("socket"),
                            Quietly(<< Forever(<< Read("socket"), When(GotEnd, << Break >>),
                                                  Loop(<< IrcsLine, Send >>) >>) >>),
                            Send, CloseWeb >>,
                         << Send, CloseWeb >>) >>),
            HandOver >>,
         << Return >>) >>

-----------------------------------------------------------------------------
SessionProgram ==
  [handleEchoWebSocket |-> handleEchoWebSocket,
   handleRloginWebSocket |-> handleRloginWebSocket,
   handleRshWebSocket |-> handleRshWebSocket,
   handleRexecWebSocket |-> handleRexecWebSocket,
   handleTelnetWebSocket |-> handleTelnetWebSocket,
   handleSSHConnect |-> handleSSHConnect,
   handleCDPTunnel |-> handleCDPTunnel,
   handleNodeInspectorTunnel |-> handleNodeInspectorTunnel,
   handleDAPTunnel |-> handleDAPTunnel,
   handleMemcachedSession |-> handleMemcachedSession,
   handleIMAPSession |-> handleIMAPSession,
   handleIMAPSSession |-> handleIMAPSSession,
   handleMQTTSession |-> handleMQTTSession,
   handleIRCSWebSocket |-> handleIRCSWebSocket]

=============================================================================
