--------------------------- MODULE MediaHandlers ----------------------------
(* The one-shot handlers of the catalogue's "Specialty" protocols for      *)
(* voice, media, games and devices of a room, and of SIP over TLS.         *)
EXTENDS MediaCalls

-----------------------------------------------------------------------------
\* src/src/worker/ami.ts

handleAMIProbe ==
  << MayReturn,
     Try(
         << Await, MayReturn, checkIfCloudflare, MayReturn, Connect("socket"),
            Try(
                << Race(Opened("socket"), "throw"), GetReader("socket"), GetWriter("socket"),
                   AMIReader_readBanner("socket"), sendAMIAction("socket"), FreeWriter("socket"),
                   AMIReader_releaseLock("socket"), CloseQuietly("socket"), Return >>,
                << CloseQuietly("socket"), Throw >>) >>,
         << Return >>) >>

handleAMICommand ==
  << MayReturn,
     Try(
         << Await, MayReturn, checkIfCloudflare, MayReturn, Connect("socket"),
            Try(
                << Race(Opened("socket"), "throw"), GetReader("socket"), GetWriter("socket"),
                   AMIReader_readBanner("socket"),
                   Maybe(<< FreeWriter("socket"), AMIReader_releaseLock("socket"), CloseQuietly("socket"),
                            Return >>),
                   loginWithMD5("socket"),
                   Maybe(<< sendAMIAction("socket"), AMIReader_readBlockByActionID("socket"),
                            Maybe(<< sendAMIAction("socket"), FreeWriter("socket"),
                                     AMIReader_releaseLock("socket"), CloseQuietly("socket"), Return >>) >>),
                   sendAMIAction("socket"), AMIReader_readBlockByActionID("socket"),
                   Maybe(<< Loop(<< Try(<< AMIReader_readBlock("socket"), MayBreak >>, << Break >>) >>) >>),
                   sendAMIAction("socket"), Quietly(<< AMIReader_readBlock("socket") >>),
                   FreeWriter("socket"), AMIReader_releaseLock("socket"), CloseQuietly("socket"), Return >>,
                << CloseQuietly("socket"), Throw >>) >>,
         << Return >>) >>

handleAMIOriginate ==
  << MayReturn,
     Try(
         << Await, MayReturn,
            withAMISession(<< sendAMIAction("withAMISession.socket"),
                              AMIReader_readBlockByActionID("withAMISession.socket"), Return >>),
            Return >>,
         << Return >>) >>

handleAMIHangup ==
  << MayReturn,
     Try(
         << Await, MayReturn,
            withAMISession(<< sendAMIAction("withAMISession.socket"),
                              AMIReader_readBlockByActionID("withAMISession.socket"), Return >>),
            Return >>,
         << Return >>) >>

handleAMICliCommand ==
  << MayReturn,
     Try(
         << Await, MayReturn,
            withAMISession(<< sendAMIAction("withAMISession.socket"),
                              Try(
                                  << AMIReader_readUntilSentinel("withAMISession.socket") >>,
                                  << AMIReader_readBlock("withAMISession.socket") >>),
                              Return >>),
            Return >>,
         << Return >>) >>

handleAMISendText ==
  << MayReturn,
     Try(
         << Await, MayReturn,
            withAMISession(<< sendAMIAction("withAMISession.socket"),
                              AMIReader_readBlockByActionID("withAMISession.socket"), Return >>),
            Return >>,
         << Return >>) >>

-----------------------------------------------------------------------------
\* src/src/worker/h323.ts

handleH323Register ==
  << MayReturn,
     Try(
         << Await, MayReturn, checkIfCloudflare, MayReturn,
            Task("registerPromise",
                 << Connect("socket"), Opened("socket"), GetWriter("socket"), GetReader("socket"),
                    Try(
                        << Write("socket"), readTPKTFrame("socket"), FreeWriter("socket"),
                           FreeReader("socket"), CloseQuietly("socket"), MayReturn, Return >>,
                        << FreeWriter("socket"), FreeReader("socket"), CloseQuietly("socket"), Throw >>) >>),
            Race(Join("registerPromise"), "throw"), Return >>,
         << Return >>) >>

handleH323Info ==
  << MayReturn,
     Try(
         << Await, MayReturn, checkIfCloudflare, MayReturn,
            Task("infoPromise",
                 << Connect("socket"), Opened("socket"), GetWriter("socket"), GetReader("socket"),
                    Try(
                        << Write("socket"), readTPKTFrame("socket"), FreeWriter("socket"),
                           FreeReader("socket"), CloseQuietly("socket"), Return >>,
                        << FreeWriter("socket"), FreeReader("socket"), CloseQuietly("socket"), Throw >>) >>),
            Race(Join("infoPromise"), "throw"), Return >>,
         << Return >>) >>

handleH323Connect ==
  << MayReturn,
     Try(
         << Await, MayReturn, checkIfCloudflare, MayReturn, Connect("socket"),
            Race(Opened("socket"), "throw"), GetWriter("socket"), GetReader("socket"),
            TryFinally(<< Write("socket"),
                          Loop(<< readTPKTFrame("socket"), MayBreak, Maybe(<< Write("socket") >>) >>),
                          Maybe(<< Quietly(<< Write("socket") >>) >>), Return >>,
                       << FreeReader("socket"), FreeWriter("socket"), Close("socket") >>) >>,
         << Return >>) >>

handleH323Capabilities ==
  << MayReturn, Try(<< Await >>, << Return >>), MayReturn, checkIfCloudflare, MayReturn,
     Try(
         << Connect("socket"), GetReader("socket"), GetWriter("socket"),
            TryFinally(<< Write("socket"), Write("socket"),
                          Loop(<< MayBreak, readTPKTFrame("socket"), MayBreak >>), Return >>,
                       << FreeReader("socket"), FreeWriter("socket"), Close("socket") >>) >>,
         << Return >>) >>

-----------------------------------------------------------------------------
\* src/src/worker/icecast.ts

handleIcecastStatus ==
  << MayReturn,
     Try(<< Await, MayReturn, checkIfCloudflare, MayReturn, httpRequest, MayReturn, Return >>, << Return >>) >>

handleIcecastSource ==
  << MayReturn,
     Try(
         << Await, MayReturn, checkIfCloudflare, MayReturn,
            Task("work",
                 << Connect("socket"), Opened("socket"), GetWriter("socket"), GetReader("socket"),
                    Try(
                        << Write("socket"),
                           Loop(<< Race(Read("socket"), "end"), When(GotNothing, << Break >>), MayBreak >>),
                           Maybe(<< Quietly(<< Write("socket") >>) >>), FreeWriter("socket"),
                           FreeReader("socket"), CloseQuietly("socket"), Return >>,
                        << FreeWriterQuietly("socket"), FreeReaderQuietly("socket"), CloseQuietly("socket"),
                           Throw >>) >>),
            Race(Join("work"), "throw"), Return >>,
         << Return >>) >>

handleIcecastAdmin ==
  << MayReturn,
     Try(<< Await, MayReturn, checkIfCloudflare, MayReturn, httpRequest, MayReturn, Return >>, << Return >>) >>

-----------------------------------------------------------------------------
\* src/src/worker/mgcp.ts

handleMGCPAudit ==
  << Try(<< Await, MayReturn, checkIfCloudflare, MayReturn, sendMgcpCommand, Return >>, << Return >>) >>

handleMGCPCommand ==
  << Try(<< Await, MayReturn, checkIfCloudflare, MayReturn, sendMgcpCommand, Return >>, << Return >>) >>

handleMGCPCallSetup ==
  << Try(
         << Await, MayReturn, checkIfCloudflare, MayReturn, sendMgcpCommand, Maybe(<< sendMgcpCommand >>),
            Return >>,
         << Return >>) >>

-----------------------------------------------------------------------------
\* src/src/worker/minecraft.ts

handleMinecraftStatus ==
  << MayReturn,
     Try(
         << Await, MayReturn, checkIfCloudflare, MayReturn, Connect("socket"),
            Try(
                << Race(Opened("socket"), "throw"), GetWriter("socket"), GetReader("socket"), Write("socket"),
                   readPacket_minecraft("socket"), MayThrow,
                   Maybe(<< FreeWriter("socket"), FreeReader("socket"), CloseQuietly("socket"), Return >>),
                   MayThrow,
                   Quietly(<< MayThrow, Write("socket"), readPacket_minecraft("socket"), MayThrow >>),
                   FreeWriter("socket"), FreeReader("socket"), CloseQuietly("socket"), MayThrow, Return >>,
                << CloseQuietly("socket"), Throw >>) >>,
         << Return >>) >>

handleMinecraftPing ==
  << MayReturn,
     Try(
         << Await, MayReturn, checkIfCloudflare, MayReturn, Connect("socket"),
            Try(
                << Race(Opened("socket"), "throw"), GetWriter("socket"), GetReader("socket"), Write("socket"),
                   readPacket_minecraft("socket"), MayThrow, Write("socket"), readPacket_minecraft("socket"),
                   FreeWriter("socket"), FreeReader("socket"), CloseQuietly("socket"), MayThrow, Return >>,
                << CloseQuietly("socket"), Throw >>) >>,
         << Return >>) >>

-----------------------------------------------------------------------------
\* src/src/worker/mpd.ts

handleMpdStatus ==
  << Try(<< Await, MayReturn, mpdSession, MayReturn, Return >>, << Return >>) >>

handleMpdCommand ==
  << Try(<< Await, MayReturn, mpdSession, MayReturn, Return >>, << Return >>) >>

handleMpdPlay ==
  << Try(<< Await, MayReturn, Try(<< runPlaybackCommand, Return >>, << Return >>) >>, << Return >>) >>

handleMpdPause ==
  << Try(<< Await, Try(<< runPlaybackCommand, Return >>, << Return >>) >>, << Return >>) >>

handleMpdNext ==
  << Try(<< Await, Try(<< runPlaybackCommand, Return >>, << Return >>) >>, << Return >>) >>

handleMpdPrev ==
  << Try(<< Await, Try(<< runPlaybackCommand, Return >>, << Return >>) >>, << Return >>) >>

handleMpdAdd ==
  << Try(<< Await, MayReturn, Try(<< runPlaybackCommand, Return >>, << Return >>) >>, << Return >>) >>

handleMpdSeek ==
  << Try(<< Await, MayReturn, Try(<< runPlaybackCommand, Return >>, << Return >>) >>, << Return >>) >>

-----------------------------------------------------------------------------
\* src/src/worker/mumble.ts

handleMumbleProbe ==
  << MayReturn,
     Try(
         << Await, MayReturn, checkIfCloudflare, MayReturn, mumbleOpen("handleMumbleProbe.socket"),
            TryFinally(<< Write("handleMumbleProbe.socket"), readMumbleMsgs("handleMumbleProbe.socket"),
                          MayReturn, Return >>,
                       << mumbleClose("handleMumbleProbe.socket") >>) >>,
         << Return >>) >>

handleMumbleVersion ==
  << Call(handleMumbleProbe), Return >>

handleMumblePing ==
  << MayReturn,
     Try(
         << Await, MayReturn, checkIfCloudflare, MayReturn, mumbleOpen("socket"),
            TryFinally(<< Write("socket"), Write("socket"), readMumbleMsgs("socket"), Return >>,
                       << mumbleClose("socket") >>) >>,
         << Return >>) >>

handleMumbleAuth ==
  << MayReturn,
     Try(
         << Await, MayReturn, checkIfCloudflare, MayReturn, mumbleOpen("socket"),
            TryFinally(<< Write("socket"), Write("socket"), readMumbleMsgs("socket"), Return >>,
                       << mumbleClose("socket") >>) >>,
         << Return >>) >>

handleMumbleTextMessage ==
  << MayReturn,
     Try(
         << Await, MayReturn, checkIfCloudflare, MayReturn, mumbleOpen("socket"),
            TryFinally(<< Write("socket"), Write("socket"), readMumbleMsgs("socket"), MayReturn,
                          Write("socket"), Return >>,
                       << mumbleClose("socket") >>) >>,
         << Return >>) >>

-----------------------------------------------------------------------------
\* src/src/worker/pjlink.ts

handlePJLinkProbe ==
  << MayReturn,
     Try(
         << Await, MayReturn, checkIfCloudflare, MayReturn,
            Task("connectionPromise",
                 << Connect("socket"), Opened("socket"), GetReader("socket"), GetWriter("socket"),
                    Try(
                        << readLine_pjlink("socket"),
                           Either(<< Either(<< computeMD5 >>,
                                            << Quietly(<< FreeWriter("socket"), FreeReader("socket"),
                                                          CloseQuietly("socket") >>),
                                               Return >>) >>,
                                  << MayThrow >>),
                           handlePJLinkProbe_query("socket"), handlePJLinkProbe_query("socket"),
                           handlePJLinkProbe_query("socket"), handlePJLinkProbe_query("socket"),
                           handlePJLinkProbe_query("socket"), handlePJLinkProbe_query("socket"),
                           handlePJLinkProbe_query("socket"), handlePJLinkProbe_query("socket"),
                           handlePJLinkProbe_query("socket"), handlePJLinkProbe_query("socket"),
                           handlePJLinkProbe_query("socket"),
                           Quietly(<< FreeWriter("socket"), FreeReader("socket"), CloseQuietly("socket") >>),
                           Return >>,
                        << Quietly(<< FreeWriter("socket"), FreeReader("socket"), CloseQuietly("socket") >>),
                           Throw >>) >>),
            Race(Join("connectionPromise"), "throw"), Return >>,
         << Return >>) >>

handlePJLinkPower ==
  << MayReturn,
     Try(
         << Await, MayReturn, checkIfCloudflare, MayReturn,
            Task("connectionPromise",
                 << Connect("socket"), Opened("socket"), GetReader("socket"), GetWriter("socket"),
                    Try(
                        << readLine_pjlink("socket"), Maybe(<< Either(<< computeMD5 >>, << Throw >>) >>),
                           sendCommand_pjlink("socket"),
                           Quietly(<< FreeWriter("socket"), FreeReader("socket"), CloseQuietly("socket") >>),
                           MayThrow, MayReturn, Return >>,
                        << Quietly(<< FreeWriter("socket"), FreeReader("socket"), CloseQuietly("socket") >>),
                           Throw >>) >>),
            Race(Join("connectionPromise"), "throw"), Return >>,
         << Return >>) >>

-----------------------------------------------------------------------------
\* src/src/worker/quake3.ts

handleQuake3Status ==
  << MayReturn,
     Try(
         << Await, MayReturn, checkIfCloudflare, MayReturn, Connect("handleQuake3Status.socket"),
            Try(
                << Race(Opened("handleQuake3Status.socket"), "throw"),
                   GetWriter("handleQuake3Status.socket"), GetReader("handleQuake3Status.socket"),
                   Write("handleQuake3Status.socket"), readAvailable("handleQuake3Status.socket"),
                   FreeWriter("handleQuake3Status.socket"), FreeReader("handleQuake3Status.socket"),
                   ForgetWriter("handleQuake3Status.socket"), ForgetReader("handleQuake3Status.socket"),
                   CloseQuietly("handleQuake3Status.socket"), MayReturn, Return >>,
                << When(HasWriter("handleQuake3Status.socket"),
                        << FreeWriterQuietly("handleQuake3Status.socket") >>),
                   When(HasReader("handleQuake3Status.socket"),
                        << FreeReaderQuietly("handleQuake3Status.socket") >>),
                   CloseQuietly("handleQuake3Status.socket"), Throw >>) >>,
         << Return >>) >>

handleQuake3Info ==
  << MayThrow, Await, Call(handleQuake3Status), Return >>

-----------------------------------------------------------------------------
\* src/src/worker/rcon.ts

handleRCONConnect ==
  << Try(
         << MayReturn, Await, MayReturn, checkIfCloudflare, MayReturn, Connect("socket"),
            Try(
                << Race(Opened("socket"), "throw"), GetWriter("socket"), GetReader("socket"),
                   TryFinally(<< Write("socket"), FreeWriter("socket"), readFromSocket_rcon("socket"),
                                 FreeReader("socket"), MayThrow, Return >>,
                              << Quietly(<< Maybe(<< FreeWriter("socket") >>) >>),
                                 FreeReaderQuietly("socket"), CloseQuietly("socket") >>) >>,
                << When(HasSocket("socket"), << CloseQuietly("socket") >>), Throw >>) >>,
         << Return >>) >>

handleRCONCommand ==
  << Try(
         << MayReturn, Await, MayReturn, checkIfCloudflare, MayReturn, Connect("socket"),
            Try(
                << Race(Opened("socket"), "throw"), GetWriter("socket"), GetReader("socket"),
                   TryFinally(<< Write("socket"), readFromSocket_rcon("socket"), MayThrow, MayReturn,
                                 Write("socket"), FreeWriter("socket"), readFromSocket_rcon("socket"),
                                 FreeReader("socket"), MayThrow, Return >>,
                              << Quietly(<< Maybe(<< FreeWriter("socket") >>) >>),
                                 FreeReaderQuietly("socket"), CloseQuietly("socket") >>) >>,
                << When(HasSocket("socket"), << CloseQuietly("socket") >>), Throw >>) >>,
         << Return >>) >>

-----------------------------------------------------------------------------
\* src/src/worker/realaudio.ts

handleRealAudioProbe ==
  << Try(
         << MayReturn, Await, MayReturn, checkIfCloudflare, MayReturn, Connect("socket"),
            Try(
                << Try(<< Race(Opened("socket"), "throw") >>, << CloseQuietly("socket"), Throw >>),
                   GetWriter("socket"), Write("socket"), FreeWriter("socket"), GetReader("socket"),
                   Race(Read("socket"), "throw"),
                   When(GotNothing, << FreeReader("socket"), CloseQuietly("socket"), Return >>),
                   Maybe(<< FreeReader("socket"), CloseQuietly("socket"), Return >>), FreeReader("socket"),
                   CloseQuietly("socket"), Return >>,
                << CloseQuietly("socket"), Throw >>) >>,
         << Return >>) >>

handleRealAudioDescribe ==
  << Try(
         << MayReturn, Await, MayReturn, checkIfCloudflare, MayReturn, Connect("socket"),
            Try(
                << Try(<< Race(Opened("socket"), "throw") >>, << CloseQuietly("socket"), Throw >>),
                   GetWriter("socket"), Write("socket"), FreeWriter("socket"), GetReader("socket"),
                   Quietly(<< Loop(<< Race(Read("socket"), "throw"), When(GotEnd, << Break >>),
                                      When(GotData, << MayBreak >>) >>) >>),
                   FreeReader("socket"), CloseQuietly("socket"), Return >>,
                << CloseQuietly("socket"), Throw >>) >>,
         << Return >>) >>

handleRealAudioSetup ==
  << Try(
         << MayReturn, Await, MayReturn, checkIfCloudflare, MayReturn, Connect("socket"),
            Try(
                << Race(Opened("socket"), "throw"), GetWriter("socket"), GetReader("socket"), Write("socket"),
                   handleRealAudioSetup_readRTSPResp("socket"), Write("socket"),
                   handleRealAudioSetup_readRTSPResp("socket"),
                   Maybe(<< Write("socket"), handleRealAudioSetup_readRTSPResp("socket") >>),
                   Quietly(<< When(HasWriter("socket"), << FreeWriter("socket") >>) >>),
                   Quietly(<< When(HasReader("socket"), << FreeReader("socket") >>) >>),
                   CloseQuietly("socket"), Return >>,
                << Quietly(<< When(HasWriter("socket"), << FreeWriter("socket") >>) >>),
                   Quietly(<< When(HasReader("socket"), << FreeReader("socket") >>) >>),
                   CloseQuietly("socket"), Throw >>) >>,
         << Return >>) >>

handleRealAudioSession ==
  << MayReturn,
     Try(
         << Await, MayReturn, checkIfCloudflare, MayReturn, Connect("socket"),
            Try(
                << Race(Opened("socket"), "throw"), GetWriter("socket"), GetReader("socket"), Write("socket"),
                   handleRealAudioSession_readRTSP("socket"), Write("socket"),
                   handleRealAudioSession_readRTSP("socket"),
                   Maybe(<< Write("socket"), handleRealAudioSession_readRTSP("socket"),
                            Maybe(<< Write("socket"), handleRealAudioSession_readRTSP("socket"),
                                     Maybe(<< Loop(<< Try(
                                                          << Race(Read("socket"), "end"),
                                                             When(GotNothing, << Break >>), MayBreak >>,
                                                          << Break >>) >>),
                                              Quietly(<< Write("socket"),
                                                         handleRealAudioSession_readRTSP("socket") >>) >>) >>) >>),
                   Quietly(<< When(HasWriter("socket"), << FreeWriter("socket") >>) >>),
                   Quietly(<< When(HasReader("socket"), << FreeReader("socket") >>) >>),
                   CloseQuietly("socket"), Return >>,
                << Quietly(<< When(HasWriter("socket"), << FreeWriter("socket") >>) >>),
                   Quietly(<< When(HasReader("socket"), << FreeReader("socket") >>) >>),
                   CloseQuietly("socket"), Throw >>) >>,
         << Return >>) >>

-----------------------------------------------------------------------------
\* src/src/worker/sane.ts

handleSANEProbe ==
  << MayReturn,
     Try(
         << Await, MayReturn, guardCloudflare, MayReturn,
            Task("work",
                 << Connect("socket"), Opened("socket"), GetReader("socket"), GetWriter("socket"),
                    Try(
                        << MayThrow, Write("socket"), readAtLeast_sane("socket"), FreeWriter("socket"),
                           FreeReader("socket"), CloseQuietly("socket"), MayReturn, Return >>,
                        << FreeWriterQuietly("socket"), FreeReaderQuietly("socket"), CloseQuietly("socket"),
                           Throw >>) >>),
            Race(Join("work"), "throw"), Return >>,
         << Return >>) >>

handleSANEGetDevices ==
  << MayReturn,
     Try(
         << Await, MayReturn, guardCloudflare, MayReturn,
            Task("work",
                 << Connect("socket"), Opened("socket"), GetReader("socket"), GetWriter("socket"),
                    Try(
                        << MayThrow, Write("socket"), readAtLeast_sane("socket"), MayThrow,
                           Maybe(<< FreeWriter("socket"), FreeReader("socket"), CloseQuietly("socket"),
                                    Return >>),
                           Write("socket"), readAtLeast_sane("socket"), FreeWriter("socket"),
                           FreeReader("socket"), CloseQuietly("socket"), MayReturn, Return >>,
                        << FreeWriterQuietly("socket"), FreeReaderQuietly("socket"), CloseQuietly("socket"),
                           Throw >>) >>),
            Race(Join("work"), "throw"), Return >>,
         << Return >>) >>

handleSANEOptions ==
  << MayReturn,
     Try(
         << Await, MayReturn, guardCloudflare, MayReturn,
            Task("work",
                 << Connect("socket"), Opened("socket"), GetReader("socket"), GetWriter("socket"),
                    Try(
                        << MayThrow, Write("socket"), readAtLeast_sane("socket"), MayThrow,
                           Maybe(<< FreeWriter("socket"), FreeReader("socket"), CloseQuietly("socket"),
                                    Return >>),
                           MayThrow, Write("socket"), readAtLeast_sane("socket"), MayThrow,
                           Maybe(<< FreeWriter("socket"), FreeReader("socket"), CloseQuietly("socket"),
                                    Return >>),
                           Write("socket"), readAtLeast_sane("socket"), FreeWriter("socket"),
                           FreeReader("socket"), CloseQuietly("socket"), Return >>,
                        << FreeWriterQuietly("socket"), FreeReaderQuietly("socket"), CloseQuietly("socket"),
                           Throw >>) >>),
            Race(Join("work"), "throw"), Return >>,
         << Return >>) >>

handleSANEScan ==
  << MayReturn,
     Try(
         << Await, MayReturn, guardCloudflare, MayReturn,
            Task("work",
                 << Connect("socket"), Opened("socket"), GetReader("socket"), GetWriter("socket"),
                    Try(
                        << MayThrow, Write("socket"), readAtLeast_sane("socket"), MayThrow,
                           Maybe(<< FreeWriter("socket"), FreeReader("socket"), CloseQuietly("socket"),
                                    Return >>),
                           MayThrow, Write("socket"), readAtLeast_sane("socket"), MayThrow,
                           Maybe(<< FreeWriter("socket"), FreeReader("socket"), CloseQuietly("socket"),
                                    Return >>),
                           Loop(<< Write("socket"), readAtLeast_sane("socket") >>), Write("socket"),
                           readAtLeast_sane("socket"), Write("socket"), readAtLeast_sane("socket"),
                           FreeWriter("socket"), FreeReader("socket"), CloseQuietly("socket"), MayThrow,
                           MayReturn,
                           Maybe(<< Quietly(<< Connect("dataSocket"), Race(Opened("dataSocket"), "throw"),
                                               GetReader("dataSocket"),
                                               Loop(<< Race(Read("dataSocket"), "end"),
                                                       If(GotData, << MayBreak >>, << Break >>) >>),
                                               FreeReader("dataSocket"), CloseQuietly("dataSocket") >>) >>),
                           Return >>,
                        << FreeWriterQuietly("socket"), FreeReaderQuietly("socket"), CloseQuietly("socket"),
                           Throw >>) >>),
            Race(Join("work"), "throw"), Return >>,
         << Return >>) >>

handleSANEOpen ==
  << MayReturn,
     Try(
         << Await, MayReturn, guardCloudflare, MayReturn,
            Task("work",
                 << Connect("socket"), Opened("socket"), GetReader("socket"), GetWriter("socket"),
                    Try(
                        << MayThrow, Write("socket"), readAtLeast_sane("socket"), MayThrow,
                           Maybe(<< FreeWriter("socket"), FreeReader("socket"), CloseQuietly("socket"),
                                    Return >>),
                           MayThrow, Write("socket"), readAtLeast_sane("socket"), FreeWriter("socket"),
                           FreeReader("socket"), CloseQuietly("socket"), MayReturn, Return >>,
                        << FreeWriterQuietly("socket"), FreeReaderQuietly("socket"), CloseQuietly("socket"),
                           Throw >>) >>),
            Race(Join("work"), "throw"), Return >>,
         << Return >>) >>

-----------------------------------------------------------------------------
\* src/src/worker/sccp.ts

handleSCCPProbe ==
  << MayReturn,
     Try(
         << Await, MayReturn, checkIfCloudflare, MayReturn, Connect("socket"),
            Race(Opened("socket"), "throw"), GetWriter("socket"), Write("socket"), FreeWriter("socket"),
            GetReader("socket"), readWithTimeout_sccp("socket"), FreeReader("socket"), CloseQuietly("socket"),
            Return >>,
         << Return >>) >>

handleSCCPRegister ==
  << MayReturn,
     Try(
         << Await, MayReturn, checkIfCloudflare, MayReturn, Connect("socket"),
            Race(Opened("socket"), "throw"), GetWriter("socket"), Write("socket"), FreeWriter("socket"),
            GetReader("socket"), readWithTimeout_sccp("socket"), FreeReader("socket"), CloseQuietly("socket"),
            Return >>,
         << Return >>) >>

handleSCCPLineState ==
  << MayReturn,
     Try(
         << Await, MayReturn, checkIfCloudflare, MayReturn, Connect("socket"),
            Race(Opened("socket"), "throw"), GetWriter("socket"), GetReader("socket"), Write("socket"),
            readWithTimeout_sccp("socket"), Write("socket"), Write("socket"),
            Loop(<< MayBreak, Race(Read("socket"), "end"), When(GotNothing, << Break >>) >>),
            FreeWriter("socket"), FreeReader("socket"), CloseQuietly("socket"), Return >>,
         << Return >>) >>

handleSCCPCallSetup ==
  << MayReturn,
     Try(
         << Await, MayReturn, checkIfCloudflare, MayReturn, Connect("socket"),
            Race(Opened("socket"), "throw"), GetWriter("socket"), GetReader("socket"),
            TryFinally(<< Write("socket"), readWithTimeout_sccp("socket"), Write("socket"), Write("socket"),
                          readWithTimeout_sccp("socket"), Loop(<< Write("socket"), Sleep >>),
                          Loop(<< MayBreak, Race(Read("socket"), "end"), When(GotNothing, << Break >>) >>),
                          FreeWriter("socket"), FreeReader("socket"), CloseQuietly("socket"), Return >>,
                       << FreeWriterQuietly("socket"), FreeReaderQuietly("socket"), CloseQuietly("socket") >>) >>,
         << Return >>) >>

-----------------------------------------------------------------------------
\* src/src/worker/shoutcast.ts

handleShoutCastProbe ==
  << MayReturn,
     Try(
         << Await, MayReturn, checkIfCloudflare, MayReturn, Connect("handleShoutCastProbe.socket"),
            Try(
                << Race(Opened("handleShoutCastProbe.socket"), "throw"),
                   GetWriter("handleShoutCastProbe.socket"), Write("handleShoutCastProbe.socket"),
                   FreeWriter("handleShoutCastProbe.socket"), GetReader("handleShoutCastProbe.socket"),
                   Race(Read("handleShoutCastProbe.socket"), "throw"),
                   When(GotNothing,
                        << FreeReader("handleShoutCastProbe.socket"),
                           CloseQuietly("handleShoutCastProbe.socket"), Return >>),
                   Maybe(<< FreeReader("handleShoutCastProbe.socket"),
                            CloseQuietly("handleShoutCastProbe.socket"), Return >>),
                   FreeReader("handleShoutCastProbe.socket"),
                   CloseQuietly("handleShoutCastProbe.socket"), Return >>,
                << CloseQuietly("handleShoutCastProbe.socket"), Throw >>) >>,
         << Return >>) >>

handleShoutCastInfo ==
  << Call(handleShoutCastProbe), Return >>

handleSHOUTcastAdmin ==
  << MayReturn,
     Try(
         << Await, MayReturn, Quietly(<< rawHttpGet >>), Maybe(<< Quietly(<< rawHttpGet >>) >>),
            Maybe(<< Quietly(<< rawHttpGet >>) >>), MayReturn, Return >>,
         << Return >>) >>

handleSHOUTcastSource ==
  << MayReturn, Try(<< Await >>, << Return >>), MayReturn, checkIfCloudflare, MayReturn,
     Try(
         << Connect("socket"), Race(Opened("socket"), "throw"), GetReader("socket"), GetWriter("socket"),
            TryFinally(<< Write("socket"), Race(Read("socket"), "end"), When(GotNothing, << Return >>),
                          Maybe(<< Write("socket") >>), Return >>,
                       << FreeReader("socket"), FreeWriter("socket"), Close("socket") >>) >>,
         << Return >>) >>

-----------------------------------------------------------------------------
\* src/src/worker/sip.ts

handleSipOptions ==
  << MayReturn,
     Try(
         << Await, MayReturn, checkIfCloudflare, MayReturn, Connect("socket"),
            TryFinally(<< Race(Opened("socket"), "throw"), GetWriter("socket"), GetReader("socket"),
                          TryFinally(<< Write("socket"), readSipResponse("socket"), MayReturn, Return >>,
                                     << FreeWriterQuietly("socket"), FreeReaderQuietly("socket") >>) >>,
                       << When(HasSocket("socket"), << CloseQuietly("socket") >>) >>) >>,
         << Return >>) >>

handleSipInvite ==
  << MayReturn,
     Try(
         << Await, MayReturn, checkIfCloudflare, MayReturn, Connect("socket"), GetWriter("socket"),
            GetReader("socket"), Write("socket"),
            Loop(<< Race(Read("socket"), "end"), When(GotNothing, << Break >>), MayBreak >>),
            Quietly(<< Either(<< Write("socket"), Write("socket") >>, << Write("socket") >>) >>),
            Maybe(<< Quietly(<< Maybe(<< Write("socket"),
                                         Loop(<< Race(Read("socket"), "end"), When(GotNothing, << Break >>),
                                                 MayBreak >>),
                                         Quietly(<< Either(<< Write("socket"), Write("socket") >>,
                                                           << Maybe(<< Write("socket") >>) >>) >>) >>) >>) >>),
            FreeWriter("socket"), FreeReader("socket"), CloseQuietly("socket"), Return >>,
         << Return >>) >>

handleSipRegister ==
  << MayReturn,
     Try(
         << Await, MayReturn, checkIfCloudflare, MayReturn, Connect("socket"),
            TryFinally(<< Race(Opened("socket"), "throw"), GetWriter("socket"), GetReader("socket"),
                          TryFinally(<< Write("socket"), readSipResponse("socket"), MayReturn, Return >>,
                                     << FreeWriterQuietly("socket"), FreeReaderQuietly("socket") >>) >>,
                       << When(HasSocket("socket"), << CloseQuietly("socket") >>) >>) >>,
         << Return >>) >>

handleSIPDigestAuth ==
  << MayReturn,
     Try(
         << Await, MayReturn, checkIfCloudflare, MayReturn, Connect("socket"),
            TryFinally(<< Race(Opened("socket"), "throw"), GetWriter("socket"), GetReader("socket"),
                          TryFinally(<< Write("socket"), readSipResponse("socket"), MayReturn,
                                        Write("socket"), readSipResponse("socket"), Return >>,
                                     << FreeWriterQuietly("socket"), FreeReaderQuietly("socket") >>) >>,
                       << When(HasSocket("socket"), << CloseQuietly("socket") >>) >>) >>,
         << Return >>) >>

-----------------------------------------------------------------------------
\* src/src/worker/sips.ts

handleSipsOptions ==
  << MayReturn,
     Try(
         << Await, MayReturn, checkIfCloudflare, MayReturn, Connect("socket"),
            Try(
                << Race(Opened("socket"), "throw"), GetWriter("socket"), GetReader("socket"), Write("socket"),
                   FreeWriter("socket"),
                   Try(
                       << Forever(<< Race(Read("socket"), "throw"), When(GotEnd, << Break >>),
                                     When(GotData, << MayBreak >>) >>) >>,
                       << MayThrow >>),
                   FreeReader("socket"), CloseQuietly("socket"), MayReturn, Return >>,
                << CloseQuietly("socket"), Throw >>) >>,
         << Return >>) >>

handleSipsInvite ==
  << MayReturn,
     Try(
         << Await, MayReturn, checkIfCloudflare, MayReturn, Connect("socket"),
            Try(
                << Race(Opened("socket"), "throw"), GetWriter("socket"), GetReader("socket"), Write("socket"),
                   Quietly(<< Loop(<< Race(Read("socket"), "throw"), When(GotEnd, << Break >>),
                                      When(GotData, << MayBreak >>) >>) >>),
                   Quietly(<< Either(<< Write("socket"), Write("socket") >>, << Write("socket") >>) >>),
                   FreeWriter("socket"), FreeReader("socket"), CloseQuietly("socket"), Return >>,
                << CloseQuietly("socket"), Throw >>) >>,
         << Return >>) >>

handleSipsRegister ==
  << MayReturn,
     Try(
         << Await, MayReturn, checkIfCloudflare, MayReturn, Connect("socket"),
            Try(
                << Race(Opened("socket"), "throw"), GetWriter("socket"), GetReader("socket"), Write("socket"),
                   readSipsResponseText("socket"),
                   Maybe(<< FreeWriter("socket"), FreeReader("socket"), CloseQuietly("socket"), Return >>),
                   Maybe(<< Write("socket"), readSipsResponseText("socket"), FreeWriter("socket"),
                            FreeReader("socket"), CloseQuietly("socket"), Return >>),
                   FreeWriter("socket"), FreeReader("socket"), CloseQuietly("socket"), Return >>,
                << CloseQuietly("socket"), Throw >>) >>,
         << Return >>) >>

handleSipsDigestAuth ==
  << MayReturn,
     Try(
         << Await, MayReturn, checkIfCloudflare, MayReturn, Connect("socket"),
            Race(Opened("socket"), "throw"), GetWriter("socket"), GetReader("socket"), Write("socket"),
            readSipsResponseText("socket"),
            Maybe(<< FreeWriter("socket"), FreeReader("socket"), CloseQuietly("socket"), Return >>),
            Maybe(<< FreeWriter("socket"), FreeReader("socket"), CloseQuietly("socket"), Return >>),
            Maybe(<< FreeWriter("socket"), FreeReader("socket"), CloseQuietly("socket"), Return >>),
            Write("socket"), readSipsResponseText("socket"), FreeWriter("socket"), FreeReader("socket"),
            CloseQuietly("socket"), Return >>,
         << Return >>) >>

-----------------------------------------------------------------------------
\* src/src/worker/teamspeak.ts

handleTeamSpeakConnect ==
  << MayReturn, Try(<< Await, MayReturn, checkIfCloudflare, MayReturn, tsSession, Return >>, << Return >>) >>

handleTeamSpeakCommand ==
  << MayReturn,
     Try(<< Await, MayReturn, checkIfCloudflare, MayReturn, tsSession, MayReturn, Return >>, << Return >>) >>

handleTeamSpeakChannel ==
  << MayReturn,
     Try(
         << Await, MayReturn, checkIfCloudflare, MayReturn, Connect("socket"),
            Try(
                << Race(Opened("socket"), "throw"), GetWriter("socket"), GetReader("socket"),
                   readTSBanner("socket"), MayThrow, Loop(<< Write("socket"), readTSResponse("socket") >>),
                   Write("socket"), FreeWriter("socket"), FreeReader("socket"), CloseQuietly("socket"),
                   MayReturn, Return >>,
                << CloseQuietly("socket"), Throw >>) >>,
         << Return >>) >>

handleTeamSpeakMessage ==
  << MayReturn,
     Try(
         << Await, MayReturn, checkIfCloudflare, MayReturn, Connect("socket"),
            Try(
                << Race(Opened("socket"), "throw"), GetWriter("socket"), GetReader("socket"),
                   readTSBanner("socket"), MayThrow, Loop(<< Write("socket"), readTSResponse("socket") >>),
                   Write("socket"), FreeWriter("socket"), FreeReader("socket"), CloseQuietly("socket"),
                   MayReturn, Return >>,
                << CloseQuietly("socket"), Throw >>) >>,
         << Return >>) >>

handleTeamSpeakKick ==
  << MayReturn,
     Try(
         << Await, MayReturn, checkIfCloudflare, MayReturn, Connect("socket"),
            Try(
                << Race(Opened("socket"), "throw"), GetWriter("socket"), GetReader("socket"),
                   readTSBanner("socket"), MayThrow, Loop(<< Write("socket"), readTSResponse("socket") >>),
                   Write("socket"), FreeWriter("socket"), FreeReader("socket"), CloseQuietly("socket"),
                   Return >>,
                << CloseQuietly("socket"), Throw >>) >>,
         << Return >>) >>

handleTeamSpeakBan ==
  << MayReturn,
     Try(
         << Await, MayReturn, checkIfCloudflare, MayReturn, Connect("socket"),
            Try(
                << Race(Opened("socket"), "throw"), GetWriter("socket"), GetReader("socket"),
                   readTSBanner("socket"), MayThrow, Loop(<< Write("socket"), readTSResponse("socket") >>),
                   Write("socket"), FreeWriter("socket"), FreeReader("socket"), CloseQuietly("socket"),
                   Return >>,
                << CloseQuietly("socket"), Throw >>) >>,
         << Return >>) >>

-----------------------------------------------------------------------------
\* src/src/worker/ventrilo.ts

handleVentriloConnect ==
  << MayReturn,
     Try(
         << Await, MayReturn, checkIfCloudflare, MayReturn, Connect("socket"),
            Try(
                << Race(Opened("socket"), "throw"), CloseQuietly("socket"), Return >>,
                << CloseQuietly("socket"), Throw >>) >>,
         << Return >>) >>

handleVentriloStatus ==
  << MayReturn,
     Try(
         << Await, MayReturn, checkIfCloudflare, MayReturn, Connect("socket"),
            Try(
                << Race(Opened("socket"), "throw"), GetWriter("socket"), GetReader("socket"), Write("socket"),
                   FreeWriter("socket"), ForgetWriter("socket"),
                   Task("readTimeout",
                        << Sleep, Quietly(<< When(HasReader("socket"), << Cancel("socket") >>) >>) >>),
                   TryCatchFinally(<< Sleep,
                                      Forever(<< Read("socket"), When(GotEnd, << Break >>),
                                                 When(GotData,
                                                      << MayBreak, Race(Read("socket"), "end"),
                                                         When(GotData, << MayBreak >>),
                                                         When(GotEnd, << Break >>) >>) >>) >>,
                                   << MayThrow >>, << ClearTimer("readTimeout") >>),
                   When(HasReader("socket"), << FreeReader("socket") >>), CloseQuietly("socket"), MayReturn,
                   Return >>,
                << When(HasWriter("socket"), << FreeWriterQuietly("socket") >>),
                   When(HasReader("socket"), << FreeReaderQuietly("socket") >>), CloseQuietly("socket"),
                   Throw >>) >>,
         << Return >>) >>

-----------------------------------------------------------------------------
MediaProgram ==
  [handleAMIProbe |-> handleAMIProbe,
   handleAMICommand |-> handleAMICommand,
   handleAMIOriginate |-> handleAMIOriginate,
   handleAMIHangup |-> handleAMIHangup,
   handleAMICliCommand |-> handleAMICliCommand,
   handleAMISendText |-> handleAMISendText,
   handleH323Register |-> handleH323Register,
   handleH323Info |-> handleH323Info,
   handleH323Connect |-> handleH323Connect,
   handleH323Capabilities |-> handleH323Capabilities,
   handleIcecastStatus |-> handleIcecastStatus,
   handleIcecastSource |-> handleIcecastSource,
   handleIcecastAdmin |-> handleIcecastAdmin,
   handleMGCPAudit |-> handleMGCPAudit,
   handleMGCPCommand |-> handleMGCPCommand,
   handleMGCPCallSetup |-> handleMGCPCallSetup,
   handleMinecraftStatus |-> handleMinecraftStatus,
   handleMinecraftPing |-> handleMinecraftPing,
   handleMpdStatus |-> handleMpdStatus,
   handleMpdCommand |-> handleMpdCommand,
   handleMpdPlay |-> handleMpdPlay,
   handleMpdPause |-> handleMpdPause,
   handleMpdNext |-> handleMpdNext,
   handleMpdPrev |-> handleMpdPrev,
   handleMpdAdd |-> handleMpdAdd,
   handleMpdSeek |-> handleMpdSeek,
   handleMumbleProbe |-> handleMumbleProbe,
   handleMumbleVersion |-> handleMumbleVersion,
   handleMumblePing |-> handleMumblePing,
   handleMumbleAuth |-> handleMumbleAuth,
   handleMumbleTextMessage |-> handleMumbleTextMessage,
   handlePJLinkProbe |-> handlePJLinkProbe,
   handlePJLinkPower |-> handlePJLinkPower,
   handleQuake3Status |-> handleQuake3Status,
   handleQuake3Info |-> handleQuake3Info,
   handleRCONConnect |-> handleRCONConnect,
   handleRCONCommand |-> handleRCONCommand,
   handleRealAudioProbe |-> handleRealAudioProbe,
   handleRealAudioDescribe |-> handleRealAudioDescribe,
   handleRealAudioSetup |-> handleRealAudioSetup,
   handleRealAudioSession |-> handleRealAudioSession,
   handleSANEProbe |-> handleSANEProbe,
   handleSANEGetDevices |-> handleSANEGetDevices,
   handleSANEOptions |-> handleSANEOptions,
   handleSANEScan |-> handleSANEScan,
   handleSANEOpen |-> handleSANEOpen,
   handleSCCPProbe |-> handleSCCPProbe,
   handleSCCPRegister |-> handleSCCPRegister,
   handleSCCPLineState |-> handleSCCPLineState,
   handleSCCPCallSetup |-> handleSCCPCallSetup,
   handleShoutCastProbe |-> handleShoutCastProbe,
   handleShoutCastInfo |-> handleShoutCastInfo,
   handleSHOUTcastAdmin |-> handleSHOUTcastAdmin,
   handleSHOUTcastSource |-> handleSHOUTcastSource,
   handleSipOptions |-> handleSipOptions,
   handleSipInvite |-> handleSipInvite,
   handleSipRegister |-> handleSipRegister,
   handleSIPDigestAuth |-> handleSIPDigestAuth,
   handleSipsOptions |-> handleSipsOptions,
   handleSipsInvite |-> handleSipsInvite,
   handleSipsRegister |-> handleSipsRegister,
   handleSipsDigestAuth |-> handleSipsDigestAuth,
   handleTeamSpeakConnect |-> handleTeamSpeakConnect,
   handleTeamSpeakCommand |-> handleTeamSpeakCommand,
   handleTeamSpeakChannel |-> handleTeamSpeakChannel,
   handleTeamSpeakMessage |-> handleTeamSpeakMessage,
   handleTeamSpeakKick |-> handleTeamSpeakKick,
   handleTeamSpeakBan |-> handleTeamSpeakBan,
   handleVentriloConnect |-> handleVentriloConnect,
   handleVentriloStatus |-> handleVentriloStatus]

=============================================================================
