----------------------------- MODULE MediaCalls -----------------------------
(* What the handlers of MediaHandlers call of their own files: the         *)
(* clients, readers and logins of voice, media and games, as steps on the  *)
(* sockets.                                                                *)
EXTENDS SharedCalls

-----------------------------------------------------------------------------
\* src/src/worker/ami.ts

AMIReader_readUntil(socket) ==
  Call(<< MayReturn,
          Forever(<< MayThrow, Race(Read(socket), "throw"), When(GotEnd, << MayReturn, Throw >>),
                     When(GotData, << MayThrow, MayReturn >>) >>) >>)

AMIReader_readBanner(socket) ==
  Call(<< AMIReader_readUntil(socket) >>)

sendAMIAction(socket) ==
  Call(<< Write(socket) >>)

AMIReader_releaseLock(socket) ==
  Call(<< FreeReader(socket) >>)

AMIReader_readBlock(socket) ==
  Call(<< AMIReader_readUntil(socket) >>)

AMIReader_readBlockByActionID(socket) ==
  Call(<< Forever(<< MayThrow, AMIReader_readBlock(socket), MayReturn >>) >>)

loginWithMD5(socket) ==
  Call(<< sendAMIAction(socket), AMIReader_readBlockByActionID(socket), MayReturn, sendAMIAction(socket),
          AMIReader_readBlockByActionID(socket) >>)

withAMISession(fn) ==
  Call(<< MayThrow, checkIfCloudflare, MayThrow, Connect("withAMISession.socket"),
          Race(Opened("withAMISession.socket"), "throw"), GetReader("withAMISession.socket"),
          GetWriter("withAMISession.socket"),
          Try(
              << AMIReader_readBanner("withAMISession.socket"),
                 Maybe(<< FreeWriter("withAMISession.socket"), AMIReader_releaseLock("withAMISession.socket"),
                          CloseQuietly("withAMISession.socket"), Throw >>),
                 loginWithMD5("withAMISession.socket"),
                 Maybe(<< sendAMIAction("withAMISession.socket"),
                          AMIReader_readBlockByActionID("withAMISession.socket"),
                          Maybe(<< sendAMIAction("withAMISession.socket"),
                                   FreeWriter("withAMISession.socket"),
                                   AMIReader_releaseLock("withAMISession.socket"),
                                   CloseQuietly("withAMISession.socket"), Throw >>) >>),
                 Call(fn), sendAMIAction("withAMISession.socket"),
                 Quietly(<< AMIReader_readBlock("withAMISession.socket") >>),
                 FreeWriter("withAMISession.socket"), AMIReader_releaseLock("withAMISession.socket"),
                 CloseQuietly("withAMISession.socket"), Return >>,
              << FreeWriterQuietly("withAMISession.socket"),
                 Quietly(<< AMIReader_releaseLock("withAMISession.socket") >>),
                 CloseQuietly("withAMISession.socket"), Throw >>) >>)

AMIReader_readUntilSentinel(socket) ==
  Call(<< AMIReader_readUntil(socket) >>)

-----------------------------------------------------------------------------
\* src/src/worker/h323.ts

BufferedReader_readExact_h323(socket) ==
  Call(<< Loop(<< MayThrow, Race(Read(socket), "end"), When(GotNothing, << Throw >>) >>) >>)

readTPKTFrame(socket) ==
  Call(<< Try(<< BufferedReader_readExact_h323(socket) >>, << Return >>), MayReturn, MayThrow,
          Try(<< BufferedReader_readExact_h323(socket), Return >>, << Return >>) >>)

-----------------------------------------------------------------------------
\* src/src/worker/icecast.ts

httpRequest ==
  Call(<< Connect("httpRequest.socket"),
          Try(
              << Race(Opened("httpRequest.socket"), "throw"), GetWriter("httpRequest.socket"),
                 GetReader("httpRequest.socket"), Write("httpRequest.socket"),
                 Loop(<< MayBreak, Race(Read("httpRequest.socket"), "end"), When(GotNothing, << Break >>) >>),
                 FreeWriter("httpRequest.socket"), FreeReader("httpRequest.socket"),
                 CloseQuietly("httpRequest.socket"), MayReturn, Return >>,
              << CloseQuietly("httpRequest.socket"), Throw >>) >>)

-----------------------------------------------------------------------------
\* src/src/worker/mgcp.ts

sendMgcpCommand ==
  Call(<< Connect("sendMgcpCommand.socket"), Race(Opened("sendMgcpCommand.socket"), "throw"),
          GetWriter("sendMgcpCommand.socket"), Write("sendMgcpCommand.socket"),
          FreeWriter("sendMgcpCommand.socket"), GetReader("sendMgcpCommand.socket"),
          Loop(<< Race(Read("sendMgcpCommand.socket"), "end"), When(GotNothing, << Break >>), MayBreak >>),
          FreeReader("sendMgcpCommand.socket"), CloseQuietly("sendMgcpCommand.socket") >>)

-----------------------------------------------------------------------------
\* src/src/worker/minecraft.ts

readExactly_minecraft(socket) ==
  Call(<< Loop(<< Race(Read(socket), "throw"), When(GotNothing, << Throw >>) >>) >>)

readPacket_minecraft(socket) ==
  Call(<< Loop(<< MayThrow,
                  Maybe(<< MayThrow, Race(Read(socket), "throw"), When(GotNothing, << Throw >>) >>) >>),
          MayThrow, readExactly_minecraft(socket) >>)

-----------------------------------------------------------------------------
\* src/src/worker/mpd.ts

readMpdResponse(socket) ==
  Call(<< Forever(<< MayThrow, Race(Read(socket), "throw"), When(GotEnd, << Break >>),
                     When(GotData, << MayThrow, MayBreak >>) >>) >>)

mpdSession ==
  Call(<< checkIfCloudflare, MayThrow, Connect("mpdSession.socket"),
          Try(
              << Race(Opened("mpdSession.socket"), "throw"), GetWriter("mpdSession.socket"),
                 GetReader("mpdSession.socket"), readMpdResponse("mpdSession.socket"), MayThrow,
                 Maybe(<< MayThrow, Write("mpdSession.socket"), readMpdResponse("mpdSession.socket"),
                          MayThrow >>),
                 Loop(<< Write("mpdSession.socket"), readMpdResponse("mpdSession.socket") >>),
                 Write("mpdSession.socket"), FreeWriter("mpdSession.socket"), FreeReader("mpdSession.socket"),
                 CloseQuietly("mpdSession.socket"), Return >>,
              << CloseQuietly("mpdSession.socket"), Throw >>) >>)

runPlaybackCommand ==
  Call(<< MayThrow, mpdSession >>)

-----------------------------------------------------------------------------
\* src/src/worker/mumble.ts

mumbleOpen(socket) ==
  Call(<< Connect(socket), Race(Opened(socket), "throw"), GetWriter(socket), GetReader(socket) >>)

readMumbleMsgs(socket) ==
  Call(<< Loop(<< Quietly(<< Race(Read(socket), "throw") >>), When(GotNothing, << Break >>), MayReturn >>) >>)

mumbleClose(socket) ==
  Call(<< FreeReaderQuietly(socket), FreeWriterQuietly(socket), CloseQuietly(socket) >>)

-----------------------------------------------------------------------------
\* src/src/worker/pjlink.ts

readLine_pjlink(socket) ==
  Call(<< Loop(<< Race(Read(socket), "throw"), When(GotNothing, << Break >>), MayBreak >>) >>)

computeMD5 ==
  Call(<< Await >>)

sendCommand_pjlink(socket) ==
  Call(<< Write(socket), readLine_pjlink(socket) >>)

handlePJLinkProbe_query(socket) ==
  Call(<< sendCommand_pjlink(socket), MayReturn >>)

-----------------------------------------------------------------------------
\* src/src/worker/quake3.ts

readAvailable(socket) ==
  Call(<< Try(<< Race(Read(socket), "throw"), When(GotNothing, << Return >>) >>, << Return >>),
          Forever(<< Try(<< Race(Read(socket), "throw"), When(GotNothing, << Break >>) >>, << Break >>) >>) >>)

-----------------------------------------------------------------------------
\* src/src/worker/rcon.ts

readFromSocket_rcon(socket) ==
  Call(<< Race(Read(socket), "throw"), When(GotEnd, << Throw >>), When(GotNothing, << Return >>),
          Try(<< Loop(<< Race(Read(socket), "throw"), When(GotNothing, << Break >>) >>) >>, << MayThrow >>) >>)

-----------------------------------------------------------------------------
\* src/src/worker/realaudio.ts

handleRealAudioSetup_readRTSPResp(socket) ==
  Call(<< Loop(<< MayBreak, When(NoReader(socket), << Break >>),
                  Try(
                      << Race(Read(socket), "end"), When(GotNothing, << Break >>), MayThrow, MayBreak >>,
                      << Break >>) >>) >>)

handleRealAudioSession_readRTSP(socket) ==
  Call(<< Loop(<< MayBreak, When(NoReader(socket), << Break >>),
                  Try(
                      << Race(Read(socket), "end"), When(GotNothing, << Break >>), MayThrow, MayBreak >>,
                      << Break >>) >>) >>)

-----------------------------------------------------------------------------
\* src/src/worker/sane.ts

guardCloudflare ==
  Call(<< checkIfCloudflare, MayReturn >>)

readAtLeast_sane(socket) ==
  Call(<< Loop(<< Race(Read(socket), "end"), When(GotNothing, << Break >>), MayBreak >>) >>)

-----------------------------------------------------------------------------
\* src/src/worker/sccp.ts

readWithTimeout_sccp(socket) ==
  Call(<< Loop(<< Race(Read(socket), "end"), When(GotNothing, << Break >>) >>) >>)

-----------------------------------------------------------------------------
\* src/src/worker/shoutcast.ts

rawHttpGet ==
  Call(<< Connect("rawHttpGet.socket"), Race(Opened("rawHttpGet.socket"), "throw"),
          GetWriter("rawHttpGet.socket"), Write("rawHttpGet.socket"), FreeWriter("rawHttpGet.socket"),
          GetReader("rawHttpGet.socket"),
          Forever(<< Race(Read("rawHttpGet.socket"), "end"), When(GotNothing, << Break >>), MayBreak >>),
          FreeReader("rawHttpGet.socket"), CloseQuietly("rawHttpGet.socket") >>)

-----------------------------------------------------------------------------
\* src/src/worker/sip.ts

readSipResponse(socket) ==
  Call(<< Forever(<< MayThrow, Race(Read(socket), "throw"), When(GotEnd, << Break >>),
                     When(GotData, << MayThrow, Maybe(<< MayThrow, MayReturn >>) >>) >>) >>)

-----------------------------------------------------------------------------
\* src/src/worker/sips.ts

readSipsResponseText(socket) ==
  Call(<< Forever(<< MayBreak, Race(Read(socket), "end"), When(GotNothing, << Break >>), MayBreak >>) >>)

-----------------------------------------------------------------------------
\* src/src/worker/teamspeak.ts

readTSBanner(socket) ==
  Call(<< Forever(<< MayThrow, Race(Read(socket), "throw"), When(GotEnd, << Break >>),
                     When(GotData, << MayThrow, MayBreak >>) >>) >>)

readTSResponse(socket) ==
  Call(<< Forever(<< MayThrow, Race(Read(socket), "throw"), When(GotEnd, << Break >>),
                     When(GotData, << MayThrow, MayBreak >>) >>) >>)

tsSession ==
  Call(<< Connect("tsSession.socket"),
          Try(
              << Race(Opened("tsSession.socket"), "throw"), GetWriter("tsSession.socket"),
                 GetReader("tsSession.socket"), readTSBanner("tsSession.socket"), MayThrow,
                 Loop(<< Write("tsSession.socket"), readTSResponse("tsSession.socket") >>),
                 Write("tsSession.socket"), FreeWriter("tsSession.socket"), FreeReader("tsSession.socket"),
                 CloseQuietly("tsSession.socket"), Return >>,
              << CloseQuietly("tsSession.socket"), Throw >>) >>)

=============================================================================
