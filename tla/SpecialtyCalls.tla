--------------------------- MODULE SpecialtyCalls ---------------------------
(* What the handlers of SpecialtyHandlers call of their own files: the     *)
(* clients, readers and logins of industrial and debugging protocols, as   *)
(* steps on the sockets.                                                   *)
EXTENDS SharedCalls

-----------------------------------------------------------------------------
\* src/src/worker/activeusers.ts

readAllBytes(socket) ==
  Call(<< Loop(<< MayBreak,
                  Try(
                      << Race(Read(socket), "end"), When(GotNothing, << Break >>), MayThrow >>,
                      << MayThrow, Break >>) >>),
          MayReturn >>)

-----------------------------------------------------------------------------
\* src/src/worker/adb.ts

readAll_adb(socket) ==
  Call(<< Loop(<< Try(<< Race(Read(socket), "throw"), When(GotNothing, << Break >>) >>, << Break >>) >>) >>)

-----------------------------------------------------------------------------
\* src/src/worker/bitcoin.ts

computeChecksum ==
  Call(<< Await, Await >>)

readMessage_bitcoin(socket) ==
  Call(<< Try(<< BufferedReader_readExact_buffered_reader(socket) >>, << Return >>), MayThrow,
          Maybe(<< Try(<< BufferedReader_readExact_buffered_reader(socket) >>, << Return >>) >>) >>)

buildPingMessage ==
  Call(<< computeChecksum >>)

-----------------------------------------------------------------------------
\* src/src/worker/cdp.ts

sendHttpRequest_cdp ==
  Call(<< Connect("sendHttpRequest.socket"), Race(Opened("sendHttpRequest.socket"), "throw"),
          GetWriter("sendHttpRequest.socket"),
          TryFinally(<< Write("sendHttpRequest.socket") >>, << FreeWriterQuietly("sendHttpRequest.socket") >>),
          GetReader("sendHttpRequest.socket"),
          TryFinally(<< Loop(<< Race(Read("sendHttpRequest.socket"), "throw"), When(GotEnd, << Break >>),
                                When(GotData, << MayBreak >>) >>) >>,
                     << FreeReaderQuietly("sendHttpRequest.socket"), CloseQuietly("sendHttpRequest.socket") >>),
          MayThrow >>)

-----------------------------------------------------------------------------
\* src/src/worker/clamav.ts

readClamdResponse(socket) ==
  Call(<< Task("readPromise",
               << Quietly(<< Forever(<< Read(socket), When(GotNothing, << Break >>), MayReturn, MayBreak >>) >>) >>),
          Race(Join("readPromise"), "null") >>)

-----------------------------------------------------------------------------
\* src/src/worker/dicom.ts

readPDU_dicom(socket) ==
  Call(<< BufferedReader_readExact_buffered_reader(socket), MayThrow,
          Maybe(<< BufferedReader_readExact_buffered_reader(socket) >>) >>)

-----------------------------------------------------------------------------
\* src/src/worker/dict.ts

sendCommand_dict(socket) ==
  Call(<< Write(socket),
          Forever(<< MayBreak, MayThrow, Race(Read(socket), "throw"), When(GotEnd, << Break >>),
                     When(GotData, << MayThrow >>) >>) >>)

dictSession ==
  Call(<< Connect("dictSession.socket"),
          Try(
              << Race(Opened("dictSession.socket"), "throw"), GetWriter("dictSession.socket"),
                 GetReader("dictSession.socket"),
                 Forever(<< MayThrow, Race(Read("dictSession.socket"), "throw"), When(GotEnd, << Throw >>),
                            When(GotData, << MayThrow, Maybe(<< Either(<< Break >>, << Throw >>) >>) >>) >>),
                 sendCommand_dict("dictSession.socket"), sendCommand_dict("dictSession.socket"),
                 Write("dictSession.socket"), FreeWriter("dictSession.socket"),
                 FreeReader("dictSession.socket"), CloseQuietly("dictSession.socket"), Return >>,
              << CloseQuietly("dictSession.socket"), Throw >>) >>)

-----------------------------------------------------------------------------
\* src/src/worker/dnp3.ts

readDNP3Response(socket) ==
  Call(<< Task("readPromise",
               << Forever(<< Read(socket), When(GotEnd, << Break >>), MayContinue, MayReturn >>) >>),
          Race(Join("readPromise"), "throw") >>)

-----------------------------------------------------------------------------
\* src/src/worker/ethereum.ts

callRPC ==
  Call(<< Try(<< Await, MayReturn, Await, MayReturn, Return >>, << Return >>) >>)

-----------------------------------------------------------------------------
\* src/src/worker/ethernetip.ts

readEIPFrame(socket) ==
  Call(<< Loop(<< MayBreak, Race(Read(socket), "end"), When(GotNothing, << Break >>), MayReturn >>) >>)

openEIPSession(socket) ==
  Call(<< Write(socket), readEIPFrame(socket), MayThrow >>)

-----------------------------------------------------------------------------
\* src/src/worker/fins.ts

readFINSFrame(socket) ==
  Call(<< Loop(<< Race(Read(socket), "throw"), When(GotNothing, << Return >>), MayReturn >>) >>)

-----------------------------------------------------------------------------
\* src/src/worker/fix.ts

readResponse_fix(socket) ==
  Call(<< Forever(<< MayBreak, Race(Read(socket), "end"), When(GotNothing, << Break >>), MayBreak >>) >>)

readFIXUntilMsgType(socket) ==
  Call(<< Loop(<< MayBreak, Race(Read(socket), "end"), When(GotNothing, << Break >>), MayReturn >>) >>)

-----------------------------------------------------------------------------
\* src/src/worker/gpsd.ts

readLines_gpsd(socket) ==
  Call(<< Quietly(<< Loop(<< Race(Read(socket), "throw"), When(GotNothing, << Break >>), MayThrow,
                             Maybe(<< Quietly(<< Race(Read(socket), "throw") >>), Break >>) >>) >>) >>)

sendCommand_gpsd ==
  Call(<< checkIfCloudflare, MayThrow, Connect("sendCommand.socket"),
          Try(
              << Race(Opened("sendCommand.socket"), "throw"), GetWriter("sendCommand.socket"),
                 GetReader("sendCommand.socket"), readLines_gpsd("sendCommand.socket"),
                 FreeWriter("sendCommand.socket"), FreeReader("sendCommand.socket"),
                 CloseQuietly("sendCommand.socket"), Return >>,
              << CloseQuietly("sendCommand.socket"), Throw >>) >>)

sendCommand_gpsd_2 ==
  Call(<< checkIfCloudflare, MayThrow, Connect("sendCommand.socket"),
          Try(
              << Race(Opened("sendCommand.socket"), "throw"), GetWriter("sendCommand.socket"),
                 GetReader("sendCommand.socket"), readLines_gpsd("sendCommand.socket"),
                 Maybe(<< Write("sendCommand.socket"), readLines_gpsd("sendCommand.socket") >>),
                 FreeWriter("sendCommand.socket"), FreeReader("sendCommand.socket"),
                 CloseQuietly("sendCommand.socket"), Return >>,
              << CloseQuietly("sendCommand.socket"), Throw >>) >>)

sendPollCommand ==
  Call(<< checkIfCloudflare, MayThrow, Connect("sendPollCommand.socket"),
          Try(
              << Race(Opened("sendPollCommand.socket"), "throw"), GetWriter("sendPollCommand.socket"),
                 GetReader("sendPollCommand.socket"), readLines_gpsd("sendPollCommand.socket"),
                 Write("sendPollCommand.socket"), readLines_gpsd("sendPollCommand.socket"), Sleep,
                 Write("sendPollCommand.socket"), readLines_gpsd("sendPollCommand.socket"),
                 Quietly(<< Write("sendPollCommand.socket") >>), FreeWriter("sendPollCommand.socket"),
                 FreeReader("sendPollCommand.socket"), CloseQuietly("sendPollCommand.socket"), Return >>,
              << CloseQuietly("sendPollCommand.socket"), Throw >>) >>)

-----------------------------------------------------------------------------
\* src/src/worker/iec104.ts

handleIEC104Probe_readWithTimeout(socket) ==
  Call(<< Task("timeoutPromise", << Sleep, Quietly(<< Cancel(socket) >>) >>),
          Task("readPromise",
               << Quietly(<< Loop(<< Read(socket), When(GotNothing, << Break >>), MayReturn >>) >>) >>),
          Beside(Join("readPromise"), "timeoutPromise") >>)

handleIEC104ReadData_readWithDeadline(socket) ==
  Call(<< MayReturn, Task("readP", << Loop(<< Read(socket), When(GotNothing, << Break >>), MayReturn >>) >>),
          Race(Join("readP"), "null") >>)

handleIEC104Write_readWithDeadline(socket) ==
  Call(<< MayReturn, Task("readP", << Read(socket), When(GotNothing, << Return >>) >>),
          Race(Join("readP"), "null") >>)

-----------------------------------------------------------------------------
\* src/src/worker/jdwp.ts

readResponse_jdwp(socket) ==
  Call(<< Loop(<< MayBreak, Race(Read(socket), "end"), When(GotNothing, << Break >>), MayBreak >>) >>)

-----------------------------------------------------------------------------
\* src/src/worker/mms.ts

readTPKT(socket) ==
  Call(<< Loop(<< Maybe(<< MayThrow, MayReturn >>), MayBreak, Race(Read(socket), "end"),
                  When(GotNothing, << Break >>) >>) >>)

-----------------------------------------------------------------------------
\* src/src/worker/nntp.ts

readLine_nntp(socket) ==
  Call(<< Loop(<< Race(Read(socket), "throw"), When(GotEnd, << Throw >>), MayThrow >>) >>)

sendCommand_nntp(socket) ==
  Call(<< Write(socket) >>)

readMultiline_nntp(socket) ==
  Call(<< Forever(<< readLine_nntp(socket), MayBreak, MayThrow >>) >>)

nntpAuth(socket) ==
  Call(<< sendCommand_nntp(socket), readLine_nntp(socket), MayThrow, sendCommand_nntp(socket),
          readLine_nntp(socket), MayThrow >>)

-----------------------------------------------------------------------------
\* src/src/worker/nntps.ts

readLine_nntps(socket) ==
  Call(<< Loop(<< Race(Read(socket), "throw"), When(GotEnd, << Throw >>), MayThrow >>) >>)

sendCommand_nntps(socket) ==
  Call(<< Write(socket) >>)

readMultiline_nntps(socket) ==
  Call(<< Forever(<< readLine_nntps(socket), MayBreak, MayThrow >>) >>)

nntpsAuth(socket) ==
  Call(<< sendCommand_nntps(socket), readLine_nntps(socket), MayThrow, sendCommand_nntps(socket),
          readLine_nntps(socket), MayThrow >>)

-----------------------------------------------------------------------------
\* src/src/worker/node-inspector.ts

sendHttpRequest_node_inspector ==
  Call(<< Connect("sendHttpRequest.socket"), Race(Opened("sendHttpRequest.socket"), "throw"),
          GetWriter("sendHttpRequest.socket"), Write("sendHttpRequest.socket"),
          FreeWriter("sendHttpRequest.socket"), GetReader("sendHttpRequest.socket"),
          Loop(<< Race(Read("sendHttpRequest.socket"), "throw"), When(GotEnd, << Break >>),
                  When(GotData, << MayBreak >>) >>),
          FreeReader("sendHttpRequest.socket"), CloseQuietly("sendHttpRequest.socket"), MayThrow >>)

-----------------------------------------------------------------------------
\* src/src/worker/opcua.ts

readOPCUAResponse(socket) ==
  Call(<< Task("readPromise",
               << Forever(<< Read(socket), When(GotEnd, << Break >>), MayThrow,
                             Maybe(<< MayThrow, MayReturn >>) >>) >>),
          Race(Join("readPromise"), "throw") >>)

-----------------------------------------------------------------------------
\* src/src/worker/rmi.ts

readResponse_rmi(regSocket) ==
  Call(<< Loop(<< MayBreak, Race(Read(regSocket), "end"), When(GotNothing, << Break >>), MayBreak >>) >>)

-----------------------------------------------------------------------------
\* src/src/worker/rserve.ts

readResponse_rserve(socket) ==
  Call(<< Loop(<< MayBreak, Race(Read(socket), "end"), When(GotNothing, << Break >>) >>) >>)

-----------------------------------------------------------------------------
\* src/src/worker/s7comm.ts

readTPKTPacket(socket) ==
  Call(<< Loop(<< Race(Read(socket), "throw"), When(GotNothing, << Return >>) >>), MayReturn, MayThrow,
          Loop(<< Race(Read(socket), "throw"), When(GotNothing, << Break >>) >>) >>)

=============================================================================
