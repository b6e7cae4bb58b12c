------------------------- MODULE SpecialtyHandlers --------------------------
(* The one-shot handlers of the catalogue's other "Specialty" protocols.   *)
EXTENDS SpecialtyCalls

-----------------------------------------------------------------------------
\* src/src/worker/activeusers.ts

handleActiveUsersTest ==
  << MayReturn,
     Try(
         << Await, MayReturn, checkIfCloudflare, MayReturn, Connect("socket"),
            Task("timeoutPromise", << Sleep, CloseQuietly("socket"), Throw >>),
            Try(
                << Beside(Opened("socket"), "timeoutPromise"), GetReader("socket"),
                   BesideTask(<< readAllBytes("socket") >>, "timeoutPromise"), MayThrow, FreeReader("socket"),
                   CloseQuietly("socket"), Return >>,
                << CloseQuietly("socket"), Throw >>) >>,
         << Return >>) >>

handleActiveUsersQuery ==
  << MayReturn,
     Try(
         << Await, MayReturn, checkIfCloudflare, MayReturn, Connect("socket"),
            Task("timeoutPromise", << Sleep, CloseQuietly("socket"), Throw >>),
            Try(
                << Beside(Opened("socket"), "timeoutPromise"), GetReader("socket"),
                   BesideTask(<< readAllBytes("socket") >>, "timeoutPromise"), FreeReader("socket"),
                   CloseQuietly("socket"), Return >>,
                << CloseQuietly("socket"), Throw >>) >>,
         << Return >>) >>

handleActiveUsersRaw ==
  << MayReturn,
     Try(
         << Await, MayReturn, checkIfCloudflare, MayReturn, Connect("socket"),
            Task("timeoutPromise", << Sleep, CloseQuietly("socket"), Throw >>),
            Try(
                << Beside(Opened("socket"), "timeoutPromise"), GetReader("socket"),
                   BesideTask(<< readAllBytes("socket") >>, "timeoutPromise"), FreeReader("socket"),
                   CloseQuietly("socket"), Return >>,
                << CloseQuietly("socket"), Throw >>) >>,
         << Return >>) >>

-----------------------------------------------------------------------------
\* src/src/worker/adb.ts

handleADBCommand ==
  << MayReturn,
     Try(
         << Await, MayReturn, checkIfCloudflare, MayReturn, Connect("socket"),
            Try(
                << Race(Opened("socket"), "throw"), GetWriter("socket"), GetReader("socket"), Write("socket"),
                   readAll_adb("socket"), FreeWriter("socket"), FreeReader("socket"), CloseQuietly("socket"),
                   MayReturn, Return >>,
                << CloseQuietly("socket"), Throw >>) >>,
         << Return >>) >>

handleADBVersion ==
  << MayReturn,
     Try(
         << Await, MayReturn, checkIfCloudflare, MayReturn, Connect("socket"),
            Try(
                << Race(Opened("socket"), "throw"), GetWriter("socket"), GetReader("socket"), Write("socket"),
                   readAll_adb("socket"), FreeWriter("socket"), FreeReader("socket"), CloseQuietly("socket"),
                   MayReturn, Return >>,
                << CloseQuietly("socket"), Throw >>) >>,
         << Return >>) >>

handleADBDevices ==
  << MayReturn,
     Try(
         << Await, MayReturn, checkIfCloudflare, MayReturn, Connect("socket"),
            Try(
                << Race(Opened("socket"), "throw"), GetWriter("socket"), GetReader("socket"), Write("socket"),
                   readAll_adb("socket"), FreeWriter("socket"), FreeReader("socket"), CloseQuietly("socket"),
                   MayReturn, Return >>,
                << CloseQuietly("socket"), Throw >>) >>,
         << Return >>) >>

handleADBShell ==
  << MayReturn,
     Try(
         << Await, MayReturn, checkIfCloudflare, MayReturn, Connect("socket"),
            Try(
                << Race(Opened("socket"), "throw"), GetWriter("socket"), GetReader("socket"),
                   Call(<< Write("socket"),
                           Loop(<< Race(Read("socket"), "throw"), When(GotNothing, << Throw >>) >>),
                           MayReturn,
                           Maybe(<< Loop(<< Race(Read("socket"), "throw"), When(GotNothing, << Throw >>) >>),
                                    MayThrow,
                                    Loop(<< Race(Read("socket"), "throw"), When(GotNothing, << Throw >>) >>),
                                    Throw >>),
                           Throw >>),
                   Write("socket"), Loop(<< Race(Read("socket"), "throw"), When(GotNothing, << Throw >>) >>),
                   Maybe(<< Loop(<< Race(Read("socket"), "throw"), When(GotNothing, << Throw >>) >>),
                            Maybe(<< Loop(<< Race(Read("socket"), "throw"), When(GotNothing, << Throw >>) >>) >>),
                            Throw >>),
                   MayThrow,
                   Loop(<< Try(
                               << Race(Read("socket"), "throw"), When(GotNothing, << Break >>) >>,
                               << Break >>) >>),
                   FreeWriter("socket"), FreeReader("socket"), CloseQuietly("socket"), Return >>,
                << CloseQuietly("socket"), Throw >>) >>,
         << Return >>) >>

-----------------------------------------------------------------------------
\* src/src/worker/beats.ts

handleBeatsSend ==
  << MayReturn,
     Try(
         << Await, MayReturn, checkIfCloudflare, MayReturn, Connect("socket"),
            Try(
                << Race(Opened("socket"), "throw"), GetWriter("socket"), GetReader("socket"), Write("socket"),
                   Loop(<< Write("socket") >>), FreeWriter("socket"), Race(Read("socket"), "throw"),
                   When(GotNothing, << Throw >>), MayThrow, FreeReader("socket"), CloseQuietly("socket"),
                   Return >>,
                << CloseQuietly("socket"), Throw >>) >>,
         << Return >>) >>

handleBeatsTLS ==
  << MayReturn,
     Try(
         << Await, MayReturn, checkIfCloudflare, MayReturn, Connect("socket"),
            Try(
                << Race(Opened("socket"), "throw"), GetWriter("socket"), GetReader("socket"), Write("socket"),
                   Loop(<< Write("socket") >>), FreeWriter("socket"), Race(Read("socket"), "throw"),
                   When(GotNothing, << Throw >>), MayThrow, FreeReader("socket"), CloseQuietly("socket"),
                   Return >>,
                << CloseQuietly("socket"), Throw >>) >>,
         << Return >>) >>

handleBeatsConnect ==
  << MayReturn,
     Try(
         << Await, MayReturn, checkIfCloudflare, MayReturn, Connect("socket"),
            Try(
                << Race(Opened("socket"), "throw"), CloseQuietly("socket"), Return >>,
                << CloseQuietly("socket"), Throw >>) >>,
         << Return >>) >>

-----------------------------------------------------------------------------
\* src/src/worker/bitcoin.ts

handleBitcoinConnect ==
  << Try(
         << Either(<< Await >>, << MayThrow >>), MayReturn, checkIfCloudflare, MayReturn,
            Task("connectionPromise",
                 << Connect("socket"), Opened("socket"), GetReader("socket"), GetWriter("socket"),
                    Try(
                        << MayThrow, computeChecksum, Write("socket"), readMessage_bitcoin("socket"),
                           MayThrow, computeChecksum, Write("socket"),
                           Quietly(<< readMessage_bitcoin("socket") >>),
                           Maybe(<< FreeWriter("socket"), FreeReader("socket"), CloseQuietly("socket"),
                                    Return >>),
                           FreeWriter("socket"), FreeReader("socket"), CloseQuietly("socket"), Return >>,
                        << FreeReader("socket"), FreeWriter("socket"), CloseQuietly("socket"), Throw >>) >>),
            Try(<< Race(Join("connectionPromise"), "throw"), Return >>, << Return >>) >>,
         << Return >>) >>

handleBitcoinGetAddr ==
  << Try(
         << Either(<< Await >>, << MayThrow >>), MayReturn, checkIfCloudflare, MayReturn,
            Task("connectionPromise",
                 << Connect("socket"), Opened("socket"), GetReader("socket"), GetWriter("socket"),
                    Try(
                        << MayThrow, computeChecksum, Write("socket"), readMessage_bitcoin("socket"),
                           MayThrow, computeChecksum, Write("socket"),
                           Quietly(<< readMessage_bitcoin("socket") >>), computeChecksum, Write("socket"),
                           Quietly(<< Loop(<< readMessage_bitcoin("socket"), MayBreak >>) >>),
                           FreeWriter("socket"), FreeReader("socket"), CloseQuietly("socket"), Return >>,
                        << FreeReader("socket"), FreeWriter("socket"), CloseQuietly("socket"), Throw >>) >>),
            Try(<< Race(Join("connectionPromise"), "throw"), Return >>, << Return >>) >>,
         << Return >>) >>

handleBitcoinMempool ==
  << Try(
         << Either(<< Await >>, << MayThrow >>), MayReturn, checkIfCloudflare, MayReturn,
            Task("connectionPromise",
                 << Connect("socket"), Opened("socket"), GetReader("socket"), GetWriter("socket"),
                    Try(
                        << MayThrow, computeChecksum, Write("socket"), readMessage_bitcoin("socket"),
                           MayThrow, computeChecksum, Write("socket"),
                           Quietly(<< readMessage_bitcoin("socket") >>), computeChecksum, Write("socket"),
                           Loop(<< MayBreak, Try(<< readMessage_bitcoin("socket") >>, << Break >>),
                                   MayBreak >>),
                           buildPingMessage, Write("socket"),
                           Quietly(<< Forever(<< readMessage_bitcoin("socket"), MayBreak >>) >>),
                           FreeWriter("socket"), FreeReader("socket"), CloseQuietly("socket"), Return >>,
                        << FreeReader("socket"), FreeWriter("socket"), CloseQuietly("socket"), Throw >>) >>),
            Try(<< Race(Join("connectionPromise"), "throw"), Return >>, << Return >>) >>,
         << Return >>) >>

-----------------------------------------------------------------------------
\* src/src/worker/cdp.ts

handleCDPHealth ==
  << MayReturn,
     Try(
         << Await, MayReturn, checkIfCloudflare, MayReturn, sendHttpRequest_cdp,
            Quietly(<< sendHttpRequest_cdp >>), Return >>,
         << Return >>) >>

handleCDPQuery ==
  << MayReturn,
     Try(<< Await, MayReturn, checkIfCloudflare, MayReturn, sendHttpRequest_cdp, Return >>, << Return >>) >>

-----------------------------------------------------------------------------
\* src/src/worker/chargen.ts

handleChargenStream ==
  << MayReturn,
     Try(
         << Await, MayReturn, checkIfCloudflare, MayReturn, Connect("socket"),
            Try(
                << Race(Opened("socket"), "throw"), GetReader("socket"),
                   Try(
                       << Loop(<< Race(Read("socket"), "throw"), When(GotEnd, << Break >>),
                                  When(GotData, << MayBreak >>) >>) >>,
                       << MayThrow >>),
                   FreeReader("socket"), CloseQuietly("socket"), Return >>,
                << CloseQuietly("socket"), Throw >>) >>,
         << Return >>) >>

-----------------------------------------------------------------------------
\* src/src/worker/clamav.ts

handleClamAVPing ==
  << Try(
         << MayReturn, Await, MayReturn, checkIfCloudflare, MayReturn, Connect("socket"),
            Race(Opened("socket"), "throw"), GetWriter("socket"), Write("socket"), FreeWriter("socket"),
            GetReader("socket"), readClamdResponse("socket"),
            Quietly(<< FreeReader("socket"), Close("socket") >>), Return >>,
         << Return >>) >>

handleClamAVVersion ==
  << Try(
         << MayReturn, Await, MayReturn, checkIfCloudflare, MayReturn, Connect("socket"),
            Race(Opened("socket"), "throw"), GetWriter("socket"), Write("socket"), FreeWriter("socket"),
            GetReader("socket"), readClamdResponse("socket"),
            Quietly(<< FreeReader("socket"), Close("socket") >>), Return >>,
         << Return >>) >>

handleClamAVStats ==
  << Try(
         << MayReturn, Await, MayReturn, checkIfCloudflare, MayReturn, Connect("socket"),
            Race(Opened("socket"), "throw"), GetWriter("socket"), Write("socket"), FreeWriter("socket"),
            GetReader("socket"),
            Task("readPromise",
                 << Quietly(<< Forever(<< Read("socket"), When(GotNothing, << Break >>), MayBreak >>) >>) >>),
            Race(Join("readPromise"), "null"), Quietly(<< FreeReader("socket"), Close("socket") >>), Return >>,
         << Return >>) >>

handleClamAVScan ==
  << Try(
         << MayReturn, Await, MayReturn, checkIfCloudflare, MayReturn, Connect("socket"),
            Try(
                << Race(Opened("socket"), "throw"), GetReader("socket"), GetWriter("socket"),
                   TryFinally(<< Write("socket"), Loop(<< Write("socket") >>), Write("socket"),
                                 readClamdResponse("socket"), Return >>,
                              << FreeReader("socket"), FreeWriter("socket"), CloseQuietly("socket") >>) >>,
                << CloseQuietly("socket"), Throw >>) >>,
         << Return >>) >>

-----------------------------------------------------------------------------
\* src/src/worker/collectd.ts

handleCollectdProbe ==
  << MayReturn,
     Try(
         << Await, MayReturn, checkIfCloudflare, MayReturn, Connect("socket"),
            Try(
                << Race(Opened("socket"), "throw"), GetReader("socket"),
                   Quietly(<< Race(Read("socket"), "throw") >>), FreeReader("socket"), CloseQuietly("socket"),
                   Return >>,
                << CloseQuietly("socket"), Throw >>) >>,
         << Return >>) >>

handleCollectdSend ==
  << MayReturn,
     Try(
         << Await, MayReturn, checkIfCloudflare, MayReturn, Connect("socket"),
            Try(
                << Race(Opened("socket"), "throw"), GetWriter("socket"), Write("socket"),
                   FreeWriter("socket"), CloseQuietly("socket"), Return >>,
                << CloseQuietly("socket"), Throw >>) >>,
         << Return >>) >>

handleCollectdPut ==
  << MayReturn,
     Try(
         << Await, MayReturn, checkIfCloudflare, MayReturn, Connect("socket"),
            Try(
                << Race(Opened("socket"), "throw"), GetWriter("socket"), Write("socket"),
                   FreeWriter("socket"), CloseQuietly("socket"), Return >>,
                << CloseQuietly("socket"), Throw >>) >>,
         << Return >>) >>

handleCollectdReceive ==
  << MayReturn,
     Try(
         << Await, MayReturn, checkIfCloudflare, MayReturn, Connect("socket"),
            Try(
                << Race(Opened("socket"), "throw"), GetReader("socket"),
                   Loop(<< MayBreak, Race(Read("socket"), "end"), When(GotNothing, << Break >>) >>),
                   FreeReader("socket"), CloseQuietly("socket"), Return >>,
                << CloseQuietly("socket"), Throw >>) >>,
         << Return >>) >>

-----------------------------------------------------------------------------
\* src/src/worker/dap.ts

handleDAPHealth ==
  << MayReturn,
     Try(
         << Await, MayReturn, checkIfCloudflare, MayReturn, Connect("socket"),
            Race(Opened("socket"), "throw"), GetWriter("socket"), Write("socket"), FreeWriter("socket"),
            GetReader("socket"),
            Loop(<< MayBreak, Race(Read("socket"), "end"), When(GotEnd, << Break >>), MayBreak >>),
            FreeReader("socket"), CloseQuietly("socket"), Return >>,
         << Return >>) >>

-----------------------------------------------------------------------------
\* src/src/worker/daytime.ts

handleDaytimeGet ==
  << MayReturn,
     Try(
         << Await, MayReturn, checkIfCloudflare, MayReturn, Connect("socket"),
            Try(
                << Race(Opened("socket"), "throw"), GetReader("socket"),
                   Try(
                       << Forever(<< Race(Read("socket"), "throw"), When(GotEnd, << Break >>),
                                     When(GotData, << MayBreak >>) >>) >>,
                       << MayThrow >>),
                   MayThrow, FreeReader("socket"), CloseQuietly("socket"), Return >>,
                << CloseQuietly("socket"), Throw >>) >>,
         << Return >>) >>

-----------------------------------------------------------------------------
\* src/src/worker/dicom.ts

handleDICOMConnect ==
  << MayReturn,
     Try(
         << Await, MayReturn, checkIfCloudflare, MayReturn, Connect("socket"),
            Try(
                << Race(Opened("socket"), "throw"), GetReader("socket"), GetWriter("socket"), Write("socket"),
                   readPDU_dicom("socket"),
                   Either(<< Quietly(<< Write("socket"), readPDU_dicom("socket") >>), FreeReader("socket"),
                             FreeWriter("socket"), CloseQuietly("socket"), Return >>,
                          << FreeReader("socket"), FreeWriter("socket"), CloseQuietly("socket"), Return >>) >>,
                << CloseQuietly("socket"), Throw >>) >>,
         << Return >>) >>

handleDICOMEcho ==
  << MayReturn,
     Try(
         << Await, MayReturn, checkIfCloudflare, MayReturn, Connect("socket"),
            Try(
                << Race(Opened("socket"), "throw"), GetReader("socket"), GetWriter("socket"), Write("socket"),
                   readPDU_dicom("socket"),
                   Maybe(<< FreeReader("socket"), FreeWriter("socket"), CloseQuietly("socket"), MayReturn,
                            Return >>),
                   Maybe(<< FreeReader("socket"), FreeWriter("socket"), CloseQuietly("socket"), Return >>),
                   Write("socket"), readPDU_dicom("socket"),
                   Quietly(<< Write("socket"), readPDU_dicom("socket") >>), FreeReader("socket"),
                   FreeWriter("socket"), CloseQuietly("socket"), Return >>,
                << CloseQuietly("socket"), Throw >>) >>,
         << Return >>) >>

handleDICOMFind ==
  << MayReturn,
     Try(
         << Await, MayReturn, checkIfCloudflare, MayReturn, Connect("socket"),
            Try(
                << Race(Opened("socket"), "throw"), GetReader("socket"), GetWriter("socket"), Write("socket"),
                   readPDU_dicom("socket"),
                   Maybe(<< FreeReader("socket"), FreeWriter("socket"), CloseQuietly("socket"), Return >>),
                   Maybe(<< FreeReader("socket"), FreeWriter("socket"), CloseQuietly("socket"), Return >>),
                   Maybe(<< FreeReader("socket"), FreeWriter("socket"), CloseQuietly("socket"), Return >>),
                   Write("socket"), Forever(<< readPDU_dicom("socket"), MayBreak, MayContinue >>),
                   Quietly(<< Write("socket"), readPDU_dicom("socket") >>), FreeReader("socket"),
                   FreeWriter("socket"), CloseQuietly("socket"), Return >>,
                << CloseQuietly("socket"), Throw >>) >>,
         << Return >>) >>

-----------------------------------------------------------------------------
\* src/src/worker/dict.ts

handleDictDefine ==
  << MayReturn,
     Try(<< Await, MayReturn, checkIfCloudflare, MayReturn, dictSession, MayReturn, Return >>, << Return >>) >>

handleDictMatch ==
  << MayReturn,
     Try(<< Await, MayReturn, checkIfCloudflare, MayReturn, dictSession, MayReturn, Return >>, << Return >>) >>

handleDictDatabases ==
  << MayReturn,
     Try(<< Await, MayReturn, checkIfCloudflare, MayReturn, dictSession, MayReturn, Return >>, << Return >>) >>

-----------------------------------------------------------------------------
\* src/src/worker/discard.ts

handleDiscardSend ==
  << MayReturn,
     Try(
         << Await, MayReturn, checkIfCloudflare, MayReturn, Connect("socket"),
            Try(
                << Race(Opened("socket"), "throw"), GetWriter("socket"), Write("socket"), Finish("socket"),
                   CloseQuietly("socket"), Return >>,
                << CloseQuietly("socket"), Throw >>) >>,
         << Return >>) >>

-----------------------------------------------------------------------------
\* src/src/worker/dnp3.ts

handleDNP3Connect ==
  << MayReturn,
     Try(
         << Await, MayReturn, checkIfCloudflare, MayReturn,
            Task("connectionPromise",
                 << Connect("socket"), Opened("socket"), GetReader("socket"), GetWriter("socket"),
                    Try(
                        << Write("socket"), readDNP3Response("socket"), Close("socket"), MayReturn, Return >>,
                        << Close("socket"), Throw >>) >>),
            Race(Join("connectionPromise"), "throw"), Return >>,
         << Return >>) >>

handleDNP3Read ==
  << MayReturn,
     Try(
         << Await, MayReturn, checkIfCloudflare, MayReturn,
            Task("connectionPromise",
                 << Connect("socket"), Opened("socket"), GetReader("socket"), GetWriter("socket"),
                    Try(
                        << Write("socket"), readDNP3Response("socket"), Close("socket"), MayReturn, Return >>,
                        << Close("socket"), Throw >>) >>),
            Race(Join("connectionPromise"), "throw"), Return >>,
         << Return >>) >>

handleDNP3SelectOperate ==
  << MayReturn,
     Try(
         << Await, MayReturn, checkIfCloudflare, MayReturn,
            Task("connectionPromise",
                 << Connect("socket"), Opened("socket"), GetReader("socket"), GetWriter("socket"),
                    Try(
                        << Write("socket"), readDNP3Response("socket"), Maybe(<< Close("socket"), Return >>),
                           Write("socket"), readDNP3Response("socket"), Close("socket"), Return >>,
                        << Close("socket"), Throw >>) >>),
            Race(Join("connectionPromise"), "throw"), Return >>,
         << Return >>) >>

-----------------------------------------------------------------------------
\* src/src/worker/echo.ts

handleEchoTest ==
  << MayReturn,
     Try(
         << Await, MayReturn, checkIfCloudflare, MayReturn, Connect("socket"),
            Try(
                << Race(Opened("socket"), "throw"), GetWriter("socket"), GetReader("socket"), Write("socket"),
                   Loop(<< Race(Read("socket"), "throw"), When(GotEnd, << Break >>) >>), MayThrow,
                   FreeWriter("socket"), FreeReader("socket"), CloseQuietly("socket"), Return >>,
                << CloseQuietly("socket"), Throw >>) >>,
         << Return >>) >>

-----------------------------------------------------------------------------
\* src/src/worker/ethereum.ts

handleEthereumProbe ==
  << MayReturn,
     Try(
         << Await, MayReturn, checkIfCloudflare, MayReturn, Connect("socket"),
            Try(
                << Race(Opened("socket"), "throw"), GetReader("socket"),
                   Quietly(<< Race(Read("socket"), "throw") >>), FreeReader("socket"), CloseQuietly("socket"),
                   Return >>,
                << CloseQuietly("socket"), Throw >>) >>,
         << Return >>) >>

handleEthereumRPC ==
  << MayReturn, Try(<< Await, MayReturn, checkIfCloudflare, MayReturn, callRPC, Return >>, << Return >>) >>

handleEthereumInfo ==
  << MayReturn,
     Try(
         << Await, MayReturn, checkIfCloudflare, MayReturn, Task("callRPC1", << callRPC >>),
            Task("callRPC2", << callRPC >>), Task("callRPC3", << callRPC >>), Task("callRPC4", << callRPC >>),
            Task("callRPC5", << callRPC >>),
            JoinAll({"callRPC1", "callRPC2", "callRPC3", "callRPC4", "callRPC5"}), Return >>,
         << Return >>) >>

handleEthereumP2PProbe ==
  << MayReturn,
     Try(
         << Await, MayReturn, checkIfCloudflare, MayReturn, Connect("socket"),
            Try(
                << Race(Opened("socket"), "throw"), GetReader("socket"),
                   Quietly(<< Race(Read("socket"), "throw") >>), FreeReader("socket"),
                   CloseQuietly("socket") >>,
                << CloseQuietly("socket"), Throw >>),
            Return >>,
         << Return >>) >>

-----------------------------------------------------------------------------
\* src/src/worker/ethernetip.ts

handleEtherNetIPIdentity ==
  << MayReturn,
     Try(
         << Await, MayReturn, checkIfCloudflare, MayReturn,
            Task("connectionPromise",
                 << Connect("socket"), Opened("socket"), GetReader("socket"), GetWriter("socket"),
                    Try(
                        << Write("socket"), readEIPFrame("socket"), FreeWriter("socket"),
                           FreeReader("socket"), CloseQuietly("socket"), MayThrow, Return >>,
                        << FreeReader("socket"), FreeWriter("socket"), CloseQuietly("socket"), Throw >>) >>),
            Race(Join("connectionPromise"), "throw"), Return >>,
         << Return >>) >>

handleEtherNetIPCIPRead ==
  << MayReturn,
     Try(
         << Await, MayReturn, checkIfCloudflare, MayReturn,
            Task("connectionPromise",
                 << Connect("socket"), Opened("socket"), GetReader("socket"), GetWriter("socket"),
                    Try(
                        << Write("socket"), readEIPFrame("socket"), MayThrow, Write("socket"),
                           readEIPFrame("socket"), MayThrow, Quietly(<< Write("socket") >>),
                           FreeWriter("socket"), FreeReader("socket"), CloseQuietly("socket"), Return >>,
                        << FreeReader("socket"), FreeWriter("socket"), CloseQuietly("socket"), Throw >>) >>),
            Race(Join("connectionPromise"), "throw"), Return >>,
         << Return >>) >>

handleEtherNetIPGetAttributeAll ==
  << MayReturn,
     Try(
         << Await, MayReturn, checkIfCloudflare, MayReturn,
            Task("connectionPromise",
                 << Connect("socket"), Opened("socket"), GetReader("socket"), GetWriter("socket"),
                    Try(
                        << openEIPSession("socket"), Write("socket"), readEIPFrame("socket"), MayThrow,
                           Quietly(<< Write("socket") >>), FreeWriter("socket"), FreeReader("socket"),
                           CloseQuietly("socket"), Return >>,
                        << FreeReader("socket"), FreeWriter("socket"), CloseQuietly("socket"), Throw >>) >>),
            Race(Join("connectionPromise"), "throw"), Return >>,
         << Return >>) >>

handleEtherNetIPSetAttribute ==
  << MayReturn,
     Try(
         << Await, MayReturn, checkIfCloudflare, MayReturn,
            Task("connectionPromise",
                 << Connect("socket"), Opened("socket"), GetReader("socket"), GetWriter("socket"),
                    Try(
                        << openEIPSession("socket"), Write("socket"), readEIPFrame("socket"), MayThrow,
                           Quietly(<< Write("socket") >>), FreeWriter("socket"), FreeReader("socket"),
                           CloseQuietly("socket"), Return >>,
                        << FreeReader("socket"), FreeWriter("socket"), CloseQuietly("socket"), Throw >>) >>),
            Race(Join("connectionPromise"), "throw"), Return >>,
         << Return >>) >>

handleEtherNetIPListServices ==
  << MayReturn,
     Try(
         << Await, MayReturn, checkIfCloudflare, MayReturn,
            Task("connectionPromise",
                 << Connect("socket"), Opened("socket"), GetReader("socket"), GetWriter("socket"),
                    Try(
                        << Write("socket"), readEIPFrame("socket"), MayThrow, FreeWriter("socket"),
                           FreeReader("socket"), CloseQuietly("socket"), Return >>,
                        << FreeReader("socket"), FreeWriter("socket"), CloseQuietly("socket"), Throw >>) >>),
            Race(Join("connectionPromise"), "throw"), Return >>,
         << Return >>) >>

-----------------------------------------------------------------------------
\* src/src/worker/finger.ts

handleFingerQuery ==
  << MayReturn,
     Try(
         << Await, MayReturn, checkIfCloudflare, MayReturn, Connect("socket"),
            Try(
                << Race(Opened("socket"), "throw"), GetWriter("socket"), GetReader("socket"), Write("socket"),
                   FreeWriter("socket"),
                   Try(
                       << Forever(<< Race(Read("socket"), "throw"), When(GotEnd, << Break >>),
                                     When(GotData, << MayThrow >>) >>) >>,
                       << MayThrow >>),
                   FreeReader("socket"), ForgetReader("socket"), CloseQuietly("socket"), Return >>,
                << When(HasReader("socket"), << FreeReaderQuietly("socket") >>), CloseQuietly("socket"),
                   Throw >>) >>,
         << Return >>) >>

-----------------------------------------------------------------------------
\* src/src/worker/fins.ts

handleFINSConnect ==
  << MayReturn,
     Try(
         << Await, MayReturn, checkIfCloudflare, MayReturn,
            Task("connectionPromise",
                 << Connect("socket"), Opened("socket"), GetReader("socket"), GetWriter("socket"),
                    Try(
                        << Write("socket"), readFINSFrame("socket"), MayThrow,
                           Quietly(<< Write("socket"), readFINSFrame("socket") >>),
                           Quietly(<< Write("socket"), readFINSFrame("socket") >>), FreeWriter("socket"),
                           FreeReader("socket"), CloseQuietly("socket"), Return >>,
                        << FreeWriter("socket"), FreeReader("socket"), CloseQuietly("socket"), Throw >>) >>),
            Race(Join("connectionPromise"), "throw"), Return >>,
         << Return >>) >>

handleFINSMemoryWrite ==
  << MayReturn,
     Try(
         << Await, MayReturn, checkIfCloudflare, MayReturn,
            Task("connectionPromise",
                 << Connect("socket"), Opened("socket"), GetReader("socket"), GetWriter("socket"),
                    Try(
                        << Write("socket"), readFINSFrame("socket"), MayThrow, Write("socket"),
                           readFINSFrame("socket"), MayThrow, FreeWriter("socket"), FreeReader("socket"),
                           CloseQuietly("socket"), Return >>,
                        << FreeWriter("socket"), FreeReader("socket"), CloseQuietly("socket"), Throw >>) >>),
            Race(Join("connectionPromise"), "throw"), Return >>,
         << Return >>) >>

handleFINSMemoryRead ==
  << MayReturn,
     Try(
         << Await, MayReturn, checkIfCloudflare, MayReturn,
            Task("connectionPromise",
                 << Connect("socket"), Opened("socket"), GetReader("socket"), GetWriter("socket"),
                    Try(
                        << Write("socket"), readFINSFrame("socket"), MayThrow, Write("socket"),
                           readFINSFrame("socket"), MayThrow, FreeWriter("socket"), FreeReader("socket"),
                           CloseQuietly("socket"), MayReturn, Return >>,
                        << FreeWriter("socket"), FreeReader("socket"), CloseQuietly("socket"), Throw >>) >>),
            Race(Join("connectionPromise"), "throw"), Return >>,
         << Return >>) >>

-----------------------------------------------------------------------------
\* src/src/worker/fix.ts

handleFIXProbe ==
  << MayReturn,
     Try(
         << Await, MayReturn, checkIfCloudflare, MayReturn, Connect("socket"),
            Try(
                << Race(Opened("socket"), "throw"), GetWriter("socket"), GetReader("socket"), Write("socket"),
                   readResponse_fix("socket"), Write("socket"), FreeWriter("socket"), FreeReader("socket"),
                   CloseQuietly("socket"), Return >>,
                << CloseQuietly("socket"), Throw >>) >>,
         << Return >>) >>

handleFIXOrder ==
  << MayReturn,
     Try(
         << Await, MayReturn, checkIfCloudflare, MayReturn, Connect("socket"),
            Try(
                << Race(Opened("socket"), "throw"), GetWriter("socket"), GetReader("socket"), Write("socket"),
                   readFIXUntilMsgType("socket"),
                   Maybe(<< Quietly(<< Write("socket") >>), FreeWriter("socket"), FreeReader("socket"),
                            CloseQuietly("socket"), Return >>),
                   Write("socket"), readFIXUntilMsgType("socket"), Quietly(<< Write("socket") >>),
                   FreeWriter("socket"), FreeReader("socket"), CloseQuietly("socket"), Return >>,
                << CloseQuietly("socket"), Throw >>) >>,
         << Return >>) >>

handleFIXHeartbeat ==
  << MayReturn,
     Try(
         << Await, MayReturn, checkIfCloudflare, MayReturn, Connect("socket"),
            Try(
                << Race(Opened("socket"), "throw"), GetWriter("socket"), GetReader("socket"), Write("socket"),
                   readResponse_fix("socket"),
                   Maybe(<< FreeWriter("socket"), FreeReader("socket"), CloseQuietly("socket"), Return >>),
                   Write("socket"), readResponse_fix("socket"), Write("socket"), FreeWriter("socket"),
                   FreeReader("socket"), CloseQuietly("socket"), Return >>,
                << CloseQuietly("socket"), Throw >>) >>,
         << Return >>) >>

-----------------------------------------------------------------------------
\* src/src/worker/gemini.ts

handleGeminiFetch ==
  << Try(
         << Await, MayReturn, checkIfCloudflare, MayReturn, Connect("socket"),
            Try(
                << Race(Opened("socket"), "throw"), GetWriter("socket"), GetReader("socket"),
                   TryFinally(<< Write("socket") >>, << FreeWriter("socket") >>),
                   Try(
                       << Forever(<< Race(Read("socket"), "throw"), When(GotEnd, << Break >>),
                                     When(GotData, << MayThrow >>) >>) >>,
                       << MayThrow >>),
                   MayThrow, FreeReader("socket"), CloseQuietly("socket"), Return >>,
                << CloseQuietly("socket"), Throw >>) >>,
         << Return >>) >>

-----------------------------------------------------------------------------
\* src/src/worker/gpsd.ts

handleGPSDVersion ==
  << MayReturn,
     Try(<< Await, MayReturn, checkIfCloudflare, MayReturn, sendCommand_gpsd, Return >>, << Return >>) >>

handleGPSDDevices ==
  << MayReturn, Try(<< Await, MayReturn, sendCommand_gpsd_2, Return >>, << Return >>) >>

handleGPSDPoll ==
  << MayReturn, Try(<< Await, MayReturn, sendPollCommand, Return >>, << Return >>) >>

handleGPSDCommand ==
  << MayReturn, Try(<< Await, MayReturn, sendCommand_gpsd_2, Return >>, << Return >>) >>

handleGPSDWatch ==
  << MayReturn,
     Try(
         << Await, MayReturn, checkIfCloudflare, MayReturn, Connect("socket"),
            Race(Opened("socket"), "throw"), GetWriter("socket"), GetReader("socket"),
            TryFinally(<< Loop(<< Try(
                                      << Race(Read("socket"), "throw"), When(GotNothing, << Break >>),
                                         MayBreak >>,
                                      << Break >>) >>),
                          Write("socket"),
                          Loop(<< MayBreak,
                                  Try(
                                      << Race(Read("socket"), "throw"), When(GotNothing, << Break >>) >>,
                                      << Break >>) >>),
                          Quietly(<< Write("socket") >>) >>,
                       << FreeWriterQuietly("socket"), FreeReaderQuietly("socket"), CloseQuietly("socket") >>),
            Return >>,
         << Return >>) >>

-----------------------------------------------------------------------------
\* src/src/worker/hl7.ts

handleHL7Connect ==
  << MayReturn,
     Try(
         << Await, MayReturn, checkIfCloudflare, MayReturn,
            Task("connectionPromise", << Connect("socket"), Opened("socket"), Close("socket") >>),
            Try(<< Race(Join("connectionPromise"), "throw"), Return >>, << Return >>) >>,
         << Return >>) >>

handleHL7Send ==
  << MayReturn,
     Try(
         << Await, MayReturn, checkIfCloudflare, MayReturn,
            Task("connectionPromise",
                 << Connect("socket"), Opened("socket"), GetWriter("socket"), GetReader("socket"),
                    Try(
                        << Write("socket"),
                           Loop(<< MayThrow, Race(Read("socket"), "throw"), When(GotEnd, << Break >>),
                                   MayThrow >>),
                           Close("socket"), Return >>,
                        << Close("socket"), Throw >>) >>),
            Try(<< Race(Join("connectionPromise"), "throw"), Return >>, << Return >>) >>,
         << Return >>) >>

handleHL7Query ==
  << MayReturn,
     Try(
         << Await, MayReturn, checkIfCloudflare, MayReturn,
            Task("connectionPromise",
                 << Connect("socket"), Opened("socket"), GetWriter("socket"), GetReader("socket"),
                    Try(
                        << Write("socket"),
                           Loop(<< MayThrow, Race(Read("socket"), "throw"), When(GotEnd, << Break >>),
                                   MayThrow >>),
                           Close("socket"), Return >>,
                        << Close("socket"), Throw >>) >>),
            Try(<< Race(Join("connectionPromise"), "throw"), Return >>, << Return >>) >>,
         << Return >>) >>

handleHL7ADT_A08 ==
  << MayReturn,
     Try(
         << Await, MayReturn, checkIfCloudflare, MayReturn,
            Task("connectionPromise",
                 << Connect("socket"), Opened("socket"), GetWriter("socket"), GetReader("socket"),
                    Try(
                        << Write("socket"),
                           Loop(<< MayThrow, Race(Read("socket"), "throw"), When(GotEnd, << Break >>),
                                   MayThrow >>),
                           Close("socket"), Return >>,
                        << Close("socket"), Throw >>) >>),
            Try(<< Race(Join("connectionPromise"), "throw"), Return >>, << Return >>) >>,
         << Return >>) >>

-----------------------------------------------------------------------------
\* src/src/worker/iec104.ts

handleIEC104Probe ==
  << Try(
         << Await, MayReturn, checkIfCloudflare, MayReturn,
            Task("connectionPromise",
                 << Connect("socket"), Opened("socket"), GetReader("socket"), GetWriter("socket"),
                    Try(
                        << Write("socket"), handleIEC104Probe_readWithTimeout("socket"), Write("socket"),
                           handleIEC104Probe_readWithTimeout("socket"), Quietly(<< Write("socket") >>),
                           FreeWriter("socket"), FreeReader("socket"), CloseQuietly("socket"), Return >>,
                        << FreeReader("socket"), FreeWriter("socket"), CloseQuietly("socket"), Throw >>) >>),
            Race(Join("connectionPromise"), "throw"), Return >>,
         << Return >>) >>

handleIEC104ReadData ==
  << Try(
         << Await, MayReturn, checkIfCloudflare, MayReturn,
            Task("connectionPromise",
                 << Connect("socket"), Opened("socket"), GetReader("socket"), GetWriter("socket"),
                    Try(
                        << Write("socket"), handleIEC104ReadData_readWithDeadline("socket"),
                           Maybe(<< FreeWriter("socket"), FreeReader("socket"), CloseQuietly("socket"),
                                    Return >>),
                           Write("socket"),
                           Loop(<< handleIEC104ReadData_readWithDeadline("socket"), MayBreak >>),
                           Maybe(<< Quietly(<< Write("socket") >>) >>), Quietly(<< Write("socket") >>),
                           FreeWriter("socket"), FreeReader("socket"), CloseQuietly("socket"), Return >>,
                        << FreeReader("socket"), FreeWriter("socket"), CloseQuietly("socket"), Throw >>) >>),
            Race(Join("connectionPromise"), "throw"), Return >>,
         << Return >>) >>

handleIEC104Write ==
  << Try(
         << Await, MayReturn, checkIfCloudflare, MayReturn,
            Task("connectionPromise",
                 << Connect("socket"), Opened("socket"), GetReader("socket"), GetWriter("socket"),
                    Try(
                        << Write("socket"), handleIEC104Write_readWithDeadline("socket"),
                           When(GotNothing, << Throw >>), MayThrow, Write("socket"),
                           handleIEC104Write_readWithDeadline("socket"), When(GotData, << MayThrow >>),
                           Maybe(<< Quietly(<< Write("socket") >>) >>), Quietly(<< Write("socket") >>),
                           FreeWriter("socket"), FreeReader("socket"), CloseQuietly("socket"), Return >>,
                        << FreeReader("socket"), FreeWriter("socket"), CloseQuietly("socket"), Throw >>) >>),
            Race(Join("connectionPromise"), "throw"), Return >>,
         << Return >>) >>

-----------------------------------------------------------------------------
\* src/src/worker/ipp.ts

handleIPPProbe ==
  << Try(
         << Await, MayReturn, checkIfCloudflare, MayReturn, Connect("socket"),
            Try(
                << Race(Opened("socket"), "throw"), GetWriter("socket"), GetReader("socket"), Write("socket"),
                   Loop(<< Race(Read("socket"), "throw"), When(GotNothing, << Break >>), MayBreak >>),
                   FreeWriter("socket"), FreeReader("socket"), CloseQuietly("socket"), MayThrow, Return >>,
                << CloseQuietly("socket"), Throw >>) >>,
         << Return >>) >>

handleIPPPrintJob ==
  << Try(
         << Await, MayReturn, checkIfCloudflare, MayReturn, Connect("socket"),
            Try(
                << Race(Opened("socket"), "throw"), GetWriter("socket"), GetReader("socket"), Write("socket"),
                   Loop(<< Race(Read("socket"), "throw"), When(GotNothing, << Break >>), MayBreak >>),
                   FreeWriter("socket"), FreeReader("socket"), CloseQuietly("socket"), MayThrow, Return >>,
                << CloseQuietly("socket"), Throw >>) >>,
         << Return >>) >>

-----------------------------------------------------------------------------
\* src/src/worker/jdwp.ts

handleJDWPProbe ==
  << MayReturn,
     Try(
         << Await, MayReturn, checkIfCloudflare, MayReturn, Connect("socket"),
            Try(
                << Race(Opened("socket"), "throw"), GetWriter("socket"), GetReader("socket"), Write("socket"),
                   readResponse_jdwp("socket"), FreeWriter("socket"), FreeReader("socket"),
                   CloseQuietly("socket"), MayReturn, Return >>,
                << CloseQuietly("socket"), Throw >>) >>,
         << Return >>) >>

handleJDWPThreads ==
  << MayReturn,
     Try(
         << Await, MayReturn, checkIfCloudflare, MayReturn, Connect("socket"),
            Try(
                << Race(Opened("socket"), "throw"), GetWriter("socket"), GetReader("socket"), Write("socket"),
                   readResponse_jdwp("socket"), MayThrow, Write("socket"), readResponse_jdwp("socket"),
                   Write("socket"), readResponse_jdwp("socket"), MayThrow,
                   Loop(<< Quietly(<< Write("socket"), readResponse_jdwp("socket") >>) >>),
                   FreeWriter("socket"), FreeReader("socket"), CloseQuietly("socket"), Return >>,
                << CloseQuietly("socket"), Throw >>) >>,
         << Return >>) >>

handleJDWPVersion ==
  << MayReturn,
     Try(
         << Await, MayReturn, checkIfCloudflare, MayReturn, Connect("socket"),
            Try(
                << Race(Opened("socket"), "throw"), GetWriter("socket"), GetReader("socket"), Write("socket"),
                   readResponse_jdwp("socket"),
                   Maybe(<< FreeWriter("socket"), FreeReader("socket"), CloseQuietly("socket"), Return >>),
                   Write("socket"), readResponse_jdwp("socket"),
                   Maybe(<< Write("socket"), readResponse_jdwp("socket") >>), FreeWriter("socket"),
                   FreeReader("socket"), CloseQuietly("socket"), Return >>,
                << CloseQuietly("socket"), Throw >>) >>,
         << Return >>) >>

-----------------------------------------------------------------------------
\* src/src/worker/jetdirect.ts

handleJetDirectConnect ==
  << MayReturn,
     Try(
         << Await, MayReturn, checkIfCloudflare, MayReturn, Connect("socket"),
            Try(<< Race(Opened("socket"), "throw") >>, << CloseQuietly("socket"), Throw >>),
            GetWriter("socket"), GetReader("socket"), Write("socket"),
            Quietly(<< Loop(<< Race(Read("socket"), "end"), When(GotNothing, << Break >>) >>) >>),
            FreeWriter("socket"), FreeReader("socket"), CloseQuietly("socket"), Return >>,
         << Return >>) >>

handleJetDirectPrint ==
  << MayReturn,
     Try(
         << Await, MayReturn, checkIfCloudflare, MayReturn, Connect("socket"),
            Try(<< Race(Opened("socket"), "throw") >>, << CloseQuietly("socket"), Throw >>),
            GetWriter("socket"), GetReader("socket"), Write("socket"),
            Quietly(<< Forever(<< Race(Read("socket"), "end"), When(GotNothing, << Break >>), MayBreak >>) >>),
            FreeWriter("socket"), FreeReader("socket"), CloseQuietly("socket"), Return >>,
         << Return >>) >>

-----------------------------------------------------------------------------
\* src/src/worker/lpd.ts

handleLPDProbe ==
  << Try(
         << MayReturn, Await, MayReturn, checkIfCloudflare, MayReturn, Connect("socket"),
            Race(Opened("socket"), "throw"), GetWriter("socket"), Write("socket"), FreeWriter("socket"),
            GetReader("socket"),
            Task("readPromise",
                 << Quietly(<< Forever(<< Read("socket"), When(GotNothing, << Break >>), MayBreak >>) >>) >>),
            Race(Join("readPromise"), "null"), Quietly(<< FreeReader("socket"), Close("socket") >>), Return >>,
         << Return >>) >>

handleLPDPrint ==
  << Try(
         << MayReturn, Await, MayReturn, checkIfCloudflare, MayReturn, Connect("socket"),
            Race(Opened("socket"), "throw"), GetWriter("socket"), GetReader("socket"), Write("socket"),
            Call(<< Race(Read("socket"), "end"), If(GotData, << MayReturn >>, << Return >>) >>),
            Maybe(<< Write("socket"),
                     Call(<< Race(Read("socket"), "end"), If(GotData, << MayReturn >>, << Return >>) >>),
                     Maybe(<< Write("socket"), Write("socket"),
                              Call(<< Race(Read("socket"), "end"),
                                      If(GotData, << MayReturn >>, << Return >>) >>) >>),
                     Write("socket"),
                     Call(<< Race(Read("socket"), "end"), If(GotData, << MayReturn >>, << Return >>) >>),
                     Maybe(<< Write("socket"), Write("socket"),
                              Call(<< Race(Read("socket"), "end"),
                                      If(GotData, << MayReturn >>, << Return >>) >>) >>) >>),
            FreeWriter("socket"), FreeReader("socket"), CloseQuietly("socket"), Return >>,
         << Return >>) >>

handleLPDQueue ==
  << Try(
         << MayReturn, Await, MayReturn, checkIfCloudflare, MayReturn, Connect("socket"),
            Race(Opened("socket"), "throw"), GetWriter("socket"), Write("socket"), FreeWriter("socket"),
            GetReader("socket"),
            Task("readPromise",
                 << Quietly(<< Forever(<< Read("socket"), When(GotNothing, << Break >>), MayBreak >>) >>) >>),
            Race(Join("readPromise"), "null"), Quietly(<< FreeReader("socket"), Close("socket") >>), Return >>,
         << Return >>) >>

handleLPDRemove ==
  << Try(
         << MayReturn, Await, MayReturn, checkIfCloudflare, MayReturn, Connect("socket"),
            Race(Opened("socket"), "throw"), GetWriter("socket"), Write("socket"), FreeWriter("socket"),
            GetReader("socket"),
            Task("readPromise",
                 << Quietly(<< Forever(<< Read("socket"), When(GotNothing, << Break >>), MayBreak >>) >>) >>),
            Race(Join("readPromise"), "null"), Quietly(<< FreeReader("socket"), Close("socket") >>), Return >>,
         << Return >>) >>

-----------------------------------------------------------------------------
\* src/src/worker/mms.ts

handleMMSProbe ==
  << MayReturn,
     Try(
         << Await, MayReturn, checkIfCloudflare, MayReturn, Connect("socket"),
            Try(
                << Race(Opened("socket"), "throw"), GetWriter("socket"), GetReader("socket"), Write("socket"),
                   RaceTask(<< readTPKT("socket") >>, "throw"),
                   Maybe(<< FreeWriter("socket"), FreeReader("socket"), CloseQuietly("socket"), Return >>),
                   MayThrow, Write("socket"), RaceTask(<< readTPKT("socket") >>, "throw"),
                   Maybe(<< FreeWriter("socket"), FreeReader("socket"), CloseQuietly("socket"), Return >>),
                   MayThrow, Write("socket"), RaceTask(<< readTPKT("socket") >>, "throw"),
                   FreeWriter("socket"), FreeReader("socket"), CloseQuietly("socket"), Return >>,
                << CloseQuietly("socket"), Throw >>) >>,
         << Return >>) >>

handleMMSNameList ==
  << MayReturn,
     Try(
         << Await, MayReturn, checkIfCloudflare, MayReturn, Connect("socket"),
            Try(
                << Race(Opened("socket"), "throw"), GetWriter("socket"), GetReader("socket"), Write("socket"),
                   RaceTask(<< readTPKT("socket") >>, "throw"),
                   Maybe(<< FreeWriter("socket"), FreeReader("socket"), CloseQuietly("socket"), Return >>),
                   MayThrow, Write("socket"), RaceTask(<< readTPKT("socket") >>, "throw"),
                   Maybe(<< FreeWriter("socket"), FreeReader("socket"), CloseQuietly("socket"), Return >>),
                   MayThrow, Write("socket"), RaceTask(<< readTPKT("socket") >>, "throw"),
                   FreeWriter("socket"), FreeReader("socket"), CloseQuietly("socket"), MayReturn, Return >>,
                << CloseQuietly("socket"), Throw >>) >>,
         << Return >>) >>

handleMMSRead ==
  << MayReturn,
     Try(
         << Await, MayReturn, checkIfCloudflare, MayReturn, Connect("socket"),
            Try(
                << Race(Opened("socket"), "throw"), GetWriter("socket"), GetReader("socket"), Write("socket"),
                   RaceTask(<< readTPKT("socket") >>, "throw"),
                   Maybe(<< FreeWriter("socket"), FreeReader("socket"), CloseQuietly("socket"), Return >>),
                   MayThrow, Write("socket"), RaceTask(<< readTPKT("socket") >>, "throw"),
                   Maybe(<< FreeWriter("socket"), FreeReader("socket"), CloseQuietly("socket"), Return >>),
                   MayThrow, Write("socket"), RaceTask(<< readTPKT("socket") >>, "throw"),
                   FreeWriter("socket"), FreeReader("socket"), CloseQuietly("socket"), MayReturn, Return >>,
                << CloseQuietly("socket"), Throw >>) >>,
         << Return >>) >>

handleMMSDescribe ==
  << MayReturn,
     Try(
         << Await, MayReturn, checkIfCloudflare, MayReturn, Connect("socket"),
            Try(
                << Race(Opened("socket"), "throw"), GetWriter("socket"), GetReader("socket"), Write("socket"),
                   RaceTask(<< readTPKT("socket") >>, "throw"),
                   Maybe(<< FreeWriter("socket"), FreeReader("socket"), CloseQuietly("socket"), Return >>),
                   MayThrow, Write("socket"), RaceTask(<< readTPKT("socket") >>, "throw"),
                   Maybe(<< FreeWriter("socket"), FreeReader("socket"), CloseQuietly("socket"), Return >>),
                   MayThrow, Write("socket"), RaceTask(<< readTPKT("socket") >>, "throw"), MayThrow,
                   Write("socket"), RaceTask(<< readTPKT("socket") >>, "throw"), FreeWriter("socket"),
                   FreeReader("socket"), CloseQuietly("socket"), Return >>,
                << CloseQuietly("socket"), Throw >>) >>,
         << Return >>) >>

-----------------------------------------------------------------------------
\* src/src/worker/nntp.ts

handleNNTPConnect ==
  << Try(
         << Await, MayReturn, checkIfCloudflare, MayReturn, Connect("socket"),
            Try(
                << Race(Opened("socket"), "throw"), GetReader("socket"), GetWriter("socket"),
                   readLine_nntp("socket"),
                   Maybe(<< FreeReader("socket"), FreeWriter("socket"), CloseQuietly("socket"), Return >>),
                   Quietly(<< sendCommand_nntp("socket"), readLine_nntp("socket"),
                              Maybe(<< readMultiline_nntp("socket") >>) >>),
                   Quietly(<< sendCommand_nntp("socket"), readLine_nntp("socket") >>),
                   Quietly(<< sendCommand_nntp("socket") >>), FreeReader("socket"), FreeWriter("socket"),
                   CloseQuietly("socket"), Return >>,
                << CloseQuietly("socket"), Throw >>) >>,
         << Return >>) >>

handleNNTPGroup ==
  << Try(
         << Await, checkIfCloudflare, MayReturn, Connect("socket"),
            Try(
                << Race(Opened("socket"), "throw"), GetReader("socket"), GetWriter("socket"),
                   readLine_nntp("socket"), MayThrow, sendCommand_nntp("socket"), readLine_nntp("socket"),
                   sendCommand_nntp("socket"), readLine_nntp("socket"),
                   Maybe(<< FreeReader("socket"), FreeWriter("socket"), CloseQuietly("socket"), Return >>),
                   Maybe(<< sendCommand_nntp("socket"), readLine_nntp("socket"),
                            Maybe(<< readMultiline_nntp("socket") >>) >>),
                   Quietly(<< sendCommand_nntp("socket") >>), FreeReader("socket"), FreeWriter("socket"),
                   CloseQuietly("socket"), Return >>,
                << CloseQuietly("socket"), Throw >>) >>,
         << Return >>) >>

handleNNTPArticle ==
  << Try(
         << Await, checkIfCloudflare, MayReturn, Connect("socket"),
            Try(
                << Race(Opened("socket"), "throw"), GetReader("socket"), GetWriter("socket"),
                   readLine_nntp("socket"), MayThrow, sendCommand_nntp("socket"), readLine_nntp("socket"),
                   sendCommand_nntp("socket"), readLine_nntp("socket"), MayThrow, sendCommand_nntp("socket"),
                   readLine_nntp("socket"),
                   Maybe(<< FreeReader("socket"), FreeWriter("socket"), CloseQuietly("socket"), Return >>),
                   readMultiline_nntp("socket"), Quietly(<< sendCommand_nntp("socket") >>),
                   FreeReader("socket"), FreeWriter("socket"), CloseQuietly("socket"), Return >>,
                << CloseQuietly("socket"), Throw >>) >>,
         << Return >>) >>

handleNNTPList ==
  << Try(
         << Await, MayReturn, checkIfCloudflare, MayReturn, Connect("socket"),
            Try(
                << Race(Opened("socket"), "throw"), GetReader("socket"), GetWriter("socket"),
                   readLine_nntp("socket"), MayThrow, Maybe(<< nntpAuth("socket") >>),
                   sendCommand_nntp("socket"), readLine_nntp("socket"),
                   Maybe(<< FreeReader("socket"), FreeWriter("socket"), CloseQuietly("socket"), Return >>),
                   readMultiline_nntp("socket"), Quietly(<< sendCommand_nntp("socket") >>),
                   FreeReader("socket"), FreeWriter("socket"), CloseQuietly("socket"), Return >>,
                << CloseQuietly("socket"), Throw >>) >>,
         << Return >>) >>

handleNNTPPost ==
  << Try(
         << Await, MayReturn, checkIfCloudflare, MayReturn, Connect("socket"),
            Try(
                << Race(Opened("socket"), "throw"), GetReader("socket"), GetWriter("socket"),
                   readLine_nntp("socket"), MayThrow, Maybe(<< nntpAuth("socket") >>),
                   sendCommand_nntp("socket"), readLine_nntp("socket"),
                   Maybe(<< FreeReader("socket"), FreeWriter("socket"), CloseQuietly("socket"), Return >>),
                   Maybe(<< FreeReader("socket"), FreeWriter("socket"), CloseQuietly("socket"), Return >>),
                   Write("socket"), readLine_nntp("socket"), Quietly(<< sendCommand_nntp("socket") >>),
                   FreeReader("socket"), FreeWriter("socket"), CloseQuietly("socket"), MayReturn, Return >>,
                << CloseQuietly("socket"), Throw >>) >>,
         << Return >>) >>

handleNNTPAuth ==
  << Try(
         << Await, MayReturn, checkIfCloudflare, MayReturn, Connect("socket"),
            Try(
                << Race(Opened("socket"), "throw"), GetReader("socket"), GetWriter("socket"),
                   readLine_nntp("socket"), MayThrow, sendCommand_nntp("socket"), readLine_nntp("socket"),
                   Maybe(<< FreeReader("socket"), FreeWriter("socket"), CloseQuietly("socket"), Return >>),
                   sendCommand_nntp("socket"), readLine_nntp("socket"),
                   Quietly(<< sendCommand_nntp("socket") >>), FreeReader("socket"), FreeWriter("socket"),
                   CloseQuietly("socket"), Return >>,
                << CloseQuietly("socket"), Throw >>) >>,
         << Return >>) >>

-----------------------------------------------------------------------------
\* src/src/worker/nntps.ts

handleNNTPSConnect ==
  << Try(
         << Await, MayReturn, checkIfCloudflare, MayReturn, Connect("socket"),
            Try(
                << Race(Opened("socket"), "throw"), GetReader("socket"), GetWriter("socket"),
                   readLine_nntps("socket"),
                   Maybe(<< FreeReader("socket"), FreeWriter("socket"), CloseQuietly("socket"), Return >>),
                   Quietly(<< sendCommand_nntps("socket"), readLine_nntps("socket"),
                              Maybe(<< readMultiline_nntps("socket") >>) >>),
                   Quietly(<< sendCommand_nntps("socket"), readLine_nntps("socket") >>),
                   Quietly(<< sendCommand_nntps("socket") >>), FreeReader("socket"), FreeWriter("socket"),
                   CloseQuietly("socket"), Return >>,
                << CloseQuietly("socket"), Throw >>) >>,
         << Return >>) >>

handleNNTPSGroup ==
  << Try(
         << Await, MayReturn, checkIfCloudflare, MayReturn, Connect("socket"),
            Try(
                << Race(Opened("socket"), "throw"), GetReader("socket"), GetWriter("socket"),
                   readLine_nntps("socket"), MayThrow, sendCommand_nntps("socket"), readLine_nntps("socket"),
                   sendCommand_nntps("socket"), readLine_nntps("socket"),
                   Maybe(<< FreeReader("socket"), FreeWriter("socket"), CloseQuietly("socket"), Return >>),
                   Maybe(<< sendCommand_nntps("socket"), readLine_nntps("socket"),
                            Maybe(<< readMultiline_nntps("socket") >>) >>),
                   Quietly(<< sendCommand_nntps("socket") >>), FreeReader("socket"), FreeWriter("socket"),
                   CloseQuietly("socket"), Return >>,
                << CloseQuietly("socket"), Throw >>) >>,
         << Return >>) >>

handleNNTPSArticle ==
  << Try(
         << Await, MayReturn, checkIfCloudflare, MayReturn, Connect("socket"),
            Try(
                << Race(Opened("socket"), "throw"), GetReader("socket"), GetWriter("socket"),
                   readLine_nntps("socket"), MayThrow, sendCommand_nntps("socket"), readLine_nntps("socket"),
                   sendCommand_nntps("socket"), readLine_nntps("socket"), MayThrow,
                   sendCommand_nntps("socket"), readLine_nntps("socket"),
                   Maybe(<< FreeReader("socket"), FreeWriter("socket"), CloseQuietly("socket"), Return >>),
                   readMultiline_nntps("socket"), Quietly(<< sendCommand_nntps("socket") >>),
                   FreeReader("socket"), FreeWriter("socket"), CloseQuietly("socket"), Return >>,
                << CloseQuietly("socket"), Throw >>) >>,
         << Return >>) >>

handleNNTPSList ==
  << Try(
         << Await, MayReturn, checkIfCloudflare, MayReturn, Connect("socket"),
            Try(
                << Race(Opened("socket"), "throw"), GetReader("socket"), GetWriter("socket"),
                   readLine_nntps("socket"), MayThrow, Maybe(<< nntpsAuth("socket") >>),
                   sendCommand_nntps("socket"), readLine_nntps("socket"),
                   Maybe(<< FreeReader("socket"), FreeWriter("socket"), CloseQuietly("socket"), Return >>),
                   readMultiline_nntps("socket"), Quietly(<< sendCommand_nntps("socket") >>),
                   FreeReader("socket"), FreeWriter("socket"), CloseQuietly("socket"), Return >>,
                << CloseQuietly("socket"), Throw >>) >>,
         << Return >>) >>

handleNNTPSPost ==
  << Try(
         << Await, MayReturn, checkIfCloudflare, MayReturn, Connect("socket"),
            Try(
                << Race(Opened("socket"), "throw"), GetReader("socket"), GetWriter("socket"),
                   readLine_nntps("socket"), MayThrow, Maybe(<< nntpsAuth("socket") >>),
                   sendCommand_nntps("socket"), readLine_nntps("socket"),
                   Maybe(<< FreeReader("socket"), FreeWriter("socket"), CloseQuietly("socket"), Return >>),
                   Maybe(<< FreeReader("socket"), FreeWriter("socket"), CloseQuietly("socket"), Return >>),
                   Write("socket"), readLine_nntps("socket"), Quietly(<< sendCommand_nntps("socket") >>),
                   FreeReader("socket"), FreeWriter("socket"), CloseQuietly("socket"), MayReturn, Return >>,
                << CloseQuietly("socket"), Throw >>) >>,
         << Return >>) >>

handleNNTPSAuth ==
  << Try(
         << Await, MayReturn, checkIfCloudflare, MayReturn, Connect("socket"),
            Try(
                << Race(Opened("socket"), "throw"), GetReader("socket"), GetWriter("socket"),
                   readLine_nntps("socket"), MayThrow, sendCommand_nntps("socket"), readLine_nntps("socket"),
                   Maybe(<< FreeReader("socket"), FreeWriter("socket"), CloseQuietly("socket"), Return >>),
                   sendCommand_nntps("socket"), readLine_nntps("socket"),
                   Quietly(<< sendCommand_nntps("socket") >>), FreeReader("socket"), FreeWriter("socket"),
                   CloseQuietly("socket"), Return >>,
                << CloseQuietly("socket"), Throw >>) >>,
         << Return >>) >>

-----------------------------------------------------------------------------
\* src/src/worker/node-inspector.ts

handleNodeInspectorHealth ==
  << Try(
         << Await, MayReturn, checkIfCloudflare, MayReturn, sendHttpRequest_node_inspector,
            Quietly(<< sendHttpRequest_node_inspector >>), Return >>,
         << Return >>) >>

handleNodeInspectorQuery ==
  << Try(<< Await, MayReturn, sendHttpRequest_node_inspector, Return >>, << Return >>) >>

-----------------------------------------------------------------------------
\* src/src/worker/opcua.ts

handleOPCUAHello ==
  << Try(
         << Await, MayReturn, checkIfCloudflare, MayReturn,
            Task("connectionPromise",
                 << Connect("socket"), Opened("socket"), GetReader("socket"), GetWriter("socket"),
                    Try(
                        << Write("socket"), readOPCUAResponse("socket"),
                           Maybe(<< CloseQuietly("socket"), Return >>),
                           Maybe(<< CloseQuietly("socket"), Return >>),
                           Maybe(<< CloseQuietly("socket"), Return >>),
                           Maybe(<< CloseQuietly("socket"), Return >>), CloseQuietly("socket"), Return >>,
                        << CloseQuietly("socket"), Throw >>) >>),
            Race(Join("connectionPromise"), "throw"), Return >>,
         << Return >>) >>

handleOPCUAEndpoints ==
  << Try(
         << Await, MayReturn, checkIfCloudflare, MayReturn,
            Task("connectionPromise",
                 << Connect("socket"), Opened("socket"), GetReader("socket"), GetWriter("socket"),
                    Try(
                        << Write("socket"), readOPCUAResponse("socket"),
                           Maybe(<< CloseQuietly("socket"), MayReturn, Return >>), Write("socket"),
                           readOPCUAResponse("socket"), CloseQuietly("socket"), Return >>,
                        << CloseQuietly("socket"), Throw >>) >>),
            Race(Join("connectionPromise"), "throw"), Return >>,
         << Return >>) >>

handleOPCUARead ==
  << Try(
         << Await, MayReturn, checkIfCloudflare, MayReturn,
            Task("connectionPromise",
                 << Connect("socket"), Opened("socket"), GetReader("socket"), GetWriter("socket"),
                    Try(
                        << Write("socket"), readOPCUAResponse("socket"),
                           Maybe(<< CloseQuietly("socket"), Return >>), Write("socket"),
                           readOPCUAResponse("socket"), Maybe(<< CloseQuietly("socket"), Return >>),
                           Write("socket"), readOPCUAResponse("socket"), CloseQuietly("socket"), Return >>,
                        << CloseQuietly("socket"), Throw >>) >>),
            Race(Join("connectionPromise"), "throw"), Return >>,
         << Return >>) >>

-----------------------------------------------------------------------------
\* src/src/worker/qotd.ts

handleQotdFetch ==
  << Try(
         << MayReturn, Await, MayReturn, checkIfCloudflare, MayReturn, Connect("socket"),
            Try(
                << Race(Opened("socket"), "throw"), GetReader("socket"),
                   TryCatchFinally(<< Forever(<< Race(Read("socket"), "throw"), When(GotEnd, << Break >>),
                                                 When(GotData, << MayBreak >>) >>) >>,
                                   << MayThrow >>, << FreeReaderQuietly("socket") >>),
                   CloseQuietly("socket"), MayReturn, Return >>,
                << CloseQuietly("socket"), Throw >>) >>,
         << Return >>) >>

-----------------------------------------------------------------------------
\* src/src/worker/rmi.ts

handleRMIInvoke ==
  << MayReturn,
     Try(
         << Await, MayReturn, checkIfCloudflare, MayReturn,
            Task("connectionPromise",
                 << Connect("regSocket"), Opened("regSocket"), GetWriter("regSocket"), GetReader("regSocket"),
                    TryFinally(<< Write("regSocket"), readResponse_rmi("regSocket"),
                                  Maybe(<< FreeWriter("regSocket"), FreeReader("regSocket"),
                                           CloseQuietly("regSocket"), Return >>),
                                  Write("regSocket"), Write("regSocket"), readResponse_rmi("regSocket") >>,
                               << FreeWriter("regSocket"), FreeReader("regSocket"),
                                  CloseQuietly("regSocket") >>),
                    Maybe(<< Quietly(<< MayThrow, checkIfCloudflare, MayThrow, Connect("objSocket"),
                                        Opened("objSocket"), GetWriter("objSocket"), GetReader("objSocket"),
                                        TryFinally(<< Write("objSocket"), readResponse_rmi("objSocket"),
                                                      Maybe(<< Write("objSocket"), Write("objSocket"),
                                                               readResponse_rmi("objSocket") >>) >>,
                                                   << FreeWriter("objSocket"), FreeReader("objSocket"),
                                                      CloseQuietly("objSocket") >>) >>) >>) >>),
            Try(<< Race(Join("connectionPromise"), "throw"), Return >>, << Return >>) >>,
         << Return >>) >>

handleRMIProbe ==
  << MayReturn,
     Try(
         << Await, MayReturn, checkIfCloudflare, MayReturn, Connect("socket"),
            Try(
                << Race(Opened("socket"), "throw"), GetWriter("socket"), GetReader("socket"), Write("socket"),
                   readResponse_rmi("socket"), FreeWriter("socket"), FreeReader("socket"),
                   CloseQuietly("socket"), MayReturn, Return >>,
                << CloseQuietly("socket"), Throw >>) >>,
         << Return >>) >>

handleRMIList ==
  << MayReturn,
     Try(
         << Await, MayReturn, checkIfCloudflare, MayReturn, Connect("socket"),
            Try(
                << Race(Opened("socket"), "throw"), GetWriter("socket"), GetReader("socket"), Write("socket"),
                   readResponse_rmi("socket"),
                   Maybe(<< FreeWriter("socket"), FreeReader("socket"), CloseQuietly("socket"), Return >>),
                   Write("socket"), Write("socket"), readResponse_rmi("socket"), FreeWriter("socket"),
                   FreeReader("socket"), CloseQuietly("socket"), Return >>,
                << CloseQuietly("socket"), Throw >>) >>,
         << Return >>) >>

-----------------------------------------------------------------------------
\* src/src/worker/rserve.ts

handleRserveProbe ==
  << MayReturn,
     Try(
         << Await, MayReturn, checkIfCloudflare, MayReturn, Connect("socket"),
            TryFinally(<< Race(Opened("socket"), "throw"), GetReader("socket"),
                          TryFinally(<< readResponse_rserve("socket"), Return >>,
                                     << FreeReaderQuietly("socket") >>) >>,
                       << CloseQuietly("socket") >>) >>,
         << Return >>) >>

handleRserveEval ==
  << MayReturn,
     Try(
         << Await, MayReturn, checkIfCloudflare, MayReturn, Connect("socket"),
            TryFinally(<< Race(Opened("socket"), "throw"), GetWriter("socket"), GetReader("socket"),
                          TryFinally(<< readResponse_rserve("socket"), MayReturn, Write("socket"),
                                        readResponse_rserve("socket"), Return >>,
                                     << FreeWriterQuietly("socket"), FreeReaderQuietly("socket") >>) >>,
                       << CloseQuietly("socket") >>) >>,
         << Return >>) >>

-----------------------------------------------------------------------------
\* src/src/worker/s7comm.ts

handleS7commConnect ==
  << MayReturn,
     Try(
         << Await, MayReturn, checkIfCloudflare, MayReturn, Connect("socket"),
            TryFinally(<< Race(Opened("socket"), "throw"), GetWriter("socket"), GetReader("socket"),
                          Write("socket"),
                          TryFinally(<< readTPKTPacket("socket"), MayReturn, Write("socket"),
                                        readTPKTPacket("socket"), MayReturn,
                                        Quietly(<< Write("socket"), readTPKTPacket("socket") >>), Return >>,
                                     << FreeWriterQuietly("socket"), FreeReaderQuietly("socket") >>) >>,
                       << CloseQuietly("socket") >>) >>,
         << Return >>) >>

handleS7ReadDB ==
  << MayReturn,
     Try(
         << Await, MayReturn, checkIfCloudflare, MayReturn, Connect("socket"),
            TryFinally(<< Race(Opened("socket"), "throw"), GetWriter("socket"), GetReader("socket"),
                          TryFinally(<< Write("socket"), readTPKTPacket("socket"), MayThrow, Write("socket"),
                                        readTPKTPacket("socket"), MayThrow, Write("socket"),
                                        readTPKTPacket("socket"), Return >>,
                                     << FreeWriterQuietly("socket"), FreeReaderQuietly("socket") >>) >>,
                       << CloseQuietly("socket") >>) >>,
         << Return >>) >>

handleS7WriteDB ==
  << MayReturn,
     Try(
         << Await, MayReturn, checkIfCloudflare, MayReturn, Connect("socket"),
            TryFinally(<< Race(Opened("socket"), "throw"), GetWriter("socket"), GetReader("socket"),
                          TryFinally(<< Write("socket"), readTPKTPacket("socket"), MayThrow, Write("socket"),
                                        readTPKTPacket("socket"), MayThrow, Write("socket"),
                                        readTPKTPacket("socket"), MayThrow, Return >>,
                                     << FreeWriterQuietly("socket"), FreeReaderQuietly("socket") >>) >>,
                       << CloseQuietly("socket") >>) >>,
         << Return >>) >>

-----------------------------------------------------------------------------
\* src/src/worker/time.ts

handleTimeGet ==
  << MayReturn,
     Try(
         << Await, MayReturn, checkIfCloudflare, MayReturn, Connect("socket"),
            Try(
                << Race(Opened("socket"), "throw"), GetReader("socket"), Race(Read("socket"), "throw"),
                   If(GotData, << MayThrow >>, << Throw >>), FreeReader("socket"), CloseQuietly("socket"),
                   Return >>,
                << CloseQuietly("socket"), Throw >>) >>,
         << Return >>) >>

-----------------------------------------------------------------------------
SpecialtyProgram ==
  [handleActiveUsersTest |-> handleActiveUsersTest,
   handleActiveUsersQuery |-> handleActiveUsersQuery,
   handleActiveUsersRaw |-> handleActiveUsersRaw,
   handleADBCommand |-> handleADBCommand,
   handleADBVersion |-> handleADBVersion,
   handleADBDevices |-> handleADBDevices,
   handleADBShell |-> handleADBShell,
   handleBeatsSend |-> handleBeatsSend,
   handleBeatsTLS |-> handleBeatsTLS,
   handleBeatsConnect |-> handleBeatsConnect,
   handleBitcoinConnect |-> handleBitcoinConnect,
   handleBitcoinGetAddr |-> handleBitcoinGetAddr,
   handleBitcoinMempool |-> handleBitcoinMempool,
   handleCDPHealth |-> handleCDPHealth,
   handleCDPQuery |-> handleCDPQuery,
   handleChargenStream |-> handleChargenStream,
   handleClamAVPing |-> handleClamAVPing,
   handleClamAVVersion |-> handleClamAVVersion,
   handleClamAVStats |-> handleClamAVStats,
   handleClamAVScan |-> handleClamAVScan,
   handleCollectdProbe |-> handleCollectdProbe,
   handleCollectdSend |-> handleCollectdSend,
   handleCollectdPut |-> handleCollectdPut,
   handleCollectdReceive |-> handleCollectdReceive,
   handleDAPHealth |-> handleDAPHealth,
   handleDaytimeGet |-> handleDaytimeGet,
   handleDICOMConnect |-> handleDICOMConnect,
   handleDICOMEcho |-> handleDICOMEcho,
   handleDICOMFind |-> handleDICOMFind,
   handleDictDefine |-> handleDictDefine,
   handleDictMatch |-> handleDictMatch,
   handleDictDatabases |-> handleDictDatabases,
   handleDiscardSend |-> handleDiscardSend,
   handleDNP3Connect |-> handleDNP3Connect,
   handleDNP3Read |-> handleDNP3Read,
   handleDNP3SelectOperate |-> handleDNP3SelectOperate,
   handleEchoTest |-> handleEchoTest,
   handleEthereumProbe |-> handleEthereumProbe,
   handleEthereumRPC |-> handleEthereumRPC,
   handleEthereumInfo |-> handleEthereumInfo,
   handleEthereumP2PProbe |-> handleEthereumP2PProbe,
   handleEtherNetIPIdentity |-> handleEtherNetIPIdentity,
   handleEtherNetIPCIPRead |-> handleEtherNetIPCIPRead,
   handleEtherNetIPGetAttributeAll |-> handleEtherNetIPGetAttributeAll,
   handleEtherNetIPSetAttribute |-> handleEtherNetIPSetAttribute,
   handleEtherNetIPListServices |-> handleEtherNetIPListServices,
   handleFingerQuery |-> handleFingerQuery,
   handleFINSConnect |-> handleFINSConnect,
   handleFINSMemoryWrite |-> handleFINSMemoryWrite,
   handleFINSMemoryRead |-> handleFINSMemoryRead,
   handleFIXProbe |-> handleFIXProbe,
   handleFIXOrder |-> handleFIXOrder,
   handleFIXHeartbeat |-> handleFIXHeartbeat,
   handleGeminiFetch |-> handleGeminiFetch,
   handleGPSDVersion |-> handleGPSDVersion,
   handleGPSDDevices |-> handleGPSDDevices,
   handleGPSDPoll |-> handleGPSDPoll,
   handleGPSDCommand |-> handleGPSDCommand,
   handleGPSDWatch |-> handleGPSDWatch,
   handleHL7Connect |-> handleHL7Connect,
   handleHL7Send |-> handleHL7Send,
   handleHL7Query |-> handleHL7Query,
   handleHL7ADT_A08 |-> handleHL7ADT_A08,
   handleIEC104Probe |-> handleIEC104Probe,
   handleIEC104ReadData |-> handleIEC104ReadData,
   handleIEC104Write |-> handleIEC104Write,
   handleIPPProbe |-> handleIPPProbe,
   handleIPPPrintJob |-> handleIPPPrintJob,
   handleJDWPProbe |-> handleJDWPProbe,
   handleJDWPThreads |-> handleJDWPThreads,
   handleJDWPVersion |-> handleJDWPVersion,
   handleJetDirectConnect |-> handleJetDirectConnect,
   handleJetDirectPrint |-> handleJetDirectPrint,
   handleLPDProbe |-> handleLPDProbe,
   handleLPDPrint |-> handleLPDPrint,
   handleLPDQueue |-> handleLPDQueue,
   handleLPDRemove |-> handleLPDRemove,
   handleMMSProbe |-> handleMMSProbe,
   handleMMSNameList |-> handleMMSNameList,
   handleMMSRead |-> handleMMSRead,
   handleMMSDescribe |-> handleMMSDescribe,
   handleNNTPConnect |-> handleNNTPConnect,
   handleNNTPGroup |-> handleNNTPGroup,
   handleNNTPArticle |-> handleNNTPArticle,
   handleNNTPList |-> handleNNTPList,
   handleNNTPPost |-> handleNNTPPost,
   handleNNTPAuth |-> handleNNTPAuth,
   handleNNTPSConnect |-> handleNNTPSConnect,
   handleNNTPSGroup |-> handleNNTPSGroup,
   handleNNTPSArticle |-> handleNNTPSArticle,
   handleNNTPSList |-> handleNNTPSList,
   handleNNTPSPost |-> handleNNTPSPost,
   handleNNTPSAuth |-> handleNNTPSAuth,
   handleNodeInspectorHealth |-> handleNodeInspectorHealth,
   handleNodeInspectorQuery |-> handleNodeInspectorQuery,
   handleOPCUAHello |-> handleOPCUAHello,
   handleOPCUAEndpoints |-> handleOPCUAEndpoints,
   handleOPCUARead |-> handleOPCUARead,
   handleQotdFetch |-> handleQotdFetch,
   handleRMIInvoke |-> handleRMIInvoke,
   handleRMIProbe |-> handleRMIProbe,
   handleRMIList |-> handleRMIList,
   handleRserveProbe |-> handleRserveProbe,
   handleRserveEval |-> handleRserveEval,
   handleS7commConnect |-> handleS7commConnect,
   handleS7ReadDB |-> handleS7ReadDB,
   handleS7WriteDB |-> handleS7WriteDB,
   handleTimeGet |-> handleTimeGet]

=============================================================================
