-------------------------- MODULE NetworkHandlers ---------------------------
(* The one-shot handlers of the catalogue's "Network" protocols, those of  *)
(* AccessHandlers excepted.                                                *)
EXTENDS NetworkCalls

-----------------------------------------------------------------------------
\* src/src/worker/bgp.ts

handleBGPRouteTable ==
  << MayReturn,
     Try(
         << Await, MayReturn, checkIfCloudflare, MayReturn,
            Task("work",
                 << Connect("socket"), Opened("socket"), GetReader("socket"), GetWriter("socket"),
                    Try(
                        << MayThrow, Write("socket"),
                           Loop(<< Race(Read("socket"), "end"), When(GotNothing, << Break >>),
                                   Loop(<< MayBreak, MayContinue,
                                           Maybe(<< FreeReader("socket"), FreeWriter("socket"),
                                                    CloseQuietly("socket"), Return >>) >>) >>),
                           Maybe(<< FreeReader("socket"), FreeWriter("socket"), CloseQuietly("socket"),
                                    Return >>),
                           Write("socket"),
                           LoopAs("outer",
                                  << Race(Read("socket"), "end"), When(GotNothing, << Break >>),
                                     Loop(<< MayBreak, MayContinue,
                                             Either(<< Write("socket") >>,
                                                    << Maybe(<< BreakFrom("outer") >>) >>) >>) >>),
                           FreeReader("socket"), FreeWriter("socket"), CloseQuietly("socket"), Return >>,
                        << FreeReaderQuietly("socket"), FreeWriterQuietly("socket"), CloseQuietly("socket"),
                           Throw >>) >>),
            Race(Join("work"), "throw"), Return >>,
         << Return >>) >>

handleBGPConnect ==
  << MayReturn,
     Try(
         << Await, MayReturn, checkIfCloudflare, MayReturn, Connect("socket"),
            Race(Opened("socket"), "throw"), GetWriter("socket"), GetReader("socket"), MayThrow,
            Write("socket"),
            Quietly(<< Race(Read("socket"), "throw"),
                       When(GotData,
                            << Maybe(<< Write("socket"), Quietly(<< Race(Read("socket"), "throw") >>) >>) >>) >>),
            FreeWriter("socket"), FreeReader("socket"), CloseQuietly("socket"), MayReturn, Return >>,
         << Return >>) >>

handleBGPAnnounce ==
  << MayReturn,
     Try(
         << Await, MayReturn, checkIfCloudflare, MayReturn, Connect("socket"),
            Race(Opened("socket"), "throw"), GetWriter("socket"), GetReader("socket"), MayThrow,
            Write("socket"), Quietly(<< Race(Read("socket"), "throw") >>), FreeWriter("socket"),
            FreeReader("socket"), CloseQuietly("socket"), MayReturn, Return >>,
         << Return >>) >>

-----------------------------------------------------------------------------
\* src/src/worker/ceph.ts

handleCephConnect ==
  << MayReturn,
     Try(
         << Await, MayReturn, checkIfCloudflare, MayReturn, Connect("socket"),
            Race(Opened("socket"), "throw"), GetReader("socket"),
            BufferedReader_readExact_buffered_reader("socket"),
            Quietly(<< BufferedReader_readExact_buffered_reader("socket") >>), FreeReader("socket"),
            CloseQuietly("socket"), Return >>,
         << Return >>) >>

handleCephClusterInfo ==
  << MayReturn,
     Try(
         << Await, MayReturn, checkIfCloudflare, MayReturn, Connect("socket"),
            Race(Opened("socket"), "throw"), GetReader("socket"), GetWriter("socket"),
            TryFinally(<< BufferedReader_readExact_buffered_reader("socket"), MayReturn,
                          Maybe(<< BufferedReader_readExact_buffered_reader("socket"),
                                   Maybe(<< BufferedReader_readExact_buffered_reader("socket") >>), Return >>),
                          BufferedReader_readExact_buffered_reader("socket"), Write("socket"),
                          Write("socket"), Quietly(<< BufferedReader_readExact_buffered_reader("socket") >>),
                          Return >>,
                       << FreeReaderQuietly("socket"), FreeWriterQuietly("socket"), CloseQuietly("socket") >>) >>,
         << Return >>) >>

handleCephRestHealth ==
  << MayReturn,
     Try(
         << Await, MayReturn, checkIfCloudflare, MayReturn, Loop(<< Quietly(<< Await, Await, MayBreak >>) >>),
            Return >>,
         << Return >>) >>

handleCephProbe ==
  << MayReturn,
     Try(
         << Await, MayReturn, checkIfCloudflare, MayReturn, Connect("socket"),
            Race(Opened("socket"), "throw"), GetReader("socket"),
            BufferedReader_readExact_buffered_reader("socket"), FreeReader("socket"), CloseQuietly("socket"),
            Return >>,
         << Return >>) >>

handleCephOSDList ==
  << MayReturn,
     Try(
         << Await, MayReturn, checkIfCloudflare, MayReturn, Loop(<< Quietly(<< Await, Await, MayBreak >>) >>),
            Return >>,
         << Return >>) >>

handleCephPoolList ==
  << MayReturn,
     Try(
         << Await, MayReturn, checkIfCloudflare, MayReturn, Loop(<< Quietly(<< Await, Await, MayBreak >>) >>),
            Return >>,
         << Return >>) >>

-----------------------------------------------------------------------------
\* src/src/worker/coap.ts

handleCoAPRequest ==
  << MayReturn,
     Try(
         << Await, MayReturn, checkIfCloudflare, MayReturn, Connect("handleCoAPRequest.socket"),
            Try(
                << Race(Opened("handleCoAPRequest.socket"), "throw"),
                   GetWriter("handleCoAPRequest.socket"), GetReader("handleCoAPRequest.socket"),
                   Write("handleCoAPRequest.socket"), readCoAPPdu("handleCoAPRequest.socket"), MayThrow,
                   FreeWriter("handleCoAPRequest.socket"), FreeReader("handleCoAPRequest.socket"),
                   CloseQuietly("handleCoAPRequest.socket"), Return >>,
                << CloseQuietly("handleCoAPRequest.socket"), Throw >>) >>,
         << Return >>) >>

handleCoAPDiscover ==
  << Try(<< MayThrow, MayReturn, Call(handleCoAPRequest), Return >>, << Return >>) >>

handleCoAPBlockGet ==
  << MayReturn,
     Try(
         << Await, MayReturn, checkIfCloudflare, MayReturn, Connect("socket"),
            Race(Opened("socket"), "throw"), GetWriter("socket"), GetReader("socket"), Write("socket"),
            TryFinally(<< Loop(<< Call(<< Forever(<< readCoAPPdu("socket"), MayContinue, Return >>) >>),
                                  MayThrow, MayBreak, Write("socket") >>) >>,
                       << FreeWriter("socket"), FreeReader("socket"), CloseQuietly("socket") >>),
            Return >>,
         << Return >>) >>

handleCoAPObserve ==
  << MayReturn,
     Try(
         << Await, MayReturn, checkIfCloudflare, MayReturn, Connect("socket"),
            Race(Opened("socket"), "throw"), GetWriter("socket"), GetReader("socket"), Write("socket"),
            Try(
                << readCoAPPdu("socket") >>,
                << FreeWriter("socket"), FreeReader("socket"), CloseQuietly("socket"), Return >>),
            MayThrow, Quietly(<< readCoAPPdu("socket"), MayThrow >>), Quietly(<< Write("socket") >>),
            FreeWriter("socket"), FreeReader("socket"), CloseQuietly("socket"), Return >>,
         << Return >>) >>

-----------------------------------------------------------------------------
\* src/src/worker/dcerpc.ts

handleDCERPCConnect ==
  << MayReturn,
     Try(
         << Await, MayReturn, checkIfCloudflare, MayReturn,
            Task("connectionPromise",
                 << Connect("socket"), Opened("socket"), GetReader("socket"), GetWriter("socket"),
                    Try(
                        << MayThrow, Write("socket"), readPDU_dcerpc("socket"), MayThrow,
                           FreeWriter("socket"), FreeReader("socket"), Close("socket"), Return >>,
                        << FreeWriter("socket"), FreeReader("socket"), Close("socket"), Throw >>) >>),
            Try(<< Race(Join("connectionPromise"), "throw"), Return >>, << Return >>) >>,
         << Return >>) >>

handleDCERPCEPMEnum ==
  << MayReturn,
     Try(
         << Await, MayReturn, checkIfCloudflare, MayReturn,
            Task("connectionPromise",
                 << Connect("socket"), Opened("socket"), GetReader("socket"), GetWriter("socket"),
                    Try(
                        << MayThrow, Write("socket"), readPDU_dcerpc("socket"), MayThrow, Write("socket"),
                           readPDU_dcerpc("socket"), MayThrow, FreeWriter("socket"), FreeReader("socket"),
                           Close("socket"), Return >>,
                        << FreeWriter("socket"), FreeReader("socket"), Close("socket"), Throw >>) >>),
            Try(<< Race(Join("connectionPromise"), "throw"), Return >>, << Return >>) >>,
         << Return >>) >>

handleDCERPCProbe ==
  << MayReturn,
     Try(
         << Await, MayReturn, checkIfCloudflare, MayReturn,
            Task("connectionPromise",
                 << Connect("socket"), Opened("socket"), GetReader("socket"), GetWriter("socket"),
                    Try(
                        << MayThrow, Write("socket"), readPDU_dcerpc("socket"), MayThrow,
                           FreeWriter("socket"), FreeReader("socket"), Close("socket"), Return >>,
                        << FreeWriter("socket"), FreeReader("socket"), Close("socket"), Throw >>) >>),
            Try(<< Race(Join("connectionPromise"), "throw"), Return >>, << Return >>) >>,
         << Return >>) >>

-----------------------------------------------------------------------------
\* src/src/worker/dns.ts

handleDNSQuery ==
  << Try(
         << MayReturn, Await, MayReturn, checkIfCloudflare, MayReturn, MayThrow, Connect("socket"),
            Race(Opened("socket"), "throw"), GetWriter("socket"), Write("socket"), FreeWriter("socket"),
            GetReader("socket"),
            TryFinally(<< RaceTask(<< readTCPDNSMessage("socket") >>, "throw") >>,
                       << FreeReaderQuietly("socket"), CloseQuietly("socket") >>),
            MayReturn, MayThrow, Return >>,
         << Return >>) >>

handleDNSAXFR ==
  << MayReturn,
     Try(
         << Await, MayReturn, checkIfCloudflare, MayReturn, MayThrow, Connect("socket"),
            TryFinally(<< Race(Opened("socket"), "throw"), GetWriter("socket"), Write("socket"),
                          FreeWriter("socket"), GetReader("socket"),
                          TryFinally(<< Loop(<< MayBreak, RaceTask(<< readTCPDNSMessage("socket") >>, "null"),
                                                MayBreak, MayThrow >>) >>,
                                     << FreeReaderQuietly("socket") >>) >>,
                       << CloseQuietly("socket") >>),
            MayReturn, Return >>,
         << Return >>) >>

-----------------------------------------------------------------------------
\* src/src/worker/doh.ts

handleDOHQuery ==
  << MayReturn, Try(<< Await, MayReturn, Await, MayReturn, Await, Return >>, << Return >>) >>

-----------------------------------------------------------------------------
\* src/src/worker/dot.ts

handleDoTQuery ==
  << Try(
         << MayReturn, Await, MayReturn, checkIfCloudflare, MayReturn, MayThrow, Connect("socket"),
            Race(Opened("socket"), "throw"), GetWriter("socket"), Write("socket"), FreeWriter("socket"),
            GetReader("socket"),
            Task("readPromise",
                 << Read("socket"), When(GotNothing, << Throw >>),
                    Maybe(<< Loop(<< Read("socket"), When(GotNothing, << Break >>) >>) >>) >>),
            Race(Join("readPromise"), "throw"), Quietly(<< FreeReader("socket"), CloseQuietly("socket") >>),
            MayReturn, MayThrow, Return >>,
         << Return >>) >>

-----------------------------------------------------------------------------
\* src/src/worker/epmd.ts

handleEPMDNames ==
  << MayReturn,
     Try(
         << Await, MayReturn, checkIfCloudflare, MayReturn, Connect("socket"),
            Try(
                << Race(Opened("socket"), "throw"), GetWriter("socket"), GetReader("socket"), Write("socket"),
                   Try(
                       << Forever(<< Race(Read("socket"), "throw"), When(GotEnd, << Break >>),
                                     When(GotData, << MayBreak >>) >>) >>,
                       << MayThrow >>),
                   FreeWriter("socket"), FreeReader("socket"), CloseQuietly("socket"), MayThrow, Return >>,
                << CloseQuietly("socket"), Throw >>) >>,
         << Return >>) >>

handleEPMDPort ==
  << MayReturn,
     Try(
         << Await, MayReturn, checkIfCloudflare, MayReturn, Connect("socket"),
            Try(
                << Race(Opened("socket"), "throw"), GetWriter("socket"), GetReader("socket"), Write("socket"),
                   Try(
                       << Forever(<< Race(Read("socket"), "throw"), When(GotEnd, << Break >>),
                                     When(GotData, << MayBreak >>) >>) >>,
                       << MayThrow >>),
                   FreeWriter("socket"), FreeReader("socket"), CloseQuietly("socket"), MayThrow, Return >>,
                << CloseQuietly("socket"), Throw >>) >>,
         << Return >>) >>

-----------------------------------------------------------------------------
\* src/src/worker/fluentd.ts

handleFluentdConnect ==
  << MayReturn,
     Try(
         << Await, MayReturn, checkIfCloudflare, MayReturn, Connect("socket"),
            Try(
                << Race(Opened("socket"), "throw"), GetWriter("socket"), GetReader("socket"), Write("socket"),
                   Quietly(<< readFluentdResponse("socket") >>), FreeWriter("socket"), FreeReader("socket"),
                   CloseQuietly("socket"), Return >>,
                << CloseQuietly("socket"), Throw >>) >>,
         << Return >>) >>

handleFluentdSend ==
  << MayReturn,
     Try(
         << Await, MayReturn, checkIfCloudflare, MayReturn, Connect("socket"),
            Try(
                << Race(Opened("socket"), "throw"), GetWriter("socket"), GetReader("socket"), Write("socket"),
                   Quietly(<< readFluentdResponse("socket") >>), FreeWriter("socket"), FreeReader("socket"),
                   CloseQuietly("socket"), Return >>,
                << CloseQuietly("socket"), Throw >>) >>,
         << Return >>) >>

handleFluentdBulk ==
  << MayReturn,
     Try(
         << Await, MayReturn, checkIfCloudflare, MayReturn, Connect("socket"),
            Try(
                << Race(Opened("socket"), "throw"), GetWriter("socket"), GetReader("socket"), Write("socket"),
                   Quietly(<< Race(Read("socket"), "throw") >>), FreeWriter("socket"), FreeReader("socket"),
                   CloseQuietly("socket"), Return >>,
                << CloseQuietly("socket"), Throw >>) >>,
         << Return >>) >>

-----------------------------------------------------------------------------
\* src/src/worker/ganglia.ts

handleGangliaConnect ==
  << MayReturn,
     Try(
         << Await, MayReturn, checkIfCloudflare, MayReturn,
            Task("connectionPromise",
                 << Connect("socket"), Opened("socket"), GetReader("socket"),
                    Try(
                        << readGangliaXML("socket"), FreeReader("socket"), Close("socket"), Return >>,
                        << FreeReader("socket"), Close("socket"), Throw >>) >>),
            Try(<< Race(Join("connectionPromise"), "throw"), Return >>, << Return >>) >>,
         << Return >>) >>

handleGangliaProbe ==
  << MayReturn,
     Try(
         << Await, MayReturn, checkIfCloudflare, MayReturn,
            Task("connectionPromise",
                 << Connect("socket"), Opened("socket"), GetReader("socket"),
                    Try(
                        << Race(Read("socket"), "end"), FreeReader("socket"), Close("socket"), Return >>,
                        << FreeReader("socket"), Close("socket"), Throw >>) >>),
            Try(<< Race(Join("connectionPromise"), "throw"), Return >>, << Return >>) >>,
         << Return >>) >>

-----------------------------------------------------------------------------
\* src/src/worker/gelf.ts

handleGelfSend ==
  << Try(
         << Await, MayReturn, checkIfCloudflare, MayReturn,
            Task("connectionPromise",
                 << Connect("socket"), Opened("socket"), GetWriter("socket"),
                    TryFinally(<< Loop(<< MayThrow, Write("socket") >>), Return >>,
                               << FreeWriter("socket"), Close("socket") >>) >>),
            Race(Join("connectionPromise"), "throw"), Return >>,
         << Return >>) >>

handleGelfProbe ==
  << Try(
         << MayThrow, MayReturn, checkIfCloudflare, MayReturn,
            Task("connectionPromise",
                 << Connect("socket"), Opened("socket"), GetWriter("socket"),
                    TryFinally(<< Write("socket"), Return >>, << FreeWriter("socket"), Close("socket") >>) >>),
            Race(Join("connectionPromise"), "throw"), Return >>,
         << Return >>) >>

-----------------------------------------------------------------------------
\* src/src/worker/hsrp.ts

handleHSRPProbe ==
  << MayReturn,
     Try(
         << Await, MayReturn, checkIfCloudflare, MayReturn, Connect("handleHSRPProbe.socket"),
            Try(
                << Race(Opened("handleHSRPProbe.socket"), "throw"), GetWriter("handleHSRPProbe.socket"),
                   Write("handleHSRPProbe.socket"), FreeWriter("handleHSRPProbe.socket"),
                   GetReader("handleHSRPProbe.socket"), Race(Read("handleHSRPProbe.socket"), "throw"),
                   When(GotNothing,
                        << FreeReader("handleHSRPProbe.socket"), CloseQuietly("handleHSRPProbe.socket"),
                           Return >>),
                   Maybe(<< FreeReader("handleHSRPProbe.socket"), CloseQuietly("handleHSRPProbe.socket"),
                            Return >>),
                   FreeReader("handleHSRPProbe.socket"), CloseQuietly("handleHSRPProbe.socket"),
                   Return >>,
                << CloseQuietly("handleHSRPProbe.socket"), Throw >>) >>,
         << Return >>) >>

handleHSRPListen ==
  << MayReturn, Try(<< Await, Call(handleHSRPProbe), Return >>, << Return >>) >>

handleHSRPCoup ==
  << MayReturn,
     Try(
         << Await, MayReturn, checkIfCloudflare, MayReturn,
            Task("coupPromise",
                 << Connect("socket"), Race(Opened("socket"), "throw"), GetWriter("socket"),
                    GetReader("socket"),
                    Try(
                        << Write("socket"), Race(Read("socket"), "end"), FreeWriter("socket"),
                           FreeReader("socket"), CloseQuietly("socket"),
                           If(GotData, << MayReturn >>, << Return >>), Return >>,
                        << FreeWriterQuietly("socket"), FreeReaderQuietly("socket"), CloseQuietly("socket"),
                           Throw >>) >>),
            Race(Join("coupPromise"), "throw"), Return >>,
         << Return >>) >>

handleHSRPv2Probe ==
  << MayReturn,
     Try(
         << Await, MayReturn, checkIfCloudflare, MayReturn,
            Task("probePromise",
                 << Connect("socket"), Race(Opened("socket"), "throw"), GetWriter("socket"),
                    GetReader("socket"),
                    Try(
                        << Write("socket"), Race(Read("socket"), "end"), FreeWriter("socket"),
                           FreeReader("socket"), CloseQuietly("socket"),
                           If(GotData, << MayReturn >>, << Return >>), Return >>,
                        << FreeWriterQuietly("socket"), FreeReaderQuietly("socket"), CloseQuietly("socket"),
                           Throw >>) >>),
            Race(Join("probePromise"), "throw"), Return >>,
         << Return >>) >>

-----------------------------------------------------------------------------
\* src/src/worker/ident.ts

handleIdentQuery ==
  << Try(
         << Try(<< Await >>, << Return >>), MayReturn, checkIfCloudflare, MayReturn, Connect("socket"),
            Try(
                << Race(Opened("socket"), "throw"), GetWriter("socket"), GetReader("socket"), Write("socket"),
                   readIdentLine("socket"), MayThrow, FreeWriter("socket"), ForgetWriter("socket"),
                   FreeReader("socket"), ForgetReader("socket"), CloseQuietly("socket"), Return >>,
                << When(HasWriter("socket"), << FreeWriterQuietly("socket") >>),
                   When(HasReader("socket"), << FreeReaderQuietly("socket") >>), CloseQuietly("socket"),
                   Throw >>) >>,
         << Return >>) >>

-----------------------------------------------------------------------------
\* src/src/worker/ipmi.ts

handleIPMIConnect ==
  << Try(
         << Either(<< Await >>, << MayThrow >>), MayReturn, checkIfCloudflare, MayReturn,
            Task("connectionPromise",
                 << Connect("socket"), Opened("socket"), GetWriter("socket"), GetReader("socket"),
                    Try(
                        << Write("socket"), Race(Read("socket"), "throw"), FreeWriter("socket"),
                           FreeReader("socket"), Close("socket"), When(GotNothing, << Throw >>), Return >>,
                        << FreeWriterQuietly("socket"), FreeReaderQuietly("socket"), CloseQuietly("socket"),
                           Return >>) >>),
            Try(<< Race(Join("connectionPromise"), "throw"), Return >>, << Return >>) >>,
         << Return >>) >>

handleIPMIGetAuthCaps ==
  << Try(
         << Await, MayReturn, checkIfCloudflare, MayReturn,
            Task("probePromise",
                 << Connect("socket"), Race(Opened("socket"), "throw"), GetWriter("socket"),
                    GetReader("socket"),
                    Try(
                        << Write("socket"), Race(Read("socket"), "throw"), FreeWriter("socket"),
                           FreeReader("socket"), CloseQuietly("socket"),
                           If(GotData, << MayReturn >>, << Return >>), Return >>,
                        << Maybe(<< FreeWriterQuietly("socket"), FreeReaderQuietly("socket") >>),
                           CloseQuietly("socket"), Return >>) >>),
            Race(Join("probePromise"), "throw"), Return >>,
         << Return >>) >>

handleIPMIGetDeviceID ==
  << Try(
         << Await, MayReturn, checkIfCloudflare, MayReturn,
            Quietly(<< Connect("socket"), Race(Opened("socket"), "throw"), GetWriter("socket"),
                       GetReader("socket"), Write("socket"),
                       Quietly(<< Loop(<< Race(Read("socket"), "end"), When(GotNothing, << Break >>),
                                          MayBreak >>) >>),
                       FreeReaderQuietly("socket"), FreeWriterQuietly("socket"), CloseQuietly("socket") >>),
            Return >>,
         << Return >>) >>

-----------------------------------------------------------------------------
\* src/src/worker/iscsi.ts

handleISCSILogin ==
  << Try(
         << Await, MayReturn, checkIfCloudflare, MayReturn,
            Task("loginPromise",
                 << Connect("socket"), Opened("socket"), GetWriter("socket"), GetReader("socket"),
                    Try(
                        << Write("socket"), readISCSIPDU("socket"), Maybe(<< Close("socket"), Return >>),
                           Maybe(<< Maybe(<< Close("socket"), Return >>),
                                    Maybe(<< Close("socket"), Return >>), Write("socket"),
                                    readISCSIPDU("socket"), Maybe(<< Close("socket"), Return >>) >>),
                           Maybe(<< Close("socket"), Return >>),
                           Maybe(<< Maybe(<< Write("socket"), readISCSIPDU("socket"),
                                             Maybe(<< Close("socket"), Return >>) >>),
                                    Write("socket"), readISCSIPDU("socket") >>),
                           Close("socket"), Return >>,
                        << Close("socket"), Throw >>) >>),
            Race(Join("loginPromise"), "throw"), Return >>,
         << MayReturn, Return >>) >>

handleISCSIDiscover ==
  << Try(
         << Await, MayReturn, checkIfCloudflare, MayReturn,
            Task("discoveryPromise",
                 << Connect("socket"), Opened("socket"), GetWriter("socket"), GetReader("socket"),
                    Try(
                        << Write("socket"), Loop(<< Read("socket"), When(GotEnd, << Break >>) >>),
                           Maybe(<< Close("socket"), Return >>), Maybe(<< Close("socket"), Return >>),
                           Loop(<< Read("socket"), When(GotEnd, << Break >>) >>),
                           Maybe(<< Close("socket"), Return >>), Write("socket"),
                           Loop(<< Read("socket"), When(GotEnd, << Break >>) >>),
                           Maybe(<< Loop(<< Read("socket"), When(GotEnd, << Break >>) >>) >>),
                           Close("socket"), Return >>,
                        << Close("socket"), Throw >>) >>),
            Race(Join("discoveryPromise"), "throw"), Return >>,
         << MayReturn, Return >>) >>

-----------------------------------------------------------------------------
\* src/src/worker/ldp.ts

handleLDPConnect ==
  << Try(
         << Await, MayReturn, checkIfCloudflare, MayReturn, Connect("socket"),
            Race(Opened("socket"), "throw"), GetWriter("socket"), GetReader("socket"), Write("socket"),
            readLDPResponse("socket"), Maybe(<< Quietly(<< Write("socket") >>) >>), FreeWriter("socket"),
            FreeReader("socket"), CloseQuietly("socket"), Return >>,
         << Return >>) >>

handleLDPProbe ==
  << Try(
         << Await, MayReturn, checkIfCloudflare, MayReturn, Connect("socket"),
            Race(Opened("socket"), "throw"), GetWriter("socket"), GetReader("socket"), Write("socket"),
            readLDPResponse("socket"), FreeWriter("socket"), FreeReader("socket"), CloseQuietly("socket"),
            Return >>,
         << Return >>) >>

handleLDPLabelMap ==
  << Try(
         << Await, MayReturn, checkIfCloudflare, MayReturn, Connect("socket"),
            Race(Opened("socket"), "throw"), GetWriter("socket"), GetReader("socket"), Write("socket"),
            readLDPResponse("socket"),
            Maybe(<< FreeWriter("socket"), FreeReader("socket"), CloseQuietly("socket"), Return >>),
            Write("socket"), readLDPBuffer("socket"), FreeWriter("socket"), FreeReader("socket"),
            CloseQuietly("socket"), Return >>,
         << Return >>) >>

-----------------------------------------------------------------------------
\* src/src/worker/livestatus.ts

handleLivestatusStatus ==
  << MayReturn, Try(<< Await, MayReturn, sendQuery, Return >>, << Return >>) >>

handleLivestatusHosts ==
  << MayReturn, Try(<< Await, MayReturn, sendQuery, Return >>, << Return >>) >>

handleLivestatusQuery ==
  << MayReturn, Try(<< Await, MayReturn, sendQuery, Return >>, << Return >>) >>

handleLivestatusServices ==
  << MayReturn, Try(<< Await, MayReturn, sendQuery, MayReturn, Return >>, << Return >>) >>

handleLivestatusCommand ==
  << MayReturn,
     Try(
         << Await, MayReturn, checkIfCloudflare, MayReturn, Connect("socket"),
            Try(
                << Race(Opened("socket"), "throw"), GetWriter("socket"), GetReader("socket"), Write("socket"),
                   Finish("socket"), FreeWriter("socket"), FreeReader("socket"), CloseQuietly("socket"),
                   Return >>,
                << CloseQuietly("socket"), Throw >>) >>,
         << Return >>) >>

-----------------------------------------------------------------------------
\* src/src/worker/llmnr.ts

handleLLMNRQuery ==
  << Try(
         << Await, MayReturn, checkIfCloudflare, MayReturn, Connect("socket"),
            Try(
                << Race(Opened("socket"), "throw"), GetWriter("socket"), GetReader("socket"), Write("socket"),
                   RaceTask(<< readAtLeast_llmnr("socket") >>, "throw"), FreeWriter("socket"),
                   FreeReader("socket"), CloseQuietly("socket"), MayThrow, Return >>,
                << CloseQuietly("socket"), Throw >>) >>,
         << Return >>) >>

handleLLMNRReverse ==
  << Try(
         << Await, MayReturn, checkIfCloudflare, MayReturn, MayThrow, Connect("socket"),
            Try(
                << Race(Opened("socket"), "throw"), GetWriter("socket"), GetReader("socket"), Write("socket"),
                   RaceTask(<< readAtLeast_llmnr("socket") >>, "throw"), FreeWriter("socket"),
                   FreeReader("socket"), CloseQuietly("socket"), MayThrow, Return >>,
                << CloseQuietly("socket"), Throw >>) >>,
         << Return >>) >>

(* The names are asked for at once; two of them stand for any number.       *)
handleLLMNRScan ==
  << Try(<< Await, MayReturn, checkIfCloudflare, MayReturn,
            Task("queryOneName1", queryOneName("socket1")), Task("queryOneName2", queryOneName("socket2")),
            JoinAll({"queryOneName1", "queryOneName2"}), Return >>,
         << Return >>) >>

-----------------------------------------------------------------------------
\* src/src/worker/mdns.ts

handleMDNSQuery ==
  << Try(
         << Await, MayReturn, checkIfCloudflare, MayReturn, Connect("handleMDNSQuery.socket"),
            Try(
                << Race(Opened("handleMDNSQuery.socket"), "throw"), MayThrow,
                   GetWriter("handleMDNSQuery.socket"), Write("handleMDNSQuery.socket"),
                   FreeWriter("handleMDNSQuery.socket"), GetReader("handleMDNSQuery.socket"),
                   Forever(<< Race(Read("handleMDNSQuery.socket"), "throw"),
                              When(GotNothing, << Break >>), MayThrow, MayBreak >>),
                   Maybe(<< FreeReader("handleMDNSQuery.socket"), CloseQuietly("handleMDNSQuery.socket"),
                            Return >>),
                   MayThrow,
                   Maybe(<< FreeReader("handleMDNSQuery.socket"), CloseQuietly("handleMDNSQuery.socket"),
                            Return >>),
                   FreeReader("handleMDNSQuery.socket"), CloseQuietly("handleMDNSQuery.socket"),
                   Return >>,
                << CloseQuietly("handleMDNSQuery.socket"), Throw >>) >>,
         << Return >>) >>

handleMDNSAnnounce ==
  << Try(
         << Await, MayReturn, checkIfCloudflare, MayReturn,
            Try(
                << Connect("socket"), Race(Opened("socket"), "throw"), GetWriter("socket"),
                   GetReader("socket"), Write("socket"), Quietly(<< Race(Read("socket"), "throw") >>),
                   FreeReaderQuietly("socket"), FreeWriterQuietly("socket"), CloseQuietly("socket") >>,
                << Return >>),
            Return >>,
         << Return >>) >>

handleMDNSDiscover ==
  << Try(<< Await, Call(handleMDNSQuery), Return >>, << Return >>) >>

-----------------------------------------------------------------------------
\* src/src/worker/modbus.ts

handleModbusRead ==
  << MayReturn,
     Try(
         << Await, MayReturn, checkIfCloudflare, MayReturn,
            Task("connectionPromise",
                 << Connect("socket"), Opened("socket"), GetReader("socket"), GetWriter("socket"),
                    TryFinally(<< Write("socket"), readModbusResponse("socket"), MayThrow, MayReturn,
                                  Return >>,
                               << FreeReaderQuietly("socket"), FreeWriterQuietly("socket"),
                                  CloseQuietly("socket") >>) >>),
            Race(Join("connectionPromise"), "throw"), Return >>,
         << Return >>) >>

handleModbusConnect ==
  << MayReturn,
     Try(
         << Await, MayReturn, checkIfCloudflare, MayReturn,
            Task("connectionPromise",
                 << Connect("socket"), Opened("socket"), GetReader("socket"), GetWriter("socket"),
                    TryFinally(<< Write("socket"), readModbusResponse("socket"), MayThrow, MayReturn,
                                  Return >>,
                               << FreeReaderQuietly("socket"), FreeWriterQuietly("socket"),
                                  CloseQuietly("socket") >>) >>),
            Race(Join("connectionPromise"), "throw"), Return >>,
         << Return >>) >>

handleModbusWriteCoil ==
  << MayReturn,
     Try(
         << Await, MayReturn, checkIfCloudflare, MayReturn,
            Task("connectionPromise",
                 << Connect("socket"), Opened("socket"), GetReader("socket"), GetWriter("socket"),
                    TryFinally(<< Write("socket"), readModbusResponse("socket"), MayThrow, MayReturn,
                                  Return >>,
                               << FreeReaderQuietly("socket"), FreeWriterQuietly("socket"),
                                  CloseQuietly("socket") >>) >>),
            Race(Join("connectionPromise"), "throw"), Return >>,
         << Return >>) >>

handleModbusWriteRegisters ==
  << MayReturn,
     Try(
         << Await, MayReturn, checkIfCloudflare, MayReturn,
            Task("connectionPromise",
                 << Connect("socket"), Opened("socket"), GetReader("socket"), GetWriter("socket"),
                    TryFinally(<< Write("socket"), readModbusResponse("socket"), MayThrow, MayReturn,
                                  Return >>,
                               << FreeReaderQuietly("socket"), FreeWriterQuietly("socket"),
                                  CloseQuietly("socket") >>) >>),
            Race(Join("connectionPromise"), "throw"), Return >>,
         << Return >>) >>

-----------------------------------------------------------------------------
\* src/src/worker/munin.ts

handleMuninConnect ==
  << MayReturn,
     Try(
         << Await, MayReturn, checkIfCloudflare, MayReturn,
            Task("connectionPromise",
                 << Connect("socket"), Opened("socket"), GetReader("socket"), GetWriter("socket"),
                    Try(
                        << readBanner("socket"), sendCommand_munin("socket"), sendCommand_munin("socket"),
                           sendCommand_munin("socket"), sendCommand_munin("socket"), Write("socket"),
                           FinishQuietly("socket"), FreeReader("socket"), FreeWriter("socket"),
                           Close("socket"), Return >>,
                        << FreeReaderQuietly("socket"), FreeWriterQuietly("socket"), CloseQuietly("socket"),
                           Throw >>) >>),
            Try(<< Race(Join("connectionPromise"), "throw"), Return >>, << Return >>) >>,
         << Return >>) >>

handleMuninFetch ==
  << MayReturn,
     Try(
         << Await, MayReturn, checkIfCloudflare, MayReturn,
            Task("connectionPromise",
                 << Connect("socket"), Opened("socket"), GetReader("socket"), GetWriter("socket"),
                    Try(
                        << readBanner("socket"), sendCommand_munin("socket"), Write("socket"),
                           FinishQuietly("socket"), FreeReader("socket"), FreeWriter("socket"),
                           Close("socket"), Return >>,
                        << FreeReaderQuietly("socket"), FreeWriterQuietly("socket"), CloseQuietly("socket"),
                           Throw >>) >>),
            Try(<< Race(Join("connectionPromise"), "throw"), Return >>, << Return >>) >>,
         << Return >>) >>

-----------------------------------------------------------------------------
\* src/src/worker/nbd.ts

handleNBDConnect ==
  << Try(
         << Await, MayReturn, checkIfCloudflare, MayReturn, Connect("socket"),
            Try(<< Race(Opened("socket"), "throw") >>, << CloseQuietly("socket"), Throw >>),
            GetWriter("socket"), GetReader("socket"), BufferedReader_readExact_buffered_reader("socket"),
            Maybe(<< Write("socket"), Write("socket"), readExportList("socket"),
                     Quietly(<< Write("socket") >>) >>),
            FreeWriter("socket"), FreeReader("socket"), CloseQuietly("socket"), Return >>,
         << Return >>) >>

handleNBDProbe ==
  << Try(
         << Await, MayReturn, checkIfCloudflare, MayReturn, Connect("socket"),
            Race(Opened("socket"), "throw"), GetReader("socket"),
            BufferedReader_readExact_buffered_reader("socket"), FreeReader("socket"), CloseQuietly("socket"),
            Return >>,
         << Return >>) >>

handleNBDRead ==
  << Try(
         << Await, MayReturn, checkIfCloudflare, MayReturn, Connect("socket"),
            Race(Opened("socket"), "throw"), GetWriter("socket"), GetReader("socket"),
            BufferedReader_readExact_buffered_reader("socket"),
            Maybe(<< FreeWriter("socket"), FreeReader("socket"), CloseQuietly("socket"), Return >>),
            Maybe(<< FreeWriter("socket"), FreeReader("socket"), CloseQuietly("socket"), Return >>),
            Write("socket"), Write("socket"), BufferedReader_readExact_buffered_reader("socket"), MayThrow,
            Write("socket"), BufferedReader_readExact_buffered_reader("socket"),
            Maybe(<< FreeWriter("socket"), FreeReader("socket"), CloseQuietly("socket"), Return >>),
            Maybe(<< FreeWriter("socket"), FreeReader("socket"), CloseQuietly("socket"), Return >>),
            Maybe(<< FreeWriter("socket"), FreeReader("socket"), CloseQuietly("socket"), Return >>),
            BufferedReader_readExact_buffered_reader("socket"), Quietly(<< MayThrow, Write("socket") >>),
            FreeWriter("socket"), FreeReader("socket"), CloseQuietly("socket"), Return >>,
         << Return >>) >>

handleNBDWrite ==
  << Try(
         << Await, MayReturn, checkIfCloudflare, MayReturn, Connect("socket"),
            Race(Opened("socket"), "throw"), GetWriter("socket"), GetReader("socket"),
            BufferedReader_readExact_buffered_reader("socket"),
            Maybe(<< FreeWriter("socket"), FreeReader("socket"), CloseQuietly("socket"), Return >>),
            Maybe(<< FreeWriter("socket"), FreeReader("socket"), CloseQuietly("socket"), Return >>),
            Write("socket"), Write("socket"), BufferedReader_readExact_buffered_reader("socket"),
            Maybe(<< FreeWriter("socket"), FreeReader("socket"), CloseQuietly("socket"), Return >>), MayThrow,
            Write("socket"), BufferedReader_readExact_buffered_reader("socket"),
            Maybe(<< FreeWriter("socket"), FreeReader("socket"), CloseQuietly("socket"), Return >>),
            Maybe(<< FreeWriter("socket"), FreeReader("socket"), CloseQuietly("socket"), Return >>),
            Maybe(<< FreeWriter("socket"), FreeReader("socket"), CloseQuietly("socket"), Return >>),
            Quietly(<< MayThrow, Write("socket") >>), FreeWriter("socket"), FreeReader("socket"),
            CloseQuietly("socket"), Return >>,
         << Return >>) >>

-----------------------------------------------------------------------------
\* src/src/worker/netbios.ts

handleNetBIOSConnect ==
  << Try(
         << Await, MayReturn, checkIfCloudflare, MayReturn,
            Task("connectionPromise",
                 << Connect("socket"), Opened("socket"), GetReader("socket"), GetWriter("socket"),
                    Try(
                        << Write("socket"), readSessionPacket("socket"), FreeWriter("socket"),
                           FreeReader("socket"), Close("socket"), Return >>,
                        << FreeWriter("socket"), FreeReader("socket"), Close("socket"), Throw >>) >>),
            Try(<< Race(Join("connectionPromise"), "throw"), Return >>, << Return >>) >>,
         << Return >>) >>

handleNetBIOSNameQuery ==
  << Try(
         << Await, MayReturn, checkIfCloudflare, MayReturn,
            Task("connectionPromise",
                 << Connect("socket"), Opened("socket"), GetReader("socket"), GetWriter("socket"),
                    Try(
                        << Write("socket"), readSessionPacket("socket"), MayThrow, Write("socket"),
                           readSessionPacket("socket"), FreeWriter("socket"), FreeReader("socket"),
                           Close("socket"), MayReturn, Return >>,
                        << FreeWriter("socket"), FreeReader("socket"), Close("socket"), Throw >>) >>),
            Try(<< Race(Join("connectionPromise"), "throw"), Return >>, << Return >>) >>,
         << Return >>) >>

handleNetBIOSProbe ==
  << Try(
         << Await, MayReturn, checkIfCloudflare, MayReturn,
            Loop(<< Quietly(<< Connect("socket"), Race(Opened("socket"), "throw"), GetReader("socket"),
                               GetWriter("socket"),
                               Try(
                                   << Write("socket"), readSessionPacket("socket"), FreeWriter("socket"),
                                      FreeReader("socket"), Close("socket") >>,
                                   << FreeWriter("socket"), FreeReader("socket"), Close("socket") >>) >>) >>),
            Return >>,
         << Return >>) >>

-----------------------------------------------------------------------------
\* src/src/worker/nrpe.ts

handleNRPEQuery ==
  << MayReturn,
     Try(
         << Await, MayReturn, checkIfCloudflare, MayReturn, Connect("socket"),
            TryCatchFinally(<< Race(Opened("socket"), "throw"), GetWriter("socket"), GetReader("socket"),
                               TryFinally(<< Write("socket"),
                                             Loop(<< Race(Read("socket"), "throw"),
                                                     When(GotNothing, << Break >>) >>),
                                             FreeWriter("socket"), FreeReader("socket"),
                                             CloseQuietly("socket"), MayReturn, Return >>,
                                          << FreeWriterQuietly("socket"), FreeReaderQuietly("socket") >>) >>,
                            << CloseQuietly("socket"), Throw >>, << CloseQuietly("socket") >>) >>,
         << Return >>) >>

handleNRPETLS ==
  << MayReturn,
     Try(
         << Await, MayReturn, checkIfCloudflare, MayReturn, Connect("socket"),
            TryCatchFinally(<< Race(Opened("socket"), "throw"), GetWriter("socket"), GetReader("socket"),
                               TryFinally(<< Write("socket"),
                                             Loop(<< Race(Read("socket"), "throw"),
                                                     When(GotNothing, << Break >>) >>),
                                             FreeWriter("socket"), FreeReader("socket"),
                                             CloseQuietly("socket"), MayReturn, Return >>,
                                          << FreeWriterQuietly("socket"), FreeReaderQuietly("socket") >>) >>,
                            << CloseQuietly("socket"), Throw >>, << CloseQuietly("socket") >>) >>,
         << Return >>) >>

handleNRPEVersion ==
  << MayReturn,
     Try(
         << Await, MayReturn, checkIfCloudflare, MayReturn, Connect("socket"),
            TryCatchFinally(<< Race(Opened("socket"), "throw"), GetWriter("socket"), GetReader("socket"),
                               TryFinally(<< Write("socket"),
                                             Loop(<< Race(Read("socket"), "throw"),
                                                     When(GotNothing, << Break >>) >>),
                                             FreeWriter("socket"), FreeReader("socket"),
                                             CloseQuietly("socket"), MayReturn, Return >>,
                                          << FreeWriterQuietly("socket"), FreeReaderQuietly("socket") >>) >>,
                            << CloseQuietly("socket"), Throw >>, << CloseQuietly("socket") >>) >>,
         << Return >>) >>

-----------------------------------------------------------------------------
\* src/src/worker/nsca.ts

handleNSCAProbe ==
  << Try(
         << Await, MayReturn, checkIfCloudflare, MayReturn, Connect("socket"),
            Try(
                << Race(Opened("socket"), "throw"), GetReader("socket"),
                   TryFinally(<< Loop(<< MayThrow, Race(Read("socket"), "throw"),
                                         When(GotNothing, << When(GotEnd, << Break >>), Continue >>) >>),
                                 MayReturn, Return >>,
                              << FreeReader("socket"), CloseQuietly("socket") >>) >>,
                << CloseQuietly("socket"), Throw >>) >>,
         << Return >>) >>

handleNSCASend ==
  << Try(
         << Await, MayReturn, checkIfCloudflare, MayReturn, Connect("socket"),
            Try(
                << Race(Opened("socket"), "throw"), GetReader("socket"), GetWriter("socket"),
                   TryFinally(<< Loop(<< MayThrow, Race(Read("socket"), "throw"),
                                         When(GotNothing, << When(GotEnd, << Break >>), Continue >>) >>),
                                 MayReturn, Write("socket"), Return >>,
                              << FreeReader("socket"), FreeWriter("socket"), CloseQuietly("socket") >>) >>,
                << CloseQuietly("socket"), Throw >>) >>,
         << Return >>) >>

handleNSCAEncrypted ==
  << Try(
         << Await, MayReturn, checkIfCloudflare, MayReturn, Connect("socket"),
            Try(
                << Race(Opened("socket"), "throw"), GetReader("socket"), GetWriter("socket"),
                   TryFinally(<< Loop(<< MayThrow, Race(Read("socket"), "throw"),
                                         When(GotNothing, << When(GotEnd, << Break >>), Continue >>) >>),
                                 MayReturn,
                                 Maybe(<< Either(<< aesCbcEncrypt >>, << Maybe(<< Await, aesCbcEncrypt >>) >>) >>),
                                 Write("socket"), Return >>,
                              << FreeReader("socket"), FreeWriter("socket"), CloseQuietly("socket") >>) >>,
                << CloseQuietly("socket"), Throw >>) >>,
         << Await, Return >>) >>

-----------------------------------------------------------------------------
\* src/src/worker/ntp.ts

handleNTPQuery ==
  << Try(
         << Await, MayReturn, checkIfCloudflare, MayReturn, Connect("handleNTPQuery.socket"),
            Try(
                << Race(Opened("handleNTPQuery.socket"), "throw"), GetWriter("handleNTPQuery.socket"),
                   GetReader("handleNTPQuery.socket"), Write("handleNTPQuery.socket"),
                   Race(Read("handleNTPQuery.socket"), "throw"), When(GotNothing, << Throw >>), MayThrow,
                   FreeWriter("handleNTPQuery.socket"), FreeReader("handleNTPQuery.socket"),
                   CloseQuietly("handleNTPQuery.socket"), Return >>,
                << CloseQuietly("handleNTPQuery.socket"), Throw >>) >>,
         << Return >>) >>

handleNTPSync ==
  << Call(handleNTPQuery), Return >>

handleNTPPoll ==
  << MayReturn,
     Try(
         << Await, MayReturn, checkIfCloudflare, MayReturn,
            Loop(<< Maybe(<< Sleep >>),
                    Quietly(<< Connect("socket"), Race(Opened("socket"), "throw"), GetWriter("socket"),
                               GetReader("socket"), Write("socket"),
                               Loop(<< MayBreak, Race(Read("socket"), "end"), When(GotNothing, << Break >>) >>),
                               FreeWriter("socket"), FreeReader("socket"), CloseQuietly("socket"), MayThrow >>) >>),
            MayReturn, Return >>,
         << Return >>) >>

-----------------------------------------------------------------------------
\* src/src/worker/openflow.ts

handleOpenFlowProbe ==
  << MayReturn,
     Try(
         << Await, MayReturn, checkIfCloudflare, MayReturn, Connect("socket"),
            Try(<< Race(Opened("socket"), "throw") >>, << CloseQuietly("socket"), Throw >>),
            GetWriter("socket"), GetReader("socket"), Write("socket"),
            Quietly(<< readMessage_openflow("socket") >>),
            Maybe(<< Write("socket"), Quietly(<< readMessage_openflow("socket") >>) >>), FreeWriter("socket"),
            FreeReader("socket"), CloseQuietly("socket"), MayReturn, Return >>,
         << Return >>) >>

handleOpenFlowEcho ==
  << MayReturn,
     Try(
         << Await, MayReturn, checkIfCloudflare, MayReturn, Connect("socket"),
            Try(<< Race(Opened("socket"), "throw") >>, << CloseQuietly("socket"), Throw >>),
            GetWriter("socket"), GetReader("socket"), Write("socket"),
            Quietly(<< readMessage_openflow("socket") >>), Write("socket"),
            Quietly(<< readMessage_openflow("socket") >>), FreeWriter("socket"), FreeReader("socket"),
            CloseQuietly("socket"), Return >>,
         << Return >>) >>

handleOpenFlowStats ==
  << MayReturn,
     Try(
         << Await, MayReturn, checkIfCloudflare, MayReturn, Connect("socket"),
            Try(<< Race(Opened("socket"), "throw") >>, << CloseQuietly("socket"), Throw >>),
            GetWriter("socket"), GetReader("socket"), Write("socket"),
            Quietly(<< readMessage_openflow("socket") >>), Write("socket"),
            Quietly(<< readMessage_openflow("socket") >>), Write("socket"),
            Quietly(<< Loop(<< readMessage_openflow("socket"), MayBreak >>) >>), FreeWriter("socket"),
            FreeReader("socket"), CloseQuietly("socket"), MayReturn, Return >>,
         << Return >>) >>

-----------------------------------------------------------------------------
\* src/src/worker/pcep.ts

handlePCEPConnect ==
  << Try(
         << Await, MayReturn, checkIfCloudflare, MayReturn, Connect("socket"),
            Try(<< Race(Opened("socket"), "throw") >>, << CloseQuietly("socket"), Throw >>),
            GetWriter("socket"), GetReader("socket"),
            TryFinally(<< Write("socket"), BufferedReader_readExact_buffered_reader("socket"),
                          Maybe(<< BufferedReader_readExact_buffered_reader("socket"),
                                   Quietly(<< Write("socket") >>) >>),
                          Return >>,
                       << FreeWriter("socket"), FreeReader("socket"), CloseQuietly("socket") >>) >>,
         << Return >>) >>

handlePCEPProbe ==
  << Try(
         << Await, MayReturn, checkIfCloudflare, MayReturn, Connect("socket"),
            Try(<< Race(Opened("socket"), "throw") >>, << CloseQuietly("socket"), Throw >>),
            GetWriter("socket"), GetReader("socket"),
            TryFinally(<< Write("socket"), BufferedReader_readExact_buffered_reader("socket"), Return >>,
                       << FreeWriter("socket"), FreeReader("socket"), CloseQuietly("socket") >>) >>,
         << Return >>) >>

handlePCEPCompute ==
  << Try(
         << Await, MayReturn, checkIfCloudflare, MayReturn, Connect("socket"),
            Try(<< Race(Opened("socket"), "throw") >>, << CloseQuietly("socket"), Throw >>),
            GetWriter("socket"), GetReader("socket"),
            TryFinally(<< Write("socket"), BufferedReader_readExact_buffered_reader("socket"), MayThrow,
                          Maybe(<< BufferedReader_readExact_buffered_reader("socket") >>), Write("socket"),
                          MayThrow, Write("socket"),
                          Loop(<< BufferedReader_readExact_buffered_reader("socket"), MayBreak,
                                  Either(<< BufferedReader_readExact_buffered_reader("socket"), MayBreak >>,
                                         << MayBreak >>) >>),
                          MayReturn, Return >>,
                       << FreeWriter("socket"), FreeReader("socket"), CloseQuietly("socket") >>) >>,
         << Return >>) >>

-----------------------------------------------------------------------------
\* src/src/worker/portmapper.ts

handlePortmapperProbe ==
  << Try(
         << Await, MayReturn, checkIfCloudflare, MayReturn, Connect("socket"),
            TryFinally(<< Race(Opened("socket"), "throw"), GetWriter("socket"), GetReader("socket"),
                          Write("socket"), readRpcResponse("socket"), MayThrow, Return >>,
                       << Quietly(<< When(HasWriter("socket"), << FreeWriter("socket") >>) >>),
                          Quietly(<< When(HasReader("socket"), << FreeReader("socket") >>) >>),
                          CloseQuietly("socket") >>) >>,
         << Return >>) >>

handlePortmapperDump ==
  << Try(
         << Await, MayReturn, checkIfCloudflare, MayReturn, Connect("socket"),
            TryFinally(<< Race(Opened("socket"), "throw"), GetWriter("socket"), GetReader("socket"),
                          Write("socket"), readRpcResponse("socket"), MayThrow, Return >>,
                       << Quietly(<< When(HasWriter("socket"), << FreeWriter("socket") >>) >>),
                          Quietly(<< When(HasReader("socket"), << FreeReader("socket") >>) >>),
                          CloseQuietly("socket") >>) >>,
         << Return >>) >>

handlePortmapperGetPort ==
  << MayReturn,
     Try(
         << Await, MayReturn, checkIfCloudflare, MayReturn, Connect("socket"),
            TryFinally(<< Race(Opened("socket"), "throw"), GetWriter("socket"), GetReader("socket"),
                          Write("socket"), readRpcResponse("socket"), MayThrow, Return >>,
                       << Quietly(<< When(HasWriter("socket"), << FreeWriter("socket") >>) >>),
                          Quietly(<< When(HasReader("socket"), << FreeReader("socket") >>) >>),
                          CloseQuietly("socket") >>) >>,
         << Return >>) >>

-----------------------------------------------------------------------------
\* src/src/worker/relp.ts

handleRelpConnect ==
  << Try(
         << MayReturn, Await, MayReturn, checkIfCloudflare, MayReturn,
            Task("connectionPromise",
                 << Connect("socket"), Opened("socket"), GetReader("socket"), GetWriter("socket"),
                    TryFinally(<< Write("socket"), readRelpResponse("socket"),
                                  Quietly(<< Write("socket"), Quietly(<< readRelpResponse("socket") >>) >>),
                                  MayThrow, Return >>,
                               << FreeWriterQuietly("socket"), FreeReaderQuietly("socket"),
                                  CloseQuietly("socket") >>) >>),
            Race(Join("connectionPromise"), "throw"), Return >>,
         << Return >>) >>

handleRelpSend ==
  << Try(
         << MayReturn, Await, MayReturn, checkIfCloudflare, MayReturn,
            Task("connectionPromise",
                 << Connect("socket"), Opened("socket"), GetReader("socket"), GetWriter("socket"),
                    TryFinally(<< Write("socket"), readRelpResponse("socket"), MayThrow, Write("socket"),
                                  readRelpResponse("socket"), MayThrow, Write("socket"),
                                  Quietly(<< readRelpResponse("socket") >>), Return >>,
                               << FreeWriterQuietly("socket"), FreeReaderQuietly("socket"),
                                  CloseQuietly("socket") >>) >>),
            Race(Join("connectionPromise"), "throw"), Return >>,
         << Return >>) >>

handleRELPBatch ==
  << Try(
         << MayReturn, Await, MayReturn, checkIfCloudflare, MayReturn,
            Task("connectionPromise",
                 << Connect("socket"), Opened("socket"), GetReader("socket"), GetWriter("socket"),
                    TryFinally(<< Write("socket"), readRelpResponse("socket"), MayThrow,
                                  Loop(<< Write("socket") >>), Write("socket"),
                                  readAllRelpResponses("socket"), Return >>,
                               << FreeWriterQuietly("socket"), FreeReaderQuietly("socket"),
                                  CloseQuietly("socket") >>) >>),
            Race(Join("connectionPromise"), "throw"), Return >>,
         << Return >>) >>

-----------------------------------------------------------------------------
\* src/src/worker/rip.ts

handleRIPRequest ==
  << Try(
         << MayReturn, Await, MayReturn, checkIfCloudflare, MayReturn,
            Connect("handleRIPRequest.socket"),
            TryCatchFinally(<< Race(Opened("handleRIPRequest.socket"), "throw"), MayThrow,
                               GetWriter("handleRIPRequest.socket"),
                               TryFinally(<< Write("handleRIPRequest.socket") >>,
                                          << FreeWriterQuietly("handleRIPRequest.socket") >>),
                               GetReader("handleRIPRequest.socket"),
                               TryFinally(<< Race(Read("handleRIPRequest.socket"), "throw"),
                                             When(GotNothing, << Return >>), MayReturn, Return >>,
                                          << FreeReaderQuietly("handleRIPRequest.socket") >>) >>,
                            << Throw >>, << CloseQuietly("handleRIPRequest.socket") >>) >>,
         << Return >>) >>

handleRIPProbe ==
  << Try(<< MayReturn, Await, Call(handleRIPRequest), Return >>, << Return >>) >>

handleRIPUpdate ==
  << Try(
         << MayReturn, Await, MayReturn, checkIfCloudflare, MayReturn,
            Quietly(<< Connect("socket"),
                       Try(<< Race(Opened("socket"), "throw") >>, << CloseQuietly("socket"), Throw >>),
                       GetWriter("socket"), Write("socket"), FreeWriter("socket"), GetReader("socket"),
                       TryCatchFinally(<< Race(Read("socket"), "throw") >>, <<>>, << FreeReader("socket") >>),
                       CloseQuietly("socket") >>),
            Return >>,
         << Return >>) >>

handleRIPAuthUpdate ==
  << Try(
         << MayReturn, Await, MayReturn, checkIfCloudflare, MayReturn, MayThrow,
            Quietly(<< Connect("socket"),
                       Try(<< Race(Opened("socket"), "throw") >>, << CloseQuietly("socket"), Throw >>),
                       GetWriter("socket"), Write("socket"), FreeWriter("socket"), GetReader("socket"),
                       TryCatchFinally(<< Race(Read("socket"), "throw") >>, <<>>, << FreeReader("socket") >>),
                       CloseQuietly("socket") >>),
            Return >>,
         << Return >>) >>

handleRIPSend ==
  << Try(
         << MayReturn, Await, MayReturn, checkIfCloudflare, MayReturn,
            Quietly(<< Connect("socket"), Race(Opened("socket"), "throw"), GetWriter("socket"),
                       Write("socket"), FreeWriter("socket"), GetReader("socket"),
                       TryCatchFinally(<< Race(Read("socket"), "throw") >>, <<>>, << FreeReader("socket") >>),
                       CloseQuietly("socket") >>),
            Return >>,
         << Return >>) >>

handleRIPMD5Update ==
  << Try(
         << MayReturn, Await, MayReturn, checkIfCloudflare, MayReturn, MayThrow,
            Quietly(<< Connect("socket"),
                       Try(<< Race(Opened("socket"), "throw") >>, << CloseQuietly("socket"), Throw >>),
                       GetWriter("socket"), Write("socket"), FreeWriter("socket"), GetReader("socket"),
                       TryCatchFinally(<< Race(Read("socket"), "throw") >>, <<>>, << FreeReader("socket") >>),
                       CloseQuietly("socket") >>),
            Return >>,
         << Return >>) >>

-----------------------------------------------------------------------------
\* src/src/worker/slp.ts

handleSLPServiceTypes ==
  << MayReturn,
     Try(
         << Await, MayReturn, checkIfCloudflare, MayReturn, Connect("socket"),
            Race(Opened("socket"), "throw"),
            TryFinally(<< GetWriter("socket"), GetReader("socket"),
                          TryFinally(<< MayThrow, Write("socket"), readResponse_slp("socket"), MayThrow,
                                        MayReturn, Return >>,
                                     << FreeReader("socket"), FreeWriter("socket") >>) >>,
                       << CloseQuietly("socket") >>) >>,
         << Return >>) >>

handleSLPServiceFind ==
  << MayReturn,
     Try(
         << Await, MayReturn, checkIfCloudflare, MayReturn, Connect("socket"),
            Race(Opened("socket"), "throw"),
            TryFinally(<< GetWriter("socket"), GetReader("socket"),
                          TryFinally(<< MayThrow, Write("socket"), readResponse_slp("socket"), MayThrow,
                                        MayReturn, Return >>,
                                     << FreeReader("socket"), FreeWriter("socket") >>) >>,
                       << CloseQuietly("socket") >>) >>,
         << Return >>) >>

handleSLPAttributes ==
  << MayReturn,
     Try(
         << Await, MayReturn, checkIfCloudflare, MayReturn, Connect("socket"),
            Race(Opened("socket"), "throw"),
            TryFinally(<< GetWriter("socket"), GetReader("socket"),
                          TryFinally(<< MayThrow, Write("socket"), readResponse_slp("socket"), MayThrow,
                                        MayReturn, Return >>,
                                     << FreeReader("socket"), FreeWriter("socket") >>) >>,
                       << CloseQuietly("socket") >>) >>,
         << Return >>) >>

-----------------------------------------------------------------------------
\* src/src/worker/snmp.ts

handleSNMPv3Get ==
  << MayReturn,
     Try(
         << Await, MayReturn, checkIfCloudflare, MayReturn, MayThrow, Connect("socket1"),
            Try(
                << Race(Opened("socket1"), "throw"), GetWriter("socket1"), GetReader("socket1"),
                   Write("socket1"), RaceTask(<< readSNMPResponse("socket1") >>, "throw"),
                   FreeWriter("socket1"), FreeReader("socket1"), CloseQuietly("socket1"), MayThrow >>,
                << CloseQuietly("socket1"), Throw >>),
            Maybe(<< localizeKey >>), Maybe(<< hmacDigest >>), Connect("socket2"),
            Try(
                << Race(Opened("socket2"), "throw"), GetWriter("socket2"), GetReader("socket2"),
                   Write("socket2"), RaceTask(<< readSNMPResponse("socket2") >>, "throw"),
                   FreeWriter("socket2"), FreeReader("socket2"), CloseQuietly("socket2"), MayThrow >>,
                << CloseQuietly("socket2"), Throw >>),
            Return >>,
         << Return >>) >>

handleSNMPGet ==
  << MayReturn,
     Try(
         << Await, MayReturn, checkIfCloudflare, MayReturn, MayThrow, Connect("socket"),
            Try(
                << Race(Opened("socket"), "throw"), GetWriter("socket"), GetReader("socket"), Write("socket"),
                   RaceTask(<< readSNMPResponse("socket") >>, "throw"), MayThrow, FreeWriter("socket"),
                   FreeReader("socket"), CloseQuietly("socket"), Return >>,
                << CloseQuietly("socket"), Throw >>) >>,
         << Return >>) >>

handleSNMPWalk ==
  << MayReturn,
     Try(
         << Await, MayReturn, checkIfCloudflare, MayReturn, Connect("socket"),
            Try(
                << Race(Opened("socket"), "throw"), GetWriter("socket"), GetReader("socket"),
                   Loop(<< MayThrow, Write("socket"), readSNMPResponse("socket"), MayBreak >>),
                   FreeWriter("socket"), FreeReader("socket"), CloseQuietly("socket"), Return >>,
                << CloseQuietly("socket"), Throw >>) >>,
         << Return >>) >>

handleSNMPSet ==
  << MayReturn,
     Try(
         << Await, MayReturn, checkIfCloudflare, MayReturn, Connect("socket"),
            Try(
                << Race(Opened("socket"), "throw"), GetWriter("socket"), GetReader("socket"), Write("socket"),
                   RaceTask(<< readSNMPResponse("socket") >>, "throw"), FreeWriter("socket"),
                   FreeReader("socket"), CloseQuietly("socket"), MayThrow, Return >>,
                << CloseQuietly("socket"), Throw >>) >>,
         << Return >>) >>

handleSNMPMultiGet ==
  << MayReturn,
     Try(
         << Await, MayReturn, checkIfCloudflare, MayReturn, MayThrow, Connect("socket"),
            Try(
                << Race(Opened("socket"), "throw"), GetWriter("socket"), GetReader("socket"), Write("socket"),
                   RaceTask(<< readSNMPResponse("socket") >>, "throw"), FreeWriter("socket"),
                   FreeReader("socket"), CloseQuietly("socket"), MayThrow, Return >>,
                << CloseQuietly("socket"), Throw >>) >>,
         << Return >>) >>

-----------------------------------------------------------------------------
\* src/src/worker/syslog.ts

handleSyslogSend ==
  << MayReturn,
     Try(
         << Await, MayReturn, checkIfCloudflare, MayReturn, Connect("socket"),
            Try(
                << Race(Opened("socket"), "throw"), GetWriter("socket"), Write("socket"),
                   FreeWriter("socket"), CloseQuietly("socket"), Return >>,
                << CloseQuietly("socket"), Throw >>) >>,
         << Return >>) >>

-----------------------------------------------------------------------------
\* src/src/worker/tcp.ts

handleTcpSend ==
  << MayReturn,
     Try(
         << Await, MayReturn, checkIfCloudflare, MayReturn, Connect("socket"),
            Race(Opened("socket"), "throw"), GetWriter("socket"), GetReader("socket"),
            Maybe(<< MayReturn, Write("socket") >>),
            TryCatchFinally(<< Loop(<< Race(Read("socket"), "end"), When(GotNothing, << Break >>) >>) >>,
                            <<>>, << FreeReaderQuietly("socket") >>),
            FreeWriterQuietly("socket"), CloseQuietly("socket"), Return >>,
         << Return >>) >>

-----------------------------------------------------------------------------
\* src/src/worker/websocket-pipe.ts

handleTcpPing ==
  << MayReturn,
     TryCatchFinally(<< Await, MayReturn, checkIfCloudflare, MayReturn, Connect("socket"),
                        Race(Opened("socket"), "throw"), Close("socket"), ForgetSocket("socket"), Return >>,
                     << Return >>, << When(HasSocket("socket"), << CloseQuietly("socket") >>) >>) >>

-----------------------------------------------------------------------------
\* src/src/worker/whois.ts

handleWhoisLookup ==
  << MayReturn,
     Try(
         << Await, MayReturn, checkIfCloudflare, MayReturn, doWhoisQuery,
            Maybe(<< Maybe(<< checkIfCloudflare >>), Maybe(<< Quietly(<< doWhoisQuery >>) >>) >>), Return >>,
         << Return >>) >>

handleWhoisIP ==
  << MayReturn,
     Try(
         << Await, MayReturn, checkIfCloudflare, MayReturn, doWhoisQuery,
            Maybe(<< Maybe(<< checkIfCloudflare >>), Maybe(<< Quietly(<< doWhoisQuery >>) >>) >>), Return >>,
         << Return >>) >>

-----------------------------------------------------------------------------
\* src/src/worker/zabbix.ts

handleZabbixConnect ==
  << MayReturn,
     Try(
         << Await, MayReturn, checkIfCloudflare, MayReturn, Connect("socket"),
            Try(
                << Race(Opened("socket"), "throw"), GetWriter("socket"), GetReader("socket"), Write("socket"),
                   readZabbixResponse("socket"), FreeWriter("socket"), FreeReader("socket"),
                   CloseQuietly("socket"), Return >>,
                << CloseQuietly("socket"), Throw >>) >>,
         << Return >>) >>

handleZabbixAgent ==
  << MayReturn,
     Try(
         << Await, MayReturn, checkIfCloudflare, MayReturn, Connect("socket"),
            Try(
                << Race(Opened("socket"), "throw"), GetWriter("socket"), GetReader("socket"), Write("socket"),
                   readZabbixResponse("socket"), FreeWriter("socket"), FreeReader("socket"),
                   CloseQuietly("socket"), Return >>,
                << CloseQuietly("socket"), Throw >>) >>,
         << Return >>) >>

handleZabbixDiscovery ==
  << MayReturn,
     Try(
         << Await, MayReturn, checkIfCloudflare, MayReturn, Connect("socket1"),
            Try(
                << Race(Opened("socket1"), "throw"), GetWriter("socket1"), GetReader("socket1"),
                   Write("socket1"), readZabbixResponse("socket1"), FreeWriter("socket1"),
                   FreeReader("socket1"), CloseQuietly("socket1") >>,
                << CloseQuietly("socket1") >>),
            Connect("socket2"),
            Try(
                << Race(Opened("socket2"), "throw"), GetWriter("socket2"), GetReader("socket2"),
                   Write("socket2"), readZabbixResponse("socket2"), FreeWriter("socket2"),
                   FreeReader("socket2"), CloseQuietly("socket2") >>,
                << CloseQuietly("socket2") >>),
            Return >>,
         << Return >>) >>

-----------------------------------------------------------------------------
NetworkProgram ==
  [handleBGPRouteTable |-> handleBGPRouteTable,
   handleBGPConnect |-> handleBGPConnect,
   handleBGPAnnounce |-> handleBGPAnnounce,
   handleCephConnect |-> handleCephConnect,
   handleCephClusterInfo |-> handleCephClusterInfo,
   handleCephRestHealth |-> handleCephRestHealth,
   handleCephProbe |-> handleCephProbe,
   handleCephOSDList |-> handleCephOSDList,
   handleCephPoolList |-> handleCephPoolList,
   handleCoAPRequest |-> handleCoAPRequest,
   handleCoAPDiscover |-> handleCoAPDiscover,
   handleCoAPBlockGet |-> handleCoAPBlockGet,
   handleCoAPObserve |-> handleCoAPObserve,
   handleDCERPCConnect |-> handleDCERPCConnect,
   handleDCERPCEPMEnum |-> handleDCERPCEPMEnum,
   handleDCERPCProbe |-> handleDCERPCProbe,
   handleDNSQuery |-> handleDNSQuery,
   handleDNSAXFR |-> handleDNSAXFR,
   handleDOHQuery |-> handleDOHQuery,
   handleDoTQuery |-> handleDoTQuery,
   handleEPMDNames |-> handleEPMDNames,
   handleEPMDPort |-> handleEPMDPort,
   handleFluentdConnect |-> handleFluentdConnect,
   handleFluentdSend |-> handleFluentdSend,
   handleFluentdBulk |-> handleFluentdBulk,
   handleGangliaConnect |-> handleGangliaConnect,
   handleGangliaProbe |-> handleGangliaProbe,
   handleGelfSend |-> handleGelfSend,
   handleGelfProbe |-> handleGelfProbe,
   handleHSRPProbe |-> handleHSRPProbe,
   handleHSRPListen |-> handleHSRPListen,
   handleHSRPCoup |-> handleHSRPCoup,
   handleHSRPv2Probe |-> handleHSRPv2Probe,
   handleIdentQuery |-> handleIdentQuery,
   handleIPMIConnect |-> handleIPMIConnect,
   handleIPMIGetAuthCaps |-> handleIPMIGetAuthCaps,
   handleIPMIGetDeviceID |-> handleIPMIGetDeviceID,
   handleISCSILogin |-> handleISCSILogin,
   handleISCSIDiscover |-> handleISCSIDiscover,
   handleLDPConnect |-> handleLDPConnect,
   handleLDPProbe |-> handleLDPProbe,
   handleLDPLabelMap |-> handleLDPLabelMap,
   handleLivestatusStatus |-> handleLivestatusStatus,
   handleLivestatusHosts |-> handleLivestatusHosts,
   handleLivestatusQuery |-> handleLivestatusQuery,
   handleLivestatusServices |-> handleLivestatusServices,
   handleLivestatusCommand |-> handleLivestatusCommand,
   handleLLMNRQuery |-> handleLLMNRQuery,
   handleLLMNRReverse |-> handleLLMNRReverse,
   handleLLMNRScan |-> handleLLMNRScan,
   handleMDNSQuery |-> handleMDNSQuery,
   handleMDNSAnnounce |-> handleMDNSAnnounce,
   handleMDNSDiscover |-> handleMDNSDiscover,
   handleModbusRead |-> handleModbusRead,
   handleModbusConnect |-> handleModbusConnect,
   handleModbusWriteCoil |-> handleModbusWriteCoil,
   handleModbusWriteRegisters |-> handleModbusWriteRegisters,
   handleMuninConnect |-> handleMuninConnect,
   handleMuninFetch |-> handleMuninFetch,
   handleNBDConnect |-> handleNBDConnect,
   handleNBDProbe |-> handleNBDProbe,
   handleNBDRead |-> handleNBDRead,
   handleNBDWrite |-> handleNBDWrite,
   handleNetBIOSConnect |-> handleNetBIOSConnect,
   handleNetBIOSNameQuery |-> handleNetBIOSNameQuery,
   handleNetBIOSProbe |-> handleNetBIOSProbe,
   handleNRPEQuery |-> handleNRPEQuery,
   handleNRPETLS |-> handleNRPETLS,
   handleNRPEVersion |-> handleNRPEVersion,
   handleNSCAProbe |-> handleNSCAProbe,
   handleNSCASend |-> handleNSCASend,
   handleNSCAEncrypted |-> handleNSCAEncrypted,
   handleNTPQuery |-> handleNTPQuery,
   handleNTPSync |-> handleNTPSync,
   handleNTPPoll |-> handleNTPPoll,
   handleOpenFlowProbe |-> handleOpenFlowProbe,
   handleOpenFlowEcho |-> handleOpenFlowEcho,
   handleOpenFlowStats |-> handleOpenFlowStats,
   handlePCEPConnect |-> handlePCEPConnect,
   handlePCEPProbe |-> handlePCEPProbe,
   handlePCEPCompute |-> handlePCEPCompute,
   handlePortmapperProbe |-> handlePortmapperProbe,
   handlePortmapperDump |-> handlePortmapperDump,
   handlePortmapperGetPort |-> handlePortmapperGetPort,
   handleRelpConnect |-> handleRelpConnect,
   handleRelpSend |-> handleRelpSend,
   handleRELPBatch |-> handleRELPBatch,
   handleRIPRequest |-> handleRIPRequest,
   handleRIPProbe |-> handleRIPProbe,
   handleRIPUpdate |-> handleRIPUpdate,
   handleRIPAuthUpdate |-> handleRIPAuthUpdate,
   handleRIPSend |-> handleRIPSend,
   handleRIPMD5Update |-> handleRIPMD5Update,
   handleSLPServiceTypes |-> handleSLPServiceTypes,
   handleSLPServiceFind |-> handleSLPServiceFind,
   handleSLPAttributes |-> handleSLPAttributes,
   handleSNMPv3Get |-> handleSNMPv3Get,
   handleSNMPGet |-> handleSNMPGet,
   handleSNMPWalk |-> handleSNMPWalk,
   handleSNMPSet |-> handleSNMPSet,
   handleSNMPMultiGet |-> handleSNMPMultiGet,
   handleSyslogSend |-> handleSyslogSend,
   handleTcpSend |-> handleTcpSend,
   handleTcpPing |-> handleTcpPing,
   handleWhoisLookup |-> handleWhoisLookup,
   handleWhoisIP |-> handleWhoisIP,
   handleZabbixConnect |-> handleZabbixConnect,
   handleZabbixAgent |-> handleZabbixAgent,
   handleZabbixDiscovery |-> handleZabbixDiscovery]

=============================================================================
