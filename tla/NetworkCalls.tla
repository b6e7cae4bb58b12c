---------------------------- MODULE NetworkCalls ----------------------------
(* What the handlers of NetworkHandlers call of their own files: the       *)
(* clients, readers and logins of network services, as steps on the        *)
(* sockets.                                                                *)
EXTENDS SharedCalls

-----------------------------------------------------------------------------
\* src/src/worker/coap.ts

readCoAPPdu(socket) ==
  Call(<< Forever(<< Race(Read(socket), "throw"), When(GotNothing, << Throw >>),
                     Try(<< MayThrow, Return >>, << Maybe(<< MayThrow, Continue >>), Throw >>) >>) >>)

-----------------------------------------------------------------------------
\* src/src/worker/dcerpc.ts

readPDU_dcerpc(socket) ==
  Call(<< Task("readPromise",
               << Loop(<< Read(socket), When(GotNothing, << Throw >>) >>), MayThrow,
                  Loop(<< Read(socket), When(GotNothing, << Break >>) >>), MayThrow >>),
          Race(Join("readPromise"), "throw") >>)

-----------------------------------------------------------------------------
\* src/src/worker/dns.ts

readTCPDNSMessage(socket) ==
  Call(<< Loop(<< Try(<< Race(Read(socket), "throw") >>, << Break >>), When(GotNothing, << Break >>),
                  MayBreak >>),
          MayReturn >>)

-----------------------------------------------------------------------------
\* src/src/worker/fluentd.ts

readFluentdResponse(socket) ==
  Call(<< Loop(<< MayBreak, Race(Read(socket), "end"), When(GotNothing, << Break >>), MayThrow, MayBreak >>) >>)

-----------------------------------------------------------------------------
\* src/src/worker/ganglia.ts

readGangliaXML(socket) ==
  Call(<< Task("readPromise", << Forever(<< Read(socket), When(GotEnd, << Break >>), MayBreak >>) >>),
          Race(Join("readPromise"), "null") >>)

-----------------------------------------------------------------------------
\* src/src/worker/ident.ts

readIdentLine(socket) ==
  Call(<< Loop(<< Race(Read(socket), "throw"), When(GotNothing, << Break >>), MayReturn >>), MayThrow >>)

-----------------------------------------------------------------------------
\* src/src/worker/iscsi.ts

readISCSIPDU(socket) ==
  Call(<< Forever(<< Read(socket), When(GotNothing, << Return >>), MayReturn >>) >>)

-----------------------------------------------------------------------------
\* src/src/worker/ldp.ts

readLDPResponse(socket) ==
  Call(<< Loop(<< Race(Read(socket), "throw"), When(GotNothing, << Throw >>) >>),
          Loop(<< Race(Read(socket), "throw"), When(GotNothing, << Break >>) >>) >>)

readLDPBuffer(socket) ==
  Call(<< Loop(<< Quietly(<< Race(Read(socket), "throw") >>), When(GotNothing, << Break >>) >>) >>)

-----------------------------------------------------------------------------
\* src/src/worker/livestatus.ts

BufferedReader_readExact_livestatus(socket) ==
  Call(<< Loop(<< Race(Read(socket), "throw"), When(GotNothing, << Break >>) >>) >>)

sendQuery ==
  Call(<< checkIfCloudflare, MayThrow, Connect("sendQuery.socket"),
          Try(
              << Race(Opened("sendQuery.socket"), "throw"), GetWriter("sendQuery.socket"),
                 GetReader("sendQuery.socket"), Write("sendQuery.socket"),
                 BufferedReader_readExact_livestatus("sendQuery.socket"),
                 Maybe(<< Finish("sendQuery.socket"), FreeWriter("sendQuery.socket"),
                          FreeReader("sendQuery.socket"), CloseQuietly("sendQuery.socket"), Throw >>),
                 Maybe(<< Finish("sendQuery.socket"), FreeWriter("sendQuery.socket"),
                          FreeReader("sendQuery.socket"), CloseQuietly("sendQuery.socket"), Return >>),
                 Maybe(<< BufferedReader_readExact_livestatus("sendQuery.socket") >>),
                 Finish("sendQuery.socket"), FreeWriter("sendQuery.socket"), FreeReader("sendQuery.socket"),
                 CloseQuietly("sendQuery.socket"), Return >>,
              << CloseQuietly("sendQuery.socket"), Throw >>) >>)

-----------------------------------------------------------------------------
\* src/src/worker/llmnr.ts

readAtLeast_llmnr(socket) ==
  Call(<< Loop(<< Race(Read(socket), "end"), When(GotNothing, << Break >>) >>) >>)

queryOneName(socket) ==
  << MayReturn,
     Try(<< Connect(socket), Race(Opened(socket), "throw"), GetWriter(socket), GetReader(socket), Write(socket),
            Quietly(<< RaceTask(<< readAtLeast_llmnr(socket) >>, "throw") >>),
            FreeReaderQuietly(socket), FreeWriterQuietly(socket), CloseQuietly(socket), Return >>,
         << Return >>) >>

-----------------------------------------------------------------------------
\* src/src/worker/modbus.ts

readModbusResponse(socket) ==
  Call(<< Task("readPromise", << Forever(<< Read(socket), When(GotEnd, << Break >>), MayReturn >>) >>),
          Race(Join("readPromise"), "throw") >>)

-----------------------------------------------------------------------------
\* src/src/worker/munin.ts

readMuninResponse(socket) ==
  Call(<< Task("readPromise", << Forever(<< Read(socket), When(GotEnd, << Break >>), MayBreak >>) >>),
          Race(Join("readPromise"), "null") >>)

readBanner(socket) ==
  Call(<< readMuninResponse(socket) >>)

sendCommand_munin(socket) ==
  Call(<< Write(socket), readMuninResponse(socket) >>)

-----------------------------------------------------------------------------
\* src/src/worker/nbd.ts

readExportList(socket) ==
  Call(<< Quietly(<< Loop(<< Loop(<< Race(Read(socket), "throw"), When(GotNothing, << Return >>) >>),
                             MayReturn,
                             Loop(<< Race(Read(socket), "throw"), When(GotNothing, << Return >>) >>),
                             MayReturn, Maybe(<< Either(<< Break >>, << MayReturn >>) >>) >>) >>) >>)

-----------------------------------------------------------------------------
\* src/src/worker/netbios.ts

readSessionPacket(socket) ==
  Call(<< Task("readPromise",
               << Loop(<< Read(socket), When(GotNothing, << Throw >>) >>), MayThrow,
                  Loop(<< Read(socket), When(GotNothing, << Throw >>) >>) >>),
          Race(Join("readPromise"), "throw") >>)

-----------------------------------------------------------------------------
\* src/src/worker/nsca.ts

aesCbcEncrypt ==
  Call(<< Await, Await >>)

-----------------------------------------------------------------------------
\* src/src/worker/openflow.ts

readMessage_openflow(socket) ==
  Call(<< Forever(<< Race(Read(socket), "throw"), When(GotEnd, << Return >>), When(GotData, << MayReturn >>),
                     MayReturn >>) >>)

-----------------------------------------------------------------------------
\* src/src/worker/portmapper.ts

readRpcResponse(socket) ==
  Call(<< Loop(<< Race(Read(socket), "throw"), When(GotNothing, << Throw >>) >>), MayThrow,
          Loop(<< Race(Read(socket), "throw"), When(GotNothing, << Break >>), MayBreak >>) >>)

-----------------------------------------------------------------------------
\* src/src/worker/relp.ts

readRelpResponse(socket) ==
  Call(<< Task("readPromise",
               << Forever(<< Read(socket), When(GotEnd, << Break >>), MayThrow, MayReturn >>) >>),
          Race(Join("readPromise"), "throw") >>)

readAllRelpResponses(socket) ==
  Call(<< Task("readPromise", << Forever(<< Read(socket), When(GotEnd, << Break >>), MayThrow >>) >>),
          Quietly(<< Race(Join("readPromise"), "throw") >>) >>)

-----------------------------------------------------------------------------
\* src/src/worker/slp.ts

readResponse_slp(socket) ==
  Call(<< Race(Read(socket), "null"), If(GotNull, << Throw >>, << When(GotEnd, << Throw >>) >>),
          Maybe(<< Loop(<< Race(Read(socket), "null"),
                           If(GotNull, << Break >>, << When(GotEnd, << Break >>) >>) >>) >>) >>)

-----------------------------------------------------------------------------
\* src/src/worker/snmp.ts

readSNMPResponse(socket) ==
  Call(<< Forever(<< MayBreak, Race(Read(socket), "end"), When(GotNothing, << Break >>),
                     Maybe(<< Maybe(<< MayThrow, MayContinue >>), MayThrow >>), MayBreak >>),
          MayReturn >>)

localizeKey ==
  Call(<< Maybe(<< Await >>), MayReturn, Await >>)

hmacDigest ==
  Call(<< MayReturn, Await, Await >>)

-----------------------------------------------------------------------------
\* src/src/worker/whois.ts

doWhoisQuery ==
  Call(<< Connect("doWhoisQuery.socket"), Race(Opened("doWhoisQuery.socket"), "throw"),
          GetWriter("doWhoisQuery.socket"), GetReader("doWhoisQuery.socket"),
          TryFinally(<< Write("doWhoisQuery.socket"),
                        Loop(<< Try(<< Race(Read("doWhoisQuery.socket"), "throw") >>, << Break >>),
                                When(GotNothing, << Break >>) >>),
                        Return >>,
                     << FreeReaderQuietly("doWhoisQuery.socket"), FreeWriterQuietly("doWhoisQuery.socket"),
                        CloseQuietly("doWhoisQuery.socket") >>) >>)

-----------------------------------------------------------------------------
\* src/src/worker/zabbix.ts

readZabbixResponse(socket) ==
  Call(<< Try(
              << Loop(<< Race(Read(socket), "throw"), When(GotEnd, << Break >>),
                         When(GotData, << MayBreak >>) >>) >>,
              << MayThrow >>) >>)

=============================================================================
