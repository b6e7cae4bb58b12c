--------------------------- MODULE AccessHandlers ---------------------------
(* The one-shot handlers of the catalogue's "Network" protocols that       *)
(* authenticate, look up a directory, or relay and tunnel connections.     *)
EXTENDS AccessCalls

-----------------------------------------------------------------------------
\* src/src/worker/diameter.ts

handleDiameterConnect ==
  << MayReturn,
     Try(
         << Await, MayReturn, checkIfCloudflare, MayReturn,
            Task("connectionPromise",
                 << Connect("socket"), Opened("socket"), GetReader("socket"), GetWriter("socket"),
                    Try(
                        << Write("socket"), readDiameterMessage("socket"), Write("socket"),
                           FreeWriter("socket"), Quietly(<< readDiameterMessage("socket") >>),
                           FreeReader("socket"), Close("socket"), Return >>,
                        << FreeReader("socket"), FreeWriter("socket"), Close("socket"), Throw >>) >>),
            Try(<< Race(Join("connectionPromise"), "throw"), Return >>, << Return >>) >>,
         << Return >>) >>

handleDiameterWatchdog ==
  << MayReturn,
     Try(
         << Await, MayReturn, checkIfCloudflare, MayReturn,
            Task("connectionPromise",
                 << Connect("socket"), Opened("socket"), GetReader("socket"), GetWriter("socket"),
                    Try(
                        << Write("socket"), readDiameterMessage("socket"), Write("socket"),
                           readDiameterMessage("socket"), FreeWriter("socket"), FreeReader("socket"),
                           Close("socket"), Return >>,
                        << FreeReader("socket"), FreeWriter("socket"), Close("socket"), Throw >>) >>),
            Try(<< Race(Join("connectionPromise"), "throw"), Return >>, << Return >>) >>,
         << Return >>) >>

handleDiameterACR ==
  << MayReturn,
     Try(
         << Await, MayReturn, checkIfCloudflare, MayReturn,
            Task("connectionPromise",
                 << Connect("socket"), Opened("socket"), GetReader("socket"), GetWriter("socket"),
                    Try(
                        << Write("socket"), readDiameterMessage("socket"), Write("socket"),
                           readDiameterMessage("socket"), FreeWriter("socket"), FreeReader("socket"),
                           Close("socket"), Return >>,
                        << FreeReader("socket"), FreeWriter("socket"), Close("socket"), Throw >>) >>),
            Try(<< Race(Join("connectionPromise"), "throw"), Return >>, << Return >>) >>,
         << Return >>) >>

handleDiameterAuth ==
  << MayReturn,
     Try(
         << Await, MayReturn, checkIfCloudflare, MayReturn,
            Task("connectionPromise",
                 << Connect("socket"), Opened("socket"), GetReader("socket"), GetWriter("socket"),
                    Try(
                        << Write("socket"), readDiameterMessage("socket"), Write("socket"),
                           Quietly(<< readDiameterMessage("socket") >>), FreeWriter("socket"),
                           FreeReader("socket"), Close("socket"), Return >>,
                        << FreeReader("socket"), FreeWriter("socket"), Close("socket"), Throw >>) >>),
            Try(<< Race(Join("connectionPromise"), "throw"), Return >>, << Return >>) >>,
         << Return >>) >>

handleDiameterSTR ==
  << MayReturn,
     Try(
         << Await, MayReturn, checkIfCloudflare, MayReturn,
            Task("connectionPromise",
                 << Connect("socket"), Opened("socket"), GetReader("socket"), GetWriter("socket"),
                    Try(
                        << Write("socket"), readDiameterMessage("socket"), Write("socket"),
                           Quietly(<< readDiameterMessage("socket") >>), FreeWriter("socket"),
                           FreeReader("socket"), Close("socket"), Return >>,
                        << FreeReader("socket"), FreeWriter("socket"), Close("socket"), Throw >>) >>),
            Try(<< Race(Join("connectionPromise"), "throw"), Return >>, << Return >>) >>,
         << Return >>) >>

-----------------------------------------------------------------------------
\* src/src/worker/epp.ts

handleEPPDomainInfo ==
  << MayReturn,
     Try(
         << Await, MayReturn, checkIfCloudflare, MayReturn, openEPPSession("socket"),
            Try(
                << Write("socket"), readEPPFrame("socket"), closeEPPSession("socket"), Return >>,
                << closeEPPSession("socket"), Throw >>) >>,
         << Return >>) >>

handleEPPDomainCreate ==
  << MayReturn,
     Try(
         << Await, MayReturn, checkIfCloudflare, MayReturn, openEPPSession("socket"),
            Try(
                << Write("socket"), readEPPFrame("socket"), closeEPPSession("socket"), Return >>,
                << closeEPPSession("socket"), Throw >>) >>,
         << Return >>) >>

handleEPPDomainUpdate ==
  << MayReturn, Try(<< Await >>, << Return >>), MayReturn, checkIfCloudflare, MayReturn,
     Try(
         << openEPPSession("socket"),
            Try(
                << Write("socket"), readEPPFrame("socket"), closeEPPSession("socket"), Return >>,
                << closeEPPSession("socket"), Throw >>) >>,
         << Return >>) >>

handleEPPDomainDelete ==
  << MayReturn, Try(<< Await >>, << Return >>), MayReturn, checkIfCloudflare, MayReturn,
     Try(
         << openEPPSession("socket"),
            Try(
                << Write("socket"), readEPPFrame("socket"), closeEPPSession("socket"), Return >>,
                << closeEPPSession("socket"), Throw >>) >>,
         << Return >>) >>

handleEPPDomainRenew ==
  << MayReturn, Try(<< Await >>, << Return >>), MayReturn, checkIfCloudflare, MayReturn,
     Try(
         << openEPPSession("socket"),
            Try(
                << Write("socket"), readEPPFrame("socket"), closeEPPSession("socket"), Return >>,
                << closeEPPSession("socket"), Throw >>) >>,
         << Return >>) >>

-----------------------------------------------------------------------------
\* src/src/worker/httpproxy.ts

handleHTTPProxyProbe ==
  << Try(
         << Either(<< Await >>, << MayThrow >>), MayReturn, checkIfCloudflare, MayReturn, checkIfCloudflare,
            MayReturn,
            Task("connectionPromise",
                 << Connect("socket"), Opened("socket"), GetReader("socket"), GetWriter("socket"),
                    Try(
                        << Write("socket"),
                           Loop(<< Race(Read("socket"), "end"), When(GotNothing, << Break >>), MayBreak >>),
                           FreeWriterQuietly("socket"), FreeReaderQuietly("socket"), CloseQuietly("socket"),
                           MayThrow, Return >>,
                        << FreeReader("socket"), FreeWriter("socket"), CloseQuietly("socket"), Throw >>) >>),
            Try(<< Race(Join("connectionPromise"), "throw"), Return >>, << Return >>) >>,
         << Return >>) >>

handleHTTPProxyConnect ==
  << Try(
         << MayReturn, Await, MayReturn, checkIfCloudflare, MayReturn, checkIfCloudflare, MayReturn,
            Task("connectionPromise",
                 << Connect("socket"), Opened("socket"), GetReader("socket"), GetWriter("socket"),
                    Try(
                        << MayReturn, Write("socket"),
                           Loop(<< Race(Read("socket"), "end"), When(GotNothing, << Break >>), MayBreak >>),
                           FreeWriterQuietly("socket"), FreeReaderQuietly("socket"), CloseQuietly("socket"),
                           MayThrow, Return >>,
                        << FreeReader("socket"), FreeWriter("socket"), CloseQuietly("socket"), Throw >>) >>),
            Try(<< Race(Join("connectionPromise"), "throw"), Return >>, << Return >>) >>,
         << Return >>) >>

-----------------------------------------------------------------------------
\* src/src/worker/ike.ts

handleIKEProbe ==
  << Try(
         << Await, MayReturn, checkIfCloudflare, MayReturn, Connect("handleIKEProbe.socket"),
            Try(
                << Race(Opened("handleIKEProbe.socket"), "throw"), GetWriter("handleIKEProbe.socket"),
                   Write("handleIKEProbe.socket"), FreeWriter("handleIKEProbe.socket"),
                   GetReader("handleIKEProbe.socket"), Race(Read("handleIKEProbe.socket"), "throw"),
                   When(GotNothing,
                        << FreeReader("handleIKEProbe.socket"), CloseQuietly("handleIKEProbe.socket"),
                           Return >>),
                   Maybe(<< FreeReader("handleIKEProbe.socket"), CloseQuietly("handleIKEProbe.socket"),
                            Return >>),
                   FreeReader("handleIKEProbe.socket"), CloseQuietly("handleIKEProbe.socket"), Return >>,
                << CloseQuietly("handleIKEProbe.socket"), Throw >>) >>,
         << Return >>) >>

handleIKEv2SA ==
  << Try(
         << Await, MayReturn, checkIfCloudflare, MayReturn, Connect("handleIKEv2SA.socket"),
            Try(
                << Race(Opened("handleIKEv2SA.socket"), "throw"), GetWriter("handleIKEv2SA.socket"),
                   Write("handleIKEv2SA.socket"), FreeWriter("handleIKEv2SA.socket"),
                   GetReader("handleIKEv2SA.socket"),
                   Loop(<< MayBreak, Race(Read("handleIKEv2SA.socket"), "end"),
                           When(GotNothing, << Break >>) >>),
                   FreeReader("handleIKEv2SA.socket"), CloseQuietly("handleIKEv2SA.socket"), MayReturn,
                   MayThrow, Return >>,
                << CloseQuietly("handleIKEv2SA.socket"), Throw >>) >>,
         << Return >>) >>

handleIKEVersionDetect ==
  << Try(
         << Await, MayReturn, Task("handleIKEProbe1", << Call(handleIKEProbe) >>),
            Task("handleIKEv2SA2", << Call(handleIKEv2SA) >>), JoinAll({"handleIKEProbe1", "handleIKEv2SA2"}),
            Await, Await, Return >>,
         << Return >>) >>

-----------------------------------------------------------------------------
\* src/src/worker/kerberos.ts

handleKerberosUserEnum ==
  << MayReturn,
     Try(
         << Await, MayReturn, checkIfCloudflare, MayReturn,
            Loop(<< Quietly(<< sendKerberosRequest, MayContinue, MayThrow >>) >>), Return >>,
         << Return >>) >>

handleKerberosSPNCheck ==
  << MayReturn,
     Try(
         << Await, MayReturn, checkIfCloudflare, MayReturn, sendKerberosRequest, MayReturn, MayThrow,
            Return >>,
         << Return >>) >>

handleKerberosConnect ==
  << Try(
         << Await, MayReturn, checkIfCloudflare, MayReturn, Connect("socket"),
            Race(Opened("socket"), "throw"), GetWriter("socket"), GetReader("socket"), Write("socket"),
            Quietly(<< Race(Read("socket"), "throw") >>), FreeWriter("socket"), FreeReader("socket"),
            CloseQuietly("socket"), Maybe(<< MayThrow, Return >>), Return >>,
         << Return >>) >>

-----------------------------------------------------------------------------
\* src/src/worker/l2tp.ts

handleL2TPConnect ==
  << Try(
         << Await, MayReturn, checkIfCloudflare, MayReturn, Connect("socket"),
            Try(
                << Race(Opened("socket"), "throw"), GetWriter("socket"), Write("socket"),
                   FreeWriter("socket"), GetReader("socket"), Race(Read("socket"), "throw"),
                   When(GotNothing, << FreeReader("socket"), CloseQuietly("socket"), Return >>),
                   Maybe(<< FreeReader("socket"), CloseQuietly("socket"), Return >>), FreeReader("socket"),
                   CloseQuietly("socket"), MayReturn, Return >>,
                << CloseQuietly("socket"), Throw >>) >>,
         << Return >>) >>

handleL2TPHello ==
  << Try(
         << Await, MayReturn, checkIfCloudflare, MayReturn, Connect("socket"),
            Try(
                << Race(Opened("socket"), "throw"), GetWriter("socket"), Write("socket"),
                   FreeWriter("socket"), GetReader("socket"), Race(Read("socket"), "throw"),
                   FreeReader("socket"), CloseQuietly("socket"), Return >>,
                << CloseQuietly("socket"), Throw >>) >>,
         << Return >>) >>

handleL2TPSession ==
  << Try(
         << Await, MayReturn, checkIfCloudflare, MayReturn,
            Task("work",
                 << Connect("socket"), Opened("socket"), GetReader("socket"), GetWriter("socket"),
                    Try(
                        << Write("socket"),
                           Forever(<< Race(Read("socket"), "throw"), When(GotNothing, << Throw >>),
                                      MayBreak >>),
                           MayThrow, Write("socket"),
                           Quietly(<< Forever(<< Race(Read("socket"), "throw"), When(GotNothing, << Throw >>),
                                                 MayBreak >>) >>),
                           Write("socket"),
                           Forever(<< Race(Read("socket"), "throw"), When(GotNothing, << Throw >>),
                                      MayBreak >>),
                           MayThrow, Write("socket"), FreeWriter("socket"), FreeReader("socket"),
                           CloseQuietly("socket"), Return >>,
                        << FreeWriterQuietly("socket"), FreeReaderQuietly("socket"), CloseQuietly("socket"),
                           Throw >>) >>),
            Race(Join("work"), "throw"), Return >>,
         << Return >>) >>

handleL2TPStartControl ==
  << Try(
         << Await, MayReturn, checkIfCloudflare, MayReturn,
            Task("work",
                 << Connect("socket"), Opened("socket"), GetReader("socket"), GetWriter("socket"),
                    Try(
                        << Write("socket"), FreeWriter("socket"),
                           Loop(<< Read("socket"), When(GotNothing, << Break >>), MayBreak >>),
                           FreeReader("socket"), CloseQuietly("socket"), MayThrow, Return >>,
                        << FreeWriterQuietly("socket"), FreeReaderQuietly("socket"), CloseQuietly("socket"),
                           Throw >>) >>),
            Race(Join("work"), "throw"), Return >>,
         << Return >>) >>

-----------------------------------------------------------------------------
\* src/src/worker/ldap.ts

handleLDAPConnect ==
  << Try(
         << MayReturn, Await, MayReturn, checkIfCloudflare, MayReturn,
            Task("connectionPromise",
                 << Connect("socket"), Opened("socket"), GetReader("socket"), GetWriter("socket"),
                    Try(
                        << Write("socket"), Read("socket"), If(GotData, << MayThrow >>, << Throw >>),
                           Close("socket"), Return >>,
                        << Close("socket"), Throw >>) >>),
            Try(<< Race(Join("connectionPromise"), "throw"), MayReturn, Return >>, << Return >>) >>,
         << Return >>) >>

handleLDAPSearch ==
  << Try(
         << MayReturn, Await, MayReturn, checkIfCloudflare, MayReturn,
            Task("work",
                 << ldapBindOnSocket("socket"),
                    Try(
                        << Write("socket"), readLDAPSearchData_ldap("socket"), Write("socket"),
                           FreeWriter("socket"), FreeReader("socket"), Close("socket"), Return >>,
                        << FreeWriterQuietly("socket"), FreeReaderQuietly("socket"), CloseQuietly("socket"),
                           Throw >>) >>),
            Race(Join("work"), "throw"), Return >>,
         << Return >>) >>

handleLDAPAdd ==
  << Try(
         << MayReturn, Await, MayReturn, checkIfCloudflare, MayReturn,
            Task("work",
                 << ldapBindOnSocket("socket"),
                    Try(
                        << Write("socket"), readLDAPData("socket"), Write("socket"), FreeWriter("socket"),
                           FreeReader("socket"), Close("socket"), Return >>,
                        << FreeWriterQuietly("socket"), FreeReaderQuietly("socket"), CloseQuietly("socket"),
                           Throw >>) >>),
            Race(Join("work"), "throw"), Return >>,
         << Return >>) >>

handleLDAPModify ==
  << Try(
         << MayReturn, Await, MayReturn, checkIfCloudflare, MayReturn,
            Task("work",
                 << ldapBindOnSocket("socket"),
                    Try(
                        << Write("socket"), readLDAPData("socket"), Write("socket"), FreeWriter("socket"),
                           FreeReader("socket"), Close("socket"), Return >>,
                        << FreeWriterQuietly("socket"), FreeReaderQuietly("socket"), CloseQuietly("socket"),
                           Throw >>) >>),
            Race(Join("work"), "throw"), Return >>,
         << Return >>) >>

handleLDAPDelete ==
  << Try(
         << MayReturn, Await, MayReturn, checkIfCloudflare, MayReturn,
            Task("work",
                 << ldapBindOnSocket("socket"),
                    Try(
                        << Write("socket"), readLDAPData("socket"), Write("socket"), FreeWriter("socket"),
                           FreeReader("socket"), Close("socket"), Return >>,
                        << FreeWriterQuietly("socket"), FreeReaderQuietly("socket"), CloseQuietly("socket"),
                           Throw >>) >>),
            Race(Join("work"), "throw"), Return >>,
         << Return >>) >>

handleLDAPPagedSearch ==
  << Try(
         << MayReturn, Await, MayReturn, checkIfCloudflare, MayReturn,
            Task("work",
                 << ldapBindOnSocket("socket"),
                    Try(
                        << Write("socket"), readLDAPSearchData_ldap("socket"), Write("socket"),
                           FreeWriter("socket"), FreeReader("socket"), Close("socket"), Return >>,
                        << FreeWriterQuietly("socket"), FreeReaderQuietly("socket"), CloseQuietly("socket"),
                           Throw >>) >>),
            Race(Join("work"), "throw"), Return >>,
         << Return >>) >>

-----------------------------------------------------------------------------
\* src/src/worker/ldaps.ts

handleLDAPSConnect ==
  << Try(
         << MayReturn, Await, MayReturn, checkIfCloudflare, MayReturn,
            Task("connectionPromise",
                 << Connect("socket"), Opened("socket"), GetReader("socket"), GetWriter("socket"),
                    Try(
                        << Write("socket"), readLDAPResponse("socket"),
                           Maybe(<< Quietly(<< Write("socket") >>) >>), FreeWriter("socket"),
                           FreeReader("socket"), Close("socket"), Return >>,
                        << FreeReader("socket"), FreeWriter("socket"), Close("socket"), Throw >>) >>),
            Try(<< Race(Join("connectionPromise"), "throw"), MayReturn, Return >>, << Return >>) >>,
         << Return >>) >>

handleLDAPSAdd ==
  << Try(
         << MayReturn, Await, MayReturn, checkIfCloudflare, MayReturn,
            Task("work",
                 << ldapsTLSBind("socket"),
                    Try(
                        << Write("socket"), readLDAPResponse("socket"), Write("socket"), FreeWriter("socket"),
                           FreeReader("socket"), Close("socket"), Return >>,
                        << FreeWriterQuietly("socket"), FreeReaderQuietly("socket"), CloseQuietly("socket"),
                           Throw >>) >>),
            Race(Join("work"), "throw"), Return >>,
         << Return >>) >>

handleLDAPSModify ==
  << Try(
         << MayReturn, Await, MayReturn, checkIfCloudflare, MayReturn,
            Task("work",
                 << ldapsTLSBind("socket"),
                    Try(
                        << Write("socket"), readLDAPResponse("socket"), Write("socket"), FreeWriter("socket"),
                           FreeReader("socket"), Close("socket"), Return >>,
                        << FreeWriterQuietly("socket"), FreeReaderQuietly("socket"), CloseQuietly("socket"),
                           Throw >>) >>),
            Race(Join("work"), "throw"), Return >>,
         << Return >>) >>

handleLDAPSDelete ==
  << Try(
         << MayReturn, Await, MayReturn, checkIfCloudflare, MayReturn,
            Task("work",
                 << ldapsTLSBind("socket"),
                    Try(
                        << Write("socket"), readLDAPResponse("socket"), Write("socket"), FreeWriter("socket"),
                           FreeReader("socket"), Close("socket"), Return >>,
                        << FreeWriterQuietly("socket"), FreeReaderQuietly("socket"), CloseQuietly("socket"),
                           Throw >>) >>),
            Race(Join("work"), "throw"), Return >>,
         << Return >>) >>

handleLDAPSSearch ==
  << Try(
         << MayReturn, Await, MayReturn, checkIfCloudflare, MayReturn,
            Task("searchPromise",
                 << ldapsTLSBind("socket"),
                    Try(
                        << Write("socket"), readLDAPSearchData_ldaps("socket"), Write("socket"),
                           FreeWriter("socket"), FreeReader("socket"), Close("socket"), Return >>,
                        << FreeWriterQuietly("socket"), FreeReaderQuietly("socket"), CloseQuietly("socket"),
                           Throw >>) >>),
            Try(<< Race(Join("searchPromise"), "throw"), Return >>, << Return >>) >>,
         << Return >>) >>

handleLDAPSPagedSearch ==
  << Try(
         << MayReturn, Await, MayReturn, checkIfCloudflare, MayReturn,
            Task("work",
                 << ldapsTLSBind("socket"),
                    Try(
                        << Write("socket"), readLDAPSearchData_ldaps("socket"), Write("socket"),
                           FreeWriter("socket"), FreeReader("socket"), Close("socket"), Return >>,
                        << FreeWriterQuietly("socket"), FreeReaderQuietly("socket"), CloseQuietly("socket"),
                           Throw >>) >>),
            Race(Join("work"), "throw"), Return >>,
         << Return >>) >>

-----------------------------------------------------------------------------
\* src/src/worker/openvpn.ts

handleOpenVPNHandshake ==
  << Try(
         << Await, MayReturn, checkIfCloudflare, MayReturn,
            Task("handshakePromise",
                 << Connect("socket"), Opened("socket"), GetWriter("socket"), GetReader("socket"),
                    Try(
                        << Write("socket"), Loop(<< Read("socket"), When(GotEnd, << Break >>), MayBreak >>),
                           Close("socket"), MayReturn, Return >>,
                        << Close("socket"), Throw >>) >>),
            Race(Join("handshakePromise"), "throw"), Return >>,
         << MayReturn, Return >>) >>

handleOpenVPNTLSHandshake ==
  << Try(
         << Await, MayReturn, checkIfCloudflare, MayReturn,
            Task("work",
                 << Connect("socket"), Opened("socket"), GetWriter("socket"), GetReader("socket"),
                    Try(
                        << Write("socket"), handleOpenVPNTLSHandshake_readPacket("socket"), MayThrow,
                           Write("socket"),
                           Loop(<< handleOpenVPNTLSHandshake_readPacket("socket"), MayBreak >>),
                           FreeWriter("socket"), FreeReader("socket"), CloseQuietly("socket"), Return >>,
                        << FreeWriterQuietly("socket"), FreeReaderQuietly("socket"), CloseQuietly("socket"),
                           Throw >>) >>),
            Race(Join("work"), "throw"), Return >>,
         << Return >>) >>

-----------------------------------------------------------------------------
\* src/src/worker/pptp.ts

handlePPTPConnect ==
  << Try(
         << Await, MayReturn, checkIfCloudflare, MayReturn,
            Task("connectionPromise",
                 << Connect("socket"), Opened("socket"), GetReader("socket"), GetWriter("socket"),
                    Try(
                        << Write("socket"), BufferedReader_readExact_buffered_reader_2("socket"), MayThrow,
                           FreeWriter("socket"), FreeReader("socket"), CloseQuietly("socket"), Return >>,
                        << FreeWriter("socket"), FreeReader("socket"), CloseQuietly("socket"), Throw >>) >>),
            Race(Join("connectionPromise"), "throw"), Return >>,
         << Return >>) >>

handlePPTPStartControl ==
  << Try(
         << Await, MayReturn, checkIfCloudflare, MayReturn,
            Task("work",
                 << Connect("socket"), Opened("socket"), GetReader("socket"), GetWriter("socket"),
                    Try(
                        << Write("socket"), FreeWriter("socket"),
                           BufferedReader_readExact_buffered_reader_2("socket"), FreeReader("socket"),
                           CloseQuietly("socket"), MayThrow, Return >>,
                        << FreeWriterQuietly("socket"), FreeReaderQuietly("socket"), CloseQuietly("socket"),
                           Throw >>) >>),
            Race(Join("work"), "throw"), Return >>,
         << Return >>) >>

handlePPTPCallSetup ==
  << Try(
         << Await, MayReturn, checkIfCloudflare, MayReturn,
            Task("work",
                 << Connect("socket"), Opened("socket"), GetReader("socket"), GetWriter("socket"),
                    Try(
                        << Write("socket"), BufferedReader_readExact_buffered_reader_2("socket"), MayThrow,
                           Write("socket"), BufferedReader_readExact_buffered_reader_2("socket"), MayThrow,
                           FreeWriter("socket"), FreeReader("socket"), CloseQuietly("socket"), Return >>,
                        << FreeWriterQuietly("socket"), FreeReaderQuietly("socket"), CloseQuietly("socket"),
                           Throw >>) >>),
            Race(Join("work"), "throw"), Return >>,
         << Return >>) >>

-----------------------------------------------------------------------------
\* src/src/worker/radius.ts

handleRadiusProbe ==
  << MayReturn,
     Try(
         << Await, MayReturn, checkIfCloudflare, MayReturn,
            Task("probePromise",
                 << Connect("socket"), Opened("socket"),
                    Try(
                        << GetWriter("socket"), GetReader("socket"), Write("socket"),
                           readExactBytes_radius("socket"), Maybe(<< readExactBytes_radius_2("socket") >>),
                           MayThrow, FreeWriter("socket"), FreeReader("socket"), Close("socket"), Return >>,
                        << CloseQuietly("socket"), Throw >>) >>),
            Race(Join("probePromise"), "throw"), Return >>,
         << Return >>) >>

handleRadiusAuth ==
  << MayReturn,
     Try(
         << Await, MayReturn, checkIfCloudflare, MayReturn,
            Task("authPromise",
                 << Connect("socket"), Opened("socket"),
                    Try(
                        << GetWriter("socket"), GetReader("socket"), Write("socket"),
                           readExactBytes_radius("socket"), Maybe(<< readExactBytes_radius_2("socket") >>),
                           MayThrow, FreeWriter("socket"), FreeReader("socket"), Close("socket"), Return >>,
                        << CloseQuietly("socket"), Throw >>) >>),
            Race(Join("authPromise"), "throw"), Return >>,
         << Return >>) >>

handleRadiusAccounting ==
  << MayReturn,
     Try(
         << Await, MayReturn, checkIfCloudflare, MayReturn,
            Task("work",
                 << Connect("socket"), Opened("socket"),
                    Try(
                        << GetWriter("socket"), GetReader("socket"), Write("socket"),
                           readExactBytes_radius("socket"), Maybe(<< readExactBytes_radius_2("socket") >>),
                           MayThrow, FreeWriter("socket"), FreeReader("socket"), Close("socket"), Return >>,
                        << CloseQuietly("socket"), Throw >>) >>),
            Race(Join("work"), "throw"), Return >>,
         << Return >>) >>

-----------------------------------------------------------------------------
\* src/src/worker/radsec.ts

handleRadsecAuth ==
  << Try(
         << MayReturn, Await, MayReturn, checkIfCloudflare, MayReturn, encodeAccessRequest, Connect("socket"),
            Try(
                << Race(Opened("socket"), "throw"), GetWriter("socket"), GetReader("socket"), Write("socket"),
                   FreeWriter("socket"),
                   Try(
                       << Forever(<< Race(Read("socket"), "throw"), When(GotEnd, << Break >>),
                                     When(GotData, << MayBreak >>) >>) >>,
                       << MayThrow >>),
                   FreeReader("socket"), CloseQuietly("socket"), MayReturn, validateResponseAuthenticator,
                   MayReturn, Return >>,
                << CloseQuietly("socket"), Throw >>) >>,
         << Return >>) >>

handleRadsecConnect ==
  << Try(
         << MayReturn, Await, MayReturn, checkIfCloudflare, MayReturn, Connect("socket"),
            Try(
                << Race(Opened("socket"), "throw"), CloseQuietly("socket"), Return >>,
                << CloseQuietly("socket"), Throw >>) >>,
         << Return >>) >>

handleRadsecAccounting ==
  << MayReturn,
     Try(
         << Await, MayReturn, checkIfCloudflare, MayReturn, encodeAccountingRequest, Connect("socket"),
            Try(
                << Race(Opened("socket"), "throw"), GetWriter("socket"), GetReader("socket"), Write("socket"),
                   FreeWriter("socket"),
                   Try(
                       << Forever(<< Race(Read("socket"), "throw"), When(GotEnd, << Break >>),
                                     When(GotData, << MayBreak >>) >>) >>,
                       << MayThrow >>),
                   FreeReader("socket"), CloseQuietly("socket"), MayReturn, Return >>,
                << CloseQuietly("socket"), Throw >>) >>,
         << Return >>) >>

-----------------------------------------------------------------------------
\* src/src/worker/shadowsocks.ts

handleShadowsocksProbe ==
  << MayReturn,
     Try(
         << Await, MayReturn, checkIfCloudflare, MayReturn,
            Task("probePromise",
                 << Connect("socket"),
                    Try(
                        << Race(Opened("socket"), "throw"), GetReader("socket"), Race(Read("socket"), "end"),
                           FreeReader("socket"), Close("socket"), Return >>,
                        << Close("socket"), Throw >>) >>),
            Race(Join("probePromise"), "throw"), Return >>,
         << MayReturn, Return >>) >>

-----------------------------------------------------------------------------
\* src/src/worker/socks4.ts

handleSocks4Connect ==
  << MayReturn,
     Try(
         << Await, MayReturn, checkIfCloudflare, MayReturn, Connect("socket"),
            Try(
                << Race(Opened("socket"), "throw"), GetWriter("socket"), GetReader("socket"), Write("socket"),
                   Race(Read("socket"), "throw"), If(GotData, << MayThrow >>, << Throw >>), MayThrow,
                   FreeWriter("socket"), FreeReader("socket"), CloseQuietly("socket"), Return >>,
                << CloseQuietly("socket"), Throw >>) >>,
         << Return >>) >>

handleSOCKS4Connect ==
  << MayReturn,
     Try(
         << Await, MayReturn, checkIfCloudflare, MayReturn, Connect("socket"),
            Race(Opened("socket"), "throw"), GetWriter("socket"), GetReader("socket"),
            Try(
                << Write("socket"), readExactly_socks4("socket"), MayThrow,
                   Maybe(<< Quietly(<< Write("socket"),
                                       Task("httpReadPromise",
                                            << Loop(<< Read("socket"), When(GotNothing, << Break >>),
                                                       MayBreak >>) >>),
                                       Race(Join("httpReadPromise"), "null") >>) >>),
                   FreeWriter("socket"), FreeReader("socket"), CloseQuietly("socket"), Return >>,
                << FreeWriterQuietly("socket"), FreeReaderQuietly("socket"), CloseQuietly("socket"), Throw >>) >>,
         << Return >>) >>

-----------------------------------------------------------------------------
\* src/src/worker/socks5.ts

handleSocks5Connect ==
  << Try(
         << MayReturn, Await, MayReturn, checkIfCloudflare, MayReturn, checkIfCloudflare, MayReturn,
            Task("connectionPromise",
                 << Connect("socket"), Opened("socket"),
                    Try(
                        << GetWriter("socket"), GetReader("socket"), Write("socket"), Read("socket"),
                           If(GotData, << MayThrow >>, << Throw >>), MayThrow,
                           Maybe(<< MayThrow, Write("socket"), Read("socket"),
                                    If(GotData, << MayThrow >>, << Throw >>), MayThrow >>),
                           Write("socket"), Read("socket"), If(GotData, << MayThrow >>, << Throw >>),
                           MayThrow, FreeWriter("socket"), FreeReader("socket"), Close("socket"), Return >>,
                        << CloseQuietly("socket"), Throw >>) >>),
            Race(Join("connectionPromise"), "throw"), Return >>,
         << Return >>) >>

handleSocks5Relay ==
  << MayReturn,
     Try(
         << Await, MayReturn, checkIfCloudflare, MayReturn, checkIfCloudflare, MayReturn,
            Task("work",
                 << Connect("socket"), Opened("socket"), GetReader("socket"), GetWriter("socket"),
                    Try(
                        << Write("socket"), Loop(<< Read("socket"), When(GotNothing, << Throw >>) >>),
                           MayThrow,
                           Maybe(<< Write("socket"),
                                    Loop(<< Read("socket"), When(GotNothing, << Throw >>) >>), MayThrow >>),
                           Write("socket"), Loop(<< Read("socket"), When(GotNothing, << Throw >>) >>),
                           MayThrow,
                           Either(<< Loop(<< Read("socket"), When(GotNothing, << Throw >>) >>) >>,
                                  << Either(<< Loop(<< Read("socket"), When(GotNothing, << Throw >>) >>),
                                               Loop(<< Read("socket"), When(GotNothing, << Throw >>) >>) >>,
                                            << Maybe(<< Loop(
                                                            << Read("socket"),
                                                               When(GotNothing, << Throw >>) >>) >>) >>) >>),
                           Write("socket"),
                           Loop(<< Race(Read("socket"), "end"), When(GotNothing, << Break >>) >>),
                           FreeWriter("socket"), FreeReader("socket"), CloseQuietly("socket"), Return >>,
                        << FreeWriterQuietly("socket"), FreeReaderQuietly("socket"), CloseQuietly("socket"),
                           Throw >>) >>),
            Race(Join("work"), "throw"), Return >>,
         << Return >>) >>

-----------------------------------------------------------------------------
\* src/src/worker/stun.ts

handleStunBinding ==
  << MayReturn,
     Try(
         << Await, MayReturn, checkIfCloudflare, MayReturn,
            Task("connectionPromise",
                 << Connect("socket"), Opened("socket"), GetReader("socket"), GetWriter("socket"),
                    Try(
                        << Write("socket"), readStunMessage("socket"), FreeWriter("socket"),
                           FreeReader("socket"), Close("socket"), Return >>,
                        << FreeReader("socket"), FreeWriter("socket"), Close("socket"), Throw >>) >>),
            Try(<< Race(Join("connectionPromise"), "throw"), Return >>, << Return >>) >>,
         << Return >>) >>

handleStunProbe ==
  << MayReturn,
     Try(
         << Await, MayReturn, checkIfCloudflare, MayReturn,
            Task("connectionPromise",
                 << Connect("socket"), Opened("socket"), GetReader("socket"), GetWriter("socket"),
                    Try(
                        << Write("socket"), readStunMessage("socket"), FreeWriter("socket"),
                           FreeReader("socket"), Close("socket"), Return >>,
                        << FreeReader("socket"), FreeWriter("socket"), Close("socket"), Throw >>) >>),
            Try(<< Race(Join("connectionPromise"), "throw"), Return >>, << Return >>) >>,
         << Return >>) >>

-----------------------------------------------------------------------------
\* src/src/worker/tacacs.ts

handleTacacsProbe ==
  << MayReturn,
     Try(
         << Await, MayReturn, checkIfCloudflare, MayReturn,
            Task("probePromise",
                 << Connect("socket"), Opened("socket"),
                    Try(
                        << GetWriter("socket"), GetReader("socket"), Write("socket"),
                           readExactBytes_tacacs("socket"), MayThrow,
                           Maybe(<< readExactBytes_tacacs_2("socket") >>), FreeWriterQuietly("socket"),
                           FreeReaderQuietly("socket"), CloseQuietly("socket"), Return >>,
                        << CloseQuietly("socket"), Throw >>) >>),
            Race(Join("probePromise"), "throw"), Return >>,
         << Return >>) >>

handleTacacsAuthenticate ==
  << MayReturn,
     Try(
         << Await, MayReturn, checkIfCloudflare, MayReturn,
            Task("authPromise",
                 << Connect("socket"), Opened("socket"),
                    Try(
                        << GetWriter("socket"), GetReader("socket"), Write("socket"),
                           readExactBytes_tacacs("socket"), MayThrow,
                           Maybe(<< readExactBytes_tacacs_2("socket") >>),
                           Maybe(<< Write("socket"), readExactBytes_tacacs("socket"), MayThrow,
                                    Maybe(<< readExactBytes_tacacs_2("socket") >>) >>),
                           FreeWriterQuietly("socket"), FreeReaderQuietly("socket"), CloseQuietly("socket"),
                           Return >>,
                        << CloseQuietly("socket"), Throw >>) >>),
            Race(Join("authPromise"), "throw"), Return >>,
         << Return >>) >>

-----------------------------------------------------------------------------
\* src/src/worker/torcontrol.ts

handleTorControlProbe ==
  << MayReturn,
     Try(
         << Await, MayReturn, checkIfCloudflare, MayReturn,
            Task("connectionPromise",
                 << Connect("socket"), Opened("socket"), GetReader("socket"), GetWriter("socket"),
                    Try(
                        << sendTorCommand("socket"), Write("socket"), FreeWriter("socket"),
                           FreeReader("socket"), Close("socket"), Return >>,
                        << FreeReader("socket"), FreeWriter("socket"), Close("socket"), Throw >>) >>),
            Try(<< Race(Join("connectionPromise"), "throw"), Return >>, << Return >>) >>,
         << Return >>) >>

handleTorControlSignal ==
  << MayReturn,
     Try(
         << Await, MayReturn, checkIfCloudflare, MayReturn,
            Task("connectionPromise",
                 << Connect("socket"), Opened("socket"), GetReader("socket"), GetWriter("socket"),
                    Try(
                        << sendTorCommand("socket"),
                           Maybe(<< Write("socket"), FreeWriter("socket"), FreeReader("socket"),
                                    Close("socket"), Return >>),
                           Maybe(<< Quietly(<< sendTorCommand("socket") >>),
                                    Quietly(<< sendTorCommand("socket") >>) >>),
                           sendTorCommand("socket"), Maybe(<< Quietly(<< sendTorCommand("socket") >>) >>),
                           Write("socket"), FreeWriter("socket"), FreeReader("socket"), Close("socket"),
                           Return >>,
                        << FreeReader("socket"), FreeWriter("socket"), Close("socket"), Throw >>) >>),
            Try(<< Race(Join("connectionPromise"), "throw"), Return >>, << Return >>) >>,
         << Return >>) >>

handleTorControlGetInfo ==
  << MayReturn,
     Try(
         << Await, MayReturn, checkIfCloudflare, MayReturn,
            Task("connectionPromise",
                 << Connect("socket"), Opened("socket"), GetReader("socket"), GetWriter("socket"),
                    Try(
                        << sendTorCommand("socket"),
                           Maybe(<< Write("socket"), FreeWriter("socket"), FreeReader("socket"),
                                    Close("socket"), Return >>),
                           sendTorCommand("socket"), Write("socket"), FreeWriter("socket"),
                           FreeReader("socket"), Close("socket"), Return >>,
                        << FreeReader("socket"), FreeWriter("socket"), Close("socket"), Throw >>) >>),
            Try(<< Race(Join("connectionPromise"), "throw"), Return >>, << Return >>) >>,
         << Return >>) >>

-----------------------------------------------------------------------------
\* src/src/worker/turn.ts

handleTURNAllocate ==
  << MayReturn,
     Try(
         << Await, MayReturn, checkIfCloudflare, MayReturn, Connect("handleTURNAllocate.socket"),
            Try(
                << Race(Opened("handleTURNAllocate.socket"), "throw"),
                   GetWriter("handleTURNAllocate.socket"), Write("handleTURNAllocate.socket"),
                   FreeWriter("handleTURNAllocate.socket"), GetReader("handleTURNAllocate.socket"),
                   Race(Read("handleTURNAllocate.socket"), "throw"),
                   When(GotNothing,
                        << FreeReader("handleTURNAllocate.socket"),
                           CloseQuietly("handleTURNAllocate.socket"), Return >>),
                   Maybe(<< FreeReader("handleTURNAllocate.socket"),
                            CloseQuietly("handleTURNAllocate.socket"), Return >>),
                   FreeReader("handleTURNAllocate.socket"), CloseQuietly("handleTURNAllocate.socket"),
                   MayReturn, Return >>,
                << CloseQuietly("handleTURNAllocate.socket"), Throw >>) >>,
         << Return >>) >>

handleTURNPermission ==
  << MayReturn,
     Try(
         << Await, MayReturn, checkIfCloudflare, MayReturn, Connect("socket"),
            Try(
                << Race(Opened("socket"), "throw"), GetWriter("socket"), GetReader("socket"), Write("socket"),
                   Call(<< Forever(<< Race(Read("socket"), "throw"), When(GotNothing, << Return >>),
                                      MayReturn >>) >>),
                   Maybe(<< FreeWriter("socket"), FreeReader("socket"), CloseQuietly("socket"), Return >>),
                   Maybe(<< FreeWriter("socket"), FreeReader("socket"), CloseQuietly("socket"), Return >>),
                   Either(<< Maybe(<< FreeWriter("socket"), FreeReader("socket"), CloseQuietly("socket"),
                                      Return >>),
                             appendMessageIntegrity, Write("socket"),
                             Call(<< Forever(<< Race(Read("socket"), "throw"), When(GotNothing, << Return >>),
                                                MayReturn >>) >>),
                             Maybe(<< FreeWriter("socket"), FreeReader("socket"), CloseQuietly("socket"),
                                      Return >>),
                             Maybe(<< FreeWriter("socket"), FreeReader("socket"), CloseQuietly("socket"),
                                      Return >>),
                             Maybe(<< FreeWriter("socket"), FreeReader("socket"), CloseQuietly("socket"),
                                      Return >>),
                             appendMessageIntegrity, Write("socket"),
                             Call(<< Forever(<< Race(Read("socket"), "throw"), When(GotNothing, << Return >>),
                                                MayReturn >>) >>),
                             FreeWriter("socket"), FreeReader("socket"), CloseQuietly("socket"), Return >>,
                          << FreeWriter("socket"), FreeReader("socket"), CloseQuietly("socket"), Return >>) >>,
                << CloseQuietly("socket"), Throw >>) >>,
         << Return >>) >>

handleTURNProbe ==
  << MayReturn, Try(<< Await, Call(handleTURNAllocate), Return >>, << Return >>) >>

-----------------------------------------------------------------------------
AccessProgram ==
  [handleDiameterConnect |-> handleDiameterConnect,
   handleDiameterWatchdog |-> handleDiameterWatchdog,
   handleDiameterACR |-> handleDiameterACR,
   handleDiameterAuth |-> handleDiameterAuth,
   handleDiameterSTR |-> handleDiameterSTR,
   handleEPPDomainInfo |-> handleEPPDomainInfo,
   handleEPPDomainCreate |-> handleEPPDomainCreate,
   handleEPPDomainUpdate |-> handleEPPDomainUpdate,
   handleEPPDomainDelete |-> handleEPPDomainDelete,
   handleEPPDomainRenew |-> handleEPPDomainRenew,
   handleHTTPProxyProbe |-> handleHTTPProxyProbe,
   handleHTTPProxyConnect |-> handleHTTPProxyConnect,
   handleIKEProbe |-> handleIKEProbe,
   handleIKEVersionDetect |-> handleIKEVersionDetect,
   handleIKEv2SA |-> handleIKEv2SA,
   handleKerberosUserEnum |-> handleKerberosUserEnum,
   handleKerberosSPNCheck |-> handleKerberosSPNCheck,
   handleKerberosConnect |-> handleKerberosConnect,
   handleL2TPConnect |-> handleL2TPConnect,
   handleL2TPHello |-> handleL2TPHello,
   handleL2TPSession |-> handleL2TPSession,
   handleL2TPStartControl |-> handleL2TPStartControl,
   handleLDAPConnect |-> handleLDAPConnect,
   handleLDAPSearch |-> handleLDAPSearch,
   handleLDAPAdd |-> handleLDAPAdd,
   handleLDAPModify |-> handleLDAPModify,
   handleLDAPDelete |-> handleLDAPDelete,
   handleLDAPPagedSearch |-> handleLDAPPagedSearch,
   handleLDAPSConnect |-> handleLDAPSConnect,
   handleLDAPSAdd |-> handleLDAPSAdd,
   handleLDAPSModify |-> handleLDAPSModify,
   handleLDAPSDelete |-> handleLDAPSDelete,
   handleLDAPSSearch |-> handleLDAPSSearch,
   handleLDAPSPagedSearch |-> handleLDAPSPagedSearch,
   handleOpenVPNHandshake |-> handleOpenVPNHandshake,
   handleOpenVPNTLSHandshake |-> handleOpenVPNTLSHandshake,
   handlePPTPConnect |-> handlePPTPConnect,
   handlePPTPStartControl |-> handlePPTPStartControl,
   handlePPTPCallSetup |-> handlePPTPCallSetup,
   handleRadiusProbe |-> handleRadiusProbe,
   handleRadiusAuth |-> handleRadiusAuth,
   handleRadiusAccounting |-> handleRadiusAccounting,
   handleRadsecAuth |-> handleRadsecAuth,
   handleRadsecConnect |-> handleRadsecConnect,
   handleRadsecAccounting |-> handleRadsecAccounting,
   handleShadowsocksProbe |-> handleShadowsocksProbe,
   handleSocks4Connect |-> handleSocks4Connect,
   handleSOCKS4Connect |-> handleSOCKS4Connect,
   handleSocks5Connect |-> handleSocks5Connect,
   handleSocks5Relay |-> handleSocks5Relay,
   handleStunBinding |-> handleStunBinding,
   handleStunProbe |-> handleStunProbe,
   handleTacacsProbe |-> handleTacacsProbe,
   handleTacacsAuthenticate |-> handleTacacsAuthenticate,
   handleTorControlProbe |-> handleTorControlProbe,
   handleTorControlSignal |-> handleTorControlSignal,
   handleTorControlGetInfo |-> handleTorControlGetInfo,
   handleTURNAllocate |-> handleTURNAllocate,
   handleTURNPermission |-> handleTURNPermission,
   handleTURNProbe |-> handleTURNProbe]

=============================================================================
