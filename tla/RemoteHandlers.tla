--------------------------- MODULE RemoteHandlers ---------------------------
(* The one-shot handlers of the catalogue's "Remote Access" protocols.     *)
EXTENDS RemoteCalls

-----------------------------------------------------------------------------
\* src/src/worker/rdp.ts

handleRDPNegotiate ==
  << Try(
         << Await, MayReturn, checkIfCloudflare, MayReturn,
            Task("negotiatePromise",
                 << Connect("socket"), Opened("socket"), GetReader("socket"), GetWriter("socket"),
                    Try(
                        << Write("socket"), BufferedReader_readExact_buffered_reader_2("socket"), MayThrow,
                           BufferedReader_readExact_buffered_reader_2("socket"), MayThrow,
                           FreeWriter("socket"), FreeReader("socket"), CloseQuietly("socket"), Return >>,
                        << FreeWriter("socket"), FreeReader("socket"), CloseQuietly("socket"), Throw >>) >>),
            Race(Join("negotiatePromise"), "throw"), Return >>,
         << Return >>) >>

handleRDPConnect ==
  << Try(
         << Await, MayReturn, checkIfCloudflare, MayReturn,
            Task("connectionPromise",
                 << Connect("socket"), Opened("socket"), GetReader("socket"), GetWriter("socket"),
                    Try(
                        << Write("socket"), BufferedReader_readExact_buffered_reader_2("socket"), MayThrow,
                           BufferedReader_readExact_buffered_reader_2("socket"), MayThrow,
                           FreeWriter("socket"), FreeReader("socket"), CloseQuietly("socket"), Return >>,
                        << FreeWriter("socket"), FreeReader("socket"), CloseQuietly("socket"), Throw >>) >>),
            Race(Join("connectionPromise"), "throw"), Return >>,
         << Return >>) >>

handleRDPNLAProbe ==
  << Try(
         << Await, MayReturn, checkIfCloudflare, MayReturn,
            Task("probePromise",
                 << Connect("socket"), Race(Opened("socket"), "throw"), GetReader("socket"),
                    GetWriter("socket"),
                    Try(
                        << Write("socket"), BufferedReader_readExact_buffered_reader_2("socket"), MayThrow,
                           BufferedReader_readExact_buffered_reader_2("socket"), MayThrow,
                           FreeReader("socket"), FreeWriter("socket"),
                           Maybe(<< CloseQuietly("socket"), Return >>), StartTls("socket"),
                           GetReader("socket"), GetWriter("socket"),
                           Maybe(<< FreeReader("socket"), FreeWriter("socket"), CloseQuietly("socket"),
                                    Return >>),
                           Write("socket"),
                           Loop(<< Race(Read("socket"), "null"),
                                   If(GotNull, << Break >>, << When(GotNothing, << Break >>) >>), MayBreak >>),
                           FreeReader("socket"), FreeWriter("socket"), CloseQuietly("socket"), MayReturn,
                           Return >>,
                        << FreeReaderQuietly("socket"), FreeWriterQuietly("socket"), CloseQuietly("socket"),
                           Throw >>) >>),
            Race(Join("probePromise"), "throw"), Return >>,
         << Return >>) >>

-----------------------------------------------------------------------------
\* src/src/worker/rexec.ts

handleRexecExecute ==
  << Try(
         << Either(<< Await >>, << MayThrow >>), MayReturn, checkIfCloudflare, MayReturn,
            Task("connectionPromise",
                 << Connect("socket"), Opened("socket"), GetReader("socket"), GetWriter("socket"),
                    Try(
                        << Write("socket"), Write("socket"), Write("socket"), Write("socket"),
                           Race(Read("socket"), "throw"), When(GotNothing, << Throw >>),
                           Maybe(<< Quietly(<< Loop(<< Race(Read("socket"), "end"),
                                                       When(GotNothing, << Break >>) >>) >>) >>),
                           FreeWriter("socket"), FreeReader("socket"), CloseQuietly("socket"), Return >>,
                        << FreeReader("socket"), FreeWriter("socket"), CloseQuietly("socket"), Throw >>) >>),
            Try(<< Race(Join("connectionPromise"), "throw"), Return >>, << Return >>) >>,
         << Return >>) >>

-----------------------------------------------------------------------------
\* src/src/worker/rlogin.ts

handleRloginConnect ==
  << Try(
         << Either(<< Await >>, << MayThrow >>), MayReturn, checkIfCloudflare, MayReturn,
            Task("connectionPromise",
                 << Connect("socket"), Opened("socket"), GetReader("socket"), GetWriter("socket"),
                    Try(
                        << Write("socket"), Write("socket"), Race(Read("socket"), "throw"),
                           When(GotNothing, << Throw >>), Quietly(<< Race(Read("socket"), "end") >>),
                           FreeWriter("socket"), FreeReader("socket"), CloseQuietly("socket"), Return >>,
                        << FreeReader("socket"), FreeWriter("socket"), CloseQuietly("socket"), Throw >>) >>),
            Try(<< Race(Join("connectionPromise"), "throw"), Return >>, << Return >>) >>,
         << Return >>) >>

handleRloginBanner ==
  << Try(
         << MayReturn, Await, MayReturn, checkIfCloudflare, MayReturn, Connect("socket"),
            Task("connectionPromise",
                 << Opened("socket"), GetWriter("socket"), GetReader("socket"),
                    Try(
                        << Write("socket"), Race(Read("socket"), "end"), FreeWriter("socket"),
                           FreeReader("socket"), CloseQuietly("socket"), Return >>,
                        << FreeWriterQuietly("socket"), FreeReaderQuietly("socket"), CloseQuietly("socket"),
                           Throw >>) >>),
            Try(<< Race(Join("connectionPromise"), "throw"), Return >>, << Return >>) >>,
         << Return >>) >>

-----------------------------------------------------------------------------
\* src/src/worker/rsh.ts

handleRshExecute ==
  << Try(
         << Either(<< Await >>, << MayThrow >>), MayReturn, checkIfCloudflare, MayReturn,
            Task("connectionPromise",
                 << Connect("socket"), Opened("socket"), GetReader("socket"), GetWriter("socket"),
                    Try(
                        << Write("socket"), Write("socket"), Write("socket"), Write("socket"),
                           Race(Read("socket"), "throw"), When(GotNothing, << Throw >>),
                           Maybe(<< Quietly(<< Loop(<< Race(Read("socket"), "end"),
                                                       When(GotNothing, << Break >>) >>) >>) >>),
                           FreeWriter("socket"), FreeReader("socket"), CloseQuietly("socket"), Return >>,
                        << FreeReader("socket"), FreeWriter("socket"), CloseQuietly("socket"), Throw >>) >>),
            Try(<< Race(Join("connectionPromise"), "throw"), Return >>, << Return >>) >>,
         << Return >>) >>

handleRshProbe ==
  << Try(
         << Maybe(<< Await >>), MayThrow, MayReturn, checkIfCloudflare, MayReturn,
            Try(
                << Connect("socket"), Race(Opened("socket"), "throw"), GetWriter("socket"),
                   GetReader("socket"), Write("socket"), Write("socket"), Write("socket"), Write("socket"),
                   Quietly(<< Race(Read("socket"), "throw") >>), FreeReader("socket"), FreeWriter("socket"),
                   CloseQuietly("socket"), Return >>,
                << Return >>) >>,
         << Return >>) >>

(* The pairs are tried at once; two of them stand for any number.           *)
handleRshTrustScan ==
  << MayReturn,
     Try(<< Await, MayReturn, checkIfCloudflare, MayReturn,
            Task("tryPair1", tryPair("socket1")), Task("tryPair2", tryPair("socket2")),
            Race(JoinAll({"tryPair1", "tryPair2"}), "throw"), Return >>,
         << Return >>) >>

-----------------------------------------------------------------------------
\* src/src/worker/spice.ts

handleSPICEConnect ==
  << MayReturn,
     Try(
         << Await, MayReturn, checkIfCloudflare, MayReturn, Connect("handleSPICEConnect.socket"),
            Try(
                << Race(Opened("handleSPICEConnect.socket"), "throw") >>,
                << CloseQuietly("handleSPICEConnect.socket"), Return >>),
            GetWriter("handleSPICEConnect.socket"), GetReader("handleSPICEConnect.socket"),
            TryFinally(<< Write("handleSPICEConnect.socket"),
                          readAtLeast_spice("handleSPICEConnect.socket"), MayReturn,
                          Write("handleSPICEConnect.socket"),
                          readAtLeast_spice("handleSPICEConnect.socket"), Return >>,
                       << FreeReaderQuietly("handleSPICEConnect.socket"),
                          FreeWriterQuietly("handleSPICEConnect.socket"),
                          CloseQuietly("handleSPICEConnect.socket") >>) >>,
         << Return >>) >>

handleSPICEChannels ==
  << MayReturn, Call(handleSPICEConnect), Return >>

-----------------------------------------------------------------------------
\* src/src/worker/ssh.ts

handleSSHExecute ==
  << MayReturn,
     Try(
         << Await, MayReturn, checkIfCloudflare, MayReturn, Connect("socket"),
            Race(Opened("socket"), "throw"), openSSHSubsystem("socket"),
            Forever(<< MayThrow, RaceTask(<< openSSHSubsystem_readChannelData("socket") >>, "null"), MayBreak,
                       MayThrow >>),
            openSSHSubsystem_close("socket"), Return >>,
         << Maybe(<< openSSHSubsystem_close_2("socket") >>),
            When(HasSocket("socket"), << CloseQuietly("socket") >>), Return >>) >>

handleSSHDisconnect ==
  << Return >>

handleSSHKeyExchange ==
  << MayReturn,
     Try(
         << Await, MayReturn, checkIfCloudflare, MayReturn, Connect("socket"),
            Race(Opened("socket"), "throw"), GetReader("socket"), GetWriter("socket"),
            readSSHBanner("socket"), Write("socket"), Write("socket"), readSSHPacket("socket"), MayThrow,
            FreeReaderQuietly("socket"), FreeWriterQuietly("socket"), Close("socket"), Return >>,
         << Quietly(<< When(HasReader("socket"), << FreeReader("socket") >>) >>),
            Quietly(<< When(HasWriter("socket"), << FreeWriter("socket") >>) >>),
            When(HasSocket("socket"), << CloseQuietly("socket") >>), Return >>) >>

handleSSHAuth ==
  << MayReturn,
     Try(
         << Await, MayReturn, checkIfCloudflare, MayReturn, Connect("socket"),
            Race(Opened("socket"), "throw"), GetReader("socket"), GetWriter("socket"),
            readSSHBanner("socket"), Write("socket"), Write("socket"), readSSHPacket("socket"), MayThrow,
            Write("socket"), readSSHPacket("socket"), MayThrow, Write("socket"), readSSHPacket("socket"),
            FreeReaderQuietly("socket"), FreeWriterQuietly("socket"), Close("socket"), Return >>,
         << Quietly(<< When(HasReader("socket"), << FreeReader("socket") >>) >>),
            Quietly(<< When(HasWriter("socket"), << FreeWriter("socket") >>) >>),
            When(HasSocket("socket"), << CloseQuietly("socket") >>), Return >>) >>

-----------------------------------------------------------------------------
\* src/src/worker/telnet.ts

handleTelnetConnect ==
  << Try(
         << MayThrow, Maybe(<< Await >>), MayReturn, checkIfCloudflare, MayReturn,
            Task("connectionPromise",
                 << Connect("socket"), Opened("socket"), GetReader("socket"),
                    Try(
                        << Loop(<< Race(Read("socket"), "null"),
                                   Either(<< Break >>, << When(GotNothing, << Break >>) >>), MayBreak >>),
                           Close("socket"), Return >>,
                        << Close("socket"), Return >>) >>),
            Try(<< Race(Join("connectionPromise"), "throw"), Return >>, << Return >>) >>,
         << Return >>) >>

handleTelnetNegotiate ==
  << Try(
         << Await, MayReturn, checkIfCloudflare, MayReturn,
            Task("negotiatePromise",
                 << Connect("socket"), Opened("socket"), GetReader("socket"), GetWriter("socket"),
                    Loop(<< Race(Read("socket"), "null"), MayBreak >>), Maybe(<< Write("socket") >>),
                    FreeWriter("socket"), FreeReader("socket"), Close("socket") >>),
            Race(Join("negotiatePromise"), "throw"), Return >>,
         << Return >>) >>

handleTelnetLogin ==
  << MayReturn, Try(<< Await >>, << Return >>), MayReturn, checkIfCloudflare, MayReturn,
     Try(
         << Connect("socket"), Race(Opened("socket"), "throw"), GetReader("socket"), GetWriter("socket"),
            TryFinally(<< handleTelnetLogin_readUntilPrompt("socket"), Write("socket"),
                          handleTelnetLogin_readUntilPrompt("socket"), Write("socket"),
                          handleTelnetLogin_readUntilPrompt("socket"), Return >>,
                       << FreeReader("socket"), FreeWriter("socket"), Close("socket") >>) >>,
         << Return >>) >>

-----------------------------------------------------------------------------
\* src/src/worker/vnc.ts

handleVNCAuth ==
  << MayReturn,
     Try(
         << Await, MayReturn, checkIfCloudflare, MayReturn,
            Task("authPromise",
                 << Connect("socket"), Opened("socket"), GetReader("socket"), GetWriter("socket"),
                    Try(
                        << RaceTask(<< BufferedReader_readExact_vnc("socket") >>, "throw"), MayThrow,
                           Write("socket"),
                           Either(<< RaceTask(<< BufferedReader_readExact_vnc("socket") >>, "throw"),
                                     Maybe(<< RaceTask(<< BufferedReader_readExact_vnc("socket") >>, "throw"),
                                              RaceTask(<< BufferedReader_readExact_vnc("socket") >>, "throw"),
                                              Throw >>),
                                     RaceTask(<< BufferedReader_readExact_vnc("socket") >>, "throw") >>,
                                  << RaceTask(<< BufferedReader_readExact_vnc("socket") >>, "throw"),
                                     MayThrow >>),
                           MayThrow, Maybe(<< Write("socket") >>),
                           RaceTask(<< BufferedReader_readExact_vnc("socket") >>, "throw"), Write("socket"),
                           RaceTask(<< BufferedReader_readExact_vnc("socket") >>, "throw"),
                           Maybe(<< Quietly(<< RaceTask(<< BufferedReader_readExact_vnc("socket") >>, "throw"),
                                               Maybe(<< RaceTask(
                                                            << BufferedReader_readExact_vnc("socket") >>,
                                                            "throw") >>) >>) >>),
                           FreeWriter("socket"), BufferedReader_releaseLock_vnc("socket"),
                           CloseQuietly("socket"), Return >>,
                        << FreeWriter("socket"), BufferedReader_releaseLock_vnc("socket"),
                           CloseQuietly("socket"), Throw >>) >>),
            Join("authPromise"), Return >>,
         << Return >>) >>

handleVNCConnect ==
  << MayReturn,
     Try(
         << Await, MayReturn, checkIfCloudflare, MayReturn,
            Task("connectionPromise",
                 << Connect("socket"), Opened("socket"), GetReader("socket"), GetWriter("socket"),
                    Try(
                        << BufferedReader_readExact_vnc("socket"), MayThrow, Write("socket"),
                           Either(<< BufferedReader_readExact_vnc("socket"),
                                     Either(<< BufferedReader_readExact_vnc("socket"),
                                               BufferedReader_readExact_vnc("socket") >>,
                                            << BufferedReader_readExact_vnc("socket") >>) >>,
                                  << BufferedReader_readExact_vnc("socket"),
                                     Maybe(<< BufferedReader_readExact_vnc("socket"),
                                              BufferedReader_readExact_vnc("socket") >>) >>),
                           FreeWriter("socket"), BufferedReader_releaseLock_vnc("socket"),
                           CloseQuietly("socket"), Return >>,
                        << FreeWriter("socket"), BufferedReader_releaseLock_vnc("socket"),
                           CloseQuietly("socket"), Throw >>) >>),
            Race(Join("connectionPromise"), "throw"), Return >>,
         << Return >>) >>

-----------------------------------------------------------------------------
\* src/src/worker/winrm.ts

handleWinRMIdentify ==
  << MayReturn, Try(<< Await >>, << Return >>), MayReturn,
     Quietly(<< checkIfCloudflare, MayReturn, sendHttpRequest_winrm,
                Maybe(<< Either(<< Quietly(<< sendHttpRequest_winrm >>) >>,
                                << Maybe(<< Quietly(<< sendHttpRequest_winrm >>) >>) >>) >>) >>),
     Return >>

handleWinRMExec ==
  << MayReturn, Try(<< Await >>, << Return >>), MayReturn, checkIfCloudflare, MayReturn,
     Try(
         << winrmFetch, MayReturn, winrmFetch, MayReturn, Loop(<< winrmFetch, MayBreak >>),
            Quietly(<< winrmFetch >>), Quietly(<< winrmFetch >>), Return >>,
         << Maybe(<< Quietly(<< Maybe(<< winrmFetch >>), winrmFetch >>) >>), Return >>) >>

handleWinRMAuth ==
  << MayReturn, Try(<< Await >>, << Return >>), MayReturn,
     Try(<< checkIfCloudflare, MayReturn, sendHttpRequest_winrm_2, Return >>, << Return >>) >>

-----------------------------------------------------------------------------
\* src/src/worker/x11.ts

handleX11QueryTree ==
  << MayReturn,
     Try(
         << Await, MayReturn, checkIfCloudflare, MayReturn, Connect("socket"),
            Try(
                << Race(Opened("socket"), "throw"), GetReader("socket"), GetWriter("socket"), Write("socket"),
                   BufferedReader_readExact_buffered_reader("socket"),
                   Maybe(<< FreeReader("socket"), FreeWriter("socket"), CloseQuietly("socket"), Return >>),
                   Maybe(<< BufferedReader_readExact_buffered_reader("socket") >>),
                   Maybe(<< FreeReader("socket"), FreeWriter("socket"), CloseQuietly("socket"), Return >>),
                   Write("socket"), Write("socket"), Quietly(<< readX11Reply("socket") >>),
                   Quietly(<< readX11Reply("socket") >>), Loop(<< Write("socket") >>),
                   Loop(<< Quietly(<< readX11Reply("socket") >>) >>), FreeReader("socket"),
                   FreeWriter("socket"), CloseQuietly("socket"), Return >>,
                << CloseQuietly("socket"), Throw >>) >>,
         << Return >>) >>

handleX11Connect ==
  << MayReturn,
     Try(
         << Await, MayReturn, checkIfCloudflare, MayReturn, Connect("socket"),
            Try(
                << Race(Opened("socket"), "throw"), GetReader("socket"), GetWriter("socket"), Write("socket"),
                   BufferedReader_readExact_buffered_reader("socket"),
                   Either(<< MayThrow, Maybe(<< BufferedReader_readExact_buffered_reader("socket") >>),
                             FreeReader("socket"), FreeWriter("socket"), CloseQuietly("socket"), Return >>,
                          << Either(<< Maybe(<< BufferedReader_readExact_buffered_reader("socket") >>),
                                       FreeReader("socket"), FreeWriter("socket"), CloseQuietly("socket"),
                                       Return >>,
                                    << FreeReader("socket"), FreeWriter("socket"), CloseQuietly("socket"),
                                       Return >>) >>) >>,
                << CloseQuietly("socket"), Throw >>) >>,
         << Return >>) >>

-----------------------------------------------------------------------------
RemoteProgram ==
  [handleRDPNegotiate |-> handleRDPNegotiate,
   handleRDPConnect |-> handleRDPConnect,
   handleRDPNLAProbe |-> handleRDPNLAProbe,
   handleRexecExecute |-> handleRexecExecute,
   handleRloginConnect |-> handleRloginConnect,
   handleRloginBanner |-> handleRloginBanner,
   handleRshExecute |-> handleRshExecute,
   handleRshProbe |-> handleRshProbe,
   handleRshTrustScan |-> handleRshTrustScan,
   handleSPICEConnect |-> handleSPICEConnect,
   handleSPICEChannels |-> handleSPICEChannels,
   handleSSHExecute |-> handleSSHExecute,
   handleSSHDisconnect |-> handleSSHDisconnect,
   handleSSHKeyExchange |-> handleSSHKeyExchange,
   handleSSHAuth |-> handleSSHAuth,
   handleTelnetConnect |-> handleTelnetConnect,
   handleTelnetNegotiate |-> handleTelnetNegotiate,
   handleTelnetLogin |-> handleTelnetLogin,
   handleVNCAuth |-> handleVNCAuth,
   handleVNCConnect |-> handleVNCConnect,
   handleWinRMIdentify |-> handleWinRMIdentify,
   handleWinRMExec |-> handleWinRMExec,
   handleWinRMAuth |-> handleWinRMAuth,
   handleX11QueryTree |-> handleX11QueryTree,
   handleX11Connect |-> handleX11Connect]

=============================================================================
