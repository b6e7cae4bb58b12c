---------------------------- MODULE FileHandlers ----------------------------
(* The one-shot handlers of the catalogue's "File Transfer" protocols.     *)
EXTENDS FileCalls

-----------------------------------------------------------------------------
\* src/src/worker/afp.ts

handleAFPConnect ==
  << MayReturn,
     Try(
         << Await, validateBase, MayReturn, Connect("socket"),
            Try(<< Race(Opened("socket"), "throw") >>, << CloseQuietly("socket"), Throw >>),
            GetWriter("socket"), GetReader("socket"),
            TryFinally(<< Write("socket"), readExact_afp("socket"), MayReturn,
                          Maybe(<< readExact_afp("socket") >>), Quietly(<< Write("socket") >>), Return >>,
                       << FreeReader("socket"), FreeWriter("socket"), Close("socket") >>) >>,
         << Return >>) >>

handleAFPLogin ==
  << MayReturn,
     Try(
         << Await, validateBase, MayReturn,
            TryFinally(<< AFPSession_connect("socket"), AFPSession_openSession("socket"),
                          AFPSession_login("socket"), AFPSession_listVolumes("socket"),
                          AFPSession_logout("socket"), Return >>,
                       << AFPSession_close("socket") >>) >>,
         << Return >>) >>

handleAFPListDir ==
  << MayReturn,
     Try(
         << Await, validateBase, MayReturn,
            TryFinally(<< AFPSession_connect("socket"), AFPSession_openSession("socket"),
                          AFPSession_login("socket"), AFPSession_openVolume("socket"),
                          AFPSession_listDir("socket"), AFPSession_closeVolume("socket"),
                          AFPSession_logout("socket"), Return >>,
                       << AFPSession_close("socket") >>) >>,
         << Return >>) >>

handleAFPGetInfo ==
  << MayReturn,
     Try(
         << Await, validateBase, MayReturn,
            TryFinally(<< AFPSession_connect("socket"), AFPSession_openSession("socket"),
                          AFPSession_login("socket"), AFPSession_openVolume("socket"),
                          AFPSession_getInfo("socket"), AFPSession_closeVolume("socket"),
                          AFPSession_logout("socket"), Return >>,
                       << AFPSession_close("socket") >>) >>,
         << Return >>) >>

handleAFPCreateDir ==
  << MayReturn,
     Try(
         << Await, validateBase, MayReturn,
            TryFinally(<< AFPSession_connect("socket"), AFPSession_openSession("socket"),
                          AFPSession_login("socket"), AFPSession_openVolume("socket"),
                          AFPSession_createDir("socket"), AFPSession_closeVolume("socket"),
                          AFPSession_logout("socket"), Return >>,
                       << AFPSession_close("socket") >>) >>,
         << Return >>) >>

handleAFPCreateFile ==
  << MayReturn,
     Try(
         << Await, validateBase, MayReturn,
            TryFinally(<< AFPSession_connect("socket"), AFPSession_openSession("socket"),
                          AFPSession_login("socket"), AFPSession_openVolume("socket"),
                          AFPSession_createFile("socket"), AFPSession_closeVolume("socket"),
                          AFPSession_logout("socket"), Return >>,
                       << AFPSession_close("socket") >>) >>,
         << Return >>) >>

handleAFPDelete ==
  << MayReturn,
     Try(
         << Await, validateBase, MayReturn,
            TryFinally(<< AFPSession_connect("socket"), AFPSession_openSession("socket"),
                          AFPSession_login("socket"), AFPSession_openVolume("socket"),
                          AFPSession_delete("socket"), AFPSession_closeVolume("socket"),
                          AFPSession_logout("socket"), Return >>,
                       << AFPSession_close("socket") >>) >>,
         << Return >>) >>

handleAFPRename ==
  << MayReturn,
     Try(
         << Await, validateBase, MayReturn,
            TryFinally(<< AFPSession_connect("socket"), AFPSession_openSession("socket"),
                          AFPSession_login("socket"), AFPSession_openVolume("socket"),
                          AFPSession_rename("socket"), AFPSession_closeVolume("socket"),
                          AFPSession_logout("socket"), Return >>,
                       << AFPSession_close("socket") >>) >>,
         << Return >>) >>

handleAFPReadFile ==
  << MayReturn,
     Try(
         << Await, validateBase, MayReturn,
            TryFinally(<< AFPSession_connect("socket"), AFPSession_openSession("socket"),
                          AFPSession_login("socket"), AFPSession_openVolume("socket"),
                          AFPSession_readFile("socket"), AFPSession_closeVolume("socket"),
                          AFPSession_logout("socket"), Return >>,
                       << AFPSession_close("socket") >>) >>,
         << Return >>) >>

handleAFPGetServerInfo ==
  << MayReturn,
     Try(
         << Await, validateBase, MayReturn, Connect("socket"),
            Try(<< Race(Opened("socket"), "throw") >>, << CloseQuietly("socket"), Throw >>),
            GetWriter("socket"), GetReader("socket"),
            TryFinally(<< Write("socket"), readExact_afp("socket"), MayThrow,
                          Maybe(<< readExact_afp("socket") >>), Return >>,
                       << FreeReader("socket"), FreeWriter("socket"), Close("socket") >>) >>,
         << Return >>) >>

handleAFPOpenSession ==
  << MayReturn,
     Try(
         << Await, validateBase, MayReturn, Connect("socket"),
            Try(<< Race(Opened("socket"), "throw") >>, << CloseQuietly("socket"), Throw >>),
            GetWriter("socket"), GetReader("socket"),
            TryFinally(<< Write("socket"), readDSIResponse("socket"), MayThrow, Return >>,
                       << FreeReader("socket"), FreeWriter("socket"), Close("socket") >>) >>,
         << Return >>) >>

handleAFPWriteFile ==
  << MayReturn,
     Try(
         << Await, validateBase, MayReturn,
            TryFinally(<< AFPSession_connect("socket"), AFPSession_openSession("socket"),
                          AFPSession_login("socket"), AFPSession_openVolume("socket"), MayThrow,
                          AFPSession_writeFile("socket"), AFPSession_closeVolume("socket"),
                          AFPSession_logout("socket"), Return >>,
                       << AFPSession_close("socket") >>) >>,
         << Return >>) >>

handleAFPReadResourceFork ==
  << MayReturn,
     Try(
         << Await, validateBase, MayReturn,
            TryFinally(<< AFPSession_connect("socket"), AFPSession_openSession("socket"),
                          AFPSession_login("socket"), AFPSession_openVolume("socket"),
                          AFPSession_readResourceFork("socket"), AFPSession_closeVolume("socket"),
                          AFPSession_logout("socket"), Return >>,
                       << AFPSession_close("socket") >>) >>,
         << Return >>) >>

-----------------------------------------------------------------------------
\* src/src/worker/bittorrent.ts

handleBitTorrentHandshake ==
  << MayReturn,
     Try(
         << Await, MayReturn, checkIfCloudflare, MayReturn,
            Task("handshakePromise",
                 << Connect("socket"), Opened("socket"), GetWriter("socket"), GetReader("socket"),
                    Try(
                        << Write("socket"), Loop(<< Read("socket"), When(GotEnd, << Break >>) >>),
                           Close("socket"), MayReturn, Return >>,
                        << Close("socket"), Throw >>) >>),
            Race(Join("handshakePromise"), "throw"), Return >>,
         << MayReturn, Return >>) >>

handleBitTorrentPiece ==
  << MayReturn,
     Try(
         << Await, MayReturn, checkIfCloudflare, MayReturn,
            Task("work",
                 << Connect("socket"), Opened("socket"), GetReader("socket"), GetWriter("socket"),
                    Try(
                        << Write("socket"), Quietly(<< BufferedReader_readExact_buffered_reader("socket") >>),
                           Maybe(<< FreeWriter("socket"), FreeReader("socket"), CloseQuietly("socket"),
                                    Return >>),
                           Maybe(<< FreeWriter("socket"), FreeReader("socket"), CloseQuietly("socket"),
                                    Return >>),
                           Loop(<< Try(<< handleBitTorrentPiece_readPeerMessage("socket") >>, << Break >>),
                                   MayContinue, MayBreak >>),
                           Write("socket"),
                           Maybe(<< Loop(<< Try(
                                                << handleBitTorrentPiece_readPeerMessage("socket") >>,
                                                << Break >>),
                                            MayContinue, MayBreak >>) >>),
                           Maybe(<< Write("socket"),
                                    Quietly(<< handleBitTorrentPiece_readPeerMessage("socket") >>) >>),
                           FreeWriter("socket"), FreeReader("socket"), CloseQuietly("socket"), Return >>,
                        << FreeWriterQuietly("socket"), FreeReaderQuietly("socket"), CloseQuietly("socket"),
                           Throw >>) >>),
            Race(Join("work"), "throw"), Return >>,
         << MayReturn, Return >>) >>

handleBitTorrentScrape ==
  << MayReturn,
     Try(
         << Await, MayReturn, checkIfCloudflare, MayReturn, Await, MayReturn, Await, MayThrow, MayReturn,
            Return >>,
         << Return >>) >>

handleBitTorrentAnnounce ==
  << MayReturn,
     Try(
         << Await, MayReturn, checkIfCloudflare, MayReturn, Await, MayReturn, Await, MayThrow, MayReturn,
            Return >>,
         << Return >>) >>

-----------------------------------------------------------------------------
\* src/src/worker/cifs.ts

handleCIFSNegotiate ==
  << MayReturn,
     Try(
         << Await, MayReturn, checkIfCloudflare, MayReturn, Connect("socket"),
            Try(
                << Race(Opened("socket"), "throw"), GetWriter("socket"), GetReader("socket"), Write("socket"),
                   readSmb2Msg("socket"), FreeWriter("socket"), FreeReader("socket"), CloseQuietly("socket"),
                   MayReturn, MayThrow, Return >>,
                << CloseQuietly("socket"), Throw >>) >>,
         << Return >>) >>

handleCIFSAuth ==
  << MayReturn,
     Try(
         << Await, MayReturn, checkIfCloudflare, MayReturn, Connect("socket"),
            Try(
                << Race(Opened("socket"), "throw"), GetWriter("socket"), GetReader("socket"), Write("socket"),
                   readSmb2Msg("socket"), MayThrow, Write("socket"), readSmb2Msg("socket"), MayThrow,
                   Write("socket"), readSmb2Msg("socket"),
                   Quietly(<< Write("socket"), readSmb2Msg("socket") >>), FreeWriter("socket"),
                   FreeReader("socket"), CloseQuietly("socket"), MayReturn, Return >>,
                << CloseQuietly("socket"), Throw >>) >>,
         << Return >>) >>

handleCIFSList ==
  << MayReturn,
     Try(
         << Await, MayReturn, checkIfCloudflare, MayReturn,
            withSmbShare(<< Write("withSmbShare.socket"), readSmb2Msg("withSmbShare.socket"), MayThrow,
                            Write("withSmbShare.socket"), readSmb2Msg("withSmbShare.socket"), MayThrow,
                            Write("withSmbShare.socket"), readSmb2Msg("withSmbShare.socket"), Return >>),
            Return >>,
         << Return >>) >>

handleCIFSRead ==
  << MayReturn,
     Try(
         << Await, MayReturn, checkIfCloudflare, MayReturn,
            withSmbShare(<< Write("withSmbShare.socket"), readSmb2Msg("withSmbShare.socket"), MayThrow,
                            Maybe(<< Write("withSmbShare.socket"), readSmb2Msg("withSmbShare.socket") >>),
                            Write("withSmbShare.socket"), readSmb2Msg("withSmbShare.socket"), Return >>),
            Return >>,
         << Return >>) >>

handleCIFSStat ==
  << MayReturn,
     Try(
         << Await, MayReturn, checkIfCloudflare, MayReturn,
            withSmbShare(<< Loop(<< Write("withSmbShare.socket"), readSmb2Msg("withSmbShare.socket"),
                                    Maybe(<< MayThrow, Continue >>), MayContinue,
                                    Write("withSmbShare.socket"), readSmb2Msg("withSmbShare.socket"),
                                    Return >>),
                            Throw >>),
            Return >>,
         << Return >>) >>

handleCIFSWrite ==
  << MayReturn,
     Try(
         << Await, MayReturn, MayThrow, checkIfCloudflare, MayReturn,
            withSmbShare(<< Write("withSmbShare.socket"), readSmb2Msg("withSmbShare.socket"), MayThrow,
                            Write("withSmbShare.socket"), readSmb2Msg("withSmbShare.socket"), MayThrow,
                            Write("withSmbShare.socket"), readSmb2Msg("withSmbShare.socket"), Return >>),
            Return >>,
         << Return >>) >>

-----------------------------------------------------------------------------
\* src/src/worker/cvs.ts

handleCVSConnect ==
  << MayReturn,
     Try(
         << Await, MayReturn, checkIfCloudflare, MayReturn, Connect("socket"), GetWriter("socket"),
            GetReader("socket"),
            TryFinally(<< Write("socket"), Finish("socket"), readLines_cvs("socket"), Cancel("socket"),
                          Close("socket"), MayReturn, Return >>,
                       << Quietly(<< Finish("socket"), Cancel("socket"), Close("socket") >>) >>) >>,
         << Return >>) >>

handleCVSList ==
  << MayReturn,
     Try(
         << Await, MayReturn, checkIfCloudflare, MayReturn, Connect("socket"), GetWriter("socket"),
            GetReader("socket"),
            TryFinally(<< Write("socket"), readLines_cvs("socket"),
                          Maybe(<< FinishQuietly("socket"), Quietly(<< Cancel("socket") >>),
                                   CloseQuietly("socket"), Return >>),
                          Write("socket"), Write("socket"), Write("socket"), Write("socket"), Write("socket"),
                          Write("socket"), readAllLines_cvs("socket"), FinishQuietly("socket"),
                          Quietly(<< Cancel("socket") >>), CloseQuietly("socket"), Return >>,
                       << FinishQuietly("socket"), Quietly(<< Cancel("socket") >>), CloseQuietly("socket") >>) >>,
         << Return >>) >>

handleCVSCheckout ==
  << MayReturn,
     Try(
         << Await, MayReturn, checkIfCloudflare, MayReturn, Connect("socket"), GetWriter("socket"),
            GetReader("socket"),
            TryFinally(<< Write("socket"), readLines_cvs("socket"), MayReturn, Write("socket"),
                          readAllLines_cvs("socket"), FinishQuietly("socket"),
                          Quietly(<< Cancel("socket") >>), CloseQuietly("socket"), Return >>,
                       << FinishQuietly("socket"), Quietly(<< Cancel("socket") >>), CloseQuietly("socket") >>) >>,
         << Return >>) >>

handleCVSLogin ==
  << MayReturn,
     Try(
         << Await, MayReturn, checkIfCloudflare, MayReturn, Connect("socket"), GetWriter("socket"),
            GetReader("socket"),
            TryFinally(<< Write("socket"), readLines_cvs("socket"), Finish("socket"), Cancel("socket"),
                          Close("socket"), Return >>,
                       << Quietly(<< Finish("socket"), Cancel("socket"), Close("socket") >>) >>) >>,
         << Return >>) >>

-----------------------------------------------------------------------------
\* src/src/worker/ftp.ts

handleFTPConnect ==
  << Try(
         << MayReturn, Await, MayReturn, checkIfCloudflare, MayReturn,
            TryFinally(<< FTPClient_connect("controlSocket"), FTPClient_pwd("controlSocket"), Return >>,
                       << FTPClient_close("controlSocket") >>) >>,
         << Return >>) >>

handleFTPList ==
  << Try(
         << MayReturn, Await, MayReturn, checkIfCloudflare, MayReturn,
            TryFinally(<< FTPClient_connect("controlSocket"), FTPClient_list("controlSocket"), Return >>,
                       << FTPClient_close("controlSocket") >>) >>,
         << Return >>) >>

handleFTPFeat ==
  << Try(
         << MayReturn, Await, MayReturn, checkIfCloudflare, MayReturn,
            TryFinally(<< FTPClient_connect("controlSocket"), FTPClient_feat("controlSocket"), Return >>,
                       << FTPClient_close("controlSocket") >>) >>,
         << Return >>) >>

handleFTPStat ==
  << Try(
         << MayReturn, Await, MayReturn, checkIfCloudflare, MayReturn,
            TryFinally(<< FTPClient_connect("controlSocket"), FTPClient_stat("controlSocket"), Return >>,
                       << FTPClient_close("controlSocket") >>) >>,
         << Return >>) >>

handleFTPNlst ==
  << Try(
         << MayReturn, Await, MayReturn, checkIfCloudflare, MayReturn,
            TryFinally(<< FTPClient_connect("controlSocket"), FTPClient_nlst("controlSocket"), Return >>,
                       << FTPClient_close("controlSocket") >>) >>,
         << Return >>) >>

handleFTPSite ==
  << Try(
         << MayReturn, Await, MayReturn, checkIfCloudflare, MayReturn,
            TryFinally(<< FTPClient_connect("controlSocket"), FTPClient_site("controlSocket"), Return >>,
                       << FTPClient_close("controlSocket") >>) >>,
         << Return >>) >>

handleFTPUpload ==
  << Try(
         << MayReturn, Await, MayReturn, checkIfCloudflare, MayReturn, Await,
            TryFinally(<< FTPClient_connect("controlSocket"), FTPClient_upload("controlSocket"), Return >>,
                       << FTPClient_close("controlSocket") >>) >>,
         << Return >>) >>

handleFTPDownload ==
  << Try(
         << MayReturn, Await, MayReturn, checkIfCloudflare, MayReturn,
            TryFinally(<< FTPClient_connect("controlSocket"), FTPClient_download("controlSocket"), Return >>,
                       << FTPClient_close("controlSocket") >>) >>,
         << Return >>) >>

handleFTPDelete ==
  << Try(
         << MayReturn, Await, MayReturn, checkIfCloudflare, MayReturn,
            TryFinally(<< FTPClient_connect("controlSocket"), FTPClient_delete("controlSocket"), Return >>,
                       << FTPClient_close("controlSocket") >>) >>,
         << Return >>) >>

handleFTPMkdir ==
  << Try(
         << MayReturn, Await, MayReturn, checkIfCloudflare, MayReturn,
            TryFinally(<< FTPClient_connect("controlSocket"), FTPClient_mkdir("controlSocket"), Return >>,
                       << FTPClient_close("controlSocket") >>) >>,
         << Return >>) >>

handleFTPRmdir ==
  << Try(
         << MayReturn, Await, MayReturn, checkIfCloudflare, MayReturn,
            TryFinally(<< FTPClient_connect("controlSocket"), FTPClient_rmdir("controlSocket"), Return >>,
                       << FTPClient_close("controlSocket") >>) >>,
         << Return >>) >>

handleFTPRename ==
  << Try(
         << MayReturn, Await, MayReturn, checkIfCloudflare, MayReturn,
            TryFinally(<< FTPClient_connect("controlSocket"), FTPClient_rename("controlSocket"), Return >>,
                       << FTPClient_close("controlSocket") >>) >>,
         << Return >>) >>

-----------------------------------------------------------------------------
\* src/src/worker/ftps.ts

handleFTPSConnect ==
  << MayReturn,
     Try(
         << Await, MayReturn, checkIfCloudflare, MayReturn, Connect("socket"),
            Race(Opened("socket"), "throw"), GetReader("socket"), GetWriter("socket"),
            Try(
                << RaceTask(<< Forever(<< Race(Read("socket"), "end"), When(GotNothing, << Break >>),
                                          MayBreak >>) >>,
                            "throw"),
                   Maybe(<< FreeWriterQuietly("socket"), FreeReaderQuietly("socket"), CloseQuietly("socket"),
                            Return >>),
                   Quietly(<< Write("socket"),
                              RaceTask(<< Forever(<< Race(Read("socket"), "end"),
                                                     When(GotNothing, << Break >>), MayBreak >>) >>,
                                       "throw") >>),
                   Quietly(<< Write("socket"),
                              RaceTask(<< Forever(<< Race(Read("socket"), "end"),
                                                     When(GotNothing, << Break >>), MayBreak >>) >>,
                                       "throw") >>),
                   Quietly(<< Write("socket") >>), FreeWriterQuietly("socket"), FreeReaderQuietly("socket"),
                   CloseQuietly("socket"), Return >>,
                << FreeWriterQuietly("socket"), FreeReaderQuietly("socket"), CloseQuietly("socket"), Throw >>) >>,
         << Return >>) >>

handleFTPSLogin ==
  << MayReturn,
     Try(
         << Await, MayReturn, checkIfCloudflare, MayReturn, openFTPSSession("socket"),
            Try(
                << authenticateFTPSSession("socket"), FTPSSession_sendCommand("socket"),
                   FTPSSession_readResponse("socket"), FTPSSession_sendCommand("socket"),
                   FTPSSession_readResponse("socket"), FTPSSession_close("socket"), Return >>,
                << FTPSSession_close("socket"), Throw >>) >>,
         << Return >>) >>

handleFTPSList ==
  << MayReturn,
     Try(
         << Await, MayReturn, checkIfCloudflare, MayReturn, openFTPSSession("socket"),
            Try(
                << authenticateFTPSSession("socket"),
                   Maybe(<< FTPSSession_sendCommand("socket"), FTPSSession_readResponse("socket"), MayThrow >>),
                   FTPSSession_enterPassiveMode("socket"), FTPSSession_openDataSocket("socket2"),
                   FTPSSession_sendCommand("socket"),
                   Task("readResponse1", << FTPSSession_readResponse("socket") >>), Opened("socket2"),
                   JoinAll({"readResponse1"}), Maybe(<< Close("socket2"), Throw >>), GetReader("socket2"),
                   TryFinally(<< Forever(<< MayThrow, Race(Read("socket2"), "throw"),
                                            When(GotNothing, << Break >>), MayThrow >>) >>,
                              << FreeReaderQuietly("socket2"), CloseQuietly("socket2") >>),
                   FTPSSession_readResponse("socket"), FTPSSession_close("socket"), Return >>,
                << FTPSSession_close("socket"), Throw >>) >>,
         << Return >>) >>

handleFTPSDownload ==
  << MayReturn,
     Try(
         << Await, MayReturn, checkIfCloudflare, MayReturn, openFTPSSession("socket"),
            Try(
                << authenticateFTPSSession("socket"), FTPSSession_enterPassiveMode("socket"),
                   FTPSSession_openDataSocket("socket2"), FTPSSession_sendCommand("socket"),
                   Task("readResponse1", << FTPSSession_readResponse("socket") >>), Opened("socket2"),
                   JoinAll({"readResponse1"}), Maybe(<< Close("socket2"), Throw >>), GetReader("socket2"),
                   TryFinally(<< Forever(<< MayThrow, Race(Read("socket2"), "throw"),
                                            When(GotNothing, << Break >>), MayThrow >>) >>,
                              << FreeReaderQuietly("socket2"), CloseQuietly("socket2") >>),
                   FTPSSession_readResponse("socket"), FTPSSession_close("socket"), Return >>,
                << FTPSSession_close("socket"), Throw >>) >>,
         << Return >>) >>

handleFTPSUpload ==
  << MayReturn,
     Try(
         << Await, MayReturn, checkIfCloudflare, MayReturn, openFTPSSession("socket"),
            Try(
                << authenticateFTPSSession("socket"), FTPSSession_enterPassiveMode("socket"),
                   FTPSSession_openDataSocket("socket2"), FTPSSession_sendCommand("socket"),
                   Task("readResponse1", << FTPSSession_readResponse("socket") >>), Opened("socket2"),
                   JoinAll({"readResponse1"}), Maybe(<< Close("socket2"), Throw >>), GetWriter("socket2"),
                   TryFinally(<< Write("socket2"), Finish("socket2") >>,
                              << FreeWriterQuietly("socket2"), CloseQuietly("socket2") >>),
                   FTPSSession_readResponse("socket"), MayThrow, FTPSSession_close("socket"), Return >>,
                << FTPSSession_close("socket"), Throw >>) >>,
         << Return >>) >>

handleFTPSDelete ==
  << MayReturn,
     Try(
         << Await, MayReturn, checkIfCloudflare, MayReturn, openFTPSSession("socket"),
            Try(
                << authenticateFTPSSession("socket"), FTPSSession_sendCommand("socket"),
                   FTPSSession_readResponse("socket"), MayThrow, FTPSSession_close("socket"), Return >>,
                << FTPSSession_close("socket"), Throw >>) >>,
         << Return >>) >>

handleFTPSMkdir ==
  << MayReturn,
     Try(
         << Await, MayReturn, checkIfCloudflare, MayReturn, openFTPSSession("socket"),
            Try(
                << authenticateFTPSSession("socket"), FTPSSession_sendCommand("socket"),
                   FTPSSession_readResponse("socket"), MayThrow, FTPSSession_close("socket"), Return >>,
                << FTPSSession_close("socket"), Throw >>) >>,
         << Return >>) >>

handleFTPSRename ==
  << MayReturn,
     Try(
         << Await, MayReturn, checkIfCloudflare, MayReturn, openFTPSSession("socket"),
            Try(
                << authenticateFTPSSession("socket"), FTPSSession_sendCommand("socket"),
                   FTPSSession_readResponse("socket"), MayThrow, FTPSSession_sendCommand("socket"),
                   FTPSSession_readResponse("socket"), MayThrow, FTPSSession_close("socket"), Return >>,
                << FTPSSession_close("socket"), Throw >>) >>,
         << Return >>) >>

-----------------------------------------------------------------------------
\* src/src/worker/git.ts

handleGitFetch ==
  << MayReturn, Await, MayReturn, checkIfCloudflare, MayReturn,
     Task("connectionPromise",
          << Connect("socket"), Opened("socket"), GetWriter("socket"), GetReader("socket"),
             TryCatchFinally(<< Write("socket"), RaceTask(<< readPktLines("socket") >>, "throw"),
                                Maybe(<< Write("socket"), Close("socket"), Return >>), Write("socket"),
                                Loop(<< Try(<< Race(Read("socket"), "throw") >>, << Break >>),
                                        When(GotNothing, << Break >>), MayBreak >>),
                                MayReturn, Close("socket"), Return >>,
                             << CloseQuietly("socket"), Throw >>,
                             << FreeWriterQuietly("socket"), FreeReaderQuietly("socket") >>) >>),
     Try(<< Race(Join("connectionPromise"), "throw"), Return >>, << Return >>) >>

handleGitRefs ==
  << Try(
         << MayReturn, Await, MayReturn, checkIfCloudflare, MayReturn,
            Task("connectionPromise",
                 << Connect("socket"), Opened("socket"), GetWriter("socket"), GetReader("socket"),
                    TryCatchFinally(<< Write("socket"), readPktLines("socket"), Write("socket"),
                                       Close("socket"), Return >>,
                                    << CloseQuietly("socket"), Throw >>,
                                    << FreeWriterQuietly("socket"), FreeReaderQuietly("socket") >>) >>),
            Race(Join("connectionPromise"), "throw"), Return >>,
         << Return >>) >>

-----------------------------------------------------------------------------
\* src/src/worker/gopher.ts

handleGopherFetch ==
  << Try(
         << Await, MayReturn, checkIfCloudflare, MayReturn, Connect("socket"),
            Try(
                << Race(Opened("socket"), "throw"), GetWriter("socket"), GetReader("socket"), Write("socket"),
                   FreeWriter("socket"),
                   Try(
                       << Forever(<< Race(Read("socket"), "throw"), When(GotEnd, << Break >>),
                                     When(GotData, << MayThrow >>) >>) >>,
                       << MayThrow >>),
                   FreeReader("socket"), CloseQuietly("socket"), Return >>,
                << CloseQuietly("socket"), Throw >>) >>,
         << Return >>) >>

-----------------------------------------------------------------------------
\* src/src/worker/ipfs.ts

handleIPFSProbe ==
  << MayReturn,
     Try(
         << Await, MayReturn, checkIfCloudflare, MayReturn, Connect("socket"),
            Try(
                << Race(Opened("socket"), "throw"), GetWriter("socket"), GetReader("socket"), Write("socket"),
                   Call(<< Try(<< Race(Read("socket"), "throw"), Return >>, << Return >>) >>),
                   Maybe(<< Write("socket"),
                            Call(<< Try(<< Race(Read("socket"), "throw"), Return >>, << Return >>) >>),
                            Loop(<< Write("socket"),
                                    Call(<< Try(<< Race(Read("socket"), "throw"), Return >>, << Return >>) >>) >>) >>),
                   FreeWriter("socket"), FreeReader("socket"), CloseQuietly("socket"), Return >>,
                << CloseQuietly("socket"), Throw >>) >>,
         << Return >>) >>

handleIPFSAdd ==
  << MayReturn,
     Try(<< Await, MayReturn, checkIfCloudflare, MayReturn, Await, MayReturn, Await, Return >>, << Return >>) >>

handleIPFSCat ==
  << MayReturn,
     Try(<< Await, MayReturn, checkIfCloudflare, MayReturn, Await, MayReturn, Await, Return >>, << Return >>) >>

handleIPFSPinAdd ==
  << MayReturn,
     Try(<< Await, MayReturn, checkIfCloudflare, MayReturn, Await, MayReturn, Await, Return >>, << Return >>) >>

handleIPFSPinList ==
  << MayReturn,
     Try(<< Await, MayReturn, checkIfCloudflare, MayReturn, Await, MayReturn, Await, Return >>, << Return >>) >>

handleIPFSPinRm ==
  << MayReturn,
     Try(
         << Await, MayReturn, checkIfCloudflare, MayReturn, Await, Maybe(<< Await, Return >>), Await,
            Return >>,
         << Return >>) >>

handleIPFSPubsubPub ==
  << MayReturn,
     Try(
         << Await, MayReturn, checkIfCloudflare, MayReturn, Await, Maybe(<< Await, Return >>), Return >>,
         << Return >>) >>

handleIPFSPubsubLs ==
  << MayReturn,
     Try(
         << Await, MayReturn, checkIfCloudflare, MayReturn, Await, Maybe(<< Await, Return >>), Await,
            Return >>,
         << Return >>) >>

handleIPFSNodeInfo ==
  << MayReturn,
     Try(<< Await, MayReturn, checkIfCloudflare, MayReturn, Await, MayReturn, Await, Return >>, << Return >>) >>

-----------------------------------------------------------------------------
\* src/src/worker/napster.ts

handleNapsterConnect ==
  << Try(
         << Await, MayReturn, checkIfCloudflare, MayReturn, Connect("socket"),
            Try(
                << Race(Opened("socket"), "throw"), CloseQuietly("socket"), Return >>,
                << CloseQuietly("socket"), Throw >>) >>,
         << Return >>) >>

handleNapsterLogin ==
  << Try(
         << Await, MayReturn, checkIfCloudflare, MayReturn, Connect("socket"),
            Try(
                << Race(Opened("socket"), "throw"), GetWriter("socket"), GetReader("socket"),
                   performLogin("socket"), FreeWriter("socket"), FreeReader("socket"), CloseQuietly("socket"),
                   MayReturn, Return >>,
                << CloseQuietly("socket"), Throw >>) >>,
         << Return >>) >>

handleNapsterStats ==
  << Try(
         << Await, MayReturn, checkIfCloudflare, MayReturn, Connect("socket"),
            Try(
                << Race(Opened("socket"), "throw"), GetWriter("socket"), GetReader("socket"),
                   Either(<< performLogin("socket"),
                             Maybe(<< FreeWriter("socket"), FreeReader("socket"), CloseQuietly("socket"),
                                      Return >>),
                             Write("socket") >>,
                          << Write("socket") >>),
                   Loop(<< MayBreak, Race(Read("socket"), "end"), When(GotNothing, << Break >>), MayThrow,
                           MayBreak >>),
                   FreeWriter("socket"), FreeReader("socket"), CloseQuietly("socket"), Return >>,
                << CloseQuietly("socket"), Throw >>) >>,
         << Return >>) >>

handleNapsterBrowse ==
  << Try(
         << Await, MayReturn, checkIfCloudflare, MayReturn, Connect("socket"),
            Try(
                << Race(Opened("socket"), "throw"), GetWriter("socket"), GetReader("socket"),
                   performLogin("socket"),
                   Maybe(<< FreeWriter("socket"), FreeReader("socket"), CloseQuietly("socket"), Return >>),
                   Write("socket"),
                   Loop(<< MayBreak, Race(Read("socket"), "end"), When(GotNothing, << Break >>), MayThrow,
                           MayBreak >>),
                   FreeWriter("socket"), FreeReader("socket"), CloseQuietly("socket"), Return >>,
                << CloseQuietly("socket"), Throw >>) >>,
         << Return >>) >>

handleNapsterSearch ==
  << Try(
         << Await, MayReturn, checkIfCloudflare, MayReturn, Connect("socket"),
            Try(
                << Race(Opened("socket"), "throw"), GetWriter("socket"), GetReader("socket"),
                   performLogin("socket"),
                   Maybe(<< FreeWriter("socket"), FreeReader("socket"), CloseQuietly("socket"), Return >>),
                   Write("socket"),
                   Loop(<< MayBreak, Race(Read("socket"), "end"), When(GotNothing, << Break >>), MayThrow,
                           MayBreak >>),
                   FreeWriter("socket"), FreeReader("socket"), CloseQuietly("socket"), Return >>,
                << CloseQuietly("socket"), Throw >>) >>,
         << Return >>) >>

-----------------------------------------------------------------------------
\* src/src/worker/nfs.ts

handleNFSProbe ==
  << MayReturn,
     Try(
         << Await, MayReturn, checkIfCloudflare, MayReturn, Loop(<< Quietly(<< sendRpcCall >>) >>), Return >>,
         << Return >>) >>

handleNFSExports ==
  << MayReturn,
     Try(
         << Await, MayReturn, checkIfCloudflare, MayReturn, Loop(<< Quietly(<< sendRpcCall, MayBreak >>) >>),
            Return >>,
         << Return >>) >>

handleNFSLookup ==
  << MayReturn,
     Try(
         << Await, MayReturn, checkIfCloudflare, MayReturn, mountExportPath, MayReturn, sendRpcCall,
            MayReturn, MayThrow, Return >>,
         << Return >>) >>

handleNFSGetAttr ==
  << MayReturn,
     Try(
         << Await, MayReturn, checkIfCloudflare, MayReturn, mountExportPath, MayReturn, sendRpcCall,
            MayReturn, MayThrow, Return >>,
         << Return >>) >>

handleNFSRead ==
  << MayReturn,
     Try(
         << Await, MayReturn, checkIfCloudflare, MayReturn, mountExportPath, MayReturn, resolveNFSFilePath,
            MayReturn, sendRpcCall, MayReturn, Return >>,
         << Return >>) >>

handleNFSReaddir ==
  << MayReturn,
     Try(
         << Await, MayReturn, checkIfCloudflare, MayReturn, mountExportPath, MayReturn, resolveNFSFilePath,
            MayReturn, sendRpcCall, MayReturn, MayThrow, Return >>,
         << Return >>) >>

handleNFSWrite ==
  << MayReturn,
     Try(
         << Await, MayReturn, checkIfCloudflare, MayReturn, mountExportPath, MayReturn, resolveNFSFilePath,
            MayReturn, sendRpcCall, MayReturn, Return >>,
         << Return >>) >>

handleNFSCreate ==
  << MayReturn,
     Try(
         << Await, MayReturn, checkIfCloudflare, MayReturn, mountExportPath, MayReturn,
            Maybe(<< resolveNFSFilePath >>), MayReturn, sendRpcCall, MayReturn,
            Maybe(<< MayReturn, Maybe(<< sendRpcCall >>) >>), Return >>,
         << Return >>) >>

handleNFSRemove ==
  << MayReturn,
     Try(
         << Await, MayReturn, checkIfCloudflare, MayReturn, mountExportPath, MayReturn,
            Maybe(<< resolveNFSFilePath >>), MayReturn, sendRpcCall, MayReturn, Return >>,
         << Return >>) >>

handleNFSRename ==
  << MayReturn,
     Try(
         << Await, MayReturn, checkIfCloudflare, MayReturn, mountExportPath, MayReturn,
            Maybe(<< resolveNFSFilePath >>), MayReturn, Maybe(<< resolveNFSFilePath >>), MayReturn,
            sendRpcCall, MayReturn, Return >>,
         << Return >>) >>

handleNFSMkdir ==
  << MayReturn,
     Try(
         << Await, MayReturn, checkIfCloudflare, MayReturn, mountExportPath, MayReturn,
            Maybe(<< resolveNFSFilePath >>), MayReturn, sendRpcCall, MayReturn, Return >>,
         << Return >>) >>

handleNFSRmdir ==
  << MayReturn,
     Try(
         << Await, MayReturn, checkIfCloudflare, MayReturn, mountExportPath, MayReturn,
            Maybe(<< resolveNFSFilePath >>), MayReturn, sendRpcCall, MayReturn, Return >>,
         << Return >>) >>

-----------------------------------------------------------------------------
\* src/src/worker/ninep.ts

handle9PConnect ==
  << MayReturn,
     Try(
         << Await, MayReturn, checkIfCloudflare, MayReturn, Connect("socket"),
            Race(Opened("socket"), "throw"), GetWriter("socket"), GetReader("socket"),
            Try(
                << Write("socket"), read9PMessage("socket"),
                   Maybe(<< FreeReader("socket"), FreeWriter("socket"), CloseQuietly("socket"), Return >>),
                   Maybe(<< MayThrow, FreeReader("socket"), FreeWriter("socket"), CloseQuietly("socket"),
                            Return >>),
                   Maybe(<< FreeReader("socket"), FreeWriter("socket"), CloseQuietly("socket"), Return >>),
                   Maybe(<< FreeReader("socket"), FreeWriter("socket"), CloseQuietly("socket"), Return >>),
                   MayThrow,
                   Maybe(<< Quietly(<< Write("socket"), read9PMessage("socket"),
                                       Either(<< MayThrow, Quietly(<< Write("socket") >>) >>, << MayThrow >>) >>) >>),
                   FreeReader("socket"), FreeWriter("socket"), CloseQuietly("socket"), Return >>,
                << FreeReaderQuietly("socket"), FreeWriterQuietly("socket"), CloseQuietly("socket"), Throw >>) >>,
         << Return >>) >>

handle9PStat ==
  << MayReturn,
     Try(
         << Await, MayReturn, checkIfCloudflare, MayReturn, Connect("socket"),
            Race(Opened("socket"), "throw"), GetReader("socket"), GetWriter("socket"),
            Try(
                << ninePHandshake("socket"),
                   Either(<< Write("socket"), read9PMessage("socket"), MayThrow, Maybe(<< MayThrow, Throw >>),
                             MayThrow, Quietly(<< Write("socket") >>) >>,
                          << MayThrow, Write("socket"), read9PMessage("socket"),
                             Maybe(<< Maybe(<< MayThrow, Throw >>), Throw >>), MayThrow, Write("socket"),
                             read9PMessage("socket"), MayThrow, Maybe(<< MayThrow, Throw >>), MayThrow,
                             Quietly(<< Write("socket") >>), Quietly(<< Write("socket") >>) >>),
                   FreeReader("socket"), FreeWriter("socket"), CloseQuietly("socket"), Return >>,
                << FreeReaderQuietly("socket"), FreeWriterQuietly("socket"), CloseQuietly("socket"), Throw >>) >>,
         << Return >>) >>

handle9PRead ==
  << MayReturn,
     Try(
         << Await, MayReturn, checkIfCloudflare, MayReturn, Connect("socket"),
            Race(Opened("socket"), "throw"), GetReader("socket"), GetWriter("socket"),
            Try(
                << ninePHandshake("socket"), MayThrow, Write("socket"), read9PMessage("socket"),
                   Maybe(<< Maybe(<< MayThrow, Throw >>), Throw >>), MayThrow, Write("socket"),
                   read9PMessage("socket"), Maybe(<< Maybe(<< MayThrow, Throw >>), Throw >>), Write("socket"),
                   read9PMessage("socket"), MayThrow, Maybe(<< MayThrow, Throw >>), MayThrow,
                   Quietly(<< Write("socket") >>), Quietly(<< Write("socket") >>), FreeReader("socket"),
                   FreeWriter("socket"), CloseQuietly("socket"), Return >>,
                << FreeReaderQuietly("socket"), FreeWriterQuietly("socket"), CloseQuietly("socket"), Throw >>) >>,
         << Return >>) >>

handle9PLs ==
  << MayReturn,
     Try(
         << Await, MayReturn, checkIfCloudflare, MayReturn, Connect("socket"),
            Race(Opened("socket"), "throw"), GetReader("socket"), GetWriter("socket"),
            Try(
                << ninePHandshake("socket"),
                   Maybe(<< MayThrow, Write("socket"), read9PMessage("socket"),
                            Maybe(<< Maybe(<< MayThrow, Throw >>), Throw >>), MayThrow >>),
                   Write("socket"), read9PMessage("socket"), Maybe(<< Maybe(<< MayThrow, Throw >>), Throw >>),
                   Loop(<< Write("socket"), read9PMessage("socket"),
                           Maybe(<< Maybe(<< MayThrow, Throw >>), Break >>), MayBreak >>),
                   Quietly(<< Write("socket") >>), Maybe(<< Quietly(<< Write("socket") >>) >>),
                   FreeReader("socket"), FreeWriter("socket"), CloseQuietly("socket"), Return >>,
                << FreeReaderQuietly("socket"), FreeWriterQuietly("socket"), CloseQuietly("socket"), Throw >>) >>,
         << Return >>) >>

-----------------------------------------------------------------------------
\* src/src/worker/perforce.ts

handlePerforceProbe ==
  << MayReturn,
     Try(
         << Await, MayReturn, checkIfCloudflare, MayReturn, Connect("socket"),
            Try(
                << Race(Opened("socket"), "throw"), GetWriter("socket"), GetReader("socket"), Write("socket"),
                   Quietly(<< Race(Read("socket"), "throw"),
                              When(GotData,
                                   << Quietly(<< Forever(<< Race(Read("socket"), "throw"),
                                                            When(GotNothing, << Break >>) >>) >>) >>) >>),
                   FreeWriter("socket"), FreeReader("socket"), CloseQuietly("socket"), Return >>,
                << CloseQuietly("socket"), Throw >>) >>,
         << Return >>) >>

handlePerforceLogin ==
  << MayReturn,
     Try(
         << Await, MayReturn, checkIfCloudflare, MayReturn, Connect("socket"),
            Try(
                << Race(Opened("socket"), "throw"), GetWriter("socket"), GetReader("socket"), Write("socket"),
                   Loop(<< MayBreak, Race(Read("socket"), "end"), When(GotNothing, << Break >>) >>),
                   Write("socket"),
                   Loop(<< MayBreak, Race(Read("socket"), "end"), When(GotNothing, << Break >>) >>),
                   Maybe(<< Write("socket"),
                            Loop(<< MayBreak, Race(Read("socket"), "end"), When(GotNothing, << Break >>) >>) >>),
                   FreeWriter("socket"), FreeReader("socket"), CloseQuietly("socket"), Return >>,
                << CloseQuietly("socket"), Throw >>) >>,
         << Return >>) >>

handlePerforceInfo ==
  << MayReturn,
     Try(
         << Await, MayReturn, checkIfCloudflare, MayReturn, Connect("socket"),
            Try(
                << Race(Opened("socket"), "throw"), GetWriter("socket"), GetReader("socket"), Write("socket"),
                   Sleep, Write("socket"),
                   Quietly(<< Race(Read("socket"), "throw"),
                              When(GotData,
                                   << Quietly(<< Forever(<< Race(Read("socket"), "throw"),
                                                            When(GotNothing, << Break >>) >>) >>) >>) >>),
                   FreeWriter("socket"), FreeReader("socket"), CloseQuietly("socket"), Return >>,
                << CloseQuietly("socket"), Throw >>) >>,
         << Return >>) >>

handlePerforceChanges ==
  << MayReturn, Try(<< Await >>, << Return >>), MayReturn, checkIfCloudflare, MayReturn, Connect("socket"),
     Try(
         << Race(Opened("socket"), "throw"), GetWriter("socket"), GetReader("socket"),
            TryFinally(<< Write("socket"),
                          Loop(<< MayBreak, Race(Read("socket"), "end"), When(GotNothing, << Break >>) >>),
                          Write("socket"),
                          Loop(<< MayBreak, Race(Read("socket"), "end"), When(GotNothing, << Break >>) >>),
                          MayReturn, Write("socket"),
                          Loop(<< MayBreak, Race(Read("socket"), "end"), When(GotNothing, << Break >>) >>),
                          Return >>,
                       << FreeReader("socket"), FreeWriter("socket"), CloseQuietly("socket") >>) >>,
         << CloseQuietly("socket"), Return >>) >>

handlePerforceDescribe ==
  << MayReturn, Try(<< Await >>, << Return >>), MayReturn, checkIfCloudflare, MayReturn, Connect("socket"),
     Try(
         << Race(Opened("socket"), "throw"), GetWriter("socket"), GetReader("socket"),
            TryFinally(<< Write("socket"),
                          Loop(<< MayBreak, Race(Read("socket"), "end"), When(GotNothing, << Break >>) >>),
                          Write("socket"),
                          Loop(<< MayBreak, Race(Read("socket"), "end"), When(GotNothing, << Break >>) >>),
                          MayReturn, Write("socket"),
                          Loop(<< MayBreak, Race(Read("socket"), "end"), When(GotNothing, << Break >>) >>),
                          Return >>,
                       << FreeReader("socket"), FreeWriter("socket"), CloseQuietly("socket") >>) >>,
         << CloseQuietly("socket"), Return >>) >>

-----------------------------------------------------------------------------
\* src/src/worker/rsync.ts

handleRsyncConnect ==
  << Try(
         << MayReturn, Await, MayReturn, checkIfCloudflare, MayReturn, Connect("socket"),
            Try(<< Race(Opened("socket"), "throw") >>, << CloseQuietly("socket"), Throw >>),
            GetWriter("socket"), GetReader("socket"),
            TryFinally(<< Race(Read("socket"), "throw"), When(GotNothing, << Throw >>), MayThrow,
                          Write("socket"), Write("socket"), readAllLines_rsync("socket") >>,
                       << FreeWriterQuietly("socket"), FreeReaderQuietly("socket"), CloseQuietly("socket") >>),
            Return >>,
         << Return >>) >>

handleRsyncAuth ==
  << Try(
         << MayReturn, Await, MayReturn, checkIfCloudflare, MayReturn, Connect("socket"),
            Try(<< Race(Opened("socket"), "throw") >>, << CloseQuietly("socket"), Throw >>),
            GetWriter("socket"), GetReader("socket"),
            TryFinally(<< Call(<< Forever(<< MayReturn, Race(Read("socket"), "throw"),
                                             When(GotNothing, << Throw >>) >>) >>),
                          MayThrow, Write("socket"), Write("socket"),
                          ForeverAs("outer",
                                    << Call(<< Forever(<< MayReturn, Race(Read("socket"), "throw"),
                                                          When(GotNothing, << Throw >>) >>) >>),
                                       Either(<< Break >>,
                                              << Either(<< BreakFrom("outer") >>,
                                                        << Either(<< Break >>, << MayContinue >>) >>) >>) >>),
                          Maybe(<< Write("socket"),
                                   Call(<< Forever(<< MayReturn, Race(Read("socket"), "throw"),
                                                      When(GotNothing, << Throw >>) >>) >>) >>),
                          Return >>,
                       << FreeWriterQuietly("socket"), FreeReaderQuietly("socket"), CloseQuietly("socket") >>) >>,
         << Return >>) >>

handleRsyncModule ==
  << Try(
         << MayReturn, Await, MayReturn, checkIfCloudflare, MayReturn, Connect("socket"),
            Try(<< Race(Opened("socket"), "throw") >>, << CloseQuietly("socket"), Throw >>),
            GetWriter("socket"), GetReader("socket"),
            TryFinally(<< Race(Read("socket"), "throw"), When(GotNothing, << Throw >>), MayThrow,
                          Write("socket"), Write("socket"), readAllLines_rsync("socket") >>,
                       << FreeWriterQuietly("socket"), FreeReaderQuietly("socket"), CloseQuietly("socket") >>),
            Return >>,
         << Return >>) >>

-----------------------------------------------------------------------------
\* src/src/worker/scp.ts

handleSCPConnect ==
  << Try(
         << Either(<< Await >>, << MayThrow >>), MayReturn, checkIfCloudflare, MayReturn,
            Task("connectionPromise",
                 << Connect("socket"), Opened("socket"), GetReader("socket"),
                    Try(
                        << Read("socket"), FreeReader("socket"), Close("socket"), MayReturn, Return >>,
                        << FreeReaderQuietly("socket"), CloseQuietly("socket"), Throw >>) >>),
            Try(<< Race(Join("connectionPromise"), "throw"), Return >>, << Return >>) >>,
         << Return >>) >>

handleSCPList ==
  << Try(
         << MayReturn, Await, MayReturn, checkIfCloudflare, MayReturn,
            Task("connectionPromise",
                 << Connect("socket"), Race(Opened("socket"), "throw"), openSSHSubsystem("socket"),
                    TryFinally(<< RaceTask(<< collectExecOutput("socket") >>, "throw"), Return >>,
                               << openSSHSubsystem_close("socket") >>) >>),
            Race(Join("connectionPromise"), "throw"), Return >>,
         << Return >>) >>

handleSCPGet ==
  << Try(
         << MayReturn, Await, MayReturn, checkIfCloudflare, MayReturn,
            Task("connectionPromise",
                 << Connect("socket"), Race(Opened("socket"), "throw"), openSSHSubsystem("socket"),
                    TryFinally(<< RaceTask(<< openSSHSubsystem_readChannelData("socket") >>, "throw"),
                                  MayThrow, openSSHSubsystem_sendChannelData("socket"),
                                  Loop(<< RaceTask(<< openSSHSubsystem_readChannelData("socket") >>, "throw"),
                                          MayBreak >>),
                                  MayThrow,
                                  Maybe(<< openSSHSubsystem_sendChannelData_2("socket"),
                                           Loop(<< RaceTask(<< openSSHSubsystem_readChannelData("socket") >>,
                                                            "throw"),
                                                   MayBreak >>),
                                           MayThrow >>),
                                  Maybe(<< openSSHSubsystem_sendChannelData_2("socket"), Throw >>), MayThrow,
                                  Maybe(<< openSSHSubsystem_sendChannelData_2("socket"), Throw >>),
                                  Maybe(<< openSSHSubsystem_sendChannelData_2("socket"), Throw >>),
                                  Maybe(<< openSSHSubsystem_sendChannelData_2("socket"), Throw >>),
                                  openSSHSubsystem_sendChannelData_2("socket"),
                                  Loop(<< RaceTask(<< openSSHSubsystem_readChannelData("socket") >>, "throw"),
                                          MayBreak >>),
                                  MayThrow,
                                  Maybe(<< Quietly(<< RaceTask(
                                                          << openSSHSubsystem_readChannelData("socket") >>,
                                                          "throw") >>) >>),
                                  MayThrow, openSSHSubsystem_sendChannelData_2("socket"), Return >>,
                               << openSSHSubsystem_close_2("socket") >>) >>),
            Race(Join("connectionPromise"), "throw"), Return >>,
         << Return >>) >>

handleSCPPut ==
  << Try(
         << MayReturn, Await, MayReturn, checkIfCloudflare, MayReturn,
            Task("connectionPromise",
                 << Connect("socket"), Race(Opened("socket"), "throw"), openSSHSubsystem("socket"),
                    TryFinally(<< Quietly(<< RaceTask(<< openSSHSubsystem_readChannelData("socket") >>,
                                                      "null") >>),
                                  MayThrow, openSSHSubsystem_sendChannelData("socket"),
                                  RaceTask(<< openSSHSubsystem_readChannelData("socket") >>, "throw"),
                                  MayThrow, openSSHSubsystem_sendChannelData_2("socket"),
                                  openSSHSubsystem_sendChannelData_2("socket"),
                                  Quietly(<< RaceTask(<< openSSHSubsystem_readChannelData("socket") >>,
                                                      "null") >>),
                                  Return >>,
                               << openSSHSubsystem_close_2("socket") >>) >>),
            Race(Join("connectionPromise"), "throw"), Return >>,
         << Return >>) >>

-----------------------------------------------------------------------------
\* src/src/worker/sftp.ts

handleSFTPConnect ==
  << Try(
         << MayReturn, Await, MayReturn, checkIfCloudflare, MayReturn, Connect("socket"),
            Race(Opened("socket"), "throw"), GetReader("socket"),
            TryFinally(<< Race(Read("socket"), "throw") >>,
                       << FreeReader("socket"), CloseQuietly("socket") >>),
            Return >>,
         << Return >>) >>

handleSFTPList ==
  << Return >>

handleSFTPDownload ==
  << Return >>

handleSFTPUpload ==
  << Return >>

handleSFTPDelete ==
  << Return >>

handleSFTPMkdir ==
  << Return >>

handleSFTPRename ==
  << Return >>

handleSFTPStat ==
  << MayReturn,
     Try(
         << Await, MayReturn, openSFTP("socket"),
            Try(
                << SFTPSession_rpc("socket"), MayThrow, openSSHSubsystem_close_2("socket"), Return >>,
                << openSSHSubsystem_close_2("socket"), Throw >>) >>,
         << Return >>) >>

-----------------------------------------------------------------------------
\* src/src/worker/smb.ts

handleSMBConnect ==
  << Try(
         << MayThrow, Maybe(<< Await >>), MayReturn, checkIfCloudflare, MayReturn,
            Task("connectionPromise",
                 << Connect("socket"), Opened("socket"), GetReader("socket"), GetWriter("socket"),
                    Try(
                        << Write("socket"), readResponse_smb("socket"), FreeWriter("socket"),
                           FreeReader("socket"), CloseQuietly("socket"), MayThrow, Return >>,
                        << FreeWriterQuietly("socket"), FreeReaderQuietly("socket"), CloseQuietly("socket"),
                           Throw >>) >>),
            Race(Join("connectionPromise"), "throw"), Return >>,
         << Return >>) >>

handleSMBNegotiate ==
  << MayReturn,
     Try(
         << Await, MayReturn, checkIfCloudflare, MayReturn,
            Task("work",
                 << Connect("socket"), Opened("socket"), GetReader("socket"), GetWriter("socket"),
                    Try(
                        << Write("socket"), readResponse_smb("socket"), FreeWriter("socket"),
                           FreeReader("socket"), CloseQuietly("socket"), MayReturn,
                           Maybe(<< MayReturn, MayThrow, Return >>), MayReturn, Return >>,
                        << FreeWriterQuietly("socket"), FreeReaderQuietly("socket"), CloseQuietly("socket"),
                           Throw >>) >>),
            Race(Join("work"), "throw"), Return >>,
         << Return >>) >>

handleSMBSession ==
  << MayReturn,
     Try(
         << Await, MayReturn, checkIfCloudflare, MayReturn,
            Task("work",
                 << Connect("socket"), Opened("socket"), GetReader("socket"), GetWriter("socket"),
                    Try(
                        << Write("socket"), readResponse_smb("socket"), MayThrow, Write("socket"),
                           readResponse_smb("socket"), MayThrow,
                           Maybe(<< FreeWriter("socket"), FreeReader("socket"), CloseQuietly("socket"),
                                    Return >>),
                           MayThrow, Write("socket"), readResponse_smb("socket"), MayThrow,
                           FreeWriter("socket"), FreeReader("socket"), CloseQuietly("socket"), MayThrow,
                           MayReturn, Return >>,
                        << FreeWriterQuietly("socket"), FreeReaderQuietly("socket"), CloseQuietly("socket"),
                           Throw >>) >>),
            Race(Join("work"), "throw"), Return >>,
         << Return >>) >>

handleSMBTreeConnect ==
  << MayReturn,
     Try(
         << Await, MayReturn, checkIfCloudflare, MayReturn,
            Task("work",
                 << Connect("socket"), Opened("socket"), GetReader("socket"), GetWriter("socket"),
                    Try(
                        << Write("socket"), readResponse_smb("socket"), MayThrow, Write("socket"),
                           readResponse_smb("socket"), MayThrow,
                           Either(<< MayThrow, Write("socket"), readResponse_smb("socket"), MayThrow >>,
                                  << MayThrow >>),
                           MayThrow, Write("socket"), readResponse_smb("socket"), MayThrow,
                           FreeWriter("socket"), FreeReader("socket"), CloseQuietly("socket"), MayReturn,
                           Return >>,
                        << FreeWriterQuietly("socket"), FreeReaderQuietly("socket"), CloseQuietly("socket"),
                           Throw >>) >>),
            Race(Join("work"), "throw"), Return >>,
         << Return >>) >>

handleSMBStat ==
  << MayReturn,
     Try(
         << Await, MayReturn, checkIfCloudflare, MayReturn,
            Task("statWork",
                 << Connect("socket"), Opened("socket"), GetReader("socket"), GetWriter("socket"),
                    Try(
                        << Write("socket"), readResponse_smb("socket"), MayThrow, Write("socket"),
                           readResponse_smb("socket"), MayThrow,
                           Either(<< MayThrow, Write("socket"), readResponse_smb("socket"), MayThrow >>,
                                  << MayThrow >>),
                           MayThrow, Write("socket"), readResponse_smb("socket"), MayThrow, Write("socket"),
                           readResponse_smb("socket"), MayThrow, Write("socket"), readResponse_smb("socket"),
                           MayThrow, Write("socket"), FreeWriter("socket"), FreeReader("socket"),
                           CloseQuietly("socket"), MayThrow, Return >>,
                        << FreeWriterQuietly("socket"), FreeReaderQuietly("socket"), CloseQuietly("socket"),
                           Throw >>) >>),
            Race(Join("statWork"), "throw"), Return >>,
         << Return >>) >>

-----------------------------------------------------------------------------
\* src/src/worker/svn.ts

handleSVNConnect ==
  << MayReturn,
     Try(
         << Await, MayReturn, checkIfCloudflare, MayReturn, Connect("socket"),
            Try(
                << Race(Opened("socket"), "throw"), GetReader("socket"),
                   Try(
                       << Loop(<< Race(Read("socket"), "throw"), When(GotEnd, << Break >>),
                                  When(GotData, << MayBreak >>) >>) >>,
                       << MayThrow >>),
                   FreeReader("socket"), CloseQuietly("socket"), Return >>,
                << CloseQuietly("socket"), Throw >>) >>,
         << Return >>) >>

handleSVNList ==
  << MayReturn,
     Try(
         << Await, MayReturn, checkIfCloudflare, MayReturn, Connect("socket"),
            Race(Opened("socket"), "throw"), GetReader("socket"), GetWriter("socket"),
            Try(
                << readSvnResponse("socket"), MayThrow, Write("socket"), readSvnResponse("socket"),
                   Write("socket"), readSvnResponse("socket"),
                   Maybe(<< FreeReader("socket"), FreeWriter("socket"), Close("socket"), Return >>),
                   Write("socket"), readSvnResponse("socket"), Write("socket"), readSvnResponse("socket"),
                   FreeReader("socket"), FreeWriter("socket"), Close("socket"), Return >>,
                << FreeReaderQuietly("socket"), FreeWriterQuietly("socket"), CloseQuietly("socket"), Throw >>) >>,
         << Return >>) >>

handleSVNInfo ==
  << MayReturn,
     Try(
         << Await, MayReturn, checkIfCloudflare, MayReturn, Connect("socket"),
            Race(Opened("socket"), "throw"), GetReader("socket"), GetWriter("socket"),
            Try(
                << readSvnResponse("socket"), MayThrow, Write("socket"), readSvnResponse("socket"),
                   Write("socket"), readSvnResponse("socket"), MayThrow, Write("socket"),
                   readSvnResponse("socket"), FreeReader("socket"), FreeWriter("socket"), Close("socket"),
                   Return >>,
                << FreeReaderQuietly("socket"), FreeWriterQuietly("socket"), CloseQuietly("socket"), Throw >>) >>,
         << Return >>) >>

-----------------------------------------------------------------------------
\* src/src/worker/uucp.ts

handleUUCPProbe ==
  << MayReturn,
     Try(
         << Await, MayReturn, checkIfCloudflare, MayReturn, Connect("socket"),
            TryFinally(<< Task("timeoutPromise", << Sleep, CloseQuietly("socket"), Throw >>),
                          Beside(Opened("socket"), "timeoutPromise"), GetWriter("socket"),
                          GetReader("socket"),
                          Try(
                              << Write("socket"),
                                 Try(
                                     << Race(Read("socket"), "throw"),
                                        When(GotData,
                                             << Maybe(<< Write("socket"),
                                                         Try(
                                                             << Race(Read("socket"), "throw") >>,
                                                             << MayThrow >>) >>) >>) >>,
                                     << MayThrow >>),
                                 FreeWriterQuietly("socket"), FreeReaderQuietly("socket"),
                                 CloseQuietly("socket"), Return >>,
                              << FreeWriterQuietly("socket"), FreeReaderQuietly("socket"), Throw >>) >>,
                       << CloseQuietly("socket") >>) >>,
         << Return >>) >>

handleUUCPHandshake ==
  << MayReturn,
     Try(
         << Await, MayReturn, checkIfCloudflare, MayReturn, Connect("socket"),
            Task("timeoutPromise", << Sleep, CloseQuietly("socket"), Throw >>),
            Task("work",
                 << Opened("socket"), GetReader("socket"), GetWriter("socket"),
                    Try(
                        << Write("socket"), Race(Read("socket"), "end"),
                           Either(<< Write("socket"), Write("socket"), Race(Read("socket"), "end") >>,
                                  << Maybe(<< Write("socket"), Race(Read("socket"), "end") >>) >>),
                           FreeWriterQuietly("socket"), FreeReaderQuietly("socket"), CloseQuietly("socket"),
                           Return >>,
                        << FreeWriterQuietly("socket"), FreeReaderQuietly("socket"), CloseQuietly("socket"),
                           Throw >>) >>),
            Beside(Join("work"), "timeoutPromise"), Return >>,
         << Return >>) >>

-----------------------------------------------------------------------------
FileProgram ==
  [handleAFPConnect |-> handleAFPConnect,
   handleAFPLogin |-> handleAFPLogin,
   handleAFPListDir |-> handleAFPListDir,
   handleAFPGetInfo |-> handleAFPGetInfo,
   handleAFPCreateDir |-> handleAFPCreateDir,
   handleAFPCreateFile |-> handleAFPCreateFile,
   handleAFPDelete |-> handleAFPDelete,
   handleAFPRename |-> handleAFPRename,
   handleAFPReadFile |-> handleAFPReadFile,
   handleAFPGetServerInfo |-> handleAFPGetServerInfo,
   handleAFPOpenSession |-> handleAFPOpenSession,
   handleAFPWriteFile |-> handleAFPWriteFile,
   handleAFPReadResourceFork |-> handleAFPReadResourceFork,
   handleBitTorrentHandshake |-> handleBitTorrentHandshake,
   handleBitTorrentPiece |-> handleBitTorrentPiece,
   handleBitTorrentScrape |-> handleBitTorrentScrape,
   handleBitTorrentAnnounce |-> handleBitTorrentAnnounce,
   handleCIFSNegotiate |-> handleCIFSNegotiate,
   handleCIFSAuth |-> handleCIFSAuth,
   handleCIFSList |-> handleCIFSList,
   handleCIFSRead |-> handleCIFSRead,
   handleCIFSStat |-> handleCIFSStat,
   handleCIFSWrite |-> handleCIFSWrite,
   handleCVSConnect |-> handleCVSConnect,
   handleCVSList |-> handleCVSList,
   handleCVSCheckout |-> handleCVSCheckout,
   handleCVSLogin |-> handleCVSLogin,
   handleFTPConnect |-> handleFTPConnect,
   handleFTPList |-> handleFTPList,
   handleFTPFeat |-> handleFTPFeat,
   handleFTPStat |-> handleFTPStat,
   handleFTPNlst |-> handleFTPNlst,
   handleFTPSite |-> handleFTPSite,
   handleFTPUpload |-> handleFTPUpload,
   handleFTPDownload |-> handleFTPDownload,
   handleFTPDelete |-> handleFTPDelete,
   handleFTPMkdir |-> handleFTPMkdir,
   handleFTPRmdir |-> handleFTPRmdir,
   handleFTPRename |-> handleFTPRename,
   handleFTPSConnect |-> handleFTPSConnect,
   handleFTPSLogin |-> handleFTPSLogin,
   handleFTPSList |-> handleFTPSList,
   handleFTPSDownload |-> handleFTPSDownload,
   handleFTPSUpload |-> handleFTPSUpload,
   handleFTPSDelete |-> handleFTPSDelete,
   handleFTPSMkdir |-> handleFTPSMkdir,
   handleFTPSRename |-> handleFTPSRename,
   handleGitFetch |-> handleGitFetch,
   handleGitRefs |-> handleGitRefs,
   handleGopherFetch |-> handleGopherFetch,
   handleIPFSProbe |-> handleIPFSProbe,
   handleIPFSAdd |-> handleIPFSAdd,
   handleIPFSCat |-> handleIPFSCat,
   handleIPFSPinAdd |-> handleIPFSPinAdd,
   handleIPFSPinList |-> handleIPFSPinList,
   handleIPFSPinRm |-> handleIPFSPinRm,
   handleIPFSPubsubPub |-> handleIPFSPubsubPub,
   handleIPFSPubsubLs |-> handleIPFSPubsubLs,
   handleIPFSNodeInfo |-> handleIPFSNodeInfo,
   handleNapsterConnect |-> handleNapsterConnect,
   handleNapsterLogin |-> handleNapsterLogin,
   handleNapsterStats |-> handleNapsterStats,
   handleNapsterBrowse |-> handleNapsterBrowse,
   handleNapsterSearch |-> handleNapsterSearch,
   handleNFSProbe |-> handleNFSProbe,
   handleNFSExports |-> handleNFSExports,
   handleNFSLookup |-> handleNFSLookup,
   handleNFSGetAttr |-> handleNFSGetAttr,
   handleNFSRead |-> handleNFSRead,
   handleNFSReaddir |-> handleNFSReaddir,
   handleNFSWrite |-> handleNFSWrite,
   handleNFSCreate |-> handleNFSCreate,
   handleNFSRemove |-> handleNFSRemove,
   handleNFSRename |-> handleNFSRename,
   handleNFSMkdir |-> handleNFSMkdir,
   handleNFSRmdir |-> handleNFSRmdir,
   handle9PConnect |-> handle9PConnect,
   handle9PStat |-> handle9PStat,
   handle9PRead |-> handle9PRead,
   handle9PLs |-> handle9PLs,
   handlePerforceProbe |-> handlePerforceProbe,
   handlePerforceLogin |-> handlePerforceLogin,
   handlePerforceInfo |-> handlePerforceInfo,
   handlePerforceChanges |-> handlePerforceChanges,
   handlePerforceDescribe |-> handlePerforceDescribe,
   handleRsyncConnect |-> handleRsyncConnect,
   handleRsyncAuth |-> handleRsyncAuth,
   handleRsyncModule |-> handleRsyncModule,
   handleSCPConnect |-> handleSCPConnect,
   handleSCPList |-> handleSCPList,
   handleSCPGet |-> handleSCPGet,
   handleSCPPut |-> handleSCPPut,
   handleSFTPConnect |-> handleSFTPConnect,
   handleSFTPList |-> handleSFTPList,
   handleSFTPDownload |-> handleSFTPDownload,
   handleSFTPUpload |-> handleSFTPUpload,
   handleSFTPDelete |-> handleSFTPDelete,
   handleSFTPMkdir |-> handleSFTPMkdir,
   handleSFTPRename |-> handleSFTPRename,
   handleSFTPStat |-> handleSFTPStat,
   handleSMBConnect |-> handleSMBConnect,
   handleSMBNegotiate |-> handleSMBNegotiate,
   handleSMBSession |-> handleSMBSession,
   handleSMBTreeConnect |-> handleSMBTreeConnect,
   handleSMBStat |-> handleSMBStat,
   handleSVNConnect |-> handleSVNConnect,
   handleSVNList |-> handleSVNList,
   handleSVNInfo |-> handleSVNInfo,
   handleUUCPProbe |-> handleUUCPProbe,
   handleUUCPHandshake |-> handleUUCPHandshake]

=============================================================================
