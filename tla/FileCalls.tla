----------------------------- MODULE FileCalls ------------------------------
(* What the handlers of FileHandlers call of their own files: the clients, *)
(* readers and logins of file servers, as steps on the sockets.            *)
EXTENDS SharedCalls

-----------------------------------------------------------------------------
\* src/src/worker/afp.ts

validateBase ==
  Call(<< MayReturn, checkIfCloudflare, MayReturn >>)

readExact_afp(socket) ==
  Call(<< Loop(<< MayThrow, Race(Read(socket), "end"), When(GotNothing, << Throw >>) >>) >>)

AFPSession_connect(socket) ==
  Call(<< Connect(socket), Opened(socket), GetReader(socket), GetWriter(socket) >>)

readDSIResponse(socket) ==
  Call(<< readExact_afp(socket), MayThrow, Maybe(<< readExact_afp(socket) >>) >>)

AFPSession_openSession(socket) ==
  Call(<< Write(socket), readDSIResponse(socket), MayThrow >>)

AFPSession_sendCommand(socket) ==
  Call(<< Write(socket), Forever(<< readDSIResponse(socket), MayContinue, MayThrow, Return >>) >>)

AFPSession_login(socket) ==
  Call(<< MayThrow, AFPSession_sendCommand(socket) >>)

AFPSession_listVolumes(socket) ==
  Call(<< AFPSession_sendCommand(socket) >>)

AFPSession_logout(socket) ==
  Call(<< Quietly(<< AFPSession_sendCommand(socket) >>) >>)

AFPSession_close(socket) ==
  Call(<< Quietly(<< Write(socket) >>), FreeReaderQuietly(socket), FreeWriterQuietly(socket),
          CloseQuietly(socket) >>)

AFPSession_openVolume(socket) ==
  Call(<< MayThrow, AFPSession_sendCommand(socket), MayThrow >>)

AFPSession_listDir(socket) ==
  Call(<< Forever(<< AFPSession_sendCommand(socket), MayBreak >>) >>)

AFPSession_closeVolume(socket) ==
  Call(<< Quietly(<< AFPSession_sendCommand(socket) >>) >>)

AFPSession_getInfo(socket) ==
  Call(<< MayThrow, AFPSession_sendCommand(socket) >>)

AFPSession_createDir(socket) ==
  Call(<< MayThrow, AFPSession_sendCommand(socket) >>)

AFPSession_createFile(socket) ==
  Call(<< MayThrow, AFPSession_sendCommand(socket) >>)

AFPSession_delete(socket) ==
  Call(<< MayThrow, AFPSession_sendCommand(socket) >>)

AFPSession_rename(socket) ==
  Call(<< MayThrow, AFPSession_sendCommand(socket) >>)

AFPSession_readFile(socket) ==
  Call(<< MayThrow, AFPSession_sendCommand(socket),
          TryFinally(<< MayThrow, AFPSession_sendCommand(socket), Return >>,
                     << Quietly(<< AFPSession_sendCommand(socket) >>) >>) >>)

AFPSession_writeFile(socket) ==
  Call(<< Maybe(<< Try(<< MayThrow, AFPSession_sendCommand(socket) >>, << MayThrow >>) >>), MayThrow,
          AFPSession_sendCommand(socket),
          TryFinally(<< MayThrow, AFPSession_sendCommand(socket), MayThrow, Return >>,
                     << Quietly(<< AFPSession_sendCommand(socket) >>) >>) >>)

AFPSession_readResourceFork(socket) ==
  Call(<< MayThrow, AFPSession_sendCommand(socket),
          TryFinally(<< MayThrow, AFPSession_sendCommand(socket), Return >>,
                     << Quietly(<< AFPSession_sendCommand(socket) >>) >>) >>)

-----------------------------------------------------------------------------
\* src/src/worker/bittorrent.ts

handleBitTorrentPiece_readPeerMessage(socket) ==
  Call(<< BufferedReader_readExact_buffered_reader(socket), MayReturn, MayThrow,
          BufferedReader_readExact_buffered_reader(socket) >>)

-----------------------------------------------------------------------------
\* src/src/worker/cifs.ts

readSmb2Msg(socket) ==
  Call(<< Loop(<< MayThrow, Race(Read(socket), "throw"), When(GotNothing, << Throw >>), MayThrow >>) >>)

withSmbShare(work) ==
  Call(<< Connect("withSmbShare.socket"),
          Try(
              << Race(Opened("withSmbShare.socket"), "throw"), GetWriter("withSmbShare.socket"),
                 GetReader("withSmbShare.socket"), Write("withSmbShare.socket"),
                 readSmb2Msg("withSmbShare.socket"), MayThrow, Write("withSmbShare.socket"),
                 readSmb2Msg("withSmbShare.socket"), MayThrow, Write("withSmbShare.socket"),
                 readSmb2Msg("withSmbShare.socket"), MayThrow, Write("withSmbShare.socket"),
                 readSmb2Msg("withSmbShare.socket"), MayThrow,
                 Try(
                     << Call(work),
                        Quietly(<< Write("withSmbShare.socket"), readSmb2Msg("withSmbShare.socket"),
                                   Write("withSmbShare.socket"), readSmb2Msg("withSmbShare.socket") >>),
                        FreeWriter("withSmbShare.socket"), FreeReader("withSmbShare.socket"),
                        CloseQuietly("withSmbShare.socket"), Return >>,
                     << Quietly(<< Write("withSmbShare.socket"), Write("withSmbShare.socket") >>),
                        FreeWriter("withSmbShare.socket"), FreeReader("withSmbShare.socket"),
                        CloseQuietly("withSmbShare.socket"), Throw >>) >>,
              << CloseQuietly("withSmbShare.socket"), Throw >>) >>)

-----------------------------------------------------------------------------
\* src/src/worker/cvs.ts

readLines_cvs(socket) ==
  Call(<< Loop(<< Race(Read(socket), "end"), When(GotNothing, << Break >>), MayBreak >>) >>)

readAllLines_cvs(socket) ==
  Call(<< Loop(<< Race(Read(socket), "end"), When(GotNothing, << Break >>) >>) >>)

-----------------------------------------------------------------------------
\* src/src/worker/ftp.ts

FTPClient_readResponse(controlSocket) ==
  Call(<< When(NoReader(controlSocket), << Throw >>),
          Forever(<< Race(Read(controlSocket), "throw"), When(GotEnd, << Break >>), MayThrow, MayBreak >>) >>)

FTPClient_sendCommand(controlSocket) ==
  Call(<< When(NoWriter(controlSocket), << Throw >>), Write(controlSocket) >>)

FTPClient_connect(controlSocket) ==
  Call(<< Connect(controlSocket), Race(Opened(controlSocket), "throw"), GetReader(controlSocket),
          GetWriter(controlSocket), FTPClient_readResponse(controlSocket), MayThrow,
          FTPClient_sendCommand(controlSocket), FTPClient_readResponse(controlSocket),
          Maybe(<< Either(<< FTPClient_sendCommand(controlSocket), FTPClient_readResponse(controlSocket),
                             MayThrow >>,
                          << Throw >>) >>),
          FTPClient_sendCommand(controlSocket), FTPClient_readResponse(controlSocket) >>)

FTPClient_pwd(controlSocket) ==
  Call(<< FTPClient_sendCommand(controlSocket), FTPClient_readResponse(controlSocket), MayThrow >>)

FTPClient_close(controlSocket) ==
  Call(<< When(HasSocket(controlSocket),
               << Quietly(<< FTPClient_sendCommand(controlSocket) >>),
                  Quietly(<< When(HasWriter(controlSocket), << FreeWriter(controlSocket) >>) >>),
                  Quietly(<< When(HasReader(controlSocket), << FreeReader(controlSocket) >>) >>),
                  CloseQuietly(controlSocket), ForgetSocket(controlSocket), ForgetReader(controlSocket),
                  ForgetWriter(controlSocket) >>) >>)

FTPClient_enterPassiveMode(controlSocket) ==
  Call(<< FTPClient_sendCommand(controlSocket), FTPClient_readResponse(controlSocket), MayThrow,
          checkIfCloudflare, MayThrow >>)

FTPClient_mlsd(controlSocket) ==
  Call(<< Maybe(<< FTPClient_sendCommand(controlSocket), FTPClient_readResponse(controlSocket), MayThrow >>),
          FTPClient_enterPassiveMode(controlSocket), Connect("mlsd.dataSocket"),
          FTPClient_sendCommand(controlSocket),
          Task("readResponse1", << FTPClient_readResponse(controlSocket) >>), Opened("mlsd.dataSocket"),
          JoinAll({"readResponse1"}), Maybe(<< Close("mlsd.dataSocket"), Throw >>),
          GetReader("mlsd.dataSocket"),
          TryFinally(<< Forever(<< MayThrow, Race(Read("mlsd.dataSocket"), "throw"),
                                   When(GotEnd, << Break >>), MayThrow >>) >>,
                     << FreeReaderQuietly("mlsd.dataSocket"), CloseQuietly("mlsd.dataSocket") >>),
          RaceTask(<< FTPClient_readResponse(controlSocket) >>, "throw"), MayThrow >>)

FTPClient_list(controlSocket) ==
  Call(<< Maybe(<< Quietly(<< FTPClient_mlsd(controlSocket), Return >>) >>),
          Maybe(<< FTPClient_sendCommand(controlSocket), FTPClient_readResponse(controlSocket), MayThrow >>),
          FTPClient_enterPassiveMode(controlSocket), Connect("list.dataSocket2"),
          FTPClient_sendCommand(controlSocket),
          Task("readResponse1", << FTPClient_readResponse(controlSocket) >>), Opened("list.dataSocket2"),
          JoinAll({"readResponse1"}), Maybe(<< Close("list.dataSocket2"), Throw >>),
          GetReader("list.dataSocket2"),
          TryFinally(<< Forever(<< MayThrow, Race(Read("list.dataSocket2"), "throw"),
                                   When(GotEnd, << Break >>), MayThrow >>) >>,
                     << FreeReaderQuietly("list.dataSocket2"), CloseQuietly("list.dataSocket2") >>),
          RaceTask(<< FTPClient_readResponse(controlSocket) >>, "throw"), MayThrow >>)

FTPClient_feat(controlSocket) ==
  Call(<< FTPClient_sendCommand(controlSocket), FTPClient_readResponse(controlSocket), MayThrow >>)

FTPClient_size(controlSocket) ==
  Call(<< FTPClient_sendCommand(controlSocket), FTPClient_readResponse(controlSocket), MayThrow >>)

FTPClient_mdtm(controlSocket) ==
  Call(<< FTPClient_sendCommand(controlSocket), FTPClient_readResponse(controlSocket), MayThrow >>)

FTPClient_stat(controlSocket) ==
  Call(<< FTPClient_size(controlSocket), FTPClient_mdtm(controlSocket) >>)

FTPClient_nlst(controlSocket) ==
  Call(<< FTPClient_enterPassiveMode(controlSocket), Connect("nlst.dataSocket"),
          FTPClient_sendCommand(controlSocket),
          Task("readResponse1", << FTPClient_readResponse(controlSocket) >>), Opened("nlst.dataSocket"),
          JoinAll({"readResponse1"}), Maybe(<< Close("nlst.dataSocket"), Throw >>),
          GetReader("nlst.dataSocket"),
          TryFinally(<< Forever(<< MayThrow, Race(Read("nlst.dataSocket"), "throw"),
                                   When(GotEnd, << Break >>), MayThrow >>) >>,
                     << FreeReaderQuietly("nlst.dataSocket"), CloseQuietly("nlst.dataSocket") >>),
          RaceTask(<< FTPClient_readResponse(controlSocket) >>, "throw"), MayThrow >>)

FTPClient_site(controlSocket) ==
  Call(<< FTPClient_sendCommand(controlSocket), FTPClient_readResponse(controlSocket) >>)

FTPClient_upload(controlSocket) ==
  Call(<< FTPClient_enterPassiveMode(controlSocket), Connect("upload.dataSocket"),
          FTPClient_sendCommand(controlSocket),
          Task("readResponse1", << FTPClient_readResponse(controlSocket) >>), Opened("upload.dataSocket"),
          JoinAll({"readResponse1"}), Maybe(<< Close("upload.dataSocket"), Throw >>),
          GetWriter("upload.dataSocket"),
          TryFinally(<< Write("upload.dataSocket"), Finish("upload.dataSocket") >>,
                     << FreeWriterQuietly("upload.dataSocket"), CloseQuietly("upload.dataSocket") >>),
          RaceTask(<< FTPClient_readResponse(controlSocket) >>, "throw"), MayThrow >>)

FTPClient_download(controlSocket) ==
  Call(<< FTPClient_enterPassiveMode(controlSocket), Connect("download.dataSocket"),
          FTPClient_sendCommand(controlSocket),
          Task("readResponse1", << FTPClient_readResponse(controlSocket) >>), Opened("download.dataSocket"),
          JoinAll({"readResponse1"}), Maybe(<< Close("download.dataSocket"), Throw >>),
          GetReader("download.dataSocket"),
          TryFinally(<< Forever(<< MayThrow, Race(Read("download.dataSocket"), "throw"),
                                   When(GotEnd, << Break >>), MayThrow >>) >>,
                     << FreeReaderQuietly("download.dataSocket"), CloseQuietly("download.dataSocket") >>),
          RaceTask(<< FTPClient_readResponse(controlSocket) >>, "throw"), MayThrow >>)

FTPClient_delete(controlSocket) ==
  Call(<< FTPClient_sendCommand(controlSocket), FTPClient_readResponse(controlSocket), MayThrow >>)

FTPClient_mkdir(controlSocket) ==
  Call(<< FTPClient_sendCommand(controlSocket), FTPClient_readResponse(controlSocket), MayThrow >>)

FTPClient_rmdir(controlSocket) ==
  Call(<< FTPClient_sendCommand(controlSocket), FTPClient_readResponse(controlSocket), MayThrow >>)

FTPClient_rename(controlSocket) ==
  Call(<< FTPClient_sendCommand(controlSocket), FTPClient_readResponse(controlSocket), MayThrow,
          FTPClient_sendCommand(controlSocket), FTPClient_readResponse(controlSocket), MayThrow >>)

-----------------------------------------------------------------------------
\* src/src/worker/ftps.ts

FTPSSession_constructor(socket) ==
  Call(<< GetReader(socket), GetWriter(socket) >>)

openFTPSSession(socket) ==
  Call(<< Connect(socket), Race(Opened(socket), "throw"), FTPSSession_constructor(socket) >>)

FTPSSession_readResponse(socket) ==
  Call(<< Loop(<< Race(Read(socket), "end"), When(GotNothing, << Break >>), MayBreak >>) >>)

FTPSSession_sendCommand(socket) ==
  Call(<< Write(socket) >>)

authenticateFTPSSession(socket) ==
  Call(<< FTPSSession_readResponse(socket), MayThrow, FTPSSession_sendCommand(socket),
          FTPSSession_readResponse(socket), MayThrow,
          Maybe(<< FTPSSession_sendCommand(socket), FTPSSession_readResponse(socket), MayThrow >>),
          FTPSSession_sendCommand(socket), FTPSSession_readResponse(socket), MayThrow >>)

FTPSSession_close(socket) ==
  Call(<< Quietly(<< FTPSSession_sendCommand(socket) >>), FreeWriterQuietly(socket),
          FreeReaderQuietly(socket), CloseQuietly(socket) >>)

FTPSSession_enterPassiveMode(socket) ==
  Call(<< FTPSSession_sendCommand(socket), FTPSSession_readResponse(socket), MayThrow, checkIfCloudflare,
          MayThrow >>)

FTPSSession_openDataSocket(socket) ==
  Call(<< Connect(socket) >>)

-----------------------------------------------------------------------------
\* src/src/worker/git.ts

readExactBytes_git(socket) ==
  Call(<< Loop(<< Read(socket), When(GotNothing, << Throw >>), MayThrow >>) >>)

readPktLines(socket) ==
  Call(<< Loop(<< readExactBytes_git(socket), MayBreak, MayContinue, MayThrow,
                  Maybe(<< readExactBytes_git(socket) >>) >>) >>)

-----------------------------------------------------------------------------
\* src/src/worker/napster.ts

performLogin(socket) ==
  Call(<< Write(socket),
          Loop(<< MayBreak, Race(Read(socket), "end"), When(GotNothing, << Break >>), MayThrow, MayBreak >>) >>)

-----------------------------------------------------------------------------
\* src/src/worker/nfs.ts

sendRpcCall ==
  Call(<< Connect("sendRpcCall.socket"), Race(Opened("sendRpcCall.socket"), "throw"),
          GetWriter("sendRpcCall.socket"), GetReader("sendRpcCall.socket"), Write("sendRpcCall.socket"),
          Quietly(<< Forever(<< Race(Read("sendRpcCall.socket"), "throw"), When(GotNothing, << Break >>),
                                MayBreak >>) >>),
          FreeWriter("sendRpcCall.socket"), FreeReader("sendRpcCall.socket"),
          CloseQuietly("sendRpcCall.socket"), MayReturn >>)

mountExportPath ==
  Call(<< Loop(<< sendRpcCall, MayReturn >>) >>)

resolveNFSFilePath ==
  Call(<< Loop(<< sendRpcCall, MayReturn >>) >>)

-----------------------------------------------------------------------------
\* src/src/worker/ninep.ts

read9PMessage(socket) ==
  Call(<< Loop(<< Race(Read(socket), "end"), When(GotNothing, << Break >>), MayThrow,
                  Maybe(<< MayBreak, MayReturn >>) >>) >>)

ninePHandshake(socket) ==
  Call(<< Write(socket), read9PMessage(socket), MayThrow, Write(socket), read9PMessage(socket), MayThrow,
          Maybe(<< MayThrow, Throw >>) >>)

-----------------------------------------------------------------------------
\* src/src/worker/rsync.ts

readAllLines_rsync(socket) ==
  Call(<< Quietly(<< Loop(<< Race(Read(socket), "end"), When(GotNothing, << Break >>) >>) >>) >>)

-----------------------------------------------------------------------------
\* src/src/worker/scp.ts

collectExecOutput(socket) ==
  Call(<< Loop(<< Try(<< RaceTask(<< openSSHSubsystem_readChannelData(socket) >>, "throw") >>, << Break >>),
                  MayBreak >>) >>)

-----------------------------------------------------------------------------
\* src/src/worker/sftp.ts

SFTPSession_send(socket) ==
  Call(<< openSSHSubsystem_sendChannelData(socket) >>)

SFTPSession_recv(socket) ==
  Call(<< Forever(<< MayReturn, openSSHSubsystem_readChannelData(socket), MayThrow >>) >>)

openSFTP(socket) ==
  Call(<< checkIfCloudflare, MayThrow, Connect(socket), Race(Opened(socket), "throw"),
          Try(<< openSSHSubsystem(socket) >>, << CloseQuietly(socket), Throw >>),
          Try(
              << SFTPSession_send(socket), SFTPSession_recv(socket), MayThrow >>,
              << Task("close", << openSSHSubsystem_close_2(socket) >>), CloseQuietly(socket), Throw >>) >>)

SFTPSession_send_2(socket) ==
  Call(<< openSSHSubsystem_sendChannelData_2(socket) >>)

SFTPSession_rpc(socket) ==
  Call(<< SFTPSession_send_2(socket), Forever(<< SFTPSession_recv(socket), MayReturn >>) >>)

-----------------------------------------------------------------------------
\* src/src/worker/smb.ts

readResponse_smb(socket) ==
  Call(<< Loop(<< Race(Read(socket), "end"), When(GotNothing, << Break >>), MayBreak >>) >>)

-----------------------------------------------------------------------------
\* src/src/worker/svn.ts

readSvnResponse(socket) ==
  Call(<< Loop(<< MayThrow, Race(Read(socket), "end"), When(GotNothing, << Break >>), MayReturn >>) >>)

=============================================================================
