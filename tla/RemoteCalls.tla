---------------------------- MODULE RemoteCalls -----------------------------
(* What the handlers of RemoteHandlers call of their own files: the        *)
(* clients, readers and logins of remote shells and desktops, as steps on  *)
(* the sockets.                                                            *)
EXTENDS SharedCalls

-----------------------------------------------------------------------------
\* src/src/worker/rsh.ts

tryPair(socket) ==
  << Try(<< Connect(socket), Race(Opened(socket), "throw"), GetReader(socket), GetWriter(socket),
            TryFinally(<< Write(socket), Write(socket), Write(socket), Write(socket),
                          Race(Read(socket), "end"), When(GotNothing, << Return >>),
                          Maybe(<< Loop(<< Race(Read(socket), "end"), When(GotNothing, << Break >>) >>) >>),
                          Return >>,
                       << FreeReaderQuietly(socket), FreeWriterQuietly(socket), CloseQuietly(socket) >>) >>,
         << Return >>) >>

-----------------------------------------------------------------------------
\* src/src/worker/spice.ts

readAtLeast_spice(socket) ==
  Call(<< Loop(<< Race(Read(socket), "end"), When(GotNothing, << Break >>) >>) >>)

-----------------------------------------------------------------------------
\* src/src/worker/ssh.ts

sshReadAtLeast(socket) ==
  Call(<< Loop(<< MayThrow, Race(Read(socket), "null"),
                  If(GotNull, << Throw >>, << When(GotNothing, << Throw >>) >>) >>) >>)

readSSHBanner(socket) ==
  Call(<< Forever(<< Maybe(<< MayThrow, sshReadAtLeast(socket) >>), MayReturn, MayThrow >>) >>)

readSSHPacket(socket) ==
  Call(<< Maybe(<< sshReadAtLeast(socket) >>), MayThrow, Loop(<< sshReadAtLeast(socket) >>), MayThrow >>)

-----------------------------------------------------------------------------
\* src/src/worker/telnet.ts

handleTelnetLogin_readUntilPrompt(socket) ==
  Call(<< Loop(<< MayBreak, Race(Read(socket), "null"), MayBreak,
                  Maybe(<< Task("caught", << Quietly(<< Write(socket) >>) >>) >>), MayBreak >>) >>)

-----------------------------------------------------------------------------
\* src/src/worker/vnc.ts

BufferedReader_readExact_vnc(socket) ==
  Call(<< Loop(<< Read(socket), When(GotNothing, << Throw >>) >>) >>)

BufferedReader_releaseLock_vnc(socket) ==
  Call(<< FreeReader(socket) >>)

-----------------------------------------------------------------------------
\* src/src/worker/winrm.ts

sendHttpRequest_winrm ==
  Call(<< Connect("sendHttpRequest.socket"), Race(Opened("sendHttpRequest.socket"), "throw"),
          GetWriter("sendHttpRequest.socket"),
          Either(<< Write("sendHttpRequest.socket"), Write("sendHttpRequest.socket") >>,
                 << Write("sendHttpRequest.socket") >>),
          FreeWriter("sendHttpRequest.socket"), GetReader("sendHttpRequest.socket"),
          Loop(<< Race(Read("sendHttpRequest.socket"), "throw"), When(GotEnd, << Break >>) >>),
          FreeReader("sendHttpRequest.socket"), CloseQuietly("sendHttpRequest.socket"), MayThrow >>)

winrmFetch ==
  Call(<< Await, Await >>)

sendHttpRequest_winrm_2 ==
  Call(<< Connect("sendHttpRequest.socket"), Race(Opened("sendHttpRequest.socket"), "throw"),
          GetWriter("sendHttpRequest.socket"), Write("sendHttpRequest.socket"),
          FreeWriter("sendHttpRequest.socket"), GetReader("sendHttpRequest.socket"),
          Loop(<< Race(Read("sendHttpRequest.socket"), "throw"), When(GotEnd, << Break >>) >>),
          FreeReader("sendHttpRequest.socket"), CloseQuietly("sendHttpRequest.socket"), MayThrow >>)

-----------------------------------------------------------------------------
\* src/src/worker/x11.ts

readX11Reply(socket) ==
  Call(<< BufferedReader_readExact_buffered_reader(socket), MayReturn, MayThrow,
          BufferedReader_readExact_buffered_reader(socket) >>)

=============================================================================
