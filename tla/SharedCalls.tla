----------------------------- MODULE SharedCalls ----------------------------
(* What handlers of several files call: the Cloudflare check, the          *)
(* buffered reader, the SSH client and the Gadu-Gadu login.                *)
EXTENDS HandlerSteps

-----------------------------------------------------------------------------
\* src/src/worker/buffered-reader.ts

BufferedReader_readExact_buffered_reader(socket) ==
  Call(<< MayThrow, Loop(<< Race(Read(socket), "throw"), When(GotNothing, << Throw >>) >>) >>)

BufferedReader_readExact_buffered_reader_2(socket) ==
  Call(<< MayThrow, Loop(<< Read(socket), When(GotNothing, << Throw >>) >>) >>)

-----------------------------------------------------------------------------
\* src/src/worker/cloudflare-detector.ts

checkIfCloudflare ==
  Call(<< Try(
              << MayReturn, Await, Await, Maybe(<< Await >>), Maybe(<< Await >>), MayReturn, Return >>,
              << Return >>) >>)

-----------------------------------------------------------------------------
\* src/src/worker/protocols/gadugadu/utils.ts

(* Bug: after a timeout it reads again.                                    *)
BufferedReader_readBytes_Again(socket) ==
  Call(<< Loop(<< Race(Read(socket), "null"), When(GotEnd, << Throw >>) >>) >>)

(* Bug: the read has no timer.                                             *)
BufferedReader_readBytes_Untimed(socket) ==
  Call(<< Loop(<< Read(socket), When(GotEnd, << Throw >>) >>) >>)

BufferedReader_readBytes(socket) ==
  Call(<< Loop(<< Race(Read(socket), "throw"), When(GotEnd, << Throw >>) >>) >>)

readPacket_utils(socket) ==
  Call(<< BufferedReader_readBytes(socket), MayThrow,
          Maybe(<< MayThrow, BufferedReader_readBytes(socket) >>) >>)

sha1Hash ==
  Call(<< Await >>)

buildLoginPacket ==
  Call(<< Maybe(<< sha1Hash >>) >>)

-----------------------------------------------------------------------------
\* src/src/worker/protocols/gadugadu/client.ts

(* Bug: the socket is forgotten and not closed.                            *)
GaduGaduClient_close_Forgets(socket) ==
  Call(<< ForgetSocket(socket) >>)

GaduGaduClient_close(socket) ==
  Call(<< When(HasSocket(socket), << CloseQuietly(socket), ForgetSocket(socket) >>) >>)

GaduGaduClient_connect ==
  Call(<< TryCatchFinally(<< Connect("connect.socket"), Race(Opened("connect.socket"), "throw"),
                             GetReader("connect.socket"), GetWriter("connect.socket"),
                             TryFinally(<< readPacket_utils("connect.socket"), MayThrow, buildLoginPacket,
                                           Write("connect.socket"), readPacket_utils("connect.socket") >>,
                                        << FreeReader("connect.socket"), FreeWriter("connect.socket") >>),
                             Return >>,
                          << Return >>, << GaduGaduClient_close("connect.socket") >>) >>)

connectGaduGadu ==
  Call(<< MayThrow, GaduGaduClient_connect >>)

-----------------------------------------------------------------------------
\* src/src/worker/ssh2-impl.ts

exchangeHash ==
  Call(<< Await >>)

deriveKey ==
  Call(<< Await, MayReturn, Await >>)

buildEncPacket ==
  Call(<< Await, Await >>)

PacketReader_readEncrypted ==
  Call(<< MayReturn, Await, MayThrow, MayReturn, Maybe(<< Await >>), Await, MayThrow >>)

openSSHSubsystem_readPayload2(socket) ==
  Call(<< Either(<< Forever(<< MayReturn, Read(socket), When(GotEnd, << Throw >>) >>) >>,
                 << Forever(<< PacketReader_readEncrypted, MayReturn, Read(socket),
                               When(GotEnd, << Throw >>) >>) >>) >>)

parseOpenSshEd25519 ==
  Call(<< MayThrow, Maybe(<< MayThrow, Await, Await >>), MayThrow >>)

openSSHSubsystem(socket) ==
  Call(<< GetReader(socket), GetWriter(socket), Loop(<< Read(socket), When(GotEnd, << Throw >>), MayThrow >>),
          Write(socket), Write(socket),
          Call(<< Forever(<< MayReturn, Read(socket), When(GotEnd, << Throw >>) >>) >>), MayThrow, Await,
          Await, Write(socket), Call(<< Forever(<< MayReturn, Read(socket), When(GotEnd, << Throw >>) >>) >>),
          MayThrow, Await, Await, exchangeHash, Write(socket),
          Call(<< Forever(<< MayReturn, Read(socket), When(GotEnd, << Throw >>) >>) >>), MayThrow,
          Task("deriveKey1", << deriveKey >>), Task("deriveKey2", << deriveKey >>),
          Task("deriveKey3", << deriveKey >>), Task("deriveKey4", << deriveKey >>),
          Task("deriveKey5", << deriveKey >>), Task("deriveKey6", << deriveKey >>),
          JoinAll({"deriveKey1", "deriveKey2", "deriveKey3", "deriveKey4", "deriveKey5", "deriveKey6"}),
          Await, Await, Await, Await, Either(<< Write(socket) >>, << buildEncPacket, Write(socket) >>),
          openSSHSubsystem_readPayload2(socket), MayThrow,
          Either(<< Either(<< Write(socket) >>, << buildEncPacket, Write(socket) >>) >>,
                 << Either(<< parseOpenSshEd25519, Await, Await,
                              Either(<< Write(socket) >>, << buildEncPacket, Write(socket) >>) >>,
                           << Throw >>) >>),
          Forever(<< openSSHSubsystem_readPayload2(socket), MayBreak, MayThrow,
                     Maybe(<< MayThrow,
                              Maybe(<< Either(<< Write(socket) >>, << buildEncPacket, Write(socket) >>) >>),
                              Continue >>) >>),
          Either(<< Write(socket) >>, << buildEncPacket, Write(socket) >>),
          Forever(<< openSSHSubsystem_readPayload2(socket), MayBreak, Maybe(<< MayThrow, Throw >>),
                     Maybe(<< MayThrow,
                              Maybe(<< Either(<< Write(socket) >>, << buildEncPacket, Write(socket) >>) >>),
                              Continue >>) >>),
          Either(<< Write(socket) >>, << buildEncPacket, Write(socket) >>),
          Forever(<< openSSHSubsystem_readPayload2(socket),
                     Maybe(<< MayThrow,
                              Maybe(<< Either(<< Write(socket) >>, << buildEncPacket, Write(socket) >>) >>),
                              Continue >>),
                     MayContinue, MayBreak, MayThrow >>) >>)

openSSHSubsystem_handleChannelRequest(socket) ==
  Call(<< MayThrow,
          Maybe(<< Task("sendPayload2",
                        << Quietly(<< Either(<< Write(socket) >>, << buildEncPacket, Write(socket) >>) >>) >>) >>) >>)

openSSHSubsystem_readChannelData(socket) ==
  Call(<< Forever(<< openSSHSubsystem_readPayload2(socket),
                     Maybe(<< MayThrow,
                              Maybe(<< Quietly(<< Either(<< Write(socket) >>,
                                                         << buildEncPacket, Write(socket) >>) >>) >>),
                              Return >>),
                     Maybe(<< MayThrow,
                              Maybe(<< Quietly(<< Either(<< Write(socket) >>,
                                                         << buildEncPacket, Write(socket) >>) >>) >>),
                              Return >>),
                     MayReturn,
                     Maybe(<< Quietly(<< Either(<< Write(socket) >>, << buildEncPacket, Write(socket) >>) >>),
                              Return >>),
                     MayContinue, Maybe(<< openSSHSubsystem_handleChannelRequest(socket), Continue >>),
                     Maybe(<< MayThrow,
                              Maybe(<< Either(<< Write(socket) >>, << buildEncPacket, Write(socket) >>) >>),
                              Continue >>) >>) >>)

openSSHSubsystem_close(socket) ==
  Call(<< Quietly(<< Either(<< Write(socket) >>, << buildEncPacket, Write(socket) >>) >>),
          FreeReaderQuietly(socket), FreeWriterQuietly(socket), CloseQuietly(socket) >>)

openSSHSubsystem_sendChannelData(socket) ==
  Call(<< Loop(<< Loop(<< openSSHSubsystem_readPayload2(socket),
                          Maybe(<< Either(<< Throw >>,
                                          << Either(<< Quietly(
                                                           << Either(
                                                                  << Write(socket) >>,
                                                                  << buildEncPacket, Write(socket) >>) >>),
                                                       Throw >>,
                                                    << Either(
                                                           << MayThrow,
                                                              Maybe(
                                                                  << Either(
                                                                         << Write(socket) >>,
                                                                         << buildEncPacket, Write(socket) >>) >>) >>,
                                                           << Maybe(
                                                                  << openSSHSubsystem_handleChannelRequest(
                                                                         socket) >>) >>) >>) >>) >>) >>),
                  Either(<< Write(socket) >>, << buildEncPacket, Write(socket) >>) >>) >>)

openSSHSubsystem_sendChannelData_2(socket) ==
  Call(<< MayThrow,
          Loop(<< Loop(<< openSSHSubsystem_readPayload2(socket),
                          Maybe(<< Either(<< Throw >>,
                                          << Either(<< Quietly(
                                                           << Either(
                                                                  << Write(socket) >>,
                                                                  << buildEncPacket, Write(socket) >>) >>),
                                                       Throw >>,
                                                    << Either(
                                                           << MayThrow,
                                                              Maybe(
                                                                  << Either(
                                                                         << Write(socket) >>,
                                                                         << buildEncPacket, Write(socket) >>) >>) >>,
                                                           << Maybe(
                                                                  << openSSHSubsystem_handleChannelRequest(
                                                                         socket) >>) >>) >>) >>) >>) >>),
                  Either(<< Write(socket) >>, << buildEncPacket, Write(socket) >>) >>) >>)

openSSHSubsystem_close_2(socket) ==
  Call(<< Maybe(<< Quietly(<< Either(<< Write(socket) >>, << buildEncPacket, Write(socket) >>) >>) >>),
          FreeReaderQuietly(socket), FreeWriterQuietly(socket), CloseQuietly(socket) >>)

=============================================================================
