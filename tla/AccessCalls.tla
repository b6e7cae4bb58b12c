---------------------------- MODULE AccessCalls -----------------------------
(* What the handlers of AccessHandlers call of their own files: the        *)
(* clients, readers and logins of directories, logins and relays, as steps *)
(* on the sockets.                                                         *)
EXTENDS SharedCalls

-----------------------------------------------------------------------------
\* src/src/worker/diameter.ts

readDiameterMessage(socket) ==
  Call(<< Task("readPromise",
               << Forever(<< Read(socket), When(GotEnd, << Throw >>), MayThrow, MayReturn >>) >>),
          Race(Join("readPromise"), "throw") >>)

-----------------------------------------------------------------------------
\* src/src/worker/epp.ts

readEPPFrame(socket) ==
  Call(<< BufferedReader_readExact_buffered_reader(socket), MayThrow, MayReturn,
          BufferedReader_readExact_buffered_reader(socket) >>)

openEPPSession(socket) ==
  Call(<< Connect(socket),
          Try(
              << Race(Opened(socket), "throw"), GetReader(socket), GetWriter(socket), readEPPFrame(socket),
                 Maybe(<< Write(socket), readEPPFrame(socket), MayThrow >>), Return >>,
              << CloseQuietly(socket), Throw >>) >>)

sendLogout(socket) ==
  Call(<< Quietly(<< Write(socket), readEPPFrame(socket) >>) >>)

closeEPPSession(socket) ==
  Call(<< TryFinally(<< sendLogout(socket) >>,
                     << FreeReaderQuietly(socket), FreeWriterQuietly(socket), CloseQuietly(socket) >>) >>)

-----------------------------------------------------------------------------
\* src/src/worker/kerberos.ts

sendKerberosRequest ==
  Call(<< Connect("sendKerberosRequest.socket"), Race(Opened("sendKerberosRequest.socket"), "throw"),
          GetWriter("sendKerberosRequest.socket"), GetReader("sendKerberosRequest.socket"),
          Write("sendKerberosRequest.socket"),
          Quietly(<< Loop(<< Race(Read("sendKerberosRequest.socket"), "throw"),
                             If(GotNull, << Break >>, << When(GotNothing, << Break >>) >>), MayBreak >>) >>),
          FreeWriter("sendKerberosRequest.socket"), FreeReader("sendKerberosRequest.socket"),
          CloseQuietly("sendKerberosRequest.socket") >>)

-----------------------------------------------------------------------------
\* src/src/worker/ldap.ts

readLDAPData(socket) ==
  Call(<< Task("readPromise",
               << Loop(<< Read(socket), When(GotNothing, << Break >>), Maybe(<< MayContinue, MayBreak >>) >>) >>),
          Race(Join("readPromise"), "throw") >>)

ldapBindOnSocket(socket) ==
  Call(<< Connect(socket), Race(Opened(socket), "throw"), GetReader(socket), GetWriter(socket), Write(socket),
          readLDAPData(socket), Maybe(<< FreeReader(socket), FreeWriter(socket), Close(socket), Throw >>) >>)

readLDAPSearchData_ldap(socket) ==
  Call(<< Task("readPromise", << Loop(<< Read(socket), When(GotNothing, << Break >>), MayBreak >>) >>),
          Race(Join("readPromise"), "throw") >>)

-----------------------------------------------------------------------------
\* src/src/worker/ldaps.ts

readLDAPResponse(socket) ==
  Call(<< Task("readPromise",
               << Loop(<< Read(socket), When(GotNothing, << Break >>), Maybe(<< MayContinue, MayBreak >>) >>) >>),
          Race(Join("readPromise"), "throw") >>)

ldapsTLSBind(socket) ==
  Call(<< Connect(socket), Race(Opened(socket), "throw"), GetReader(socket), GetWriter(socket), Write(socket),
          readLDAPResponse(socket),
          Maybe(<< FreeReader(socket), FreeWriter(socket), Close(socket), Throw >>) >>)

readLDAPSearchData_ldaps(socket) ==
  Call(<< Task("readPromise", << Loop(<< Read(socket), When(GotNothing, << Break >>), MayBreak >>) >>),
          Race(Join("readPromise"), "throw") >>)

-----------------------------------------------------------------------------
\* src/src/worker/openvpn.ts

handleOpenVPNTLSHandshake_readPacket(socket) ==
  Call(<< MayReturn,
          Loop(<< Race(Read(socket), "end"), When(GotNothing, << Break >>), MayBreak, MayReturn >>) >>)

-----------------------------------------------------------------------------
\* src/src/worker/radius.ts

readExactBytes_radius(socket) ==
  Call(<< Loop(<< Read(socket), When(GotNothing, << Throw >>) >>) >>)

readExactBytes_radius_2(socket) ==
  Call(<< MayReturn, Loop(<< Read(socket), When(GotNothing, << Throw >>) >>) >>)

-----------------------------------------------------------------------------
\* src/src/worker/radsec.ts

encodePasswordAttribute ==
  Call(<< Loop(<< Await >>) >>)

computeMessageAuthenticator ==
  Call(<< Await, Await >>)

encodeAccessRequest ==
  Call(<< encodePasswordAttribute, MayThrow, computeMessageAuthenticator >>)

validateResponseAuthenticator ==
  Call(<< MayReturn, Await, MayReturn >>)

encodeAccountingRequest ==
  Call(<< Await >>)

-----------------------------------------------------------------------------
\* src/src/worker/socks4.ts

readExactly_socks4(socket) ==
  Call(<< Loop(<< Race(Read(socket), "throw"), When(GotNothing, << Throw >>) >>) >>)

-----------------------------------------------------------------------------
\* src/src/worker/stun.ts

readStunMessage(socket) ==
  Call(<< Task("readPromise", << Forever(<< Read(socket), When(GotEnd, << Throw >>), MayReturn >>) >>),
          Race(Join("readPromise"), "throw") >>)

-----------------------------------------------------------------------------
\* src/src/worker/tacacs.ts

readExactBytes_tacacs(socket) ==
  Call(<< Loop(<< Read(socket), When(GotNothing, << Throw >>) >>) >>)

readExactBytes_tacacs_2(socket) ==
  Call(<< MayReturn, Loop(<< Read(socket), When(GotNothing, << Throw >>) >>) >>)

-----------------------------------------------------------------------------
\* src/src/worker/torcontrol.ts

readTorResponse(socket) ==
  Call(<< Task("readPromise", << Forever(<< Read(socket), When(GotEnd, << Break >>), MayReturn >>) >>),
          Race(Join("readPromise"), "null") >>)

sendTorCommand(socket) ==
  Call(<< Write(socket), readTorResponse(socket) >>)

-----------------------------------------------------------------------------
\* src/src/worker/turn.ts

hmacSha1 ==
  Call(<< Await, Await >>)

appendMessageIntegrity ==
  Call(<< hmacSha1 >>)

=============================================================================
