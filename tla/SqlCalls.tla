------------------------------ MODULE SqlCalls ------------------------------
(* What the handlers of SqlHandlers call of their own files: the clients,  *)
(* readers and logins of SQL databases, as steps on the sockets.           *)
EXTENDS SharedCalls

-----------------------------------------------------------------------------
\* src/src/worker/cassandra.ts

BufferedReader_readExact_cassandra(socket) ==
  Call(<< Loop(<< Read(socket), When(GotNothing, << Throw >>) >>) >>)

readFrame_cassandra(socket) ==
  Call(<< BufferedReader_readExact_cassandra(socket), MayThrow,
          Maybe(<< BufferedReader_readExact_cassandra(socket) >>) >>)

BufferedReader_releaseLock_cassandra(socket) ==
  Call(<< FreeReader(socket) >>)

-----------------------------------------------------------------------------
\* src/src/worker/clickhouse.ts

readNativeResponse(socket) ==
  Call(<< Race(Read(socket), "throw"), When(GotNothing, << Return >>),
          Quietly(<< Loop(<< Race(Read(socket), "throw"), When(GotNothing, << Break >>) >>) >>) >>)

sendHttpRequest_clickhouse ==
  Call(<< Connect("sendHttpRequest.socket"),
          TryFinally(<< Race(Opened("sendHttpRequest.socket"), "throw"), GetWriter("sendHttpRequest.socket"),
                        Write("sendHttpRequest.socket"), FreeWriter("sendHttpRequest.socket"),
                        GetReader("sendHttpRequest.socket"),
                        Loop(<< Race(Read("sendHttpRequest.socket"), "throw"), When(GotEnd, << Break >>),
                                When(GotData, << MayBreak >>) >>),
                        FreeReader("sendHttpRequest.socket"), MayThrow, Return >>,
                     << Quietly(<< When(HasReader("sendHttpRequest.socket"),
                                        << FreeReader("sendHttpRequest.socket") >>) >>),
                        CloseQuietly("sendHttpRequest.socket") >>) >>)

-----------------------------------------------------------------------------
\* src/src/worker/drda.ts

readDSS(socket) ==
  Call(<< Loop(<< Race(Read(socket), "throw"), When(GotNothing, << Break >>), MayBreak >>) >>)

openSocket_drda(socket) ==
  Call(<< Connect(socket), Race(Opened(socket), "throw"), GetWriter(socket), GetReader(socket) >>)

doAuth_drda(socket) ==
  Call(<< Try(<< openSocket_drda(socket) >>, << Return >>),
          Try(
              << Write(socket), readDSS(socket),
                 Maybe(<< Quietly(<< FreeWriter(socket), FreeReader(socket) >>), Return >>), Write(socket),
                 readDSS(socket), Maybe(<< Quietly(<< FreeWriter(socket), FreeReader(socket) >>), Return >>),
                 Write(socket), readDSS(socket),
                 Maybe(<< Quietly(<< FreeWriter(socket), FreeReader(socket) >>), Return >>), Write(socket),
                 readDSS(socket), Return >>,
              << Quietly(<< FreeWriter(socket), FreeReader(socket) >>), Return >>) >>)

-----------------------------------------------------------------------------
\* src/src/worker/firebird.ts

recvBytes(socket) ==
  Call(<< Loop(<< MayThrow, Race(Read(socket), "end"), When(GotNothing, << Throw >>) >>) >>)

recvPacket(socket) ==
  Call(<< recvBytes(socket), Maybe(<< recvBytes(socket), Return >>), MayReturn,
          Maybe(<< recvBytes(socket), recvBytes(socket), Maybe(<< recvBytes(socket) >>),
                   Forever(<< MayBreak, recvBytes(socket), MayBreak, Maybe(<< recvBytes(socket), Continue >>),
                              Maybe(<< recvBytes(socket), MayThrow, Maybe(<< recvBytes(socket) >>),
                                       Continue >>),
                              Maybe(<< recvBytes(socket), Continue >>), recvBytes(socket) >>),
                   Return >>),
          Maybe(<< recvBytes(socket), Return >>) >>)

connectAndAccept(socket) ==
  Call(<< Connect(socket), Try(<< Race(Opened(socket), "throw") >>, << CloseQuietly(socket), Throw >>),
          GetReader(socket), GetWriter(socket), Write(socket), recvPacket(socket), MayThrow >>)

-----------------------------------------------------------------------------
\* src/src/worker/informix.ts

readAll_informix(socket) ==
  Call(<< Forever(<< Race(Read(socket), "throw"), If(GotData, << MayBreak >>, << Break >>), Break >>),
          MayThrow >>)

-----------------------------------------------------------------------------
\* src/src/worker/maxdb.ts

readNIResponse(socket) ==
  Call(<< Loop(<< Try(<< Race(Read(socket), "throw") >>, << Break >>), When(GotNothing, << Break >>),
                  MayBreak >>) >>)

-----------------------------------------------------------------------------
\* src/src/worker/mysql.ts

readPacket_mysql(socket) ==
  Call(<< Loop(<< Read(socket), When(GotNothing, << Throw >>) >>),
          Loop(<< Read(socket), When(GotNothing, << Throw >>) >>) >>)

computeSHA2AuthToken ==
  Call(<< Await, Await, Await >>)

computeAuthToken ==
  Call(<< Await, Await, Await >>)

buildHandshakeResponse ==
  Call(<< Maybe(<< Either(<< computeSHA2AuthToken >>, << computeAuthToken >>) >>) >>)

mysqlConnect ==
  Call(<< Connect("mysqlConnect.socket"), Race(Opened("mysqlConnect.socket"), "throw"),
          GetReader("mysqlConnect.socket"), GetWriter("mysqlConnect.socket"),
          Try(
              << readPacket_mysql("mysqlConnect.socket"), MayThrow, buildHandshakeResponse,
                 Write("mysqlConnect.socket"), readPacket_mysql("mysqlConnect.socket"), MayThrow,
                 Maybe(<< Either(<< readPacket_mysql("mysqlConnect.socket"), MayThrow >>,
                                 << Maybe(<< Write("mysqlConnect.socket"),
                                             readPacket_mysql("mysqlConnect.socket"), Throw >>) >>) >>),
                 FreeReaderQuietly("mysqlConnect.socket"), FreeWriterQuietly("mysqlConnect.socket"),
                 Close("mysqlConnect.socket"), Return >>,
              << FreeReaderQuietly("mysqlConnect.socket"), FreeWriterQuietly("mysqlConnect.socket"),
                 CloseQuietly("mysqlConnect.socket"), Throw >>) >>)

readResultSet(socket) ==
  Call(<< readPacket_mysql(socket), MayThrow, MayReturn, Loop(<< readPacket_mysql(socket), MayThrow >>),
          readPacket_mysql(socket), MayThrow, Forever(<< readPacket_mysql(socket), MayBreak, MayThrow >>) >>)

mysqlConnect_2 ==
  Call(<< Connect("mysqlConnect.socket"), Race(Opened("mysqlConnect.socket"), "throw"),
          GetReader("mysqlConnect.socket"), GetWriter("mysqlConnect.socket"),
          Try(
              << readPacket_mysql("mysqlConnect.socket"), MayThrow, buildHandshakeResponse,
                 Write("mysqlConnect.socket"), readPacket_mysql("mysqlConnect.socket"), MayThrow,
                 Maybe(<< Either(<< readPacket_mysql("mysqlConnect.socket"), MayThrow >>,
                                 << Maybe(<< Write("mysqlConnect.socket"),
                                             readPacket_mysql("mysqlConnect.socket"), Throw >>) >>) >>),
                 Maybe(<< FreeReaderQuietly("mysqlConnect.socket"), FreeWriterQuietly("mysqlConnect.socket"),
                          Close("mysqlConnect.socket"), Return >>),
                 Write("mysqlConnect.socket"), readResultSet("mysqlConnect.socket"),
                 FreeReaderQuietly("mysqlConnect.socket"), FreeWriterQuietly("mysqlConnect.socket"),
                 Close("mysqlConnect.socket"), Return >>,
              << FreeReaderQuietly("mysqlConnect.socket"), FreeWriterQuietly("mysqlConnect.socket"),
                 CloseQuietly("mysqlConnect.socket"), Throw >>) >>)

-----------------------------------------------------------------------------
\* src/src/worker/oracle-tns.ts

BufferedReader_read(socket) ==
  Call(<< Loop(<< Read(socket), When(GotNothing, << Throw >>), MayBreak >>) >>)

doTNSConnect ==
  Call(<< Connect("doTNSConnect.socket"),
          TryFinally(<< Race(Opened("doTNSConnect.socket"), "throw"), GetWriter("doTNSConnect.socket"),
                        GetReader("doTNSConnect.socket"), Write("doTNSConnect.socket"),
                        BufferedReader_read("doTNSConnect.socket"),
                        Maybe(<< BufferedReader_read("doTNSConnect.socket") >>), MayThrow, Return >>,
                     << CloseQuietly("doTNSConnect.socket") >>) >>)

BufferedReader_readChunk(socket) ==
  Call(<< MayReturn, Read(socket), When(GotNothing, << Return >>) >>)

-----------------------------------------------------------------------------
\* src/src/worker/postgres.ts

PGReader_constructor(socket) ==
  Call(<< GetReader(socket) >>)

PGReader_ensure(socket) ==
  Call(<< Loop(<< Read(socket), When(GotEnd, << Throw >>) >>) >>)

PGReader_readMessage(socket) ==
  Call(<< PGReader_ensure(socket), MayThrow, PGReader_ensure(socket) >>)

pbkdf2SHA256 ==
  Call(<< Await, Await >>)

hmacSHA256 ==
  Call(<< Await, Await >>)

performSCRAMSHA256(socket) ==
  Call(<< Write(socket), PGReader_readMessage(socket), MayThrow, pbkdf2SHA256, hmacSHA256, Await, hmacSHA256,
          hmacSHA256, Write(socket), PGReader_readMessage(socket), Maybe(<< MayThrow, Throw >>),
          Either(<< MayThrow, hmacSHA256, MayThrow, PGReader_readMessage(socket),
                    Maybe(<< MayThrow, Throw >>), MayThrow >>,
                 << MayThrow >>) >>)

PGReader_release(socket) ==
  Call(<< FreeReader(socket) >>)

connectAndAuthenticate(socket) ==
  Call(<< Connect(socket), Race(Opened(socket), "throw"), GetWriter(socket), PGReader_constructor(socket),
          Try(
              << Write(socket), PGReader_readMessage(socket), MayThrow,
                 Maybe(<< Either(<< Write(socket), PGReader_readMessage(socket), Maybe(<< MayThrow, Throw >>),
                                    MayThrow >>,
                                 << Either(<< MayThrow, performSCRAMSHA256(socket) >>, << Throw >>) >>) >>),
                 Forever(<< PGReader_readMessage(socket),
                            Either(<< MayContinue >>, << Maybe(<< Either(<< Break >>, << MayThrow >>) >>) >>) >>),
                 Return >>,
              << PGReader_release(socket), FreeWriter(socket), CloseQuietly(socket), Throw >>) >>)

executeQuery(socket) ==
  Call(<< Write(socket),
          Forever(<< PGReader_readMessage(socket),
                     Maybe(<< Either(<< MayThrow >>, << Maybe(<< Either(<< Break >>, << MayThrow >>) >>) >>) >>) >>) >>)

-----------------------------------------------------------------------------
\* src/src/worker/sybase.ts

readAtLeast_sybase(socket) ==
  Call(<< Loop(<< Race(Read(socket), "throw"), When(GotNothing, << Throw >>) >>) >>)

-----------------------------------------------------------------------------
\* src/src/worker/tds.ts

readExact_tds(socket) ==
  Call(<< Loop(<< Read(socket), When(GotNothing, << Throw >>) >>) >>)

readTDSPacket(socket) ==
  Call(<< readExact_tds(socket), MayThrow, Maybe(<< readExact_tds(socket) >>) >>)

readTDSMessage(socket) ==
  Call(<< Forever(<< readTDSPacket(socket), MayBreak >>) >>)

tdsConnect ==
  Call(<< Connect("tdsConnect.socket"), Race(Opened("tdsConnect.socket"), "throw"),
          GetReader("tdsConnect.socket"), GetWriter("tdsConnect.socket"),
          Try(
              << Write("tdsConnect.socket"), readTDSMessage("tdsConnect.socket"), Write("tdsConnect.socket"),
                 readTDSMessage("tdsConnect.socket"), MayThrow,
                 Maybe(<< FreeReader("tdsConnect.socket"), FreeWriter("tdsConnect.socket"),
                          Close("tdsConnect.socket"), Return >>),
                 Write("tdsConnect.socket"), readTDSMessage("tdsConnect.socket"),
                 FreeReader("tdsConnect.socket"), FreeWriter("tdsConnect.socket"), Close("tdsConnect.socket"),
                 Return >>,
              << FreeReaderQuietly("tdsConnect.socket"), FreeWriterQuietly("tdsConnect.socket"),
                 CloseQuietly("tdsConnect.socket"), Throw >>) >>)

=============================================================================
