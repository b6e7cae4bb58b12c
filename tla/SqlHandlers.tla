---------------------------- MODULE SqlHandlers -----------------------------
(* The one-shot handlers of the catalogue's "Databases" that are asked in  *)
(* SQL, or a language like it.                                             *)
EXTENDS SqlCalls

-----------------------------------------------------------------------------
\* src/src/worker/cassandra.ts

handleCassandraConnect ==
  << MayReturn,
     Try(
         << Await, MayReturn, checkIfCloudflare, MayReturn,
            Task("connectionPromise",
                 << Connect("socket"), Opened("socket"), GetReader("socket"), GetWriter("socket"),
                    TryFinally(<< Write("socket"), readFrame_cassandra("socket"),
                                  Maybe(<< MayThrow, Throw >>), Write("socket"),
                                  readFrame_cassandra("socket"), MayThrow, Return >>,
                               << FreeWriterQuietly("socket"),
                                  Quietly(<< BufferedReader_releaseLock_cassandra("socket") >>),
                                  CloseQuietly("socket") >>) >>),
            Race(Join("connectionPromise"), "throw"), Return >>,
         << Return >>) >>

handleCassandraQuery ==
  << MayReturn,
     Try(
         << Await, MayReturn, checkIfCloudflare, MayReturn,
            Task("connectionPromise",
                 << Connect("socket"), Opened("socket"), GetReader("socket"), GetWriter("socket"),
                    TryFinally(<< Write("socket"), readFrame_cassandra("socket"), Write("socket"),
                                  readFrame_cassandra("socket"),
                                  Either(<< Write("socket"), readFrame_cassandra("socket"),
                                            Maybe(<< MayThrow, Throw >>) >>,
                                         << Maybe(<< Either(<< MayThrow, Throw >>, << MayThrow >>) >>) >>),
                                  Write("socket"), readFrame_cassandra("socket"),
                                  Maybe(<< MayThrow, Return >>), MayThrow, Return >>,
                               << FreeWriterQuietly("socket"),
                                  Quietly(<< BufferedReader_releaseLock_cassandra("socket") >>),
                                  CloseQuietly("socket") >>) >>),
            Race(Join("connectionPromise"), "throw"), Return >>,
         << Return >>) >>

handleCassandraPrepare ==
  << MayReturn,
     Try(
         << Await, MayReturn, checkIfCloudflare, MayReturn,
            Task("connectionPromise",
                 << Connect("socket"), Opened("socket"), GetReader("socket"), GetWriter("socket"),
                    TryFinally(<< Write("socket"), readFrame_cassandra("socket"), Write("socket"),
                                  readFrame_cassandra("socket"),
                                  Either(<< Write("socket"), readFrame_cassandra("socket"),
                                            Maybe(<< MayThrow, Throw >>) >>,
                                         << Maybe(<< Either(<< MayThrow, Throw >>, << MayThrow >>) >>) >>),
                                  Write("socket"), readFrame_cassandra("socket"),
                                  Maybe(<< MayThrow, Throw >>), MayThrow, Write("socket"),
                                  readFrame_cassandra("socket"), Maybe(<< MayThrow, Return >>), MayThrow,
                                  Return >>,
                               << FreeWriterQuietly("socket"),
                                  Quietly(<< BufferedReader_releaseLock_cassandra("socket") >>),
                                  CloseQuietly("socket") >>) >>),
            Race(Join("connectionPromise"), "throw"), Return >>,
         << Return >>) >>

-----------------------------------------------------------------------------
\* src/src/worker/clickhouse.ts

handleClickHouseNative ==
  << MayReturn,
     Try(
         << Await, MayReturn, checkIfCloudflare, MayReturn, Connect("socket"),
            TryFinally(<< Race(Opened("socket"), "throw"), GetWriter("socket"), GetReader("socket"),
                          Write("socket"), readNativeResponse("socket"),
                          Maybe(<< FreeWriter("socket"), FreeReader("socket"), Return >>), MayThrow,
                          Maybe(<< MayThrow, FreeWriter("socket"), FreeReader("socket"), Return >>),
                          Maybe(<< FreeWriter("socket"), FreeReader("socket"), Return >>), MayThrow,
                          Maybe(<< Quietly(<< Write("socket"), readNativeResponse("socket"), MayThrow >>) >>),
                          FreeWriter("socket"), FreeReader("socket"), Return >>,
                       << CloseQuietly("socket") >>) >>,
         << Return >>) >>

handleClickHouseHealth ==
  << MayReturn,
     Try(
         << Await, MayReturn, checkIfCloudflare, MayReturn, sendHttpRequest_clickhouse,
            Quietly(<< sendHttpRequest_clickhouse >>), Quietly(<< sendHttpRequest_clickhouse >>),
            Quietly(<< sendHttpRequest_clickhouse >>), Return >>,
         << Return >>) >>

handleClickHouseQuery ==
  << MayReturn,
     Try(
         << Await, MayReturn, checkIfCloudflare, MayReturn, sendHttpRequest_clickhouse, Return >>,
         << Return >>) >>

-----------------------------------------------------------------------------
\* src/src/worker/drda.ts

handleDRDAConnect ==
  << MayReturn, Try(<< Await >>, << Return >>), MayReturn, checkIfCloudflare, MayReturn,
     Try(
         << Connect("socket"), Race(Opened("socket"), "throw"), GetWriter("socket"), GetReader("socket"),
            Write("socket"), readDSS("socket"), FreeWriter("socket"), FreeReader("socket"),
            CloseQuietly("socket"), Return >>,
         << Return >>) >>

handleDRDAProbe ==
  << MayReturn, Try(<< Await >>, << Return >>), MayReturn, checkIfCloudflare, MayReturn,
     Try(
         << Connect("socket"), Race(Opened("socket"), "throw"), GetWriter("socket"), GetReader("socket"),
            Write("socket"), readDSS("socket"), FreeWriter("socket"), FreeReader("socket"),
            CloseQuietly("socket"), Return >>,
         << Return >>) >>

handleDRDALogin ==
  << MayReturn, Try(<< Await >>, << Return >>), MayReturn, checkIfCloudflare, MayReturn,
     doAuth_drda("socket"), MayReturn, FreeWriter("socket"), FreeReader("socket"), Return >>

handleDRDAQuery ==
  << MayReturn, Try(<< Await >>, << Return >>), MayReturn, checkIfCloudflare, MayReturn,
     doAuth_drda("socket"), MayReturn,
     Try(
         << Maybe(<< Write("socket"), readDSS("socket"),
                     Maybe(<< Quietly(<< FreeWriter("socket"), FreeReader("socket") >>), Return >>) >>),
            Write("socket"), readDSS("socket"),
            Maybe(<< Quietly(<< FreeWriter("socket"), FreeReader("socket") >>), MayReturn, Return >>),
            Loop(<< MayBreak, Write("socket"), readDSS("socket"), MayBreak >>),
            Quietly(<< Write("socket"), readDSS("socket"), Write("socket"), readDSS("socket") >>),
            Quietly(<< FreeWriter("socket"), FreeReader("socket") >>), Return >>,
         << Quietly(<< FreeWriter("socket"), FreeReader("socket") >>), Return >>) >>

handleDRDAExecute ==
  << MayReturn, Try(<< Await >>, << Return >>), MayReturn, checkIfCloudflare, MayReturn,
     doAuth_drda("socket"), MayReturn,
     Try(
         << Either(<< Write("socket"), readDSS("socket"),
                      Maybe(<< Quietly(<< FreeWriter("socket"), FreeReader("socket") >>), Return >>),
                      Write("socket"), readDSS("socket") >>,
                   << Write("socket"), readDSS("socket") >>),
            Quietly(<< Write("socket"), readDSS("socket") >>),
            Quietly(<< FreeWriter("socket"), FreeReader("socket") >>), MayReturn, Return >>,
         << Quietly(<< FreeWriter("socket"), FreeReader("socket") >>), Return >>) >>

handleDRDAPreparex ==
  << MayReturn, Try(<< Await >>, << Return >>), MayReturn, checkIfCloudflare, MayReturn,
     doAuth_drda("socket"), MayReturn,
     Try(
         << Write("socket"), readDSS("socket"), Quietly(<< FreeWriter("socket"), FreeReader("socket") >>),
            MayReturn, Return >>,
         << Quietly(<< FreeWriter("socket"), FreeReader("socket") >>), Return >>) >>

handleDRDACall ==
  << MayReturn, Try(<< Await >>, << Return >>), MayReturn, checkIfCloudflare, MayReturn,
     doAuth_drda("socket"), MayReturn,
     Try(
         << Either(<< Write("socket"), readDSS("socket"),
                      Maybe(<< Quietly(<< FreeWriter("socket"), FreeReader("socket") >>), Return >>),
                      Write("socket"), readDSS("socket") >>,
                   << Write("socket"), readDSS("socket") >>),
            Maybe(<< Quietly(<< FreeWriter("socket"), FreeReader("socket") >>), Return >>),
            Loop(<< Try(
                        << Write("socket"), readDSS("socket"), MayBreak,
                           Loop(<< MayBreak, Write("socket"), readDSS("socket"), MayBreak >>),
                           Quietly(<< Write("socket"), readDSS("socket") >>) >>,
                        << Break >>) >>),
            Quietly(<< Write("socket"), readDSS("socket") >>),
            Quietly(<< FreeWriter("socket"), FreeReader("socket") >>), Return >>,
         << Quietly(<< FreeWriter("socket"), FreeReader("socket") >>), Return >>) >>

-----------------------------------------------------------------------------
\* src/src/worker/firebird.ts

handleFirebirdProbe ==
  << MayReturn,
     Try(
         << Await, MayReturn, checkIfCloudflare, MayReturn,
            Try(<< connectAndAccept("handleFirebirdProbe.socket") >>, << Return >>),
            TryFinally(<< FreeReader("handleFirebirdProbe.socket"),
                          FreeWriter("handleFirebirdProbe.socket") >>,
                       << CloseQuietly("handleFirebirdProbe.socket") >>),
            Return >>,
         << Return >>) >>

handleFirebirdAuth ==
  << MayReturn,
     Try(
         << Await, MayReturn, checkIfCloudflare, MayReturn, connectAndAccept("socket"), Write("socket"),
            recvPacket("socket"),
            TryFinally(<< FreeReader("socket"), FreeWriter("socket") >>, << CloseQuietly("socket") >>),
            MayReturn, Return >>,
         << Return >>) >>

handleFirebirdQuery ==
  << MayReturn,
     Try(
         << Await, MayReturn, checkIfCloudflare, MayReturn, connectAndAccept("socket"), Write("socket"),
            recvPacket("socket"),
            Maybe(<< TryFinally(<< FreeReader("socket"), FreeWriter("socket") >>,
                                << CloseQuietly("socket") >>),
                     Return >>),
            Write("socket"), recvPacket("socket"),
            Maybe(<< TryFinally(<< FreeReader("socket"), FreeWriter("socket") >>,
                                << CloseQuietly("socket") >>),
                     Return >>),
            Write("socket"), recvPacket("socket"),
            Maybe(<< TryFinally(<< FreeReader("socket"), FreeWriter("socket") >>,
                                << CloseQuietly("socket") >>),
                     Return >>),
            Write("socket"), recvPacket("socket"),
            Maybe(<< TryFinally(<< FreeReader("socket"), FreeWriter("socket") >>,
                                << CloseQuietly("socket") >>),
                     Return >>),
            Write("socket"), recvPacket("socket"),
            Maybe(<< TryFinally(<< FreeReader("socket"), FreeWriter("socket") >>,
                                << CloseQuietly("socket") >>),
                     Return >>),
            Write("socket"), recvPacket("socket"), Write("socket"), Write("socket"),
            TryFinally(<< FreeReader("socket"), FreeWriter("socket") >>, << CloseQuietly("socket") >>),
            Return >>,
         << Return >>) >>

handleFirebirdVersion ==
  << Call(handleFirebirdProbe), Return >>

-----------------------------------------------------------------------------
\* src/src/worker/informix.ts

handleInformixProbe ==
  << Try(
         << Await, MayReturn, checkIfCloudflare, MayReturn, Connect("handleInformixProbe.socket"),
            TryFinally(<< Race(Opened("handleInformixProbe.socket"), "throw"),
                          GetWriter("handleInformixProbe.socket"), Write("handleInformixProbe.socket"),
                          FreeWriter("handleInformixProbe.socket"),
                          GetReader("handleInformixProbe.socket"),
                          Try(
                              << RaceTask(<< readAll_informix("handleInformixProbe.socket") >>, "throw") >>,
                              << FreeReader("handleInformixProbe.socket"), Return >>),
                          FreeReader("handleInformixProbe.socket"), Return >>,
                       << CloseQuietly("handleInformixProbe.socket") >>) >>,
         << Return >>) >>

handleInformixVersion ==
  << Call(handleInformixProbe), Return >>

handleInformixQuery ==
  << Try(
         << Await, MayReturn, checkIfCloudflare, MayReturn, Connect("socket"),
            TryFinally(<< Race(Opened("socket"), "throw"), GetWriter("socket"), Write("socket"),
                          GetReader("socket"),
                          Try(
                              << RaceTask(<< readAll_informix("socket") >>, "throw") >>,
                              << FreeReader("socket"), FreeWriter("socket"), Return >>),
                          Maybe(<< FreeReader("socket"), FreeWriter("socket"), Return >>), Write("socket"),
                          Quietly(<< RaceTask(<< readAll_informix("socket") >>, "throw") >>),
                          Maybe(<< FreeReader("socket"), FreeWriter("socket"), Return >>), Write("socket"),
                          Loop(<< Try(
                                      << RaceTask(<< readAll_informix("socket") >>, "throw"), MayBreak >>,
                                      << Break >>) >>),
                          FreeReader("socket"), FreeWriter("socket"), Return >>,
                       << CloseQuietly("socket") >>) >>,
         << Return >>) >>

-----------------------------------------------------------------------------
\* src/src/worker/maxdb.ts

handleMaxDBConnect ==
  << MayReturn,
     Try(
         << Await, MayReturn, checkIfCloudflare, MayReturn, Connect("socket"),
            TryFinally(<< Race(Opened("socket"), "throw"), GetWriter("socket"), GetReader("socket"),
                          TryFinally(<< Write("socket"), RaceTask(<< readNIResponse("socket") >>, "throw"),
                                        MayReturn, Return >>,
                                     << FreeReaderQuietly("socket"), FreeWriterQuietly("socket") >>) >>,
                       << CloseQuietly("socket") >>) >>,
         << Return >>) >>

handleMaxDBInfo ==
  << MayReturn,
     Try(
         << Await, MayReturn, checkIfCloudflare, MayReturn, Connect("socket"),
            TryFinally(<< Race(Opened("socket"), "throw"), GetWriter("socket"), GetReader("socket"),
                          TryFinally(<< Write("socket"), RaceTask(<< readNIResponse("socket") >>, "throw"),
                                        MayReturn, Return >>,
                                     << FreeReaderQuietly("socket"), FreeWriterQuietly("socket") >>) >>,
                       << CloseQuietly("socket") >>) >>,
         << Return >>) >>

handleMaxDBSession ==
  << MayReturn,
     Try(
         << Await, MayReturn, checkIfCloudflare, MayReturn, Connect("socket"),
            TryFinally(<< Race(Opened("socket"), "throw"), GetWriter("socket"), GetReader("socket"),
                          Write("socket"), RaceTask(<< readNIResponse("socket") >>, "throw"),
                          FreeReaderQuietly("socket"), FreeWriterQuietly("socket") >>,
                       << CloseQuietly("socket") >>),
            MayReturn,
            Maybe(<< Connect("socket2"),
                     TryFinally(<< Race(Opened("socket2"), "throw"), GetWriter("socket2"),
                                   GetReader("socket2"), Write("socket2"),
                                   Quietly(<< RaceTask(<< readNIResponse("socket2") >>, "throw") >>),
                                   FreeReaderQuietly("socket2"), FreeWriterQuietly("socket2") >>,
                                << CloseQuietly("socket2") >>) >>),
            Return >>,
         << Return >>) >>

-----------------------------------------------------------------------------
\* src/src/worker/mysql.ts

handleMySQLConnect ==
  << Try(
         << MayReturn, Await, MayReturn, checkIfCloudflare, MayReturn,
            Task("connectionPromise",
                 << Either(<< Connect("socket"), Opened("socket"), GetReader("socket"),
                              Try(
                                  << readPacket_mysql("socket"), MayThrow, FreeReaderQuietly("socket"),
                                     Close("socket"), Return >>,
                                  << CloseQuietly("socket"), Throw >>) >>,
                           << mysqlConnect, Return >>) >>),
            Try(<< Race(Join("connectionPromise"), "throw"), Return >>, << Return >>) >>,
         << Return >>) >>

handleMySQLQuery ==
  << MayReturn,
     Try(
         << Await, MayReturn, checkIfCloudflare, MayReturn,
            Task("queryPromise", << mysqlConnect_2, MayReturn >>),
            Try(<< Race(Join("queryPromise"), "throw"), Return >>, << Return >>) >>,
         << Return >>) >>

handleMySQLShowDatabases ==
  << Try(
         << MayReturn, Await, MayReturn, checkIfCloudflare, MayReturn,
            Task("queryPromise", << mysqlConnect_2, MayReturn >>),
            Try(<< Race(Join("queryPromise"), "throw"), Return >>, << Return >>) >>,
         << Return >>) >>

handleMySQLShowTables ==
  << Try(
         << MayReturn, Await, MayReturn, checkIfCloudflare, MayReturn,
            Task("queryPromise", << mysqlConnect_2, MayReturn >>),
            Try(<< Race(Join("queryPromise"), "throw"), Return >>, << Return >>) >>,
         << Return >>) >>

-----------------------------------------------------------------------------
\* src/src/worker/oracle-tns.ts

handleOracleTNSConnect ==
  << MayReturn,
     Try(
         << Await, MayReturn, checkIfCloudflare, MayReturn, Task("connectionPromise", << doTNSConnect >>),
            Race(Join("connectionPromise"), "throw"), Return >>,
         << Return >>) >>

handleOracleTNSProbe ==
  << MayReturn,
     Try(
         << Await, MayReturn, checkIfCloudflare, MayReturn, Task("connectionPromise", << doTNSConnect >>),
            Race(Join("connectionPromise"), "throw"), Return >>,
         << Return >>) >>

handleOracleQuery ==
  << MayReturn,
     Try(
         << Await, MayReturn, checkIfCloudflare, MayReturn,
            Task("connectionPromise",
                 << Connect("socket"),
                    TryFinally(<< Opened("socket"), GetWriter("socket"), GetReader("socket"), Write("socket"),
                                  BufferedReader_read("socket"), Maybe(<< BufferedReader_read("socket") >>),
                                  MayThrow, Maybe(<< Close("socket"), Return >>),
                                  Maybe(<< Close("socket"), Return >>), Maybe(<< Close("socket"), Return >>),
                                  Write("socket"),
                                  Quietly(<< RaceTask(<< BufferedReader_readChunk("socket") >>, "throw") >>),
                                  Return >>,
                               << CloseQuietly("socket") >>) >>),
            Race(Join("connectionPromise"), "throw"), Return >>,
         << Return >>) >>

handleOracleSQLQuery ==
  << MayReturn,
     Try(
         << Await, MayReturn, checkIfCloudflare, MayReturn,
            Task("connectionPromise",
                 << Connect("socket"), Opened("socket"), GetWriter("socket"), GetReader("socket"),
                    TryFinally(<< Write("socket"), BufferedReader_read("socket"),
                                  Maybe(<< BufferedReader_read("socket") >>), MayThrow, MayReturn,
                                  Write("socket"),
                                  Quietly(<< RaceTask(<< BufferedReader_readChunk("socket") >>, "throw") >>),
                                  MayReturn, Write("socket"),
                                  Quietly(<< RaceTask(<< BufferedReader_readChunk("socket") >>, "throw") >>),
                                  MayReturn, Write("socket"),
                                  Quietly(<< RaceTask(<< BufferedReader_readChunk("socket") >>, "throw") >>),
                                  Return >>,
                               << CloseQuietly("socket") >>) >>),
            Race(Join("connectionPromise"), "throw"), Return >>,
         << Return >>) >>

-----------------------------------------------------------------------------
\* src/src/worker/oracle.ts

handleOracleConnect ==
  << Try(
         << MayThrow, Maybe(<< Await >>), MayReturn, checkIfCloudflare, MayReturn,
            Task("connectionPromise",
                 << Connect("socket"), Opened("socket"), GetReader("socket"), GetWriter("socket"),
                    TryCatchFinally(<< Write("socket"),
                                       Loop(<< Race(Read("socket"), "end"), When(GotNothing, << Break >>),
                                               MayBreak >>),
                                       MayThrow, Close("socket"), Return >>,
                                    << Close("socket"), Throw >>,
                                    << FreeReader("socket"), FreeWriter("socket") >>) >>),
            Try(<< Race(Join("connectionPromise"), "throw"), Return >>, << Return >>) >>,
         << Return >>) >>

handleOracleTNSServices ==
  << Try(
         << Await, MayReturn, checkIfCloudflare, MayReturn,
            Task("connectionPromise",
                 << Connect("socket"), Opened("socket"), GetReader("socket"), GetWriter("socket"),
                    TryFinally(<< Write("socket"), Race(Read("socket"), "throw"),
                                  If(GotData, << MayThrow >>, << Throw >>), MayThrow, Write("socket"),
                                  Loop(<< Try(<< Race(Read("socket"), "throw") >>, << Break >>),
                                          When(GotNothing, << Break >>), MayBreak >>),
                                  MayReturn, Return >>,
                               << FreeReaderQuietly("socket"), FreeWriterQuietly("socket"),
                                  CloseQuietly("socket") >>) >>),
            Race(Join("connectionPromise"), "throw"), Return >>,
         << Return >>) >>

-----------------------------------------------------------------------------
\* src/src/worker/postgres.ts

handlePostgreSQLConnect ==
  << Try(
         << MayReturn, Await, MayReturn, checkIfCloudflare, MayReturn,
            Task("connectionPromise",
                 << connectAndAuthenticate("socket"), PGReader_release("socket"), FreeWriter("socket"),
                    CloseQuietly("socket") >>),
            Try(<< Race(Join("connectionPromise"), "throw"), Return >>, << Return >>) >>,
         << Return >>) >>

handlePostgreSQLQuery ==
  << Try(
         << MayReturn, Await, MayReturn, checkIfCloudflare, MayReturn,
            Task("queryPromise",
                 << connectAndAuthenticate("socket"),
                    TryFinally(<< executeQuery("socket") >>,
                               << PGReader_release("socket"), FreeWriter("socket"), CloseQuietly("socket") >>) >>),
            Try(<< Race(Join("queryPromise"), "throw"), Return >>, << Return >>) >>,
         << Return >>) >>

handlePostgresDescribe ==
  << Try(
         << MayReturn, Await, MayReturn, checkIfCloudflare, MayReturn,
            Task("describePromise",
                 << connectAndAuthenticate("socket"),
                    TryFinally(<< Write("socket"), Write("socket"), Write("socket"),
                                  Forever(<< PGReader_readMessage("socket"),
                                             Maybe(<< Either(<< Break >>, << MayThrow >>) >>) >>),
                                  Return >>,
                               << PGReader_release("socket"), FreeWriter("socket"), CloseQuietly("socket") >>) >>),
            Try(<< Race(Join("describePromise"), "throw"), Return >>, << Return >>) >>,
         << Return >>) >>

handlePostgresListen ==
  << Try(
         << MayReturn, Await, MayReturn, checkIfCloudflare, MayReturn,
            Task("listenPromise",
                 << connectAndAuthenticate("socket"),
                    TryFinally(<< Write("socket"),
                                  Forever(<< PGReader_readMessage("socket"),
                                             Maybe(<< Either(<< Break >>, << MayThrow >>) >>) >>),
                                  Loop(<< MayBreak, RaceTask(<< PGReader_readMessage("socket") >>, "null"),
                                          MayBreak, MayThrow >>),
                                  Return >>,
                               << PGReader_release("socket"), FreeWriter("socket"), CloseQuietly("socket") >>) >>),
            Race(Join("listenPromise"), "throw"), Return >>,
         << Return >>) >>

handlePostgresNotify ==
  << Try(
         << MayReturn, Await, MayReturn, checkIfCloudflare, MayReturn,
            Task("notifyPromise",
                 << connectAndAuthenticate("socket"),
                    TryFinally(<< MayThrow, executeQuery("socket"), Return >>,
                               << PGReader_release("socket"), FreeWriter("socket"), CloseQuietly("socket") >>) >>),
            Race(Join("notifyPromise"), "throw"), Return >>,
         << Return >>) >>

-----------------------------------------------------------------------------
\* src/src/worker/sybase.ts

handleSybaseProbe ==
  << MayReturn,
     Try(
         << Await, MayReturn, checkIfCloudflare, MayReturn, Connect("handleSybaseProbe.socket"),
            Try(
                << Race(Opened("handleSybaseProbe.socket"), "throw"),
                   GetWriter("handleSybaseProbe.socket"), Write("handleSybaseProbe.socket"),
                   FreeWriter("handleSybaseProbe.socket"), GetReader("handleSybaseProbe.socket"),
                   Race(Read("handleSybaseProbe.socket"), "throw"),
                   When(GotNothing,
                        << FreeReader("handleSybaseProbe.socket"),
                           CloseQuietly("handleSybaseProbe.socket"), Return >>),
                   Maybe(<< FreeReader("handleSybaseProbe.socket"),
                            CloseQuietly("handleSybaseProbe.socket"), Return >>),
                   FreeReader("handleSybaseProbe.socket"), CloseQuietly("handleSybaseProbe.socket"),
                   Return >>,
                << CloseQuietly("handleSybaseProbe.socket"), Throw >>) >>,
         << Return >>) >>

handleSybaseVersion ==
  << Call(handleSybaseProbe), Return >>

handleSybaseLogin ==
  << MayReturn,
     Try(
         << Await, MayReturn, checkIfCloudflare, MayReturn, Connect("socket"),
            Try(
                << Race(Opened("socket"), "throw"), GetWriter("socket"), GetReader("socket"), Write("socket"),
                   Loop(<< readAtLeast_sybase("socket"), MayBreak >>), FreeWriter("socket"),
                   FreeReader("socket"), CloseQuietly("socket"), Return >>,
                << CloseQuietly("socket"), Throw >>) >>,
         << Return >>) >>

handleSybaseQuery ==
  << MayReturn,
     Try(
         << Await, MayReturn, checkIfCloudflare, MayReturn, Connect("socket"),
            Try(
                << Race(Opened("socket"), "throw"), GetWriter("socket"), GetReader("socket"), Write("socket"),
                   Loop(<< readAtLeast_sybase("socket"), MayBreak >>),
                   Maybe(<< FreeWriter("socket"), FreeReader("socket"), CloseQuietly("socket"), Return >>),
                   Write("socket"),
                   Loop(<< Try(<< readAtLeast_sybase("socket") >>, << Break >>), MayBreak >>),
                   FreeWriter("socket"), FreeReader("socket"), CloseQuietly("socket"), Return >>,
                << CloseQuietly("socket"), Throw >>) >>,
         << Return >>) >>

handleSybaseProc ==
  << MayReturn,
     Try(
         << Await, MayReturn, checkIfCloudflare, MayReturn, Connect("socket"),
            Try(
                << Race(Opened("socket"), "throw"), GetWriter("socket"), GetReader("socket"), Write("socket"),
                   Loop(<< readAtLeast_sybase("socket"), MayBreak >>),
                   Maybe(<< FreeWriter("socket"), FreeReader("socket"), CloseQuietly("socket"), Return >>),
                   Write("socket"),
                   Loop(<< Try(<< readAtLeast_sybase("socket") >>, << Break >>), MayBreak >>),
                   FreeWriter("socket"), FreeReader("socket"), CloseQuietly("socket"), Return >>,
                << CloseQuietly("socket"), Throw >>) >>,
         << Return >>) >>

-----------------------------------------------------------------------------
\* src/src/worker/tds.ts

handleTDSLogin ==
  << MayReturn,
     Try(
         << Await, MayReturn, checkIfCloudflare, MayReturn, Task("promise", << tdsConnect >>),
            Try(<< Race(Join("promise"), "throw"), Return >>, << Return >>) >>,
         << Return >>) >>

handleTDSQuery ==
  << MayReturn,
     Try(
         << Await, MayReturn, checkIfCloudflare, MayReturn, Task("promise", << tdsConnect >>),
            Try(<< Race(Join("promise"), "throw"), Return >>, << Return >>) >>,
         << Return >>) >>

handleTDSConnect ==
  << MayReturn,
     Try(
         << Await, MayReturn, checkIfCloudflare, MayReturn,
            Task("connectionPromise",
                 << Connect("socket"), Opened("socket"), GetWriter("socket"), GetReader("socket"),
                    Try(
                        << Write("socket"), readExact_tds("socket"), MayThrow, readExact_tds("socket"),
                           FreeReader("socket"), FreeWriter("socket"), Close("socket"), Return >>,
                        << FreeReaderQuietly("socket"), FreeWriterQuietly("socket"), CloseQuietly("socket"),
                           Throw >>) >>),
            Race(Join("connectionPromise"), "throw"), Return >>,
         << Return >>) >>

-----------------------------------------------------------------------------
SqlProgram ==
  [handleCassandraConnect |-> handleCassandraConnect,
   handleCassandraQuery |-> handleCassandraQuery,
   handleCassandraPrepare |-> handleCassandraPrepare,
   handleClickHouseNative |-> handleClickHouseNative,
   handleClickHouseHealth |-> handleClickHouseHealth,
   handleClickHouseQuery |-> handleClickHouseQuery,
   handleDRDAConnect |-> handleDRDAConnect,
   handleDRDAProbe |-> handleDRDAProbe,
   handleDRDALogin |-> handleDRDALogin,
   handleDRDAQuery |-> handleDRDAQuery,
   handleDRDAExecute |-> handleDRDAExecute,
   handleDRDAPreparex |-> handleDRDAPreparex,
   handleDRDACall |-> handleDRDACall,
   handleFirebirdProbe |-> handleFirebirdProbe,
   handleFirebirdAuth |-> handleFirebirdAuth,
   handleFirebirdQuery |-> handleFirebirdQuery,
   handleFirebirdVersion |-> handleFirebirdVersion,
   handleInformixProbe |-> handleInformixProbe,
   handleInformixVersion |-> handleInformixVersion,
   handleInformixQuery |-> handleInformixQuery,
   handleMaxDBConnect |-> handleMaxDBConnect,
   handleMaxDBInfo |-> handleMaxDBInfo,
   handleMaxDBSession |-> handleMaxDBSession,
   handleMySQLConnect |-> handleMySQLConnect,
   handleMySQLQuery |-> handleMySQLQuery,
   handleMySQLShowDatabases |-> handleMySQLShowDatabases,
   handleMySQLShowTables |-> handleMySQLShowTables,
   handleOracleTNSConnect |-> handleOracleTNSConnect,
   handleOracleTNSProbe |-> handleOracleTNSProbe,
   handleOracleQuery |-> handleOracleQuery,
   handleOracleSQLQuery |-> handleOracleSQLQuery,
   handleOracleConnect |-> handleOracleConnect,
   handleOracleTNSServices |-> handleOracleTNSServices,
   handlePostgreSQLConnect |-> handlePostgreSQLConnect,
   handlePostgreSQLQuery |-> handlePostgreSQLQuery,
   handlePostgresDescribe |-> handlePostgresDescribe,
   handlePostgresListen |-> handlePostgresListen,
   handlePostgresNotify |-> handlePostgresNotify,
   handleSybaseProbe |-> handleSybaseProbe,
   handleSybaseVersion |-> handleSybaseVersion,
   handleSybaseLogin |-> handleSybaseLogin,
   handleSybaseQuery |-> handleSybaseQuery,
   handleSybaseProc |-> handleSybaseProc,
   handleTDSLogin |-> handleTDSLogin,
   handleTDSQuery |-> handleTDSQuery,
   handleTDSConnect |-> handleTDSConnect]

=============================================================================
