----------------------------- MODULE StoreCalls -----------------------------
(* What the handlers of StoreHandlers call of their own files: the         *)
(* clients, readers and logins of key-value, document and search stores,   *)
(* as steps on the sockets.                                                *)
EXTENDS SharedCalls

-----------------------------------------------------------------------------
\* src/src/worker/aerospike.ts

sendFramedRequest ==
  Call(<< Connect("sendFramedRequest.socket"),
          TryFinally(<< Race(Opened("sendFramedRequest.socket"), "throw"),
                        GetWriter("sendFramedRequest.socket"), GetReader("sendFramedRequest.socket"),
                        Write("sendFramedRequest.socket"),
                        Forever(<< Race(Read("sendFramedRequest.socket"), "throw"),
                                   When(GotNothing, << Break >>), MayThrow, MayBreak >>),
                        FreeWriter("sendFramedRequest.socket"), FreeReader("sendFramedRequest.socket"),
                        Return >>,
                     << CloseQuietly("sendFramedRequest.socket") >>) >>)

sendInfoCommand ==
  Call(<< sendFramedRequest, MayThrow >>)

-----------------------------------------------------------------------------
\* src/src/worker/couchbase.ts

BufferedReader_readExact_couchbase(socket) ==
  Call(<< Loop(<< Race(Read(socket), "throw"), When(GotNothing, << Break >>) >>), MayThrow >>)

readResponse_couchbase(socket) ==
  Call(<< BufferedReader_readExact_couchbase(socket),
          Maybe(<< MayThrow, BufferedReader_readExact_couchbase(socket) >>) >>)

BufferedReader_releaseLock_couchbase(socket) ==
  Call(<< FreeReader(socket) >>)

-----------------------------------------------------------------------------
\* src/src/worker/couchdb.ts

sendHttpRequest_couchdb ==
  Call(<< Connect("sendHttpRequest.socket"),
          TryFinally(<< Race(Opened("sendHttpRequest.socket"), "throw"), GetWriter("sendHttpRequest.socket"),
                        Write("sendHttpRequest.socket"), FreeWriter("sendHttpRequest.socket"),
                        GetReader("sendHttpRequest.socket"),
                        Loop(<< Race(Read("sendHttpRequest.socket"), "throw"), When(GotEnd, << Break >>),
                                When(GotData, << MayBreak >>) >>),
                        FreeReader("sendHttpRequest.socket"), MayThrow, Return >>,
                     << CloseQuietly("sendHttpRequest.socket") >>) >>)

sendHttpRequest_couchdb_2 ==
  Call(<< Connect("sendHttpRequest.socket"),
          TryFinally(<< Race(Opened("sendHttpRequest.socket"), "throw"), GetWriter("sendHttpRequest.socket"),
                        Either(<< Write("sendHttpRequest.socket"), Write("sendHttpRequest.socket") >>,
                               << Write("sendHttpRequest.socket") >>),
                        FreeWriter("sendHttpRequest.socket"), GetReader("sendHttpRequest.socket"),
                        Loop(<< Race(Read("sendHttpRequest.socket"), "throw"), When(GotEnd, << Break >>),
                                When(GotData, << MayBreak >>) >>),
                        FreeReader("sendHttpRequest.socket"), MayThrow, Return >>,
                     << CloseQuietly("sendHttpRequest.socket") >>) >>)

-----------------------------------------------------------------------------
\* src/src/worker/elasticsearch.ts

sendHttpRequest_elasticsearch ==
  Call(<< Connect("sendHttpRequest.socket"),
          TryFinally(<< Race(Opened("sendHttpRequest.socket"), "throw"), GetWriter("sendHttpRequest.socket"),
                        Write("sendHttpRequest.socket"), FreeWriter("sendHttpRequest.socket"),
                        GetReader("sendHttpRequest.socket"),
                        Loop(<< Race(Read("sendHttpRequest.socket"), "throw"), When(GotEnd, << Break >>),
                                When(GotData, << MayBreak >>) >>),
                        FreeReader("sendHttpRequest.socket"), CloseQuietly("sendHttpRequest.socket"),
                        MayThrow, Return >>,
                     << CloseQuietly("sendHttpRequest.socket") >>) >>)

sendHttpRequest_elasticsearch_2 ==
  Call(<< Connect("sendHttpRequest.socket"),
          TryFinally(<< Race(Opened("sendHttpRequest.socket"), "throw"), GetWriter("sendHttpRequest.socket"),
                        Either(<< Write("sendHttpRequest.socket"), Write("sendHttpRequest.socket") >>,
                               << Write("sendHttpRequest.socket") >>),
                        FreeWriter("sendHttpRequest.socket"), GetReader("sendHttpRequest.socket"),
                        Loop(<< Race(Read("sendHttpRequest.socket"), "throw"), When(GotEnd, << Break >>),
                                When(GotData, << MayBreak >>) >>),
                        FreeReader("sendHttpRequest.socket"), CloseQuietly("sendHttpRequest.socket"),
                        MayThrow, Return >>,
                     << CloseQuietly("sendHttpRequest.socket") >>) >>)

-----------------------------------------------------------------------------
\* src/src/worker/etcd.ts

sendHttpRequest_etcd ==
  Call(<< Connect("sendHttpRequest.socket"),
          TryFinally(<< Race(Opened("sendHttpRequest.socket"), "throw"), GetWriter("sendHttpRequest.socket"),
                        Write("sendHttpRequest.socket"), FreeWriter("sendHttpRequest.socket"),
                        GetReader("sendHttpRequest.socket"),
                        Loop(<< Race(Read("sendHttpRequest.socket"), "throw"), When(GotEnd, << Break >>),
                                When(GotData, << MayBreak >>) >>),
                        FreeReader("sendHttpRequest.socket"), MayThrow, Return >>,
                     << CloseQuietly("sendHttpRequest.socket") >>) >>)

sendHttpRequest_etcd_2 ==
  Call(<< Connect("sendHttpRequest.socket"),
          TryFinally(<< Race(Opened("sendHttpRequest.socket"), "throw"), GetWriter("sendHttpRequest.socket"),
                        Either(<< Write("sendHttpRequest.socket"), Write("sendHttpRequest.socket") >>,
                               << Write("sendHttpRequest.socket") >>),
                        FreeWriter("sendHttpRequest.socket"), GetReader("sendHttpRequest.socket"),
                        Loop(<< Race(Read("sendHttpRequest.socket"), "throw"), When(GotEnd, << Break >>),
                                When(GotData, << MayBreak >>) >>),
                        FreeReader("sendHttpRequest.socket"), MayThrow, Return >>,
                     << CloseQuietly("sendHttpRequest.socket") >>) >>)

-----------------------------------------------------------------------------
\* src/src/worker/hazelcast.ts

readFrame_hazelcast(socket) ==
  Call(<< Loop(<< MayBreak, Try(<< Race(Read(socket), "throw") >>, << Break >>),
                  When(GotNothing, << Break >>), Maybe(<< MayBreak, MayReturn >>) >>) >>)

handleHazelcastSetOp ==
  Call(<< MayReturn, Try(<< Await >>, << Return >>), MayReturn, checkIfCloudflare, MayReturn,
          Quietly(<< Connect("handleHazelcastSetOp.socket"),
                     Race(Opened("handleHazelcastSetOp.socket"), "throw"),
                     GetWriter("handleHazelcastSetOp.socket"), GetReader("handleHazelcastSetOp.socket"),
                     TryFinally(<< MayThrow, Write("handleHazelcastSetOp.socket"),
                                   readFrame_hazelcast("handleHazelcastSetOp.socket"), MayReturn, MayThrow,
                                   Write("handleHazelcastSetOp.socket"),
                                   readFrame_hazelcast("handleHazelcastSetOp.socket") >>,
                                << FreeReader("handleHazelcastSetOp.socket"),
                                   FreeWriter("handleHazelcastSetOp.socket") >>),
                     CloseQuietly("handleHazelcastSetOp.socket") >>) >>)

hazelcastConnect(socket) ==
  Call(<< Connect(socket), Race(Opened(socket), "throw"), GetWriter(socket), GetReader(socket), MayThrow,
          Write(socket), readFrame_hazelcast(socket),
          Maybe(<< FreeReader(socket), FreeWriter(socket), CloseQuietly(socket), Return >>) >>)

-----------------------------------------------------------------------------
\* src/src/worker/ignite.ts

readResponse_ignite(socket) ==
  Call(<< Loop(<< MayBreak, Try(<< Race(Read(socket), "throw") >>, << Break >>),
                  When(GotNothing, << Break >>), Maybe(<< MayThrow, MayReturn >>) >>) >>)

(* Bug: the locks are released on every path, not only on the failing one. *)
openIgniteSession_Unlocked(socket) ==
  Call(<< Connect(socket), Race(Opened(socket), "throw"), GetWriter(socket), GetReader(socket), Write(socket),
          readResponse_ignite(socket), MayThrow, FreeReader(socket), FreeWriter(socket),
          Maybe(<< CloseQuietly(socket), Throw >>) >>)

openIgniteSession(socket) ==
  Call(<< Connect(socket), Race(Opened(socket), "throw"), GetWriter(socket), GetReader(socket), Write(socket),
          readResponse_ignite(socket), MayThrow,
          Maybe(<< FreeReader(socket), FreeWriter(socket), CloseQuietly(socket), Throw >>) >>)

-----------------------------------------------------------------------------
\* src/src/worker/influxdb.ts

sendHttpRequest_influxdb ==
  Call(<< MayThrow, checkIfCloudflare, MayThrow, Connect("sendHttpRequest.socket"),
          TryFinally(<< Race(Opened("sendHttpRequest.socket"), "throw"), GetWriter("sendHttpRequest.socket"),
                        Write("sendHttpRequest.socket"), FreeWriter("sendHttpRequest.socket"),
                        GetReader("sendHttpRequest.socket"),
                        Loop(<< Race(Read("sendHttpRequest.socket"), "throw"), When(GotEnd, << Break >>),
                                When(GotData, << MayBreak >>) >>),
                        FreeReader("sendHttpRequest.socket"), CloseQuietly("sendHttpRequest.socket"),
                        MayThrow, Return >>,
                     << CloseQuietly("sendHttpRequest.socket") >>) >>)

sendHttpRequest_influxdb_2 ==
  Call(<< MayThrow, checkIfCloudflare, MayThrow, Connect("sendHttpRequest.socket"),
          TryFinally(<< Race(Opened("sendHttpRequest.socket"), "throw"), GetWriter("sendHttpRequest.socket"),
                        Either(<< Write("sendHttpRequest.socket"), Write("sendHttpRequest.socket") >>,
                               << Write("sendHttpRequest.socket") >>),
                        FreeWriter("sendHttpRequest.socket"), GetReader("sendHttpRequest.socket"),
                        Loop(<< Race(Read("sendHttpRequest.socket"), "throw"), When(GotEnd, << Break >>),
                                When(GotData, << MayBreak >>) >>),
                        FreeReader("sendHttpRequest.socket"), CloseQuietly("sendHttpRequest.socket"),
                        MayThrow, Return >>,
                     << CloseQuietly("sendHttpRequest.socket") >>) >>)

-----------------------------------------------------------------------------
\* src/src/worker/memcached.ts

readMemcachedResponse(socket) ==
  Call(<< Task("readPromise",
               << Forever(<< Read(socket), When(GotEnd, << Break >>), MayThrow, MayReturn >>) >>),
          Race(Join("readPromise"), "throw") >>)

-----------------------------------------------------------------------------
\* src/src/worker/mongodb.ts

readFullResponse_mongodb(socket) ==
  Call(<< Read(socket), If(GotData, << MayThrow >>, << Throw >>), MayThrow, MayReturn,
          Loop(<< Read(socket), When(GotNothing, << Break >>) >>), MayThrow >>)

-----------------------------------------------------------------------------
\* src/src/worker/neo4j.ts

openBoltSession(socket) ==
  Call(<< Connect(socket), Race(Opened(socket), "throw"), GetWriter(socket), GetReader(socket), Write(socket),
          Race(Read(socket), "throw"), When(GotNothing, << Throw >>), MayThrow, Write(socket),
          Race(Read(socket), "throw"), If(GotData, << MayThrow >>, << Throw >>), MayThrow >>)

readBoltMessages(socket) ==
  Call(<< Loop(<< Race(Read(socket), "null"), If(GotNull, << Break >>, << When(GotEnd, << Break >>) >>),
                  When(GotData, << MayThrow >>), MayBreak >>) >>)

handleNeo4jSchema_runQuery(socket) ==
  Call(<< Write(socket), Write(socket), readBoltMessages(socket), MayReturn >>)

-----------------------------------------------------------------------------
\* src/src/worker/opentsdb.ts

readTelnetResponse(socket) ==
  Call(<< Task("readPromise", << Forever(<< Read(socket), When(GotEnd, << Break >>), MayBreak >>) >>),
          Race(Join("readPromise"), "null") >>)

-----------------------------------------------------------------------------
\* src/src/worker/redis.ts

readUntilComplete(socket) ==
  Call(<< Task("readPromise", << Loop(<< Read(socket), When(GotEnd, << Break >>), MayThrow, MayBreak >>) >>),
          Race(Join("readPromise"), "throw") >>)

readRESPResponse(socket) ==
  Call(<< readUntilComplete(socket), Try(<< MayThrow, Return >>, << Return >>) >>)

-----------------------------------------------------------------------------
\* src/src/worker/rethinkdb.ts

cfBlock ==
  Call(<< checkIfCloudflare, MayReturn >>)

readNullTerminatedString(socket) ==
  Call(<< Loop(<< BufferedReader_readExact_buffered_reader(socket), MayBreak >>) >>)

performScramAuth(socket) ==
  Call(<< Write(socket), readNullTerminatedString(socket), MayReturn, MayThrow, Await, Await, Await, Await,
          Await, Await, Await, Await, Await, Await, Await, Write(socket), readNullTerminatedString(socket),
          MayReturn >>)

readQueryResponse(socket) ==
  Call(<< BufferedReader_readExact_buffered_reader(socket), MayThrow,
          BufferedReader_readExact_buffered_reader(socket) >>)

-----------------------------------------------------------------------------
\* src/src/worker/riak.ts

readRiakResponse(socket) ==
  Call(<< Loop(<< Race(Read(socket), "throw"), When(GotNothing, << Break >>) >>), MayReturn,
          Loop(<< Race(Read(socket), "throw"), When(GotNothing, << Break >>) >>) >>)

-----------------------------------------------------------------------------
\* src/src/worker/sentinel.ts

readRESPFull(socket) ==
  Call(<< Forever(<< MayThrow, Race(Read(socket), "throw"), When(GotEnd, << MayReturn, Throw >>),
                     When(GotData,
                          << MayReturn, Maybe(<< MayThrow, MayReturn >>), Maybe(<< MayThrow, MayReturn >>) >>) >>) >>)

sentinelWriteCommand ==
  Call(<< Connect("sentinelWriteCommand.socket"), Race(Opened("sentinelWriteCommand.socket"), "throw"),
          GetReader("sentinelWriteCommand.socket"), GetWriter("sentinelWriteCommand.socket"),
          TryFinally(<< Maybe(<< Write("sentinelWriteCommand.socket"),
                                 readRESPFull("sentinelWriteCommand.socket"), MayThrow >>),
                        Write("sentinelWriteCommand.socket"), readRESPFull("sentinelWriteCommand.socket"),
                        MayThrow, Return >>,
                     << FreeReaderQuietly("sentinelWriteCommand.socket"),
                        FreeWriterQuietly("sentinelWriteCommand.socket"),
                        CloseQuietly("sentinelWriteCommand.socket") >>) >>)

-----------------------------------------------------------------------------
\* src/src/worker/solr.ts

sendHttpRequest_solr ==
  Call(<< Connect("sendHttpRequest.socket"),
          TryFinally(<< Race(Opened("sendHttpRequest.socket"), "throw"), GetWriter("sendHttpRequest.socket"),
                        Write("sendHttpRequest.socket"), FreeWriterQuietly("sendHttpRequest.socket"),
                        ForgetWriter("sendHttpRequest.socket"), GetReader("sendHttpRequest.socket"),
                        Loop(<< Race(Read("sendHttpRequest.socket"), "throw"), When(GotEnd, << Break >>),
                                When(GotData, << MayBreak >>) >>),
                        FreeReaderQuietly("sendHttpRequest.socket"), ForgetReader("sendHttpRequest.socket"),
                        MayThrow, Return >>,
                     << When(HasWriter("sendHttpRequest.socket"),
                             << FreeWriterQuietly("sendHttpRequest.socket") >>),
                        When(HasReader("sendHttpRequest.socket"),
                             << FreeReaderQuietly("sendHttpRequest.socket") >>),
                        CloseQuietly("sendHttpRequest.socket") >>) >>)

sendHttpRequest_solr_2 ==
  Call(<< Connect("sendHttpRequest.socket"),
          TryFinally(<< Race(Opened("sendHttpRequest.socket"), "throw"), GetWriter("sendHttpRequest.socket"),
                        Either(<< Write("sendHttpRequest.socket"), Write("sendHttpRequest.socket") >>,
                               << Write("sendHttpRequest.socket") >>),
                        FreeWriterQuietly("sendHttpRequest.socket"), ForgetWriter("sendHttpRequest.socket"),
                        GetReader("sendHttpRequest.socket"),
                        Loop(<< Race(Read("sendHttpRequest.socket"), "throw"), When(GotEnd, << Break >>),
                                When(GotData, << MayBreak >>) >>),
                        FreeReaderQuietly("sendHttpRequest.socket"), ForgetReader("sendHttpRequest.socket"),
                        MayThrow, Return >>,
                     << When(HasWriter("sendHttpRequest.socket"),
                             << FreeWriterQuietly("sendHttpRequest.socket") >>),
                        When(HasReader("sendHttpRequest.socket"),
                             << FreeReaderQuietly("sendHttpRequest.socket") >>),
                        CloseQuietly("sendHttpRequest.socket") >>) >>)

-----------------------------------------------------------------------------
\* src/src/worker/sonic.ts

readLine_sonic(socket) ==
  Call(<< Forever(<< Race(Read(socket), "throw"), When(GotNothing, << Break >>), MayBreak >>) >>)

sendCommand_sonic(socket) ==
  Call(<< Write(socket), readLine_sonic(socket) >>)

tryStartMode(socket) ==
  Call(<< sendCommand_sonic(socket), MayReturn >>)

-----------------------------------------------------------------------------
\* src/src/worker/tarantool.ts

readIprotoResponse(socket) ==
  Call(<< BufferedReader_readExact_buffered_reader(socket),
          Either(<< MayThrow, BufferedReader_readExact_buffered_reader(socket), Return >>,
                 << Either(<< Maybe(<< BufferedReader_readExact_buffered_reader(socket) >>), Return >>,
                           << Return >>) >>) >>)

-----------------------------------------------------------------------------
\* src/src/worker/zookeeper.ts

sendFourLetterWord ==
  Call(<< MayThrow, Connect("sendFourLetterWord.socket"),
          Try(
              << Race(Opened("sendFourLetterWord.socket"), "throw"), GetWriter("sendFourLetterWord.socket"),
                 GetReader("sendFourLetterWord.socket"), Write("sendFourLetterWord.socket"),
                 Try(
                     << Loop(<< Race(Read("sendFourLetterWord.socket"), "throw"),
                                When(GotNothing, << Break >>) >>) >>,
                     << MayThrow >>),
                 FreeWriter("sendFourLetterWord.socket"), FreeReader("sendFourLetterWord.socket"),
                 CloseQuietly("sendFourLetterWord.socket"), Return >>,
              << CloseQuietly("sendFourLetterWord.socket"), Throw >>) >>)

zkReadPacket(socket) ==
  Call(<< Task("readPromise",
               << Loop(<< Read(socket), When(GotEnd, << Throw >>) >>), MayThrow,
                  Loop(<< Read(socket), When(GotEnd, << Throw >>) >>) >>),
          Race(Join("readPromise"), "throw") >>)

zkConnect(socket) ==
  Call(<< Write(socket), zkReadPacket(socket), MayThrow >>)

zkRequest(socket) ==
  Call(<< Write(socket), zkReadPacket(socket) >>)

=============================================================================
