--------------------------- MODULE StoreHandlers ----------------------------
(* The one-shot handlers of the catalogue's other "Databases": key-value,  *)
(* document, search, time series, caches.                                  *)
EXTENDS StoreCalls

-----------------------------------------------------------------------------
\* src/src/worker/aerospike.ts

handleAerospikeConnect ==
  << Try(
         << Await, MayReturn, checkIfCloudflare, MayReturn, sendInfoCommand, Quietly(<< sendInfoCommand >>),
            Quietly(<< sendInfoCommand >>), Quietly(<< sendInfoCommand >>), Quietly(<< sendInfoCommand >>),
            Quietly(<< sendInfoCommand >>), Return >>,
         << Return >>) >>

handleAerospikeKVGet ==
  << Try(
         << Await, MayReturn, checkIfCloudflare, MayReturn, sendFramedRequest, MayThrow, MayReturn, Return >>,
         << Return >>) >>

handleAerospikeKVPut ==
  << Try(
         << Await, MayReturn, checkIfCloudflare, MayReturn, sendFramedRequest, MayThrow, MayReturn, Return >>,
         << Return >>) >>

handleAerospikeInfo ==
  << Try(<< Await, MayReturn, checkIfCloudflare, MayReturn, sendInfoCommand, Return >>, << Return >>) >>

-----------------------------------------------------------------------------
\* src/src/worker/couchbase.ts

handleCouchbasePing ==
  << MayReturn,
     Try(
         << Await, MayReturn, checkIfCloudflare, MayReturn, Connect("socket"),
            TryFinally(<< Race(Opened("socket"), "throw"), GetWriter("socket"), GetReader("socket"),
                          Write("socket"), readResponse_couchbase("socket"), FreeWriter("socket"),
                          BufferedReader_releaseLock_couchbase("socket"), MayReturn, Return >>,
                       << CloseQuietly("socket") >>) >>,
         << Return >>) >>

handleCouchbaseVersion ==
  << MayReturn,
     Try(
         << Await, MayReturn, checkIfCloudflare, MayReturn, Connect("socket"),
            TryFinally(<< Race(Opened("socket"), "throw"), GetWriter("socket"), GetReader("socket"),
                          Write("socket"), readResponse_couchbase("socket"), FreeWriter("socket"),
                          BufferedReader_releaseLock_couchbase("socket"), MayReturn, Return >>,
                       << CloseQuietly("socket") >>) >>,
         << Return >>) >>

handleCouchbaseStats ==
  << MayReturn,
     Try(
         << Await, MayReturn, checkIfCloudflare, MayReturn, Connect("socket"),
            TryFinally(<< Race(Opened("socket"), "throw"), GetWriter("socket"), GetReader("socket"),
                          Write("socket"),
                          Loop(<< readResponse_couchbase("socket"), MayBreak,
                                  Maybe(<< FreeWriter("socket"),
                                           BufferedReader_releaseLock_couchbase("socket"), Return >>),
                                  MayBreak >>),
                          FreeWriter("socket"), BufferedReader_releaseLock_couchbase("socket"), Return >>,
                       << CloseQuietly("socket") >>) >>,
         << Return >>) >>

handleCouchbaseGet ==
  << MayReturn,
     Try(
         << Await, MayReturn, checkIfCloudflare, MayReturn, Connect("socket"),
            TryFinally(<< Race(Opened("socket"), "throw"), GetWriter("socket"), GetReader("socket"),
                          Write("socket"), readResponse_couchbase("socket"), FreeWriter("socket"),
                          BufferedReader_releaseLock_couchbase("socket"), MayReturn, Return >>,
                       << CloseQuietly("socket") >>) >>,
         << Return >>) >>

handleCouchbaseSet ==
  << MayReturn,
     Try(
         << Await, MayReturn, checkIfCloudflare, MayReturn, Connect("socket"),
            TryFinally(<< Race(Opened("socket"), "throw"), GetWriter("socket"), GetReader("socket"),
                          Write("socket"), readResponse_couchbase("socket"), FreeWriter("socket"),
                          BufferedReader_releaseLock_couchbase("socket"), MayReturn, Return >>,
                       << CloseQuietly("socket") >>) >>,
         << Return >>) >>

handleCouchbaseDelete ==
  << MayReturn,
     Try(
         << Await, MayReturn, checkIfCloudflare, MayReturn, Connect("socket"),
            TryFinally(<< Race(Opened("socket"), "throw"), GetWriter("socket"), GetReader("socket"),
                          Write("socket"), readResponse_couchbase("socket"), FreeWriter("socket"),
                          BufferedReader_releaseLock_couchbase("socket"), MayReturn, Return >>,
                       << CloseQuietly("socket") >>) >>,
         << Return >>) >>

handleCouchbaseIncr ==
  << MayReturn,
     Try(
         << Await, MayReturn, checkIfCloudflare, MayReturn, Connect("socket"),
            TryFinally(<< Race(Opened("socket"), "throw"), GetWriter("socket"), GetReader("socket"),
                          Write("socket"), readResponse_couchbase("socket"), FreeWriter("socket"),
                          BufferedReader_releaseLock_couchbase("socket"), MayReturn,
                          Either(<< MayThrow, Return >>, << Return >>) >>,
                       << CloseQuietly("socket") >>) >>,
         << Return >>) >>

-----------------------------------------------------------------------------
\* src/src/worker/couchdb.ts

handleCouchDBHealth ==
  << MayReturn,
     Try(
         << Await, MayReturn, checkIfCloudflare, MayReturn, sendHttpRequest_couchdb,
            Quietly(<< sendHttpRequest_couchdb, MayThrow >>), Return >>,
         << Return >>) >>

handleCouchDBQuery ==
  << MayReturn,
     Try(
         << Await, MayReturn, checkIfCloudflare, MayReturn, sendHttpRequest_couchdb_2, Return >>,
         << Return >>) >>

-----------------------------------------------------------------------------
\* src/src/worker/elasticsearch.ts

handleElasticsearchHealth ==
  << MayReturn,
     Try(
         << Await, MayReturn, checkIfCloudflare, MayReturn, sendHttpRequest_elasticsearch,
            Quietly(<< sendHttpRequest_elasticsearch >>), Return >>,
         << Return >>) >>

handleElasticsearchQuery ==
  << MayReturn,
     Try(
         << Await, MayReturn, checkIfCloudflare, MayReturn, sendHttpRequest_elasticsearch_2, Return >>,
         << Return >>) >>

handleElasticsearchHTTPS ==
  << MayReturn,
     Try(<< Await, MayReturn, checkIfCloudflare, MayReturn, Await, Await, Return >>, << Return >>) >>

handleElasticsearchIndex ==
  << MayReturn,
     Try(
         << Await, MayReturn, checkIfCloudflare, MayReturn,
            Either(<< Await, Await, Return >>, << sendHttpRequest_elasticsearch_2, Return >>) >>,
         << Return >>) >>

handleElasticsearchDelete ==
  << MayReturn,
     Try(
         << Await, MayReturn, checkIfCloudflare, MayReturn,
            Either(<< Await, Await, Return >>, << sendHttpRequest_elasticsearch, Return >>) >>,
         << Return >>) >>

handleElasticsearchCreate ==
  << MayReturn,
     Try(
         << Await, MayReturn, checkIfCloudflare, MayReturn,
            Either(<< Await, Await, Return >>, << sendHttpRequest_elasticsearch_2, Return >>) >>,
         << Return >>) >>

-----------------------------------------------------------------------------
\* src/src/worker/etcd.ts

handleEtcdHealth ==
  << MayReturn,
     Try(
         << Await, MayReturn, checkIfCloudflare, MayReturn, sendHttpRequest_etcd,
            Quietly(<< sendHttpRequest_etcd_2 >>), Quietly(<< sendHttpRequest_etcd >>), Return >>,
         << Return >>) >>

handleEtcdQuery ==
  << MayReturn,
     Try(<< Await, MayReturn, checkIfCloudflare, MayReturn, sendHttpRequest_etcd_2, Return >>, << Return >>) >>

-----------------------------------------------------------------------------
\* src/src/worker/graphite.ts

handleGraphiteSend ==
  << Try(
         << Await, MayReturn, checkIfCloudflare, MayReturn,
            Task("connectionPromise",
                 << Connect("socket"), Opened("socket"), GetWriter("socket"),
                    Try(
                        << Write("socket"), FreeWriter("socket"), Close("socket"), Return >>,
                        << FreeWriterQuietly("socket"), Close("socket"), Throw >>) >>),
            Race(Join("connectionPromise"), "throw"), Return >>,
         << Return >>) >>

handleGraphiteQuery ==
  << Try(
         << MayThrow, MayReturn, checkIfCloudflare, MayReturn, Await, Maybe(<< Await, Return >>), Await,
            Return >>,
         << Return >>) >>

handleGraphiteFind ==
  << Try(
         << MayThrow, MayReturn, checkIfCloudflare, MayReturn, Await, Maybe(<< Await, Return >>), Await,
            Return >>,
         << Return >>) >>

handleGraphiteInfo ==
  << Try(
         << MayThrow, MayReturn, checkIfCloudflare, MayReturn, Quietly(<< Await, Await >>),
            Quietly(<< Await >>), Return >>,
         << Return >>) >>

-----------------------------------------------------------------------------
\* src/src/worker/hazelcast.ts

handleHazelcastProbe ==
  << MayReturn, Try(<< Await >>, << Return >>), MayReturn, checkIfCloudflare, MayReturn,
     Quietly(<< Connect("socket"), Race(Opened("socket"), "throw"), GetWriter("socket"), GetReader("socket"),
                TryFinally(<< MayThrow, Write("socket"), readFrame_hazelcast("socket"), MayThrow,
                              Write("socket"), readFrame_hazelcast("socket"), MayThrow >>,
                           << FreeReader("socket"), FreeWriter("socket") >>),
                CloseQuietly("socket") >>),
     Return >>

handleHazelcastMapGet ==
  << MayReturn, Try(<< Await >>, << Return >>), MayReturn, checkIfCloudflare, MayReturn,
     Quietly(<< Connect("socket"), Race(Opened("socket"), "throw"), GetWriter("socket"), GetReader("socket"),
                TryFinally(<< MayThrow, Write("socket"), readFrame_hazelcast("socket"), MayReturn, MayThrow,
                              Write("socket"), readFrame_hazelcast("socket"), MayThrow, Write("socket"),
                              readFrame_hazelcast("socket") >>,
                           << FreeReader("socket"), FreeWriter("socket") >>),
                CloseQuietly("socket") >>),
     Return >>

handleHazelcastMapSet ==
  << MayReturn, Try(<< Await >>, << Return >>), MayReturn, checkIfCloudflare, MayReturn,
     Quietly(<< Connect("socket"), Race(Opened("socket"), "throw"), GetWriter("socket"), GetReader("socket"),
                TryFinally(<< MayThrow, Write("socket"), readFrame_hazelcast("socket"), MayReturn, MayThrow,
                              Write("socket"), readFrame_hazelcast("socket") >>,
                           << FreeReader("socket"), FreeWriter("socket") >>),
                CloseQuietly("socket") >>),
     Return >>

handleHazelcastMapDelete ==
  << MayReturn, Try(<< Await >>, << Return >>), MayReturn, checkIfCloudflare, MayReturn,
     Quietly(<< Connect("socket"), Race(Opened("socket"), "throw"), GetWriter("socket"), GetReader("socket"),
                TryFinally(<< MayThrow, Write("socket"), readFrame_hazelcast("socket"), MayReturn, MayThrow,
                              Write("socket"), readFrame_hazelcast("socket") >>,
                           << FreeReader("socket"), FreeWriter("socket") >>),
                CloseQuietly("socket") >>),
     Return >>

handleHazelcastQueueOffer ==
  << MayReturn, Try(<< Await >>, << Return >>), MayReturn, checkIfCloudflare, MayReturn,
     Quietly(<< Connect("socket"), Race(Opened("socket"), "throw"), GetWriter("socket"), GetReader("socket"),
                TryFinally(<< MayThrow, Write("socket"), readFrame_hazelcast("socket"), MayReturn, MayThrow,
                              Write("socket"), readFrame_hazelcast("socket"), MayThrow, Write("socket"),
                              readFrame_hazelcast("socket"), MayThrow, Write("socket"),
                              readFrame_hazelcast("socket") >>,
                           << FreeReader("socket"), FreeWriter("socket") >>),
                CloseQuietly("socket") >>),
     Return >>

handleHazelcastQueuePoll ==
  << MayReturn, Try(<< Await >>, << Return >>), MayReturn, checkIfCloudflare, MayReturn,
     Quietly(<< Connect("socket"), Race(Opened("socket"), "throw"), GetWriter("socket"), GetReader("socket"),
                TryFinally(<< MayThrow, Write("socket"), readFrame_hazelcast("socket"), MayReturn, MayThrow,
                              Write("socket"), readFrame_hazelcast("socket") >>,
                           << FreeReader("socket"), FreeWriter("socket") >>),
                CloseQuietly("socket") >>),
     Return >>

handleHazelcastSetAdd ==
  << handleHazelcastSetOp, Return >>

handleHazelcastSetContains ==
  << handleHazelcastSetOp, Return >>

handleHazelcastSetRemove ==
  << handleHazelcastSetOp, Return >>

handleHazelcastTopicPublish ==
  << MayReturn, Try(<< Await >>, << Return >>), MayReturn, checkIfCloudflare, MayReturn,
     Quietly(<< hazelcastConnect("socket"), MayReturn,
                TryFinally(<< MayThrow, Write("socket"), readFrame_hazelcast("socket") >>,
                           << FreeReader("socket"), FreeWriter("socket") >>),
                CloseQuietly("socket") >>),
     Return >>

-----------------------------------------------------------------------------
\* src/src/worker/ignite.ts

handleIgniteConnect ==
  << Try(
         << Await, MayReturn, checkIfCloudflare, MayReturn,
            Task("connectionPromise",
                 << Connect("socket"), Opened("socket"), GetWriter("socket"), GetReader("socket"),
                    Try(
                        << Write("socket"), readResponse_ignite("socket"), MayThrow, FreeWriter("socket"),
                           FreeReader("socket"), Close("socket"), Return >>,
                        << FreeWriter("socket"), FreeReader("socket"), Close("socket"), Throw >>) >>),
            Race(Join("connectionPromise"), "throw"), Return >>,
         << Return >>) >>

handleIgniteProbe ==
  << Try(
         << Await, MayReturn, checkIfCloudflare, MayReturn,
            Loop(<< Quietly(<< Connect("socket"), Race(Opened("socket"), "throw"), GetWriter("socket"),
                               GetReader("socket"),
                               TryFinally(<< Write("socket"), readResponse_ignite("socket") >>,
                                          << FreeWriter("socket"), FreeReader("socket"), Close("socket") >>) >>) >>),
            Return >>,
         << Return >>) >>

handleIgniteListCaches ==
  << MayReturn, Try(<< Await >>, << Return >>), MayReturn, checkIfCloudflare, MayReturn,
     Try(
         << openIgniteSession("socket"),
            TryFinally(<< MayThrow, Write("socket"), readResponse_ignite("socket"), MayThrow, MayReturn,
                          Return >>,
                       << FreeReader("socket"), FreeWriter("socket"), CloseQuietly("socket") >>) >>,
         << Return >>) >>

handleIgniteCacheGet ==
  << MayReturn, Try(<< Await >>, << Return >>), MayReturn, checkIfCloudflare, MayReturn,
     Try(
         << openIgniteSession("socket"),
            TryFinally(<< MayThrow, Write("socket"), readResponse_ignite("socket"), MayThrow, MayReturn,
                          Write("socket"), readResponse_ignite("socket"), MayThrow, MayReturn, Return >>,
                       << FreeReader("socket"), FreeWriter("socket"), CloseQuietly("socket") >>) >>,
         << Return >>) >>

handleIgniteCachePut ==
  << MayReturn, Try(<< Await >>, << Return >>), MayReturn, checkIfCloudflare, MayReturn,
     Try(
         << openIgniteSession("socket"),
            TryFinally(<< MayThrow, Write("socket"), readResponse_ignite("socket"), MayThrow, MayReturn,
                          Write("socket"), readResponse_ignite("socket"), MayThrow, MayReturn, Return >>,
                       << FreeReader("socket"), FreeWriter("socket"), CloseQuietly("socket") >>) >>,
         << Return >>) >>

handleIgniteCacheRemove ==
  << MayReturn, Try(<< Await >>, << Return >>), MayReturn, checkIfCloudflare, MayReturn,
     Try(
         << openIgniteSession("socket"),
            TryFinally(<< MayThrow, Write("socket"), readResponse_ignite("socket"), MayThrow, MayReturn,
                          Write("socket"), readResponse_ignite("socket"), MayThrow, MayReturn, Return >>,
                       << FreeReader("socket"), FreeWriter("socket"), CloseQuietly("socket") >>) >>,
         << Return >>) >>

-----------------------------------------------------------------------------
\* src/src/worker/influxdb.ts

handleInfluxDBHealth ==
  << Try(
         << Await, MayReturn, sendHttpRequest_influxdb, Quietly(<< sendHttpRequest_influxdb >>), Return >>,
         << Return >>) >>

handleInfluxDBWrite ==
  << Try(<< Await, MayReturn, sendHttpRequest_influxdb_2, Return >>, << Return >>) >>

handleInfluxDBQuery ==
  << Try(<< Await, MayReturn, sendHttpRequest_influxdb_2, Return >>, << Return >>) >>

-----------------------------------------------------------------------------
\* src/src/worker/memcached.ts

handleMemcachedConnect ==
  << MayReturn,
     Try(
         << Await, MayReturn, checkIfCloudflare, MayReturn,
            Task("connectionPromise",
                 << Connect("socket"), Opened("socket"), GetReader("socket"), GetWriter("socket"),
                    Try(
                        << Write("socket"), readMemcachedResponse("socket"), Close("socket"), Return >>,
                        << Close("socket"), Throw >>) >>),
            Race(Join("connectionPromise"), "throw"), Return >>,
         << Return >>) >>

handleMemcachedCommand ==
  << MayReturn,
     Try(
         << Await, MayReturn, checkIfCloudflare, MayReturn,
            Task("connectionPromise",
                 << Connect("socket"), Opened("socket"), GetReader("socket"), GetWriter("socket"),
                    Try(
                        << Either(<< MayThrow, Write("socket"), Write("socket") >>, << Write("socket") >>),
                           readMemcachedResponse("socket"), Close("socket"), Return >>,
                        << Close("socket"), Throw >>) >>),
            Race(Join("connectionPromise"), "throw"), Return >>,
         << Return >>) >>

handleMemcachedStats ==
  << MayReturn,
     Try(
         << Await, MayReturn, checkIfCloudflare, MayReturn,
            Task("connectionPromise",
                 << Connect("socket"), Opened("socket"), GetReader("socket"), GetWriter("socket"),
                    Try(
                        << Write("socket"), readMemcachedResponse("socket"), Close("socket"), Return >>,
                        << Close("socket"), Throw >>) >>),
            Race(Join("connectionPromise"), "throw"), Return >>,
         << Return >>) >>

handleMemcachedGets ==
  << MayReturn,
     Try(
         << Await, MayReturn, checkIfCloudflare, MayReturn,
            Task("connectionPromise",
                 << Connect("socket"), Opened("socket"), GetReader("socket"), GetWriter("socket"),
                    Try(
                        << Write("socket"), readMemcachedResponse("socket"), Close("socket"), Return >>,
                        << Close("socket"), Throw >>) >>),
            Race(Join("connectionPromise"), "throw"), Return >>,
         << Return >>) >>

-----------------------------------------------------------------------------
\* src/src/worker/mongodb.ts

handleMongoDBConnect ==
  << MayReturn,
     Try(
         << Await, MayReturn, checkIfCloudflare, MayReturn,
            Task("connectionPromise",
                 << Connect("socket"), Opened("socket"), GetReader("socket"), GetWriter("socket"),
                    Try(
                        << Write("socket"), readFullResponse_mongodb("socket"), MayThrow, Write("socket"),
                           readFullResponse_mongodb("socket"), MayThrow, FreeWriter("socket"),
                           FreeReader("socket"), Close("socket"), Return >>,
                        << FreeWriter("socket"), FreeReader("socket"), Close("socket"), Throw >>) >>),
            Race(Join("connectionPromise"), "throw"), Return >>,
         << Return >>) >>

handleMongoDBPing ==
  << MayReturn,
     Try(
         << Await, MayReturn, checkIfCloudflare, MayReturn,
            Task("connectionPromise",
                 << Connect("socket"), Opened("socket"), GetReader("socket"), GetWriter("socket"),
                    Try(
                        << Write("socket"), readFullResponse_mongodb("socket"), MayThrow,
                           FreeWriter("socket"), FreeReader("socket"), Close("socket"), Return >>,
                        << FreeWriter("socket"), FreeReader("socket"), Close("socket"), Throw >>) >>),
            Race(Join("connectionPromise"), "throw"), Return >>,
         << Return >>) >>

handleMongoDBFind ==
  << MayReturn,
     Try(
         << Await, MayReturn, checkIfCloudflare, MayReturn, Connect("socket"),
            Try(
                << Race(Opened("socket"), "throw"), GetReader("socket"), GetWriter("socket"),
                   TryFinally(<< Write("socket"), RaceTask(<< readFullResponse_mongodb("socket") >>, "throw"),
                                 MayThrow, Write("socket"),
                                 RaceTask(<< readFullResponse_mongodb("socket") >>, "throw"), MayThrow,
                                 MayReturn, Return >>,
                              << FreeReader("socket"), FreeWriter("socket"), Close("socket") >>) >>,
                << Close("socket"), Throw >>) >>,
         << Return >>) >>

handleMongoDBInsert ==
  << MayReturn,
     Try(
         << Await, MayReturn, checkIfCloudflare, MayReturn, Connect("socket"),
            Try(
                << Race(Opened("socket"), "throw"), GetReader("socket"), GetWriter("socket"),
                   TryFinally(<< Write("socket"), RaceTask(<< readFullResponse_mongodb("socket") >>, "throw"),
                                 MayThrow, Write("socket"),
                                 RaceTask(<< readFullResponse_mongodb("socket") >>, "throw"), MayThrow,
                                 MayReturn, Return >>,
                              << FreeReader("socket"), FreeWriter("socket"), Close("socket") >>) >>,
                << Close("socket"), Throw >>) >>,
         << Return >>) >>

handleMongoDBUpdate ==
  << MayReturn,
     Try(
         << Await, MayReturn, checkIfCloudflare, MayReturn, Connect("socket"),
            Try(
                << Race(Opened("socket"), "throw"), GetReader("socket"), GetWriter("socket"),
                   TryFinally(<< Write("socket"), RaceTask(<< readFullResponse_mongodb("socket") >>, "throw"),
                                 MayThrow, Write("socket"),
                                 RaceTask(<< readFullResponse_mongodb("socket") >>, "throw"), MayThrow,
                                 MayReturn, Return >>,
                              << FreeReader("socket"), FreeWriter("socket"), Close("socket") >>) >>,
                << Close("socket"), Throw >>) >>,
         << Return >>) >>

handleMongoDBDelete ==
  << MayReturn,
     Try(
         << Await, MayReturn, checkIfCloudflare, MayReturn, Connect("socket"),
            Try(
                << Race(Opened("socket"), "throw"), GetReader("socket"), GetWriter("socket"),
                   TryFinally(<< Write("socket"), RaceTask(<< readFullResponse_mongodb("socket") >>, "throw"),
                                 MayThrow, Write("socket"),
                                 RaceTask(<< readFullResponse_mongodb("socket") >>, "throw"), MayThrow,
                                 MayReturn, Return >>,
                              << FreeReader("socket"), FreeWriter("socket"), Close("socket") >>) >>,
                << Close("socket"), Throw >>) >>,
         << Return >>) >>

-----------------------------------------------------------------------------
\* src/src/worker/neo4j.ts

handleNeo4jConnect ==
  << Try(
         << Await, MayReturn, checkIfCloudflare, MayReturn, Connect("socket"),
            Race(Opened("socket"), "throw"), GetWriter("socket"), GetReader("socket"), Write("socket"),
            Race(Read("socket"), "throw"), When(GotNothing, << Throw >>), MayThrow, Write("socket"),
            Quietly(<< Race(Read("socket"), "throw"), When(GotData, << MayThrow >>) >>), FreeWriter("socket"),
            FreeReader("socket"), CloseQuietly("socket"), Return >>,
         << Return >>) >>

handleNeo4jQuery ==
  << Try(
         << Await, MayReturn, checkIfCloudflare, MayReturn, openBoltSession("socket"),
            Maybe(<< Write("socket"), readBoltMessages("socket"), MayThrow >>), Write("socket"),
            Write("socket"), readBoltMessages("socket"),
            Quietly(<< FreeWriter("socket"), FreeReader("socket"), CloseQuietly("socket") >>),
            ForgetWriter("socket"), ForgetReader("socket"), ForgetSocket("socket"), MayReturn, Return >>,
         << Quietly(<< When(HasWriter("socket"), << FreeWriter("socket") >>),
                       When(HasReader("socket"), << FreeReader("socket") >>),
                       When(HasSocket("socket"), << CloseQuietly("socket") >>) >>),
            Return >>) >>

handleNeo4jQueryParams ==
  << Try(
         << Await, MayReturn, checkIfCloudflare, MayReturn, openBoltSession("socket"), Write("socket"),
            Write("socket"), readBoltMessages("socket"),
            Quietly(<< FreeWriter("socket"), FreeReader("socket"), CloseQuietly("socket") >>),
            ForgetWriter("socket"), ForgetReader("socket"), ForgetSocket("socket"), MayReturn, Return >>,
         << Quietly(<< When(HasWriter("socket"), << FreeWriter("socket") >>),
                       When(HasReader("socket"), << FreeReader("socket") >>),
                       When(HasSocket("socket"), << CloseQuietly("socket") >>) >>),
            Return >>) >>

handleNeo4jSchema ==
  << Try(
         << MayReturn, Await, MayReturn, checkIfCloudflare, MayReturn, openBoltSession("socket"),
            handleNeo4jSchema_runQuery("socket"), handleNeo4jSchema_runQuery("socket"),
            handleNeo4jSchema_runQuery("socket"),
            Quietly(<< FreeWriter("socket"), FreeReader("socket"), CloseQuietly("socket") >>),
            ForgetWriter("socket"), ForgetReader("socket"), ForgetSocket("socket"), Return >>,
         << Quietly(<< When(HasWriter("socket"), << FreeWriter("socket") >>),
                       When(HasReader("socket"), << FreeReader("socket") >>),
                       When(HasSocket("socket"), << CloseQuietly("socket") >>) >>),
            Return >>) >>

handleNeo4jCreate ==
  << Try(
         << Await, MayReturn, checkIfCloudflare, MayReturn, openBoltSession("socket"), Write("socket"),
            Write("socket"), readBoltMessages("socket"),
            Quietly(<< FreeWriter("socket"), FreeReader("socket"), CloseQuietly("socket") >>),
            ForgetWriter("socket"), ForgetReader("socket"), ForgetSocket("socket"), MayReturn, Return >>,
         << Quietly(<< When(HasWriter("socket"), << FreeWriter("socket") >>),
                       When(HasReader("socket"), << FreeReader("socket") >>),
                       When(HasSocket("socket"), << CloseQuietly("socket") >>) >>),
            Return >>) >>

-----------------------------------------------------------------------------
\* src/src/worker/opentsdb.ts

handleOpenTSDBVersion ==
  << Try(
         << Await, MayReturn, checkIfCloudflare, MayReturn,
            Task("connectionPromise",
                 << Connect("socket"), Opened("socket"), GetReader("socket"), GetWriter("socket"),
                    Try(
                        << Write("socket"), readTelnetResponse("socket"), FreeWriter("socket"),
                           FreeReader("socket"), Close("socket"), Return >>,
                        << FreeReaderQuietly("socket"), FreeWriterQuietly("socket"), CloseQuietly("socket"),
                           Throw >>) >>),
            Try(<< Race(Join("connectionPromise"), "throw"), Return >>, << Return >>) >>,
         << Return >>) >>

handleOpenTSDBStats ==
  << Try(
         << Await, MayReturn, checkIfCloudflare, MayReturn,
            Task("connectionPromise",
                 << Connect("socket"), Opened("socket"), GetReader("socket"), GetWriter("socket"),
                    Try(
                        << Write("socket"), readTelnetResponse("socket"), FreeWriter("socket"),
                           FreeReader("socket"), Close("socket"), Return >>,
                        << FreeReaderQuietly("socket"), FreeWriterQuietly("socket"), CloseQuietly("socket"),
                           Throw >>) >>),
            Try(<< Race(Join("connectionPromise"), "throw"), Return >>, << Return >>) >>,
         << Return >>) >>

handleOpenTSDBSuggest ==
  << Try(
         << Await, MayReturn, checkIfCloudflare, MayReturn,
            Task("connectionPromise",
                 << Connect("socket"), Opened("socket"), GetReader("socket"), GetWriter("socket"),
                    Try(
                        << Write("socket"), readTelnetResponse("socket"), FreeWriter("socket"),
                           FreeReader("socket"), Close("socket"), Return >>,
                        << FreeReaderQuietly("socket"), FreeWriterQuietly("socket"), CloseQuietly("socket"),
                           Throw >>) >>),
            Try(<< Race(Join("connectionPromise"), "throw"), Return >>, << Return >>) >>,
         << Return >>) >>

handleOpenTSDBPut ==
  << Try(
         << Await, MayReturn, checkIfCloudflare, MayReturn,
            Task("connectionPromise",
                 << Connect("socket"), Opened("socket"), GetReader("socket"), GetWriter("socket"),
                    Try(
                        << Write("socket"), Quietly(<< readTelnetResponse("socket") >>), FreeWriter("socket"),
                           FreeReader("socket"), Close("socket"), MayReturn, Return >>,
                        << FreeReaderQuietly("socket"), FreeWriterQuietly("socket"), CloseQuietly("socket"),
                           Throw >>) >>),
            Try(<< Race(Join("connectionPromise"), "throw"), Return >>, << Return >>) >>,
         << Return >>) >>

handleOpenTSDBQuery ==
  << Try(
         << Await, MayReturn, checkIfCloudflare, MayReturn,
            Try(<< Await, Await, MayReturn, Return >>, << Return >>) >>,
         << Return >>) >>

-----------------------------------------------------------------------------
\* src/src/worker/redis.ts

handleRedisConnect ==
  << Try(
         << MayReturn, Await, MayReturn, checkIfCloudflare, MayReturn,
            Task("connectionPromise",
                 << Connect("socket"), Opened("socket"), GetReader("socket"), GetWriter("socket"),
                    Try(
                        << Maybe(<< Write("socket"), readRESPResponse("socket"), MayThrow >>),
                           Maybe(<< Write("socket"), readRESPResponse("socket"), MayThrow >>),
                           Write("socket"), readRESPResponse("socket"), MayThrow, Write("socket"),
                           readRESPResponse("socket"), FreeReaderQuietly("socket"),
                           FreeWriterQuietly("socket"), Close("socket"), Return >>,
                        << FreeReaderQuietly("socket"), FreeWriterQuietly("socket"), CloseQuietly("socket"),
                           Throw >>) >>),
            Try(<< Race(Join("connectionPromise"), "throw"), Return >>, << Return >>) >>,
         << Return >>) >>

handleRedisCommand ==
  << Try(
         << MayReturn, Await, MayReturn, checkIfCloudflare, MayReturn,
            Task("connectionPromise",
                 << Connect("socket"), Opened("socket"), GetReader("socket"), GetWriter("socket"),
                    Try(
                        << Maybe(<< Write("socket"), readRESPResponse("socket"), MayThrow >>),
                           Maybe(<< Write("socket"), readRESPResponse("socket"), MayThrow >>),
                           Write("socket"), readRESPResponse("socket"), FreeReaderQuietly("socket"),
                           FreeWriterQuietly("socket"), Close("socket"), Return >>,
                        << FreeReaderQuietly("socket"), FreeWriterQuietly("socket"), CloseQuietly("socket"),
                           Throw >>) >>),
            Try(<< Race(Join("connectionPromise"), "throw"), Return >>, << Return >>) >>,
         << Return >>) >>

-----------------------------------------------------------------------------
\* src/src/worker/rethinkdb.ts

handleRethinkDBConnect ==
  << Try(
         << Await, MayReturn, cfBlock, MayReturn, Connect("socket"), Race(Opened("socket"), "throw"),
            GetWriter("socket"), GetReader("socket"),
            TryFinally(<< Write("socket"), readNullTerminatedString("socket"), Return >>,
                       << FreeWriterQuietly("socket"), FreeReaderQuietly("socket"), CloseQuietly("socket") >>) >>,
         << Return >>) >>

handleRethinkDBProbe ==
  << Try(
         << Await, MayReturn, cfBlock, MayReturn, Connect("socket"), Race(Opened("socket"), "throw"),
            GetWriter("socket"), GetReader("socket"),
            TryFinally(<< Write("socket"), readNullTerminatedString("socket"), Return >>,
                       << FreeWriterQuietly("socket"), FreeReaderQuietly("socket"), CloseQuietly("socket") >>) >>,
         << Return >>) >>

handleRethinkDBQuery ==
  << Try(
         << Await, MayReturn, cfBlock, MayReturn, Connect("socket"), Race(Opened("socket"), "throw"),
            GetWriter("socket"), GetReader("socket"),
            TryFinally(<< performScramAuth("socket"), MayReturn, Write("socket"), readQueryResponse("socket"),
                          Return >>,
                       << FreeWriterQuietly("socket"), FreeReaderQuietly("socket"), CloseQuietly("socket") >>) >>,
         << Return >>) >>

handleRethinkDBListTables ==
  << Try(
         << Await, MayReturn, cfBlock, MayReturn, Connect("socket"), Race(Opened("socket"), "throw"),
            GetWriter("socket"), GetReader("socket"),
            TryFinally(<< performScramAuth("socket"), MayReturn, Write("socket"), readQueryResponse("socket"),
                          Return >>,
                       << FreeWriterQuietly("socket"), FreeReaderQuietly("socket"), CloseQuietly("socket") >>) >>,
         << Return >>) >>

handleRethinkDBServerInfo ==
  << Try(
         << Await, MayReturn, cfBlock, MayReturn, Connect("socket"), Race(Opened("socket"), "throw"),
            GetWriter("socket"), GetReader("socket"),
            TryFinally(<< performScramAuth("socket"), MayReturn, Write("socket"), readQueryResponse("socket"),
                          Return >>,
                       << FreeWriterQuietly("socket"), FreeReaderQuietly("socket"), CloseQuietly("socket") >>) >>,
         << Return >>) >>

handleRethinkDBTableCreate ==
  << Try(
         << Await, MayReturn, cfBlock, MayReturn, Connect("socket"), Race(Opened("socket"), "throw"),
            GetWriter("socket"), GetReader("socket"),
            TryFinally(<< performScramAuth("socket"), MayReturn, Write("socket"), readQueryResponse("socket"),
                          Return >>,
                       << FreeWriterQuietly("socket"), FreeReaderQuietly("socket"), CloseQuietly("socket") >>) >>,
         << Return >>) >>

handleRethinkDBInsert ==
  << Try(
         << Await, MayReturn, cfBlock, MayReturn, Connect("socket"), Race(Opened("socket"), "throw"),
            GetWriter("socket"), GetReader("socket"),
            TryFinally(<< performScramAuth("socket"), MayReturn, Write("socket"), readQueryResponse("socket"),
                          Return >>,
                       << FreeWriterQuietly("socket"), FreeReaderQuietly("socket"), CloseQuietly("socket") >>) >>,
         << Return >>) >>

-----------------------------------------------------------------------------
\* src/src/worker/riak.ts

handleRiakPing ==
  << MayReturn,
     Try(
         << Await, MayReturn, checkIfCloudflare, MayReturn, Connect("socket"),
            TryFinally(<< Race(Opened("socket"), "throw"), GetWriter("socket"), GetReader("socket"),
                          TryFinally(<< Write("socket"), readRiakResponse("socket"), Return >>,
                                     << FreeWriter("socket"), FreeReader("socket") >>) >>,
                       << CloseQuietly("socket") >>) >>,
         << Return >>) >>

handleRiakInfo ==
  << MayReturn,
     Try(
         << Await, MayReturn, checkIfCloudflare, MayReturn, Connect("socket"),
            TryFinally(<< Race(Opened("socket"), "throw"), GetWriter("socket"), GetReader("socket"),
                          TryFinally(<< Write("socket"), readRiakResponse("socket"), MayReturn, Return >>,
                                     << FreeWriter("socket"), FreeReader("socket") >>) >>,
                       << CloseQuietly("socket") >>) >>,
         << Return >>) >>

handleRiakGet ==
  << Try(
         << MayReturn, Await, MayReturn, checkIfCloudflare, MayReturn, Connect("socket"),
            TryFinally(<< Race(Opened("socket"), "throw"), GetReader("socket"), GetWriter("socket"),
                          TryFinally(<< Write("socket"), readRiakResponse("socket"), MayReturn, Return >>,
                                     << FreeReader("socket"), FreeWriter("socket") >>) >>,
                       << CloseQuietly("socket") >>) >>,
         << Return >>) >>

handleRiakPut ==
  << Try(
         << MayReturn, Await, MayReturn, checkIfCloudflare, MayReturn, Connect("socket"),
            TryFinally(<< Race(Opened("socket"), "throw"), GetReader("socket"), GetWriter("socket"),
                          TryFinally(<< Write("socket"), readRiakResponse("socket"), MayReturn, Return >>,
                                     << FreeReader("socket"), FreeWriter("socket") >>) >>,
                       << CloseQuietly("socket") >>) >>,
         << Return >>) >>

-----------------------------------------------------------------------------
\* src/src/worker/sentinel.ts

handleSentinelProbe ==
  << MayReturn, Await, MayReturn, checkIfCloudflare, MayReturn,
     Try(
         << Connect("socket"), Race(Opened("socket"), "throw"), GetReader("socket"), GetWriter("socket"),
            TryFinally(<< Maybe(<< Write("socket"), readRESPFull("socket"), Maybe(<< MayThrow, Throw >>) >>),
                          Write("socket"), readRESPFull("socket"), MayThrow, Write("socket"),
                          readRESPFull("socket"), MayThrow, Write("socket"), readRESPFull("socket"), MayThrow,
                          Write("socket"), readRESPFull("socket"), MayThrow, Return >>,
                       << FreeReaderQuietly("socket"), FreeWriterQuietly("socket"), CloseQuietly("socket") >>) >>,
         << Return >>) >>

handleSentinelQuery ==
  << MayReturn, Await, MayReturn, checkIfCloudflare, MayReturn,
     Try(
         << Connect("socket"), Race(Opened("socket"), "throw"), GetReader("socket"), GetWriter("socket"),
            TryFinally(<< Maybe(<< Write("socket"), readRESPFull("socket"), MayThrow >>), Write("socket"),
                          readRESPFull("socket"), MayThrow, Return >>,
                       << FreeReaderQuietly("socket"), FreeWriterQuietly("socket"), CloseQuietly("socket") >>) >>,
         << Return >>) >>

handleSentinelGet ==
  << MayReturn, Await, MayReturn, checkIfCloudflare, MayReturn,
     Try(
         << Connect("socket"), Race(Opened("socket"), "throw"), GetReader("socket"), GetWriter("socket"),
            TryFinally(<< Write("socket"), readRESPFull("socket"), MayThrow, Write("socket"),
                          readRESPFull("socket"), MayThrow, Return >>,
                       << FreeReaderQuietly("socket"), FreeWriterQuietly("socket"), CloseQuietly("socket") >>) >>,
         << Return >>) >>

handleSentinelGetMasterAddr ==
  << MayReturn, Await, MayReturn, checkIfCloudflare, MayReturn,
     Try(
         << Connect("socket"), Race(Opened("socket"), "throw"), GetReader("socket"), GetWriter("socket"),
            TryFinally(<< Write("socket"), readRESPFull("socket"), MayThrow, Write("socket"),
                          readRESPFull("socket"), MayThrow, Return >>,
                       << FreeReaderQuietly("socket"), FreeWriterQuietly("socket"), CloseQuietly("socket") >>) >>,
         << Return >>) >>

handleSentinelFailover ==
  << MayReturn, Await, MayReturn, checkIfCloudflare, MayReturn,
     Try(<< sentinelWriteCommand, Return >>, << Return >>) >>

handleSentinelReset ==
  << MayReturn, Await, MayReturn, checkIfCloudflare, MayReturn,
     Try(<< sentinelWriteCommand, Return >>, << Return >>) >>

handleSentinelSet ==
  << MayReturn, Await, MayReturn, checkIfCloudflare, MayReturn,
     Try(<< sentinelWriteCommand, Return >>, << Return >>) >>

-----------------------------------------------------------------------------
\* src/src/worker/solr.ts

handleSolrHealth ==
  << MayReturn,
     Try(
         << Await, MayReturn, checkIfCloudflare, MayReturn, sendHttpRequest_solr,
            Quietly(<< sendHttpRequest_solr, MayThrow >>), Return >>,
         << Return >>) >>

handleSolrQuery ==
  << MayReturn,
     Try(<< Await, MayReturn, checkIfCloudflare, MayReturn, sendHttpRequest_solr, Return >>, << Return >>) >>

handleSolrIndex ==
  << MayReturn,
     Try(<< Await, MayReturn, checkIfCloudflare, MayReturn, sendHttpRequest_solr_2, Return >>, << Return >>) >>

handleSolrDelete ==
  << MayReturn,
     Try(<< Await, MayReturn, checkIfCloudflare, MayReturn, sendHttpRequest_solr_2, Return >>, << Return >>) >>

-----------------------------------------------------------------------------
\* src/src/worker/sonic.ts

handleSonicProbe ==
  << MayReturn,
     Try(
         << Await, MayReturn, checkIfCloudflare, MayReturn,
            Task("connectionPromise",
                 << Connect("socket"), Opened("socket"), GetReader("socket"), GetWriter("socket"),
                    TryFinally(<< readLine_sonic("socket"), MayThrow, tryStartMode("socket"),
                                  Maybe(<< sendCommand_sonic("socket"), sendCommand_sonic("socket"),
                                           sendCommand_sonic("socket") >>),
                                  Quietly(<< Connect("searchSocket"), Opened("searchSocket"),
                                             GetReader("searchSocket"), GetWriter("searchSocket"),
                                             TryFinally(<< readLine_sonic("searchSocket"),
                                                           tryStartMode("searchSocket"),
                                                           sendCommand_sonic("searchSocket") >>,
                                                        << FreeWriterQuietly("searchSocket"),
                                                           FreeReaderQuietly("searchSocket"),
                                                           CloseQuietly("searchSocket") >>) >>),
                                  Quietly(<< Connect("ingestSocket"), Opened("ingestSocket"),
                                             GetReader("ingestSocket"), GetWriter("ingestSocket"),
                                             TryFinally(<< readLine_sonic("ingestSocket"),
                                                           tryStartMode("ingestSocket"),
                                                           sendCommand_sonic("ingestSocket") >>,
                                                        << FreeWriterQuietly("ingestSocket"),
                                                           FreeReaderQuietly("ingestSocket"),
                                                           CloseQuietly("ingestSocket") >>) >>),
                                  Return >>,
                               << FreeWriterQuietly("socket"), FreeReaderQuietly("socket"),
                                  CloseQuietly("socket") >>) >>),
            Join("connectionPromise"), Return >>,
         << Return >>) >>

handleSonicQuery ==
  << MayReturn,
     Try(
         << Await, MayReturn, checkIfCloudflare, MayReturn, Connect("socket"),
            Race(Opened("socket"), "throw"), GetReader("socket"), GetWriter("socket"),
            Try(
                << readLine_sonic("socket"), sendCommand_sonic("socket"), MayThrow,
                   sendCommand_sonic("socket"), Either(<< readLine_sonic("socket") >>, << MayThrow >>),
                   sendCommand_sonic("socket"), FreeWriterQuietly("socket"), FreeReaderQuietly("socket"),
                   CloseQuietly("socket"), Return >>,
                << FreeWriterQuietly("socket"), FreeReaderQuietly("socket"), CloseQuietly("socket"), Throw >>) >>,
         << Return >>) >>

handleSonicPush ==
  << MayReturn,
     Try(
         << Await, MayReturn, checkIfCloudflare, MayReturn, Connect("socket"),
            Race(Opened("socket"), "throw"), GetReader("socket"), GetWriter("socket"),
            Try(
                << readLine_sonic("socket"), sendCommand_sonic("socket"), MayThrow,
                   sendCommand_sonic("socket"), sendCommand_sonic("socket"), FreeWriterQuietly("socket"),
                   FreeReaderQuietly("socket"), CloseQuietly("socket"), Return >>,
                << FreeWriterQuietly("socket"), FreeReaderQuietly("socket"), CloseQuietly("socket"), Throw >>) >>,
         << Return >>) >>

handleSonicSuggest ==
  << MayReturn,
     Try(
         << Await, MayReturn, checkIfCloudflare, MayReturn, Connect("socket"),
            Race(Opened("socket"), "throw"), GetReader("socket"), GetWriter("socket"),
            Try(
                << readLine_sonic("socket"), sendCommand_sonic("socket"), MayThrow,
                   sendCommand_sonic("socket"), Either(<< readLine_sonic("socket") >>, << MayThrow >>),
                   sendCommand_sonic("socket"), FreeWriterQuietly("socket"), FreeReaderQuietly("socket"),
                   CloseQuietly("socket"), Return >>,
                << FreeWriterQuietly("socket"), FreeReaderQuietly("socket"), CloseQuietly("socket"), Throw >>) >>,
         << Return >>) >>

handleSonicPing ==
  << MayReturn,
     Try(
         << Await, MayReturn, checkIfCloudflare, MayReturn,
            Task("connectionPromise",
                 << Connect("socket"), Opened("socket"), GetReader("socket"), GetWriter("socket"),
                    Try(
                        << readLine_sonic("socket"), MayThrow, tryStartMode("socket"), MayThrow,
                           sendCommand_sonic("socket"), sendCommand_sonic("socket"),
                           FreeWriterQuietly("socket"), FreeReaderQuietly("socket"), CloseQuietly("socket"),
                           Return >>,
                        << FreeWriterQuietly("socket"), FreeReaderQuietly("socket"), CloseQuietly("socket"),
                           Throw >>) >>),
            Join("connectionPromise"), Return >>,
         << Return >>) >>

-----------------------------------------------------------------------------
\* src/src/worker/tarantool.ts

handleTarantoolConnect ==
  << MayReturn,
     Try(
         << Await, MayReturn, checkIfCloudflare, MayReturn, Connect("socket"),
            Race(Opened("socket"), "throw"), GetWriter("socket"), GetReader("socket"),
            BufferedReader_readExact_buffered_reader("socket"),
            Maybe(<< Write("socket"), BufferedReader_readExact_buffered_reader("socket"), MayThrow >>),
            FreeWriter("socket"), FreeReader("socket"), CloseQuietly("socket"), Return >>,
         << Return >>) >>

handleTarantoolProbe ==
  << MayReturn,
     Try(
         << Await, MayReturn, checkIfCloudflare, MayReturn, Connect("socket"),
            TryFinally(<< Race(Opened("socket"), "throw"), GetReader("socket"),
                          BufferedReader_readExact_buffered_reader("socket"), FreeReader("socket"), Return >>,
                       << CloseQuietly("socket") >>) >>,
         << Return >>) >>

handleTarantoolEval ==
  << MayReturn,
     Try(
         << Await, MayReturn, checkIfCloudflare, MayReturn, Connect("socket"),
            Race(Opened("socket"), "throw"), GetWriter("socket"), GetReader("socket"),
            TryFinally(<< BufferedReader_readExact_buffered_reader("socket"), MayReturn, Write("socket"),
                          readIprotoResponse("socket"), MayReturn, Return >>,
                       << FreeWriterQuietly("socket"), FreeReaderQuietly("socket"), CloseQuietly("socket") >>) >>,
         << Return >>) >>

handleTarantoolSQL ==
  << MayReturn,
     Try(
         << Await, MayReturn, checkIfCloudflare, MayReturn, Connect("socket"),
            Race(Opened("socket"), "throw"), GetWriter("socket"), GetReader("socket"),
            TryFinally(<< BufferedReader_readExact_buffered_reader("socket"), MayReturn, Write("socket"),
                          readIprotoResponse("socket"), MayReturn, Return >>,
                       << FreeWriterQuietly("socket"), FreeReaderQuietly("socket"), CloseQuietly("socket") >>) >>,
         << Return >>) >>

-----------------------------------------------------------------------------
\* src/src/worker/zookeeper.ts

handleZooKeeperConnect ==
  << MayReturn,
     Try(
         << Await, MayReturn, checkIfCloudflare, MayReturn, sendFourLetterWord,
            Quietly(<< sendFourLetterWord >>), Return >>,
         << Return >>) >>

handleZooKeeperCommand ==
  << MayReturn,
     Try(<< Await, MayReturn, checkIfCloudflare, MayReturn, sendFourLetterWord, Return >>, << Return >>) >>

handleZooKeeperGet ==
  << MayReturn,
     Try(
         << Await, MayReturn, checkIfCloudflare, MayReturn,
            Task("connectionPromise",
                 << Connect("socket"), Opened("socket"), GetReader("socket"), GetWriter("socket"),
                    Try(
                        << zkConnect("socket"), zkRequest("socket"), CloseQuietly("socket"), MayReturn,
                           MayThrow, Return >>,
                        << CloseQuietly("socket"), Throw >>) >>),
            Race(Join("connectionPromise"), "throw"), Return >>,
         << Return >>) >>

handleZooKeeperSet ==
  << MayReturn,
     Try(
         << Await, MayReturn, checkIfCloudflare, MayReturn,
            Task("connectionPromise",
                 << Connect("socket"), Opened("socket"), GetReader("socket"), GetWriter("socket"),
                    Try(
                        << zkConnect("socket"), zkRequest("socket"), CloseQuietly("socket"), MayReturn,
                           Return >>,
                        << CloseQuietly("socket"), Throw >>) >>),
            Race(Join("connectionPromise"), "throw"), Return >>,
         << Return >>) >>

handleZooKeeperCreate ==
  << MayReturn,
     Try(
         << Await, MayReturn, checkIfCloudflare, MayReturn,
            Task("connectionPromise",
                 << Connect("socket"), Opened("socket"), GetReader("socket"), GetWriter("socket"),
                    Try(
                        << zkConnect("socket"), zkRequest("socket"), CloseQuietly("socket"), MayReturn,
                           Return >>,
                        << CloseQuietly("socket"), Throw >>) >>),
            Race(Join("connectionPromise"), "throw"), Return >>,
         << Return >>) >>

-----------------------------------------------------------------------------
StoreProgram ==
  [handleAerospikeConnect |-> handleAerospikeConnect,
   handleAerospikeKVGet |-> handleAerospikeKVGet,
   handleAerospikeKVPut |-> handleAerospikeKVPut,
   handleAerospikeInfo |-> handleAerospikeInfo,
   handleCouchbasePing |-> handleCouchbasePing,
   handleCouchbaseVersion |-> handleCouchbaseVersion,
   handleCouchbaseStats |-> handleCouchbaseStats,
   handleCouchbaseGet |-> handleCouchbaseGet,
   handleCouchbaseSet |-> handleCouchbaseSet,
   handleCouchbaseDelete |-> handleCouchbaseDelete,
   handleCouchbaseIncr |-> handleCouchbaseIncr,
   handleCouchDBHealth |-> handleCouchDBHealth,
   handleCouchDBQuery |-> handleCouchDBQuery,
   handleElasticsearchHealth |-> handleElasticsearchHealth,
   handleElasticsearchQuery |-> handleElasticsearchQuery,
   handleElasticsearchHTTPS |-> handleElasticsearchHTTPS,
   handleElasticsearchIndex |-> handleElasticsearchIndex,
   handleElasticsearchDelete |-> handleElasticsearchDelete,
   handleElasticsearchCreate |-> handleElasticsearchCreate,
   handleEtcdHealth |-> handleEtcdHealth,
   handleEtcdQuery |-> handleEtcdQuery,
   handleGraphiteSend |-> handleGraphiteSend,
   handleGraphiteQuery |-> handleGraphiteQuery,
   handleGraphiteFind |-> handleGraphiteFind,
   handleGraphiteInfo |-> handleGraphiteInfo,
   handleHazelcastProbe |-> handleHazelcastProbe,
   handleHazelcastMapGet |-> handleHazelcastMapGet,
   handleHazelcastMapSet |-> handleHazelcastMapSet,
   handleHazelcastMapDelete |-> handleHazelcastMapDelete,
   handleHazelcastQueueOffer |-> handleHazelcastQueueOffer,
   handleHazelcastQueuePoll |-> handleHazelcastQueuePoll,
   handleHazelcastSetAdd |-> handleHazelcastSetAdd,
   handleHazelcastSetContains |-> handleHazelcastSetContains,
   handleHazelcastSetRemove |-> handleHazelcastSetRemove,
   handleHazelcastTopicPublish |-> handleHazelcastTopicPublish,
   handleIgniteConnect |-> handleIgniteConnect,
   handleIgniteProbe |-> handleIgniteProbe,
   handleIgniteListCaches |-> handleIgniteListCaches,
   handleIgniteCacheGet |-> handleIgniteCacheGet,
   handleIgniteCachePut |-> handleIgniteCachePut,
   handleIgniteCacheRemove |-> handleIgniteCacheRemove,
   handleInfluxDBHealth |-> handleInfluxDBHealth,
   handleInfluxDBWrite |-> handleInfluxDBWrite,
   handleInfluxDBQuery |-> handleInfluxDBQuery,
   handleMemcachedConnect |-> handleMemcachedConnect,
   handleMemcachedCommand |-> handleMemcachedCommand,
   handleMemcachedStats |-> handleMemcachedStats,
   handleMemcachedGets |-> handleMemcachedGets,
   handleMongoDBConnect |-> handleMongoDBConnect,
   handleMongoDBPing |-> handleMongoDBPing,
   handleMongoDBFind |-> handleMongoDBFind,
   handleMongoDBInsert |-> handleMongoDBInsert,
   handleMongoDBUpdate |-> handleMongoDBUpdate,
   handleMongoDBDelete |-> handleMongoDBDelete,
   handleNeo4jConnect |-> handleNeo4jConnect,
   handleNeo4jQuery |-> handleNeo4jQuery,
   handleNeo4jQueryParams |-> handleNeo4jQueryParams,
   handleNeo4jSchema |-> handleNeo4jSchema,
   handleNeo4jCreate |-> handleNeo4jCreate,
   handleOpenTSDBVersion |-> handleOpenTSDBVersion,
   handleOpenTSDBStats |-> handleOpenTSDBStats,
   handleOpenTSDBSuggest |-> handleOpenTSDBSuggest,
   handleOpenTSDBPut |-> handleOpenTSDBPut,
   handleOpenTSDBQuery |-> handleOpenTSDBQuery,
   handleRedisConnect |-> handleRedisConnect,
   handleRedisCommand |-> handleRedisCommand,
   handleRethinkDBConnect |-> handleRethinkDBConnect,
   handleRethinkDBProbe |-> handleRethinkDBProbe,
   handleRethinkDBQuery |-> handleRethinkDBQuery,
   handleRethinkDBListTables |-> handleRethinkDBListTables,
   handleRethinkDBServerInfo |-> handleRethinkDBServerInfo,
   handleRethinkDBTableCreate |-> handleRethinkDBTableCreate,
   handleRethinkDBInsert |-> handleRethinkDBInsert,
   handleRiakPing |-> handleRiakPing,
   handleRiakInfo |-> handleRiakInfo,
   handleRiakGet |-> handleRiakGet,
   handleRiakPut |-> handleRiakPut,
   handleSentinelProbe |-> handleSentinelProbe,
   handleSentinelQuery |-> handleSentinelQuery,
   handleSentinelGet |-> handleSentinelGet,
   handleSentinelGetMasterAddr |-> handleSentinelGetMasterAddr,
   handleSentinelFailover |-> handleSentinelFailover,
   handleSentinelReset |-> handleSentinelReset,
   handleSentinelSet |-> handleSentinelSet,
   handleSolrHealth |-> handleSolrHealth,
   handleSolrQuery |-> handleSolrQuery,
   handleSolrIndex |-> handleSolrIndex,
   handleSolrDelete |-> handleSolrDelete,
   handleSonicProbe |-> handleSonicProbe,
   handleSonicQuery |-> handleSonicQuery,
   handleSonicPush |-> handleSonicPush,
   handleSonicSuggest |-> handleSonicSuggest,
   handleSonicPing |-> handleSonicPing,
   handleTarantoolConnect |-> handleTarantoolConnect,
   handleTarantoolProbe |-> handleTarantoolProbe,
   handleTarantoolEval |-> handleTarantoolEval,
   handleTarantoolSQL |-> handleTarantoolSQL,
   handleZooKeeperConnect |-> handleZooKeeperConnect,
   handleZooKeeperCommand |-> handleZooKeeperCommand,
   handleZooKeeperGet |-> handleZooKeeperGet,
   handleZooKeeperSet |-> handleZooKeeperSet,
   handleZooKeeperCreate |-> handleZooKeeperCreate]

=============================================================================
