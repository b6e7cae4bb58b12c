------------------------- MODULE MessagingHandlers --------------------------
(* The one-shot handlers of the catalogue's "Messaging" protocols.         *)
EXTENDS MessagingCalls

-----------------------------------------------------------------------------
\* src/src/worker/activemq.ts

handleActiveMQProbe ==
  << MayReturn,
     Try(
         << Await, MayReturn, checkIfCloudflare, MayReturn, Connect("socket"),
            Try(
                << Race(Opened("socket"), "throw"), GetReader("socket"), readBytes_activemq("socket"),
                   FreeReader("socket"), CloseQuietly("socket"), MayThrow, Return >>,
                << CloseQuietly("socket"), Throw >>) >>,
         << Return >>) >>

handleActiveMQConnect ==
  << MayReturn,
     Try(<< Await, MayReturn, checkIfCloudflare, MayReturn, withStompSession, Return >>, << Return >>) >>

handleActiveMQSend ==
  << MayReturn,
     Try(
         << Await, MayReturn, checkIfCloudflare, MayReturn,
            withStompSession_2(<< Write("withStompSession.socket"),
                                  Try(
                                      << RaceTask(<< withStompSession_readNextFrame("withStompSession.socket") >>,
                                                  "throw"),
                                         MayThrow >>,
                                      << MayThrow >>),
                                  Return >>),
            Return >>,
         << Return >>) >>

handleActiveMQSubscribe ==
  << MayReturn,
     Try(
         << Await, MayReturn, checkIfCloudflare, MayReturn,
            withStompSession_2(<< Write("withStompSession.socket"),
                                  Loop(<< MayBreak,
                                          Try(
                                              << RaceTask(<< withStompSession_readNextFrame(
                                                                 "withStompSession.socket") >>,
                                                          "throw") >>,
                                              << Break >>),
                                          Either(<< Maybe(<< Write("withStompSession.socket") >>) >>,
                                                 << MayThrow >>) >>),
                                  Write("withStompSession.socket"), Return >>),
            Return >>,
         << Return >>) >>

handleActiveMQAdmin ==
  << MayReturn,
     Try(
         << Await, MayReturn, checkIfCloudflare, MayReturn, Await, Maybe(<< Await, Return >>), Await,
            MayReturn, Return >>,
         << Return >>) >>

handleActiveMQInfo ==
  << MayReturn,
     Try(
         << Await, MayReturn, checkIfCloudflare, MayReturn, Await, Maybe(<< Await, Return >>), Await,
            MayReturn, Return >>,
         << Return >>) >>

handleActiveMQDurableUnsubscribe ==
  << MayReturn,
     Try(
         << Await, MayReturn, checkIfCloudflare, MayReturn,
            withStompSession_2(<< Write("withStompSession.socket"), Return >>), Return >>,
         << Return >>) >>

handleActiveMQQueues ==
  << MayReturn,
     Try(
         << Await, MayReturn, checkIfCloudflare, MayReturn,
            RaceTask(<< withStompSession_2(<< Write("withStompSession.socket"),
                                              Write("withStompSession.socket"),
                                              Loop(<< Try(
                                                          << RaceTask(
                                                                 << withStompSession_readNextFrame(
                                                                        "withStompSession.socket") >>,
                                                                 "throw") >>,
                                                          << Break >>) >>),
                                              Return >>) >>,
                     "throw"),
            Return >>,
         << Return >>) >>

handleActiveMQDurableSubscribe ==
  << MayReturn,
     Try(<< Await, MayReturn, checkIfCloudflare, MayReturn,
            Connect("socket"), Race(Opened("socket"), "throw"), GetWriter("socket"), GetReader("socket"),
            Try(<< Write("socket"), readUntilNull_durable, MayThrow, Write("socket"),
                   Loop(<< Try(<< RaceTask(<< readNextFrame_durable >>, "throw") >>, << Break >>),
                           Maybe(<< Write("socket") >>), MayThrow >>),
                   Quietly(<< Write("socket") >>),
                   FreeWriter("socket"), FreeReader("socket"), CloseQuietly("socket"), Return >>,
                << FreeWriterQuietly("socket"), FreeReaderQuietly("socket"), CloseQuietly("socket"), Throw >>) >>,
         << Return >>) >>

-----------------------------------------------------------------------------
\* src/src/worker/amqp.ts

handleAMQPConnect ==
  << Try(
         << MayReturn, Await, MayReturn, checkIfCloudflare, MayReturn,
            Task("connectionPromise",
                 << Connect("socket"), Opened("socket"), GetWriter("socket"), GetReader("socket"),
                    Try(
                        << Write("socket"), BufferedReader_readExact_amqp("socket"),
                           Maybe(<< Maybe(<< BufferedReader_readExact_amqp("socket"), Throw >>), Throw >>),
                           MayThrow, BufferedReader_readExact_amqp("socket"),
                           BufferedReader_readExact_amqp("socket"), MayThrow, Close("socket"), Return >>,
                        << Close("socket"), Throw >>) >>),
            Race(Join("connectionPromise"), "throw"), Return >>,
         << Return >>) >>

handleAMQPPublish ==
  << Try(
         << MayReturn, Await, MayReturn, checkIfCloudflare, MayReturn,
            Task("publishPromise", << doAMQPPublish >>), Race(Join("publishPromise"), "throw"), Return >>,
         << Return >>) >>

handleAMQPConsume ==
  << Try(<< MayReturn, Await, MayReturn, checkIfCloudflare, MayReturn, doAMQPConsume, Return >>, << Return >>) >>

handleAMQPConfirmPublish ==
  << Try(
         << MayReturn, Await, MayReturn, checkIfCloudflare, MayReturn,
            RaceTask(<< Connect("socket"), Opened("socket"), GetWriter("socket"), GetReader("socket"),
                        TryFinally(<< Write("socket"), expectMethod("socket"), MayThrow, Write("socket"),
                                      expectMethod("socket"), Write("socket"), MayThrow, Write("socket"),
                                      expectMethod("socket"), Write("socket"), expectMethod("socket"),
                                      Write("socket"), expectMethod("socket"),
                                      Maybe(<< MayThrow, Write("socket"), expectMethod("socket") >>),
                                      MayThrow, Write("socket"), MayThrow, Write("socket"), Write("socket"),
                                      Loop(<< readFrame_amqp("socket"), MayContinue, MayBreak >>), MayThrow,
                                      Write("socket"), Quietly(<< expectMethod("socket") >>), MayThrow,
                                      Write("socket"), Quietly(<< expectMethod("socket") >>), Return >>,
                                   << FinishQuietly("socket"), Quietly(<< Cancel("socket") >>),
                                      CloseQuietly("socket") >>) >>,
                     "throw"),
            Return >>,
         << Return >>) >>

handleAMQPBind ==
  << Try(
         << MayReturn, Await, MayReturn, checkIfCloudflare, MayReturn,
            RaceTask(<< Connect("socket"), Opened("socket"), GetWriter("socket"), GetReader("socket"),
                        TryFinally(<< Write("socket"), expectMethod("socket"), MayThrow, Write("socket"),
                                      expectMethod("socket"), Write("socket"), MayThrow, Write("socket"),
                                      expectMethod("socket"), Write("socket"), expectMethod("socket"),
                                      MayThrow, Write("socket"), expectMethod("socket"), MayThrow,
                                      Write("socket"), Quietly(<< expectMethod("socket") >>), MayThrow,
                                      Write("socket"), Quietly(<< expectMethod("socket") >>), Return >>,
                                   << FinishQuietly("socket"), Quietly(<< Cancel("socket") >>),
                                      CloseQuietly("socket") >>) >>,
                     "throw"),
            Return >>,
         << Return >>) >>

handleAMQPGet ==
  << Try(
         << MayReturn, Await, MayReturn, checkIfCloudflare, MayReturn,
            RaceTask(<< Connect("socket"), Opened("socket"), GetWriter("socket"), GetReader("socket"),
                        TryFinally(<< Write("socket"), expectMethod("socket"), MayThrow, Write("socket"),
                                      expectMethod("socket"), Write("socket"), MayThrow, Write("socket"),
                                      expectMethod("socket"), Write("socket"), expectMethod("socket"),
                                      MayThrow, Write("socket"), expectMethod("socket"), MayThrow,
                                      Write("socket"), readFrame_amqp("socket"), MayThrow,
                                      Maybe(<< Either(<< readFrame_amqp("socket"), MayThrow,
                                                         Loop(<< readFrame_amqp("socket") >>),
                                                         Maybe(<< Write("socket") >>) >>,
                                                      << Throw >>) >>),
                                      MayThrow, Write("socket"), Quietly(<< expectMethod("socket") >>),
                                      MayThrow, Write("socket"), Quietly(<< expectMethod("socket") >>),
                                      Return >>,
                                   << FinishQuietly("socket"), Quietly(<< Cancel("socket") >>),
                                      CloseQuietly("socket") >>) >>,
                     "throw"),
            Return >>,
         << Return >>) >>

-----------------------------------------------------------------------------
\* src/src/worker/amqps.ts

handleAMQPSConnect ==
  << MayReturn,
     Try(
         << Await, MayReturn, checkIfCloudflare, MayReturn, Connect("socket"), GetWriter("socket"),
            GetReader("socket"),
            TryFinally(<< Write("socket"), BufferedReader_readExact_amqps("socket"), MayThrow,
                          BufferedReader_readExact_amqps("socket"), BufferedReader_readExact_amqps("socket"),
                          MayThrow, Return >>,
                       << FinishQuietly("socket"), Quietly(<< Cancel("socket") >>), CloseQuietly("socket") >>) >>,
         << Return >>) >>

handleAMQPSPublish ==
  << MayReturn,
     Try(
         << Await, MayReturn, checkIfCloudflare, MayReturn, Task("publishPromise", << doAMQPPublish >>),
            Race(Join("publishPromise"), "throw"), Return >>,
         << Return >>) >>

handleAMQPSConsume ==
  << MayReturn,
     Try(<< Await, MayReturn, checkIfCloudflare, MayReturn, doAMQPConsume, Return >>, << Return >>) >>

-----------------------------------------------------------------------------
\* src/src/worker/battlenet.ts

handleBattlenetConnect ==
  << MayReturn,
     Try(
         << Await, MayReturn, checkIfCloudflare, MayReturn, Connect("socket"),
            TryCatchFinally(<< Race(Opened("socket"), "throw"), GetWriter("socket"), GetReader("socket"),
                               TryFinally(<< Write("socket"), Write("socket"),
                                             RaceTask(<< readBNCSPacket("socket") >>, "throw"), MayReturn,
                                             Return >>,
                                          << FreeReader("socket"), FreeWriter("socket") >>) >>,
                            << Return >>, << CloseQuietly("socket") >>) >>,
         << Return >>) >>

handleBattlenetAuthInfo ==
  << MayReturn, Try(<< Await >>, << Return >>), MayReturn, checkIfCloudflare, MayReturn, Connect("socket"),
     TryCatchFinally(<< Race(Opened("socket"), "throw"), GetWriter("socket"), GetReader("socket"),
                        TryFinally(<< Write("socket"), Write("socket"),
                                      Loop(<< MayBreak, readBNCSPacket("socket"), MayBreak,
                                              Either(<< Write("socket") >>,
                                                     << Either(<< Continue >>, << Break >>) >>) >>) >>,
                                   << FreeReader("socket"), FreeWriter("socket") >>) >>,
                     <<>>, << CloseQuietly("socket") >>),
     Return >>

handleBattlenetStatus ==
  << MayReturn, Quietly(<< Await >>), Await, Return >>

-----------------------------------------------------------------------------
\* src/src/worker/beanstalkd.ts

handleBeanstalkdConnect ==
  << MayReturn,
     Try(
         << Await, MayReturn, checkIfCloudflare, MayReturn, Connect("socket"),
            Try(
                << Race(Opened("socket"), "throw"), GetWriter("socket"), GetReader("socket"), Write("socket"),
                   readBeanstalkdResponse("socket"), FreeWriter("socket"), FreeReader("socket"),
                   CloseQuietly("socket"), Return >>,
                << CloseQuietly("socket"), Throw >>) >>,
         << Return >>) >>

handleBeanstalkdCommand ==
  << MayReturn,
     Try(
         << Await, MayReturn, checkIfCloudflare, MayReturn, Connect("socket"),
            Try(
                << Race(Opened("socket"), "throw"), GetWriter("socket"), GetReader("socket"), Write("socket"),
                   readBeanstalkdResponse("socket"), FreeWriter("socket"), FreeReader("socket"),
                   CloseQuietly("socket"), Return >>,
                << CloseQuietly("socket"), Throw >>) >>,
         << Return >>) >>

handleBeanstalkdPut ==
  << Try(
         << MayReturn, Await, MayReturn, checkIfCloudflare, MayReturn, Connect("socket"),
            Try(
                << Race(Opened("socket"), "throw"), GetReader("socket"), GetWriter("socket"),
                   TryFinally(<< Maybe(<< Write("socket"), readBeanstalkdResponse("socket"), MayReturn >>),
                                 Write("socket"), Write("socket"), Write("socket"),
                                 readBeanstalkdResponse("socket"), Return >>,
                              << FreeReader("socket"), FreeWriter("socket"), CloseQuietly("socket") >>) >>,
                << CloseQuietly("socket"), Throw >>) >>,
         << Return >>) >>

handleBeanstalkdReserve ==
  << Try(
         << MayReturn, Await, MayReturn, checkIfCloudflare, MayReturn, Connect("socket"),
            Try(
                << Race(Opened("socket"), "throw"), GetReader("socket"), GetWriter("socket"),
                   TryFinally(<< Maybe(<< Write("socket"), readBeanstalkdResponse("socket"), MayReturn,
                                          Write("socket"), readBeanstalkdResponse("socket"), MayReturn >>),
                                 Write("socket"), readBeanstalkdResponse("socket"), MayReturn, Return >>,
                              << FreeReader("socket"), FreeWriter("socket"), CloseQuietly("socket") >>) >>,
                << CloseQuietly("socket"), Throw >>) >>,
         << Return >>) >>

handleBeanstalkdDelete ==
  << Try(
         << MayReturn, Await, MayReturn, checkIfCloudflare, MayReturn, Connect("socket"),
            Try(
                << Race(Opened("socket"), "throw"), GetReader("socket"), GetWriter("socket"),
                   TryFinally(<< Write("socket"), readBeanstalkdResponse("socket"), Return >>,
                              << FreeReader("socket"), FreeWriter("socket"), CloseQuietly("socket") >>) >>,
                << CloseQuietly("socket"), Throw >>) >>,
         << Return >>) >>

handleBeanstalkdRelease ==
  << Try(
         << MayReturn, Await, MayReturn, checkIfCloudflare, MayReturn, Connect("socket"),
            Try(
                << Race(Opened("socket"), "throw"), GetReader("socket"), GetWriter("socket"),
                   TryFinally(<< Write("socket"), readBeanstalkdResponse("socket"), Return >>,
                              << FreeReader("socket"), FreeWriter("socket"), CloseQuietly("socket") >>) >>,
                << CloseQuietly("socket"), Throw >>) >>,
         << Return >>) >>

handleBeanstalkdBury ==
  << Try(
         << MayReturn, Await, MayReturn, checkIfCloudflare, MayReturn, Connect("socket"),
            Try(
                << Race(Opened("socket"), "throw"), GetReader("socket"), GetWriter("socket"),
                   TryFinally(<< Write("socket"), readBeanstalkdResponse("socket"), Return >>,
                              << FreeReader("socket"), FreeWriter("socket"), CloseQuietly("socket") >>) >>,
                << CloseQuietly("socket"), Throw >>) >>,
         << Return >>) >>

handleBeanstalkdKick ==
  << Try(
         << MayReturn, Await, MayReturn, checkIfCloudflare, MayReturn, Connect("socket"),
            Try(
                << Race(Opened("socket"), "throw"), GetReader("socket"), GetWriter("socket"),
                   TryFinally(<< Maybe(<< Write("socket"), readBeanstalkdResponse("socket"), MayReturn >>),
                                 Write("socket"), readBeanstalkdResponse("socket"), Return >>,
                              << FreeReader("socket"), FreeWriter("socket"), CloseQuietly("socket") >>) >>,
                << CloseQuietly("socket"), Throw >>) >>,
         << Return >>) >>

handleBeanstalkdTouch ==
  << Try(
         << MayReturn, Await, MayReturn, checkIfCloudflare, MayReturn, Connect("socket"),
            Try(
                << Race(Opened("socket"), "throw"), GetReader("socket"), GetWriter("socket"),
                   TryFinally(<< Write("socket"), readBeanstalkdResponse("socket"), Return >>,
                              << FreeReader("socket"), FreeWriter("socket"), CloseQuietly("socket") >>) >>,
                << CloseQuietly("socket"), Throw >>) >>,
         << Return >>) >>

-----------------------------------------------------------------------------
\* src/src/worker/gadugadu.ts

handleGaduGaduConnect ==
  << Try(<< Await, MayReturn, checkIfCloudflare, MayReturn, connectGaduGadu, Return >>, << Return >>) >>

handleGaduGaduSendMessage ==
  << Try(
         << Await, MayReturn, checkIfCloudflare, MayReturn, openGGSession("socket"),
            Try(
                << Write("socket"), Quietly(<< RaceTask(<< readPacket_utils("socket") >>, "end") >>),
                   FreeReader("socket"), FreeWriter("socket"), CloseQuietly("socket"), Return >>,
                << FreeReaderQuietly("socket"), FreeWriterQuietly("socket"), CloseQuietly("socket"), Throw >>) >>,
         << Return >>) >>

handleGaduGaduContacts ==
  << Try(
         << Await, MayReturn, checkIfCloudflare, MayReturn, openGGSession("socket"),
            Try(
                << Write("socket"),
                   Loop(<< MayBreak, RaceTask(<< readPacket_utils("socket") >>, "null"), MayBreak >>),
                   FreeReader("socket"), FreeWriter("socket"), CloseQuietly("socket"), Return >>,
                << FreeReaderQuietly("socket"), FreeWriterQuietly("socket"), CloseQuietly("socket"), Throw >>) >>,
         << Return >>) >>

-----------------------------------------------------------------------------
\* src/src/worker/gearman.ts

handleGearmanConnect ==
  << MayReturn,
     Try(
         << Await, MayReturn, checkIfCloudflare, MayReturn, Connect("socket"),
            Try(
                << Race(Opened("socket"), "throw"), GetWriter("socket"), GetReader("socket"), Write("socket"),
                   readGearmanResponse("socket"), Write("socket"), readGearmanResponse("socket"),
                   FreeWriter("socket"), FreeReader("socket"), CloseQuietly("socket"), Return >>,
                << CloseQuietly("socket"), Throw >>) >>,
         << Return >>) >>

handleGearmanCommand ==
  << MayReturn,
     Try(
         << Await, MayReturn, checkIfCloudflare, MayReturn, Connect("socket"),
            Try(
                << Race(Opened("socket"), "throw"), GetWriter("socket"), GetReader("socket"), Write("socket"),
                   readGearmanResponse("socket"), FreeWriter("socket"), FreeReader("socket"),
                   CloseQuietly("socket"), Return >>,
                << CloseQuietly("socket"), Throw >>) >>,
         << Return >>) >>

handleGearmanSubmit ==
  << Try(
         << MayReturn, Await, MayReturn, checkIfCloudflare, MayReturn, Connect("socket"),
            Try(
                << Race(Opened("socket"), "throw"), GetReader("socket"), GetWriter("socket"),
                   TryFinally(<< Write("socket"), readBinaryPacket("socket"), MayReturn,
                                 Forever(<< readBinaryPacket("socket"), MayReturn >>) >>,
                              << FreeReader("socket"), FreeWriter("socket"), CloseQuietly("socket") >>) >>,
                << CloseQuietly("socket"), Throw >>) >>,
         << Return >>) >>

-----------------------------------------------------------------------------
\* src/src/worker/irc.ts

handleIRCConnect ==
  << Try(
         << MayReturn, Await, MayReturn, checkIfCloudflare, MayReturn,
            Task("connectionPromise",
                 << Connect("socket"), Opened("socket"), GetWriter("socket"), Maybe(<< Write("socket") >>),
                    Write("socket"), Write("socket"), FreeWriter("socket"), GetReader("socket"),
                    Quietly(<< Loop(<< Race(Read("socket"), "null"),
                                       Either(<< Break >>, << When(GotNothing, << Break >>) >>),
                                       Loop(<< Maybe(<< Maybe(
                                                            << GetWriter("socket"), Write("socket"),
                                                               FreeWriter("socket") >>),
                                                        MayBreak >>) >>),
                                       MayBreak >>) >>),
                    FreeReaderQuietly("socket"),
                    Quietly(<< GetWriter("socket"), Write("socket"), FreeWriter("socket") >>),
                    CloseQuietly("socket") >>),
            Race(Join("connectionPromise"), "throw"), Return >>,
         << Return >>) >>

-----------------------------------------------------------------------------
\* src/src/worker/ircs.ts

handleIRCSConnect ==
  << Try(
         << MayReturn, Await, MayReturn, checkIfCloudflare, MayReturn,
            Task("connectionPromise",
                 << Connect("socket"), Opened("socket"), GetWriter("socket"), Maybe(<< Write("socket") >>),
                    Write("socket"), Write("socket"), FreeWriter("socket"), GetReader("socket"),
                    Quietly(<< Loop(<< Race(Read("socket"), "end"), When(GotNothing, << Break >>),
                                       Loop(<< Maybe(<< Maybe(
                                                            << GetWriter("socket"), Write("socket"),
                                                               FreeWriter("socket") >>),
                                                        MayBreak >>) >>),
                                       MayBreak >>) >>),
                    Quietly(<< GetWriter("socket"), Write("socket"), FreeWriter("socket") >>),
                    CloseQuietly("socket") >>),
            Race(Join("connectionPromise"), "throw"), Return >>,
         << Return >>) >>

-----------------------------------------------------------------------------
\* src/src/worker/jabber-component.ts

handleJabberComponentProbe ==
  << MayReturn,
     Try(
         << Await, MayReturn, checkIfCloudflare, MayReturn, Connect("socket"),
            Try(
                << Race(Opened("socket"), "throw"), GetWriter("socket"), Write("socket"),
                   FreeWriter("socket"), GetReader("socket"), Race(Read("socket"), "throw"),
                   When(GotNothing, << FreeReader("socket"), CloseQuietly("socket"), Return >>),
                   FreeReader("socket"), CloseQuietly("socket"), Return >>,
                << CloseQuietly("socket"), Throw >>) >>,
         << Return >>) >>

handleJabberComponentHandshake ==
  << MayReturn,
     Try(
         << Await, MayReturn, checkIfCloudflare, MayReturn, Connect("socket"),
            Try(
                << Race(Opened("socket"), "throw"), GetWriter("socket"), Write("socket"), GetReader("socket"),
                   Race(Read("socket"), "throw"),
                   When(GotNothing,
                        << FreeReader("socket"), FreeWriter("socket"), CloseQuietly("socket"), Return >>),
                   Maybe(<< FreeReader("socket"), FreeWriter("socket"), CloseQuietly("socket"), Return >>),
                   buildHandshake, Write("socket"), FreeWriter("socket"), Race(Read("socket"), "throw"),
                   When(GotNothing, << FreeReader("socket"), CloseQuietly("socket"), Return >>),
                   FreeReader("socket"), CloseQuietly("socket"), Return >>,
                << CloseQuietly("socket"), Throw >>) >>,
         << Return >>) >>

handleJabberComponentSend ==
  << MayReturn,
     Try(
         << Await, MayReturn, checkIfCloudflare, MayReturn, Connect("socket"),
            Try(
                << Race(Opened("socket"), "throw"), GetWriter("socket"), GetReader("socket"), Write("socket"),
                   RaceTask(<< readWithDeadline("socket") >>, "throw"),
                   Maybe(<< FreeWriter("socket"), FreeReader("socket"), CloseQuietly("socket"), Return >>),
                   buildHandshake, Write("socket"), RaceTask(<< readWithDeadline("socket") >>, "throw"),
                   Maybe(<< FreeWriter("socket"), FreeReader("socket"), CloseQuietly("socket"), Return >>),
                   Write("socket"), readWithDeadline("socket"), FreeWriter("socket"), FreeReader("socket"),
                   CloseQuietly("socket"), Return >>,
                << CloseQuietly("socket"), Throw >>) >>,
         << Return >>) >>

handleJabberComponentRoster ==
  << MayReturn,
     Try(
         << Await, MayReturn, checkIfCloudflare, MayReturn, Connect("socket"),
            TryFinally(<< Race(Opened("socket"), "throw"), GetWriter("socket"), GetReader("socket"),
                          Write("socket"), RaceTask(<< readWithDeadline("socket") >>, "throw"),
                          Maybe(<< FreeWriter("socket"), FreeReader("socket"), CloseQuietly("socket"),
                                   Return >>),
                          buildHandshake, Write("socket"),
                          RaceTask(<< readWithDeadline("socket") >>, "throw"),
                          Maybe(<< FreeWriter("socket"), FreeReader("socket"), CloseQuietly("socket"),
                                   Return >>),
                          Write("socket"), RaceTask(<< readWithDeadline("socket") >>, "throw"),
                          FreeWriter("socket"), FreeReader("socket"), CloseQuietly("socket"), Return >>,
                       << CloseQuietly("socket") >>) >>,
         << Return >>) >>

-----------------------------------------------------------------------------
\* src/src/worker/kafka.ts

handleKafkaApiVersions ==
  << Try(
         << MayReturn, Await, MayReturn, checkIfCloudflare, MayReturn,
            Task("connectionPromise",
                 << Connect("socket"), Opened("socket"),
                    Try(
                        << GetWriter("socket"), GetReader("socket"), Write("socket"),
                           readKafkaResponse("socket"), MayThrow, FreeWriter("socket"), FreeReader("socket"),
                           Close("socket"), Return >>,
                        << Quietly(<< When(HasWriter("socket"), << FreeWriter("socket") >>) >>),
                           Quietly(<< When(HasReader("socket"), << FreeReader("socket") >>) >>),
                           CloseQuietly("socket"), Throw >>) >>),
            Race(Join("connectionPromise"), "throw"), Return >>,
         << Return >>) >>

handleKafkaProduceMessage ==
  << Try(
         << MayReturn, Await, MayReturn, checkIfCloudflare, MayReturn,
            Task("connectionPromise",
                 << Connect("socket"), Opened("socket"),
                    Try(
                        << GetWriter("socket"), GetReader("socket"), MayThrow, Write("socket"),
                           Maybe(<< FreeWriter("socket"), FreeReader("socket"), Close("socket"), Return >>),
                           readKafkaResponse("socket"), MayThrow, FreeWriter("socket"), FreeReader("socket"),
                           Close("socket"), Return >>,
                        << CloseQuietly("socket"), Throw >>) >>),
            Race(Join("connectionPromise"), "throw"), Return >>,
         << Return >>) >>

handleKafkaMetadata ==
  << Try(
         << MayReturn, Await, MayReturn, checkIfCloudflare, MayReturn,
            Task("connectionPromise",
                 << Connect("socket"), Opened("socket"),
                    Try(
                        << GetWriter("socket"), GetReader("socket"), Write("socket"),
                           readKafkaResponse("socket"), Write("socket"), readKafkaResponse("socket"),
                           MayThrow, FreeWriter("socket"), FreeReader("socket"), Close("socket"), Return >>,
                        << Quietly(<< When(HasWriter("socket"), << FreeWriter("socket") >>) >>),
                           Quietly(<< When(HasReader("socket"), << FreeReader("socket") >>) >>),
                           CloseQuietly("socket"), Throw >>) >>),
            Race(Join("connectionPromise"), "throw"), Return >>,
         << Return >>) >>

handleKafkaFetch ==
  << Try(
         << MayReturn, Await, MayReturn, checkIfCloudflare, MayReturn,
            Task("connectionPromise",
                 << Connect("socket"), Opened("socket"),
                    Try(
                        << GetWriter("socket"), GetReader("socket"), MayThrow, Write("socket"),
                           readKafkaResponse("socket"), MayThrow, FreeWriter("socket"), FreeReader("socket"),
                           Close("socket"), Return >>,
                        << CloseQuietly("socket"), Throw >>) >>),
            Race(Join("connectionPromise"), "throw"), Return >>,
         << Return >>) >>

handleKafkaListGroups ==
  << Try(
         << Await, MayReturn, checkIfCloudflare, MayReturn,
            Task("work",
                 << Connect("socket"), Opened("socket"), GetWriter("socket"), GetReader("socket"),
                    Try(
                        << Write("socket"), readKafkaResponse("socket"), MayThrow, FreeWriter("socket"),
                           FreeReader("socket"), CloseQuietly("socket"), Return >>,
                        << FreeWriter("socket"), FreeReader("socket"), CloseQuietly("socket"), Throw >>) >>),
            Race(Join("work"), "throw"), Return >>,
         << Return >>) >>

handleKafkaListOffsets ==
  << Try(
         << Await, MayReturn, checkIfCloudflare, MayReturn,
            Task("work",
                 << Connect("socket"), Opened("socket"), GetWriter("socket"), GetReader("socket"),
                    Try(
                        << MayThrow, Write("socket"), readKafkaResponse("socket"), MayThrow,
                           FreeWriter("socket"), FreeReader("socket"), CloseQuietly("socket"), Return >>,
                        << FreeWriter("socket"), FreeReader("socket"), CloseQuietly("socket"), Throw >>) >>),
            Race(Join("work"), "throw"), Return >>,
         << Return >>) >>

handleKafkaDescribeGroups ==
  << Try(
         << Await, MayReturn, checkIfCloudflare, MayReturn,
            Task("work",
                 << Connect("socket"), Opened("socket"), GetWriter("socket"), GetReader("socket"),
                    Try(
                        << Write("socket"), readKafkaResponse("socket"), MayThrow, FreeWriter("socket"),
                           FreeReader("socket"), CloseQuietly("socket"), Return >>,
                        << FreeWriter("socket"), FreeReader("socket"), CloseQuietly("socket"), Throw >>) >>),
            Race(Join("work"), "throw"), Return >>,
         << Return >>) >>

-----------------------------------------------------------------------------
\* src/src/worker/matrix.ts

handleMatrixHealth ==
  << Try(
         << Await, MayReturn, sendHttpRequest_matrix,
            Try(<< sendHttpRequest_matrix >>, << Quietly(<< sendHttpRequest_matrix >>) >>),
            Quietly(<< sendHttpRequest_matrix >>), Return >>,
         << Return >>) >>

handleMatrixQuery ==
  << Try(<< Await, MayReturn, sendHttpRequest_matrix_2, Return >>, << Return >>) >>

handleMatrixLogin ==
  << Try(
         << Await, MayReturn, Try(<< sendHttpRequest_matrix_2 >>, << sendHttpRequest_matrix_2 >>), MayReturn,
            Return >>,
         << Return >>) >>

handleMatrixRooms ==
  << Try(
         << Await, MayReturn, Try(<< sendHttpRequest_matrix >>, << sendHttpRequest_matrix >>), MayReturn,
            Loop(<< Quietly(<< sendHttpRequest_matrix >>) >>), Return >>,
         << Return >>) >>

handleMatrixSend ==
  << Try(
         << Await, MayReturn, Try(<< sendHttpRequest_matrix_2 >>, << sendHttpRequest_matrix_2 >>), MayReturn,
            Return >>,
         << Return >>) >>

handleMatrixRoomCreate ==
  << Try(
         << Await, MayReturn, Try(<< sendHttpRequest_matrix_2 >>, << sendHttpRequest_matrix_2 >>), MayReturn,
            Return >>,
         << Return >>) >>

handleMatrixRoomJoin ==
  << Try(
         << Await, MayReturn, Try(<< sendHttpRequest_matrix_2 >>, << sendHttpRequest_matrix_2 >>), MayReturn,
            Return >>,
         << Return >>) >>

-----------------------------------------------------------------------------
\* src/src/worker/mqtt.ts

handleMQTTConnect ==
  << Try(
         << MayReturn, Await, MayReturn, checkIfCloudflare, MayReturn,
            RaceTask(<< mqttConnect("socket") >>, "throw"), Quietly(<< Write("socket") >>),
            CloseQuietly("socket"), Return >>,
         << Return >>) >>

handleMQTTPublish ==
  << Try(
         << MayReturn, Await, MayReturn, checkIfCloudflare, MayReturn,
            RaceTask(<< mqttConnect("socket") >>, "throw"), Write("socket"),
            Maybe(<< RaceTask(<< Forever(<< Read("socket"), When(GotEnd, << Break >>), MayThrow, MayBreak >>) >>,
                              "throw") >>),
            Quietly(<< Write("socket") >>), CloseQuietly("socket"), Return >>,
         << Return >>) >>

-----------------------------------------------------------------------------
\* src/src/worker/msn.ts

handleMSNProbe ==
  << Try(
         << Await, MayReturn, checkIfCloudflare, MayReturn, Connect("socket"),
            Try(
                << Race(Opened("socket"), "throw"), GetWriter("socket"), Write("socket"),
                   FreeWriter("socket"), GetReader("socket"), Race(Read("socket"), "throw"),
                   When(GotNothing, << FreeReader("socket"), CloseQuietly("socket"), Return >>),
                   Maybe(<< FreeReader("socket"), CloseQuietly("socket"), Return >>), FreeReader("socket"),
                   CloseQuietly("socket"),
                   Either(<< Maybe(<< FreeReader("socket"), CloseQuietly("socket"), Return >>), Return >>,
                          << Return >>) >>,
                << CloseQuietly("socket"), Throw >>) >>,
         << Return >>) >>

handleMSNClientVersion ==
  << Try(
         << Await, MayReturn, checkIfCloudflare, MayReturn, Connect("socket"),
            Try(
                << Race(Opened("socket"), "throw"), GetWriter("socket"), GetReader("socket"), Write("socket"),
                   RaceTask(<< readMSNLine("socket") >>, "throw"), Write("socket"),
                   RaceTask(<< readMSNLine("socket") >>, "throw"), FreeWriter("socket"), FreeReader("socket"),
                   CloseQuietly("socket"), Return >>,
                << CloseQuietly("socket"), Throw >>) >>,
         << Return >>) >>

handleMSNLogin ==
  << Try(
         << Await, MayReturn, checkIfCloudflare, MayReturn, Connect("socket"),
            Try(
                << Race(Opened("socket"), "throw"), GetWriter("socket"), GetReader("socket"), Write("socket"),
                   RaceTask(<< readMSNLine("socket") >>, "throw"), Write("socket"),
                   RaceTask(<< readMSNLine("socket") >>, "throw"), Write("socket"),
                   RaceTask(<< readMSNLine("socket") >>, "throw"), FreeWriter("socket"), FreeReader("socket"),
                   CloseQuietly("socket"), Return >>,
                << CloseQuietly("socket"), Throw >>) >>,
         << Return >>) >>

handleMSNMD5Login ==
  << Try(
         << Await, MayReturn, checkIfCloudflare, MayReturn, Connect("socket"),
            Try(
                << Race(Opened("socket"), "throw"), GetWriter("socket"), GetReader("socket"), Write("socket"),
                   RaceTask(<< readMSNLine("socket") >>, "throw"), Write("socket"),
                   RaceTask(<< readMSNLine("socket") >>, "throw"), Write("socket"),
                   RaceTask(<< readMSNLine("socket") >>, "throw"),
                   Maybe(<< FreeWriter("socket"), FreeReader("socket"), CloseQuietly("socket"), Return >>),
                   Write("socket"), RaceTask(<< readMSNLine("socket") >>, "throw"), FreeWriter("socket"),
                   FreeReader("socket"), CloseQuietly("socket"), Return >>,
                << CloseQuietly("socket"), Throw >>) >>,
         << Return >>) >>

-----------------------------------------------------------------------------
\* src/src/worker/msrp.ts

handleMsrpSend ==
  << Try(
         << Await, MayReturn, checkIfCloudflare, MayReturn, Connect("socket"),
            Try(
                << Race(Opened("socket"), "throw"), GetWriter("socket"), GetReader("socket"), Write("socket"),
                   FreeWriter("socket"),
                   Try(
                       << Forever(<< Race(Read("socket"), "throw"), When(GotEnd, << Break >>),
                                     When(GotData, << MayBreak >>) >>) >>,
                       << MayThrow >>),
                   FreeReader("socket"), CloseQuietly("socket"), MayReturn, Return >>,
                << CloseQuietly("socket"), Throw >>) >>,
         << Return >>) >>

handleMsrpSession ==
  << Try(
         << Await, MayReturn, checkIfCloudflare, MayReturn, Connect("socket"),
            Try(
                << Race(Opened("socket"), "throw"), GetWriter("socket"), GetReader("socket"),
                   Loop(<< Write("socket"),
                           Call(<< Quietly(<< Forever(<< Race(Read("socket"), "throw"),
                                                         When(GotEnd, << Break >>),
                                                         When(GotData, << MayBreak, MayReturn >>) >>) >>) >>) >>),
                   FreeWriter("socket"), FreeReader("socket"), CloseQuietly("socket"), Return >>,
                << CloseQuietly("socket"), Throw >>) >>,
         << Return >>) >>

handleMsrpConnect ==
  << Try(
         << Await, MayReturn, checkIfCloudflare, MayReturn, Connect("socket"),
            Try(
                << Race(Opened("socket"), "throw"), CloseQuietly("socket"), Return >>,
                << CloseQuietly("socket"), Throw >>) >>,
         << Return >>) >>

-----------------------------------------------------------------------------
\* src/src/worker/nats.ts

handleNATSConnect ==
  << Try(
         << MayReturn, Await, MayReturn, checkIfCloudflare, MayReturn,
            Task("connectionPromise",
                 << Connect("socket"), Opened("socket"), GetReader("socket"), GetWriter("socket"),
                    Try(
                        << readWithTimeout_nats("socket"), MayThrow, Write("socket"),
                           readWithTimeout_nats("socket"), MayThrow, Write("socket"),
                           readWithTimeout_nats("socket"), MayThrow, FreeWriter("socket"),
                           FreeReader("socket"), Close("socket"), Return >>,
                        << FreeWriter("socket"), FreeReader("socket"), Close("socket"), Throw >>) >>),
            Try(<< Race(Join("connectionPromise"), "throw"), Return >>, << Return >>) >>,
         << Return >>) >>

handleNATSPublish ==
  << Try(
         << Await, MayReturn, checkIfCloudflare, MayReturn,
            Task("connectionPromise",
                 << Connect("socket"), Opened("socket"), GetReader("socket"), GetWriter("socket"),
                    Try(
                        << readWithTimeout_nats("socket"), MayThrow, Write("socket"), Write("socket"),
                           Write("socket"), readWithTimeout_nats("socket"), MayThrow, FreeWriter("socket"),
                           FreeReader("socket"), Close("socket"), Return >>,
                        << FreeWriter("socket"), FreeReader("socket"), Close("socket"), Throw >>) >>),
            Try(<< Race(Join("connectionPromise"), "throw"), Return >>, << Return >>) >>,
         << Return >>) >>

handleNATSSubscribe ==
  << Try(
         << Await, MayReturn, checkIfCloudflare, MayReturn, Connect("socket"),
            Race(Opened("socket"), "throw"), GetWriter("socket"), GetReader("socket"),
            Try(
                << Loop(<< Race(Read("socket"), "throw") >>), Write("socket"), Write("socket"),
                   Loop(<< MayBreak, Race(Read("socket"), "null"), MayBreak, MayThrow,
                           Loop(<< Maybe(<< Write("socket") >>) >>) >>),
                   Write("socket"), CloseQuietly("socket"), Return >>,
                << CloseQuietly("socket"), Throw >>) >>,
         << Return >>) >>

handleNATSJetStreamInfo ==
  << Try(
         << Await, MayReturn, checkIfCloudflare, MayReturn,
            withNATSSession(<< Task("jsRequest1", << withNATSSession_jsRequest("withNATSSession.socket") >>),
                               Task("jsRequest2", << withNATSSession_jsRequest("withNATSSession.socket") >>),
                               JoinSettled({"jsRequest1", "jsRequest2"}), Return >>),
            Return >>,
         << Return >>) >>

handleNATSJetStreamStream ==
  << Try(
         << Await, MayReturn, checkIfCloudflare, MayReturn,
            withNATSSession(<< Either(<< withNATSSession_jsRequest("withNATSSession.socket"), Return >>,
                                      << Throw >>) >>),
            Return >>,
         << Return >>) >>

handleNATSJetStreamPublish ==
  << Try(
         << Await, MayReturn, checkIfCloudflare, MayReturn,
            withNATSSession(<< Write("withNATSSession.socket"),
                               Either(<< Write("withNATSSession.socket"), Write("withNATSSession.socket"),
                                         Write("withNATSSession.socket"), Write("withNATSSession.socket") >>,
                                      << Write("withNATSSession.socket"), Write("withNATSSession.socket"),
                                         Write("withNATSSession.socket") >>),
                               withNATSSession_readMsg("withNATSSession.socket"), MayThrow, Return >>),
            Return >>,
         << Return >>) >>

handleNATSJetStreamPull ==
  << Try(
         << Await, MayReturn, checkIfCloudflare, MayReturn,
            withNATSSession(<< Maybe(<< withNATSSession_jsRequest("withNATSSession.socket") >>),
                               Write("withNATSSession.socket"), Write("withNATSSession.socket"),
                               Write("withNATSSession.socket"), Write("withNATSSession.socket"),
                               withNATSSession_jsRequest("withNATSSession.socket"), Return >>),
            Return >>,
         << Return >>) >>

handleNATSRequest ==
  << Try(
         << Await, MayReturn, checkIfCloudflare, MayReturn, Connect("socket"),
            Race(Opened("socket"), "throw"), GetWriter("socket"), GetReader("socket"),
            Try(
                << Loop(<< Race(Read("socket"), "throw") >>), Write("socket"), Write("socket"),
                   Write("socket"), Write("socket"), Write("socket"),
                   Loop(<< Race(Read("socket"), "null"), MayBreak, Loop(<< Maybe(<< Write("socket") >>) >>),
                           Maybe(<< Write("socket") >>) >>),
                   CloseQuietly("socket"), Return >>,
                << CloseQuietly("socket"), Throw >>) >>,
         << Return >>) >>

-----------------------------------------------------------------------------
\* src/src/worker/nsq.ts

handleNSQConnect ==
  << Try(
         << Await, MayReturn, checkIfCloudflare, MayReturn,
            Task("connectionPromise",
                 << Connect("socket"), Opened("socket"), GetReader("socket"), GetWriter("socket"),
                    Try(
                        << Write("socket"), Write("socket"), readFrame_nsq("socket"), MayThrow,
                           FreeWriter("socket"), FreeReader("socket"), Close("socket"), Return >>,
                        << FreeWriter("socket"), FreeReader("socket"), Close("socket"), Throw >>) >>),
            Try(<< Race(Join("connectionPromise"), "throw"), Return >>, << Return >>) >>,
         << Return >>) >>

handleNSQPublish ==
  << Try(
         << Await, MayReturn, checkIfCloudflare, MayReturn,
            Task("connectionPromise",
                 << Connect("socket"), Opened("socket"), GetReader("socket"), GetWriter("socket"),
                    Try(
                        << Write("socket"), Write("socket"), readFrame_nsq("socket"), MayThrow,
                           Write("socket"), readFrame_nsq("socket"), MayThrow, FreeWriter("socket"),
                           FreeReader("socket"), Close("socket"), Return >>,
                        << FreeWriter("socket"), FreeReader("socket"), Close("socket"), Throw >>) >>),
            Try(<< Race(Join("connectionPromise"), "throw"), Return >>, << Return >>) >>,
         << Return >>) >>

handleNSQSubscribe ==
  << Try(
         << Await, MayReturn, checkIfCloudflare, MayReturn,
            Task("connectionPromise",
                 << Connect("socket"), Opened("socket"), GetReader("socket"), GetWriter("socket"),
                    Try(
                        << Write("socket"), Write("socket"), readFrame_nsq("socket"), MayThrow,
                           Write("socket"), readFrame_nsq("socket"), MayThrow, Write("socket"),
                           Loop(<< MayBreak,
                                   Try(
                                       << readFrame_nsq("socket"),
                                          Either(<< Maybe(<< Write("socket") >>) >>,
                                                 << Maybe(<< MayThrow, Write("socket") >>) >>) >>,
                                       << Break >>) >>),
                           Write("socket"), FreeWriter("socket"), FreeReader("socket"), Close("socket"),
                           Return >>,
                        << FreeWriter("socket"), FreeReader("socket"), Close("socket"), Throw >>) >>),
            Try(<< Race(Join("connectionPromise"), "throw"), Return >>, << Return >>) >>,
         << Return >>) >>

handleNSQDeferredPublish ==
  << Try(
         << Await, MayReturn, checkIfCloudflare, MayReturn,
            Task("connectionPromise",
                 << Connect("socket"), Opened("socket"), GetReader("socket"), GetWriter("socket"),
                    Try(
                        << Write("socket"), Write("socket"), readFrame_nsq("socket"), MayThrow,
                           Write("socket"), readFrame_nsq("socket"), MayThrow, FreeWriter("socket"),
                           FreeReader("socket"), Close("socket"), Return >>,
                        << FreeWriter("socket"), FreeReader("socket"), Close("socket"), Throw >>) >>),
            Try(<< Race(Join("connectionPromise"), "throw"), Return >>, << Return >>) >>,
         << Return >>) >>

handleNSQMultiPublish ==
  << Try(
         << Await, MayReturn, checkIfCloudflare, MayReturn,
            Task("connectionPromise",
                 << Connect("socket"), Opened("socket"), GetReader("socket"), GetWriter("socket"),
                    Try(
                        << Write("socket"), Write("socket"), readFrame_nsq("socket"), MayThrow,
                           Write("socket"), readFrame_nsq("socket"), MayThrow, FreeWriter("socket"),
                           FreeReader("socket"), Close("socket"), Return >>,
                        << FreeWriter("socket"), FreeReader("socket"), Close("socket"), Throw >>) >>),
            Try(<< Race(Join("connectionPromise"), "throw"), Return >>, << Return >>) >>,
         << Return >>) >>

-----------------------------------------------------------------------------
\* src/src/worker/oscar.ts

handleOSCARProbe ==
  << Try(
         << Await, MayReturn, checkIfCloudflare, MayReturn, Connect("socket"),
            Try(
                << Race(Opened("socket"), "throw"), GetWriter("socket"), Write("socket"),
                   FreeWriter("socket"), ForgetWriter("socket"), GetReader("socket"),
                   Race(Read("socket"), "throw"),
                   When(GotNothing,
                        << FreeReader("socket"), ForgetReader("socket"), CloseQuietly("socket"), Return >>),
                   Maybe(<< FreeReader("socket"), ForgetReader("socket"), CloseQuietly("socket"), Return >>),
                   FreeReader("socket"), ForgetReader("socket"), CloseQuietly("socket"), Return >>,
                << When(HasWriter("socket"), << FreeWriter("socket") >>),
                   When(HasReader("socket"), << FreeReader("socket") >>), CloseQuietly("socket"), Throw >>) >>,
         << Await, Return >>) >>

handleOSCARPing ==
  << Try(
         << Await, MayReturn, checkIfCloudflare, MayReturn, Connect("socket"),
            Try(
                << Race(Opened("socket"), "throw"), GetWriter("socket"), Write("socket"), Write("socket"),
                   FreeWriter("socket"), ForgetWriter("socket"), GetReader("socket"),
                   Quietly(<< Loop(<< Race(Read("socket"), "throw"), When(GotEnd, << Break >>),
                                      When(GotData, << MayBreak >>) >>) >>),
                   FreeReader("socket"), ForgetReader("socket"), CloseQuietly("socket"), Return >>,
                << When(HasWriter("socket"), << FreeWriter("socket") >>),
                   When(HasReader("socket"), << FreeReader("socket") >>), CloseQuietly("socket"), Throw >>) >>,
         << Await, Return >>) >>

handleOSCARAuth ==
  << Try(
         << Await, MayReturn, checkIfCloudflare, MayReturn, Connect("socket"),
            Try(
                << Race(Opened("socket"), "throw"), GetWriter("socket"), GetReader("socket"),
                   RaceTask(<< readFLAP("socket") >>, "throw"), Write("socket"), Write("socket"),
                   Quietly(<< RaceTask(<< readFLAP("socket") >>, "throw") >>), FreeWriter("socket"),
                   ForgetWriter("socket"), FreeReader("socket"), ForgetReader("socket"),
                   CloseQuietly("socket"), Return >>,
                << When(HasWriter("socket"), << FreeWriter("socket") >>),
                   When(HasReader("socket"), << FreeReader("socket") >>), CloseQuietly("socket"), Throw >>) >>,
         << Return >>) >>

handleOSCARLogin ==
  << Try(
         << Await, MayReturn, checkIfCloudflare, MayReturn, Connect("socket"),
            Try(
                << Race(Opened("socket"), "throw"), GetWriter("socket"), GetReader("socket"),
                   Quietly(<< RaceTask(<< readFLAP("socket") >>, "throw") >>), Write("socket"),
                   Write("socket"), RaceTask(<< readFLAP("socket") >>, "throw"), MayThrow, Write("socket"),
                   RaceTask(<< readFLAP("socket") >>, "throw"), FreeWriter("socket"), ForgetWriter("socket"),
                   FreeReader("socket"), ForgetReader("socket"), CloseQuietly("socket"), MayThrow, MayReturn,
                   Return >>,
                << When(HasWriter("socket"), << FreeWriter("socket") >>),
                   When(HasReader("socket"), << FreeReader("socket") >>), CloseQuietly("socket"), Throw >>) >>,
         << Return >>) >>

handleOSCARBuddyList ==
  << Try(
         << Await, MayReturn, checkIfCloudflare, MayReturn, Connect("authSock"),
            Try(
                << Race(Opened("authSock"), "throw"), GetWriter("authSock"), GetReader("authSock"),
                   Quietly(<< RaceTask(<< readFLAP("authSock") >>, "throw") >>), Write("authSock"),
                   Write("authSock"), RaceTask(<< readFLAP("authSock") >>, "throw"), MayThrow,
                   Write("authSock"), RaceTask(<< readFLAP("authSock") >>, "throw"), FreeWriter("authSock"),
                   FreeReader("authSock"), CloseQuietly("authSock"), MayThrow, MayReturn >>,
                << CloseQuietly("authSock"), Throw >>),
            checkIfCloudflare, MayThrow, Connect("bosSock"),
            Try(
                << Race(Opened("bosSock"), "throw"), GetWriter("bosSock"), GetReader("bosSock"),
                   Quietly(<< RaceTask(<< readFLAP("bosSock") >>, "throw") >>), Write("bosSock"),
                   drainBOSSNACs("bosSock"), Write("bosSock"), Write("bosSock"), drainBOSSNACs("bosSock"),
                   FreeWriter("bosSock"), FreeReader("bosSock"), CloseQuietly("bosSock"), Return >>,
                << CloseQuietly("bosSock"), Throw >>) >>,
         << Return >>) >>

handleOSCARSendIM ==
  << Try(
         << Await, MayReturn, checkIfCloudflare, MayReturn, Connect("authSock"),
            Race(Opened("authSock"), "throw"), GetWriter("authSock"), GetReader("authSock"),
            Quietly(<< readFLAP("authSock") >>), Write("authSock"), Write("authSock"),
            RaceTask(<< readSNAC("authSock") >>, "throw"), MayThrow, Write("authSock"),
            RaceTask(<< readSNAC("authSock") >>, "throw"), MayThrow, FreeWriter("authSock"),
            FreeReader("authSock"), CloseQuietly("authSock"), checkIfCloudflare, MayThrow, Connect("bosSock"),
            Race(Opened("bosSock"), "throw"), GetWriter("bosSock"), GetReader("bosSock"),
            Quietly(<< readFLAP("bosSock") >>), Write("bosSock"),
            RaceTask(<< readSNAC("bosSock") >>, "throw"), MayThrow, Write("bosSock"), Write("bosSock"),
            Quietly(<< readFLAP("bosSock") >>), FreeWriter("bosSock"), FreeReader("bosSock"),
            CloseQuietly("bosSock"), Return >>,
         << Return >>) >>

-----------------------------------------------------------------------------
\* src/src/worker/rabbitmq.ts

handleRabbitMQHealth ==
  << MayReturn,
     Try(
         << Await, MayReturn, checkIfCloudflare, MayReturn, sendHttpGet_rabbitmq, MayReturn,
            Quietly(<< sendHttpGet_rabbitmq, MayThrow >>), Return >>,
         << Return >>) >>

handleRabbitMQPublish ==
  << MayReturn,
     Try(<< Await, MayReturn, checkIfCloudflare, MayReturn, sendHttpPost_rabbitmq, Return >>, << Return >>) >>

handleRabbitMQQuery ==
  << MayReturn,
     Try(<< Await, MayReturn, checkIfCloudflare, MayReturn, sendHttpGet_rabbitmq, Return >>, << Return >>) >>

-----------------------------------------------------------------------------
\* src/src/worker/rtmp.ts

handleRTMPConnect ==
  << Try(
         << MayReturn, Await, MayReturn, checkIfCloudflare, MayReturn,
            Task("connectionPromise",
                 << Connect("socket"), Opened("socket"), GetReader("socket"), GetWriter("socket"),
                    Try(
                        << rtmpHandshakeAndConnect("socket"), FreeWriter("socket"), FreeReader("socket"),
                           CloseQuietly("socket"), Return >>,
                        << FreeWriter("socket"), FreeReader("socket"), CloseQuietly("socket"), Throw >>) >>),
            Race(Join("connectionPromise"), "throw"), Return >>,
         << Return >>) >>

handleRTMPPublish ==
  << Try(
         << MayReturn, Await, MayReturn, checkIfCloudflare, MayReturn,
            Task("publishPromise",
                 << Connect("socket"), Opened("socket"), GetReader("socket"), GetWriter("socket"),
                    Try(
                        << rtmpHandshakeAndConnect("socket"), rtmpCreateStream("socket"), Write("socket"),
                           Loop(<< readRTMPMessage("socket"), MayContinue, MayThrow >>),
                           Maybe(<< Write("socket") >>), FreeWriter("socket"), FreeReader("socket"),
                           CloseQuietly("socket"), Return >>,
                        << FreeWriterQuietly("socket"), FreeReaderQuietly("socket"), CloseQuietly("socket"),
                           Throw >>) >>),
            Race(Join("publishPromise"), "throw"), Return >>,
         << Return >>) >>

handleRTMPPlay ==
  << Try(
         << MayReturn, Await, MayReturn, checkIfCloudflare, MayReturn,
            Task("playPromise",
                 << Connect("socket"), Opened("socket"), GetReader("socket"), GetWriter("socket"),
                    Try(
                        << rtmpHandshakeAndConnect("socket"), Write("socket"), rtmpCreateStream("socket"),
                           Write("socket"), Loop(<< readRTMPMessage("socket"), MayContinue, MayThrow >>),
                           FreeWriter("socket"), FreeReader("socket"), CloseQuietly("socket"), Return >>,
                        << FreeWriterQuietly("socket"), FreeReaderQuietly("socket"), CloseQuietly("socket"),
                           Throw >>) >>),
            Race(Join("playPromise"), "throw"), Return >>,
         << Return >>) >>

-----------------------------------------------------------------------------
\* src/src/worker/rtsp.ts

handleRtspOptions ==
  << Try(
         << MayReturn, Await, MayReturn, checkIfCloudflare, MayReturn,
            Task("connectionPromise",
                 << Connect("socket"), Opened("socket"), GetWriter("socket"), GetReader("socket"),
                    Try(
                        << Write("socket"), readRtspTextResponse("socket"), Close("socket"), Return >>,
                        << Close("socket"), Throw >>) >>),
            Try(<< Race(Join("connectionPromise"), "throw"), Return >>, << Return >>) >>,
         << Return >>) >>

handleRtspDescribe ==
  << Try(
         << MayReturn, Await, MayReturn, checkIfCloudflare, MayReturn,
            Task("connectionPromise",
                 << Connect("socket"), Opened("socket"), GetWriter("socket"), GetReader("socket"),
                    Try(
                        << Write("socket"), readRtspTextResponse("socket"), Close("socket"), Return >>,
                        << Close("socket"), Throw >>) >>),
            Try(<< Race(Join("connectionPromise"), "throw"), Return >>, << Return >>) >>,
         << Return >>) >>

handleRTSPSession ==
  << Try(
         << MayReturn, Await, MayReturn, checkIfCloudflare, MayReturn,
            Task("sessionPromise",
                 << Connect("socket"), Opened("socket"), GetWriter("socket"), GetReader("socket"),
                    Try(
                        << handleRTSPSession_sendRequest("socket"),
                           Maybe(<< handleRTSPSession_sendRequest("socket") >>),
                           Maybe(<< handleRTSPSession_sendRequest("socket") >>),
                           Maybe(<< handleRTSPSession_sendRequest("socket"),
                                    Maybe(<< collectRtpFrames("socket") >>) >>),
                           Maybe(<< Quietly(<< handleRTSPSession_sendRequest("socket") >>) >>),
                           Close("socket"), Return >>,
                        << CloseQuietly("socket"), Throw >>) >>),
            Race(Join("sessionPromise"), "throw"), Return >>,
         << Return >>) >>

-----------------------------------------------------------------------------
\* src/src/worker/smpp.ts

handleSMPPConnect ==
  << MayReturn,
     Try(
         << Await, MayReturn, checkIfCloudflare, MayReturn,
            Task("connectionPromise",
                 << Connect("socket"), Opened("socket"), GetWriter("socket"), GetReader("socket"),
                    Try(
                        << Write("socket"), readBytes_smpp("socket"), MayThrow, readBytes_smpp("socket"),
                           MayThrow, Maybe(<< Write("socket") >>), Close("socket"), Return >>,
                        << Close("socket"), Throw >>) >>),
            Race(Join("connectionPromise"), "throw"), Return >>,
         << Return >>) >>

handleSMPPSubmit ==
  << MayReturn,
     Try(
         << Await, MayReturn, checkIfCloudflare, MayReturn,
            Task("connectionPromise",
                 << Connect("socket"), Opened("socket"), GetReader("socket"), GetWriter("socket"),
                    Try(
                        << Write("socket"), handleSMPPSubmit_readPDU("socket"), MayThrow, Write("socket"),
                           handleSMPPSubmit_readPDU("socket"), Write("socket"),
                           Quietly(<< handleSMPPSubmit_readPDU("socket") >>), FreeWriter("socket"),
                           FreeReader("socket"), Close("socket"), MayReturn, Return >>,
                        << FreeWriter("socket"), FreeReader("socket"), Close("socket"), Throw >>) >>),
            Try(<< Race(Join("connectionPromise"), "throw"), Return >>, << Return >>) >>,
         << Return >>) >>

handleSMPPProbe ==
  << MayReturn,
     Try(
         << Await, MayReturn, checkIfCloudflare, MayReturn,
            Task("connectionPromise",
                 << Connect("socket"), Opened("socket"), GetWriter("socket"), GetReader("socket"),
                    Try(
                        << Write("socket"), readBytes_smpp("socket"), MayThrow, readBytes_smpp("socket"),
                           Close("socket"), MayThrow, Return >>,
                        << Close("socket"), Throw >>) >>),
            Race(Join("connectionPromise"), "throw"), Return >>,
         << Return >>) >>

handleSMPPQuery ==
  << MayReturn,
     Try(
         << Await, MayReturn, checkIfCloudflare, MayReturn,
            Task("smppQueryPromise",
                 << Connect("socket"), Opened("socket"), GetReader("socket"), GetWriter("socket"),
                    Try(
                        << Write("socket"), handleSMPPQuery_readPDU("socket"), MayThrow, Write("socket"),
                           handleSMPPQuery_readPDU("socket"), Write("socket"),
                           Quietly(<< handleSMPPQuery_readPDU("socket") >>), FreeWriter("socket"),
                           FreeReader("socket"), Close("socket"), MayThrow, Return >>,
                        << FreeWriter("socket"), FreeReader("socket"), Close("socket"), Throw >>) >>),
            Try(<< Race(Join("smppQueryPromise"), "throw"), Return >>, << Return >>) >>,
         << Return >>) >>

-----------------------------------------------------------------------------
\* src/src/worker/snpp.ts

handleSNPPProbe ==
  << MayReturn,
     Try(
         << Await, MayReturn, checkIfCloudflare, MayReturn, Connect("socket"),
            TryFinally(<< Race(Opened("socket"), "throw"), GetReader("socket"), GetWriter("socket"),
                          TryFinally(<< readLine_snpp("socket"), sendCommand_snpp("socket"),
                                        Quietly(<< readLine_snpp("socket") >>), Return >>,
                                     << FreeWriterQuietly("socket"), FreeReaderQuietly("socket") >>) >>,
                       << CloseQuietly("socket") >>) >>,
         << Return >>) >>

handleSNPPPage ==
  << MayReturn,
     Try(
         << Await, MayReturn, checkIfCloudflare, MayReturn, Connect("socket"),
            TryFinally(<< Race(Opened("socket"), "throw"), GetReader("socket"), GetWriter("socket"),
                          TryFinally(<< readLine_snpp("socket"), MayReturn, sendCommand_snpp("socket"),
                                        readLine_snpp("socket"),
                                        Maybe(<< Quietly(<< sendCommand_snpp("socket") >>), Return >>),
                                        sendCommand_snpp("socket"), readLine_snpp("socket"),
                                        Maybe(<< Quietly(<< sendCommand_snpp("socket") >>), Return >>),
                                        sendCommand_snpp("socket"), readLine_snpp("socket"),
                                        Quietly(<< sendCommand_snpp("socket") >>),
                                        Quietly(<< readLine_snpp("socket") >>), Return >>,
                                     << FreeWriterQuietly("socket"), FreeReaderQuietly("socket") >>) >>,
                       << CloseQuietly("socket") >>) >>,
         << Return >>) >>

-----------------------------------------------------------------------------
\* src/src/worker/stomp.ts

handleStompConnect ==
  << Try(
         << Await, MayReturn, checkIfCloudflare, MayReturn, Connect("socket"),
            Try(
                << Race(Opened("socket"), "throw"), GetWriter("socket"), GetReader("socket"), Write("socket"),
                   FreeWriter("socket"),
                   Try(
                       << Forever(<< Race(Read("socket"), "throw"), When(GotEnd, << Break >>),
                                     When(GotData, << MayThrow, MayBreak >>) >>) >>,
                       << MayThrow >>),
                   Quietly(<< GetWriter("socket"), Write("socket"), FreeWriter("socket") >>),
                   FreeReader("socket"), CloseQuietly("socket"), Return >>,
                << CloseQuietly("socket"), Throw >>) >>,
         << Return >>) >>

handleStompSend ==
  << Try(
         << Await, MayReturn, checkIfCloudflare, MayReturn, Connect("socket"),
            Try(
                << Race(Opened("socket"), "throw"), GetWriter("socket"), GetReader("socket"), Write("socket"),
                   Try(
                       << Loop(<< Race(Read("socket"), "throw"), When(GotEnd, << Break >>) >>) >>,
                       << MayThrow >>),
                   Maybe(<< FreeWriter("socket"), FreeReader("socket"), CloseQuietly("socket"), Return >>),
                   Write("socket"),
                   Quietly(<< Loop(<< Race(Read("socket"), "throw"), When(GotEnd, << Break >>) >>) >>),
                   Write("socket"), FreeWriter("socket"), FreeReader("socket"), CloseQuietly("socket"),
                   MayReturn, Return >>,
                << CloseQuietly("socket"), Throw >>) >>,
         << Return >>) >>

handleStompSubscribe ==
  << Try(
         << Await, MayReturn, Connect("socket"),
            Try(
                << Race(Opened("socket"), "throw"), GetWriter("socket"), GetReader("socket"), Write("socket"),
                   Quietly(<< Loop(<< Race(Read("socket"), "throw"), When(GotEnd, << Break >>) >>) >>),
                   Maybe(<< FreeWriter("socket"), FreeReader("socket"), CloseQuietly("socket"), Return >>),
                   Write("socket"),
                   Loop(<< MayBreak, MayContinue,
                           Try(
                               << MayBreak, Race(Read("socket"), "throw"), When(GotEnd, << Break >>) >>,
                               << Break >>) >>),
                   Quietly(<< Write("socket"), Write("socket") >>), FreeWriter("socket"),
                   FreeReader("socket"), CloseQuietly("socket"), Return >>,
                << CloseQuietly("socket"), Throw >>) >>,
         << Return >>) >>

-----------------------------------------------------------------------------
\* src/src/worker/xmpp.ts

handleXMPPConnect ==
  << MayReturn,
     Try(
         << Await, MayReturn, checkIfCloudflare, MayReturn,
            Task("connectionPromise",
                 << Connect("socket"), Opened("socket"), GetReader("socket"), GetWriter("socket"),
                    Try(
                        << Write("socket"), readWithTimeout_xmpp("socket"),
                           Maybe(<< Quietly(<< Write("socket") >>), Close("socket"), Return >>),
                           Quietly(<< Write("socket") >>), Close("socket"), Return >>,
                        << Close("socket"), Throw >>) >>),
            Race(Join("connectionPromise"), "throw"), Return >>,
         << Return >>) >>

handleXMPPLogin ==
  << MayReturn,
     Try(
         << Await, MayReturn, checkIfCloudflare, MayReturn,
            Task("connectionPromise",
                 << Connect("socket"), Opened("socket"), GetReader("socket"), GetWriter("socket"),
                    Try(
                        << openXMPPStream("socket"),
                           Maybe(<< Try(<< performStartTLS("socket") >>, << MayThrow >>) >>),
                           Maybe(<< CloseQuietly("socket"), Return >>), Write("socket"), readUntil("socket"),
                           Maybe(<< CloseQuietly("socket"), Return >>), openXMPPStream("socket"),
                           Write("socket"), readUntil("socket"),
                           Maybe(<< Write("socket"), Quietly(<< readUntil("socket") >>) >>),
                           Quietly(<< Write("socket") >>), Close("socket"), Return >>,
                        << CloseQuietly("socket"), Return >>) >>),
            Race(Join("connectionPromise"), "throw"), Return >>,
         << Return >>) >>

handleXMPPRoster ==
  << MayReturn,
     Try(
         << Await, MayReturn, checkIfCloudflare, MayReturn,
            Task("connectionPromise",
                 << Connect("socket"), Opened("socket"), GetReader("socket"), GetWriter("socket"),
                    Try(
                        << openXMPPStream("socket"),
                           Maybe(<< Try(<< performStartTLS("socket") >>, << MayThrow >>) >>),
                           Maybe(<< CloseQuietly("socket"), Return >>), Write("socket"), readUntil("socket"),
                           Maybe(<< CloseQuietly("socket"), Return >>), openXMPPStream("socket"),
                           Write("socket"), readUntil("socket"),
                           Maybe(<< Write("socket"), Quietly(<< readUntil("socket") >>) >>), Write("socket"),
                           readUntil("socket"), Quietly(<< Write("socket") >>), Close("socket"), Return >>,
                        << CloseQuietly("socket"), Return >>) >>),
            Race(Join("connectionPromise"), "throw"), Return >>,
         << Return >>) >>

handleXMPPMessage ==
  << MayReturn,
     Try(
         << Await, MayReturn, checkIfCloudflare, MayReturn,
            Task("connectionPromise",
                 << Connect("socket"), Opened("socket"), GetReader("socket"), GetWriter("socket"),
                    Try(
                        << openXMPPStream("socket"),
                           Maybe(<< Try(<< performStartTLS("socket") >>, << MayThrow >>) >>),
                           Maybe(<< CloseQuietly("socket"), Return >>), Write("socket"), readUntil("socket"),
                           Maybe(<< CloseQuietly("socket"), Return >>), openXMPPStream("socket"),
                           Write("socket"), readUntil("socket"),
                           Maybe(<< Write("socket"), Quietly(<< readUntil("socket") >>) >>), Write("socket"),
                           Quietly(<< readUntil("socket") >>), Quietly(<< Write("socket") >>),
                           Close("socket"), Return >>,
                        << CloseQuietly("socket"), Return >>) >>),
            Race(Join("connectionPromise"), "throw"), Return >>,
         << Return >>) >>

-----------------------------------------------------------------------------
\* src/src/worker/xmpps2s.ts

handleXMPPS2SProbe ==
  << MayReturn,
     Try(
         << Await, MayReturn, checkIfCloudflare, MayReturn, Connect("handleXMPPS2SProbe.socket"),
            Try(
                << Race(Opened("handleXMPPS2SProbe.socket"), "throw"),
                   GetWriter("handleXMPPS2SProbe.socket"), Write("handleXMPPS2SProbe.socket"),
                   FreeWriter("handleXMPPS2SProbe.socket"), GetReader("handleXMPPS2SProbe.socket"),
                   Race(Read("handleXMPPS2SProbe.socket"), "throw"),
                   When(GotNothing,
                        << FreeReader("handleXMPPS2SProbe.socket"),
                           CloseQuietly("handleXMPPS2SProbe.socket"), Return >>),
                   Maybe(<< FreeReader("handleXMPPS2SProbe.socket"),
                            CloseQuietly("handleXMPPS2SProbe.socket"), Return >>),
                   FreeReader("handleXMPPS2SProbe.socket"), CloseQuietly("handleXMPPS2SProbe.socket"),
                   Return >>,
                << CloseQuietly("handleXMPPS2SProbe.socket"), Throw >>) >>,
         << Return >>) >>

handleXMPPS2SFederationTest ==
  << MayReturn, Try(<< Await, MayReturn, Call(handleXMPPS2SProbe), Return >>, << Return >>) >>

handleXMPPS2STlsDialback ==
  << MayReturn,
     Try(
         << Await, MayReturn, checkIfCloudflare, MayReturn,
            Task("work",
                 << Connect("socket"), Opened("socket"), GetReader("socket"), GetWriter("socket"),
                    Try(
                        << Write("socket"), readXMPPUntil("socket"),
                           Maybe(<< Write("socket"), FreeWriter("socket"),
                                    Quietly(<< readXMPPUntil("socket") >>), FreeReader("socket"),
                                    CloseQuietly("socket"), Return >>),
                           Write("socket"), readXMPPUntil("socket"),
                           Maybe(<< FreeReader("socket"), FreeWriter("socket"), CloseQuietly("socket"),
                                    Return >>),
                           FreeReader("socket"), FreeWriter("socket"), StartTls("socket"),
                           GetReader("socket"), GetWriter("socket"), Write("socket"), readXMPPUntil("socket"),
                           Write("socket"), FreeWriter("socket"), Quietly(<< readXMPPUntil("socket") >>),
                           FreeReader("socket"), CloseQuietly("socket"), Return >>,
                        << FreeWriterQuietly("socket"), FreeReaderQuietly("socket"), CloseQuietly("socket"),
                           Throw >>) >>),
            Race(Join("work"), "throw"), Return >>,
         << Return >>) >>

handleXmppS2SPing ==
  << MayReturn,
     Try(
         << Await, MayReturn, checkIfCloudflare, MayReturn,
            Task("work",
                 << Connect("socket"), Opened("socket"), GetReader("socket"), GetWriter("socket"),
                    Try(
                        << Write("socket"), Sleep, Write("socket"), FreeWriter("socket"),
                           readXMPPUntil("socket"), FreeReader("socket"), CloseQuietly("socket"), Return >>,
                        << FreeWriterQuietly("socket"), FreeReaderQuietly("socket"), CloseQuietly("socket"),
                           Throw >>) >>),
            Race(Join("work"), "throw"), Return >>,
         << Return >>) >>

-----------------------------------------------------------------------------
\* src/src/worker/ymsg.ts

handleYMSGProbe ==
  << MayReturn,
     Try(
         << Await, MayReturn, checkIfCloudflare, MayReturn, Connect("handleYMSGProbe.socket"),
            Try(
                << Race(Opened("handleYMSGProbe.socket"), "throw"), GetWriter("handleYMSGProbe.socket"),
                   Write("handleYMSGProbe.socket"), FreeWriter("handleYMSGProbe.socket"),
                   GetReader("handleYMSGProbe.socket"), Race(Read("handleYMSGProbe.socket"), "throw"),
                   When(GotNothing,
                        << FreeReader("handleYMSGProbe.socket"), CloseQuietly("handleYMSGProbe.socket"),
                           Return >>),
                   Maybe(<< FreeReader("handleYMSGProbe.socket"), CloseQuietly("handleYMSGProbe.socket"),
                            Return >>),
                   FreeReader("handleYMSGProbe.socket"), CloseQuietly("handleYMSGProbe.socket"),
                   Return >>,
                << CloseQuietly("handleYMSGProbe.socket"), Throw >>) >>,
         << Return >>) >>

handleYMSGVersionDetect ==
  << MayReturn, Try(<< Await, Loop(<< Call(handleYMSGProbe), Await, MayReturn >>), Return >>, << Return >>) >>

handleYMSGAuth ==
  << MayReturn,
     Try(
         << Await, MayReturn, checkIfCloudflare, MayReturn, Connect("socket"),
            Try(
                << Race(Opened("socket"), "throw"), GetWriter("socket"), GetReader("socket"), Write("socket"),
                   FreeWriter("socket"),
                   Loop(<< Quietly(<< Race(Read("socket"), "throw") >>), When(GotNothing, << Break >>),
                           MayBreak >>),
                   FreeReader("socket"), CloseQuietly("socket"), Return >>,
                << CloseQuietly("socket"), Throw >>) >>,
         << Return >>) >>

handleYMSGLogin ==
  << MayReturn,
     Try(
         << Await, MayReturn, checkIfCloudflare, MayReturn, Connect("socket"),
            Try(
                << Race(Opened("socket"), "throw"), GetWriter("socket"), GetReader("socket"), Write("socket"),
                   Loop(<< Quietly(<< Race(Read("socket"), "throw") >>), When(GotNothing, << Break >>),
                           MayBreak >>),
                   MayThrow, Write("socket"),
                   Loop(<< Quietly(<< Race(Read("socket"), "throw") >>), When(GotNothing, << Break >>),
                           MayBreak >>),
                   FreeWriter("socket"), FreeReader("socket"), CloseQuietly("socket"), Return >>,
                << CloseQuietly("socket"), Throw >>) >>,
         << Return >>) >>

-----------------------------------------------------------------------------
\* src/src/worker/zmtp.ts

handleZMTPProbe ==
  << MayReturn,
     Try(
         << Await, MayReturn, checkIfCloudflare, MayReturn, Connect("socket"),
            Try(
                << Race(Opened("socket"), "throw"), GetWriter("socket"), GetReader("socket"), Write("socket"),
                   readResponse_zmtp("socket"), FreeWriter("socket"), FreeReader("socket"),
                   CloseQuietly("socket"), MayReturn, Return >>,
                << CloseQuietly("socket"), Throw >>) >>,
         << Return >>) >>

handleZMTPSend ==
  << MayReturn,
     Try(
         << Await, MayReturn, checkIfCloudflare, MayReturn, Connect("socket"),
            Race(Opened("socket"), "throw"), GetWriter("socket"), GetReader("socket"),
            Try(
                << Write("socket"), readResponse_zmtp("socket"), MayThrow, Write("socket"),
                   readResponse_zmtp("socket"), Maybe(<< Write("socket") >>),
                   Maybe(<< MayThrow, Write("socket") >>), MayThrow, Write("socket"),
                   Maybe(<< readResponse_zmtp("socket") >>), FreeWriter("socket"), FreeReader("socket"),
                   CloseQuietly("socket"), Return >>,
                << FreeWriter("socket"), FreeReader("socket"), CloseQuietly("socket"), Throw >>) >>,
         << Return >>) >>

handleZMTPRecv ==
  << MayReturn,
     Try(
         << Await, MayReturn, checkIfCloudflare, MayReturn, Connect("socket"),
            Race(Opened("socket"), "throw"), GetWriter("socket"), GetReader("socket"),
            Try(
                << Write("socket"), readResponse_zmtp("socket"), MayThrow, Write("socket"),
                   readResponse_zmtp("socket"), Maybe(<< MayThrow, Write("socket") >>),
                   Loop(<< MayBreak, readResponse_zmtp("socket"), MayBreak >>), FreeWriter("socket"),
                   FreeReader("socket"), CloseQuietly("socket"), Return >>,
                << FreeWriter("socket"), FreeReader("socket"), CloseQuietly("socket"), Throw >>) >>,
         << Return >>) >>

handleZMTPHandshake ==
  << MayReturn,
     Try(
         << Await, MayReturn, checkIfCloudflare, MayReturn, Connect("socket"),
            Try(
                << Race(Opened("socket"), "throw"), GetWriter("socket"), GetReader("socket"), Write("socket"),
                   readResponse_zmtp("socket"),
                   Maybe(<< FreeWriter("socket"), FreeReader("socket"), CloseQuietly("socket"), Return >>),
                   MayThrow, Write("socket"), readResponse_zmtp("socket"), FreeWriter("socket"),
                   FreeReader("socket"), CloseQuietly("socket"), Return >>,
                << CloseQuietly("socket"), Throw >>) >>,
         << Return >>) >>

-----------------------------------------------------------------------------
MessagingProgram ==
  [handleActiveMQProbe |-> handleActiveMQProbe,
   handleActiveMQConnect |-> handleActiveMQConnect,
   handleActiveMQSend |-> handleActiveMQSend,
   handleActiveMQSubscribe |-> handleActiveMQSubscribe,
   handleActiveMQAdmin |-> handleActiveMQAdmin,
   handleActiveMQInfo |-> handleActiveMQInfo,
   handleActiveMQDurableUnsubscribe |-> handleActiveMQDurableUnsubscribe,
   handleActiveMQQueues |-> handleActiveMQQueues,
   handleActiveMQDurableSubscribe |-> handleActiveMQDurableSubscribe,
   handleAMQPConnect |-> handleAMQPConnect,
   handleAMQPPublish |-> handleAMQPPublish,
   handleAMQPConsume |-> handleAMQPConsume,
   handleAMQPConfirmPublish |-> handleAMQPConfirmPublish,
   handleAMQPBind |-> handleAMQPBind,
   handleAMQPGet |-> handleAMQPGet,
   handleAMQPSConnect |-> handleAMQPSConnect,
   handleAMQPSPublish |-> handleAMQPSPublish,
   handleAMQPSConsume |-> handleAMQPSConsume,
   handleBattlenetConnect |-> handleBattlenetConnect,
   handleBattlenetAuthInfo |-> handleBattlenetAuthInfo,
   handleBattlenetStatus |-> handleBattlenetStatus,
   handleBeanstalkdConnect |-> handleBeanstalkdConnect,
   handleBeanstalkdCommand |-> handleBeanstalkdCommand,
   handleBeanstalkdPut |-> handleBeanstalkdPut,
   handleBeanstalkdReserve |-> handleBeanstalkdReserve,
   handleBeanstalkdDelete |-> handleBeanstalkdDelete,
   handleBeanstalkdRelease |-> handleBeanstalkdRelease,
   handleBeanstalkdBury |-> handleBeanstalkdBury,
   handleBeanstalkdKick |-> handleBeanstalkdKick,
   handleBeanstalkdTouch |-> handleBeanstalkdTouch,
   handleGaduGaduConnect |-> handleGaduGaduConnect,
   handleGaduGaduSendMessage |-> handleGaduGaduSendMessage,
   handleGaduGaduContacts |-> handleGaduGaduContacts,
   handleGearmanConnect |-> handleGearmanConnect,
   handleGearmanCommand |-> handleGearmanCommand,
   handleGearmanSubmit |-> handleGearmanSubmit,
   handleIRCConnect |-> handleIRCConnect,
   handleIRCSConnect |-> handleIRCSConnect,
   handleJabberComponentProbe |-> handleJabberComponentProbe,
   handleJabberComponentHandshake |-> handleJabberComponentHandshake,
   handleJabberComponentSend |-> handleJabberComponentSend,
   handleJabberComponentRoster |-> handleJabberComponentRoster,
   handleKafkaApiVersions |-> handleKafkaApiVersions,
   handleKafkaProduceMessage |-> handleKafkaProduceMessage,
   handleKafkaMetadata |-> handleKafkaMetadata,
   handleKafkaFetch |-> handleKafkaFetch,
   handleKafkaListGroups |-> handleKafkaListGroups,
   handleKafkaListOffsets |-> handleKafkaListOffsets,
   handleKafkaDescribeGroups |-> handleKafkaDescribeGroups,
   handleMatrixHealth |-> handleMatrixHealth,
   handleMatrixQuery |-> handleMatrixQuery,
   handleMatrixLogin |-> handleMatrixLogin,
   handleMatrixRooms |-> handleMatrixRooms,
   handleMatrixSend |-> handleMatrixSend,
   handleMatrixRoomCreate |-> handleMatrixRoomCreate,
   handleMatrixRoomJoin |-> handleMatrixRoomJoin,
   handleMQTTConnect |-> handleMQTTConnect,
   handleMQTTPublish |-> handleMQTTPublish,
   handleMSNProbe |-> handleMSNProbe,
   handleMSNClientVersion |-> handleMSNClientVersion,
   handleMSNLogin |-> handleMSNLogin,
   handleMSNMD5Login |-> handleMSNMD5Login,
   handleMsrpSend |-> handleMsrpSend,
   handleMsrpSession |-> handleMsrpSession,
   handleMsrpConnect |-> handleMsrpConnect,
   handleNATSConnect |-> handleNATSConnect,
   handleNATSPublish |-> handleNATSPublish,
   handleNATSSubscribe |-> handleNATSSubscribe,
   handleNATSJetStreamInfo |-> handleNATSJetStreamInfo,
   handleNATSJetStreamStream |-> handleNATSJetStreamStream,
   handleNATSJetStreamPublish |-> handleNATSJetStreamPublish,
   handleNATSJetStreamPull |-> handleNATSJetStreamPull,
   handleNATSRequest |-> handleNATSRequest,
   handleNSQConnect |-> handleNSQConnect,
   handleNSQPublish |-> handleNSQPublish,
   handleNSQSubscribe |-> handleNSQSubscribe,
   handleNSQDeferredPublish |-> handleNSQDeferredPublish,
   handleNSQMultiPublish |-> handleNSQMultiPublish,
   handleOSCARProbe |-> handleOSCARProbe,
   handleOSCARPing |-> handleOSCARPing,
   handleOSCARAuth |-> handleOSCARAuth,
   handleOSCARLogin |-> handleOSCARLogin,
   handleOSCARBuddyList |-> handleOSCARBuddyList,
   handleOSCARSendIM |-> handleOSCARSendIM,
   handleRabbitMQHealth |-> handleRabbitMQHealth,
   handleRabbitMQPublish |-> handleRabbitMQPublish,
   handleRabbitMQQuery |-> handleRabbitMQQuery,
   handleRTMPConnect |-> handleRTMPConnect,
   handleRTMPPublish |-> handleRTMPPublish,
   handleRTMPPlay |-> handleRTMPPlay,
   handleRtspOptions |-> handleRtspOptions,
   handleRtspDescribe |-> handleRtspDescribe,
   handleRTSPSession |-> handleRTSPSession,
   handleSMPPConnect |-> handleSMPPConnect,
   handleSMPPSubmit |-> handleSMPPSubmit,
   handleSMPPProbe |-> handleSMPPProbe,
   handleSMPPQuery |-> handleSMPPQuery,
   handleSNPPProbe |-> handleSNPPProbe,
   handleSNPPPage |-> handleSNPPPage,
   handleStompConnect |-> handleStompConnect,
   handleStompSend |-> handleStompSend,
   handleStompSubscribe |-> handleStompSubscribe,
   handleXMPPConnect |-> handleXMPPConnect,
   handleXMPPLogin |-> handleXMPPLogin,
   handleXMPPRoster |-> handleXMPPRoster,
   handleXMPPMessage |-> handleXMPPMessage,
   handleXMPPS2SProbe |-> handleXMPPS2SProbe,
   handleXMPPS2SFederationTest |-> handleXMPPS2SFederationTest,
   handleXMPPS2STlsDialback |-> handleXMPPS2STlsDialback,
   handleXmppS2SPing |-> handleXmppS2SPing,
   handleYMSGProbe |-> handleYMSGProbe,
   handleYMSGVersionDetect |-> handleYMSGVersionDetect,
   handleYMSGAuth |-> handleYMSGAuth,
   handleYMSGLogin |-> handleYMSGLogin,
   handleZMTPProbe |-> handleZMTPProbe,
   handleZMTPSend |-> handleZMTPSend,
   handleZMTPRecv |-> handleZMTPRecv,
   handleZMTPHandshake |-> handleZMTPHandshake]

=============================================================================
