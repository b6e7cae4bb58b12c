--------------------------- MODULE MessagingCalls ---------------------------
(* What the handlers of MessagingHandlers call of their own files: the     *)
(* clients, readers and logins of brokers and chat servers, as steps on    *)
(* the sockets.                                                            *)
EXTENDS SharedCalls

-----------------------------------------------------------------------------
\* src/src/worker/activemq.ts

readBytes_activemq(socket) ==
  Call(<< Loop(<< Try(<< Race(Read(socket), "throw"), When(GotNothing, << Break >>) >>, << Break >>) >>) >>)

withStompSession ==
  Call(<< Connect("withStompSession.socket"),
          Try(
              << Race(Opened("withStompSession.socket"), "throw"), GetWriter("withStompSession.socket"),
                 GetReader("withStompSession.socket"), Write("withStompSession.socket"),
                 Loop(<< MayThrow, Race(Read("withStompSession.socket"), "throw"),
                         When(GotEnd, << Break >>) >>),
                 Maybe(<< FreeWriter("withStompSession.socket"), FreeReader("withStompSession.socket"),
                          CloseQuietly("withStompSession.socket"), Throw >>),
                 Quietly(<< Write("withStompSession.socket") >>), FreeWriter("withStompSession.socket"),
                 FreeReader("withStompSession.socket"), CloseQuietly("withStompSession.socket"), Return >>,
              << CloseQuietly("withStompSession.socket"), Throw >>) >>)

withStompSession_2(work) ==
  Call(<< Connect("withStompSession.socket"),
          Try(
              << Race(Opened("withStompSession.socket"), "throw"), GetWriter("withStompSession.socket"),
                 GetReader("withStompSession.socket"), Write("withStompSession.socket"),
                 Loop(<< MayThrow, Race(Read("withStompSession.socket"), "throw"),
                         When(GotEnd, << Break >>) >>),
                 Maybe(<< FreeWriter("withStompSession.socket"), FreeReader("withStompSession.socket"),
                          CloseQuietly("withStompSession.socket"), Throw >>),
                 Call(work), Quietly(<< Write("withStompSession.socket") >>),
                 FreeWriter("withStompSession.socket"), FreeReader("withStompSession.socket"),
                 CloseQuietly("withStompSession.socket"), Return >>,
              << CloseQuietly("withStompSession.socket"), Throw >>) >>)

withStompSession_readNextFrame(socket) ==
  Call(<< Forever(<< MayReturn, MayThrow, Race(Read(socket), "throw"), When(GotEnd, << Break >>) >>) >>)

readUntilNull_durable ==
  Call(<< Loop(<< MayThrow, Race(Read("socket"), "throw"), When(GotEnd, << Break >>) >>) >>)

readNextFrame_durable ==
  Call(<< Forever(<< MayReturn, MayThrow, Race(Read("socket"), "throw"), When(GotEnd, << Break >>) >>) >>)

-----------------------------------------------------------------------------
\* src/src/worker/amqp.ts

BufferedReader_readExact_amqp(socket) ==
  Call(<< Loop(<< MayThrow, Race(Read(socket), "throw"), When(GotNothing, << Throw >>) >>) >>)

readFrame_amqp(socket) ==
  Call(<< BufferedReader_readExact_amqp(socket), MayThrow, BufferedReader_readExact_amqp(socket),
          BufferedReader_readExact_amqp(socket), MayThrow >>)

expectMethod(socket) ==
  Call(<< readFrame_amqp(socket), MayThrow >>)

doAMQPPublish ==
  Call(<< Connect("doAMQPPublish.socket"), Race(Opened("doAMQPPublish.socket"), "throw"),
          GetWriter("doAMQPPublish.socket"), GetReader("doAMQPPublish.socket"),
          TryFinally(<< Write("doAMQPPublish.socket"), expectMethod("doAMQPPublish.socket"), MayThrow,
                        Write("doAMQPPublish.socket"), expectMethod("doAMQPPublish.socket"),
                        Write("doAMQPPublish.socket"), MayThrow, Write("doAMQPPublish.socket"),
                        expectMethod("doAMQPPublish.socket"), Write("doAMQPPublish.socket"),
                        expectMethod("doAMQPPublish.socket"),
                        Maybe(<< MayThrow, Write("doAMQPPublish.socket"),
                                 expectMethod("doAMQPPublish.socket") >>),
                        MayThrow, Write("doAMQPPublish.socket"), MayThrow, Write("doAMQPPublish.socket"),
                        Write("doAMQPPublish.socket"), MayThrow, Write("doAMQPPublish.socket"),
                        Quietly(<< expectMethod("doAMQPPublish.socket") >>), MayThrow,
                        Write("doAMQPPublish.socket"), Quietly(<< expectMethod("doAMQPPublish.socket") >>),
                        Return >>,
                     << FinishQuietly("doAMQPPublish.socket"), Quietly(<< Cancel("doAMQPPublish.socket") >>),
                        CloseQuietly("doAMQPPublish.socket") >>) >>)

readFrameWithTimeout(socket) ==
  Call(<< MayReturn, Task("framePromise", << readFrame_amqp(socket) >>), Race(Join("framePromise"), "null") >>)

doAMQPConsume ==
  Call(<< Connect("doAMQPConsume.socket"), Race(Opened("doAMQPConsume.socket"), "throw"),
          GetWriter("doAMQPConsume.socket"), GetReader("doAMQPConsume.socket"),
          TryFinally(<< Write("doAMQPConsume.socket"), expectMethod("doAMQPConsume.socket"), MayThrow,
                        Write("doAMQPConsume.socket"), expectMethod("doAMQPConsume.socket"),
                        Write("doAMQPConsume.socket"), MayThrow, Write("doAMQPConsume.socket"),
                        expectMethod("doAMQPConsume.socket"), Write("doAMQPConsume.socket"),
                        expectMethod("doAMQPConsume.socket"), MayThrow, Write("doAMQPConsume.socket"),
                        expectMethod("doAMQPConsume.socket"), MayThrow, Write("doAMQPConsume.socket"),
                        expectMethod("doAMQPConsume.socket"),
                        Loop(<< MayBreak, readFrameWithTimeout("doAMQPConsume.socket"), MayBreak, MayContinue,
                                readFrame_amqp("doAMQPConsume.socket"), MayThrow,
                                Loop(<< readFrame_amqp("doAMQPConsume.socket"), MayThrow >>) >>),
                        MayThrow, Write("doAMQPConsume.socket"),
                        Quietly(<< expectMethod("doAMQPConsume.socket") >>), MayThrow,
                        Write("doAMQPConsume.socket"), Quietly(<< expectMethod("doAMQPConsume.socket") >>),
                        Return >>,
                     << FinishQuietly("doAMQPConsume.socket"), Quietly(<< Cancel("doAMQPConsume.socket") >>),
                        CloseQuietly("doAMQPConsume.socket") >>) >>)

-----------------------------------------------------------------------------
\* src/src/worker/amqps.ts

BufferedReader_readExact_amqps(socket) ==
  Call(<< Loop(<< MayThrow, Race(Read(socket), "throw"), When(GotNothing, << Throw >>) >>) >>)

-----------------------------------------------------------------------------
\* src/src/worker/battlenet.ts

readBNCSPacket(socket) ==
  Call(<< MayReturn,
          Loop(<< MayBreak, Try(<< Race(Read(socket), "throw") >>, << Break >>),
                  When(GotNothing, << Break >>), MayReturn >>) >>)

-----------------------------------------------------------------------------
\* src/src/worker/beanstalkd.ts

readBeanstalkdResponse(socket) ==
  Call(<< Forever(<< MayBreak, Race(Read(socket), "end"), When(GotNothing, << Break >>), MayBreak,
                     MayContinue >>) >>)

-----------------------------------------------------------------------------
\* src/src/worker/gadugadu.ts

openGGSession(socket) ==
  Call(<< Connect(socket), Race(Opened(socket), "throw"), GetReader(socket), GetWriter(socket),
          RaceTask(<< readPacket_utils(socket) >>, "throw"), MayThrow, buildLoginPacket, Write(socket),
          RaceTask(<< readPacket_utils(socket) >>, "throw"), MayThrow >>)

-----------------------------------------------------------------------------
\* src/src/worker/gearman.ts

readGearmanResponse(socket) ==
  Call(<< Forever(<< MayBreak, Race(Read(socket), "end"), When(GotNothing, << Break >>), MayBreak >>) >>)

readBinaryPacket(socket) ==
  Call(<< Loop(<< MayReturn, Race(Read(socket), "end"), When(GotNothing, << Return >>) >>), MayThrow,
          Loop(<< MayReturn, Race(Read(socket), "end"), When(GotNothing, << Return >>) >>) >>)

-----------------------------------------------------------------------------
\* src/src/worker/jabber-component.ts

buildHandshake ==
  Call(<< Await >>)

readWithDeadline(socket) ==
  Call(<< Forever(<< Race(Read(socket), "end"), When(GotNothing, << Break >>), MayBreak >>) >>)

-----------------------------------------------------------------------------
\* src/src/worker/kafka.ts

readKafkaResponse(socket) ==
  Call(<< Forever(<< Race(Read(socket), "throw"), When(GotNothing, << Throw >>), MayThrow, MayBreak >>) >>)

-----------------------------------------------------------------------------
\* src/src/worker/matrix.ts

sendHttpRequest_matrix ==
  Call(<< checkIfCloudflare, MayThrow, Connect("sendHttpRequest.socket"),
          TryFinally(<< Race(Opened("sendHttpRequest.socket"), "throw"), GetWriter("sendHttpRequest.socket"),
                        Write("sendHttpRequest.socket"), FreeWriter("sendHttpRequest.socket"),
                        GetReader("sendHttpRequest.socket"),
                        Loop(<< Race(Read("sendHttpRequest.socket"), "throw"), When(GotEnd, << Break >>),
                                When(GotData, << MayBreak >>) >>),
                        FreeReader("sendHttpRequest.socket") >>,
                     << CloseQuietly("sendHttpRequest.socket") >>),
          MayThrow >>)

sendHttpRequest_matrix_2 ==
  Call(<< checkIfCloudflare, MayThrow, Connect("sendHttpRequest.socket"),
          TryFinally(<< Race(Opened("sendHttpRequest.socket"), "throw"), GetWriter("sendHttpRequest.socket"),
                        Either(<< Write("sendHttpRequest.socket"), Write("sendHttpRequest.socket") >>,
                               << Write("sendHttpRequest.socket") >>),
                        FreeWriter("sendHttpRequest.socket"), GetReader("sendHttpRequest.socket"),
                        Loop(<< Race(Read("sendHttpRequest.socket"), "throw"), When(GotEnd, << Break >>),
                                When(GotData, << MayBreak >>) >>),
                        FreeReader("sendHttpRequest.socket") >>,
                     << CloseQuietly("sendHttpRequest.socket") >>),
          MayThrow >>)

-----------------------------------------------------------------------------
\* src/src/worker/mqtt.ts

mqttConnect(socket) ==
  Call(<< Connect(socket), Race(Opened(socket), "throw"), GetReader(socket), GetWriter(socket), Write(socket),
          Forever(<< MayThrow, RaceTask(<< Read(socket) >>, "throw"), When(GotNothing, << Throw >>), MayThrow,
                     MayBreak >>),
          MayThrow >>)

-----------------------------------------------------------------------------
\* src/src/worker/msn.ts

readMSNLine(socket) ==
  Call(<< Loop(<< MayBreak,
                  Try(
                      << Race(Read(socket), "throw"), When(GotNothing, << Break >>), MayReturn >>,
                      << Break >>) >>) >>)

-----------------------------------------------------------------------------
\* src/src/worker/nats.ts

readWithTimeout_nats(socket) ==
  Call(<< Task("readPromise", << Forever(<< Read(socket), When(GotEnd, << Break >>), MayReturn >>) >>),
          Race(Join("readPromise"), "throw") >>)

withNATSSession(work) ==
  Call(<< Connect("withNATSSession.socket"), Race(Opened("withNATSSession.socket"), "throw"),
          GetWriter("withNATSSession.socket"), GetReader("withNATSSession.socket"),
          Try(
              << Loop(<< Race(Read("withNATSSession.socket"), "null"),
                         If(GotNull, << Break >>, << When(GotNothing, << Break >>) >>) >>),
                 MayThrow, Write("withNATSSession.socket"), Write("withNATSSession.socket"), Call(work),
                 CloseQuietly("withNATSSession.socket"), Return >>,
              << CloseQuietly("withNATSSession.socket"), Throw >>) >>)

withNATSSession_readMsg(socket) ==
  Call(<< Loop(<< Race(Read(socket), "null"), MayBreak, Loop(<< Maybe(<< Write(socket) >>) >>), MayReturn >>) >>)

withNATSSession_jsRequest(socket) ==
  Call(<< Write(socket), Write(socket), Write(socket), withNATSSession_readMsg(socket), MayThrow,
          Try(<< MayThrow, Return >>, << Return >>) >>)

-----------------------------------------------------------------------------
\* src/src/worker/nsq.ts

readFrame_nsq(socket) ==
  Call(<< Task("readPromise",
               << Loop(<< Read(socket), When(GotNothing, << Throw >>) >>), MayThrow,
                  Loop(<< Read(socket), When(GotNothing, << Break >>) >>) >>),
          Race(Join("readPromise"), "throw") >>)

-----------------------------------------------------------------------------
\* src/src/worker/oscar.ts

readFLAP(socket) ==
  Call(<< Loop(<< MayBreak, Quietly(<< Race(Read(socket), "throw") >>), When(GotNothing, << Break >>),
                  MayThrow, MayBreak >>),
          MayReturn >>)

drainBOSSNACs(bosSock) ==
  Call(<< Loop(<< Quietly(<< readFLAP(bosSock) >>), MayBreak >>) >>)

readSNAC(authSock) ==
  Call(<< Quietly(<< Loop(<< MayBreak, readFLAP(authSock), MayBreak, MayContinue, MayReturn >>) >>) >>)

-----------------------------------------------------------------------------
\* src/src/worker/rabbitmq.ts

sendHttpGet_rabbitmq ==
  Call(<< Connect("sendHttpGet.socket"),
          TryFinally(<< Race(Opened("sendHttpGet.socket"), "throw"), GetWriter("sendHttpGet.socket"),
                        Write("sendHttpGet.socket"), FreeWriter("sendHttpGet.socket"),
                        GetReader("sendHttpGet.socket"),
                        Loop(<< Race(Read("sendHttpGet.socket"), "throw"), When(GotEnd, << Break >>),
                                When(GotData, << MayBreak >>) >>),
                        FreeReader("sendHttpGet.socket") >>,
                     << CloseQuietly("sendHttpGet.socket") >>),
          MayThrow >>)

sendHttpPost_rabbitmq ==
  Call(<< Connect("sendHttpPost.socket"),
          TryFinally(<< Race(Opened("sendHttpPost.socket"), "throw"), GetWriter("sendHttpPost.socket"),
                        Write("sendHttpPost.socket"), FreeWriter("sendHttpPost.socket"),
                        GetReader("sendHttpPost.socket"),
                        Loop(<< Race(Read("sendHttpPost.socket"), "throw"), When(GotEnd, << Break >>),
                                When(GotData, << MayBreak >>) >>),
                        FreeReader("sendHttpPost.socket") >>,
                     << CloseQuietly("sendHttpPost.socket") >>),
          MayThrow >>)

-----------------------------------------------------------------------------
\* src/src/worker/rtmp.ts

BufferedReader_readExact_rtmp(socket) ==
  Call(<< Loop(<< Read(socket), When(GotNothing, << Throw >>) >>) >>)

readRTMPMessage(socket) ==
  Call(<< BufferedReader_readExact_rtmp(socket), Maybe(<< BufferedReader_readExact_rtmp(socket) >>),
          Either(<< BufferedReader_readExact_rtmp(socket),
                    Maybe(<< BufferedReader_readExact_rtmp(socket) >>) >>,
                 << Maybe(<< BufferedReader_readExact_rtmp(socket) >>) >>),
          MayThrow,
          Loop(<< BufferedReader_readExact_rtmp(socket), Maybe(<< BufferedReader_readExact_rtmp(socket) >>) >>) >>)

rtmpHandshakeAndConnect(socket) ==
  Call(<< Write(socket), BufferedReader_readExact_rtmp(socket), MayThrow,
          BufferedReader_readExact_rtmp(socket), BufferedReader_readExact_rtmp(socket), Write(socket),
          Write(socket), Write(socket),
          Loop(<< readRTMPMessage(socket), MayContinue, Maybe(<< MayReturn, MayThrow >>) >>), Throw >>)

rtmpCreateStream(socket) ==
  Call(<< Write(socket),
          Loop(<< readRTMPMessage(socket), MayContinue,
                  Maybe(<< Maybe(<< MayReturn, Throw >>), MayThrow >>) >>),
          Throw >>)

-----------------------------------------------------------------------------
\* src/src/worker/rtsp.ts

readRtspTextResponse(socket) ==
  Call(<< Forever(<< Race(Read(socket), "throw"), When(GotNothing, << Break >>), MayBreak >>) >>)

handleRTSPSession_sendRequest(socket) ==
  Call(<< Write(socket), readRtspTextResponse(socket) >>)

collectRtpFrames(socket) ==
  Call(<< Quietly(<< Loop(<< MayBreak, Race(Read(socket), "end"), When(GotNothing, << Break >>) >>) >>) >>)

-----------------------------------------------------------------------------
\* src/src/worker/smpp.ts

readBytes_smpp(socket) ==
  Call(<< Loop(<< Read(socket), When(GotNothing, << Throw >>) >>), MayReturn >>)

handleSMPPSubmit_readPDU(socket) ==
  Call(<< Task("rp", << Loop(<< Read(socket), When(GotNothing, << Throw >>) >>) >>),
          Race(Join("rp"), "throw"),
          Maybe(<< Task("rp", << Loop(<< Read(socket), When(GotNothing, << Throw >>) >>) >>),
                   Race(Join("rp"), "throw") >>) >>)

handleSMPPQuery_readPDU(socket) ==
  Call(<< Task("rp", << Loop(<< Read(socket), When(GotNothing, << Throw >>) >>) >>),
          Race(Join("rp"), "throw"),
          Maybe(<< Task("rp", << Loop(<< Read(socket), When(GotNothing, << Throw >>) >>) >>),
                   Race(Join("rp"), "throw") >>) >>)

-----------------------------------------------------------------------------
\* src/src/worker/snpp.ts

readLine_snpp(socket) ==
  Call(<< Forever(<< Race(Read(socket), "throw"), When(GotEnd, << MayReturn, Throw >>),
                     When(GotData, << MayReturn >>) >>) >>)

sendCommand_snpp(socket) ==
  Call(<< Write(socket) >>)

-----------------------------------------------------------------------------
\* src/src/worker/xmpp.ts

readWithTimeout_xmpp(socket) ==
  Call(<< Task("readPromise", << Forever(<< Read(socket), When(GotEnd, << Break >>), MayReturn >>) >>),
          Race(Join("readPromise"), "throw") >>)

readUntil(socket) ==
  Call(<< Task("readPromise", << Forever(<< Read(socket), When(GotEnd, << Break >>), MayReturn >>) >>),
          Race(Join("readPromise"), "throw") >>)

openXMPPStream(socket) ==
  Call(<< Write(socket), readUntil(socket) >>)

performStartTLS(socket) ==
  Call(<< Write(socket), readUntil(socket), MayThrow, FreeReader(socket), FreeWriter(socket), MayThrow,
          StartTls(socket), GetReader(socket), GetWriter(socket), openXMPPStream(socket), MayThrow >>)

-----------------------------------------------------------------------------
\* src/src/worker/xmpps2s.ts

readXMPPUntil(socket) ==
  Call(<< Forever(<< MayBreak, Race(Read(socket), "end"), When(GotNothing, << Break >>), MayBreak,
                     MayReturn >>),
          MayReturn >>)

-----------------------------------------------------------------------------
\* src/src/worker/zmtp.ts

readResponse_zmtp(socket) ==
  Call(<< Loop(<< MayBreak, Race(Read(socket), "end"), When(GotNothing, << Break >>), MayBreak >>) >>)

=============================================================================
