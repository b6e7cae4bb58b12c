------------------------------ MODULE WebCalls ------------------------------
(* What the handlers of WebHandlers call of their own files: the clients,  *)
(* readers and logins of web services, as steps on the sockets.            *)
EXTENDS SharedCalls

-----------------------------------------------------------------------------
\* src/src/worker/ajp.ts

readExact_ajp(socket) ==
  Call(<< Loop(<< MayThrow, Race(Read(socket), "throw"), When(GotNothing, << Throw >>) >>) >>)

readAJPResponse(socket) ==
  Call(<< Loop(<< Loop(<< Race(Read(socket), "throw"), When(GotNothing, << Throw >>) >>), MayThrow,
                  Loop(<< Race(Read(socket), "throw"), When(GotNothing, << Throw >>) >>), MayContinue >>) >>)

-----------------------------------------------------------------------------
\* src/src/worker/consul.ts

sendHttpGet_consul ==
  Call(<< Connect("sendHttpGet.socket"),
          TryFinally(<< Race(Opened("sendHttpGet.socket"), "throw"), GetWriter("sendHttpGet.socket"),
                        Write("sendHttpGet.socket"), FreeWriter("sendHttpGet.socket"),
                        GetReader("sendHttpGet.socket"),
                        Loop(<< Race(Read("sendHttpGet.socket"), "throw"), When(GotEnd, << Break >>),
                                When(GotData, << MayBreak >>) >>),
                        FreeReader("sendHttpGet.socket") >>,
                     << CloseQuietly("sendHttpGet.socket") >>),
          MayThrow >>)

sendConsulHttpRequest ==
  Call(<< Connect("sendConsulHttpRequest.socket"),
          TryFinally(<< Race(Opened("sendConsulHttpRequest.socket"), "throw"),
                        GetWriter("sendConsulHttpRequest.socket"), Write("sendConsulHttpRequest.socket"),
                        FreeWriter("sendConsulHttpRequest.socket"), GetReader("sendConsulHttpRequest.socket"),
                        Loop(<< Race(Read("sendConsulHttpRequest.socket"), "throw"),
                                When(GotEnd, << Break >>), When(GotData, << MayBreak >>) >>),
                        FreeReader("sendConsulHttpRequest.socket") >>,
                     << CloseQuietly("sendConsulHttpRequest.socket") >>),
          MayThrow >>)

sendConsulHttpRequest_2 ==
  Call(<< Connect("sendConsulHttpRequest.socket"),
          TryFinally(<< Race(Opened("sendConsulHttpRequest.socket"), "throw"),
                        GetWriter("sendConsulHttpRequest.socket"),
                        Either(<< Write("sendConsulHttpRequest.socket"),
                                  Write("sendConsulHttpRequest.socket") >>,
                               << Write("sendConsulHttpRequest.socket") >>),
                        FreeWriter("sendConsulHttpRequest.socket"), GetReader("sendConsulHttpRequest.socket"),
                        Loop(<< Race(Read("sendConsulHttpRequest.socket"), "throw"),
                                When(GotEnd, << Break >>), When(GotData, << MayBreak >>) >>),
                        FreeReader("sendConsulHttpRequest.socket") >>,
                     << CloseQuietly("sendConsulHttpRequest.socket") >>),
          MayThrow >>)

-----------------------------------------------------------------------------
\* src/src/worker/docker.ts

sendHttpRequest_docker ==
  Call(<< Connect("sendHttpRequest.socket"),
          TryFinally(<< Race(Opened("sendHttpRequest.socket"), "throw"), GetWriter("sendHttpRequest.socket"),
                        Write("sendHttpRequest.socket"), FreeWriter("sendHttpRequest.socket"),
                        GetReader("sendHttpRequest.socket"),
                        Loop(<< Race(Read("sendHttpRequest.socket"), "throw"), When(GotEnd, << Break >>),
                                When(GotData, << MayBreak >>) >>),
                        FreeReader("sendHttpRequest.socket") >>,
                     << CloseQuietly("sendHttpRequest.socket") >>),
          MayThrow >>)

sendHttpRequest_docker_2 ==
  Call(<< Connect("sendHttpRequest.socket"),
          TryFinally(<< Race(Opened("sendHttpRequest.socket"), "throw"), GetWriter("sendHttpRequest.socket"),
                        Either(<< Write("sendHttpRequest.socket"), Write("sendHttpRequest.socket") >>,
                               << Write("sendHttpRequest.socket") >>),
                        FreeWriter("sendHttpRequest.socket"), GetReader("sendHttpRequest.socket"),
                        Loop(<< Race(Read("sendHttpRequest.socket"), "throw"), When(GotEnd, << Break >>),
                                When(GotData, << MayBreak >>) >>),
                        FreeReader("sendHttpRequest.socket") >>,
                     << CloseQuietly("sendHttpRequest.socket") >>),
          MayThrow >>)

-----------------------------------------------------------------------------
\* src/src/worker/fastcgi.ts

readAllRecords(socket) ==
  Call(<< Loop(<< Race(Read(socket), "null"), When(GotNull, << Break >>), When(GotNothing, << Break >>) >>) >>)

-----------------------------------------------------------------------------
\* src/src/worker/grafana.ts

openSocket_grafana(socket) ==
  Call(<< MayThrow, Connect(socket), Race(Opened(socket), "throw") >>)

httpGet(socket) ==
  Call(<< GetWriter(socket), GetReader(socket),
          TryFinally(<< Write(socket),
                        Forever(<< Read(socket), When(GotEnd, << Break >>), When(GotData, << MayThrow >>) >>),
                        MayThrow, Return >>,
                     << FreeReader(socket), FreeWriter(socket) >>) >>)

fetchJson(socket) ==
  Call(<< openSocket_grafana(socket),
          TryFinally(<< RaceTask(<< httpGet(socket) >>, "throw"), Return >>, << CloseQuietly(socket) >>) >>)

fetchJson_2 ==
  Call(<< openSocket_grafana("fetchJson.socket"),
          TryFinally(<< RaceTask(<< httpGet("fetchJson.socket") >>, "throw"), Return >>,
                     << CloseQuietly("fetchJson.socket") >>) >>)

httpPost(socket) ==
  Call(<< GetWriter(socket), GetReader(socket),
          TryFinally(<< Write(socket),
                        Forever(<< Read(socket), When(GotEnd, << Break >>), When(GotData, << MayThrow >>) >>),
                        MayThrow, Return >>,
                     << FreeReader(socket), FreeWriter(socket) >>) >>)

-----------------------------------------------------------------------------
\* src/src/worker/haproxy.ts

readAll_haproxy(socket) ==
  Call(<< Quietly(<< Loop(<< Race(Read(socket), "throw"), When(GotNothing, << Break >>) >>) >>) >>)

sendCommand_haproxy ==
  Call(<< checkIfCloudflare, MayThrow, Connect("sendCommand.socket"),
          Try(
              << Race(Opened("sendCommand.socket"), "throw"), GetWriter("sendCommand.socket"),
                 GetReader("sendCommand.socket"), Write("sendCommand.socket"),
                 readAll_haproxy("sendCommand.socket"), FreeWriter("sendCommand.socket"),
                 FreeReader("sendCommand.socket"), CloseQuietly("sendCommand.socket"), Return >>,
              << CloseQuietly("sendCommand.socket"), Throw >>) >>)

sendHttpRequest_haproxy ==
  Call(<< checkIfCloudflare, MayThrow, Connect("sendHttpRequest.socket"),
          Try(
              << Race(Opened("sendHttpRequest.socket"), "throw"), GetWriter("sendHttpRequest.socket"),
                 GetReader("sendHttpRequest.socket"), Write("sendHttpRequest.socket"),
                 readAll_haproxy("sendHttpRequest.socket"), FreeWriter("sendHttpRequest.socket"),
                 FreeReader("sendHttpRequest.socket"), CloseQuietly("sendHttpRequest.socket"), Return >>,
              << CloseQuietly("sendHttpRequest.socket"), Throw >>) >>)

-----------------------------------------------------------------------------
\* src/src/worker/http.ts

readFullResponse_http(socket) ==
  Call(<< Call(<< MayReturn, Race(Read(socket), "end") >>), MayReturn,
          Forever(<< MayBreak, Race(Read(socket), "end"), When(GotNothing, << Break >>) >>) >>)

-----------------------------------------------------------------------------
\* src/src/worker/jsonrpc.ts

sendHttpPost_jsonrpc ==
  Call(<< checkIfCloudflare, MayThrow, Connect("sendHttpPost.socket"),
          TryFinally(<< Race(Opened("sendHttpPost.socket"), "throw"), GetWriter("sendHttpPost.socket"),
                        Write("sendHttpPost.socket"), Write("sendHttpPost.socket"),
                        FreeWriter("sendHttpPost.socket"), GetReader("sendHttpPost.socket"),
                        Loop(<< Race(Read("sendHttpPost.socket"), "throw"), When(GotEnd, << Break >>),
                                When(GotData, << MayBreak >>) >>),
                        FreeReader("sendHttpPost.socket") >>,
                     << CloseQuietly("sendHttpPost.socket") >>),
          MayThrow >>)

-----------------------------------------------------------------------------
\* src/src/worker/jupyter.ts

sendHttpRequest_jupyter ==
  Call(<< Connect("sendHttpRequest.socket"),
          TryFinally(<< Race(Opened("sendHttpRequest.socket"), "throw"), GetWriter("sendHttpRequest.socket"),
                        Write("sendHttpRequest.socket"), FreeWriter("sendHttpRequest.socket"),
                        GetReader("sendHttpRequest.socket"),
                        Loop(<< Race(Read("sendHttpRequest.socket"), "throw"), When(GotEnd, << Break >>),
                                When(GotData, << MayBreak >>) >>),
                        FreeReader("sendHttpRequest.socket") >>,
                     << CloseQuietly("sendHttpRequest.socket") >>),
          MayThrow >>)

sendHttpRequest_jupyter_2 ==
  Call(<< Connect("sendHttpRequest.socket"),
          TryFinally(<< Race(Opened("sendHttpRequest.socket"), "throw"), GetWriter("sendHttpRequest.socket"),
                        Either(<< Write("sendHttpRequest.socket"), Write("sendHttpRequest.socket") >>,
                               << Write("sendHttpRequest.socket") >>),
                        FreeWriter("sendHttpRequest.socket"), GetReader("sendHttpRequest.socket"),
                        Loop(<< Race(Read("sendHttpRequest.socket"), "throw"), When(GotEnd, << Break >>),
                                When(GotData, << MayBreak >>) >>),
                        FreeReader("sendHttpRequest.socket") >>,
                     << CloseQuietly("sendHttpRequest.socket") >>),
          MayThrow >>)

-----------------------------------------------------------------------------
\* src/src/worker/kibana.ts

sendHttpGet_kibana ==
  Call(<< Connect("sendHttpGet.socket"), Race(Opened("sendHttpGet.socket"), "throw"),
          GetWriter("sendHttpGet.socket"), Write("sendHttpGet.socket"), FreeWriter("sendHttpGet.socket"),
          GetReader("sendHttpGet.socket"),
          TryCatchFinally(<< Forever(<< Race(Read("sendHttpGet.socket"), "throw"),
                                        When(GotNothing, << Break >>), MayBreak >>) >>,
                          <<>>, << FreeReader("sendHttpGet.socket"), CloseQuietly("sendHttpGet.socket") >>),
          MayThrow >>)

sendHttpWithAuth ==
  Call(<< Connect("sendHttpWithAuth.socket"), Race(Opened("sendHttpWithAuth.socket"), "throw"),
          GetWriter("sendHttpWithAuth.socket"), Write("sendHttpWithAuth.socket"),
          FreeWriter("sendHttpWithAuth.socket"), GetReader("sendHttpWithAuth.socket"),
          TryCatchFinally(<< Forever(<< Race(Read("sendHttpWithAuth.socket"), "throw"),
                                        When(GotNothing, << Break >>), MayBreak >>) >>,
                          <<>>,
                          << FreeReader("sendHttpWithAuth.socket"), CloseQuietly("sendHttpWithAuth.socket") >>),
          MayThrow >>)

sendHttpWithAuth_2 ==
  Call(<< Connect("sendHttpWithAuth.socket"), Race(Opened("sendHttpWithAuth.socket"), "throw"),
          GetWriter("sendHttpWithAuth.socket"),
          Either(<< Write("sendHttpWithAuth.socket"), Write("sendHttpWithAuth.socket") >>,
                 << Write("sendHttpWithAuth.socket") >>),
          FreeWriter("sendHttpWithAuth.socket"), GetReader("sendHttpWithAuth.socket"),
          TryCatchFinally(<< Forever(<< Race(Read("sendHttpWithAuth.socket"), "throw"),
                                        When(GotNothing, << Break >>), MayBreak >>) >>,
                          <<>>,
                          << FreeReader("sendHttpWithAuth.socket"), CloseQuietly("sendHttpWithAuth.socket") >>),
          MayThrow >>)

-----------------------------------------------------------------------------
\* src/src/worker/kubernetes.ts

readHTTPResponse(socket) ==
  Call(<< Quietly(<< Race(Read(socket), "throw"), When(GotNothing, << Return >>), MayThrow,
                     Forever(<< Race(Read(socket), "throw"), When(GotNothing, << Break >>), MayThrow,
                                MayBreak >>) >>) >>)

-----------------------------------------------------------------------------
\* src/src/worker/loki.ts

sendHttpGet_loki ==
  Call(<< Connect("sendHttpGet.socket"), Race(Opened("sendHttpGet.socket"), "throw"),
          GetWriter("sendHttpGet.socket"), Write("sendHttpGet.socket"), FreeWriter("sendHttpGet.socket"),
          GetReader("sendHttpGet.socket"),
          TryCatchFinally(<< Forever(<< Race(Read("sendHttpGet.socket"), "throw"),
                                        When(GotNothing, << Break >>), MayBreak >>) >>,
                          <<>>, << FreeReader("sendHttpGet.socket"), CloseQuietly("sendHttpGet.socket") >>),
          MayThrow >>)

-----------------------------------------------------------------------------
\* src/src/worker/lsp.ts

readLspResponse(socket) ==
  Call(<< Forever(<< Race(Read(socket), "throw"), When(GotEnd, << Throw >>), MayThrow, MayReturn >>) >>)

sendLSPMessage(socket) ==
  Call(<< Write(socket) >>)

readLSPMessage(socket) ==
  Call(<< Forever(<< MayReturn, Race(Read(socket), "throw"), When(GotEnd, << Throw >>) >>) >>)

-----------------------------------------------------------------------------
\* src/src/worker/meilisearch.ts

sendHttpRequest_meilisearch ==
  Call(<< Connect("sendHttpRequest.socket"),
          TryFinally(<< Race(Opened("sendHttpRequest.socket"), "throw"), GetWriter("sendHttpRequest.socket"),
                        Write("sendHttpRequest.socket"), FreeWriter("sendHttpRequest.socket"),
                        GetReader("sendHttpRequest.socket"),
                        Loop(<< Race(Read("sendHttpRequest.socket"), "throw"), When(GotEnd, << Break >>),
                                When(GotData, << MayBreak >>) >>),
                        FreeReader("sendHttpRequest.socket"), MayThrow, Return >>,
                     << CloseQuietly("sendHttpRequest.socket") >>) >>)

sendHttpRequest_meilisearch_2 ==
  Call(<< Connect("sendHttpRequest.socket"),
          TryFinally(<< Race(Opened("sendHttpRequest.socket"), "throw"), GetWriter("sendHttpRequest.socket"),
                        Either(<< Write("sendHttpRequest.socket"), Write("sendHttpRequest.socket") >>,
                               << Write("sendHttpRequest.socket") >>),
                        FreeWriter("sendHttpRequest.socket"), GetReader("sendHttpRequest.socket"),
                        Loop(<< Race(Read("sendHttpRequest.socket"), "throw"), When(GotEnd, << Break >>),
                                When(GotData, << MayBreak >>) >>),
                        FreeReader("sendHttpRequest.socket"), MayThrow, Return >>,
                     << CloseQuietly("sendHttpRequest.socket") >>) >>)

-----------------------------------------------------------------------------
\* src/src/worker/nomad.ts

sendHttpGet_nomad ==
  Call(<< Connect("sendHttpGet.socket"),
          TryFinally(<< Race(Opened("sendHttpGet.socket"), "throw"), GetWriter("sendHttpGet.socket"),
                        Write("sendHttpGet.socket"), FreeWriter("sendHttpGet.socket"),
                        GetReader("sendHttpGet.socket"),
                        Loop(<< Race(Read("sendHttpGet.socket"), "throw"), When(GotEnd, << Break >>),
                                When(GotData, << MayBreak >>) >>),
                        FreeReader("sendHttpGet.socket") >>,
                     << CloseQuietly("sendHttpGet.socket") >>),
          MayThrow >>)

sendHttpPost_nomad ==
  Call(<< Connect("sendHttpPost.socket"),
          TryFinally(<< Race(Opened("sendHttpPost.socket"), "throw"), GetWriter("sendHttpPost.socket"),
                        Write("sendHttpPost.socket"), Write("sendHttpPost.socket"),
                        FreeWriter("sendHttpPost.socket"), GetReader("sendHttpPost.socket"),
                        Loop(<< Race(Read("sendHttpPost.socket"), "throw"), When(GotEnd, << Break >>),
                                When(GotData, << MayBreak >>) >>),
                        FreeReader("sendHttpPost.socket") >>,
                     << CloseQuietly("sendHttpPost.socket") >>),
          MayThrow >>)

-----------------------------------------------------------------------------
\* src/src/worker/prometheus.ts

sendHttpGet_prometheus ==
  Call(<< Connect("sendHttpGet.socket"),
          TryFinally(<< Race(Opened("sendHttpGet.socket"), "throw"), GetWriter("sendHttpGet.socket"),
                        Write("sendHttpGet.socket"), FreeWriter("sendHttpGet.socket"),
                        GetReader("sendHttpGet.socket"),
                        Loop(<< Race(Read("sendHttpGet.socket"), "throw"), When(GotEnd, << Break >>),
                                When(GotData, << MayBreak >>) >>),
                        FreeReader("sendHttpGet.socket") >>,
                     << CloseQuietly("sendHttpGet.socket") >>),
          MayThrow >>)

-----------------------------------------------------------------------------
\* src/src/worker/soap.ts

sendSoapRequest ==
  Call(<< Connect("sendSoapRequest.socket"),
          TryFinally(<< Race(Opened("sendSoapRequest.socket"), "throw"), GetWriter("sendSoapRequest.socket"),
                        Write("sendSoapRequest.socket"), Write("sendSoapRequest.socket"),
                        FreeWriter("sendSoapRequest.socket"), GetReader("sendSoapRequest.socket"),
                        Loop(<< Race(Read("sendSoapRequest.socket"), "throw"), When(GotEnd, << Break >>),
                                When(GotData, << MayBreak >>) >>),
                        FreeReader("sendSoapRequest.socket") >>,
                     << CloseQuietly("sendSoapRequest.socket") >>),
          MayThrow >>)

sendWsdlRequest ==
  Call(<< Connect("sendWsdlRequest.socket"),
          TryFinally(<< Race(Opened("sendWsdlRequest.socket"), "throw"), GetWriter("sendWsdlRequest.socket"),
                        Write("sendWsdlRequest.socket"), FreeWriter("sendWsdlRequest.socket"),
                        GetReader("sendWsdlRequest.socket"),
                        Loop(<< Race(Read("sendWsdlRequest.socket"), "throw"), When(GotEnd, << Break >>),
                                When(GotData, << MayBreak >>) >>),
                        FreeReader("sendWsdlRequest.socket") >>,
                     << CloseQuietly("sendWsdlRequest.socket") >>),
          MayThrow >>)

-----------------------------------------------------------------------------
\* src/src/worker/thrift.ts

readFramedResponse(socket) ==
  Call(<< Task("readPromise",
               << Loop(<< Read(socket), When(GotEnd, << Throw >>) >>), MayThrow,
                  Loop(<< Read(socket), When(GotEnd, << Throw >>) >>) >>),
          Race(Join("readPromise"), "throw") >>)

-----------------------------------------------------------------------------
\* src/src/worker/uwsgi.ts

readUwsgiResponse(socket) ==
  Call(<< Task("readPromise", << Loop(<< Read(socket), When(GotEnd, << Break >>) >>) >>),
          Race(Join("readPromise"), "null") >>)

-----------------------------------------------------------------------------
\* src/src/worker/varnish.ts

readVcliResponse(socket) ==
  Call(<< Try(
              << Loop(<< Race(Read(socket), "throw"), When(GotNothing, << Break >>), MayBreak >>) >>,
              << MayThrow >>) >>)

computeAuthResponse ==
  Call(<< Await >>)

runVarnishWrite ==
  Call(<< Connect("runVarnishWrite.socket"), Race(Opened("runVarnishWrite.socket"), "throw"),
          GetWriter("runVarnishWrite.socket"), GetReader("runVarnishWrite.socket"),
          Try(
              << readVcliResponse("runVarnishWrite.socket"), MayThrow,
                 Either(<< computeAuthResponse, Write("runVarnishWrite.socket"),
                           readVcliResponse("runVarnishWrite.socket"), MayThrow >>,
                        << MayThrow >>),
                 Write("runVarnishWrite.socket"), readVcliResponse("runVarnishWrite.socket"),
                 FreeWriter("runVarnishWrite.socket"), FreeReader("runVarnishWrite.socket"),
                 CloseQuietly("runVarnishWrite.socket"), MayThrow, Return >>,
              << FreeWriterQuietly("runVarnishWrite.socket"), FreeReaderQuietly("runVarnishWrite.socket"),
                 CloseQuietly("runVarnishWrite.socket"), Throw >>) >>)

-----------------------------------------------------------------------------
\* src/src/worker/vault.ts

sendHttpGet_vault ==
  Call(<< Connect("sendHttpGet.socket"),
          TryFinally(<< Race(Opened("sendHttpGet.socket"), "throw"), GetWriter("sendHttpGet.socket"),
                        Write("sendHttpGet.socket"), FreeWriter("sendHttpGet.socket"),
                        GetReader("sendHttpGet.socket"),
                        Loop(<< Race(Read("sendHttpGet.socket"), "throw"), When(GotEnd, << Break >>),
                                When(GotData, << MayBreak >>) >>),
                        FreeReader("sendHttpGet.socket") >>,
                     << CloseQuietly("sendHttpGet.socket") >>),
          MayThrow >>)

-----------------------------------------------------------------------------
\* src/src/worker/websocket.ts

readWithTimeout_websocket(socket) ==
  Call(<< Forever(<< MayBreak, Task("readPromise", << Read(socket) >>), Race(Join("readPromise"), "null"),
                     MayBreak, MayReturn >>),
          MayReturn >>)

computeAcceptKey ==
  Call(<< Await >>)

=============================================================================
