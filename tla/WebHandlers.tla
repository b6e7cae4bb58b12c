---------------------------- MODULE WebHandlers -----------------------------
(* The one-shot handlers of the catalogue's "Web & APIs" protocols.        *)
EXTENDS WebCalls

-----------------------------------------------------------------------------
\* src/src/worker/ajp.ts

handleAJPConnect ==
  << MayReturn,
     Try(
         << Await, MayReturn, checkIfCloudflare, MayReturn,
            Task("connectionPromise",
                 << Connect("socket"), Opened("socket"), GetWriter("socket"), GetReader("socket"),
                    Try(
                        << Write("socket"), readExact_ajp("socket"), Close("socket"), MayReturn, Return >>,
                        << Close("socket"), Throw >>) >>),
            Race(Join("connectionPromise"), "throw"), Return >>,
         << Return >>) >>

handleAJPRequest ==
  << MayReturn,
     Try(
         << Await, MayReturn, checkIfCloudflare, MayReturn,
            Task("connectionPromise",
                 << Connect("socket"), Opened("socket"), GetWriter("socket"), GetReader("socket"),
                    Try(
                        << Write("socket"), Maybe(<< Write("socket"), Write("socket") >>),
                           readAJPResponse("socket"), Close("socket"), Return >>,
                        << Close("socket"), Throw >>) >>),
            Race(Join("connectionPromise"), "throw"), Return >>,
         << Return >>) >>

-----------------------------------------------------------------------------
\* src/src/worker/consul.ts

handleConsulHealth ==
  << MayReturn,
     Try(
         << Await, MayReturn, checkIfCloudflare, MayReturn, sendHttpGet_consul,
            Quietly(<< sendHttpGet_consul, MayThrow >>), Return >>,
         << Return >>) >>

handleConsulServices ==
  << MayReturn,
     Try(<< Await, MayReturn, checkIfCloudflare, MayReturn, sendHttpGet_consul, Return >>, << Return >>) >>

handleConsulKVGet ==
  << MayReturn,
     Try(<< Await, MayReturn, checkIfCloudflare, MayReturn, sendConsulHttpRequest, Return >>, << Return >>) >>

handleConsulKVPut ==
  << MayReturn,
     Try(<< Await, MayReturn, checkIfCloudflare, MayReturn, sendConsulHttpRequest_2, Return >>, << Return >>) >>

handleConsulKVList ==
  << MayReturn,
     Try(<< Await, MayReturn, checkIfCloudflare, MayReturn, sendConsulHttpRequest, Return >>, << Return >>) >>

handleConsulKVDelete ==
  << MayReturn,
     Try(<< Await, MayReturn, checkIfCloudflare, MayReturn, sendConsulHttpRequest, Return >>, << Return >>) >>

handleConsulServiceHealth ==
  << MayReturn,
     Try(<< Await, MayReturn, checkIfCloudflare, MayReturn, sendConsulHttpRequest, Return >>, << Return >>) >>

handleConsulSessionCreate ==
  << MayReturn,
     Try(<< Await, MayReturn, checkIfCloudflare, MayReturn, sendConsulHttpRequest_2, Return >>, << Return >>) >>

-----------------------------------------------------------------------------
\* src/src/worker/docker.ts

handleDockerHealth ==
  << MayReturn,
     Try(
         << Await, MayReturn, checkIfCloudflare, MayReturn, sendHttpRequest_docker,
            Quietly(<< sendHttpRequest_docker >>), Maybe(<< Quietly(<< sendHttpRequest_docker >>) >>),
            Return >>,
         << Return >>) >>

handleDockerQuery ==
  << MayReturn,
     Try(<< Await, MayReturn, checkIfCloudflare, MayReturn, sendHttpRequest_docker_2, Return >>, << Return >>) >>

handleDockerTLS ==
  << MayReturn,
     Try(<< Await, MayReturn, checkIfCloudflare, MayReturn, Await, Await, Return >>, << Return >>) >>

handleDockerContainerCreate ==
  << MayReturn,
     Try(
         << Await, MayReturn, checkIfCloudflare, MayReturn,
            Either(<< Await, Await, Return >>, << sendHttpRequest_docker_2, Return >>) >>,
         << Return >>) >>

handleDockerContainerStart ==
  << MayReturn,
     Try(
         << Await, MayReturn, checkIfCloudflare, MayReturn,
            Either(<< Await, Await, Return >>, << sendHttpRequest_docker_2, Return >>) >>,
         << Return >>) >>

handleDockerContainerLogs ==
  << MayReturn,
     Try(
         << Await, MayReturn, checkIfCloudflare, MayReturn,
            Either(<< Await, Await >>,
                   << Connect("socket"),
                      TryFinally(<< Race(Opened("socket"), "throw"), GetWriter("socket"), Write("socket"),
                                    FreeWriter("socket"), GetReader("socket"),
                                    Loop(<< Race(Read("socket"), "throw"), When(GotEnd, << Break >>) >>),
                                    FreeReader("socket") >>,
                                 << CloseQuietly("socket") >>),
                      MayThrow >>),
            MayReturn, Return >>,
         << Return >>) >>

handleDockerExec ==
  << MayReturn,
     Try(
         << Await, MayReturn, checkIfCloudflare, MayReturn,
            Either(<< Await, Maybe(<< Await, Return >>), Await >>, << sendHttpRequest_docker_2, MayReturn >>),
            MayReturn,
            Either(<< Await, Await >>,
                   << Connect("execSocket"),
                      TryFinally(<< Race(Opened("execSocket"), "throw"), GetWriter("execSocket"),
                                    Write("execSocket"), Write("execSocket"), FreeWriter("execSocket"),
                                    GetReader("execSocket"),
                                    Loop(<< Race(Read("execSocket"), "throw"), When(GotEnd, << Break >>) >>),
                                    FreeReader("execSocket") >>,
                                 << CloseQuietly("execSocket") >>),
                      MayThrow >>),
            Return >>,
         << Return >>) >>

-----------------------------------------------------------------------------
\* src/src/worker/fastcgi.ts

handleFastCGIProbe ==
  << MayReturn,
     Try(
         << Await, MayReturn, checkIfCloudflare, MayReturn,
            Task("probePromise",
                 << Connect("socket"), Opened("socket"),
                    Try(
                        << GetWriter("socket"), GetReader("socket"), Write("socket"),
                           readAllRecords("socket"), FreeWriter("socket"), FreeReader("socket"),
                           Close("socket"), Return >>,
                        << CloseQuietly("socket"), Throw >>) >>),
            Race(Join("probePromise"), "throw"), Return >>,
         << Return >>) >>

handleFastCGIRequest ==
  << MayReturn,
     Try(
         << Await, MayReturn, checkIfCloudflare, MayReturn,
            Task("requestPromise",
                 << Connect("socket"), Opened("socket"),
                    Try(
                        << GetWriter("socket"), GetReader("socket"), Write("socket"), Write("socket"),
                           Write("socket"), Write("socket"), readAllRecords("socket"),
                           Maybe(<< readAllRecords("socket") >>), FreeWriter("socket"), FreeReader("socket"),
                           Close("socket"), Return >>,
                        << CloseQuietly("socket"), Throw >>) >>),
            Race(Join("requestPromise"), "throw"), Return >>,
         << Return >>) >>

-----------------------------------------------------------------------------
\* src/src/worker/grafana.ts

handleGrafanaHealth ==
  << Maybe(<< MayThrow, MayReturn, checkIfCloudflare, MayReturn,
              Try(
                  << Task("fetchJson1", << fetchJson("socket") >>),
                     Task("fetchJson2", << fetchJson("socket2") >>), JoinAll({"fetchJson1", "fetchJson2"}),
                     Return >>,
                  << Return >>) >>),
     MayReturn, Try(<< Await >>, << Return >>), MayReturn, checkIfCloudflare, MayReturn,
     Try(
         << Task("fetchJson1", << fetchJson("socket3") >>), Task("fetchJson2", << fetchJson("socket4") >>),
            Task("fetchJson3", << fetchJson("socket5") >>),
            JoinAll({"fetchJson1", "fetchJson2", "fetchJson3"}), Return >>,
         << Return >>) >>

handleGrafanaDatasources ==
  << Maybe(<< MayThrow, MayReturn, checkIfCloudflare, MayReturn,
              Try(<< fetchJson_2, Return >>, << Return >>) >>),
     MayReturn, Try(<< Await >>, << Return >>), MayReturn, checkIfCloudflare, MayReturn,
     Try(<< fetchJson_2, MayReturn, Return >>, << Return >>) >>

handleGrafanaDashboards ==
  << Maybe(<< MayThrow, MayReturn, checkIfCloudflare, MayReturn,
              Try(<< fetchJson_2, Return >>, << Return >>) >>),
     MayReturn, Try(<< Await >>, << Return >>), MayReturn, checkIfCloudflare, MayReturn,
     Try(<< fetchJson_2, MayReturn, Return >>, << Return >>) >>

handleGrafanaFolders ==
  << MayReturn, Try(<< Await >>, << Return >>), MayReturn, checkIfCloudflare, MayReturn,
     Try(<< fetchJson_2, MayReturn, Return >>, << Return >>) >>

handleGrafanaAlertRules ==
  << MayReturn, Try(<< Await >>, << Return >>), MayReturn, checkIfCloudflare, MayReturn,
     Try(<< fetchJson_2, MayReturn, Return >>, << Return >>) >>

handleGrafanaOrg ==
  << MayReturn, Try(<< Await >>, << Return >>), MayReturn, checkIfCloudflare, MayReturn,
     Try(
         << Task("fetchJson1", << fetchJson("socket") >>), Task("fetchJson2", << fetchJson("socket2") >>),
            JoinAll({"fetchJson1", "fetchJson2"}), MayReturn, Return >>,
         << Return >>) >>

handleGrafanaDashboard ==
  << MayReturn, Try(<< Await >>, << Return >>), MayReturn, checkIfCloudflare, MayReturn,
     Try(<< fetchJson_2, MayReturn, Return >>, << Return >>) >>

handleGrafanaDashboardCreate ==
  << Try(
         << Await, MayReturn, checkIfCloudflare, MayReturn, openSocket_grafana("socket"),
            TryFinally(<< httpPost("socket"), MayReturn, Return >>, << CloseQuietly("socket") >>) >>,
         << Return >>) >>

handleGrafanaAnnotationCreate ==
  << Try(
         << Await, MayReturn, checkIfCloudflare, MayReturn, openSocket_grafana("socket"),
            TryFinally(<< httpPost("socket"), MayReturn, Return >>, << CloseQuietly("socket") >>) >>,
         << Return >>) >>

-----------------------------------------------------------------------------
\* src/src/worker/haproxy.ts

handleHAProxyInfo ==
  << MayReturn,
     Try(
         << Await, MayReturn, sendCommand_haproxy, Maybe(<< sendHttpRequest_haproxy >>), MayReturn, Return >>,
         << Return >>) >>

handleHAProxyStat ==
  << MayReturn, Try(<< Await, MayReturn, sendCommand_haproxy, MayReturn, Return >>, << Return >>) >>

handleHAProxyCommand ==
  << MayReturn, Try(<< Await, MayReturn, sendCommand_haproxy, Return >>, << Return >>) >>

handleHAProxySetWeight ==
  << MayReturn, Try(<< Await, MayReturn, sendCommand_haproxy, Return >>, << Return >>) >>

handleHAProxySetState ==
  << MayReturn, Try(<< Await, MayReturn, sendCommand_haproxy, Return >>, << Return >>) >>

handleHAProxySetAddr ==
  << MayReturn, Try(<< Await, MayReturn, sendCommand_haproxy, Return >>, << Return >>) >>

handleHAProxyDisableServer ==
  << MayReturn, Try(<< Await, MayReturn, sendCommand_haproxy, Return >>, << Return >>) >>

handleHAProxyEnableServer ==
  << MayReturn, Try(<< Await, MayReturn, sendCommand_haproxy, Return >>, << Return >>) >>

-----------------------------------------------------------------------------
\* src/src/worker/http.ts

handleHTTPRequest ==
  << MayReturn,
     Try(
         << Await, MayReturn, checkIfCloudflare, MayReturn, Connect("handleHTTPRequest.socket"),
            Try(
                << Race(Opened("handleHTTPRequest.socket"), "throw"),
                   GetWriter("handleHTTPRequest.socket"), GetReader("handleHTTPRequest.socket"),
                   MayThrow, Write("handleHTTPRequest.socket"),
                   readFullResponse_http("handleHTTPRequest.socket"),
                   FreeWriterQuietly("handleHTTPRequest.socket"),
                   FreeReaderQuietly("handleHTTPRequest.socket"),
                   CloseQuietly("handleHTTPRequest.socket"), MayReturn, Return >>,
                << CloseQuietly("handleHTTPRequest.socket"), Throw >>) >>,
         << Return >>) >>

handleHTTPHead ==
  << MayReturn, Await, Call(handleHTTPRequest), Return >>

handleHTTPOptions ==
  << MayReturn, Await, Call(handleHTTPRequest), Return >>

-----------------------------------------------------------------------------
\* src/src/worker/jsonrpc.ts

handleJsonRpcCall ==
  << MayReturn, Try(<< Await, MayReturn, sendHttpPost_jsonrpc, Return >>, << Return >>) >>

handleJsonRpcBatch ==
  << MayReturn, Try(<< Await, MayReturn, sendHttpPost_jsonrpc, Return >>, << Return >>) >>

handleJsonRpcWs ==
  << MayReturn,
     Try(
         << Await, MayReturn, checkIfCloudflare, MayReturn, Connect("socket"),
            Try(<< Race(Opened("socket"), "throw") >>, << CloseQuietly("socket"), Throw >>),
            GetWriter("socket"), GetReader("socket"), Write("socket"),
            Loop(<< Race(Read("socket"), "throw"), When(GotNothing, << Break >>) >>),
            Maybe(<< FreeWriter("socket"), FreeReader("socket"), CloseQuietly("socket"), Return >>), MayThrow,
            Write("socket"),
            Loop(<< Try(<< Race(Read("socket"), "end"), When(GotNothing, << Break >>) >>, << Break >>),
                    If(GotData, << MayContinue >>, << Continue >>), MayBreak,
                    Quietly(<< MayThrow, Break >>) >>),
            FreeWriter("socket"), FreeReader("socket"), CloseQuietly("socket"), Return >>,
         << Return >>) >>

-----------------------------------------------------------------------------
\* src/src/worker/jupyter.ts

handleJupyterHealth ==
  << MayReturn,
     Try(
         << Await, MayReturn, checkIfCloudflare, MayReturn, sendHttpRequest_jupyter,
            Quietly(<< sendHttpRequest_jupyter >>), Quietly(<< sendHttpRequest_jupyter >>), Return >>,
         << Return >>) >>

handleJupyterQuery ==
  << MayReturn,
     Try(
         << Await, MayReturn, checkIfCloudflare, MayReturn, sendHttpRequest_jupyter_2, Return >>,
         << Return >>) >>

handleJupyterKernelCreate ==
  << MayReturn,
     Try(<< Await, MayReturn, checkIfCloudflare, MayReturn, Await, Await, Return >>, << Return >>) >>

handleJupyterKernelList ==
  << Try(<< MayReturn, Await, MayReturn, checkIfCloudflare, MayReturn, Await, Await, Return >>, << Return >>) >>

handleJupyterKernelDelete ==
  << MayReturn, Try(<< Await, MayReturn, checkIfCloudflare, MayReturn, Await, Return >>, << Return >>) >>

handleJupyterNotebooks ==
  << Try(
         << MayReturn, Await, MayReturn, checkIfCloudflare, MayReturn, Await, Maybe(<< Await, Return >>),
            Await, Return >>,
         << Return >>) >>

handleJupyterNotebookGet ==
  << Try(
         << MayReturn, Await, MayReturn, checkIfCloudflare, MayReturn, Await, Maybe(<< Await, Return >>),
            Await, Return >>,
         << Return >>) >>

-----------------------------------------------------------------------------
\* src/src/worker/kibana.ts

handleKibanaStatus ==
  << Try(<< Await, MayReturn, checkIfCloudflare, MayReturn, sendHttpGet_kibana, Return >>, << Return >>) >>

handleKibanaSavedObjects ==
  << Try(<< Await, MayReturn, checkIfCloudflare, MayReturn, sendHttpWithAuth, Return >>, << Return >>) >>

handleKibanaIndexPatterns ==
  << Try(
         << Await, MayReturn, checkIfCloudflare, MayReturn, sendHttpWithAuth, Maybe(<< sendHttpWithAuth >>),
            Return >>,
         << Return >>) >>

handleKibanaAlerts ==
  << Try(
         << Await, MayReturn, checkIfCloudflare, MayReturn, sendHttpWithAuth, Maybe(<< sendHttpWithAuth >>),
            Return >>,
         << Return >>) >>

handleKibanaQuery ==
  << Try(<< Await, MayReturn, checkIfCloudflare, MayReturn, sendHttpWithAuth_2, Return >>, << Return >>) >>

-----------------------------------------------------------------------------
\* src/src/worker/kubernetes.ts

handleKubernetesProbe ==
  << MayReturn,
     Try(
         << Await, MayReturn, checkIfCloudflare, MayReturn, Connect("socket"),
            Try(
                << Race(Opened("socket"), "throw"), GetWriter("socket"), GetReader("socket"), Write("socket"),
                   readHTTPResponse("socket"), FreeWriter("socket"), FreeReader("socket"),
                   CloseQuietly("socket"), MayReturn, Return >>,
                << CloseQuietly("socket"), Throw >>) >>,
         << Return >>) >>

handleKubernetesQuery ==
  << MayReturn,
     Try(
         << Await, MayReturn, checkIfCloudflare, MayReturn, Connect("socket"),
            Try(
                << Race(Opened("socket"), "throw"), GetWriter("socket"), GetReader("socket"), Write("socket"),
                   readHTTPResponse("socket"), FreeWriter("socket"), FreeReader("socket"),
                   CloseQuietly("socket"), MayReturn, Return >>,
                << CloseQuietly("socket"), Throw >>) >>,
         << Return >>) >>

handleKubernetesLogs ==
  << MayReturn,
     Try(
         << Await, MayReturn, checkIfCloudflare, MayReturn, Connect("socket"),
            Try(
                << Race(Opened("socket"), "throw"), GetWriter("socket"), GetReader("socket"), Write("socket"),
                   readHTTPResponse("socket"), FreeWriter("socket"), FreeReader("socket"),
                   CloseQuietly("socket"), MayReturn, Return >>,
                << CloseQuietly("socket"), Throw >>) >>,
         << Return >>) >>

handleKubernetesPodList ==
  << MayReturn,
     Try(
         << Await, MayReturn, checkIfCloudflare, MayReturn, Connect("socket"),
            Try(
                << Race(Opened("socket"), "throw"), GetWriter("socket"), GetReader("socket"), Write("socket"),
                   readHTTPResponse("socket"), FreeWriter("socket"), FreeReader("socket"),
                   CloseQuietly("socket"), MayReturn, Return >>,
                << CloseQuietly("socket"), Throw >>) >>,
         << Return >>) >>

handleKubernetesApply ==
  << MayReturn,
     Try(
         << Await, MayReturn, checkIfCloudflare, MayReturn, Connect("socket"),
            Try(
                << Race(Opened("socket"), "throw"), GetWriter("socket"), GetReader("socket"), Write("socket"),
                   Write("socket"), readHTTPResponse("socket"), FreeWriter("socket"), FreeReader("socket"),
                   CloseQuietly("socket"), MayReturn, Return >>,
                << CloseQuietly("socket"), Throw >>) >>,
         << Return >>) >>

-----------------------------------------------------------------------------
\* src/src/worker/loki.ts

handleLokiHealth ==
  << Try(
         << Await, MayReturn, checkIfCloudflare, MayReturn, Quietly(<< sendHttpGet_loki >>),
            Quietly(<< sendHttpGet_loki >>), Quietly(<< sendHttpGet_loki >>), Return >>,
         << Return >>) >>

handleLokiQuery ==
  << Try(<< Await, MayReturn, checkIfCloudflare, MayReturn, sendHttpGet_loki, Return >>, << Return >>) >>

handleLokiMetrics ==
  << Try(
         << Await, MayReturn, checkIfCloudflare, MayReturn, sendHttpGet_loki, MayReturn, Return >>,
         << Return >>) >>

handleLokiPush ==
  << Try(
         << Await, MayReturn, checkIfCloudflare, MayReturn, Try(<< Await, Await, Return >>, << Return >>) >>,
         << Return >>) >>

handleLokiRangeQuery ==
  << Try(
         << Await, MayReturn, checkIfCloudflare, MayReturn, sendHttpGet_loki, MayReturn, Return >>,
         << Return >>) >>

-----------------------------------------------------------------------------
\* src/src/worker/lsp.ts

handleLspConnect ==
  << Try(
         << Await, MayReturn, checkIfCloudflare, MayReturn, Connect("socket"),
            Race(Opened("socket"), "throw"), GetWriter("socket"), GetReader("socket"), Write("socket"),
            FreeWriter("socket"), readLspResponse("socket"), FreeReader("socket"), CloseQuietly("socket"),
            Return >>,
         << Return >>) >>

handleLSPSession ==
  << Try(
         << Await, MayReturn, checkIfCloudflare, MayReturn, Connect("socket"),
            Race(Opened("socket"), "throw"), GetWriter("socket"), GetReader("socket"),
            sendLSPMessage("socket"), Loop(<< readLSPMessage("socket"), MayThrow >>),
            sendLSPMessage("socket"), Maybe(<< sendLSPMessage("socket") >>), sendLSPMessage("socket"),
            sendLSPMessage("socket"), Loop(<< Try(<< readLSPMessage("socket") >>, << Break >>) >>),
            sendLSPMessage("socket"), Quietly(<< Loop(<< readLSPMessage("socket") >>) >>),
            sendLSPMessage("socket"), FreeWriter("socket"), FreeReader("socket"), CloseQuietly("socket"),
            Return >>,
         << Return >>) >>

-----------------------------------------------------------------------------
\* src/src/worker/meilisearch.ts

handleMeilisearchHealth ==
  << MayReturn,
     Try(
         << Await, MayReturn, checkIfCloudflare, MayReturn, sendHttpRequest_meilisearch,
            Quietly(<< sendHttpRequest_meilisearch, MayThrow >>),
            Quietly(<< sendHttpRequest_meilisearch, MayThrow >>),
            Quietly(<< sendHttpRequest_meilisearch, MayThrow >>), Return >>,
         << Return >>) >>

handleMeilisearchSearch ==
  << MayReturn,
     Try(
         << Await, MayReturn, checkIfCloudflare, MayReturn, sendHttpRequest_meilisearch_2, Return >>,
         << Return >>) >>

handleMeilisearchDocuments ==
  << MayReturn,
     Try(
         << Await, MayReturn, checkIfCloudflare, MayReturn, sendHttpRequest_meilisearch_2, Return >>,
         << Return >>) >>

handleMeilisearchDelete ==
  << MayReturn,
     Try(
         << Await, MayReturn, checkIfCloudflare, MayReturn, sendHttpRequest_meilisearch_2, Return >>,
         << Return >>) >>

-----------------------------------------------------------------------------
\* src/src/worker/nomad.ts

handleNomadHealth ==
  << MayReturn,
     Try(
         << Await, MayReturn, checkIfCloudflare, MayReturn, sendHttpGet_nomad,
            Quietly(<< sendHttpGet_nomad, MayThrow >>), Return >>,
         << Return >>) >>

handleNomadJobs ==
  << MayReturn,
     Try(<< Await, MayReturn, checkIfCloudflare, MayReturn, sendHttpGet_nomad, Return >>, << Return >>) >>

handleNomadNodes ==
  << MayReturn,
     Try(<< Await, MayReturn, checkIfCloudflare, MayReturn, sendHttpGet_nomad, Return >>, << Return >>) >>

handleNomadAllocations ==
  << MayReturn,
     Try(<< Await, MayReturn, checkIfCloudflare, MayReturn, sendHttpGet_nomad, Return >>, << Return >>) >>

handleNomadDeployments ==
  << MayReturn,
     Try(<< Await, MayReturn, checkIfCloudflare, MayReturn, sendHttpGet_nomad, Return >>, << Return >>) >>

handleNomadJobDispatch ==
  << MayReturn,
     Try(<< Await, MayReturn, checkIfCloudflare, MayReturn, sendHttpPost_nomad, Return >>, << Return >>) >>

-----------------------------------------------------------------------------
\* src/src/worker/prometheus.ts

handlePrometheusHealth ==
  << Try(
         << MayReturn, Await, MayReturn, checkIfCloudflare, MayReturn, sendHttpGet_prometheus,
            Quietly(<< sendHttpGet_prometheus, MayThrow >>), Quietly(<< sendHttpGet_prometheus >>),
            Quietly(<< sendHttpGet_prometheus, MayThrow >>), Return >>,
         << Return >>) >>

handlePrometheusQuery ==
  << Try(
         << MayReturn, Await, MayReturn, checkIfCloudflare, MayReturn, sendHttpGet_prometheus, Return >>,
         << Return >>) >>

handlePrometheusMetrics ==
  << Try(
         << MayReturn, Await, MayReturn, checkIfCloudflare, MayReturn, sendHttpGet_prometheus, Return >>,
         << Return >>) >>

handlePrometheusRangeQuery ==
  << Try(
         << MayReturn, Await, MayReturn, checkIfCloudflare, MayReturn, sendHttpGet_prometheus, MayReturn,
            Return >>,
         << Return >>) >>

-----------------------------------------------------------------------------
\* src/src/worker/soap.ts

handleSoapCall ==
  << MayReturn,
     Try(<< Await, MayReturn, checkIfCloudflare, MayReturn, sendSoapRequest, Return >>, << Return >>) >>

handleSoapWsdl ==
  << MayReturn,
     Try(<< Await, MayReturn, checkIfCloudflare, MayReturn, sendWsdlRequest, Return >>, << Return >>) >>

-----------------------------------------------------------------------------
\* src/src/worker/spdy.ts

handleSPDYConnect ==
  << Try(
         << Either(<< Await >>, << MayThrow >>), MayReturn, checkIfCloudflare, MayReturn,
            Task("connectionPromise",
                 << Connect("socket"), Opened("socket"), GetWriter("socket"), GetReader("socket"),
                    Try(
                        << Write("socket"), FreeWriter("socket"), Race(Read("socket"), "throw"),
                           FreeReader("socket"), Close("socket"), If(GotData, << MayReturn >>, << Return >>),
                           Return >>,
                        << FreeReaderQuietly("socket"), CloseQuietly("socket"), Return >>) >>),
            Try(<< Race(Join("connectionPromise"), "throw"), Return >>, << Return >>) >>,
         << Return >>) >>

handleSPDYH2Probe ==
  << Try(
         << Await, MayReturn, checkIfCloudflare, MayReturn,
            Task("probePromise",
                 << Connect("socket"), Race(Opened("socket"), "throw"), GetReader("socket"),
                    GetWriter("socket"),
                    Try(
                        << Write("socket"),
                           Loop(<< Race(Read("socket"), "end"), When(GotNothing, << Break >>),
                                   Maybe(<< Write("socket") >>), MayBreak >>),
                           FreeReader("socket"), FreeWriter("socket"), CloseQuietly("socket"), Return >>,
                        << FreeReaderQuietly("socket"), FreeWriterQuietly("socket"), CloseQuietly("socket"),
                           Throw >>) >>),
            Race(Join("probePromise"), "throw"), Return >>,
         << Return >>) >>

-----------------------------------------------------------------------------
\* src/src/worker/thrift.ts

handleThriftProbe ==
  << MayReturn,
     Try(
         << Await, MayReturn, checkIfCloudflare, MayReturn,
            Task("connectionPromise",
                 << Connect("socket"), Opened("socket"), GetReader("socket"), GetWriter("socket"),
                    Try(
                        << Write("socket"),
                           Either(<< readFramedResponse("socket") >>,
                                  << Task("readData", << Read("socket"), When(GotNothing, << Throw >>) >>),
                                     Race(Join("readData"), "throw") >>),
                           MayThrow, FreeReader("socket"), FreeWriter("socket"), Close("socket"), Return >>,
                        << FreeReader("socket"), FreeWriter("socket"), Close("socket"), Throw >>) >>),
            Try(<< Race(Join("connectionPromise"), "throw"), Return >>, << Return >>) >>,
         << Return >>) >>

handleThriftCall ==
  << MayReturn,
     Try(
         << Await, MayReturn, checkIfCloudflare, MayReturn,
            Task("connectionPromise",
                 << Connect("socket"), Opened("socket"), GetReader("socket"), GetWriter("socket"),
                    Try(
                        << MayThrow, Write("socket"),
                           Either(<< readFramedResponse("socket") >>,
                                  << Task("readData", << Read("socket"), When(GotNothing, << Throw >>) >>),
                                     Race(Join("readData"), "throw") >>),
                           MayThrow, FreeReader("socket"), FreeWriter("socket"), Close("socket"), Return >>,
                        << FreeReader("socket"), FreeWriter("socket"), Close("socket"), Throw >>) >>),
            Try(<< Race(Join("connectionPromise"), "throw"), Return >>, << Return >>) >>,
         << Return >>) >>

-----------------------------------------------------------------------------
\* src/src/worker/uwsgi.ts

handleUwsgiProbe ==
  << MayReturn,
     Try(
         << Await, MayReturn, checkIfCloudflare, MayReturn,
            Task("connectionPromise",
                 << Connect("socket"), Opened("socket"), GetReader("socket"), GetWriter("socket"),
                    Try(
                        << Write("socket"), readUwsgiResponse("socket"), FreeWriter("socket"),
                           FreeReader("socket"), Close("socket"), Return >>,
                        << FreeReader("socket"), FreeWriter("socket"), Close("socket"), Throw >>) >>),
            Try(<< Race(Join("connectionPromise"), "throw"), Return >>, << Return >>) >>,
         << Return >>) >>

handleUwsgiRequest ==
  << MayReturn,
     Try(
         << Await, MayReturn, checkIfCloudflare, MayReturn,
            Task("connectionPromise",
                 << Connect("socket"), Opened("socket"), GetReader("socket"), GetWriter("socket"),
                    Try(
                        << Write("socket"), readUwsgiResponse("socket"), FreeWriter("socket"),
                           FreeReader("socket"), Close("socket"), Return >>,
                        << FreeReader("socket"), FreeWriter("socket"), Close("socket"), Throw >>) >>),
            Try(<< Race(Join("connectionPromise"), "throw"), Return >>, << Return >>) >>,
         << Return >>) >>

-----------------------------------------------------------------------------
\* src/src/worker/varnish.ts

handleVarnishProbe ==
  << MayReturn,
     Try(
         << Await, MayReturn, checkIfCloudflare, MayReturn, Connect("socket"),
            Try(
                << Race(Opened("socket"), "throw"), GetReader("socket"), readVcliResponse("socket"),
                   FreeReader("socket"), CloseQuietly("socket"), MayReturn, Return >>,
                << CloseQuietly("socket"), Throw >>) >>,
         << Return >>) >>

handleVarnishCommand ==
  << MayReturn,
     Try(
         << Await, MayReturn, checkIfCloudflare, MayReturn, Connect("socket"),
            Try(
                << Race(Opened("socket"), "throw"), GetWriter("socket"), GetReader("socket"),
                   readVcliResponse("socket"),
                   Maybe(<< FreeWriter("socket"), FreeReader("socket"), CloseQuietly("socket"), Return >>),
                   Maybe(<< Maybe(<< FreeWriter("socket"), FreeReader("socket"), CloseQuietly("socket"),
                                     Return >>),
                            computeAuthResponse, Write("socket"), readVcliResponse("socket"),
                            Maybe(<< FreeWriter("socket"), FreeReader("socket"), CloseQuietly("socket"),
                                     Return >>) >>),
                   Write("socket"), readVcliResponse("socket"), FreeWriter("socket"), FreeReader("socket"),
                   CloseQuietly("socket"), MayReturn, Return >>,
                << CloseQuietly("socket"), Throw >>) >>,
         << Return >>) >>

handleVarnishBan ==
  << MayReturn,
     Try(<< Await, MayReturn, checkIfCloudflare, MayReturn, runVarnishWrite, Return >>, << Return >>) >>

handleVarnishParam ==
  << MayReturn,
     Try(<< Await, MayReturn, checkIfCloudflare, MayReturn, runVarnishWrite, Return >>, << Return >>) >>

-----------------------------------------------------------------------------
\* src/src/worker/vault.ts

handleVaultHealth ==
  << MayReturn,
     Try(
         << Await, MayReturn, checkIfCloudflare, MayReturn, sendHttpGet_vault,
            Quietly(<< sendHttpGet_vault, MayThrow >>), Return >>,
         << Return >>) >>

handleVaultQuery ==
  << MayReturn,
     Try(<< Await, MayReturn, checkIfCloudflare, MayReturn, sendHttpGet_vault, Return >>, << Return >>) >>

handleVaultSecretRead ==
  << MayReturn,
     Try(
         << Await, MayReturn, checkIfCloudflare, MayReturn, sendHttpGet_vault, MayReturn, Return >>,
         << Return >>) >>

handleVaultSecretWrite ==
  << MayReturn,
     Try(
         << Await, MayReturn, checkIfCloudflare, MayReturn, Connect("socket"),
            Race(Opened("socket"), "throw"), GetReader("socket"), GetWriter("socket"),
            Try(
                << Write("socket"), Write("socket"),
                   Task("rp", << Forever(<< Read("socket"), When(GotNothing, << Break >>), MayBreak >>) >>),
                   Quietly(<< Race(Join("rp"), "throw") >>), FreeWriter("socket"), FreeReader("socket"),
                   Close("socket"), Return >>,
                << FreeWriter("socket"), FreeReader("socket"), Close("socket"), Throw >>) >>,
         << Return >>) >>

-----------------------------------------------------------------------------
\* src/src/worker/websocket.ts

handleWebSocketProbe ==
  << MayReturn,
     Try(
         << Await, MayReturn, checkIfCloudflare, MayReturn, Connect("socket"),
            Race(Opened("socket"), "throw"),
            TryFinally(<< GetWriter("socket"), GetReader("socket"),
                          TryFinally(<< Write("socket"), readWithTimeout_websocket("socket"), MayReturn,
                                        MayThrow, computeAcceptKey,
                                        Maybe(<< Quietly(<< Write("socket"),
                                                            readWithTimeout_websocket("socket"), MayThrow >>) >>),
                                        Return >>,
                                     << FreeReader("socket"), FreeWriter("socket") >>) >>,
                       << CloseQuietly("socket") >>) >>,
         << Return >>) >>

-----------------------------------------------------------------------------
WebProgram ==
  [handleAJPConnect |-> handleAJPConnect,
   handleAJPRequest |-> handleAJPRequest,
   handleConsulHealth |-> handleConsulHealth,
   handleConsulServices |-> handleConsulServices,
   handleConsulKVGet |-> handleConsulKVGet,
   handleConsulKVPut |-> handleConsulKVPut,
   handleConsulKVList |-> handleConsulKVList,
   handleConsulKVDelete |-> handleConsulKVDelete,
   handleConsulServiceHealth |-> handleConsulServiceHealth,
   handleConsulSessionCreate |-> handleConsulSessionCreate,
   handleDockerHealth |-> handleDockerHealth,
   handleDockerQuery |-> handleDockerQuery,
   handleDockerTLS |-> handleDockerTLS,
   handleDockerContainerCreate |-> handleDockerContainerCreate,
   handleDockerContainerStart |-> handleDockerContainerStart,
   handleDockerContainerLogs |-> handleDockerContainerLogs,
   handleDockerExec |-> handleDockerExec,
   handleFastCGIProbe |-> handleFastCGIProbe,
   handleFastCGIRequest |-> handleFastCGIRequest,
   handleGrafanaHealth |-> handleGrafanaHealth,
   handleGrafanaDatasources |-> handleGrafanaDatasources,
   handleGrafanaDashboards |-> handleGrafanaDashboards,
   handleGrafanaFolders |-> handleGrafanaFolders,
   handleGrafanaAlertRules |-> handleGrafanaAlertRules,
   handleGrafanaOrg |-> handleGrafanaOrg,
   handleGrafanaDashboard |-> handleGrafanaDashboard,
   handleGrafanaDashboardCreate |-> handleGrafanaDashboardCreate,
   handleGrafanaAnnotationCreate |-> handleGrafanaAnnotationCreate,
   handleHAProxyInfo |-> handleHAProxyInfo,
   handleHAProxyStat |-> handleHAProxyStat,
   handleHAProxyCommand |-> handleHAProxyCommand,
   handleHAProxySetWeight |-> handleHAProxySetWeight,
   handleHAProxySetState |-> handleHAProxySetState,
   handleHAProxySetAddr |-> handleHAProxySetAddr,
   handleHAProxyDisableServer |-> handleHAProxyDisableServer,
   handleHAProxyEnableServer |-> handleHAProxyEnableServer,
   handleHTTPRequest |-> handleHTTPRequest,
   handleHTTPHead |-> handleHTTPHead,
   handleHTTPOptions |-> handleHTTPOptions,
   handleJsonRpcCall |-> handleJsonRpcCall,
   handleJsonRpcBatch |-> handleJsonRpcBatch,
   handleJsonRpcWs |-> handleJsonRpcWs,
   handleJupyterHealth |-> handleJupyterHealth,
   handleJupyterQuery |-> handleJupyterQuery,
   handleJupyterKernelCreate |-> handleJupyterKernelCreate,
   handleJupyterKernelList |-> handleJupyterKernelList,
   handleJupyterKernelDelete |-> handleJupyterKernelDelete,
   handleJupyterNotebooks |-> handleJupyterNotebooks,
   handleJupyterNotebookGet |-> handleJupyterNotebookGet,
   handleKibanaStatus |-> handleKibanaStatus,
   handleKibanaSavedObjects |-> handleKibanaSavedObjects,
   handleKibanaIndexPatterns |-> handleKibanaIndexPatterns,
   handleKibanaAlerts |-> handleKibanaAlerts,
   handleKibanaQuery |-> handleKibanaQuery,
   handleKubernetesProbe |-> handleKubernetesProbe,
   handleKubernetesQuery |-> handleKubernetesQuery,
   handleKubernetesLogs |-> handleKubernetesLogs,
   handleKubernetesPodList |-> handleKubernetesPodList,
   handleKubernetesApply |-> handleKubernetesApply,
   handleLokiHealth |-> handleLokiHealth,
   handleLokiQuery |-> handleLokiQuery,
   handleLokiMetrics |-> handleLokiMetrics,
   handleLokiPush |-> handleLokiPush,
   handleLokiRangeQuery |-> handleLokiRangeQuery,
   handleLspConnect |-> handleLspConnect,
   handleLSPSession |-> handleLSPSession,
   handleMeilisearchHealth |-> handleMeilisearchHealth,
   handleMeilisearchSearch |-> handleMeilisearchSearch,
   handleMeilisearchDocuments |-> handleMeilisearchDocuments,
   handleMeilisearchDelete |-> handleMeilisearchDelete,
   handleNomadHealth |-> handleNomadHealth,
   handleNomadJobs |-> handleNomadJobs,
   handleNomadNodes |-> handleNomadNodes,
   handleNomadAllocations |-> handleNomadAllocations,
   handleNomadDeployments |-> handleNomadDeployments,
   handleNomadJobDispatch |-> handleNomadJobDispatch,
   handlePrometheusHealth |-> handlePrometheusHealth,
   handlePrometheusQuery |-> handlePrometheusQuery,
   handlePrometheusMetrics |-> handlePrometheusMetrics,
   handlePrometheusRangeQuery |-> handlePrometheusRangeQuery,
   handleSoapCall |-> handleSoapCall,
   handleSoapWsdl |-> handleSoapWsdl,
   handleSPDYConnect |-> handleSPDYConnect,
   handleSPDYH2Probe |-> handleSPDYH2Probe,
   handleThriftProbe |-> handleThriftProbe,
   handleThriftCall |-> handleThriftCall,
   handleUwsgiProbe |-> handleUwsgiProbe,
   handleUwsgiRequest |-> handleUwsgiRequest,
   handleVarnishProbe |-> handleVarnishProbe,
   handleVarnishCommand |-> handleVarnishCommand,
   handleVarnishBan |-> handleVarnishBan,
   handleVarnishParam |-> handleVarnishParam,
   handleVaultHealth |-> handleVaultHealth,
   handleVaultQuery |-> handleVaultQuery,
   handleVaultSecretRead |-> handleVaultSecretRead,
   handleVaultSecretWrite |-> handleVaultSecretWrite,
   handleWebSocketProbe |-> handleWebSocketProbe]

=============================================================================
