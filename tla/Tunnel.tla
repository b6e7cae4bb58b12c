------------------------------- MODULE Tunnel -------------------------------
(***************************************************************************)
(* The WebSocket-to-TCP tunnel of src/worker/websocket-pipe.ts: the        *)
(* handshake of handleSocketConnection, the browser-to-backend pipe        *)
(* (pipeWebSocketToSocket, event listeners and a promise chain) and the    *)
(* backend-to-browser pipe (pipeSocketToWebSocket, a reader loop).         *)
(*                                                                         *)
(* JavaScript runs to completion: the code between two awaits is one       *)
(* action, and everything that can happen while it awaits is another       *)
(* action.  The browser, the backend, the WebSocket and the socket are the *)
(* Workers runtime; they are modelled from what the code asks of them.     *)
(* Data is a pair of byte streams, and a WebSocket message, a TCP write or *)
(* a frame is a Span of one of them.                                       *)
(***************************************************************************)
EXTENDS Integers, Sequences

CONSTANTS
  MsgSizes,    \* sizes of the messages a browser may send
  MaxMsgs,     \* bound: messages the browser sends in one behaviour
  MaxProduced, \* bound: bytes the backend sends in one behaviour
  InHWM,       \* INBOUND_HIGH_WATER_MARK
  OutHWM,      \* HIGH_WATER_MARK of the reader loop
  WsMax,       \* WS_MAX_MESSAGE
  ReadMax      \* the most bytes one reader.read() returns

ASSUME SizesAssumption == MsgSizes \subseteq Nat
ASSUME BoundsAssumption == MaxMsgs \in Nat /\ MaxProduced \in Nat
ASSUME LimitsAssumption ==
  /\ InHWM \in Nat
  /\ OutHWM \in Nat
  /\ WsMax \in Nat \ {0}
  /\ ReadMax \in Nat \ {0}

VARIABLES
  status,    \* how far handleSocketConnection has got with the request
  ws,        \* readyState of the worker's end of the WebSocket
  client,    \* the browser: "open", "left" (it sent Close), "closed" (it answered one)
  sock,      \* the TCP socket
  eof,       \* the backend has finished sending
  cutBy,     \* history: who took the socket out of "open"
  sent,      \* bytes the browser has sent
  msgs,      \* messages the browser has sent (bounded by MaxMsgs)
  inbox,     \* messages on their way to the message listener
  chain,     \* writeChain: the messages whose write is not settled
  head,      \* the closure at the head of writeChain
  queued,    \* queuedBytes
  cleanup,   \* the close listener's cleanup, behind everything in writeChain
  writer,    \* the lock on socket.writable
  wire,      \* history: what the backend has been given
  produced,  \* bytes the backend has sent
  consumed,  \* bytes reader.read() has returned
  reader,    \* where the reader loop is
  wsOut,     \* frames in the WebSocket's send buffer
  received   \* history: frames the browser has been given

browserVars == <<client, sent, msgs, inbox>>
writeVars == <<chain, head, queued, cleanup, writer, wire>>
readVars == <<produced, consumed, reader, wsOut, received>>
sockVars == <<sock, eof, cutBy>>
vars == <<status, ws, browserVars, sockVars, writeVars, readVars>>

(* The two streams a tunnel promises, seen at its ends. *)
Upstream == INSTANCE ByteStream
              WITH sent <- sent, delivered <- wire, up <- sock # "closed"
Downstream == INSTANCE ByteStream
              WITH sent <- produced, delivered <- received, up <- client = "open"

Span == Upstream!Span
Size(s) == Upstream!Size(s)
End(pieces) == Upstream!End(pieces)

(* Bytes from the first to the last of a list of pieces. *)
Extent(pieces) == IF pieces = <<>> THEN 0 ELSE End(pieces) - pieces[1].lo

-----------------------------------------------------------------------------
(* The calls the listeners and the loop share.  Each of them is a no-op on *)
(* an object that is already closing: the code ignores what they throw.    *)

CloseWs == ws' = IF ws = "open" THEN "closing" ELSE ws

CloseSocket(by) ==
  /\ sock' = IF sock = "open" THEN "closing" ELSE sock
  /\ cutBy' = IF sock = "open" THEN by ELSE cutBy

CloseWriter == writer' = IF writer = "held" THEN "closing" ELSE writer

(* The finally block of the reader loop, up to `await socket.close()'. *)
ReaderExit ==
  /\ reader' = "closing"
  /\ CloseWs
  /\ CloseSocket("reader")

(* Bug: a full send buffer does not hold the loop back. *)
SendBufferFull_Never(out) == FALSE

SendBufferFull(out) == Extent(out) > OutHWM

(* Bug: the backpressure test leaves the outer loop. *)
LeavesLoop_WhenFull(out) == ws # "open" \/ SendBufferFull(out)

LeavesLoop(out) == ws # "open"

(* From the top of the reader loop to its next await, with `out' in the    *)
(* send buffer: leave, sleep, or read.                                     *)
LoopTop(out) ==
  IF LeavesLoop(out)
  THEN ReaderExit
  ELSE /\ reader' = IF SendBufferFull(out) THEN "sleeping" ELSE "reading"
       /\ UNCHANGED <<ws, sock, cutBy>>

(* Bug: a slice ends one byte late, and the byte is sent twice. *)
Slices_Overlap(lo, hi) ==
  [i \in 1 .. (hi - lo + WsMax - 1) \div WsMax |->
     [lo |-> lo + (i - 1) * WsMax,
      hi |-> IF lo + i * WsMax < hi THEN lo + i * WsMax + 1 ELSE hi]]

(* The ws.send calls for one value of reader.read(): slices of at most     *)
(* WsMax bytes.                                                            *)
Slices(lo, hi) ==
  [i \in 1 .. (hi - lo + WsMax - 1) \div WsMax |->
     [lo |-> lo + (i - 1) * WsMax,
      hi |-> IF lo + i * WsMax < hi THEN lo + i * WsMax ELSE hi]]

-----------------------------------------------------------------------------
Init ==
  /\ status = "new" /\ ws = "none" /\ client = "open"
  /\ sock = "none" /\ eof = FALSE /\ cutBy = "none"
  /\ sent = 0 /\ msgs = 0 /\ inbox = <<>>
  /\ chain = <<>> /\ head = "idle" /\ queued = 0
  /\ cleanup = "none" /\ writer = "none" /\ wire = <<>>
  /\ produced = 0 /\ consumed = 0 /\ reader = "none"
  /\ wsOut = <<>> /\ received = <<>>

(***************************************************************************)
(* handleSocketConnection                                                  *)
(***************************************************************************)

(* A request without an Upgrade header (426), or with a bad host or port   *)
(* (400): nothing has been created yet.                                    *)
Refuse ==
  /\ status = "new"
  /\ status' \in {"426", "400"}
  /\ UNCHANGED <<ws, browserVars, sockVars, writeVars, readVars>>

(* Accept the server end of the pair, then call connect(), which may throw. *)
Accept ==
  /\ status = "new"
  /\ ws' = "open"
  /\ \/ status' = "opening" /\ sock' = "connecting"
     \/ status' = "500" /\ UNCHANGED sock
  /\ UNCHANGED <<browserVars, eof, cutBy, writeVars, readVars>>

(* socket.opened wins the race: both pipes start and the response is 101.  *)
(* Afterwards the socket may still open, with nobody waiting for it.       *)
SocketOpened ==
  /\ sock = "connecting"
  /\ sock' = "open"
  /\ \/ /\ status = "opening"
        /\ status' = "101"
        /\ writer' = "held"
        /\ reader' = "reading"
     \/ /\ status # "opening"
        /\ UNCHANGED <<status, writer, reader>>
  /\ UNCHANGED <<ws, browserVars, eof, cutBy, chain, head, queued, cleanup,
                 wire, produced, consumed, wsOut, received>>

(* socket.opened rejects. *)
ConnectFailed ==
  /\ sock = "connecting"
  /\ sock' = "closed"
  /\ status' = IF status = "opening" THEN "500" ELSE status
  /\ UNCHANGED <<ws, browserVars, eof, cutBy, writeVars, readVars>>

(* The 10 s timer wins the race: 500, and the attempt is left as it is. *)
OpenTimeout ==
  /\ status = "opening"
  /\ status' = "500"
  /\ UNCHANGED <<ws, browserVars, sockVars, writeVars, readVars>>

-----------------------------------------------------------------------------
(***************************************************************************)
(* The browser and the WebSocket                                           *)
(***************************************************************************)

BrowserSend ==
  /\ status = "101" /\ client = "open"
  /\ msgs < MaxMsgs
  /\ msgs' = msgs + 1
  /\ \E n \in MsgSizes :
       /\ sent' = sent + n
       /\ inbox' = Append(inbox, [lo |-> sent, hi |-> sent + n])
  /\ UNCHANGED <<status, ws, client, sockVars, writeVars, readVars>>

(* The browser sends a Close frame, behind the messages it has sent. *)
BrowserClose ==
  /\ status = "101" /\ client = "open"
  /\ client' = "left"
  /\ UNCHANGED <<status, ws, sent, msgs, inbox, sockVars, writeVars, readVars>>

(* The network takes the next frame of the send buffer to the browser. *)
WsFlush ==
  /\ ws \in {"open", "closing"} /\ client = "open"
  /\ wsOut # <<>>
  /\ received' = Append(received, Head(wsOut))
  /\ wsOut' = Tail(wsOut)
  /\ UNCHANGED <<status, ws, browserVars, sockVars, writeVars,
                 produced, consumed, reader>>

(***************************************************************************)
(* pipeWebSocketToSocket: the listeners                                    *)
(***************************************************************************)

(* Bug: the message is dropped and the connection goes on. *)
Overflow_DropsMessage == UNCHANGED <<ws, writer, sock, cutBy, chain>>

(* The message listener gives up: 1013, and both ends of the socket. *)
Overflow ==
  /\ CloseWs
  /\ CloseWriter
  /\ CloseSocket("overflow")
  /\ UNCHANGED chain

Enqueue(m) ==
  /\ chain' = Append(chain, m)
  /\ UNCHANGED <<ws, writer, sock, cutBy>>

(* Bug: the limit is tested before the message is counted. *)
OverLimit_BeforeCounting(m) == queued > InHWM

OverLimit(m) == queued + Size(m) > InHWM

(* 'message': account for the bytes first, then queue them or give up. *)
MessageEvent ==
  /\ ws \in {"open", "closing"}
  /\ inbox # <<>>
  /\ inbox' = Tail(inbox)
  /\ queued' = queued + Size(Head(inbox))
  /\ IF OverLimit(Head(inbox)) THEN Overflow ELSE Enqueue(Head(inbox))
  /\ UNCHANGED <<status, client, sent, msgs, eof, head, cleanup, wire, readVars>>

(* Bug: no cleanup is chained. *)
ChainCleanup_Never == UNCHANGED cleanup

ChainCleanup == cleanup' = "pending"

(* 'close': the browser's Close frame has come (behind all its messages),  *)
(* or its answer to ours (behind all our frames).  The cleanup is chained  *)
(* behind the writes that are queued.                                      *)
CloseEvent ==
  /\ \/ ws = "open" /\ client = "left" /\ inbox = <<>>
     \/ ws = "closing" /\ (client = "left" \/ wsOut = <<>>)
  /\ ws' = "closed"
  /\ client' = IF client = "open" THEN "closed" ELSE client
  /\ ChainCleanup
  /\ UNCHANGED <<status, sent, msgs, inbox, sockVars, chain, head, queued,
                 writer, wire, readVars>>

(* 'error': immediate teardown.  A 'close' event may follow it. *)
ErrorEvent ==
  /\ status = "101" /\ ws \in {"open", "closing"}
  /\ ws' = "closed"
  /\ client' = IF client = "open" THEN "closed" ELSE client
  /\ CloseWriter
  /\ CloseSocket("error")
  /\ cleanup' \in {"none", "pending"}
  /\ UNCHANGED <<status, sent, msgs, inbox, eof, chain, head, queued, wire,
                 readVars>>

(***************************************************************************)
(* pipeWebSocketToSocket: writeChain                                       *)
(***************************************************************************)

(* The catch block of a write: release the lock, wait for the socket.  The *)
(* bytes of the failed write stay in queuedBytes.                          *)
WriteFailure ==
  /\ head' = "failing"
  /\ writer' = "released"
  /\ CloseSocket("write")

(* The closure at the head of the chain calls writer.write. *)
WriteStart ==
  /\ head = "idle" /\ chain # <<>>
  /\ \/ /\ writer = "held" /\ sock = "open"
        /\ head' = "writing"
        /\ UNCHANGED <<writer, sock, cutBy>>
     \/ /\ writer # "held" \/ sock # "open"
        /\ WriteFailure
  /\ UNCHANGED <<status, ws, browserVars, eof, chain, queued, cleanup, wire,
                 readVars>>

(* Bug: the bytes stay counted after the write. *)
Uncount_Never(m) == UNCHANGED queued

Uncount(m) == queued' = queued - Size(m)

WriteDone ==
  /\ head = "writing" /\ sock \in {"open", "closing"}
  /\ head' = "idle"
  /\ wire' = Append(wire, Head(chain))
  /\ Uncount(Head(chain))
  /\ chain' = Tail(chain)
  /\ UNCHANGED <<status, ws, browserVars, sockVars, cleanup, writer, readVars>>

WriteError ==
  /\ head = "writing" /\ sock \in {"closing", "closed"}
  /\ WriteFailure
  /\ UNCHANGED <<status, ws, browserVars, eof, chain, queued, cleanup, wire,
                 readVars>>

(* `await socket.close()' of the catch block returns. *)
FailureSettled ==
  /\ head = "failing" /\ sock = "closed"
  /\ head' = "idle"
  /\ chain' = Tail(chain)
  /\ CloseWs
  /\ UNCHANGED <<status, browserVars, sockVars, queued, cleanup, writer, wire,
                 readVars>>

(* Bug: the cleanup does not wait for the chain. *)
ChainSettled_Ignored == TRUE

ChainSettled == chain = <<>>

(* The cleanup runs when every closure before it has settled. *)
Cleanup ==
  /\ cleanup = "pending" /\ ChainSettled
  /\ cleanup' = "done"
  /\ CloseWriter
  /\ CloseSocket("cleanup")
  /\ UNCHANGED <<status, ws, browserVars, eof, chain, head, queued, wire,
                 readVars>>

(* writer.close() settles, and its finally releases the lock. *)
WriterClosed ==
  /\ writer = "closing"
  /\ writer' = "released"
  /\ UNCHANGED <<status, ws, browserVars, sockVars, chain, head, queued,
                 cleanup, wire, readVars>>

(***************************************************************************)
(* pipeSocketToWebSocket                                                   *)
(***************************************************************************)

(* The DRAIN_INTERVAL_MS timer fires: look at the send buffer again. *)
DrainTick ==
  /\ reader = "sleeping"
  /\ LoopTop(wsOut)
  /\ UNCHANGED <<status, browserVars, eof, writeVars, produced, consumed,
                 wsOut, received>>

(* reader.read() returns bytes; they go to ws.send, which loses them when  *)
(* the WebSocket is no longer open, and the loop starts again.             *)
ReadData ==
  /\ reader = "reading" /\ sock = "open"
  /\ \E n \in 1 .. ReadMax :
       /\ consumed + n <= produced
       /\ consumed' = consumed + n
       /\ wsOut' = IF ws = "open"
                   THEN wsOut \o Slices(consumed, consumed + n)
                   ELSE wsOut
  /\ LoopTop(wsOut')
  /\ UNCHANGED <<status, browserVars, eof, writeVars, produced, received>>

(* reader.read() reports the end of the stream, or throws. *)
ReadEnd ==
  /\ reader = "reading"
  /\ \/ sock = "open" /\ eof /\ consumed = produced
     \/ sock \in {"closing", "closed"}
  /\ ReaderExit
  /\ UNCHANGED <<status, browserVars, eof, writeVars, produced, consumed,
                 wsOut, received>>

(* `await socket.close()' of the finally block returns. *)
ReaderDone ==
  /\ reader = "closing" /\ sock = "closed"
  /\ reader' = "done"
  /\ UNCHANGED <<status, ws, browserVars, sockVars, writeVars, produced,
                 consumed, wsOut, received>>

(***************************************************************************)
(* The backend and the socket                                              *)
(***************************************************************************)

BackendSend ==
  /\ sock = "open" /\ ~eof
  /\ produced < MaxProduced
  /\ produced' \in produced + 1 .. MaxProduced
  /\ UNCHANGED <<status, ws, browserVars, sockVars, writeVars, consumed,
                 reader, wsOut, received>>

BackendEof ==
  /\ sock = "open" /\ ~eof
  /\ eof' = TRUE
  /\ UNCHANGED <<status, ws, browserVars, sock, cutBy, writeVars, readVars>>

BackendReset ==
  /\ sock = "open"
  /\ sock' = "closed"
  /\ cutBy' = "reset"
  /\ UNCHANGED <<status, ws, browserVars, eof, writeVars, readVars>>

(* socket.close() has flushed what it could and dropped the connection. *)
SocketClosed ==
  /\ sock = "closing"
  /\ sock' = "closed"
  /\ UNCHANGED <<status, ws, browserVars, eof, cutBy, writeVars, readVars>>

-----------------------------------------------------------------------------
Handshake == Refuse \/ Accept \/ SocketOpened \/ ConnectFailed \/ OpenTimeout

Browser == BrowserSend \/ BrowserClose \/ WsFlush

Listeners == MessageEvent \/ CloseEvent \/ ErrorEvent

WriteChain ==
  \/ WriteStart \/ WriteDone \/ WriteError \/ FailureSettled
  \/ Cleanup \/ WriterClosed

ReaderLoop == DrainTick \/ ReadData \/ ReadEnd \/ ReaderDone

Backend == BackendSend \/ BackendEof \/ BackendReset \/ SocketClosed

Next ==
  Handshake \/ Browser \/ Listeners \/ WriteChain \/ ReaderLoop \/ Backend

Spec == Init /\ [][Next]_vars

(***************************************************************************)
(* The event loop runs what is ready, timers fire, a socket that is being  *)
(* closed closes, and the two ends read what they are sent and answer a    *)
(* Close frame.  Nothing makes either end send, leave or fail.             *)
(***************************************************************************)
Fairness ==
  /\ WF_vars(SocketOpened \/ ConnectFailed)
  /\ WF_vars(OpenTimeout)
  /\ WF_vars(WsFlush)
  /\ WF_vars(MessageEvent)
  /\ WF_vars(CloseEvent)
  /\ WF_vars(WriteStart \/ WriteDone \/ WriteError \/ FailureSettled)
  /\ WF_vars(Cleanup)
  /\ WF_vars(WriterClosed)
  /\ WF_vars(ReaderLoop)
  /\ WF_vars(SocketClosed)

FairSpec == Spec /\ Fairness

-----------------------------------------------------------------------------
(***************************************************************************)
(* Properties                                                              *)
(***************************************************************************)

(* Type invariant of the tunnel's state. *)
TypeOK ==
  /\ status \in {"new", "426", "400", "opening", "101", "500"}
  /\ ws \in {"none", "open", "closing", "closed"}
  /\ client \in {"open", "left", "closed"}
  /\ sock \in {"none", "connecting", "open", "closing", "closed"}
  /\ eof \in BOOLEAN
  /\ cutBy \in {"none", "reader", "cleanup", "overflow", "error", "write", "reset"}
  /\ sent \in Nat /\ msgs \in Nat
  /\ inbox \in Seq(Span) /\ chain \in Seq(Span) /\ wire \in Seq(Span)
  /\ head \in {"idle", "writing", "failing"}
  /\ queued \in Nat
  /\ cleanup \in {"none", "pending", "done"}
  /\ writer \in {"none", "held", "closing", "released"}
  /\ produced \in Nat /\ consumed \in Nat
  /\ reader \in {"none", "sleeping", "reading", "closing", "done"}
  /\ wsOut \in Seq(Span) /\ received \in Seq(Span)

(* Where the message listener has got to in the browser's stream. *)
Heard == IF inbox = <<>> THEN sent ELSE inbox[1].lo

(* The writes that wait in writeChain never hold more than the inbound     *)
(* high-water mark, not even when messages keep arriving after the         *)
(* listener has given up.                                                  *)
InboundBounded == Extent(chain) <= InHWM

(* queuedBytes is exactly what the listener has been handed and the        *)
(* backend has not been given, through overflow, failed writes and the     *)
(* drain: it neither trips the limit early nor lets it slip.               *)
QueueAccounting == queued = Heard - End(wire)

(* The send buffer is checked before the read is awaited and filled after  *)
(* it: it still never holds more than the high-water mark and one read.    *)
OutboundBounded == Extent(wsOut) <= OutHWM + ReadMax

(* No frame of the send buffer exceeds what ws.send accepts. *)
FrameLimit == \A i \in DOMAIN wsOut : Size(wsOut[i]) <= WsMax

(* When the close listener's cleanup is what closes the socket, the        *)
(* backend has been given every byte the browser sent before it left.      *)
CleanupDrains == cutBy = "cleanup" => inbox = <<>> /\ End(wire) = sent

(* Both directions are byte streams: pieces are delivered in order, none   *)
(* skipped, repeated or invented, and nothing once the stream is cut.      *)
UpstreamIsStream == Upstream!Spec
DownstreamIsStream == Downstream!Spec

(* When the backend finishes, the browser is given all it sent, through    *)
(* the backpressure sleeps, unless the browser leaves, the WebSocket fails *)
(* with frames in its buffer, or something else than the reader loop       *)
(* closes the socket first.                                                *)
DownstreamComplete ==
  status = "101" /\ eof
    ~> \/ End(received) = produced
       \/ client = "left"
       \/ ws = "closed" /\ wsOut # <<>>
       \/ cutBy \in {"overflow", "error", "reset"}

(* Once either end of a running tunnel is gone, however that came about,   *)
(* the other end is closed, both locks are released and both pipes stop.   *)
TornDown ==
  status = "101" /\ (ws # "open" \/ sock # "open")
    ~> ws = "closed" /\ sock = "closed" /\ writer = "released" /\ reader = "done"

(* docs/ARCHITECTURE.md of the close handler: "ensuring all queued writes  *)
(* flush to TCP before the writer is closed".  The browser left, nothing   *)
(* failed and the backend is still there.                                  *)
DrainBeforeClose ==
  /\ cleanup = "done" /\ client = "left" /\ ~eof
  /\ cutBy \in {"cleanup", "reader"}
  => End(wire) = sent
=============================================================================
