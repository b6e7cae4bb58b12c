----------------------------- MODULE SshTerminal -----------------------------
(***************************************************************************)
(* The SSH terminal of src/worker/ssh2-impl.ts: handleSSHTerminal (the     *)
(* first WebSocket message carries the credentials, a timer watches for    *)
(* it) and runSSHSession (login, one channel, then a listener, a drain     *)
(* loop and a read loop that share the channel's windows).                 *)
(*                                                                         *)
(* The packets handed to sendPayload wait in `chain' and reach the server  *)
(* in that order, which is what SshSender shows of the promise chain.      *)
(* Typed input is numbered byte by byte as the listener accepts it; a      *)
(* queue entry or a data packet is a Span of it.                           *)
(***************************************************************************)
EXTENDS Integers, Sequences

CONSTANTS
  MsgSizes,     \* sizes of the messages a user may type
  MaxTyped,     \* bound: bytes typed that the listener takes
  QueueMax,     \* INPUT_QUEUE_MAX
  Grants,       \* window sizes and adjustments the server may grant
  MaxGranted,   \* bound: bytes of window granted in all
  MaxPkt,       \* remoteMaxPktSize
  LocalWindow,  \* localWindowSize
  LowWater,     \* the local window is refilled below this
  Refill,       \* by this much
  DataSizes,    \* sizes of the server's data packets
  MaxData,      \* bound: bytes the server sends
  MaxTransit,   \* bound: server packets not yet read
  MaxResizes    \* bound: resize messages

ASSUME InputAssumption ==
  /\ MsgSizes \subseteq Nat \ {0} /\ MaxTyped \in Nat
  /\ QueueMax \in Nat /\ MaxPkt \in Nat \ {0} /\ MaxResizes \in Nat
ASSUME WindowAssumption ==
  /\ Grants \subseteq Nat /\ MaxGranted \in Nat
  /\ DataSizes \subseteq Nat /\ MaxData \in Nat /\ MaxTransit \in Nat
  /\ LocalWindow \in Nat /\ LowWater \in Nat /\ Refill \in Nat
  /\ LowWater <= LocalWindow /\ LowWater <= Refill
  /\ \A n \in DataSizes : n <= LowWater

VARIABLES
  timer,        \* the 30 s credentials timer: "armed", "cleared", "fired"
  ws,           \* the worker's end of the WebSocket: "open", "closed"
  tcp,          \* the socket: "none", "opening", "open", "lost"
  session,      \* where handleSSHTerminal and the read loop are
  step,         \* during the setup, the answer the session waits for
  channelOpen,
  accepted,     \* bytes of input the listener has taken
  inputQueue,
  inputQueueBytes,
  remoteWindow,
  granted,      \* history: window the server has granted in all
  drain,        \* the drain loop: "none", "parked", "sending", "done"
  offset,       \* bytes of inputQueue[1] the drain loop has sent
  chain,        \* packets handed to sendPayload whose write is not settled
  wire,         \* history: input that reached the server
  closedAt,     \* history: Len(wire) when our CHANNEL_CLOSE was written
  resizes,      \* resize messages sent (bounded by MaxResizes)
  toWorker,     \* the server's packets on their way
  server,       \* the server's channel: "open", "closing"
  credit,       \* the window the server may still use towards us
  produced,     \* bytes the server has sent (bounded by MaxData)
  localWindowRemaining

inputVars == <<accepted, inputQueue, inputQueueBytes, resizes>>
drainVars == <<drain, offset, chain>>
windowVars == <<remoteWindow, granted>>
wireVars == <<wire, closedAt>>
serverVars == <<toWorker, server, credit, produced>>
vars == <<timer, ws, tcp, session, step, channelOpen, inputVars, drainVars,
          windowVars, wireVars, serverVars, localWindowRemaining>>

Input == INSTANCE ByteStream
           WITH sent <- accepted, delivered <- wire, up <- tcp # "lost"

Span == Input!Span
Size(s) == Input!Size(s)
End(pieces) == Input!End(pieces)

None == -1

(* What runSSHSession waits for, in order, before the channel runs.        *)
Steps == <<"version", "kexinit", "kexreply", "newkeys", "service", "auth",
           "open", "pty", "shell">>

Packet(kind, lo, hi) == [kind |-> kind, lo |-> lo, hi |-> hi]

Send(kind) == chain' = Append(chain, Packet(kind, 0, 0))

Over == session \in {"finished", "threw"}

-----------------------------------------------------------------------------
Init ==
  /\ timer = "armed" /\ ws = "open" /\ tcp = "none"
  /\ session = "credentials" /\ step = 1
  /\ channelOpen = FALSE
  /\ accepted = 0 /\ inputQueue = <<>> /\ inputQueueBytes = 0 /\ resizes = 0
  /\ remoteWindow = 0 /\ granted = 0
  /\ drain = "none" /\ offset = 0 /\ chain = <<>>
  /\ wire = <<>> /\ closedAt = None
  /\ toWorker = <<>> /\ server = "open" /\ credit = LocalWindow
  /\ produced = 0 /\ localWindowRemaining = LocalWindow

channelVars == <<channelOpen, inputVars, drainVars, windowVars, wireVars,
                 serverVars, localWindowRemaining>>

(* The catch and finally blocks of the credentials handler.                *)
Throws ==
  /\ session' = "threw"
  /\ ws' = "closed"

CredentialsTimeout ==
  /\ timer = "armed"
  /\ timer' = "fired"
  /\ ws' = "closed"
  /\ UNCHANGED <<tcp, session, step, channelVars>>

(* server.send throws once server.close has been called.                   *)
CanSend == ws = "open"

(* The first message, which may come after the timer has fired.  It is     *)
(* valid or not; "Connecting to ..." is sent before connect().             *)
Credentials(valid) ==
  /\ session = "credentials"
  /\ timer' = IF timer = "armed" THEN "cleared" ELSE timer
  /\ IF valid /\ CanSend
     THEN /\ session' = "connecting"
          /\ tcp' = "opening"
          /\ UNCHANGED ws
     ELSE /\ Throws
          /\ UNCHANGED tcp
  /\ UNCHANGED <<step, channelVars>>

(* socket.opened wins the race.                                            *)
Connected ==
  /\ session = "connecting" /\ tcp = "opening"
  /\ tcp' = "open"
  /\ session' = "setup"
  /\ UNCHANGED <<timer, ws, step, channelVars>>

(* The 30 s timer wins it, or the connection is refused.                   *)
ConnectFails(refused) ==
  /\ session = "connecting"
  /\ tcp' = IF refused THEN "lost" ELSE tcp
  /\ Throws
  /\ UNCHANGED <<timer, step, channelVars>>

(* The socket opens although nobody waits for it any more.                 *)
OpensLate ==
  /\ Over /\ tcp = "opening"
  /\ tcp' = "open"
  /\ UNCHANGED <<timer, ws, session, step, channelVars>>

(***************************************************************************)
(* runSSHSession: the setup, one packet out and one answer in at a time    *)
(***************************************************************************)

(* The answer awaited at this step.  CHANNEL_OPEN_CONFIRMATION brings the  *)
(* first window w; the answer to "shell" starts the forwarding: listener,  *)
(* drain loop (which parks, nothing being queued) and read loop.           *)
SetupAnswer(w) ==
  /\ session = "setup" /\ tcp = "open"
  /\ IF Steps[step] = "open"
     THEN remoteWindow' = w /\ granted' = w
     ELSE UNCHANGED windowVars
  /\ IF Steps[step] = "shell"
     THEN /\ session' = "reading"
          /\ channelOpen' = TRUE
          /\ drain' = "parked"
          /\ UNCHANGED step
     ELSE /\ step' = step + 1
          /\ UNCHANGED <<session, channelOpen, drain>>
  /\ UNCHANGED <<timer, ws, tcp, inputVars, offset, chain, wireVars,
                 serverVars, localWindowRemaining>>

(* Bug: an adjustment during the setup is skipped like the other packets.  *)
Credited_Skipped(w, n) == w

Credited(w, n) == w + n

(* CHANNEL_WINDOW_ADJUST while "pty-req" or "shell" is being answered.     *)
SetupAdjust(n) ==
  /\ session = "setup" /\ tcp = "open"
  /\ Steps[step] \in {"pty", "shell"}
  /\ granted + n <= MaxGranted
  /\ granted' = granted + n
  /\ remoteWindow' = Credited(remoteWindow, n)
  /\ UNCHANGED <<timer, ws, tcp, session, step, channelOpen, inputVars,
                 drainVars, wireVars, serverVars, localWindowRemaining>>

(* A refusal, an unexpected packet, or the end of the connection.          *)
SetupThrows ==
  /\ session = "setup"
  /\ Throws
  /\ UNCHANGED <<timer, tcp, step, channelVars>>

(***************************************************************************)
(* The drain loop                                                          *)
(***************************************************************************)

(* Bug: a chunk is limited by the packet size only.                        *)
ChunkSize_NoWindow(rest, w) == IF rest <= MaxPkt THEN rest ELSE MaxPkt

ChunkSize(rest, w) ==
  CHOOSE n \in {rest, w, MaxPkt} : \A m \in {rest, w, MaxPkt} : n <= m

(* The next chunk of the queue's first entry, `off' bytes of it being sent. *)
Chunk(q, off, w) ==
  LET lo == q[1].lo + off
  IN  Packet("data", lo, lo + ChunkSize(q[1].hi - lo, w))

(* From the top of the loop to its next await: leave, park, or send.       *)
DrainTop(q, w, packets) ==
  IF q = <<>> \/ w = 0
  THEN drain' = "parked" /\ offset' = 0 /\ chain' = packets
  ELSE drain' = "sending" /\ offset' = 0 /\ chain' = Append(packets, Chunk(q, 0, w))

(* signalDrain: the loop, if it is parked, goes round.                     *)
SignalDrain(q, w) ==
  IF drain = "parked"
  THEN DrainTop(q, w, chain)
  ELSE UNCHANGED drainVars

(* The same when channelOpen has just become FALSE: the loop is left.      *)
DrainWhenClosed ==
  /\ channelOpen' = FALSE
  /\ drain' = IF drain = "parked" THEN "done" ELSE drain
  /\ UNCHANGED offset

(* Bug: the listener does not wake the loop.                               *)
WakeForInput_Never(q) == UNCHANGED drainVars

WakeForInput(q) == SignalDrain(q, remoteWindow)

(* Bug: an adjustment does not wake the loop.                              *)
WakeForWindow_Never(w) == UNCHANGED drainVars

WakeForWindow(w) == SignalDrain(inputQueue, w)

QueueFull(n) == inputQueueBytes + n > QueueMax

(* A message of n bytes of input.  One that comes before the listener is   *)
(* there, or after the channel closed, or that does not fit is lost.       *)
Type(n) ==
  /\ channelOpen
  /\ accepted + n <= MaxTyped
  /\ ~QueueFull(n)
  /\ accepted' = accepted + n
  /\ inputQueue' = Append(inputQueue, [lo |-> accepted, hi |-> accepted + n])
  /\ inputQueueBytes' = inputQueueBytes + n
  /\ WakeForInput(inputQueue')
  /\ UNCHANGED <<timer, ws, tcp, session, step, channelOpen, resizes,
                 windowVars, wireVars, serverVars, localWindowRemaining>>

(* A resize message passes the queue by: one packet, not awaited.          *)
Resize ==
  /\ channelOpen
  /\ resizes < MaxResizes
  /\ resizes' = resizes + 1
  /\ Send("resize")
  /\ UNCHANGED <<timer, ws, tcp, session, step, channelOpen, accepted,
                 inputQueue, inputQueueBytes, drain, offset, windowVars,
                 wireVars, serverVars, localWindowRemaining>>

HeadIs(kind) == chain # <<>> /\ Head(chain).kind = kind

(* Bug: the unsent remainder begins where the entry began.                 *)
Remainder_Whole(s, off) == s

(* data.slice(offset)                                                      *)
Remainder(s, off) == [s EXCEPT !.lo = @ + off]

(* Bug: a partly sent entry keeps its bytes counted.                       *)
Uncount_WholeOnly(s, off) ==
  IF off = Size(s) THEN inputQueueBytes - off ELSE inputQueueBytes

(* inputQueueBytes -= data.length, or -= offset                            *)
Uncount(s, off) == inputQueueBytes - off

(* The inner loop is left with `off' bytes of the entry sent.              *)
SettleEntry(off) ==
  /\ inputQueue' = IF off = Size(inputQueue[1])
                   THEN Tail(inputQueue)
                   ELSE [inputQueue EXCEPT ![1] = Remainder(@, off)]
  /\ inputQueueBytes' = Uncount(inputQueue[1], off)

(* The write of a data packet resolves: the window shrinks, and the loop   *)
(* goes on with the same entry, or settles it and goes round.              *)
DataWritten ==
  /\ HeadIs("data") /\ tcp = "open"
  /\ LET p == Head(chain)
         w == remoteWindow - Size(p)
         off == offset + Size(p)
         again == off < Size(inputQueue[1]) /\ w > 0 /\ channelOpen
     IN  /\ wire' = Append(wire, [lo |-> p.lo, hi |-> p.hi])
         /\ remoteWindow' = w
         /\ IF again
            THEN /\ drain' = "sending" /\ offset' = off
                 /\ chain' = Append(Tail(chain), Chunk(inputQueue, off, w))
                 /\ UNCHANGED <<inputQueue, inputQueueBytes>>
            ELSE /\ SettleEntry(off)
                 /\ IF channelOpen
                    THEN DrainTop(inputQueue', w, Tail(chain))
                    ELSE drain' = "done" /\ offset' = 0 /\ chain' = Tail(chain)
  /\ UNCHANGED <<timer, ws, tcp, session, step, channelOpen, accepted,
                 resizes, granted, closedAt, serverVars, localWindowRemaining>>

(* The write rejects: the loop closes the channel and ends.                *)
DataRejected ==
  /\ HeadIs("data") /\ tcp = "lost"
  /\ channelOpen' = FALSE
  /\ SettleEntry(offset)
  /\ drain' = "done" /\ offset' = 0 /\ chain' = Tail(chain)
  /\ UNCHANGED <<timer, ws, tcp, session, step, accepted, resizes,
                 windowVars, wireVars, serverVars, localWindowRemaining>>

ResizeSettled ==
  /\ HeadIs("resize")
  /\ chain' = Tail(chain)
  /\ UNCHANGED <<timer, ws, tcp, session, step, channelOpen, inputVars, drain,
                 offset, windowVars, wireVars, serverVars, localWindowRemaining>>

(***************************************************************************)
(* The read loop                                                           *)
(***************************************************************************)

(* while (channelOpen): the next packet, or the end of the session, where  *)
(* channelOpen = FALSE wakes the drain loop.                               *)
ReadLoopTop(open) == session' = IF open THEN "reading" ELSE "draining"

Reads(kind) ==
  /\ session = "reading" /\ toWorker # <<>>
  /\ Head(toWorker).kind = kind
  /\ toWorker' = Tail(toWorker)

(* Bug: the limit of a refill is reached one packet late.                  *)
RunsLow_AtZero(left) == left <= 0

RunsLow(left) == left < LowWater

(* CHANNEL_DATA and CHANNEL_EXTENDED_DATA: ws.send, which an absent        *)
(* browser does not make fail, and a CHANNEL_WINDOW_ADJUST when low.       *)
ReadData ==
  /\ Reads("data")
  /\ localWindowRemaining' = localWindowRemaining - Size(Head(toWorker))
  /\ IF RunsLow(localWindowRemaining')
     THEN session' = "awaiting" /\ Send("adjust")
     ELSE ReadLoopTop(channelOpen) /\ UNCHANGED chain
  /\ UNCHANGED <<timer, ws, tcp, step, channelOpen, inputVars, drain, offset,
                 windowVars, wireVars, server, credit, produced>>

(* Our adjustment is written, or its write rejects.                        *)
AdjustSettled ==
  /\ HeadIs("adjust")
  /\ chain' = Tail(chain)
  /\ IF tcp = "open"
     THEN /\ localWindowRemaining' = localWindowRemaining + Refill
          /\ credit' = credit + Refill
     ELSE UNCHANGED <<localWindowRemaining, credit>>
  /\ ReadLoopTop(channelOpen)
  /\ UNCHANGED <<timer, ws, tcp, step, channelOpen, inputVars, drain, offset,
                 windowVars, wireVars, toWorker, server, produced>>

ReadAdjust ==
  /\ Reads("adjust")
  /\ remoteWindow' = remoteWindow + Size(Head(toWorker))
  /\ WakeForWindow(remoteWindow')
  /\ ReadLoopTop(channelOpen)
  /\ UNCHANGED <<timer, ws, tcp, step, channelOpen, inputVars, granted,
                 wireVars, server, credit, produced, localWindowRemaining>>

(* A GLOBAL_REQUEST or CHANNEL_REQUEST that wants a reply.                 *)
ReadRequest ==
  /\ Reads("request")
  /\ session' = "awaiting"
  /\ Send("reply")
  /\ UNCHANGED <<timer, ws, tcp, step, channelOpen, inputVars, drain, offset,
                 windowVars, wireVars, server, credit, produced,
                 localWindowRemaining>>

ReplySettled ==
  /\ HeadIs("reply")
  /\ chain' = Tail(chain)
  /\ ReadLoopTop(channelOpen)
  /\ UNCHANGED <<timer, ws, tcp, step, channelOpen, inputVars, drain, offset,
                 windowVars, wireVars, serverVars, localWindowRemaining>>

(* CHANNEL_CLOSE is answered while channelOpen is still TRUE.              *)
ReadClose ==
  /\ Reads("close")
  /\ session' = "awaiting"
  /\ Send("close")
  /\ UNCHANGED <<timer, ws, tcp, step, channelOpen, inputVars, drain, offset,
                 windowVars, wireVars, server, credit, produced,
                 localWindowRemaining>>

(* Bug: the answer to CHANNEL_CLOSE leaves the channel open.               *)
CloseChannel_Not == UNCHANGED <<channelOpen, drain, offset>>

CloseChannel == DrainWhenClosed

CloseSettled ==
  /\ HeadIs("close")
  /\ closedAt' = IF tcp = "open" THEN Len(wire) ELSE closedAt
  /\ chain' = Tail(chain)
  /\ CloseChannel
  /\ ReadLoopTop(channelOpen')
  /\ UNCHANGED <<timer, ws, tcp, step, inputVars, windowVars, wire,
                 serverVars, localWindowRemaining>>

ReadDisconnect ==
  /\ Reads("disconnect")
  /\ DrainWhenClosed
  /\ session' = "draining"
  /\ UNCHANGED <<timer, ws, tcp, step, inputVars, chain, windowVars, wireVars,
                 server, credit, produced, localWindowRemaining>>

(* readPayload throws: nothing is left to read on a lost connection.       *)
ReadFails ==
  /\ session = "reading" /\ toWorker = <<>> /\ tcp = "lost"
  /\ DrainWhenClosed
  /\ session' = "draining"
  /\ UNCHANGED <<timer, ws, tcp, step, inputVars, chain, windowVars, wireVars,
                 serverVars, localWindowRemaining>>

(* await drainDone, "disconnected", and server.close in the finally block. *)
Finish ==
  /\ session = "draining" /\ drain = "done"
  /\ session' = "finished"
  /\ ws' = "closed"
  /\ UNCHANGED <<timer, tcp, step, channelVars>>

(***************************************************************************)
(* The server and the connection                                           *)
(***************************************************************************)
Forwarding == session \in {"reading", "awaiting", "draining"}

ServerSends(p) ==
  /\ Forwarding /\ tcp = "open" /\ server = "open"
  /\ Len(toWorker) < MaxTransit
  /\ toWorker' = Append(toWorker, p)

serverFrame == <<timer, ws, tcp, session, step, channelOpen, inputVars,
                 drainVars, remoteWindow, wireVars, localWindowRemaining>>

(* Output is numbered byte by byte, as input is.                           *)
ServerData(n) ==
  /\ n <= credit /\ produced + n <= MaxData
  /\ ServerSends(Packet("data", produced, produced + n))
  /\ credit' = credit - n
  /\ produced' = produced + n
  /\ UNCHANGED <<serverFrame, granted, server>>

(* An adjustment stands for the bytes of window it adds, numbered from the *)
(* first the server granted.                                               *)
ServerGrants(n) ==
  /\ granted + n <= MaxGranted
  /\ ServerSends(Packet("adjust", granted, granted + n))
  /\ granted' = granted + n
  /\ UNCHANGED <<serverFrame, server, credit, produced>>

ServerRequests ==
  /\ ServerSends(Packet("request", 0, 0))
  /\ UNCHANGED <<serverFrame, granted, server, credit, produced>>

ServerCloses(kind) ==
  /\ ServerSends(Packet(kind, 0, 0))
  /\ server' = "closing"
  /\ UNCHANGED <<serverFrame, granted, credit, produced>>

ConnectionLost ==
  /\ tcp = "open"
  /\ tcp' = "lost"
  /\ UNCHANGED <<timer, ws, session, step, channelVars>>

-----------------------------------------------------------------------------
Gate ==
  \/ CredentialsTimeout
  \/ \E valid \in BOOLEAN : Credentials(valid)
  \/ Connected
  \/ \E refused \in BOOLEAN : ConnectFails(refused)
  \/ OpensLate

Setup ==
  \/ \E w \in Grants : w <= MaxGranted /\ SetupAnswer(w)
  \/ \E n \in Grants : SetupAdjust(n)
  \/ SetupThrows

User ==
  \/ \E n \in MsgSizes : Type(n)
  \/ Resize

SenderStep ==
  \/ DataWritten \/ DataRejected
  \/ ResizeSettled \/ AdjustSettled \/ ReplySettled \/ CloseSettled

ReaderStep ==
  \/ ReadData \/ ReadAdjust \/ ReadRequest
  \/ ReadClose \/ ReadDisconnect \/ ReadFails
  \/ Finish

Environment ==
  \/ \E n \in DataSizes : ServerData(n)
  \/ \E n \in Grants : ServerGrants(n)
  \/ ServerRequests
  \/ \E kind \in {"close", "disconnect"} : ServerCloses(kind)
  \/ ConnectionLost

Next == Gate \/ Setup \/ User \/ SenderStep \/ ReaderStep \/ Environment

Spec == Init /\ [][Next]_vars

(* The event loop runs what is ready: a write settles, a packet that has   *)
(* arrived is read.  Nothing is assumed of the user or of the server.      *)
FairSpec == Spec /\ WF_vars(SenderStep) /\ WF_vars(ReaderStep)

-----------------------------------------------------------------------------
(* Type invariant.                                                         *)
TypeOK ==
  /\ timer \in {"armed", "cleared", "fired"}
  /\ ws \in {"open", "closed"}
  /\ tcp \in {"none", "opening", "open", "lost"}
  /\ session \in {"credentials", "connecting", "setup", "reading",
                  "awaiting", "draining", "finished", "threw"}
  /\ step \in 1 .. Len(Steps)
  /\ channelOpen \in BOOLEAN
  /\ accepted \in Nat /\ inputQueue \in Seq(Span)
  /\ inputQueueBytes \in Nat /\ resizes \in Nat
  /\ remoteWindow \in Nat /\ granted \in Nat
  /\ drain \in {"none", "parked", "sending", "done"}
  /\ offset \in Nat
  /\ chain \in Seq([kind : {"data", "resize", "adjust", "reply", "close"},
                    lo : Nat, hi : Nat])
  /\ wire \in Seq(Span) /\ closedAt \in Nat \cup {None}
  /\ toWorker \in Seq([kind : {"data", "adjust", "request", "close",
                               "disconnect"}, lo : Nat, hi : Nat])
  /\ server \in {"open", "closing"}
  /\ credit \in Nat /\ produced \in Nat
  /\ localWindowRemaining \in Nat

(* The data packets written, and the one being written, never exceed the   *)
(* window the server granted, although the window is lowered only after    *)
(* the write (RFC 4254 5.2).                                               *)
WindowRespected ==
  /\ End(wire) <= granted
  /\ \A i \in 1 .. Len(chain) : chain[i].hi <= granted

(* What the server is given is the accepted input, in order, with no gap   *)
(* and no repetition, however it was cut into packets.                     *)
InputIsStream == Input!Spec

(* The bytes that the packets of a kind in a list carry.                   *)
Carried(p, kind) == IF p.kind = kind THEN Size(p) ELSE 0

Bytes(list, kind) ==
  LET Sum[i \in 0 .. Len(list)] ==
        IF i = 0 THEN 0 ELSE Sum[i - 1] + Carried(list[i], kind)
  IN  Sum[Len(list)]

(* The server's packets of a kind that are not read yet.                   *)
InTransit(kind) == Bytes(toWorker, kind)

(* The window the worker keeps is exactly what was granted and read and    *)
(* not yet used: no adjustment is lost, from the first to the last.        *)
WindowExact == remoteWindow + End(wire) + InTransit("adjust") = granted

(* The drain loop is never parked with work it could do, nor after the     *)
(* channel closed: no wakeup is lost.                                      *)
NoLostWakeup ==
  drain = "parked" => channelOpen /\ (inputQueue = <<>> \/ remoteWindow = 0)

(* The worker's count of the local window is the server's, less the data   *)
(* on its way; and whenever the worker waits for a packet the server may   *)
(* send at least LowWater bytes, counting those on their way.              *)
LocalWindowServed ==
  /\ localWindowRemaining = credit + InTransit("data")
  /\ session = "reading" /\ tcp = "open" => localWindowRemaining >= LowWater

(* At most one data packet follows our CHANNEL_CLOSE: the one the drain    *)
(* loop handed over while the CLOSE was being written.                     *)
DataAfterClose == closedAt # None => Len(wire) <= closedAt + 1

(* Accepted input is sent, unless the window stays exhausted or the        *)
(* session ends: the loop is never stuck on input it could send.           *)
InputFlows == []<>(inputQueue = <<>> \/ remoteWindow = 0 \/ ~channelOpen)

(* A session whose server closed the channel, or whose connection is lost, *)
(* comes to its end: the drain loop and the read loop both leave.          *)
SessionEnds == (Forwarding /\ (server = "closing" \/ tcp = "lost")) ~> Over

=============================================================================
