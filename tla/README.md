# L4.FYI in TLA+

A verification development for the Worker of L4.FYI (this repository), the
bridge between a browser and any TCP service. It has two parts:

- **Models of the concurrent core**, one module each: the WebSocket-TCP tunnel,
  the SSH terminal and its packet sender, the SSH channel under SFTP, SCP and
  exec, the interactive Redis and IRC sessions, and what concurrent requests
  share in KV.
- **A model of every protocol handler.** The 882 one-shot handlers and the 14
  other WebSocket sessions are written down as sequences of steps on sockets,
  readers, writers, timers and promises, and run on one model of the Workers
  runtime, which checks how they treat their sockets on every path.

TLC checks the models on small instances; TLAPS proves the safety properties of
the core for all sizes and limits, and that the runtime of the handlers is well
formed whatever program it runs.

- Check a model: `tlc -config Tunnel.cfg Tunnel.tla` (likewise for every run of
  `PROJECT.json`).
- Check the proofs: `tlapm TunnelProofs.tla` (likewise `SshSenderProofs`,
  `SshTerminalProofs`, `SshChannelProofs`, `RedisSessionProofs`,
  `IrcSessionProofs`, `WorkerProofs`, `HandlerRuntimeProofs`).
- `PROJECT.json` lists components, runs, the source lines behind every
  definition, hazards, findings, theorems, and for every checked property a
  mutant: a plausible bug in one definition that breaks the property.

Paths below are relative to the repository's root; `worker/` is `src/worker/`.

## 1. The system

One `fetch` handler (`worker/index.ts`) answers every request. It checks the
origin, the body size, whether the target is behind Cloudflare or private,
counts the request against its target, tracks the use of the protocol, and then
dispatches on the path to one of some 240 protocol handlers. Most handlers are
one exchange: connect, send, read, parse, close. About eighteen keep a
WebSocket open and bridge it to a TCP socket; these hold the program's state
and its concurrency. Nothing is persisted but three kinds of KV entries.

The code is JavaScript: what runs between two `await`s is atomic, and anything
may happen during an `await`. The hard behaviours are therefore those of
*callbacks between awaits*: listeners that fire while a loop awaits a read,
promises that settle in an order nobody chose, timers that race answers, and a
browser or a server that is gone when the code resumes.

| Component | Source | State | Operations | What makes it correct | Module |
|---|---|---|---|---|---|
| WebSocket-TCP tunnel | `worker/websocket-pipe.ts` | `writeChain`, `queuedBytes`, `cleanedUp`, two stream locks, the WebSocket's buffer | message / close / error listeners, reader loop with backpressure, cleanup | both directions are byte streams; bounded memory; queued writes drain on close; everything is torn down | `Tunnel` |
| SSH packet sender | `worker/ssh2-impl.ts` 112-138, 426-451, 1014-1026 | sequence number, AES-CTR counter, promise chain | build, MAC, encrypt, write, increment | numbers are positions; no keystream is used twice | `SshSender` |
| SSH terminal | `worker/ssh2-impl.ts` 396-980, 1340-1444 | channel windows, input queue, drain wakeup, credentials timer | login steps, input listener, drain loop, read loop | input is a byte stream within the window; no lost wakeup; the session ends | `SshTerminal` |
| SSH subsystem channel, SFTP | `worker/ssh2-impl.ts` 983-1330, `worker/sftp.ts` | two windows, a packet reader that every call uses, `chClosed`, `exitStatus` | setup, `sendChannelData`, `readChannelData`, `close` | both directions are byte streams within their windows; every call settles; fresh keystream; the socket is closed | `SshChannel`, `SshSender` (`DirectSpec`), `SharedCalls`, `FileHandlers` |
| Redis session | `worker/redis.ts` 40-190, 395-556 | reader queue, reply buffer, timers | auth, handshake, one handler per command | no command before login; each its own whole reply; none pending for ever | `RedisSession` |
| IRC session | `worker/irc.ts` 340-710 | `writeChain`, writer lock, SASL state | commands, PING, CAP/SASL, join, quit | writers do not collide; order; PINGs are answered | `IrcSession` |
| Telnet, rlogin, rsh, rexec, ssh (raw); cdp, dap, node-inspector; echo; imap, imaps; memcached; mqtt; ircs | `worker/*.ts`, the handlers that answer 101 | listeners, promise chains, locks | credentials, connect, pipes or one handler per message, teardown | sockets closed; reads in order; nobody waits for ever; locks respected | `SessionHandlers` |
| One-shot handlers | some 240 files of `worker/` | sockets, locks and timers of the call | guards, connect, exchange, close | the same four | eleven family modules |
| Calls shared by handlers | `worker/cloudflare-detector.ts`, `buffered-reader.ts`, `ssh2-impl.ts`, `gadugadu.ts` | the caller's socket | check, `readExact`, subsystem, login | as their callers | `SharedCalls` |
| Timers of a request | `worker/timers.ts` | timer set | set, clear at the answer | no timer outlives its request | `HandlerRuntime`; partly |
| Router, KV counters, checklist | `worker/index.ts`, `router-guards.ts`, `usage-tracker.ts` | three KV values, no atomicity | limiter, usage counter, checklist POST | justified refusals, exact limit without overlap | `Worker`; dispatch is one step |
| Host validation, Cloudflare ranges, short URLs, formatting, CLI, React client, static data, docker, tests | rest of `src/`, `docker/`, `tests/` | none, or display | pure functions | | not modelled |

Interaction: the router calls a handler with the request; a handler owns its
WebSocket and sockets and shares nothing with other requests, so each is a model
of its own. Requests meet only in KV, which is `Worker`. The terminal uses the
packet sender (`sendPayload`): `SshSender` shows that the promise chain writes
packets in call order, and `SshTerminal` takes that as its `chain`. A request
that does not ask for a WebSocket runs under `withRequestTimeoutCleanup`, which
clears its timers when it answers; sessions go round it.

## 2. Modules

### ByteStream
The abstract specification of one direction of a connection: a producer hands
over bytes 0, 1, 2, ..., the consumer is given pieces in order with no gap and
no repetition, and the stream may be cut once and for all. `Tunnel` implements
it twice (`Upstream`, `Downstream`), `SshTerminal` once (`Input`), `SshChannel`
twice (`Output`, `Input`), each by
`INSTANCE ... WITH` and `Spec` of the instance as a property.

What a consumer has of it is stated with it: `EachByteOnce` and `InOrder` (every
byte up to the end of the last piece, once, in order) and `NothingAfterCut`.

Data is never content: a message, a write, a frame or a packet is a `Span`
`[lo, hi)` of its stream. Order, loss, duplication and sizes are visible, bytes
are not.

### PacketStream
The abstract specification of the sending side of an SSH connection, for the
server that reads it: packets come in the order in which they were handed over,
the k-th carries number k, and its keystream begins at the very block where the
one before it ended. A packet is taken in one step, the keys are installed once,
the connection may be lost. `SshSender` implements it (`WireIsPacketStream`).

### Tunnel
`handleSocketConnection` (`Refuse`, `Accept`, `SocketOpened`, `ConnectFailed`,
`OpenTimeout`), the listeners of `pipeWebSocketToSocket` (`MessageEvent`,
`CloseEvent`, `ErrorEvent`), the closures of `writeChain` (`WriteStart`,
`WriteDone`, `WriteError`, `FailureSettled`, `Cleanup`, `WriterClosed`) and the
loop of `pipeSocketToWebSocket` (`DrainTick`, `ReadData`, `ReadEnd`,
`ReaderDone`). `chain` is the promise chain, `head` the closure that runs,
`queued` is `queuedBytes`, `reader` the await the loop is in. The browser, the
backend and the two transports are actions of the environment: either may send,
stop, vanish or fail at any time. `cutBy` is a history variable naming who
closed the socket first.

### SshSender
`buildEncPacket` reads the sequence number when it is called, the counter after
the HMAC (`Signed`), and advances the counter after the ciphertext
(`Enciphered`); the caller advances the number after the write (`Written`).
`Spec` runs calls on the chain of `sendPayload` (`Turn`), `DirectSpec` at once,
as `sendPayload2` does. What a call does between its turn and the end of
its write is one step of `PacketStream`.

### SshTerminal
`handleSSHTerminal` (30 s timer, credentials, connect) and `runSSHSession`
(nine awaited answers, then listener, drain loop, read loop). `step` is the
answer the setup waits for; key exchange and formats are one answer each.
`drain` is the drain loop (`parked` on the promise of `signalDrain`), `chain`
the packets handed to `sendPayload`. `DrainTop` is the loop from its top to its
next await, and is called by whatever wakes it, as the code does.

### SshChannel
`openSSHSubsystem`. Nothing reads in the background here: `sendChannelData` reads
packets while it waits for the window, `readChannelData` while it waits for data,
and each treats the packets it does not wait for. `op` is the call its user has
made, `at` the await it is in. A call that lost its race against its user's timer
goes on as the call `late` beside the `close()` that follows: a read left behind
keeps the reader, so `releaseLock()` may throw. A packet is taken by whichever
call waits for the socket. `SetupAnswer` is one answer of the login, as in
`SshTerminal`, and `SetupAdjust` the one packet of the setup that later matters.
A send that waits for the window drops the data it reads; `dropped` remembers that
it has, and `received` what the user was given until then.

### RedisSession
A call is a command written and `readRESPResponse` awaited. All calls share the
reader: `requests` is the queue of pending `reader.read()`s, and a chunk goes to
the first. A reply is a sequence of pieces. A timed-out call leaves its read in
the queue (`abandoned`), which is what the code does: `Promise.race` cancels
nothing. `mode` selects the sessions of a run: pipelined or not, late replies or
not, split replies or not.

### IrcSession
The lock of `getWriter()` and its three users: tasks of `writeChain`, the read
loop (`LineWrites`), the close listener (`Quit`). The loop handles the lines of
a chunk without a pause until it awaits a write: while it is `running` nothing
else may run (`Idle`). A malformed command (JSON `null`, `userhost` without
nicks) throws between `getWriter()` and `releaseLock()`: the lock is `stuck`.

### Worker
Each request is a process: guards, limiter (`RateRead`, `RatePut`), `Routed`
(405, usage tracking, handler), the checklist (`StateRead`, `StatePut`), and
beside it the `trackUsage` call that `ctx.waitUntil` keeps alive (`TrackRead`,
`TrackPut`). KV calls may reject. `passed`, `tracked` and `overlapped` are
history variables.

### HandlerSteps, HandlerRuntime
What a handler does to its sockets is a matter of control: which call follows
which, where it waits, what a timer makes of a wait, what a `catch` or `finally`
does, where it returns. `HandlerSteps` is the vocabulary for that: one operator
per call (`Connect`, `GetReader`, `Read`, `Close`, `Send`, ...), the two forms of
race (`Race` with a timer, `Beside` a task), `Try`, `TryFinally`, `Loop`, `If`,
`Call` of a shared helper, `Task` for an async call that is not awaited,
`ThenElse` for a promise chain. A choice that depends on data is `Either`,
`Maybe` or `MayThrow`: open in the model.

`HandlerRuntime` runs a handler. A task is an async call with a stack of frames;
it runs until it waits or ends, as JavaScript does, and a call runs before its
caller goes on. When nothing can run, the environment moves: a call succeeds,
the peer sends, ends or resets the connection, a timer rings, the browser
speaks, errs or leaves. Per socket it keeps what the code can tell apart: opening,
open, ended by the peer, failed, closed; each lock free, held or released;
whether a read that lost its race is still outstanding (`lost`); whether a
variable was overwritten while its socket was live (`dropped`). `page` is the
WebSocket of a session with its listeners. `bound` says which task the name of a
promise stands for; the places of tasks that are over are used again, and then
the name of the old one is taken away (`NamesBut`), so that what waits for a name
never waits for a call that has only inherited its place. `Settle` enters and
leaves constructs until a step is on top; `Deepest` bounds how many.

What the runtime takes from the platform:

- A read on an ended socket is done; the peer's end closes the socket on both
  sides. A write to an open socket completes, or fails at once.
- `connect()` may throw; `getReader()` and `getWriter()` throw while the lock is
  held. `releaseLock()` with a read outstanding throws, or rejects the read: the
  repository's documents expect both (`docs/guides/API_EXAMPLES_VALIDATION.md:124`,
  `docs/protocols/MUNIN.md:334`).
- `ws.send()` throws after the worker's own `close()` and may throw once the
  browser has left. A message that comes when nobody listens is lost.
- The timers of a one-shot handler are cleared when it answers; those of a
  session are not (`worker/index.ts` 4477-4482).

### The handler families, their calls, SharedCalls, SessionHandlers
`RemoteHandlers`, `FileHandlers`, `SqlHandlers`, `StoreHandlers`,
`MessagingHandlers`, `EmailHandlers`, `WebHandlers`, `NetworkHandlers`,
`AccessHandlers`, `MediaHandlers` and `SpecialtyHandlers` follow the categories
of `src/data/protocols.ts`. Each exported handler is one definition of its
name, from its first guard to its answer; the helpers of a family's files that
touch a socket are in a module of their own that the family extends
(`RemoteCalls`, `FileCalls`, `SqlCalls`, `StoreCalls`, `MessagingCalls`,
`EmailCalls`, `WebCalls`, `NetworkCalls`, `AccessCalls`, `MediaCalls`,
`SpecialtyCalls`). A handler that another one calls names its socket after
itself, since both may have one at once. Steps that do nothing to a socket are gone; two branches that are then
the same are one; a loop over data is `Loop`. `handleRshTrustScan` and
`handleLLMNRScan`, which start any number of attempts at once, start two.
`SharedCalls` has what several files import, and every calls module extends it. `SessionHandlers` has the 14
handlers that answer with a WebSocket and have no module of their own.
`MCHandlers` puts all of them into one `Program`.

MC modules hold what TLC needs and the specifications do not: `MCRedisSession`
the modes, `MCWorker` the symmetry of requests, `MCHandlers` the programs and
the handlers that are known to lack a property.

## 3. Runs

Deadlock is not checked where a session may simply be over (both ends closed,
all inputs used up); `RedisSession` and `IrcSession` have an explicit `Over`
step instead and are checked for deadlock.

| Run | Bounds | Shows |
|---|---|---|
| `tunnel` | 3 messages of 1-2 bytes, 3 backend bytes, inbound limit 2, outbound limit 0, frames of 1, reads of 2; fairness; 1.0 M states | all nine properties below |
| `tunnel_drain` | 2 messages, 1 byte | violation of `DrainBeforeClose` |
| `ssh_sender` | 11 packets (3 in clear, 8 awaited, 3 free) of 1 or 3 blocks | refinement of `PacketStream`, call order and fresh keystream |
| `ssh_sender_direct` | 9 packets | violation of `KeystreamFresh` for `sendPayload2` |
| `ssh_terminal` | 4 bytes typed in pieces of 1 or 3, queue of 3, window granted in steps of 0, 1, 3 up to 4, packets of 2; 4 bytes of output against a local window of 3 refilled below 2; one resize; fairness; 0.6 M states | window, order, wakeups, close, and that the session ends |
| `ssh_channel` | 4 bytes sent in calls of 1 or 3, packets of at most 2, window granted in steps of 0 and 2 up to 4; 3 bytes read against a local window of 3 refilled below 2; 1 request of the server; 2 packets on the way; fairness; 0.8 M states | the server's window, both streams, that calls and `close()` come to their end |
| `redis` | 2 commands after up to 3 handshake calls, replies of 2 pieces, three modes; fairness | login, matching, whole replies, settling |
| `irc` | 2 messages (well-formed or not), 3 lines of 5 kinds, 2 channels; fairness; 1.2 M states | chain, order, lock, PINGs |
| `irc_collision` | 2 lines | violation of `WritesSerialized` |
| `worker` | 3 requests of 5 kinds, limit 2, 2 minutes, 2 items; symmetry | counters and checklist |
| `handlers` | 896 handlers, 6 tasks at once, 1 of them having lost its race, 3 messages per session; 0.4 M states | sockets, reads, waits and locks |
| `handlers_leak` | `handleTcpSend` alone | violation of `SocketsClosed` |

Why the bounds are enough: every limit is smaller than what can be sent, so
that each is exceeded (inbound limit 2 against 6 bytes, outbound 0 against
reads of 2, queue 3 against 4, rate limit 2 against 3 requests, the local window
refilled more than once, the channel's window of 2 against chunks of 2 and 1 and a
send of 3); a message is longer than a frame, a packet or the rest
of the window, so everything is cut somewhere; and three of a kind are enough
for a first, a middle and a last. The limits are parameters; nothing in the
models depends on 1 MiB or 60.

A handler has finitely many states, whatever its loops do: the run explores them
all except where it would need a seventh task. That happens to ten handlers
which start a task per iteration or per message (`handleGrafanaHealth`,
`handleSCPGet`, `handleSCPList`, `handleSCPPut`, `handleSFTPStat`,
`handleSSHExecute`, `handleTelnetLogin` and the IMAP, IMAPS and Memcached
sessions); there the call that does not fit does not happen. With seven tasks,
or with two that lost their race, the same handlers have the same properties.

Properties, per module:

- **Tunnel.** `InboundBounded`: the writes waiting never exceed the inbound
  high-water mark, though messages keep arriving after the listener gave up.
  `QueueAccounting`: `queuedBytes` is exactly the bytes heard and not written.
  `OutboundBounded`: the limit plus one read, since the buffer is checked
  before the read. `CleanupDrains`: if the close listener's cleanup closes the
  socket, all was written. `UpstreamIsStream`, `DownstreamIsStream`: refinement
  of `ByteStream`. `DownstreamComplete`: a backend that finishes is delivered
  completely. `TornDown`: once one end is gone the other is closed, locks are
  released and both pipes stop.
- **SshSender.** `WireIsPacketStream`: refinement of `PacketStream`, so that the
  server's own counters fit every packet it gets. `KeystreamFresh`. `CallOrder`: the
  k-th packet on the wire is the k-th call's, and a call that resolves has its packet
  there. (`SeqnoIsPosition` follows from the refinement and is proved by itself.)
- **SshTerminal.** `WindowRespected` and `WindowExact` (the window is lowered
  after an await while adjustments raise it), `InputIsStream`, `NoLostWakeup`,
  `DataAfterClose`, `LocalWindowServed`, and live: `InputFlows`, `SessionEnds`.
- **SshChannel.** `WindowRespected` (the window is tested before a write, lowered
  after it and raised by whichever call reads the adjustment; a send waits only
  while its chunk does not fit), `OutputIsStream` and, until a send drops data,
  `InputIsStream` (refinements of `ByteStream`), live: `CallsSettle` (not even a read that was
  given up stays pending once the connection has ended) and `CloseShuts`.
- **RedisSession.** `CommandsAfterLogin`, `RepliesMatchInTurn`,
  `RepliesComplete`, live: `CallsSettle`.
- **IrcSession.** `ChainSerializes`, `CommandsInOrder`, `LockReleased`, live:
  `PingsAnswered`.
- **Worker.** `RefusedJustly` (overlapping calls make the counter lag, never
  lead), `LimitedInTurn`, `LostOnlyToStaleWriter`.
- **HandlerRuntime.** `TypeOK`: what could go on is queued once and nothing else
  is, a name stands for the one call it was given to and never for the handler, a
  read is outstanding only on a live socket. `SocketsClosed`: once nothing more
  comes of a handler by itself, every socket it opened is closed. Until the answer
  a wait for the peer keeps a handler going. After it (and, for a session, once the
  browser has left) a call that only the peer could move counts as finished:
  nobody waits for it, the timers of a handler that has answered are cleared
  (`worker/timers.ts:89`), and the peer may stay silent. `ReadsInOrder`: no read
  waits behind one that lost its race, nor beside another task's: the chunk would
  go to the wrong one. `PeerWaitsTimed`: a peer that never answers cannot hold a
  handler, nor a session whose browser has left. `LocksRespected`: no lock is asked
  for, or used, while it is elsewhere.

### What the handlers run says of each handler
`MCExcuses` names, per property, the handlers that the run does not require it
of: those of which the model has an execution without the property. They are
467 for `SocketsClosed`, 189 for `ReadsInOrder`, 42 for `PeerWaitsTimed` and 18
for `LocksRespected`; every other handler has the property on all its paths. The
lists are exact for the model (an entry whose handler has the property is
removed), and they are not lists of bugs: choices that depend on data are open,
so some of these executions need an answer that the data rules out, as in
`worker/drda.ts`, where a helper that throws has been called once before.

What they have in common:

- `SocketsClosed`: most often the request's timer wins the race, the handler
  answers, and the call that lost waits on for a silent peer with its `close()`
  behind that wait (`handleRDPConnect`: `worker/rdp.ts:486`, the reads at 408 and
  418); 144 of the handlers leave a socket open in this way only. Or the socket is
  closed at the end of the `try` only, and an early return or a throw goes round
  it; or the race with the timer is outside the `try` that closes; or
  `releaseLock()` throws before `close()` is reached, a read being outstanding. Of
  the sessions only CDP, DAP and the Node inspector close on every path.
- `ReadsInOrder`: a read raced against a short timer, then another read: the
  usual "read until silence" loops when something is read after them. Among the
  sessions IMAP, IMAPS and Memcached: `LOGOUT`, `quit` or the next command may
  read beside a command whose answer is still awaited.
- `PeerWaitsTimed`: `socket.opened` or a read without a timer: AFP, CVS, the
  second connection of FTP, two Grafana calls, and all sessions but CDP, DAP,
  Node inspector and IRCS once the browser has left at the wrong moment.
- `LocksRespected`: a failed write leaves the lock held for the next command
  (`handleIRCConnect`), or a listener takes the writer while an earlier
  message's write is awaited (CDP, DAP, IRCS, Node inspector).

One assumption is made of the browser there: it stays until the session listens
for its close (`BrowserStays`). Without it each of the 14 sessions leaves its
socket open and waits for the server for ever, because the close listener is
installed after the connect and a close that came before is never told again.

### Fairness
The event loop runs what is ready, so a settled promise's continuation, a
pending timer and an event that was dispatched eventually run: weak fairness of
the worker's own steps. Writes settle because the peer is assumed to read or to
lose the connection. Nothing is assumed of the browser's or the server's
willingness to send or to leave, and no liveness property depends on it.

### Disagreements between code and text
Each is a `violation` run:

- `tunnel_drain`: the reader loop may close the socket while the close
  listener's drain is still writing (`worker/websocket-pipe.ts:276`);
  `docs/ARCHITECTURE.md` says all queued writes are flushed first.
- `ssh_sender_direct`: `sendPayload2` has no promise chain and one of its calls
  is not awaited, so two packets may share keystream and sequence number, which
  a comment of the same file names as the reason for the terminal's chain.
- `irc_collision`: the read loop writes without the promise chain, though the
  comment says all writes are serialized through it.
- `handlers_leak`: `handleTcpSend` returns 400 for an odd hex string after it
  has connected, without closing; `docs/ARCHITECTURE.md:208` says sockets are
  closed in all exit paths, which the handlers that leave a call behind when
  their timer wins contradict as well.

Others seen while modelling and not given a run, which a change of a constant or of a
property shows. In the SSH channel: `readChannelData` returns null on EOF and
nobody reads on, so an exit status behind the EOF stays unknown, though the
interface promises it after null (`worker/ssh2-impl.ts:991`); a read left behind
by a deadline answers CHANNEL_CLOSE a second time, though the comment at 1304
says "unless already sent"; data that comes while a send waits for the window is
dropped (1262). In SCP (`worker/scp.ts:387`) the docstring lets
the client begin a download, the code waits for the server (as the head of the
file says, too). In Redis the replies of two commands under way may be mixed
(`pipelined` modes). Elsewhere: a failed or late `connect`, and
a session that ends, leave the TCP socket open in the tunnel, the terminal,
Redis and IRC (same line of `ARCHITECTURE.md`); a malformed IRC command keeps the
writer lock (same section: released in `finally` blocks); the same document says
there is no rate limiting in the Worker; `docs/BUG_CLASSES.md:219` says
half-open connections are covered by a race with a timer in every handler, which
the 42 of `PeerWaitsTimed` are not; a lost update may uncheck an item of the
append-only checklist (`LostOnlyToStaleWriter` bounds what can be lost).

## 4. Proofs

Eight proof modules, no assumption beyond the named `ASSUME`s of the models
(sizes and limits are naturals, some positive), which TLC evaluates too. A type
invariant that is proved is not run again, but for that of the handlers' runtime, which a mutant
can break. Every invariant, every refinement and every action property that a
passing run checks is proved, except four that are about the handlers' programs.

Where a definition is a recursive function over a list (`Bytes`, `FirstValue`),
what it computes is proved without an induction rule, which the provers cannot
instantiate: if it were wrong for some prefix there would be a shortest one
(lemma `Least`, from `WFMin` of the library), and the prefix before it is right.

**TunnelProofs**: `TypeCorrect`, `InboundIsBounded`, `QueueIsAccounted`,
`UpstreamRefinement`, `CleanupHasDrained`. The properties are not inductive.
The strengthening says that the pieces on the way (delivered, in the chain, in
the inbox) are one gapless sequence: each list is tight (a piece begins where the one before it
ended), and where one list ends the next begins, except for the gap that an
overflow or a failed write leaves, after which nothing is delivered. Order is
stated pairwise, because the last element of a list is not reachable by an
induction over the list. Refinement: every step is a `Write`, a `Deliver`, a
`Cut` or a stutter of `ByteStream`. For the drain: while the socket is open no
write has failed and the writer is held, so when the cleanup finds the chain
empty everything heard is on the wire (`CleanupState`, `Drained`).
The way back: `OutboundIsBounded`, `DownstreamRefinement`, and
`FramesAreLimited`, which no run checks. `SlicesLine` and `FrameCount` show that the slices of a
read tile it, with no frame over `WS_MAX_MESSAGE`; `ConcatInOrder` that frames
put behind a gapless list keep it gapless. The invariant `DownInv`: the frames
lie between `End(received)` and `consumed` and reach `consumed` while the
WebSocket is open (`FrameLine`), and the loop awaits a read only after it has
seen room (`RoomToRead`), which a read that returns later cannot undo since the
buffer only shrinks meanwhile. `UpstreamDelivers` and `DownstreamDelivers` then say
it without the abstract specification: what either end holds is every byte up to the
end of the last piece, once and in order, and nothing comes after the cut. They
follow from the refinement alone, with one line of pieces (`Line`) as invariant; that
a byte is in some piece rests on the first piece that ends behind it.

**SshSenderProofs**: `TypeCorrect`, `NumbersArePositions`, `KeystreamIsFresh`,
`PacketsKeepCallOrder`, `TransportRefinement` for `Spec`. The strengthening: at most one call runs, all before it are
settled, all after it are queued; its number is the length of the wire and its
range of keystream begins at or after the end of every range used. For the call
order `Sent`: a packet on the wire belongs to a call that is past building it,
so it never changes again, even if its write is rejected after all. That is what
`SshTerminal` takes from the chain. The refinement of `PacketStream` needs more than
fresh keystream: no block may be left out either, so `InStep` says that the counter is
exactly where the last packet on the wire ended, as long as the connection is there,
and that a call still in the queue has taken none. A write that is accepted is the
`Put` of the first packet that waits (`PutStep`), the failed one a `Lose`, everything
before the write and after it a stutter (`NothingPut`).
`AwaitedIsSafe` is about `DirectSpec`, of which `KeystreamFresh` does not hold: as
long as the subsystem session has awaited every packet it sent, at most the last
call is unsettled, so each has its turn and all three properties hold. What
breaks them is the answer to a channel request alone.

**SshTerminalProofs**: `TypeCorrect`, `WindowIsRespected`, `NoWakeupIsLost`,
`AtMostOneAfterClose`, `WindowIsExact`, `LocalWindowIsServed`,
`InputRefinement`. None of the properties is inductive:
that a packet stays within the window depends on where it begins, that depends
on the offset of the drain loop, and that on the queue. The invariant puts
everything that is on its way on two lines of numbers. Input (`QueueLine`,
`DrainState`, `DataPackets`): what the server has, then the one packet that is
being written, then the queue, which is gapless and ends at `accepted`. Window
and output (`GrantLine`, `OutputLine`): the adjustments not yet read lie behind
`End(wire) + remoteWindow` and end at `granted`, the server's data lies between
what was read and `produced`; `Lies` states that pairwise, so that no sum over a
queue is needed there. The two exact statements do need the sums: `BytesAdds`
says what `Bytes` computes, `BytesAppend` and `BytesTail` what a packet sent or
read changes, and each action then moves an amount from one summand to another.
That the server always has window left (`LocalKept`) rests on the read loop: it
refills before it waits again, so below the limit a refill is in the chain, and
the worker is not waiting for a packet. `LoopPackets` says that the read loop has at most one packet
under way and awaits it, `EarlyState` that nothing is typed or sent before the
shell is there. `LoopGoesRound`, `ChunkHandedOver`, `EntrySettled` treat what
the drain loop does, and are used by whatever wakes it; then every action has a
lemma. Refinement: `Type` is a `Write`, `DataWritten` a `Deliver`, a lost or
refused connection a `Cut`, and all else a stutter.

**SshChannelProofs**: `TypeCorrect`, `WindowIsRespected`, `OutputRefinement`,
`InputRefinement`. There is no loop that owns the
window here: the chunk is tested against it, then written, and whichever call
happens to read raises it. `UserState` says what the user's call and the read
left behind can be at (a read is left behind only by a user who closes next);
`SendState` that a send goes on where the wire ends, and on which side of the
window its chunk is; `GrantLine` and `DataLine` that adjustments and data in
transit lie, pairwise in order, between what was read and what was sent, which
gives `End(wire) + remoteWin <= granted` and keeps both windows from going below
zero. `CallGoesOn`, `CallFinishes`, `PacketTaken`, `AsideTaken` treat what all
packets have in common, for either call; then every action has a lemma. For the
input `InInv` adds that the data in transit follows without a gap (`Follows`) on
what the user was given or is about to be given (`Awaited`), until a call fails
or is given up or a send drops data; a read left behind takes data too, but then
its user reads no more (`LateStays`).

**RedisSessionProofs**: `TypeCorrect`, `CommandsFollowLogin`,
`ResponsesComplete`, `ResponsesMatchInTurn`. For the login, what could go wrong is that a
"+OK" is read which answers something else. `Progress`: while the handshake
runs, its last call alone is unsettled and every call before it was accepted.
`Acceptances`: whatever is in that call's buffer or still in the stream, a
"+OK" in it is the first piece of the answer to that very call. A chunk moves
pieces from the stream to the buffer without changing their order (`Rechunk`),
so when the handshake goes on it has consumed the only "+OK" on the way; when a
call is late, refused or lost the handshake is over, and with it the claim.
`Queue` (the type): every pending read belongs to a call that is reading or was
given up, each to another one, and a call that settles takes its read along.
`Turn` (matching): with the oldest read's buffer put before the stream, what is
on the way are whole replies in call order (`Replies`), none to a call before the
oldest that waits (`NoneEarlier`), pending reads are consecutive calls ending with
the last written (`InOrder`), and only the oldest has begun a reply (`Buffers`).
So the pieces it takes up to an end are all of one call, and that call is its own.

**IrcSessionProofs**: `TypeCorrect`, `ChainIsSerial`, `LockIsReleased`,
`CommandsAreInOrder`. `EarlyState`, `ChainState` and `HolderState` say who can
hold the writer in each state of the session, of the chain and of the loop;
`Blamed` that a `getWriter()` that failed has one of the causes the property
names. `WritesRise`: the messages on the wire and then those in the chain are
in the order typed.

**WorkerProofs**: `TypeCorrect`, `RefusalsAreJust`, `LimitIsExactInTurn`,
`UsageIsNotInflated`, `ItemsLostOnlyToStaleWriters`. `Lagging`: neither a
stored counter nor one a request has read leads what was let through.
`InTurn`: in a minute without overlap there is at most one call, and what it
read is still what is stored. `Amending`: a document about to be written still
has every item it was read with.

**HandlerRuntimeProofs**: `TypeCorrect`, `AnsweredForGood`, `LeaksRemembered`.
Nothing is assumed of the program: a theorem about the runtime holds for the 896
handlers and for any other. The invariant `Machine` says that the queue holds
exactly the tasks that can run, each once. Three lemmas about a queue (`TailIsQueue`,
`ConsIsQueue`, `AppendIsQueue`) and three about how the tasks change with it
(`HeadSteps`, `HeadStarts`, `Wakened`) carry all actions: the first task goes on, ends
or waits; it calls or settles another, which could not run before; or nothing runs and
one wakes. `Names` adds that names tell the calls apart and that the handler is
none of them, so that nothing that is done to a call by its name (given up, cleared,
its place used again) is done to the handler. It is kept because a step either keeps
what a name stands for or gives the place of a new call to one name (`NamesFollow`),
and a task never becomes a forgotten one, nor begins to wait for the handler
(`Follows`). An earlier form of the model lacked `NamesBut`, and the attempt to prove
`Names` showed that a name could pass to a call that had only inherited its place.
From the same step follows `AnsweredForGood`: the answer stands, whatever goes on after
it. `LeaksRemembered` says that `SocketsClosed` misses no socket: one that is live
stays so, is closed, ended or failed, or is counted as dropped to the end
(`Remembers`, per socket; `SlotRemembered` for all that a step makes of one).

Only model-checked, and why:

- All liveness (`DownstreamComplete`, `TornDown`, `InputFlows`, `SessionEnds`,
  `CallsSettle`, `CloseShuts`, `PingsAnswered`): the prover has neither `ENABLED`
  nor fairness.
- `SocketsClosed`, `ReadsInOrder`, `PeerWaitsTimed` and `LocksRespected` of the
  handlers. They are about the programs that `MCHandlers` puts together, and no
  consequence of the runtime: a program may well forget to close its socket. For
  these programs TLC's run is exhaustive within its bounds; a proof would have to
  execute 896 programs symbolically.
- That `Deepest` is large enough, which depends on the programs too: `Settle` has
  no value where it is not, and TLC stops.
- The runs that expect a violation, of course.

## 5. Assumptions and omissions

- `send` on a WebSocket that is not open throws in the sessions' code paths and
  is lost in the tunnel's buffer; `close` is idempotent.
- IRC lines arrive whole; the cut of an endless line at 512 KB is left out.
- `SshChannel`: one call at a time, and none but `close` after one that failed,
  returned null or timed out, which is how its users call it but for SCP, which
  lets two reads time out and goes on (`worker/scp.ts` 582, 730; `handleSCPGet`
  and `handleSCPPut` are among the exceptions to `ReadsInOrder`). A data packet of
  the server is not larger than the limit below which the window is refilled
  (32 KB against 256).
- `MaxPkt` and `RemoteMax` are positive: an SSH server that announces 0 makes the loops send
  empty packets without end.
- KV reads see the latest write (one location, no propagation delay), a put
  that rejects has no effect, and keys do not expire within the run.
- A step abstracts formats: key exchange, authentication methods, RESP types,
  the text of commands, the frames of every protocol. What a handler parses or
  builds is an open choice (`Maybe`, `MayThrow`), never a result.
- The isolate does not crash: nothing survives it but KV, and a crash is the
  loss of both ends, which the models have.

Not modelled, and why:

- Wire formats, parsers and encoders of some 240 protocols: pure functions of
  bytes, best tested against captures; a model would be a transliteration.
- The matching of SFTP answers to request ids (`sftp.ts`): its handlers send one
  request at a time and take the next answer.
- Host validation, Cloudflare ranges, short URLs, manpages, formatting, CLI,
  middleware: pure functions of a request. In `Worker` a guard refuses or does
  not, and the dispatch to a handler is one step.
- The patching of `setTimeout` itself, and `setInterval`, which no handler uses
  for a socket.
- KV's propagation delay and expiry of keys; the 512 KB cut of an endless IRC
  line.
- The React client: the browser is the environment of every session.

## 6. Plan

Done in this order: the tunnel, the packet sender, the terminal, Redis, IRC,
KV; their proofs; the handler runtime, the families, the sessions; the terminal's
proofs; the SSH channel and its proofs; the types and answers of Redis, the exact
windows of the terminal and the call order of the sender; what the tunnel's streams
deliver, the sender as a packet stream, and the runtime of the handlers. What is left, in the order of its worth:

1. An abstract request/response specification that SFTP over `SshChannel` and
   `RedisSession` implement.
2. Composition: the terminal on the packet sender, with the chain of
   `SshTerminal` taken from `PacketStream`, which `SshSender` implements.
3. Data in the handlers where an excuse of `MCExcuses` rests on a choice that the
   data rules out: a flag per such choice would shorten the lists.
