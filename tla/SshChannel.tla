----------------------------- MODULE SshChannel -----------------------------
(***************************************************************************)
(* openSSHSubsystem of src/worker/ssh2-impl.ts: one SSH channel for SFTP,  *)
(* SCP and exec.  Its user calls sendChannelData, readChannelData and      *)
(* close, one at a time; a read that loses the race against the user's     *)
(* timer is not cancelled, and goes on beside the close that follows.      *)
(*                                                                         *)
(* Unlike the terminal there is no loop that reads: whoever waits for the  *)
(* window, or for data, reads the packets itself and treats those that it  *)
(* does not wait for.  Bytes are numbered in each direction; a packet is a *)
(* Span of them, and so is an adjustment, of the window granted.           *)
(*                                                                         *)
(* What packets look like on the wire when two are built at once is the    *)
(* matter of SshSender (DirectSpec).                                       *)
(***************************************************************************)
EXTENDS Integers, Sequences

CONSTANTS
  SendSizes,    \* lengths of the data handed to sendChannelData
  MaxSent,      \* bound: bytes handed over in all
  LocalMax,     \* localMax
  RemoteMax,    \* remoteMaxPkt
  Grants,       \* window sizes and adjustments the server may grant
  MaxGranted,   \* bound: bytes of window granted in all
  LocalWindow,  \* localWin
  LowWater,     \* the local window is refilled below this
  Refill,       \* by this much
  DataSizes,    \* sizes of the server's data packets
  MaxData,      \* bound: bytes the server sends
  MaxTransit,   \* bound: server packets not yet read
  MaxAsides     \* bound: requests of the server

ASSUME SendAssumption ==
  /\ SendSizes \subseteq Nat \ {0} /\ MaxSent \in Nat
  /\ LocalMax \in Nat \ {0} /\ RemoteMax \in Nat \ {0}
  /\ Grants \subseteq Nat /\ MaxGranted \in Nat
ASSUME ReadAssumption ==
  /\ LocalWindow \in Nat /\ LowWater \in Nat /\ Refill \in Nat
  /\ LowWater <= LocalWindow /\ LowWater <= Refill
  /\ DataSizes \subseteq Nat /\ (\A n \in DataSizes : n <= LowWater)
  /\ MaxData \in Nat /\ MaxTransit \in Nat /\ MaxAsides \in Nat

VARIABLES
  session,      \* "setup", "open", "failed"
  step,         \* during the setup, the answer openSSHSubsystem waits for
  tcp,          \* "open", "ended" by the server or the network, "closed"
  locked,       \* the reader's lock is held
  op,           \* the user's call: "none", "send", "read", "close", "over"
  leaving,      \* a call failed, returned null or timed out: close is next
  at,           \* what the user's call and the read left behind await
  held,         \* the data a read returns once its adjustment is written
  accepted,     \* bytes handed to sendChannelData
  off2,         \* where the chunk begins that is being sent, or waits
  remoteWin,
  granted,      \* history: window the server has granted in all
  wire,         \* history: data that reached the server
  chClosed,
  replies,      \* CHANNEL_SUCCESS packets handed over and not settled
  localWinRemaining,
  dropped,      \* history: a send has read data and dropped it
  received,     \* history: what readChannelData gave to its user till then
  exitStatus,   \* the exit status is known
  toWorker,     \* the server's packets on their way
  server,       \* the server's side: "open", "eof", "closing"
  produced,     \* bytes the server has sent
  credit,       \* the window the server may still use towards us
  asides        \* requests the server has sent (bounded by MaxAsides)

setupVars == <<session, step>>
connVars == <<tcp, locked>>
userVars == <<op, leaving, at, held>>
outVars == <<accepted, off2, remoteWin, granted, wire>>
inVars == <<localWinRemaining, dropped, received, exitStatus>>
serverVars == <<toWorker, server, produced, credit, asides>>
vars == <<setupVars, connVars, userVars, outVars, chClosed, replies, inVars,
          serverVars>>

Output == INSTANCE ByteStream
            WITH sent <- accepted, delivered <- wire, up <- tcp = "open"
Input == INSTANCE ByteStream
           WITH sent <- produced, delivered <- received, up <- tcp # "closed"

Span == Output!Span
Size(s) == Output!Size(s)
End(pieces) == Output!End(pieces)

Packet(kind, lo, hi) == [kind |-> kind, lo |-> lo, hi |-> hi]

NoData == [lo |-> 0, hi |-> 0]

(* The user's call, and a read that lost its race.                         *)
Slots == {"user", "late"}

Steps == <<"version", "kexinit", "kexreply", "newkeys", "service", "auth",
           "open", "request">>

-----------------------------------------------------------------------------
Init ==
  /\ session = "setup" /\ step = 1
  /\ tcp = "open" /\ locked = TRUE
  /\ op = "none" /\ leaving = FALSE
  /\ at = [s \in Slots |-> "idle"] /\ held = NoData
  /\ accepted = 0 /\ off2 = 0 /\ remoteWin = 0 /\ granted = 0 /\ wire = <<>>
  /\ chClosed = FALSE /\ replies = 0
  /\ localWinRemaining = LocalWindow /\ dropped = FALSE /\ received = <<>>
  /\ exitStatus = FALSE
  /\ toWorker = <<>> /\ server = "open" /\ produced = 0
  /\ credit = LocalWindow /\ asides = 0

(***************************************************************************)
(* The setup: one packet out and one answer in at a time                   *)
(***************************************************************************)
SetupAnswer(w) ==
  /\ session = "setup" /\ tcp = "open"
  /\ IF Steps[step] = "open"
     THEN remoteWin' = w /\ granted' = w
     ELSE UNCHANGED <<remoteWin, granted>>
  /\ IF Steps[step] = "request"
     THEN session' = "open" /\ UNCHANGED step
     ELSE step' = step + 1 /\ UNCHANGED session
  /\ UNCHANGED <<connVars, userVars, accepted, off2, wire, chClosed, replies,
                 inVars, serverVars>>

(* CHANNEL_WINDOW_ADJUST before the subsystem or command has started.      *)
SetupAdjust(n) ==
  /\ session = "setup" /\ tcp = "open"
  /\ Steps[step] = "request"
  /\ granted + n <= MaxGranted
  /\ granted' = granted + n
  /\ remoteWin' = remoteWin + n
  /\ UNCHANGED <<setupVars, connVars, userVars, accepted, off2, wire,
                 chClosed, replies, inVars, serverVars>>

(* A refusal, an unexpected packet, or the end of the connection.          *)
SetupThrows ==
  /\ session = "setup"
  /\ session' = "failed"
  /\ UNCHANGED <<step, connVars, userVars, outVars, chClosed, replies,
                 inVars, serverVars>>

(***************************************************************************)
(* sendChannelData                                                         *)
(***************************************************************************)

Smaller(m, n) == IF m <= n THEN m ELSE n

maxPkt == Smaller(LocalMax, RemoteMax)

(* data.slice(off2, off2 + maxPkt), of the data that ends at hi.           *)
ChunkAt(lo, hi) == [lo |-> lo, hi |-> Smaller(hi, lo + maxPkt)]

Chunk == ChunkAt(off2, accepted)

(* Bug: the loop counts on in steps of the local limit.                    *)
Onward_Local(lo) == lo + LocalMax

(* off2 += maxPkt                                                          *)
Onward(lo) == lo + maxPkt

(* while (chunk.length > remoteWin)                                        *)
Fits(n, w) == n <= w

AwaitAt(s, what) == at' = [at EXCEPT ![s] = what]

(* The user's call is over; the user goes on, or has to close.             *)
Returns(over) ==
  /\ op' = "none"
  /\ leaving' = over
  /\ AwaitAt("user", "idle")

(* The condition of the inner loop: write the chunk, or read a packet.     *)
SendOrWait(chunk, w) ==
  AwaitAt("user", IF Fits(Size(chunk), w) THEN "data" ELSE "socket")

StartSend(n) ==
  /\ session = "open" /\ op = "none" /\ ~leaving
  /\ accepted + n <= MaxSent
  /\ op' = "send"
  /\ accepted' = accepted + n
  /\ off2' = accepted
  /\ SendOrWait(ChunkAt(accepted, accepted + n), remoteWin)
  /\ UNCHANGED <<setupVars, connVars, leaving, held, remoteWin, granted, wire,
                 chClosed, replies, inVars, serverVars>>

(* Bug: the window is not lowered.                                         *)
Lowered_Not(w, n) == w

Lowered(w, n) == w - n

(* The data packet is written: the window shrinks, the next chunk follows. *)
DataWritten ==
  /\ at["user"] = "data" /\ tcp = "open"
  /\ wire' = Append(wire, Chunk)
  /\ remoteWin' = Lowered(remoteWin, Size(Chunk))
  /\ off2' = Onward(off2)
  /\ IF off2' >= accepted
     THEN Returns(FALSE)
     ELSE /\ SendOrWait(ChunkAt(off2', accepted), remoteWin')
          /\ UNCHANGED <<op, leaving>>
  /\ UNCHANGED <<setupVars, connVars, held, accepted, granted, chClosed,
                 replies, inVars, serverVars>>

DataRejected ==
  /\ at["user"] = "data" /\ tcp # "open"
  /\ Returns(TRUE)
  /\ UNCHANGED <<setupVars, connVars, held, outVars, chClosed, replies,
                 inVars, serverVars>>

(***************************************************************************)
(* readChannelData, and what its user makes of its race                    *)
(***************************************************************************)
StartRead ==
  /\ session = "open" /\ op = "none" /\ ~leaving
  /\ op' = "read"
  /\ AwaitAt("user", "socket")
  /\ UNCHANGED <<setupVars, connVars, leaving, held, outVars, chClosed,
                 replies, inVars, serverVars>>

(* The user's deadline: the call goes on, its result is nobody's.          *)
RaceLost ==
  /\ op = "read"
  /\ op' = "none" /\ leaving' = TRUE
  /\ at' = [user |-> "idle", late |-> at["user"]]
  /\ held' = NoData
  /\ UNCHANGED <<setupVars, connVars, outVars, chClosed, replies, inVars,
                 serverVars>>

(* A call that slot s makes ends; the user learns of its own only.         *)
CallEnds(s, over) ==
  IF s = "user"
  THEN Returns(over)
  ELSE AwaitAt("late", "idle") /\ UNCHANGED <<op, leaving>>

Goes(s) == AwaitAt(s, "socket") /\ UNCHANGED <<op, leaving>>

Awaits(s, what) == AwaitAt(s, what) /\ UNCHANGED <<op, leaving>>

(* Slot s reads while it waits for the window of sendChannelData.          *)
WaitsForWindow(s) == s = "user" /\ op = "send"

Takes(s, kind) ==
  /\ at[s] = "socket" /\ locked /\ tcp # "closed"
  /\ toWorker # <<>> /\ Head(toWorker).kind = kind
  /\ toWorker' = Tail(toWorker)

takeFrame == <<setupVars, connVars, server, produced, credit, asides>>

RunsLow(left) == left < LowWater

(* What a read returns goes to its user, if it still has one.              *)
Gives(s, data) ==
  received' = IF s = "user" /\ ~dropped THEN Append(received, data) ELSE received

(* CHANNEL_DATA and CHANNEL_EXTENDED_DATA in readChannelData.              *)
ReadData(s) ==
  LET data == [lo |-> Head(toWorker).lo, hi |-> Head(toWorker).hi]
  IN  /\ ~WaitsForWindow(s)
      /\ Takes(s, "data")
      /\ localWinRemaining' = localWinRemaining - Size(data)
      /\ IF RunsLow(localWinRemaining')
         THEN /\ Awaits(s, "adjust")
              /\ held' = IF s = "user" THEN data ELSE held
              /\ UNCHANGED received
         ELSE CallEnds(s, FALSE) /\ Gives(s, data) /\ UNCHANGED held
      /\ UNCHANGED <<takeFrame, outVars, chClosed, replies, dropped, exitStatus>>

(* Bug: the data is returned only where the adjustment failed.             *)
GivesHeld_InCatch(s) ==
  IF tcp = "open" THEN UNCHANGED received ELSE Gives(s, held)

GivesHeld(s) == Gives(s, held)

(* The adjustment is written, or its write fails, which is ignored.        *)
AdjustSettled(s) ==
  /\ at[s] = "adjust"
  /\ IF tcp = "open"
     THEN /\ localWinRemaining' = localWinRemaining + Refill
          /\ credit' = credit + Refill
     ELSE UNCHANGED <<localWinRemaining, credit>>
  /\ CallEnds(s, FALSE)
  /\ GivesHeld(s)
  /\ held' = NoData
  /\ UNCHANGED <<setupVars, connVars, outVars, chClosed, replies, dropped,
                 exitStatus, toWorker, server, produced, asides>>

(* Data that comes while sendChannelData waits for the window: "Ignore     *)
(* other message types".  A user that takes turns with the server meets it *)
(* when the server speaks out of turn (an error, stderr).                  *)
DataIgnored ==
  /\ WaitsForWindow("user")
  /\ Takes("user", "data")
  /\ dropped' = TRUE
  /\ UNCHANGED <<takeFrame, userVars, outVars, chClosed, replies,
                 localWinRemaining, received, exitStatus>>

Rechecked(w) == SendOrWait(Chunk, w) /\ UNCHANGED <<op, leaving>>

TakeAdjust(s) ==
  /\ Takes(s, "adjust")
  /\ remoteWin' = remoteWin + Size(Head(toWorker))
  /\ IF WaitsForWindow(s) THEN Rechecked(remoteWin') ELSE Goes(s)
  /\ UNCHANGED <<takeFrame, held, accepted, off2, granted, wire, chClosed,
                 replies, inVars>>

(* A read returns null, a send throws.                                     *)
TakeEof(s) ==
  /\ Takes(s, "eof")
  /\ CallEnds(s, TRUE)
  /\ UNCHANGED <<takeFrame, held, outVars, chClosed, replies, inVars>>

(* CHANNEL_CLOSE is answered first.                                        *)
TakeClose(s) ==
  /\ Takes(s, "close")
  /\ Awaits(s, "closing")
  /\ UNCHANGED <<takeFrame, held, outVars, chClosed, replies, inVars>>

(* Written or not, the channel counts as closed.                           *)
CloseAnswered(s) ==
  /\ at[s] = "closing" /\ ~(s = "user" /\ op = "close")
  /\ chClosed' = TRUE
  /\ CallEnds(s, TRUE)
  /\ UNCHANGED <<setupVars, connVars, held, outVars, replies, inVars,
                 serverVars>>

(* handleChannelRequest: the answer is not awaited.                        *)
TakeRequest(s) ==
  /\ Takes(s, "request")
  /\ replies' = replies + 1
  /\ UNCHANGED <<takeFrame, userVars, outVars, chClosed, inVars>>

TakeExitStatus(s) ==
  /\ Takes(s, "exit")
  /\ exitStatus' = TRUE
  /\ UNCHANGED <<takeFrame, userVars, outVars, chClosed, replies,
                 localWinRemaining, dropped, received>>

ReplySettled ==
  /\ replies > 0
  /\ replies' = replies - 1
  /\ UNCHANGED <<setupVars, connVars, userVars, outVars, chClosed, inVars,
                 serverVars>>

(* MSG_GLOBAL_REQUEST with want_reply: REQUEST_FAILURE, awaited.           *)
TakeGlobal(s) ==
  /\ Takes(s, "global")
  /\ Awaits(s, "reply")
  /\ UNCHANGED <<takeFrame, held, outVars, chClosed, replies, inVars>>

GlobalAnswered(s) ==
  /\ at[s] = "reply"
  /\ IF tcp = "open" THEN Goes(s) ELSE CallEnds(s, TRUE)
  /\ UNCHANGED <<setupVars, connVars, held, outVars, chClosed, replies,
                 inVars, serverVars>>

(* Bug: a read left behind is not rejected.                                *)
CannotRead_Ended(s) == tcp = "ended" /\ toWorker = <<>>

CannotRead(s) ==
  \/ ~locked
  \/ tcp = "closed"
  \/ tcp = "ended" /\ toWorker = <<>>

(* readPayload2 throws.                                                    *)
ReadThrows(s) ==
  /\ at[s] = "socket" /\ CannotRead(s)
  /\ CallEnds(s, TRUE)
  /\ UNCHANGED <<setupVars, connVars, held, outVars, chClosed, replies,
                 inVars, serverVars>>

(***************************************************************************)
(* close                                                                   *)
(***************************************************************************)

(* releaseLock() with a read outstanding rejects it, or throws and leaves  *)
(* the lock where it was.                                                  *)
Releases ==
  /\ locked' \in IF at["late"] = "socket" THEN BOOLEAN ELSE {FALSE}
  /\ AwaitAt("user", "shut")

StartClose ==
  /\ session = "open" /\ op = "none"
  /\ op' = "close"
  /\ IF chClosed
     THEN Releases
     ELSE AwaitAt("user", "closing") /\ UNCHANGED locked
  /\ UNCHANGED <<setupVars, tcp, leaving, held, outVars, chClosed, replies,
                 inVars, serverVars>>

CloseWritten ==
  /\ op = "close" /\ at["user"] = "closing"
  /\ chClosed' = TRUE
  /\ Releases
  /\ UNCHANGED <<setupVars, tcp, op, leaving, held, outVars, replies, inVars,
                 serverVars>>

(* Bug: the socket is left to the server.                                  *)
Shut_Not == tcp

Shut == "closed"

SocketShut ==
  /\ at["user"] = "shut"
  /\ tcp' = Shut
  /\ op' = "over"
  /\ AwaitAt("user", "idle")
  /\ UNCHANGED <<setupVars, locked, leaving, held, outVars, chClosed,
                 replies, inVars, serverVars>>

(***************************************************************************)
(* The server and the network                                              *)
(***************************************************************************)
ServerSends(p) ==
  /\ session = "open" /\ tcp = "open" /\ server # "closing"
  /\ Len(toWorker) < MaxTransit
  /\ toWorker' = Append(toWorker, p)

serverFrame == <<setupVars, connVars, userVars, accepted, off2, remoteWin,
                 wire, chClosed, replies, inVars>>

ServerData(n) ==
  /\ server = "open"
  /\ n <= credit /\ produced + n <= MaxData
  /\ ServerSends(Packet("data", produced, produced + n))
  /\ credit' = credit - n
  /\ produced' = produced + n
  /\ UNCHANGED <<serverFrame, granted, server, asides>>

ServerGrants(n) ==
  /\ granted + n <= MaxGranted
  /\ ServerSends(Packet("adjust", granted, granted + n))
  /\ granted' = granted + n
  /\ UNCHANGED <<serverFrame, server, produced, credit, asides>>

(* A channel request, an exit status, a global request.                    *)
ServerAsks(kind) ==
  /\ asides < MaxAsides
  /\ ServerSends(Packet(kind, 0, 0))
  /\ asides' = asides + 1
  /\ UNCHANGED <<serverFrame, granted, server, produced, credit>>

ServerEnds ==
  /\ server = "open"
  /\ ServerSends(Packet("eof", 0, 0))
  /\ server' = "eof"
  /\ UNCHANGED <<serverFrame, granted, produced, credit, asides>>

ServerCloses ==
  /\ ServerSends(Packet("close", 0, 0))
  /\ server' = "closing"
  /\ UNCHANGED <<serverFrame, granted, produced, credit, asides>>

ConnectionEnds ==
  /\ tcp = "open"
  /\ tcp' = "ended"
  /\ UNCHANGED <<setupVars, locked, userVars, outVars, chClosed, replies,
                 inVars, serverVars>>

-----------------------------------------------------------------------------
Setup ==
  \/ \E w \in Grants : w <= MaxGranted /\ SetupAnswer(w)
  \/ \E n \in Grants : SetupAdjust(n)
  \/ SetupThrows

User ==
  \/ \E n \in SendSizes : StartSend(n)
  \/ StartRead \/ StartClose \/ RaceLost

CallStep(s) ==
  \/ ReadData(s) \/ TakeAdjust(s) \/ TakeEof(s) \/ TakeClose(s)
  \/ TakeRequest(s) \/ TakeExitStatus(s) \/ TakeGlobal(s)
  \/ AdjustSettled(s) \/ CloseAnswered(s) \/ GlobalAnswered(s)
  \/ ReadThrows(s)

UserCallStep ==
  \/ DataWritten \/ DataRejected \/ DataIgnored
  \/ CloseWritten \/ SocketShut
  \/ CallStep("user")

LateReadStep == CallStep("late")

WorkerStep == UserCallStep \/ LateReadStep \/ ReplySettled

Environment ==
  \/ \E n \in DataSizes : ServerData(n)
  \/ \E n \in Grants : ServerGrants(n)
  \/ \E kind \in {"request", "exit", "global"} : ServerAsks(kind)
  \/ ServerEnds \/ ServerCloses
  \/ ConnectionEnds

Next == Setup \/ User \/ WorkerStep \/ Environment

Spec == Init /\ [][Next]_vars

(* What is ready runs: a write settles, a packet that has arrived is read, *)
(* for each of the two calls.  Nothing is assumed of the user's timers or  *)
(* of the server.                                                          *)
FairSpec == Spec /\ WF_vars(UserCallStep) /\ WF_vars(LateReadStep)

-----------------------------------------------------------------------------
Stages == {"idle", "socket", "data", "adjust", "reply", "closing", "shut"}

(* Type invariant.                                                         *)
TypeOK ==
  /\ session \in {"setup", "open", "failed"} /\ step \in 1 .. Len(Steps)
  /\ tcp \in {"open", "ended", "closed"} /\ locked \in BOOLEAN
  /\ op \in {"none", "send", "read", "close", "over"} /\ leaving \in BOOLEAN
  /\ at \in [Slots -> Stages] /\ held \in Span
  /\ accepted \in Nat /\ off2 \in Nat
  /\ remoteWin \in Nat /\ granted \in Nat
  /\ wire \in Seq(Span)
  /\ chClosed \in BOOLEAN /\ replies \in Nat
  /\ localWinRemaining \in Nat /\ dropped \in BOOLEAN
  /\ received \in Seq(Span)
  /\ exitStatus \in BOOLEAN
  /\ toWorker \in Seq([kind : {"data", "adjust", "eof", "close", "request",
                               "exit", "global"}, lo : Nat, hi : Nat])
  /\ server \in {"open", "eof", "closing"}
  /\ produced \in Nat /\ credit \in Nat /\ asides \in Nat

(* The data written, and the packet that is being written, stay within the *)
(* window the server granted, although the window is tested before the     *)
(* write, lowered after it and raised by whichever call reads (RFC 4254    *)
(* 5.2).  And a send waits only while its chunk does not fit: it looks at  *)
(* the window again whenever that has changed.                             *)
WindowRespected ==
  /\ End(wire) <= granted
  /\ at["user"] = "data" => Chunk.hi <= granted
  /\ op = "send" /\ at["user"] \in {"socket", "reply"}
       => Size(Chunk) > remoteWin

(* The server is given what sendChannelData was given, in order and whole, *)
(* however often a call of it was cut or had to wait.                      *)
OutputIsStream == Output!Spec

(* The user is given what the server sent, in order and whole, until a     *)
(* send that waits for the window drops some of it: neither an adjustment  *)
(* that is awaited in between nor a read that was given up makes a gap.    *)
InputIsStream == Input!Spec

(* Once the connection has ended no call stays pending, not even a read    *)
(* that its user has given up.                                             *)
CallsSettle ==
  (session = "open" /\ tcp # "open") ~> (\A s \in Slots : at[s] = "idle")

(* close() comes to its end, whatever the other calls do: the socket is    *)
(* closed and nothing waits on it.                                         *)
CloseShuts ==
  op = "close" ~> (tcp = "closed" /\ \A s \in Slots : at[s] = "idle")
=============================================================================
