----------------------------- MODULE IrcSession -----------------------------
(***************************************************************************)
(* The interactive IRC session of src/worker/irc.ts: credentials, connect, *)
(* registration, then three parties that write to one socket through the   *)
(* lock that getWriter() takes: the promise chain (the browser's commands  *)
(* and the answers to PING), the read loop (IRCv3 negotiation, SASL,       *)
(* auto-join) and the close listener (QUIT).  A getWriter() that finds the *)
(* lock taken throws.                                                      *)
(*                                                                         *)
(* The read loop handles the lines of a chunk without a pause until it     *)
(* awaits a write: while it is "running" nothing else runs.  A line of the *)
(* server is the reaction it calls for; the text of commands is left out.  *)
(***************************************************************************)
EXTENDS Integers, Sequences, SequencesExt

CONSTANTS
  MaxTyped,   \* bound: messages of the browser
  MaxLines,   \* bound: lines of the server
  Typed,      \* the messages: "cmd", "bad" (see Start)
  Lines,      \* the lines the server sends
  Channels,   \* how many channels to join after registration
  MayLose     \* the connection may be lost

AllLines == {"PING", "LS sasl", "LS", "ACK", "NAK", "+", "903", "904", "376", "text"}
ASSUME BoundsAssumption == {MaxTyped, MaxLines, Channels} \subseteq Nat
ASSUME InputsAssumption ==
  Typed \subseteq {"cmd", "bad"} /\ Lines \subseteq AllLines
ASSUME MayLoseAssumption == MayLose \in BOOLEAN

VARIABLES
  stage,     \* "auth", "connecting", "registering", "forwarding", "finished"
  sasl,      \* the browser gave a SASL account
  saslState,
  registered,
  ws,        \* the worker's end of the WebSocket: "open", "closing" or "closed"
  sock,      \* the TCP socket: "none", "opening", "open", "lost" or "closed"
  lock,      \* who holds the lock on socket.writable: "free", "reg", "chain",
             \* "reader", "quit"; nobody releases it after a failed write
             \* ("leaked") or a malformed command ("stuck")
  chain,     \* writeChain: the tasks that are not settled
  reader,    \* the read loop: "off", "awaiting", "running", "writing", "ended"
  pending,   \* the write the read loop awaits: what, how many, the next saslState
  incoming,  \* lines on their way from the server
  buffer,    \* complete lines of the chunk at hand
  typed,     \* messages typed so far
  said,      \* lines the server has sent
  pings,     \* history: PINGs handled
  collisions,\* history: getWriter() calls that found the lock taken
  negotiated,\* history: the read loop has written something
  wire       \* history: what was written, in order

negotiation == <<sasl, saslState, registered>>
ends == <<stage, ws, sock>>
writer == <<lock, chain>>
loop == <<reader, pending>>
lines == <<incoming, buffer>>
bounds == <<typed, said>>
history == <<pings, collisions, negotiated, wire>>
vars == <<negotiation, ends, writer, loop, lines, bounds, history>>

Writes == {"REGISTER", "PONG", "CAP REQ", "CAP END", "AUTHENTICATE",
           "credentials", "JOIN", "QUIT", "cmd"}
SaslStates == {"idle", "cap_req", "authenticate", "credentials", "done", "no_sasl"}
Task == [kind : {"cmd", "bad", "PONG"}, id : Nat, phase : {"queued", "writing"}]
NoWrite == [what |-> "JOIN", left |-> 0, then |-> "idle"]

TypeOK ==
  /\ stage \in {"auth", "connecting", "registering", "forwarding", "finished"}
  /\ sasl \in BOOLEAN /\ saslState \in SaslStates /\ registered \in BOOLEAN
  /\ ws \in {"open", "closing", "closed"}
  /\ sock \in {"none", "opening", "open", "lost", "closed"}
  /\ lock \in {"free", "reg", "chain", "reader", "quit", "leaked", "stuck"}
  /\ chain \in Seq(Task)
  /\ reader \in {"off", "awaiting", "running", "writing", "ended"}
  /\ pending \in [what : Writes, left : 0 .. Channels + 1, then : SaslStates]
  /\ incoming \in Seq(Lines) /\ buffer \in Seq(Lines)
  /\ typed \in Nat /\ said \in Nat /\ pings \in Nat /\ collisions \in Nat
  /\ negotiated \in BOOLEAN
  /\ wire \in Seq([what : Writes, id : Nat])
  /\ lock = "reader" <=> reader = "writing"
  /\ lock = "reg" => stage = "registering"

Init ==
  /\ stage = "auth" /\ sasl = FALSE /\ saslState = "idle" /\ registered = FALSE
  /\ ws = "open" /\ sock = "none" /\ lock = "free"
  /\ chain = <<>> /\ reader = "off" /\ pending = NoWrite
  /\ incoming = <<>> /\ buffer = <<>>
  /\ typed = 0 /\ said = 0 /\ pings = 0 /\ collisions = 0
  /\ negotiated = FALSE /\ wire = <<>>

Lost == sock \in {"lost", "closed"}
Idle == reader # "running"
Written(what, id) == Append(wire, [what |-> what, id |-> id])
(* server.send(...) then server.close(); the send throws unless open.      *)
CloseWs == IF ws = "open" THEN "closing" ELSE ws

-----------------------------------------------------------------------------
(* Credentials, connect, registration                                      *)

Auth(s) ==
  /\ stage = "auth" /\ ws = "open"
  /\ stage' = "connecting" /\ sasl' = s /\ sock' = "opening"
  /\ UNCHANGED <<saslState, registered, ws, writer, loop, lines, bounds,
                 history>>

AuthTimeout ==
  /\ stage = "auth" /\ ws = "open"
  /\ stage' = "finished" /\ ws' = CloseWs
  /\ UNCHANGED <<sock, negotiation, writer, loop, lines, bounds, history>>

ConnectFails ==
  /\ stage = "connecting"
  /\ stage' = "finished" /\ ws' = CloseWs
  /\ sock' \in {"lost", "opening"}   \* refused, or 30 s passed
  /\ UNCHANGED <<negotiation, writer, loop, lines, bounds, history>>

OpensLate ==
  /\ stage = "finished" /\ sock = "opening"
  /\ sock' = "open"
  /\ UNCHANGED <<stage, ws, negotiation, writer, loop, lines, bounds, history>>

(* irc-connected is sent, which throws if the browser has left.            *)
Opened ==
  /\ stage = "connecting"
  /\ sock' = "open"
  /\ IF ws = "open" THEN stage' = "registering" /\ lock' = "reg"
                    ELSE stage' = "finished" /\ UNCHANGED lock
  /\ UNCHANGED <<ws, chain, negotiation, loop, lines, bounds, history>>

AfterRegistration == "free"

(* The listeners are installed and the read loop starts.                   *)
Registered ==
  /\ stage = "registering" /\ sock = "open"
  /\ stage' = "forwarding" /\ lock' = AfterRegistration /\ reader' = "awaiting"
  /\ wire' = Written("REGISTER", 0)
  /\ UNCHANGED <<ws, sock, chain, pending, pings, collisions, negotiated,
                 negotiation, lines, bounds>>

RegistrationFails ==
  /\ stage = "registering" /\ Lost
  /\ stage' = "finished" /\ lock' = "leaked" /\ ws' = CloseWs
  /\ UNCHANGED <<sock, chain, negotiation, loop, lines, bounds, history>>

-----------------------------------------------------------------------------
(* The promise chain                                                       *)

Listening == stage = "forwarding" \/ reader = "ended"

(* A message of the browser.  A message under way when the worker closed   *)
(* the WebSocket is still heard.                                           *)
Type(kind) ==
  /\ Idle /\ Listening /\ ws # "closed" /\ typed < MaxTyped
  /\ typed' = typed + 1
  /\ chain' = Append(chain, [kind |-> kind, id |-> typed + 1, phase |-> "queued"])
  /\ UNCHANGED <<lock, said, negotiation, ends, loop, lines, history>>

\* Bug: every task starts at once.
Turn_Always(k) == TRUE
Turn(k) == k = 1

(* A task starts: getWriter(), then the write.  A "bad" command is JSON    *)
(* that the switch cannot handle (null, userhost without nicks): it throws *)
(* with the lock taken, and the getWriter() of the catch throws too.       *)
Start(k) ==
  /\ Idle /\ Turn(k) /\ chain[k].phase = "queued"
  /\ \/ /\ lock = "free"
        /\ lock' = IF chain[k].kind = "bad" THEN "stuck" ELSE "chain"
        /\ chain' = IF chain[k].kind = "bad" THEN RemoveAt(chain, k)
                    ELSE [chain EXCEPT ![k].phase = "writing"]
        /\ UNCHANGED collisions
     \/ /\ lock # "free"
        /\ chain' = RemoveAt(chain, k) /\ collisions' = collisions + 1
        /\ UNCHANGED lock
  /\ UNCHANGED <<pings, negotiated, wire, negotiation, ends, loop, lines, bounds>>

\* Bug: the task of a PING does not release the lock.
AfterTask_KeepsPong(kind) == IF kind = "PONG" THEN "leaked" ELSE "free"
AfterTask(kind) == "free"

TaskWritten(k) ==
  /\ Idle /\ chain[k].phase = "writing" /\ sock = "open"
  /\ wire' = Written(chain[k].kind, chain[k].id)
  /\ chain' = RemoveAt(chain, k) /\ lock' = AfterTask(chain[k].kind)
  /\ UNCHANGED <<pings, collisions, negotiated, negotiation, ends, loop,
                 lines, bounds>>

(* No releaseLock() on the way out of a rejected write.                    *)
TaskFails(k) ==
  /\ Idle /\ chain[k].phase = "writing" /\ Lost
  /\ chain' = RemoveAt(chain, k) /\ lock' = "leaked"
  /\ UNCHANGED <<negotiation, ends, loop, lines, bounds, history>>

-----------------------------------------------------------------------------
(* The read loop                                                           *)

ReadChunk(n) ==
  /\ reader = "awaiting" /\ n \in 1 .. Len(incoming)
  /\ buffer' = SubSeq(incoming, 1, n)
  /\ incoming' = SubSeq(incoming, n + 1, Len(incoming))
  /\ reader' = "running"
  /\ UNCHANGED <<pending, negotiation, ends, writer, bounds, history>>

AwaitChunk ==
  /\ reader = "running" /\ buffer = <<>>
  /\ reader' = "awaiting"
  /\ UNCHANGED <<pending, negotiation, ends, writer, lines, bounds, history>>

(* The loop is left, by done or by an exception: irc-disconnected, close.  *)
LeaveLoop == reader' = "ended" /\ stage' = "finished" /\ ws' = CloseWs

EndOfStream ==
  /\ reader = "awaiting" /\ Lost /\ (incoming = <<>> \/ sock = "closed")
  /\ LeaveLoop
  /\ UNCHANGED <<sock, pending, negotiation, writer, lines, bounds, history>>

AckWanted == saslState = "cap_req"
JoinDue == ~registered /\ Channels > 0

Write(what, n, then) == {[what |-> what, left |-> n, then |-> then]}

(* What a CAP line is answered with.                                       *)
CapReply(line) ==
  IF line = "LS sasl" /\ sasl THEN Write("CAP REQ", 1, "cap_req")
  ELSE IF line = "ACK" /\ AckWanted THEN Write("AUTHENTICATE", 1, "authenticate")
  ELSE Write("CAP END", 1, "no_sasl")

(* The write a line calls for, if any: what, how many times, and the state *)
(* after it.                                                               *)
Reaction(line) ==
  CASE line \in {"LS sasl", "LS", "ACK", "NAK"} -> CapReply(line)
    [] line = "+" /\ saslState = "authenticate" -> Write("credentials", 1, "credentials")
    [] line = "903" -> Write("CAP END", 1, "done")
    [] line = "376" /\ JoinDue -> Write("JOIN", Channels, saslState)
    [] OTHER -> {}

(* Lines that are reported to the browser before anything is written.      *)
Reported == {"LS sasl", "LS", "ACK", "NAK", "903", "904"}

(* A line whose handling writes: the lock is taken, or the loop is left.   *)
LineWrites ==
  /\ reader = "running" /\ buffer # <<>>
  /\ LET line == Head(buffer)
     IN  /\ Reaction(line) # {} /\ (line \in Reported => ws = "open")
         /\ registered' = (registered \/ line = "376")
         /\ negotiated' = TRUE
         /\ IF lock = "free"
            THEN /\ lock' = "reader" /\ reader' = "writing"
                 /\ pending' \in Reaction(line)
                 /\ UNCHANGED <<stage, ws, collisions>>
            ELSE /\ LeaveLoop /\ collisions' = collisions + 1
                 /\ UNCHANGED <<lock, pending>>
  /\ UNCHANGED <<sasl, saslState, sock, chain, pings, wire, lines, bounds>>

(* A line that is only passed on; PING also queues its answer, 904 closes  *)
(* the WebSocket.  If the WebSocket is not open the send throws.           *)
LinePassedOn ==
  /\ reader = "running" /\ buffer # <<>>
  /\ LET line == Head(buffer)
     IN  /\ Reaction(line) = {}
         /\ pings' = IF line = "PING" THEN pings + 1 ELSE pings
         /\ chain' = IF line = "PING"
                     THEN Append(chain, [kind |-> "PONG", id |-> 0, phase |-> "queued"])
                     ELSE chain
         /\ registered' = (registered \/ line = "376")
         /\ IF ws = "open" /\ line # "904"
            THEN buffer' = Tail(buffer) /\ UNCHANGED <<reader, stage, ws>>
            ELSE LeaveLoop /\ UNCHANGED buffer
  /\ UNCHANGED <<sasl, saslState, sock, lock, pending, incoming, collisions,
                 negotiated, wire, bounds>>

ReportFails ==
  /\ reader = "running" /\ buffer # <<>> /\ ws # "open"
  /\ Head(buffer) \in Reported /\ Reaction(Head(buffer)) # {}
  /\ LeaveLoop
  /\ UNCHANGED <<sock, pending, negotiation, writer, lines, bounds, history>>

(* The read loop's write settles; after the last one the lock is released  *)
(* and the line passed on.                                                 *)
ReaderWritten ==
  /\ reader = "writing" /\ sock = "open"
  /\ wire' = Written(pending.what, 0)
  /\ IF pending.left > 1
     THEN /\ pending' = [pending EXCEPT !.left = @ - 1]
          /\ UNCHANGED <<lock, saslState, reader, stage, ws, buffer>>
     ELSE /\ lock' = "free" /\ saslState' = pending.then /\ pending' = NoWrite
          /\ IF ws = "open"
             THEN /\ reader' = "running" /\ buffer' = Tail(buffer)
                  /\ UNCHANGED <<stage, ws>>
             ELSE LeaveLoop /\ UNCHANGED buffer
  /\ UNCHANGED <<sasl, registered, sock, chain, incoming, pings, collisions,
                 negotiated, bounds>>

ReaderWriteFails ==
  /\ reader = "writing" /\ Lost
  /\ lock' = "leaked" /\ pending' = NoWrite
  /\ LeaveLoop
  /\ UNCHANGED <<sock, chain, negotiation, lines, bounds, history>>

-----------------------------------------------------------------------------
(* The close listener                                                      *)

(* QUIT if the lock is free, then socket.close() in any case.              *)
WsClosed ==
  /\ Idle /\ ws # "closed"
  /\ ws' = "closed"
  /\ IF ~Listening THEN UNCHANGED <<lock, sock, collisions>>
     ELSE IF lock = "free" THEN lock' = "quit" /\ UNCHANGED <<sock, collisions>>
     ELSE sock' = "closed" /\ collisions' = collisions + 1 /\ UNCHANGED lock
  /\ UNCHANGED <<stage, chain, pings, negotiated, wire, negotiation, loop, lines, bounds>>

Quit ==
  /\ Idle /\ lock = "quit"
  /\ \/ sock = "open" /\ wire' = Written("QUIT", 0) /\ lock' = "free"
     \/ Lost /\ lock' = "leaked" /\ UNCHANGED wire
  /\ sock' = "closed"
  /\ UNCHANGED <<stage, ws, chain, pings, collisions, negotiated,
                 negotiation, loop, lines, bounds>>

-----------------------------------------------------------------------------
(* The server and the network                                              *)

ServerSays(line) ==
  /\ Idle /\ sock = "open" /\ wire # <<>> /\ said < MaxLines
  /\ said' = said + 1 /\ incoming' = Append(incoming, line)
  /\ UNCHANGED <<buffer, typed, negotiation, ends, writer, loop, history>>

ConnectionLost ==
  /\ Idle /\ MayLose /\ sock = "open" /\ sock' = "lost"
  /\ UNCHANGED <<stage, ws, negotiation, writer, loop, lines, bounds, history>>

Over ==
  /\ stage \in {"auth", "finished", "connecting"} /\ ws = "closed"
  /\ UNCHANGED vars

ReadLoop ==
  \/ \E n \in 1 .. Len(incoming) : ReadChunk(n)
  \/ AwaitChunk \/ EndOfStream \/ LineWrites \/ LinePassedOn \/ ReportFails
  \/ ReaderWritten \/ ReaderWriteFails

Chain == \E k \in 1 .. Len(chain) : Start(k) \/ TaskWritten(k) \/ TaskFails(k)

Next ==
  \/ \E s \in BOOLEAN : Auth(s)
  \/ AuthTimeout \/ ConnectFails \/ OpensLate \/ Opened \/ Registered \/ RegistrationFails
  \/ \E kind \in Typed : Type(kind)
  \/ Chain \/ ReadLoop
  \/ WsClosed \/ Quit
  \/ \E line \in Lines : ServerSays(line)
  \/ ConnectionLost
  \/ Over

Spec == Init /\ [][Next]_vars
(* The event loop runs what is ready, and a server that is there reads.    *)
FairSpec == Spec /\ WF_vars(Chain) /\ WF_vars(ReadLoop)

-----------------------------------------------------------------------------
(* Properties                                                              *)

CountOf(s, what) == Len(SelectSeq(s, LAMBDA w : w.what = what))

(* While both ends are there nobody asks for the lock when somebody holds  *)
(* it ("Serialize all writes to the IRC socket through a promise chain to  *)
(* prevent concurrent writer access").                                     *)
WritesSerialized == ws = "open" /\ sock = "open" => collisions = 0

(* The same in a session whose read loop has not written, which it does    *)
(* without the chain, and where no malformed command kept the lock.        *)
ChainSerializes == ~negotiated /\ lock # "stuck" => WritesSerialized

(* A PING is answered in the end, unless the session ends or its lock is   *)
(* taken by the read loop or kept by a malformed command.                  *)
PingsAnswered ==
  \A p \in 1 .. MaxLines :
    (pings >= p) ~> (CountOf(wire, "PONG") >= p \/ negotiated \/ lock = "stuck"
                     \/ ws # "open" \/ Lost)

(* The browser's messages reach the server in the order they were typed.   *)
CommandsInOrder ==
  \A i, j \in 1 .. Len(wire) :
    i < j /\ wire[i].id # 0 /\ wire[j].id # 0 => wire[i].id < wire[j].id

(* Well-formed commands, answers and the read loop's writes release the    *)
(* lock, unless the write failed ("All stream readers and writers are      *)
(* released in finally blocks").                                           *)
LockReleased == lock = "leaked" => Lost

=============================================================================
