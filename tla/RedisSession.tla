---------------------------- MODULE RedisSession ----------------------------
(***************************************************************************)
(* The interactive Redis session of src/worker/redis.ts: the wait for      *)
(* credentials, AUTH / SELECT / INFO, then one asynchronous handler per    *)
(* command message.  Every exchange is a call: write the command, then     *)
(* readRESPResponse, whose reader.read() races a timer.  Nothing ties an   *)
(* answer to its command but the order of the reads.                       *)
(*                                                                         *)
(* A reply is a sequence of pieces; a chunk of TCP data is any prefix of   *)
(* the pieces in flight.  Blocked commands change no state and are left    *)
(* out.  The browser, the server and the streams are modelled from what    *)
(* the code asks of them.                                                  *)
(***************************************************************************)
EXTENDS Integers, Sequences, SequencesExt

CONSTANTS
  MaxCommands, \* bound: command messages in one behaviour
  MaxPieces,   \* bound: pieces a reply is cut into
  Modes        \* the sessions considered, see Mode

(* A kind of session: does the browser send a command before the last one  *)
(* is settled; may a read outlast its timer; may a chunk end in the middle *)
(* of a reply; MAX_RESP_BUFFER, in pieces.                                 *)
Mode == [pipelined : BOOLEAN, late : BOOLEAN, split : BOOLEAN, bufferMax : Nat]

ASSUME BoundsAssumption == MaxCommands \in Nat /\ MaxPieces \in Nat \ {0}
ASSUME ModesAssumption == Modes \subseteq Mode

VARIABLES
  mode,      \* the kind of this session
  stage,     \* "init", "connecting", "handshake", "ready" or "over"
  authTimer, \* the 15 s timer: "set", "cleared" or "fired"
  ws,        \* the worker's end of the WebSocket: "open", "closing" or "closed"
  sock,      \* the TCP socket: "none", "opening", "open", "lost" or "closed"
  login,     \* what the auth message asked for
  calls,     \* the exchanges begun, in the order of their writes
  requests,  \* the calls with a pending reader.read(), first come first served
  stream,    \* pieces on their way from the server
  answered,  \* how many commands the server has answered
  oks,       \* history: the calls the server answered with +OK
  out        \* history: the responses the browser was sent

ends == <<stage, ws, sock>>
entry == <<authTimer, login>>
io == <<requests, stream>>
server == <<answered, oks>>
vars == <<mode, ends, entry, calls, io, server, out>>

Piece == [call : Nat, ok : BOOLEAN, last : BOOLEAN]
Call == [kind : {"AUTH", "SELECT", "INFO", "command"},
         phase : {"writing", "reading", "abandoned", "done", "failed"},
         buf : Seq(Piece)]

TypeOK ==
  /\ mode \in Modes
  /\ stage \in {"init", "connecting", "handshake", "ready", "over"}
  /\ authTimer \in {"set", "cleared", "fired"}
  /\ ws \in {"open", "closing", "closed"}
  /\ sock \in {"none", "opening", "open", "lost", "closed"}
  /\ login \in [password : BOOLEAN, database : BOOLEAN]
  /\ calls \in Seq(Call)
  /\ requests \in Seq({i \in 1 .. Len(calls) :
                         calls[i].phase \in {"reading", "abandoned"}})
  /\ stream \in Seq(Piece)
  /\ answered \in 0 .. Len(calls)
  /\ oks \subseteq 1 .. Len(calls)
  /\ out \in Seq([call : Nat, reply : Seq(Piece)])

Init ==
  /\ mode \in Modes
  /\ stage = "init" /\ authTimer = "set" /\ ws = "open" /\ sock = "none"
  /\ login = [password |-> FALSE, database |-> FALSE]
  /\ calls = <<>> /\ requests = <<>> /\ stream = <<>> /\ answered = 0
  /\ oks = {} /\ out = <<>>

Unsettled(c) == c.phase \in {"writing", "reading"}
Commands == {i \in 1 .. Len(calls) : calls[i].kind = "command"}
Issued(cs, kind) == Append(cs, [kind |-> kind, phase |-> "writing", buf |-> <<>>])

-----------------------------------------------------------------------------
(* Before the session is ready                                             *)

(* Nobody sent credentials for 15 s.                                       *)
AuthTimeout ==
  /\ stage = "init" /\ authTimer = "set" /\ ws = "open"
  /\ authTimer' = "fired" /\ ws' = "closing"
  /\ UNCHANGED <<mode, stage, sock, login, calls, out, io, server>>

(* The first auth message; initHandler removes itself and connects.  The   *)
(* timer's close() does not keep a message under way from being heard.     *)
AuthMessage(password, database) ==
  /\ stage = "init" /\ ws # "closed"
  /\ login' = [password |-> password, database |-> database]
  /\ stage' = "connecting" /\ sock' = "opening"
  /\ authTimer' = IF authTimer = "set" THEN "cleared" ELSE authTimer
  /\ UNCHANGED <<mode, ws, calls, out, io, server>>

Opened ==
  /\ stage = "connecting" /\ sock = "opening"
  /\ sock' = "open" /\ stage' = "handshake"
  /\ calls' = Issued(calls, IF login.password THEN "AUTH"
                            ELSE IF login.database THEN "SELECT" ELSE "INFO")
  /\ UNCHANGED <<mode, ws, out, entry, io, server>>

(* The catch of initHandler: an error message, then close().  On a         *)
(* WebSocket that is not open the send throws first.                       *)
Rejected == IF ws = "open" THEN "closing" ELSE ws

ConnectRefused ==
  /\ stage = "connecting" /\ sock = "opening"
  /\ sock' = "lost" /\ stage' = "over" /\ ws' = Rejected
  /\ UNCHANGED <<mode, calls, out, entry, io, server>>

(* The race of socket.opened with 30 s; the socket goes on opening.        *)
ConnectTimeout ==
  /\ stage = "connecting" /\ sock = "opening"
  /\ stage' = "over" /\ ws' = Rejected
  /\ UNCHANGED <<mode, sock, calls, out, entry, io, server>>

OpensLate ==
  /\ stage = "over" /\ sock = "opening"
  /\ sock' = "open"
  /\ UNCHANGED <<mode, stage, ws, calls, out, entry, io, server>>

-----------------------------------------------------------------------------
(* The end of a call                                                       *)

(* startsWith('+OK')                                                       *)
Accepted(reply) == reply # <<>> /\ reply[1].ok
\* Bug: the answer to SELECT is not looked at.
Accepts_NotSelect(i, reply) == calls[i].kind = "SELECT" \/ Accepted(reply)
Accepts(i, reply) == Accepted(reply)

(* Call i ends with a reply.  cs is calls with call i already ended.       *)
HandshakeGoesOn(i, cs) ==
  /\ calls' = Issued(cs, IF calls[i].kind = "AUTH" /\ login.database
                         THEN "SELECT" ELSE "INFO")
  /\ UNCHANGED <<out, ends>>

HandshakeRefused(cs) ==
  /\ calls' = cs
  /\ stage' = "over" /\ sock' = "closed"
  /\ ws' = Rejected
  /\ UNCHANGED out

HandshakeDone(cs) ==
  /\ calls' = cs
  /\ stage' = IF ws = "open" THEN "ready" ELSE "over"
  /\ UNCHANGED <<ws, sock, out>>

Respond(i, reply, cs) ==
  /\ calls' = cs
  /\ out' = IF ws = "open" THEN Append(out, [call |-> i, reply |-> reply]) ELSE out
  /\ UNCHANGED <<ends>>

Settle(i, reply) ==
  LET cs == [calls EXCEPT ![i].phase = "done", ![i].buf = <<>>]
  IN  \/ /\ calls[i].kind \in {"AUTH", "SELECT"} /\ Accepts(i, reply)
         /\ HandshakeGoesOn(i, cs)
      \/ /\ calls[i].kind \in {"AUTH", "SELECT"} /\ ~Accepts(i, reply)
         /\ HandshakeRefused(cs)
      \/ calls[i].kind = "INFO" /\ HandshakeDone(cs)
      \/ calls[i].kind = "command" /\ Respond(i, reply, cs)

(* Call i throws.  In the handshake that ends the session, without closing *)
(* the socket; for a command it is an error message.                       *)
Fail(i, phase) ==
  /\ calls' = [calls EXCEPT ![i].phase = phase, ![i].buf = <<>>]
  /\ IF calls[i].kind = "command"
     THEN UNCHANGED <<stage, ws>>
     ELSE stage' = "over" /\ ws' = Rejected
  /\ UNCHANGED <<sock, out>>

-----------------------------------------------------------------------------
(* Calls                                                                   *)

(* A command message in a ready session.  The handler does not wait for    *)
(* the previous one; a browser may.                 *)
MayCommand == mode.pipelined \/ \A i \in Commands : ~Unsettled(calls[i])

Command ==
  /\ stage = "ready" /\ ws = "open" /\ Cardinality(Commands) < MaxCommands
  /\ MayCommand
  /\ calls' = Issued(calls, "command")
  /\ UNCHANGED <<mode, out, ends, entry, io, server>>

(* Writes settle in the order they were made.                              *)
NextWrite(i) ==
  /\ calls[i].phase = "writing"
  /\ \A j \in 1 .. i - 1 : calls[j].phase # "writing"

WriteDone(i) ==
  /\ NextWrite(i) /\ sock = "open"
  /\ calls' = [calls EXCEPT ![i].phase = "reading"]
  /\ requests' = Append(requests, i)
  /\ UNCHANGED <<mode, stream, out, ends, entry, server>>

WriteFails(i) ==
  /\ NextWrite(i) /\ sock = "lost"
  /\ Fail(i, "failed")
  /\ UNCHANGED <<mode, entry, io, server>>

(* isCompleteRESP: the buffer holds the end of its first value.            *)
Complete(buf) == \E k \in 1 .. Len(buf) : buf[k].last
\* Bug: any data is taken for a whole reply.
Complete_Any(buf) == buf # <<>>
IsComplete(buf) == Complete(buf)

(* parseRESPValue: the first value of the buffer, up to the piece that      *)
(* ends it; the rest is dropped.                                           *)
FirstValue(buf) ==
  [k \in {k \in 1 .. Len(buf) : \A j \in 1 .. k - 1 : ~buf[j].last} |-> buf[k]]

(* A timed-out call's read is still pending: it takes one chunk and ends.  *)
Discard(i) ==
  /\ calls[i].phase = "abandoned"
  /\ calls' = [calls EXCEPT ![i].phase = "failed"]
  /\ requests' = Tail(requests)
  /\ UNCHANGED <<out, ends>>

(* The reply is too large; what follows of it is left for the next read.    *)
TooLarge(i, buf) ==
  /\ calls[i].phase = "reading" /\ Len(buf) > mode.bufferMax
  /\ Fail(i, "failed")
  /\ requests' = Tail(requests)

Finish(i, buf) ==
  /\ calls[i].phase = "reading" /\ Len(buf) <= mode.bufferMax /\ IsComplete(buf)
  /\ Settle(i, FirstValue(buf))
  /\ requests' = Tail(requests)

ReadOn(i, buf) ==
  /\ calls[i].phase = "reading" /\ Len(buf) <= mode.bufferMax /\ ~IsComplete(buf)
  /\ calls' = [calls EXCEPT ![i].buf = buf]
  /\ requests' = Append(Tail(requests), i)
  /\ UNCHANGED <<out, ends>>

(* The deadline has passed but the timer's turn has not come: the loop     *)
(* ends with what it has.                                                  *)
DeadlinePassed(i, buf) ==
  /\ mode.late
  /\ calls[i].phase = "reading" /\ Len(buf) <= mode.bufferMax /\ ~IsComplete(buf)
  /\ Settle(i, buf)
  /\ requests' = Tail(requests)

(* A chunk of n pieces goes to the oldest pending read.                    *)
Chunk(n) ==
  /\ requests # <<>> /\ n \in 1 .. Len(stream)
  /\ mode.split \/ stream[n].last
  /\ LET i == Head(requests)
         buf == calls[i].buf \o SubSeq(stream, 1, n)
     IN  \/ Discard(i) \/ TooLarge(i, buf)
         \/ Finish(i, buf) \/ ReadOn(i, buf) \/ DeadlinePassed(i, buf)
  /\ stream' = SubSeq(stream, n + 1, Len(stream))
  /\ UNCHANGED <<mode, entry, server>>

(* reader.read() returns done: the loop ends with what it has.  Or it      *)
(* rejects.                                                                *)
EndOfStream ==
  /\ requests # <<>> /\ stream = <<>> /\ sock = "lost"
  /\ LET i == Head(requests)
     IN  \/ calls[i].phase = "reading" /\ Settle(i, calls[i].buf)
         \/ calls[i].phase = "reading" /\ Fail(i, "failed")
         \/ calls[i].phase = "abandoned" /\ Fail(i, "failed")
  /\ requests' = Tail(requests)
  /\ UNCHANGED <<mode, stream, entry, server>>

(* The race of readUntilComplete is lost; its read stays in the queue.     *)
\* Bug: the read is awaited without a timer.
TimerSet_Never == FALSE
TimerSet == mode.late

\* Bug: the read is cancelled, and the late reply is left for the next one.
AfterTimeout_Cancelled(i) == SelectSeq(requests, LAMBDA j : j # i)
AfterTimeout(i) == requests

ReadTimeout(i) ==
  /\ TimerSet /\ calls[i].phase = "reading"
  /\ Fail(i, "abandoned")
  /\ requests' = AfterTimeout(i)
  /\ UNCHANGED <<mode, stream, entry, server>>

(* The close event.  The listener that releases the locks and closes the   *)
(* socket is only there once the session is ready.                         *)
Released == <<>>

WsClosed ==
  /\ ws # "closed"
  /\ ws' = "closed"
  /\ authTimer' = IF authTimer = "set" THEN "cleared" ELSE authTimer
  /\ IF stage = "ready"
     THEN /\ calls' = [i \in 1 .. Len(calls) |->
                         IF Unsettled(calls[i]) \/ calls[i].phase = "abandoned"
                         THEN [calls[i] EXCEPT !.phase = "failed", !.buf = <<>>]
                         ELSE calls[i]]
          /\ requests' = Released /\ sock' = "closed" /\ stage' = "over"
     ELSE /\ stage' = IF stage = "init" THEN "over" ELSE stage
          /\ UNCHANGED <<calls, requests, sock>>
  /\ UNCHANGED <<mode, login, stream, out, server>>

-----------------------------------------------------------------------------
(* The server                                                              *)

ServerAnswers(n, ok) ==
  /\ sock = "open" /\ answered < Len(calls)
  /\ LET i == answered + 1
     IN  /\ calls[i].kind \in {"AUTH", "SELECT"} \/ ~ok
         /\ stream' = stream \o [k \in 1 .. n |->
                                   [call |-> i, ok |-> ok /\ k = 1, last |-> k = n]]
         /\ answered' = i
         /\ oks' = IF ok THEN oks \cup {i} ELSE oks
  /\ UNCHANGED <<mode, calls, requests, out, ends, entry>>

ConnectionLost ==
  /\ sock = "open" /\ sock' = "lost"
  /\ UNCHANGED <<mode, stage, ws, calls, out, entry, io, server>>

-----------------------------------------------------------------------------
Over ==
  /\ stage = "over" /\ ws = "closed" /\ UNCHANGED vars

Next ==
  \/ AuthTimeout
  \/ \E password, database \in BOOLEAN : AuthMessage(password, database)
  \/ Opened \/ ConnectRefused \/ ConnectTimeout \/ OpensLate
  \/ Command
  \/ \E i \in 1 .. Len(calls) : WriteDone(i) \/ WriteFails(i) \/ ReadTimeout(i)
  \/ \E n \in 1 .. Len(stream) : Chunk(n)
  \/ EndOfStream
  \/ WsClosed
  \/ \E n \in 1 .. MaxPieces, ok \in BOOLEAN : ServerAnswers(n, ok)
  \/ ConnectionLost
  \/ Over

Spec == Init /\ [][Next]_vars

MaxCalls == MaxCommands + 3

(* Timers fire and the event loop settles what can be settled.  The server *)
(* owes nothing; it is assumed to read what it is sent.                    *)
FairSpec ==
  /\ Spec
  /\ WF_vars(ConnectTimeout)
  /\ WF_vars(EndOfStream)
  /\ \A i \in 1 .. MaxCalls :
       WF_vars(i <= Len(calls) /\ (WriteDone(i) \/ WriteFails(i) \/ ReadTimeout(i)))

-----------------------------------------------------------------------------
(* Properties                                                              *)

(* A command runs only where the browser asked for it: after the server    *)
(* accepted the password and the database, whatever was late, split or     *)
(* lost before.                                                            *)
CommandsAfterLogin ==
  \A i \in Commands : \A j \in 1 .. i - 1 :
    calls[j].kind \in {"AUTH", "SELECT"} => j \in oks

(* A response holds pieces of the reply to its own command only, if the    *)
(* browser waits for each answer: replies may be cut anywhere, or come     *)
(* after their command timed out (but not both: the rest of a late reply   *)
(* would be the next command's), and fit in the buffer.  Without that it   *)
(* does not hold: nothing ties a reply to its command.                     *)
RepliesMatchInTurn ==
  ~mode.pipelined /\ ~(mode.late /\ mode.split) /\ mode.bufferMax >= MaxPieces
    => \A k \in 1 .. Len(out) : \A p \in 1 .. Len(out[k].reply) :
         out[k].reply[p].call = out[k].call

(* A response is a whole reply as long as the connection stands and its    *)
(* read was in time ("Read a complete RESP response from the socket").     *)
RepliesComplete ==
  [][sock = "open" /\ ~mode.late /\ out' # out =>
       LET reply == out'[Len(out')].reply IN reply # <<>> /\ Complete(reply)]_vars

(* A read that no reply ends does not hold its command for ever: every     *)
(* call of the session is settled.                                         *)
CallsSettle ==
  \A i \in 1 .. MaxCalls :
    (i <= Len(calls) /\ Unsettled(calls[i]) /\ mode.late) ~>
      (i <= Len(calls) /\ ~Unsettled(calls[i]))

=============================================================================
