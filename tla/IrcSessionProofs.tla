-------------------------- MODULE IrcSessionProofs --------------------------
(***************************************************************************)
(* The writer lock of the IRC session and the order of its writes, for any *)
(* number of messages, lines and channels.                                 *)
(*                                                                         *)
(* The invariant names, for each value of the lock, who can be about to    *)
(* give it back: the task at the head of the chain, the read loop at an    *)
(* awaited write, the close listener, or nobody.  With it, a getWriter()   *)
(* that finds the lock taken is laid at the door of one of them.           *)
(***************************************************************************)
EXTENDS IrcSession, SequenceTheorems, TLAPS

Early == {"auth", "connecting", "registering"}

(* Before the listeners are installed nothing is queued or read.           *)
EarlyState ==
  /\ stage \in Early => /\ chain = <<>> /\ reader = "off"
                        /\ lock = IF stage = "registering" THEN "reg" ELSE "free"
  /\ stage = "auth" => sock = "none"
  /\ stage = "connecting" => sock = "opening"

(* Only the head of the chain is being written, with the lock, and only a  *)
(* well-formed command gets that far.                                      *)
ChainState ==
  /\ \A k \in 1 .. Len(chain) :
       chain[k].phase = "writing" => k = 1 /\ lock = "chain" /\ chain[k].kind # "bad"
  /\ lock = "chain" => chain # <<>> /\ chain[1].phase = "writing"

(* Whoever holds the lock has left a trace.                                *)
HolderState ==
  /\ lock = "reader" => negotiated
  /\ lock = "quit" => ws = "closed"
  /\ reader = "writing" => buffer # <<>>
  /\ LockReleased

(* A getWriter() that found the lock taken, and why it did.                *)
Blamed ==
  collisions # 0 => negotiated \/ lock = "stuck" \/ ws # "open" \/ Lost

(* Messages are numbered as they are typed; PONGs have no number.  In a    *)
(* rising list every numbered element has a larger number than those       *)
(* before it.                                                              *)
Rising(s) ==
  \A i, j \in 1 .. Len(s) : i < j /\ s[j].id # 0 => s[i].id < s[j].id

WritesRise ==
  /\ Rising(wire) /\ Rising(chain)
  /\ \A i \in 1 .. Len(wire), k \in 1 .. Len(chain) :
       chain[k].id # 0 => wire[i].id < chain[k].id
  /\ \A i \in 1 .. Len(wire) : wire[i].id <= typed
  /\ \A k \in 1 .. Len(chain) : chain[k].id <= typed

LockInv == TypeOK /\ EarlyState /\ ChainState /\ HolderState /\ Blamed

-----------------------------------------------------------------------------
(* Taking the task at the head off the chain. *)
LEMMA HeadRemoved ==
  ASSUME NEW S, NEW s \in Seq(S), s # <<>>
  PROVE  /\ Len(s) \in Nat \ {0}
         /\ RemoveAt(s, 1) \in Seq(S)
         /\ Len(RemoveAt(s, 1)) = Len(s) - 1
         /\ \A i \in 1 .. Len(s) - 1 : RemoveAt(s, 1)[i] = s[i + 1]
<1>1. Len(s) \in Nat \ {0}
  BY EmptySeq
<1>2. SubSeq(s, 1, 1 - 1) = <<>>
  BY SubSeqEmpty
<1>3. SubSeq(s, 1 + 1, Len(s)) = Tail(s)
  BY TailIsSubSeq
<1>4. Tail(s) \in Seq(S) /\ Len(Tail(s)) = Len(s) - 1
      /\ \A i \in 1 .. Len(s) - 1 : Tail(s)[i] = s[i + 1]
  BY HeadTailProperties
<1>5. RemoveAt(s, 1) = Tail(s)
  BY <1>2, <1>3, <1>4, ConcatEmptySeq DEF RemoveAt
<1> QED BY <1>1, <1>4, <1>5

(* Adding an element at the end. *)
LEMMA Appended ==
  ASSUME NEW S, NEW s \in Seq(S), NEW e \in S
  PROVE  /\ Len(s) \in Nat
         /\ Append(s, e) \in Seq(S) /\ Append(s, e) # <<>>
         /\ Len(Append(s, e)) = Len(s) + 1
         /\ \A i \in 1 .. Len(s) : Append(s, e)[i] = s[i]
         /\ Append(s, e)[Len(s) + 1] = e
BY AppendProperties, LenProperties

LEMMA RisingAppend ==
  ASSUME NEW S, NEW s \in Seq(S), NEW e \in S, Rising(s),
         \A i \in 1 .. Len(s) : e.id # 0 => s[i].id < e.id
  PROVE  Rising(Append(s, e))
<1> DEFINE t == Append(s, e)
<1>1. /\ Len(s) \in Nat /\ Len(t) = Len(s) + 1
      /\ \A i \in 1 .. Len(s) : t[i] = s[i]
      /\ t[Len(s) + 1] = e
  BY Appended
<1> HIDE DEF t
<1>2. ASSUME NEW i \in 1 .. Len(t), NEW j \in 1 .. Len(t), i < j, t[j].id # 0
      PROVE  t[i].id < t[j].id
  <2>1. i \in 1 .. Len(s) /\ t[i] = s[i]
    BY <1>1, <1>2
  <2>2. CASE j \in 1 .. Len(s)
    BY <1>1, <1>2, <2>1, <2>2 DEF Rising
  <2>3. CASE j = Len(s) + 1
    BY <1>1, <1>2, <2>1, <2>3
  <2> QED BY <1>1, <2>2, <2>3
<1> QED BY <1>2 DEF Rising, t

LEMMA NoWriteType ==
  /\ Channels \in Nat
  /\ NoWrite \in [what : Writes, left : 0 .. Channels + 1, then : SaslStates]
<1>1. Channels \in Nat
  BY BoundsAssumption
<1>2. 0 \in 0 .. Channels + 1
  BY <1>1
<1> QED BY <1>1, <1>2 DEF NoWrite, Writes, SaslStates

LEMMA InitLock == Init => LockInv /\ WritesRise
<1> SUFFICES ASSUME Init PROVE LockInv /\ WritesRise
  OBVIOUS
<1>1. \A S : <<>> \in Seq(S) /\ Len(<<>>) = 0
  BY EmptySeq
<1>2. TypeOK
  <2>1. NoWrite \in [what : Writes, left : 0 .. Channels + 1, then : SaslStates]
    BY NoWriteType
  <2> QED BY <1>1, <2>1 DEF Init, TypeOK, SaslStates
<1>3. EarlyState /\ ChainState /\ HolderState /\ Blamed /\ WritesRise
  BY <1>1 DEF Init, EarlyState, ChainState, HolderState, LockReleased, Blamed, WritesRise,
              Rising
<1> QED BY <1>2, <1>3 DEF LockInv

-----------------------------------------------------------------------------
(***************************************************************************)
(* Type correctness                                                        *)
(***************************************************************************)

(* The write a line calls for is one the read loop knows. *)
LEMMA ReactionType ==
  ASSUME TypeOK, NEW line, NEW w \in Reaction(line)
  PROVE  w \in [what : Writes, left : 0 .. Channels + 1, then : SaslStates]
<1>1. Channels \in Nat /\ saslState \in SaslStates
  BY NoWriteType DEF TypeOK
<1>2. \A what \in Writes, n \in 0 .. Channels + 1, then \in SaslStates :
        Write(what, n, then)
          \subseteq [what : Writes, left : 0 .. Channels + 1, then : SaslStates]
  BY DEF Write
<1>3. 1 \in 0 .. Channels + 1 /\ Channels \in 0 .. Channels + 1
  BY <1>1
<1>4. /\ {"CAP REQ", "AUTHENTICATE", "CAP END", "credentials", "JOIN"} \subseteq Writes
      /\ {"cap_req", "authenticate", "no_sasl", "credentials", "done"} \subseteq SaslStates
  BY DEF Writes, SaslStates
<1>5. \/ Reaction(line) = Write("CAP REQ", 1, "cap_req")
      \/ Reaction(line) = Write("AUTHENTICATE", 1, "authenticate")
      \/ Reaction(line) = Write("CAP END", 1, "no_sasl")
      \/ Reaction(line) = Write("credentials", 1, "credentials")
      \/ Reaction(line) = Write("CAP END", 1, "done")
      \/ Reaction(line) = Write("JOIN", Channels, saslState)
      \/ Reaction(line) = {}
  <2>1. CASE line \in {"LS sasl", "LS", "ACK", "NAK"}
    <3>1. Reaction(line) = CapReply(line)
      BY <2>1 DEF Reaction
    <3> QED BY <3>1 DEF CapReply
  <2>2. CASE line = "+"
    <3>1. Reaction(line) = IF saslState = "authenticate"
                           THEN Write("credentials", 1, "credentials") ELSE {}
      BY <2>2 DEF Reaction
    <3> QED BY <3>1
  <2>3. CASE line = "903"
    BY <2>3 DEF Reaction
  <2>4. CASE line = "376"
    <3>1. Reaction(line) = IF JoinDue THEN Write("JOIN", Channels, saslState) ELSE {}
      BY <2>4 DEF Reaction
    <3> QED BY <3>1
  <2>5. CASE line \notin {"LS sasl", "LS", "ACK", "NAK", "+", "903", "376"}
    BY <2>5 DEF Reaction
  <2> QED BY <2>1, <2>2, <2>3, <2>4, <2>5
<1>6. \E what \in Writes, n \in 0 .. Channels + 1, then \in SaslStates :
        Reaction(line) = Write(what, n, then)
  <2>1. Reaction(line) # {}
    OBVIOUS
  <2> HIDE DEF Write
  <2> QED BY <1>1, <1>3, <1>4, <1>5, <2>1
<1> QED BY <1>2, <1>6

LEMMA TypeStep == LockInv /\ [Next]_vars => TypeOK'
<1> SUFFICES ASSUME LockInv, [Next]_vars PROVE TypeOK'
  OBVIOUS
<1> USE DEF LockInv, TypeOK, negotiation, ends, writer, loop, lines, bounds, history
<1>1. CASE \E s \in BOOLEAN : Auth(s)
  BY <1>1 DEF Auth
<1>2. CASE AuthTimeout \/ ConnectFails \/ OpensLate
  BY <1>2 DEF AuthTimeout, ConnectFails, OpensLate, CloseWs
<1>3. CASE Opened
  BY <1>3 DEF Opened, EarlyState, Early
<1>4. CASE Registered
  <2>1. [what |-> "REGISTER", id |-> 0] \in [what : Writes, id : Nat]
    BY DEF Writes
  <2>2. wire' \in Seq([what : Writes, id : Nat])
    BY <1>4, <2>1, Appended DEF Registered, Written
  <2> QED BY <1>4, <2>2 DEF Registered, AfterRegistration, EarlyState, Early
<1>5. CASE RegistrationFails
  BY <1>5 DEF RegistrationFails, CloseWs, EarlyState, Early
<1>6. CASE \E kind \in Typed : Type(kind)
  <2> PICK kind \in Typed : Type(kind)
    BY <1>6
  <2>1. [kind |-> kind, id |-> typed + 1, phase |-> "queued"] \in Task
    BY InputsAssumption DEF Task
  <2>2. chain' \in Seq(Task)
    BY <2>1, Appended DEF Type
  <2> QED BY <2>2 DEF Type
<1>7. CASE Chain
  <2> PICK k \in 1 .. Len(chain) : Start(k) \/ TaskWritten(k) \/ TaskFails(k)
    BY <1>7 DEF Chain
  <2>1. k = 1 /\ chain # <<>> /\ Len(chain) \in Nat /\ chain[1] \in Task
    <3>1. k = 1
      BY DEF Start, Turn, TaskWritten, TaskFails, ChainState
    <3> QED BY <3>1, LenProperties, ElementOfSeq, EmptySeq
  <2>2. RemoveAt(chain, 1) \in Seq(Task)
    BY <2>1, HeadRemoved
  <2>3. CASE Start(k)
    <3>1. [chain[1] EXCEPT !.phase = "writing"] \in Task
      BY <2>1 DEF Task
    <3>2. [chain EXCEPT ![1].phase = "writing"] = [chain EXCEPT ![1] = [chain[1] EXCEPT !.phase = "writing"]]
      OBVIOUS
    <3>3. [chain EXCEPT ![1].phase = "writing"] \in Seq(Task)
      BY <2>1, <3>1, <3>2, ExceptSeq
    <3>4. chain' \in Seq(Task)
      BY <2>1, <2>2, <2>3, <3>3 DEF Start
    <3> QED BY <2>3, <3>4 DEF Start
  <2>4. CASE TaskWritten(k)
    <3>1. [what |-> chain[1].kind, id |-> chain[1].id] \in [what : Writes, id : Nat]
      BY <2>1, <2>4 DEF TaskWritten, ChainState, Task, Writes
    <3>2. wire' \in Seq([what : Writes, id : Nat])
      BY <2>1, <2>4, <3>1, Appended DEF TaskWritten, Written
    <3>3. lock = "chain" /\ lock' = "free"
      BY <2>1, <2>4 DEF TaskWritten, AfterTask, ChainState
    <3> QED BY <2>1, <2>2, <2>4, <3>2, <3>3 DEF TaskWritten
  <2>5. CASE TaskFails(k)
    <3>1. lock = "chain" /\ lock' = "leaked"
      BY <2>1, <2>5 DEF TaskFails, ChainState
    <3> QED BY <2>1, <2>2, <2>5, <3>1 DEF TaskFails
  <2> QED BY <2>3, <2>4, <2>5
<1>8. CASE \E n \in 1 .. Len(incoming) : ReadChunk(n)
  <2> PICK n \in 1 .. Len(incoming) : ReadChunk(n)
    BY <1>8
  <2>1. /\ Len(incoming) \in Nat /\ n \in Nat
        /\ \A i \in 1 .. Len(incoming) : incoming[i] \in Lines
    BY LenProperties, ElementOfSeq
  <2>2. SubSeq(incoming, 1, n) \in Seq(Lines)
    BY <2>1, SubSeqProperties
  <2>3. SubSeq(incoming, n + 1, Len(incoming)) \in Seq(Lines)
    BY <2>1, SubSeqProperties
  <2> QED BY <2>2, <2>3 DEF ReadChunk
<1>9. CASE AwaitChunk \/ EndOfStream \/ ReportFails
  BY <1>9 DEF AwaitChunk, EndOfStream, ReportFails, LeaveLoop, CloseWs,
              EarlyState, Early
<1>10. CASE LineWrites
  <2>1. CASE lock = "free"
    <3>1. pending' \in Reaction(Head(buffer))
      BY <1>10, <2>1 DEF LineWrites
    <3>2. pending' \in [what : Writes, left : 0 .. Channels + 1, then : SaslStates]
      BY <3>1, ReactionType
    <3> QED BY <1>10, <2>1, <3>2 DEF LineWrites
  <2>2. CASE lock # "free"
    BY <1>10, <2>2 DEF LineWrites, LeaveLoop, CloseWs, EarlyState, Early
  <2> QED BY <2>1, <2>2
<1>11. CASE LinePassedOn
  <2>1. [kind |-> "PONG", id |-> 0, phase |-> "queued"] \in Task
    BY DEF Task
  <2>2. Append(chain, [kind |-> "PONG", id |-> 0, phase |-> "queued"]) \in Seq(Task)
    BY <2>1, Appended
  <2>3. chain' \in Seq(Task)
    BY <1>11, <2>2 DEF LinePassedOn
  <2>4. buffer' \in Seq(Lines)
    <3>1. buffer # <<>> /\ (buffer' = Tail(buffer) \/ buffer' = buffer)
      BY <1>11 DEF LinePassedOn
    <3>2. Tail(buffer) \in Seq(Lines)
      BY <3>1, HeadTailProperties
    <3> QED BY <3>1, <3>2
  <2>5. pings' \in Nat /\ registered' \in BOOLEAN
    BY <1>11 DEF LinePassedOn
  <2> QED BY <1>11, <2>3, <2>4, <2>5 DEF LinePassedOn, LeaveLoop, CloseWs, EarlyState, Early
<1>12. CASE ReaderWritten
  <2>1. [what |-> pending.what, id |-> 0] \in [what : Writes, id : Nat]
    OBVIOUS
  <2>2. wire' \in Seq([what : Writes, id : Nat])
    BY <1>12, <2>1, Appended DEF ReaderWritten, Written
  <2>3. CASE pending.left > 1
    <3>1. pending.left - 1 \in 0 .. Channels + 1
      BY <2>3, NoWriteType
    <3>2. pending' \in [what : Writes, left : 0 .. Channels + 1, then : SaslStates]
      BY <1>12, <2>3, <3>1 DEF ReaderWritten
    <3> QED BY <1>12, <2>2, <2>3, <3>2 DEF ReaderWritten
  <2>4. CASE ~(pending.left > 1)
    <3>1. buffer' \in Seq(Lines)
      <4>1. buffer # <<>> /\ (buffer' = Tail(buffer) \/ buffer' = buffer)
        BY <1>12, <2>4 DEF ReaderWritten, HolderState
      <4>2. Tail(buffer) \in Seq(Lines)
        BY <4>1, HeadTailProperties
      <4> QED BY <4>1, <4>2
    <3>2. pending' \in [what : Writes, left : 0 .. Channels + 1, then : SaslStates]
      BY <1>12, <2>4, NoWriteType DEF ReaderWritten
    <3> QED BY <1>12, <2>2, <2>4, <3>1, <3>2 DEF ReaderWritten, LeaveLoop, CloseWs
  <2> QED BY <2>3, <2>4
<1>13. CASE ReaderWriteFails
  BY <1>13, NoWriteType DEF ReaderWriteFails, LeaveLoop, CloseWs
<1>14. CASE WsClosed
  BY <1>14 DEF WsClosed
<1>15. CASE Quit
  <2>1. [what |-> "QUIT", id |-> 0] \in [what : Writes, id : Nat]
    BY DEF Writes
  <2>2. Append(wire, [what |-> "QUIT", id |-> 0]) \in Seq([what : Writes, id : Nat])
    BY <2>1, Appended
  <2> QED BY <1>15, <2>2 DEF Quit, Written
<1>16. CASE \E line \in Lines : ServerSays(line)
  <2> PICK line \in Lines : ServerSays(line)
    BY <1>16
  <2>1. incoming' \in Seq(Lines)
    BY Appended DEF ServerSays
  <2> QED BY <2>1 DEF ServerSays
<1>17. CASE ConnectionLost \/ Over \/ UNCHANGED vars
  BY <1>17 DEF ConnectionLost, Over, vars
<1> QED BY <1>1, <1>2, <1>3, <1>4, <1>5, <1>6, <1>7, <1>8, <1>9, <1>10, <1>11, <1>12,
           <1>13, <1>14, <1>15, <1>16, <1>17 DEF Next, ReadLoop

-----------------------------------------------------------------------------
(***************************************************************************)
(* The lock                                                                *)
(***************************************************************************)

(* What a task of the chain that starts, or settles its write, is.         *)
LEMMA ActiveTask ==
  ASSUME LockInv, NEW k \in 1 .. Len(chain),
         Start(k) \/ TaskWritten(k) \/ TaskFails(k)
  PROVE  /\ k = 1 /\ chain # <<>> /\ chain \in Seq(Task) /\ Len(chain) \in Nat \ {0}
         /\ chain[1].phase = "writing" <=> lock = "chain"
         /\ chain[1].phase \in {"queued", "writing"}
         /\ stage \notin Early
<1>1. chain \in Seq(Task) /\ k = 1
  BY DEF Start, Turn, TaskWritten, TaskFails, LockInv, ChainState, TypeOK
<1>2. Len(chain) \in Nat \ {0} /\ chain # <<>> /\ chain[1] \in Task
  BY <1>1, LenProperties, ElementOfSeq, EmptySeq
<1> QED BY <1>1, <1>2 DEF LockInv, ChainState, EarlyState, Task

LEMMA StartLock ==
  ASSUME LockInv, TypeOK', NEW k \in 1 .. Len(chain), Start(k)
  PROVE  LockInv'
<1>1. /\ k = 1 /\ chain # <<>> /\ chain \in Seq(Task) /\ Len(chain) \in Nat \ {0}
      /\ chain[1].phase = "queued" /\ lock # "chain"
      /\ chain[1].phase \in {"queued", "writing"} /\ stage \notin Early
  BY ActiveTask DEF Start
<1>2. UNCHANGED <<stage, ws, sock, reader, negotiated, registered, buffer>>
  BY DEF Start, negotiation, ends, loop, lines
<1>3. EarlyState'
  BY <1>1, <1>2 DEF EarlyState, LockInv
<1>4. \A j \in 1 .. Len(chain) : chain[j].phase # "writing"
  BY <1>1 DEF LockInv, ChainState
<1>5. CASE chain' = RemoveAt(chain, 1) /\ lock' # "chain"
  <2>1. ChainState'
    BY <1>1, <1>4, <1>5, HeadRemoved DEF ChainState
  <2>2. HolderState'
    BY <1>1, <1>2, <1>5 DEF Start, LockInv, HolderState, LockReleased, Lost
  <2>3. Blamed'
    BY <1>1, <1>2, <1>5
       DEF Start, LockInv, Blamed, HolderState, LockReleased, Lost, EarlyState, Early, TypeOK
  <2> QED BY <1>3, <2>1, <2>2, <2>3 DEF LockInv
<1>6. CASE /\ lock = "free" /\ lock' = "chain" /\ chain[1].kind # "bad"
           /\ chain' = [chain EXCEPT ![1].phase = "writing"] /\ UNCHANGED collisions
  <2>1. /\ DOMAIN chain = 1 .. Len(chain) /\ DOMAIN chain' = 1 .. Len(chain')
        /\ chain' \in Seq(Task) /\ Len(chain') \in Nat
    BY <1>1, LenProperties DEF TypeOK
  <2>2. /\ \A j \in 1 .. Len(chain) : j # 1 => chain'[j] = chain[j]
        /\ chain'[1] = [chain[1] EXCEPT !.phase = "writing"]
        /\ DOMAIN chain' = DOMAIN chain
    BY <1>1, <1>6, <2>1
  <2>3. 1 \in DOMAIN chain' /\ chain' # <<>>
    BY <1>1, <2>1, <2>2
  <2>4. chain'[1].phase = "writing" /\ chain'[1].kind # "bad"
    <3>1. chain[1] \in Task
      BY <1>1, ElementOfSeq
    <3> QED BY <1>6, <2>2, <3>1 DEF Task
  <2>5. \A j \in 1 .. Len(chain') :
          chain'[j].phase = "writing" => j = 1
    BY <1>4, <2>1, <2>2
  <2>6. ChainState'
    BY <1>6, <2>3, <2>4, <2>5 DEF ChainState
  <2>7. HolderState' /\ Blamed'
    BY <1>2, <1>6 DEF LockInv, HolderState, LockReleased, Blamed, Lost
  <2> QED BY <1>3, <2>6, <2>7 DEF LockInv
<1> QED BY <1>1, <1>5, <1>6 DEF Start

LEMMA SettleLock ==
  ASSUME LockInv, TypeOK', NEW k \in 1 .. Len(chain), TaskWritten(k) \/ TaskFails(k)
  PROVE  LockInv'
<1>1. /\ k = 1 /\ chain # <<>> /\ chain \in Seq(Task) /\ Len(chain) \in Nat \ {0}
      /\ lock = "chain" /\ stage \notin Early
  BY ActiveTask DEF TaskWritten, TaskFails
<1>2. /\ UNCHANGED <<stage, ws, sock, reader, negotiated, collisions, buffer>>
      /\ chain' = RemoveAt(chain, 1)
      /\ lock' = "free" \/ (lock' = "leaked" /\ Lost)
  BY <1>1 DEF TaskWritten, TaskFails, AfterTask, negotiation, ends, loop, lines, history
<1>3. ChainState'
  <2>1. \A j \in 1 .. Len(chain) : chain[j].phase = "writing" => j = 1
    BY DEF LockInv, ChainState
  <2> QED BY <1>1, <1>2, <2>1, HeadRemoved DEF ChainState
<1>4. EarlyState' /\ HolderState' /\ Blamed'
  BY <1>1, <1>2 DEF LockInv, EarlyState, HolderState, LockReleased, Blamed, Lost
<1> QED BY <1>3, <1>4 DEF LockInv

(* A task is queued, by the browser or for a PING. *)
LEMMA QueuedTask ==
  ASSUME LockInv, NEW t \in Task, t.phase = "queued",
         chain' = Append(chain, t), UNCHANGED lock
  PROVE  ChainState'
<1>1. /\ Len(chain) \in Nat /\ Len(chain') = Len(chain) + 1 /\ chain' # <<>>
      /\ \A i \in 1 .. Len(chain) : chain'[i] = chain[i]
      /\ chain'[Len(chain) + 1] = t
  BY Appended DEF LockInv, TypeOK
<1>2. chain # <<>> => 1 \in 1 .. Len(chain)
  BY <1>1, EmptySeq DEF LockInv, TypeOK
<1>3. ASSUME NEW j \in 1 .. Len(chain'), chain'[j].phase = "writing"
      PROVE  j = 1 /\ lock' = "chain" /\ chain'[j].kind # "bad"
  <2>1. j \in 1 .. Len(chain)
    BY <1>1, <1>3
  <2> QED BY <1>1, <1>3, <2>1 DEF LockInv, ChainState
<1>4. lock' = "chain" => chain' # <<>> /\ chain'[1].phase = "writing"
  BY <1>1, <1>2 DEF LockInv, ChainState
<1> QED BY <1>3, <1>4 DEF ChainState

(* The chain and who holds the lock matter to ChainState only through       *)
(* "chain".                                                                *)
LEMMA SameChain ==
  ASSUME ChainState, UNCHANGED chain, lock' = lock \/ (lock # "chain" /\ lock' # "chain")
  PROVE  ChainState'
BY DEF ChainState

LEMMA LockStep == LockInv /\ TypeOK' /\ [Next]_vars => LockInv'
<1> SUFFICES ASSUME LockInv, TypeOK', [Next]_vars PROVE LockInv'
  OBVIOUS
<1>0. TypeOK /\ EarlyState /\ ChainState /\ HolderState /\ Blamed
  BY DEF LockInv
<1> USE DEF EarlyState, Early, HolderState, LockReleased, Blamed, Lost,
            negotiation, ends, writer, loop, lines, bounds, history
<1>1. CASE (\E s \in BOOLEAN : Auth(s)) \/ AuthTimeout \/ ConnectFails \/ OpensLate
  <2>1. UNCHANGED <<lock, chain, reader, collisions, negotiated, buffer>>
    BY <1>1 DEF Auth, AuthTimeout, ConnectFails, OpensLate
  <2>2. ChainState'
    BY <1>0, <2>1, SameChain
  <2>3. CASE \E s \in BOOLEAN : Auth(s)
    BY <1>0, <2>1, <2>2, <2>3 DEF LockInv, Auth
  <2>4. CASE AuthTimeout \/ ConnectFails \/ OpensLate
    BY <1>0, <2>1, <2>2, <2>4 DEF LockInv, AuthTimeout, ConnectFails, OpensLate, CloseWs
  <2> QED BY <1>1, <2>3, <2>4
<1>2. CASE Opened \/ Registered \/ RegistrationFails
  BY <1>0, <1>2, SameChain
     DEF LockInv, Opened, Registered, RegistrationFails, AfterRegistration, CloseWs
<1>3. CASE \E kind \in Typed : Type(kind)
  <2> PICK kind \in Typed : Type(kind)
    BY <1>3
  <2> DEFINE t == [kind |-> kind, id |-> typed + 1, phase |-> "queued"]
  <2>1. t \in Task /\ t.phase = "queued" /\ chain' = Append(chain, t) /\ UNCHANGED lock
    BY <1>0, InputsAssumption DEF Task, Type, TypeOK
  <2>2. ChainState'
    BY <2>1, QueuedTask
  <2>3. EarlyState' /\ HolderState' /\ Blamed'
    BY <1>0 DEF Type, Listening
  <2> QED BY <2>2, <2>3 DEF LockInv
<1>4. CASE Chain
  BY <1>4, StartLock, SettleLock DEF Chain
<1>5. CASE (\E n \in 1 .. Len(incoming) : ReadChunk(n)) \/ AwaitChunk \/ EndOfStream
           \/ ReportFails
  BY <1>0, <1>5, SameChain
     DEF LockInv, ReadChunk, AwaitChunk, EndOfStream, ReportFails, LeaveLoop, CloseWs
<1>6. CASE LineWrites
  BY <1>0, <1>6, SameChain DEF LockInv, LineWrites, LeaveLoop, CloseWs
<1>7. CASE LinePassedOn
  <2> DEFINE t == [kind |-> "PONG", id |-> 0, phase |-> "queued"]
  <2>1. t \in Task /\ t.phase = "queued"
    BY DEF Task
  <2>2. UNCHANGED lock /\ (chain' = Append(chain, t) \/ chain' = chain)
    BY <1>7 DEF LinePassedOn
  <2> HIDE DEF t
  <2>3. ChainState'
    BY <1>0, <2>1, <2>2, QueuedTask, SameChain
  <2>4. EarlyState' /\ HolderState' /\ Blamed'
    BY <1>0, <1>7 DEF LinePassedOn, LeaveLoop, CloseWs
  <2> QED BY <2>3, <2>4 DEF LockInv
<1>8. CASE ReaderWritten
  <2>1. reader = "writing" /\ lock = "reader" /\ UNCHANGED chain
    BY <1>0, <1>8 DEF ReaderWritten, TypeOK
  <2>2. CASE pending.left > 1
    BY <1>0, <1>8, <2>1, <2>2, SameChain DEF LockInv, ReaderWritten
  <2>3. CASE ~(pending.left > 1)
    BY <1>0, <1>8, <2>1, <2>3, SameChain DEF LockInv, ReaderWritten, LeaveLoop, CloseWs
  <2> QED BY <2>2, <2>3
<1>9. CASE ReaderWriteFails
  BY <1>0, <1>9, SameChain DEF LockInv, ReaderWriteFails, LeaveLoop, CloseWs, TypeOK
<1>10. CASE WsClosed
  BY <1>0, <1>10, SameChain DEF LockInv, WsClosed, Listening
<1>11. CASE Quit
  BY <1>0, <1>11, SameChain DEF LockInv, Quit
<1>12. CASE (\E line \in Lines : ServerSays(line)) \/ ConnectionLost \/ Over \/ UNCHANGED vars
  BY <1>0, <1>12, SameChain DEF LockInv, ServerSays, ConnectionLost, Over, vars
<1> QED BY <1>1, <1>2, <1>3, <1>4, <1>5, <1>6, <1>7, <1>8, <1>9, <1>10, <1>11, <1>12
        DEF Next, ReadLoop

-----------------------------------------------------------------------------
(***************************************************************************)
(* The order of the writes                                                 *)
(***************************************************************************)

(* A write without a number: the wire grows and nothing else changes.      *)
LEMMA UnnumberedWrite ==
  ASSUME LockInv, WritesRise, UNCHANGED <<chain, typed>>, NEW what \in Writes,
         wire' = Append(wire, [what |-> what, id |-> 0])
  PROVE  WritesRise'
<1> DEFINE e == [what |-> what, id |-> 0]
           S == [what : Writes, id : Nat]
<1>1. wire \in Seq(S) /\ e \in S /\ e.id = 0 /\ wire' = Append(wire, e) /\ typed \in Nat
  BY DEF LockInv, TypeOK
<1>2. \A k \in 1 .. Len(chain) : chain[k].id \in Nat
  <2>1. \A k \in 1 .. Len(chain) : chain[k] \in Task
    BY ElementOfSeq DEF LockInv, TypeOK
  <2> QED BY <2>1 DEF Task
<1> HIDE DEF e, S
<1>3. Rising(wire')
  BY <1>1, RisingAppend DEF WritesRise
<1>4. /\ Len(wire) \in Nat /\ Len(wire') = Len(wire) + 1
      /\ \A i \in 1 .. Len(wire) : wire'[i] = wire[i]
      /\ wire'[Len(wire) + 1] = e
  BY <1>1, Appended
<1>5. ASSUME NEW i \in 1 .. Len(wire')
      PROVE  /\ wire'[i].id <= typed
             /\ \A k \in 1 .. Len(chain) : chain[k].id # 0 => wire'[i].id < chain[k].id
  <2>1. i \in 1 .. Len(wire) \/ i = Len(wire) + 1
    BY <1>4
  <2> QED BY <1>1, <1>2, <1>4, <2>1 DEF WritesRise
<1> QED BY <1>3, <1>5 DEF WritesRise, Rising

(* A task is queued: it is numbered beyond everything typed, or not at all. *)
LEMMA QueuedRise ==
  ASSUME LockInv, WritesRise, NEW t \in Task, chain' = Append(chain, t), UNCHANGED wire,
         \/ typed' = typed + 1 /\ t.id = typed + 1
         \/ typed' = typed /\ t.id = 0
  PROVE  WritesRise'
<1>1. chain \in Seq(Task) /\ wire \in Seq([what : Writes, id : Nat]) /\ typed \in Nat
  BY DEF LockInv, TypeOK
<1>2. /\ \A k \in 1 .. Len(chain) : chain[k].id \in Nat /\ chain[k].id <= typed
      /\ \A i \in 1 .. Len(wire) : wire[i].id \in Nat /\ wire[i].id <= typed
  <2>1. \A k \in 1 .. Len(chain) : chain[k] \in Task
    BY <1>1, ElementOfSeq
  <2>2. \A i \in 1 .. Len(wire) : wire[i] \in [what : Writes, id : Nat]
    BY <1>1, ElementOfSeq
  <2> QED BY <2>1, <2>2 DEF WritesRise, Task
<1>3. Rising(chain')
  BY <1>1, <1>2, RisingAppend DEF WritesRise
<1>4. /\ Len(chain) \in Nat /\ Len(chain') = Len(chain) + 1
      /\ \A k \in 1 .. Len(chain) : chain'[k] = chain[k]
      /\ chain'[Len(chain) + 1] = t
  BY <1>1, Appended
<1>5. ASSUME NEW k \in 1 .. Len(chain')
      PROVE  /\ chain'[k].id <= typed'
             /\ \A i \in 1 .. Len(wire) : chain'[k].id # 0 => wire[i].id < chain'[k].id
  <2>1. k \in 1 .. Len(chain) \/ k = Len(chain) + 1
    BY <1>4
  <2> QED BY <1>1, <1>2, <1>4, <2>1 DEF WritesRise
<1>6. \A i \in 1 .. Len(wire) : wire[i].id <= typed'
  BY <1>1, <1>2
<1> QED BY <1>3, <1>5, <1>6 DEF WritesRise, Rising

(* The head of the chain is taken off, or written and taken off. *)
LEMMA HeadRises ==
  ASSUME LockInv, WritesRise, chain # <<>>, chain' = RemoveAt(chain, 1), UNCHANGED typed,
         \/ UNCHANGED wire
         \/ /\ chain[1].kind \in Writes
            /\ wire' = Append(wire, [what |-> chain[1].kind, id |-> chain[1].id])
  PROVE  WritesRise'
<1> DEFINE S == [what : Writes, id : Nat]
           e == [what |-> chain[1].kind, id |-> chain[1].id]
<1>1. chain \in Seq(Task) /\ wire \in Seq(S) /\ typed \in Nat
  BY DEF LockInv, TypeOK
<1>2. /\ Len(chain) \in Nat \ {0} /\ Len(chain') = Len(chain) - 1
      /\ \A k \in 1 .. Len(chain) - 1 : chain'[k] = chain[k + 1]
  BY <1>1, HeadRemoved
<1>3. Rising(chain')
  BY <1>2 DEF WritesRise, Rising
<1>4. \A k \in 1 .. Len(chain') : chain'[k].id <= typed
  BY <1>2 DEF WritesRise
<1>5. CASE UNCHANGED wire
  <2>1. \A i \in 1 .. Len(wire), k \in 1 .. Len(chain') :
          chain'[k].id # 0 => wire[i].id < chain'[k].id
    BY <1>2 DEF WritesRise
  <2> QED BY <1>3, <1>4, <1>5, <2>1 DEF WritesRise, Rising
<1>6. CASE chain[1].kind \in Writes /\ wire' = Append(wire, e)
  <2>1. chain[1] \in Task /\ chain[1].id \in Nat /\ 1 \in 1 .. Len(chain)
    <3>1. 1 \in 1 .. Len(chain)
      BY <1>2
    <3>2. chain[1] \in Task
      BY <1>1, <3>1, ElementOfSeq
    <3> QED BY <3>1, <3>2 DEF Task
  <2>2. e \in S /\ e.id = chain[1].id
    BY <1>6, <2>1
  <2> HIDE DEF e, S
  <2>3. Rising(wire')
    BY <1>1, <1>6, <2>1, <2>2, RisingAppend DEF WritesRise
  <2>4. /\ Len(wire) \in Nat /\ Len(wire') = Len(wire) + 1
        /\ \A i \in 1 .. Len(wire) : wire'[i] = wire[i]
        /\ wire'[Len(wire) + 1] = e
    BY <1>1, <1>6, <2>2, Appended
  <2>5. ASSUME NEW i \in 1 .. Len(wire')
        PROVE  /\ wire'[i].id <= typed
               /\ \A k \in 1 .. Len(chain') : chain'[k].id # 0 => wire'[i].id < chain'[k].id
    <3>1. CASE i \in 1 .. Len(wire)
      BY <1>2, <2>4, <3>1 DEF WritesRise
    <3>2. CASE i = Len(wire) + 1
      BY <1>2, <2>1, <2>2, <2>4, <3>2 DEF WritesRise, Rising
    <3> QED BY <2>4, <3>1, <3>2
  <2> QED BY <1>3, <1>4, <2>3, <2>5 DEF WritesRise, Rising
<1> QED BY <1>5, <1>6

(* A step that neither writes nor queues. *)
LEMMA RiseQuiet ==
  ASSUME WritesRise, UNCHANGED <<wire, chain, typed>>
  PROVE  WritesRise'
BY DEF WritesRise, Rising

LEMMA RiseStep == LockInv /\ WritesRise /\ [Next]_vars => WritesRise'
<1> SUFFICES ASSUME LockInv, WritesRise, [Next]_vars PROVE WritesRise'
  OBVIOUS
<1> USE DEF negotiation, ends, writer, loop, lines, bounds, history
<1>1. CASE \/ \E s \in BOOLEAN : Auth(s)
           \/ AuthTimeout \/ ConnectFails \/ OpensLate \/ Opened \/ RegistrationFails
           \/ \E n \in 1 .. Len(incoming) : ReadChunk(n)
           \/ AwaitChunk \/ EndOfStream \/ ReportFails \/ LineWrites \/ ReaderWriteFails
           \/ WsClosed \/ (\E line \in Lines : ServerSays(line))
           \/ ConnectionLost \/ Over \/ UNCHANGED vars
  <2>1. UNCHANGED <<wire, chain, typed>>
    BY <1>1 DEF Auth, AuthTimeout, ConnectFails, OpensLate, Opened, RegistrationFails,
                ReadChunk, AwaitChunk, EndOfStream, ReportFails, LineWrites,
                ReaderWriteFails, WsClosed, ServerSays, ConnectionLost, Over, vars
  <2> QED BY <2>1, RiseQuiet
<1>2. CASE Registered
  <2>1. "REGISTER" \in Writes
    BY DEF Writes
  <2> QED BY <1>2, <2>1, UnnumberedWrite DEF Registered, Written
<1>3. CASE Quit
  <2>1. "QUIT" \in Writes
    BY DEF Writes
  <2> QED BY <1>3, <2>1, UnnumberedWrite, RiseQuiet DEF Quit, Written
<1>4. CASE ReaderWritten
  <2>1. pending.what \in Writes
    BY DEF LockInv, TypeOK
  <2> QED BY <1>4, <2>1, UnnumberedWrite DEF ReaderWritten, Written
<1>5. CASE \E kind \in Typed : Type(kind)
  <2> PICK kind \in Typed : Type(kind)
    BY <1>5
  <2> DEFINE t == [kind |-> kind, id |-> typed + 1, phase |-> "queued"]
  <2>1. /\ t \in Task /\ t.id = typed + 1 /\ chain' = Append(chain, t)
        /\ typed' = typed + 1 /\ UNCHANGED wire
    BY InputsAssumption DEF Task, Type, TypeOK, LockInv
  <2> HIDE DEF t
  <2> QED BY <2>1, QueuedRise
<1>6. CASE LinePassedOn
  <2> DEFINE t == [kind |-> "PONG", id |-> 0, phase |-> "queued"]
  <2>1. t \in Task /\ t.id = 0
    BY DEF Task
  <2>2. (chain' = Append(chain, t) \/ chain' = chain) /\ UNCHANGED <<wire, typed>>
    BY <1>6 DEF LinePassedOn
  <2> HIDE DEF t
  <2> QED BY <2>1, <2>2, QueuedRise, RiseQuiet
<1>7. CASE Chain
  <2> PICK k \in 1 .. Len(chain) : Start(k) \/ TaskWritten(k) \/ TaskFails(k)
    BY <1>7 DEF Chain
  <2>1. k = 1 /\ chain # <<>> /\ chain \in Seq(Task) /\ Len(chain) \in Nat \ {0}
    BY ActiveTask
  <2>2. CASE chain' = RemoveAt(chain, 1) /\ UNCHANGED <<wire, typed>>
    BY <2>1, <2>2, HeadRises
  <2>3. CASE TaskWritten(k)
    <3>1. chain[1].kind \in Writes
      <4>1. chain[1] \in Task /\ chain[1].kind # "bad"
        BY <2>1, <2>3, ElementOfSeq DEF TaskWritten, LockInv, ChainState
      <4> QED BY <4>1 DEF Task, Writes
    <3> QED BY <2>1, <2>3, <3>1, HeadRises DEF TaskWritten, Written
  <2>4. CASE chain' = [chain EXCEPT ![1].phase = "writing"] /\ UNCHANGED <<wire, typed>>
    <3>1. /\ DOMAIN chain' = DOMAIN chain
          /\ \A j \in 1 .. Len(chain) : chain'[j].id = chain[j].id
      <4>1. DOMAIN chain = 1 .. Len(chain) /\ (\A j \in 1 .. Len(chain) : chain[j] \in Task)
        BY <2>1, LenProperties, ElementOfSeq
      <4> QED BY <2>4, <4>1 DEF Task
    <3>2. Len(chain') = Len(chain)
      BY <2>1, <2>4
    <3> QED BY <2>4, <3>1, <3>2 DEF WritesRise, Rising
  <2>5. \/ chain' = RemoveAt(chain, 1) /\ UNCHANGED <<wire, typed>>
        \/ TaskWritten(k)
        \/ chain' = [chain EXCEPT ![1].phase = "writing"] /\ UNCHANGED <<wire, typed>>
    BY <2>1 DEF Start, TaskFails
  <2> QED BY <2>2, <2>3, <2>4, <2>5
<1> QED BY <1>1, <1>2, <1>3, <1>4, <1>5, <1>6, <1>7 DEF Next, ReadLoop

-----------------------------------------------------------------------------
(***************************************************************************)
(* The theorems                                                            *)
(***************************************************************************)

(* The strengthened invariant holds in every reachable state. *)
THEOREM LockInvariance == Spec => [](LockInv /\ WritesRise)
<1>1. LockInv /\ WritesRise /\ [Next]_vars => (LockInv /\ WritesRise)'
  BY TypeStep, LockStep, RiseStep
<1> QED BY <1>1, InitLock, PTL DEF Spec

(* Every variable of the session keeps its type, and the read loop and     *)
(* registration hold the lock exactly when they await a write.             *)
THEOREM TypeCorrect == Spec => []TypeOK
<1>1. LockInv => TypeOK
  BY DEF LockInv
<1> QED BY <1>1, LockInvariance, PTL

(* The promise chain serializes the commands and the answers to PING: a    *)
(* getWriter() fails in a live session only next to the read loop's own    *)
(* writes or after a malformed command.                                    *)
THEOREM ChainIsSerial == Spec => []ChainSerializes
<1>1. LockInv => ChainSerializes
  BY DEF LockInv, ChainSerializes, WritesSerialized, Blamed, Lost
<1> QED BY <1>1, LockInvariance, PTL

(* The lock is given back on every path but a failed write and a malformed *)
(* command.                                                                *)
THEOREM LockIsReleased == Spec => []LockReleased
<1>1. LockInv => LockReleased
  BY DEF LockInv, HolderState
<1> QED BY <1>1, LockInvariance, PTL

(* The browser's messages reach the server in the order they were typed.   *)
THEOREM CommandsAreInOrder == Spec => []CommandsInOrder
<1>1. WritesRise => CommandsInOrder
  BY DEF WritesRise, Rising, CommandsInOrder
<1> QED BY <1>1, LockInvariance, PTL
=============================================================================
