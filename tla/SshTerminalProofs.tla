------------------------- MODULE SshTerminalProofs -------------------------
(***************************************************************************)
(* What holds of the terminal for every size, window and number of         *)
(* messages: its type invariant, that the window is respected and exactly  *)
(* accounted for, that the server is never left without local window, that *)
(* no wakeup of the drain loop is lost, that at most one data packet       *)
(* follows our CHANNEL_CLOSE, and that the input implements ByteStream.    *)
(*                                                                         *)
(* The invariant says where everything lies that is on its way.  Input:    *)
(*                                                                         *)
(*        wire           the packet in chain      inputQueue               *)
(*    |-----------|      |-------------|---------|----------|              *)
(*    0       End(wire)                                  accepted          *)
(*                                                                         *)
(* where the packet lies within the window, which ends at                  *)
(* End(wire) + remoteWindow; behind it lie the adjustments that are not    *)
(* read yet, up to `granted'.  The server's data lies likewise between     *)
(* what the worker has read and `produced'.                                *)
(***************************************************************************)
EXTENDS SshTerminal, SequenceTheorems, WellFoundedInduction, TLAPS

Early == {"credentials", "connecting", "setup", "threw"}

(* Until the shell is there nothing has been typed, sent or received.      *)
EarlyState ==
  /\ session \in Early =>
       /\ drain = "none" /\ ~channelOpen
       /\ accepted = 0 /\ inputQueue = <<>> /\ inputQueueBytes = 0
       /\ offset = 0 /\ chain = <<>> /\ wire = <<>> /\ toWorker = <<>> /\ closedAt = None
  /\ drain = "none" => session \in Early
  /\ session = "credentials" => tcp = "none"

(* The offset of the first byte that is still counted as queued.           *)
Front == IF inputQueue = <<>> THEN accepted ELSE inputQueue[1].lo

(* The queue is a gapless stretch of the input that ends with its end.     *)
QueueLine ==
  /\ \A i \in 1 .. Len(inputQueue) :
       inputQueue[i].lo <= inputQueue[i].hi /\ inputQueue[i].hi <= accepted
  /\ \A i \in 1 .. Len(inputQueue) - 1 : inputQueue[i].hi = inputQueue[i + 1].lo
  /\ inputQueue # <<>> => inputQueue[Len(inputQueue)].hi = accepted
  /\ inputQueueBytes = accepted - Front

(* What the drain loop does, it does with the first entry.                 *)
DrainState ==
  /\ End(wire) <= accepted
  /\ channelOpen => drain \in {"parked", "sending"}
  /\ drain = "parked" =>
       /\ channelOpen /\ offset = 0 /\ End(wire) = Front
       /\ inputQueue = <<>> \/ remoteWindow = 0
  /\ drain = "sending" =>
       /\ inputQueue # <<>>
       /\ End(wire) = inputQueue[1].lo + offset
       /\ End(wire) <= inputQueue[1].hi

(* No two packets of a list are of the kinds K.                            *)
Lone(list, K) ==
  \A i, j \in 1 .. Len(list) : list[i].kind \in K /\ list[j].kind \in K => i = j

(* There is one data packet at most, the next piece of the entry.          *)
DataPackets ==
  /\ \A i \in 1 .. Len(chain) :
       /\ chain[i].kind # "data" => chain[i].hi = 0
       /\ chain[i].kind = "data" =>
            /\ drain = "sending"
            /\ chain[i].lo = End(wire) /\ chain[i].lo <= chain[i].hi
            /\ chain[i].hi <= inputQueue[1].hi
            /\ chain[i].hi <= End(wire) + remoteWindow
  /\ Lone(chain, {"data"})

LoopKinds == {"adjust", "reply", "close"}

(* The read loop has one packet under way at most, and awaits it.          *)
LoopPackets ==
  /\ \A i \in 1 .. Len(chain) : chain[i].kind \in LoopKinds => session = "awaiting"
  /\ Lone(chain, LoopKinds)

(* The packets of a kind in a list lie one behind the other between two    *)
(* numbers.                                                                *)
Lies(list, kind, from, to) ==
  /\ from <= to
  /\ \A i \in 1 .. Len(list) : list[i].kind = kind =>
       from <= list[i].lo /\ list[i].lo <= list[i].hi /\ list[i].hi <= to
  /\ \A i, j \in 1 .. Len(list) :
       i < j /\ list[i].kind = kind /\ list[j].kind = kind => list[i].hi <= list[j].lo

(* What the server sent and is not read yet: window, and output.           *)
GrantLine  == Lies(toWorker, "adjust", End(wire) + remoteWindow, granted)
OutputLine == Lies(toWorker, "data", produced - (localWindowRemaining - credit), produced)

(* After our CHANNEL_CLOSE the session only waits for the drain loop.      *)
ClosedState ==
  closedAt # None =>
    /\ session \in {"draining", "finished"} /\ ~channelOpen
    /\ Len(wire) <= closedAt + 1
    /\ drain = "sending" => Len(wire) = closedAt

Flow == EarlyState /\ QueueLine /\ DrainState /\ DataPackets /\ LoopPackets
Server == GrantLine /\ OutputLine /\ ClosedState

IInv == TypeOK /\ Flow /\ Server

ChainPacket == [kind : {"data", "resize", "adjust", "reply", "close"}, lo : Nat, hi : Nat]
ServerPacket == [kind : {"data", "adjust", "request", "close", "disconnect"},
                 lo : Nat, hi : Nat]

-----------------------------------------------------------------------------
(* Taking the first element off a list, and adding one behind it.          *)
LEMMA TailAt ==
  ASSUME NEW T, NEW s \in Seq(T), s # <<>>
  PROVE  /\ Len(s) \in Nat \ {0} /\ Head(s) = s[1] /\ s[1] \in T
         /\ Tail(s) \in Seq(T) /\ Len(Tail(s)) = Len(s) - 1
         /\ \A i \in 1 .. Len(s) - 1 : Tail(s)[i] = s[i + 1]
         /\ Tail(s) = <<>> <=> Len(s) = 1
<1>1. Len(s) \in Nat \ {0} /\ Head(s) = s[1] /\ s[1] \in T
  BY EmptySeq, ElementOfSeq
<1>2. /\ Tail(s) \in Seq(T) /\ Len(Tail(s)) = Len(s) - 1
      /\ \A i \in 1 .. Len(s) - 1 : Tail(s)[i] = s[i + 1]
  BY HeadTailProperties
<1>3. Tail(s) = <<>> <=> Len(Tail(s)) = 0
  BY <1>2, EmptySeq
<1> QED BY <1>1, <1>2, <1>3

LEMMA AppendAt ==
  ASSUME NEW T, NEW s \in Seq(T), NEW x \in T
  PROVE  /\ Len(s) \in Nat /\ Append(s, x) \in Seq(T) /\ Append(s, x) # <<>>
         /\ Len(Append(s, x)) = Len(s) + 1
         /\ \A i \in 1 .. Len(s) : Append(s, x)[i] = s[i]
         /\ Append(s, x)[Len(s) + 1] = x
  BY AppendProperties, LenProperties

(* The ends of pieces and of packets are natural numbers.                  *)
LEMMA SpanFields ==
  ASSUME NEW s \in Seq(Span)
  PROVE  /\ Len(s) \in Nat /\ (s # <<>> => Len(s) > 0)
         /\ \A i \in 1 .. Len(s) : s[i] \in Span /\ s[i].lo \in Nat /\ s[i].hi \in Nat
<1>1. \A i \in 1 .. Len(s) : s[i] \in Span
  BY ElementOfSeq
<1>2. \A m \in Span : m.lo \in Nat /\ m.hi \in Nat
  BY DEF Span, Input!Span
<1>3. Len(s) \in Nat /\ (s # <<>> => Len(s) > 0)
  BY EmptySeq, LenProperties
<1> QED BY <1>1, <1>2, <1>3

LEMMA ChainFields ==
  ASSUME NEW s \in Seq(ChainPacket)
  PROVE  /\ Len(s) \in Nat /\ (s # <<>> => Len(s) > 0)
         /\ \A i \in 1 .. Len(s) : s[i] \in ChainPacket /\ s[i].lo \in Nat /\ s[i].hi \in Nat
<1>1. \A i \in 1 .. Len(s) : s[i] \in ChainPacket
  BY ElementOfSeq
<1>2. \A m \in ChainPacket : m.lo \in Nat /\ m.hi \in Nat
  BY DEF ChainPacket
<1>3. Len(s) \in Nat /\ (s # <<>> => Len(s) > 0)
  BY EmptySeq, LenProperties
<1> QED BY <1>1, <1>2, <1>3

LEMMA ServerFields ==
  ASSUME NEW s \in Seq(ServerPacket)
  PROVE  /\ Len(s) \in Nat /\ (s # <<>> => Len(s) > 0)
         /\ \A i \in 1 .. Len(s) : s[i] \in ServerPacket /\ s[i].lo \in Nat /\ s[i].hi \in Nat
<1>1. \A i \in 1 .. Len(s) : s[i] \in ServerPacket
  BY ElementOfSeq
<1>2. \A m \in ServerPacket : m.lo \in Nat /\ m.hi \in Nat
  BY DEF ServerPacket
<1>3. Len(s) \in Nat /\ (s # <<>> => Len(s) > 0)
  BY EmptySeq, LenProperties
<1> QED BY <1>1, <1>2, <1>3

LEMMA EndNat ==
  ASSUME NEW s \in Seq(Span)
  PROVE  End(s) \in Nat
<1>1. CASE s = <<>>
  BY <1>1 DEF End, Input!End
<1>2. CASE s # <<>>
  <2>1. s[Len(s)] \in Span
    BY <1>2, EmptySeq, ElementOfSeq
  <2> QED BY <1>2, <2>1 DEF End, Input!End, Span, Input!Span
<1> QED BY <1>1, <1>2

LEMMA EndAppend ==
  ASSUME NEW s \in Seq(Span), NEW x \in Span
  PROVE  End(Append(s, x)) = x.hi
  BY AppendAt DEF End, Input!End

(* Every packet of the shorter list is in the longer one.                  *)
LEMMA TailMembers ==
  ASSUME NEW T, NEW s \in Seq(T), s # <<>>
  PROVE  \A i \in 1 .. Len(Tail(s)) : \E j \in 1 .. Len(s) : Tail(s)[i] = s[j]
<1> SUFFICES ASSUME NEW i \in 1 .. Len(Tail(s))
             PROVE  \E j \in 1 .. Len(s) : Tail(s)[i] = s[j]
  OBVIOUS
<1>1. i + 1 \in 1 .. Len(s) /\ Tail(s)[i] = s[i + 1]
  BY TailAt
<1> QED BY <1>1

LEMMA AppendMembers ==
  ASSUME NEW T, NEW s \in Seq(T), NEW x \in T
  PROVE  \A i \in 1 .. Len(Append(s, x)) :
           Append(s, x)[i] = x \/ \E j \in 1 .. Len(s) : Append(s, x)[i] = s[j]
<1> SUFFICES ASSUME NEW i \in 1 .. Len(Append(s, x))
             PROVE  Append(s, x)[i] = x \/ \E j \in 1 .. Len(s) : Append(s, x)[i] = s[j]
  OBVIOUS
<1>1. i = Len(s) + 1 \/ i \in 1 .. Len(s)
  BY AppendAt
<1>2. CASE i = Len(s) + 1
  BY <1>2, AppendAt
<1>3. CASE i \in 1 .. Len(s)
  BY <1>3, AppendAt
<1> QED BY <1>1, <1>2, <1>3

LEMMA EmptyLists ==
  /\ \A K : Lone(<<>>, K)
  /\ \A kind, from, to : from <= to => Lies(<<>>, kind, from, to)
  /\ End(<<>>) = 0 /\ Len(<<>>) = 0
  BY EmptySeq DEF Lone, Lies, End, Input!End

LEMMA LoneTail ==
  ASSUME NEW s \in Seq(ChainPacket), s # <<>>, NEW K, Lone(s, K)
  PROVE  /\ Lone(Tail(s), K)
         /\ s[1].kind \in K => \A i \in 1 .. Len(Tail(s)) : Tail(s)[i].kind \notin K
  BY TailAt DEF Lone

LEMMA LoneAppend ==
  ASSUME NEW s \in Seq(ChainPacket), NEW x \in ChainPacket, NEW K, Lone(s, K),
         x.kind \in K => \A i \in 1 .. Len(s) : s[i].kind \notin K
  PROVE  Lone(Append(s, x), K)
  BY AppendAt DEF Lone

LEMMA LiesTail ==
  ASSUME NEW s \in Seq(ServerPacket), s # <<>>, NEW kind,
         NEW from \in Int, NEW to \in Int, NEW more \in Int, Lies(s, kind, from, to),
         s[1].kind # kind => more = from,
         s[1].kind = kind => more <= s[1].hi
  PROVE  Lies(Tail(s), kind, more, to)
<1>1. \A i \in 1 .. Len(s) : s[i].lo \in Nat /\ s[i].hi \in Nat
  BY ServerFields
<1>2. /\ Len(s) \in Nat \ {0} /\ Len(Tail(s)) = Len(s) - 1
      /\ \A i \in 1 .. Len(s) - 1 : Tail(s)[i] = s[i + 1]
  BY TailAt
<1>3. more <= to
  BY <1>1, <1>2 DEF Lies
<1>4. \A i \in 2 .. Len(s) : s[i].kind = kind => more <= s[i].lo
  BY <1>1, <1>2 DEF Lies
<1>5. ASSUME NEW i \in 1 .. Len(Tail(s)), Tail(s)[i].kind = kind
      PROVE  more <= Tail(s)[i].lo /\ Tail(s)[i].lo <= Tail(s)[i].hi /\ Tail(s)[i].hi <= to
  <2>1. Tail(s)[i] = s[i + 1] /\ i + 1 \in 2 .. Len(s)
    BY <1>2
  <2> QED BY <1>4, <1>5, <2>1 DEF Lies
<1>6. ASSUME NEW i \in 1 .. Len(Tail(s)), NEW j \in 1 .. Len(Tail(s)), i < j,
             Tail(s)[i].kind = kind, Tail(s)[j].kind = kind
      PROVE  Tail(s)[i].hi <= Tail(s)[j].lo
  <2>1. /\ Tail(s)[i] = s[i + 1] /\ i + 1 \in 1 .. Len(s)
        /\ Tail(s)[j] = s[j + 1] /\ j + 1 \in 1 .. Len(s) /\ i + 1 < j + 1
    BY <1>2, <1>6
  <2> QED BY <1>6, <2>1 DEF Lies
<1> QED BY <1>3, <1>5, <1>6 DEF Lies

LEMMA LiesAppend ==
  ASSUME NEW s \in Seq(ServerPacket), NEW x \in ServerPacket, NEW kind,
         NEW from \in Int, NEW to \in Int, NEW more \in Int, Lies(s, kind, from, to),
         to <= more,
         x.kind = kind => to <= x.lo /\ x.lo <= x.hi /\ x.hi <= more
  PROVE  Lies(Append(s, x), kind, from, more)
<1> DEFINE t == Append(s, x)
<1>1. \A i \in 1 .. Len(s) : s[i].lo \in Nat /\ s[i].hi \in Nat
  BY ServerFields
<1>2. x.lo \in Nat /\ x.hi \in Nat
  BY DEF ServerPacket
<1>3. /\ Len(s) \in Nat /\ Len(t) = Len(s) + 1 /\ t[Len(s) + 1] = x
      /\ \A i \in 1 .. Len(s) : t[i] = s[i]
  BY AppendAt
<1>4. \A i \in 1 .. Len(t) : i \in 1 .. Len(s) \/ i = Len(s) + 1
  BY <1>3
<1> HIDE DEF t
<1>5. ASSUME NEW i \in 1 .. Len(t), t[i].kind = kind
      PROVE  from <= t[i].lo /\ t[i].lo <= t[i].hi /\ t[i].hi <= more
  BY <1>1, <1>2, <1>3, <1>4, <1>5 DEF Lies
<1>6. ASSUME NEW i \in 1 .. Len(t), NEW j \in 1 .. Len(t), i < j,
             t[i].kind = kind, t[j].kind = kind
      PROVE  t[i].hi <= t[j].lo
  BY <1>1, <1>2, <1>3, <1>4, <1>6 DEF Lies
<1> QED BY <1>5, <1>6 DEF Lies, t

-----------------------------------------------------------------------------
(* What the promise chain is after a step: the first packet is settled, or *)
(* a packet of the read loop or of the listener is handed over.            *)

LEMMA ChainShrinks ==
  ASSUME TypeOK, DataPackets, LoopPackets, chain # <<>>, chain' = Tail(chain),
         UNCHANGED <<wire, inputQueue, remoteWindow>>,
         drain' # drain => chain[1].kind = "data",
         session' # session => chain[1].kind \in LoopKinds
  PROVE  chain' \in Seq(ChainPacket) /\ DataPackets' /\ LoopPackets'
<1>1. chain \in Seq(ChainPacket)
  BY DEF TypeOK, ChainPacket
<1>2. chain' \in Seq(ChainPacket)
  BY <1>1, TailAt
<1>3. \A i \in 1 .. Len(chain') : \E j \in 1 .. Len(chain) : chain'[i] = chain[j]
  BY <1>1, TailMembers
<1>4. /\ Lone(chain', {"data"}) /\ Lone(chain', LoopKinds)
      /\ chain[1].kind = "data" => \A i \in 1 .. Len(chain') : chain'[i].kind # "data"
      /\ chain[1].kind \in LoopKinds =>
           \A i \in 1 .. Len(chain') : chain'[i].kind \notin LoopKinds
  <2>1. Lone(chain, {"data"}) /\ Lone(chain, LoopKinds)
    BY DEF DataPackets, LoopPackets
  <2> QED BY <1>1, <2>1, LoneTail
<1>5. DataPackets'
  BY <1>3, <1>4 DEF DataPackets
<1>6. LoopPackets'
  BY <1>3, <1>4 DEF LoopPackets
<1> QED BY <1>2, <1>5, <1>6

LEMMA ChainGrows ==
  ASSUME TypeOK, DataPackets, LoopPackets,
         NEW kind \in LoopKinds \cup {"resize"}, Send(kind),
         UNCHANGED <<wire, inputQueue, remoteWindow, drain>>,
         kind = "resize" => session' = session,
         kind \in LoopKinds => session # "awaiting" /\ session' = "awaiting"
  PROVE  chain' \in Seq(ChainPacket) /\ chain' # <<>> /\ DataPackets' /\ LoopPackets'
<1> DEFINE p == Packet(kind, 0, 0)
<1>1. /\ chain \in Seq(ChainPacket) /\ p \in ChainPacket /\ p.kind = kind /\ p.hi = 0
      /\ chain' = Append(chain, p) /\ p.kind # "data"
  BY DEF TypeOK, ChainPacket, LoopKinds, Packet, Send
<1> HIDE DEF p
<1>2. chain' \in Seq(ChainPacket) /\ chain' # <<>>
  BY <1>1, AppendAt
<1>3. \A i \in 1 .. Len(chain') : chain'[i] = p \/ \E j \in 1 .. Len(chain) : chain'[i] = chain[j]
  BY <1>1, AppendMembers
<1>4. kind \in LoopKinds => \A i \in 1 .. Len(chain) : chain[i].kind \notin LoopKinds
  BY DEF LoopPackets
<1>5. Lone(chain', {"data"}) /\ Lone(chain', LoopKinds)
  <2>1. Lone(chain, {"data"}) /\ Lone(chain, LoopKinds)
    BY DEF DataPackets, LoopPackets
  <2> QED BY <1>1, <1>4, <2>1, LoneAppend
<1>6. DataPackets'
  BY <1>1, <1>3, <1>5 DEF DataPackets
<1>7. LoopPackets'
  <2>1. \A i \in 1 .. Len(chain') : chain'[i].kind \in LoopKinds => session' = "awaiting"
    <3>1. "resize" \notin LoopKinds
      BY DEF LoopKinds
    <3> QED BY <1>1, <1>3, <3>1 DEF LoopPackets
  <2> QED BY <1>5, <2>1 DEF LoopPackets
<1> QED BY <1>2, <1>6, <1>7

(* The same of the server's packets: one is read, or one is sent.          *)
LEMMA ServerPacketRead ==
  ASSUME TypeOK, GrantLine, OutputLine, toWorker # <<>>, toWorker' = Tail(toWorker),
         NEW from \in Int, NEW grant \in Int,
         Head(toWorker).kind # "adjust" => grant = End(wire) + remoteWindow,
         Head(toWorker).kind = "adjust" => grant <= Head(toWorker).hi,
         Head(toWorker).kind # "data" => from = produced - (localWindowRemaining - credit),
         Head(toWorker).kind = "data" => from <= Head(toWorker).hi
  PROVE  /\ toWorker' \in Seq(ServerPacket)
         /\ Lies(toWorker', "adjust", grant, granted) /\ Lies(toWorker', "data", from, produced)
<1>1. /\ toWorker \in Seq(ServerPacket) /\ wire \in Seq(Span)
      /\ remoteWindow \in Nat /\ granted \in Nat
      /\ produced \in Nat /\ localWindowRemaining \in Nat /\ credit \in Nat
  BY DEF TypeOK, ServerPacket
<1>2. End(wire) + remoteWindow \in Int /\ produced - (localWindowRemaining - credit) \in Int
  BY <1>1, EndNat
<1>3. toWorker' \in Seq(ServerPacket) /\ Head(toWorker) = toWorker[1]
  BY <1>1, TailAt
<1>4. Lies(toWorker', "adjust", grant, granted)
  BY <1>1, <1>2, <1>3, LiesTail DEF GrantLine
<1>5. Lies(toWorker', "data", from, produced)
  BY <1>1, <1>2, <1>3, LiesTail DEF OutputLine
<1> QED BY <1>3, <1>4, <1>5

LEMMA ServerPacketSent ==
  ASSUME TypeOK, GrantLine, OutputLine, NEW p \in ServerPacket, ServerSends(p),
         NEW grant \in Nat, NEW to \in Nat, granted <= grant, produced <= to,
         p.kind = "adjust" => granted <= p.lo /\ p.lo <= p.hi /\ p.hi <= grant,
         p.kind = "data" => produced <= p.lo /\ p.lo <= p.hi /\ p.hi <= to
  PROVE  /\ toWorker' \in Seq(ServerPacket)
         /\ Lies(toWorker', "adjust", End(wire) + remoteWindow, grant)
         /\ Lies(toWorker', "data", produced - (localWindowRemaining - credit), to)
<1>1. /\ toWorker \in Seq(ServerPacket) /\ wire \in Seq(Span)
      /\ remoteWindow \in Nat /\ granted \in Nat
      /\ produced \in Nat /\ localWindowRemaining \in Nat /\ credit \in Nat
      /\ toWorker' = Append(toWorker, p)
  BY DEF TypeOK, ServerPacket, ServerSends
<1>2. End(wire) + remoteWindow \in Int /\ produced - (localWindowRemaining - credit) \in Int
  BY <1>1, EndNat
<1>3. toWorker' \in Seq(ServerPacket)
  BY <1>1, AppendAt
<1>4. Lies(toWorker', "adjust", End(wire) + remoteWindow, grant)
  BY <1>1, <1>2, LiesAppend DEF GrantLine
<1>5. Lies(toWorker', "data", produced - (localWindowRemaining - credit), to)
  BY <1>1, <1>2, LiesAppend DEF OutputLine
<1> QED BY <1>3, <1>4, <1>5

(* A chunk is no longer than the rest of the entry, nor than the window.   *)
LEMMA ChunkFits ==
  ASSUME NEW rest \in Nat, NEW w \in Nat
  PROVE  /\ ChunkSize(rest, w) \in Nat
         /\ ChunkSize(rest, w) <= rest /\ ChunkSize(rest, w) <= w
<1> DEFINE S == {rest, w, MaxPkt}
           IsLeast(n) == \A m \in S : n <= m
<1>1. MaxPkt \in Nat
  BY InputAssumption
<1>2. \E n \in S : IsLeast(n)
  <2>1. CASE IsLeast(rest)
    BY <2>1
  <2>2. CASE IsLeast(w)
    BY <2>2
  <2>3. CASE IsLeast(MaxPkt)
    BY <2>3
  <2> QED BY <1>1, <2>1, <2>2, <2>3
<1>3. ChunkSize(rest, w) \in S /\ IsLeast(ChunkSize(rest, w))
  BY <1>2 DEF ChunkSize
<1> QED BY <1>1, <1>3

-----------------------------------------------------------------------------
(* What the drain loop does: it settles an entry, hands over a chunk, or   *)
(* goes round to its next await.                                           *)

LEMMA EntrySettled ==
  ASSUME TypeOK, QueueLine, inputQueue # <<>>, accepted' = accepted,
         NEW off \in Nat, off <= Size(inputQueue[1]), SettleEntry(off)
  PROVE  /\ inputQueue' \in Seq(Span) /\ inputQueueBytes' \in Nat
         /\ QueueLine' /\ Front' = inputQueue[1].lo + off
<1> DEFINE q == inputQueue
           r == Remainder(q[1], off)
<1>1. /\ q \in Seq(Span) /\ accepted \in Nat /\ inputQueueBytes \in Nat
      /\ Len(q) \in Nat /\ 1 \in 1 .. Len(q) /\ Len(q) \in 1 .. Len(q)
      /\ \A i \in 1 .. Len(q) : q[i] \in Span /\ q[i].lo \in Nat /\ q[i].hi \in Nat
  BY SpanFields DEF TypeOK
<1>2. /\ q[1].lo + off <= q[1].hi /\ q[1].hi <= accepted
      /\ Size(q[1]) = q[1].hi - q[1].lo
      /\ inputQueueBytes' = accepted - (q[1].lo + off)
  BY <1>1 DEF QueueLine, Front, SettleEntry, Uncount, Size, Input!Size
<1>3. inputQueueBytes' \in Nat
  BY <1>1, <1>2
<1>4. CASE off = Size(q[1])
  <2>1. /\ inputQueue' = Tail(q) /\ Tail(q) \in Seq(Span) /\ Len(Tail(q)) = Len(q) - 1
        /\ \A i \in 1 .. Len(q) - 1 : Tail(q)[i] = q[i + 1]
        /\ Tail(q) = <<>> <=> Len(q) = 1
    BY <1>1, <1>4, TailAt DEF SettleEntry
  <2>2. Front' = q[1].lo + off
    <3>1. CASE Len(q) = 1
      BY <1>1, <1>2, <1>4, <2>1, <3>1 DEF QueueLine, Front
    <3>2. CASE Len(q) # 1
      <4>1. 1 \in 1 .. Len(q) - 1 /\ Tail(q)[1] = q[2] /\ q[1].hi = q[2].lo
        BY <1>1, <2>1, <3>2 DEF QueueLine
      <4> QED BY <1>1, <1>2, <1>4, <2>1, <3>2, <4>1 DEF Front
    <3> QED BY <3>1, <3>2
  <2>3. /\ \A i \in 1 .. Len(Tail(q)) : Tail(q)[i].lo <= Tail(q)[i].hi /\ Tail(q)[i].hi <= accepted
        /\ \A i \in 1 .. Len(Tail(q)) - 1 : Tail(q)[i].hi = Tail(q)[i + 1].lo
        /\ Tail(q) # <<>> => Tail(q)[Len(Tail(q))].hi = accepted
    <3>1. ASSUME NEW i \in 1 .. Len(Tail(q))
          PROVE  Tail(q)[i].lo <= Tail(q)[i].hi /\ Tail(q)[i].hi <= accepted
      <4>1. i + 1 \in 1 .. Len(q) /\ Tail(q)[i] = q[i + 1]
        BY <1>1, <2>1
      <4> QED BY <4>1 DEF QueueLine
    <3>2. ASSUME NEW i \in 1 .. Len(Tail(q)) - 1
          PROVE  Tail(q)[i].hi = Tail(q)[i + 1].lo
      <4>1. /\ i + 1 \in 1 .. Len(q) - 1 /\ Tail(q)[i] = q[i + 1]
            /\ Tail(q)[i + 1] = q[i + 1 + 1]
        BY <1>1, <2>1
      <4> QED BY <4>1 DEF QueueLine
    <3>3. ASSUME Tail(q) # <<>>
          PROVE  Tail(q)[Len(Tail(q))].hi = accepted
      <4>1. Tail(q)[Len(q) - 1] = q[Len(q) - 1 + 1] /\ Len(q) - 1 + 1 = Len(q)
        BY <1>1, <2>1, <3>3
      <4> QED BY <2>1, <4>1 DEF QueueLine
    <3> QED BY <3>1, <3>2, <3>3
  <2> QED BY <1>2, <1>3, <2>1, <2>2, <2>3 DEF QueueLine
<1>5. CASE off # Size(q[1])
  <2>1. /\ inputQueue' = [q EXCEPT ![1] = r]
        /\ r \in Span /\ r.lo = q[1].lo + off /\ r.hi = q[1].hi
    BY <1>1, <1>5 DEF SettleEntry, Remainder, Span, Input!Span
  <2> HIDE DEF r
  <2>2. /\ inputQueue' \in Seq(Span) /\ Len(inputQueue') = Len(q) /\ inputQueue' # <<>>
        /\ inputQueue'[1] = r /\ \A i \in 2 .. Len(q) : inputQueue'[i] = q[i]
    BY <1>1, <2>1
  <2>3. Front' = q[1].lo + off
    BY <2>1, <2>2 DEF Front
  <2>4. \A i \in 1 .. Len(q) : i = 1 \/ i \in 2 .. Len(q)
    BY <1>1
  <2>5. QueueLine'
    BY <1>1, <1>2, <2>1, <2>2, <2>3, <2>4 DEF QueueLine
  <2> QED BY <1>3, <2>2, <2>3, <2>5
<1> QED BY <1>4, <1>5

LEMMA ChunkHandedOver ==
  ASSUME inputQueue' \in Seq(Span), inputQueue' # <<>>, wire' \in Seq(Span), remoteWindow' \in Nat,
         NEW off \in Nat, End(wire') = inputQueue'[1].lo + off, End(wire') <= inputQueue'[1].hi,
         drain' = "sending",
         NEW packets \in Seq(ChainPacket), Lone(packets, LoopKinds),
         \A i \in 1 .. Len(packets) :
           /\ packets[i].kind # "data" /\ packets[i].hi = 0
           /\ packets[i].kind \in LoopKinds => session' = "awaiting",
         chain' = Append(packets, Chunk(inputQueue', off, remoteWindow'))
  PROVE  chain' \in Seq(ChainPacket) /\ DataPackets' /\ LoopPackets'
<1> DEFINE p == Chunk(inputQueue', off, remoteWindow')
           rest == inputQueue'[1].hi - (inputQueue'[1].lo + off)
           n == ChunkSize(rest, remoteWindow')
<1>1. /\ inputQueue'[1].lo \in Nat /\ inputQueue'[1].hi \in Nat /\ End(wire') \in Nat
      /\ rest \in Nat
  BY SpanFields, EndNat
<1>2. p = [kind |-> "data", lo |-> inputQueue'[1].lo + off, hi |-> inputQueue'[1].lo + off + n]
  BY DEF Chunk, Packet
<1>3. n \in Nat /\ n <= rest /\ n <= remoteWindow'
  <2> HIDE DEF rest
  <2> QED BY <1>1, ChunkFits
<1>4. /\ p \in ChainPacket /\ p.kind = "data" /\ p.lo = End(wire') /\ p.lo <= p.hi
      /\ p.hi <= inputQueue'[1].hi /\ p.hi <= End(wire') + remoteWindow'
      /\ p.kind \notin LoopKinds
  <2>1. /\ inputQueue'[1].lo + off = End(wire') /\ End(wire') + n \in Nat
        /\ End(wire') <= End(wire') + n
        /\ End(wire') + n <= inputQueue'[1].hi /\ End(wire') + n <= End(wire') + remoteWindow'
    <3> HIDE DEF n
    <3>1. /\ End(wire') = inputQueue'[1].lo + off /\ End(wire') \in Nat /\ n \in Nat
          /\ n <= inputQueue'[1].hi - End(wire') /\ n <= remoteWindow' /\ remoteWindow' \in Nat
          /\ inputQueue'[1].hi \in Nat
      BY <1>1, <1>3
    <3> QED BY <3>1
  <2>2. p = [kind |-> "data", lo |-> End(wire'), hi |-> End(wire') + n]
    BY <1>2, <2>1
  <2> HIDE DEF p, rest
  <2> QED BY <1>1, <2>1, <2>2 DEF ChainPacket, LoopKinds
<1>5. /\ chain' = Append(packets, p) /\ chain' \in Seq(ChainPacket)
      /\ \A i \in 1 .. Len(chain') : chain'[i] = p \/ \E j \in 1 .. Len(packets) : chain'[i] = packets[j]
  <2>1. chain' = Append(packets, p)
    OBVIOUS
  <2> HIDE DEF p
  <2> QED BY <1>4, <2>1, AppendAt, AppendMembers
<1> HIDE DEF p
<1>6. Lone(packets, {"data"})
  BY DEF Lone
<1>7. Lone(chain', {"data"}) /\ Lone(chain', LoopKinds)
  BY <1>4, <1>5, <1>6, LoneAppend
<1>8. DataPackets'
  BY <1>4, <1>5, <1>7 DEF DataPackets
<1>9. LoopPackets'
  BY <1>4, <1>5, <1>7 DEF LoopPackets
<1> QED BY <1>5, <1>8, <1>9

LEMMA LoopGoesRound ==
  ASSUME inputQueue' \in Seq(Span), wire' \in Seq(Span), remoteWindow' \in Nat, accepted' \in Nat,
         End(wire') = Front', QueueLine', channelOpen',
         NEW packets \in Seq(ChainPacket), Lone(packets, LoopKinds),
         \A i \in 1 .. Len(packets) :
           /\ packets[i].kind # "data" /\ packets[i].hi = 0
           /\ packets[i].kind \in LoopKinds => session' = "awaiting",
         DrainTop(inputQueue', remoteWindow', packets)
  PROVE  /\ chain' \in Seq(ChainPacket) /\ offset' = 0 /\ drain' \in {"parked", "sending"}
         /\ DrainState' /\ DataPackets' /\ LoopPackets'
<1>1. /\ inputQueue' # <<>> => 1 \in 1 .. Len(inputQueue')
      /\ inputQueue' # <<>> => inputQueue'[1].lo \in Nat /\ inputQueue'[1].hi \in Nat
  BY SpanFields
<1>2. End(wire') <= accepted' /\ (inputQueue' # <<>> => End(wire') <= inputQueue'[1].hi)
  BY <1>1 DEF QueueLine, Front
<1>3. CASE inputQueue' = <<>> \/ remoteWindow' = 0
  <2>1. chain' = packets /\ offset' = 0 /\ drain' = "parked"
    BY <1>3 DEF DrainTop
  <2>2. DrainState'
    BY <1>2, <1>3, <2>1 DEF DrainState
  <2>3. DataPackets' /\ LoopPackets'
    BY <2>1 DEF DataPackets, LoopPackets, Lone
  <2> QED BY <2>1, <2>2, <2>3
<1>4. CASE ~(inputQueue' = <<>> \/ remoteWindow' = 0)
  <2>1. /\ chain' = Append(packets, Chunk(inputQueue', 0, remoteWindow'))
        /\ offset' = 0 /\ drain' = "sending" /\ inputQueue' # <<>>
    BY <1>4 DEF DrainTop
  <2>2. End(wire') = inputQueue'[1].lo + 0
    BY <1>1, <2>1 DEF Front
  <2>3. DrainState'
    BY <1>2, <2>1, <2>2 DEF DrainState
  <2>4. chain' \in Seq(ChainPacket) /\ DataPackets' /\ LoopPackets'
    BY <1>2, <2>1, <2>2, ChunkHandedOver
  <2> QED BY <2>1, <2>3, <2>4
<1> QED BY <1>3, <1>4

-----------------------------------------------------------------------------
(* Every action keeps the invariant: what it disturbs, part by part.        *)

(* A read of the bytes from lo to hi of the p produced, with a local       *)
(* window of l bytes of which c are credit.                                *)
LEMMA ReadCounts ==
  ASSUME NEW p \in Nat, NEW l \in Nat, NEW c \in Nat, NEW lo \in Nat, NEW hi \in Nat,
         p - (l - c) <= lo, lo <= hi, hi <= p
  PROVE  /\ hi - lo \in Nat /\ l - (hi - lo) \in Nat
         /\ p - (l - c) + (hi - lo) <= hi
  OBVIOUS

LEMMA CredentialsTimeoutKeeps ==
  ASSUME IInv, CredentialsTimeout
  PROVE  IInv'
<1>1. TypeOK'
  BY DEF CredentialsTimeout, channelVars, inputVars, drainVars, windowVars, wireVars,
         serverVars, IInv, TypeOK
<1>2. EarlyState' /\ QueueLine' /\ DrainState' /\ DataPackets' /\ LoopPackets'
      /\ GrantLine' /\ OutputLine' /\ ClosedState'
  BY DEF CredentialsTimeout, channelVars, inputVars, drainVars, windowVars, wireVars,
         serverVars, IInv, Flow, Server, EarlyState, Early, QueueLine, Front, DrainState,
         DataPackets, LoopPackets, GrantLine, OutputLine, ClosedState
<1> QED BY <1>1, <1>2 DEF IInv, Flow, Server

LEMMA CredentialsKeeps ==
  ASSUME IInv, NEW valid \in BOOLEAN, Credentials(valid)
  PROVE  IInv'
<1> USE DEF channelVars, inputVars, drainVars, windowVars, wireVars, serverVars
<1>1. TypeOK'
  BY DEF Credentials, Throws, CanSend, IInv, TypeOK
<1>2. EarlyState'
  BY DEF Credentials, Throws, CanSend, IInv, Flow, EarlyState, Early
<1>3. LoopPackets'
  BY DEF Credentials, Throws, CanSend, IInv, Flow, LoopPackets
<1>4. ClosedState'
  BY DEF Credentials, Throws, CanSend, IInv, Server, ClosedState
<1>5. QueueLine' /\ DrainState' /\ DataPackets' /\ GrantLine' /\ OutputLine'
  BY DEF Credentials, Throws, CanSend, IInv, Flow, Server, QueueLine, Front, DrainState,
         DataPackets, GrantLine, OutputLine
<1> QED BY <1>1, <1>2, <1>3, <1>4, <1>5 DEF IInv, Flow, Server

LEMMA ConnectedKeeps ==
  ASSUME IInv, Connected
  PROVE  IInv'
<1> USE DEF channelVars, inputVars, drainVars, windowVars, wireVars, serverVars
<1>1. TypeOK'
  BY DEF Connected, IInv, TypeOK
<1>2. EarlyState'
  BY DEF Connected, IInv, Flow, EarlyState, Early
<1>3. LoopPackets'
  BY DEF Connected, IInv, Flow, LoopPackets
<1>4. ClosedState'
  BY DEF Connected, IInv, Server, ClosedState
<1>5. QueueLine' /\ DrainState' /\ DataPackets' /\ GrantLine' /\ OutputLine'
  BY DEF Connected, IInv, Flow, Server, QueueLine, Front, DrainState, DataPackets,
         GrantLine, OutputLine
<1> QED BY <1>1, <1>2, <1>3, <1>4, <1>5 DEF IInv, Flow, Server

LEMMA ConnectFailsKeeps ==
  ASSUME IInv, NEW refused \in BOOLEAN, ConnectFails(refused)
  PROVE  IInv'
<1> USE DEF channelVars, inputVars, drainVars, windowVars, wireVars, serverVars
<1>1. TypeOK'
  BY DEF ConnectFails, Throws, IInv, TypeOK
<1>2. EarlyState'
  BY DEF ConnectFails, Throws, IInv, Flow, EarlyState, Early
<1>3. LoopPackets'
  BY DEF ConnectFails, Throws, IInv, Flow, LoopPackets
<1>4. ClosedState'
  BY DEF ConnectFails, Throws, IInv, Server, ClosedState
<1>5. QueueLine' /\ DrainState' /\ DataPackets' /\ GrantLine' /\ OutputLine'
  BY DEF ConnectFails, Throws, IInv, Flow, Server, QueueLine, Front, DrainState,
         DataPackets, GrantLine, OutputLine
<1> QED BY <1>1, <1>2, <1>3, <1>4, <1>5 DEF IInv, Flow, Server

LEMMA OpensLateKeeps ==
  ASSUME IInv, OpensLate
  PROVE  IInv'
<1> USE DEF channelVars, inputVars, drainVars, windowVars, wireVars, serverVars
<1>1. TypeOK'
  BY DEF OpensLate, Over, IInv, TypeOK
<1>2. EarlyState'
  BY DEF OpensLate, Over, IInv, Flow, EarlyState, Early
<1>3. QueueLine' /\ DrainState' /\ DataPackets' /\ LoopPackets' /\ GrantLine' /\ OutputLine' /\ ClosedState'
  BY DEF OpensLate, Over, IInv, Flow, Server, QueueLine, Front, DrainState, DataPackets,
         LoopPackets, GrantLine, OutputLine, ClosedState
<1> QED BY <1>1, <1>2, <1>3 DEF IInv, Flow, Server

LEMMA SetupAnswerKeeps ==
  ASSUME IInv, NEW w \in Grants, SetupAnswer(w)
  PROVE  IInv'
<1> USE DEF inputVars
<1>1. /\ session = "setup" /\ drain = "none" /\ ~channelOpen /\ accepted = 0 /\ inputQueue = <<>>
      /\ inputQueueBytes = 0 /\ chain = <<>> /\ wire = <<>> /\ toWorker = <<>> /\ closedAt = None
      /\ UNCHANGED <<tcp, inputVars, offset, chain, wireVars, serverVars, localWindowRemaining>>
  BY DEF SetupAnswer, drainVars, IInv, Flow, EarlyState, Early
<1>2. TypeOK'
  <2>1. Len(Steps) = 9 /\ Steps[9] = "shell"
    BY DEF Steps
  <2>2. w \in Nat
    BY WindowAssumption
  <2>3. step' \in 1 .. Len(Steps)
    BY <2>1 DEF SetupAnswer, IInv, TypeOK
  <2> QED BY <1>1, <2>2, <2>3 DEF SetupAnswer, windowVars, inputVars, wireVars,
      serverVars, IInv, TypeOK
<1>3. EarlyState'
  BY DEF SetupAnswer, windowVars, inputVars, wireVars, serverVars, IInv, Flow, EarlyState,
         Early
<1>4. QueueLine'
  BY <1>1, EmptyLists DEF inputVars, QueueLine, Front
<1>5. DrainState'
  <2>1. /\ accepted' = 0 /\ inputQueue' = <<>> /\ wire' = <<>> /\ offset' = offset
        /\ \/ drain' = "none" /\ ~channelOpen'
           \/ drain' = "parked" /\ channelOpen'
    <3>1. CASE Steps[step] = "shell"
      BY <1>1, <3>1 DEF SetupAnswer, inputVars, wireVars
    <3>2. CASE Steps[step] # "shell"
      <4>1. channelOpen = FALSE
        BY <1>1 DEF IInv, TypeOK
      <4>2. channelOpen' = FALSE /\ drain' = drain
        BY <3>2, <4>1 DEF SetupAnswer
      <4>3. /\ accepted' = 0 /\ inputQueue' = <<>> /\ wire' = <<>> /\ offset' = offset
        BY <1>1 DEF inputVars, wireVars
      <4>4. drain' = "none" /\ ~channelOpen'
        BY <1>1, <4>2
      <4> QED BY <4>3, <4>4
    <3> QED BY <3>1, <3>2
  <2>2. offset = 0
    BY <1>1 DEF IInv, Flow, EarlyState, Early
  <2>3. Front' = 0 /\ End(wire') = 0
    BY <2>1, EmptyLists DEF Front
  <2> QED BY <2>1, <2>2, <2>3 DEF DrainState
<1>6. DataPackets'
  BY <1>1, EmptyLists DEF SetupAnswer, DataPackets
<1>7. LoopPackets'
  BY <1>1, EmptyLists DEF SetupAnswer, LoopPackets
<1>8. GrantLine'
  <2>1. \/ remoteWindow' = granted'
        \/ remoteWindow' = remoteWindow /\ granted' = granted
    <3>1. CASE Steps[step] = "open"
      BY <3>1 DEF SetupAnswer
    <3>2. CASE Steps[step] # "open"
      BY <3>2 DEF SetupAnswer, windowVars
    <3> QED BY <3>1, <3>2
  <2>2. remoteWindow' <= granted' /\ remoteWindow' \in Nat /\ granted' \in Nat
    BY <1>1, <1>2, <2>1, EmptyLists DEF IInv, Server, GrantLine, Lies, TypeOK
  <2> QED BY <1>1, <2>2, EmptyLists DEF wireVars, serverVars, GrantLine
<1>9. ClosedState'
  BY <1>1 DEF wireVars, ClosedState
<1>10. OutputLine'
  BY DEF SetupAnswer, windowVars, inputVars, wireVars, serverVars, IInv, Server,
         OutputLine
<1> QED BY <1>2, <1>3, <1>4, <1>5, <1>6, <1>7, <1>8, <1>9, <1>10 DEF IInv, Flow, Server

LEMMA SetupAdjustKeeps ==
  ASSUME IInv, NEW n \in Grants, SetupAdjust(n)
  PROVE  IInv'
<1> USE DEF inputVars, drainVars, wireVars, serverVars
<1>1. /\ session = "setup" /\ drain = "none" /\ ~channelOpen /\ accepted = 0 /\ inputQueue = <<>>
      /\ inputQueueBytes = 0 /\ chain = <<>> /\ wire = <<>> /\ toWorker = <<>> /\ closedAt = None
      /\ UNCHANGED <<tcp, inputVars, offset, chain, wireVars, serverVars, localWindowRemaining>>
  BY DEF SetupAdjust, drainVars, IInv, Flow, EarlyState, Early
<1>2. TypeOK'
  <2>1. n \in Nat
    BY WindowAssumption
  <2> QED BY <1>1, <2>1 DEF SetupAdjust, Credited, IInv, TypeOK
<1>3. EarlyState'
  BY <1>1 DEF SetupAdjust, IInv, Flow, EarlyState, Early
<1>4. DrainState'
  BY <1>1, EmptyLists DEF SetupAdjust, inputVars, drainVars, wireVars, IInv, Flow,
     DrainState
<1>5. DataPackets'
  BY <1>1, EmptyLists DEF DataPackets
<1>6. LoopPackets'
  BY <1>1, EmptyLists DEF LoopPackets
<1>7. GrantLine'
  <2>1. /\ remoteWindow' = remoteWindow + n /\ granted' = granted + n /\ n \in Nat
        /\ remoteWindow \in Nat /\ granted \in Nat /\ remoteWindow <= granted
    BY <1>1, WindowAssumption, EmptyLists
    DEF SetupAdjust, Credited, IInv, Server, GrantLine, Lies, TypeOK
  <2>2. remoteWindow' <= granted' /\ remoteWindow' \in Nat
    BY <2>1
  <2> QED BY <1>1, <2>2, EmptyLists DEF wireVars, serverVars, GrantLine
<1>8. ClosedState'
  BY DEF SetupAdjust, Credited, IInv, Server, ClosedState
<1>9. QueueLine' /\ OutputLine'
  BY DEF SetupAdjust, Credited, IInv, Flow, Server, QueueLine, Front, OutputLine
<1> QED BY <1>2, <1>3, <1>4, <1>5, <1>6, <1>7, <1>8, <1>9 DEF IInv, Flow, Server

LEMMA SetupThrowsKeeps ==
  ASSUME IInv, SetupThrows
  PROVE  IInv'
<1> USE DEF channelVars, inputVars, drainVars, windowVars, wireVars, serverVars
<1>1. TypeOK'
  BY DEF SetupThrows, Throws, IInv, TypeOK
<1>2. EarlyState'
  BY DEF SetupThrows, Throws, IInv, Flow, EarlyState, Early
<1>3. LoopPackets'
  BY DEF SetupThrows, Throws, IInv, Flow, LoopPackets
<1>4. ClosedState'
  BY DEF SetupThrows, Throws, IInv, Server, ClosedState
<1>5. QueueLine' /\ DrainState' /\ DataPackets' /\ GrantLine' /\ OutputLine'
  BY DEF SetupThrows, Throws, IInv, Flow, Server, QueueLine, Front, DrainState,
         DataPackets, GrantLine, OutputLine
<1> QED BY <1>1, <1>2, <1>3, <1>4, <1>5 DEF IInv, Flow, Server

LEMMA TypeKeeps ==
  ASSUME IInv, NEW n \in MsgSizes, Type(n)
  PROVE  IInv'
<1>1. /\ accepted \in Nat /\ n \in Nat /\ n > 0 /\ accepted' = accepted + n
      /\ inputQueue \in Seq(Span) /\ wire \in Seq(Span) /\ wire' = wire /\ End(wire) \in Nat
      /\ [lo |-> accepted, hi |-> accepted + n] \in Span
      /\ inputQueue' = Append(inputQueue, [lo |-> accepted, hi |-> accepted + n])
      /\ inputQueueBytes' = inputQueueBytes + n /\ inputQueueBytes \in Nat
      /\ remoteWindow' = remoteWindow /\ channelOpen /\ channelOpen' /\ session' = session
  BY InputAssumption, EndNat DEF Type, windowVars, wireVars, IInv, TypeOK, Span,
     Input!Span
<1>2. /\ inputQueue' \in Seq(Span) /\ inputQueue' # <<>> /\ Len(inputQueue') = Len(inputQueue) + 1
      /\ \A i \in 1 .. Len(inputQueue) : inputQueue'[i] = inputQueue[i]
      /\ inputQueue'[Len(inputQueue) + 1] = [lo |-> accepted, hi |-> accepted + n]
  BY <1>1, AppendAt
<1>3. /\ Len(inputQueue) \in Nat /\ (inputQueue # <<>> => Len(inputQueue) > 0)
      /\ \A i \in 1 .. Len(inputQueue) : inputQueue[i].lo \in Nat /\ inputQueue[i].hi \in Nat
  BY <1>1, SpanFields
<1>4. Front' = Front
  <2>1. CASE inputQueue = <<>>
    BY <1>1, <1>2, <2>1, EmptyLists DEF Front
  <2>2. CASE inputQueue # <<>>
    BY <1>2, <1>3, <2>2 DEF Front
  <2> QED BY <2>1, <2>2
<1>5. QueueLine'
  <2>1. \A i \in 1 .. Len(inputQueue') : i \in 1 .. Len(inputQueue) \/ i = Len(inputQueue) + 1
    BY <1>2, <1>3
  <2>2. \A i \in 1 .. Len(inputQueue') :
          inputQueue'[i].lo <= inputQueue'[i].hi /\ inputQueue'[i].hi <= accepted'
    BY <1>1, <1>2, <1>3, <2>1 DEF IInv, Flow, QueueLine
  <2>3. ASSUME NEW i \in 1 .. Len(inputQueue') - 1
        PROVE  inputQueue'[i].hi = inputQueue'[i + 1].lo
    <3>1. CASE i = Len(inputQueue)
      BY <1>1, <1>2, <1>3, <3>1 DEF IInv, Flow, QueueLine
    <3>2. CASE i # Len(inputQueue)
      <4>1. i \in 1 .. Len(inputQueue) - 1 /\ i + 1 \in 1 .. Len(inputQueue)
        BY <1>2, <1>3, <3>2
      <4> QED BY <1>2, <4>1 DEF IInv, Flow, QueueLine
    <3> QED BY <3>1, <3>2
  <2>4. inputQueueBytes' = accepted' - Front'
    <3>1. Front \in Nat
      BY <1>1, <1>3 DEF Front
    <3>2. inputQueueBytes = accepted - Front
      BY DEF IInv, Flow, QueueLine
    <3> QED BY <1>1, <1>4, <3>1, <3>2
  <2>5. inputQueue'[Len(inputQueue')].hi = accepted'
    BY <1>1, <1>2
  <2> QED BY <2>2, <2>3, <2>4, <2>5 DEF QueueLine
<1>6. /\ chain' \in Seq(ChainPacket) /\ offset' \in Nat /\ drain' \in {"parked", "sending"}
      /\ DrainState' /\ DataPackets' /\ LoopPackets'
  <2>1. /\ chain \in Seq(ChainPacket) /\ offset \in Nat /\ remoteWindow \in Nat
        /\ drain \in {"parked", "sending"} /\ Lone(chain, LoopKinds)
    BY <1>1 DEF IInv, Flow, TypeOK, ChainPacket, DrainState, LoopPackets
  <2>2. CASE drain = "parked"
    <3>1. End(wire') = Front'
      BY <1>1, <1>4, <2>2 DEF IInv, Flow, DrainState
    <3>2. DrainTop(inputQueue', remoteWindow', chain)
      BY <1>1, <2>2 DEF Type, WakeForInput, SignalDrain
    <3>3. \A i \in 1 .. Len(chain) :
            /\ chain[i].kind # "data" /\ chain[i].hi = 0
            /\ chain[i].kind \in LoopKinds => session' = "awaiting"
      BY <1>1, <2>2 DEF IInv, Flow, DataPackets, LoopPackets
    <3> QED BY <1>1, <1>2, <1>5, <2>1, <3>1, <3>2, <3>3, LoopGoesRound
  <2>3. CASE drain = "sending"
    <3>1. UNCHANGED <<drain, offset, chain>>
      BY <2>3 DEF Type, WakeForInput, SignalDrain, drainVars
    <3>2. inputQueue # <<>> /\ inputQueue'[1] = inputQueue[1]
      BY <1>2, <1>3, <2>3 DEF IInv, Flow, DrainState
    <3>3. DrainState'
      BY <1>1, <1>2, <1>3, <2>3, <3>1, <3>2 DEF IInv, Flow, DrainState
    <3>4. DataPackets' /\ LoopPackets'
      BY <1>1, <3>1, <3>2 DEF IInv, Flow, DataPackets, LoopPackets
    <3> QED BY <2>1, <2>3, <3>1, <3>3, <3>4
  <2> QED BY <2>1, <2>2, <2>3
<1>7. TypeOK'
  BY <1>1, <1>2, <1>6 DEF Type, windowVars, wireVars, serverVars, IInv, TypeOK,
     ChainPacket
<1>8. EarlyState'
  BY <1>1, <1>6 DEF Type, IInv, Flow, EarlyState
<1>9. ClosedState'
  BY <1>1 DEF Type, wireVars, IInv, Server, ClosedState
<1>10. GrantLine' /\ OutputLine'
  BY DEF Type, windowVars, wireVars, serverVars, IInv, Server, GrantLine, OutputLine
<1> QED BY <1>7, <1>8, <1>5, <1>6, <1>9, <1>10 DEF IInv, Flow, Server

LEMMA ResizeKeeps ==
  ASSUME IInv, Resize
  PROVE  IInv'
<1>1. chain' \in Seq(ChainPacket) /\ chain' # <<>> /\ DataPackets' /\ LoopPackets'
  BY ChainGrows DEF Resize, windowVars, wireVars, IInv, Flow, LoopKinds
<1>2. TypeOK'
  BY <1>1 DEF Resize, windowVars, wireVars, serverVars, IInv, TypeOK, ChainPacket
<1>3. EarlyState'
  BY DEF Resize, wireVars, serverVars, IInv, Flow, EarlyState
<1>4. QueueLine' /\ DrainState' /\ GrantLine' /\ OutputLine' /\ ClosedState'
  BY DEF Resize, Send, windowVars, wireVars, serverVars, IInv, Flow, Server, QueueLine,
         Front, DrainState, GrantLine, OutputLine, ClosedState
<1> QED BY <1>2, <1>3, <1>1, <1>4 DEF IInv, Flow, Server

LEMMA DataWrittenKeeps ==
  ASSUME IInv, DataWritten
  PROVE  IInv'
<1>1. /\ chain \in Seq(ChainPacket) /\ chain # <<>> /\ Head(chain) = chain[1] /\ 1 \in 1 .. Len(chain)
      /\ chain[1] \in ChainPacket /\ chain[1].kind = "data"
  <2>1. chain \in Seq(ChainPacket) /\ chain # <<>> /\ Head(chain).kind = "data"
    BY DEF DataWritten, HeadIs, IInv, TypeOK, ChainPacket
  <2> QED BY <2>1, TailAt
<1>2. /\ drain = "sending" /\ inputQueue \in Seq(Span) /\ inputQueue # <<>> /\ wire \in Seq(Span)
      /\ End(wire) \in Nat /\ offset \in Nat /\ remoteWindow \in Nat /\ accepted \in Nat
      /\ inputQueue[1].lo \in Nat /\ inputQueue[1].hi \in Nat
      /\ inputQueue[1].lo + offset = End(wire) /\ chain[1].lo = End(wire)
      /\ chain[1].lo <= chain[1].hi /\ chain[1].hi <= inputQueue[1].hi
      /\ chain[1].hi <= End(wire) + remoteWindow /\ chain[1].lo \in Nat /\ chain[1].hi \in Nat
      /\ Size(inputQueue[1]) = inputQueue[1].hi - inputQueue[1].lo
  BY <1>1, SpanFields, ChainFields, EndNat
  DEF IInv, Flow, TypeOK, DrainState, DataPackets, Size, Input!Size
<1> DEFINE piece == [lo |-> chain[1].lo, hi |-> chain[1].hi]
           w == remoteWindow - Size(chain[1])
           off == offset + Size(chain[1])
           again == off < Size(inputQueue[1]) /\ w > 0 /\ channelOpen
<1>3. /\ Size(chain[1]) = chain[1].hi - chain[1].lo
      /\ w \in Nat /\ off \in Nat /\ off <= Size(inputQueue[1])
      /\ chain[1].hi = inputQueue[1].lo + off /\ chain[1].hi + w = End(wire) + remoteWindow
  <2>1. Size(chain[1]) = chain[1].hi - chain[1].lo
    BY DEF Size, Input!Size
  <2>2. w = remoteWindow - (chain[1].hi - chain[1].lo) /\ off = offset + (chain[1].hi - chain[1].lo)
    BY <2>1
  <2> DEFINE ql == inputQueue[1].lo
             qh == inputQueue[1].hi
             cl == chain[1].lo
             ch == chain[1].hi
  <2>3. /\ ql \in Nat /\ qh \in Nat /\ cl \in Nat /\ ch \in Nat
        /\ ql + offset = End(wire) /\ cl = End(wire) /\ cl <= ch /\ ch <= qh
        /\ ch <= End(wire) + remoteWindow
        /\ Size(inputQueue[1]) = qh - ql /\ Size(chain[1]) = ch - cl
        /\ w = remoteWindow - (ch - cl) /\ off = offset + (ch - cl)
    BY <1>2, <2>1, <2>2
  <2>4. /\ w \in Nat /\ off \in Nat /\ off <= qh - ql
        /\ ch = ql + off /\ ch + w = End(wire) + remoteWindow
    <3>1. /\ End(wire) \in Nat /\ offset \in Nat /\ remoteWindow \in Nat
      BY <1>2
    <3> HIDE DEF w, off, piece, again, ql, qh, cl, ch
    <3> QED BY <2>3, <3>1
  <2> QED BY <2>3, <2>4
<1>4. /\ wire' = Append(wire, piece) /\ wire' \in Seq(Span) /\ End(wire') = chain[1].hi
      /\ Len(wire') = Len(wire) + 1 /\ remoteWindow' = w
  <2>1. piece \in Span /\ piece.hi = chain[1].hi
    BY <1>2 DEF Span, Input!Span
  <2>2. wire' = Append(wire, piece) /\ remoteWindow' = w
    BY <1>1 DEF DataWritten
  <2> HIDE DEF piece
  <2> QED BY <1>2, <2>1, <2>2, AppendAt, EndAppend
<1>5. /\ Tail(chain) \in Seq(ChainPacket) /\ Lone(Tail(chain), LoopKinds)
      /\ \A i \in 1 .. Len(Tail(chain)) :
           /\ Tail(chain)[i].kind # "data" /\ Tail(chain)[i].hi = 0
           /\ Tail(chain)[i].kind \in LoopKinds => session' = "awaiting"
  <2>1. Lone(chain, {"data"}) /\ Lone(chain, LoopKinds) /\ session' = session
    BY DEF DataWritten, IInv, Flow, DataPackets, LoopPackets
  <2>2. /\ Tail(chain) \in Seq(ChainPacket) /\ Lone(Tail(chain), LoopKinds)
        /\ \A i \in 1 .. Len(Tail(chain)) : Tail(chain)[i].kind # "data"
    BY <1>1, <2>1, TailAt, LoneTail
  <2>3. \A i \in 1 .. Len(Tail(chain)) : \E j \in 1 .. Len(chain) : Tail(chain)[i] = chain[j]
    BY <1>1, TailMembers
  <2> QED BY <2>1, <2>2, <2>3 DEF IInv, Flow, DataPackets, LoopPackets
<1>6. /\ channelOpen' = channelOpen /\ session' = session /\ accepted' = accepted /\ closedAt' = closedAt
      /\ IF again
         THEN /\ drain' = "sending" /\ offset' = off
              /\ chain' = Append(Tail(chain), Chunk(inputQueue, off, w))
              /\ inputQueue' = inputQueue /\ inputQueueBytes' = inputQueueBytes
         ELSE /\ SettleEntry(off)
              /\ IF channelOpen
                 THEN DrainTop(inputQueue', w, Tail(chain))
                 ELSE drain' = "done" /\ offset' = 0 /\ chain' = Tail(chain)
  BY <1>1 DEF DataWritten
<1>7. /\ inputQueue' \in Seq(Span) /\ inputQueueBytes' \in Nat /\ QueueLine'
      /\ chain' \in Seq(ChainPacket) /\ offset' \in Nat /\ drain' \in {"parked", "sending", "done"}
      /\ (~channelOpen => drain' = "done")
      /\ DrainState' /\ DataPackets' /\ LoopPackets'
  <2> HIDE DEF w, off, again, piece
  <2>1. CASE again
    <3>1. off < Size(inputQueue[1]) /\ channelOpen
      BY <2>1 DEF again
    <3>2. /\ drain' = "sending" /\ offset' = off /\ inputQueue' = inputQueue
          /\ chain' = Append(Tail(chain), Chunk(inputQueue', off, remoteWindow'))
          /\ inputQueueBytes' = inputQueueBytes
      BY <1>4, <1>6, <2>1
    <3>3. End(wire') = inputQueue'[1].lo + off /\ End(wire') <= inputQueue'[1].hi
      BY <1>2, <1>3, <1>4, <3>2
    <3>4. chain' \in Seq(ChainPacket) /\ DataPackets' /\ LoopPackets'
      BY <1>2, <1>3, <1>4, <1>5, <3>2, <3>3, ChunkHandedOver
    <3>5. QueueLine'
      BY <1>6, <3>2 DEF IInv, Flow, QueueLine, Front
    <3>6. DrainState'
      <4>1. 1 \in 1 .. Len(inputQueue) /\ inputQueue[1].hi <= accepted
        BY <1>2, SpanFields DEF IInv, Flow, QueueLine
      <4> QED BY <1>2, <1>3, <1>4, <1>6, <3>1, <3>2, <3>3, <4>1 DEF DrainState
    <3> QED BY <1>2, <1>3, <3>1, <3>2, <3>4, <3>5, <3>6 DEF IInv, TypeOK
  <2>2. CASE ~again
    <3>1. /\ inputQueue' \in Seq(Span) /\ inputQueueBytes' \in Nat
          /\ QueueLine' /\ Front' = inputQueue[1].lo + off
      BY <1>2, <1>3, <1>6, <2>2, EntrySettled DEF IInv, Flow
    <3>2. End(wire') = Front'
      BY <1>3, <1>4, <3>1
    <3>3. CASE channelOpen
      <4>1. DrainTop(inputQueue', remoteWindow', Tail(chain)) /\ channelOpen'
        BY <1>4, <1>6, <2>2, <3>3
      <4>2. /\ wire' \in Seq(Span) /\ remoteWindow' \in Nat /\ accepted' \in Nat
            /\ Tail(chain) \in Seq(ChainPacket) /\ Lone(Tail(chain), LoopKinds)
        BY <1>2, <1>3, <1>4, <1>5, <1>6
      <4>3. /\ chain' \in Seq(ChainPacket) /\ offset' = 0 /\ drain' \in {"parked", "sending"}
            /\ DrainState' /\ DataPackets' /\ LoopPackets'
        BY <1>5, <3>1, <3>2, <4>1, <4>2, LoopGoesRound
      <4> QED BY <3>1, <3>3, <4>3
    <3>4. CASE ~channelOpen
      <4>1. drain' = "done" /\ offset' = 0 /\ chain' = Tail(chain)
        BY <1>6, <2>2, <3>4
      <4>2. DataPackets' /\ LoopPackets'
        BY <1>5, <4>1 DEF DataPackets, LoopPackets, Lone
      <4>3. DrainState'
        <5>1. 1 \in 1 .. Len(inputQueue) /\ inputQueue[1].hi <= accepted
          BY <1>2, SpanFields DEF IInv, Flow, QueueLine
        <5> QED BY <1>2, <1>3, <1>4, <1>6, <3>4, <4>1, <5>1 DEF DrainState
      <4> QED BY <1>5, <3>1, <3>4, <4>1, <4>2, <4>3
    <3> QED BY <3>3, <3>4
  <2> QED BY <2>1, <2>2
<1>8. TypeOK'
  <2> HIDE DEF piece, w, off, again
  <2>1. UNCHANGED <<timer, ws, tcp, session, step, channelOpen, accepted, resizes, granted, closedAt,
                    toWorker, server, credit, produced, localWindowRemaining>>
    BY DEF DataWritten, serverVars
  <2> QED BY <1>3, <1>4, <1>7, <2>1 DEF IInv, TypeOK, ChainPacket
<1>9. EarlyState'
  <2>1. session \notin Early
    BY <1>2 DEF IInv, Flow, EarlyState
  <2> QED BY <1>6, <1>7, <2>1 DEF DataWritten, EarlyState, Early
<1>10. GrantLine'
  BY <1>3, <1>4 DEF DataWritten, serverVars, IInv, Server, GrantLine
<1>11. ClosedState'
  <2>1. Len(wire) \in Nat
    BY <1>2, LenProperties
  <2> HIDE DEF piece, w, off, again
  <2> QED BY <1>2, <1>4, <1>6, <1>7, <2>1 DEF IInv, Server, TypeOK, ClosedState
<1>12. OutputLine'
  BY DEF DataWritten, serverVars, IInv, Server, OutputLine
<1> QED BY <1>8, <1>9, <1>7, <1>10, <1>11, <1>12 DEF IInv, Flow, Server

LEMMA DataRejectedKeeps ==
  ASSUME IInv, DataRejected
  PROVE  IInv'
<1>1. /\ chain \in Seq(ChainPacket) /\ chain # <<>> /\ Head(chain) = chain[1] /\ 1 \in 1 .. Len(chain)
      /\ chain[1] \in ChainPacket /\ chain[1].kind = "data"
  <2>1. chain \in Seq(ChainPacket) /\ chain # <<>> /\ Head(chain).kind = "data"
    BY DEF DataRejected, HeadIs, IInv, TypeOK, ChainPacket
  <2> QED BY <2>1, TailAt
<1>2. /\ drain = "sending" /\ inputQueue \in Seq(Span) /\ inputQueue # <<>> /\ wire \in Seq(Span)
      /\ End(wire) \in Nat /\ offset \in Nat /\ remoteWindow \in Nat /\ accepted \in Nat
      /\ inputQueue[1].lo \in Nat /\ inputQueue[1].hi \in Nat
      /\ inputQueue[1].lo + offset = End(wire) /\ chain[1].lo = End(wire)
      /\ chain[1].lo <= chain[1].hi /\ chain[1].hi <= inputQueue[1].hi
      /\ chain[1].hi <= End(wire) + remoteWindow /\ chain[1].lo \in Nat /\ chain[1].hi \in Nat
      /\ Size(inputQueue[1]) = inputQueue[1].hi - inputQueue[1].lo
  BY <1>1, SpanFields, ChainFields, EndNat
  DEF IInv, Flow, TypeOK, DrainState, DataPackets, Size, Input!Size
<1>3. /\ inputQueue' \in Seq(Span) /\ inputQueueBytes' \in Nat
      /\ QueueLine' /\ Front' = inputQueue[1].lo + offset
  <2>1. offset <= Size(inputQueue[1]) /\ SettleEntry(offset) /\ accepted' = accepted
    BY <1>2 DEF DataRejected
  <2> QED BY <1>2, <2>1, EntrySettled DEF IInv, Flow
<1>4. chain' \in Seq(ChainPacket) /\ DataPackets' /\ LoopPackets'
  <2>1. /\ Lone(chain, {"data"}) /\ Lone(chain, LoopKinds)
        /\ chain' = Tail(chain) /\ session' = session
    BY DEF DataRejected, IInv, Flow, DataPackets, LoopPackets
  <2>2. /\ chain' \in Seq(ChainPacket) /\ Lone(chain', {"data"}) /\ Lone(chain', LoopKinds)
        /\ \A i \in 1 .. Len(chain') : chain'[i].kind # "data"
    BY <1>1, <2>1, TailAt, LoneTail
  <2>3. \A i \in 1 .. Len(chain') : \E j \in 1 .. Len(chain) : chain'[i] = chain[j]
    BY <1>1, <2>1, TailMembers
  <2> QED BY <2>1, <2>2, <2>3 DEF IInv, Flow, DataPackets, LoopPackets
<1>5. TypeOK'
  BY <1>3, <1>4 DEF DataRejected, windowVars, wireVars, serverVars, IInv, TypeOK,
     ChainPacket
<1>6. EarlyState'
  <2>1. session \notin Early
    BY <1>2 DEF IInv, Flow, EarlyState
  <2> QED BY <2>1 DEF DataRejected, EarlyState, Early
<1>7. DrainState'
  BY DEF DataRejected, windowVars, wireVars, IInv, Flow, DrainState
<1>8. ClosedState'
  BY DEF DataRejected, wireVars, IInv, Server, ClosedState
<1>9. GrantLine' /\ OutputLine'
  BY DEF DataRejected, windowVars, wireVars, serverVars, IInv, Server, GrantLine,
         OutputLine
<1> QED BY <1>5, <1>6, <1>3, <1>7, <1>4, <1>8, <1>9 DEF IInv, Flow, Server

LEMMA ResizeSettledKeeps ==
  ASSUME IInv, ResizeSettled
  PROVE  IInv'
<1>1. /\ chain \in Seq(ChainPacket) /\ chain # <<>> /\ Head(chain) = chain[1] /\ 1 \in 1 .. Len(chain)
      /\ chain[1] \in ChainPacket /\ chain[1].kind = "resize"
  <2>1. chain \in Seq(ChainPacket) /\ chain # <<>> /\ Head(chain).kind = "resize"
    BY DEF ResizeSettled, HeadIs, IInv, TypeOK, ChainPacket
  <2> QED BY <2>1, TailAt
<1>2. chain' \in Seq(ChainPacket) /\ DataPackets' /\ LoopPackets'
  BY <1>1, ChainShrinks DEF ResizeSettled, inputVars, windowVars, wireVars, IInv, Flow,
     LoopKinds
<1>3. TypeOK'
  BY <1>2 DEF ResizeSettled, inputVars, windowVars, wireVars, serverVars, IInv, TypeOK,
     ChainPacket
<1>4. EarlyState'
  BY <1>1 DEF ResizeSettled, inputVars, wireVars, serverVars, IInv, Flow, EarlyState
<1>5. QueueLine' /\ DrainState' /\ GrantLine' /\ OutputLine' /\ ClosedState'
  BY DEF ResizeSettled, inputVars, windowVars, wireVars, serverVars, IInv, Flow, Server,
         QueueLine, Front, DrainState, GrantLine, OutputLine, ClosedState
<1> QED BY <1>3, <1>4, <1>2, <1>5 DEF IInv, Flow, Server

LEMMA AdjustSettledKeeps ==
  ASSUME IInv, AdjustSettled
  PROVE  IInv'
<1> USE DEF inputVars, windowVars, wireVars
<1>1. /\ chain \in Seq(ChainPacket) /\ chain # <<>> /\ Head(chain) = chain[1] /\ 1 \in 1 .. Len(chain)
      /\ chain[1] \in ChainPacket /\ chain[1].kind = "adjust"
  <2>1. chain \in Seq(ChainPacket) /\ chain # <<>> /\ Head(chain).kind = "adjust"
    BY DEF AdjustSettled, HeadIs, IInv, TypeOK, ChainPacket
  <2> QED BY <2>1, TailAt
<1>2. chain' \in Seq(ChainPacket) /\ DataPackets' /\ LoopPackets'
  BY <1>1, ChainShrinks DEF AdjustSettled, IInv, Flow, LoopKinds
<1>3. session = "awaiting" /\ session' \in {"reading", "draining"}
  BY <1>1 DEF AdjustSettled, ReadLoopTop, IInv, Flow, LoopPackets, LoopKinds
<1>4. TypeOK'
  BY <1>2, <1>3, WindowAssumption DEF AdjustSettled, IInv, TypeOK, ChainPacket
<1>5. EarlyState'
  BY <1>3 DEF AdjustSettled, IInv, Flow, EarlyState, Early
<1>6. OutputLine'
  <2>1. /\ localWindowRemaining \in Nat /\ credit \in Nat /\ Refill \in Nat /\ produced \in Nat
        /\ toWorker' = toWorker /\ produced' = produced
        /\ \/ localWindowRemaining' = localWindowRemaining + Refill /\ credit' = credit + Refill
           \/ localWindowRemaining' = localWindowRemaining /\ credit' = credit
    BY WindowAssumption DEF AdjustSettled, IInv, TypeOK
  <2>2. localWindowRemaining' - credit' = localWindowRemaining - credit
    BY <2>1
  <2> QED BY <2>1, <2>2 DEF IInv, Server, OutputLine
<1>7. ClosedState'
  BY <1>3 DEF AdjustSettled, wireVars, IInv, Server, ClosedState
<1>8. QueueLine' /\ DrainState' /\ GrantLine'
  BY DEF AdjustSettled, ReadLoopTop, IInv, Flow, Server, QueueLine, Front, DrainState,
         GrantLine
<1> QED BY <1>4, <1>5, <1>2, <1>6, <1>7, <1>8 DEF IInv, Flow, Server

LEMMA ReplySettledKeeps ==
  ASSUME IInv, ReplySettled
  PROVE  IInv'
<1>1. /\ chain \in Seq(ChainPacket) /\ chain # <<>> /\ Head(chain) = chain[1] /\ 1 \in 1 .. Len(chain)
      /\ chain[1] \in ChainPacket /\ chain[1].kind = "reply"
  <2>1. chain \in Seq(ChainPacket) /\ chain # <<>> /\ Head(chain).kind = "reply"
    BY DEF ReplySettled, HeadIs, IInv, TypeOK, ChainPacket
  <2> QED BY <2>1, TailAt
<1>2. chain' \in Seq(ChainPacket) /\ DataPackets' /\ LoopPackets'
  BY <1>1, ChainShrinks DEF ReplySettled, inputVars, windowVars, wireVars, IInv, Flow,
     LoopKinds
<1>3. session = "awaiting" /\ session' \in {"reading", "draining"}
  BY <1>1 DEF ReplySettled, ReadLoopTop, IInv, Flow, LoopPackets, LoopKinds
<1>4. TypeOK'
  BY <1>2, <1>3 DEF ReplySettled, inputVars, windowVars, wireVars, serverVars, IInv,
     TypeOK, ChainPacket
<1>5. EarlyState'
  BY <1>3 DEF ReplySettled, IInv, Flow, EarlyState, Early
<1>6. ClosedState'
  BY <1>3 DEF ReplySettled, wireVars, IInv, Server, ClosedState
<1>7. QueueLine' /\ DrainState' /\ GrantLine' /\ OutputLine'
  BY DEF ReplySettled, ReadLoopTop, inputVars, windowVars, wireVars, serverVars, IInv,
         Flow, Server, QueueLine, Front, DrainState, GrantLine, OutputLine
<1> QED BY <1>4, <1>5, <1>2, <1>6, <1>7 DEF IInv, Flow, Server

LEMMA CloseSettledKeeps ==
  ASSUME IInv, CloseSettled
  PROVE  IInv'
<1>1. /\ chain \in Seq(ChainPacket) /\ chain # <<>> /\ Head(chain) = chain[1] /\ 1 \in 1 .. Len(chain)
      /\ chain[1] \in ChainPacket /\ chain[1].kind = "close"
  <2>1. chain \in Seq(ChainPacket) /\ chain # <<>> /\ Head(chain).kind = "close"
    BY DEF CloseSettled, HeadIs, IInv, TypeOK, ChainPacket
  <2> QED BY <2>1, TailAt
<1>2. chain' \in Seq(ChainPacket) /\ DataPackets' /\ LoopPackets'
  <2>1. drain' # drain => drain = "parked"
    BY DEF CloseSettled, CloseChannel, DrainWhenClosed
  <2>2. /\ Lone(chain, {"data"}) /\ Lone(chain, LoopKinds) /\ chain' = Tail(chain)
        /\ UNCHANGED <<wire, inputQueue, remoteWindow>>
    BY DEF CloseSettled, inputVars, windowVars, IInv, Flow, DataPackets, LoopPackets
  <2>3. /\ chain' \in Seq(ChainPacket) /\ Lone(chain', {"data"}) /\ Lone(chain', LoopKinds)
        /\ \A i \in 1 .. Len(chain') : chain'[i].kind \notin LoopKinds
    BY <1>1, <2>2, TailAt, LoneTail DEF LoopKinds
  <2>4. \A i \in 1 .. Len(chain') : \E j \in 1 .. Len(chain) : chain'[i] = chain[j]
    BY <1>1, <2>2, TailMembers
  <2>5. DataPackets'
    BY <2>1, <2>2, <2>3, <2>4 DEF IInv, Flow, DataPackets
  <2> QED BY <2>3, <2>5 DEF LoopPackets
<1>3. /\ session = "awaiting" /\ session' = "draining" /\ ~channelOpen'
      /\ drain' = IF drain = "parked" THEN "done" ELSE drain
      /\ closedAt' \in {closedAt, Len(wire)} /\ wire' = wire /\ Len(wire) \in Nat
  <2>1. session = "awaiting"
    BY <1>1 DEF IInv, Flow, LoopPackets, LoopKinds
  <2>2. session' = "draining" /\ ~channelOpen' /\ wire' = wire
    BY DEF CloseSettled, CloseChannel, DrainWhenClosed, ReadLoopTop
  <2>3. drain' = IF drain = "parked" THEN "done" ELSE drain
    BY DEF CloseSettled, CloseChannel, DrainWhenClosed
  <2>4. closedAt' \in {closedAt, Len(wire)}
    BY DEF CloseSettled
  <2>5. Len(wire) \in Nat
    BY LenProperties DEF IInv, TypeOK
  <2> QED BY <2>1, <2>2, <2>3, <2>4, <2>5
<1>4. TypeOK'
  BY <1>2, <1>3 DEF CloseSettled, CloseChannel, DrainWhenClosed, inputVars, windowVars,
     serverVars, IInv, TypeOK, ChainPacket
<1>5. EarlyState'
  BY <1>3 DEF IInv, Flow, EarlyState, Early
<1>6. DrainState'
  BY <1>3 DEF CloseSettled, CloseChannel, DrainWhenClosed, inputVars, windowVars, IInv,
     Flow, DrainState
<1>7. ClosedState'
  BY <1>3 DEF IInv, Server, ClosedState
<1>8. QueueLine' /\ GrantLine' /\ OutputLine'
  BY DEF CloseSettled, inputVars, windowVars, serverVars, IInv, Flow, Server, QueueLine,
         Front, GrantLine, OutputLine
<1> QED BY <1>4, <1>5, <1>6, <1>2, <1>7, <1>8 DEF IInv, Flow, Server

LEMMA ReadRequestKeeps ==
  ASSUME IInv, ReadRequest
  PROVE  IInv'
<1> USE DEF inputVars, windowVars, wireVars
<1>1. /\ session = "reading" /\ toWorker \in Seq(ServerPacket) /\ toWorker # <<>>
      /\ toWorker' = Tail(toWorker) /\ Head(toWorker) = toWorker[1] /\ 1 \in 1 .. Len(toWorker)
      /\ toWorker[1].lo \in Nat /\ toWorker[1].hi \in Nat
  BY TailAt, ServerFields DEF ReadRequest, Reads, IInv, TypeOK, ServerPacket
<1>2. /\ wire \in Seq(Span) /\ End(wire) \in Nat /\ remoteWindow \in Nat /\ granted \in Nat
      /\ produced \in Nat /\ localWindowRemaining \in Nat /\ credit \in Nat
  BY EndNat DEF IInv, TypeOK
<1>3. /\ toWorker' \in Seq(ServerPacket) /\ GrantLine' /\ OutputLine'
  <2> DEFINE grant == End(wire) + remoteWindow
             from == produced - (localWindowRemaining - credit)
  <2>1. grant \in Int /\ from \in Int
    BY <1>2
  <2>2. Head(toWorker).kind \notin {"adjust", "data"}
    BY DEF ReadRequest, Reads
  <2>3. /\ toWorker' \in Seq(ServerPacket)
        /\ Lies(toWorker', "adjust", grant, granted) /\ Lies(toWorker', "data", from, produced)
    <3>1. grant = End(wire) + remoteWindow /\ from = produced - (localWindowRemaining - credit)
      OBVIOUS
    <3> HIDE DEF grant, from
    <3> QED BY <1>1, <2>1, <2>2, <3>1, ServerPacketRead DEF IInv, Server
  <2> QED BY <2>3 DEF ReadRequest, inputVars, windowVars, wireVars, GrantLine, OutputLine
<1>4. chain' \in Seq(ChainPacket) /\ chain' # <<>> /\ DataPackets' /\ LoopPackets'
  BY <1>1, ChainGrows DEF ReadRequest, IInv, Flow, LoopKinds
<1>5. TypeOK'
  BY <1>3, <1>4 DEF ReadRequest, IInv, TypeOK, ChainPacket, ServerPacket
<1>6. EarlyState'
  BY <1>1 DEF ReadRequest, IInv, Flow, EarlyState, Early
<1>7. ClosedState'
  BY <1>1 DEF ReadRequest, wireVars, IInv, Server, ClosedState
<1>8. QueueLine' /\ DrainState'
  BY DEF ReadRequest, IInv, Flow, QueueLine, Front, DrainState
<1> QED BY <1>5, <1>6, <1>4, <1>3, <1>7, <1>8 DEF IInv, Flow, Server

LEMMA ReadCloseKeeps ==
  ASSUME IInv, ReadClose
  PROVE  IInv'
<1> USE DEF inputVars, windowVars, wireVars
<1>1. /\ session = "reading" /\ toWorker \in Seq(ServerPacket) /\ toWorker # <<>>
      /\ toWorker' = Tail(toWorker) /\ Head(toWorker) = toWorker[1] /\ 1 \in 1 .. Len(toWorker)
      /\ toWorker[1].lo \in Nat /\ toWorker[1].hi \in Nat
  BY TailAt, ServerFields DEF ReadClose, Reads, IInv, TypeOK, ServerPacket
<1>2. /\ wire \in Seq(Span) /\ End(wire) \in Nat /\ remoteWindow \in Nat /\ granted \in Nat
      /\ produced \in Nat /\ localWindowRemaining \in Nat /\ credit \in Nat
  BY EndNat DEF IInv, TypeOK
<1>3. /\ toWorker' \in Seq(ServerPacket) /\ GrantLine' /\ OutputLine'
  <2> DEFINE grant == End(wire) + remoteWindow
             from == produced - (localWindowRemaining - credit)
  <2>1. grant \in Int /\ from \in Int
    BY <1>2
  <2>2. Head(toWorker).kind \notin {"adjust", "data"}
    BY DEF ReadClose, Reads
  <2>3. /\ toWorker' \in Seq(ServerPacket)
        /\ Lies(toWorker', "adjust", grant, granted) /\ Lies(toWorker', "data", from, produced)
    <3>1. grant = End(wire) + remoteWindow /\ from = produced - (localWindowRemaining - credit)
      OBVIOUS
    <3> HIDE DEF grant, from
    <3> QED BY <1>1, <2>1, <2>2, <3>1, ServerPacketRead DEF IInv, Server
  <2> QED BY <2>3 DEF ReadClose, inputVars, windowVars, wireVars, GrantLine, OutputLine
<1>4. chain' \in Seq(ChainPacket) /\ chain' # <<>> /\ DataPackets' /\ LoopPackets'
  BY <1>1, ChainGrows DEF ReadClose, IInv, Flow, LoopKinds
<1>5. TypeOK'
  BY <1>3, <1>4 DEF ReadClose, IInv, TypeOK, ChainPacket, ServerPacket
<1>6. EarlyState'
  BY <1>1 DEF ReadClose, IInv, Flow, EarlyState, Early
<1>7. ClosedState'
  BY <1>1 DEF ReadClose, wireVars, IInv, Server, ClosedState
<1>8. QueueLine' /\ DrainState'
  BY DEF ReadClose, IInv, Flow, QueueLine, Front, DrainState
<1> QED BY <1>5, <1>6, <1>4, <1>3, <1>7, <1>8 DEF IInv, Flow, Server

LEMMA ReadDataKeeps ==
  ASSUME IInv, ReadData
  PROVE  IInv'
<1> USE DEF inputVars, windowVars, wireVars
<1>1. /\ session = "reading" /\ toWorker \in Seq(ServerPacket) /\ toWorker # <<>>
      /\ toWorker' = Tail(toWorker) /\ Head(toWorker) = toWorker[1] /\ 1 \in 1 .. Len(toWorker)
      /\ toWorker[1].lo \in Nat /\ toWorker[1].hi \in Nat
  BY TailAt, ServerFields DEF ReadData, Reads, IInv, TypeOK, ServerPacket
<1>2. /\ wire \in Seq(Span) /\ End(wire) \in Nat /\ remoteWindow \in Nat /\ granted \in Nat
      /\ produced \in Nat /\ localWindowRemaining \in Nat /\ credit \in Nat
  BY EndNat DEF IInv, TypeOK
<1> DEFINE n == Size(Head(toWorker))
<1>3. /\ n \in Nat /\ localWindowRemaining - n \in Nat
      /\ produced - (localWindowRemaining - credit) + n <= toWorker[1].hi
      /\ localWindowRemaining' = localWindowRemaining - n
  <2>1. /\ toWorker[1].kind = "data" /\ n = toWorker[1].hi - toWorker[1].lo
        /\ localWindowRemaining' = localWindowRemaining - n
    BY <1>1 DEF ReadData, Reads, Size, Input!Size
  <2>2. /\ produced - (localWindowRemaining - credit) <= toWorker[1].lo
        /\ toWorker[1].lo <= toWorker[1].hi /\ toWorker[1].hi <= produced
    BY <1>1, <2>1 DEF IInv, Server, OutputLine, Lies
  <2> HIDE DEF n
  <2> QED BY <1>1, <1>2, <2>1, <2>2, ReadCounts
<1>4. toWorker' \in Seq(ServerPacket) /\ GrantLine' /\ OutputLine'
  <2> HIDE DEF n
  <2> DEFINE from == produced - (localWindowRemaining - credit) + n
  <2>1. from \in Int /\ from = produced - (localWindowRemaining' - credit)
    BY <1>2, <1>3
  <2> HIDE DEF from
  <2>2. Head(toWorker).kind = "data" /\ from <= Head(toWorker).hi
    BY <1>1, <1>3 DEF ReadData, Reads, from
  <2>3. /\ toWorker' \in Seq(ServerPacket)
        /\ Lies(toWorker', "adjust", End(wire) + remoteWindow, granted)
        /\ Lies(toWorker', "data", from, produced)
    BY <1>1, <1>2, <2>1, <2>2, ServerPacketRead DEF IInv, Server
  <2> QED BY <2>1, <2>3 DEF ReadData, windowVars, wireVars, GrantLine, OutputLine
<1>5. /\ chain' \in Seq(ChainPacket) /\ session' \in {"reading", "awaiting", "draining"}
      /\ DataPackets' /\ LoopPackets'
  <2>1. CASE Send("adjust") /\ session' = "awaiting"
    BY <1>1, <2>1, ChainGrows DEF ReadData, IInv, Flow, LoopKinds
  <2>2. CASE ReadLoopTop(channelOpen) /\ UNCHANGED chain
    BY <1>1, <2>2 DEF ReadData, ReadLoopTop, inputVars, windowVars, wireVars,
                      IInv, Flow, TypeOK, ChainPacket, DataPackets, LoopPackets
  <2> QED BY <2>1, <2>2 DEF ReadData
<1>6. TypeOK'
  BY <1>3, <1>4, <1>5 DEF ReadData, IInv, TypeOK, ChainPacket, ServerPacket
<1>7. EarlyState'
  BY <1>1, <1>5 DEF ReadData, IInv, Flow, EarlyState, Early
<1>8. ClosedState'
  BY <1>1 DEF ReadData, wireVars, IInv, Server, ClosedState
<1>9. QueueLine' /\ DrainState'
  BY DEF ReadData, IInv, Flow, QueueLine, Front, DrainState
<1> QED BY <1>6, <1>7, <1>5, <1>4, <1>8, <1>9 DEF IInv, Flow, Server

LEMMA ReadAdjustKeeps ==
  ASSUME IInv, ReadAdjust
  PROVE  IInv'
<1>1. /\ session = "reading" /\ toWorker \in Seq(ServerPacket) /\ toWorker # <<>>
      /\ toWorker' = Tail(toWorker) /\ Head(toWorker) = toWorker[1] /\ 1 \in 1 .. Len(toWorker)
      /\ toWorker[1].lo \in Nat /\ toWorker[1].hi \in Nat
  BY TailAt, ServerFields DEF ReadAdjust, Reads, IInv, TypeOK, ServerPacket
<1>2. /\ wire \in Seq(Span) /\ End(wire) \in Nat /\ remoteWindow \in Nat /\ granted \in Nat
      /\ produced \in Nat /\ localWindowRemaining \in Nat /\ credit \in Nat
  BY EndNat DEF IInv, TypeOK
<1> DEFINE n == Size(Head(toWorker))
<1>3. /\ n \in Nat /\ remoteWindow' = remoteWindow + n /\ remoteWindow' \in Nat
      /\ End(wire) + remoteWindow' <= toWorker[1].hi
      /\ UNCHANGED <<wire, accepted, inputQueue, inputQueueBytes, channelOpen>>
      /\ session' \in {"reading", "draining"}
  <2>1. /\ toWorker[1].kind = "adjust" /\ n = toWorker[1].hi - toWorker[1].lo
        /\ remoteWindow' = remoteWindow + n
    BY <1>1 DEF ReadAdjust, Reads, Size, Input!Size
  <2>2. End(wire) + remoteWindow <= toWorker[1].lo /\ toWorker[1].lo <= toWorker[1].hi
    BY <1>1, <2>1 DEF IInv, Server, GrantLine, Lies
  <2>3. /\ UNCHANGED <<wire, accepted, inputQueue, inputQueueBytes, channelOpen>>
        /\ session' \in {"reading", "draining"}
    BY DEF ReadAdjust, ReadLoopTop, inputVars, wireVars
  <2> HIDE DEF n
  <2> QED BY <1>1, <1>2, <2>1, <2>2, <2>3
<1>4. toWorker' \in Seq(ServerPacket) /\ GrantLine' /\ OutputLine'
  <2> HIDE DEF n
  <2> DEFINE grant == End(wire) + remoteWindow'
             from == produced - (localWindowRemaining - credit)
  <2>1. grant \in Int /\ from \in Int
    BY <1>2, <1>3
  <2>2. Head(toWorker).kind = "adjust" /\ grant <= Head(toWorker).hi
    BY <1>1, <1>3 DEF ReadAdjust, Reads
  <2>3. /\ toWorker' \in Seq(ServerPacket)
        /\ Lies(toWorker', "adjust", grant, granted) /\ Lies(toWorker', "data", from, produced)
    <3> HIDE DEF grant
    <3> QED BY <1>1, <2>1, <2>2, ServerPacketRead DEF IInv, Server
  <2> QED BY <1>3, <2>3 DEF ReadAdjust, GrantLine, OutputLine
<1>5. QueueLine'
  BY <1>3 DEF IInv, Flow, QueueLine, Front
<1>6. /\ chain' \in Seq(ChainPacket) /\ offset' \in Nat /\ drain' \in {"none", "parked", "sending", "done"}
      /\ DrainState' /\ DataPackets' /\ LoopPackets'
      /\ (drain' = "none" => drain = "none") /\ (~channelOpen => drain' = drain)
  <2> HIDE DEF n
  <2>1. /\ chain \in Seq(ChainPacket) /\ offset \in Nat /\ Lone(chain, LoopKinds) /\ accepted \in Nat
        /\ inputQueue \in Seq(Span) /\ drain \in {"none", "parked", "sending", "done"}
        /\ \A i \in 1 .. Len(chain) : chain[i].kind \notin LoopKinds
    BY <1>1 DEF IInv, Flow, TypeOK, ChainPacket, LoopPackets
  <2>2. CASE drain = "parked"
    <3>1. End(wire') = Front' /\ channelOpen
      BY <1>3, <2>2 DEF IInv, Flow, DrainState, Front
    <3>2. DrainTop(inputQueue', remoteWindow', chain)
      BY <1>3, <2>2 DEF ReadAdjust, WakeForWindow, SignalDrain
    <3>3. \A i \in 1 .. Len(chain) :
            /\ chain[i].kind # "data" /\ chain[i].hi = 0
            /\ chain[i].kind \in LoopKinds => session' = "awaiting"
      BY <2>1, <2>2 DEF IInv, Flow, DataPackets
    <3>4. /\ inputQueue' \in Seq(Span) /\ wire' \in Seq(Span) /\ remoteWindow' \in Nat
          /\ accepted' \in Nat /\ channelOpen'
      BY <1>2, <1>3, <2>1, <3>1
    <3>5. /\ chain' \in Seq(ChainPacket) /\ offset' = 0 /\ drain' \in {"parked", "sending"}
          /\ DrainState' /\ DataPackets' /\ LoopPackets'
      BY <1>5, <2>1, <3>1, <3>2, <3>3, <3>4, LoopGoesRound
    <3> QED BY <3>1, <3>5
  <2>3. CASE drain # "parked"
    <3>1. UNCHANGED <<drain, offset, chain>>
      BY <2>3 DEF ReadAdjust, WakeForWindow, SignalDrain, drainVars
    <3>2. DrainState'
      BY <1>3, <2>3, <3>1 DEF IInv, Flow, DrainState
    <3>3. DataPackets'
      <4>1. \A i \in 1 .. Len(chain) : chain[i].hi \in Nat
        BY <2>1, ChainFields
      <4> QED BY <1>2, <1>3, <3>1, <4>1 DEF IInv, Flow, DataPackets
    <3>4. LoopPackets'
      BY <2>1, <3>1 DEF IInv, Flow, LoopPackets
    <3> QED BY <2>1, <3>1, <3>2, <3>3, <3>4
  <2> QED BY <2>2, <2>3
<1>7. TypeOK'
  BY <1>3, <1>4, <1>6 DEF ReadAdjust, inputVars, wireVars, IInv, TypeOK, ChainPacket,
     ServerPacket
<1>8. EarlyState'
  BY <1>1, <1>3, <1>6 DEF ReadAdjust, IInv, Flow, EarlyState, Early
<1>9. ClosedState'
  BY <1>1, <1>3 DEF ReadAdjust, wireVars, IInv, Server, ClosedState
<1>10. QueueLine'
  BY DEF ReadAdjust, inputVars, wireVars, IInv, Flow, QueueLine, Front
<1> QED BY <1>7, <1>8, <1>6, <1>4, <1>9, <1>10 DEF IInv, Flow, Server

LEMMA ReadDisconnectKeeps ==
  ASSUME IInv, ReadDisconnect
  PROVE  IInv'
<1> USE DEF inputVars, windowVars, wireVars
<1>1. /\ session = "reading" /\ toWorker \in Seq(ServerPacket) /\ toWorker # <<>>
      /\ toWorker' = Tail(toWorker) /\ Head(toWorker) = toWorker[1] /\ 1 \in 1 .. Len(toWorker)
      /\ toWorker[1].lo \in Nat /\ toWorker[1].hi \in Nat
  BY TailAt, ServerFields DEF ReadDisconnect, Reads, IInv, TypeOK, ServerPacket
<1>2. /\ wire \in Seq(Span) /\ End(wire) \in Nat /\ remoteWindow \in Nat /\ granted \in Nat
      /\ produced \in Nat /\ localWindowRemaining \in Nat /\ credit \in Nat
  BY EndNat DEF IInv, TypeOK
<1>3. /\ toWorker' \in Seq(ServerPacket) /\ GrantLine' /\ OutputLine'
  <2> DEFINE grant == End(wire) + remoteWindow
             from == produced - (localWindowRemaining - credit)
  <2>1. grant \in Int /\ from \in Int
    BY <1>2
  <2>2. Head(toWorker).kind \notin {"adjust", "data"}
    BY DEF ReadDisconnect, Reads
  <2>3. /\ toWorker' \in Seq(ServerPacket)
        /\ Lies(toWorker', "adjust", grant, granted) /\ Lies(toWorker', "data", from, produced)
    <3>1. grant = End(wire) + remoteWindow /\ from = produced - (localWindowRemaining - credit)
      OBVIOUS
    <3> HIDE DEF grant, from
    <3> QED BY <1>1, <2>1, <2>2, <3>1, ServerPacketRead DEF IInv, Server
  <2> QED BY <2>3 DEF ReadDisconnect, windowVars, wireVars, GrantLine, OutputLine
<1>4. TypeOK'
  BY <1>3 DEF ReadDisconnect, DrainWhenClosed, IInv, TypeOK, ServerPacket
<1>5. EarlyState'
  BY <1>1 DEF ReadDisconnect, DrainWhenClosed, IInv, Flow, EarlyState, Early
<1>6. DrainState'
  BY DEF ReadDisconnect, DrainWhenClosed, IInv, Flow, DrainState
<1>7. DataPackets'
  BY DEF ReadDisconnect, DrainWhenClosed, IInv, Flow, DataPackets
<1>8. LoopPackets'
  BY <1>1 DEF ReadDisconnect, IInv, Flow, LoopPackets
<1>9. ClosedState'
  BY <1>1 DEF ReadDisconnect, wireVars, IInv, Server, ClosedState
<1>10. QueueLine'
  BY DEF ReadDisconnect, DrainWhenClosed, IInv, Flow, QueueLine, Front
<1> QED BY <1>4, <1>5, <1>6, <1>7, <1>8, <1>3, <1>9, <1>10 DEF IInv, Flow, Server

LEMMA ReadFailsKeeps ==
  ASSUME IInv, ReadFails
  PROVE  IInv'
<1> USE DEF inputVars, windowVars, wireVars, serverVars
<1>1. TypeOK'
  BY DEF ReadFails, DrainWhenClosed, IInv, TypeOK
<1>2. EarlyState'
  BY DEF ReadFails, DrainWhenClosed, IInv, Flow, EarlyState, Early
<1>3. DrainState'
  BY DEF ReadFails, DrainWhenClosed, IInv, Flow, DrainState, Front
<1>4. DataPackets'
  BY DEF ReadFails, DrainWhenClosed, IInv, Flow, DataPackets
<1>5. LoopPackets'
  BY DEF ReadFails, DrainWhenClosed, IInv, Flow, LoopPackets
<1>6. ClosedState'
  BY DEF ReadFails, DrainWhenClosed, IInv, Server, ClosedState
<1>7. QueueLine' /\ GrantLine' /\ OutputLine'
  BY DEF ReadFails, DrainWhenClosed, IInv, Flow, Server, QueueLine, Front, GrantLine,
         OutputLine
<1> QED BY <1>1, <1>2, <1>3, <1>4, <1>5, <1>6, <1>7 DEF IInv, Flow, Server

LEMMA FinishKeeps ==
  ASSUME IInv, Finish
  PROVE  IInv'
<1> USE DEF channelVars, inputVars, drainVars, windowVars, wireVars, serverVars
<1>1. TypeOK'
  BY DEF Finish, IInv, TypeOK
<1>2. EarlyState'
  BY DEF Finish, IInv, Flow, EarlyState, Early
<1>3. LoopPackets'
  BY DEF Finish, IInv, Flow, LoopPackets
<1>4. ClosedState'
  BY DEF Finish, IInv, Server, ClosedState
<1>5. QueueLine' /\ DrainState' /\ DataPackets' /\ GrantLine' /\ OutputLine'
  BY DEF Finish, IInv, Flow, Server, QueueLine, Front, DrainState, DataPackets, GrantLine,
         OutputLine
<1> QED BY <1>1, <1>2, <1>3, <1>4, <1>5 DEF IInv, Flow, Server

LEMMA ServerDataKeeps ==
  ASSUME IInv, NEW n \in DataSizes, ServerData(n)
  PROVE  IInv'
<1> USE DEF serverFrame, inputVars, drainVars, wireVars
<1>1. /\ granted \in Nat /\ produced \in Nat /\ credit \in Nat /\ localWindowRemaining \in Nat /\ n \in Nat
      /\ n <= credit
  BY WindowAssumption DEF ServerData, IInv, TypeOK
<1> DEFINE p == Packet("data", produced, produced + n)
<1>2. p \in ServerPacket /\ ServerSends(p)
  BY <1>1 DEF ServerData, Packet, ServerPacket
<1>3. /\ toWorker' \in Seq(ServerPacket)
      /\ Lies(toWorker', "adjust", End(wire) + remoteWindow, granted)
      /\ Lies(toWorker', "data", produced - (localWindowRemaining - credit), (produced + n))
  <2>1. /\ granted \in Nat /\ (produced + n) \in Nat /\ granted <= granted /\ produced <= (produced + n)
        /\ p.kind = "adjust" => granted <= p.lo /\ p.lo <= p.hi /\ p.hi <= granted
        /\ p.kind = "data" => produced <= p.lo /\ p.lo <= p.hi /\ p.hi <= (produced + n)
    BY <1>1 DEF Packet
  <2> HIDE DEF p
  <2> QED BY <1>2, <2>1, ServerPacketSent DEF IInv, Server
<1>4. TypeOK'
  BY <1>1, <1>3 DEF ServerData, IInv, TypeOK, ServerPacket
<1>5. EarlyState'
  BY DEF ServerData, ServerSends, Forwarding, IInv, Flow, EarlyState, Early
<1>6. GrantLine'
  BY <1>1, <1>3 DEF ServerData, serverFrame, inputVars, drainVars, wireVars, GrantLine
<1>7. OutputLine'
  <2>1. /\ credit' = credit - n /\ produced' = produced + n /\ localWindowRemaining' = localWindowRemaining
    BY DEF ServerData, serverFrame
  <2>2. produced' - (localWindowRemaining' - credit') = produced - (localWindowRemaining - credit)
    BY <1>1, <2>1
  <2> QED BY <1>3, <2>1, <2>2 DEF OutputLine
<1>8. QueueLine' /\ DrainState' /\ DataPackets' /\ LoopPackets' /\ ClosedState'
  BY DEF ServerData, ServerSends, Forwarding, IInv, Flow, Server, QueueLine, Front,
         DrainState, DataPackets, LoopPackets, ClosedState
<1> QED BY <1>4, <1>5, <1>6, <1>7, <1>8 DEF IInv, Flow, Server

LEMMA ServerGrantsKeeps ==
  ASSUME IInv, NEW n \in Grants, ServerGrants(n)
  PROVE  IInv'
<1> USE DEF serverFrame, inputVars, drainVars, wireVars
<1>1. /\ granted \in Nat /\ produced \in Nat /\ credit \in Nat /\ localWindowRemaining \in Nat /\ n \in Nat
  BY WindowAssumption DEF ServerGrants, IInv, TypeOK
<1> DEFINE p == Packet("adjust", granted, granted + n)
<1>2. p \in ServerPacket /\ ServerSends(p)
  BY <1>1 DEF ServerGrants, Packet, ServerPacket
<1>3. /\ toWorker' \in Seq(ServerPacket)
      /\ Lies(toWorker', "adjust", End(wire) + remoteWindow, (granted + n))
      /\ Lies(toWorker', "data", produced - (localWindowRemaining - credit), produced)
  <2>1. /\ (granted + n) \in Nat /\ produced \in Nat /\ granted <= (granted + n) /\ produced <= produced
        /\ p.kind = "adjust" => granted <= p.lo /\ p.lo <= p.hi /\ p.hi <= (granted + n)
        /\ p.kind = "data" => produced <= p.lo /\ p.lo <= p.hi /\ p.hi <= produced
    BY <1>1 DEF Packet
  <2> HIDE DEF p
  <2> QED BY <1>2, <2>1, ServerPacketSent DEF IInv, Server
<1>4. TypeOK'
  BY <1>1, <1>3 DEF ServerGrants, IInv, TypeOK, ServerPacket
<1>5. EarlyState'
  BY DEF ServerGrants, ServerSends, Forwarding, IInv, Flow, EarlyState, Early
<1>6. GrantLine'
  BY <1>1, <1>3 DEF ServerGrants, serverFrame, inputVars, drainVars, wireVars, GrantLine
<1>7. OutputLine'
  BY <1>1, <1>3 DEF ServerGrants, serverFrame, OutputLine
<1>8. QueueLine' /\ DrainState' /\ DataPackets' /\ LoopPackets' /\ ClosedState'
  BY DEF ServerGrants, ServerSends, Forwarding, IInv, Flow, Server, QueueLine, Front,
         DrainState, DataPackets, LoopPackets, ClosedState
<1> QED BY <1>4, <1>5, <1>6, <1>7, <1>8 DEF IInv, Flow, Server

LEMMA ServerRequestsKeeps ==
  ASSUME IInv, ServerRequests
  PROVE  IInv'
<1> USE DEF serverFrame, inputVars, drainVars, wireVars
<1>1. /\ granted \in Nat /\ produced \in Nat /\ credit \in Nat /\ localWindowRemaining \in Nat
  BY WindowAssumption DEF ServerRequests, IInv, TypeOK
<1> DEFINE p == Packet("request", 0, 0)
<1>2. p \in ServerPacket /\ ServerSends(p)
  BY <1>1 DEF ServerRequests, Packet, ServerPacket
<1>3. /\ toWorker' \in Seq(ServerPacket)
      /\ Lies(toWorker', "adjust", End(wire) + remoteWindow, granted)
      /\ Lies(toWorker', "data", produced - (localWindowRemaining - credit), produced)
  <2>1. /\ granted \in Nat /\ produced \in Nat /\ granted <= granted /\ produced <= produced
        /\ p.kind = "adjust" => granted <= p.lo /\ p.lo <= p.hi /\ p.hi <= granted
        /\ p.kind = "data" => produced <= p.lo /\ p.lo <= p.hi /\ p.hi <= produced
    BY <1>1 DEF Packet
  <2> HIDE DEF p
  <2> QED BY <1>2, <2>1, ServerPacketSent DEF IInv, Server
<1>4. TypeOK'
  BY <1>1, <1>3 DEF ServerRequests, IInv, TypeOK, ServerPacket
<1>5. EarlyState'
  BY DEF ServerRequests, ServerSends, Forwarding, IInv, Flow, EarlyState, Early
<1>6. GrantLine'
  BY <1>1, <1>3 DEF ServerRequests, serverFrame, inputVars, drainVars, wireVars, GrantLine
<1>7. OutputLine'
  BY <1>1, <1>3 DEF ServerRequests, serverFrame, OutputLine
<1>8. QueueLine' /\ DrainState' /\ DataPackets' /\ LoopPackets' /\ ClosedState'
  BY DEF ServerRequests, ServerSends, Forwarding, IInv, Flow, Server, QueueLine, Front,
         DrainState, DataPackets, LoopPackets, ClosedState
<1> QED BY <1>4, <1>5, <1>6, <1>7, <1>8 DEF IInv, Flow, Server

LEMMA ServerClosesKeeps ==
  ASSUME IInv, NEW kind \in {"close", "disconnect"}, ServerCloses(kind)
  PROVE  IInv'
<1> USE DEF serverFrame, inputVars, drainVars, wireVars
<1>1. /\ granted \in Nat /\ produced \in Nat /\ credit \in Nat /\ localWindowRemaining \in Nat
  BY WindowAssumption DEF ServerCloses, IInv, TypeOK
<1> DEFINE p == Packet(kind, 0, 0)
<1>2. p \in ServerPacket /\ ServerSends(p)
  BY <1>1 DEF ServerCloses, Packet, ServerPacket
<1>3. /\ toWorker' \in Seq(ServerPacket)
      /\ Lies(toWorker', "adjust", End(wire) + remoteWindow, granted)
      /\ Lies(toWorker', "data", produced - (localWindowRemaining - credit), produced)
  <2>1. /\ granted \in Nat /\ produced \in Nat /\ granted <= granted /\ produced <= produced
        /\ p.kind = "adjust" => granted <= p.lo /\ p.lo <= p.hi /\ p.hi <= granted
        /\ p.kind = "data" => produced <= p.lo /\ p.lo <= p.hi /\ p.hi <= produced
    BY <1>1 DEF Packet
  <2> HIDE DEF p
  <2> QED BY <1>2, <2>1, ServerPacketSent DEF IInv, Server
<1>4. TypeOK'
  BY <1>1, <1>3 DEF ServerCloses, IInv, TypeOK, ServerPacket
<1>5. EarlyState'
  BY DEF ServerCloses, ServerSends, Forwarding, IInv, Flow, EarlyState, Early
<1>6. GrantLine'
  BY <1>1, <1>3 DEF ServerCloses, serverFrame, inputVars, drainVars, wireVars, GrantLine
<1>7. OutputLine'
  BY <1>1, <1>3 DEF ServerCloses, serverFrame, OutputLine
<1>8. QueueLine' /\ DrainState' /\ DataPackets' /\ LoopPackets' /\ ClosedState'
  BY DEF ServerCloses, ServerSends, Forwarding, IInv, Flow, Server, QueueLine, Front,
         DrainState, DataPackets, LoopPackets, ClosedState
<1> QED BY <1>4, <1>5, <1>6, <1>7, <1>8 DEF IInv, Flow, Server

LEMMA ConnectionLostKeeps ==
  ASSUME IInv, ConnectionLost
  PROVE  IInv'
<1> USE DEF channelVars, inputVars, drainVars, windowVars, wireVars, serverVars
<1>1. TypeOK'
  BY DEF ConnectionLost, IInv, TypeOK
<1>2. EarlyState'
  BY DEF ConnectionLost, IInv, Flow, EarlyState, Early
<1>3. QueueLine' /\ DrainState' /\ DataPackets' /\ LoopPackets' /\ GrantLine' /\ OutputLine' /\ ClosedState'
  BY DEF ConnectionLost, IInv, Flow, Server, QueueLine, Front, DrainState, DataPackets,
         LoopPackets, GrantLine, OutputLine, ClosedState
<1> QED BY <1>1, <1>2, <1>3 DEF IInv, Flow, Server

-----------------------------------------------------------------------------
LEMMA InitHolds == Init => IInv
<1> SUFFICES ASSUME Init PROVE IInv
  OBVIOUS
<1>1. Len(Steps) = 9
  BY DEF Steps
<1>2. TypeOK
  <2>1. step \in 1 .. Len(Steps)
    BY <1>1 DEF Init
  <2>2. closedAt \in Nat \cup {None}
    BY DEF Init
  <2>3. /\ inputQueue \in Seq(Span) /\ wire \in Seq(Span)
        /\ chain \in Seq(ChainPacket) /\ toWorker \in Seq(ServerPacket)
    BY DEF Init
  <2> QED BY <2>1, <2>2, <2>3, WindowAssumption DEF Init, TypeOK, ChainPacket,
      ServerPacket
<1>3. EarlyState /\ QueueLine /\ DrainState
  BY EmptyLists DEF Init, EarlyState, Early, QueueLine, Front, DrainState
<1>4. DataPackets /\ LoopPackets
  BY EmptyLists DEF Init, DataPackets, LoopPackets
<1>5. GrantLine
  BY EmptyLists DEF Init, GrantLine
<1>6. OutputLine
  <2>1. /\ produced - (localWindowRemaining - credit) <= produced /\ toWorker = <<>>
    BY WindowAssumption DEF Init
  <2> QED BY <2>1, EmptyLists DEF OutputLine
<1>7. ClosedState
  BY DEF Init, ClosedState
<1> QED BY <1>2, <1>3, <1>4, <1>5, <1>6, <1>7 DEF IInv, Flow, Server

LEMMA NextKeeps == IInv /\ [Next]_vars => IInv'
<1> SUFFICES ASSUME IInv, [Next]_vars PROVE IInv'
  OBVIOUS
<1>1. CASE Gate
  BY <1>1, CredentialsTimeoutKeeps, CredentialsKeeps, ConnectedKeeps, ConnectFailsKeeps,
     OpensLateKeeps DEF Gate
<1>2. CASE Setup
  BY <1>2, SetupAnswerKeeps, SetupAdjustKeeps, SetupThrowsKeeps DEF Setup
<1>3. CASE User
  BY <1>3, TypeKeeps, ResizeKeeps DEF User
<1>4. CASE SenderStep
  BY <1>4, DataWrittenKeeps, DataRejectedKeeps, ResizeSettledKeeps, AdjustSettledKeeps,
     ReplySettledKeeps, CloseSettledKeeps DEF SenderStep
<1>5. CASE ReaderStep
  BY <1>5, ReadDataKeeps, ReadAdjustKeeps, ReadRequestKeeps, ReadCloseKeeps,
     ReadDisconnectKeeps, ReadFailsKeeps, FinishKeeps DEF ReaderStep
<1>6. CASE Environment
  BY <1>6, ServerDataKeeps, ServerGrantsKeeps, ServerRequestsKeeps, ServerClosesKeeps,
     ConnectionLostKeeps DEF Environment
<1>7. CASE UNCHANGED vars
  BY <1>7 DEF vars, inputVars, drainVars, windowVars, wireVars, serverVars,
     IInv, TypeOK, Flow, EarlyState, QueueLine, Front, DrainState, DataPackets, LoopPackets,
     Server, GrantLine, OutputLine, ClosedState
<1> QED BY <1>1, <1>2, <1>3, <1>4, <1>5, <1>6, <1>7 DEF Next

(* The terminal is always in a state of the invariant, whatever the sizes  *)
(* of the messages, the windows and the packets.                           *)
THEOREM Invariance == Spec => []IInv
  BY InitHolds, NextKeeps, PTL DEF Spec

(* The listener, the drain loop and the read loop keep their state typed:  *)
(* no window and no byte count goes below zero.                            *)
THEOREM TypeCorrect == Spec => []TypeOK
  BY Invariance, PTL DEF IInv

(* The drain loop lowers remoteWindow only after a write, yet neither what *)
(* it has written nor what it is writing exceeds the window granted.       *)
THEOREM WindowIsRespected == Spec => []WindowRespected
<1>1. IInv => WindowRespected
  <2> SUFFICES ASSUME IInv PROVE WindowRespected
    OBVIOUS
  <2>1. /\ wire \in Seq(Span) /\ chain \in Seq(ChainPacket)
        /\ remoteWindow \in Nat /\ granted \in Nat
    BY DEF IInv, TypeOK, ChainPacket
  <2>2. End(wire) \in Nat /\ End(wire) + remoteWindow <= granted
    BY <2>1, EndNat DEF IInv, Server, GrantLine, Lies
  <2>3. ASSUME NEW i \in 1 .. Len(chain) PROVE chain[i].hi <= granted
    <3>1. chain[i].hi \in Nat
      BY <2>1, ChainFields
    <3>2. chain[i].hi = 0 \/ chain[i].hi <= End(wire) + remoteWindow
      BY DEF IInv, Flow, DataPackets
    <3> QED BY <2>1, <2>2, <3>1, <3>2
  <2> QED BY <2>1, <2>2, <2>3 DEF WindowRespected
<1> QED BY <1>1, Invariance, PTL

(* A drain loop that is parked has nothing to send or no window to send it *)
(* in: signalDrain is called wherever one of the two comes about.          *)
THEOREM NoWakeupIsLost == Spec => []NoLostWakeup
<1>1. IInv => NoLostWakeup
  BY DEF IInv, Flow, DrainState, NoLostWakeup
<1> QED BY <1>1, Invariance, PTL

(* One data packet at most follows our answer to CHANNEL_CLOSE.            *)
THEOREM AtMostOneAfterClose == Spec => []DataAfterClose
<1>1. IInv => DataAfterClose
  BY DEF IInv, Server, ClosedState, DataAfterClose
<1> QED BY <1>1, Invariance, PTL

(* However the queue and the windows cut it, the server is given a prefix  *)
(* of what the listener accepted: the terminal's input is a ByteStream.    *)
THEOREM InputRefinement == Spec => InputIsStream
<1>1. Init => Input!Init
  BY DEF Init, Input!Init
<1>2. IInv /\ [Next]_vars => [Input!Next]_(Input!svars)
  <2> SUFFICES ASSUME IInv, [Next]_vars PROVE [Input!Next]_(Input!svars)
    OBVIOUS
  <2> USE DEF Input!Next, Input!svars
  <2>1. ASSUME NEW n \in MsgSizes, Type(n) PROVE Input!Write
    <3>1. accepted' \in Nat /\ accepted' >= accepted
      BY <2>1, InputAssumption DEF Type, IInv, TypeOK
    <3> QED BY <2>1, <3>1 DEF Type, wireVars, Input!Write
  <2>2. CASE DataWritten
    <3>1. /\ chain \in Seq(ChainPacket) /\ chain # <<>> /\ Head(chain).kind = "data"
          /\ wire \in Seq(Span) /\ inputQueue \in Seq(Span) /\ accepted \in Nat
      BY <2>2 DEF DataWritten, HeadIs, IInv, TypeOK, ChainPacket
    <3>2. /\ Head(chain) = chain[1] /\ 1 \in 1 .. Len(chain)
          /\ chain[1].lo \in Nat /\ chain[1].hi \in Nat /\ End(wire) \in Nat
      BY <3>1, TailAt, ChainFields, EndNat
    <3>3. /\ drain = "sending" /\ chain[1].lo = End(wire) /\ chain[1].lo <= chain[1].hi
          /\ chain[1].hi <= inputQueue[1].hi
      BY <3>1, <3>2 DEF IInv, Flow, DataPackets
    <3>4. inputQueue[1].hi \in Nat /\ inputQueue[1].hi <= accepted
      <4>1. 1 \in 1 .. Len(inputQueue)
        BY <3>1, <3>3, SpanFields DEF IInv, Flow, DrainState
      <4> QED BY <3>1, <4>1, SpanFields DEF IInv, Flow, QueueLine
    <3>5. /\ wire' = Append(wire, [lo |-> chain[1].lo, hi |-> chain[1].hi])
          /\ UNCHANGED <<accepted, tcp>> /\ tcp = "open"
      BY <2>2, <3>2 DEF DataWritten
    <3> DEFINE n == chain[1].hi - End(wire)
    <3>6. n \in 0 .. (accepted - End(wire)) /\ chain[1].hi = End(wire) + n
      BY <3>1, <3>2, <3>3, <3>4
    <3>7. wire' = Append(wire, [lo |-> End(wire), hi |-> End(wire) + n])
      BY <3>3, <3>5, <3>6
    <3> HIDE DEF n
    <3> QED BY <3>5, <3>6, <3>7 DEF Input!Deliver, End
  <2>3. ASSUME UNCHANGED <<accepted, wire>>, tcp = "lost" => tcp' = "lost"
        PROVE  [Input!Next]_(Input!svars)
    BY <2>3 DEF Input!Cut
  <2>4. CASE Gate
    <3>1. UNCHANGED <<accepted, wire>> /\ (tcp = "lost" => tcp' = "lost")
      BY <2>4 DEF Gate, CredentialsTimeout, Credentials, Connected, ConnectFails,
         OpensLate,
                  channelVars, inputVars, wireVars, IInv, Flow, EarlyState
    <3> QED BY <2>3, <3>1
  <2>5. CASE Setup \/ Resize
    <3>1. UNCHANGED <<accepted, wire, tcp>>
      BY <2>5 DEF Setup, SetupAnswer, SetupAdjust, SetupThrows, Resize,
                  channelVars, inputVars, wireVars
    <3> QED BY <2>3, <3>1
  <2>6. CASE \/ DataRejected \/ ResizeSettled \/ AdjustSettled \/ ReplySettled
             \/ CloseSettled \/ ReaderStep
    <3>1. UNCHANGED <<accepted, wire, tcp>>
      BY <2>6 DEF DataRejected, ResizeSettled, AdjustSettled, ReplySettled, CloseSettled,
                  ReaderStep, ReadData, ReadAdjust, ReadRequest, ReadClose, ReadDisconnect,
                  ReadFails, Finish, channelVars, inputVars, wireVars
    <3> QED BY <2>3, <3>1
  <2>7. CASE Environment
    <3>1. UNCHANGED <<accepted, wire>> /\ (tcp = "lost" => tcp' = "lost")
      BY <2>7 DEF Environment, ServerData, ServerGrants, ServerRequests, ServerCloses,
                  ConnectionLost, serverFrame, channelVars, inputVars, wireVars
    <3> QED BY <2>3, <3>1
  <2>8. CASE UNCHANGED vars
    BY <2>8 DEF vars, inputVars, wireVars
  <2> QED BY <2>1, <2>2, <2>4, <2>5, <2>6, <2>7, <2>8 DEF Next, User, SenderStep
<1> QED BY <1>1, <1>2, Invariance, PTL DEF Spec, InputIsStream, Input!Spec

-----------------------------------------------------------------------------
(***************************************************************************)
(* Bytes is a recursive function; what it computes is proved by looking    *)
(* for the least place where it would be wrong.                            *)
(***************************************************************************)

Smaller == {pair \in Nat \X Nat : pair[1] < pair[2]}

LEMMA Least ==
  ASSUME NEW T \in SUBSET Nat, T # {}
  PROVE  \E m \in T : \A k \in T : m <= k
<1>1. IsWellFoundedOn(Smaller, Nat)
  BY NatLessThanWellFounded DEF OpToRel, Smaller
<1>2. PICK m \in T : \A k \in T : ~(<<k, m>> \in Smaller)
  BY <1>1, WFMin
<1>3. ASSUME NEW k \in T PROVE m <= k
  <2>1. k \in Nat /\ m \in Nat
    OBVIOUS
  <2>2. ~(k < m)
    BY <1>2, <2>1 DEF Smaller
  <2> QED BY <2>1, <2>2
<1> QED BY <1>3

(* f sums g up.                                                            *)
Adds(f, g, n) == f[0] = 0 /\ \A i \in 1 .. n : f[i] = f[i - 1] + g[i]

LEMMA SumsExist ==
  ASSUME NEW n \in Nat, NEW g \in [1 .. n -> Int]
  PROVE  \E f \in [0 .. n -> Int] : Adds(f, g, n)
<1> DEFINE Fails == {k \in 0 .. n : ~\E f \in [0 .. k -> Int] : Adds(f, g, k)}
<1>1. SUFFICES ASSUME Fails # {} PROVE FALSE
  OBVIOUS
<1>2. PICK m \in Fails : \A k \in Fails : m <= k
  <2>1. Fails \in SUBSET Nat
    OBVIOUS
  <2> HIDE DEF Fails
  <2> QED BY <1>1, <2>1, Least
<1>3. m \in 0 .. n /\ ~\E f \in [0 .. m -> Int] : Adds(f, g, m)
  OBVIOUS
<1>4. m # 0
  <2>1. Adds([i \in 0 .. 0 |-> 0], g, 0) /\ [i \in 0 .. 0 |-> 0] \in [0 .. 0 -> Int]
    BY DEF Adds
  <2> QED BY <1>3, <2>1
<1>5. m - 1 \in 0 .. n /\ m - 1 \notin Fails
  <2> HIDE DEF Fails
  <2> QED BY <1>2, <1>3, <1>4
<1>6. PICK f \in [0 .. m - 1 -> Int] : Adds(f, g, m - 1)
  BY <1>5
<1> DEFINE h == [i \in 0 .. m |-> IF i = m THEN f[m - 1] + g[m] ELSE f[i]]
<1>7. h \in [0 .. m -> Int]
  <2>1. m - 1 \in 0 .. m - 1 /\ m \in 1 .. n
    BY <1>3, <1>4
  <2>2. f[m - 1] + g[m] \in Int
    BY <2>1
  <2>3. ASSUME NEW i \in 0 .. m, i # m PROVE f[i] \in Int
    <3>1. i \in 0 .. m - 1
      BY <1>3, <2>3
    <3> QED BY <3>1
  <2> QED BY <2>2, <2>3
<1>8. Adds(h, g, m)
  <2>1. h[0] = 0
    BY <1>3, <1>4, <1>6 DEF Adds
  <2>2. ASSUME NEW i \in 1 .. m PROVE h[i] = h[i - 1] + g[i]
    <3>1. i - 1 \in 0 .. m /\ i \in 0 .. m /\ i - 1 # m
      BY <1>3
    <3>2. h[i - 1] = f[i - 1]
      BY <3>1
    <3>3. CASE i = m
      BY <3>1, <3>2, <3>3
    <3>4. CASE i # m
      <4>1. i \in 1 .. m - 1 /\ h[i] = f[i]
        BY <1>3, <3>1, <3>4
      <4> QED BY <1>6, <3>2, <4>1 DEF Adds
    <3> QED BY <3>3, <3>4
  <2> HIDE DEF h
  <2> QED BY <2>1, <2>2 DEF Adds
<1> HIDE DEF h
<1> QED BY <1>3, <1>7, <1>8

(* f begins c above h, and grows as h does while it is c above.            *)
GrowAlike(f, h, c, n) ==
  f[0] = h[0] + c /\ \A i \in 1 .. n : f[i - 1] = h[i - 1] + c => f[i] = h[i] + c

(* Two functions that grow alike stay as far apart as they begin.          *)
LEMMA SameSums ==
  ASSUME NEW n \in Nat, NEW f, NEW h, NEW c, GrowAlike(f, h, c, n)
  PROVE  \A i \in 0 .. n : f[i] = h[i] + c
<1> DEFINE Fails == {k \in 0 .. n : f[k] # h[k] + c}
<1>1. SUFFICES ASSUME Fails # {} PROVE FALSE
  OBVIOUS
<1>2. PICK m \in Fails : \A k \in Fails : m <= k
  <2>1. Fails \in SUBSET Nat
    OBVIOUS
  <2> HIDE DEF Fails
  <2> QED BY <1>1, <2>1, Least
<1>3. m \in 0 .. n /\ f[m] # h[m] + c
  OBVIOUS
<1>4. m # 0 /\ m \in 1 .. n
  BY <1>3 DEF GrowAlike
<1>5. m - 1 \in 0 .. n /\ m - 1 \notin Fails
  <2> HIDE DEF Fails
  <2> QED BY <1>2, <1>3, <1>4
<1>6. f[m - 1] = h[m - 1] + c
  BY <1>5
<1> QED BY <1>3, <1>4, <1>6 DEF GrowAlike

LEMMA CarriedInt ==
  ASSUME NEW p \in ServerPacket, NEW kind
  PROVE  Carried(p, kind) \in Int
<1>1. p.hi \in Nat /\ p.lo \in Nat
  BY DEF ServerPacket
<1>2. Size(p) \in Int
  BY <1>1 DEF Size, Input!Size
<1> QED BY <1>2 DEF Carried

(* Bytes adds up what the packets carry.                                   *)
LEMMA BytesAdds ==
  ASSUME NEW s \in Seq(ServerPacket), NEW kind
  PROVE  \E f \in [0 .. Len(s) -> Int] :
           /\ f[0] = 0 /\ Bytes(s, kind) = f[Len(s)]
           /\ \A i \in 1 .. Len(s) : f[i] = f[i - 1] + Carried(s[i], kind)
<1> DEFINE n == Len(s)
           g == [i \in 1 .. n |-> Carried(s[i], kind)]
           Defines(f) == f = [i \in 0 .. n |->
                               IF i = 0 THEN 0 ELSE f[i - 1] + Carried(s[i], kind)]
<1>1. n \in Nat
  BY LenProperties
<1>2. g \in [1 .. n -> Int]
  BY ElementOfSeq, CarriedInt
<1>3. PICK f \in [0 .. n -> Int] : Adds(f, g, n)
  <2> HIDE DEF g, n
  <2> QED BY <1>1, <1>2, SumsExist
<1>4. /\ f[0] = 0 /\ \A i \in 1 .. n : f[i] = f[i - 1] + Carried(s[i], kind)
  BY <1>3 DEF Adds
<1>5. Defines(f)
  <2> DEFINE e == [i \in 0 .. n |-> IF i = 0 THEN 0 ELSE f[i - 1] + Carried(s[i], kind)]
  <2>1. ASSUME NEW i \in 0 .. n PROVE f[i] = e[i]
    BY <1>1, <1>4
  <2>2. f = [i \in 0 .. n |-> f[i]] /\ e = [i \in 0 .. n |-> e[i]]
    OBVIOUS
  <2> HIDE DEF e
  <2>3. f = e
    BY <2>1, <2>2
  <2> QED BY <2>3 DEF e
<1> DEFINE d == CHOOSE x : Defines(x)
<1>6. Defines(d)
  BY <1>5
<1>7. Bytes(s, kind) = d[n]
  BY DEF Bytes
<1> HIDE DEF d
<1>8. /\ d[0] = 0 /\ \A i \in 1 .. n : d[i] = d[i - 1] + Carried(s[i], kind)
  BY <1>1, <1>6
<1>9. \A i \in 0 .. n : d[i] = f[i] + 0
  <2>1. d[0] = f[0] + 0
    BY <1>4, <1>8
  <2>2. ASSUME NEW i \in 1 .. n, d[i - 1] = f[i - 1] + 0 PROVE d[i] = f[i] + 0
    <3>1. i - 1 \in 0 .. n /\ i \in 0 .. n
      BY <1>1
    <3>2. f[i - 1] \in Int /\ f[i] \in Int
      BY <3>1
    <3> QED BY <1>4, <1>8, <2>2, <3>2
  <2> HIDE DEF n
  <2>3. GrowAlike(d, f, 0, n)
    BY <2>1, <2>2 DEF GrowAlike
  <2> QED BY <1>1, <2>3, SameSums
<1>10. n \in 0 .. n /\ f[n] \in Int
  BY <1>1
<1>11. Bytes(s, kind) = f[n]
  BY <1>7, <1>9, <1>10
<1> QED BY <1>4, <1>11

LEMMA BytesInt ==
  ASSUME NEW s \in Seq(ServerPacket), NEW kind
  PROVE  Bytes(s, kind) \in Int /\ (s = <<>> => Bytes(s, kind) = 0)
<1>1. Len(s) \in Nat /\ (s = <<>> => Len(s) = 0)
  BY LenProperties, EmptySeq
<1>2. Len(s) \in 0 .. Len(s)
  BY <1>1
<1> QED BY <1>1, <1>2, BytesAdds

LEMMA BytesAppend ==
  ASSUME NEW s \in Seq(ServerPacket), NEW x \in ServerPacket, NEW kind
  PROVE  Bytes(Append(s, x), kind) = Bytes(s, kind) + Carried(x, kind)
<1> DEFINE t == Append(s, x)
           n == Len(s)
<1>1. /\ n \in Nat /\ t \in Seq(ServerPacket) /\ Len(t) = n + 1 /\ t[n + 1] = x
      /\ \A i \in 1 .. n : t[i] = s[i]
  BY AppendAt
<1> HIDE DEF t
<1>2. PICK f \in [0 .. n -> Int] :
        /\ f[0] = 0 /\ Bytes(s, kind) = f[n]
        /\ \A i \in 1 .. n : f[i] = f[i - 1] + Carried(s[i], kind)
  BY BytesAdds
<1> HIDE DEF n
<1>3. PICK h \in [0 .. n + 1 -> Int] :
        /\ h[0] = 0 /\ Bytes(t, kind) = h[n + 1]
        /\ \A i \in 1 .. n + 1 : h[i] = h[i - 1] + Carried(t[i], kind)
  <2>1. PICK h \in [0 .. Len(t) -> Int] :
          /\ h[0] = 0 /\ Bytes(t, kind) = h[Len(t)]
          /\ \A i \in 1 .. Len(t) : h[i] = h[i - 1] + Carried(t[i], kind)
    BY <1>1, BytesAdds
  <2> QED BY <1>1, <2>1
<1>4. ASSUME NEW i \in 1 .. n, h[i - 1] = f[i - 1] + 0 PROVE h[i] = f[i] + 0
  <2>1. i \in 1 .. n + 1 /\ i \in 0 .. n /\ i - 1 \in 0 .. n
    BY <1>1
  <2>2. f[i] \in Int /\ f[i - 1] \in Int
    BY <2>1
  <2> QED BY <1>1, <1>2, <1>3, <1>4, <2>1, <2>2
<1>5. GrowAlike(h, f, 0, n)
  BY <1>2, <1>3, <1>4 DEF GrowAlike
<1>6. n \in 0 .. n /\ n + 1 \in 1 .. n + 1 /\ (n + 1) - 1 = n
  BY <1>1
<1>7. h[n] = f[n]
  <2>1. h[n] = f[n] + 0 /\ f[n] \in Int
    BY <1>1, <1>5, <1>6, SameSums
  <2> QED BY <2>1
<1>8. h[n] = f[n] /\ h[n + 1] = h[n] + Carried(x, kind)
  BY <1>1, <1>3, <1>6, <1>7
<1> QED BY <1>2, <1>3, <1>8 DEF t, n

LEMMA BytesTail ==
  ASSUME NEW s \in Seq(ServerPacket), s # <<>>, NEW kind
  PROVE  Bytes(s, kind) = Bytes(Tail(s), kind) + Carried(s[1], kind)
<1> DEFINE t == Tail(s)
           n == Len(t)
           c == Carried(s[1], kind)
<1>1. /\ n \in Nat /\ t \in Seq(ServerPacket) /\ Len(s) = n + 1 /\ s[1] \in ServerPacket
      /\ \A i \in 1 .. n : t[i] = s[i + 1]
  BY TailAt
<1>2. c \in Int
  BY <1>1, CarriedInt
<1> HIDE DEF t
<1>3. PICK f \in [0 .. n -> Int] :
        /\ f[0] = 0 /\ Bytes(t, kind) = f[n]
        /\ \A i \in 1 .. n : f[i] = f[i - 1] + Carried(t[i], kind)
  BY <1>1, BytesAdds
<1> HIDE DEF n, c
<1>4. PICK h \in [0 .. n + 1 -> Int] :
        /\ h[0] = 0 /\ Bytes(s, kind) = h[n + 1]
        /\ \A i \in 1 .. n + 1 : h[i] = h[i - 1] + Carried(s[i], kind)
  BY <1>1, BytesAdds
<1> DEFINE k == [i \in 0 .. n |-> h[i + 1]]
<1>5. ASSUME NEW i \in 0 .. n PROVE i + 1 \in 0 .. n + 1 /\ h[i + 1] \in Int /\ k[i] = h[i + 1]
  <2>1. i + 1 \in 0 .. n + 1
    BY <1>1
  <2> QED BY <2>1
<1>6. k[0] = f[0] + c
  <2>1. 1 \in 1 .. n + 1 /\ 0 \in 0 .. n /\ 1 - 1 = 0 /\ 0 + 1 = 1
    BY <1>1
  <2>2. h[1] = h[0] + c
    BY <1>4, <2>1 DEF c
  <2>3. k[0] = h[1]
    BY <1>5, <2>1
  <2> QED BY <1>3, <1>4, <2>2, <2>3
<1>7. ASSUME NEW i \in 1 .. n, k[i - 1] = f[i - 1] + c PROVE k[i] = f[i] + c
  <2>1. /\ i - 1 \in 0 .. n /\ i \in 0 .. n /\ i + 1 \in 1 .. n + 1
        /\ (i - 1) + 1 = i /\ (i + 1) - 1 = i
    BY <1>1
  <2>2. k[i] = h[i + 1] /\ k[i - 1] = h[i]
    BY <1>5, <2>1
  <2>3. h[i + 1] = h[i] + Carried(s[i + 1], kind) /\ t[i] = s[i + 1]
    BY <1>1, <1>4, <2>1
  <2>4. f[i] = f[i - 1] + Carried(t[i], kind)
    BY <1>3
  <2>5. f[i - 1] \in Int /\ f[i] \in Int /\ Carried(t[i], kind) \in Int
    <3>1. t[i] \in ServerPacket
      BY <1>1, ElementOfSeq DEF n
    <3> QED BY <2>1, <3>1, CarriedInt
  <2> HIDE DEF k
  <2> QED BY <1>2, <1>7, <2>2, <2>3, <2>4, <2>5
<1> HIDE DEF k
<1>8. \A i \in 0 .. n : k[i] = f[i] + c
  <2>1. GrowAlike(k, f, c, n)
    BY <1>6, <1>7 DEF GrowAlike
  <2> QED BY <1>1, <2>1, SameSums
<1>9. n \in 0 .. n /\ k[n] = h[n + 1]
  BY <1>1, <1>5
<1> QED BY <1>3, <1>4, <1>8, <1>9 DEF t, c

-----------------------------------------------------------------------------
(* Both ends of a window, and what is on its way between them.             *)

(* The worker's count of the local window is the server's and the data on  *)
(* its way.                                                                *)
LocalExact == localWindowRemaining = credit + InTransit("data")

(* A worker that reads, or whose adjustment is under way, has not let the  *)
(* local window run low.                                                   *)
LocalKept ==
  /\ session \in Early => localWindowRemaining = LocalWindow
  /\ session \in {"reading", "awaiting"} /\ tcp = "open" =>
       \/ localWindowRemaining >= LowWater
       \/ session = "awaiting" /\ \E i \in 1 .. Len(chain) : chain[i].kind = "adjust"

LEMMA ReadTakes ==
  ASSUME IInv, NEW kind, Reads(kind), NEW of
  PROVE  /\ toWorker[1] \in ServerPacket /\ Head(toWorker) = toWorker[1]
         /\ toWorker[1].kind = kind
         /\ Bytes(toWorker, of) = Bytes(toWorker', of) + Carried(toWorker[1], of)
         /\ Bytes(toWorker', of) \in Int /\ Carried(toWorker[1], of) \in Int
<1>1. toWorker \in Seq(ServerPacket) /\ toWorker # <<>> /\ toWorker' = Tail(toWorker)
  BY DEF IInv, TypeOK, ServerPacket, Reads
<1>2. /\ toWorker[1] \in ServerPacket /\ Head(toWorker) = toWorker[1]
      /\ Tail(toWorker) \in Seq(ServerPacket)
  BY <1>1, TailAt
<1>3. toWorker[1].kind = kind
  BY <1>2 DEF Reads
<1>4. Bytes(toWorker, of) = Bytes(Tail(toWorker), of) + Carried(toWorker[1], of)
  BY <1>1, BytesTail
<1>5. Bytes(Tail(toWorker), of) \in Int /\ Carried(toWorker[1], of) \in Int
  BY <1>2, BytesInt, CarriedInt
<1> QED BY <1>1, <1>2, <1>3, <1>4, <1>5

LEMMA SendAdds ==
  ASSUME IInv, NEW p \in ServerPacket, ServerSends(p), NEW of
  PROVE  /\ Bytes(toWorker', of) = Bytes(toWorker, of) + Carried(p, of)
         /\ Bytes(toWorker, of) \in Int /\ Carried(p, of) \in Int
<1>1. toWorker \in Seq(ServerPacket) /\ toWorker' = Append(toWorker, p)
  BY DEF IInv, TypeOK, ServerPacket, ServerSends
<1> QED BY <1>1, BytesAppend, BytesInt, CarriedInt

(* The numbers the equations are about.                                    *)
LEMMA WindowNumbers ==
  ASSUME IInv
  PROVE  /\ remoteWindow \in Nat /\ granted \in Nat /\ End(wire) \in Nat
         /\ localWindowRemaining \in Nat /\ credit \in Nat /\ produced \in Nat
         /\ Bytes(toWorker, "adjust") \in Int /\ Bytes(toWorker, "data") \in Int
<1>1. /\ wire \in Seq(Span) /\ toWorker \in Seq(ServerPacket)
      /\ remoteWindow \in Nat /\ granted \in Nat
      /\ localWindowRemaining \in Nat /\ credit \in Nat /\ produced \in Nat
  BY DEF IInv, TypeOK, ServerPacket
<1> QED BY <1>1, EndNat, BytesInt

(* Most steps touch neither end of the server's window.                    *)
LEMMA WindowFrame ==
  ASSUME WindowExact, UNCHANGED <<remoteWindow, wire, toWorker, granted>>
  PROVE  WindowExact'
  BY DEF WindowExact, InTransit

LEMMA SetupWindow ==
  ASSUME IInv, WindowExact, Setup
  PROVE  WindowExact'
<1>1. CASE \E w \in Grants : SetupAnswer(w)
  <2> PICK w \in Grants : SetupAnswer(w)
    BY <1>1
  <2>1. wire = <<>> /\ toWorker = <<>> /\ UNCHANGED <<wire, toWorker>>
    BY DEF SetupAnswer, wireVars, serverVars, IInv, Flow, EarlyState, Early
  <2>2. CASE Steps[step] = "open"
    <3>1. remoteWindow' = w /\ granted' = w /\ w \in Nat
      BY <2>2, WindowAssumption DEF SetupAnswer
    <3>2. Bytes(toWorker, "adjust") = 0 /\ End(wire) = 0
      <4>1. toWorker \in Seq(ServerPacket)
        BY DEF IInv, TypeOK, ServerPacket
      <4> QED BY <2>1, <4>1, BytesInt, EmptyLists
    <3> QED BY <2>1, <3>1, <3>2 DEF WindowExact, InTransit
  <2>3. CASE Steps[step] # "open"
    BY <2>1, <2>3, WindowFrame DEF SetupAnswer, windowVars
  <2> QED BY <2>2, <2>3
<1>2. CASE \E n \in Grants : SetupAdjust(n)
  <2> PICK n \in Grants : SetupAdjust(n)
    BY <1>2
  <2>1. /\ UNCHANGED <<wire, toWorker>> /\ n \in Nat
        /\ granted' = granted + n /\ remoteWindow' = remoteWindow + n
    BY WindowAssumption DEF SetupAdjust, Credited, wireVars, serverVars
  <2> QED BY <2>1, WindowNumbers DEF WindowExact, InTransit
<1>3. CASE SetupThrows
  BY <1>3, WindowFrame DEF SetupThrows, channelVars, windowVars, wireVars, serverVars
<1> QED BY <1>1, <1>2, <1>3 DEF Setup

(* A data packet written moves its bytes from the window to the wire.      *)
LEMMA DataWrittenWindow ==
  ASSUME IInv, WindowExact, DataWritten
  PROVE  WindowExact'
<1>1. /\ chain \in Seq(ChainPacket) /\ chain # <<>> /\ Head(chain).kind = "data"
      /\ wire \in Seq(Span)
  BY DEF DataWritten, HeadIs, IInv, TypeOK, ChainPacket
<1>2. Head(chain) = chain[1] /\ 1 \in 1 .. Len(chain) /\ chain[1] \in ChainPacket
  BY <1>1, TailAt
<1>3. chain[1].lo = End(wire) /\ chain[1].lo \in Nat /\ chain[1].hi \in Nat
  BY <1>1, <1>2, ChainFields DEF IInv, Flow, DataPackets
<1> DEFINE piece == [lo |-> chain[1].lo, hi |-> chain[1].hi]
<1>4. /\ wire' = Append(wire, piece) /\ remoteWindow' = remoteWindow - Size(chain[1])
      /\ UNCHANGED <<toWorker, granted>>
  BY <1>2 DEF DataWritten, serverVars
<1>5. piece \in Span /\ piece.hi = chain[1].hi
  BY <1>3 DEF Span, Input!Span
<1> HIDE DEF piece
<1>6. End(wire') = chain[1].hi
  BY <1>1, <1>4, <1>5, EndAppend
<1>7. Size(chain[1]) = chain[1].hi - End(wire)
  BY <1>3 DEF Size, Input!Size
<1>8. remoteWindow' + End(wire') = remoteWindow + End(wire)
  BY <1>3, <1>4, <1>6, <1>7, WindowNumbers
<1> QED BY <1>4, <1>8, WindowNumbers DEF WindowExact, InTransit

LEMMA SenderWindow ==
  ASSUME IInv, WindowExact, SenderStep
  PROVE  WindowExact'
<1>1. CASE DataWritten
  BY <1>1, DataWrittenWindow
<1>2. CASE DataRejected \/ ResizeSettled \/ AdjustSettled \/ ReplySettled \/ CloseSettled
  <2>1. UNCHANGED <<remoteWindow, wire, toWorker, granted>>
    BY <1>2 DEF DataRejected, ResizeSettled, AdjustSettled, ReplySettled, CloseSettled,
       windowVars, wireVars, serverVars
  <2> QED BY <2>1, WindowFrame
<1> QED BY <1>1, <1>2 DEF SenderStep

LEMMA ReaderWindow ==
  ASSUME IInv, WindowExact, ReaderStep
  PROVE  WindowExact'
<1>1. CASE ReadAdjust
  <2>1. Reads("adjust") /\ UNCHANGED <<wire, granted>>
    BY <1>1 DEF ReadAdjust, wireVars
  <2>2. /\ Bytes(toWorker, "adjust") = Bytes(toWorker', "adjust") + Carried(toWorker[1], "adjust")
        /\ Bytes(toWorker', "adjust") \in Int /\ Carried(toWorker[1], "adjust") \in Int
        /\ Head(toWorker) = toWorker[1] /\ toWorker[1].kind = "adjust"
    BY <2>1, ReadTakes
  <2>3. remoteWindow' = remoteWindow + Carried(toWorker[1], "adjust")
    BY <1>1, <2>2 DEF ReadAdjust, Carried
  <2> QED BY <2>1, <2>2, <2>3, WindowNumbers DEF WindowExact, InTransit
<1>2. ASSUME NEW kind \in {"data", "request", "close", "disconnect"}, Reads(kind),
             UNCHANGED <<remoteWindow, wire, granted>>
      PROVE  WindowExact'
  <2>1. /\ Bytes(toWorker, "adjust") = Bytes(toWorker', "adjust") + Carried(toWorker[1], "adjust")
        /\ Bytes(toWorker', "adjust") \in Int /\ toWorker[1].kind = kind
    BY <1>2, ReadTakes
  <2>2. Carried(toWorker[1], "adjust") = 0
    BY <2>1 DEF Carried
  <2> QED BY <1>2, <2>1, <2>2 DEF WindowExact, InTransit
<1>3. CASE ReadData
  BY <1>2, <1>3 DEF ReadData, windowVars, wireVars
<1>4. CASE ReadRequest
  BY <1>2, <1>4 DEF ReadRequest, windowVars, wireVars
<1>5. CASE ReadClose
  BY <1>2, <1>5 DEF ReadClose, windowVars, wireVars
<1>6. CASE ReadDisconnect
  BY <1>2, <1>6 DEF ReadDisconnect, windowVars, wireVars
<1>7. CASE ReadFails \/ Finish
  BY <1>7, WindowFrame DEF ReadFails, Finish, channelVars, windowVars, wireVars, serverVars
<1> QED BY <1>1, <1>3, <1>4, <1>5, <1>6, <1>7 DEF ReaderStep

(* What the server may send, as a packet.                                  *)
LEMMA SentPackets ==
  ASSUME IInv
  PROVE  /\ \A n \in DataSizes : Packet("data", produced, produced + n) \in ServerPacket
         /\ \A n \in Grants : Packet("adjust", granted, granted + n) \in ServerPacket
         /\ \A kind \in {"request", "close", "disconnect"} : Packet(kind, 0, 0) \in ServerPacket
         /\ \A n \in DataSizes : Carried(Packet("data", produced, produced + n), "data") = n
         /\ \A n \in Grants : Carried(Packet("adjust", granted, granted + n), "adjust") = n
         /\ \A kind, lo, hi, of : kind # of => Carried(Packet(kind, lo, hi), of) = 0
<1>1. granted \in Nat /\ produced \in Nat
  BY DEF IInv, TypeOK
<1>2. DataSizes \subseteq Nat /\ Grants \subseteq Nat
  BY WindowAssumption
<1>3. ASSUME NEW n \in DataSizes
      PROVE  /\ Packet("data", produced, produced + n) \in ServerPacket
             /\ Carried(Packet("data", produced, produced + n), "data") = n
  BY <1>1, <1>2 DEF Packet, ServerPacket, Carried, Size, Input!Size
<1>4. ASSUME NEW n \in Grants
      PROVE  /\ Packet("adjust", granted, granted + n) \in ServerPacket
             /\ Carried(Packet("adjust", granted, granted + n), "adjust") = n
  BY <1>1, <1>2 DEF Packet, ServerPacket, Carried, Size, Input!Size
<1>5. \A kind \in {"request", "close", "disconnect"} : Packet(kind, 0, 0) \in ServerPacket
  BY DEF Packet, ServerPacket
<1>6. \A kind, lo, hi, of : kind # of => Carried(Packet(kind, lo, hi), of) = 0
  BY DEF Packet, Carried
<1> QED BY <1>3, <1>4, <1>5, <1>6

LEMMA EnvironmentWindow ==
  ASSUME IInv, WindowExact, Environment
  PROVE  WindowExact'
<1>1. CASE \E n \in Grants : ServerGrants(n)
  <2> PICK n \in Grants : ServerGrants(n)
    BY <1>1
  <2> DEFINE p == Packet("adjust", granted, granted + n)
  <2>1. /\ p \in ServerPacket /\ ServerSends(p) /\ Carried(p, "adjust") = n /\ n \in Nat
        /\ granted' = granted + n /\ UNCHANGED <<remoteWindow, wire>>
    BY SentPackets, WindowAssumption DEF ServerGrants, serverFrame, wireVars
  <2> HIDE DEF p
  <2>2. Bytes(toWorker', "adjust") = Bytes(toWorker, "adjust") + n
    BY <2>1, SendAdds
  <2> QED BY <2>1, <2>2, WindowNumbers DEF WindowExact, InTransit
<1>2. ASSUME NEW p \in ServerPacket, ServerSends(p), Carried(p, "adjust") = 0,
             UNCHANGED <<remoteWindow, wire, granted>>
      PROVE  WindowExact'
  <2>1. /\ Bytes(toWorker', "adjust") = Bytes(toWorker, "adjust") + 0
        /\ Bytes(toWorker, "adjust") \in Int
    BY <1>2, SendAdds
  <2> QED BY <1>2, <2>1 DEF WindowExact, InTransit
<1>3. CASE \E n \in DataSizes : ServerData(n)
  BY <1>2, <1>3, SentPackets DEF ServerData, serverFrame, wireVars
<1>4. CASE ServerRequests
  BY <1>2, <1>4, SentPackets DEF ServerRequests, serverFrame, wireVars
<1>5. CASE \E kind \in {"close", "disconnect"} : ServerCloses(kind)
  BY <1>2, <1>5, SentPackets DEF ServerCloses, serverFrame, wireVars
<1>6. CASE ConnectionLost
  BY <1>6, WindowFrame DEF ConnectionLost, channelVars, windowVars, wireVars, serverVars
<1> QED BY <1>1, <1>3, <1>4, <1>5, <1>6 DEF Environment

LEMMA NextWindow == IInv /\ WindowExact /\ [Next]_vars => WindowExact'
<1> SUFFICES ASSUME IInv, WindowExact, [Next]_vars PROVE WindowExact'
  OBVIOUS
<1>1. CASE Gate
  BY <1>1, WindowFrame DEF Gate, CredentialsTimeout, Credentials, Connected, ConnectFails,
     OpensLate, channelVars, windowVars, wireVars, serverVars
<1>2. CASE User
  BY <1>2, WindowFrame DEF User, Type, Resize, windowVars, wireVars, serverVars
<1>3. CASE UNCHANGED vars
  BY <1>3, WindowFrame DEF vars, windowVars, wireVars, serverVars
<1> QED BY <1>1, <1>2, <1>3, SetupWindow, SenderWindow, ReaderWindow, EnvironmentWindow DEF Next

(* No adjustment is lost, from CHANNEL_OPEN_CONFIRMATION on: what the      *)
(* worker may still send, what it has sent and what it has not read yet    *)
(* are together what the server granted.                                   *)
THEOREM WindowIsExact == Spec => []WindowExact
<1>1. Init => WindowExact
  <2>1. Init => /\ toWorker = <<>> /\ wire = <<>> /\ remoteWindow = 0 /\ granted = 0
                /\ toWorker \in Seq(ServerPacket)
    BY DEF Init
  <2>2. Init => Bytes(toWorker, "adjust") = 0 /\ End(wire) = 0
    BY <2>1, BytesInt, EmptyLists
  <2> QED BY <2>1, <2>2 DEF WindowExact, InTransit
<1> QED BY <1>1, NextWindow, Invariance, PTL DEF Spec

(* Nor do most steps touch the local window.                               *)
LEMMA LocalFrame ==
  ASSUME LocalExact, UNCHANGED <<localWindowRemaining, credit, toWorker>>
  PROVE  LocalExact'
  BY DEF LocalExact, InTransit

LEMMA SenderLocal ==
  ASSUME IInv, LocalExact, SenderStep
  PROVE  LocalExact'
<1>1. CASE AdjustSettled
  <2>1. UNCHANGED toWorker /\ Refill \in Nat
    BY <1>1, WindowAssumption DEF AdjustSettled
  <2>2. \/ localWindowRemaining' = localWindowRemaining + Refill /\ credit' = credit + Refill
        \/ UNCHANGED <<localWindowRemaining, credit>>
    BY <1>1 DEF AdjustSettled
  <2> QED BY <2>1, <2>2, WindowNumbers DEF LocalExact, InTransit
<1>2. CASE DataWritten \/ DataRejected \/ ResizeSettled \/ ReplySettled \/ CloseSettled
  <2>1. UNCHANGED <<localWindowRemaining, credit, toWorker>>
    BY <1>2 DEF DataWritten, DataRejected, ResizeSettled, ReplySettled, CloseSettled, serverVars
  <2> QED BY <2>1, LocalFrame
<1> QED BY <1>1, <1>2 DEF SenderStep

LEMMA ReaderLocal ==
  ASSUME IInv, LocalExact, ReaderStep
  PROVE  LocalExact'
<1>1. CASE ReadData
  <2>1. Reads("data") /\ UNCHANGED credit
    BY <1>1 DEF ReadData
  <2>2. /\ Bytes(toWorker, "data") = Bytes(toWorker', "data") + Carried(toWorker[1], "data")
        /\ Bytes(toWorker', "data") \in Int /\ Carried(toWorker[1], "data") \in Int
        /\ Head(toWorker) = toWorker[1] /\ toWorker[1].kind = "data"
    BY <2>1, ReadTakes
  <2>3. localWindowRemaining' = localWindowRemaining - Carried(toWorker[1], "data")
    BY <1>1, <2>2 DEF ReadData, Carried
  <2> QED BY <2>1, <2>2, <2>3, WindowNumbers DEF LocalExact, InTransit
<1>2. ASSUME NEW kind \in {"adjust", "request", "close", "disconnect"}, Reads(kind),
             UNCHANGED <<localWindowRemaining, credit>>
      PROVE  LocalExact'
  <2>1. /\ Bytes(toWorker, "data") = Bytes(toWorker', "data") + Carried(toWorker[1], "data")
        /\ Bytes(toWorker', "data") \in Int /\ toWorker[1].kind = kind
    BY <1>2, ReadTakes
  <2>2. Carried(toWorker[1], "data") = 0
    BY <2>1 DEF Carried
  <2> QED BY <1>2, <2>1, <2>2 DEF LocalExact, InTransit
<1>3. CASE ReadAdjust
  BY <1>2, <1>3 DEF ReadAdjust
<1>4. CASE ReadRequest
  BY <1>2, <1>4 DEF ReadRequest
<1>5. CASE ReadClose
  BY <1>2, <1>5 DEF ReadClose
<1>6. CASE ReadDisconnect
  BY <1>2, <1>6 DEF ReadDisconnect
<1>7. CASE ReadFails \/ Finish
  BY <1>7, LocalFrame DEF ReadFails, Finish, channelVars, serverVars
<1> QED BY <1>1, <1>3, <1>4, <1>5, <1>6, <1>7 DEF ReaderStep

LEMMA EnvironmentLocal ==
  ASSUME IInv, LocalExact, Environment
  PROVE  LocalExact'
<1>1. CASE \E n \in DataSizes : ServerData(n)
  <2> PICK n \in DataSizes : ServerData(n)
    BY <1>1
  <2> DEFINE p == Packet("data", produced, produced + n)
  <2>1. /\ p \in ServerPacket /\ ServerSends(p) /\ Carried(p, "data") = n /\ n \in Nat
        /\ credit' = credit - n /\ UNCHANGED localWindowRemaining
    BY SentPackets, WindowAssumption DEF ServerData, serverFrame
  <2> HIDE DEF p
  <2>2. Bytes(toWorker', "data") = Bytes(toWorker, "data") + n
    BY <2>1, SendAdds
  <2> QED BY <2>1, <2>2, WindowNumbers DEF LocalExact, InTransit
<1>2. ASSUME NEW p \in ServerPacket, ServerSends(p), Carried(p, "data") = 0,
             UNCHANGED <<localWindowRemaining, credit>>
      PROVE  LocalExact'
  <2>1. /\ Bytes(toWorker', "data") = Bytes(toWorker, "data") + 0
        /\ Bytes(toWorker, "data") \in Int
    BY <1>2, SendAdds
  <2> QED BY <1>2, <2>1 DEF LocalExact, InTransit
<1>3. CASE \E n \in Grants : ServerGrants(n)
  BY <1>2, <1>3, SentPackets DEF ServerGrants, serverFrame
<1>4. CASE ServerRequests
  BY <1>2, <1>4, SentPackets DEF ServerRequests, serverFrame
<1>5. CASE \E kind \in {"close", "disconnect"} : ServerCloses(kind)
  BY <1>2, <1>5, SentPackets DEF ServerCloses, serverFrame
<1>6. CASE ConnectionLost
  BY <1>6, LocalFrame DEF ConnectionLost, channelVars, serverVars
<1> QED BY <1>1, <1>3, <1>4, <1>5, <1>6 DEF Environment

LEMMA NextLocal == IInv /\ LocalExact /\ [Next]_vars => LocalExact'
<1> SUFFICES ASSUME IInv, LocalExact, [Next]_vars PROVE LocalExact'
  OBVIOUS
<1>1. CASE Gate
  BY <1>1, LocalFrame DEF Gate, CredentialsTimeout, Credentials, Connected, ConnectFails,
     OpensLate, channelVars, serverVars
<1>2. CASE Setup
  BY <1>2, LocalFrame DEF Setup, SetupAnswer, SetupAdjust, SetupThrows, channelVars, serverVars
<1>3. CASE User
  BY <1>3, LocalFrame DEF User, Type, Resize, serverVars
<1>4. CASE UNCHANGED vars
  BY <1>4, LocalFrame DEF vars, serverVars
<1> QED BY <1>1, <1>2, <1>3, <1>4, SenderLocal, ReaderLocal, EnvironmentLocal DEF Next

-----------------------------------------------------------------------------
(* The refill is under way when the local window runs low.                 *)

(* A step that leaves the read loop and its packets where they are.        *)
LEMMA KeptFrame ==
  ASSUME LocalKept, UNCHANGED <<localWindowRemaining, session, chain>>,
         tcp' = "open" => tcp = "open" \/ session \notin {"reading", "awaiting"}
  PROVE  LocalKept'
  BY DEF LocalKept

(* One that leaves the local window, and ends no adjustment.               *)
LEMMA KeptElsewhere ==
  ASSUME LocalKept, UNCHANGED localWindowRemaining,
         tcp' = "open" => tcp = "open" \/ session \notin {"reading", "awaiting"},
         session' \in Early => session \in Early,
         session' \in {"reading", "awaiting"} =>
           /\ session \in {"reading", "awaiting"}
           /\ \/ session # "awaiting"
              \/ ~ \E i \in 1 .. Len(chain) : chain[i].kind = "adjust"
              \/ session' = "awaiting" /\ \E i \in 1 .. Len(chain') : chain'[i].kind = "adjust"
  PROVE  LocalKept'
  BY DEF LocalKept

LEMMA GateKept ==
  ASSUME IInv, LocalKept, Gate
  PROVE  LocalKept'
<1>1. UNCHANGED localWindowRemaining
  BY DEF Gate, CredentialsTimeout, Credentials, Connected, ConnectFails, OpensLate, channelVars
<1>2. CASE CredentialsTimeout
  BY <1>1, <1>2, KeptFrame DEF CredentialsTimeout, channelVars, drainVars
<1>3. CASE \E valid \in BOOLEAN : Credentials(valid)
  BY <1>1, <1>3 DEF Credentials, Throws, LocalKept, Early
<1>4. CASE Connected
  BY <1>1, <1>4 DEF Connected, LocalKept, Early
<1>5. CASE \E refused \in BOOLEAN : ConnectFails(refused)
  BY <1>1, <1>5 DEF ConnectFails, Throws, LocalKept, Early
<1>6. CASE OpensLate
  BY <1>1, <1>6 DEF OpensLate, Over, LocalKept, Early
<1> QED BY <1>2, <1>3, <1>4, <1>5, <1>6 DEF Gate

LEMMA SetupKept ==
  ASSUME IInv, LocalKept, Setup
  PROVE  LocalKept'
<1>1. session = "setup" /\ UNCHANGED localWindowRemaining
  BY DEF Setup, SetupAnswer, SetupAdjust, SetupThrows, channelVars
<1>2. localWindowRemaining' = LocalWindow
  BY <1>1 DEF LocalKept, Early
<1> QED BY <1>2, WindowAssumption DEF LocalKept

(* A packet behind those of the promise chain leaves them there.           *)
LEMMA BehindAdjust ==
  ASSUME NEW s \in Seq(ChainPacket), NEW x \in ChainPacket,
         NEW i \in 1 .. Len(s), s[i].kind = "adjust"
  PROVE  \E j \in 1 .. Len(Append(s, x)) : Append(s, x)[j].kind = "adjust"
<1>1. i \in 1 .. Len(Append(s, x)) /\ Append(s, x)[i] = s[i]
  BY AppendAt
<1> QED BY <1>1

(* The first packet settles, which is no adjustment.                       *)
LEMMA BeforeAdjust ==
  ASSUME NEW s \in Seq(ChainPacket), s # <<>>, s[1].kind # "adjust",
         NEW i \in 1 .. Len(s), s[i].kind = "adjust"
  PROVE  \E j \in 1 .. Len(Tail(s)) : Tail(s)[j].kind = "adjust"
<1>1. Len(s) \in Nat \ {0} /\ Len(Tail(s)) = Len(s) - 1 /\ i # 1
      /\ \A j \in 1 .. Len(s) - 1 : Tail(s)[j] = s[j + 1]
  BY TailAt
<1>2. i - 1 \in 1 .. Len(Tail(s)) /\ Tail(s)[i - 1] = s[(i - 1) + 1] /\ (i - 1) + 1 = i
  BY <1>1
<1> QED BY <1>2

(* What the loop hands over behind them does not matter.                   *)
LEMMA AnyBehindAdjust ==
  ASSUME NEW s \in Seq(ChainPacket), NEW x, NEW i \in 1 .. Len(s), s[i].kind = "adjust"
  PROVE  \E j \in 1 .. Len(Append(s, x)) : Append(s, x)[j].kind = "adjust"
<1>1. s \in Seq(ChainPacket \cup {x})
  OBVIOUS
<1>2. i \in 1 .. Len(Append(s, x)) /\ Append(s, x)[i] = s[i]
  BY <1>1, AppendAt
<1> QED BY <1>2

LEMMA UserKept ==
  ASSUME IInv, LocalKept, User
  PROVE  LocalKept'
<1>1. chain \in Seq(ChainPacket)
  BY DEF IInv, TypeOK, ChainPacket
<1>2. UNCHANGED <<localWindowRemaining, session, tcp>>
  BY DEF User, Type, Resize
<1>3. UNCHANGED chain \/ \E x : chain' = Append(chain, x)
  <2>1. CASE Resize
    BY <2>1 DEF Resize, Send
  <2>2. CASE \E n \in MsgSizes : Type(n)
    <3> PICK n \in MsgSizes : Type(n)
      BY <2>2
    <3>1. SignalDrain(inputQueue', remoteWindow)
      BY DEF Type, WakeForInput
    <3> QED BY <3>1 DEF SignalDrain, DrainTop, drainVars
  <2> QED BY <2>1, <2>2 DEF User
<1>4. (\E i \in 1 .. Len(chain) : chain[i].kind = "adjust")
        => \E i \in 1 .. Len(chain') : chain'[i].kind = "adjust"
  BY <1>1, <1>3, AnyBehindAdjust
<1> QED BY <1>2, <1>4, KeptElsewhere

(* The drain loop's and the listener's packets settle beside the refill.   *)
LEMMA PassingKept ==
  ASSUME IInv, LocalKept, DataWritten \/ DataRejected \/ ResizeSettled
  PROVE  LocalKept'
<1>1. /\ chain \in Seq(ChainPacket) /\ chain # <<>> /\ Head(chain).kind \in {"data", "resize"}
      /\ UNCHANGED <<localWindowRemaining, session, tcp>>
  BY DEF DataWritten, DataRejected, ResizeSettled, HeadIs, IInv, TypeOK, ChainPacket
<1>2. chain[1].kind # "adjust" /\ Tail(chain) \in Seq(ChainPacket)
  BY <1>1, TailAt
<1>3. chain' = Tail(chain) \/ \E x : chain' = Append(Tail(chain), x)
  <2>1. CASE DataRejected \/ ResizeSettled
    BY <2>1 DEF DataRejected, ResizeSettled
  <2>2. CASE DataWritten
    BY <2>2 DEF DataWritten, DrainTop
  <2> QED BY <2>1, <2>2
<1>4. ASSUME \E i \in 1 .. Len(chain) : chain[i].kind = "adjust"
      PROVE  \E i \in 1 .. Len(chain') : chain'[i].kind = "adjust"
  <2>1. \E j \in 1 .. Len(Tail(chain)) : Tail(chain)[j].kind = "adjust"
    BY <1>1, <1>2, <1>4, BeforeAdjust
  <2> QED BY <1>2, <1>3, <2>1, AnyBehindAdjust
<1> QED BY <1>1, <1>4, KeptElsewhere

LEMMA SenderKept ==
  ASSUME IInv, LocalKept, SenderStep
  PROVE  LocalKept'
<1>1. CASE AdjustSettled
  <2>1. chain # <<>> /\ chain \in Seq(ChainPacket) /\ Head(chain).kind = "adjust"
    BY <1>1 DEF AdjustSettled, HeadIs, IInv, TypeOK, ChainPacket
  <2>2. session = "awaiting" /\ session' \in {"reading", "draining"} /\ UNCHANGED tcp
    <3>1. 1 \in 1 .. Len(chain) /\ chain[1].kind = "adjust"
      BY <2>1, TailAt
    <3> QED BY <1>1, <3>1 DEF AdjustSettled, ReadLoopTop, IInv, Flow, LoopPackets, LoopKinds
  <2>3. tcp = "open" => localWindowRemaining' >= LowWater
    BY <1>1, WindowNumbers, WindowAssumption DEF AdjustSettled
  <2> QED BY <2>2, <2>3 DEF LocalKept, Early
<1>2. CASE ReplySettled \/ CloseSettled
  <2>1. /\ chain # <<>> /\ chain \in Seq(ChainPacket) /\ Head(chain).kind \in {"reply", "close"}
        /\ UNCHANGED <<localWindowRemaining, tcp>> /\ session' \in {"reading", "draining"}
    BY <1>2 DEF ReplySettled, CloseSettled, ReadLoopTop, HeadIs, IInv, TypeOK, ChainPacket
  <2>2. 1 \in 1 .. Len(chain) /\ chain[1].kind \in {"reply", "close"}
    BY <2>1, TailAt
  <2>3. session = "awaiting" /\ Lone(chain, LoopKinds)
    BY <2>2 DEF IInv, Flow, LoopPackets, LoopKinds
  <2>4. ASSUME NEW i \in 1 .. Len(chain) PROVE chain[i].kind # "adjust"
    BY <2>2, <2>3 DEF Lone, LoopKinds
  <2> QED BY <2>1, <2>3, <2>4, KeptElsewhere DEF Early
<1>3. CASE DataWritten \/ DataRejected \/ ResizeSettled
  BY <1>3, PassingKept
<1> QED BY <1>1, <1>2, <1>3 DEF SenderStep

LEMMA ReaderKept ==
  ASSUME IInv, LocalKept, ReaderStep
  PROVE  LocalKept'
<1>1. CASE ReadData
  <2>1. session = "reading" /\ session' \in {"reading", "awaiting", "draining"} /\ UNCHANGED tcp
    BY <1>1 DEF ReadData, Reads, ReadLoopTop
  <2>2. CASE RunsLow(localWindowRemaining')
    <3>1. session' = "awaiting" /\ chain' = Append(chain, Packet("adjust", 0, 0))
      BY <1>1, <2>2 DEF ReadData, Send
    <3>2. chain \in Seq(ChainPacket) /\ Packet("adjust", 0, 0) \in ChainPacket
          /\ Packet("adjust", 0, 0).kind = "adjust"
      BY DEF IInv, TypeOK, ChainPacket, Packet
    <3>3. chain'[Len(chain) + 1].kind = "adjust" /\ Len(chain) + 1 \in 1 .. Len(chain')
      BY <3>1, <3>2, AppendAt
    <3> QED BY <3>1, <3>3 DEF LocalKept, Early
  <2>3. CASE ~RunsLow(localWindowRemaining')
    <3>1. IInv'
      BY <1>1, ReadDataKeeps
    <3>2. localWindowRemaining' \in Nat
      BY <3>1 DEF IInv, TypeOK
    <3>3. localWindowRemaining' >= LowWater
      BY <2>3, <3>2, WindowAssumption DEF RunsLow
    <3> QED BY <2>1, <3>3 DEF LocalKept, Early
  <2> QED BY <2>2, <2>3
<1>2. CASE ReadAdjust \/ ReadRequest \/ ReadClose \/ ReadDisconnect \/ ReadFails
  <2>1. /\ session = "reading" /\ session' \in {"reading", "awaiting", "draining"}
        /\ UNCHANGED <<localWindowRemaining, tcp>>
    BY <1>2 DEF ReadAdjust, ReadRequest, ReadClose, ReadDisconnect, ReadFails, Reads, ReadLoopTop
  <2> QED BY <2>1, KeptElsewhere DEF Early
<1>3. CASE Finish
  BY <1>3, KeptElsewhere DEF Finish, channelVars, Early
<1> QED BY <1>1, <1>2, <1>3 DEF ReaderStep

LEMMA EnvironmentKept ==
  ASSUME IInv, LocalKept, Environment
  PROVE  LocalKept'
<1>1. UNCHANGED <<localWindowRemaining, session, chain>> /\ (tcp' = "open" => tcp = "open")
  BY DEF Environment, ServerData, ServerGrants, ServerRequests, ServerCloses, serverFrame,
     ConnectionLost, channelVars, drainVars
<1> QED BY <1>1, KeptFrame

LEMMA NextKept == IInv /\ LocalKept /\ [Next]_vars => LocalKept'
<1> SUFFICES ASSUME IInv, LocalKept, [Next]_vars PROVE LocalKept'
  OBVIOUS
<1>1. CASE UNCHANGED vars
  BY <1>1, KeptFrame DEF vars, drainVars
<1> QED BY <1>1, GateKept, SetupKept, UserKept, SenderKept, ReaderKept, EnvironmentKept DEF Next

(* The worker's count of the local window agrees with the server's, and    *)
(* while it waits for a packet the server may send LowWater bytes, on      *)
(* their way or not: a refill is never forgotten.                          *)
THEOREM LocalWindowIsServed == Spec => []LocalWindowServed
<1>1. Init => LocalExact /\ LocalKept
  <2>1. Init => /\ toWorker = <<>> /\ toWorker \in Seq(ServerPacket) /\ session = "credentials"
                /\ credit = LocalWindow /\ localWindowRemaining = LocalWindow
    BY DEF Init
  <2>2. Init => Bytes(toWorker, "data") = 0
    BY <2>1, BytesInt
  <2> QED BY <2>1, <2>2, WindowAssumption DEF LocalExact, LocalKept, InTransit
<1>2. LocalExact /\ LocalKept => LocalWindowServed
  BY DEF LocalExact, LocalKept, LocalWindowServed
<1> QED BY <1>1, <1>2, NextLocal, NextKept, Invariance, PTL DEF Spec
=============================================================================
