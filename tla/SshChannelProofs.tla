------------------------- MODULE SshChannelProofs -------------------------
(***************************************************************************)
(* What holds of the subsystem channel for every size, window and number   *)
(* of bytes: its type invariant, that the window is respected whichever    *)
(* call reads the adjustments, and that its output implements ByteStream,  *)
(* and its input too until a send drops some.                              *)
(*                                                                         *)
(* The invariant puts what is under way on two lines of numbers.  Output:  *)
(*                                                                         *)
(*        wire        off2   the chunk      the rest                       *)
(*    |------------|---------------------|------------|                    *)
(*    0        End(wire)             Chunk.hi     accepted                 *)
(*                                                                         *)
(* where the chunk lies below End(wire) + remoteWin when it is written;    *)
(* the adjustments that nobody has read lie between that number and        *)
(* `granted', the server's data between what was read and `produced'.      *)
(***************************************************************************)
EXTENDS SshChannel, SequenceTheorems, TLAPS

(* What the user's call and the read left behind can be at.                *)
UserState ==
  /\ op \in {"none", "over"} <=> at["user"] = "idle"
  /\ at["user"] = "data" => op = "send"
  /\ at["user"] = "adjust" => op = "read"
  /\ at["user"] = "shut" => op = "close"
  /\ op = "close" => at["user"] \in {"closing", "shut"}
  /\ op \in {"send", "read"} => ~leaving
  /\ at["late"] # "idle" => leaving
  /\ at["late"] \notin {"data", "shut"}

(* Before the channel is open nothing is sent.                             *)
EarlyState ==
  session # "open" => op = "none" /\ wire = <<>> /\ accepted = 0 /\ toWorker = <<>>

(* A send goes on where the wire ends, and the window decides whether its  *)
(* chunk is written or waits.                                              *)
SendState ==
  /\ End(wire) <= accepted
  /\ op = "send" => off2 = End(wire) /\ off2 < accepted
  /\ op # "send" /\ ~leaving => End(wire) = accepted
  /\ at["user"] = "data" => Size(Chunk) <= remoteWin
  /\ op = "send" /\ at["user"] \in {"socket", "reply"} => Size(Chunk) > remoteWin

(* The packets of a kind in a list lie one behind the other between two    *)
(* numbers.                                                                *)
Lies(list, kind, from, to) ==
  /\ from <= to
  /\ \A i \in 1 .. Len(list) : list[i].kind = kind =>
       from <= list[i].lo /\ list[i].lo <= list[i].hi /\ list[i].hi <= to
  /\ \A i, j \in 1 .. Len(list) :
       i < j /\ list[i].kind = kind /\ list[j].kind = kind => list[i].hi <= list[j].lo

(* What the server sent and nobody has read: window, and data.             *)
GrantLine == Lies(toWorker, "adjust", End(wire) + remoteWin, granted)
DataLine  == Lies(toWorker, "data", produced - (localWinRemaining - credit), produced)

Flow == UserState /\ EarlyState /\ SendState
Lines == GrantLine /\ DataLine

IInv == TypeOK /\ Flow /\ Lines

ServerPacket == [kind : {"data", "adjust", "eof", "close", "request", "exit", "global"},
                 lo : Nat, hi : Nat]

-----------------------------------------------------------------------------
(* Taking the first element off a list, and adding one behind it.          *)
LEMMA TailAt ==
  ASSUME NEW T, NEW s \in Seq(T), s # <<>>
  PROVE  /\ Len(s) \in Nat \ {0} /\ Head(s) = s[1] /\ s[1] \in T
         /\ Tail(s) \in Seq(T) /\ Len(Tail(s)) = Len(s) - 1
         /\ \A i \in 1 .. Len(s) - 1 : Tail(s)[i] = s[i + 1]
<1>1. Len(s) \in Nat \ {0} /\ Head(s) = s[1] /\ s[1] \in T
  BY EmptySeq, ElementOfSeq
<1>2. /\ Tail(s) \in Seq(T) /\ Len(Tail(s)) = Len(s) - 1
      /\ \A i \in 1 .. Len(s) - 1 : Tail(s)[i] = s[i + 1]
  BY HeadTailProperties
<1> QED BY <1>1, <1>2

LEMMA AppendAt ==
  ASSUME NEW T, NEW s \in Seq(T), NEW x \in T
  PROVE  /\ Len(s) \in Nat /\ Append(s, x) \in Seq(T) /\ Append(s, x) # <<>>
         /\ Len(Append(s, x)) = Len(s) + 1
         /\ \A i \in 1 .. Len(s) : Append(s, x)[i] = s[i]
         /\ Append(s, x)[Len(s) + 1] = x
  BY AppendProperties, LenProperties

LEMMA PacketFields ==
  ASSUME NEW s \in Seq(ServerPacket)
  PROVE  \A i \in 1 .. Len(s) : s[i] \in ServerPacket /\ s[i].lo \in Nat /\ s[i].hi \in Nat
<1>1. \A i \in 1 .. Len(s) : s[i] \in ServerPacket
  BY ElementOfSeq
<1>2. \A p \in ServerPacket : p.lo \in Nat /\ p.hi \in Nat
  BY DEF ServerPacket
<1> QED BY <1>1, <1>2

LEMMA EndNat ==
  ASSUME NEW s \in Seq(Span)
  PROVE  End(s) \in Nat
<1>1. CASE s = <<>>
  BY <1>1 DEF End, Output!End
<1>2. CASE s # <<>>
  <2>1. s[Len(s)] \in Span
    BY <1>2, EmptySeq, ElementOfSeq
  <2> QED BY <1>2, <2>1 DEF End, Output!End, Span, Output!Span
<1> QED BY <1>1, <1>2

LEMMA EndAppend ==
  ASSUME NEW s \in Seq(Span), NEW x \in Span
  PROVE  End(Append(s, x)) = x.hi
  BY AppendAt DEF End, Output!End

LEMMA EmptyLists ==
  /\ \A kind, from, to : from <= to => Lies(<<>>, kind, from, to)
  /\ End(<<>>) = 0
  BY EmptySeq DEF Lies, End, Output!End

LEMMA LiesTail ==
  ASSUME NEW s \in Seq(ServerPacket), s # <<>>, NEW kind,
         NEW from \in Int, NEW to \in Int, NEW more \in Int, Lies(s, kind, from, to),
         more = from \/ (s[1].kind = kind /\ more <= s[1].hi)
  PROVE  Lies(Tail(s), kind, more, to)
<1>1. \A i \in 1 .. Len(s) : s[i].lo \in Nat /\ s[i].hi \in Nat
  BY PacketFields
<1>2. /\ Len(s) \in Nat \ {0} /\ Len(Tail(s)) = Len(s) - 1
      /\ \A i \in 1 .. Len(s) - 1 : Tail(s)[i] = s[i + 1]
  BY TailAt
<1>3. more <= to
  BY <1>1, <1>2 DEF Lies
<1>4. \A i \in 2 .. Len(s) : s[i].kind = kind => more <= s[i].lo
  BY <1>1, <1>2 DEF Lies
<1>5. ASSUME NEW i \in 1 .. Len(Tail(s)), Tail(s)[i].kind = kind
      PROVE  more <= Tail(s)[i].lo /\ Tail(s)[i].lo <= Tail(s)[i].hi /\ Tail(s)[i].hi <= to
  <2>1. Tail(s)[i] = s[i + 1] /\ i + 1 \in 2 .. Len(s)
    BY <1>2
  <2> QED BY <1>4, <1>5, <2>1 DEF Lies
<1>6. ASSUME NEW i \in 1 .. Len(Tail(s)), NEW j \in 1 .. Len(Tail(s)), i < j,
             Tail(s)[i].kind = kind, Tail(s)[j].kind = kind
      PROVE  Tail(s)[i].hi <= Tail(s)[j].lo
  <2>1. /\ Tail(s)[i] = s[i + 1] /\ i + 1 \in 1 .. Len(s)
        /\ Tail(s)[j] = s[j + 1] /\ j + 1 \in 1 .. Len(s) /\ i + 1 < j + 1
    BY <1>2, <1>6
  <2> QED BY <1>6, <2>1 DEF Lies
<1> QED BY <1>3, <1>5, <1>6 DEF Lies

LEMMA LiesAppend ==
  ASSUME NEW s \in Seq(ServerPacket), NEW x \in ServerPacket, NEW kind,
         NEW from \in Int, NEW to \in Int, NEW more \in Int, Lies(s, kind, from, to),
         to <= more,
         x.kind = kind => to <= x.lo /\ x.lo <= x.hi /\ x.hi <= more
  PROVE  Lies(Append(s, x), kind, from, more)
<1> DEFINE t == Append(s, x)
<1>1. \A i \in 1 .. Len(s) : s[i].lo \in Nat /\ s[i].hi \in Nat
  BY PacketFields
<1>2. x.lo \in Nat /\ x.hi \in Nat
  BY DEF ServerPacket
<1>3. /\ Len(s) \in Nat /\ Len(t) = Len(s) + 1 /\ t[Len(s) + 1] = x
      /\ \A i \in 1 .. Len(s) : t[i] = s[i]
  BY AppendAt
<1>4. \A i \in 1 .. Len(t) : i \in 1 .. Len(s) \/ i = Len(s) + 1
  BY <1>3
<1> HIDE DEF t
<1>5. ASSUME NEW i \in 1 .. Len(t), t[i].kind = kind
      PROVE  from <= t[i].lo /\ t[i].lo <= t[i].hi /\ t[i].hi <= more
  BY <1>1, <1>2, <1>3, <1>4, <1>5 DEF Lies
<1>6. ASSUME NEW i \in 1 .. Len(t), NEW j \in 1 .. Len(t), i < j,
             t[i].kind = kind, t[j].kind = kind
      PROVE  t[i].hi <= t[j].lo
  BY <1>1, <1>2, <1>3, <1>4, <1>6 DEF Lies
<1> QED BY <1>5, <1>6 DEF Lies, t

(* The ranges in which the two lines lie.                                  *)
LEMMA LineFields ==
  ASSUME TypeOK
  PROVE  /\ toWorker \in Seq(ServerPacket) /\ wire \in Seq(Span)
         /\ End(wire) \in Nat /\ remoteWin \in Nat /\ granted \in Nat
         /\ End(wire) + remoteWin \in Int
         /\ produced \in Nat /\ localWinRemaining \in Nat /\ credit \in Nat
         /\ produced - (localWinRemaining - credit) \in Int
<1>1. /\ toWorker \in Seq(ServerPacket) /\ wire \in Seq(Span)
      /\ remoteWin \in Nat /\ granted \in Nat
      /\ produced \in Nat /\ localWinRemaining \in Nat /\ credit \in Nat
  BY DEF TypeOK, ServerPacket
<1> QED BY <1>1, EndNat

(* A chunk begins where the send is, and is the rest or a whole packet.    *)
LEMMA ChunkFits ==
  ASSUME NEW lo \in Nat, NEW hi \in Nat, lo < hi
  PROVE  /\ ChunkAt(lo, hi) \in Span /\ ChunkAt(lo, hi).lo = lo
         /\ lo < ChunkAt(lo, hi).hi /\ ChunkAt(lo, hi).hi <= hi
         /\ ChunkAt(lo, hi).hi \in Nat
         /\ Size(ChunkAt(lo, hi)) = ChunkAt(lo, hi).hi - lo
         /\ Onward(lo) \in Nat
         /\ Onward(lo) >= hi => ChunkAt(lo, hi).hi = hi
         /\ Onward(lo) < hi => ChunkAt(lo, hi).hi = Onward(lo)
<1>1. maxPkt \in Nat \ {0}
  BY SendAssumption DEF maxPkt, Smaller
<1> QED
  BY <1>1 DEF ChunkAt, Smaller, Onward, Span, Output!Span, Size, Output!Size

(* Where the two calls are after one of them has moved.                    *)
LEMMA Moved ==
  ASSUME TypeOK, NEW s \in Slots, NEW what \in Stages, AwaitAt(s, what)
  PROVE  /\ at' \in [Slots -> Stages]
         /\ s = "user" => at'["user"] = what /\ at'["late"] = at["late"]
         /\ s = "late" => at'["late"] = what /\ at'["user"] = at["user"]
         /\ s = "user" \/ s = "late"
  BY DEF TypeOK, AwaitAt, Slots

-----------------------------------------------------------------------------
(* What a call makes of a packet: it waits for something else, or it ends. *)

outFrame == <<session, accepted, off2, wire>>

LEMMA CallGoesOn ==
  ASSUME IInv, NEW s \in Slots, NEW what \in {"socket", "adjust", "reply", "closing"},
         Awaits(s, what), at[s] \in {"socket", "reply"},
         s = "user" /\ what = "adjust" => op = "read",
         UNCHANGED <<outFrame, remoteWin>>,
         session = "open" \/ toWorker' = toWorker
  PROVE  /\ at' \in [Slots -> Stages] /\ op' = op /\ leaving' = leaving
         /\ Flow'
<1>1. what \in Stages /\ op' = op /\ leaving' = leaving /\ AwaitAt(s, what)
  BY DEF Stages, Awaits
<1>2. /\ at' \in [Slots -> Stages]
      /\ s = "user" => at'["user"] = what /\ at'["late"] = at["late"]
      /\ s = "late" => at'["late"] = what /\ at'["user"] = at["user"]
      /\ s = "user" \/ s = "late"
  BY <1>1, Moved DEF IInv
<1>3. UserState'
  BY <1>1, <1>2 DEF IInv, Flow, UserState
<1>4. EarlyState'
  BY <1>1 DEF IInv, Flow, EarlyState, outFrame
<1>5. SendState'
  <2>1. at'["user"] = "data" => at["user"] = "data"
    BY <1>2
  <2>2. at'["user"] \in {"socket", "reply"} => at["user"] \in {"socket", "reply"}
    BY <1>2
  <2> QED
    BY <1>1, <2>1, <2>2 DEF IInv, Flow, SendState, outFrame, Chunk
<1> QED BY <1>1, <1>2, <1>3, <1>4, <1>5 DEF Flow

LEMMA CallFinishes ==
  ASSUME IInv, NEW s \in Slots, NEW over \in BOOLEAN, CallEnds(s, over),
         at[s] \in {"socket", "reply", "adjust", "closing"},
         s = "user" => op # "close", s = "user" /\ ~over => op = "read",
         UNCHANGED <<outFrame, remoteWin>>,
         session = "open" \/ toWorker' = toWorker
  PROVE  /\ at' \in [Slots -> Stages] /\ op' \in {op, "none"} /\ leaving' \in BOOLEAN
         /\ Flow'
<1>1. "idle" \in Stages /\ AwaitAt(s, "idle")
  BY DEF Stages, CallEnds, Returns, Slots
<1>2. /\ at' \in [Slots -> Stages]
      /\ s = "user" => at'["user"] = "idle" /\ at'["late"] = at["late"]
      /\ s = "late" => at'["late"] = "idle" /\ at'["user"] = at["user"]
      /\ s = "user" \/ s = "late"
  BY <1>1, Moved DEF IInv
<1>3. /\ s = "user" => op' = "none" /\ leaving' = over
      /\ s = "late" => op' = op /\ leaving' = leaving
  BY DEF CallEnds, Returns
<1>4. leaving \in BOOLEAN
  BY DEF IInv, TypeOK
<1>5. s = "user" => op \in {"send", "read"} /\ ~leaving /\ at["late"] = "idle"
  BY DEF IInv, TypeOK, Flow, UserState
<1>6. UserState'
  BY <1>2, <1>3, <1>5 DEF IInv, Flow, UserState
<1>7. EarlyState'
  BY <1>2, <1>3 DEF IInv, Flow, EarlyState, outFrame
<1>8. SendState'
  BY <1>2, <1>3, <1>5 DEF IInv, Flow, SendState, outFrame, Chunk
<1> QED BY <1>2, <1>3, <1>4, <1>6, <1>7, <1>8 DEF Flow

(* The first packet of the server is taken.                                *)
LEMMA PacketTaken ==
  ASSUME IInv, NEW s \in Slots, NEW kind, Takes(s, kind)
  PROVE  /\ session = "open" /\ at[s] = "socket"
         /\ Head(toWorker) \in ServerPacket /\ Head(toWorker).kind = kind
         /\ Head(toWorker).lo \in Nat /\ Head(toWorker).hi \in Nat
         /\ kind \in {"adjust", "data"} => Head(toWorker).lo <= Head(toWorker).hi
         /\ toWorker' \in Seq(ServerPacket)
         /\ \A from \in Int : (kind = "adjust" /\ from <= Head(toWorker).hi)
                                \/ from = End(wire) + remoteWin
              => Lies(toWorker', "adjust", from, granted)
         /\ \A from \in Int : (kind = "data" /\ from <= Head(toWorker).hi)
                                \/ from = produced - (localWinRemaining - credit)
              => Lies(toWorker', "data", from, produced)
         /\ kind = "adjust" => End(wire) + remoteWin <= Head(toWorker).lo
         /\ kind = "data" => /\ produced - (localWinRemaining - credit) <= Head(toWorker).lo
                             /\ Head(toWorker).hi <= produced
<1>1. /\ toWorker # <<>> /\ toWorker' = Tail(toWorker) /\ at[s] = "socket"
      /\ Head(toWorker).kind = kind
  BY DEF Takes
<1>2. session = "open"
  BY <1>1 DEF IInv, Flow, EarlyState
<1>3. /\ toWorker \in Seq(ServerPacket) /\ granted \in Int /\ produced \in Int
      /\ End(wire) + remoteWin \in Int
      /\ produced - (localWinRemaining - credit) \in Int
  BY LineFields DEF IInv
<1>4. /\ Head(toWorker) = toWorker[1] /\ 1 \in 1 .. Len(toWorker)
      /\ toWorker' \in Seq(ServerPacket)
  BY <1>1, <1>3, TailAt
<1>5. /\ toWorker[1] \in ServerPacket
      /\ toWorker[1].lo \in Nat /\ toWorker[1].hi \in Nat
  BY <1>3, <1>4, PacketFields
<1>6. /\ Lies(toWorker, "adjust", End(wire) + remoteWin, granted)
      /\ Lies(toWorker, "data", produced - (localWinRemaining - credit), produced)
  BY DEF IInv, Lines, GrantLine, DataLine
<1>7. /\ kind = "adjust" => /\ End(wire) + remoteWin <= toWorker[1].lo
                            /\ toWorker[1].lo <= toWorker[1].hi
      /\ kind = "data" => /\ produced - (localWinRemaining - credit) <= toWorker[1].lo
                          /\ toWorker[1].lo <= toWorker[1].hi
                          /\ toWorker[1].hi <= produced
  BY <1>1, <1>4, <1>6 DEF Lies
<1>8. ASSUME NEW from \in Int, (kind = "adjust" /\ from <= Head(toWorker).hi)
                                  \/ from = End(wire) + remoteWin
      PROVE  Lies(toWorker', "adjust", from, granted)
  BY <1>1, <1>3, <1>4, <1>6, <1>8, LiesTail
<1>9. ASSUME NEW from \in Int, (kind = "data" /\ from <= Head(toWorker).hi)
                                  \/ from = produced - (localWinRemaining - credit)
      PROVE  Lies(toWorker', "data", from, produced)
  BY <1>1, <1>3, <1>4, <1>6, <1>9, LiesTail
<1> QED BY <1>1, <1>2, <1>4, <1>5, <1>7, <1>8, <1>9

(* A packet is taken that is neither window nor data.                      *)
LEMMA AsideTaken ==
  ASSUME IInv, NEW s \in Slots,
         NEW kind \in {"eof", "close", "request", "exit", "global"}, Takes(s, kind),
         UNCHANGED <<wire, remoteWin, granted, produced, localWinRemaining, credit>>
  PROVE  Lines'
<1>1. /\ End(wire) + remoteWin \in Int
      /\ produced - (localWinRemaining - credit) \in Int
  BY LineFields DEF IInv
<1>2. /\ Lies(toWorker', "adjust", End(wire) + remoteWin, granted)
      /\ Lies(toWorker', "data", produced - (localWinRemaining - credit), produced)
  BY <1>1, PacketTaken
<1> QED BY <1>2 DEF Lines, GrantLine, DataLine

lineVars == <<toWorker, wire, remoteWin, granted, produced, localWinRemaining, credit>>

LEMMA LinesStay ==
  ASSUME IInv, UNCHANGED lineVars
  PROVE  Lines'
  BY DEF IInv, Lines, GrantLine, DataLine, lineVars

(* Neither a call nor the data moves.                                      *)
LEMMA FlowStays ==
  ASSUME IInv, UNCHANGED <<outFrame, remoteWin, op, leaving, at>>,
         session = "open" \/ toWorker' = toWorker
  PROVE  Flow'
  BY DEF IInv, Flow, UserState, EarlyState, SendState, outFrame, Chunk

-----------------------------------------------------------------------------
(* The setup.                                                              *)

LEMMA InitInv ==
  Init => IInv
<1> SUFFICES ASSUME Init PROVE IInv
  OBVIOUS
<1>1. TypeOK
  <2>1. step \in 1 .. Len(Steps)
    BY DEF Init, Steps
  <2>2. at \in [Slots -> Stages] /\ held \in Span
    BY DEF Init, Stages, NoData, Span, Output!Span
  <2>3. LocalWindow \in Nat
    BY ReadAssumption
  <2>4. /\ wire \in Seq(Span) /\ received \in Seq(Span)
        /\ toWorker \in Seq(ServerPacket)
    BY EmptySeq DEF Init
  <2>5. /\ session \in {"setup", "open", "failed"} /\ tcp \in {"open", "ended", "closed"}
        /\ op \in {"none", "send", "read", "close", "over"}
        /\ server \in {"open", "eof", "closing"}
        /\ accepted \in Nat /\ off2 \in Nat /\ remoteWin \in Nat /\ granted \in Nat
        /\ replies \in Nat /\ produced \in Nat /\ asides \in Nat
        /\ localWinRemaining \in Nat /\ credit \in Nat
    BY <2>3 DEF Init
  <2>6. /\ locked \in BOOLEAN /\ leaving \in BOOLEAN /\ chClosed \in BOOLEAN
        /\ exitStatus \in BOOLEAN /\ dropped \in BOOLEAN
    BY DEF Init
  <2> QED BY <2>1, <2>2, <2>4, <2>5, <2>6 DEF TypeOK, ServerPacket
<1>2. UserState /\ EarlyState
  BY DEF Init, UserState, EarlyState, Slots
<1>3. SendState
  BY EmptyLists DEF Init, SendState, Slots
<1>4. Lines
  BY ReadAssumption, EmptyLists DEF Init, Lines, GrantLine, DataLine
<1> QED BY <1>1, <1>2, <1>3, <1>4 DEF IInv, Flow

LEMMA SetupAnswerInv ==
  ASSUME IInv, NEW w \in Grants, SetupAnswer(w)
  PROVE  IInv'
<1>1. w \in Nat /\ w + 0 = w
  BY SendAssumption
<1>2. step \in 1 .. 8 /\ Len(Steps) = 8 /\ Steps[8] = "request"
  BY DEF IInv, TypeOK, Steps
<1>3. step' \in 1 .. Len(Steps)
  BY <1>2 DEF SetupAnswer
<1>4. TypeOK'
  BY <1>1, <1>3 DEF IInv, TypeOK, SetupAnswer, connVars, userVars, inVars, serverVars
<1>5. wire = <<>> /\ toWorker = <<>> /\ accepted = 0 /\ op = "none"
  BY DEF IInv, Flow, EarlyState, SetupAnswer
<1>6. UserState'
  BY DEF IInv, Flow, UserState, SetupAnswer, userVars
<1>7. EarlyState' /\ SendState'
  BY <1>5, <1>6 DEF IInv, Flow, UserState, EarlyState, SendState, SetupAnswer, userVars, serverVars, Chunk
<1>8. Lines'
  <2>1. CASE Steps[step] = "open"
    <3>1. GrantLine'
      BY <1>1, <1>5, <2>1, EmptyLists DEF SetupAnswer, serverVars, GrantLine
    <3>2. DataLine'
      BY DEF IInv, Lines, SetupAnswer, serverVars, inVars, DataLine
    <3> QED BY <3>1, <3>2 DEF Lines
  <2>2. CASE Steps[step] # "open"
    BY <2>2, LinesStay DEF SetupAnswer, serverVars, inVars, lineVars
  <2> QED BY <2>1, <2>2
<1> QED BY <1>4, <1>6, <1>7, <1>8 DEF IInv, Flow

LEMMA SetupAdjustInv ==
  ASSUME IInv, NEW n \in Grants, SetupAdjust(n)
  PROVE  IInv'
<1>1. n \in Nat
  BY SendAssumption
<1>2. TypeOK'
  BY <1>1 DEF IInv, TypeOK, SetupAdjust, setupVars, connVars, userVars, inVars, serverVars
<1>3. wire = <<>> /\ toWorker = <<>> /\ op = "none"
  BY DEF IInv, Flow, EarlyState, SetupAdjust
<1>4. Flow'
  BY <1>3 DEF IInv, Flow, UserState, EarlyState, SendState, SetupAdjust, setupVars, userVars, serverVars, Chunk
<1>5. GrantLine'
  <2>1. End(wire) + remoteWin <= granted /\ End(wire) \in Nat /\ remoteWin \in Nat /\ granted \in Nat
    BY LineFields DEF IInv, Lines, GrantLine, Lies
  <2>2. End(wire) + (remoteWin + n) <= granted + n
    BY <1>1, <2>1
  <2> QED BY <1>3, <2>2, EmptyLists DEF SetupAdjust, serverVars, GrantLine
<1>6. DataLine'
  BY DEF IInv, Lines, SetupAdjust, serverVars, inVars, DataLine
<1> QED BY <1>2, <1>4, <1>5, <1>6 DEF IInv, Lines

LEMMA SetupThrowsInv ==
  ASSUME IInv, SetupThrows
  PROVE  IInv'
<1>1. TypeOK'
  BY DEF IInv, TypeOK, SetupThrows, connVars, userVars, outVars, inVars, serverVars
<1>2. Flow'
  BY DEF IInv, Flow, UserState, EarlyState, SendState, SetupThrows, userVars, outVars, serverVars, Chunk
<1>3. Lines'
  BY LinesStay DEF SetupThrows, outVars, inVars, serverVars, lineVars
<1> QED BY <1>1, <1>2, <1>3 DEF IInv

-----------------------------------------------------------------------------
(* The user's calls.                                                       *)

(* The window decides where a send with this chunk is.                     *)
LEMMA WindowDecides ==
  ASSUME TypeOK, NEW chunk, NEW w \in Nat, Size(chunk) \in Int, SendOrWait(chunk, w)
  PROVE  /\ at' \in [Slots -> Stages] /\ at'["late"] = at["late"]
         /\ at'["user"] \in {"data", "socket"}
         /\ at'["user"] = "data" => Size(chunk) <= w
         /\ at'["user"] = "socket" => Size(chunk) > w
<1> DEFINE what == IF Fits(Size(chunk), w) THEN "data" ELSE "socket"
<1>1. what \in Stages /\ AwaitAt("user", what) /\ "user" \in Slots
  BY DEF SendOrWait, Stages, Slots
<1>2. /\ what \in {"data", "socket"}
      /\ what = "data" => Size(chunk) <= w
      /\ what = "socket" => Size(chunk) > w
  BY DEF Fits
<1> HIDE DEF what
<1>3. /\ at' \in [Slots -> Stages]
      /\ at'["user"] = what /\ at'["late"] = at["late"]
  BY <1>1, Moved
<1> QED BY <1>2, <1>3

LEMMA StartSendInv ==
  ASSUME IInv, NEW n \in SendSizes, StartSend(n)
  PROVE  IInv'
<1>1. n \in Nat \ {0} /\ accepted \in Nat /\ remoteWin \in Nat
  BY SendAssumption DEF IInv, TypeOK
<1>2. /\ op = "none" /\ ~leaving /\ session = "open" /\ op' = "send"
      /\ accepted' = accepted + n /\ off2' = accepted
      /\ SendOrWait(ChunkAt(accepted, accepted + n), remoteWin)
      /\ UNCHANGED <<leaving, session, wire, remoteWin>>
  BY DEF StartSend, setupVars
<1>3. Size(ChunkAt(accepted, accepted + n)) \in Int
  BY <1>1, ChunkFits
<1>4. /\ at' \in [Slots -> Stages] /\ at'["late"] = at["late"]
      /\ at'["user"] \in {"data", "socket"}
      /\ at'["user"] = "data" => Size(ChunkAt(accepted, accepted + n)) <= remoteWin
      /\ at'["user"] = "socket" => Size(ChunkAt(accepted, accepted + n)) > remoteWin
  BY <1>1, <1>2, <1>3, WindowDecides DEF IInv
<1>5. TypeOK'
  BY <1>1, <1>4 DEF IInv, TypeOK, StartSend, setupVars, connVars, inVars, serverVars
<1>6. UserState' /\ EarlyState'
  BY <1>2, <1>4 DEF IInv, Flow, UserState, EarlyState
<1>7. End(wire) = accepted
  BY <1>2 DEF IInv, Flow, SendState
<1>8. SendState'
  <2>1. Chunk' = ChunkAt(accepted, accepted + n)
    BY <1>2 DEF Chunk
  <2>2. End(wire)' = accepted
    BY <1>2, <1>7
  <2> QED BY <1>1, <1>2, <1>4, <2>1, <2>2 DEF SendState
<1>9. Lines'
  BY LinesStay DEF StartSend, inVars, serverVars, lineVars
<1> QED BY <1>5, <1>6, <1>8, <1>9 DEF IInv, Flow

LEMMA DataWrittenInv ==
  ASSUME IInv, DataWritten
  PROVE  /\ IInv'
         /\ Chunk \in Span /\ Chunk.lo = End(wire)
         /\ Chunk.lo < Chunk.hi /\ Chunk.hi <= accepted /\ wire' = Append(wire, Chunk)
<1>1. /\ at["user"] = "data" /\ op = "send" /\ ~leaving /\ off2 = End(wire) /\ off2 < accepted
      /\ Size(Chunk) <= remoteWin /\ at["late"] = "idle" /\ session = "open"
  BY DEF IInv, Flow, UserState, EarlyState, SendState, DataWritten
<1>2. /\ off2 \in Nat /\ accepted \in Nat /\ wire \in Seq(Span) /\ remoteWin \in Nat
  BY DEF IInv, TypeOK
<1>3. /\ Chunk \in Span /\ Chunk.lo = off2 /\ off2 < Chunk.hi /\ Chunk.hi <= accepted
      /\ Chunk.hi \in Nat /\ Size(Chunk) = Chunk.hi - off2 /\ Onward(off2) \in Nat
      /\ Onward(off2) >= accepted => Chunk.hi = accepted
      /\ Onward(off2) < accepted => Chunk.hi = Onward(off2)
  BY <1>1, <1>2, ChunkFits DEF Chunk
<1>4. /\ wire' = Append(wire, Chunk) /\ remoteWin' = remoteWin - Size(Chunk)
      /\ off2' = Onward(off2)
      /\ UNCHANGED <<accepted, granted, session, toWorker>>
  BY DEF DataWritten, Lowered, setupVars, serverVars
<1>5. /\ wire' \in Seq(Span) /\ End(wire)' = Chunk.hi /\ remoteWin' \in Nat
      /\ End(wire)' + remoteWin' = End(wire) + remoteWin
  <2>1. wire' \in Seq(Span) /\ End(wire') = Chunk.hi
    BY <1>2, <1>3, <1>4, AppendAt, EndAppend
  <2> QED BY <1>1, <1>2, <1>3, <1>4, <2>1
<1>6. /\ at' \in [Slots -> Stages] /\ op' \in {"send", "none"} /\ leaving' = FALSE
      /\ Flow'
  <2>1. CASE off2' >= accepted
    <3>1. op' = "none" /\ leaving' = FALSE /\ AwaitAt("user", "idle")
      BY <2>1 DEF DataWritten, Returns
    <3>2. "idle" \in Stages /\ "user" \in Slots
      BY DEF Stages, Slots
    <3>3. at' \in [Slots -> Stages] /\ at'["user"] = "idle" /\ at'["late"] = at["late"]
      BY <3>1, <3>2, Moved DEF IInv
    <3>4. End(wire)' = accepted
      BY <1>3, <1>4, <1>5, <2>1
    <3>5. UserState' /\ EarlyState'
      BY <1>1, <1>4, <3>1, <3>3 DEF IInv, Flow, UserState, EarlyState
    <3>6. SendState'
      BY <1>2, <1>4, <3>1, <3>3, <3>4 DEF SendState
    <3> QED BY <3>1, <3>3, <3>5, <3>6 DEF Flow
  <2>2. CASE ~(off2' >= accepted)
    <3>1. /\ SendOrWait(ChunkAt(off2', accepted), remoteWin')
          /\ op' = op /\ leaving' = leaving
      BY <2>2 DEF DataWritten
    <3>2. off2' \in Nat /\ off2' < accepted
      BY <1>2, <1>3, <1>4, <2>2
    <3>3. Size(ChunkAt(off2', accepted)) \in Int
      BY <1>2, <3>2, ChunkFits
    <3>4. /\ at' \in [Slots -> Stages] /\ at'["late"] = at["late"]
          /\ at'["user"] \in {"data", "socket"}
          /\ at'["user"] = "data" => Size(ChunkAt(off2', accepted)) <= remoteWin'
          /\ at'["user"] = "socket" => Size(ChunkAt(off2', accepted)) > remoteWin'
      BY <1>5, <3>1, <3>3, WindowDecides DEF IInv
    <3>5. UserState' /\ EarlyState'
      BY <1>1, <1>4, <3>1, <3>4 DEF UserState, EarlyState
    <3>6. End(wire)' = off2' /\ Chunk' = ChunkAt(off2', accepted)
      BY <1>3, <1>4, <1>5, <3>2 DEF Chunk
    <3>7. SendState'
      BY <1>1, <1>2, <1>4, <3>1, <3>2, <3>4, <3>6 DEF SendState
    <3> QED BY <1>1, <3>1, <3>4, <3>5, <3>7 DEF Flow
  <2> QED BY <2>1, <2>2
<1>7. TypeOK'
  BY <1>3, <1>4, <1>5, <1>6 DEF IInv, TypeOK, DataWritten, setupVars, connVars, inVars, serverVars
<1>8. Lines'
  <2>1. GrantLine'
    BY <1>4, <1>5 DEF IInv, Lines, GrantLine
  <2>2. DataLine'
    BY DEF IInv, Lines, DataLine, DataWritten, inVars, serverVars
  <2> QED BY <2>1, <2>2 DEF Lines
<1> QED BY <1>1, <1>3, <1>4, <1>6, <1>7, <1>8 DEF IInv

LEMMA DataRejectedInv ==
  ASSUME IInv, DataRejected
  PROVE  IInv'
<1>1. /\ at["user"] = "data" /\ op = "send" /\ at["late"] = "idle"
      /\ op' = "none" /\ leaving' = TRUE /\ AwaitAt("user", "idle")
  BY DEF IInv, Flow, UserState, DataRejected, Returns
<1>2. "idle" \in Stages /\ "user" \in Slots
  BY DEF Stages, Slots
<1>3. at' \in [Slots -> Stages] /\ at'["user"] = "idle" /\ at'["late"] = "idle"
  BY <1>1, <1>2, Moved DEF IInv
<1>4. TypeOK'
  BY <1>1, <1>3 DEF IInv, TypeOK, DataRejected, setupVars, connVars, outVars, inVars, serverVars
<1>5. Flow'
  <2>1. UserState'
    BY <1>1, <1>3 DEF UserState
  <2>2. EarlyState'
    BY <1>1 DEF IInv, Flow, EarlyState, DataRejected, setupVars, outVars, serverVars
  <2>3. SendState'
    BY <1>1, <1>3 DEF IInv, Flow, SendState, DataRejected, outVars
  <2> QED BY <2>1, <2>2, <2>3 DEF Flow
<1>6. Lines'
  BY LinesStay DEF DataRejected, outVars, inVars, serverVars, lineVars
<1> QED BY <1>4, <1>5, <1>6 DEF IInv

LEMMA StartReadInv ==
  ASSUME IInv, StartRead
  PROVE  IInv'
<1>1. /\ op = "none" /\ ~leaving /\ session = "open" /\ op' = "read" /\ leaving' = leaving
      /\ at["late"] = "idle" /\ AwaitAt("user", "socket")
  BY DEF IInv, Flow, UserState, StartRead
<1>2. "socket" \in Stages /\ "user" \in Slots
  BY DEF Stages, Slots
<1>3. at' \in [Slots -> Stages] /\ at'["user"] = "socket" /\ at'["late"] = "idle"
  BY <1>1, <1>2, Moved DEF IInv
<1>4. TypeOK'
  BY <1>1, <1>3 DEF IInv, TypeOK, StartRead, setupVars, connVars, outVars, inVars, serverVars
<1>5. UserState'
  BY <1>1, <1>3 DEF UserState
<1>6. EarlyState' /\ SendState'
  BY <1>1, <1>3 DEF IInv, Flow, EarlyState, SendState, StartRead, setupVars, outVars
<1>7. Lines'
  BY LinesStay DEF StartRead, outVars, inVars, serverVars, lineVars
<1> QED BY <1>4, <1>5, <1>6, <1>7 DEF IInv, Flow

LEMMA RaceLostInv ==
  ASSUME IInv, RaceLost
  PROVE  IInv'
<1>1. /\ op = "read" /\ op' = "none" /\ ~leaving /\ leaving' = TRUE
      /\ at'["user"] = "idle" /\ at'["late"] = at["user"] /\ at["user"] \notin {"data", "shut"}
  BY DEF IInv, Flow, UserState, RaceLost
<1>2. at' \in [Slots -> Stages] /\ held' \in Span
  BY DEF IInv, TypeOK, RaceLost, Slots, Stages, NoData, Span, Output!Span
<1>3. TypeOK'
  BY <1>1, <1>2 DEF IInv, TypeOK, RaceLost, setupVars, connVars, outVars, inVars, serverVars
<1>4. UserState'
  BY <1>1 DEF UserState
<1>5. EarlyState' /\ SendState'
  BY <1>1 DEF IInv, Flow, EarlyState, SendState, RaceLost, setupVars, outVars, serverVars
<1>6. Lines'
  BY LinesStay DEF RaceLost, outVars, inVars, serverVars, lineVars
<1> QED BY <1>3, <1>4, <1>5, <1>6 DEF IInv, Flow

LEMMA StartCloseInv ==
  ASSUME IInv, StartClose
  PROVE  IInv'
<1>1. op = "none" /\ session = "open" /\ op' = "close" /\ leaving' = leaving
  BY DEF StartClose
<1>2. /\ locked' \in BOOLEAN
      /\ \E what \in {"closing", "shut"} : AwaitAt("user", what)
  <2>1. CASE chClosed
    BY <2>1 DEF StartClose, Releases
  <2>2. CASE ~chClosed
    BY <2>2 DEF StartClose, IInv, TypeOK
  <2> QED BY <2>1, <2>2
<1>3. PICK what \in {"closing", "shut"} : AwaitAt("user", what)
  BY <1>2
<1>4. what \in Stages /\ "user" \in Slots
  BY DEF Stages, Slots
<1>5. at' \in [Slots -> Stages] /\ at'["user"] = what /\ at'["late"] = at["late"]
  BY <1>3, <1>4, Moved DEF IInv
<1>6. TypeOK'
  BY <1>1, <1>2, <1>5 DEF IInv, TypeOK, StartClose, setupVars, outVars, inVars, serverVars
<1>7. UserState'
  BY <1>1, <1>5 DEF IInv, Flow, UserState
<1>8. EarlyState' /\ SendState'
  BY <1>1, <1>5 DEF IInv, Flow, EarlyState, SendState, StartClose, setupVars, outVars
<1>9. Lines'
  BY LinesStay DEF StartClose, outVars, inVars, serverVars, lineVars
<1> QED BY <1>6, <1>7, <1>8, <1>9 DEF IInv, Flow

LEMMA CloseWrittenInv ==
  ASSUME IInv, CloseWritten
  PROVE  IInv'
<1>1. /\ op = "close" /\ op' = op /\ leaving' = leaving
      /\ locked' \in BOOLEAN /\ AwaitAt("user", "shut")
  BY DEF CloseWritten, Releases
<1>2. "shut" \in Stages /\ "user" \in Slots
  BY DEF Stages, Slots
<1>3. at' \in [Slots -> Stages] /\ at'["user"] = "shut" /\ at'["late"] = at["late"]
  BY <1>1, <1>2, Moved DEF IInv
<1>4. TypeOK'
  BY <1>1, <1>3 DEF IInv, TypeOK, CloseWritten, setupVars, outVars, inVars, serverVars
<1>5. UserState'
  BY <1>1, <1>3 DEF IInv, Flow, UserState
<1>6. EarlyState' /\ SendState'
  BY <1>1, <1>3 DEF IInv, Flow, EarlyState, SendState, CloseWritten, setupVars, outVars, serverVars
<1>7. Lines'
  BY LinesStay DEF CloseWritten, outVars, inVars, serverVars, lineVars
<1> QED BY <1>4, <1>5, <1>6, <1>7 DEF IInv, Flow

LEMMA SocketShutInv ==
  ASSUME IInv, SocketShut
  PROVE  IInv'
<1>1. /\ op = "close" /\ op' = "over" /\ leaving' = leaving
      /\ tcp' = "closed" /\ AwaitAt("user", "idle")
  BY DEF IInv, Flow, UserState, SocketShut, Shut
<1>2. "idle" \in Stages /\ "user" \in Slots
  BY DEF Stages, Slots
<1>3. at' \in [Slots -> Stages] /\ at'["user"] = "idle" /\ at'["late"] = at["late"]
  BY <1>1, <1>2, Moved DEF IInv
<1>4. TypeOK'
  BY <1>1, <1>3 DEF IInv, TypeOK, SocketShut, setupVars, outVars, inVars, serverVars
<1>5. UserState'
  BY <1>1, <1>3 DEF IInv, Flow, UserState
<1>6. EarlyState' /\ SendState'
  BY <1>1, <1>3 DEF IInv, Flow, EarlyState, SendState, SocketShut, setupVars, outVars, serverVars
<1>7. Lines'
  BY LinesStay DEF SocketShut, outVars, inVars, serverVars, lineVars
<1> QED BY <1>4, <1>5, <1>6, <1>7 DEF IInv, Flow

-----------------------------------------------------------------------------
(* The packets a call reads.                                               *)

LEMMA ReadDataInv ==
  ASSUME IInv, NEW s \in Slots, ReadData(s)
  PROVE  IInv'
<1> DEFINE data == [lo |-> Head(toWorker).lo, hi |-> Head(toWorker).hi]
<1>1. /\ session = "open" /\ at[s] = "socket"
      /\ Head(toWorker).lo \in Nat /\ Head(toWorker).hi \in Nat
      /\ Head(toWorker).lo <= Head(toWorker).hi
      /\ toWorker' \in Seq(ServerPacket)
      /\ Lies(toWorker', "adjust", End(wire) + remoteWin, granted)
      /\ \A from \in Int : from <= Head(toWorker).hi
           \/ from = produced - (localWinRemaining - credit) => Lies(toWorker', "data", from, produced)
      /\ produced - (localWinRemaining - credit) <= Head(toWorker).lo
      /\ Head(toWorker).hi <= produced
  <2>1. Takes(s, "data") /\ End(wire) + remoteWin \in Int
    BY LineFields DEF ReadData, IInv
  <2> QED BY <2>1, PacketTaken
<1>2. /\ produced \in Nat /\ localWinRemaining \in Nat /\ credit \in Nat
      /\ held \in Span /\ received \in Seq(Span)
  BY DEF IInv, TypeOK
<1>3. data \in Span /\ Size(data) = Head(toWorker).hi - Head(toWorker).lo
  BY <1>1 DEF Span, Output!Span, Size, Output!Size
<1>4. localWinRemaining' = localWinRemaining - Size(data)
  BY DEF ReadData
<1>5. localWinRemaining' \in Nat
  BY <1>1, <1>2, <1>3, <1>4
<1>6. /\ UNCHANGED <<outFrame, remoteWin, granted, produced, credit>>
      /\ UNCHANGED <<takeFrame, outVars, chClosed, replies, dropped, exitStatus>>
  BY DEF ReadData, takeFrame, setupVars, outVars, outFrame
<1>7. /\ at' \in [Slots -> Stages] /\ op' \in {op, "none"} /\ leaving' \in BOOLEAN /\ Flow'
      /\ held' \in Span /\ received' \in Seq(Span)
  <2>1. s = "user" => op = "read"
    BY <1>1 DEF ReadData, WaitsForWindow, IInv, TypeOK, Flow, UserState
  <2>2. CASE RunsLow(localWinRemaining')
    <3>1. Awaits(s, "adjust") /\ held' \in {data, held} /\ received' = received
      BY <2>2 DEF ReadData
    <3>2. at' \in [Slots -> Stages] /\ op' = op /\ leaving' = leaving /\ Flow'
      BY <1>1, <1>6, <2>1, <3>1, CallGoesOn
    <3> QED BY <1>2, <1>3, <3>1, <3>2 DEF IInv, TypeOK
  <2>3. CASE ~RunsLow(localWinRemaining')
    <3>1. CallEnds(s, FALSE) /\ Gives(s, data) /\ held' = held
      BY <2>3 DEF ReadData
    <3>2. at' \in [Slots -> Stages] /\ op' \in {op, "none"} /\ leaving' \in BOOLEAN /\ Flow'
      BY <1>1, <1>6, <2>1, <3>1, CallFinishes
    <3>3. received' \in Seq(Span)
      BY <1>2, <1>3, <3>1, AppendAt DEF Gives
    <3> QED BY <1>2, <3>1, <3>2, <3>3
  <2> QED BY <2>2, <2>3
<1>8. TypeOK'
  BY <1>1, <1>5, <1>6, <1>7
  DEF IInv, TypeOK, ServerPacket, takeFrame, setupVars, connVars, outVars
<1>9. Lines'
  <2>1. GrantLine'
    BY <1>1, <1>6 DEF GrantLine, outFrame
  <2>2. /\ produced - (localWinRemaining' - credit) \in Int
        /\ produced - (localWinRemaining' - credit) <= Head(toWorker).hi
           \/ produced - (localWinRemaining' - credit) = produced - (localWinRemaining - credit)
    BY <1>1, <1>2, <1>3, <1>4, <1>5
  <2>3. DataLine'
    BY <1>1, <1>6, <2>2 DEF DataLine
  <2> QED BY <2>1, <2>3 DEF Lines
<1> QED BY <1>7, <1>8, <1>9 DEF IInv

LEMMA AdjustSettledInv ==
  ASSUME IInv, NEW s \in Slots, AdjustSettled(s)
  PROVE  IInv'
<1>1. /\ at[s] = "adjust" /\ CallEnds(s, FALSE) /\ GivesHeld(s) /\ held' = NoData
      /\ UNCHANGED <<setupVars, connVars, outVars, chClosed, replies, dropped, exitStatus,
                     toWorker, server, produced, asides>>
      /\ UNCHANGED <<outFrame, remoteWin, granted, toWorker, produced>>
  BY DEF AdjustSettled, setupVars, outVars, outFrame
<1>2. /\ produced \in Nat /\ localWinRemaining \in Nat /\ credit \in Nat /\ Refill \in Nat
      /\ held \in Span /\ received \in Seq(Span)
  BY ReadAssumption DEF IInv, TypeOK
<1>3. /\ localWinRemaining' \in Nat /\ credit' \in Nat
      /\ localWinRemaining' - credit' = localWinRemaining - credit
  BY <1>2 DEF AdjustSettled
<1>4. held' \in Span
  BY <1>1 DEF NoData, Span, Output!Span
<1>5. received' \in Seq(Span)
  BY <1>1, <1>2, AppendAt DEF GivesHeld, Gives
<1>6. s = "user" => op = "read"
  BY <1>1 DEF IInv, Flow, UserState
<1>7. at' \in [Slots -> Stages] /\ op' \in {op, "none"} /\ leaving' \in BOOLEAN /\ Flow'
  BY <1>1, <1>6, CallFinishes
<1>8. TypeOK'
  BY <1>1, <1>3, <1>4, <1>5, <1>7 DEF IInv, TypeOK, setupVars, connVars, outVars
<1>9. Lines'
  BY <1>1, <1>3 DEF IInv, Lines, GrantLine, DataLine, outFrame
<1> QED BY <1>7, <1>8, <1>9 DEF IInv

LEMMA DataIgnoredInv ==
  ASSUME IInv, DataIgnored
  PROVE  IInv'
<1>1. "user" \in Slots /\ Takes("user", "data")
  BY DEF Slots, DataIgnored
<1>2. /\ End(wire) + remoteWin \in Int
      /\ produced - (localWinRemaining - credit) \in Int
  BY LineFields DEF IInv
<1>3. /\ session = "open" /\ toWorker' \in Seq(ServerPacket)
      /\ Lies(toWorker', "adjust", End(wire) + remoteWin, granted)
      /\ Lies(toWorker', "data", produced - (localWinRemaining - credit), produced)
  BY <1>1, <1>2, PacketTaken
<1>4. TypeOK'
  BY <1>3 DEF IInv, TypeOK, ServerPacket, DataIgnored, takeFrame, setupVars, connVars, userVars, outVars, inVars
<1>5. Flow'
  BY <1>3, FlowStays DEF DataIgnored, takeFrame, setupVars, userVars, outVars, outFrame
<1>6. Lines'
  BY <1>3 DEF Lines, GrantLine, DataLine, DataIgnored, takeFrame, outVars, inVars
<1> QED BY <1>4, <1>5, <1>6 DEF IInv

LEMMA TakeAdjustInv ==
  ASSUME IInv, NEW s \in Slots, TakeAdjust(s)
  PROVE  IInv'
<1>1. /\ Takes(s, "adjust") /\ remoteWin' = remoteWin + Size(Head(toWorker))
      /\ UNCHANGED <<takeFrame, held, accepted, off2, granted, wire, chClosed, replies, inVars>>
      /\ UNCHANGED <<outFrame, granted, produced, localWinRemaining, credit>>
  BY DEF TakeAdjust, takeFrame, setupVars, outFrame, inVars
<1>2. /\ produced - (localWinRemaining - credit) \in Int
      /\ End(wire) \in Nat /\ remoteWin \in Nat
  BY LineFields DEF IInv
<1>3. /\ session = "open" /\ at[s] = "socket"
      /\ Head(toWorker).lo \in Nat /\ Head(toWorker).hi \in Nat
      /\ Head(toWorker).lo <= Head(toWorker).hi
      /\ toWorker' \in Seq(ServerPacket)
      /\ \A from \in Int : from <= Head(toWorker).hi => Lies(toWorker', "adjust", from, granted)
      /\ Lies(toWorker', "data", produced - (localWinRemaining - credit), produced)
      /\ End(wire) + remoteWin <= Head(toWorker).lo
  BY <1>1, <1>2, PacketTaken
<1>4. /\ remoteWin' \in Nat /\ remoteWin' >= remoteWin
      /\ End(wire) + remoteWin' <= Head(toWorker).hi
  BY <1>1, <1>2, <1>3 DEF Size, Output!Size
<1>5. at' \in [Slots -> Stages] /\ op' = op /\ leaving' = leaving /\ Flow'
  <2>1. CASE WaitsForWindow(s)
    <3>1. /\ s = "user" /\ op = "send" /\ ~leaving /\ off2 \in Nat /\ accepted \in Nat
          /\ off2 < accepted /\ off2 = End(wire) /\ End(wire) <= accepted
      BY <2>1 DEF WaitsForWindow, IInv, TypeOK, Flow, UserState, SendState
    <3>2. SendOrWait(Chunk, remoteWin') /\ op' = op /\ leaving' = leaving
      BY <2>1 DEF TakeAdjust, Rechecked
    <3>3. Size(Chunk) \in Int
      BY <3>1, ChunkFits DEF Chunk
    <3>4. /\ at' \in [Slots -> Stages] /\ at'["late"] = at["late"]
          /\ at'["user"] \in {"data", "socket"}
          /\ at'["user"] = "data" => Size(Chunk) <= remoteWin'
          /\ at'["user"] = "socket" => Size(Chunk) > remoteWin'
      BY <1>4, <3>2, <3>3, WindowDecides DEF IInv
    <3>5. UserState' /\ EarlyState'
      BY <1>1, <1>3, <3>1, <3>2, <3>4 DEF IInv, Flow, UserState, EarlyState, outFrame
    <3>6. Chunk' = Chunk /\ End(wire)' = End(wire)
      BY <1>1 DEF Chunk, outFrame
    <3>7. SendState'
      BY <1>1, <3>1, <3>2, <3>4, <3>6 DEF SendState
    <3> QED BY <3>2, <3>4, <3>5, <3>7 DEF Flow
  <2>2. CASE ~WaitsForWindow(s)
    <3>1. AwaitAt(s, "socket") /\ op' = op /\ leaving' = leaving /\ "socket" \in Stages
      BY <2>2 DEF TakeAdjust, Goes, Stages
    <3>2. /\ at' \in [Slots -> Stages]
          /\ s = "user" => at'["user"] = "socket" /\ at'["late"] = at["late"]
          /\ s = "late" => at'["late"] = "socket" /\ at'["user"] = at["user"]
          /\ s = "user" \/ s = "late"
      BY <3>1, Moved DEF IInv
    <3>3. op # "send"
      BY <1>3, <2>2, <3>2 DEF WaitsForWindow, IInv, Flow, UserState
    <3>4. UserState' /\ EarlyState'
      BY <1>1, <1>3, <3>1, <3>2 DEF IInv, Flow, UserState, EarlyState, outFrame
    <3>5. SendState'
      BY <1>1, <1>3, <3>1, <3>2, <3>3 DEF IInv, Flow, UserState, SendState, outFrame
    <3> QED BY <3>1, <3>2, <3>4, <3>5 DEF Flow
  <2> QED BY <2>1, <2>2
<1>6. TypeOK'
  BY <1>1, <1>3, <1>4, <1>5 DEF IInv, TypeOK, ServerPacket, takeFrame, setupVars, connVars, inVars
<1>7. Lines'
  <2>1. Lies(toWorker', "adjust", End(wire) + remoteWin', granted)
    BY <1>2, <1>3, <1>4
  <2> QED BY <1>1, <1>3, <2>1 DEF Lines, GrantLine, DataLine, outFrame
<1> QED BY <1>5, <1>6, <1>7 DEF IInv

(* A packet that is neither window nor data, after which the call waits    *)
(* for something else, ends, or reads on.                                  *)
LEMMA AsideInv ==
  ASSUME IInv, NEW s \in Slots,
         NEW kind \in {"eof", "close", "request", "exit", "global"}, Takes(s, kind),
         \/ \E what \in {"reply", "closing"} : Awaits(s, what)
         \/ CallEnds(s, TRUE)
         \/ UNCHANGED <<op, leaving, at>>,
         UNCHANGED <<takeFrame, held, outVars, chClosed, localWinRemaining, dropped, received>>,
         replies' \in Nat, exitStatus' \in BOOLEAN
  PROVE  IInv'
<1>1. UNCHANGED <<outFrame, remoteWin, granted, produced, credit>>
  BY DEF takeFrame, setupVars, outVars, outFrame
<1>2. session = "open" /\ at[s] = "socket" /\ toWorker' \in Seq(ServerPacket)
  BY PacketTaken
<1>3. at' \in [Slots -> Stages] /\ op' \in {op, "none"} /\ leaving' \in BOOLEAN /\ Flow'
  <2>1. CASE \E what \in {"reply", "closing"} : Awaits(s, what)
    <3>1. PICK what \in {"reply", "closing"} : Awaits(s, what)
      BY <2>1
    <3>2. at' \in [Slots -> Stages] /\ op' = op /\ leaving' = leaving /\ Flow'
      BY <1>1, <1>2, <3>1, CallGoesOn
    <3> QED BY <3>2 DEF IInv, TypeOK
  <2>2. CASE CallEnds(s, TRUE)
    <3>1. s = "user" => op # "close"
      BY <1>2 DEF IInv, Flow, UserState
    <3> QED BY <1>1, <1>2, <2>2, <3>1, CallFinishes
  <2>3. CASE UNCHANGED <<op, leaving, at>>
    <3>1. Flow'
      BY <1>1, <1>2, <2>3, FlowStays
    <3> QED BY <2>3, <3>1 DEF IInv, TypeOK
  <2> QED BY <2>1, <2>2, <2>3
<1>4. TypeOK'
  BY <1>2, <1>3 DEF IInv, TypeOK, ServerPacket, takeFrame, setupVars, connVars, outVars
<1>5. Lines'
  BY <1>1, AsideTaken DEF outFrame
<1> QED BY <1>3, <1>4, <1>5 DEF IInv

LEMMA TakeEofInv ==
  ASSUME IInv, NEW s \in Slots, TakeEof(s)
  PROVE  IInv'
<1>1. replies' \in Nat /\ exitStatus' \in BOOLEAN
  BY DEF IInv, TypeOK, TakeEof, inVars
<1> QED BY <1>1, AsideInv DEF TakeEof, inVars

LEMMA TakeCloseInv ==
  ASSUME IInv, NEW s \in Slots, TakeClose(s)
  PROVE  IInv'
<1>1. replies' \in Nat /\ exitStatus' \in BOOLEAN
  BY DEF IInv, TypeOK, TakeClose, inVars
<1> QED BY <1>1, AsideInv DEF TakeClose, inVars

LEMMA TakeGlobalInv ==
  ASSUME IInv, NEW s \in Slots, TakeGlobal(s)
  PROVE  IInv'
<1>1. replies' \in Nat /\ exitStatus' \in BOOLEAN
  BY DEF IInv, TypeOK, TakeGlobal, inVars
<1> QED BY <1>1, AsideInv DEF TakeGlobal, inVars

LEMMA TakeRequestInv ==
  ASSUME IInv, NEW s \in Slots, TakeRequest(s)
  PROVE  IInv'
<1>1. replies' \in Nat /\ exitStatus' \in BOOLEAN
  BY DEF IInv, TypeOK, TakeRequest, inVars
<1> QED BY <1>1, AsideInv DEF TakeRequest, userVars, inVars

LEMMA TakeExitStatusInv ==
  ASSUME IInv, NEW s \in Slots, TakeExitStatus(s)
  PROVE  IInv'
<1>1. replies' \in Nat /\ exitStatus' \in BOOLEAN
  BY DEF IInv, TypeOK, TakeExitStatus
<1> QED BY <1>1, AsideInv DEF TakeExitStatus, userVars

-----------------------------------------------------------------------------
(* The ends of a call's own waits.                                         *)

(* A call that waits ends, or goes back to reading.                        *)
LEMMA WaitOverInv ==
  ASSUME IInv, NEW s \in Slots, at[s] \in {"socket", "reply", "closing"},
         s = "user" => op # "close",
         CallEnds(s, TRUE) \/ (at[s] = "reply" /\ Goes(s)),
         UNCHANGED <<setupVars, connVars, held, outVars, replies, inVars, serverVars>>,
         chClosed' \in BOOLEAN
  PROVE  IInv'
<1>1. UNCHANGED <<outFrame, remoteWin, toWorker>>
  BY DEF setupVars, outVars, serverVars, outFrame
<1>2. at' \in [Slots -> Stages] /\ op' \in {op, "none"} /\ leaving' \in BOOLEAN /\ Flow'
  <2>1. CASE CallEnds(s, TRUE)
    BY <1>1, <2>1, CallFinishes
  <2>2. CASE at[s] = "reply" /\ Goes(s)
    <3>1. Awaits(s, "socket")
      BY <2>2 DEF Goes, Awaits
    <3>2. at' \in [Slots -> Stages] /\ op' = op /\ leaving' = leaving /\ Flow'
      BY <1>1, <2>2, <3>1, CallGoesOn
    <3> QED BY <3>2 DEF IInv, TypeOK
  <2> QED BY <2>1, <2>2
<1>3. TypeOK'
  BY <1>2 DEF IInv, TypeOK, setupVars, connVars, outVars, inVars, serverVars
<1>4. Lines'
  BY LinesStay DEF outVars, inVars, serverVars, lineVars
<1> QED BY <1>2, <1>3, <1>4 DEF IInv

LEMMA CloseAnsweredInv ==
  ASSUME IInv, NEW s \in Slots, CloseAnswered(s)
  PROVE  IInv'
  BY WaitOverInv DEF CloseAnswered

LEMMA GlobalAnsweredInv ==
  ASSUME IInv, NEW s \in Slots, GlobalAnswered(s)
  PROVE  IInv'
<1>1. at[s] = "reply" /\ (s = "user" => op # "close") /\ chClosed' \in BOOLEAN
  BY DEF IInv, TypeOK, Flow, UserState, GlobalAnswered
<1> QED BY <1>1, WaitOverInv DEF GlobalAnswered

LEMMA ReadThrowsInv ==
  ASSUME IInv, NEW s \in Slots, ReadThrows(s)
  PROVE  IInv'
<1>1. at[s] = "socket" /\ (s = "user" => op # "close") /\ chClosed' \in BOOLEAN
  BY DEF IInv, TypeOK, Flow, UserState, ReadThrows
<1> QED BY <1>1, WaitOverInv DEF ReadThrows

LEMMA ReplySettledInv ==
  ASSUME IInv, ReplySettled
  PROVE  IInv'
<1>1. TypeOK'
  BY DEF IInv, TypeOK, ReplySettled, setupVars, connVars, userVars, outVars, inVars, serverVars
<1>2. Flow'
  BY FlowStays DEF ReplySettled, setupVars, userVars, outVars, serverVars, outFrame
<1>3. Lines'
  BY LinesStay DEF ReplySettled, outVars, inVars, serverVars, lineVars
<1> QED BY <1>1, <1>2, <1>3 DEF IInv

-----------------------------------------------------------------------------
(* The server.                                                             *)

LEMMA ServerDataInv ==
  ASSUME IInv, NEW n \in DataSizes, ServerData(n)
  PROVE  IInv'
<1> DEFINE p == Packet("data", produced, produced + n)
<1>1. /\ n \in Nat /\ n <= credit
      /\ toWorker \in Seq(ServerPacket) /\ produced \in Nat /\ credit \in Nat
      /\ granted \in Int /\ localWinRemaining \in Nat
      /\ End(wire) + remoteWin \in Int
      /\ produced - (localWinRemaining - credit) \in Int
  BY ReadAssumption, LineFields DEF IInv, ServerData
<1>2. /\ session = "open" /\ toWorker' = Append(toWorker, p)
      /\ credit' = credit - n /\ produced' = produced + n
      /\ UNCHANGED <<serverFrame, granted, server, asides>>
  BY DEF ServerData, ServerSends
<1>3. /\ p \in ServerPacket /\ p.kind = "data" /\ p.lo = produced /\ p.hi = produced + n
  BY <1>1 DEF Packet, ServerPacket
<1> HIDE DEF p
<1>4. toWorker' \in Seq(ServerPacket)
  BY <1>1, <1>2, <1>3, AppendAt
<1>5. TypeOK'
  BY <1>1, <1>2, <1>4 DEF IInv, TypeOK, ServerPacket, serverFrame, setupVars, connVars, userVars, inVars
<1>6. Flow'
  BY <1>2, FlowStays DEF serverFrame, setupVars, userVars, outFrame
<1>7. Lies(toWorker', "adjust", End(wire) + remoteWin, granted)
  BY <1>1, <1>2, <1>3, LiesAppend DEF IInv, Lines, GrantLine
<1>8. Lies(toWorker', "data", produced - (localWinRemaining - credit), produced + n)
  BY <1>1, <1>2, <1>3, LiesAppend DEF IInv, Lines, DataLine
<1>9. /\ produced' - (localWinRemaining' - credit') = produced - (localWinRemaining - credit)
  BY <1>1, <1>2 DEF serverFrame, inVars
<1>10. Lines'
  BY <1>2, <1>7, <1>8, <1>9 DEF Lines, GrantLine, DataLine, serverFrame
<1> QED BY <1>5, <1>6, <1>10 DEF IInv

LEMMA ServerGrantsInv ==
  ASSUME IInv, NEW n \in Grants, ServerGrants(n)
  PROVE  IInv'
<1> DEFINE p == Packet("adjust", granted, granted + n)
<1>1. /\ n \in Nat /\ toWorker \in Seq(ServerPacket) /\ produced \in Nat /\ granted \in Nat
      /\ End(wire) + remoteWin \in Int
      /\ produced - (localWinRemaining - credit) \in Int
  BY SendAssumption, LineFields DEF IInv
<1>2. /\ session = "open" /\ toWorker' = Append(toWorker, p) /\ granted' = granted + n
      /\ UNCHANGED <<serverFrame, server, produced, credit, asides>>
  BY DEF ServerGrants, ServerSends
<1>3. /\ p \in ServerPacket /\ p.kind = "adjust" /\ p.lo = granted /\ p.hi = granted + n
  BY <1>1 DEF Packet, ServerPacket
<1> HIDE DEF p
<1>4. toWorker' \in Seq(ServerPacket)
  BY <1>1, <1>2, <1>3, AppendAt
<1>5. TypeOK'
  BY <1>1, <1>2, <1>4 DEF IInv, TypeOK, ServerPacket, serverFrame, setupVars, connVars, userVars, inVars
<1>6. Flow'
  BY <1>2, FlowStays DEF serverFrame, setupVars, userVars, outFrame
<1>7. Lies(toWorker', "adjust", End(wire) + remoteWin, granted + n)
  BY <1>1, <1>2, <1>3, LiesAppend DEF IInv, Lines, GrantLine
<1>8. Lies(toWorker', "data", produced - (localWinRemaining - credit), produced)
  BY <1>1, <1>2, <1>3, LiesAppend DEF IInv, Lines, DataLine
<1>9. Lines'
  BY <1>2, <1>7, <1>8 DEF Lines, GrantLine, DataLine, serverFrame, inVars
<1> QED BY <1>5, <1>6, <1>9 DEF IInv

(* The server sends a packet that is neither window nor data.              *)
LEMMA ServerAsideInv ==
  ASSUME IInv, NEW kind \in {"eof", "close", "request", "exit", "global"},
         ServerSends(Packet(kind, 0, 0)),
         UNCHANGED <<serverFrame, granted, produced, credit>>,
         server' \in {"open", "eof", "closing"}, asides' \in Nat
  PROVE  IInv'
<1> DEFINE p == Packet(kind, 0, 0)
<1>1. /\ toWorker \in Seq(ServerPacket) /\ produced \in Int /\ granted \in Int
      /\ End(wire) + remoteWin \in Int
      /\ produced - (localWinRemaining - credit) \in Int
  BY LineFields DEF IInv
<1>2. session = "open" /\ toWorker' = Append(toWorker, p)
  BY DEF ServerSends
<1>3. p \in ServerPacket /\ p.kind \notin {"adjust", "data"}
  BY DEF Packet, ServerPacket
<1> HIDE DEF p
<1>4. toWorker' \in Seq(ServerPacket)
  BY <1>1, <1>2, <1>3, AppendAt
<1>5. TypeOK'
  BY <1>4 DEF IInv, TypeOK, ServerPacket, serverFrame, setupVars, connVars, userVars, inVars
<1>6. Flow'
  BY <1>2, FlowStays DEF serverFrame, setupVars, userVars, outFrame
<1>7. /\ Lies(toWorker', "adjust", End(wire) + remoteWin, granted)
      /\ Lies(toWorker', "data", produced - (localWinRemaining - credit), produced)
  BY <1>1, <1>2, <1>3, LiesAppend DEF IInv, Lines, GrantLine, DataLine
<1>8. Lines'
  BY <1>7 DEF Lines, GrantLine, DataLine, serverFrame, inVars
<1> QED BY <1>5, <1>6, <1>8 DEF IInv

LEMMA ServerAsksInv ==
  ASSUME IInv, NEW kind \in {"request", "exit", "global"}, ServerAsks(kind)
  PROVE  IInv'
<1>1. server' \in {"open", "eof", "closing"} /\ asides' \in Nat
  BY DEF IInv, TypeOK, ServerAsks
<1> QED BY <1>1, ServerAsideInv DEF ServerAsks

LEMMA ServerEndsInv ==
  ASSUME IInv, ServerEnds \/ ServerCloses
  PROVE  IInv'
<1>1. server' \in {"open", "eof", "closing"} /\ asides' \in Nat
  BY DEF IInv, TypeOK, ServerEnds, ServerCloses
<1> QED BY <1>1, ServerAsideInv DEF ServerEnds, ServerCloses

LEMMA ConnectionEndsInv ==
  ASSUME IInv, ConnectionEnds
  PROVE  IInv'
<1>1. TypeOK'
  BY DEF IInv, TypeOK, ConnectionEnds, setupVars, userVars, outVars, inVars, serverVars
<1>2. Flow'
  BY FlowStays DEF ConnectionEnds, setupVars, userVars, outVars, serverVars, outFrame
<1>3. Lines'
  BY LinesStay DEF ConnectionEnds, outVars, inVars, serverVars, lineVars
<1> QED BY <1>1, <1>2, <1>3 DEF IInv

LEMMA StutterInv ==
  ASSUME IInv, UNCHANGED vars
  PROVE  IInv'
<1>1. TypeOK'
  BY DEF IInv, TypeOK, vars, setupVars, connVars, userVars, outVars, inVars, serverVars
<1>2. Flow'
  BY FlowStays DEF vars, setupVars, userVars, outVars, serverVars, outFrame
<1>3. Lines'
  BY LinesStay DEF vars, outVars, inVars, serverVars, lineVars
<1> QED BY <1>1, <1>2, <1>3 DEF IInv

-----------------------------------------------------------------------------
LEMMA Inductive ==
  IInv /\ [Next]_vars => IInv'
<1> SUFFICES ASSUME IInv, [Next]_vars PROVE IInv'
  OBVIOUS
<1>1. CASE Setup
  BY <1>1, SetupAnswerInv, SetupAdjustInv, SetupThrowsInv DEF Setup
<1>2. CASE User
  BY <1>2, StartSendInv, StartReadInv, StartCloseInv, RaceLostInv DEF User
<1>3. ASSUME NEW s \in Slots, CallStep(s) PROVE IInv'
  BY <1>3, ReadDataInv, TakeAdjustInv, TakeEofInv, TakeCloseInv, TakeRequestInv,
     TakeExitStatusInv, TakeGlobalInv, AdjustSettledInv, CloseAnsweredInv,
     GlobalAnsweredInv, ReadThrowsInv
  DEF CallStep
<1>4. CASE WorkerStep
  <2>1. "user" \in Slots /\ "late" \in Slots
    BY DEF Slots
  <2> QED
    BY <1>3, <1>4, <2>1, DataWrittenInv, DataRejectedInv, DataIgnoredInv,
       CloseWrittenInv, SocketShutInv, ReplySettledInv
    DEF WorkerStep, UserCallStep, LateReadStep
<1>5. CASE Environment
  BY <1>5, ServerDataInv, ServerGrantsInv, ServerAsksInv, ServerEndsInv, ConnectionEndsInv
  DEF Environment
<1>6. CASE UNCHANGED vars
  BY <1>6, StutterInv
<1> QED BY <1>1, <1>2, <1>4, <1>5, <1>6 DEF Next

LEMMA Invariance == Spec => []IInv
<1>1. Init => IInv
  BY InitInv
<1>2. IInv /\ [Next]_vars => IInv'
  BY Inductive
<1> QED BY <1>1, <1>2, PTL DEF Spec

(* Every variable of openSSHSubsystem keeps its type; in particular neither *)
(* window is ever negative.                                                *)
THEOREM TypeCorrect == Spec => []TypeOK
<1>1. IInv => TypeOK
  BY DEF IInv
<1> QED BY <1>1, Invariance, PTL

(* sendChannelData stays within the window the server granted, whichever   *)
(* call reads the adjustments, and waits only while its chunk does not fit. *)
THEOREM WindowIsRespected == Spec => []WindowRespected
<1>1. IInv => WindowRespected
  <2> SUFFICES ASSUME IInv PROVE WindowRespected
    OBVIOUS
  <2>1. /\ End(wire) \in Nat /\ remoteWin \in Nat /\ granted \in Nat
        /\ End(wire) + remoteWin <= granted
    BY LineFields DEF IInv, Lines, GrantLine, Lies
  <2>2. ASSUME at["user"] = "data" PROVE Chunk.hi <= granted
    <3>1. off2 = End(wire) /\ off2 < accepted /\ Size(Chunk) <= remoteWin
      BY <2>2 DEF IInv, Flow, UserState, SendState
    <3>2. off2 \in Nat /\ accepted \in Nat
      BY DEF IInv, TypeOK
    <3>3. Chunk.hi \in Nat /\ Size(Chunk) = Chunk.hi - off2
      BY <3>1, <3>2, ChunkFits DEF Chunk
    <3> QED BY <2>1, <3>1, <3>3
  <2> QED BY <2>1, <2>2 DEF WindowRespected, IInv, Flow, SendState
<1> QED BY <1>1, Invariance, PTL

(* However the packet limits and the window cut it, the server is given a  *)
(* prefix of what sendChannelData accepted, in order: a ByteStream.        *)
THEOREM OutputRefinement == Spec => OutputIsStream
<1>1. Init => Output!Init
  BY DEF Init, Output!Init
<1>2. IInv /\ [Next]_vars => [Output!Next]_(Output!svars)
  <2> SUFFICES ASSUME IInv, [Next]_vars PROVE [Output!Next]_(Output!svars)
    OBVIOUS
  <2> USE DEF Output!Next, Output!svars
  <2>1. ASSUME NEW n \in SendSizes, StartSend(n) PROVE Output!Write
    <3>1. accepted' \in Nat /\ accepted' >= accepted
      BY <2>1, SendAssumption DEF StartSend, IInv, TypeOK
    <3> QED BY <2>1, <3>1 DEF StartSend, connVars, Output!Write
  <2>2. CASE DataWritten
    <3>1. /\ Chunk \in Span /\ Chunk.lo = End(wire) /\ Chunk.lo < Chunk.hi
          /\ Chunk.hi <= accepted /\ wire' = Append(wire, Chunk)
      BY <2>2, DataWrittenInv
    <3>2. accepted \in Nat /\ End(wire) \in Nat
      BY LineFields DEF IInv, TypeOK
    <3>3. Chunk.hi \in Nat /\ Chunk = [lo |-> Chunk.lo, hi |-> Chunk.hi]
      BY <3>1 DEF Span, Output!Span
    <3> DEFINE n == Chunk.hi - End(wire)
    <3>4. n \in 0 .. (accepted - End(wire)) /\ Chunk.hi = End(wire) + n
      BY <3>1, <3>2, <3>3
    <3>5. wire' = Append(wire, [lo |-> End(wire), hi |-> End(wire) + n])
      BY <3>1, <3>3, <3>4
    <3>6. tcp = "open" /\ UNCHANGED <<accepted, tcp>>
      BY <2>2 DEF DataWritten, connVars
    <3> HIDE DEF n
    <3> QED BY <3>4, <3>5, <3>6 DEF Output!Deliver, End
  <2>3. ASSUME UNCHANGED <<accepted, wire>>, tcp' = tcp \/ tcp' # "open"
        PROVE  [Output!Next]_(Output!svars)
    BY <2>3 DEF Output!Cut
  <2>4. CASE Setup
    BY <2>3, <2>4 DEF Setup, SetupAnswer, SetupAdjust, SetupThrows, connVars, outVars
  <2>5. CASE StartRead \/ StartClose \/ RaceLost
    BY <2>3, <2>5 DEF StartRead, StartClose, RaceLost, connVars, outVars
  <2>6. CASE DataRejected \/ DataIgnored \/ CloseWritten \/ SocketShut \/ ReplySettled
    BY <2>3, <2>6 DEF DataRejected, DataIgnored, CloseWritten, SocketShut, ReplySettled,
                      Shut, takeFrame, connVars, outVars
  <2>7. ASSUME NEW s \in Slots, CallStep(s) PROVE UNCHANGED <<accepted, wire, tcp>>
    BY <2>7 DEF CallStep, ReadData, TakeAdjust, TakeEof, TakeClose, TakeRequest,
                TakeExitStatus, TakeGlobal, AdjustSettled, CloseAnswered, GlobalAnswered,
                ReadThrows, takeFrame, connVars, outVars
  <2>8. CASE CallStep("user") \/ CallStep("late")
    BY <2>3, <2>7, <2>8 DEF Slots
  <2>9. CASE Environment
    BY <2>3, <2>9 DEF Environment, ServerData, ServerGrants, ServerAsks, ServerEnds,
                      ServerCloses, ConnectionEnds, serverFrame, connVars, outVars
  <2>10. CASE UNCHANGED vars
    BY <2>10 DEF vars, connVars, outVars
  <2> QED
    BY <2>1, <2>2, <2>4, <2>5, <2>6, <2>8, <2>9, <2>10
    DEF Next, User, WorkerStep, UserCallStep, LateReadStep
<1> QED BY <1>1, <1>2, Invariance, PTL DEF Spec, OutputIsStream, Output!Spec

-----------------------------------------------------------------------------
(* The other direction, until a send drops what it reads.                  *)

(* The data packets of a list follow one another, without a gap, between   *)
(* two numbers.                                                            *)
Follows(list, from, to) ==
  /\ \A i \in 1 .. Len(list) : list[i].kind = "data" =>
       \/ list[i].lo = from
       \/ \E j \in 1 .. Len(list) : j < i /\ list[j].kind = "data" /\ list[j].hi = list[i].lo
  /\ from = to \/ \E i \in 1 .. Len(list) : list[i].kind = "data" /\ list[i].hi = to

(* Where the next packet that a read finds has to begin.                   *)
Awaited == IF at["user"] = "adjust" THEN held.hi ELSE End(received)

(* Until a call fails or is given up, or a send drops data, what is in     *)
(* transit goes on where the user's reads have come to.                    *)
InInv ==
  /\ tcp = "closed" => op = "over"
  /\ ~leaving /\ ~dropped => Follows(toWorker, Awaited, produced)
  /\ at["user"] = "adjust" /\ ~dropped =>
       held.lo = End(received) /\ held.lo <= held.hi /\ held.hi <= produced

LEMMA FollowsTail ==
  ASSUME NEW s \in Seq(ServerPacket), s # <<>>, NEW from \in Nat, NEW to \in Nat,
         NEW low \in Int, Lies(s, "data", low, to), Follows(s, from, to)
  PROVE  /\ s[1].kind # "data" => Follows(Tail(s), from, to)
         /\ s[1].kind = "data" => s[1].lo = from /\ Follows(Tail(s), s[1].hi, to)
<1>1. \A i \in 1 .. Len(s) : s[i].lo \in Nat /\ s[i].hi \in Nat
  BY PacketFields
<1>2. /\ Len(s) \in Nat \ {0} /\ Len(Tail(s)) = Len(s) - 1
      /\ \A i \in 1 .. Len(s) - 1 : Tail(s)[i] = s[i + 1]
  BY TailAt
<1> DEFINE more == IF s[1].kind = "data" THEN s[1].hi ELSE from
<1>3. s[1].kind = "data" => s[1].lo = from /\ from <= more /\ more <= to
  BY <1>1, <1>2 DEF Lies, Follows
<1>4. more \in Nat /\ (s[1].kind # "data" => more = from)
  BY <1>1, <1>2
<1>5. ASSUME NEW i \in 1 .. Len(Tail(s)), Tail(s)[i].kind = "data", Tail(s)[i].lo # more
      PROVE  \E j \in 1 .. Len(Tail(s)) :
               j < i /\ Tail(s)[j].kind = "data" /\ Tail(s)[j].hi = Tail(s)[i].lo
  <2>1. Tail(s)[i] = s[i + 1] /\ i + 1 \in 2 .. Len(s) /\ s[i + 1].lo # more
    BY <1>2, <1>5
  <2>2. s[i + 1].lo # from
    BY <1>1, <1>2, <1>3, <1>4, <1>5, <2>1 DEF Lies
  <2>3. PICK k \in 1 .. Len(s) : k < i + 1 /\ s[k].kind = "data" /\ s[k].hi = s[i + 1].lo
    BY <1>2, <1>5, <2>1, <2>2 DEF Follows
  <2>4. k # 1
    BY <1>5, <2>1, <2>3
  <2>5. k - 1 \in 1 .. Len(Tail(s)) /\ k - 1 < i /\ Tail(s)[k - 1] = s[k]
    BY <1>2, <2>3, <2>4
  <2> QED BY <2>1, <2>3, <2>5
<1>6. more = to \/ \E i \in 1 .. Len(Tail(s)) : Tail(s)[i].kind = "data" /\ Tail(s)[i].hi = to
  <2>1. CASE from = to
    BY <1>1, <1>2, <1>3, <1>4, <2>1
  <2>2. CASE from # to
    <3>1. PICK k \in 1 .. Len(s) : s[k].kind = "data" /\ s[k].hi = to
      BY <2>2 DEF Follows
    <3>2. CASE k = 1
      BY <3>1, <3>2
    <3>3. CASE k # 1
      <4>1. k - 1 \in 1 .. Len(Tail(s)) /\ Tail(s)[k - 1] = s[k]
        BY <1>2, <3>3
      <4> QED BY <3>1, <4>1
    <3> QED BY <3>2, <3>3
  <2> QED BY <2>1, <2>2
<1>7. Follows(Tail(s), more, to)
  BY <1>5, <1>6 DEF Follows
<1> QED BY <1>3, <1>4, <1>7

LEMMA FollowsAppend ==
  ASSUME NEW s \in Seq(ServerPacket), NEW x \in ServerPacket, NEW from \in Nat,
         NEW to \in Nat, Follows(s, from, to)
  PROVE  /\ x.kind # "data" => Follows(Append(s, x), from, to)
         /\ x.kind = "data" /\ x.lo = to => Follows(Append(s, x), from, x.hi)
<1> DEFINE t == Append(s, x)
<1>1. /\ Len(s) \in Nat /\ Len(t) = Len(s) + 1 /\ t[Len(s) + 1] = x
      /\ \A i \in 1 .. Len(s) : t[i] = s[i]
  BY AppendAt
<1> HIDE DEF t
<1>2. ASSUME NEW i \in 1 .. Len(s), t[i].kind = "data", t[i].lo # from
      PROVE  \E j \in 1 .. Len(t) : j < i /\ t[j].kind = "data" /\ t[j].hi = t[i].lo
  <2>1. PICK j \in 1 .. Len(s) : j < i /\ s[j].kind = "data" /\ s[j].hi = s[i].lo
    BY <1>1, <1>2 DEF Follows
  <2>2. j \in 1 .. Len(t)
    BY <1>1
  <2> QED BY <1>1, <2>1, <2>2
<1>3. from = to \/ \E i \in 1 .. Len(s) : i \in 1 .. Len(t) /\ t[i].kind = "data" /\ t[i].hi = to
  <2>1. 1 .. Len(s) \subseteq 1 .. Len(t)
    BY <1>1
  <2> QED BY <1>1, <2>1 DEF Follows
<1>4. \A i \in 1 .. Len(t) : i \in 1 .. Len(s) \/ i = Len(s) + 1
  BY <1>1
<1>5. CASE x.kind # "data"
  <2>1. \A i \in 1 .. Len(t) : t[i].kind = "data" => i \in 1 .. Len(s)
    BY <1>1, <1>4, <1>5
  <2>2. Follows(t, from, to)
    BY <1>2, <1>3, <2>1 DEF Follows
  <2> QED BY <1>5, <2>2 DEF t
<1>6. CASE x.kind = "data" /\ x.lo = to
  <2>1. Len(s) + 1 \in 1 .. Len(t) /\ \A i \in 1 .. Len(s) : i < Len(s) + 1
    BY <1>1
  <2>2. t[Len(s) + 1].lo # from =>
          \E j \in 1 .. Len(t) : j < Len(s) + 1 /\ t[j].kind = "data" /\ t[j].hi = t[Len(s) + 1].lo
    BY <1>1, <1>3, <1>6, <2>1
  <2>3. \A i \in 1 .. Len(t) : t[i].kind = "data" =>
          \/ t[i].lo = from
          \/ \E j \in 1 .. Len(t) : j < i /\ t[j].kind = "data" /\ t[j].hi = t[i].lo
    BY <1>2, <1>4, <2>2
  <2>4. \E i \in 1 .. Len(t) : t[i].kind = "data" /\ t[i].hi = x.hi
    BY <1>1, <1>6, <2>1
  <2>5. Follows(t, from, x.hi)
    BY <2>3, <2>4 DEF Follows
  <2> QED BY <1>6, <2>5 DEF t
<1>7. CASE x.kind = "data" /\ x.lo # to
  BY <1>7
<1> QED BY <1>5, <1>6, <1>7

(* A step that leaves alone what the user's reads have come to.            *)
LEMMA InStays ==
  ASSUME IInv, InInv, UNCHANGED <<produced, received>>,
         Follows(toWorker, Awaited, produced) => Follows(toWorker', Awaited, produced),
         tcp' = "closed" => tcp = "closed" \/ op' = "over",
         op = "over" => op' = "over",
         ~leaving' => ~leaving,
         dropped => dropped',
         at'["user"] = "adjust" => at["user"] = "adjust",
         at["user"] = "adjust" => IF at'["user"] = "adjust" THEN held' = held ELSE leaving'
  PROVE  InInv'
<1>1. at'["user"] = "adjust" => held' = held
  OBVIOUS
<1>2. ~leaving' => Awaited' = Awaited
  BY <1>1 DEF Awaited
<1> QED BY <1>1, <1>2 DEF InInv

(* A read that was left behind does not matter any more.                   *)
LEMMA LateStays ==
  ASSUME IInv, InInv, CallStep("late")
  PROVE  InInv'
<1>1. "late" \in Slots /\ at["late"] # "idle"
  BY DEF Slots, CallStep, ReadData, TakeAdjust, TakeEof, TakeClose, TakeRequest,
         TakeExitStatus, TakeGlobal, AdjustSettled, CloseAnswered, GlobalAnswered,
         ReadThrows, Takes
<1>2. leaving /\ op \notin {"send", "read"} /\ at["user"] # "adjust"
  BY <1>1 DEF IInv, Flow, UserState
<1>3. op' = op /\ leaving' = leaving /\ tcp' = tcp /\ at'["user"] = at["user"]
  <2>1. \/ UNCHANGED <<op, leaving, at>>
        \/ UNCHANGED <<op, leaving>> /\ \E what \in Stages : AwaitAt("late", what)
    BY DEF CallStep, ReadData, TakeAdjust, TakeEof, TakeClose, TakeRequest,
           TakeExitStatus, TakeGlobal, AdjustSettled, CloseAnswered, GlobalAnswered,
           ReadThrows, WaitsForWindow, Awaits, Goes, CallEnds, userVars, Stages
  <2>2. at'["user"] = at["user"]
    BY <1>1, <2>1, Moved DEF IInv
  <2>3. tcp' = tcp
    BY DEF CallStep, ReadData, TakeAdjust, TakeEof, TakeClose, TakeRequest,
           TakeExitStatus, TakeGlobal, AdjustSettled, CloseAnswered, GlobalAnswered,
           ReadThrows, takeFrame, connVars
  <2> QED BY <2>1, <2>2, <2>3
<1> QED BY <1>2, <1>3 DEF InInv

(* Nor does a packet that brings no data.                                  *)
LEMMA UserAside ==
  ASSUME IInv, InInv,
         \/ TakeAdjust("user") \/ TakeEof("user") \/ TakeClose("user")
         \/ TakeRequest("user") \/ TakeExitStatus("user") \/ TakeGlobal("user")
  PROVE  InInv'
<1>1. "user" \in Slots /\ at["user"] = "socket"
  BY DEF Slots, TakeAdjust, TakeEof, TakeClose, TakeRequest, TakeExitStatus, TakeGlobal, Takes
<1>2. PICK kind \in {"adjust", "eof", "close", "request", "exit", "global"} : Takes("user", kind)
  BY DEF TakeAdjust, TakeEof, TakeClose, TakeRequest, TakeExitStatus, TakeGlobal
<1>3. /\ toWorker # <<>> /\ Head(toWorker).kind = kind /\ toWorker' = Tail(toWorker)
      /\ tcp # "closed"
  BY <1>2 DEF Takes
<1>4. /\ toWorker \in Seq(ServerPacket) /\ produced \in Nat /\ Awaited \in Nat
      /\ produced - (localWinRemaining - credit) \in Int
      /\ Lies(toWorker, "data", produced - (localWinRemaining - credit), produced)
  <2>1. End(received) \in Nat
    BY EndNat DEF IInv, TypeOK
  <2> QED
    BY <1>1, <2>1, LineFields DEF IInv, TypeOK, Lines, DataLine, Awaited
<1>5. toWorker[1].kind # "data"
  BY <1>3, <1>4, TailAt
<1>6. Follows(toWorker, Awaited, produced) => Follows(toWorker', Awaited, produced)
  BY <1>3, <1>4, <1>5, FollowsTail
<1>7. op \in {"send", "read"} /\ ~leaving
  BY <1>1 DEF IInv, TypeOK, Flow, UserState
<1>8. /\ \/ UNCHANGED at
         \/ \E what \in {"idle", "socket", "data", "closing", "reply"} : AwaitAt("user", what)
      /\ op' \in {op, "none"} /\ UNCHANGED <<tcp, produced, received, dropped>>
  BY DEF TakeAdjust, TakeEof, TakeClose, TakeRequest, TakeExitStatus, TakeGlobal,
         WaitsForWindow, Rechecked, SendOrWait, Goes, Awaits, CallEnds, Returns, takeFrame,
         connVars, userVars, inVars
<1>9. at'["user"] # "adjust"
  <2>1. CASE UNCHANGED at
    BY <1>1, <2>1
  <2>2. CASE \E what \in {"idle", "socket", "data", "closing", "reply"} : AwaitAt("user", what)
    <3>1. PICK what \in {"idle", "socket", "data", "closing", "reply"} : AwaitAt("user", what)
      BY <2>2
    <3>2. at'["user"] = what
      BY <1>1, <3>1, Moved DEF IInv, Stages
    <3> QED BY <3>2
  <2> QED BY <1>8, <2>1, <2>2
<1> QED BY <1>1, <1>3, <1>6, <1>7, <1>8, <1>9, InStays

(* The data a read takes begins where the reads before it ended.           *)
LEMMA UserReads ==
  ASSUME IInv, InInv, ReadData("user"), ~dropped
  PROVE  /\ InInv'
         /\ \/ UNCHANGED received
            \/ \E data \in Span : /\ data.lo = End(received) /\ data.lo <= data.hi
                                  /\ data.hi <= produced /\ tcp # "closed"
                                  /\ received' = Append(received, data)
<1> DEFINE data == [lo |-> Head(toWorker).lo, hi |-> Head(toWorker).hi]
<1>1. /\ "user" \in Slots /\ at["user"] = "socket" /\ Takes("user", "data")
      /\ toWorker # <<>> /\ Head(toWorker).kind = "data" /\ toWorker' = Tail(toWorker)
      /\ tcp # "closed"
  BY DEF Slots, ReadData, Takes
<1>2. op = "read" /\ ~leaving
  BY <1>1 DEF ReadData, WaitsForWindow, IInv, TypeOK, Flow, UserState
<1>3. /\ toWorker \in Seq(ServerPacket) /\ produced \in Nat /\ Awaited = End(received)
      /\ End(received) \in Nat /\ received \in Seq(Span)
      /\ produced - (localWinRemaining - credit) \in Int
      /\ Lies(toWorker, "data", produced - (localWinRemaining - credit), produced)
  <2>1. End(received) \in Nat /\ received \in Seq(Span)
    BY EndNat DEF IInv, TypeOK
  <2> QED
    BY <1>1, <2>1, LineFields DEF IInv, TypeOK, Lines, DataLine, Awaited
<1>4. /\ Head(toWorker) = toWorker[1] /\ toWorker[1].lo \in Nat /\ toWorker[1].hi \in Nat
      /\ toWorker[1].lo <= toWorker[1].hi /\ toWorker[1].hi <= produced
  <2>1. Head(toWorker) = toWorker[1] /\ 1 \in 1 .. Len(toWorker)
    BY <1>1, <1>3, TailAt
  <2> QED BY <1>1, <1>3, <2>1, PacketFields DEF Lies
<1>5. toWorker[1].lo = End(received) /\ Follows(toWorker', toWorker[1].hi, produced)
  BY <1>1, <1>2, <1>3, <1>4, FollowsTail DEF InInv
<1>6. /\ data \in Span /\ data.lo = End(received) /\ data.lo <= data.hi /\ data.hi <= produced
      /\ data.hi = toWorker[1].hi
  BY <1>4, <1>5 DEF Span, Output!Span
<1>7. UNCHANGED <<tcp, produced, dropped>>
  BY DEF ReadData, takeFrame, connVars
<1>8. CASE RunsLow(localWinRemaining')
  <2>1. /\ AwaitAt("user", "adjust") /\ "adjust" \in Stages /\ held' = data
        /\ UNCHANGED <<op, leaving, received>>
    BY <1>8 DEF ReadData, Awaits, Stages
  <2>2. at'["user"] = "adjust"
    BY <1>1, <2>1, Moved DEF IInv
  <2>3. Awaited' = toWorker[1].hi
    BY <1>6, <2>1, <2>2 DEF Awaited
  <2>4. held'.lo = End(received)' /\ held'.lo <= held'.hi /\ held'.hi <= produced'
    BY <1>6, <1>7, <2>1
  <2>5. InInv'
    BY <1>1, <1>2, <1>5, <1>7, <2>1, <2>2, <2>3, <2>4 DEF InInv
  <2> QED BY <2>1, <2>5
<1>9. CASE ~RunsLow(localWinRemaining')
  <2>1. /\ AwaitAt("user", "idle") /\ "idle" \in Stages /\ op' = "none"
        /\ received' = Append(received, data)
    BY <1>9 DEF ReadData, CallEnds, Returns, Gives, Stages
  <2>2. at'["user"] = "idle"
    BY <1>1, <2>1, Moved DEF IInv
  <2>3. End(received)' = toWorker[1].hi
    BY <1>3, <1>6, <2>1, EndAppend
  <2>4. Awaited' = toWorker[1].hi
    BY <2>2, <2>3 DEF Awaited
  <2>5. InInv'
    BY <1>1, <1>2, <1>5, <1>7, <2>1, <2>2, <2>4 DEF InInv
  <2> QED BY <1>1, <1>6, <2>1, <2>5
<1> QED BY <1>8, <1>9

LEMMA UserAdjusts ==
  ASSUME IInv, InInv, AdjustSettled("user"), ~dropped
  PROVE  /\ InInv'
         /\ held \in Span /\ held.lo = End(received) /\ held.lo <= held.hi
         /\ held.hi <= produced /\ tcp # "closed" /\ received' = Append(received, held)
<1>1. /\ "user" \in Slots /\ at["user"] = "adjust" /\ op = "read" /\ ~leaving
      /\ received' = Append(received, held) /\ op' = "none" /\ leaving' = FALSE
      /\ AwaitAt("user", "idle") /\ "idle" \in Stages
      /\ UNCHANGED <<tcp, toWorker, produced, dropped>>
  BY DEF Slots, AdjustSettled, IInv, Flow, UserState, CallEnds, Returns, GivesHeld, Gives,
         Stages, connVars
<1>2. at'["user"] = "idle"
  BY <1>1, Moved DEF IInv
<1>3. held \in Span /\ received \in Seq(Span)
  BY DEF IInv, TypeOK
<1>4. End(received)' = held.hi
  BY <1>1, <1>3, EndAppend
<1>5. Awaited = held.hi /\ Awaited' = held.hi
  BY <1>1, <1>2, <1>4 DEF Awaited
<1> QED BY <1>1, <1>2, <1>3, <1>5 DEF InInv

(* Once a send has dropped data there is nothing more to show.             *)
LEMMA DroppedStays ==
  ASSUME IInv, InInv, dropped, ReadData("user") \/ AdjustSettled("user")
  PROVE  InInv' /\ UNCHANGED received
<1>1. tcp # "closed"
  BY DEF ReadData, Takes, AdjustSettled, IInv, Flow, UserState, InInv
<1>2. UNCHANGED <<dropped, tcp, received>>
  BY DEF ReadData, AdjustSettled, Gives, GivesHeld, connVars, takeFrame
<1> QED BY <1>1, <1>2 DEF InInv

LEMMA InInitially == Init => InInv
<1>1. ASSUME Init PROVE InInv
  <2>1. wire = <<>> /\ received = <<>> /\ toWorker = <<>> /\ produced = 0 /\ at["user"] = "idle"
    BY <1>1 DEF Init, Slots
  <2>2. Len(toWorker) = 0 /\ Awaited = 0
    BY <2>1, EmptyLists, EmptySeq DEF Awaited
  <2>3. Follows(toWorker, Awaited, produced)
    BY <2>1, <2>2 DEF Follows
  <2> QED BY <1>1, <2>1, <2>3 DEF Init, InInv
<1> QED BY <1>1

LEMMA InInductive ==
  ASSUME IInv, InInv, [Next]_vars
  PROVE  InInv'
<1>0. "user" \in Slots /\ "late" \in Slots
  BY DEF Slots
<1>1. CASE Setup
  BY <1>1, InStays DEF Setup, SetupAnswer, SetupAdjust, SetupThrows, connVars, userVars,
                       inVars, serverVars, InInv
<1>2. ASSUME NEW n \in SendSizes, StartSend(n) PROVE InInv'
  <2>1. op = "none" /\ op' = "send"
    BY <1>2 DEF StartSend
  <2>2. at["user"] # "adjust"
    BY <2>1 DEF IInv, Flow, UserState
  <2>3. \E what \in {"data", "socket"} : AwaitAt("user", what)
    BY <1>2 DEF StartSend, SendOrWait
  <2>4. at'["user"] # "adjust"
    BY <1>0, <2>3, Moved DEF IInv, Stages
  <2> QED BY <1>2, <2>1, <2>2, <2>4, InStays DEF StartSend, connVars, inVars, serverVars
<1>3. CASE StartRead \/ RaceLost
  <2>1. CASE StartRead
    <3>1. op = "none" /\ at["user"] # "adjust"
      BY <2>1 DEF StartRead, IInv, Flow, UserState
    <3>2. at'["user"] = "socket"
      BY <1>0, <2>1, Moved DEF StartRead, IInv, Stages
    <3> QED BY <2>1, <3>1, <3>2, InStays DEF StartRead, connVars, inVars, serverVars
  <2>2. CASE RaceLost
    <3>1. at'["user"] = "idle" /\ op = "read" /\ op' = "none" /\ leaving'
      BY <2>2 DEF RaceLost
    <3> QED BY <2>2, <3>1, InStays DEF RaceLost, connVars, inVars, serverVars
  <2> QED BY <1>3, <2>1, <2>2
<1>4. CASE StartClose \/ CloseWritten \/ SocketShut
  <2>1. op \in {"none", "close"} /\ at["user"] # "adjust"
    BY <1>4 DEF StartClose, CloseWritten, SocketShut, IInv, Flow, UserState
  <2>2. \E what \in {"closing", "shut", "idle"} : AwaitAt("user", what)
    BY <1>4 DEF StartClose, CloseWritten, SocketShut, Releases
  <2>3. at'["user"] # "adjust"
    BY <1>0, <2>2, Moved DEF IInv, Stages
  <2>4. /\ op' \in {"close", "over"} /\ (tcp' = tcp \/ op' = "over")
        /\ UNCHANGED <<produced, received, toWorker, leaving, dropped>>
    BY <1>4, <2>1 DEF StartClose, CloseWritten, SocketShut, inVars, serverVars
  <2> QED BY <2>1, <2>3, <2>4, InStays
<1>5. CASE DataWritten \/ DataRejected
  <2>1. at["user"] = "data" /\ op = "send" /\ ~leaving
    BY <1>5 DEF DataWritten, DataRejected, IInv, Flow, UserState
  <2>2. \E what \in {"idle", "data", "socket"} : AwaitAt("user", what)
    BY <1>5 DEF DataWritten, DataRejected, Returns, SendOrWait
  <2>3. at'["user"] # "adjust"
    BY <1>0, <2>2, Moved DEF IInv, Stages
  <2>4. UNCHANGED <<produced, received, toWorker, tcp, dropped>>
    BY <1>5 DEF DataWritten, DataRejected, inVars, serverVars, connVars
  <2> QED BY <2>1, <2>3, <2>4, InStays
<1>6. CASE DataIgnored
  <2>1. /\ op = "send" /\ at["user"] = "socket" /\ dropped'
        /\ UNCHANGED <<tcp, op, at>>
    BY <1>6 DEF DataIgnored, WaitsForWindow, Takes, takeFrame, connVars, userVars
  <2> QED BY <2>1 DEF InInv
<1>7. CASE ReplySettled
  BY <1>7, InStays DEF ReplySettled, connVars, userVars, inVars, serverVars
<1>8. CASE CallStep("user")
  <2>1. CASE CloseAnswered("user") \/ GlobalAnswered("user") \/ ReadThrows("user")
    <3>1. at["user"] \in {"closing", "reply", "socket"}
      BY <2>1 DEF CloseAnswered, GlobalAnswered, ReadThrows
    <3>2. /\ \E what \in {"idle", "socket"} : AwaitAt("user", what)
          /\ op' \in {op, "none"}
      BY <2>1 DEF CloseAnswered, GlobalAnswered, ReadThrows, CallEnds, Returns, Goes
    <3>3. at'["user"] # "adjust"
      BY <1>0, <3>2, Moved DEF IInv, Stages
    <3>4. op # "over" /\ (leaving => leaving')
      BY <2>1, <3>1 DEF CloseAnswered, GlobalAnswered, ReadThrows, CallEnds, Returns, Goes,
                        IInv, Flow, UserState
    <3>5. UNCHANGED <<produced, received, toWorker, tcp, dropped>>
      BY <2>1 DEF CloseAnswered, GlobalAnswered, ReadThrows, inVars, serverVars, connVars
    <3> QED BY <3>1, <3>2, <3>3, <3>4, <3>5, InStays
  <2> QED BY <1>8, <2>1, UserAside, UserReads, UserAdjusts, DroppedStays DEF CallStep
<1>9. CASE CallStep("late")
  BY <1>9, LateStays
<1>10. CASE Environment
  <2>1. /\ toWorker \in Seq(ServerPacket) /\ produced \in Nat /\ Awaited \in Nat
        /\ held \in Span /\ granted \in Nat
    <3>1. End(received) \in Nat
      BY EndNat DEF IInv, TypeOK
    <3>2. held \in Span /\ held.hi \in Nat
      BY DEF IInv, TypeOK, Span, Output!Span
    <3> QED BY <3>1, <3>2, LineFields DEF IInv, Awaited, TypeOK
  <2>2. CASE ConnectionEnds
    BY <2>2, InStays DEF ConnectionEnds, userVars, inVars, serverVars
  <2>3. ASSUME NEW n \in DataSizes, ServerData(n) PROVE InInv'
    <3> DEFINE p == Packet("data", produced, produced + n)
    <3>1. /\ p \in ServerPacket /\ p.kind = "data" /\ p.lo = produced /\ p.hi = produced + n
          /\ n \in Nat
      BY <2>1, ReadAssumption DEF Packet, ServerPacket
    <3>2. /\ toWorker' = Append(toWorker, p) /\ produced' = produced + n
          /\ UNCHANGED <<tcp, op, leaving, at, held, received, dropped>>
      BY <2>3 DEF ServerData, ServerSends, serverFrame, connVars, userVars, inVars
    <3> HIDE DEF p
    <3>3. ~leaving /\ ~dropped => Follows(toWorker', Awaited, produced + n)
      BY <2>1, <3>1, <3>2, FollowsAppend DEF InInv
    <3>4. Awaited' = Awaited
      BY <3>2 DEF Awaited
    <3>5. held.hi <= produced => held.hi <= produced + n
      <4>1. held.hi \in Nat
        BY <2>1 DEF Span, Output!Span
      <4> QED BY <2>1, <3>1, <4>1
    <3> QED BY <3>2, <3>3, <3>4, <3>5 DEF InInv
  <2>4. ASSUME NEW p \in ServerPacket, p.kind # "data", ServerSends(p),
               UNCHANGED <<serverFrame, produced>>
        PROVE  InInv'
    <3>1. toWorker' = Append(toWorker, p)
      BY <2>4 DEF ServerSends
    <3>2. Follows(toWorker, Awaited, produced) => Follows(toWorker', Awaited, produced)
      BY <2>1, <2>4, <3>1, FollowsAppend
    <3> QED BY <2>4, <3>2, InStays DEF serverFrame, connVars, userVars, inVars
  <2>5. ASSUME NEW n \in Grants, ServerGrants(n) PROVE InInv'
    <3>1. /\ Packet("adjust", granted, granted + n) \in ServerPacket
          /\ Packet("adjust", granted, granted + n).kind # "data"
      BY <2>1, SendAssumption DEF Packet, ServerPacket
    <3> QED BY <2>4, <2>5, <3>1 DEF ServerGrants
  <2>6. \A kind \in {"eof", "close", "request", "exit", "global"} :
          Packet(kind, 0, 0) \in ServerPacket /\ Packet(kind, 0, 0).kind # "data"
    BY DEF Packet, ServerPacket
  <2>7. CASE (\E kind \in {"request", "exit", "global"} : ServerAsks(kind)) \/ ServerEnds \/ ServerCloses
    BY <2>4, <2>6, <2>7 DEF ServerAsks, ServerEnds, ServerCloses
  <2> QED BY <1>10, <2>2, <2>3, <2>5, <2>7 DEF Environment
<1>11. CASE UNCHANGED vars
  BY <1>11, InStays DEF vars, connVars, userVars, inVars, serverVars
<1> QED
  BY <1>1, <1>2, <1>3, <1>4, <1>5, <1>6, <1>7, <1>8, <1>9, <1>10, <1>11
  DEF Next, User, WorkerStep, UserCallStep, LateReadStep

(* Until a send that waits for the window drops data, the user is given a  *)
(* prefix of what the server sent, in order: a ByteStream.                 *)
THEOREM InputRefinement == Spec => InputIsStream
<1>1. Init => Input!Init
  BY DEF Init, Input!Init
<1>2. IInv /\ InInv /\ [Next]_vars => InInv'
  BY InInductive
<1>3. IInv /\ InInv /\ [Next]_vars => [Input!Next]_(Input!svars)
  <2> SUFFICES ASSUME IInv, InInv, [Next]_vars PROVE [Input!Next]_(Input!svars)
    OBVIOUS
  <2> USE DEF Input!Next, Input!svars
  <2>1. ASSUME UNCHANGED received, produced' \in Nat, produced' >= produced,
               \/ (tcp' # "closed") = (tcp # "closed")
               \/ tcp' = "closed" /\ produced' = produced
        PROVE  [Input!Next]_(Input!svars)
    BY <2>1 DEF Input!Write, Input!Cut
  <2>2. ASSUME NEW data \in Span, data.lo = End(received), data.lo <= data.hi,
               data.hi <= produced, tcp # "closed", received' = Append(received, data),
               UNCHANGED <<produced, tcp>>
        PROVE  Input!Deliver
    <3>1. produced \in Nat /\ End(received) \in Nat /\ Input!End(received) = End(received)
      BY EndNat DEF IInv, TypeOK, End, Output!End, Input!End
    <3>2. data.hi \in Nat /\ data = [lo |-> data.lo, hi |-> data.hi]
      BY DEF Span, Output!Span
    <3> DEFINE n == data.hi - End(received)
    <3>3. n \in 0 .. (produced - End(received)) /\ data.hi = End(received) + n
      BY <2>2, <3>1, <3>2
    <3>4. received' = Append(received, [lo |-> End(received), hi |-> End(received) + n])
      BY <2>2, <3>2, <3>3
    <3> HIDE DEF n
    <3> QED BY <2>2, <3>1, <3>3, <3>4 DEF Input!Deliver
  <2>3. produced \in Nat
    BY DEF IInv, TypeOK
  <2>4. CASE Setup \/ User
    <3>1. UNCHANGED <<received, produced, tcp>>
      BY <2>4 DEF Setup, SetupAnswer, SetupAdjust, SetupThrows, User, StartSend, StartRead,
                  StartClose, RaceLost, connVars, inVars, serverVars
    <3> QED BY <2>1, <2>3, <3>1
  <2>5. CASE DataWritten \/ DataRejected \/ DataIgnored \/ CloseWritten \/ SocketShut
             \/ ReplySettled
    <3>1. UNCHANGED <<received, produced>> /\ (tcp' = tcp \/ tcp' = "closed")
      BY <2>5 DEF DataWritten, DataRejected, DataIgnored, CloseWritten, SocketShut,
                  ReplySettled, Shut, takeFrame, connVars, inVars, serverVars
    <3> QED BY <2>1, <2>3, <3>1
  <2>6. ASSUME NEW s \in Slots, CallStep(s) PROVE UNCHANGED <<produced, tcp>>
    BY <2>6 DEF CallStep, ReadData, TakeAdjust, TakeEof, TakeClose, TakeRequest,
                TakeExitStatus, TakeGlobal, AdjustSettled, CloseAnswered, GlobalAnswered,
                ReadThrows, takeFrame, connVars, serverVars
  <2>7. CASE CallStep("user")
    <3>1. UNCHANGED <<produced, tcp>>
      BY <2>6, <2>7 DEF Slots
    <3>2. CASE ReadData("user") \/ AdjustSettled("user")
      <4>1. CASE dropped
        BY <2>1, <2>3, <3>1, <3>2, <4>1, DroppedStays
      <4>2. CASE ~dropped
        BY <2>1, <2>2, <2>3, <3>1, <3>2, <4>2, UserReads, UserAdjusts
      <4> QED BY <4>1, <4>2
    <3>3. CASE ~ReadData("user") /\ ~AdjustSettled("user")
      <4>1. UNCHANGED received
        BY <2>7, <3>3 DEF CallStep, TakeAdjust, TakeEof, TakeClose, TakeRequest,
                TakeExitStatus, TakeGlobal, CloseAnswered, GlobalAnswered, ReadThrows, inVars
      <4> QED BY <2>1, <2>3, <3>1, <4>1
    <3> QED BY <3>2, <3>3
  <2>8. CASE CallStep("late")
    <3>1. UNCHANGED <<produced, tcp>>
      BY <2>6, <2>8 DEF Slots
    <3>2. UNCHANGED received
      BY <2>8 DEF CallStep, ReadData, TakeAdjust, TakeEof, TakeClose, TakeRequest,
              TakeExitStatus, TakeGlobal, AdjustSettled, CloseAnswered, GlobalAnswered,
              ReadThrows, Gives, GivesHeld, inVars
    <3> QED BY <2>1, <2>3, <3>1, <3>2
  <2>9. CASE Environment
    <3>1. /\ UNCHANGED received /\ produced' \in Nat /\ produced' >= produced
          /\ (tcp' # "closed") = (tcp # "closed")
      BY <2>3, <2>9, ReadAssumption
      DEF Environment, ServerData, ServerGrants, ServerAsks, ServerEnds, ServerCloses,
          ConnectionEnds, serverFrame, connVars, inVars, serverVars
    <3> QED BY <2>1, <3>1
  <2>10. CASE UNCHANGED vars
    BY <2>10 DEF vars, connVars, inVars, serverVars
  <2> QED
    BY <2>4, <2>5, <2>7, <2>8, <2>9, <2>10
    DEF Next, WorkerStep, UserCallStep, LateReadStep
<1>4. Init => InInv
  BY InInitially
<1> QED BY <1>1, <1>2, <1>3, <1>4, Invariance, PTL DEF Spec, InputIsStream, Input!Spec
=============================================================================
