---------------------------- MODULE TunnelProofs ----------------------------
(***************************************************************************)
(* What holds of the tunnel for every value of its constants: its type     *)
(* invariant, the bounds and the accounting of its queues, that both       *)
(* directions implement ByteStream, and that the cleanup drains it.        *)
(*                                                                         *)
(* None of these is inductive alone.  The invariant that is, UpInv, says   *)
(* where the pieces that are on their way lie in the browser's stream      *)
(* (DownInv, in the second half, does so for the backend's):               *)
(*                                                                         *)
(*        wire          chain            inbox                             *)
(*    |----------|  |-----------|   |--------------|                       *)
(*    0      End(wire)            Heard           sent                     *)
(*                                                                         *)
(* While the writer is held and the socket is open there are no gaps; once *)
(* the tunnel is going down there may be, but then only the write that is  *)
(* in flight, which begins at End(wire), can still reach the backend.      *)
(***************************************************************************)
EXTENDS Tunnel, SequenceTheorems, WellFoundedInduction, TLAPS

(* Pieces that follow each other in the stream, with or without gaps. *)
Ordered(pieces) ==
  /\ \A i \in 1 .. Len(pieces) : pieces[i].lo <= pieces[i].hi
  /\ \A i, j \in 1 .. Len(pieces) : i < j => pieces[i].hi <= pieces[j].lo

Tight(pieces) ==
  \A i \in 1 .. Len(pieces) - 1 : pieces[i].hi = pieces[i + 1].lo

(* No pipe has been started: nothing is on its way. *)
Untouched ==
  /\ status = "new" => sock = "none"
  /\ status = "101" => sock # "connecting"
  /\ status # "101" => /\ sent = 0 /\ inbox = <<>> /\ chain = <<>> /\ wire = <<>>
                       /\ head = "idle" /\ writer = "none"

InboxLine ==
  /\ Ordered(inbox)
  /\ Tight(inbox)
  /\ inbox # <<>> => End(inbox) = sent

ChainLine ==
  /\ Ordered(chain)
  /\ chain # <<>> => End(wire) <= chain[1].lo /\ End(chain) <= Heard
  /\ End(wire) <= Heard

Healthy == writer = "held" /\ sock = "open"

HealthyLine ==
  Healthy => /\ Tight(chain)
             /\ chain = <<>> => End(wire) = Heard
             /\ chain # <<>> => chain[1].lo = End(wire) /\ End(chain) = Heard

HeadState ==
  /\ head # "idle" => chain # <<>>
  /\ head = "writing" => chain[1].lo = End(wire)
  /\ head = "failing" => writer = "released"

UpInv ==
  /\ Untouched
  /\ InboxLine
  /\ ChainLine
  /\ HealthyLine
  /\ HeadState
  /\ QueueAccounting
  /\ InboundBounded

IInv == TypeOK /\ UpInv

-----------------------------------------------------------------------------
(* Taking the first piece off a list. *)
LEMMA TailPiece ==
  ASSUME NEW s \in Seq(Span), s # <<>>
  PROVE  /\ Head(s) \in Span
         /\ Head(s) = s[1]
         /\ Len(s) \in Nat \ {0}
         /\ Tail(s) \in Seq(Span)
         /\ Len(Tail(s)) = Len(s) - 1
         /\ Tail(s) = <<>> <=> Len(s) = 1
         /\ \A i \in 1 .. Len(s) - 1 : Tail(s)[i] = s[i + 1]
<1>1. Tail(s) \in Seq(Span) /\ Len(Tail(s)) = Len(s) - 1
  BY HeadTailProperties
<1>2. Tail(s) = <<>> <=> Len(s) = 1
  BY <1>1, EmptySeq
<1> QED BY <1>1, <1>2, HeadTailProperties, EmptySeq

(* The pieces of a list have natural numbers for ends. *)
LEMMA PieceFields ==
  ASSUME NEW s \in Seq(Span)
  PROVE  /\ Len(s) \in Nat
         /\ s # <<>> => Len(s) > 0
         /\ \A i \in 1 .. Len(s) : s[i] \in Span /\ s[i].lo \in Nat /\ s[i].hi \in Nat
         /\ End(s) \in Nat
<1>1. \A i \in 1 .. Len(s) : s[i] \in Span /\ s[i].lo \in Nat /\ s[i].hi \in Nat
  <2>1. \A i \in 1 .. Len(s) : s[i] \in Span
    BY ElementOfSeq
  <2>2. \A m \in Span : m.lo \in Nat /\ m.hi \in Nat
    BY DEF Span, Upstream!Span
  <2> QED BY <2>1, <2>2
<1>2. s # <<>> => Len(s) \in Nat \ {0}
  BY EmptySeq
<1>3. End(s) \in Nat
  BY <1>1, <1>2 DEF End, Upstream!End
<1> QED BY <1>1, <1>2, <1>3

(* Nothing in an ordered list lies beyond its end. *)
LEMMA EndIsLast ==
  ASSUME NEW s \in Seq(Span), Ordered(s), NEW i \in 1 .. Len(s)
  PROVE  s[i].hi <= End(s)
<1>1. /\ Len(s) \in Nat \ {0} /\ s # <<>> /\ Len(s) \in 1 .. Len(s)
  BY EmptySeq, LenProperties
<1>2. /\ s[i].hi \in Nat /\ s[Len(s)].lo \in Nat /\ s[Len(s)].hi \in Nat
      /\ s[Len(s)].lo <= s[Len(s)].hi
  BY <1>1, PieceFields DEF Ordered
<1>3. i < Len(s) => s[i].hi <= s[Len(s)].lo
  BY <1>1 DEF Ordered
<1> QED BY <1>1, <1>2, <1>3 DEF End, Upstream!End

(* Adding a piece behind a list, and taking the first one off, keep it in  *)
(* order, and leave no gap where there was none.                           *)
LEMMA OrderedAppend ==
  ASSUME NEW s \in Seq(Span), NEW m \in Span, m.lo <= m.hi, Ordered(s),
         s # <<>> => End(s) <= m.lo
  PROVE  Ordered(Append(s, m))
<1> DEFINE t == Append(s, m)
<1>1. /\ Len(s) \in Nat /\ Len(t) = Len(s) + 1
      /\ \A i \in 1 .. Len(s) : t[i] = s[i]
      /\ t[Len(s) + 1] = m
  BY AppendProperties, LenProperties
<1>2. Len(s) # 0 => s[Len(s)].hi <= m.lo
  BY EmptySeq DEF End, Upstream!End
<1> HIDE DEF t
<1>3. ASSUME NEW i \in 1 .. Len(t) PROVE t[i].lo <= t[i].hi
  <2>1. i = Len(s) + 1 \/ i \in 1 .. Len(s)
    BY <1>1
  <2> QED BY <1>1, <2>1 DEF Ordered
<1>4. ASSUME NEW i \in 1 .. Len(t), NEW j \in 1 .. Len(t), i < j
      PROVE  t[i].hi <= t[j].lo
  <2>1. i \in 1 .. Len(s) /\ t[i] = s[i]
    BY <1>1, <1>4
  <2>2. CASE j \in 1 .. Len(s)
    BY <1>1, <1>4, <2>1, <2>2 DEF Ordered
  <2>3. CASE j = Len(s) + 1
    <3>1. s[i].hi <= End(s) /\ End(s) <= m.lo
      BY <2>1, EndIsLast, EmptySeq
    <3>2. s[i].hi \in Nat /\ End(s) \in Nat /\ m.lo \in Nat
      BY <2>1, PieceFields DEF Span, Upstream!Span
    <3> QED BY <1>1, <2>1, <2>3, <3>1, <3>2
  <2> QED BY <1>1, <2>2, <2>3
<1> QED BY <1>3, <1>4 DEF Ordered, t

LEMMA TightAppend ==
  ASSUME NEW s \in Seq(Span), NEW m \in Span, Tight(s),
         s # <<>> => End(s) = m.lo
  PROVE  Tight(Append(s, m))
<1> DEFINE t == Append(s, m)
<1>1. /\ Len(s) \in Nat /\ Len(t) = Len(s) + 1
      /\ \A i \in 1 .. Len(s) : t[i] = s[i]
      /\ t[Len(s) + 1] = m
  BY AppendProperties, LenProperties
<1>2. Len(s) # 0 => s[Len(s)].hi = m.lo
  BY EmptySeq DEF End, Upstream!End
<1> HIDE DEF t
<1>3. ASSUME NEW i \in 1 .. Len(t) - 1 PROVE t[i].hi = t[i + 1].lo
  <2>1. CASE i = Len(s)
    BY <1>1, <1>2, <2>1
  <2>2. CASE i # Len(s)
    <3>1. i \in 1 .. Len(s) - 1 /\ i \in 1 .. Len(s) /\ i + 1 \in 1 .. Len(s)
      BY <1>1, <2>2
    <3>2. t[i] = s[i] /\ t[i + 1] = s[i + 1]
      BY <1>1, <3>1
    <3> QED BY <3>1, <3>2 DEF Tight
  <2> QED BY <2>1, <2>2
<1> QED BY <1>3 DEF Tight, t

LEMMA TailInOrder ==
  ASSUME NEW s \in Seq(Span), s # <<>>
  PROVE  /\ Ordered(s) => Ordered(Tail(s))
         /\ Tight(s) => Tight(Tail(s))
         /\ Tail(s) # <<>> => /\ End(Tail(s)) = End(s)
                              /\ Tail(s)[1] = s[2]
                              /\ s[2].lo \in Nat /\ s[2].hi \in Nat
                              /\ Ordered(s) => s[1].hi <= s[2].lo
                              /\ Tight(s) => s[1].hi = s[2].lo
         /\ Tail(s) = <<>> => End(s) = s[1].hi
<1> DEFINE t == Tail(s)
<1>1. /\ Len(s) \in Nat \ {0} /\ Len(t) = Len(s) - 1
      /\ \A i \in 1 .. Len(s) - 1 : t[i] = s[i + 1]
      /\ t = <<>> <=> Len(s) = 1
  BY TailPiece
<1> HIDE DEF t
<1>2. ASSUME Ordered(s) PROVE Ordered(t)
  BY <1>1, <1>2 DEF Ordered
<1>3. ASSUME Tight(s) PROVE Tight(t)
  BY <1>1, <1>3 DEF Tight
<1>4. ASSUME t # <<>>
      PROVE  /\ End(t) = End(s) /\ t[1] = s[2]
             /\ Ordered(s) => s[1].hi <= s[2].lo
             /\ Tight(s) => s[1].hi = s[2].lo
  BY <1>1, <1>4 DEF End, Upstream!End, Ordered, Tight
<1>5. t = <<>> => End(s) = s[1].hi
  BY <1>1 DEF End, Upstream!End
<1>6. t # <<>> => s[2].lo \in Nat /\ s[2].hi \in Nat
  <2>1. t # <<>> => 2 \in 1 .. Len(s)
    BY <1>1
  <2> QED BY <2>1, PieceFields
<1> QED BY <1>2, <1>3, <1>4, <1>5, <1>6 DEF t

(* What the reader loop sends for one read is a list of pieces. *)
LEMMA SlicesType ==
  ASSUME NEW lo \in Nat, NEW hi \in Nat
  PROVE  lo <= hi => Slices(lo, hi) \in Seq(Span)
<1> SUFFICES ASSUME lo <= hi PROVE Slices(lo, hi) \in Seq(Span)
  OBVIOUS
<1> DEFINE n == (hi - lo + WsMax - 1) \div WsMax
<1>1. n \in Nat
  <2>1. WsMax \in Nat /\ WsMax > 0
    BY LimitsAssumption
  <2>2. hi - lo + WsMax - 1 \in Nat
    BY <2>1
  <2> QED BY <2>1, <2>2, SMTT(30)
<1>2. ASSUME NEW i \in 1 .. n
      PROVE  [lo |-> lo + (i - 1) * WsMax,
              hi |-> IF lo + i * WsMax < hi THEN lo + i * WsMax ELSE hi] \in Span
  <2>1. WsMax \in Nat
    BY LimitsAssumption
  <2>2. (i - 1) * WsMax \in Nat /\ i * WsMax \in Nat
    BY <1>1, <2>1, SMTT(30)
  <2> HIDE DEF n
  <2> QED BY <2>2 DEF Span, Upstream!Span
<1> HIDE DEF n
<1>3. [i \in 1 .. n |->
        [lo |-> lo + (i - 1) * WsMax,
         hi |-> IF lo + i * WsMax < hi THEN lo + i * WsMax ELSE hi]] \in Seq(Span)
  BY <1>1, <1>2
<1> QED BY <1>3 DEF Slices, n

-----------------------------------------------------------------------------
(***************************************************************************)
(* The initial state, and the steps that do not move a piece               *)
(***************************************************************************)

LEMMA InitInv == Init => IInv
<1> SUFFICES ASSUME Init PROVE IInv
  OBVIOUS
<1>1. \A S : <<>> \in Seq(S) /\ Len(<<>>) = 0
  BY EmptySeq
<1>2. TypeOK
  BY <1>1 DEF Init, TypeOK
<1>3. UpInv
  BY <1>1, LimitsAssumption
     DEF Init, UpInv, Untouched, InboxLine, ChainLine, HealthyLine, Healthy,
         HeadState, QueueAccounting, InboundBounded, Ordered, Tight, Extent,
         End, Upstream!End, Heard
<1> QED BY <1>2, <1>3 DEF IInv

(* A step that moves no piece, and does not make the tunnel healthy.       *)
LEMMA QuietStep ==
  ASSUME UpInv, UNCHANGED <<sent, inbox, chain, queued, wire>>,
         Healthy' => Healthy, Untouched', HeadState'
  PROVE  UpInv'
  BY DEF UpInv, InboxLine, ChainLine, HealthyLine, Healthy, QueueAccounting,
         InboundBounded, Ordered, Tight, Extent, End, Upstream!End, Heard

-----------------------------------------------------------------------------
(***************************************************************************)
(* The steps that move a piece                                             *)
(***************************************************************************)

(* The browser adds a message behind everything else. *)
LEMMA BrowserSendStep == IInv /\ BrowserSend => UpInv'
<1> SUFFICES ASSUME IInv, BrowserSend PROVE UpInv'
  OBVIOUS
<1> USE DEF IInv, UpInv
<1>1. PICK n \in MsgSizes : /\ sent' = sent + n
                            /\ inbox' = Append(inbox, [lo |-> sent, hi |-> sent + n])
  BY DEF BrowserSend
<1> DEFINE m == [lo |-> sent, hi |-> sent + n]
<1>2. /\ n \in Nat /\ sent \in Nat /\ m \in Span
      /\ inbox \in Seq(Span) /\ Len(inbox) \in Nat
  BY SizesAssumption, PieceFields DEF TypeOK, Span, Upstream!Span
<1>3. /\ Len(inbox') = Len(inbox) + 1 /\ inbox' # <<>>
      /\ \A i \in 1 .. Len(inbox) : inbox'[i] = inbox[i]
      /\ inbox'[Len(inbox) + 1] = m
  BY <1>1, <1>2, AppendProperties
<1>4. Heard' = Heard
  <2>1. CASE inbox = <<>>
    BY <1>1, <1>3, <2>1 DEF Heard
  <2>2. CASE inbox # <<>>
    <3>1. 1 \in 1 .. Len(inbox)
      BY <1>2, <2>2, PieceFields
    <3> QED BY <1>3, <2>2, <3>1 DEF Heard
  <2> QED BY <2>1, <2>2
<1>5. InboxLine'
  <2>1. m.lo = sent /\ m.hi = sent + n /\ inbox' = Append(inbox, m)
    BY <1>1
  <2> HIDE DEF m
  <2>2. Ordered(inbox')
    BY <1>2, <2>1, OrderedAppend DEF InboxLine
  <2>3. Tight(inbox')
    BY <1>2, <2>1, TightAppend DEF InboxLine
  <2>4. End(inbox') = sent'
    BY <1>1, <1>2, <1>3, <2>1 DEF End, Upstream!End
  <2> QED BY <2>2, <2>3, <2>4 DEF InboxLine
<1>6. UNCHANGED <<chain, wire, queued, head, writer, sock, status>>
  BY DEF BrowserSend, sockVars, writeVars
<1>7. status = "101"
  BY DEF BrowserSend
<1>8. Untouched' /\ HeadState'
  BY <1>6, <1>7 DEF Untouched, HeadState, End, Upstream!End
<1>9. ChainLine' /\ HealthyLine' /\ QueueAccounting' /\ InboundBounded'
  BY <1>4, <1>6 DEF ChainLine, HealthyLine, Healthy, QueueAccounting,
     InboundBounded, Ordered, Tight, Extent, End, Upstream!End
<1> QED BY <1>5, <1>8, <1>9

(* The message listener moves the first message of the inbox to the end of *)
(* the chain, or drops it and makes the tunnel unhealthy.                  *)
LEMMA MessageEventStep == IInv /\ MessageEvent => UpInv'
<1> SUFFICES ASSUME IInv, MessageEvent PROVE UpInv'
  OBVIOUS
<1> USE DEF IInv, UpInv
<1> DEFINE m == Head(inbox)
<1>1. /\ inbox # <<>> /\ inbox' = Tail(inbox) /\ queued' = queued + m.hi - m.lo
      /\ UNCHANGED <<status, sent, head, wire>>
  <2>1. /\ inbox # <<>> /\ inbox' = Tail(inbox) /\ queued' = queued + (m.hi - m.lo)
        /\ UNCHANGED <<status, sent, head, wire>>
    BY DEF MessageEvent, Size, Upstream!Size
  <2>2. m \in Span /\ queued \in Nat
    BY <2>1, TailPiece DEF TypeOK
  <2> QED BY <2>1, <2>2 DEF Span, Upstream!Span
<1>2. /\ inbox \in Seq(Span) /\ chain \in Seq(Span) /\ wire \in Seq(Span)
      /\ sent \in Nat /\ queued \in Nat /\ InHWM \in Nat
  BY LimitsAssumption DEF TypeOK
<1>3. /\ m \in Span /\ m = inbox[1] /\ m.lo \in Nat /\ m.hi \in Nat /\ m.lo <= m.hi
      /\ Heard = m.lo
  <2>1. m \in Span /\ m = inbox[1] /\ Len(inbox) \in Nat \ {0}
    BY <1>1, <1>2, TailPiece
  <2> QED BY <1>1, <1>2, <2>1, PieceFields DEF InboxLine, Ordered, Heard
<1>4. Heard' = m.hi
  <2>1. CASE Len(inbox) = 1
    <3>1. Tail(inbox) = <<>> /\ inbox[1].hi = sent
      BY <1>1, <1>2, <2>1, TailPiece DEF InboxLine, End, Upstream!End
    <3> QED BY <1>1, <1>3, <3>1 DEF Heard
  <2>2. CASE Len(inbox) # 1
    <3>1. Tail(inbox) # <<>> /\ Tail(inbox)[1] = inbox[2] /\ inbox[1].hi = inbox[2].lo
      BY <1>1, <1>2, <2>2, TailPiece DEF InboxLine, Tight
    <3> QED BY <1>1, <1>3, <3>1 DEF Heard
  <2> QED BY <2>1, <2>2
<1>5. InboxLine'
  <2>1. Ordered(inbox') /\ Tight(inbox')
    BY <1>1, <1>2, TailPiece, PieceFields DEF InboxLine, Ordered, Tight
  <2>2. inbox' # <<>> => End(inbox') = sent'
    BY <1>1, <1>2, TailPiece DEF InboxLine, End, Upstream!End
  <2> QED BY <2>1, <2>2 DEF InboxLine
<1>6. QueueAccounting'
  BY <1>1, <1>2, <1>3, <1>4, PieceFields
     DEF QueueAccounting, End, Upstream!End
<1>7. status = "101" /\ UNCHANGED status
  BY <1>1 DEF Untouched
<1>8. Untouched'
  BY <1>7 DEF Untouched, MessageEvent, Overflow, Enqueue, CloseSocket
<1>9. CASE OverLimit(m) /\ Overflow
  <2>1. UNCHANGED chain /\ ~Healthy'
    BY <1>9 DEF Overflow, CloseWriter, CloseSocket, Healthy
  <2>2. ChainLine'
    BY <1>1, <1>2, <1>3, <1>4, <2>1, PieceFields
       DEF ChainLine, Ordered, End, Upstream!End
  <2>3. HeadState'
    BY <1>1, <1>9, <2>1 DEF HeadState, End, Upstream!End, Overflow, CloseWriter
  <2>4. InboundBounded'
    BY <2>1 DEF InboundBounded, Extent, End, Upstream!End
  <2> QED BY <1>5, <1>6, <1>8, <2>1, <2>2, <2>3, <2>4 DEF HealthyLine
<1>10. CASE ~OverLimit(m) /\ Enqueue(m)
  <2>1. UNCHANGED <<writer, sock>> /\ chain' = Append(chain, m)
    BY <1>10 DEF Enqueue
  <2>2. /\ Len(chain) \in Nat /\ Len(chain') = Len(chain) + 1 /\ chain' # <<>>
        /\ \A i \in 1 .. Len(chain) : chain'[i] = chain[i]
        /\ chain'[Len(chain) + 1] = m
        /\ chain = <<>> => Len(chain) = 0
        /\ chain # <<>> => Len(chain) > 0
    BY <1>2, <1>3, <2>1, AppendProperties, EmptySeq, LenProperties
  <2>3. End(chain') = m.hi
    BY <2>2 DEF End, Upstream!End
  <2>4. chain'[1] = IF chain = <<>> THEN m ELSE chain[1]
    BY <2>2
  <2>5. chain # <<>> => End(chain) <= m.lo
    BY <1>3 DEF ChainLine
  <2> HIDE DEF m
  <2>6. Ordered(chain')
    BY <1>2, <1>3, <2>1, <2>5, OrderedAppend DEF ChainLine
  <2>7. /\ End(wire') = End(wire) /\ End(wire) \in Nat
    BY <1>1, <1>2, PieceFields DEF End, Upstream!End
  <2>8. End(wire) <= chain'[1].lo /\ chain'[1].lo \in Nat
    BY <1>2, <1>3, <2>2, <2>4, <2>7, PieceFields DEF ChainLine
  <2>9. ChainLine'
    BY <1>2, <1>3, <1>4, <2>3, <2>6, <2>7, <2>8 DEF ChainLine
  <2>10. HealthyLine'
    <3>1. SUFFICES ASSUME Healthy
                   PROVE  Tight(chain') /\ chain'[1].lo = End(wire)
      BY <1>4, <2>1, <2>2, <2>3, <2>7 DEF HealthyLine, Healthy
    <3>2. chain # <<>> => chain[Len(chain)].hi = m.lo
      BY <1>3, <3>1 DEF HealthyLine, End, Upstream!End
    <3>3. Tight(chain')
      BY <2>2, <3>1, <3>2 DEF Tight, HealthyLine
    <3>4. chain'[1].lo = End(wire)
      BY <1>3, <2>4, <3>1 DEF HealthyLine
    <3> QED BY <3>3, <3>4
  <2>11. HeadState'
    BY <1>1, <2>1, <2>2, <2>4, <2>7 DEF HeadState
  <2>12. InboundBounded'
    <3>1. queued + (m.hi - m.lo) <= InHWM
      BY <1>2, <1>3, <1>10 DEF OverLimit, Size, Upstream!Size
    <3>2. queued = m.lo - End(wire)
      BY <1>3 DEF QueueAccounting
    <3>3. /\ End(wire) \in Int /\ m.lo \in Int /\ m.hi \in Int
          /\ chain'[1].lo \in Int /\ End(wire) <= chain'[1].lo /\ InHWM \in Int
      BY <1>2, <1>3, <2>7, <2>8
    <3>4. m.hi - End(wire) <= InHWM
      BY <3>1, <3>2, <3>3
    <3>5. m.hi - chain'[1].lo <= InHWM
      BY <3>3, <3>4
    <3> QED BY <2>2, <2>3, <3>5 DEF InboundBounded, Extent
  <2> QED BY <1>5, <1>6, <1>8, <2>9, <2>10, <2>11, <2>12
<1> QED BY <1>9, <1>10 DEF MessageEvent

(* The piece at the head of the chain goes, to the backend or nowhere.     *)
LEMMA HeadGoes ==
  ASSUME IInv, chain # <<>>, chain' = Tail(chain), UNCHANGED <<sent, inbox>>
  PROVE  /\ Ordered(chain') /\ (Tight(chain) => Tight(chain'))
         /\ chain[1].lo \in Nat /\ chain[1].hi \in Nat /\ Heard \in Nat
         /\ Heard' = Heard
         /\ chain[1].lo <= chain[1].hi /\ chain[1].hi <= Heard
         /\ chain' # <<>> => /\ chain'[1].lo \in Nat
                             /\ chain[1].hi <= chain'[1].lo
                             /\ Tight(chain) => chain[1].hi = chain'[1].lo
                             /\ End(chain') = End(chain)
         /\ chain' = <<>> => End(chain) = chain[1].hi
         /\ InboundBounded'
<1> USE DEF IInv, UpInv
<1>1. /\ chain \in Seq(Span) /\ inbox \in Seq(Span) /\ sent \in Nat /\ InHWM \in Nat
      /\ Len(chain) \in Nat \ {0} /\ Len(chain) \in 1 .. Len(chain)
      /\ 1 \in 1 .. Len(chain)
  <2>1. chain \in Seq(Span) /\ inbox \in Seq(Span) /\ sent \in Nat /\ InHWM \in Nat
    BY LimitsAssumption DEF TypeOK
  <2> QED BY <2>1, EmptySeq
<1>2. Heard \in Nat /\ Heard' = Heard
  BY <1>1, PieceFields DEF Heard
<1>3. /\ chain[1].lo \in Nat /\ chain[1].hi \in Nat /\ chain[1].lo <= chain[1].hi
      /\ Ordered(chain') /\ (Tight(chain) => Tight(chain'))
      /\ chain' \in Seq(Span) /\ End(chain) \in Nat /\ End(chain) <= Heard
  BY <1>1, TailInOrder, TailPiece, PieceFields DEF ChainLine, Ordered
<1>4. ASSUME chain' # <<>>
      PROVE  /\ chain'[1].lo \in Nat /\ chain'[1].hi \in Nat
             /\ chain[1].hi <= chain'[1].lo
             /\ Tight(chain) => chain[1].hi = chain'[1].lo
             /\ End(chain') = End(chain)
  <2>1. chain'[1].lo \in Nat /\ chain'[1].hi \in Nat
    BY <1>1, <1>4, TailInOrder
  <2> QED BY <1>1, <1>4, <2>1, TailInOrder DEF ChainLine
<1>5. chain' = <<>> => End(chain) = chain[1].hi
  BY <1>1, TailInOrder
<1>6. chain[1].hi <= Heard
  <2>1. chain[1].hi <= End(chain)
    BY <1>1, EndIsLast DEF ChainLine
  <2> QED BY <1>2, <1>3, <2>1
<1>7. InboundBounded'
  <2>1. End(chain) - chain[1].lo <= InHWM
    BY DEF InboundBounded, Extent
  <2>2. CASE chain' = <<>>
    BY <1>1, <2>2 DEF InboundBounded, Extent
  <2>3. CASE chain' # <<>>
    <3>1. End(chain') - chain'[1].lo <= InHWM
      BY <1>1, <1>3, <1>4, <2>1, <2>3
    <3> QED BY <2>3, <3>1 DEF InboundBounded, Extent
  <2> QED BY <2>2, <2>3
<1> QED BY <1>2, <1>3, <1>4, <1>5, <1>6, <1>7

(* What is about to be written has been sent. *)
LEMMA HeadBelowSent ==
  ASSUME IInv, chain # <<>>
  PROVE  /\ chain[1].lo \in Nat /\ chain[1].hi \in Nat /\ chain[1] \in Span
         /\ chain[1].lo <= chain[1].hi /\ chain[1].hi <= sent /\ sent \in Nat
<1> USE DEF IInv, UpInv
<1>1. /\ chain \in Seq(Span) /\ inbox \in Seq(Span) /\ sent \in Nat
  BY DEF TypeOK
<1>2. 1 \in 1 .. Len(chain)
  BY <1>1, EmptySeq
<1>3. /\ chain[1].lo \in Nat /\ chain[1].hi \in Nat /\ chain[1] \in Span
      /\ chain[1].lo <= chain[1].hi /\ chain[1].hi <= End(chain)
  BY <1>1, <1>2, PieceFields, EndIsLast DEF ChainLine, Ordered
<1>4. Heard \in Nat /\ Heard <= sent
  <2>1. CASE inbox = <<>>
    BY <1>1, <2>1 DEF Heard
  <2>2. CASE inbox # <<>>
    <3>1. 1 \in 1 .. Len(inbox)
      BY <1>1, <2>2, EmptySeq
    <3>2. /\ inbox[1].lo \in Nat /\ inbox[1].hi \in Nat /\ inbox[1].lo <= inbox[1].hi
          /\ inbox[1].hi <= End(inbox) /\ End(inbox) = sent
      BY <1>1, <2>2, <3>1, PieceFields, EndIsLast DEF InboxLine, Ordered
    <3> QED BY <1>1, <2>2, <3>2 DEF Heard
  <2> QED BY <2>1, <2>2
<1>5. End(chain) \in Nat /\ End(chain) <= Heard
  BY <1>1, PieceFields DEF ChainLine
<1> QED BY <1>1, <1>3, <1>4, <1>5

(* A write that succeeds moves the head of the chain to the backend. *)
LEMMA WriteDoneStep == IInv /\ WriteDone => UpInv'
<1> SUFFICES ASSUME IInv, WriteDone PROVE UpInv'
  OBVIOUS
<1> USE DEF IInv, UpInv
<1>1. /\ head = "writing" /\ chain # <<>> /\ head' = "idle"
      /\ wire' = Append(wire, chain[1]) /\ chain' = Tail(chain)
      /\ queued' = queued - (chain[1].hi - chain[1].lo)
      /\ UNCHANGED <<status, sent, inbox, writer, sock>>
      /\ chain[1] \in Span
  <2>1. chain # <<>> /\ chain \in Seq(Span)
    BY DEF WriteDone, HeadState, TypeOK
  <2> QED BY <2>1, TailPiece
          DEF WriteDone, Uncount, Size, Upstream!Size, browserVars, sockVars
<1>2. /\ Ordered(chain') /\ (Tight(chain) => Tight(chain'))
      /\ chain[1].lo \in Nat /\ chain[1].hi \in Nat /\ Heard \in Nat
      /\ Heard' = Heard /\ chain[1].lo <= chain[1].hi /\ chain[1].hi <= Heard
      /\ chain' # <<>> => /\ chain'[1].lo \in Nat
                          /\ chain[1].hi <= chain'[1].lo
                          /\ Tight(chain) => chain[1].hi = chain'[1].lo
                          /\ End(chain') = End(chain)
      /\ chain' = <<>> => End(chain) = chain[1].hi
      /\ InboundBounded'
  BY <1>1, HeadGoes
<1>3. End(wire') = chain[1].hi
  <2>1. wire \in Seq(Span)
    BY DEF TypeOK
  <2>2. /\ Len(wire) \in Nat /\ wire' # <<>> /\ Len(wire') = Len(wire) + 1
        /\ wire'[Len(wire) + 1] = chain[1]
    BY <1>1, <2>1, AppendProperties, LenProperties
  <2> QED BY <2>2 DEF End, Upstream!End
<1>4. End(wire) = chain[1].lo /\ chain # <<>>
  BY <1>1 DEF HeadState
<1>5. Untouched' /\ InboxLine'
  BY <1>1 DEF Untouched, InboxLine, Ordered, Tight, End, Upstream!End
<1>6. ChainLine'
  BY <1>1, <1>2, <1>3, <1>4 DEF ChainLine
<1>7. HealthyLine'
  BY <1>1, <1>2, <1>3, <1>4 DEF HealthyLine, Healthy
<1>8. HeadState'
  BY <1>1 DEF HeadState
<1>9. QueueAccounting'
  <2>1. queued = Heard - chain[1].lo /\ queued \in Nat
    BY <1>4 DEF QueueAccounting, TypeOK
  <2> QED BY <1>1, <1>2, <1>3, <2>1 DEF QueueAccounting
<1> QED BY <1>2, <1>5, <1>6, <1>7, <1>8, <1>9

(* A write that has failed leaves the chain and leaves a gap. *)
LEMMA FailureSettledStep == IInv /\ FailureSettled => UpInv'
<1> SUFFICES ASSUME IInv, FailureSettled PROVE UpInv'
  OBVIOUS
<1> USE DEF IInv, UpInv
<1>1. /\ head = "failing" /\ chain # <<>> /\ head' = "idle" /\ chain' = Tail(chain)
      /\ UNCHANGED <<status, sent, inbox, writer, sock, wire, queued>>
      /\ writer = "released"
  BY DEF FailureSettled, HeadState, browserVars, sockVars
<1>2. /\ Ordered(chain') /\ Heard' = Heard /\ InboundBounded'
      /\ chain[1].lo \in Nat /\ chain[1].hi \in Nat /\ chain[1].lo <= chain[1].hi
      /\ chain' # <<>> => /\ chain'[1].lo \in Nat
                          /\ chain[1].hi <= chain'[1].lo
                          /\ End(chain') = End(chain)
  BY <1>1, HeadGoes
<1>3. End(wire') = End(wire) /\ End(wire) \in Nat
  BY <1>1, PieceFields DEF TypeOK, End, Upstream!End
<1>4. Untouched' /\ InboxLine'
  BY <1>1 DEF Untouched, InboxLine, Ordered, Tight, End, Upstream!End
<1>5. ChainLine'
  BY <1>1, <1>2, <1>3 DEF ChainLine
<1>6. HealthyLine' /\ HeadState'
  BY <1>1 DEF HealthyLine, Healthy, HeadState
<1>7. QueueAccounting'
  BY <1>1, <1>2, <1>3 DEF QueueAccounting
<1> QED BY <1>2, <1>4, <1>5, <1>6, <1>7

(* The pipes start with nothing on its way. *)
LEMMA SocketOpenedStep == IInv /\ SocketOpened => UpInv'
<1> SUFFICES ASSUME IInv, SocketOpened PROVE UpInv'
  OBVIOUS
<1> USE DEF IInv, UpInv
<1>1. UNCHANGED <<sent, inbox, chain, head, queued, wire>>
  BY DEF SocketOpened, browserVars
<1>2. CASE status = "opening"
  <2>1. /\ status' = "101" /\ sock' = "open"
        /\ chain' = <<>> /\ wire' = <<>> /\ inbox' = <<>> /\ sent' = 0
        /\ head' = "idle" /\ queued' = 0
    BY <1>1, <1>2 DEF SocketOpened, Untouched, QueueAccounting, Heard, End,
                      Upstream!End
  <2>2. Len(<<>>) = 0
    BY EmptySeq
  <2>3. Untouched' /\ InboxLine' /\ HeadState'
    BY <2>1, <2>2 DEF Untouched, InboxLine, HeadState, Ordered, Tight
  <2>4. /\ Extent(chain') = 0 /\ End(wire') = 0 /\ Heard' = 0
        /\ Ordered(chain') /\ Tight(chain')
    BY <2>1, <2>2 DEF Ordered, Tight, Extent, End, Upstream!End, Heard
  <2>5. ChainLine' /\ HealthyLine' /\ QueueAccounting' /\ InboundBounded'
    BY <2>1, <2>4, LimitsAssumption
       DEF ChainLine, HealthyLine, QueueAccounting, InboundBounded
  <2> QED BY <2>3, <2>5
<1>3. CASE status # "opening"
  <2>1. UNCHANGED <<status, writer>> /\ sock = "connecting" /\ sock' = "open"
    BY <1>3 DEF SocketOpened
  <2>2. writer # "held"
    BY <2>1 DEF Untouched
  <2> QED BY <1>1, <2>1, <2>2, QuietStep DEF Healthy, Untouched, HeadState, End, Upstream!End
<1> QED BY <1>2, <1>3

-----------------------------------------------------------------------------
(* Every other step moves no piece and can only end the tunnel's health. *)
LEMMA OtherStep ==
  ASSUME IInv,
         \/ Refuse \/ Accept \/ ConnectFailed \/ OpenTimeout \/ BrowserClose
         \/ WsFlush \/ CloseEvent \/ ErrorEvent \/ WriteStart \/ WriteError
         \/ Cleanup \/ WriterClosed \/ ReaderLoop \/ Backend \/ UNCHANGED vars
  PROVE  UpInv'
<1> USE DEF IInv, UpInv, Untouched, HeadState, Healthy, End, Upstream!End,
            browserVars, sockVars, writeVars, readVars
<1>1. CASE Refuse
  BY <1>1, QuietStep DEF Refuse
<1>2. CASE Accept
  BY <1>2, QuietStep DEF Accept
<1>3. CASE ConnectFailed
  BY <1>3, QuietStep DEF ConnectFailed
<1>4. CASE OpenTimeout
  BY <1>4, QuietStep DEF OpenTimeout
<1>5. CASE BrowserClose
  BY <1>5, QuietStep DEF BrowserClose
<1>6. CASE WsFlush
  BY <1>6, QuietStep DEF WsFlush
<1>7. CASE CloseEvent
  BY <1>7, QuietStep DEF CloseEvent
<1>8. CASE ErrorEvent
  BY <1>8, QuietStep DEF ErrorEvent, CloseWriter, CloseSocket
<1>9. CASE WriteStart
  <2>1. CASE writer = "held" /\ sock = "open"
    BY <1>9, <2>1, QuietStep DEF WriteStart, HealthyLine
  <2>2. CASE writer # "held" \/ sock # "open"
    BY <1>9, <2>2, QuietStep DEF WriteStart, WriteFailure, CloseSocket
  <2> QED BY <2>1, <2>2
<1>10. CASE WriteError
  BY <1>10, QuietStep DEF WriteError, WriteFailure, CloseSocket
<1>11. CASE Cleanup
  BY <1>11, QuietStep DEF Cleanup, CloseWriter, CloseSocket
<1>12. CASE WriterClosed
  BY <1>12, QuietStep DEF WriterClosed
<1>13. CASE DrainTick \/ ReadData \/ ReadEnd \/ ReaderDone
  BY <1>13, QuietStep DEF DrainTick, ReadData, ReadEnd, ReaderDone, LoopTop,
                          ReaderExit, CloseSocket
<1>14. CASE Backend
  BY <1>14, QuietStep DEF Backend, BackendSend, BackendEof, BackendReset, SocketClosed
<1>15. CASE UNCHANGED vars
  BY <1>15, QuietStep DEF vars
<1> QED BY <1>1, <1>2, <1>3, <1>4, <1>5, <1>6, <1>7, <1>8, <1>9, <1>10, <1>11,
           <1>12, <1>13, <1>14, <1>15 DEF ReaderLoop

-----------------------------------------------------------------------------
(***************************************************************************)
(* Type correctness                                                        *)
(***************************************************************************)

LEMMA TypeStep == IInv /\ UpInv' /\ [Next]_vars => TypeOK'
<1> SUFFICES ASSUME IInv, UpInv', [Next]_vars PROVE TypeOK'
  OBVIOUS
<1> DEFINE OtherTypes ==
      /\ status \in {"new", "426", "400", "opening", "101", "500"}
      /\ ws \in {"none", "open", "closing", "closed"}
      /\ client \in {"open", "left", "closed"}
      /\ sock \in {"none", "connecting", "open", "closing", "closed"}
      /\ eof \in BOOLEAN
      /\ cutBy \in {"none", "reader", "cleanup", "overflow", "error", "write", "reset"}
      /\ sent \in Nat /\ msgs \in Nat
      /\ inbox \in Seq(Span) /\ chain \in Seq(Span) /\ wire \in Seq(Span)
      /\ head \in {"idle", "writing", "failing"}
      /\ cleanup \in {"none", "pending", "done"}
      /\ writer \in {"none", "held", "closing", "released"}
      /\ produced \in Nat /\ consumed \in Nat
      /\ reader \in {"none", "sleeping", "reading", "closing", "done"}
      /\ wsOut \in Seq(Span) /\ received \in Seq(Span)
<1> SUFFICES OtherTypes'
  <2> SUFFICES ASSUME OtherTypes' PROVE queued' \in Nat
    BY DEF TypeOK
  <2>1. Heard' \in Nat
    <3>1. inbox' # <<>> => inbox'[1].lo \in Nat
      BY PieceFields, EmptySeq
    <3> QED BY <3>1 DEF Heard
  <2>2. End(wire') \in Nat
    BY PieceFields
  <2> QED BY <2>1, <2>2 DEF UpInv, ChainLine, QueueAccounting
<1> USE DEF IInv, TypeOK, browserVars, sockVars, writeVars, readVars
<1>1. CASE Handshake
  BY <1>1 DEF Handshake, Refuse, Accept, SocketOpened, ConnectFailed, OpenTimeout
<1>2. CASE BrowserSend
  <2>1. PICK n \in MsgSizes : /\ sent' = sent + n
                              /\ inbox' = Append(inbox, [lo |-> sent, hi |-> sent + n])
    BY <1>2 DEF BrowserSend
  <2>2. sent' \in Nat /\ [lo |-> sent, hi |-> sent + n] \in Span
    BY <2>1, SizesAssumption DEF Span, Upstream!Span
  <2>3. inbox' \in Seq(Span)
    BY <2>1, <2>2, AppendProperties
  <2> QED BY <1>2, <2>2, <2>3 DEF BrowserSend
<1>3. CASE BrowserClose
  BY <1>3 DEF BrowserClose
<1>4. CASE WsFlush
  <2>1. received' \in Seq(Span) /\ wsOut' \in Seq(Span)
    BY <1>4, TailPiece, AppendProperties DEF WsFlush
  <2> QED BY <1>4, <2>1 DEF WsFlush
<1>5. CASE MessageEvent
  <2>1. inbox' \in Seq(Span) /\ Head(inbox) \in Span
    BY <1>5, TailPiece DEF MessageEvent
  <2>2. Append(chain, Head(inbox)) \in Seq(Span)
    BY <2>1, AppendProperties
  <2>3. chain' \in Seq(Span)
    BY <1>5, <2>2 DEF MessageEvent, Overflow, Enqueue
  <2> QED BY <1>5, <2>1, <2>3 DEF MessageEvent, Overflow, Enqueue, CloseWs, CloseWriter,
                            CloseSocket
<1>6. CASE CloseEvent \/ ErrorEvent
  BY <1>6 DEF CloseEvent, ChainCleanup, ErrorEvent, CloseWriter, CloseSocket
<1>7. CASE WriteStart \/ WriteError \/ Cleanup \/ WriterClosed
  BY <1>7 DEF WriteStart, WriteError, WriteFailure, Cleanup, WriterClosed,
              CloseWriter, CloseSocket
<1>8. CASE WriteDone
  <2>1. chain # <<>>
    BY <1>8 DEF WriteDone, UpInv, HeadState
  <2>2. chain' \in Seq(Span) /\ wire' \in Seq(Span)
    BY <1>8, <2>1, TailPiece, AppendProperties DEF WriteDone
  <2> QED BY <1>8, <2>2 DEF WriteDone
<1>9. CASE FailureSettled
  <2>1. chain # <<>>
    BY <1>9 DEF FailureSettled, UpInv, HeadState
  <2>2. chain' \in Seq(Span)
    BY <1>9, <2>1, TailPiece DEF FailureSettled
  <2> QED BY <1>9, <2>2 DEF FailureSettled, CloseWs
<1>10. CASE DrainTick \/ ReadEnd \/ ReaderDone
  BY <1>10 DEF DrainTick, ReadEnd, ReaderDone, LoopTop, ReaderExit, CloseWs, CloseSocket
<1>11. CASE ReadData
  <2>1. PICK n \in 1 .. ReadMax :
          /\ consumed' = consumed + n
          /\ wsOut' = IF ws = "open" THEN wsOut \o Slices(consumed, consumed + n)
                      ELSE wsOut
    BY <1>11 DEF ReadData
  <2>2. n \in Nat /\ consumed' \in Nat
    BY <2>1, LimitsAssumption
  <2>3. Slices(consumed, consumed + n) \in Seq(Span)
    BY <2>2, SlicesType
  <2>4. wsOut' \in Seq(Span)
    BY <2>1, <2>3, ConcatProperties
  <2> QED BY <1>11, <2>2, <2>4 DEF ReadData, LoopTop, ReaderExit, CloseWs, CloseSocket
<1>12. CASE Backend
  <2>1. produced' \in Nat
    BY <1>12, BoundsAssumption
       DEF Backend, BackendSend, BackendEof, BackendReset, SocketClosed
  <2> QED BY <1>12, <2>1
          DEF Backend, BackendSend, BackendEof, BackendReset, SocketClosed
<1>13. CASE UNCHANGED vars
  BY <1>13 DEF vars
<1> QED BY <1>1, <1>2, <1>3, <1>4, <1>5, <1>6, <1>7, <1>8, <1>9, <1>10, <1>11,
           <1>12, <1>13 DEF Next, Browser, Listeners, WriteChain, ReaderLoop

-----------------------------------------------------------------------------
(***************************************************************************)
(* The theorems                                                            *)
(***************************************************************************)

LEMMA InvStep == IInv /\ [Next]_vars => IInv'
<1> SUFFICES ASSUME IInv, [Next]_vars PROVE IInv'
  OBVIOUS
<1>1. UpInv'
  BY BrowserSendStep, MessageEventStep, WriteDoneStep, FailureSettledStep,
     SocketOpenedStep, OtherStep DEF Next, Handshake, Browser, Listeners, WriteChain
<1>2. TypeOK'
  BY <1>1, TypeStep
<1> QED BY <1>1, <1>2 DEF IInv

(* The inductive invariant holds in every behaviour, whatever the sizes,   *)
(* the limits and the number of messages.                                  *)
THEOREM Invariance == Spec => []IInv
<1>1. Init => IInv
  BY InitInv
<1>2. IInv /\ [Next]_vars => IInv'
  BY InvStep
<1> QED BY <1>1, <1>2, PTL DEF Spec

(* Every variable of the tunnel keeps its type. *)
THEOREM TypeCorrect == Spec => []TypeOK
<1>1. IInv => TypeOK
  BY DEF IInv
<1> QED BY <1>1, Invariance, PTL

(* writeChain never holds more than INBOUND_HIGH_WATER_MARK bytes. *)
THEOREM InboundIsBounded == Spec => []InboundBounded
<1>1. IInv => InboundBounded
  BY DEF IInv, UpInv
<1> QED BY <1>1, Invariance, PTL

(* queuedBytes is what was heard and has not been written. *)
THEOREM QueueIsAccounted == Spec => []QueueAccounting
<1>1. IInv => QueueAccounting
  BY DEF IInv, UpInv
<1> QED BY <1>1, Invariance, PTL

(* The listeners and the promise chain implement a byte stream from the    *)
(* browser to the backend.                                                 *)
THEOREM UpstreamRefinement == Spec => UpstreamIsStream
<1>1. Init => Upstream!Init
  BY DEF Init, Upstream!Init
<1>2. IInv /\ [Next]_vars => [Upstream!Next]_(Upstream!svars)
  <2> SUFFICES ASSUME IInv, [Next]_vars PROVE [Upstream!Next]_(Upstream!svars)
    OBVIOUS
  <2> USE DEF Upstream!Next, Upstream!svars, browserVars, sockVars, writeVars
  <2>1. CASE BrowserSend
    <3>1. PICK n \in MsgSizes : sent' = sent + n
      BY <2>1 DEF BrowserSend
    <3>2. sent' \in Nat /\ sent' >= sent
      BY <3>1, SizesAssumption DEF IInv, TypeOK
    <3> QED BY <2>1, <3>2 DEF BrowserSend, Upstream!Write
  <2>2. CASE WriteDone
    <3>1. /\ chain # <<>> /\ chain[1].lo = End(wire) /\ wire' = Append(wire, chain[1])
          /\ sock \in {"open", "closing"} /\ UNCHANGED <<sent, sock>>
      <4>1. chain # <<>> /\ chain \in Seq(Span) /\ chain[1].lo = End(wire)
        BY <2>2 DEF WriteDone, IInv, UpInv, HeadState, TypeOK
      <4> QED BY <2>2, <4>1, TailPiece DEF WriteDone
    <3>2. /\ chain[1].lo \in Nat /\ chain[1].hi \in Nat /\ chain[1].lo <= chain[1].hi
          /\ chain[1].hi <= sent /\ sent \in Nat /\ chain[1] \in Span
      BY <3>1, HeadBelowSent
    <3>3. chain[1] = [lo |-> End(wire), hi |-> End(wire) + (chain[1].hi - End(wire))]
      BY <3>1, <3>2 DEF Span, Upstream!Span
    <3>4. chain[1].hi - End(wire) \in 0 .. (sent - End(wire))
      BY <3>1, <3>2
    <3> QED BY <3>1, <3>3, <3>4 DEF Upstream!Deliver, End
  <2>3. CASE \/ Handshake \/ BrowserClose \/ WsFlush \/ Listeners
             \/ WriteStart \/ WriteError \/ FailureSettled \/ Cleanup \/ WriterClosed
             \/ ReaderLoop \/ Backend \/ UNCHANGED vars
    <3>1. UNCHANGED <<sent, wire>>
      BY <2>3 DEF Handshake, Refuse, Accept, SocketOpened, ConnectFailed, OpenTimeout,
          BrowserClose, WsFlush, Listeners, MessageEvent, CloseEvent, ErrorEvent,
          WriteStart, WriteError, FailureSettled, Cleanup, WriterClosed,
          ReaderLoop, DrainTick, ReadData, ReadEnd, ReaderDone,
          Backend, BackendSend, BackendEof, BackendReset, SocketClosed, vars
    <3>2. sock = "closed" => sock' = "closed"
      BY <2>3 DEF Handshake, Refuse, Accept, SocketOpened, ConnectFailed, OpenTimeout,
          BrowserClose, WsFlush, Listeners, MessageEvent, CloseEvent, ErrorEvent,
          WriteStart, WriteError, FailureSettled, Cleanup, WriterClosed,
          ReaderLoop, DrainTick, ReadData, ReadEnd, ReaderDone, LoopTop, ReaderExit,
          Backend, BackendSend, BackendEof, BackendReset, SocketClosed, vars,
          WriteFailure, Overflow, Enqueue, CloseSocket, IInv, UpInv, Untouched
    <3> QED BY <3>1, <3>2 DEF Upstream!Cut
  <2> QED BY <2>1, <2>2, <2>3 DEF Next, Browser, WriteChain
<1> QED BY <1>1, <1>2, Invariance, PTL DEF Spec, UpstreamIsStream, Upstream!Spec

-----------------------------------------------------------------------------
(***************************************************************************)
(* The cleanup behind the close event                                      *)
(*                                                                         *)
(* When the cleanup closes a socket that is still open, no write has       *)
(* failed, no message was dropped and none is left: the tunnel is healthy, *)
(* the chain and the inbox are empty, so End(wire) = Heard = sent.         *)
(***************************************************************************)

CleanupState ==
  /\ status # "101" => /\ cleanup = "none" /\ client = "open" /\ reader = "none"
                       /\ ws \in {"none", "open"}
  /\ status = "101" /\ sock = "open" => writer = "held"
  /\ ws = "closing" => sock # "open"
  /\ cleanup = "pending" /\ sock = "open" => client # "open" /\ inbox = <<>>

Drained ==
  cutBy = "cleanup" => /\ sock \in {"closing", "closed"} /\ client # "open"
                       /\ inbox = <<>> /\ chain = <<>> /\ End(wire) = sent

LEMMA CleanupStateStep == IInv /\ CleanupState /\ [Next]_vars => CleanupState'
<1> SUFFICES ASSUME IInv, CleanupState, [Next]_vars PROVE CleanupState'
  OBVIOUS
<1> USE DEF CleanupState, browserVars, sockVars, writeVars, readVars
<1>0. Untouched /\ HeadState
  BY DEF IInv, UpInv
<1>1. CASE Handshake
  BY <1>0, <1>1 DEF Untouched, Handshake, Refuse, Accept, SocketOpened, ConnectFailed,
                    OpenTimeout
<1>2. CASE Browser
  BY <1>2 DEF Browser, BrowserSend, BrowserClose, WsFlush
<1>3. CASE MessageEvent
  BY <1>0, <1>3 DEF Untouched, MessageEvent, Overflow, Enqueue, CloseWs, CloseWriter,
                    CloseSocket
<1>4. CASE CloseEvent \/ ErrorEvent
  BY <1>4 DEF CloseEvent, ChainCleanup, ErrorEvent, CloseWriter, CloseSocket
<1>5. CASE WriteStart \/ WriteDone \/ WriteError
  BY <1>0, <1>5 DEF Untouched, WriteStart, WriteDone, WriteError, WriteFailure, CloseSocket
<1>6. CASE FailureSettled
  BY <1>0, <1>6 DEF Untouched, FailureSettled, CloseWs
<1>7. CASE Cleanup \/ WriterClosed
  BY <1>7 DEF Cleanup, WriterClosed, CloseWriter, CloseSocket
<1>8. CASE ReaderLoop
  BY <1>8 DEF ReaderLoop, DrainTick, ReadData, ReadEnd, ReaderDone, LoopTop, ReaderExit,
              CloseWs, CloseSocket
<1>9. CASE Backend
  BY <1>9 DEF Backend, BackendSend, BackendEof, BackendReset, SocketClosed
<1>10. CASE UNCHANGED vars
  BY <1>10 DEF vars
<1> QED BY <1>1, <1>2, <1>3, <1>4, <1>5, <1>6, <1>7, <1>8, <1>9, <1>10
        DEF Next, Listeners, WriteChain

(* Only the cleanup sets cutBy to "cleanup", and then it has drained. *)
LEMMA DrainedStep == IInv /\ CleanupState /\ Drained /\ [Next]_vars => Drained'
<1> SUFFICES ASSUME IInv, CleanupState, Drained, [Next]_vars PROVE Drained'
  OBVIOUS
<1> USE DEF browserVars, sockVars, writeVars, readVars, End, Upstream!End
<1>1. CASE Cleanup
  <2>1. CASE sock = "open"
    <3>1. status = "101" /\ client # "open" /\ inbox = <<>> /\ chain = <<>> /\ Healthy
      BY <1>1, <2>1 DEF Cleanup, ChainSettled, CleanupState, Healthy
    <3>2. End(wire) = sent
      BY <3>1 DEF IInv, UpInv, HealthyLine, Heard
    <3> QED BY <1>1, <2>1, <3>1, <3>2 DEF Cleanup, CloseSocket, Drained
  <2>2. CASE sock # "open"
    BY <1>1, <2>2 DEF Cleanup, CloseSocket, Drained
  <2> QED BY <2>1, <2>2
<1>2. CASE Handshake
  BY <1>2 DEF Drained, Untouched, IInv, UpInv, Handshake, Refuse, Accept, SocketOpened,
              ConnectFailed, OpenTimeout
<1>3. CASE Browser
  BY <1>3 DEF Drained, Browser, BrowserSend, BrowserClose, WsFlush
<1>4. CASE Listeners
  BY <1>4 DEF Drained, Listeners, MessageEvent, Overflow, Enqueue, CloseEvent, ErrorEvent,
              CloseSocket
<1>5. CASE WriteStart \/ WriteError \/ WriterClosed
  BY <1>5 DEF Drained, WriteStart, WriteError, WriteFailure, WriterClosed, CloseSocket
<1>6. CASE WriteDone \/ FailureSettled
  <2>1. chain # <<>>
    BY <1>6 DEF WriteDone, FailureSettled, IInv, UpInv, HeadState
  <2> QED BY <1>6, <2>1 DEF Drained, WriteDone, FailureSettled
<1>7. CASE ReaderLoop
  BY <1>7 DEF Drained, ReaderLoop, DrainTick, ReadData, ReadEnd, ReaderDone, LoopTop,
              ReaderExit, CloseSocket
<1>8. CASE Backend
  BY <1>8 DEF Drained, Backend, BackendSend, BackendEof, BackendReset, SocketClosed
<1>9. CASE UNCHANGED vars
  BY <1>9 DEF vars, Drained
<1> QED BY <1>1, <1>2, <1>3, <1>4, <1>5, <1>6, <1>7, <1>8, <1>9 DEF Next, WriteChain

(* A socket that the cleanup closed has been given every byte the browser  *)
(* sent, whatever was interleaved with the drain.                          *)
THEOREM CleanupHasDrained == Spec => []CleanupDrains
<1>1. Init => CleanupState /\ Drained
  BY DEF Init, CleanupState, Drained
<1>2. IInv /\ CleanupState /\ Drained /\ [Next]_vars => (CleanupState /\ Drained)'
  BY CleanupStateStep, DrainedStep
<1>3. Drained => CleanupDrains
  BY DEF Drained, CleanupDrains
<1> QED BY <1>1, <1>2, <1>3, Invariance, PTL DEF Spec

(***************************************************************************)
(* The backend-to-browser direction.  The reader loop and the WebSocket    *)
(* implement ByteStream, no frame exceeds what ws.send accepts, and the    *)
(* send buffer never holds more than the high-water mark and one read.     *)
(*                                                                         *)
(* The invariant says where the frames lie in the backend's stream:        *)
(*                                                                         *)
(*        received        wsOut                                            *)
(*    |-------------| |-----------|                                        *)
(*    0        End(received)   consumed      produced                      *)
(*                                                                         *)
(* Once the WebSocket is closing nothing is added to wsOut any more, and   *)
(* consumed may run ahead of it.                                           *)
(***************************************************************************)

(* How far the frames sent to the browser reach. *)
FramesEnd == IF wsOut = <<>> THEN End(received) ELSE End(wsOut)

Idling ==
  status # "101" =>
    wsOut = <<>> /\ received = <<>> /\ consumed = 0 /\ reader = "none"

FrameLine ==
  /\ Ordered(wsOut)
  /\ Tight(wsOut)
  /\ wsOut # <<>> => wsOut[1].lo = End(received)
  /\ FramesEnd <= consumed
  /\ ws = "open" => FramesEnd = consumed
  /\ consumed <= produced

(* The loop reads only after it has seen room in the send buffer, and      *)
(* while it reads the buffer only shrinks.                                 *)
RoomToRead == reader = "reading" => Extent(wsOut) <= OutHWM

DownInv ==
  /\ TypeOK
  /\ Idling
  /\ FrameLine
  /\ FrameLimit
  /\ RoomToRead
  /\ OutboundBounded

-----------------------------------------------------------------------------
(* Lists of pieces that follow each other.                                 *)

LEMMA ConcatInOrder ==
  ASSUME NEW s \in Seq(Span), NEW t \in Seq(Span), t # <<>>,
         Ordered(s), Ordered(t), Tight(s), Tight(t),
         s # <<>> => End(s) = t[1].lo
  PROVE  /\ s \o t \in Seq(Span) /\ s \o t # <<>>
         /\ Ordered(s \o t) /\ Tight(s \o t)
         /\ End(s \o t) = End(t)
         /\ (s \o t)[1] = IF s = <<>> THEN t[1] ELSE s[1]
         /\ \A i \in 1 .. Len(s \o t) :
              \/ i \in 1 .. Len(s) /\ (s \o t)[i] = s[i]
              \/ i - Len(s) \in 1 .. Len(t) /\ (s \o t)[i] = t[i - Len(s)]
<1> DEFINE c == s \o t
<1>1. /\ c \in Seq(Span) /\ Len(c) = Len(s) + Len(t)
      /\ Len(s) \in Nat /\ Len(t) \in Nat \ {0}
      /\ \A i \in 1 .. Len(s) : c[i] = s[i]
      /\ \A i \in 1 .. Len(t) : c[Len(s) + i] = t[i]
      /\ s = <<>> <=> Len(s) = 0
  BY ConcatProperties, EmptySeq, LenProperties
<1> HIDE DEF c
<1>2. \A i \in 1 .. Len(c) : \/ i \in 1 .. Len(s) /\ c[i] = s[i]
                             \/ i - Len(s) \in 1 .. Len(t) /\ c[i] = t[i - Len(s)]
  <2> TAKE i \in 1 .. Len(c)
  <2>1. CASE i <= Len(s)
    BY <1>1, <2>1
  <2>2. CASE i > Len(s)
    <3>1. i - Len(s) \in 1 .. Len(t) /\ i = Len(s) + (i - Len(s))
      BY <1>1, <2>2
    <3> QED BY <1>1, <3>1
  <2> QED BY <1>1, <2>1, <2>2
<1>3. c # <<>> /\ End(c) = End(t) /\ c[1] = IF s = <<>> THEN t[1] ELSE s[1]
  <2>1. c # <<>>
    BY <1>1, EmptySeq
  <2>2. c[Len(c)] = t[Len(t)]
    BY <1>1
  <2>3. c[1] = IF s = <<>> THEN t[1] ELSE s[1]
    <3>1. CASE s = <<>>
      BY <1>1, <3>1
    <3>2. CASE s # <<>>
      BY <1>1, <3>2
    <3> QED BY <3>1, <3>2
  <2> QED BY <1>1, <2>1, <2>2, <2>3 DEF End, Upstream!End
<1>4. /\ \A i \in 1 .. Len(s) : s[i].lo \in Nat /\ s[i].hi \in Nat
      /\ \A i \in 1 .. Len(t) : t[i].lo \in Nat /\ t[i].hi \in Nat
      /\ \A i \in 1 .. Len(s) : s[i].hi <= End(s) /\ End(s) \in Nat
  BY PieceFields, EndIsLast
<1>5. \A j \in 1 .. Len(t) : t[1].lo <= t[j].lo
  <2> TAKE j \in 1 .. Len(t)
  <2>1. 1 \in 1 .. Len(t)
    BY <1>1
  <2>2. CASE j = 1
    BY <1>4, <2>2
  <2>3. CASE j # 1
    <3>1. t[1].lo <= t[1].hi /\ t[1].hi <= t[j].lo
      BY <2>1, <2>3 DEF Ordered
    <3> QED BY <1>4, <2>1, <3>1
  <2> QED BY <2>2, <2>3
<1>6. Ordered(c)
  <2>1. ASSUME NEW i \in 1 .. Len(c) PROVE c[i].lo <= c[i].hi
    BY <1>2 DEF Ordered
  <2>2. ASSUME NEW i \in 1 .. Len(c), NEW j \in 1 .. Len(c), i < j
        PROVE  c[i].hi <= c[j].lo
    <3>1. CASE j \in 1 .. Len(s)
      <4>1. i \in 1 .. Len(s) /\ c[i] = s[i] /\ c[j] = s[j]
        BY <1>1, <2>2, <3>1
      <4> QED BY <2>2, <3>1, <4>1 DEF Ordered
    <3>2. CASE j \notin 1 .. Len(s) /\ i \in 1 .. Len(s)
      <4>1. /\ c[i] = s[i] /\ j - Len(s) \in 1 .. Len(t) /\ c[j] = t[j - Len(s)]
            /\ s # <<>>
        BY <1>1, <1>2, <2>2, <3>2
      <4>2. c[i].hi <= End(s) /\ End(s) = t[1].lo /\ t[1].lo <= c[j].lo
        BY <1>4, <1>5, <3>2, <4>1
      <4>3. c[i].hi \in Nat /\ End(s) \in Nat /\ c[j].lo \in Nat
        BY <1>4, <3>2, <4>1
      <4> QED BY <4>2, <4>3
    <3>3. CASE i \notin 1 .. Len(s)
      <4>1. /\ i - Len(s) \in 1 .. Len(t) /\ c[i] = t[i - Len(s)]
            /\ j - Len(s) \in 1 .. Len(t) /\ c[j] = t[j - Len(s)]
            /\ i - Len(s) < j - Len(s)
        BY <1>1, <1>2, <2>2, <3>3
      <4> QED BY <4>1 DEF Ordered
    <3> QED BY <3>1, <3>2, <3>3
  <2> QED BY <2>1, <2>2 DEF Ordered
<1>7. Tight(c)
  <2> SUFFICES ASSUME NEW i \in 1 .. Len(c) - 1 PROVE c[i].hi = c[i + 1].lo
    BY DEF Tight
  <2>1. CASE i < Len(s)
    <3>1. c[i] = s[i] /\ c[i + 1] = s[i + 1] /\ i \in 1 .. Len(s) - 1
      BY <1>1, <2>1
    <3> QED BY <3>1 DEF Tight
  <2>2. CASE i = Len(s)
    <3>1. c[i] = s[i] /\ c[i + 1] = t[1] /\ s # <<>>
      BY <1>1, <2>2
    <3> QED BY <2>2, <3>1 DEF End, Upstream!End
  <2>3. CASE i > Len(s)
    <3>1. /\ i - Len(s) \in 1 .. Len(t) - 1
          /\ c[i] = t[i - Len(s)] /\ c[i + 1] = t[(i - Len(s)) + 1]
      <4>1. /\ i - Len(s) \in 1 .. Len(t) - 1
            /\ i \in 1 .. Len(c) /\ i + 1 \in 1 .. Len(c)
            /\ i \notin 1 .. Len(s) /\ i + 1 \notin 1 .. Len(s)
            /\ (i + 1) - Len(s) = (i - Len(s)) + 1
        BY <1>1, <2>3
      <4>2. c[i] = t[i - Len(s)] /\ c[i + 1] = t[(i + 1) - Len(s)]
        BY <1>2, <4>1
      <4> QED BY <4>1, <4>2
    <3> QED BY <3>1 DEF Tight
  <2> QED BY <1>1, <2>1, <2>2, <2>3
<1> QED BY <1>1, <1>2, <1>3, <1>6, <1>7 DEF c

(* Multiplication by the frame size is monotone.                           *)
LEMMA TimesMonotone ==
  ASSUME NEW a \in Nat, NEW b \in Nat, NEW w \in Nat, a <= b
  PROVE  /\ a * w \in Nat /\ b * w \in Nat
         /\ a * w <= b * w
<1>1. PICK d \in Nat : b = a + d
  <2>1. b - a \in Nat /\ b = a + (b - a)
    OBVIOUS
  <2> QED BY <2>1
<1>2. a * w \in Nat /\ d * w \in Nat
  OBVIOUS
<1>3. b * w = a * w + d * w
  BY <1>1
<1> QED BY <1>2, <1>3

(* How many frames a read takes: enough, and not one too many.             *)
LEMMA FrameCount ==
  ASSUME NEW n \in Nat \ {0}
  PROVE  LET k == (n + WsMax - 1) \div WsMax
         IN  k \in Nat \ {0} /\ (k - 1) * WsMax < n /\ n <= k * WsMax
<1>1. WsMax \in Nat /\ WsMax > 0
  BY LimitsAssumption
<1>2. ASSUME NEW a \in Nat, NEW w \in Nat, w > 0
      PROVE  /\ a \div w \in Nat
             /\ (a \div w) * w <= a /\ a < (a \div w) * w + w
  BY <1>2, SMTT(60)
<1> DEFINE a == n + WsMax - 1
           k == a \div WsMax
<1>3. a \in Nat
  BY <1>1
<1>4. k \in Nat /\ k * WsMax <= a /\ a < k * WsMax + WsMax
  BY <1>1, <1>2, <1>3
<1> HIDE DEF k
<1>5. k # 0
  BY <1>1, <1>4
<1>6. (k - 1) * WsMax = k * WsMax - WsMax /\ k * WsMax \in Nat
  BY <1>1, <1>4, <1>5, SMTT(30)
<1>7. (k - 1) * WsMax < n /\ n <= k * WsMax
  BY <1>1, <1>4, <1>6
<1> QED BY <1>4, <1>5, <1>7 DEF k

(* The frames of one read carry its bytes, in order, and none of them is   *)
(* larger than ws.send accepts.                                            *)
LEMMA SlicesLine ==
  ASSUME NEW lo \in Nat, NEW n \in Nat \ {0}
  PROVE  LET s == Slices(lo, lo + n)
         IN  /\ s \in Seq(Span) /\ s # <<>>
             /\ s[1].lo = lo /\ End(s) = lo + n
             /\ Ordered(s) /\ Tight(s)
             /\ \A i \in 1 .. Len(s) : Size(s[i]) <= WsMax
<1> DEFINE k == (n + WsMax - 1) \div WsMax
           s == Slices(lo, lo + n)
<1>1. WsMax \in Nat /\ WsMax > 0
  BY LimitsAssumption
<1>2. k \in Nat \ {0} /\ (k - 1) * WsMax < n /\ n <= k * WsMax
  BY FrameCount
<1>3. (lo + n) - lo + WsMax - 1 = n + WsMax - 1
  BY <1>1
<1>4. s = [i \in 1 .. k |->
            [lo |-> lo + (i - 1) * WsMax,
             hi |-> IF lo + i * WsMax < lo + n THEN lo + i * WsMax ELSE lo + n]]
  BY <1>3 DEF Slices
<1>5. s \in Seq(Span)
  BY <1>1, SlicesType
<1> HIDE DEF k, s
<1>6. Len(s) = k /\ s # <<>>
  <2>1. Len(s) \in Nat /\ DOMAIN s = 1 .. Len(s)
    BY <1>5, LenProperties
  <2>2. DOMAIN s = 1 .. k
    BY <1>4
  <2>3. \A x \in Int : x \in 1 .. Len(s) <=> x \in 1 .. k
    BY <2>1, <2>2, Zenon
  <2>4. Len(s) = k
    <3>1. k \in 1 .. Len(s)
      BY <1>2, <2>3
    <3>2. Len(s) \in 1 .. k
      BY <2>1, <2>3, <3>1
    <3>3. k \in Int /\ Len(s) \in Int
      BY <1>2, <2>1
    <3>4. k <= Len(s) /\ Len(s) <= k
      BY <3>1, <3>2, <3>3
    <3> QED BY <3>3, <3>4
  <2> QED BY <1>2, <2>4, EmptySeq
<1>7. ASSUME NEW i \in 1 .. k
      PROVE  /\ (i - 1) * WsMax \in Nat /\ i * WsMax \in Nat
             /\ i * WsMax = (i - 1) * WsMax + WsMax
             /\ s[i].lo = lo + (i - 1) * WsMax
             /\ i < k => s[i].hi = lo + i * WsMax
             /\ i = k => s[i].hi = lo + n
             /\ s[i].lo <= s[i].hi /\ s[i].hi <= s[i].lo + WsMax
             /\ s[i].hi <= lo + i * WsMax
  <2>1. /\ (i - 1) * WsMax \in Nat /\ i * WsMax \in Nat
        /\ i * WsMax = (i - 1) * WsMax + WsMax
    <3>1. i \in Nat /\ i - 1 \in Nat
      BY <1>2
    <3> QED BY <1>1, <3>1, SMTT(30)
  <2>2. (i - 1) * WsMax < n
    <3>1. (i - 1) * WsMax <= (k - 1) * WsMax /\ (k - 1) * WsMax \in Nat
      BY <1>1, <1>2, TimesMonotone
    <3> QED BY <1>2, <2>1, <3>1
  <2>3. i < k => i * WsMax < n
    <3>1. i < k => i * WsMax <= (k - 1) * WsMax /\ (k - 1) * WsMax \in Nat
      BY <1>1, <1>2, TimesMonotone
    <3> QED BY <1>2, <2>1, <3>1
  <2>4. i = k => n <= i * WsMax
    BY <1>2
  <2>5. /\ s[i].lo = lo + (i - 1) * WsMax
        /\ s[i].hi = IF lo + i * WsMax < lo + n THEN lo + i * WsMax ELSE lo + n
    BY <1>4
  <2> HIDE DEF s
  <2> QED BY <1>1, <2>1, <2>2, <2>3, <2>4, <2>5
<1>8. s[1].lo = lo /\ End(s) = lo + n
  <2>1. s[1].lo = lo + (1 - 1) * WsMax /\ s[k].hi = lo + n
    BY <1>2, <1>7
  <2> QED BY <1>1, <1>6, <2>1 DEF End, Upstream!End
<1>9. Tight(s)
  <2> SUFFICES ASSUME NEW i \in 1 .. k - 1 PROVE s[i].hi = s[i + 1].lo
    BY <1>6 DEF Tight
  <2>1. i \in 1 .. k /\ i + 1 \in 1 .. k /\ i < k /\ (i + 1) - 1 = i
    BY <1>2
  <2> QED BY <1>7, <2>1
<1>10. Ordered(s)
  <2>1. ASSUME NEW i \in 1 .. k, NEW j \in 1 .. k, i < j
        PROVE  s[i].hi <= s[j].lo
    <3>1. i * WsMax <= (j - 1) * WsMax
      BY <1>1, <1>2, <2>1, TimesMonotone
    <3>2. /\ s[i].hi <= lo + i * WsMax /\ s[j].lo = lo + (j - 1) * WsMax
          /\ i * WsMax \in Nat /\ (j - 1) * WsMax \in Nat
      BY <1>7
    <3>3. s[i].hi \in Nat
      BY <1>5, <1>6, PieceFields
    <3> QED BY <3>1, <3>2, <3>3
  <2> QED BY <1>6, <1>7, <2>1 DEF Ordered
<1>11. \A i \in 1 .. Len(s) : Size(s[i]) <= WsMax
  <2> TAKE i \in 1 .. Len(s)
  <2>1. s[i].hi <= s[i].lo + WsMax /\ s[i].lo \in Nat /\ s[i].hi \in Nat
    BY <1>5, <1>6, <1>7, PieceFields
  <2> QED BY <1>1, <2>1 DEF Size, Upstream!Size
<1> QED BY <1>5, <1>6, <1>8, <1>9, <1>10, <1>11 DEF s

-----------------------------------------------------------------------------
(***************************************************************************)
(* The initial state, and the steps that send no frame                     *)
(***************************************************************************)

LEMMA DownInit == Init => DownInv
<1> SUFFICES ASSUME Init PROVE DownInv
  OBVIOUS
<1>1. TypeOK
  BY InitInv DEF IInv
<1>2. Len(<<>>) = 0 /\ DOMAIN <<>> = {}
  BY EmptySeq
<1>3. Ordered(<<>>) /\ Tight(<<>>) /\ FrameLimit
  BY <1>2 DEF Init, Ordered, Tight, FrameLimit
<1>4. Idling /\ FrameLine /\ RoomToRead /\ OutboundBounded
  BY <1>3, LimitsAssumption
     DEF Init, Idling, FrameLine, FramesEnd, RoomToRead, OutboundBounded, Extent,
         End, Upstream!End
<1> QED BY <1>1, <1>3, <1>4 DEF DownInv

(* A step that leaves the reader loop alone. *)
LEMMA DownQuiet ==
  ASSUME DownInv, TypeOK', UNCHANGED readVars,
         status = "101" => status' = "101",
         ws' = "open" => ws = "open" \/ status = "new"
  PROVE  DownInv'
<1> USE DEF readVars
<1>1. Idling'
  BY DEF DownInv, Idling
<1>2. Ordered(wsOut') /\ Tight(wsOut') /\ (wsOut' # <<>> => wsOut'[1].lo = End(received'))
      /\ FramesEnd' = FramesEnd /\ consumed' = consumed /\ produced' = produced
      /\ (ws = "open" => FramesEnd = consumed) /\ FramesEnd <= consumed
      /\ consumed <= produced
  BY DEF DownInv, FrameLine, FramesEnd, End, Upstream!End, Ordered, Tight
<1>3. status = "new" => FramesEnd = 0 /\ consumed = 0
  BY DEF DownInv, Idling, FramesEnd, End, Upstream!End
<1>4. FrameLine'
  BY <1>2, <1>3 DEF FrameLine
<1>5. FrameLimit' /\ RoomToRead' /\ OutboundBounded'
  BY DEF DownInv, FrameLimit, RoomToRead, OutboundBounded, Extent, End, Upstream!End,
         Size, Upstream!Size
<1> QED BY <1>1, <1>4, <1>5 DEF DownInv

LEMMA DownOther ==
  ASSUME DownInv, TypeOK',
         \/ Refuse \/ Accept \/ ConnectFailed \/ OpenTimeout
         \/ BrowserSend \/ BrowserClose \/ Listeners \/ WriteChain
         \/ BackendEof \/ BackendReset \/ SocketClosed \/ UNCHANGED vars
  PROVE  DownInv'
<1> USE DEF browserVars, sockVars, writeVars
<1>1. CASE Refuse \/ Accept \/ ConnectFailed \/ OpenTimeout
  BY <1>1, DownQuiet DEF Refuse, Accept, ConnectFailed, OpenTimeout
<1>2. CASE BrowserSend \/ BrowserClose
  BY <1>2, DownQuiet DEF BrowserSend, BrowserClose
<1>3. CASE Listeners
  BY <1>3, DownQuiet DEF Listeners, MessageEvent, Overflow, Enqueue, CloseEvent,
                         ErrorEvent, CloseWs
<1>4. CASE WriteChain
  BY <1>4, DownQuiet DEF WriteChain, WriteStart, WriteDone, WriteError, FailureSettled,
                         Cleanup, WriterClosed, CloseWs
<1>5. CASE BackendEof \/ BackendReset \/ SocketClosed
  BY <1>5, DownQuiet DEF BackendEof, BackendReset, SocketClosed
<1>6. CASE UNCHANGED vars
  BY <1>6, DownQuiet DEF vars
<1> QED BY <1>1, <1>2, <1>3, <1>4, <1>5, <1>6

(* The backend hands over more bytes. *)
LEMMA DownBackendSend == DownInv /\ TypeOK' /\ BackendSend => DownInv'
<1> SUFFICES ASSUME DownInv, TypeOK', BackendSend PROVE DownInv'
  OBVIOUS
<1>1. /\ UNCHANGED <<status, ws, consumed, reader, wsOut, received>>
      /\ produced' \in produced + 1 .. MaxProduced
  BY DEF BackendSend
<1>2. consumed \in Nat /\ produced \in Nat /\ consumed <= produced
  BY DEF DownInv, TypeOK, FrameLine
<1>3. consumed' <= produced'
  BY <1>1, <1>2, BoundsAssumption
<1>4. FrameLine'
  BY <1>1, <1>3 DEF DownInv, FrameLine, FramesEnd, End, Upstream!End, Ordered, Tight
<1>5. Idling' /\ FrameLimit' /\ RoomToRead' /\ OutboundBounded'
  BY <1>1 DEF DownInv, Idling, FrameLimit, RoomToRead, OutboundBounded, Extent, End,
              Upstream!End, Size, Upstream!Size
<1> QED BY <1>4, <1>5 DEF DownInv

(* The pipes start with nothing read and nothing in the send buffer. *)
LEMMA DownSocketOpened == DownInv /\ TypeOK' /\ SocketOpened => DownInv'
<1> SUFFICES ASSUME DownInv, TypeOK', SocketOpened PROVE DownInv'
  OBVIOUS
<1>1. UNCHANGED <<ws, produced, consumed, wsOut, received>>
  BY DEF SocketOpened
<1>2. CASE status = "opening"
  <2>1. status' = "101" /\ wsOut' = <<>>
    BY <1>1, <1>2 DEF SocketOpened, DownInv, Idling
  <2>2. FrameLine' /\ FrameLimit'
    BY <1>1 DEF DownInv, FrameLine, FramesEnd, End, Upstream!End, Ordered, Tight,
                FrameLimit, Size, Upstream!Size
  <2>3. Idling' /\ RoomToRead' /\ OutboundBounded'
    BY <2>1, LimitsAssumption DEF Idling, RoomToRead, OutboundBounded, Extent
  <2> QED BY <2>2, <2>3 DEF DownInv
<1>3. CASE status # "opening"
  BY <1>1, <1>3, DownQuiet DEF SocketOpened, readVars
<1> QED BY <1>2, <1>3

-----------------------------------------------------------------------------
(***************************************************************************)
(* The steps that send a frame or read                                     *)
(***************************************************************************)

(* The first frame of the send buffer is the next piece of the stream. *)
LEMMA FirstFrame ==
  ASSUME DownInv, wsOut # <<>>
  PROVE  /\ wsOut[1] \in Span /\ wsOut[1].lo \in Nat /\ wsOut[1].hi \in Nat
         /\ wsOut[1].lo = End(received)
         /\ wsOut[1].lo <= wsOut[1].hi
         /\ wsOut[1].hi <= End(wsOut) /\ End(wsOut) \in Nat
         /\ End(wsOut) <= consumed
         /\ consumed \in Nat /\ produced \in Nat /\ consumed <= produced
<1>1. wsOut \in Seq(Span) /\ consumed \in Nat /\ produced \in Nat
  BY DEF DownInv, TypeOK
<1>2. 1 \in 1 .. Len(wsOut)
  BY <1>1, PieceFields
<1>3. wsOut[1].hi <= End(wsOut) /\ wsOut[1].lo <= wsOut[1].hi
  BY <1>1, <1>2, EndIsLast DEF DownInv, FrameLine, Ordered
<1>4. wsOut[1] \in Span /\ wsOut[1].lo \in Nat /\ wsOut[1].hi \in Nat
      /\ End(wsOut) \in Nat
  BY <1>1, <1>2, PieceFields
<1> QED BY <1>1, <1>3, <1>4 DEF DownInv, FrameLine, FramesEnd

LEMMA DownFlush == DownInv /\ TypeOK' /\ WsFlush => DownInv'
<1> SUFFICES ASSUME DownInv, TypeOK', WsFlush PROVE DownInv'
  OBVIOUS
<1>1. /\ wsOut # <<>> /\ wsOut' = Tail(wsOut) /\ received' = Append(received, wsOut[1])
      /\ UNCHANGED <<status, ws, produced, consumed, reader>>
      /\ wsOut \in Seq(Span) /\ received \in Seq(Span)
  <2>1. wsOut \in Seq(Span) /\ received \in Seq(Span)
    BY DEF DownInv, TypeOK
  <2>2. wsOut # <<>> => Head(wsOut) = wsOut[1]
    BY <2>1, TailPiece
  <2> QED BY <2>1, <2>2 DEF WsFlush
<1>2. End(received') = wsOut[1].hi
  <2>1. /\ Len(received) \in Nat /\ Len(received') = Len(received) + 1
        /\ received' # <<>> /\ received'[Len(received) + 1] = wsOut[1]
    BY <1>1, FirstFrame, AppendProperties, LenProperties
  <2> QED BY <2>1 DEF End, Upstream!End
<1>3. /\ Ordered(wsOut') /\ Tight(wsOut')
      /\ wsOut' # <<>> => /\ End(wsOut') = End(wsOut)
                          /\ wsOut'[1].lo = wsOut[1].hi
      /\ wsOut' = <<>> => End(wsOut) = wsOut[1].hi
  BY <1>1, TailInOrder DEF DownInv, FrameLine
<1>4. FramesEnd' = FramesEnd
  BY <1>1, <1>2, <1>3 DEF FramesEnd
<1>5. FrameLine'
  BY <1>1, <1>2, <1>3, <1>4 DEF DownInv, FrameLine
<1>6. /\ Extent(wsOut) \in Int /\ Extent(wsOut') \in Int
      /\ Extent(wsOut') <= Extent(wsOut)
  <2>1. /\ wsOut[1].lo \in Nat /\ wsOut[1].hi \in Nat /\ End(wsOut) \in Nat
        /\ wsOut[1].lo <= wsOut[1].hi /\ wsOut[1].hi <= End(wsOut)
    BY <1>1, FirstFrame
  <2>2. Extent(wsOut) = End(wsOut) - wsOut[1].lo
    BY <1>1 DEF Extent
  <2>3. CASE wsOut' = <<>>
    <3>1. Extent(wsOut') = 0
      BY <2>3 DEF Extent
    <3> QED BY <2>1, <2>2, <3>1
  <2>4. CASE wsOut' # <<>>
    <3>1. Extent(wsOut') = End(wsOut) - wsOut[1].hi
      BY <1>3, <2>4 DEF Extent
    <3> QED BY <2>1, <2>2, <3>1
  <2> QED BY <2>3, <2>4
<1>7. RoomToRead' /\ OutboundBounded'
  BY <1>1, <1>6, LimitsAssumption DEF DownInv, RoomToRead, OutboundBounded
<1>8. FrameLimit'
  <2>1. /\ Len(wsOut) \in Nat \ {0} /\ Len(wsOut') = Len(wsOut) - 1
        /\ DOMAIN wsOut = 1 .. Len(wsOut) /\ DOMAIN wsOut' = 1 .. Len(wsOut')
        /\ \A i \in 1 .. Len(wsOut) - 1 : wsOut'[i] = wsOut[i + 1]
    BY <1>1, TailPiece, LenProperties
  <2> SUFFICES ASSUME NEW i \in 1 .. Len(wsOut) - 1 PROVE Size(wsOut'[i]) <= WsMax
    BY <2>1 DEF FrameLimit, Size, Upstream!Size
  <2>2. wsOut'[i] = wsOut[i + 1] /\ i + 1 \in DOMAIN wsOut
    BY <2>1
  <2> QED BY <2>2 DEF DownInv, FrameLimit
<1>9. Idling'
  BY <1>1 DEF DownInv, Idling
<1> QED BY <1>5, <1>7, <1>8, <1>9 DEF DownInv

(* The top of the loop reads only when there is room. *)
LEMMA LoopTopRoom ==
  ASSUME NEW out \in Seq(Span), LoopTop(out)
  PROVE  /\ reader' = "reading" => Extent(out) <= OutHWM
         /\ ws' = "open" => ws = "open"
<1>1. Extent(out) \in Int
  <2>1. out # <<>> => 1 \in 1 .. Len(out)
    BY PieceFields
  <2> QED BY <2>1, PieceFields DEF Extent
<1> QED BY <1>1, LimitsAssumption
        DEF LoopTop, LeavesLoop, SendBufferFull, ReaderExit, CloseWs

LEMMA DownDrainTick == DownInv /\ TypeOK' /\ DrainTick => DownInv'
<1> SUFFICES ASSUME DownInv, TypeOK', DrainTick PROVE DownInv'
  OBVIOUS
<1>1. UNCHANGED <<status, produced, consumed, wsOut, received>>
      /\ status = "101" /\ wsOut \in Seq(Span) /\ LoopTop(wsOut)
  BY DEF DrainTick, DownInv, Idling, TypeOK
<1>2. /\ reader' = "reading" => Extent(wsOut) <= OutHWM
      /\ ws' = "open" => ws = "open"
  BY <1>1, LoopTopRoom
<1>3. FrameLine' /\ FrameLimit' /\ OutboundBounded'
  BY <1>1, <1>2 DEF DownInv, FrameLine, FramesEnd, End, Upstream!End, Ordered, Tight,
                    FrameLimit, Size, Upstream!Size, OutboundBounded, Extent
<1>4. Idling' /\ RoomToRead'
  BY <1>1, <1>2 DEF Idling, RoomToRead, Extent, End, Upstream!End
<1> QED BY <1>3, <1>4 DEF DownInv

LEMMA DownReadEnd == DownInv /\ TypeOK' /\ (ReadEnd \/ ReaderDone) => DownInv'
<1> SUFFICES ASSUME DownInv, TypeOK', ReadEnd \/ ReaderDone PROVE DownInv'
  OBVIOUS
<1>1. /\ UNCHANGED <<status, produced, consumed, wsOut, received>>
      /\ status = "101" /\ reader' # "reading"
      /\ ws' = "open" => ws = "open"
  BY DEF ReadEnd, ReaderDone, ReaderExit, CloseWs, DownInv, Idling
<1>2. FrameLine' /\ FrameLimit' /\ OutboundBounded'
  BY <1>1 DEF DownInv, FrameLine, FramesEnd, End, Upstream!End, Ordered, Tight,
              FrameLimit, Size, Upstream!Size, OutboundBounded, Extent
<1>3. Idling' /\ RoomToRead'
  BY <1>1 DEF Idling, RoomToRead
<1> QED BY <1>2, <1>3 DEF DownInv

(* A read adds its frames behind the others, or they are lost with the     *)
(* WebSocket.                                                              *)
LEMMA DownReadData == DownInv /\ TypeOK' /\ ReadData => DownInv'
<1> SUFFICES ASSUME DownInv, TypeOK', ReadData PROVE DownInv'
  OBVIOUS
<1>1. PICK n \in 1 .. ReadMax :
        /\ consumed + n <= produced /\ consumed' = consumed + n
        /\ wsOut' = IF ws = "open" THEN wsOut \o Slices(consumed, consumed + n)
                    ELSE wsOut
  BY DEF ReadData
<1>2. /\ n \in Nat \ {0} /\ n <= ReadMax /\ consumed \in Nat /\ produced \in Nat
      /\ OutHWM \in Nat /\ ReadMax \in Nat /\ wsOut \in Seq(Span)
      /\ wsOut' \in Seq(Span) /\ received \in Seq(Span)
  BY LimitsAssumption DEF DownInv, TypeOK
<1>3. /\ reader = "reading" /\ LoopTop(wsOut') /\ UNCHANGED <<status, produced, received>>
      /\ status = "101"
  BY DEF ReadData, DownInv, Idling
<1>4. /\ reader' = "reading" => Extent(wsOut') <= OutHWM
      /\ ws' = "open" => ws = "open"
  BY <1>2, <1>3, LoopTopRoom
<1>5. Idling' /\ RoomToRead'
  BY <1>3, <1>4 DEF Idling, RoomToRead, Extent, End, Upstream!End
<1>6. End(received') = End(received) /\ FramesEnd \in Nat /\ FramesEnd <= consumed
  BY <1>2, <1>3, PieceFields DEF DownInv, FrameLine, FramesEnd, End, Upstream!End
<1>7. CASE ws # "open"
  <2>1. wsOut' = wsOut /\ ws' # "open"
    BY <1>1, <1>4, <1>7
  <2>2. FramesEnd' = FramesEnd
    BY <1>6, <2>1 DEF FramesEnd, End, Upstream!End
  <2>3. Ordered(wsOut') /\ Tight(wsOut') /\ (wsOut' # <<>> => wsOut'[1].lo = End(received'))
    BY <1>6, <2>1 DEF DownInv, FrameLine
  <2>4. FrameLine'
    BY <1>1, <1>2, <1>3, <1>6, <2>1, <2>2, <2>3 DEF FrameLine
  <2>5. FrameLimit' /\ OutboundBounded'
    BY <2>1 DEF DownInv, FrameLimit, Size, Upstream!Size, OutboundBounded, Extent, End,
                Upstream!End
  <2> QED BY <1>5, <2>4, <2>5 DEF DownInv
<1>8. CASE ws = "open"
  <2> DEFINE t == Slices(consumed, consumed + n)
  <2>1. /\ t \in Seq(Span) /\ t # <<>>
        /\ t[1].lo = consumed /\ End(t) = consumed + n
        /\ Ordered(t) /\ Tight(t)
        /\ \A i \in 1 .. Len(t) : Size(t[i]) <= WsMax
    BY <1>2, SlicesLine
  <2>2. wsOut' = wsOut \o t
    BY <1>1, <1>8
  <2> HIDE DEF t
  <2>3. /\ Ordered(wsOut) /\ Tight(wsOut) /\ FramesEnd = consumed
        /\ wsOut # <<>> => wsOut[1].lo = End(received) /\ End(wsOut) = t[1].lo
        /\ wsOut = <<>> => End(received) = consumed
    BY <1>8, <2>1 DEF DownInv, FrameLine, FramesEnd
  <2>4. /\ wsOut' # <<>> /\ Ordered(wsOut') /\ Tight(wsOut') /\ End(wsOut') = consumed + n
        /\ wsOut'[1] = IF wsOut = <<>> THEN t[1] ELSE wsOut[1]
        /\ \A i \in 1 .. Len(wsOut') :
             \/ i \in 1 .. Len(wsOut) /\ wsOut'[i] = wsOut[i]
             \/ i - Len(wsOut) \in 1 .. Len(t) /\ wsOut'[i] = t[i - Len(wsOut)]
    BY <1>2, <2>1, <2>2, <2>3, ConcatInOrder
  <2>5. FramesEnd' = consumed' /\ consumed' <= produced'
    BY <1>1, <1>3, <2>4 DEF FramesEnd
  <2>6. wsOut'[1].lo = End(received')
    BY <1>6, <2>1, <2>3, <2>4
  <2>7. FrameLine'
    BY <1>1, <1>2, <2>4, <2>5, <2>6 DEF FrameLine
  <2>8. FrameLimit'
    <3>1. DOMAIN wsOut' = 1 .. Len(wsOut') /\ DOMAIN wsOut = 1 .. Len(wsOut)
      BY <1>2, LenProperties
    <3> SUFFICES ASSUME NEW i \in 1 .. Len(wsOut') PROVE Size(wsOut'[i]) <= WsMax
      BY <3>1 DEF FrameLimit, Size, Upstream!Size
    <3> QED BY <2>1, <2>4, <3>1 DEF DownInv, FrameLimit
  <2>9. OutboundBounded'
    <3>1. CASE wsOut = <<>>
      <4>1. Extent(wsOut') = n
        BY <1>2, <2>1, <2>4, <3>1 DEF Extent
      <4> QED BY <1>2, <4>1 DEF OutboundBounded
    <3>2. CASE wsOut # <<>>
      <4>1. wsOut[1].lo \in Nat /\ End(wsOut) = consumed
        BY <2>1, <2>3, <3>2, FirstFrame
      <4>2. Extent(wsOut') = Extent(wsOut) + n /\ Extent(wsOut) \in Int
        BY <1>2, <2>4, <3>2, <4>1 DEF Extent
      <4>3. Extent(wsOut) <= OutHWM
        BY <1>3 DEF DownInv, RoomToRead
      <4> QED BY <1>2, <4>2, <4>3 DEF OutboundBounded
    <3> QED BY <3>1, <3>2
  <2> QED BY <1>5, <2>7, <2>8, <2>9 DEF DownInv
<1> QED BY <1>7, <1>8

-----------------------------------------------------------------------------
(***************************************************************************)
(* The theorems                                                            *)
(***************************************************************************)

LEMMA DownStep == DownInv /\ TypeOK' /\ [Next]_vars => DownInv'
BY DownOther, DownBackendSend, DownSocketOpened, DownFlush, DownDrainTick,
   DownReadEnd, DownReadData DEF Next, Handshake, Browser, ReaderLoop, Backend

(* The strengthened invariant holds in every reachable state. *)
THEOREM DownInvariance == Spec => []DownInv
<1>1. Init => DownInv
  BY DownInit
<1>2. DownInv /\ TypeOK' /\ [Next]_vars => DownInv'
  BY DownStep
<1> QED BY <1>1, <1>2, TypeCorrect, PTL DEF Spec

(* No frame exceeds WS_MAX_MESSAGE. *)
THEOREM FramesAreLimited == Spec => []FrameLimit
<1>1. DownInv => FrameLimit
  BY DEF DownInv
<1> QED BY <1>1, DownInvariance, PTL

(* The send buffer never holds more than HIGH_WATER_MARK and one read. *)
THEOREM OutboundIsBounded == Spec => []OutboundBounded
<1>1. DownInv => OutboundBounded
  BY DEF DownInv
<1> QED BY <1>1, DownInvariance, PTL

(* The reader loop, its slicing and the WebSocket implement a byte stream  *)
(* from the backend to the browser.                                        *)
THEOREM DownstreamRefinement == Spec => DownstreamIsStream
<1>1. Init => Downstream!Init
  BY DEF Init, Downstream!Init
<1>2. DownInv /\ TypeOK' /\ [Next]_vars => [Downstream!Next]_(Downstream!svars)
  <2> SUFFICES ASSUME DownInv, TypeOK', [Next]_vars
               PROVE  [Downstream!Next]_(Downstream!svars)
    OBVIOUS
  <2> USE DEF Downstream!Next, Downstream!svars, browserVars, sockVars, writeVars,
              readVars
  <2>1. CASE BackendSend
    <3>1. produced' \in Nat /\ produced' >= produced
      BY <2>1, BoundsAssumption DEF BackendSend, DownInv, TypeOK
    <3> QED BY <2>1, <3>1 DEF BackendSend, Downstream!Write
  <2>2. CASE WsFlush
    <3>1. /\ wsOut # <<>> /\ client = "open" /\ received' = Append(received, wsOut[1])
          /\ UNCHANGED <<produced, client>>
      <4>1. wsOut # <<>> => Head(wsOut) = wsOut[1]
        BY TailPiece DEF DownInv, TypeOK
      <4> QED BY <2>2, <4>1 DEF WsFlush
    <3>2. /\ wsOut[1] \in Span /\ wsOut[1].lo \in Nat /\ wsOut[1].hi \in Nat
          /\ wsOut[1].lo = End(received) /\ wsOut[1].lo <= wsOut[1].hi
          /\ wsOut[1].hi <= produced /\ produced \in Nat
      BY <3>1, FirstFrame
    <3>3. wsOut[1] = [lo |-> End(received),
                      hi |-> End(received) + (wsOut[1].hi - End(received))]
      BY <3>2 DEF Span, Upstream!Span
    <3>4. wsOut[1].hi - End(received) \in 0 .. (produced - End(received))
      BY <3>2
    <3> QED BY <3>1, <3>3, <3>4 DEF Downstream!Deliver, Downstream!End, End, Upstream!End
  <2>3. CASE \/ Handshake \/ BrowserSend \/ BrowserClose \/ Listeners \/ WriteChain
             \/ ReaderLoop \/ BackendEof \/ BackendReset \/ SocketClosed
             \/ UNCHANGED vars
    <3>1. UNCHANGED <<produced, received>>
      BY <2>3 DEF Handshake, Refuse, Accept, SocketOpened, ConnectFailed, OpenTimeout,
          BrowserSend, BrowserClose, Listeners, MessageEvent, CloseEvent, ErrorEvent,
          WriteChain, WriteStart, WriteDone, WriteError, FailureSettled, Cleanup,
          WriterClosed, ReaderLoop, DrainTick, ReadData, ReadEnd, ReaderDone,
          BackendEof, BackendReset, SocketClosed, vars
    <3>2. client # "open" => client' # "open"
      BY <2>3 DEF Handshake, Refuse, Accept, SocketOpened, ConnectFailed, OpenTimeout,
          BrowserSend, BrowserClose, Listeners, MessageEvent, CloseEvent, ErrorEvent,
          WriteChain, WriteStart, WriteDone, WriteError, FailureSettled, Cleanup,
          WriterClosed, ReaderLoop, DrainTick, ReadData, ReadEnd, ReaderDone,
          BackendEof, BackendReset, SocketClosed, vars
    <3> QED BY <3>1, <3>2 DEF Downstream!Cut
  <2> QED BY <2>1, <2>2, <2>3 DEF Next, Browser, Backend
<1> QED BY <1>1, <1>2, DownInvariance, TypeCorrect, PTL
        DEF Spec, DownstreamIsStream, Downstream!Spec

(***************************************************************************)
(* What a ByteStream means to its consumer                                 *)
(*                                                                         *)
(* A Deliver adds a piece that begins where the last one ended, so the     *)
(* pieces lie side by side from the first byte on.  A byte before their    *)
(* end is in the first piece that ends behind it, and in no other.         *)
(***************************************************************************)

Line(pieces, n) ==
  /\ pieces \in Seq(Span) /\ n \in Nat
  /\ Ordered(pieces)
  /\ Tight(pieces)
  /\ pieces # <<>> => pieces[1].lo = 0
  /\ End(pieces) <= n

LEMMA LineBegins == Line(<<>>, 0)
BY DEF Line, Ordered, Tight, End, Upstream!End

LEMMA LineGrows ==
  ASSUME NEW pieces, NEW n, Line(pieces, n), NEW k \in 0 .. (n - End(pieces))
  PROVE  Line(Append(pieces, [lo |-> End(pieces), hi |-> End(pieces) + k]), n)
<1> DEFINE m  == [lo |-> End(pieces), hi |-> End(pieces) + k]
           to == Append(pieces, m)
<1>1. pieces \in Seq(Span) /\ n \in Nat /\ End(pieces) \in Nat /\ Len(pieces) \in Nat
  BY PieceFields DEF Line
<1>2. /\ m.lo = End(pieces) /\ m.hi = End(pieces) + k
      /\ m \in Span /\ m.lo <= m.hi /\ m.hi <= n
  BY <1>1 DEF Span, Upstream!Span
<1> HIDE DEF m
<1>3. Ordered(to) /\ Tight(to)
  BY <1>1, <1>2, OrderedAppend, TightAppend DEF Line
<1>4. /\ to \in Seq(Span) /\ Len(to) = Len(pieces) + 1 /\ to[Len(to)] = m /\ to # <<>>
      /\ pieces # <<>> => to[1] = pieces[1]
  BY <1>1, <1>2, AppendProperties, EmptySeq
<1>5. End(to) = m.hi
  BY <1>4 DEF End, Upstream!End
<1>6. to[1].lo = 0
  <2>1. CASE pieces = <<>>
    BY <1>2, <1>4, <2>1 DEF End, Upstream!End
  <2>2. CASE pieces # <<>>
    BY <1>4, <2>2 DEF Line
  <2> QED BY <2>1, <2>2
<1> QED BY <1>1, <1>2, <1>3, <1>4, <1>5, <1>6 DEF Line, m

LEMMA LineReaches ==
  ASSUME NEW pieces, NEW n, Line(pieces, n), NEW m \in Nat, m >= n
  PROVE  Line(pieces, m)
<1>1. End(pieces) \in Nat
  BY PieceFields DEF Line
<1> QED BY <1>1 DEF Line

LEMMA LineHolds ==
  ASSUME NEW pieces, NEW n, Line(pieces, n), NEW b \in 0 .. End(pieces) - 1
  PROVE  \E i \in 1 .. Len(pieces) :
           /\ pieces[i].lo <= b /\ b < pieces[i].hi
           /\ \A j \in 1 .. Len(pieces) : pieces[j].lo <= b /\ b < pieces[j].hi => j = i
<1> DEFINE N == Len(pieces)
           Behind == {i \in 1 .. N : b < pieces[i].hi}
           Smaller == OpToRel(<, Nat)
<1>1. /\ N \in Nat /\ End(pieces) \in Nat /\ b \in Nat /\ b < End(pieces) /\ N # 0
      /\ \A i \in 1 .. N : pieces[i].lo \in Nat /\ pieces[i].hi \in Nat
  <2>1. /\ N \in Nat /\ End(pieces) \in Nat
        /\ \A i \in 1 .. N : pieces[i].lo \in Nat /\ pieces[i].hi \in Nat
    BY PieceFields DEF Line
  <2>2. b \in Nat /\ b < End(pieces) /\ pieces # <<>>
    BY <2>1 DEF End, Upstream!End
  <2> QED BY <2>1, <2>2, EmptySeq DEF Line
<1>2. N \in Behind
  BY <1>1 DEF End, Upstream!End
<1>3. PICK i \in Behind : \A k \in Behind : ~(<<k, i>> \in Smaller)
  <2>1. IsWellFoundedOn(Smaller, Nat)
    BY NatLessThanWellFounded
  <2>2. Behind \subseteq Nat
    BY <1>1
  <2> HIDE DEF Smaller, Behind
  <2> QED BY <1>2, <2>1, <2>2, WFMin
<1>4. i \in 1 .. N /\ i \in Nat /\ b < pieces[i].hi
  BY <1>1
<1>5. \A k \in 1 .. N : k < i => pieces[k].hi <= b
  <2> SUFFICES ASSUME NEW k \in 1 .. N, k < i PROVE pieces[k].hi <= b
    OBVIOUS
  <2>1. k \in Nat /\ <<k, i>> \in Smaller
    BY <1>1, <1>4 DEF OpToRel
  <2>2. k \notin Behind
    BY <1>3, <2>1
  <2> QED BY <1>1, <2>2
<1>6. pieces[i].lo <= b
  <2>1. CASE i = 1
    BY <1>1, <2>1 DEF Line
  <2>2. CASE i # 1
    <3>1. i - 1 \in 1 .. N - 1 /\ i - 1 \in 1 .. N /\ i - 1 < i
      BY <1>1, <1>4, <2>2
    <3>2. pieces[i - 1].hi = pieces[(i - 1) + 1].lo
      BY <3>1 DEF Line, Tight
    <3> QED BY <1>4, <1>5, <3>1, <3>2
  <2> QED BY <2>1, <2>2
<1>7. ASSUME NEW j \in 1 .. N, pieces[j].lo <= b, b < pieces[j].hi PROVE j = i
  <2>1. ~(j < i)
    BY <1>1, <1>5, <1>7
  <2>2. ~(i < j)
    <3>1. ASSUME i < j PROVE pieces[i].hi <= pieces[j].lo
      BY <1>4, <3>1 DEF Line, Ordered
    <3> QED BY <1>1, <1>4, <1>7, <3>1
  <2> QED BY <1>1, <1>4, <2>1, <2>2
<1> QED BY <1>4, <1>6, <1>7

(* The backend is given each byte of the browser's stream once, in order,  *)
(* up to where its wire ends, and nothing after the socket was closed.     *)
THEOREM UpstreamDelivers ==
  Spec => /\ [](Upstream!EachByteOnce /\ Upstream!InOrder)
          /\ Upstream!NothingAfterCut
<1>1. Upstream!Init => Line(wire, sent)
  BY LineBegins DEF Upstream!Init
<1>2. Line(wire, sent) /\ [Upstream!Next]_(Upstream!svars) => Line(wire, sent)'
  <2> SUFFICES ASSUME Line(wire, sent), [Upstream!Next]_(Upstream!svars)
               PROVE  Line(wire', sent')
    BY DEF Line, Ordered, Tight, End, Upstream!End
  <2>1. CASE Upstream!Write
    BY <2>1, LineReaches DEF Upstream!Write, Line
  <2>2. CASE Upstream!Deliver
    BY <2>2, LineGrows DEF Upstream!Deliver, End
  <2>3. CASE Upstream!Cut \/ UNCHANGED Upstream!svars
    BY <2>3 DEF Upstream!Cut, Upstream!svars
  <2> QED BY <2>1, <2>2, <2>3 DEF Upstream!Next
<1>3. Line(wire, sent) => Upstream!EachByteOnce /\ Upstream!InOrder
  <2> SUFFICES ASSUME Line(wire, sent) PROVE Upstream!EachByteOnce /\ Upstream!InOrder
    OBVIOUS
  <2>1. Upstream!EachByteOnce
    BY LineHolds DEF Upstream!EachByteOnce, Upstream!Holds, Line, End
  <2> QED BY <2>1 DEF Upstream!InOrder, Line, Ordered
<1>4. [Upstream!Next]_(Upstream!svars) => [Upstream!StaysCut]_(Upstream!svars)
  BY DEF Upstream!StaysCut, Upstream!Next, Upstream!svars, Upstream!Write, Upstream!Deliver, Upstream!Cut
<1> QED BY <1>1, <1>2, <1>3, <1>4, UpstreamRefinement, PTL
        DEF UpstreamIsStream, Upstream!Spec, Upstream!NothingAfterCut

(* The browser is given each byte of the backend's stream once, in order,  *)
(* up to where its frames end, and nothing once it has left.               *)
THEOREM DownstreamDelivers ==
  Spec => /\ [](Downstream!EachByteOnce /\ Downstream!InOrder)
          /\ Downstream!NothingAfterCut
<1>1. Downstream!Init => Line(received, produced)
  BY LineBegins DEF Downstream!Init
<1>2. Line(received, produced) /\ [Downstream!Next]_(Downstream!svars) => Line(received, produced)'
  <2> SUFFICES ASSUME Line(received, produced), [Downstream!Next]_(Downstream!svars)
               PROVE  Line(received', produced')
    BY DEF Line, Ordered, Tight, End, Upstream!End
  <2>1. CASE Downstream!Write
    BY <2>1, LineReaches DEF Downstream!Write, Line
  <2>2. CASE Downstream!Deliver
    BY <2>2, LineGrows DEF Downstream!Deliver, Downstream!End, End, Upstream!End
  <2>3. CASE Downstream!Cut \/ UNCHANGED Downstream!svars
    BY <2>3 DEF Downstream!Cut, Downstream!svars
  <2> QED BY <2>1, <2>2, <2>3 DEF Downstream!Next
<1>3. Line(received, produced) => Downstream!EachByteOnce /\ Downstream!InOrder
  <2> SUFFICES ASSUME Line(received, produced) PROVE Downstream!EachByteOnce /\ Downstream!InOrder
    OBVIOUS
  <2>1. Downstream!EachByteOnce
    BY LineHolds DEF Downstream!EachByteOnce, Downstream!Holds, Downstream!End, Line, End, Upstream!End
  <2> QED BY <2>1 DEF Downstream!InOrder, Line, Ordered
<1>4. [Downstream!Next]_(Downstream!svars) => [Downstream!StaysCut]_(Downstream!svars)
  BY DEF Downstream!StaysCut, Downstream!Next, Downstream!svars, Downstream!Write, Downstream!Deliver, Downstream!Cut
<1> QED BY <1>1, <1>2, <1>3, <1>4, DownstreamRefinement, PTL
        DEF DownstreamIsStream, Downstream!Spec, Downstream!NothingAfterCut
=============================================================================
