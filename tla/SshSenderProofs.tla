--------------------------- MODULE SshSenderProofs ---------------------------
(* Proofs about SshSender: on the promise chain, however many packets are    *)
(* sent and however their calls overlap, sequence numbers are positions, no  *)
(* keystream is used twice, and packets are on the wire in call order.       *)
EXTENDS SshSender, SequenceTheorems, TLAPS

(* While a call runs, every later call waits.                                *)
OneAtATime ==
    \A i, j \in Calls : i < j /\ ~Settled(i) => stage[j] = "queued"

(* The calls that succeeded are the first seqno calls; a pending write is    *)
(* the next one's.                                                           *)
DoneIsPrefix ==
    \A i \in Calls : /\ stage[i] = "done" <=> i <= seqno
                     /\ stage[i] = "writing" => i = seqno + 1

(* Until the connection is lost, the wire holds the packets of the calls     *)
(* that are done or whose write is pending, and nothing has failed.          *)
WireMatches ==
    /\ Len(wire) <= Len(stage)
    /\ \A i \in Calls : stage[i] \in {"done", "writing"} => i <= Len(wire)
    /\ ~broken => /\ \A i \in Calls : stage[i] # "failed"
                  /\ \A k \in 1..Len(wire) : stage[k] \in {"done", "writing"}

(* What a call that is building its packet has read is still current.        *)
PendingIsFresh ==
    \A i \in Calls :
        /\ stage[i] \in {"signing", "encrypting"} =>
              encrypted /\ packet[i].enc /\ packet[i].seq = seqno
        /\ stage[i] = "encrypting" => packet[i].from = counter
        /\ stage[i] = "queued" => ~packet[i].enc

(* The counter is beyond all the keystream that was used.                    *)
CounterBeyond ==
    \A k \in 1..Len(wire) :
        wire[k].enc => encrypted /\ wire[k].from + wire[k].blocks <= counter

IInv ==
    /\ TypeOK
    /\ OneAtATime
    /\ DoneIsPrefix
    /\ WireMatches
    /\ PendingIsFresh
    /\ CounterBeyond
    /\ SeqnoIsPosition
    /\ KeystreamFresh

-----------------------------------------------------------------------------
(* The packet a running call writes comes right after the wire's last one,   *)
(* and its call is the one the sequence number stands for.                   *)
LEMMA NextOnWire ==
    ASSUME TypeOK, DoneIsPrefix, WireMatches, ~broken,
           NEW i \in Calls, Turn(i),
           stage[i] \notin {"done", "writing", "failed"}
    PROVE  Len(wire) = i - 1 /\ seqno = i - 1
<1>1. \A j \in 1..(i - 1) : stage[j] = "done" /\ j <= Len(wire) /\ j <= seqno
  BY DEF Turn, Settled, WireMatches, DoneIsPrefix, Calls, TypeOK
<1>2. i > seqno
  BY DEF DoneIsPrefix, TypeOK, Calls
<1>3. i > Len(wire)
  BY DEF WireMatches, TypeOK, Calls
<1>4. i - 1 = 0 \/ i - 1 \in 1..(i - 1)
  BY DEF Calls, TypeOK
<1> QED
  BY <1>1, <1>2, <1>3, <1>4 DEF TypeOK, Calls

(* A call that runs has its turn.                                            *)
LEMMA RunningHasTurn ==
    ASSUME TypeOK, OneAtATime, NEW i \in Calls, stage[i] # "queued"
    PROVE  Turn(i)
  BY DEF Turn, OneAtATime, Calls, TypeOK

(* Appending a packet with the right number and later keystream keeps the    *)
(* wire in order.                                                            *)
LEMMA WireGrows ==
    ASSUME NEW w \in Seq(Packets), NEW p \in Packets, NEW w2, w2 = Append(w, p)
    PROVE  /\ w2 \in Seq(Packets)
           /\ Len(w2) = Len(w) + 1
           /\ \A k \in 1..Len(w) : w2[k] = w[k]
           /\ w2[Len(w) + 1] = p
  OBVIOUS

(* Every other call has settled or waits while a call runs or starts.        *)
LEMMA OthersWait ==
    ASSUME TypeOK, OneAtATime, NEW i \in Calls, Turn(i), ~Settled(i),
           NEW j \in Calls, j # i
    PROVE  Settled(j) \/ stage[j] = "queued"
  BY DEF Turn, OneAtATime, Calls, TypeOK

-----------------------------------------------------------------------------
(* What the type invariant says of a packet.                                 *)
LEMMA PacketFields ==
    ASSUME NEW p \in Packets
    PROVE  /\ p.blocks \in Nat /\ p.from \in Nat /\ p.seq \in Nat
           /\ p.enc \in BOOLEAN
  BY SenderAssumption DEF Packets

LEMMA SeqnoIsNat == TypeOK => seqno \in Nat /\ counter \in Nat
  BY DEF TypeOK

LEMMA CallStep ==
    ASSUME IInv, NEW b \in Sizes, NEW awaited \in BOOLEAN, Call(b, awaited)
    PROVE  IInv'
<1> DEFINE n == Len(stage)
           p == [blocks |-> b, awaited |-> awaited, enc |-> FALSE, seq |-> 0, from |-> 0]
<1> USE DEF IInv
<1>1. /\ n \in Nat /\ Calls = 1..n
      /\ stage' \in Seq(Stages) /\ Len(stage') = n + 1
      /\ \A i \in 1..n : stage'[i] = stage[i]
      /\ stage'[n + 1] = "queued"
  BY DEF Call, TypeOK, Stages, Calls
<1>2. /\ packet' \in Seq(Packets) /\ Len(packet') = n + 1
      /\ \A i \in 1..n : packet'[i] = packet[i]
      /\ packet'[n + 1] = p /\ p \in Packets
  BY DEF Call, TypeOK, Packets
<1>3. UNCHANGED <<encrypted, counter, seqno, wire, broken>>
  BY DEF Call
<1>4. Calls' = 1..(n + 1) /\ \A i \in Calls' : i \in 1..n \/ i = n + 1
  BY <1>1 DEF Calls
<1>5. TypeOK'
  BY <1>1, <1>2, <1>3 DEF TypeOK
<1>6. OneAtATime'
  BY <1>1, <1>4 DEF OneAtATime, Settled
<1>7. DoneIsPrefix'
  BY <1>1, <1>3, <1>4 DEF DoneIsPrefix, TypeOK
<1>8. WireMatches'
  <2>1. Len(wire) \in Nat
    BY DEF TypeOK
  <2>2. \A k \in 1..Len(wire) : k \in 1..n
    BY <1>1, <2>1 DEF WireMatches
  <2> QED
    BY <1>1, <1>3, <1>4, <2>1, <2>2 DEF WireMatches, TypeOK
<1>9. PendingIsFresh'
  BY <1>1, <1>2, <1>3, <1>4 DEF PendingIsFresh
<1>10. CounterBeyond' /\ SeqnoIsPosition' /\ KeystreamFresh'
  BY <1>3 DEF CounterBeyond, SeqnoIsPosition, KeystreamFresh
<1> QED
  BY <1>5, <1>6, <1>7, <1>8, <1>9, <1>10

(* A packet with the current number, encrypted from the current counter or   *)
(* in clear before the keys, is written by the call whose turn it is.        *)
LEMMA WriteStep ==
    ASSUME IInv, NEW i \in Calls, Turn(i), stage[i] \in {"queued", "encrypting"},
           NEW p \in Packets, p.seq = seqno, Write(i, p),
           UNCHANGED <<encrypted, seqno, broken>>,
           IF p.enc
           THEN encrypted /\ p.from = counter /\ counter' = counter + p.blocks
           ELSE ~encrypted /\ counter' = counter
    PROVE  IInv'
<1> DEFINE x == IF broken THEN "failed" ELSE "writing"
<1> USE DEF IInv
<1>0. TypeOK /\ x \in Stages /\ stage' = [stage EXCEPT ![i] = x]
  BY DEF Write, Stages
<1>1. /\ stage' \in Seq(Stages) /\ Len(stage') = Len(stage) /\ stage'[i] = x
      /\ \A j \in Calls : j # i => stage'[j] = stage[j]
  BY <1>0 DEF TypeOK, Calls
<1>2. /\ packet' \in Seq(Packets) /\ Len(packet') = Len(packet) /\ packet'[i] = p
      /\ \A j \in Calls : j # i => packet'[j] = packet[j]
  BY DEF Write, TypeOK, Calls
<1>3. Calls' = Calls
  BY <1>1 DEF Calls
<1>4. counter' \in Nat /\ counter <= counter'
  BY PacketFields, SeqnoIsNat
<1>5. ~Settled(i)
  BY DEF Settled
<1>6. \A j \in Calls : j # i => Settled(j) \/ stage[j] = "queued"
  BY <1>5, OthersWait
<1>7. OneAtATime'
  BY <1>1, <1>3, <1>5 DEF OneAtATime, Settled, Turn, Calls, TypeOK
<1>8. DoneIsPrefix'
  <2>1. ~broken => i = seqno + 1
    BY NextOnWire, SeqnoIsNat DEF Calls
  <2> QED
    BY <1>1, <1>3, <2>1 DEF DoneIsPrefix
<1>9. PendingIsFresh'
  BY <1>1, <1>2, <1>3, <1>6 DEF PendingIsFresh, Settled
<1>10. CASE broken
  <2>1. wire' = wire
    BY <1>10 DEF Write
  <2>2. TypeOK'
    BY <1>1, <1>2, <1>4, <2>1 DEF TypeOK
  <2>3. WireMatches'
    BY <1>1, <1>3, <1>10, <2>1 DEF WireMatches
  <2>4. CounterBeyond'
    <3>1. \A k \in 1..Len(wire) : wire[k].from + wire[k].blocks \in Nat
      BY PacketFields DEF TypeOK
    <3> QED
      BY <1>4, <2>1, <3>1, SeqnoIsNat DEF CounterBeyond
  <2>5. SeqnoIsPosition' /\ KeystreamFresh'
    BY <2>1 DEF SeqnoIsPosition, KeystreamFresh
  <2> QED
    BY <1>7, <1>8, <1>9, <2>2, <2>3, <2>4, <2>5
<1>11. CASE ~broken
  <2> DEFINE n == Len(wire)
  <2>1. /\ wire' \in Seq(Packets) /\ Len(wire') = n + 1
        /\ \A k \in 1..n : wire'[k] = wire[k]
        /\ wire'[n + 1] = p
    BY <1>11, WireGrows DEF Write, TypeOK
  <2>2. n \in Nat /\ n = i - 1 /\ seqno = n
    BY <1>11, NextOnWire DEF TypeOK
  <2>3. 1..Len(wire') = 1..(n + 1) /\ \A k \in 1..(n + 1) : k \in 1..n \/ k = n + 1
    BY <2>1, <2>2
  <2>4. TypeOK'
    BY <1>1, <1>2, <1>4, <2>1 DEF TypeOK
  <2>5. WireMatches'
    <3>1. Len(wire') <= Len(stage') /\ i = n + 1
      BY <1>1, <2>1, <2>2 DEF Calls, TypeOK
    <3>2. \A j \in Calls : stage'[j] \in {"done", "writing"} => j <= Len(wire')
      BY <1>1, <2>1, <2>2, <3>1 DEF WireMatches, Calls, TypeOK
    <3>3. \A j \in Calls : stage'[j] # "failed"
      BY <1>1, <1>11 DEF WireMatches
    <3>4. \A k \in 1..n : k \in Calls /\ k # i
      BY <2>2, <3>1 DEF Calls, TypeOK
    <3>5. \A k \in 1..(n + 1) : stage'[k] \in {"done", "writing"}
      BY <1>1, <1>11, <2>3, <3>1, <3>4 DEF WireMatches
    <3> QED
      BY <1>3, <2>3, <3>1, <3>2, <3>3, <3>5 DEF WireMatches
  <2>6. CounterBeyond'
    <3>1. \A k \in 1..n : wire[k].from + wire[k].blocks \in Nat
      BY PacketFields DEF TypeOK
    <3>2. \A k \in 1..n : wire[k].enc => wire[k].from + wire[k].blocks <= counter'
      BY <1>4, <3>1, SeqnoIsNat DEF CounterBeyond
    <3>3. p.enc => encrypted /\ p.from + p.blocks = counter'
      OBVIOUS
    <3>4. counter' <= counter'
      BY <1>4
    <3> QED
      BY <2>1, <2>3, <3>2, <3>3, <3>4 DEF CounterBeyond
  <2>7. SeqnoIsPosition'
    BY <2>1, <2>2, <2>3 DEF SeqnoIsPosition
  <2>8. KeystreamFresh'
    BY <2>1, <2>2, <2>3 DEF KeystreamFresh, CounterBeyond
  <2> QED
    BY <1>7, <1>8, <1>9, <2>4, <2>5, <2>6, <2>7, <2>8
<1> QED
  BY <1>10, <1>11

LEMMA BeginStep ==
    ASSUME IInv, NEW i \in Calls, Turn(i), Begin(i)
    PROVE  IInv'
<1> USE DEF IInv
<1>1. packet[i] \in Packets
  BY DEF TypeOK, Calls
<1>2. CASE ~encrypted
  <2> DEFINE p == [packet[i] EXCEPT !.seq = seqno]
  <2>1. p \in Packets /\ p.seq = seqno /\ p.enc = packet[i].enc
    BY <1>1, SeqnoIsNat DEF Packets
  <2>2. ~p.enc
    BY <2>1 DEF Begin, PendingIsFresh
  <2>3. Write(i, p) /\ UNCHANGED <<encrypted, counter, seqno, broken>>
    BY <1>2 DEF Begin
  <2> QED
    BY <1>2, <2>1, <2>2, <2>3, WriteStep DEF Begin
<1>3. CASE encrypted
  <2> DEFINE p == [packet[i] EXCEPT !.seq = seqno, !.enc = TRUE]
  <2>1. p \in Packets /\ p.seq = seqno /\ p.enc
    BY <1>1, SeqnoIsNat DEF Packets
  <2>2. packet' = [packet EXCEPT ![i] = p] /\ stage' = [stage EXCEPT ![i] = "signing"]
    BY <1>3 DEF Begin, TypeOK
  <2>3. /\ stage' \in Seq(Stages) /\ Len(stage') = Len(stage) /\ stage'[i] = "signing"
        /\ \A j \in Calls : j # i => stage'[j] = stage[j]
    <3>1. TypeOK /\ "signing" \in Stages
      BY DEF Stages
    <3> QED
      BY <2>2, <3>1 DEF TypeOK, Calls
  <2>4. /\ packet' \in Seq(Packets) /\ Len(packet') = Len(packet) /\ packet'[i] = p
        /\ \A j \in Calls : j # i => packet'[j] = packet[j]
    <3> HIDE DEF p
    <3> QED
      BY <2>1, <2>2 DEF TypeOK, Calls
  <2>5. Calls' = Calls /\ UNCHANGED <<encrypted, counter, seqno, wire, broken>>
    BY <1>3, <2>3 DEF Begin, Calls
  <2>6. TypeOK'
    BY <2>3, <2>4, <2>5 DEF TypeOK
  <2>7. OneAtATime'
    <3>1. ~Settled(i) /\ stage'[i] = "signing"
      BY <2>3 DEF Begin, Settled
    <3> QED
      BY <2>3, <2>5, <3>1 DEF OneAtATime, Settled, Turn, Calls, TypeOK
  <2>8. DoneIsPrefix' /\ WireMatches'
    <3>1. stage[i] = "queued"
      BY DEF Begin
    <3>2. DoneIsPrefix'
      BY <2>3, <2>5, <3>1 DEF DoneIsPrefix
    <3>3. \A k \in 1..Len(wire) : k \in Calls
      BY DEF WireMatches, Calls, TypeOK
    <3> QED
      BY <2>3, <2>5, <3>1, <3>2, <3>3 DEF WireMatches
  <2>9. PendingIsFresh'
    <3> HIDE DEF p
    <3>1. ASSUME NEW j \in Calls, j # i
          PROVE  /\ stage'[j] \in {"signing", "encrypting"} =>
                       encrypted' /\ packet'[j].enc /\ packet'[j].seq = seqno'
                 /\ stage'[j] = "encrypting" => packet'[j].from = counter'
                 /\ stage'[j] = "queued" => ~packet'[j].enc
      BY <2>3, <2>4, <2>5, <3>1 DEF PendingIsFresh
    <3>2. /\ stage'[i] = "signing" /\ encrypted'
          /\ packet'[i].enc /\ packet'[i].seq = seqno'
      BY <1>3, <2>1, <2>3, <2>4, <2>5
    <3> QED
      BY <2>5, <3>1, <3>2 DEF PendingIsFresh
  <2>10. CounterBeyond' /\ SeqnoIsPosition' /\ KeystreamFresh'
    BY <2>5 DEF CounterBeyond, SeqnoIsPosition, KeystreamFresh
  <2> QED
    BY <2>6, <2>7, <2>8, <2>9, <2>10
<1> QED
  BY <1>2, <1>3

LEMMA SignedStep ==
    ASSUME IInv, NEW i \in Calls, Signed(i)
    PROVE  IInv'
<1> DEFINE p == [packet[i] EXCEPT !.from = counter]
<1> USE DEF IInv
<1>1. stage[i] = "signing" /\ ~Settled(i) /\ Turn(i)
  BY RunningHasTurn DEF Signed, Settled
<1>2. packet[i] \in Packets
  BY DEF TypeOK, Calls
<1>3. p \in Packets /\ p.from = counter /\ p.enc = packet[i].enc /\ p.seq = packet[i].seq
  BY <1>2, SeqnoIsNat DEF Packets
<1>4. /\ stage' \in Seq(Stages) /\ Len(stage') = Len(stage) /\ stage'[i] = "encrypting"
      /\ \A j \in Calls : j # i => stage'[j] = stage[j]
  BY DEF Signed, Stages, TypeOK, Calls
<1>5. /\ packet' \in Seq(Packets) /\ Len(packet') = Len(packet) /\ packet'[i] = p
      /\ \A j \in Calls : j # i => packet'[j] = packet[j]
  <2>1. packet' = [packet EXCEPT ![i] = p]
    BY DEF Signed, TypeOK
  <2> HIDE DEF p
  <2> QED
    BY <1>3, <2>1 DEF TypeOK, Calls
<1>6. Calls' = Calls /\ UNCHANGED <<encrypted, counter, seqno, wire, broken>>
  BY <1>4 DEF Signed, Calls
<1>7. TypeOK'
  BY <1>4, <1>5, <1>6 DEF TypeOK
<1>8. OneAtATime'
  BY <1>1, <1>4, <1>6 DEF OneAtATime, Settled, Turn, Calls, TypeOK
<1>9. DoneIsPrefix'
  BY <1>1, <1>4, <1>6 DEF DoneIsPrefix
<1>10. WireMatches'
  <2>1. \A k \in 1..Len(wire) : k \in Calls
    BY DEF WireMatches, Calls, TypeOK
  <2> QED
    BY <1>1, <1>4, <1>6, <2>1 DEF WireMatches
<1>11. PendingIsFresh'
  BY <1>1, <1>3, <1>4, <1>5, <1>6 DEF PendingIsFresh
<1>12. CounterBeyond' /\ SeqnoIsPosition' /\ KeystreamFresh'
  BY <1>6 DEF CounterBeyond, SeqnoIsPosition, KeystreamFresh
<1> QED
  BY <1>7, <1>8, <1>9, <1>10, <1>11, <1>12

LEMMA EncipheredStep ==
    ASSUME IInv, NEW i \in Calls, Enciphered(i)
    PROVE  IInv'
<1> DEFINE p == packet[i]
<1> USE DEF IInv
<1>1. stage[i] = "encrypting" /\ Turn(i)
  BY RunningHasTurn DEF Enciphered
<1>2. p \in Packets
  BY DEF TypeOK, Calls
<1>3. encrypted /\ p.enc /\ p.seq = seqno /\ p.from = counter
  BY <1>1 DEF PendingIsFresh
<1>4. counter' = counter + p.blocks /\ Write(i, p) /\ UNCHANGED <<encrypted, seqno, broken>>
  BY DEF Enciphered, Advanced
<1> QED
  BY <1>1, <1>2, <1>3, <1>4, WriteStep

(* A pending write settles: nothing else is running.                         *)
LEMMA WrittenStep ==
    ASSUME IInv, NEW i \in Calls, Written(i)
    PROVE  IInv'
<1> USE DEF IInv
<1>1. stage[i] = "writing" /\ ~Settled(i) /\ Turn(i)
  BY RunningHasTurn DEF Written, Settled
<1>2. \A j \in Calls : j # i => Settled(j) \/ stage[j] = "queued"
  BY <1>1, OthersWait
<1>3. /\ stage' \in Seq(Stages) /\ Len(stage') = Len(stage) /\ stage'[i] = "done"
      /\ \A j \in Calls : j # i => stage'[j] = stage[j]
  BY DEF Written, Stages, TypeOK, Calls
<1>4. /\ Calls' = Calls /\ seqno' = seqno + 1
      /\ UNCHANGED <<encrypted, counter, packet, wire, broken>>
  BY <1>3 DEF Written, NextSeqno, Calls
<1>5. i = seqno + 1 /\ seqno \in Nat
  BY <1>1, SeqnoIsNat DEF DoneIsPrefix
<1>6. TypeOK'
  BY <1>3, <1>4, <1>5 DEF TypeOK, Calls
<1>7. OneAtATime'
  BY <1>1, <1>3, <1>4 DEF OneAtATime, Settled, Turn, Calls, TypeOK
<1>8. DoneIsPrefix'
  <2>1. \A j \in Calls : j # i => (stage[j] = "done" <=> j <= seqno) /\ stage[j] # "writing"
    BY <1>2 DEF DoneIsPrefix, Settled
  <2>2. \A j \in Calls : j \in Nat
    BY DEF Calls
  <2> QED
    BY <1>3, <1>4, <1>5, <2>1, <2>2 DEF DoneIsPrefix
<1>9. WireMatches'
  <2>1. \A k \in 1..Len(wire) : k \in Calls
    BY DEF WireMatches, Calls, TypeOK
  <2> QED
    BY <1>1, <1>3, <1>4, <2>1 DEF WireMatches
<1>10. PendingIsFresh'
  BY <1>2, <1>3, <1>4 DEF PendingIsFresh, Settled
<1>11. CounterBeyond' /\ SeqnoIsPosition' /\ KeystreamFresh'
  BY <1>4 DEF CounterBeyond, SeqnoIsPosition, KeystreamFresh
<1> QED
  BY <1>6, <1>7, <1>8, <1>9, <1>10, <1>11

LEMMA WriteFailedStep ==
    ASSUME IInv, NEW i \in Calls, WriteFailed(i)
    PROVE  IInv'
<1> USE DEF IInv
<1>1. stage[i] = "writing" /\ broken /\ ~Settled(i) /\ Turn(i)
  BY RunningHasTurn DEF WriteFailed, Settled
<1>2. /\ stage' \in Seq(Stages) /\ Len(stage') = Len(stage) /\ stage'[i] = "failed"
      /\ \A j \in Calls : j # i => stage'[j] = stage[j]
  BY DEF WriteFailed, Stages, TypeOK, Calls
<1>3. Calls' = Calls /\ UNCHANGED <<encrypted, counter, seqno, packet, wire, broken>>
  BY <1>2 DEF WriteFailed, Calls
<1>4. TypeOK'
  BY <1>2, <1>3 DEF TypeOK
<1>5. OneAtATime'
  BY <1>1, <1>2, <1>3 DEF OneAtATime, Settled, Turn, Calls, TypeOK
<1>6. DoneIsPrefix'
  BY <1>1, <1>2, <1>3 DEF DoneIsPrefix
<1>7. WireMatches'
  BY <1>1, <1>2, <1>3 DEF WireMatches
<1>8. PendingIsFresh'
  BY <1>2, <1>3 DEF PendingIsFresh
<1>9. CounterBeyond' /\ SeqnoIsPosition' /\ KeystreamFresh'
  BY <1>3 DEF CounterBeyond, SeqnoIsPosition, KeystreamFresh
<1> QED
  BY <1>4, <1>5, <1>6, <1>7, <1>8, <1>9

LEMMA InstallKeysStep ==
    ASSUME IInv, InstallKeys
    PROVE  IInv'
<1> USE DEF IInv
<1>1. /\ ~encrypted /\ encrypted' = TRUE /\ counter' = 0
      /\ Calls' = Calls /\ UNCHANGED <<seqno, stage, packet, wire, broken>>
      /\ \A i \in Calls : stage[i] = "done"
  BY DEF InstallKeys, Calls
<1>2. \A k \in 1..Len(wire) : ~wire[k].enc
  BY <1>1 DEF CounterBeyond
<1>3. TypeOK'
  BY <1>1 DEF TypeOK
<1>4. OneAtATime' /\ DoneIsPrefix' /\ WireMatches'
  BY <1>1 DEF OneAtATime, Settled, DoneIsPrefix, WireMatches
<1>5. PendingIsFresh'
  BY <1>1 DEF PendingIsFresh
<1>6. CounterBeyond' /\ SeqnoIsPosition' /\ KeystreamFresh'
  BY <1>1, <1>2 DEF CounterBeyond, SeqnoIsPosition, KeystreamFresh
<1> QED
  BY <1>3, <1>4, <1>5, <1>6

LEMMA ConnectionLostStep ==
    ASSUME IInv, ConnectionLost
    PROVE  IInv'
<1> USE DEF IInv
<1>1. /\ broken' = TRUE /\ Calls' = Calls
      /\ UNCHANGED <<encrypted, counter, seqno, stage, packet, wire>>
  BY DEF ConnectionLost, Calls
<1>2. TypeOK' /\ OneAtATime' /\ DoneIsPrefix' /\ WireMatches'
  BY <1>1 DEF TypeOK, OneAtATime, Settled, DoneIsPrefix, WireMatches
<1>3. PendingIsFresh' /\ CounterBeyond' /\ SeqnoIsPosition' /\ KeystreamFresh'
  BY <1>1 DEF PendingIsFresh, CounterBeyond, SeqnoIsPosition, KeystreamFresh
<1> QED
  BY <1>2, <1>3

-----------------------------------------------------------------------------
LEMMA InitIInv == Init => IInv
<1> SUFFICES ASSUME Init
             PROVE  IInv
  OBVIOUS
<1>1. Calls = {} /\ 1..Len(wire) = {} /\ Len(wire) = 0 /\ Len(stage) = 0
  BY DEF Init, Calls
<1>2. TypeOK
  <2>1. <<>> \in Seq(Stages) /\ <<>> \in Seq(Packets)
    OBVIOUS
  <2>2. 0 \in Nat /\ 0 \in 0..0
    OBVIOUS
  <2> QED
    BY <1>1, <2>1, <2>2 DEF Init, TypeOK
<1> QED
  BY <1>1, <1>2 DEF IInv, OneAtATime, DoneIsPrefix, WireMatches, PendingIsFresh,
                    CounterBeyond, SeqnoIsPosition, KeystreamFresh

LEMMA NextIInv ==
    ASSUME IInv, [Next]_vars
    PROVE  IInv'
<1>1. CASE \E b \in Sizes : Call(b, Len(stage) < Setup)
  <2>1. (Len(stage) < Setup) \in BOOLEAN
    OBVIOUS
  <2> QED
    BY <1>1, <2>1, CallStep
<1>2. ASSUME NEW i \in Calls, Chained(i) \/ Progress(i)
      PROVE  IInv'
  <2>1. CASE Chained(i)
    BY <2>1, BeginStep DEF Chained
  <2>2. CASE Signed(i)
    BY <2>2, SignedStep
  <2>3. CASE Enciphered(i)
    BY <2>3, EncipheredStep
  <2>4. CASE Written(i)
    BY <2>4, WrittenStep
  <2>5. CASE WriteFailed(i)
    BY <2>5, WriteFailedStep
  <2> QED
    BY <1>2, <2>1, <2>2, <2>3, <2>4, <2>5 DEF Progress
<1>3. CASE InstallKeys
  BY <1>3, InstallKeysStep
<1>4. CASE ConnectionLost
  BY <1>4, ConnectionLostStep
<1>5. CASE UNCHANGED vars
  BY <1>5 DEF vars, IInv, TypeOK, OneAtATime, Settled, Calls, DoneIsPrefix,
              WireMatches, PendingIsFresh, CounterBeyond, SeqnoIsPosition, KeystreamFresh
<1> QED
  BY <1>1, <1>2, <1>3, <1>4, <1>5 DEF Next

(* Every state of a terminal session satisfies the inductive invariant.      *)
THEOREM Invariance == Spec => []IInv
  BY InitIInv, NextIInv, PTL DEF Spec

(* The variables of the sender keep their types.                             *)
THEOREM TypeCorrect == Spec => []TypeOK
  BY Invariance, PTL DEF IInv

(* Every packet of a terminal session carries the number of its position.    *)
THEOREM NumbersArePositions == Spec => []SeqnoIsPosition
  BY Invariance, PTL DEF IInv

(* A terminal session never uses a block of keystream twice.                 *)
THEOREM KeystreamIsFresh == Spec => []KeystreamFresh
  BY Invariance, PTL DEF IInv

-----------------------------------------------------------------------------
(* Order.  A packet that is on the wire is never built again: its call is    *)
(* beyond the building, even if its write is rejected after all.             *)
Sent ==
    \A k \in 1..Len(wire) : /\ k \in Calls
                            /\ stage[k] \in {"writing", "done", "failed"}
                            /\ wire[k] = packet[k]

(* A step that writes nothing and touches no packet on the wire.             *)
LEMMA NothingSent ==
    ASSUME Sent, wire' = wire, Calls \subseteq Calls',
           \A k \in Calls : stage[k] \in {"writing", "done", "failed"} =>
                               /\ stage'[k] \in {"writing", "done", "failed"}
                               /\ packet'[k] = packet[k]
    PROVE  Sent'
  BY DEF Sent

(* The write of the call whose turn it is.                                   *)
LEMMA WriteSends ==
    ASSUME IInv, Sent, NEW i \in Calls, Turn(i), stage[i] \in {"queued", "encrypting"},
           NEW p \in Packets, Write(i, p)
    PROVE  Sent'
<1> DEFINE x == IF broken THEN "failed" ELSE "writing"
<1> USE DEF IInv
<1>1. stage' = [stage EXCEPT ![i] = x] /\ x \in Stages /\ x \in {"writing", "failed"}
  BY DEF Write, Stages
<1>2. /\ Len(stage') = Len(stage) /\ stage'[i] = x
      /\ \A j \in Calls : j # i => stage'[j] = stage[j]
  BY <1>1 DEF TypeOK, Calls
<1>3. /\ packet'[i] = p
      /\ \A j \in Calls : j # i => packet'[j] = packet[j]
  BY DEF Write, TypeOK, Calls
<1>4. Calls' = Calls
  BY <1>2 DEF Calls
<1>5. CASE broken
  <2>1. wire' = wire
    BY <1>5 DEF Write
  <2> QED
    BY <1>2, <1>3, <1>4, <2>1, NothingSent
<1>6. CASE ~broken
  <2>1. /\ Len(wire') = Len(wire) + 1
        /\ \A k \in 1..Len(wire) : wire'[k] = wire[k]
        /\ wire'[Len(wire) + 1] = p
    BY <1>6, WireGrows DEF Write, TypeOK
  <2>2. Len(wire) \in Nat /\ i = Len(wire) + 1
    <3>1. Len(wire) = i - 1
      BY <1>6, NextOnWire
    <3> QED
      BY <3>1 DEF Calls, TypeOK
  <2>3. \A k \in 1..Len(wire') : k = i \/ (k \in 1..Len(wire) /\ k # i)
    BY <2>1, <2>2
  <2> QED
    BY <1>1, <1>2, <1>3, <1>4, <2>1, <2>2, <2>3 DEF Sent
<1> QED
  BY <1>5, <1>6

LEMMA NextSent ==
    ASSUME IInv, Sent, [Next]_vars
    PROVE  Sent'
<1> USE DEF IInv
<1>1. ASSUME NEW b \in Sizes, Call(b, Len(stage) < Setup)
      PROVE  Sent'
  <2>1. /\ wire' = wire /\ Calls \subseteq Calls'
        /\ \A k \in Calls : stage'[k] = stage[k] /\ packet'[k] = packet[k]
    BY <1>1 DEF Call, TypeOK, Calls
  <2> QED
    BY <2>1, NothingSent
<1>2. ASSUME NEW i \in Calls, Chained(i)
      PROVE  Sent'
  <2>1. stage[i] = "queued" /\ Turn(i) /\ packet[i] \in Packets
    BY <1>2 DEF Chained, Begin, TypeOK, Calls
  <2>2. CASE encrypted
    <3>1. /\ wire' = wire /\ Calls' = Calls
          /\ \A k \in Calls : k # i => stage'[k] = stage[k] /\ packet'[k] = packet[k]
      BY <1>2, <2>2 DEF Chained, Begin, TypeOK, Calls
    <3> QED
      BY <2>1, <3>1, NothingSent
  <2>3. CASE ~encrypted
    <3> DEFINE p == [packet[i] EXCEPT !.seq = seqno]
    <3>1. p \in Packets
      BY <2>1, SeqnoIsNat DEF Packets
    <3>2. Write(i, p)
      BY <1>2, <2>3 DEF Chained, Begin
    <3> HIDE DEF p
    <3> QED
      BY <2>1, <3>1, <3>2, WriteSends
  <2> QED
    BY <2>2, <2>3
<1>3. ASSUME NEW i \in Calls, Signed(i)
      PROVE  Sent'
  <2>1. /\ wire' = wire /\ Calls' = Calls /\ stage[i] = "signing"
        /\ \A k \in Calls : k # i => stage'[k] = stage[k] /\ packet'[k] = packet[k]
    BY <1>3 DEF Signed, TypeOK, Calls
  <2> QED
    BY <2>1, NothingSent
<1>4. ASSUME NEW i \in Calls, Enciphered(i)
      PROVE  Sent'
  <2>1. stage[i] = "encrypting" /\ Turn(i) /\ packet[i] \in Packets /\ Write(i, packet[i])
    BY <1>4, RunningHasTurn DEF Enciphered, TypeOK, Calls
  <2> QED
    BY <2>1, WriteSends
<1>5. ASSUME NEW i \in Calls, Written(i) \/ WriteFailed(i)
      PROVE  Sent'
  <2>1. /\ wire' = wire /\ Calls' = Calls /\ packet' = packet
        /\ stage'[i] \in {"done", "failed"}
        /\ \A k \in Calls : k # i => stage'[k] = stage[k]
    BY <1>5 DEF Written, WriteFailed, TypeOK, Calls
  <2> QED
    BY <2>1, NothingSent
<1>6. CASE InstallKeys \/ ConnectionLost \/ UNCHANGED vars
  <2>1. wire' = wire /\ Calls' = Calls /\ packet' = packet /\ stage' = stage
    BY <1>6 DEF InstallKeys, ConnectionLost, vars, Calls
  <2> QED
    BY <2>1, NothingSent
<1> QED
  BY <1>1, <1>2, <1>3, <1>4, <1>5, <1>6 DEF Next, Progress

(* The packets of a terminal session are on the wire in the order of the     *)
(* calls, each as its call built it.                                         *)
THEOREM PacketsKeepCallOrder == Spec => []CallOrder
<1>1. Init => Sent
  BY DEF Init, Sent
<1>2. IInv /\ Sent /\ [Next]_vars => Sent'
  BY NextSent
<1>3. IInv /\ Sent => CallOrder
  BY DEF IInv, WireMatches, Sent, CallOrder
<1> QED
  BY Invariance, <1>1, <1>2, <1>3, PTL DEF Spec
-----------------------------------------------------------------------------
(* The subsystem session calls the send function at once, and awaits it: the *)
(* one exception is its answer to a channel request.  Until it has made that *)
(* exception it is as good as the promise chain.                             *)
AllAwaited == \A i \in Calls : packet[i].awaited

(* Every call but the last is settled.                                       *)
OnlyTheLast == \A i \in Calls : i < Len(stage) => Settled(i)

(* Of every session, also after the exception.                               *)
DirectTypes ==
    /\ counter \in Nat /\ seqno \in Nat
    /\ stage \in Seq(Stages)
    /\ packet \in Seq(Packets)
    /\ Len(packet) = Len(stage)

DirectInv == DirectTypes /\ (AllAwaited => IInv /\ Sent /\ OnlyTheLast)

LEMMA LastHasTurn ==
    ASSUME IInv, OnlyTheLast, NEW i \in Calls
    PROVE  Turn(i)
  BY DEF Turn, OnlyTheLast, Calls, IInv, TypeOK

(* A packet that is being built keeps its type, and says as before whether   *)
(* it is awaited.                                                            *)
LEMMA DirectBuilds ==
    ASSUME DirectTypes, NEW i \in Calls, NEW p \in Packets, p.awaited = packet[i].awaited,
           NEW x \in Stages,
           packet' = [packet EXCEPT ![i] = p] \/ packet' = packet,
           stage' = [stage EXCEPT ![i] = x],
           counter' \in Nat, seqno' \in Nat
    PROVE  /\ DirectTypes' /\ Calls' = Calls
           /\ \A k \in Calls : packet'[k].awaited = packet[k].awaited
           /\ \A k \in Calls : k # i => stage'[k] = stage[k]
           /\ stage'[i] = x
<1>1. /\ stage \in Seq(Stages) /\ packet \in Seq(Packets)
      /\ Len(packet) = Len(stage) /\ i \in 1..Len(stage)
  BY DEF DirectTypes, Calls
<1>2. /\ stage' \in Seq(Stages) /\ Len(stage') = Len(stage) /\ stage'[i] = x
      /\ \A k \in 1..Len(stage) : k # i => stage'[k] = stage[k]
  BY <1>1
<1>3. /\ packet' \in Seq(Packets) /\ Len(packet') = Len(packet)
      /\ \A k \in 1..Len(packet) : packet'[k] = IF k = i /\ packet' # packet THEN p ELSE packet[k]
  <2>1. CASE packet' = [packet EXCEPT ![i] = p]
    BY <1>1, <2>1
  <2>2. CASE packet' = packet
    BY <1>1, <2>2
  <2> QED
    BY <2>1, <2>2
<1> QED
  BY <1>1, <1>2, <1>3 DEF DirectTypes, Calls

LEMMA DirectTypesKept ==
    ASSUME DirectTypes, NEW i \in Calls, Direct(i) \/ Progress(i)
    PROVE  /\ DirectTypes' /\ Calls' = Calls
           /\ \A k \in Calls : packet'[k].awaited = packet[k].awaited
           /\ \A k \in Calls : k # i => stage'[k] = stage[k]
           /\ Settled(i) => stage'[i] = stage[i]
<1>1. packet[i] \in Packets /\ counter \in Nat /\ seqno \in Nat
  BY DEF DirectTypes, Calls
<1>2. Stages = {"queued", "signing", "encrypting", "writing", "done", "failed"}
  BY DEF Stages
<1>3. packet = [packet EXCEPT ![i] = packet[i]]
  BY DEF DirectTypes, Calls
<1>4. ~Settled(i)
  BY DEF Direct, Begin, Progress, Signed, Enciphered, Written, WriteFailed, Settled
<1>5. CASE Direct(i)
  <2> DEFINE p == [packet[i] EXCEPT !.seq = seqno, !.enc = TRUE]
             q == [packet[i] EXCEPT !.seq = seqno]
  <2>1. /\ p \in Packets /\ p.awaited = packet[i].awaited
        /\ q \in Packets /\ q.awaited = packet[i].awaited
    BY <1>1 DEF Packets
  <2>2. counter' = counter /\ seqno' = seqno
    BY <1>5 DEF Direct, Begin
  <2>3. CASE encrypted
    <3>1. packet' = [packet EXCEPT ![i] = p] /\ stage' = [stage EXCEPT ![i] = "signing"]
      BY <1>5, <2>3 DEF Direct, Begin, DirectTypes
    <3> HIDE DEF p
    <3> QED BY <1>1, <1>2, <1>4, <2>1, <2>2, <3>1, DirectBuilds
  <2>4. CASE ~encrypted
    <3>1. packet' = [packet EXCEPT ![i] = q]
          /\ \E x \in {"failed", "writing"} : stage' = [stage EXCEPT ![i] = x]
      BY <1>5, <2>4 DEF Direct, Begin, Write
    <3> HIDE DEF q
    <3> QED BY <1>1, <1>2, <1>4, <2>1, <2>2, <3>1, DirectBuilds
  <2> QED BY <2>3, <2>4
<1>6. CASE Signed(i)
  <2> DEFINE p == [packet[i] EXCEPT !.from = counter]
  <2>1. p \in Packets /\ p.awaited = packet[i].awaited
    BY <1>1 DEF Packets
  <2>2. /\ packet' = [packet EXCEPT ![i] = p] /\ stage' = [stage EXCEPT ![i] = "encrypting"]
        /\ counter' = counter /\ seqno' = seqno
    BY <1>6 DEF Signed, DirectTypes
  <2> HIDE DEF p
  <2> QED BY <1>1, <1>2, <1>4, <2>1, <2>2, DirectBuilds
<1>7. CASE Enciphered(i)
  <2>1. counter' \in Nat /\ seqno' = seqno
    BY <1>1, <1>7, PacketFields DEF Enciphered, Advanced
  <2>2. packet' = [packet EXCEPT ![i] = packet[i]]
        /\ \E x \in {"failed", "writing"} : stage' = [stage EXCEPT ![i] = x]
    BY <1>7 DEF Enciphered, Write
  <2> QED BY <1>1, <1>2, <1>4, <2>1, <2>2, DirectBuilds
<1>8. CASE Written(i) \/ WriteFailed(i)
  <2>1. counter' = counter /\ seqno' \in Nat /\ packet' = packet
    BY <1>1, <1>8 DEF Written, WriteFailed, NextSeqno
  <2>2. \E x \in {"done", "failed"} : stage' = [stage EXCEPT ![i] = x]
    BY <1>8 DEF Written, WriteFailed
  <2> QED BY <1>1, <1>2, <1>4, <2>1, <2>2, DirectBuilds
<1> QED BY <1>5, <1>6, <1>7, <1>8 DEF Progress

(* A new call: it waits for every call before it that is awaited.            *)
LEMMA DirectCallStep ==
    ASSUME DirectInv, NEW b \in Sizes, NEW awaited \in BOOLEAN, DirectCall(b, awaited)
    PROVE  DirectInv'
<1> DEFINE n == Len(stage)
           p == [blocks |-> b, awaited |-> awaited, enc |-> FALSE, seq |-> 0, from |-> 0]
<1>1. Call(b, awaited) /\ \A i \in Calls : packet[i].awaited => Settled(i)
  BY DEF DirectCall
<1>2. /\ n \in Nat /\ Calls = 1 .. n /\ Calls' = 1 .. (n + 1)
      /\ stage' \in Seq(Stages) /\ Len(stage') = n + 1
      /\ \A i \in 1 .. n : stage'[i] = stage[i]
  BY <1>1 DEF Call, DirectInv, DirectTypes, Stages, Calls
<1>3. /\ packet' \in Seq(Packets) /\ Len(packet') = n + 1
      /\ \A i \in 1 .. n : packet'[i] = packet[i]
  <2>1. p \in Packets
    BY DEF Packets
  <2> HIDE DEF p
  <2>2. packet' = Append(packet, p)
    BY <1>1 DEF Call, p
  <2> QED BY <2>1, <2>2 DEF DirectInv, DirectTypes
<1>4. DirectTypes' /\ UNCHANGED wire
  BY <1>1, <1>2, <1>3 DEF Call, DirectInv, DirectTypes
<1>5. ASSUME AllAwaited'
      PROVE  (IInv /\ Sent /\ OnlyTheLast)'
  <2>1. AllAwaited
    BY <1>2, <1>3, <1>5 DEF AllAwaited
  <2>2. IInv /\ Sent
    BY <2>1 DEF DirectInv
  <2>3. IInv'
    BY <1>1, <2>2, CallStep
  <2>4. Sent'
    BY <1>2, <1>3, <1>4, <2>2, NothingSent
  <2>5. OnlyTheLast'
    BY <1>1, <1>2, <2>1 DEF AllAwaited, OnlyTheLast, Settled
  <2> QED BY <2>3, <2>4, <2>5
<1> QED BY <1>4, <1>5 DEF DirectInv

LEMMA DirectWorkStep ==
    ASSUME DirectInv, NEW i \in Calls, Direct(i) \/ Progress(i)
    PROVE  DirectInv'
<1>1. /\ DirectTypes' /\ Calls' = Calls
      /\ \A k \in Calls : packet'[k].awaited = packet[k].awaited
      /\ \A k \in Calls : k # i => stage'[k] = stage[k]
      /\ Settled(i) => stage'[i] = stage[i]
  BY DirectTypesKept DEF DirectInv
<1>2. ASSUME AllAwaited'
      PROVE  (IInv /\ Sent /\ OnlyTheLast)'
  <2>1. AllAwaited
    BY <1>1, <1>2 DEF AllAwaited
  <2>2. IInv /\ Sent /\ OnlyTheLast
    BY <2>1 DEF DirectInv
  <2>3. Turn(i)
    BY <2>2, LastHasTurn
  <2>4. Chained(i) \/ Progress(i)
    BY <2>3 DEF Chained, Direct
  <2>5. IInv' /\ Sent'
    <3>1. Next
      BY <2>4 DEF Next
    <3> QED BY <2>2, <3>1, NextIInv, NextSent
  <2>6. OnlyTheLast'
    <3>1. Len(stage') = Len(stage)
      BY <1>1 DEF Calls, DirectTypes, DirectInv
    <3> QED BY <1>1, <2>2, <3>1 DEF OnlyTheLast, Settled
  <2> QED BY <2>5, <2>6
<1> QED BY <1>1, <1>2 DEF DirectInv

LEMMA DirectElsewhere ==
    ASSUME DirectInv, InstallKeys \/ ConnectionLost \/ UNCHANGED vars
    PROVE  DirectInv'
<1>1. /\ stage' = stage /\ packet' = packet /\ wire' = wire /\ seqno' = seqno
      /\ counter' \in {counter, 0}
  BY DEF InstallKeys, ConnectionLost, vars
<1>2. DirectTypes' /\ (AllAwaited' <=> AllAwaited) /\ (OnlyTheLast' <=> OnlyTheLast)
  BY <1>1 DEF DirectInv, DirectTypes, AllAwaited, OnlyTheLast, Settled, Calls
<1>3. ASSUME IInv, Sent
      PROVE  IInv' /\ Sent'
  <2>1. [Next]_vars
    BY DEF Next
  <2> QED BY <1>3, <2>1, NextIInv, NextSent
<1> QED BY <1>2, <1>3 DEF DirectInv

(* As long as a subsystem session has awaited every packet it sent, it has   *)
(* what the promise chain gives: numbers are positions, packets are in call  *)
(* order, and keystream is fresh.  The one packet it does not await is the   *)
(* answer to a channel request (handleChannelRequest).                       *)
THEOREM AwaitedIsSafe ==
    DirectSpec => [](AllAwaited => SeqnoIsPosition /\ CallOrder /\ KeystreamFresh)
<1>1. Init => DirectInv
  <2>1. Init => IInv /\ Sent
    BY InitIInv DEF Init, Sent
  <2>2. Init => DirectTypes /\ OnlyTheLast
    BY DEF Init, DirectTypes, OnlyTheLast, Calls
  <2> QED BY <2>1, <2>2 DEF DirectInv
<1>2. DirectInv /\ [DirectNext]_vars => DirectInv'
  BY DirectCallStep, DirectWorkStep, DirectElsewhere DEF DirectNext
<1>3. DirectInv => (AllAwaited => SeqnoIsPosition /\ CallOrder /\ KeystreamFresh)
  BY DEF DirectInv, IInv, WireMatches, Sent, CallOrder
<1> QED
  BY <1>1, <1>2, <1>3, PTL DEF DirectSpec

-----------------------------------------------------------------------------
(* Refinement.  What the server has not seen yet of a packet does not count, *)
(* so the step that hands a packet to the connection is the abstract Put; it *)
(* must then take the packet of the next call (NextOnWire), with the number  *)
(* of its place (SeqnoIsPosition), from the block at which the last one      *)
(* ended.  The last is more than freshness: until the connection is lost the *)
(* counter is exactly there.                                                 *)
Asked == [i \in 1..Len(packet) |-> packet[i].blocks]
OnWire == [k \in 1..Len(wire) |-> Shown(wire[k])]

InStep ==
    /\ ~broken => counter = Transport!Used(OnWire)
    /\ \A i \in Calls : stage[i] = "queued" => packet[i].from = 0

(* An element is put behind a sequence that is given element by element.     *)
LEMMA AppendEach ==
    ASSUME NEW S, NEW n \in Nat, NEW f, \A k \in 1..n : f[k] \in S, NEW x \in S
    PROVE  Append([k \in 1..n |-> f[k]], x) = [k \in 1..(n + 1) |-> IF k = n + 1 THEN x ELSE f[k]]
<1> DEFINE s == [k \in 1..n |-> f[k]]
           t == [k \in 1..(n + 1) |-> IF k = n + 1 THEN x ELSE f[k]]
<1>1. s \in Seq(S) /\ Len(s) = n /\ \A k \in 1..n : s[k] = f[k]
  OBVIOUS
<1>2. t \in Seq(S) /\ Len(t) = n + 1
  <2>1. \A k \in 1..(n + 1) : t[k] \in S
    OBVIOUS
  <2> QED BY <2>1
<1> DEFINE a == Append(s, x)
<1>3. /\ a \in Seq(S) /\ Len(a) = n + 1 /\ a[n + 1] = x
      /\ \A k \in 1..n : a[k] = s[k]
  <2> HIDE DEF s
  <2> QED BY <1>1, AppendProperties
<1>4. \A k \in 1..(n + 1) : a[k] = t[k]
  <2> TAKE k \in 1..(n + 1)
  <2>1. k \in 1..n \/ k = n + 1
    OBVIOUS
  <2> HIDE DEF a, s
  <2> QED BY <1>1, <1>3, <2>1
<1> HIDE DEF a, t
<1>5. a = t
  BY <1>2, <1>3, <1>4, SeqEqual
<1> QED BY <1>5 DEF a, t

(* What the server sees of a packet that is handed to the connection.        *)
LEMMA OnWireGrows ==
    ASSUME NEW w \in Seq(Packets), NEW p \in Packets, NEW w2, w2 = Append(w, p)
    PROVE  [k \in 1..Len(w2) |-> Shown(w2[k])] = Append([k \in 1..Len(w) |-> Shown(w[k])], Shown(p))
<1> DEFINE f == [k \in 1..Len(w) |-> Shown(w[k])]
           S == {Shown(q) : q \in Packets}
<1>1. /\ w2 \in Seq(Packets) /\ Len(w2) = Len(w) + 1 /\ Len(w) \in Nat
      /\ \A k \in 1..Len(w) : w2[k] = w[k] /\ w[k] \in Packets
      /\ w2[Len(w) + 1] = p
  BY WireGrows
<1>2. /\ \A k \in 1..Len(w) : f[k] \in S /\ f[k] = Shown(w[k])
      /\ Shown(p) \in S /\ f = [k \in 1..Len(w) |-> f[k]]
  BY <1>1
<1> HIDE DEF f, S
<1>3. Append(f, Shown(p)) = [k \in 1..(Len(w) + 1) |-> IF k = Len(w) + 1 THEN Shown(p) ELSE f[k]]
  BY <1>1, <1>2, AppendEach
<1>4. \A k \in 1..(Len(w) + 1) : Shown(w2[k]) = IF k = Len(w) + 1 THEN Shown(p) ELSE f[k]
  <2> TAKE k \in 1..(Len(w) + 1)
  <2>1. k \in 1..Len(w) \/ k = Len(w) + 1
    BY <1>1
  <2> QED BY <1>1, <1>2, <2>1
<1> QED BY <1>1, <1>3, <1>4 DEF f

(* The two sequences of the server, and the keystream before the keys.       *)
LEMMA Sequences ==
    ASSUME TypeOK
    PROVE  /\ Asked \in Seq(Nat) /\ Len(Asked) = Len(stage) /\ Len(stage) \in Nat
           /\ \A i \in Calls : Asked[i] = packet[i].blocks
           /\ Len(OnWire) = Len(wire) /\ Len(wire) \in Nat
           /\ \A k \in 1..Len(wire) : OnWire[k] = Shown(wire[k])
<1>1. \A i \in 1..Len(packet) : packet[i].blocks \in Nat
  BY PacketFields DEF TypeOK
<1>2. /\ Len(packet) = Len(stage) /\ Len(stage) \in Nat /\ Len(wire) \in Nat
      /\ Calls = 1..Len(packet)
  BY DEF TypeOK, Calls
<1>3. Asked \in Seq(Nat) /\ Len(Asked) = Len(packet)
  BY <1>1, <1>2 DEF Asked
<1>4. Len(OnWire) = Len(wire)
  BY <1>2 DEF OnWire
<1> QED BY <1>2, <1>3, <1>4 DEF Asked, OnWire

LEMMA NoneBeforeTheKeys ==
    ASSUME TypeOK, CounterBeyond, ~encrypted
    PROVE  Transport!Used(OnWire) = 0
<1>1. \A k \in 1..Len(OnWire) : ~OnWire[k].enc
  <2> TAKE k \in 1..Len(OnWire)
  <2>1. k \in 1..Len(wire) /\ OnWire[k] = Shown(wire[k])
    BY Sequences
  <2>2. ~wire[k].enc
    BY <2>1 DEF CounterBeyond
  <2> QED BY <2>1, <2>2 DEF Shown
<1>2. OnWire # <<>> => Len(OnWire) \in 1..Len(OnWire)
  <2>1. Len(OnWire) \in Nat /\ (Len(OnWire) = 0 => OnWire = <<>>)
    <3>1. Len(OnWire) = 0 => 1..Len(wire) = {}
      BY Sequences
    <3>2. \A f : f = [k \in {} |-> Shown(wire[k])] => f = <<>>
      OBVIOUS
    <3> QED BY Sequences, <3>1, <3>2 DEF OnWire
  <2> QED BY <2>1
<1> QED BY <1>1, <1>2 DEF Transport!Used

(* A packet taken moves the end of the keystream that was used to its own.   *)
LEMMA UsedGrows ==
    ASSUME NEW S, NEW w \in Seq(S), NEW x \in S
    PROVE  Transport!Used(Append(w, x)) = IF x.enc THEN x.from + x.blocks ELSE 0
<1> DEFINE a == Append(w, x)
<1>1. a # <<>> /\ a[Len(a)] = x
  BY AppendProperties
<1> HIDE DEF a
<1>2. Transport!Used(a) = IF x.enc THEN x.from + x.blocks ELSE 0
  BY <1>1 DEF Transport!Used
<1> QED BY <1>2 DEF a

(* The write of the call whose turn it is takes the first packet that waits. *)
LEMMA PutStep ==
    ASSUME IInv, InStep, NEW i \in Calls, Turn(i), ~broken,
           stage[i] \in {"queued", "encrypting"},
           NEW p \in Packets, Write(i, p),
           p.blocks = packet[i].blocks, p.seq = seqno, p.enc = encrypted, p.from = counter,
           counter' = IF p.enc THEN counter + p.blocks ELSE 0,
           UNCHANGED <<encrypted, broken>>
    PROVE  Transport!Put /\ InStep'
<1> USE DEF IInv
<1>1. Len(wire) = i - 1 /\ seqno = i - 1 /\ i \in Nat
  BY NextOnWire DEF Calls, TypeOK
<1>2. /\ Asked \in Seq(Nat) /\ Len(Asked) = Len(stage) /\ Len(stage) \in Nat
      /\ Asked[i] = p.blocks
      /\ Len(OnWire) = Len(wire) /\ i \in 1..Len(stage)
  BY Sequences DEF Calls
<1>3. OnWire' = Append(OnWire, Shown(p))
  <2>1. wire' = Append(wire, p) /\ wire \in Seq(Packets)
    BY DEF Write, TypeOK
  <2> QED BY <2>1, OnWireGrows DEF OnWire
<1>4. /\ packet' \in Seq(Packets) /\ Len(packet') = Len(packet)
      /\ \A j \in 1..Len(packet) : packet'[j].blocks = packet[j].blocks
      /\ \A j \in Calls : j # i => packet'[j] = packet[j]
  BY DEF Write, TypeOK, Calls
<1>5. Asked' = Asked
  BY <1>4 DEF Asked
<1>6. Transport!Used(OnWire) = counter
  BY DEF InStep
<1>7. Shown(p) = [blocks |-> Asked[Len(OnWire) + 1], enc |-> encrypted,
                  seq |-> Len(OnWire), from |-> Transport!Used(OnWire)]
  <2>1. Len(OnWire) + 1 = i /\ Len(OnWire) = seqno
    BY <1>1, <1>2
  <2> QED BY <1>2, <1>6, <2>1 DEF Shown
<1>8. Len(OnWire) < Len(Asked)
  BY <1>1, <1>2
<1>9. Transport!Put
  <2>1. OnWire' = Append(OnWire, [blocks |-> Asked[Len(OnWire) + 1], enc |-> encrypted,
                                  seq |-> Len(OnWire), from |-> Transport!Used(OnWire)])
    BY <1>3, <1>7
  <2> QED BY <1>5, <1>8, <2>1 DEF Transport!Put, Asked, OnWire
<1>10. InStep'
  <2>1. counter' = Transport!Used(OnWire')
    <3> DEFINE S == {Shown(q) : q \in Packets}
    <3>1. OnWire \in Seq(S) /\ Shown(p) \in S
      <4>1. Len(wire) \in Nat /\ \A k \in 1..Len(wire) : Shown(wire[k]) \in S
        BY DEF TypeOK
      <4> HIDE DEF S
      <4>2. OnWire \in Seq(S)
        BY <4>1 DEF OnWire
      <4> QED BY <4>2 DEF S
    <3> HIDE DEF S
    <3>2. Transport!Used(OnWire') = IF Shown(p).enc THEN Shown(p).from + Shown(p).blocks ELSE 0
      BY <1>3, <3>1, UsedGrows
    <3> QED BY <3>2 DEF Shown
  <2>2. /\ Calls' = Calls /\ stage'[i] # "queued"
        /\ \A j \in Calls : j # i => stage'[j] = stage[j]
    BY DEF Write, TypeOK, Calls
  <2> QED BY <1>4, <2>1, <2>2 DEF InStep
<1> QED BY <1>9, <1>10

(* A step that hands nothing over and takes nothing.                         *)
LEMMA NothingPut ==
    ASSUME TypeOK, InStep, wire' = wire, encrypted' = encrypted, broken' = broken,
           ~broken => counter' = counter,
           packet' \in Seq(Packets), Len(packet') = Len(packet), Calls' = Calls,
           \A j \in Calls : /\ packet'[j].blocks = packet[j].blocks
                            /\ stage'[j] = "queued" => packet'[j].from = 0
    PROVE  UNCHANGED Transport!svars /\ InStep'
<1>1. Asked' = Asked /\ OnWire' = OnWire
  BY DEF Asked, OnWire, TypeOK, Calls
<1>2. UNCHANGED Transport!svars
  BY <1>1 DEF Transport!svars, Asked, OnWire
<1>3. InStep'
  BY <1>1 DEF InStep
<1> QED BY <1>2, <1>3

(* Every step of a terminal session is a step of the packet stream or hides  *)
(* from it.                                                                  *)
LEMMA NextInStep ==
    ASSUME IInv, InStep, [Next]_vars
    PROVE  [Transport!Next]_(Transport!svars) /\ InStep'
<1> USE DEF IInv
<1>1. ASSUME NEW b \in Sizes, NEW awaited \in BOOLEAN, Call(b, awaited)
      PROVE  Transport!Ask /\ InStep'
  <2> DEFINE n == Len(packet)
             p == [blocks |-> b, awaited |-> awaited, enc |-> FALSE, seq |-> 0, from |-> 0]
  <2>1. /\ n \in Nat /\ Calls = 1..n /\ Calls' = 1..(n + 1)
        /\ packet' = Append(packet, p) /\ p \in Packets
        /\ \A j \in 1..n : stage'[j] = stage[j]
        /\ UNCHANGED <<encrypted, counter, wire, broken>>
    BY <1>1 DEF Call, Packets, TypeOK, Calls
  <2>2. /\ packet' \in Seq(Packets) /\ Len(packet') = n + 1
        /\ \A j \in 1..n : packet'[j] = packet[j]
        /\ packet'[n + 1] = p
    BY <2>1 DEF TypeOK
  <2>3. Asked' = Append(Asked, b)
    <3>1. \A j \in 1..n : packet[j].blocks \in Nat
      BY PacketFields DEF TypeOK
    <3>2. b \in Nat
      BY SenderAssumption
    <3> DEFINE f == [j \in 1..n |-> packet[j].blocks]
    <3>3. n \in Nat /\ f = [j \in 1..n |-> f[j]] /\ \A j \in 1..n : f[j] \in Nat
      BY <2>1, <3>1
    <3> HIDE DEF f
    <3>4. Append(f, b) = [j \in 1..(n + 1) |-> IF j = n + 1 THEN b ELSE f[j]]
      BY <3>2, <3>3, AppendEach
    <3>5. \A j \in 1..(n + 1) : packet'[j].blocks = IF j = n + 1 THEN b ELSE f[j]
      <4> TAKE j \in 1..(n + 1)
      <4>1. j = n + 1 \/ j \in 1..n
        BY <2>1
      <4> QED BY <2>1, <2>2, <4>1 DEF f
    <3> QED BY <2>2, <3>4, <3>5 DEF Asked, f
  <2>4. OnWire' = OnWire
    BY <2>1 DEF OnWire
  <2>5. Transport!Ask
    BY <2>1, <2>3, <2>4 DEF Transport!Ask, Asked, OnWire
  <2>6. InStep'
    <3>1. \A j \in 1..(n + 1) : j \in 1..n \/ j = n + 1
      BY <2>1
    <3>2. packet'[n + 1].from = 0
      BY <2>2
    <3>3. \A j \in 1..n : stage'[j] = "queued" => packet'[j].from = 0
      BY <2>1, <2>2 DEF InStep
    <3> QED BY <2>1, <2>4, <3>1, <3>2, <3>3 DEF InStep
  <2> QED BY <2>5, <2>6
<1>2. ASSUME NEW i \in Calls, Chained(i)
      PROVE  [Transport!Next]_(Transport!svars) /\ InStep'
  <2>1. stage[i] = "queued" /\ Turn(i) /\ packet[i] \in Packets
    BY <1>2 DEF Chained, Begin, TypeOK, Calls
  <2>2. UNCHANGED <<encrypted, counter, seqno, broken>>
    BY <1>2 DEF Chained, Begin
  <2>3. CASE encrypted
    <3> DEFINE p == [packet[i] EXCEPT !.seq = seqno, !.enc = TRUE]
    <3>1. p \in Packets /\ p.blocks = packet[i].blocks
      BY <2>1, SeqnoIsNat DEF Packets
    <3>2. packet' = [packet EXCEPT ![i] = p] /\ wire' = wire /\ stage'[i] = "signing"
          /\ Calls' = Calls /\ \A j \in Calls : j # i => stage'[j] = stage[j]
      <4>1. packet' = [packet EXCEPT ![i] = p] /\ wire' = wire
            /\ stage' = [stage EXCEPT ![i] = "signing"]
        BY <1>2, <2>3 DEF Chained, Begin, TypeOK
      <4>2. "signing" \in Stages /\ stage \in Seq(Stages)
        BY DEF Stages, TypeOK
      <4> QED BY <4>1, <4>2 DEF Calls
    <3> HIDE DEF p
    <3>3. packet' \in Seq(Packets) /\ Len(packet') = Len(packet) /\ packet'[i] = p
          /\ \A j \in Calls : j # i => packet'[j] = packet[j]
      BY <3>1, <3>2 DEF TypeOK, Calls
    <3>4. \A j \in Calls : /\ packet'[j].blocks = packet[j].blocks
                           /\ stage'[j] = "queued" => packet'[j].from = 0
      BY <3>1, <3>2, <3>3 DEF InStep
    <3> QED BY <2>2, <3>2, <3>3, <3>4, NothingPut
  <2>4. CASE ~encrypted
    <3> DEFINE p == [packet[i] EXCEPT !.seq = seqno]
    <3>1. /\ p \in Packets /\ p.blocks = packet[i].blocks /\ p.seq = seqno
          /\ p.enc = packet[i].enc /\ p.from = packet[i].from
      BY <2>1, SeqnoIsNat DEF Packets
    <3>2. p.enc = FALSE /\ p.from = 0
      <4>1. ~packet[i].enc /\ packet[i].enc \in BOOLEAN
        BY <2>1, PacketFields DEF PendingIsFresh
      <4> QED BY <2>1, <3>1, <4>1 DEF InStep
    <3>3. Write(i, p)
      BY <1>2, <2>4 DEF Chained, Begin
    <3> HIDE DEF p
    <3>4. CASE ~broken
      <4>1. counter = 0
        BY <2>4, <3>4, NoneBeforeTheKeys DEF InStep
      <4>2. encrypted = FALSE
        BY <2>4 DEF TypeOK
      <4>3. Transport!Put /\ InStep'
        BY <2>1, <2>2, <3>1, <3>2, <3>3, <3>4, <4>1, <4>2, PutStep
      <4> QED BY <4>3 DEF Transport!Next
    <3>5. CASE broken
      <4>1. /\ wire' = wire /\ stage'[i] = "failed" /\ Calls' = Calls
            /\ \A j \in Calls : j # i => stage'[j] = stage[j]
        BY <3>3, <3>5 DEF Write, TypeOK, Calls
      <4>2. packet' \in Seq(Packets) /\ Len(packet') = Len(packet) /\ packet'[i] = p
            /\ \A j \in Calls : j # i => packet'[j] = packet[j]
        BY <3>1, <3>3 DEF Write, TypeOK, Calls
      <4>3. \A j \in Calls : /\ packet'[j].blocks = packet[j].blocks
                             /\ stage'[j] = "queued" => packet'[j].from = 0
        BY <3>1, <4>1, <4>2 DEF InStep
      <4> QED BY <2>2, <4>1, <4>2, <4>3, NothingPut
    <3> QED BY <3>4, <3>5
  <2> QED BY <2>3, <2>4
<1>3. ASSUME NEW i \in Calls, Signed(i)
      PROVE  UNCHANGED Transport!svars /\ InStep'
  <2> DEFINE p == [packet[i] EXCEPT !.from = counter]
  <2>1. packet[i] \in Packets /\ stage[i] = "signing"
    BY <1>3 DEF Signed, TypeOK, Calls
  <2>2. p \in Packets /\ p.blocks = packet[i].blocks
    BY <2>1, SeqnoIsNat DEF Packets
  <2>3. /\ packet' = [packet EXCEPT ![i] = p] /\ stage'[i] = "encrypting" /\ Calls' = Calls
        /\ \A j \in Calls : j # i => stage'[j] = stage[j]
        /\ UNCHANGED <<encrypted, counter, wire, broken>>
    BY <1>3 DEF Signed, TypeOK, Calls
  <2> HIDE DEF p
  <2>4. packet' \in Seq(Packets) /\ Len(packet') = Len(packet) /\ packet'[i] = p
        /\ \A j \in Calls : j # i => packet'[j] = packet[j]
    BY <2>2, <2>3 DEF TypeOK, Calls
  <2>5. \A j \in Calls : /\ packet'[j].blocks = packet[j].blocks
                         /\ stage'[j] = "queued" => packet'[j].from = 0
    BY <2>2, <2>3, <2>4 DEF InStep
  <2> QED BY <2>3, <2>4, <2>5, NothingPut
<1>4. ASSUME NEW i \in Calls, Enciphered(i)
      PROVE  [Transport!Next]_(Transport!svars) /\ InStep'
  <2>1. stage[i] = "encrypting" /\ Turn(i) /\ packet[i] \in Packets /\ Write(i, packet[i])
    BY <1>4, RunningHasTurn DEF Enciphered, TypeOK, Calls
  <2>2. /\ packet[i].enc \in BOOLEAN /\ packet[i].enc /\ encrypted /\ encrypted \in BOOLEAN
        /\ packet[i].seq = seqno /\ packet[i].from = counter
    BY <2>1, PacketFields DEF PendingIsFresh, TypeOK
  <2>3. counter' = counter + packet[i].blocks /\ UNCHANGED <<encrypted, broken>>
    BY <1>4 DEF Enciphered, Advanced
  <2>4. CASE ~broken
    <3>1. packet[i].enc = encrypted
      BY <2>2
    <3>2. Transport!Put /\ InStep'
      BY <2>1, <2>2, <2>3, <2>4, <3>1, PutStep
    <3> QED BY <3>2 DEF Transport!Next
  <2>5. CASE broken
    <3>1. /\ wire' = wire /\ stage'[i] = "failed" /\ Calls' = Calls
          /\ \A j \in Calls : j # i => stage'[j] = stage[j]
      BY <2>1, <2>5 DEF Write, TypeOK, Calls
    <3>2. packet' = packet
      BY <2>1 DEF Write, TypeOK, Calls
    <3>3. \A j \in Calls : stage'[j] = "queued" => packet[j].from = 0
      BY <3>1 DEF InStep
    <3> QED BY <2>3, <2>5, <3>1, <3>2, <3>3, NothingPut DEF TypeOK
  <2> QED BY <2>4, <2>5
<1>5. ASSUME NEW i \in Calls, Written(i) \/ WriteFailed(i)
      PROVE  UNCHANGED Transport!svars /\ InStep'
  <2>1. /\ UNCHANGED <<encrypted, counter, packet, wire, broken>> /\ Calls' = Calls
        /\ stage'[i] # "queued"
        /\ \A j \in Calls : j # i => stage'[j] = stage[j]
    <3>1. PICK x \in {"done", "failed"} : stage' = [stage EXCEPT ![i] = x]
      BY <1>5 DEF Written, WriteFailed
    <3>2. x \in Stages /\ x # "queued" /\ stage \in Seq(Stages)
      BY DEF Stages, TypeOK
    <3>3. UNCHANGED <<encrypted, counter, packet, wire, broken>>
      BY <1>5 DEF Written, WriteFailed
    <3> QED BY <3>1, <3>2, <3>3 DEF Calls
  <2>2. \A j \in Calls : stage'[j] = "queued" => packet[j].from = 0
    BY <2>1 DEF InStep
  <2> QED BY <2>1, <2>2, NothingPut DEF TypeOK
<1>6. CASE InstallKeys
  <2>1. /\ ~encrypted /\ encrypted' = TRUE /\ counter' = 0 /\ Calls' = Calls
        /\ \A j \in Calls : stage[j] = "done"
        /\ UNCHANGED <<stage, packet, wire, broken>>
    BY <1>6 DEF InstallKeys, Calls
  <2>2. Asked' = Asked /\ OnWire' = OnWire
    BY <2>1 DEF Asked, OnWire
  <2>3. Len(OnWire) = Len(Asked)
    <3>1. /\ Len(OnWire) = Len(wire) /\ Len(Asked) = Len(stage)
          /\ Len(stage) \in Nat /\ Len(wire) \in Nat
      BY Sequences
    <3>2. Len(wire) <= Len(stage) /\ \A j \in Calls : j <= Len(wire)
      BY <2>1 DEF WireMatches
    <3>3. Len(stage) = 0 \/ Len(stage) \in Calls
      BY <3>1 DEF Calls
    <3> QED BY <3>1, <3>2, <3>3
  <2>4. Transport!InstallKeys
    BY <2>1, <2>2, <2>3 DEF Transport!InstallKeys, Asked, OnWire
  <2>5. InStep'
    BY <2>1, <2>2, NoneBeforeTheKeys DEF InStep
  <2> QED BY <2>4, <2>5 DEF Transport!Next
<1>7. CASE ConnectionLost
  <2>1. /\ broken' = TRUE /\ Calls' = Calls
        /\ UNCHANGED <<encrypted, counter, stage, packet, wire>>
    BY <1>7 DEF ConnectionLost, Calls
  <2>2. Asked' = Asked /\ OnWire' = OnWire
    BY <2>1 DEF Asked, OnWire
  <2>3. Transport!Lose
    BY <2>1, <2>2 DEF Transport!Lose, Asked, OnWire
  <2>4. InStep'
    BY <2>1 DEF InStep
  <2> QED BY <2>3, <2>4 DEF Transport!Next
<1>8. CASE UNCHANGED vars
  <2>1. Calls' = Calls /\ \A j \in Calls : stage'[j] = "queued" => packet[j].from = 0
    BY <1>8 DEF vars, Calls, InStep
  <2> QED BY <1>8, <2>1, NothingPut DEF vars, TypeOK
<1>9. ASSUME NEW b \in Sizes, Call(b, Len(stage) < Setup)
      PROVE  Transport!Ask /\ InStep'
  <2>1. (Len(stage) < Setup) \in BOOLEAN
    OBVIOUS
  <2> QED BY <1>1, <1>9, <2>1
<1> QED
  BY <1>2, <1>3, <1>4, <1>5, <1>6, <1>7, <1>8, <1>9 DEF Next, Progress, Transport!Next

(* A terminal session sends a packet stream: what the server reads are the   *)
(* packets in the order of the calls, each under the number of its place and *)
(* enciphered from exactly the block at which the one before it ended, so    *)
(* that the server's own number and counter never lose step.                 *)
THEOREM TransportRefinement == Spec => WireIsPacketStream
<1>1. Init => Transport!Init /\ InStep
  <2> SUFFICES ASSUME Init
               PROVE  Transport!Init /\ InStep
    OBVIOUS
  <2>1. Len(packet) = 0 /\ Len(wire) = 0 /\ Calls = {}
    BY DEF Init, Calls
  <2>2. Asked = <<>> /\ OnWire = <<>>
    <3>1. 1..Len(packet) = {} /\ 1..Len(wire) = {}
      BY <2>1
    <3> QED BY <3>1 DEF Asked, OnWire
  <2>3. Transport!Init
    BY <2>2 DEF Init, Transport!Init, Asked, OnWire
  <2>4. InStep
    BY <2>1, <2>2 DEF Init, InStep, Transport!Used
  <2> QED BY <2>3, <2>4
<1>2. IInv /\ InStep /\ [Next]_vars => InStep'
  BY NextInStep
<1>3. IInv /\ InStep /\ [Next]_vars => [Transport!Next]_(Transport!svars)
  BY NextInStep
<1> QED
  BY Invariance, <1>1, <1>2, <1>3, PTL DEF Spec, WireIsPacketStream, Transport!Spec
=============================================================================
