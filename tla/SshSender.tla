------------------------------ MODULE SshSender ------------------------------
(* The packets an SSH session of the worker puts on its TCP connection:      *)
(* ssh2-impl.ts, buildEncPacket and its two callers.                         *)
(*                                                                           *)
(* buildEncPacket awaits twice.  The sequence number is an argument, fixed   *)
(* when it is called; the AES-CTR counter is read after the HMAC is there    *)
(* and moved on after the ciphertext is; the caller increments the sequence  *)
(* number after the write.  Two overlapping calls may therefore see the same *)
(* number or the same counter.  The terminal session (sendPayload) runs its  *)
(* calls one after the other on a promise chain: Spec.  The subsystem        *)
(* session (sendPayload2) runs each when it is made: DirectSpec.             *)
EXTENDS Integers, Sequences

CONSTANTS MaxCalls,   \* bound: how many packets are sent
          Sizes,      \* the lengths of a packet, in cipher blocks
          Handshake,  \* packets in clear: KEXINIT, KEXECDH_INIT, NEWKEYS
          Setup       \* packets until the channel runs, each awaited

ASSUME SenderAssumption ==
    /\ MaxCalls \in Nat
    /\ Sizes \subseteq Nat \ {0}
    /\ Handshake \in Nat
    /\ Setup \in Nat
    /\ Handshake <= Setup

VARIABLES encrypted,  \* the session keys are installed
          counter,    \* c2sCounter, as blocks of keystream used
          seqno,      \* c2sSeqno
          stage,      \* stage[i]: how far the i-th call of the send function is
          packet,     \* packet[i]: what that call is building
          wire,       \* the packets handed to tcpWriter, in order
          broken      \* the TCP connection is lost: every write rejects

vars == <<encrypted, counter, seqno, stage, packet, wire, broken>>

Stages == {"queued", "signing", "encrypting", "writing", "done", "failed"}

Packets == [blocks: Sizes, awaited: BOOLEAN, enc: BOOLEAN, seq: Nat, from: Nat]

Settled(i) == stage[i] \in {"done", "failed"}

Calls == 1..Len(stage)

Init ==
    /\ encrypted = FALSE
    /\ counter = 0
    /\ seqno = 0
    /\ stage = <<>>
    /\ packet = <<>>
    /\ wire = <<>>
    /\ broken = FALSE

-----------------------------------------------------------------------------
(* A call of the send function.  The setup of the session awaits every       *)
(* packet it sends, and goes on only if it was written.                      *)
Call(b, awaited) ==
    /\ Len(stage) < MaxCalls
    /\ ~encrypted => Len(stage) < Handshake
    /\ Len(stage) < Setup => awaited
    /\ Len(stage) <= Setup => \A i \in Calls : stage[i] = "done"
    /\ stage' = Append(stage, "queued")
    /\ packet' = Append(packet, [blocks |-> b, awaited |-> awaited,
                                 enc |-> FALSE, seq |-> 0, from |-> 0])
    /\ UNCHANGED <<encrypted, counter, seqno, wire, broken>>

(* tcpWriter.write takes the packet, or rejects on a lost connection.        *)
Write(i, p) ==
    /\ packet' = [packet EXCEPT ![i] = p]
    /\ wire' = IF broken THEN wire ELSE Append(wire, p)
    /\ stage' = [stage EXCEPT ![i] = IF broken THEN "failed" ELSE "writing"]

(* The function starts: a plain packet is written at once, an encrypted one  *)
(* takes its sequence number and asks for the HMAC.                          *)
Begin(i) ==
    /\ stage[i] = "queued"
    /\ IF encrypted
       THEN /\ packet' = [packet EXCEPT ![i].seq = seqno, ![i].enc = TRUE]
            /\ stage' = [stage EXCEPT ![i] = "signing"]
            /\ UNCHANGED wire
       ELSE Write(i, [packet[i] EXCEPT !.seq = seqno])
    /\ UNCHANGED <<encrypted, counter, seqno, broken>>

(* The HMAC is there: counter.slice() is taken for the encryption.           *)
Signed(i) ==
    /\ stage[i] = "signing"
    /\ packet' = [packet EXCEPT ![i].from = counter]
    /\ stage' = [stage EXCEPT ![i] = "encrypting"]
    /\ UNCHANGED <<encrypted, counter, seqno, wire, broken>>

(* Bug: the counter moves one block too far.                                 *)
Advanced_OneMore(c, p) == c + p.blocks + 1

(* advanceCounter(counter, blocks).                                          *)
Advanced(c, p) == c + p.blocks

(* The ciphertext is there: the counter moves on and the packet is written.  *)
Enciphered(i) ==
    /\ stage[i] = "encrypting"
    /\ counter' = Advanced(counter, packet[i])
    /\ Write(i, packet[i])
    /\ UNCHANGED <<encrypted, seqno, broken>>

(* c2sSeqno++, for every packet written, plain or encrypted.                 *)
NextSeqno(p) == seqno + 1

Written(i) ==
    /\ stage[i] = "writing"
    /\ seqno' = NextSeqno(packet[i])
    /\ stage' = [stage EXCEPT ![i] = "done"]
    /\ UNCHANGED <<encrypted, counter, packet, wire, broken>>

(* The write rejects: the call throws and the number is not incremented.     *)
WriteFailed(i) ==
    /\ stage[i] = "writing"
    /\ broken
    /\ stage' = [stage EXCEPT ![i] = "failed"]
    /\ UNCHANGED <<encrypted, counter, seqno, packet, wire, broken>>

(* After NEWKEYS both ways: the counter is set from the IV, the keys are     *)
(* imported.                                                                 *)
InstallKeys ==
    /\ ~encrypted
    /\ Len(stage) = Handshake
    /\ \A i \in Calls : stage[i] = "done"
    /\ encrypted' = TRUE
    /\ counter' = 0
    /\ UNCHANGED <<seqno, stage, packet, wire, broken>>

ConnectionLost ==
    /\ ~broken
    /\ broken' = TRUE
    /\ UNCHANGED <<encrypted, counter, seqno, stage, packet, wire>>

Progress(i) == Signed(i) \/ Enciphered(i) \/ Written(i) \/ WriteFailed(i)

-----------------------------------------------------------------------------
(* Bug: the chain is forgotten, so that a call starts when it is made.       *)
Turn_Always(i) == TRUE

(* Bug: a lock in place of the chain: one call at a time, in no order.       *)
Turn_Lock(i) == \A j \in Calls : Settled(j) \/ stage[j] = "queued"

(* sendChain.then: a call starts when every call before it has settled.      *)
Turn(i) == \A j \in 1..(i - 1) : Settled(j)

Chained(i) == Turn(i) /\ Begin(i)

(* The terminal session: its two loops and the resize messages call          *)
(* sendPayload whenever they like.                                           *)
Next ==
    \/ \E b \in Sizes : Call(b, Len(stage) < Setup)
    \/ \E i \in Calls : Chained(i) \/ Progress(i)
    \/ InstallKeys
    \/ ConnectionLost

Spec == Init /\ [][Next]_vars

(* The subsystem session: one caller, which awaits what it sends, except the *)
(* answer to a channel request (handleChannelRequest), which it does not.    *)
DirectCall(b, awaited) ==
    /\ \A i \in Calls : packet[i].awaited => Settled(i)
    /\ Call(b, awaited)

Direct(i) == Begin(i)

DirectNext ==
    \/ \E b \in Sizes, awaited \in BOOLEAN : DirectCall(b, awaited)
    \/ \E i \in Calls : Direct(i) \/ Progress(i)
    \/ InstallKeys
    \/ ConnectionLost

DirectSpec == Init /\ [][DirectNext]_vars

-----------------------------------------------------------------------------
(* Type invariant.                                                           *)
TypeOK ==
    /\ encrypted \in BOOLEAN
    /\ counter \in Nat
    /\ stage \in Seq(Stages)
    /\ seqno \in 0..Len(stage)
    /\ packet \in Seq(Packets)
    /\ Len(packet) = Len(stage)
    /\ wire \in Seq(Packets)
    /\ broken \in BOOLEAN

(* Every packet carries the sequence number the server expects of it, which  *)
(* counts the packets before it from the first one of the connection, those  *)
(* sent in clear included.                                                   *)
SeqnoIsPosition == \A k \in 1..Len(wire) : wire[k].seq = k - 1

(* The packets are on the wire in the order in which sendPayload was called, *)
(* whatever their sizes and whatever was lost: the k-th packet the server    *)
(* gets is the one of the k-th call.  A call that resolves has its packet    *)
(* there, so nothing that awaits it runs ahead of it.                        *)
CallOrder ==
    /\ \A k \in 1..Len(wire) : k \in Calls /\ wire[k] = packet[k]
    /\ \A i \in Calls : stage[i] = "done" => i <= Len(wire)

(* No block of keystream is used for two packets, however the calls overlap, *)
(* and later packets use later blocks; nothing is sent in clear once a       *)
(* packet was encrypted.                                                     *)
KeystreamFresh ==
    \A i, j \in 1..Len(wire) :
        i < j /\ wire[i].enc =>
            wire[j].enc /\ wire[i].from + wire[i].blocks <= wire[j].from

(* The sender on its chain is a packet stream: what four steps with two      *)
(* awaits and a callback do to a packet comes to one, taken in the order of  *)
(* the calls, and the server, which moves its own number and its own counter *)
(* on with every packet it reads, never loses step with it.                  *)
Shown(p) == [blocks |-> p.blocks, enc |-> p.enc, seq |-> p.seq, from |-> p.from]

Transport == INSTANCE PacketStream
               WITH asked <- [i \in 1..Len(packet) |-> packet[i].blocks],
                    sent  <- [k \in 1..Len(wire) |-> Shown(wire[k])],
                    keyed <- encrypted, up <- ~broken

WireIsPacketStream == Transport!Spec

=============================================================================
