----------------------------- MODULE ByteStream -----------------------------
(***************************************************************************)
(* What one direction of a tunnel promises to its two ends, whatever lies  *)
(* between them.  A stream of bytes is numbered 0, 1, 2, ...; `sent' is    *)
(* how many of them the producer has handed over, `delivered' is the list  *)
(* of pieces the consumer has been given.  Every piece begins where the    *)
(* one before it ended: nothing is lost in the middle, repeated or         *)
(* reordered.  The stream may be cut at any moment, and then it stays cut: *)
(* what the consumer holds is a prefix of what the producer sent.          *)
(***************************************************************************)
EXTENDS Naturals, Sequences

VARIABLES
  sent,       \* number of bytes the producer has handed over
  delivered,  \* the pieces given to the consumer, oldest first
  up          \* FALSE once the stream has been cut

(* A piece of the stream: the bytes lo, lo + 1, ..., hi - 1. *)
Span == [lo : Nat, hi : Nat]

Size(s) == s.hi - s.lo

(* The offset at which the next piece has to begin. *)
End(pieces) == IF pieces = <<>> THEN 0 ELSE pieces[Len(pieces)].hi

svars == <<sent, delivered, up>>

Init ==
  /\ sent = 0
  /\ delivered = <<>>
  /\ up = TRUE

Write ==
  /\ sent' \in Nat
  /\ sent' >= sent
  /\ UNCHANGED <<delivered, up>>

(* Hand the consumer the next piece, never beyond what was sent. *)
Deliver ==
  /\ up
  /\ \E n \in 0 .. (sent - End(delivered)) :
       delivered' = Append(delivered, [lo |-> End(delivered),
                                       hi |-> End(delivered) + n])
  /\ UNCHANGED <<sent, up>>

Cut ==
  /\ up' = FALSE
  /\ UNCHANGED <<sent, delivered>>

Next == Write \/ Deliver \/ Cut

Spec == Init /\ [][Next]_svars

-----------------------------------------------------------------------------
(* What follows for the consumer: it holds every byte, up to the end of    *)
(* the last piece, exactly once, each was sent, and they came in order;    *)
(* and nothing is added once the stream is cut.                            *)
Holds(i, b) == delivered[i].lo <= b /\ b < delivered[i].hi

EachByteOnce ==
  /\ End(delivered) <= sent
  /\ \A b \in 0 .. End(delivered) - 1 :
       \E i \in 1 .. Len(delivered) :
         /\ Holds(i, b)
         /\ \A j \in 1 .. Len(delivered) : Holds(j, b) => j = i

InOrder ==
  \A i, j \in 1 .. Len(delivered) : i < j => delivered[i].hi <= delivered[j].lo

StaysCut == ~up => UNCHANGED <<delivered, up>>
NothingAfterCut == [][StaysCut]_svars
=============================================================================
