---------------------------- MODULE PacketStream ----------------------------
(* What the sending side of an SSH connection owes the server, which reads   *)
(* its packets one after the other: they come in the order in which they     *)
(* were handed over, each carries the number of its place, counted from the  *)
(* first packet of the connection, and each is enciphered from the block of  *)
(* keystream at which the one before it ended, neither before nor behind it. *)
(* The keys are installed once, while nothing is under way.  The connection  *)
(* may be lost, and then the server gets no more.                            *)
EXTENDS Naturals, Sequences

CONSTANT Sizes      \* the lengths of a packet, in cipher blocks

VARIABLES asked,    \* the lengths of the packets handed over, in order
          sent,     \* the packets the connection has taken, in order
          keyed,    \* the session keys are installed
          up        \* FALSE once the connection is lost

svars == <<asked, sent, keyed, up>>

(* Where the keystream that was used ends: there is none before the keys.    *)
Used(packets) ==
    IF packets # <<>> /\ packets[Len(packets)].enc
    THEN packets[Len(packets)].from + packets[Len(packets)].blocks
    ELSE 0

Init ==
    /\ asked = <<>>
    /\ sent = <<>>
    /\ keyed = FALSE
    /\ up = TRUE

Ask ==
    /\ \E b \in Sizes : asked' = Append(asked, b)
    /\ UNCHANGED <<sent, keyed, up>>

(* The first packet that waits is taken, in one step.                        *)
Put ==
    /\ up
    /\ Len(sent) < Len(asked)
    /\ sent' = Append(sent, [blocks |-> asked[Len(sent) + 1], enc |-> keyed,
                             seq |-> Len(sent), from |-> Used(sent)])
    /\ UNCHANGED <<asked, keyed, up>>

InstallKeys ==
    /\ ~keyed
    /\ Len(sent) = Len(asked)
    /\ keyed' = TRUE
    /\ UNCHANGED <<asked, sent, up>>

Lose ==
    /\ up' = FALSE
    /\ UNCHANGED <<asked, sent, keyed>>

Next == Ask \/ Put \/ InstallKeys \/ Lose

Spec == Init /\ [][Next]_svars
=============================================================================
