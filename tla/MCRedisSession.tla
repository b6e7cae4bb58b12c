--------------------------- MODULE MCRedisSession ---------------------------
(* The kinds of sessions TLC looks at.                                     *)
EXTENDS RedisSession

(* One command at a time, the replies in pieces.                           *)
InPieces == [pipelined |-> FALSE, late |-> FALSE, split |-> TRUE, bufferMax |-> MaxPieces]

(* One command at a time, replies after the timeout.                       *)
TooLate == [pipelined |-> FALSE, late |-> TRUE, split |-> FALSE, bufferMax |-> MaxPieces]

(* Everything at once, with replies that overflow the buffer.              *)
Everything == [pipelined |-> TRUE, late |-> TRUE, split |-> TRUE, bufferMax |-> MaxPieces - 1]

MCModes == {InPieces, TooLate, Everything}
=============================================================================
