------------------------- MODULE RedisSessionProofs -------------------------
(***************************************************************************)
(* For any number of commands and any mixture of late, split and lost      *)
(* replies: no command runs in a Redis session before the server accepted  *)
(* the password and the database; the variables keep their types; an       *)
(* answer given in time is a whole reply; and a browser that waits for     *)
(* each answer is shown the answers to its own commands.                   *)
(*                                                                         *)
(* Nothing ties an answer to its command but the order of the reads.  For  *)
(* the login that is enough because of where a "+OK" can be: the handshake *)
(* begins one call at a time and ends with the first that throws or is     *)
(* refused, and when it goes on it has consumed the "+OK" of every call    *)
(* before.  So while call n is the last of the handshake, every "+OK" in   *)
(* its buffer or on its way is the server's answer to call n.              *)
(*                                                                         *)
(* For the other answers the pieces on the way are laid on one line, the   *)
(* oldest read's buffer and then the stream: whole replies in the order of *)
(* the calls, none to a call before the oldest that still waits.           *)
(***************************************************************************)
EXTENDS RedisSession, SequenceTheorems, WellFoundedInduction, TLAPS

Calls == Len(calls)

Login(i) == calls[i].kind \in {"AUTH", "SELECT"}

Pending(q) == q \in Seq(Nat) /\ \A k \in 1 .. Len(q) : q[k] \in 1 .. Calls

Shape ==
  /\ calls \in Seq(Call) /\ stream \in Seq(Piece) /\ Pending(requests)
  /\ answered \in Nat /\ oks \subseteq 1 .. answered

(* How far the handshake has got. *)
Progress ==
  /\ \A i \in 1 .. Calls :
       calls[i].kind # "command" /\ Unsettled(calls[i]) => stage = "handshake" /\ i = Calls
  /\ stage \in {"init", "connecting"} => calls = <<>> /\ stream = <<>>
  /\ stage = "handshake" =>
       /\ Calls # 0 /\ calls[Calls].kind # "command" /\ Unsettled(calls[Calls])
       /\ \A i \in 1 .. Calls - 1 : Login(i) /\ i \in oks /\ calls[i].phase = "done"
  /\ stage = "ready" => \A i \in 1 .. Calls : Login(i) => i \in oks

(* What the last call has read and can still read. *)
OnTheWay == calls[Calls].buf \o stream

(* A "+OK" is the first piece of its answer, and answers the last call. *)
Fresh(s) ==
  \A j \in 1 .. Len(s) :
    /\ s[j].call <= answered
    /\ s[j].ok => s[j].call = Calls /\ Calls \in oks
    /\ \A i \in 1 .. j - 1 : s[j].ok => s[i].call # s[j].call

Acceptances == stage = "handshake" => Fresh(OnTheWay)

LoginInv == Shape /\ Progress /\ Acceptances /\ CommandsAfterLogin

-----------------------------------------------------------------------------
(* Sequences                                                               *)

(* A chunk moves pieces from the stream to the buffer and changes neither  *)
(* their order nor their number.                                           *)
LEMMA Rechunk ==
  ASSUME NEW b \in Seq(Piece), NEW s \in Seq(Piece), NEW n \in 1 .. Len(s)
  PROVE  /\ SubSeq(s, 1, n) \in Seq(Piece) /\ SubSeq(s, n + 1, Len(s)) \in Seq(Piece)
         /\ b \o SubSeq(s, 1, n) \in Seq(Piece)
         /\ (b \o SubSeq(s, 1, n)) \o SubSeq(s, n + 1, Len(s)) = b \o s
         /\ b \o SubSeq(s, 1, n) # <<>>
<1>1. Len(s) \in Nat /\ \A i \in 1 .. Len(s) : s[i] \in Piece
  BY LenProperties, ElementOfSeq
<1>2. SubSeq(s, 1, n) \in Seq(Piece) /\ Len(SubSeq(s, 1, n)) = n
      /\ SubSeq(s, n + 1, Len(s)) \in Seq(Piece)
  BY <1>1, SubSeqProperties
<1>3. SubSeq(s, 1, n) \o SubSeq(s, n + 1, Len(s)) = s
  BY <1>1, ConcatAdjacentSubSeq, SubSeqFull
<1> DEFINE x == SubSeq(s, 1, n)
           y == SubSeq(s, n + 1, Len(s))
           bx == b \o x
           l == bx \o y
           r == b \o s
<1>4. x \in Seq(Piece) /\ Len(x) = n /\ y \in Seq(Piece) /\ x \o y = s
  BY <1>2, <1>3
<1>5. Len(b) \in Nat /\ n \in Nat \ {0} /\ Len(y) \in Nat /\ Len(x) = n
  BY <1>1, <1>4, LenProperties
<1> HIDE DEF x, y
<1>6. /\ bx \in Seq(Piece) /\ Len(bx) = Len(b) + Len(x)
      /\ \A j \in 1 .. Len(b) + Len(x) : bx[j] = IF j <= Len(b) THEN b[j] ELSE x[j - Len(b)]
  BY <1>4, ConcatProperties
<1> HIDE DEF bx
<1>7. /\ l \in Seq(Piece) /\ Len(l) = Len(bx) + Len(y)
      /\ \A j \in 1 .. Len(bx) + Len(y) : l[j] = IF j <= Len(bx) THEN bx[j] ELSE y[j - Len(bx)]
  <2>1. bx \in Seq(Piece) /\ y \in Seq(Piece)
    BY <1>4, <1>6
  <2> QED BY <2>1, ConcatProperties
<1>8. /\ r \in Seq(Piece) /\ Len(r) = Len(b) + Len(s)
      /\ \A j \in 1 .. Len(b) + Len(s) : r[j] = IF j <= Len(b) THEN b[j] ELSE s[j - Len(b)]
  BY ConcatProperties
<1>9. /\ Len(s) = Len(x) + Len(y)
      /\ \A j \in 1 .. Len(x) + Len(y) : s[j] = IF j <= Len(x) THEN x[j] ELSE y[j - Len(x)]
  <2>1. /\ Len(x \o y) = Len(x) + Len(y)
        /\ \A j \in 1 .. Len(x) + Len(y) :
             (x \o y)[j] = IF j <= Len(x) THEN x[j] ELSE y[j - Len(x)]
    BY <1>4, ConcatProperties
  <2> QED BY <1>4, <2>1
<1> HIDE DEF l, r
<1>10. ASSUME NEW j \in 1 .. Len(l) PROVE l[j] = r[j]
  <2>0. Len(l) = Len(b) + n + Len(y) /\ Len(bx) = Len(b) + n /\ Len(s) = n + Len(y)
    BY <1>5, <1>6, <1>7, <1>9
  <2>1. CASE j <= Len(b)
    <3>1. l[j] = bx[j] /\ bx[j] = b[j] /\ r[j] = b[j]
      BY <1>5, <1>6, <1>7, <1>8, <2>0, <2>1
    <3> QED BY <3>1
  <2>2. CASE j > Len(b) /\ j <= Len(b) + n
    <3>1. j - Len(b) \in 1 .. Len(s) /\ j - Len(b) <= Len(x)
      BY <1>5, <2>0, <2>2
    <3>2. l[j] = bx[j] /\ bx[j] = x[j - Len(b)]
      BY <1>5, <1>6, <1>7, <2>0, <2>2
    <3>3. r[j] = s[j - Len(b)]
      BY <1>5, <1>8, <2>0, <2>2
    <3>4. s[j - Len(b)] = x[j - Len(b)]
      BY <1>9, <3>1
    <3> QED BY <3>2, <3>3, <3>4
  <2>3. CASE j > Len(b) + n
    <3>1. j - Len(b) \in 1 .. Len(s) /\ ~(j - Len(b) <= Len(x))
          /\ (j - Len(b)) - Len(x) = j - Len(bx)
      BY <1>5, <2>0, <2>3
    <3>2. l[j] = y[j - Len(bx)]
      BY <1>5, <1>7, <2>0, <2>3
    <3>3. r[j] = s[j - Len(b)]
      BY <1>5, <1>8, <2>0, <2>3
    <3>4. s[j - Len(b)] = y[(j - Len(b)) - Len(x)]
      BY <1>9, <3>1
    <3> QED BY <3>1, <3>2, <3>3, <3>4
  <2> QED BY <1>5, <2>0, <2>1, <2>2, <2>3
<1>11. l = r
  <2>1. Len(l) = Len(r)
    BY <1>5, <1>6, <1>7, <1>8, <1>9
  <2> QED BY <1>7, <1>8, <1>10, <2>1, SeqEqual
<1>12. bx # <<>>
  <2>1. Len(bx) # 0
    BY <1>5, <1>6
  <2> QED BY <2>1, EmptySeq
<1> QED BY <1>4, <1>6, <1>11, <1>12 DEF x, y, bx, l, r

(* What is on the way after the first pieces have been consumed. *)
LEMMA Suffix ==
  ASSUME NEW b \in Seq(Piece), NEW s \in Seq(Piece)
  PROVE  /\ b \o s \in Seq(Piece) /\ Len(b \o s) = Len(b) + Len(s)
         /\ Len(b) \in Nat /\ Len(s) \in Nat
         /\ \A j \in 1 .. Len(s) : (b \o s)[Len(b) + j] = s[j]
         /\ \A j \in 1 .. Len(b) : (b \o s)[j] = b[j]
BY ConcatProperties, LenProperties

(* Only the pieces up to the end of the first value are kept, and the      *)
(* first piece is one of them.                                             *)
LEMMA FirstOfValue ==
  ASSUME NEW b \in Seq(Piece), Accepted(FirstValue(b))
  PROVE  b # <<>> /\ b[1].ok
<1> DEFINE D == {k \in 1 .. Len(b) : \A j \in 1 .. k - 1 : ~b[j].last}
<1>1. FirstValue(b) = [k \in D |-> b[k]]
  BY DEF FirstValue
<1>2. b # <<>>
  <2> SUFFICES ASSUME b = <<>> PROVE FALSE
    OBVIOUS
  <2>1. D = {}
    BY EmptySeq
  <2>2. FirstValue(b) = <<>>
    BY <1>1, <2>1
  <2> QED BY <2>2 DEF Accepted
<1>3. 1 \in D
  BY <1>2, EmptySeq
<1>4. FirstValue(b)[1] = b[1]
  BY <1>1, <1>3
<1> QED BY <1>2, <1>4 DEF Accepted

-----------------------------------------------------------------------------
(* The handshake has not begun. *)
LEMMA InitLogin == Init => LoginInv
<1> SUFFICES ASSUME Init PROVE LoginInv
  OBVIOUS
<1>1. \A S : <<>> \in Seq(S) /\ Len(<<>>) = 0
  BY EmptySeq
<1> QED BY <1>1 DEF Init, LoginInv, Shape, Pending, Progress, Acceptances, CommandsAfterLogin,
                    Commands, Calls

(* The shape of calls that the lemmas below are about: a call changes its  *)
(* phase and its buffer, never its kind.                                   *)
SameKinds ==
  /\ calls' \in Seq(Call) /\ Len(calls') = Calls
  /\ \A i \in 1 .. Calls : calls'[i].kind = calls[i].kind

(* What a call is for never changes, so a step that only ends or advances  *)
(* calls starts no command.                                                *)
LEMMA KindsKept ==
  ASSUME LoginInv, SameKinds, oks \subseteq oks'
  PROVE  CommandsAfterLogin'
<1>1. Calls \in Nat
  BY LenProperties DEF LoginInv, Shape, Calls
<1> QED BY <1>1 DEF LoginInv, SameKinds, CommandsAfterLogin, Commands, Calls

(* Setting the phase and the buffer of one call. *)
Updated(cs, i, ph, b) == [cs EXCEPT ![i].phase = ph, ![i].buf = b]

Phases == {"writing", "reading", "abandoned", "done", "failed"}
Kinds == {"AUTH", "SELECT", "INFO", "command"}

LEMMA OneCall ==
  ASSUME NEW cs \in Seq(Call), NEW i \in 1 .. Len(cs), NEW ph \in Phases,
         NEW b \in Seq(Piece)
  PROVE  /\ Updated(cs, i, ph, b) \in Seq(Call) /\ Len(Updated(cs, i, ph, b)) = Len(cs)
         /\ Updated(cs, i, ph, b)[i] = [kind |-> cs[i].kind, phase |-> ph, buf |-> b]
<1> DEFINE c == [kind |-> cs[i].kind, phase |-> ph, buf |-> b]
           ds == [cs EXCEPT ![i].phase = ph, ![i].buf = b]
<1>1. cs[i] \in Call /\ i \in DOMAIN cs
  BY ElementOfSeq
<1>2. c \in Call
  BY <1>1 DEF Call, Phases
<1>3. ds[i] = c
  BY <1>1 DEF Call
<1>4. [cs EXCEPT ![i] = c] = ds
  BY <1>1, <1>3
<1> HIDE DEF c
<1>5. /\ [cs EXCEPT ![i] = c] \in Seq(Call) /\ Len([cs EXCEPT ![i] = c]) = Len(cs)
  BY <1>2, ExceptSeq
<1> HIDE DEF ds
<1>6. ds \in Seq(Call) /\ Len(ds) = Len(cs) /\ ds[i] = c
  BY <1>3, <1>4, <1>5
<1> QED BY <1>6 DEF ds, c, Updated

(* The other calls are as they were. *)
LEMMA OtherCalls ==
  ASSUME NEW cs \in Seq(Call), NEW i, NEW ph, NEW b, NEW j \in 1 .. Len(cs), j # i
  PROVE  Updated(cs, i, ph, b)[j] = cs[j]
BY LenProperties DEF Updated

(* The two together, as a step. *)
LEMMA CallUpdated ==
  ASSUME calls \in Seq(Call), NEW i \in 1 .. Calls, NEW ph \in Phases, NEW b \in Seq(Piece),
         calls' = Updated(calls, i, ph, b)
  PROVE  /\ SameKinds
         /\ calls'[i] = [kind |-> calls[i].kind, phase |-> ph, buf |-> b]
         /\ \A j \in 1 .. Calls : j # i => calls'[j] = calls[j]
<1>0. Calls = Len(calls)
  BY DEF Calls
<1>1. /\ Updated(calls, i, ph, b) \in Seq(Call)
      /\ Len(Updated(calls, i, ph, b)) = Len(calls)
      /\ Updated(calls, i, ph, b)[i] = [kind |-> calls[i].kind, phase |-> ph, buf |-> b]
  BY <1>0, OneCall
<1>2. ASSUME NEW j \in 1 .. Len(calls), j # i
      PROVE  Updated(calls, i, ph, b)[j] = calls[j]
  BY <1>2, OtherCalls
<1> QED BY <1>0, <1>1, <1>2 DEF SameKinds

(* A call begins. *)
LEMMA Begun ==
  ASSUME NEW cs \in Seq(Call), NEW kind \in Kinds
  PROVE  /\ Issued(cs, kind) \in Seq(Call) /\ Len(Issued(cs, kind)) = Len(cs) + 1
         /\ Issued(cs, kind)[Len(cs) + 1] = [kind |-> kind, phase |-> "writing", buf |-> <<>>]
<1>1. [kind |-> kind, phase |-> "writing", buf |-> <<>>] \in Call
  BY EmptySeq DEF Call, Kinds
<1> QED BY <1>1, AppendProperties DEF Issued

(* The calls before it are as they were. *)
LEMMA BegunBefore ==
  ASSUME NEW cs \in Seq(Call), NEW kind \in Kinds, NEW j \in 1 .. Len(cs)
  PROVE  Issued(cs, kind)[j] = cs[j]
<1>1. [kind |-> kind, phase |-> "writing", buf |-> <<>>] \in Call
  BY EmptySeq DEF Call, Kinds
<1> QED BY <1>1, AppendProperties DEF Issued

-----------------------------------------------------------------------------
(***************************************************************************)
(* The end of a call                                                       *)
(***************************************************************************)

(* The state the handlers below find: call i has a pending read, and what  *)
(* they leave in the stream is a suffix of it.                             *)
Reads(i) == i \in 1 .. Calls /\ calls[i].phase = "reading"

(* A call that is being read and is not a command is the last one of a     *)
(* handshake.                                                              *)
LEMMA ReadingCall ==
  ASSUME LoginInv, NEW i, Reads(i)
  PROVE  /\ i \in 1 .. Calls /\ Calls \in Nat /\ Unsettled(calls[i])
         /\ calls[i].kind # "command" => stage = "handshake" /\ i = Calls
         /\ calls[i].kind = "command" => stage # "handshake"
<1>1. Calls \in Nat /\ i \in 1 .. Calls /\ Unsettled(calls[i])
  BY LenProperties DEF LoginInv, Shape, Calls, Reads, Unsettled
<1>2. calls[i].kind # "command" => stage = "handshake" /\ i = Calls
  BY <1>1 DEF LoginInv, Progress
<1>3. stage = "handshake" => calls[i].kind # "command"
  <2> SUFFICES ASSUME stage = "handshake" PROVE calls[i].kind # "command"
    OBVIOUS
  <2>1. CASE i = Calls
    BY <2>1 DEF LoginInv, Progress
  <2>2. CASE i # Calls
    BY <1>1, <2>2 DEF LoginInv, Progress, Login
  <2> QED BY <2>1, <2>2
<1> QED BY <1>1, <1>2, <1>3

(* A step in which only calls that no longer matter to the handshake       *)
(* change: the session is ready or over.                                   *)
LEMMA PastHandshake ==
  ASSUME LoginInv, Shape', SameKinds, UNCHANGED oks, stage' \notin {"init", "connecting"},
         stage' # "handshake",
         stage' = "ready" => \A i \in 1 .. Calls : Login(i) => i \in oks,
         \A i \in 1 .. Calls :
           calls[i].kind # "command" => ~Unsettled(calls'[i])
  PROVE  LoginInv'
<1>1. Calls' = Calls /\ Calls \in Nat
  BY LenProperties DEF SameKinds, Calls, LoginInv, Shape
<1>2. CommandsAfterLogin'
  BY KindsKept
<1>3. \A i \in 1 .. Calls : Login(i)' <=> Login(i)
  BY DEF SameKinds, Login
<1>4. Progress'
  BY <1>1, <1>3 DEF Progress, SameKinds, Unsettled
<1>5. Acceptances'
  BY DEF Acceptances
<1> QED BY <1>2, <1>4, <1>5 DEF LoginInv

(* No call of the handshake is left unsettled when the one under way ends. *)
LEMMA NoneUnsettled ==
  ASSUME LoginInv, NEW i \in 1 .. Calls,
         Unsettled(calls[i]) \/ calls[i].phase = "abandoned", ~Unsettled(calls'[i]),
         \A j \in 1 .. Calls : j # i => calls'[j] = calls[j]
  PROVE  /\ \A j \in 1 .. Calls : calls[j].kind # "command" => ~Unsettled(calls'[j])
         /\ stage = "handshake" => i = Calls /\ calls[i].kind # "command"
         /\ stage \notin {"init", "connecting"}
<1>1. stage = "handshake" => i = Calls
  <2> SUFFICES ASSUME stage = "handshake", i # Calls PROVE FALSE
    OBVIOUS
  <2>1. i \in 1 .. Calls - 1
    BY LenProperties DEF LoginInv, Shape, Calls
  <2>2. calls[i].phase = "done"
    BY <2>1 DEF LoginInv, Progress
  <2> QED BY <2>2 DEF Unsettled
<1>2. ASSUME NEW j \in 1 .. Calls, calls[j].kind # "command"
      PROVE  ~Unsettled(calls'[j])
  <2>1. CASE j = i
    BY <2>1
  <2>2. CASE j # i
    BY <1>1, <1>2, <2>2 DEF LoginInv, Progress
  <2> QED BY <2>1, <2>2
<1>3. stage \notin {"init", "connecting"}
  BY EmptySeq DEF LoginInv, Progress, Calls
<1>4. stage = "handshake" => calls[i].kind # "command"
  BY <1>1 DEF LoginInv, Progress
<1> QED BY <1>1, <1>2, <1>3, <1>4

(* Call i throws. *)
LEMMA FailStep ==
  ASSUME LoginInv, Shape', NEW i \in 1 .. Calls, NEW ph \in {"abandoned", "failed"},
         Unsettled(calls[i]) \/ calls[i].phase = "abandoned",
         Fail(i, ph), UNCHANGED <<answered, oks>>
  PROVE  LoginInv'
<1>1. calls \in Seq(Call) /\ calls[i] \in Call
  BY ElementOfSeq DEF LoginInv, Shape, Calls
<1>2. /\ SameKinds /\ calls'[i].phase = ph /\ ~Unsettled(calls'[i])
      /\ \A j \in 1 .. Calls : j # i => calls'[j] = calls[j]
  <2>1. <<>> \in Seq(Piece)
    BY EmptySeq
  <2>2. calls' = Updated(calls, i, ph, <<>>) /\ ph \in Phases
    BY DEF Fail, Updated, Phases
  <2>4. /\ SameKinds
        /\ calls'[i] = [kind |-> calls[i].kind, phase |-> ph, buf |-> <<>>]
        /\ \A j \in 1 .. Calls : j # i => calls'[j] = calls[j]
    BY <1>1, <2>1, <2>2, CallUpdated
  <2> QED BY <2>4 DEF Unsettled
<1>3. /\ \A j \in 1 .. Calls : calls[j].kind # "command" => ~Unsettled(calls'[j])
      /\ stage = "handshake" => calls[i].kind # "command"
      /\ stage \notin {"init", "connecting"}
  BY <1>2, NoneUnsettled
<1>4. stage' = IF calls[i].kind = "command" THEN stage ELSE "over"
  BY DEF Fail
<1>5. stage' = "ready" => \A j \in 1 .. Calls : Login(j) => j \in oks
  BY <1>4 DEF LoginInv, Progress
<1> QED BY <1>2, <1>3, <1>4, <1>5, PastHandshake

(* Call i ends with a reply.  If that lets the handshake go on, the reply  *)
(* began with a "+OK", which was the first piece on the way.               *)
LEMMA GoesOnStep ==
  ASSUME LoginInv, Shape', NEW i, Reads(i), Login(i),
         NEW b \in Seq(Piece), b # <<>>, b[1].ok, b \o stream' = calls[i].buf \o stream,
         NEW kind \in {"SELECT", "INFO"},
         calls' = Issued(Updated(calls, i, "done", <<>>), kind),
         UNCHANGED <<stage, answered, oks>>
  PROVE  LoginInv'
<1> DEFINE cs == Updated(calls, i, "done", <<>>)
<1>1. /\ i \in 1 .. Calls /\ Calls \in Nat /\ stage = "handshake" /\ i = Calls
      /\ Calls = Len(calls) /\ calls \in Seq(Call)
  BY ReadingCall DEF Login, Calls, LoginInv, Shape
<1>2. <<>> \in Seq(Piece) /\ "done" \in Phases /\ kind \in Kinds
  BY EmptySeq DEF Phases, Kinds
<1>3. /\ cs \in Seq(Call) /\ Len(cs) = Calls
      /\ cs[i] = [kind |-> calls[i].kind, phase |-> "done", buf |-> <<>>]
  BY <1>1, <1>2, OneCall
<1>4. ASSUME NEW j \in 1 .. Calls, j # i PROVE cs[j] = calls[j]
  BY <1>1, <1>4, OtherCalls
<1> HIDE DEF cs
<1>5. /\ Calls' = Calls + 1
      /\ calls'[Calls + 1] = [kind |-> kind, phase |-> "writing", buf |-> <<>>]
  BY <1>2, <1>3, Begun DEF cs, Calls
<1>6. ASSUME NEW j \in 1 .. Calls PROVE calls'[j] = cs[j]
  BY <1>2, <1>3, BegunBefore DEF cs
<1>7. /\ \A j \in 1 .. Calls : calls'[j].kind = calls[j].kind /\ calls'[j].phase = "done"
      /\ \A j \in 1 .. Calls : j < Calls => Login(j) /\ j \in oks
  <2>1. ASSUME NEW j \in 1 .. Calls, j < Calls
        PROVE  Login(j) /\ j \in oks /\ calls[j].phase = "done"
    <3>1. j \in 1 .. Calls - 1
      BY <1>1, <2>1
    <3> QED BY <1>1, <3>1 DEF LoginInv, Progress
  <2>2. ASSUME NEW j \in 1 .. Calls
        PROVE  calls'[j].kind = calls[j].kind /\ calls'[j].phase = "done"
    <3>1. CASE j = i
      BY <1>3, <1>6, <3>1
    <3>2. CASE j # i
      BY <1>1, <1>4, <1>6, <2>1, <3>2
    <3> QED BY <3>1, <3>2
  <2> QED BY <2>1, <2>2
(* The acceptance is the last call's, and the only one on the way. *)
<1>8. /\ Calls \in oks
      /\ \A j \in 1 .. Len(stream') : ~stream'[j].ok /\ stream'[j].call <= answered
  <2> DEFINE s == b \o stream'
  <2>1. /\ s \in Seq(Piece) /\ Len(s) = Len(b) + Len(stream')
        /\ Len(b) \in Nat /\ Len(stream') \in Nat
        /\ \A j \in 1 .. Len(stream') : s[Len(b) + j] = stream'[j]
        /\ \A j \in 1 .. Len(b) : s[j] = b[j]
    BY Suffix DEF Shape
  <2>2. Fresh(s)
    <3>1. s = OnTheWay
      BY <1>1 DEF OnTheWay
    <3> QED BY <1>1, <3>1 DEF LoginInv, Acceptances
  <2> HIDE DEF s
  <2>3. Len(b) \in Nat \ {0}
    BY <2>1, EmptySeq
  <2>4. 1 \in 1 .. Len(s) /\ s[1].ok
    BY <2>1, <2>3
  <2>5. s[1].call = Calls /\ Calls \in oks
    BY <2>2, <2>4 DEF Fresh
  <2>6. ASSUME NEW j \in 1 .. Len(stream')
        PROVE  ~stream'[j].ok /\ stream'[j].call <= answered
    <3>1. Len(b) + j \in 1 .. Len(s) /\ 1 \in 1 .. (Len(b) + j) - 1
      BY <2>1, <2>3
    <3>2. s[Len(b) + j].call <= answered
      BY <2>2, <3>1 DEF Fresh
    <3>3. ~s[Len(b) + j].ok
      BY <2>2, <2>5, <3>1 DEF Fresh
    <3> QED BY <2>1, <3>2, <3>3
  <2> QED BY <2>5, <2>6
<1>9. Progress'
  <2>1. /\ stage' = "handshake" /\ Calls' # 0 /\ calls'[Calls'].kind # "command"
        /\ Unsettled(calls'[Calls'])
    BY <1>1, <1>5 DEF Unsettled
  <2>2. ASSUME NEW j \in 1 .. Calls
        PROVE  Login(j)' /\ j \in oks' /\ calls'[j].phase = "done"
    <3>1. oks' = oks
      OBVIOUS
    <3>2. Login(j) /\ j \in oks
      <4>1. CASE j = Calls
        BY <1>1, <1>8, <4>1
      <4>2. CASE j # Calls
        BY <1>1, <1>7, <4>2
      <4> QED BY <4>1, <4>2
    <3>3. calls'[j].kind = calls[j].kind /\ calls'[j].phase = "done"
      BY <1>7
    <3> QED BY <3>1, <3>2, <3>3 DEF Login
  <2>3. \A j \in 1 .. Calls' : Unsettled(calls'[j]) => j = Calls'
    BY <1>1, <1>5, <2>2 DEF Unsettled
  <2> QED BY <1>1, <1>5, <2>1, <2>2, <2>3 DEF Progress
<1>10. Acceptances'
  <2>1. OnTheWay' = stream'
    <3>1. calls'[Calls'].buf = <<>>
      BY <1>5
    <3> QED BY <3>1, ConcatEmptySeq DEF OnTheWay, Shape
  <2> QED BY <1>8, <2>1 DEF Acceptances, Fresh
<1>11. CommandsAfterLogin'
  <2>1. ASSUME NEW j \in 1 .. Len(calls') PROVE calls'[j].kind # "command"
    <3>1. CASE j = Calls + 1
      BY <1>5, <3>1, SMTT(30) DEF Kinds
    <3>2. CASE j # Calls + 1
      <4>1. j \in 1 .. Calls
        BY <1>1, <1>5, <3>2 DEF Calls
      <4>2. calls'[j].kind = calls[j].kind /\ Login(j)
        BY <1>1, <1>7, <4>1
      <4> QED BY <4>2 DEF Login
    <3> QED BY <3>1, <3>2
  <2> QED BY <2>1 DEF CommandsAfterLogin, Commands
<1> QED BY <1>9, <1>10, <1>11 DEF LoginInv

(* Whatever a reply does to its call. *)
LEMMA SettleStep ==
  ASSUME LoginInv, Shape', NEW i, Reads(i), NEW b \in Seq(Piece), NEW reply,
         Accepted(reply) => b # <<>> /\ b[1].ok,
         b \o stream' = calls[i].buf \o stream,
         Settle(i, reply), UNCHANGED <<answered, oks>>
  PROVE  LoginInv'
<1> DEFINE cs == Updated(calls, i, "done", <<>>)
<1>1. /\ i \in 1 .. Calls /\ Calls \in Nat /\ Unsettled(calls[i])
      /\ calls \in Seq(Call)
      /\ calls[i].kind # "command" => stage = "handshake" /\ i = Calls
      /\ calls[i].kind = "command" => stage # "handshake"
  BY ReadingCall DEF LoginInv, Shape
<1>2. cs = [calls EXCEPT ![i].phase = "done", ![i].buf = <<>>]
  BY DEF Updated
<1> HIDE DEF cs
<1>3. CASE Login(i) /\ Accepts(i, reply) /\ HandshakeGoesOn(i, cs)
  <2>1. b # <<>> /\ b[1].ok
    BY <1>3 DEF Accepts
  <2>2. PICK kind \in {"SELECT", "INFO"} : calls' = Issued(cs, kind)
    BY <1>3 DEF HandshakeGoesOn
  <2>3. UNCHANGED stage
    BY <1>3 DEF HandshakeGoesOn, ends
  <2> QED BY <1>3, <2>1, <2>2, <2>3, GoesOnStep DEF cs
<1>4. CASE calls' = cs
  <2>1. /\ SameKinds
        /\ calls'[i] = [kind |-> calls[i].kind, phase |-> "done", buf |-> <<>>]
        /\ \A j \in 1 .. Calls : j # i => calls'[j] = calls[j]
    <3>1. <<>> \in Seq(Piece) /\ "done" \in Phases
      BY EmptySeq DEF Phases
    <3> QED BY <1>1, <1>4, <3>1, CallUpdated DEF cs
  <2>2. /\ \A j \in 1 .. Calls : calls[j].kind # "command" => ~Unsettled(calls'[j])
        /\ stage \notin {"init", "connecting"}
    <3>1. ~Unsettled(calls'[i])
      BY <2>1 DEF Unsettled
    <3> QED BY <1>1, <2>1, <3>1, NoneUnsettled
  <2>3. CASE HandshakeRefused(cs)
    BY <2>1, <2>2, <2>3, PastHandshake DEF HandshakeRefused
  <2>4. CASE calls[i].kind = "INFO" /\ HandshakeDone(cs)
    <3>1. stage' \in {"ready", "over"}
      BY <2>4 DEF HandshakeDone
    <3>2. \A j \in 1 .. Calls : Login(j) => j \in oks
      <4> TAKE j \in 1 .. Calls
      <4> HAVE Login(j)
      <4>1. j # Calls
        BY <1>1, <2>4 DEF Login
      <4>2. j \in 1 .. Calls - 1
        BY <1>1, <4>1
      <4> QED BY <1>1, <2>4, <4>2 DEF LoginInv, Progress
    <3> QED BY <2>1, <2>2, <3>1, <3>2, PastHandshake
  <2>5. CASE calls[i].kind = "command" /\ Respond(i, reply, cs)
    <3>1. stage' = stage
      BY <2>5 DEF Respond, ends
    <3>2. stage' = "ready" => \A j \in 1 .. Calls : Login(j) => j \in oks
      BY <3>1 DEF LoginInv, Progress
    <3> QED BY <1>1, <2>1, <2>2, <2>5, <3>1, <3>2, PastHandshake
  <2>6. HandshakeRefused(cs) \/ (calls[i].kind = "INFO" /\ HandshakeDone(cs))
          \/ (calls[i].kind = "command" /\ Respond(i, reply, cs))
        \/ (Login(i) /\ Accepts(i, reply) /\ HandshakeGoesOn(i, cs))
    BY <1>2 DEF Settle, Login
  <2> QED BY <1>3, <2>3, <2>4, <2>5, <2>6
<1> QED BY <1>2, <1>3, <1>4 DEF Settle, HandshakeRefused, HandshakeDone, Respond, Login

-----------------------------------------------------------------------------
(***************************************************************************)
(* The steps                                                               *)
(***************************************************************************)

(* The queue of reads names calls that were begun. *)
LEMMA QueueOps ==
  ASSUME NEW q, Pending(q), Calls \in Nat
  PROVE  /\ \A i \in 1 .. Calls : Pending(Append(q, i))
         /\ q # <<>> => Pending(Tail(q)) /\ Head(q) \in 1 .. Calls
<1>1. q \in Seq(Nat) /\ Len(q) \in Nat /\ \A k \in 1 .. Len(q) : q[k] \in 1 .. Calls
  BY LenProperties DEF Pending
<1>2. ASSUME NEW i \in 1 .. Calls PROVE Pending(Append(q, i))
  <2>1. i \in Nat
    OBVIOUS
  <2>2. /\ Append(q, i) \in Seq(Nat) /\ Len(Append(q, i)) = Len(q) + 1
        /\ \A k \in 1 .. Len(q) : Append(q, i)[k] = q[k]
        /\ Append(q, i)[Len(q) + 1] = i
    BY <1>1, <2>1, AppendProperties
  <2> QED BY <1>1, <2>2 DEF Pending
<1>3. ASSUME q # <<>> PROVE Pending(Tail(q)) /\ Head(q) \in 1 .. Calls
  <2>1. /\ Head(q) = q[1] /\ Tail(q) \in Seq(Nat) /\ Len(Tail(q)) = Len(q) - 1
        /\ \A k \in 1 .. Len(Tail(q)) : Tail(q)[k] = q[k + 1]
    BY <1>1, <1>3, HeadTailProperties
  <2>2. Len(q) # 0
    BY <1>1, <1>3, EmptySeq
  <2> QED BY <1>1, <2>1, <2>2 DEF Pending
<1> QED BY <1>2, <1>3

(* Calls are only added, so what names a call still does. *)
LEMMA ShapeKept ==
  ASSUME LoginInv, calls' \in Seq(Call), Len(calls') >= Len(calls), stream' \in Seq(Piece),
         Pending(requests'), UNCHANGED <<answered, oks>>
  PROVE  Shape'
<1>1. Calls \in Nat /\ Calls' \in Nat /\ Calls' >= Calls
  BY LenProperties DEF LoginInv, Shape, Calls
<1>2. requests' \in Seq(Nat) /\ Len(requests') \in Nat
  BY LenProperties DEF Pending
<1>3. ASSUME NEW k \in 1 .. Len(requests') PROVE requests'[k] \in 1 .. Calls'
  <2>1. requests'[k] \in 1 .. Calls
    BY DEF Pending
  <2> QED BY <1>1, <2>1
<1> QED BY <1>2, <1>3 DEF Shape, Pending, LoginInv

(* What a call's end does to calls. *)
LEMMA FailShape ==
  ASSUME LoginInv, NEW i \in 1 .. Calls, NEW ph \in {"abandoned", "failed"}, Fail(i, ph)
  PROVE  calls' \in Seq(Call) /\ Len(calls') >= Len(calls)
<1>1. calls' = Updated(calls, i, ph, <<>>)
  BY DEF Fail, Updated
<1>2. ph \in Phases /\ <<>> \in Seq(Piece) /\ calls \in Seq(Call)
  BY EmptySeq DEF Phases, LoginInv, Shape
<1>3. SameKinds
  BY <1>1, <1>2, CallUpdated
<1> QED BY <1>2, <1>3, LenProperties DEF SameKinds, Calls

LEMMA SettleShape ==
  ASSUME LoginInv, NEW i \in 1 .. Calls, NEW reply, Settle(i, reply)
  PROVE  calls' \in Seq(Call) /\ Len(calls') >= Len(calls)
<1> DEFINE cs == Updated(calls, i, "done", <<>>)
<1>1. "done" \in Phases /\ <<>> \in Seq(Piece) /\ calls \in Seq(Call) /\ Calls = Len(calls)
  BY EmptySeq DEF Phases, LoginInv, Shape, Calls
<1>2. cs \in Seq(Call) /\ Len(cs) = Len(calls) /\ Len(calls) \in Nat
  BY <1>1, OneCall, LenProperties
<1>3. cs = [calls EXCEPT ![i].phase = "done", ![i].buf = <<>>]
  BY DEF Updated
<1> HIDE DEF cs
<1>4. calls' = cs \/ \E kind \in Kinds : calls' = Issued(cs, kind)
  BY <1>3 DEF Settle, HandshakeGoesOn, HandshakeRefused, HandshakeDone, Respond, Kinds
<1>5. ASSUME NEW kind \in Kinds, calls' = Issued(cs, kind)
      PROVE  calls' \in Seq(Call) /\ Len(calls') >= Len(calls)
  <2>1. Issued(cs, kind) \in Seq(Call) /\ Len(Issued(cs, kind)) = Len(cs) + 1
    BY <1>2, Begun
  <2> QED BY <1>2, <1>5, <2>1
<1> QED BY <1>2, <1>4, <1>5

(* A step in which the handshake is where it was. *)
LEMMA SameStage ==
  ASSUME LoginInv, Shape', Acceptances', SameKinds, stage' = stage, oks \subseteq oks',
         \A j \in 1 .. Calls :
           /\ Unsettled(calls'[j]) <=> Unsettled(calls[j])
           /\ calls[j].phase = "done" => calls'[j].phase = "done",
         stage \in {"init", "connecting"} => stream' = <<>>
  PROVE  LoginInv'
<1>1. Calls' = Calls /\ Calls \in Nat
  BY LenProperties DEF SameKinds, Calls, LoginInv, Shape
<1>2. CommandsAfterLogin'
  BY KindsKept
<1>3. Progress'
  <2>1. \A j \in 1 .. Calls : Login(j)' <=> Login(j)
    BY DEF SameKinds, Login
  <2>2. stage \in {"init", "connecting"} => calls' = <<>>
    <3> SUFFICES ASSUME stage \in {"init", "connecting"} PROVE calls' = <<>>
      OBVIOUS
    <3>1. Calls = 0
      BY EmptySeq DEF LoginInv, Progress, Calls
    <3> QED BY <3>1, EmptySeq DEF SameKinds
  <2>3. stage = "handshake" =>
          /\ Calls # 0 /\ calls'[Calls].kind # "command" /\ Unsettled(calls'[Calls])
          /\ \A j \in 1 .. Calls - 1 : Login(j)' /\ j \in oks' /\ calls'[j].phase = "done"
    <3> SUFFICES ASSUME stage = "handshake"
                 PROVE  /\ Calls # 0 /\ calls'[Calls].kind # "command" /\ Unsettled(calls'[Calls])
                        /\ \A j \in 1 .. Calls - 1 :
                             Login(j)' /\ j \in oks' /\ calls'[j].phase = "done"
      OBVIOUS
    <3>1. /\ Calls # 0 /\ calls[Calls].kind # "command" /\ Unsettled(calls[Calls])
          /\ \A j \in 1 .. Calls - 1 : Login(j) /\ j \in oks /\ calls[j].phase = "done"
      BY DEF LoginInv, Progress
    <3> QED BY <1>1, <2>1, <3>1 DEF SameKinds
  <2>4. \A j \in 1 .. Calls :
          calls'[j].kind # "command" /\ Unsettled(calls'[j]) => stage = "handshake" /\ j = Calls
    BY DEF LoginInv, Progress, SameKinds
  <2>5. stage = "ready" => \A j \in 1 .. Calls : Login(j)' => j \in oks'
    BY <2>1 DEF LoginInv, Progress
  <2> QED BY <1>1, <2>2, <2>3, <2>4, <2>5 DEF Progress
<1> QED BY <1>2, <1>3 DEF LoginInv

(* A step that leaves calls alone. *)
LEMMA CallsAlone ==
  ASSUME LoginInv, UNCHANGED calls
  PROVE  SameKinds
BY DEF SameKinds, LoginInv, Shape, Calls

(* What a chunk leaves of the buffer, the stream and the queue.            *)
LEMMA ChunkFacts ==
  ASSUME LoginInv, NEW n, requests # <<>>, n \in 1 .. Len(stream)
  PROVE  /\ Head(requests) \in 1 .. Calls /\ Pending(Tail(requests))
         /\ \A i \in 1 .. Calls : Pending(Append(Tail(requests), i))
         /\ calls[Head(requests)] \in Call
         /\ SubSeq(stream, n + 1, Len(stream)) \in Seq(Piece)
         /\ calls[Head(requests)].buf \o SubSeq(stream, 1, n) \in Seq(Piece)
         /\ (calls[Head(requests)].buf \o SubSeq(stream, 1, n))
              \o SubSeq(stream, n + 1, Len(stream)) = calls[Head(requests)].buf \o stream
         /\ calls[Head(requests)].buf \o SubSeq(stream, 1, n) # <<>>
<1>1. Calls \in Nat /\ Pending(requests) /\ stream \in Seq(Piece) /\ calls \in Seq(Call)
  BY LenProperties DEF LoginInv, Shape, Calls
<1>2. Head(requests) \in 1 .. Calls /\ Pending(Tail(requests))
  BY <1>1, QueueOps
<1>3. \A i \in 1 .. Calls : Pending(Append(Tail(requests), i))
  BY <1>1, <1>2, QueueOps
<1>4. calls[Head(requests)] \in Call
  BY <1>1, <1>2, ElementOfSeq DEF Calls
<1>5. calls[Head(requests)].buf \in Seq(Piece)
  BY <1>4 DEF Call
<1>6. /\ SubSeq(stream, n + 1, Len(stream)) \in Seq(Piece)
      /\ calls[Head(requests)].buf \o SubSeq(stream, 1, n) \in Seq(Piece)
      /\ (calls[Head(requests)].buf \o SubSeq(stream, 1, n))
           \o SubSeq(stream, n + 1, Len(stream)) = calls[Head(requests)].buf \o stream
      /\ calls[Head(requests)].buf \o SubSeq(stream, 1, n) # <<>>
  <2> DEFINE b == calls[Head(requests)].buf
  <2>1. b \in Seq(Piece)
    BY <1>5
  <2> HIDE DEF b
  <2>2. /\ SubSeq(stream, n + 1, Len(stream)) \in Seq(Piece)
        /\ b \o SubSeq(stream, 1, n) \in Seq(Piece)
        /\ (b \o SubSeq(stream, 1, n)) \o SubSeq(stream, n + 1, Len(stream)) = b \o stream
        /\ b \o SubSeq(stream, 1, n) # <<>>
    BY <1>1, <2>1, Rechunk
  <2> QED BY <2>2 DEF b
<1> QED BY <1>2, <1>3, <1>4, <1>6

(* A read takes a chunk and goes on. *)
LEMMA ReadOnStep ==
  ASSUME LoginInv, NEW i \in 1 .. Calls, NEW b \in Seq(Piece), ReadOn(i, b),
         stream' \in Seq(Piece), b \o stream' = calls[i].buf \o stream,
         Pending(requests'), UNCHANGED <<answered, oks>>
  PROVE  LoginInv'
<1>1. Reads(i) /\ UNCHANGED stage /\ calls' = [calls EXCEPT ![i].buf = b]
  BY DEF ReadOn, Reads, ends
<1>2. /\ calls \in Seq(Call) /\ calls[i] \in Call /\ Calls \in Nat
      /\ "reading" \in Phases
  BY ElementOfSeq, LenProperties DEF LoginInv, Shape, Calls, Phases
<1>3. calls' = Updated(calls, i, "reading", b)
  BY <1>1, <1>2 DEF Updated, Reads, Call, Calls
<1>4. /\ SameKinds
      /\ calls'[i] = [kind |-> calls[i].kind, phase |-> "reading", buf |-> b]
      /\ \A j \in 1 .. Calls : j # i => calls'[j] = calls[j]
  BY <1>2, <1>3, CallUpdated
<1>5. Shape'
  <2>1. calls' \in Seq(Call) /\ Len(calls') >= Len(calls)
    BY <1>2, <1>4 DEF SameKinds, Calls
  <2> QED BY <2>1, ShapeKept
<1>6. Acceptances'
  <2>1. stage = "handshake" => i = Calls
    BY <1>1, ReadingCall
  <2>2. stage = "handshake" => OnTheWay' = OnTheWay /\ Calls' = Calls
    <3> SUFFICES ASSUME stage = "handshake" PROVE OnTheWay' = OnTheWay /\ Calls' = Calls
      OBVIOUS
    <3>1. Calls' = Calls
      BY <1>4 DEF SameKinds, Calls
    <3>2. calls'[Calls'].buf = b
      BY <1>4, <2>1, <3>1
    <3>3. OnTheWay' = b \o stream'
      BY <3>2 DEF OnTheWay
    <3> QED BY <2>1, <3>1, <3>3 DEF OnTheWay
  <2> QED BY <1>1, <2>2 DEF Acceptances, Fresh, LoginInv
<1>7. \A j \in 1 .. Calls :
        /\ Unsettled(calls'[j]) <=> Unsettled(calls[j])
        /\ calls[j].phase = "done" => calls'[j].phase = "done"
  BY <1>1, <1>4 DEF Unsettled, Reads
<1>8. stage \notin {"init", "connecting"}
  BY EmptySeq DEF LoginInv, Progress, Calls
<1> QED BY <1>1, <1>4, <1>5, <1>6, <1>7, <1>8, SameStage

(* The read of a timed-out call takes a chunk for nothing. *)
LEMMA DiscardStep ==
  ASSUME LoginInv, NEW i \in 1 .. Calls, Discard(i),
         stream' \in Seq(Piece), Pending(requests'), UNCHANGED <<answered, oks>>
  PROVE  LoginInv'
<1>1. /\ calls[i].phase = "abandoned" /\ UNCHANGED stage
      /\ calls' = [calls EXCEPT ![i].phase = "failed"]
  BY DEF Discard, ends
<1>2. /\ calls \in Seq(Call) /\ calls[i] \in Call /\ Calls \in Nat
      /\ "failed" \in Phases
  BY ElementOfSeq, LenProperties DEF LoginInv, Shape, Calls, Phases
<1>3. calls' = Updated(calls, i, "failed", calls[i].buf) /\ calls[i].buf \in Seq(Piece)
  BY <1>1, <1>2 DEF Updated, Call, Calls
<1>4. /\ SameKinds
      /\ calls'[i] = [kind |-> calls[i].kind, phase |-> "failed", buf |-> calls[i].buf]
      /\ \A j \in 1 .. Calls : j # i => calls'[j] = calls[j]
  BY <1>2, <1>3, CallUpdated
<1>5. Shape'
  <2>1. calls' \in Seq(Call) /\ Len(calls') >= Len(calls)
    BY <1>2, <1>4 DEF SameKinds, Calls
  <2> QED BY <2>1, ShapeKept
<1>6. ~Unsettled(calls[i]) /\ ~Unsettled(calls'[i])
  BY <1>1, <1>4 DEF Unsettled
<1>7. /\ \A j \in 1 .. Calls : calls[j].kind # "command" => ~Unsettled(calls'[j])
      /\ stage \notin {"init", "connecting"} /\ (stage = "handshake" => i = Calls)
  BY <1>1, <1>4, <1>6, NoneUnsettled
<1>8. stage # "handshake"
  BY <1>6, <1>7 DEF LoginInv, Progress
<1>9. stage' = "ready" => \A j \in 1 .. Calls : Login(j) => j \in oks
  BY <1>1 DEF LoginInv, Progress
<1> QED BY <1>1, <1>4, <1>5, <1>7, <1>8, <1>9, PastHandshake

(* A chunk of replies, whatever its read makes of it. *)
LEMMA ChunkStep ==
  ASSUME LoginInv, NEW n, Chunk(n)
  PROVE  LoginInv'
<1> DEFINE i == Head(requests)
           b == calls[i].buf \o SubSeq(stream, 1, n)
<1>1. /\ requests # <<>> /\ n \in 1 .. Len(stream)
      /\ stream' = SubSeq(stream, n + 1, Len(stream)) /\ UNCHANGED <<answered, oks>>
      /\ Discard(i) \/ TooLarge(i, b) \/ Finish(i, b) \/ ReadOn(i, b) \/ DeadlinePassed(i, b)
  BY DEF Chunk, server
<1>2. /\ i \in 1 .. Calls /\ Pending(Tail(requests)) /\ Pending(Append(Tail(requests), i))
      /\ b \in Seq(Piece) /\ b # <<>> /\ stream' \in Seq(Piece)
      /\ b \o stream' = calls[i].buf \o stream
  BY <1>1, ChunkFacts
<1> HIDE DEF i, b
<1>3. CASE Discard(i)
  BY <1>1, <1>2, <1>3, DiscardStep DEF Discard
<1>4. CASE TooLarge(i, b)
  <2>1. Fail(i, "failed") /\ Unsettled(calls[i]) /\ requests' = Tail(requests)
    BY <1>4 DEF TooLarge, Unsettled
  <2>2. Shape'
    BY <1>1, <1>2, <2>1, FailShape, ShapeKept
  <2> QED BY <1>1, <1>2, <2>1, <2>2, FailStep
<1>5. CASE ReadOn(i, b)
  BY <1>1, <1>2, <1>5, ReadOnStep DEF ReadOn
<1>6. ASSUME NEW reply, Settle(i, reply), Accepted(reply) => b[1].ok,
             calls[i].phase = "reading", requests' = Tail(requests)
      PROVE  LoginInv'
  <2>1. Shape'
    BY <1>1, <1>2, <1>6, SettleShape, ShapeKept
  <2>2. Reads(i)
    BY <1>2, <1>6 DEF Reads
  <2> QED BY <1>1, <1>2, <1>6, <2>1, <2>2, SettleStep
<1>7. CASE Finish(i, b)
  <2>1. Accepted(FirstValue(b)) => b[1].ok
    BY <1>2, FirstOfValue
  <2> QED BY <1>6, <1>7, <2>1 DEF Finish
<1>8. CASE DeadlinePassed(i, b)
  <2>1. Accepted(b) => b[1].ok
    BY DEF Accepted
  <2> QED BY <1>6, <1>8, <2>1 DEF DeadlinePassed
<1> QED BY <1>1, <1>3, <1>4, <1>5, <1>7, <1>8

(* The connection ends under a read. *)
LEMMA EndOfStreamStep ==
  ASSUME LoginInv, EndOfStream
  PROVE  LoginInv'
<1> DEFINE i == Head(requests)
<1>1. /\ requests # <<>> /\ requests' = Tail(requests) /\ UNCHANGED <<stream, answered, oks>>
      /\ \/ calls[i].phase = "reading" /\ Settle(i, calls[i].buf)
         \/ calls[i].phase \in {"reading", "abandoned"} /\ Fail(i, "failed")
  BY DEF EndOfStream, server
<1>2. Calls \in Nat /\ Pending(requests) /\ stream \in Seq(Piece) /\ calls \in Seq(Call)
  BY LenProperties DEF LoginInv, Shape, Calls
<1>3. i \in 1 .. Calls /\ Pending(requests') /\ stream' \in Seq(Piece)
  BY <1>1, <1>2, QueueOps
<1> HIDE DEF i
<1>4. calls[i] \in Call
  BY <1>2, <1>3, ElementOfSeq DEF Calls
<1>5. calls[i].buf \in Seq(Piece)
  BY <1>4 DEF Call
<1>6. CASE calls[i].phase = "reading" /\ Settle(i, calls[i].buf)
  <2>1. Shape'
    BY <1>1, <1>3, <1>6, SettleShape, ShapeKept
  <2>2. Reads(i)
    BY <1>3, <1>6 DEF Reads
  <2>3. Accepted(calls[i].buf) => calls[i].buf # <<>> /\ calls[i].buf[1].ok
    BY DEF Accepted
  <2>4. calls[i].buf \o stream' = calls[i].buf \o stream
    BY <1>1
  <2> QED BY <1>1, <1>5, <1>6, <2>1, <2>2, <2>3, <2>4, SettleStep
<1>7. CASE calls[i].phase \in {"reading", "abandoned"} /\ Fail(i, "failed")
  <2>1. Shape'
    BY <1>1, <1>3, <1>7, FailShape, ShapeKept
  <2>2. Unsettled(calls[i]) \/ calls[i].phase = "abandoned"
    BY <1>7 DEF Unsettled
  <2> QED BY <1>1, <1>3, <1>7, <2>1, <2>2, FailStep
<1> QED BY <1>1, <1>6, <1>7

(* A read is late, or a write fails. *)
LEMMA FailingStep ==
  ASSUME LoginInv, NEW i \in 1 .. Len(calls), ReadTimeout(i) \/ WriteFails(i)
  PROVE  LoginInv'
<1>1. PICK ph \in {"abandoned", "failed"} : Fail(i, ph)
  BY DEF ReadTimeout, WriteFails
<1>2. /\ Unsettled(calls[i]) /\ UNCHANGED <<requests, stream, answered, oks>>
      /\ i \in 1 .. Calls
  BY DEF ReadTimeout, AfterTimeout, WriteFails, NextWrite, Unsettled, io, server, Calls
<1>3. Pending(requests') /\ stream' \in Seq(Piece)
  BY <1>2 DEF LoginInv, Shape
<1>4. calls' \in Seq(Call) /\ Len(calls') >= Len(calls)
  BY <1>1, <1>2, FailShape
<1>5. Shape'
  BY <1>2, <1>3, <1>4, ShapeKept
<1> QED BY <1>1, <1>2, <1>5, FailStep

(* A written call begins to read. *)
LEMMA WriteDoneStep ==
  ASSUME LoginInv, NEW i \in 1 .. Len(calls), WriteDone(i)
  PROVE  LoginInv'
<1>1. /\ calls[i].phase = "writing" /\ requests' = Append(requests, i)
      /\ calls' = [calls EXCEPT ![i].phase = "reading"]
      /\ UNCHANGED <<stream, stage, answered, oks>>
  BY DEF WriteDone, NextWrite, ends, server
<1>2. /\ calls \in Seq(Call) /\ calls[i] \in Call /\ Calls \in Nat /\ i \in 1 .. Calls
      /\ "reading" \in Phases /\ Pending(requests) /\ stream' \in Seq(Piece)
  BY <1>1, ElementOfSeq, LenProperties DEF LoginInv, Shape, Calls, Phases
<1>3. calls' = Updated(calls, i, "reading", calls[i].buf) /\ calls[i].buf \in Seq(Piece)
  BY <1>1, <1>2 DEF Updated, Call, Calls
<1>4. /\ SameKinds
      /\ calls'[i] = [kind |-> calls[i].kind, phase |-> "reading", buf |-> calls[i].buf]
      /\ \A j \in 1 .. Calls : j # i => calls'[j] = calls[j]
  BY <1>2, <1>3, CallUpdated
<1>5. Shape'
  <2>1. calls' \in Seq(Call) /\ Len(calls') >= Len(calls)
    BY <1>2, <1>4 DEF SameKinds, Calls
  <2>2. Pending(requests')
    BY <1>1, <1>2, QueueOps
  <2> QED BY <1>1, <1>2, <2>1, <2>2, ShapeKept
<1>6. Acceptances'
  <2>1. Calls' = Calls /\ stage' = stage
    BY <1>1, <1>4 DEF SameKinds, Calls
  <2>2. stage = "handshake" => calls'[Calls].buf = calls[Calls].buf
    <3>1. CASE i = Calls
      BY <1>4, <3>1
    <3>2. CASE i # Calls
      BY <1>2, <1>4, <3>2 DEF LoginInv, Progress
    <3> QED BY <3>1, <3>2
  <2>3. stage = "handshake" => OnTheWay' = OnTheWay
    BY <1>1, <2>1, <2>2 DEF OnTheWay
  <2> QED BY <1>1, <2>1, <2>3 DEF Acceptances, Fresh, LoginInv
<1>7. \A j \in 1 .. Calls :
        /\ Unsettled(calls'[j]) <=> Unsettled(calls[j])
        /\ calls[j].phase = "done" => calls'[j].phase = "done"
  BY <1>1, <1>4 DEF Unsettled
<1>8. stage \notin {"init", "connecting"}
  BY EmptySeq DEF LoginInv, Progress, Calls
<1> QED BY <1>1, <1>4, <1>5, <1>6, <1>7, <1>8, SameStage

(* A new call, where there is no handshake to go on with. *)
LEMMA CommandStep ==
  ASSUME LoginInv, Command
  PROVE  LoginInv'
<1>1. /\ stage = "ready" /\ calls' = Issued(calls, "command")
      /\ UNCHANGED <<stage, requests, stream, answered, oks>>
  BY DEF Command, ends, io, server
<1>2. /\ calls \in Seq(Call) /\ Calls = Len(calls) /\ Calls \in Nat /\ "command" \in Kinds
  BY LenProperties DEF LoginInv, Shape, Calls, Kinds
<1>3. /\ calls' \in Seq(Call) /\ Len(calls') = Calls + 1 /\ Calls' = Calls + 1
      /\ calls'[Calls + 1] = [kind |-> "command", phase |-> "writing", buf |-> <<>>]
  BY <1>1, <1>2, Begun DEF Calls
<1>4. ASSUME NEW j \in 1 .. Calls PROVE calls'[j] = calls[j]
  BY <1>1, <1>2, BegunBefore
<1>5. Shape'
  <2>1. Pending(requests') /\ stream' \in Seq(Piece)
    BY <1>1 DEF LoginInv, Shape
  <2> QED BY <1>1, <1>2, <1>3, <2>1, ShapeKept
<1>6. ASSUME NEW j \in 1 .. Calls', Login(j)'
      PROVE  j \in oks'
  <2>1. j # Calls + 1
    BY <1>3, <1>6 DEF Login
  <2>2. j \in 1 .. Calls
    BY <1>2, <1>3, <2>1
  <2>3. Login(j)
    BY <1>4, <1>6, <2>2 DEF Login
  <2> QED BY <1>1, <2>2, <2>3 DEF LoginInv, Progress
<1>7. Progress'
  <2>1. ASSUME NEW j \in 1 .. Calls', calls'[j].kind # "command"
        PROVE  ~Unsettled(calls'[j])
    <3>1. j # Calls + 1
      BY <1>3, <2>1
    <3>2. j \in 1 .. Calls
      BY <1>2, <1>3, <3>1
    <3> QED BY <1>1, <1>4, <2>1, <3>2 DEF LoginInv, Progress
  <2> QED BY <1>1, <1>6, <2>1 DEF Progress
<1>8. CommandsAfterLogin'
  <2> SUFFICES ASSUME NEW k \in Commands', NEW j \in 1 .. k - 1,
                      calls'[j].kind \in {"AUTH", "SELECT"}
               PROVE  j \in oks'
    BY DEF CommandsAfterLogin
  <2>1. j \in 1 .. Calls'
    BY <1>2, <1>3 DEF Commands, Calls
  <2> QED BY <1>6, <2>1 DEF Login
<1>9. Acceptances'
  BY <1>1 DEF Acceptances
<1> QED BY <1>5, <1>7, <1>8, <1>9 DEF LoginInv

(* The socket opens and the handshake begins. *)
LEMMA OpenedStep ==
  ASSUME LoginInv, Opened
  PROVE  LoginInv'
<1>1. /\ stage = "connecting" /\ stage' = "handshake"
      /\ UNCHANGED <<requests, stream, answered, oks>>
  BY DEF Opened, io, server
<1>2. PICK kind \in {"AUTH", "SELECT", "INFO"} : calls' = Issued(calls, kind)
  BY DEF Opened
<1>3. calls = <<>> /\ stream = <<>> /\ calls \in Seq(Call) /\ Len(calls) = 0 /\ kind \in Kinds
  BY <1>1, EmptySeq DEF LoginInv, Progress, Shape, Kinds
<1>4. /\ calls' \in Seq(Call) /\ Len(calls') = 1 /\ Calls' = 1
      /\ calls'[1] = [kind |-> kind, phase |-> "writing", buf |-> <<>>]
  <2>1. /\ Issued(calls, kind) \in Seq(Call) /\ Len(Issued(calls, kind)) = Len(calls) + 1
        /\ Issued(calls, kind)[Len(calls) + 1]
             = [kind |-> kind, phase |-> "writing", buf |-> <<>>]
    BY <1>3, Begun
  <2> QED BY <1>2, <1>3, <2>1 DEF Calls
<1>5. Shape'
  <2>1. Pending(requests') /\ stream' \in Seq(Piece)
    BY <1>1 DEF LoginInv, Shape
  <2> QED BY <1>1, <1>3, <1>4, <2>1, ShapeKept
<1>6. calls'[1].kind # "command" /\ Unsettled(calls'[1])
  BY <1>4 DEF Unsettled
<1>7. Progress'
  BY <1>1, <1>4, <1>6 DEF Progress
<1>8. Acceptances'
  <2>1. OnTheWay' = <<>>
    BY <1>1, <1>3, <1>4, ConcatEmptySeq, EmptySeq DEF OnTheWay
  <2> QED BY <2>1, EmptySeq DEF Acceptances, Fresh
<1>9. CommandsAfterLogin'
  BY <1>4, <1>6 DEF CommandsAfterLogin, Commands
<1> QED BY <1>5, <1>7, <1>8, <1>9 DEF LoginInv

(* The close event of a ready session throws every call under way. *)
LEMMA ReleaseStep ==
  ASSUME LoginInv, WsClosed, stage = "ready"
  PROVE  LoginInv'
<1> DEFINE c(i) == IF Unsettled(calls[i]) \/ calls[i].phase = "abandoned"
                   THEN [calls[i] EXCEPT !.phase = "failed", !.buf = <<>>]
                   ELSE calls[i]
<1>1. /\ calls' = [i \in 1 .. Len(calls) |-> c(i)]
      /\ requests' = <<>> /\ stage' = "over" /\ UNCHANGED <<stream, answered, oks>>
  BY DEF WsClosed, Released, server
<1>2. calls \in Seq(Call) /\ Calls \in Nat /\ Calls = Len(calls)
  BY LenProperties DEF LoginInv, Shape, Calls
<1>3. ASSUME NEW i \in 1 .. Len(calls)
      PROVE  c(i) \in Call /\ c(i).kind = calls[i].kind /\ ~Unsettled(c(i))
  <2>1. calls[i] \in Call
    BY <1>2, ElementOfSeq
  <2>2. CASE Unsettled(calls[i]) \/ calls[i].phase = "abandoned"
    <3> DEFINE d == [calls[i] EXCEPT !.phase = "failed", !.buf = <<>>]
    <3>1. <<>> \in Seq(Piece)
      BY EmptySeq
    <3>2. d \in Call /\ d.kind = calls[i].kind /\ d.phase = "failed"
      BY <2>1, <3>1 DEF Call
    <3> QED BY <2>2, <3>2 DEF Unsettled
  <2>3. CASE ~(Unsettled(calls[i]) \/ calls[i].phase = "abandoned")
    BY <2>1, <2>3
  <2> QED BY <2>2, <2>3
<1> HIDE DEF c
<1>4. SameKinds
  <2>1. calls' \in [1 .. Len(calls) -> Call]
    BY <1>1, <1>3
  <2>2. calls' \in Seq(Call) /\ Len(calls') = Len(calls)
    BY <1>2, <2>1, SeqDef, LenProperties
  <2> QED BY <1>1, <1>2, <1>3, <2>2 DEF SameKinds
<1>5. Shape'
  <2>1. Pending(requests')
    BY <1>1, EmptySeq DEF Pending
  <2> QED BY <1>1, <1>2, <1>4, <2>1, ShapeKept DEF SameKinds, LoginInv, Shape
<1>6. \A i \in 1 .. Calls : calls[i].kind # "command" => ~Unsettled(calls'[i])
  BY <1>1, <1>2, <1>3
<1> QED BY <1>1, <1>4, <1>5, <1>6, PastHandshake

LEMMA SameRange ==
  ASSUME NEW m \in Nat, NEW n \in Nat, 1 .. m = 1 .. n
  PROVE  m = n
<1>1. m # 0 => m \in 1 .. n
  OBVIOUS
<1>2. n # 0 => n \in 1 .. m
  OBVIOUS
<1> QED BY <1>1, <1>2

(* The pieces of an answer.                                                *)
Answer(i, n, ok) == [k \in 1 .. n |-> [call |-> i, ok |-> ok /\ k = 1, last |-> k = n]]

LEMMA AnswerPieces ==
  ASSUME NEW n \in Nat, NEW new \in [1 .. n -> Piece]
  PROVE  new \in Seq(Piece) /\ Len(new) = n
<1>1. new \in Seq(Piece)
  BY SeqDef
<1>2. Len(new) \in Nat /\ 1 .. Len(new) = 1 .. n
  BY <1>1, LenProperties
<1> QED BY <1>1, <1>2, SameRange

(* The server answers the next call. *)
LEMMA AnswerStep ==
  ASSUME LoginInv, NEW n \in 1 .. MaxPieces, NEW ok \in BOOLEAN, ServerAnswers(n, ok)
  PROVE  LoginInv'
<1> DEFINE i == answered + 1
           new == Answer(i, n, ok)
<1>1. /\ answered < Len(calls) /\ stream' = stream \o new /\ answered' = i
      /\ oks' = IF ok THEN oks \cup {i} ELSE oks
      /\ UNCHANGED <<calls, requests, stage>>
  BY DEF ServerAnswers, ends, Answer
<1>2. /\ calls \in Seq(Call) /\ stream \in Seq(Piece) /\ answered \in Nat
      /\ oks \subseteq 1 .. answered /\ Calls \in Nat /\ Calls = Len(calls) /\ n \in Nat
  BY LenProperties DEF LoginInv, Shape, Calls
<1>3. /\ new \in Seq(Piece) /\ Len(new) = n
      /\ \A k \in 1 .. n : new[k].call = i /\ (new[k].ok <=> (ok /\ k = 1))
  <2>1. i \in Nat /\ n \in Nat
    BY <1>2
  <2>2. ASSUME NEW k \in 1 .. n
        PROVE  [call |-> i, ok |-> ok /\ k = 1, last |-> k = n] \in Piece
    BY <2>1 DEF Piece
  <2>3. new \in [1 .. n -> Piece]
    BY <2>2 DEF Answer
  <2>4. \A k \in 1 .. n : new[k].call = i /\ (new[k].ok <=> (ok /\ k = 1))
    BY DEF Answer
  <2> HIDE DEF new
  <2> QED BY <2>1, <2>3, <2>4, AnswerPieces
<1> HIDE DEF new
<1>4. Shape'
  <2>1. stream' \in Seq(Piece)
    BY <1>1, <1>2, <1>3, ConcatProperties
  <2>2. answered' \in Nat /\ oks' \subseteq 1 .. answered'
    BY <1>1, <1>2
  <2>3. Calls' = Calls
    BY <1>1 DEF Calls
  <2> QED BY <1>1, <2>1, <2>2, <2>3 DEF Shape, Pending, LoginInv
<1>5. SameKinds
  BY <1>1, CallsAlone
<1>6. ASSUME stage = "handshake" PROVE i = Calls
  <2>1. Calls # 0 /\ \A j \in 1 .. Calls - 1 : j \in oks
    BY <1>6 DEF LoginInv, Progress
  <2>2. CASE Calls = 1
    BY <1>1, <1>2, <2>2
  <2>3. CASE Calls # 1
    <3>1. Calls - 1 \in oks
      BY <1>2, <2>1, <2>3
    <3> QED BY <1>1, <1>2, <3>1
  <2> QED BY <2>2, <2>3
<1>7. Acceptances'
  <2> SUFFICES ASSUME stage = "handshake" PROVE Fresh(OnTheWay)'
    BY <1>1 DEF Acceptances
  <2> DEFINE b == calls[Calls].buf
             q == b \o stream'
             L == Len(b) + Len(stream)
  <2>0. i = Calls /\ Calls # 0
    BY <1>6 DEF LoginInv, Progress
  <2>1. b \in Seq(Piece)
    <3>1. calls[Calls] \in Call
      BY <1>2, <2>0, ElementOfSeq
    <3> QED BY <3>1 DEF Call
  <2> HIDE DEF b
  <2>2. OnTheWay' = q /\ OnTheWay = b \o stream
    BY <1>1 DEF OnTheWay, b, Calls
  <2>3. /\ stream' \in Seq(Piece) /\ Len(stream') = Len(stream) + n /\ Len(stream) \in Nat
        /\ \A j \in 1 .. Len(stream) : stream'[j] = stream[j]
        /\ \A k \in 1 .. n : stream'[Len(stream) + k] = new[k]
    BY <1>1, <1>2, <1>3, Suffix
  <2>4. /\ q \in Seq(Piece) /\ Len(q) = L + n /\ Len(b) \in Nat /\ L \in Nat
        /\ \A j \in 1 .. Len(stream') : q[Len(b) + j] = stream'[j]
        /\ \A j \in 1 .. Len(b) : q[j] = b[j]
    <3>1. /\ q \in Seq(Piece) /\ Len(q) = Len(b) + Len(stream') /\ Len(b) \in Nat
          /\ \A j \in 1 .. Len(stream') : q[Len(b) + j] = stream'[j]
          /\ \A j \in 1 .. Len(b) : q[j] = b[j]
      <4>1. stream' \in Seq(Piece)
        BY <2>3
      <4> QED BY <2>1, <4>1, Suffix
    <3> QED BY <1>2, <2>3, <3>1
  <2>5. /\ OnTheWay \in Seq(Piece) /\ Len(OnTheWay) = L
        /\ \A j \in 1 .. Len(stream) : OnTheWay[Len(b) + j] = stream[j]
        /\ \A j \in 1 .. Len(b) : OnTheWay[j] = b[j]
    BY <1>2, <2>1, <2>2, Suffix
  <2> HIDE DEF q
(* What was on the way still is, and the answer comes after it. *)
  <2>6. ASSUME NEW j \in 1 .. L PROVE q[j] = OnTheWay[j]
    <3>1. CASE j <= Len(b)
      BY <2>4, <2>5, <3>1
    <3>2. CASE j > Len(b)
      <4>1. j - Len(b) \in 1 .. Len(stream) /\ j - Len(b) \in 1 .. Len(stream')
            /\ Len(b) + (j - Len(b)) = j
        BY <2>3, <2>4, <3>2
      <4> QED BY <2>3, <2>4, <2>5, <4>1
    <3> QED BY <2>4, <3>1, <3>2
  <2>7. ASSUME NEW k \in 1 .. n PROVE q[L + k] = new[k]
    <3>1. Len(stream) + k \in 1 .. Len(stream') /\ Len(b) + (Len(stream) + k) = L + k
      BY <2>3, <2>4
    <3> QED BY <2>3, <2>4, <3>1
(* No acceptance was on the way before, since the call was not answered.   *)
  <2>8. ASSUME NEW j \in 1 .. L
        PROVE  q[j].call <= i /\ q[j].call # i /\ ~q[j].ok
    <3>0. Fresh(OnTheWay) /\ j \in 1 .. Len(OnTheWay)
      BY <2>5 DEF LoginInv, Acceptances
    <3>1. OnTheWay[j] \in Piece
      BY <2>5, <3>0, ElementOfSeq
    <3>2. OnTheWay[j].call \in Nat
      BY <3>1 DEF Piece
    <3>3. OnTheWay[j].call <= answered /\ (OnTheWay[j].ok => OnTheWay[j].call = Calls)
      BY <3>0 DEF Fresh
    <3>4. q[j] = OnTheWay[j]
      BY <2>6
    <3> QED BY <1>2, <2>0, <3>2, <3>3, <3>4
  <2>9. ASSUME NEW k \in 1 .. n
        PROVE  q[L + k].call = i /\ (q[L + k].ok => ok /\ k = 1)
    BY <1>3, <2>7
  <2>10. Calls' = Calls /\ answered' = i /\ (ok => Calls \in oks')
    BY <1>1, <2>0 DEF Calls
  <2>11. ASSUME NEW j \in 1 .. Len(q)
         PROVE  /\ q[j].call <= i
                /\ q[j].ok => q[j].call = Calls /\ Calls \in oks'
                /\ \A h \in 1 .. j - 1 : q[j].ok => q[h].call # q[j].call
    <3>1. CASE j \in 1 .. L
      BY <1>2, <2>8, <3>1
    <3>2. CASE j \notin 1 .. L
      <4>1. j - L \in 1 .. n /\ L + (j - L) = j
        BY <1>2, <2>4, <3>2
      <4>2. q[j].call = i /\ (q[j].ok => ok /\ j - L = 1)
        BY <2>9, <4>1
      <4>3. ASSUME NEW h \in 1 .. j - 1, q[j].ok PROVE q[h].call # q[j].call
        <5>1. h \in 1 .. L
          BY <2>4, <4>1, <4>2, <4>3
        <5> QED BY <1>2, <2>8, <4>2, <5>1
      <4> QED BY <1>2, <2>0, <2>10, <4>2, <4>3
    <3> QED BY <3>1, <3>2
  <2> QED BY <2>2, <2>10, <2>11 DEF Fresh
<1>8. stage \in {"init", "connecting"} => stream' = <<>>
  BY <1>1, <1>2, EmptySeq DEF LoginInv, Progress
<1>9. oks \subseteq oks'
  BY <1>1
<1>10. \A j \in 1 .. Calls :
        /\ Unsettled(calls'[j]) <=> Unsettled(calls[j])
        /\ calls[j].phase = "done" => calls'[j].phase = "done"
  BY <1>1
<1> QED BY <1>1, <1>4, <1>5, <1>7, <1>8, <1>9, <1>10, SameStage

(* A step that touches neither calls nor data. *)
LEMMA QuietStep ==
  ASSUME LoginInv, UNCHANGED <<calls, requests, stream, answered, oks>>,
         \/ stage' = stage
         \/ stage \in {"init", "connecting"} /\ stage' \in {"connecting", "over"}
  PROVE  LoginInv'
<1>1. Shape'
  BY DEF LoginInv, Shape, Pending, Calls
<1>2. SameKinds
  BY CallsAlone
<1>3. CommandsAfterLogin'
  BY DEF LoginInv, CommandsAfterLogin, Commands
<1>4. CASE stage' = stage
  <2>1. Acceptances'
    BY <1>4 DEF LoginInv, Acceptances, Fresh, OnTheWay, Calls
  <2>2. stage \in {"init", "connecting"} => stream' = <<>>
    BY DEF LoginInv, Progress
  <2> QED BY <1>1, <1>2, <1>4, <2>1, <2>2, SameStage
<1>5. CASE stage \in {"init", "connecting"} /\ stage' \in {"connecting", "over"}
  <2>1. calls = <<>> /\ stream = <<>> /\ Calls = 0 /\ Calls' = 0
    BY <1>5, EmptySeq DEF LoginInv, Progress, Calls
  <2>2. Progress'
    BY <1>5, <2>1 DEF Progress
  <2>3. Acceptances'
    BY <1>5 DEF Acceptances
  <2> QED BY <1>1, <1>3, <2>2, <2>3 DEF LoginInv
<1> QED BY <1>4, <1>5

(* Every step of a session keeps the invariant. *)
LEMMA NextLogin == LoginInv /\ [Next]_vars => LoginInv'
<1> SUFFICES ASSUME LoginInv, [Next]_vars PROVE LoginInv'
  OBVIOUS
<1>1. CASE AuthTimeout
  BY <1>1, QuietStep DEF AuthTimeout, io, server
<1>2. CASE \E password, database \in BOOLEAN : AuthMessage(password, database)
  BY <1>2, QuietStep DEF AuthMessage, io, server
<1>3. CASE Opened
  BY <1>3, OpenedStep
<1>4. CASE ConnectRefused \/ ConnectTimeout
  BY <1>4, QuietStep DEF ConnectRefused, ConnectTimeout, io, server
<1>5. CASE OpensLate \/ ConnectionLost
  BY <1>5, QuietStep DEF OpensLate, ConnectionLost, io, server
<1>6. CASE Command
  BY <1>6, CommandStep
<1>7. CASE \E i \in 1 .. Len(calls) : WriteDone(i) \/ WriteFails(i) \/ ReadTimeout(i)
  BY <1>7, WriteDoneStep, FailingStep
<1>8. CASE \E n \in 1 .. Len(stream) : Chunk(n)
  BY <1>8, ChunkStep
<1>9. CASE EndOfStream
  BY <1>9, EndOfStreamStep
<1>10. CASE WsClosed
  <2>1. CASE stage = "ready"
    BY <1>10, <2>1, ReleaseStep
  <2>2. CASE stage # "ready"
    BY <1>10, <2>2, QuietStep DEF WsClosed, server
  <2> QED BY <2>1, <2>2
<1>11. CASE \E n \in 1 .. MaxPieces, ok \in BOOLEAN : ServerAnswers(n, ok)
  BY <1>11, AnswerStep
<1>12. CASE Over \/ UNCHANGED vars
  BY <1>12, QuietStep DEF Over, vars, ends, io, server
<1> QED BY <1>1, <1>2, <1>3, <1>4, <1>5, <1>6, <1>7, <1>8, <1>9, <1>10, <1>11, <1>12 DEF Next

(* The strengthened invariant holds in every reachable state. *)
THEOREM LoginInvariance == Spec => []LoginInv
<1> QED BY InitLogin, NextLogin, PTL DEF Spec

(* A command runs only where the browser asked for it: after the server    *)
(* accepted the password and the database.                                 *)
THEOREM CommandsFollowLogin == Spec => []CommandsAfterLogin
<1>1. LoginInv => CommandsAfterLogin
  BY DEF LoginInv
<1> QED BY <1>1, LoginInvariance, PTL

-----------------------------------------------------------------------------
(***************************************************************************)
(* The first value of a buffer                                             *)
(***************************************************************************)

(* A non-empty set of numbers has a least one. *)
Smaller == {pair \in Nat \X Nat : pair[1] < pair[2]}

LEMMA Least ==
  ASSUME NEW T \in SUBSET Nat, T # {}
  PROVE  \E m \in T : \A k \in T : m <= k
<1>1. IsWellFoundedOn(Smaller, Nat)
  BY NatLessThanWellFounded DEF OpToRel, Smaller
<1>2. PICK m \in T : \A k \in T : ~(<<k, m>> \in Smaller)
  BY <1>1, WFMin
<1>3. ASSUME NEW k \in T PROVE m <= k
  <2>1. k \in Nat /\ m \in Nat
    OBVIOUS
  <2>2. ~(k < m)
    BY <1>2, <2>1 DEF Smaller
  <2> QED BY <2>1, <2>2
<1> QED BY <1>3

(* What parseRESPValue takes is a prefix of the buffer that ends with the  *)
(* first end of a reply in it, if there is one.                            *)
LEMMA FirstValuePrefix ==
  ASSUME NEW b \in Seq(Piece)
  PROVE  \E m \in 0 .. Len(b) :
           /\ FirstValue(b) = [k \in 1 .. m |-> b[k]]
           /\ Complete(b) => m # 0 /\ b[m].last
<1> DEFINE D == {k \in 1 .. Len(b) : \A j \in 1 .. k - 1 : ~b[j].last}
<1>1. FirstValue(b) = [k \in D |-> b[k]]
  BY DEF FirstValue
<1>2. Len(b) \in Nat
  BY LenProperties
<1>3. CASE ~Complete(b)
  <2>1. D = 1 .. Len(b)
    BY <1>2, <1>3 DEF Complete
  <2> WITNESS Len(b) \in 0 .. Len(b)
  <2> QED BY <1>1, <1>3, <2>1
<1>4. CASE Complete(b)
  <2> DEFINE T == {k \in 1 .. Len(b) : b[k].last}
  <2>1. T \in SUBSET Nat /\ T # {}
    BY <1>4 DEF Complete
  <2>2. PICK m \in T : \A k \in T : m <= k
    BY <2>1, Least
  <2>3. m \in 1 .. Len(b) /\ b[m].last /\ \A j \in 1 .. m - 1 : ~b[j].last
    BY <1>2, <2>2
  <2>4. D = 1 .. m
    BY <1>2, <2>3
  <2> WITNESS m \in 0 .. Len(b)
  <2> QED BY <1>1, <1>2, <2>3, <2>4
<1> QED BY <1>3, <1>4

(* So it is a sequence of pieces of the buffer, and whole if the buffer    *)
(* holds a whole reply.                                                    *)
LEMMA FirstValueProperties ==
  ASSUME NEW b \in Seq(Piece)
  PROVE  /\ FirstValue(b) \in Seq(Piece)
         /\ \A p \in 1 .. Len(FirstValue(b)) : p \in 1 .. Len(b) /\ FirstValue(b)[p] = b[p]
         /\ Complete(b) => FirstValue(b) # <<>> /\ Complete(FirstValue(b))
<1>1. PICK m \in 0 .. Len(b) : /\ FirstValue(b) = [k \in 1 .. m |-> b[k]]
                               /\ Complete(b) => m # 0 /\ b[m].last
  BY FirstValuePrefix
<1>2. Len(b) \in Nat /\ m \in Nat /\ 1 .. m \subseteq 1 .. Len(b)
  BY <1>1, LenProperties
<1>3. ASSUME NEW k \in 1 .. m PROVE b[k] \in Piece
  BY <1>2, ElementOfSeq
<1> DEFINE v == [k \in 1 .. m |-> b[k]]
<1>4. v \in [1 .. m -> Piece] /\ DOMAIN v = 1 .. m
  BY <1>3
<1>5. v \in Seq(Piece)
  BY <1>2, <1>4, SeqDef
<1>6. Len(v) = m
  <2>1. Len(v) \in Nat /\ DOMAIN v = 1 .. Len(v)
    BY <1>5, LenProperties
  <2>2. 1 .. Len(v) = 1 .. m
    BY <1>4, <2>1
  <2>3. Len(v) \in Nat
    BY <2>1
  <2> HIDE DEF v
  <2> QED BY <1>2, <2>2, <2>3, SameRange
<1>7. \A p \in 1 .. m : v[p] = b[p]
  OBVIOUS
<1> HIDE DEF v
<1>8. FirstValue(b) = v
  BY <1>1 DEF v
<1>9. ASSUME Complete(b) PROVE v # <<>> /\ Complete(v)
  <2>1. m \in 1 .. m /\ v[m].last
    BY <1>1, <1>2, <1>7, <1>9
  <2> QED BY <1>5, <1>6, <2>1, EmptySeq DEF Complete
<1> QED BY <1>2, <1>5, <1>6, <1>7, <1>8, <1>9

-----------------------------------------------------------------------------
(***************************************************************************)
(* The types                                                               *)
(***************************************************************************)

Response == [call : Nat, reply : Seq(Piece)]

(* A call has at most one pending read, and only while it is read or after *)
(* its timeout.                                                            *)
Queue ==
  /\ \A k \in 1 .. Len(requests) : calls[requests[k]].phase \in {"reading", "abandoned"}
  /\ \A j, k \in 1 .. Len(requests) : requests[j] = requests[k] => j = k

Plain ==
  /\ mode \in Modes
  /\ stage \in {"init", "connecting", "handshake", "ready", "over"}
  /\ authTimer \in {"set", "cleared", "fired"}
  /\ ws \in {"open", "closing", "closed"}
  /\ sock \in {"none", "opening", "open", "lost", "closed"}
  /\ login \in [password : BOOLEAN, database : BOOLEAN]
  /\ answered <= Calls
  /\ out \in Seq(Response)

Typed == Plain /\ Queue

LEMMA TypedIsTypeOK ==
  ASSUME Shape, Typed
  PROVE  TypeOK
<1> DEFINE R == {i \in 1 .. Len(calls) : calls[i].phase \in {"reading", "abandoned"}}
<1>1. Calls \in Nat /\ Calls = Len(calls) /\ requests \in Seq(Nat)
  BY LenProperties DEF Shape, Pending, Calls
<1>2. ASSUME NEW k \in 1 .. Len(requests) PROVE requests[k] \in R
  BY <1>1 DEF Shape, Pending, Typed, Queue
<1>3. requests \in Seq(R)
  <2>1. DOMAIN requests = 1 .. Len(requests) /\ Len(requests) \in Nat
    BY <1>1, LenProperties
  <2>2. requests = [k \in 1 .. Len(requests) |-> requests[k]]
    BY <1>1, <2>1, SeqDef
  <2> HIDE DEF R
  <2>3. requests \in [1 .. Len(requests) -> R]
    BY <1>2, <2>2
  <2> QED BY <2>1, <2>3, SeqDef
<1>4. answered \in 0 .. Len(calls) /\ oks \subseteq 1 .. Len(calls)
  BY <1>1 DEF Shape, Typed, Plain
<1> HIDE DEF R
<1>5. Response = [call : Nat, reply : Seq(Piece)]
  BY DEF Response
<1> QED BY <1>3, <1>4, <1>5 DEF R, TypeOK, Typed, Plain, Shape

(* Call i has been brought to an end; a handshake may have begun the next. *)
Ended(i, phase) ==
  /\ calls' \in Seq(Call) /\ Len(calls') \in {Calls, Calls + 1}
  /\ \A j \in 1 .. Calls : j # i => calls'[j] = calls[j]
  /\ calls'[i].phase = phase
  /\ Len(calls') = Calls + 1 =>
       calls'[Calls + 1].phase = "writing" /\ calls'[Calls + 1].buf = <<>>

(* What else the end of a call touches. *)
Answered(i, reply) ==
  \/ UNCHANGED out
  \/ calls[i].kind = "command" /\ out' = Append(out, [call |-> i, reply |-> reply])

(* A call throws. *)
LEMMA FailEnds ==
  ASSUME LoginInv, NEW i \in 1 .. Calls, NEW ph \in {"abandoned", "failed"}, Fail(i, ph)
  PROVE  /\ Ended(i, ph) /\ calls'[i].buf = <<>> /\ Len(calls') = Calls
         /\ UNCHANGED <<sock, out>> /\ stage' \in {stage, "over"} /\ ws' \in {ws, "closing"}
<1>1. calls' = Updated(calls, i, ph, <<>>)
  BY DEF Fail, Updated
<1>2. ph \in Phases /\ <<>> \in Seq(Piece) /\ calls \in Seq(Call) /\ Calls = Len(calls)
  BY EmptySeq DEF Phases, LoginInv, Shape, Calls
<1>3. /\ SameKinds /\ calls'[i] = [kind |-> calls[i].kind, phase |-> ph, buf |-> <<>>]
      /\ \A j \in 1 .. Calls : j # i => calls'[j] = calls[j]
  BY <1>1, <1>2, CallUpdated
<1>4. UNCHANGED <<sock, out>> /\ stage' \in {stage, "over"} /\ ws' \in {ws, "closing"}
  BY DEF Fail, Rejected
<1>5. Len(calls') = Calls /\ Calls # Calls + 1
  BY <1>2, <1>3, LenProperties DEF SameKinds
<1> QED BY <1>3, <1>4, <1>5 DEF Ended, SameKinds

(* A call ends with a reply. *)
LEMMA SettleEnds ==
  ASSUME LoginInv, NEW i \in 1 .. Calls, NEW reply, Settle(i, reply)
  PROVE  /\ Ended(i, "done") /\ calls'[i].buf = <<>> /\ Answered(i, reply)
         /\ sock' \in {sock, "closed"} /\ stage' \in {stage, "ready", "over"}
         /\ ws' \in {ws, "closing"}
         /\ Len(calls') = Calls + 1 => Login(i) /\ UNCHANGED <<stage, ws, sock>>
<1> DEFINE cs == Updated(calls, i, "done", <<>>)
<1>1. "done" \in Phases /\ <<>> \in Seq(Piece) /\ calls \in Seq(Call) /\ Calls = Len(calls)
      /\ Calls \in Nat
  BY EmptySeq, LenProperties DEF Phases, LoginInv, Shape, Calls
<1>2. /\ cs \in Seq(Call) /\ Len(cs) = Calls
      /\ cs[i] = [kind |-> calls[i].kind, phase |-> "done", buf |-> <<>>]
  BY <1>1, OneCall
<1>3. \A j \in 1 .. Calls : j # i => cs[j] = calls[j]
  BY <1>1, OtherCalls
<1>4. cs = [calls EXCEPT ![i].phase = "done", ![i].buf = <<>>]
  BY DEF Updated
<1> HIDE DEF cs
<1>5. CASE calls' = cs
  <2>1. Ended(i, "done") /\ calls'[i].buf = <<>> /\ Len(calls') = Calls /\ Calls # Calls + 1
    BY <1>1, <1>2, <1>3, <1>5 DEF Ended
  <2>2. /\ sock' \in {sock, "closed"} /\ stage' \in {stage, "ready", "over"}
        /\ ws' \in {ws, "closing"}
    BY <1>4 DEF Settle, HandshakeGoesOn, HandshakeRefused, HandshakeDone, Respond, Rejected, ends
  <2>3. Answered(i, reply)
    BY <1>4 DEF Settle, HandshakeGoesOn, HandshakeRefused, HandshakeDone, Respond, Answered
  <2> QED BY <2>1, <2>2, <2>3
<1>6. CASE Login(i) /\ Accepts(i, reply) /\ HandshakeGoesOn(i, cs)
  <2>1. PICK kind \in Kinds : calls' = Issued(cs, kind)
    BY <1>6 DEF HandshakeGoesOn, Kinds
  <2>2. /\ calls' \in Seq(Call) /\ Len(calls') = Calls + 1
        /\ calls'[Calls + 1] = [kind |-> kind, phase |-> "writing", buf |-> <<>>]
    BY <1>2, <2>1, Begun
  <2>3. \A j \in 1 .. Calls : calls'[j] = cs[j]
    BY <1>2, <2>1, BegunBefore
  <2>4. Ended(i, "done") /\ calls'[i].buf = <<>>
    BY <1>1, <1>2, <1>3, <2>2, <2>3 DEF Ended
  <2>5. UNCHANGED <<out, stage, ws, sock>>
    BY <1>6 DEF HandshakeGoesOn, ends
  <2> QED BY <1>6, <2>4, <2>5 DEF Answered
<1> QED BY <1>4, <1>5, <1>6 DEF Settle, HandshakeRefused, HandshakeDone, Respond, Login

(* The oldest read is taken off the queue: no other read is its call's.    *)
LEMMA QueueFacts ==
  ASSUME LoginInv, requests # <<>>
  PROVE  /\ Head(requests) = requests[1] /\ requests[1] \in 1 .. Calls
         /\ Len(requests) \in Nat \ {0} /\ Len(Tail(requests)) = Len(requests) - 1
         /\ \A k \in 1 .. Len(Tail(requests)) : Tail(requests)[k] = requests[k + 1]
         /\ Tail(requests) # <<>> <=> Len(requests) > 1
<1>1. requests \in Seq(Nat) /\ Len(requests) \in Nat /\ Len(requests) # 0
  BY LenProperties, EmptySeq DEF LoginInv, Shape, Pending
<1>2. /\ Head(requests) = requests[1] /\ Tail(requests) \in Seq(Nat)
      /\ Len(Tail(requests)) = Len(requests) - 1
      /\ \A k \in 1 .. Len(Tail(requests)) : Tail(requests)[k] = requests[k + 1]
  BY <1>1, HeadTailProperties
<1>3. requests[1] \in 1 .. Calls
  BY <1>1 DEF LoginInv, Shape, Pending
<1>4. Tail(requests) # <<>> <=> Len(Tail(requests)) # 0
  BY <1>2, EmptySeq
<1> QED BY <1>1, <1>2, <1>3, <1>4

LEMMA QueuePopped ==
  ASSUME LoginInv, Queue, NEW ph, requests # <<>>, Ended(requests[1], ph),
         requests' = Tail(requests)
  PROVE  Queue'
<1>1. /\ requests[1] \in 1 .. Calls /\ Len(requests) \in Nat \ {0}
      /\ Len(requests') = Len(requests) - 1
      /\ \A k \in 1 .. Len(requests') : requests'[k] = requests[k + 1]
  BY QueueFacts
<1>2. ASSUME NEW k \in 1 .. Len(requests')
      PROVE  calls'[requests'[k]].phase \in {"reading", "abandoned"}
  <2>1. k + 1 \in 1 .. Len(requests) /\ k + 1 # 1 /\ 1 \in 1 .. Len(requests)
    BY <1>1
  <2>2. requests[k + 1] \in 1 .. Calls /\ requests[k + 1] # requests[1]
    BY <2>1 DEF Queue, LoginInv, Shape, Pending
  <2>3. calls'[requests[k + 1]] = calls[requests[k + 1]]
    BY <2>2 DEF Ended
  <2> QED BY <1>1, <2>1, <2>3 DEF Queue
<1>3. ASSUME NEW j \in 1 .. Len(requests'), NEW k \in 1 .. Len(requests'),
             requests'[j] = requests'[k]
      PROVE  j = k
  <2>1. j + 1 \in 1 .. Len(requests) /\ k + 1 \in 1 .. Len(requests)
    BY <1>1
  <2>2. j + 1 = k + 1
    BY <1>1, <1>3, <2>1 DEF Queue
  <2> QED BY <2>2
<1> QED BY <1>2, <1>3 DEF Queue

(* A read is put at the end of the queue.                                  *)
LEMMA QueueAppended ==
  ASSUME LoginInv, NEW q \in Seq(Nat), NEW i \in 1 .. Calls,
         \A k \in 1 .. Len(q) : q[k] # i /\ q[k] \in 1 .. Calls,
         \A j, k \in 1 .. Len(q) : q[j] = q[k] => j = k,
         requests' = Append(q, i), calls'[i].phase \in {"reading", "abandoned"},
         \A k \in 1 .. Len(q) : calls'[q[k]].phase \in {"reading", "abandoned"}
  PROVE  Queue'
<1>1. Len(q) \in Nat /\ i \in Nat
  BY LenProperties
<1>2. /\ Len(requests') = Len(q) + 1 /\ requests'[Len(q) + 1] = i
      /\ \A k \in 1 .. Len(q) : requests'[k] = q[k]
  BY <1>1, AppendProperties
<1>3. \A k \in 1 .. Len(requests') : k \in 1 .. Len(q) \/ k = Len(q) + 1
  BY <1>1, <1>2
<1>4. ASSUME NEW j \in 1 .. Len(requests'), NEW k \in 1 .. Len(requests'),
             requests'[j] = requests'[k]
      PROVE  j = k
  <2>1. CASE j = Len(q) + 1 /\ k = Len(q) + 1
    BY <2>1
  <2>2. CASE j = Len(q) + 1 /\ k \in 1 .. Len(q)
    BY <1>2, <1>4, <2>2
  <2>3. CASE k = Len(q) + 1 /\ j \in 1 .. Len(q)
    BY <1>2, <1>4, <2>3
  <2>4. CASE j \in 1 .. Len(q) /\ k \in 1 .. Len(q)
    BY <1>2, <1>4, <2>4
  <2> QED BY <1>3, <2>1, <2>2, <2>3, <2>4
<1> QED BY <1>2, <1>3, <1>4 DEF Queue

(* Calls begin and change, but none with a read in the queue.              *)
LEMMA QueueKept ==
  ASSUME LoginInv, Queue, requests' = requests,
         \A j \in 1 .. Calls :
           calls'[j].phase = calls[j].phase
           \/ calls[j].phase \notin {"reading", "abandoned"}
           \/ calls'[j].phase \in {"reading", "abandoned"}
  PROVE  Queue'
<1>1. \A k \in 1 .. Len(requests) : requests[k] \in 1 .. Calls
  BY DEF LoginInv, Shape, Pending
<1> QED BY <1>1 DEF Queue

-----------------------------------------------------------------------------
(* What a chunk or the end of the stream does to the types.                *)
LEMMA PlainEnds ==
  ASSUME LoginInv, Plain, Len(calls') \in {Calls, Calls + 1},
         UNCHANGED <<mode, answered, authTimer, login>>,
         stage' \in {stage, "ready", "over"}, ws' \in {ws, "closing"},
         sock' \in {sock, "closed"}, out' \in Seq(Response)
  PROVE  Plain'
<1>1. Calls \in Nat /\ answered \in Nat
  BY LenProperties DEF LoginInv, Shape, Calls
<1>2. answered' <= Calls'
  BY <1>1 DEF Plain, Calls
<1> QED BY <1>2 DEF Plain

LEMMA AnsweredType ==
  ASSUME LoginInv, Plain, NEW i \in 1 .. Calls, NEW reply \in Seq(Piece), Answered(i, reply)
  PROVE  out' \in Seq(Response)
<1>1. [call |-> i, reply |-> reply] \in Response
  BY DEF Response
<1>2. Append(out, [call |-> i, reply |-> reply]) \in Seq(Response)
  BY <1>1, AppendProperties DEF Plain
<1> QED BY <1>2 DEF Answered, Plain

(* The three ways a chunk ends a call, or the end of the stream does.      *)
LEMMA TypedSettle ==
  ASSUME LoginInv, Typed, requests # <<>>, NEW reply \in Seq(Piece),
         Settle(requests[1], reply), requests' = Tail(requests),
         UNCHANGED <<mode, answered, authTimer, login>>
  PROVE  Typed'
<1>1. requests[1] \in 1 .. Calls
  BY QueueFacts
<1>2. /\ Ended(requests[1], "done") /\ Answered(requests[1], reply)
      /\ sock' \in {sock, "closed"} /\ stage' \in {stage, "ready", "over"}
      /\ ws' \in {ws, "closing"}
  BY <1>1, SettleEnds
<1>3. out' \in Seq(Response)
  BY <1>1, <1>2, AnsweredType DEF Typed
<1>4. Plain'
  BY <1>2, <1>3, PlainEnds DEF Ended, Typed
<1>5. Queue'
  BY <1>2, QueuePopped DEF Typed
<1> QED BY <1>4, <1>5 DEF Typed

LEMMA TypedFail ==
  ASSUME LoginInv, Typed, requests # <<>>, Fail(requests[1], "failed"),
         requests' = Tail(requests), UNCHANGED <<mode, answered, authTimer, login>>
  PROVE  Typed'
<1>1. requests[1] \in 1 .. Calls
  BY QueueFacts
<1>2. /\ Ended(requests[1], "failed") /\ UNCHANGED <<sock, out>>
      /\ stage' \in {stage, "over"} /\ ws' \in {ws, "closing"}
  BY <1>1, FailEnds
<1>3. Plain'
  BY <1>2, PlainEnds DEF Ended, Typed, Plain
<1>4. Queue'
  BY <1>2, QueuePopped DEF Typed
<1> QED BY <1>3, <1>4 DEF Typed

(* The read of a timed-out call ends.                                      *)
LEMMA DiscardEnds ==
  ASSUME LoginInv, NEW i \in 1 .. Calls, Discard(i)
  PROVE  /\ Ended(i, "failed") /\ Len(calls') = Calls /\ calls'[i].buf = calls[i].buf
         /\ UNCHANGED <<stage, ws, sock, out>>
<1>1. /\ calls' = [calls EXCEPT ![i].phase = "failed"] /\ UNCHANGED <<stage, ws, sock, out>>
  BY DEF Discard, ends
<1>2. /\ calls \in Seq(Call) /\ calls[i] \in Call /\ Calls \in Nat
      /\ "failed" \in Phases
  BY ElementOfSeq, LenProperties DEF LoginInv, Shape, Calls, Phases
<1>3. calls' = Updated(calls, i, "failed", calls[i].buf) /\ calls[i].buf \in Seq(Piece)
  BY <1>1, <1>2 DEF Updated, Call, Calls
<1>4. /\ SameKinds
      /\ calls'[i] = [kind |-> calls[i].kind, phase |-> "failed", buf |-> calls[i].buf]
      /\ \A j \in 1 .. Calls : j # i => calls'[j] = calls[j]
  BY <1>2, <1>3, CallUpdated
<1>5. calls' \in Seq(Call) /\ Len(calls') = Calls /\ Calls # Calls + 1
  BY <1>2, <1>4 DEF SameKinds
<1>6. calls'[i].phase = "failed" /\ calls'[i].buf = calls[i].buf
  BY <1>4
<1> QED BY <1>1, <1>4, <1>5, <1>6 DEF Ended

(* A read goes on: the call keeps its phase, with more in its buffer.      *)
LEMMA ReadOnCall ==
  ASSUME LoginInv, NEW i \in 1 .. Calls, NEW b \in Seq(Piece), ReadOn(i, b)
  PROVE  /\ SameKinds /\ \A j \in 1 .. Calls : j # i => calls'[j] = calls[j]
         /\ calls[i].phase = "reading" /\ calls'[i].phase = "reading" /\ calls'[i].buf = b
         /\ UNCHANGED <<stage, ws, sock, out>>
<1>1. calls[i].phase = "reading" /\ calls' = [calls EXCEPT ![i].buf = b]
      /\ UNCHANGED <<stage, ws, sock, out>>
  BY DEF ReadOn, ends
<1>2. calls \in Seq(Call) /\ calls[i] \in Call /\ "reading" \in Phases
  BY ElementOfSeq DEF LoginInv, Shape, Calls, Phases
<1>3. calls' = Updated(calls, i, "reading", b)
  BY <1>1, <1>2 DEF Updated, Call, Calls
<1>4. /\ SameKinds
      /\ calls'[i] = [kind |-> calls[i].kind, phase |-> "reading", buf |-> b]
      /\ \A j \in 1 .. Calls : j # i => calls'[j] = calls[j]
  BY <1>2, <1>3, CallUpdated
<1>5. calls'[i].phase = "reading" /\ calls'[i].buf = b
  BY <1>4
<1> QED BY <1>1, <1>4, <1>5

LEMMA TypedChunk ==
  ASSUME LoginInv, Typed, NEW n, Chunk(n)
  PROVE  Typed'
<1> DEFINE i == requests[1]
           b == calls[i].buf \o SubSeq(stream, 1, n)
<1>1. /\ requests # <<>> /\ n \in 1 .. Len(stream) /\ i = Head(requests)
      /\ i \in 1 .. Calls /\ UNCHANGED <<mode, answered, authTimer, login>>
      /\ Discard(i) \/ TooLarge(i, b) \/ Finish(i, b) \/ ReadOn(i, b) \/ DeadlinePassed(i, b)
  BY QueueFacts DEF Chunk, server, entry
<1>2. b \in Seq(Piece)
  BY <1>1, ChunkFacts
<1>3. CASE Discard(i)
  <2>1. /\ Ended(i, "failed") /\ UNCHANGED <<stage, ws, sock, out>>
        /\ requests' = Tail(requests)
    BY <1>1, <1>3, DiscardEnds DEF Discard
  <2>2. Plain'
    BY <1>1, <2>1, PlainEnds DEF Ended, Typed, Plain
  <2>3. Queue'
    BY <1>1, <2>1, QueuePopped DEF Typed
  <2> QED BY <2>2, <2>3 DEF Typed
<1>4. CASE TooLarge(i, b)
  BY <1>1, <1>4, TypedFail DEF TooLarge
<1>5. CASE Finish(i, b)
  <2>1. FirstValue(b) \in Seq(Piece)
    BY <1>2, FirstValueProperties
  <2> QED BY <1>1, <1>5, <2>1, TypedSettle DEF Finish
<1>6. CASE DeadlinePassed(i, b)
  BY <1>1, <1>2, <1>6, TypedSettle DEF DeadlinePassed
<1>7. CASE ReadOn(i, b)
  <2> HIDE DEF b
  <2>1. /\ SameKinds /\ \A j \in 1 .. Calls : j # i => calls'[j] = calls[j]
        /\ calls'[i].phase = "reading" /\ UNCHANGED <<stage, ws, sock, out>>
    BY <1>1, <1>2, <1>7, ReadOnCall
  <2>2. Plain'
    BY <1>1, <2>1, PlainEnds DEF SameKinds, Typed, Plain, Calls
  <2> DEFINE q == Tail(requests)
  <2>3. /\ Len(requests) \in Nat \ {0} /\ Len(q) = Len(requests) - 1
        /\ \A k \in 1 .. Len(q) : q[k] = requests[k + 1]
    BY <1>1, QueueFacts
  <2>4. q \in Seq(Nat) /\ requests' = Append(q, i)
    BY <1>1, <1>7, HeadTailProperties DEF ReadOn, LoginInv, Shape, Pending
  <2> HIDE DEF q
  <2>5. ASSUME NEW k \in 1 .. Len(q)
        PROVE  q[k] # i /\ q[k] \in 1 .. Calls /\ calls'[q[k]].phase \in {"reading", "abandoned"}
    <3>1. k + 1 \in 1 .. Len(requests) /\ 1 \in 1 .. Len(requests) /\ k + 1 # 1
      BY <2>3
    <3>2. requests[k + 1] # i /\ requests[k + 1] \in 1 .. Calls
      BY <3>1 DEF Typed, Queue, LoginInv, Shape, Pending
    <3>3. calls[requests[k + 1]].phase \in {"reading", "abandoned"}
      BY <3>1 DEF Typed, Queue
    <3> QED BY <2>1, <2>3, <3>2, <3>3
  <2>6. ASSUME NEW j \in 1 .. Len(q), NEW k \in 1 .. Len(q), q[j] = q[k]
        PROVE  j = k
    <3>1. j + 1 \in 1 .. Len(requests) /\ k + 1 \in 1 .. Len(requests)
      BY <2>3
    <3>2. j + 1 = k + 1
      BY <2>3, <2>6, <3>1 DEF Typed, Queue
    <3> QED BY <3>2
  <2>7. Queue'
    BY <1>1, <2>1, <2>4, <2>5, <2>6, QueueAppended
  <2> QED BY <2>2, <2>7 DEF Typed
<1> QED BY <1>1, <1>3, <1>4, <1>5, <1>6, <1>7

LEMMA TypedEndOfStream ==
  ASSUME LoginInv, Typed, EndOfStream
  PROVE  Typed'
<1> DEFINE i == requests[1]
<1>1. /\ requests # <<>> /\ requests' = Tail(requests) /\ i \in 1 .. Calls
      /\ UNCHANGED <<mode, answered, authTimer, login>>
      /\ Settle(i, calls[i].buf) \/ Fail(i, "failed")
  BY QueueFacts DEF EndOfStream, server, entry
<1>2. calls[i] \in Call
  BY <1>1, ElementOfSeq DEF LoginInv, Shape, Calls
<1>3. calls[i].buf \in Seq(Piece)
  BY <1>2 DEF Call
<1> QED BY <1>1, <1>3, TypedSettle, TypedFail

(* A read is late, or a write fails.                                       *)
LEMMA TypedFailing ==
  ASSUME LoginInv, Typed, NEW i \in 1 .. Len(calls), ReadTimeout(i) \/ WriteFails(i)
  PROVE  Typed'
<1>1. PICK ph \in {"abandoned", "failed"} :
        /\ Fail(i, ph) /\ requests' = requests
        /\ calls[i].phase \in {"reading", "abandoned"} => ph = "abandoned"
        /\ UNCHANGED <<mode, answered, authTimer, login>>
  BY DEF ReadTimeout, AfterTimeout, WriteFails, NextWrite, io, server, entry
<1>2. i \in 1 .. Calls
  BY DEF Calls
<1>3. /\ Ended(i, ph) /\ UNCHANGED <<sock, out>>
      /\ stage' \in {stage, "over"} /\ ws' \in {ws, "closing"}
  BY <1>1, <1>2, FailEnds
<1>4. Plain'
  BY <1>1, <1>3, PlainEnds DEF Ended, Typed, Plain
<1>5. ASSUME NEW j \in 1 .. Calls
      PROVE  \/ calls'[j].phase = calls[j].phase
             \/ calls[j].phase \notin {"reading", "abandoned"}
             \/ calls'[j].phase \in {"reading", "abandoned"}
  BY <1>1, <1>3 DEF Ended
<1>6. Queue'
  BY <1>1, <1>5, QueueKept DEF Typed
<1> QED BY <1>4, <1>6 DEF Typed

(* A written call begins to read: it had no read before.                   *)
LEMMA WrittenCall ==
  ASSUME LoginInv, NEW i \in 1 .. Len(calls), WriteDone(i)
  PROVE  /\ SameKinds /\ \A j \in 1 .. Calls : j # i => calls'[j] = calls[j]
         /\ calls'[i].phase = "reading" /\ calls'[i].buf = calls[i].buf
         /\ i \in 1 .. Calls /\ calls[i].phase = "writing"
<1>1. calls[i].phase = "writing" /\ calls' = [calls EXCEPT ![i].phase = "reading"]
  BY DEF WriteDone, NextWrite
<1>2. /\ calls \in Seq(Call) /\ calls[i] \in Call /\ i \in 1 .. Calls
      /\ "reading" \in Phases
  BY ElementOfSeq DEF LoginInv, Shape, Calls, Phases
<1>3. calls' = Updated(calls, i, "reading", calls[i].buf) /\ calls[i].buf \in Seq(Piece)
  BY <1>1, <1>2 DEF Updated, Call
<1>4. /\ SameKinds
      /\ calls'[i] = [kind |-> calls[i].kind, phase |-> "reading", buf |-> calls[i].buf]
      /\ \A j \in 1 .. Calls : j # i => calls'[j] = calls[j]
  BY <1>2, <1>3, CallUpdated
<1>5. calls'[i].phase = "reading" /\ calls'[i].buf = calls[i].buf
  BY <1>4
<1> QED BY <1>1, <1>2, <1>4, <1>5

LEMMA TypedWriteDone ==
  ASSUME LoginInv, Typed, NEW i \in 1 .. Len(calls), WriteDone(i)
  PROVE  Typed'
<1>1. /\ SameKinds /\ \A j \in 1 .. Calls : j # i => calls'[j] = calls[j]
      /\ calls'[i].phase = "reading" /\ i \in 1 .. Calls /\ calls[i].phase = "writing"
  BY WrittenCall
<1>2. /\ requests' = Append(requests, i)
      /\ UNCHANGED <<mode, answered, authTimer, login, stage, ws, sock, out>>
  BY DEF WriteDone, ends, entry, server
<1>3. Plain'
  BY <1>1, <1>2, PlainEnds DEF SameKinds, Typed, Plain, Calls
<1>4. \A k \in 1 .. Len(requests) :
        /\ requests[k] \in 1 .. Calls
        /\ calls[requests[k]].phase \in {"reading", "abandoned"}
  BY DEF Typed, Queue, LoginInv, Shape, Pending
<1>5. \A k \in 1 .. Len(requests) :
        requests[k] # i /\ calls'[requests[k]].phase \in {"reading", "abandoned"}
  BY <1>1, <1>4
<1>6. Queue'
  BY <1>1, <1>2, <1>4, <1>5, QueueAppended DEF Typed, Queue, LoginInv, Shape, Pending
<1> QED BY <1>3, <1>6 DEF Typed

(* A call begins.                                                          *)
LEMMA TypedBegun ==
  ASSUME LoginInv, Typed, Opened \/ Command
  PROVE  Typed'
<1>1. PICK kind \in Kinds : calls' = Issued(calls, kind)
  BY DEF Opened, Command, Kinds
<1>2. calls \in Seq(Call) /\ Calls \in Nat /\ Calls = Len(calls) /\ answered <= Calls
  BY LenProperties DEF LoginInv, Shape, Calls, Typed, Plain
<1>3. Len(calls') = Calls + 1 /\ \A j \in 1 .. Calls : calls'[j] = calls[j]
  BY <1>1, <1>2, Begun, BegunBefore
<1>4. /\ UNCHANGED <<mode, ws, out, authTimer, login, requests, answered>>
      /\ stage' \in {stage, "handshake"} /\ sock' \in {sock, "open"}
  BY DEF Opened, Command, ends, entry, io, server
<1>5. answered' <= Calls'
  BY <1>2, <1>3, <1>4 DEF LoginInv, Shape, Calls
<1>6. Plain'
  BY <1>4, <1>5 DEF Typed, Plain
<1>7. Queue'
  BY <1>3, <1>4, QueueKept DEF Typed
<1> QED BY <1>6, <1>7 DEF Typed

(* The close event of a ready session.                                     *)
LEMMA TypedRelease ==
  ASSUME LoginInv, Typed, WsClosed, stage = "ready"
  PROVE  Typed'
<1>1. /\ UNCHANGED <<mode, login, out, answered>> /\ requests' = <<>>
      /\ ws' = "closed" /\ sock' = "closed" /\ stage' = "over"
      /\ authTimer' \in {authTimer, "cleared"}
  BY DEF WsClosed, Released, server
<1>2. Calls' = Calls
  <2> DEFINE c(i) == IF Unsettled(calls[i]) \/ calls[i].phase = "abandoned"
                     THEN [calls[i] EXCEPT !.phase = "failed", !.buf = <<>>]
                     ELSE calls[i]
  <2>1. calls' = [i \in 1 .. Len(calls) |-> c(i)]
    BY DEF WsClosed
  <2> HIDE DEF c
  <2>2. calls' \in Seq(Call) /\ Len(calls) \in Nat
    <3>1. LoginInv'
      BY ReleaseStep
    <3> QED BY <3>1, LenProperties DEF LoginInv, Shape
  <2>3. Len(calls') \in Nat /\ DOMAIN calls' = 1 .. Len(calls')
    BY <2>2, LenProperties
  <2>4. 1 .. Len(calls') = 1 .. Len(calls)
    BY <2>1, <2>3
  <2> QED BY <2>2, <2>3, <2>4 DEF Calls
<1>3. Plain'
  BY <1>1, <1>2 DEF Typed, Plain
<1>4. Queue'
  BY <1>1, EmptySeq DEF Queue
<1> QED BY <1>3, <1>4 DEF Typed

(* The server answers, or a step touches neither calls nor reads.          *)
LEMMA TypedQuiet ==
  ASSUME LoginInv, Typed, UNCHANGED <<mode, calls, requests, out>>,
         answered' = answered \/ (answered < Calls /\ answered' = answered + 1),
         stage' \in {stage, "connecting", "over"}, ws' \in {ws, "closing", "closed"},
         sock' \in {sock, "opening", "open", "lost"},
         authTimer' \in {authTimer, "cleared", "fired"},
         login' \in [password : BOOLEAN, database : BOOLEAN]
  PROVE  Typed'
<1>1. Calls \in Nat /\ answered \in Nat /\ Calls' = Calls
  BY LenProperties DEF LoginInv, Shape, Calls
<1>2. answered' <= Calls'
  BY <1>1 DEF Typed, Plain
<1>3. Plain'
  BY <1>2 DEF Typed, Plain
<1>4. Queue'
  BY QueueKept DEF Typed
<1> QED BY <1>3, <1>4 DEF Typed

LEMMA NextTyped ==
  ASSUME LoginInv, Typed, [Next]_vars
  PROVE  Typed'
<1> DEFINE Logins == [password : BOOLEAN, database : BOOLEAN]
<1>0. login \in Logins
  BY DEF Typed, Plain
<1>1. CASE AuthTimeout
  <2>1. /\ UNCHANGED <<mode, calls, requests, out, answered, stage, sock, login>>
        /\ ws' = "closing" /\ authTimer' = "fired"
    BY <1>1 DEF AuthTimeout, io, server
  <2> QED BY <1>0, <2>1, TypedQuiet
<1>2. ASSUME NEW password \in BOOLEAN, NEW database \in BOOLEAN, AuthMessage(password, database)
      PROVE  Typed'
  <2>1. [password |-> password, database |-> database] \in Logins
    OBVIOUS
  <2>2. /\ UNCHANGED <<mode, calls, requests, out, answered, ws>>
        /\ stage' = "connecting" /\ sock' = "opening"
        /\ authTimer' \in {authTimer, "cleared"} /\ login' \in Logins
    BY <1>2, <2>1 DEF AuthMessage, io, server
  <2> QED BY <2>2, TypedQuiet
<1>3. CASE Opened \/ Command
  BY <1>3, TypedBegun
<1>4. CASE ConnectRefused \/ ConnectTimeout
  <2>1. /\ UNCHANGED <<mode, calls, requests, out, answered, authTimer, login>>
        /\ stage' = "over" /\ ws' \in {ws, "closing"} /\ sock' \in {sock, "lost"}
    BY <1>4 DEF ConnectRefused, ConnectTimeout, io, server, entry, Rejected
  <2> QED BY <1>0, <2>1, TypedQuiet
<1>5. CASE OpensLate \/ ConnectionLost
  <2>1. /\ UNCHANGED <<mode, calls, requests, out, answered, authTimer, login, stage, ws>>
        /\ sock' \in {"open", "lost"}
    BY <1>5 DEF OpensLate, ConnectionLost, io, server, entry
  <2> QED BY <1>0, <2>1, TypedQuiet
<1>6. CASE \E i \in 1 .. Len(calls) : WriteDone(i) \/ WriteFails(i) \/ ReadTimeout(i)
  BY <1>6, TypedWriteDone, TypedFailing
<1>7. CASE \E n \in 1 .. Len(stream) : Chunk(n)
  BY <1>7, TypedChunk
<1>8. CASE EndOfStream
  BY <1>8, TypedEndOfStream
<1>9. CASE WsClosed
  <2>1. CASE stage = "ready"
    BY <1>9, <2>1, TypedRelease
  <2>2. CASE stage # "ready"
    <3>1. /\ UNCHANGED <<mode, calls, requests, out, answered, login, sock>>
          /\ stage' \in {stage, "over"} /\ ws' = "closed"
          /\ authTimer' \in {authTimer, "cleared"}
      BY <1>9, <2>2 DEF WsClosed, server
    <3> QED BY <1>0, <3>1, TypedQuiet
  <2> QED BY <2>1, <2>2
<1>10. CASE \E n \in 1 .. MaxPieces, ok \in BOOLEAN : ServerAnswers(n, ok)
  <2>1. /\ UNCHANGED <<mode, calls, requests, out, authTimer, login, stage, ws, sock>>
        /\ answered < Calls /\ answered' = answered + 1
    BY <1>10 DEF ServerAnswers, ends, entry, Calls
  <2> QED BY <1>0, <2>1, TypedQuiet
<1>11. CASE Over \/ UNCHANGED vars
  <2>1. UNCHANGED <<mode, calls, requests, out, answered, authTimer, login, stage, ws, sock>>
    BY <1>11 DEF Over, vars, ends, entry, io, server
  <2> QED BY <1>0, <2>1, TypedQuiet
<1> QED BY <1>1, <1>2, <1>3, <1>4, <1>5, <1>6, <1>7, <1>8, <1>9, <1>10, <1>11 DEF Next

LEMMA InitTyped == Init => Typed
<1> SUFFICES ASSUME Init PROVE Typed
  OBVIOUS
<1>1. \A S : <<>> \in Seq(S) /\ Len(<<>>) = 0
  BY EmptySeq
<1>2. Plain
  BY <1>1 DEF Init, Plain, Calls
<1>3. Queue
  BY <1>1 DEF Init, Queue
<1> QED BY <1>2, <1>3 DEF Typed

THEOREM TypedInvariance == Spec => []Typed
<1>1. LoginInv /\ Typed /\ [Next]_vars => Typed'
  BY NextTyped
<1> QED BY <1>1, InitTyped, LoginInvariance, PTL DEF Spec

(* Every variable keeps its type: a pending read is that of a call which   *)
(* is being read or has timed out, and a response is made of pieces.       *)
THEOREM TypeCorrect == Spec => []TypeOK
<1>1. LoginInv /\ Typed => TypeOK
  BY TypedIsTypeOK DEF LoginInv
<1> QED BY <1>1, LoginInvariance, TypedInvariance, PTL

-----------------------------------------------------------------------------
(***************************************************************************)
(* What the browser is sent                                                *)
(***************************************************************************)

(* A response is sent by the oldest read only, with what it has read.      *)
LEMMA OutputStep ==
  ASSUME LoginInv, Typed, Next, out' # out
  PROVE  /\ requests # <<>> /\ requests[1] \in 1 .. Calls
         /\ calls[requests[1]].phase = "reading"
         /\ \E reply \in Seq(Piece) :
              /\ out' = Append(out, [call |-> requests[1], reply |-> reply])
              /\ \/ sock = "lost" /\ reply = calls[requests[1]].buf
                 \/ \E n \in 1 .. Len(stream) :
                      LET b == calls[requests[1]].buf \o SubSeq(stream, 1, n)
                      IN  /\ b \in Seq(Piece) /\ (mode.split \/ stream[n].last)
                          /\ \/ Complete(b) /\ reply = FirstValue(b)
                             \/ mode.late /\ ~Complete(b)
<1> DEFINE i == requests[1]
<1>1. (\E n \in 1 .. Len(stream) : Chunk(n)) \/ EndOfStream
  BY DEF Next, AuthTimeout, AuthMessage, Opened, ConnectRefused, ConnectTimeout, OpensLate,
         Command, WriteDone, WriteFails, ReadTimeout, Fail, WsClosed, ServerAnswers,
         ConnectionLost, Over, vars
<1>2. requests # <<>>
  BY <1>1 DEF Chunk, EndOfStream
<1>3. i = Head(requests) /\ i \in 1 .. Calls
  BY <1>2, QueueFacts
<1>4. ASSUME EndOfStream
      PROVE  /\ sock = "lost" /\ calls[i].phase = "reading" /\ Settle(i, calls[i].buf)
             /\ calls[i].buf \in Seq(Piece)
  <2>1. sock = "lost" /\ calls[i].phase = "reading" /\ Settle(i, calls[i].buf)
    BY <1>3, <1>4 DEF EndOfStream, Fail
  <2>2. calls[i] \in Call
    BY <1>3, ElementOfSeq DEF LoginInv, Shape, Calls
  <2> QED BY <2>1, <2>2 DEF Call
<1>5. CASE EndOfStream
  <2>1. out' = Append(out, [call |-> i, reply |-> calls[i].buf])
    BY <1>3, <1>4, <1>5, SettleEnds DEF Answered
  <2> QED BY <1>2, <1>3, <1>4, <1>5, <2>1
<1>6. CASE \E n \in 1 .. Len(stream) : Chunk(n)
  <2>1. PICK n \in 1 .. Len(stream) : Chunk(n)
    BY <1>6
  <2> DEFINE b == calls[i].buf \o SubSeq(stream, 1, n)
  <2>2. b \in Seq(Piece)
    BY <1>2, <1>3, ChunkFacts
  <2>3. (mode.split \/ stream[n].last) /\ (Finish(i, b) \/ DeadlinePassed(i, b))
    BY <1>3, <2>1 DEF Chunk, Discard, TooLarge, ReadOn, Fail
  <2>4. FirstValue(b) \in Seq(Piece)
    BY <2>2, FirstValueProperties
  <2> HIDE DEF b
  <2>5. CASE Finish(i, b)
    <3>1. /\ calls[i].phase = "reading" /\ Complete(b) /\ Settle(i, FirstValue(b))
      BY <2>5 DEF Finish, IsComplete
    <3>2. out' = Append(out, [call |-> i, reply |-> FirstValue(b)])
      BY <1>3, <3>1, SettleEnds DEF Answered
    <3> QED BY <1>2, <1>3, <2>2, <2>3, <2>4, <3>1, <3>2 DEF b
  <2>6. CASE DeadlinePassed(i, b)
    <3>1. /\ calls[i].phase = "reading" /\ mode.late /\ ~Complete(b) /\ Settle(i, b)
      BY <2>6 DEF DeadlinePassed, IsComplete
    <3>2. out' = Append(out, [call |-> i, reply |-> b])
      BY <1>3, <3>1, SettleEnds DEF Answered
    <3> QED BY <1>2, <1>3, <2>2, <2>3, <3>1, <3>2 DEF b
  <2> QED BY <2>3, <2>5, <2>6
<1> QED BY <1>1, <1>5, <1>6

(* A response is a whole reply as long as the connection stands and its    *)
(* read was in time, whatever chunks the reply came in.                    *)
THEOREM ResponsesComplete == Spec => RepliesComplete
<1>1. ASSUME LoginInv, Typed, [Next]_vars, sock = "open", ~mode.late, out' # out
      PROVE  out'[Len(out')].reply # <<>> /\ Complete(out'[Len(out')].reply)
  <2>1. Next
    BY <1>1 DEF vars
  <2>2. PICK reply \in Seq(Piece), b \in Seq(Piece) :
          /\ out' = Append(out, [call |-> requests[1], reply |-> reply])
          /\ Complete(b) /\ reply = FirstValue(b) /\ requests[1] \in 1 .. Calls
    BY <1>1, <2>1, OutputStep
  <2>3. reply # <<>> /\ Complete(reply)
    BY <2>2, FirstValueProperties
  <2>4. out \in Seq(Response) /\ [call |-> requests[1], reply |-> reply] \in Response
    BY <1>1, <2>2 DEF Typed, Plain, Response
  <2>5. /\ Len(out') = Len(out) + 1
        /\ out'[Len(out) + 1] = [call |-> requests[1], reply |-> reply]
    BY <2>2, <2>4, AppendProperties
  <2> QED BY <2>3, <2>5
<1>2. LoginInv /\ Typed /\ [Next]_vars =>
        [sock = "open" /\ ~mode.late /\ out' # out =>
           LET reply == out'[Len(out')].reply IN reply # <<>> /\ Complete(reply)]_vars
  BY <1>1
<1> QED BY <1>2, LoginInvariance, TypedInvariance, PTL DEF Spec, RepliesComplete

-----------------------------------------------------------------------------
(***************************************************************************)
(* Replies to commands sent in turn                                        *)
(*                                                                         *)
(* Calls are numbered in the order of their writes, and so are the replies *)
(* to them.  If the browser waits for each answer, one call is under way,  *)
(* the last, and the reads in the queue are those of consecutive calls:    *)
(* the timed-out ones, then the one under way.  Each read takes at least   *)
(* the end of one reply, so when a read is the oldest nothing is on the    *)
(* way that answers an earlier call; and nothing can answer a later one,   *)
(* since the call under way is the last.                                   *)
(***************************************************************************)

TurnMode == ~mode.pipelined /\ ~(mode.late /\ mode.split) /\ mode.bufferMax >= MaxPieces

(* How many calls have been written. *)
Written == IF calls # <<>> /\ calls[Calls].phase = "writing" THEN Calls - 1 ELSE Calls

(* The first call that can still be answered. *)
Due == IF requests # <<>> THEN requests[1] ELSE Written + 1

(* What the oldest read has and what will follow. *)
OnWire == IF requests # <<>> THEN calls[requests[1]].buf \o stream ELSE stream

(* Replies to the calls up to a, in the order of the calls, the last of    *)
(* them to its end.                                                        *)
Replies(s, a) ==
  /\ s # <<>> => s[Len(s)].last
  /\ \A k \in 1 .. Len(s) : s[k].call <= a
  /\ \A j, k \in 1 .. Len(s) : j < k /\ s[j].last => s[j].call < s[k].call
  /\ \A j, k \in 1 .. Len(s) : s[j].call = s[k].call => k - j < MaxPieces

OneAtATime == \A i \in 1 .. Calls : Unsettled(calls[i]) => i = Calls

InOrder ==
  /\ \A k \in 1 .. Len(requests) : requests[k] = requests[1] + k - 1
  /\ sock = "open" /\ requests # <<>> => requests[Len(requests)] = Written

NoneEarlier ==
  requests # <<>> \/ sock = "open" =>
    /\ \A k \in 1 .. Len(OnWire) : OnWire[k].call >= Due
    /\ sock = "open" => answered + 1 >= Due

(* Only the oldest read has begun a reply, and that it has not all of it.  *)
Buffers ==
  \A i \in 1 .. Calls : calls[i].buf # <<>> =>
    /\ requests # <<>> /\ i = requests[1] /\ calls[i].phase = "reading" /\ ~mode.late
    /\ ~Complete(calls[i].buf)

Turn == OneAtATime /\ InOrder /\ Replies(OnWire, answered) /\ NoneEarlier /\ Buffers

(* Of every session. *)
Early ==
  /\ sock \in {"none", "opening"} => calls = <<>> /\ stream = <<>>
  /\ stage = "ready" => calls # <<>>
  /\ \A i \in 1 .. Calls : calls[i].phase = "abandoned" => mode.late

TurnInv == Early /\ (TurnMode => Turn) /\ RepliesMatchInTurn

(* What the proofs below take for granted.                                 *)
Background == LoginInv /\ Typed /\ Early /\ TurnMode /\ Turn

LEMMA Grounds ==
  ASSUME Background
  PROVE  /\ Calls \in Nat /\ Calls = Len(calls) /\ calls \in Seq(Call) /\ stream \in Seq(Piece)
         /\ answered \in Nat /\ answered <= Calls /\ requests \in Seq(Nat)
         /\ Len(requests) \in Nat
         /\ \A k \in 1 .. Len(requests) :
              requests[k] \in 1 .. Calls /\ calls[requests[k]].phase \in {"reading", "abandoned"}
         /\ \A i \in 1 .. Calls : calls[i] \in Call /\ calls[i].buf \in Seq(Piece)
         /\ calls = <<>> => requests = <<>>
<1>1. /\ Calls \in Nat /\ Calls = Len(calls) /\ calls \in Seq(Call) /\ stream \in Seq(Piece)
      /\ answered \in Nat /\ answered <= Calls /\ requests \in Seq(Nat)
      /\ Len(requests) \in Nat
      /\ \A k \in 1 .. Len(requests) :
           requests[k] \in 1 .. Calls /\ calls[requests[k]].phase \in {"reading", "abandoned"}
  BY LenProperties
     DEF Background, LoginInv, Shape, Pending, Calls, Typed, Plain, Queue
<1>2. ASSUME NEW i \in 1 .. Calls PROVE calls[i] \in Call /\ calls[i].buf \in Seq(Piece)
  <2>1. calls[i] \in Call
    BY <1>1, ElementOfSeq
  <2> QED BY <2>1 DEF Call
<1>3. ASSUME calls = <<>>, requests # <<>> PROVE FALSE
  <2>1. Calls = 0
    BY <1>1, <1>3, EmptySeq
  <2>2. requests[1] \in 1 .. Calls
    BY <1>3, QueueFacts DEF Background
  <2> QED BY <2>1, <2>2
<1> QED BY <1>1, <1>2, <1>3

(* What is on the wire is a sequence of pieces.                            *)
LEMMA WireType ==
  ASSUME Background
  PROVE  OnWire \in Seq(Piece) /\ Len(OnWire) \in Nat
<1>1. CASE requests # <<>>
  <2>1. requests[1] \in 1 .. Calls
    BY <1>1, QueueFacts DEF Background
  <2>2. calls[requests[1]].buf \in Seq(Piece) /\ stream \in Seq(Piece)
    BY <2>1, Grounds
  <2>3. calls[requests[1]].buf \o stream \in Seq(Piece)
    BY <2>2, ConcatProperties
  <2> QED BY <1>1, <2>3, LenProperties DEF OnWire
<1>2. CASE requests = <<>>
  BY <1>2, Grounds, LenProperties DEF OnWire
<1> QED BY <1>1, <1>2

(* What follows the first pieces of some replies is replies.               *)
LEMMA RepliesSuffix ==
  ASSUME NEW b \in Seq(Piece), NEW s \in Seq(Piece), NEW a, Replies(b \o s, a)
  PROVE  Replies(s, a)
<1> DEFINE w == b \o s
<1>1. /\ w \in Seq(Piece) /\ Len(w) = Len(b) + Len(s) /\ Len(b) \in Nat /\ Len(s) \in Nat
      /\ \A j \in 1 .. Len(s) : w[Len(b) + j] = s[j]
  BY Suffix
<1>2. Replies(w, a)
  OBVIOUS
<1> HIDE DEF w
<1>3. ASSUME s # <<>> PROVE s[Len(s)].last
  <2>1. Len(s) # 0
    BY <1>3, EmptySeq
  <2>2. Len(s) \in 1 .. Len(s) /\ w # <<>> /\ w[Len(w)] = s[Len(s)]
    BY <1>1, <2>1, EmptySeq
  <2> QED BY <1>2, <2>2 DEF Replies
<1>4. ASSUME NEW k \in 1 .. Len(s)
      PROVE  Len(b) + k \in 1 .. Len(w) /\ w[Len(b) + k] = s[k]
  BY <1>1
<1>5. \A k \in 1 .. Len(s) : s[k].call <= a
  BY <1>2, <1>4 DEF Replies
<1>6. ASSUME NEW j \in 1 .. Len(s), NEW k \in 1 .. Len(s)
      PROVE  /\ j < k /\ s[j].last => s[j].call < s[k].call
             /\ s[j].call = s[k].call => k - j < MaxPieces
  <2>1. j < k => Len(b) + j < Len(b) + k
    BY <1>1
  <2>2. (Len(b) + k) - (Len(b) + j) = k - j
    BY <1>1
  <2> QED BY <1>2, <1>4, <2>1, <2>2 DEF Replies
<1> QED BY <1>3, <1>5, <1>6 DEF Replies

(* The server's answer to the next call comes after them.                  *)
LEMMA RepliesExtended ==
  ASSUME NEW w \in Seq(Piece), NEW new \in Seq(Piece), NEW a \in Nat, Replies(w, a),
         Len(new) \in 1 .. MaxPieces, Len(new) \in Nat,
         \A k \in 1 .. Len(new) : new[k].call = a + 1 /\ (new[k].last <=> k = Len(new))
  PROVE  Replies(w \o new, a + 1)
<1> DEFINE s == w \o new
<1>1. /\ s \in Seq(Piece) /\ Len(s) = Len(w) + Len(new) /\ Len(w) \in Nat
      /\ \A j \in 1 .. Len(new) : s[Len(w) + j] = new[j]
      /\ \A j \in 1 .. Len(w) : s[j] = w[j]
  BY Suffix
<1>2. MaxPieces \in Nat
  BY BoundsAssumption
<1>3. ASSUME NEW k \in 1 .. Len(w) PROVE w[k].call \in Nat /\ w[k].call <= a
  <2>1. w[k] \in Piece
    BY ElementOfSeq
  <2> QED BY <2>1 DEF Piece, Replies
<1> HIDE DEF s
<1>4. ASSUME NEW k \in 1 .. Len(s), k \notin 1 .. Len(w)
      PROVE  /\ k - Len(w) \in 1 .. Len(new) /\ s[k] = new[k - Len(w)]
             /\ s[k].call = a + 1 /\ (s[k].last <=> k = Len(s))
  <2>1. k - Len(w) \in 1 .. Len(new) /\ Len(w) + (k - Len(w)) = k
    BY <1>1, <1>4
  <2>2. k - Len(w) = Len(new) <=> k = Len(s)
    BY <1>1, <2>1
  <2>3. s[Len(w) + (k - Len(w))] = new[k - Len(w)]
    BY <1>1, <2>1
  <2>4. new[k - Len(w)].call = a + 1 /\ (new[k - Len(w)].last <=> k - Len(w) = Len(new))
    BY <2>1
  <2> QED BY <2>1, <2>2, <2>3, <2>4
<1>5. s[Len(s)].last /\ \A k \in 1 .. Len(s) : s[k].call <= a + 1
  <2>1. Len(s) \in 1 .. Len(s) /\ Len(s) \notin 1 .. Len(w)
    BY <1>1
  <2>2. ASSUME NEW k \in 1 .. Len(s) PROVE s[k].call <= a + 1
    <3>1. CASE k \in 1 .. Len(w)
      BY <1>1, <1>3, <3>1
    <3>2. CASE k \notin 1 .. Len(w)
      BY <1>4, <3>2
    <3> QED BY <3>1, <3>2
  <2> QED BY <1>4, <2>1, <2>2
<1>6. ASSUME NEW j \in 1 .. Len(s), NEW k \in 1 .. Len(s)
      PROVE  /\ j < k /\ s[j].last => s[j].call < s[k].call
             /\ s[j].call = s[k].call => k - j < MaxPieces
  <2>1. CASE j \in 1 .. Len(w) /\ k \in 1 .. Len(w)
    BY <1>1, <2>1 DEF Replies
  <2>2. CASE j \in 1 .. Len(w) /\ k \notin 1 .. Len(w)
    <3>1. s[j].call \in Nat /\ s[j].call <= a /\ s[k].call = a + 1
      BY <1>1, <1>3, <1>4, <2>2
    <3> QED BY <3>1
  <2>3. CASE j \notin 1 .. Len(w) /\ k \in 1 .. Len(w)
    <3>1. s[k].call \in Nat /\ s[k].call <= a /\ s[j].call = a + 1 /\ ~(j < k)
      BY <1>1, <1>3, <1>4, <2>3
    <3> QED BY <3>1
  <2>4. CASE j \notin 1 .. Len(w) /\ k \notin 1 .. Len(w)
    <3>1. /\ j - Len(w) \in 1 .. Len(new) /\ k - Len(w) \in 1 .. Len(new)
          /\ s[j].last <=> j = Len(s)
      BY <1>4, <2>4
    <3> QED BY <1>1, <1>2, <3>1
  <2> QED BY <2>1, <2>2, <2>3, <2>4
<1> QED BY <1>5, <1>6 DEF Replies, s

(* The oldest read is of call Calls, and the only one, if its call is      *)
(* still being read.                                                       *)
LEMMA OldestRead ==
  ASSUME Background, requests # <<>>
  PROVE  /\ requests[1] \in 1 .. Calls /\ Len(requests) \in Nat \ {0}
         /\ OnWire = calls[requests[1]].buf \o stream
         /\ calls[requests[1]].phase = "reading" =>
              requests[1] = Calls /\ Len(requests) = 1
<1>1. requests[1] \in 1 .. Calls /\ Len(requests) \in Nat \ {0}
  BY QueueFacts DEF Background
<1>2. OnWire = calls[requests[1]].buf \o stream
  BY DEF OnWire
<1>3. ASSUME calls[requests[1]].phase = "reading"
      PROVE  requests[1] = Calls /\ Len(requests) = 1
  <2>1. requests[1] = Calls
    BY <1>1, <1>3 DEF Background, Turn, OneAtATime, Unsettled
  <2>2. requests[Len(requests)] = requests[1] + Len(requests) - 1
    BY <1>1 DEF Background, Turn, InOrder
  <2>3. requests[Len(requests)] \in 1 .. Calls /\ Calls \in Nat
    BY <1>1, Grounds
  <2>4. Calls + Len(requests) - 1 <= Calls
    BY <2>1, <2>2, <2>3
  <2> QED BY <1>1, <2>1, <2>3, <2>4
<1> QED BY <1>1, <1>2, <1>3

(* No call, read or piece comes or goes.                                   *)
LEMMA TurnQuiet ==
  ASSUME Background, UNCHANGED <<mode, calls, requests, stream, answered>>,
         sock' = "open" => sock = "open" \/ (calls = <<>> /\ stream = <<>>)
  PROVE  Turn'
<1>1. /\ Calls' = Calls /\ Written' = Written /\ Due' = Due /\ OnWire' = OnWire
      /\ Calls \in Nat /\ answered \in Nat
  BY Grounds DEF Calls, Written, Due, OnWire
<1>2. OneAtATime' /\ Buffers'
  BY <1>1 DEF Background, Turn, OneAtATime, Buffers
<1>3. Replies(OnWire, answered)'
  BY <1>1 DEF Background, Turn, Replies
<1>4. CASE sock' # "open" \/ sock = "open"
  <2>1. InOrder'
    BY <1>1, <1>4 DEF Background, Turn, InOrder
  <2>2. NoneEarlier'
    BY <1>1, <1>4 DEF Background, Turn, NoneEarlier
  <2> QED BY <1>2, <1>3, <2>1, <2>2 DEF Turn
<1>5. CASE calls = <<>> /\ stream = <<>>
  <2>1. requests = <<>> /\ Len(requests) = 0 /\ Written = 0 /\ Due = 1 /\ OnWire = <<>>
    BY <1>5, Grounds, EmptySeq DEF Written, Due, OnWire, Calls
  <2>2. InOrder'
    BY <2>1 DEF InOrder
  <2>3. NoneEarlier'
    BY <1>1, <2>1, EmptySeq DEF NoneEarlier
  <2> QED BY <1>2, <1>3, <2>2, <2>3 DEF Turn
<1> QED BY <1>4, <1>5

(* A call begins, where none is under way.                                 *)
LEMMA TurnBegun ==
  ASSUME Background, NEW kind \in Kinds, calls' = Issued(calls, kind),
         UNCHANGED <<mode, requests, stream, answered>>,
         \A i \in 1 .. Calls : ~Unsettled(calls[i]),
         sock' = "open" => sock = "open" \/ (calls = <<>> /\ stream = <<>>)
  PROVE  Turn'
<1>1. /\ Calls \in Nat /\ Calls = Len(calls) /\ answered \in Nat /\ answered <= Calls
      /\ \A k \in 1 .. Len(requests) : requests[k] \in 1 .. Calls
  BY Grounds
<1>2. /\ Calls' = Calls + 1 /\ \A j \in 1 .. Calls : calls'[j] = calls[j]
      /\ calls'[Calls + 1] = [kind |-> kind, phase |-> "writing", buf |-> <<>>]
  BY Grounds, Begun, BegunBefore DEF Calls
<1>3. \A j \in 1 .. Calls' : j \in 1 .. Calls \/ j = Calls + 1
  BY <1>1, <1>2
<1>4. OneAtATime'
  BY <1>1, <1>2, <1>3 DEF OneAtATime, Unsettled
<1>5. Buffers'
  <2> SUFFICES ASSUME NEW j \in 1 .. Calls', calls'[j].buf # <<>>
               PROVE  /\ requests' # <<>> /\ j = requests'[1] /\ calls'[j].phase = "reading"
                      /\ ~mode'.late /\ ~Complete(calls'[j].buf)
    BY DEF Buffers, Complete
  <2>1. j \in 1 .. Calls /\ calls'[j] = calls[j]
    BY <1>2, <1>3
  <2> QED BY <2>1 DEF Background, Turn, Buffers
<1>6. Written = Calls
  <2>1. CASE calls = <<>>
    BY <2>1 DEF Written
  <2>2. CASE calls # <<>>
    <3>1. Calls \in 1 .. Calls
      BY <1>1, <2>2, Grounds, EmptySeq
    <3> QED BY <3>1 DEF Written, Unsettled
  <2> QED BY <2>1, <2>2
<1>7. Written' = Calls
  <2>1. calls' # <<>>
    BY <1>1, <1>2, EmptySeq DEF Calls
  <2> QED BY <1>1, <1>2, <2>1 DEF Written
<1>8. Due' = Due /\ OnWire' = OnWire
  <2>1. requests # <<>> => calls'[requests[1]] = calls[requests[1]]
    BY <1>2, OldestRead
  <2> QED BY <1>6, <1>7, <2>1 DEF Due, OnWire
<1>9. Replies(OnWire, answered)'
  BY <1>8 DEF Background, Turn, Replies
<1>10. CASE sock' # "open" \/ sock = "open"
  <2>1. InOrder'
    BY <1>6, <1>7, <1>10 DEF Background, Turn, InOrder
  <2>2. NoneEarlier'
    BY <1>8, <1>10 DEF Background, Turn, NoneEarlier
  <2> QED BY <1>4, <1>5, <1>9, <2>1, <2>2 DEF Turn
<1>11. CASE calls = <<>> /\ stream = <<>>
  <2>1. requests = <<>> /\ Len(requests) = 0 /\ Calls = 0 /\ Due = 1 /\ OnWire = <<>>
    BY <1>6, <1>11, Grounds, EmptySeq DEF Due, OnWire, Calls
  <2>2. InOrder'
    BY <2>1 DEF InOrder
  <2>3. NoneEarlier'
    BY <1>1, <1>8, <2>1, EmptySeq DEF NoneEarlier
  <2> QED BY <1>4, <1>5, <1>9, <2>2, <2>3 DEF Turn
<1> QED BY <1>10, <1>11

(* The call under way has been written, and its read goes behind those of  *)
(* the calls that timed out.                                               *)
LEMMA TurnWriteDone ==
  ASSUME Background, NEW i \in 1 .. Len(calls), WriteDone(i)
  PROVE  Turn'
<1>1. /\ SameKinds /\ \A j \in 1 .. Calls : j # i => calls'[j] = calls[j]
      /\ calls'[i].phase = "reading" /\ calls'[i].buf = calls[i].buf
      /\ i \in 1 .. Calls /\ calls[i].phase = "writing"
  BY WrittenCall DEF Background
<1>2. /\ sock = "open" /\ sock' = "open" /\ requests' = Append(requests, i)
      /\ UNCHANGED <<mode, stream, answered>>
  BY DEF WriteDone, ends, server
<1>3. /\ Calls \in Nat /\ Calls = Len(calls) /\ Calls' = Calls /\ requests \in Seq(Nat)
      /\ Len(requests) \in Nat /\ answered \in Nat
      /\ \A k \in 1 .. Len(requests) :
           requests[k] \in 1 .. Calls /\ calls[requests[k]].phase \in {"reading", "abandoned"}
  BY <1>1, Grounds DEF SameKinds, Calls
<1>4. i = Calls
  BY <1>1 DEF Background, Turn, OneAtATime, Unsettled
<1>5. calls # <<>> /\ calls' # <<>> /\ Written = Calls - 1 /\ Written' = Calls
  <2>1. calls # <<>> /\ calls' # <<>>
    BY <1>1, <1>3, <1>4, EmptySeq DEF Calls
  <2> QED BY <1>1, <1>3, <1>4, <2>1 DEF Written
<1>6. /\ requests' \in Seq(Nat) /\ Len(requests') = Len(requests) + 1
      /\ requests'[Len(requests) + 1] = i
      /\ \A k \in 1 .. Len(requests) : requests'[k] = requests[k]
      /\ requests' # <<>>
  <2>1. /\ requests' \in Seq(Nat) /\ Len(requests') = Len(requests) + 1
        /\ requests'[Len(requests) + 1] = i
        /\ \A k \in 1 .. Len(requests) : requests'[k] = requests[k]
    BY <1>2, <1>3, AppendProperties
  <2> QED BY <1>3, <2>1, EmptySeq
<1>7. calls[i].buf = <<>>
  BY <1>1 DEF Background, Turn, Buffers
<1>8. OneAtATime'
  BY <1>1, <1>3, <1>4 DEF Background, Turn, OneAtATime
<1>9. requests'[1] = Due /\ Due' = Due
  <2>1. CASE requests = <<>>
    BY <1>3, <1>4, <1>5, <1>6, <2>1, EmptySeq DEF Due
  <2>2. CASE requests # <<>>
    <3>1. 1 \in 1 .. Len(requests)
      BY <1>3, <2>2, EmptySeq
    <3> QED BY <1>6, <2>2, <3>1 DEF Due
  <2> QED BY <1>6, <2>1, <2>2 DEF Due
<1>10. OnWire' = OnWire
  <2>1. CASE requests = <<>>
    <3>1. requests'[1] = i
      BY <1>6, <2>1, EmptySeq
    <3>2. calls'[i].buf \o stream = stream
      BY <1>1, <1>7, Grounds, ConcatEmptySeq
    <3> QED BY <1>2, <1>6, <2>1, <3>1, <3>2 DEF OnWire
  <2>2. CASE requests # <<>>
    <3>1. 1 \in 1 .. Len(requests)
      BY <1>3, <2>2, EmptySeq
    <3>2. requests'[1] = requests[1] /\ requests[1] # i
      BY <1>1, <1>3, <1>6, <3>1
    <3>3. calls'[requests[1]] = calls[requests[1]]
      BY <1>1, <1>3, <3>1, <3>2
    <3> QED BY <1>2, <1>6, <2>2, <3>2, <3>3 DEF OnWire
  <2> QED BY <2>1, <2>2
<1>11. InOrder'
  <2>1. ASSUME NEW k \in 1 .. Len(requests') PROVE requests'[k] = requests'[1] + k - 1
    <3>1. CASE requests = <<>>
      BY <1>3, <1>6, <2>1, <3>1, EmptySeq
    <3>2. CASE requests # <<>> /\ k \in 1 .. Len(requests)
      <4>1. 1 \in 1 .. Len(requests)
        BY <1>3, <3>2, EmptySeq
      <4> QED BY <1>6, <3>2, <4>1 DEF Background, Turn, InOrder
    <3>3. CASE requests # <<>> /\ k = Len(requests) + 1
      <4>1. Len(requests) \in 1 .. Len(requests) /\ 1 \in 1 .. Len(requests)
        BY <1>3, <3>3, EmptySeq
      <4>2. requests[Len(requests)] = requests[1] + Len(requests) - 1
            /\ requests[Len(requests)] = Calls - 1
        BY <1>2, <1>5, <3>3, <4>1 DEF Background, Turn, InOrder
      <4>3. requests[1] \in Nat
        BY <1>3, <4>1
      <4> QED BY <1>3, <1>4, <1>6, <3>3, <4>1, <4>2, <4>3
    <3> QED BY <1>3, <1>6, <3>1, <3>2, <3>3
  <2>2. requests'[Len(requests')] = Written'
    BY <1>4, <1>5, <1>6
  <2> QED BY <2>1, <2>2 DEF InOrder
<1>12. Buffers'
  <2> SUFFICES ASSUME NEW j \in 1 .. Calls, calls'[j].buf # <<>>
               PROVE  /\ requests' # <<>> /\ j = requests'[1] /\ calls'[j].phase = "reading"
                      /\ ~mode'.late /\ ~Complete(calls'[j].buf)
    BY <1>3 DEF Buffers, Complete
  <2>1. j # i /\ calls'[j] = calls[j]
    BY <1>1, <1>7
  <2>2. /\ requests # <<>> /\ j = requests[1] /\ calls[j].phase = "reading" /\ ~mode.late
        /\ ~Complete(calls[j].buf)
    BY <2>1 DEF Background, Turn, Buffers
  <2>3. 1 \in 1 .. Len(requests)
    BY <1>3, <2>2, EmptySeq
  <2> QED BY <1>2, <1>6, <2>1, <2>2, <2>3
<1>13. Replies(OnWire, answered)'
  BY <1>2, <1>10 DEF Background, Turn, Replies
<1>14. NoneEarlier'
  BY <1>2, <1>9, <1>10 DEF Background, Turn, NoneEarlier
<1> QED BY <1>8, <1>11, <1>12, <1>13, <1>14 DEF Turn

(* Every buffer but that of the oldest read is empty.                      *)
LEMMA OtherBuffers ==
  ASSUME Background, NEW j \in 1 .. Calls, requests = <<>> \/ j # requests[1]
  PROVE  calls[j].buf = <<>>
BY DEF Background, Turn, Buffers

(* A write fails, or a read is late: a call that read nothing ends.        *)
LEMMA TurnFails ==
  ASSUME Background, NEW i \in 1 .. Calls, NEW ph, Ended(i, ph), calls'[i].buf = <<>>,
         Len(calls') = Calls, ~Unsettled(calls'[i]),
         \/ sock = "lost" /\ calls[i].phase = "writing"
         \/ mode.late /\ calls[i].phase = "reading",
         UNCHANGED <<mode, requests, stream, answered, sock>>
  PROVE  Turn'
<1>1. /\ Calls \in Nat /\ Calls' = Calls /\ Calls = Len(calls)
      /\ \A j \in 1 .. Calls : j # i => calls'[j] = calls[j]
      /\ \A k \in 1 .. Len(requests) :
           requests[k] \in 1 .. Calls /\ calls[requests[k]].phase \in {"reading", "abandoned"}
  BY Grounds DEF Ended, Calls
<1>2. calls[i].buf = <<>>
  BY DEF Background, Turn, Buffers
<1>3. i = Calls
  BY DEF Background, Turn, OneAtATime, Unsettled
<1>4. \A j \in 1 .. Calls : calls'[j].buf = calls[j].buf
  BY <1>1, <1>2
<1>5. OneAtATime'
  BY <1>1 DEF Background, Turn, OneAtATime
<1>6. OnWire' = OnWire
  <2>1. requests # <<>> => calls'[requests[1]].buf = calls[requests[1]].buf
    BY <1>4, OldestRead
  <2> QED BY <2>1 DEF OnWire
<1>7. Replies(OnWire, answered)'
  BY <1>6 DEF Background, Turn, Replies
<1>8. sock = "open" => Written' = Written
  <2> SUFFICES ASSUME sock = "open" PROVE Written' = Written
    OBVIOUS
  <2>1. calls # <<>> /\ calls' # <<>>
    BY <1>1, <1>3, EmptySeq DEF Calls
  <2>2. calls'[i].phase # "writing"
    BY DEF Unsettled
  <2> QED BY <1>1, <1>3, <2>1, <2>2 DEF Written
<1>9. requests # <<>> \/ sock = "open" => Due' = Due
  BY <1>8 DEF Due
<1>10. InOrder'
  BY <1>8 DEF Background, Turn, InOrder
<1>11. NoneEarlier'
  BY <1>6, <1>9 DEF Background, Turn, NoneEarlier
<1>12. Buffers'
  <2> SUFFICES ASSUME NEW j \in 1 .. Calls, calls'[j].buf # <<>>
               PROVE  /\ requests' # <<>> /\ j = requests'[1] /\ calls'[j].phase = "reading"
                      /\ ~mode'.late /\ ~Complete(calls'[j].buf)
    BY <1>1 DEF Buffers, Complete
  <2>1. j # i /\ calls'[j] = calls[j]
    BY <1>1
  <2> QED BY <2>1 DEF Background, Turn, Buffers
<1> QED BY <1>5, <1>7, <1>10, <1>11, <1>12 DEF Turn

(* The oldest read ends, and nothing is left of the replies up to its      *)
(* call's.                                                                 *)
LEMMA TurnPopped ==
  ASSUME Background, requests # <<>>, NEW ph \in {"done", "failed"},
         Ended(requests[1], ph), calls'[requests[1]].buf = <<>>,
         calls[requests[1]].phase \in {"reading", "abandoned"},
         Len(calls') = Calls + 1 => calls[requests[1]].phase = "reading",
         requests' = Tail(requests), sock' \in {sock, "closed"}, UNCHANGED <<mode, answered>>,
         stream' \in Seq(Piece), Replies(stream', answered),
         \A k \in 1 .. Len(stream') : stream'[k].call >= requests[1] + 1,
         sock = "open" => answered >= requests[1]
  PROVE  Turn'
<1> DEFINE i == requests[1]
<1>1. /\ i \in 1 .. Calls /\ Len(requests) \in Nat \ {0}
      /\ Len(requests') = Len(requests) - 1
      /\ \A k \in 1 .. Len(requests') : requests'[k] = requests[k + 1]
      /\ requests' # <<>> <=> Len(requests) > 1
  BY QueueFacts DEF Background
<1>2. calls[i].phase = "reading" => i = Calls /\ Len(requests) = 1
  BY OldestRead
<1>3. /\ Calls \in Nat /\ Calls = Len(calls) /\ answered \in Nat /\ Calls' = Len(calls')
      /\ Calls' \in {Calls, Calls + 1}
      /\ \A j \in 1 .. Calls : j # i => calls'[j] = calls[j]
      /\ calls'[i].phase = ph
      /\ Calls' = Calls + 1 =>
           /\ calls'[Calls + 1].phase = "writing" /\ calls'[Calls + 1].buf = <<>>
           /\ calls[i].phase = "reading"
  BY Grounds DEF Ended, Calls
<1>4. \A k \in 1 .. Len(requests) : requests[k] = i + k - 1
  BY DEF Background, Turn, InOrder
<1>5. \A j \in 1 .. Calls' : j \in 1 .. Calls \/ (j = Calls + 1 /\ Calls' = Calls + 1)
  BY <1>3
<1> HIDE DEF i
<1>6. OneAtATime'
  <2> SUFFICES ASSUME NEW j \in 1 .. Calls', Unsettled(calls'[j]) PROVE j = Calls'
    BY DEF OneAtATime, Unsettled
  <2>1. j # i
    BY <1>3 DEF Unsettled
  <2>2. ASSUME j \in 1 .. Calls PROVE j = Calls /\ Calls' = Calls
    <3>1. j = Calls
      BY <1>3, <2>1, <2>2 DEF Background, Turn, OneAtATime, Unsettled
    <3> QED BY <1>2, <1>3, <2>1, <3>1
  <2> QED BY <1>3, <1>5, <2>2
<1>7. Written' = Written
  <2>1. calls # <<>> /\ calls' # <<>>
    BY <1>1, <1>3, EmptySeq
  <2>2. CASE Calls' = Calls + 1
    <3>1. Written' = Calls
      BY <1>3, <2>1, <2>2 DEF Written
    <3>2. Written = Calls
      BY <1>2, <1>3, <2>2 DEF Written
    <3> QED BY <3>1, <3>2
  <2>3. CASE Calls' = Calls
    <3>1. calls'[Calls].phase = "writing" <=> calls[Calls].phase = "writing"
      <4>1. CASE i = Calls
        BY <1>3, <4>1 DEF i
      <4>2. CASE i # Calls
        BY <1>1, <1>3, <4>2
      <4> QED BY <4>1, <4>2
    <3> QED BY <2>1, <2>3, <3>1 DEF Written
  <2> QED BY <1>3, <2>2, <2>3
<1>8. requests' # <<>> => requests'[1] = i + 1
  <2> SUFFICES ASSUME requests' # <<>> PROVE requests'[1] = i + 1
    OBVIOUS
  <2>1. 1 \in 1 .. Len(requests') /\ 2 \in 1 .. Len(requests)
    BY <1>1
  <2> QED BY <1>1, <1>4, <2>1
<1>9. sock' = "open" => sock = "open"
  OBVIOUS
<1>10. InOrder'
  <2>1. ASSUME NEW k \in 1 .. Len(requests') PROVE requests'[k] = requests'[1] + k - 1
    <3>1. requests' # <<>> /\ k + 1 \in 1 .. Len(requests)
      BY <1>1
    <3> QED BY <1>1, <1>4, <1>8, <3>1
  <2>2. ASSUME sock' = "open", requests' # <<>> PROVE requests'[Len(requests')] = Written'
    <3>1. requests[Len(requests)] = Written
      BY <1>9, <2>2 DEF Background, Turn, InOrder
    <3>2. Len(requests') \in 1 .. Len(requests') /\ Len(requests') + 1 = Len(requests)
      BY <1>1, <2>2
    <3> QED BY <1>1, <1>7, <3>1, <3>2
  <2> QED BY <2>1, <2>2 DEF InOrder
<1>11. \A j \in 1 .. Calls' : calls'[j].buf = <<>>
  <2>1. ASSUME NEW j \in 1 .. Calls PROVE calls'[j].buf = <<>>
    <3>1. CASE j = i
      BY <3>1 DEF i
    <3>2. CASE j # i
      BY <1>3, <3>2, OtherBuffers DEF i
    <3> QED BY <3>1, <3>2
  <2> QED BY <1>3, <1>5, <2>1
<1>12. Buffers'
  BY <1>11 DEF Buffers
<1>13. OnWire' = stream'
  <2>1. CASE requests' # <<>>
    <3>1. requests'[1] \in 1 .. Calls'
      <4>1. 1 \in 1 .. Len(requests') /\ 2 \in 1 .. Len(requests)
        BY <1>1, <2>1
      <4>2. requests[2] \in 1 .. Calls
        BY <4>1, Grounds
      <4> QED BY <1>1, <1>3, <4>1, <4>2
    <3>2. calls'[requests'[1]].buf = <<>>
      BY <1>11, <3>1
    <3> QED BY <2>1, <3>2, ConcatEmptySeq DEF OnWire
  <2>2. CASE requests' = <<>>
    BY <2>2 DEF OnWire
  <2> QED BY <2>1, <2>2
<1>14. Replies(OnWire, answered)'
  BY <1>13 DEF Replies
<1>15. requests' # <<>> \/ sock' = "open" => Due' = i + 1
  <2>1. CASE requests' # <<>>
    BY <1>8, <2>1 DEF Due
  <2>2. CASE requests' = <<>> /\ sock = "open"
    <3>1. Len(requests) = 1 /\ requests[Len(requests)] = Written
      BY <1>1, <2>2 DEF Background, Turn, InOrder
    <3> QED BY <1>7, <2>2, <3>1 DEF Due, i
  <2> QED BY <1>9, <2>1, <2>2
<1>16. NoneEarlier'
  <2> SUFFICES ASSUME requests' # <<>> \/ sock' = "open"
               PROVE  /\ \A k \in 1 .. Len(OnWire') : OnWire'[k].call >= Due'
                      /\ sock' = "open" => answered' + 1 >= Due'
    BY DEF NoneEarlier
  <2>1. Due' = i + 1
    BY <1>15
  <2> QED BY <1>1, <1>3, <1>9, <1>13, <2>1 DEF i
<1> QED BY <1>6, <1>10, <1>12, <1>14, <1>16 DEF Turn

(* What the oldest read takes: pieces of no earlier reply; to the end of   *)
(* one, and what follows answers later calls; and if its call is under     *)
(* way, its own reply, which fits in the buffer.                           *)
LEMMA ReadPieces ==
  ASSUME Background, requests # <<>>, NEW b \in Seq(Piece), NEW s \in Seq(Piece), b # <<>>,
         b \o s = OnWire
  PROVE  /\ answered >= requests[1] /\ Replies(s, answered)
         /\ Complete(b) => \A k \in 1 .. Len(s) : s[k].call >= requests[1] + 1
         /\ calls[requests[1]].phase = "reading" =>
              /\ \A k \in 1 .. Len(b) : b[k].call = requests[1]
              /\ Len(b) <= mode.bufferMax
<1> DEFINE w == b \o s
           i == requests[1]
<1>1. /\ w \in Seq(Piece) /\ Len(w) = Len(b) + Len(s) /\ Len(b) \in Nat /\ Len(s) \in Nat
      /\ \A j \in 1 .. Len(s) : w[Len(b) + j] = s[j]
      /\ \A j \in 1 .. Len(b) : w[j] = b[j]
  BY Suffix
<1>2. Replies(w, answered)
  BY DEF Background, Turn
<1>3. Replies(s, answered)
  BY <1>2, RepliesSuffix
<1>4. \A k \in 1 .. Len(w) : w[k].call >= i
  BY DEF Background, Turn, NoneEarlier, Due
<1>5. i \in Nat /\ answered \in Nat /\ answered <= Calls /\ Calls \in Nat /\ MaxPieces \in Nat
  BY OldestRead, Grounds, BoundsAssumption
<1> HIDE DEF w, i
<1>6. ASSUME NEW k \in 1 .. Len(w) PROVE w[k].call \in Nat /\ w[k].call <= answered
  <2>1. w[k] \in Piece
    BY <1>1, ElementOfSeq
  <2> QED BY <1>2, <2>1 DEF Piece, Replies
<1>7. Len(b) \in Nat \ {0} /\ 1 \in 1 .. Len(w)
  BY <1>1, EmptySeq
<1>8. answered >= i
  BY <1>4, <1>5, <1>6, <1>7
<1>9. ASSUME Complete(b), NEW k \in 1 .. Len(s) PROVE s[k].call >= i + 1
  <2>1. PICK j \in 1 .. Len(b) : b[j].last
    BY <1>9 DEF Complete
  <2>2. j \in 1 .. Len(w) /\ Len(b) + k \in 1 .. Len(w) /\ j < Len(b) + k /\ w[j].last
    BY <1>1, <2>1
  <2>3. w[j].call < w[Len(b) + k].call
    BY <1>2, <2>2 DEF Replies
  <2>4. w[j].call >= i /\ w[j].call \in Nat /\ w[Len(b) + k].call \in Nat
    BY <1>4, <1>6, <2>2
  <2> QED BY <1>1, <1>5, <2>3, <2>4
<1>10. ASSUME calls[i].phase = "reading"
       PROVE  /\ \A k \in 1 .. Len(b) : b[k].call = i
              /\ Len(b) <= mode.bufferMax
  <2>1. i = Calls
    BY <1>10, OldestRead DEF i
  <2>2. ASSUME NEW k \in 1 .. Len(b) PROVE k \in 1 .. Len(w) /\ w[k] = b[k] /\ w[k].call = i
    <3>1. k \in 1 .. Len(w) /\ w[k] = b[k]
      BY <1>1
    <3> QED BY <1>4, <1>5, <1>6, <2>1, <3>1
  <2>3. Len(b) \in 1 .. Len(b) /\ 1 \in 1 .. Len(b)
    BY <1>7
  <2>4. w[1].call = w[Len(b)].call /\ 1 \in 1 .. Len(w) /\ Len(b) \in 1 .. Len(w)
    BY <2>2, <2>3
  <2>5. Len(b) - 1 < MaxPieces
    BY <1>2, <2>4 DEF Replies
  <2>6. mode.bufferMax \in Nat /\ mode.bufferMax >= MaxPieces
    BY ModesAssumption DEF Background, TurnMode, Typed, Plain, Mode
  <2> QED BY <1>5, <1>7, <2>2, <2>5, <2>6
<1> QED BY <1>3, <1>8, <1>9, <1>10 DEF i

(* A read goes on with part of its reply.                                  *)
LEMMA TurnReadOn ==
  ASSUME Background, requests # <<>>, NEW b \in Seq(Piece), ReadOn(requests[1], b),
         ~mode.late, stream' \in Seq(Piece), b \o stream' = OnWire,
         UNCHANGED <<mode, answered>>
  PROVE  Turn'
<1> DEFINE i == requests[1]
<1>1. i \in 1 .. Calls /\ Len(requests) \in Nat \ {0}
  BY OldestRead
<1>2. /\ SameKinds /\ \A j \in 1 .. Calls : j # i => calls'[j] = calls[j]
      /\ calls[i].phase = "reading" /\ calls'[i].phase = "reading" /\ calls'[i].buf = b
      /\ UNCHANGED sock
  BY <1>1, ReadOnCall DEF Background
<1>3. i = Calls /\ Len(requests) = 1 /\ ~Complete(b)
  BY <1>2, OldestRead DEF ReadOn, IsComplete
<1>4. /\ Calls \in Nat /\ Calls' = Calls /\ Calls = Len(calls) /\ requests \in Seq(Nat)
  BY <1>2, Grounds DEF SameKinds, Calls
<1>5. Len(requests') = 1 /\ requests'[1] = i /\ requests' # <<>>
  <2>1. Tail(requests) = <<>> /\ requests' = Append(Tail(requests), i)
    BY <1>3, QueueFacts DEF ReadOn, Background
  <2>2. <<>> \in Seq(Nat) /\ Len(<<>>) = 0 /\ i \in Nat
    BY <1>1, EmptySeq
  <2> HIDE DEF i
  <2>3. /\ Append(<<>>, i) \in Seq(Nat) /\ Len(Append(<<>>, i)) = Len(<<>>) + 1
        /\ Append(<<>>, i)[Len(<<>>) + 1] = i
    BY <2>2, AppendProperties
  <2>4. Len(Append(<<>>, i)) = 1 /\ Append(<<>>, i)[1] = i
    BY <2>2, <2>3
  <2>5. Append(<<>>, i) # <<>>
    BY <2>2, <2>4
  <2> QED BY <2>1, <2>4, <2>5
<1> HIDE DEF i
<1>6. calls # <<>> /\ calls' # <<>> /\ Written' = Calls /\ Written = Calls
  <2>1. calls # <<>> /\ calls' # <<>>
    BY <1>1, <1>4, EmptySeq DEF Calls
  <2> QED BY <1>2, <1>3, <1>4, <2>1 DEF Written
<1>7. OnWire' = OnWire /\ Due' = Due
  BY <1>2, <1>5 DEF OnWire, Due, i
<1>8. OneAtATime'
  BY <1>2, <1>3, <1>4 DEF Background, Turn, OneAtATime, Unsettled
<1>9. InOrder'
  BY <1>3, <1>4, <1>5, <1>6 DEF InOrder
<1>10. Replies(OnWire, answered)' /\ NoneEarlier'
  BY <1>2, <1>7 DEF Background, Turn, Replies, NoneEarlier
<1>11. Buffers'
  <2> SUFFICES ASSUME NEW j \in 1 .. Calls, calls'[j].buf # <<>>
               PROVE  /\ requests' # <<>> /\ j = requests'[1] /\ calls'[j].phase = "reading"
                      /\ ~mode'.late /\ ~Complete(calls'[j].buf)
    BY <1>4 DEF Buffers, Complete
  <2>1. CASE j = i
    BY <1>2, <1>3, <1>5, <2>1
  <2>2. CASE j # i
    BY <1>2, <2>2, OtherBuffers DEF i
  <2> QED BY <2>1, <2>2
<1> QED BY <1>8, <1>9, <1>10, <1>11 DEF Turn

(* A chunk that ends with a reply makes the buffer complete.               *)
LEMMA LastCompletes ==
  ASSUME NEW c \in Seq(Piece), NEW s \in Seq(Piece), NEW n \in 1 .. Len(s), s[n].last
  PROVE  Complete(c \o SubSeq(s, 1, n))
<1> DEFINE x == SubSeq(s, 1, n)
<1>1. Len(s) \in Nat /\ n \in Nat \ {0} /\ \A k \in 1 .. n : s[k] \in Piece
  BY LenProperties, ElementOfSeq
<1>2. x \in Seq(Piece) /\ Len(x) = n /\ x[n] = s[n]
  BY <1>1, SubSeqProperties
<1> HIDE DEF x
<1> DEFINE b == c \o x
<1>3. Len(b) = Len(c) + n /\ Len(c) \in Nat /\ b[Len(c) + n] = s[n]
  <2>1. /\ Len(b) = Len(c) + Len(x) /\ Len(c) \in Nat
        /\ \A j \in 1 .. Len(x) : b[Len(c) + j] = x[j]
    BY <1>2, Suffix
  <2>2. n \in 1 .. Len(x)
    BY <1>1, <1>2
  <2> QED BY <1>2, <2>1, <2>2
<1>4. Len(c) + n \in 1 .. Len(b)
  BY <1>1, <1>3
<1> QED BY <1>3, <1>4 DEF Complete, x

(* A chunk goes to the oldest read.                                        *)
LEMMA TurnChunk ==
  ASSUME Background, NEW n, Chunk(n)
  PROVE  Turn'
<1> DEFINE i == requests[1]
           b == calls[i].buf \o SubSeq(stream, 1, n)
<1>1. /\ requests # <<>> /\ n \in 1 .. Len(stream) /\ i = Head(requests) /\ i \in 1 .. Calls
      /\ (mode.split \/ stream[n].last) /\ UNCHANGED <<mode, answered>>
      /\ stream' = SubSeq(stream, n + 1, Len(stream))
      /\ Discard(i) \/ TooLarge(i, b) \/ Finish(i, b) \/ ReadOn(i, b) \/ DeadlinePassed(i, b)
  BY QueueFacts DEF Chunk, server, Background
<1>2. /\ b \in Seq(Piece) /\ b # <<>> /\ stream' \in Seq(Piece)
      /\ b \o stream' = calls[i].buf \o stream
  BY <1>1, ChunkFacts DEF Background
<1>3. b \o stream' = OnWire
  BY <1>1, <1>2, OldestRead
<1>4. stream[n].last => Complete(b)
  <2>1. calls[i].buf \in Seq(Piece) /\ stream \in Seq(Piece)
    BY <1>1, Grounds
  <2> QED BY <1>1, <2>1, LastCompletes
<1> HIDE DEF b, i
<1>5. /\ answered >= i /\ Replies(stream', answered)
      /\ Complete(b) => \A k \in 1 .. Len(stream') : stream'[k].call >= i + 1
      /\ calls[i].phase = "reading" => Len(b) <= mode.bufferMax
  BY <1>1, <1>2, <1>3, ReadPieces DEF i
<1>6. mode.late => Complete(b)
  BY <1>1, <1>4 DEF Background, TurnMode
<1>7. CASE Discard(i)
  <2>1. /\ Ended(i, "failed") /\ Len(calls') = Calls /\ calls'[i].buf = calls[i].buf
        /\ UNCHANGED sock /\ calls[i].phase = "abandoned" /\ requests' = Tail(requests)
    BY <1>1, <1>7, DiscardEnds DEF Discard, Background
  <2>2. calls'[i].buf = <<>> /\ mode.late
    BY <1>1, <2>1 DEF Background, Turn, Buffers, Early
  <2>3. Calls # Calls + 1
    BY Grounds
  <2> QED BY <1>1, <1>2, <1>5, <1>6, <2>1, <2>2, <2>3, TurnPopped DEF i
<1>8. ~TooLarge(i, b)
  <2>1. mode.bufferMax \in Nat /\ Len(b) \in Nat
    BY <1>2, ModesAssumption, LenProperties DEF Background, Typed, Plain, Mode
  <2> QED BY <1>5, <2>1 DEF TooLarge
<1>9. CASE Finish(i, b)
  <2>1. /\ Complete(b) /\ calls[i].phase = "reading" /\ requests' = Tail(requests)
        /\ Settle(i, FirstValue(b))
    BY <1>9 DEF Finish, IsComplete
  <2>2. Ended(i, "done") /\ calls'[i].buf = <<>> /\ sock' \in {sock, "closed"}
    BY <1>1, <2>1, SettleEnds DEF Background
  <2> QED BY <1>1, <1>2, <1>5, <2>1, <2>2, TurnPopped DEF i
<1>10. CASE ReadOn(i, b)
  <2>1. ~mode.late
    BY <1>6, <1>10 DEF ReadOn, IsComplete
  <2> QED BY <1>1, <1>2, <1>3, <1>10, <2>1, TurnReadOn DEF i
<1>11. ~DeadlinePassed(i, b)
  BY <1>6 DEF DeadlinePassed, IsComplete
<1> QED BY <1>1, <1>7, <1>8, <1>9, <1>10, <1>11

(* The connection ends under the oldest read; nothing follows.             *)
LEMMA TurnEndOfStream ==
  ASSUME Background, EndOfStream
  PROVE  Turn'
<1> DEFINE i == requests[1]
<1>1. /\ requests # <<>> /\ i = Head(requests) /\ i \in 1 .. Calls
      /\ requests' = Tail(requests) /\ stream' = <<>> /\ sock = "lost"
      /\ UNCHANGED <<mode, answered>>
      /\ \/ calls[i].phase = "reading" /\ Settle(i, calls[i].buf)
         \/ calls[i].phase \in {"reading", "abandoned"} /\ Fail(i, "failed")
  BY QueueFacts DEF EndOfStream, server, Background
<1> HIDE DEF i
<1>2. PICK ph \in {"done", "failed"} :
        /\ Ended(i, ph) /\ calls'[i].buf = <<>> /\ sock' \in {sock, "closed"}
        /\ Len(calls') = Calls + 1 => calls[i].phase = "reading"
  <2>1. CASE calls[i].phase = "reading" /\ Settle(i, calls[i].buf)
    BY <1>1, <2>1, SettleEnds DEF Background
  <2>2. CASE Fail(i, "failed")
    <3>1. Calls # Calls + 1
      BY Grounds
    <3> QED BY <1>1, <2>2, <3>1, FailEnds DEF Background
  <2> QED BY <1>1, <2>1, <2>2
<1>3. stream' \in Seq(Piece) /\ Len(stream') = 0 /\ Replies(stream', answered)
  BY <1>1, EmptySeq DEF Replies
<1>4. calls[i].phase \in {"reading", "abandoned"}
  BY <1>1
<1>5. \A k \in 1 .. Len(stream') : stream'[k].call >= i + 1
  BY <1>3
<1>6. sock = "open" => answered >= i
  BY <1>1
<1> QED BY <1>1, <1>2, <1>3, <1>4, <1>5, <1>6, TurnPopped DEF i

(* The server answers the next call.                                       *)
LEMMA TurnAnswer ==
  ASSUME Background, NEW n \in 1 .. MaxPieces, NEW ok \in BOOLEAN, ServerAnswers(n, ok)
  PROVE  Turn'
<1> DEFINE i == answered + 1
           new == Answer(i, n, ok)
<1>1. /\ sock = "open" /\ answered < Len(calls) /\ stream' = stream \o new /\ answered' = i
      /\ UNCHANGED <<mode, calls, requests, sock>>
  BY DEF ServerAnswers, ends, Answer
<1>2. /\ Calls \in Nat /\ Calls' = Calls /\ answered \in Nat /\ stream \in Seq(Piece)
      /\ n \in Nat /\ OnWire \in Seq(Piece) /\ Len(OnWire) \in Nat
  BY <1>1, Grounds, WireType DEF Calls
<1>3. /\ new \in Seq(Piece) /\ Len(new) = n
      /\ \A k \in 1 .. n : new[k].call = i /\ (new[k].last <=> k = n)
  <2>1. i \in Nat /\ n \in Nat
    BY <1>2
  <2>2. ASSUME NEW k \in 1 .. n
        PROVE  [call |-> i, ok |-> ok /\ k = 1, last |-> k = n] \in Piece
    BY <2>1 DEF Piece
  <2>3. new \in [1 .. n -> Piece]
    BY <2>2 DEF Answer
  <2>4. \A k \in 1 .. n : new[k].call = i /\ (new[k].last <=> k = n)
    BY DEF Answer
  <2> HIDE DEF new
  <2> QED BY <2>1, <2>3, <2>4, AnswerPieces
<1> HIDE DEF new
<1>4. OnWire' = OnWire \o new
  <2>1. CASE requests # <<>>
    <3>1. calls[requests[1]].buf \in Seq(Piece)
      BY <2>1, OldestRead, Grounds
    <3> DEFINE b == calls[requests[1]].buf
    <3>2. b \in Seq(Piece)
      BY <3>1
    <3> HIDE DEF b
    <3>3. (b \o stream) \o new = b \o (stream \o new)
      BY <1>2, <1>3, <3>2, ConcatAssociative
    <3> QED BY <1>1, <2>1, <3>3 DEF OnWire, b
  <2>2. CASE requests = <<>>
    BY <1>1, <2>2 DEF OnWire
  <2> QED BY <2>1, <2>2
<1>5. Written' = Written /\ Due' = Due
  BY <1>1, <1>2 DEF Written, Due
<1>6. OneAtATime' /\ InOrder' /\ Buffers'
  BY <1>1, <1>2, <1>5 DEF Background, Turn, OneAtATime, InOrder, Buffers
<1>7. Replies(OnWire, answered)'
  <2>1. Replies(OnWire \o new, answered + 1)
    BY <1>2, <1>3, RepliesExtended DEF Background, Turn
  <2>2. Replies(OnWire', answered')
    BY <1>1, <1>4, <2>1
  <2> QED BY <2>2 DEF Replies
<1>8. NoneEarlier'
  <2>1. answered + 1 >= Due /\ \A k \in 1 .. Len(OnWire) : OnWire[k].call >= Due
    BY <1>1 DEF Background, Turn, NoneEarlier
  <2> DEFINE w == OnWire \o new
  <2>2. /\ Len(w) = Len(OnWire) + n
        /\ \A k \in 1 .. n : w[Len(OnWire) + k] = new[k]
        /\ \A k \in 1 .. Len(OnWire) : w[k] = OnWire[k]
    BY <1>2, <1>3, Suffix
  <2> HIDE DEF w
  <2>3. ASSUME NEW k \in 1 .. Len(w) PROVE w[k].call >= Due
    <3>1. CASE k \in 1 .. Len(OnWire)
      BY <2>1, <2>2, <3>1
    <3>2. CASE k \notin 1 .. Len(OnWire)
      <4>1. k - Len(OnWire) \in 1 .. n /\ Len(OnWire) + (k - Len(OnWire)) = k
        BY <1>2, <2>2, <3>2
      <4>2. w[k] = new[k - Len(OnWire)] /\ new[k - Len(OnWire)].call = i
        BY <1>3, <2>2, <4>1
      <4> QED BY <2>1, <4>2
    <3> QED BY <3>1, <3>2
  <2>4. Due \in Nat
    <3>1. requests # <<>> => requests[1] \in Nat
      BY OldestRead
    <3>2. calls # <<>> => Calls # 0
      BY Grounds, EmptySeq
    <3> QED BY <1>2, <3>1, <3>2 DEF Due, Written
  <2>5. OnWire' = w
    BY <1>4 DEF w
  <2>6. answered' + 1 >= Due'
    BY <1>1, <1>2, <1>5, <2>1, <2>4
  <2> QED BY <1>5, <2>3, <2>5, <2>6 DEF NoneEarlier
<1> QED BY <1>6, <1>7, <1>8 DEF Turn

(* The close event of a ready session.                                     *)
LEMMA ReleasedCalls ==
  ASSUME LoginInv, WsClosed, stage = "ready"
  PROVE  /\ Calls' = Calls
         /\ \A i \in 1 .. Calls :
              /\ ~Unsettled(calls'[i]) /\ calls'[i].phase # "abandoned"
              /\ calls[i].buf = <<>> => calls'[i].buf = <<>>
              /\ calls[i].phase = "reading" => calls'[i].buf = <<>>
<1> DEFINE c(i) == IF Unsettled(calls[i]) \/ calls[i].phase = "abandoned"
                   THEN [calls[i] EXCEPT !.phase = "failed", !.buf = <<>>]
                   ELSE calls[i]
<1>1. calls' = [i \in 1 .. Len(calls) |-> c(i)] /\ Calls = Len(calls)
  BY DEF WsClosed, Calls
<1>2. ASSUME NEW i \in 1 .. Len(calls)
      PROVE  /\ ~Unsettled(c(i)) /\ c(i).phase # "abandoned"
             /\ calls[i].buf = <<>> => c(i).buf = <<>>
             /\ calls[i].phase = "reading" => c(i).buf = <<>>
  <2>1. calls[i] \in Call
    BY ElementOfSeq DEF LoginInv, Shape
  <2>2. CASE Unsettled(calls[i]) \/ calls[i].phase = "abandoned"
    <3> DEFINE d == [calls[i] EXCEPT !.phase = "failed", !.buf = <<>>]
    <3>1. d.phase = "failed" /\ d.buf = <<>>
      BY <2>1 DEF Call
    <3> QED BY <2>2, <3>1 DEF Unsettled
  <2>3. CASE ~(Unsettled(calls[i]) \/ calls[i].phase = "abandoned")
    BY <2>3 DEF Unsettled
  <2> QED BY <2>2, <2>3
<1> HIDE DEF c
<1>3. Calls' = Calls
  <2>1. calls' \in Seq(Call) /\ Len(calls) \in Nat
    <3>1. LoginInv'
      BY ReleaseStep
    <3> QED BY <3>1, LenProperties DEF LoginInv, Shape
  <2>2. Len(calls') \in Nat /\ DOMAIN calls' = 1 .. Len(calls')
    BY <2>1, LenProperties
  <2>3. 1 .. Len(calls') = 1 .. Len(calls)
    BY <1>1, <2>2
  <2> QED BY <2>1, <2>2, <2>3 DEF Calls
<1> QED BY <1>1, <1>2, <1>3

LEMMA TurnRelease ==
  ASSUME Background, WsClosed, stage = "ready"
  PROVE  Turn'
<1>1. /\ requests' = <<>> /\ sock' = "closed" /\ UNCHANGED <<mode, stream, answered>>
  BY DEF WsClosed, Released, server
<1>2. /\ Calls' = Calls
      /\ \A i \in 1 .. Calls :
           /\ ~Unsettled(calls'[i])
           /\ calls[i].buf = <<>> => calls'[i].buf = <<>>
           /\ calls[i].phase = "reading" => calls'[i].buf = <<>>
  BY ReleasedCalls DEF Background
<1>3. OneAtATime' /\ InOrder' /\ NoneEarlier'
  BY <1>1, <1>2, EmptySeq DEF OneAtATime, InOrder, NoneEarlier, Unsettled
<1>4. Buffers'
  BY <1>2 DEF Background, Turn, Buffers
<1>5. Replies(OnWire, answered)'
  <2>1. Replies(stream, answered)
    <3>1. CASE requests = <<>>
      BY <3>1 DEF Background, Turn, OnWire
    <3>2. CASE requests # <<>>
      <4>1. calls[requests[1]].buf \in Seq(Piece) /\ stream \in Seq(Piece)
        BY <3>2, OldestRead, Grounds
      <4>2. Replies(calls[requests[1]].buf \o stream, answered)
        BY <3>2, OldestRead DEF Background, Turn
      <4> QED BY <4>1, <4>2, RepliesSuffix
    <3> QED BY <3>1, <3>2
  <2>2. OnWire' = stream
    BY <1>1 DEF OnWire
  <2> QED BY <1>1, <2>1, <2>2 DEF Replies
<1> QED BY <1>3, <1>4, <1>5 DEF Turn

(* Every step of a session in turn.                                        *)
LEMMA NextTurn ==
  ASSUME Background, Next
  PROVE  Turn'
<1>0. stage \in {"init", "connecting"} => calls = <<>> /\ stream = <<>>
  BY DEF Background, LoginInv, Progress
<1> DEFINE Quiet == /\ UNCHANGED <<mode, calls, requests, stream, answered>>
                    /\ sock' = "open" => sock = "open" \/ (calls = <<>> /\ stream = <<>>)
<1>q. ASSUME Quiet PROVE Turn'
  BY <1>q, TurnQuiet
<1>1. CASE AuthTimeout \/ (\E password, database \in BOOLEAN : AuthMessage(password, database))
  <2>1. Quiet
    BY <1>1 DEF AuthTimeout, AuthMessage, io, server
  <2> QED BY <1>q, <2>1
<1>2. CASE Opened
  <2>1. PICK kind \in Kinds : calls' = Issued(calls, kind)
    BY <1>2 DEF Opened, Kinds
  <2>2. calls = <<>> /\ stream = <<>> /\ Calls = 0
    BY <1>0, <1>2, EmptySeq DEF Opened, Calls
  <2>3. /\ UNCHANGED <<mode, requests, stream, answered>>
        /\ sock' = "open" => sock = "open" \/ (calls = <<>> /\ stream = <<>>)
    BY <1>2, <2>2 DEF Opened, io, server
  <2>4. \A i \in 1 .. Calls : ~Unsettled(calls[i])
    BY <2>2
  <2> QED BY <2>1, <2>3, <2>4, TurnBegun
<1>3. CASE ConnectRefused \/ ConnectTimeout
  <2>1. Quiet
    BY <1>3 DEF ConnectRefused, ConnectTimeout, io, server
  <2> QED BY <1>q, <2>1
<1>4. CASE OpensLate \/ ConnectionLost
  <2>1. Quiet
    BY <1>4 DEF OpensLate, ConnectionLost, io, server, Background, Early
  <2> QED BY <1>q, <2>1
<1>5. CASE Command
  <2>1. "command" \in Kinds /\ Calls = Len(calls)
    BY DEF Kinds, Calls
  <2>2. ASSUME NEW i \in 1 .. Calls PROVE ~Unsettled(calls[i])
    <3>1. CASE calls[i].kind = "command"
      BY <1>5, <2>1, <3>1 DEF Command, MayCommand, Commands, Background, TurnMode
    <3>2. CASE calls[i].kind # "command"
      BY <1>5, <3>2 DEF Command, Background, LoginInv, Progress
    <3> QED BY <3>1, <3>2
  <2>3. calls' = Issued(calls, "command") /\ UNCHANGED <<mode, requests, stream, answered, sock>>
    BY <1>5 DEF Command, ends, io, server
  <2> QED BY <2>1, <2>2, <2>3, TurnBegun
<1>6. ASSUME NEW i \in 1 .. Len(calls), WriteDone(i) PROVE Turn'
  BY <1>6, TurnWriteDone
<1>7. ASSUME NEW i \in 1 .. Len(calls), WriteFails(i) \/ ReadTimeout(i) PROVE Turn'
  <2>1. PICK ph \in {"abandoned", "failed"} : Fail(i, ph)
    BY <1>7 DEF ReadTimeout, WriteFails
  <2>2. i \in 1 .. Calls
    BY DEF Calls
  <2>3. /\ Ended(i, ph) /\ calls'[i].buf = <<>> /\ Len(calls') = Calls /\ UNCHANGED sock
    BY <2>1, <2>2, FailEnds DEF Background
  <2>4. ~Unsettled(calls'[i])
    BY <2>3 DEF Ended, Unsettled
  <2>5. /\ UNCHANGED <<mode, requests, stream, answered>>
        /\ \/ sock = "lost" /\ calls[i].phase = "writing"
           \/ mode.late /\ calls[i].phase = "reading"
    BY <1>7 DEF ReadTimeout, AfterTimeout, TimerSet, WriteFails, NextWrite, io, server
  <2> QED BY <2>2, <2>3, <2>4, <2>5, TurnFails
<1>8. CASE \E n \in 1 .. Len(stream) : Chunk(n)
  BY <1>8, TurnChunk
<1>9. CASE EndOfStream
  BY <1>9, TurnEndOfStream
<1>10. CASE WsClosed
  <2>1. CASE stage = "ready"
    BY <1>10, <2>1, TurnRelease
  <2>2. CASE stage # "ready"
    <3>1. Quiet
      BY <1>10, <2>2 DEF WsClosed, server
    <3> QED BY <1>q, <3>1
  <2> QED BY <2>1, <2>2
<1>11. CASE \E n \in 1 .. MaxPieces, ok \in BOOLEAN : ServerAnswers(n, ok)
  BY <1>11, TurnAnswer
<1>12. CASE Over
  <2>1. Quiet
    BY <1>12 DEF Over, vars, ends, io, server
  <2> QED BY <1>q, <2>1
<1> QED BY <1>1, <1>2, <1>3, <1>4, <1>5, <1>6, <1>7, <1>8, <1>9, <1>10, <1>11, <1>12 DEF Next

(* Only a timeout leaves a call abandoned, and there are calls only once   *)
(* the socket has opened.                                                  *)
LEMMA NextEarly ==
  ASSUME LoginInv, Typed, Early, Next
  PROVE  Early' /\ mode' = mode
<1>0. /\ Calls \in Nat /\ Calls = Len(calls) /\ (calls = <<>> <=> Calls = 0)
      /\ stage \in {"init", "connecting"} => calls = <<>> /\ stream = <<>>
  <2>1. calls \in Seq(Call) /\ Calls = Len(calls)
    BY DEF LoginInv, Shape, Calls
  <2> QED BY <2>1, EmptySeq, LenProperties DEF LoginInv, Progress
<1>1. ASSUME NEW i \in 1 .. Calls, NEW ph, Ended(i, ph), ph = "abandoned" => mode.late,
             sock' \in {sock, "closed"}, mode' = mode
      PROVE  Early'
  <2>1. calls # <<>> /\ calls' # <<>>
    BY <1>0, <1>1, EmptySeq DEF Ended
  <2>0. \A j \in 1 .. Calls : j # i => calls'[j] = calls[j]
    BY <1>1 DEF Ended
  <2>2. ASSUME NEW j \in 1 .. Calls', calls'[j].phase = "abandoned" PROVE mode'.late
    <3>1. j \in 1 .. Calls \/ (j = Calls + 1 /\ calls'[j].phase = "writing")
      BY <1>0, <1>1 DEF Ended, Calls
    <3>2. CASE j = i
      BY <1>1, <2>2, <3>2 DEF Ended
    <3>3. CASE j # i
      <4>1. j \in 1 .. Calls /\ calls[j].phase = "abandoned"
        BY <2>0, <2>2, <3>1, <3>3
      <4> QED BY <1>1, <4>1 DEF Early
    <3> QED BY <3>2, <3>3
  <2> QED BY <1>1, <2>1, <2>2 DEF Early
<1>2. ASSUME SameKinds, mode' = mode, sock' = sock, calls # <<>>,
             \A j \in 1 .. Calls : calls'[j].phase \in {calls[j].phase, "reading"}
      PROVE  Early'
  <2>1. Calls' = Calls /\ calls' # <<>>
    BY <1>0, <1>2, EmptySeq DEF SameKinds, Calls
  <2> QED BY <1>2, <2>1 DEF Early
<1>3. ASSUME UNCHANGED <<mode, calls>>, stage' = "ready" => stage = "ready",
             sock' \in {"none", "opening"} =>
               (stream' = stream /\ sock \in {"none", "opening"}) \/ (calls = <<>> /\ stream' = <<>>)
      PROVE  Early'
  BY <1>3 DEF Early, Calls
<1>4. CASE AuthTimeout \/ (\E password, database \in BOOLEAN : AuthMessage(password, database))
  BY <1>0, <1>3, <1>4 DEF AuthTimeout, AuthMessage, io
<1>5. CASE Opened \/ Command
  <2>1. PICK kind \in Kinds : calls' = Issued(calls, kind)
    BY <1>5 DEF Opened, Command, Kinds
  <2>2. /\ calls' \in Seq(Call) /\ Calls' = Calls + 1
        /\ \A j \in 1 .. Calls : calls'[j] = calls[j]
        /\ calls'[Calls + 1].phase = "writing"
    <3>1. calls \in Seq(Call)
      BY DEF LoginInv, Shape
    <3>2. /\ calls' \in Seq(Call) /\ Len(calls') = Len(calls) + 1
          /\ calls'[Len(calls) + 1] = [kind |-> kind, phase |-> "writing", buf |-> <<>>]
      BY <2>1, <3>1, Begun
    <3>3. \A j \in 1 .. Len(calls) : calls'[j] = calls[j]
      BY <2>1, <3>1, BegunBefore
    <3> QED BY <3>2, <3>3 DEF Calls
  <2>3. calls' # <<>> /\ mode' = mode /\ sock' \notin {"none", "opening"}
    <3>1. calls' # <<>>
      BY <1>0, <2>2, EmptySeq DEF Calls
    <3> QED BY <1>5, <3>1 DEF Opened, Command, ends, Early
  <2>4. \A j \in 1 .. Calls' : j \in 1 .. Calls \/ j = Calls + 1
    BY <1>0, <2>2
  <2> QED BY <2>2, <2>3, <2>4 DEF Early
<1>6. CASE ConnectRefused \/ ConnectTimeout \/ OpensLate \/ ConnectionLost
  BY <1>3, <1>6 DEF ConnectRefused, ConnectTimeout, OpensLate, ConnectionLost, io
<1>7. ASSUME NEW i \in 1 .. Len(calls), WriteDone(i) PROVE Early' /\ mode' = mode
  <2>1. /\ SameKinds /\ \A j \in 1 .. Calls : j # i => calls'[j] = calls[j]
        /\ calls'[i].phase = "reading" /\ i \in 1 .. Calls
    BY <1>7, WrittenCall
  <2>2. mode' = mode /\ sock' = sock /\ calls # <<>>
    BY <1>0, <1>7, <2>1 DEF WriteDone, ends
  <2> QED BY <1>2, <2>1, <2>2
<1>8. ASSUME NEW i \in 1 .. Len(calls), WriteFails(i) \/ ReadTimeout(i)
      PROVE  Early' /\ mode' = mode
  <2>1. PICK ph \in {"abandoned", "failed"} : Fail(i, ph) /\ (ph = "abandoned" => mode.late)
    BY <1>8 DEF ReadTimeout, WriteFails, TimerSet
  <2>2. Ended(i, ph) /\ UNCHANGED sock /\ i \in 1 .. Calls
    BY <1>0, <2>1, FailEnds
  <2>3. mode' = mode
    BY <1>8 DEF ReadTimeout, WriteFails
  <2> QED BY <1>1, <2>1, <2>2, <2>3
<1>9. ASSUME NEW n \in 1 .. Len(stream), Chunk(n) PROVE Early' /\ mode' = mode
  <2> DEFINE i == requests[1]
             b == calls[i].buf \o SubSeq(stream, 1, n)
  <2>1. /\ requests # <<>> /\ i = Head(requests) /\ i \in 1 .. Calls /\ mode' = mode
        /\ Discard(i) \/ TooLarge(i, b) \/ Finish(i, b) \/ ReadOn(i, b) \/ DeadlinePassed(i, b)
    BY <1>9, QueueFacts DEF Chunk
  <2>2. b \in Seq(Piece)
    BY <2>1, ChunkFacts
  <2> HIDE DEF i, b
  <2>3. CASE ReadOn(i, b)
    <3>1. /\ SameKinds /\ \A j \in 1 .. Calls : j # i => calls'[j] = calls[j]
          /\ calls'[i].phase = "reading" /\ UNCHANGED sock
      BY <2>1, <2>2, <2>3, ReadOnCall
    <3> QED BY <1>0, <1>2, <2>1, <3>1
  <2>4. CASE ~ReadOn(i, b)
    <3>1. \E ph \in {"done", "failed"} : Ended(i, ph) /\ sock' \in {sock, "closed"}
      BY <2>1, <2>4, DiscardEnds, FailEnds, SettleEnds
         DEF TooLarge, Finish, DeadlinePassed
    <3> QED BY <1>1, <2>1, <3>1
  <2> QED BY <2>3, <2>4
<1>10. CASE EndOfStream
  <2>1. /\ requests # <<>> /\ requests[1] = Head(requests) /\ requests[1] \in 1 .. Calls
        /\ mode' = mode
        /\ (\E reply : Settle(requests[1], reply)) \/ Fail(requests[1], "failed")
    BY <1>10, QueueFacts DEF EndOfStream
  <2>2. \E ph \in {"done", "failed"} : Ended(requests[1], ph) /\ sock' \in {sock, "closed"}
    BY <2>1, SettleEnds, FailEnds
  <2> QED BY <1>1, <2>1, <2>2
<1>11. CASE WsClosed
  <2>1. CASE stage = "ready"
    <3>1. Calls' = Calls /\ \A j \in 1 .. Calls : calls'[j].phase # "abandoned"
      BY <1>11, <2>1, ReleasedCalls
    <3>2. sock' = "closed" /\ stage' = "over" /\ mode' = mode
      BY <1>11, <2>1 DEF WsClosed
    <3> QED BY <3>1, <3>2 DEF Early
  <2>2. CASE stage # "ready"
    BY <1>3, <1>11, <2>2 DEF WsClosed
  <2> QED BY <2>1, <2>2
<1>12. CASE \E n \in 1 .. MaxPieces, ok \in BOOLEAN : ServerAnswers(n, ok)
  BY <1>3, <1>12 DEF ServerAnswers, ends
<1>13. CASE Over
  BY <1>3, <1>13 DEF Over, vars, ends, io
<1> QED BY <1>4, <1>5, <1>6, <1>7, <1>8, <1>9, <1>10, <1>11, <1>12, <1>13
        DEF Next, AuthTimeout, AuthMessage, ConnectRefused, ConnectTimeout, OpensLate,
            ConnectionLost, ServerAnswers, Over, vars

(* A response is sent for the oldest read, which in turn has pieces of its *)
(* own reply only.                                                         *)
LEMMA NextMatch ==
  ASSUME LoginInv, Typed, TurnInv, Next
  PROVE  RepliesMatchInTurn'
<1>1. mode' = mode
  BY NextEarly DEF TurnInv
<1>2. out \in Seq(Response)
  BY DEF Typed, Plain
<1>3. CASE out' = out
  BY <1>1, <1>3 DEF TurnInv, RepliesMatchInTurn
<1>4. CASE out' # out
  <2> SUFFICES ASSUME TurnMode
               PROVE  \A k \in 1 .. Len(out') : \A p \in 1 .. Len(out'[k].reply) :
                        out'[k].reply[p].call = out'[k].call
    BY <1>1 DEF RepliesMatchInTurn, TurnMode
  <2>1. Background
    BY DEF Background, TurnInv
  <2> DEFINE i == requests[1]
             c == calls[i].buf
  <2>2. /\ requests # <<>> /\ i \in 1 .. Calls /\ calls[i].phase = "reading"
        /\ c \in Seq(Piece) /\ stream \in Seq(Piece) /\ OnWire = c \o stream
    BY <1>4, <2>1, OutputStep, OldestRead, Grounds
  <2>3. PICK reply \in Seq(Piece) :
          /\ out' = Append(out, [call |-> i, reply |-> reply])
          /\ \/ sock = "lost" /\ reply = c
             \/ \E n \in 1 .. Len(stream) :
                  LET b == c \o SubSeq(stream, 1, n)
                  IN  /\ b \in Seq(Piece) /\ (mode.split \/ stream[n].last)
                      /\ \/ Complete(b) /\ reply = FirstValue(b)
                         \/ mode.late /\ ~Complete(b)
    BY <1>4, OutputStep
  <2> HIDE DEF c
  <2>4. ASSUME NEW b \in Seq(Piece), NEW s \in Seq(Piece), b \o s = c \o stream,
               NEW p \in 1 .. Len(b)
        PROVE  b[p].call = i
    <3>1. b # <<>>
      BY <2>4, EmptySeq
    <3> QED BY <2>1, <2>2, <2>4, <3>1, ReadPieces
  <2>5. ASSUME NEW p \in 1 .. Len(reply) PROVE reply[p].call = i
    <3>1. CASE reply = c
      BY <2>2, <2>4, <2>5, <3>1
    <3>2. CASE reply # c
      <4>1. PICK n \in 1 .. Len(stream) :
              LET b == c \o SubSeq(stream, 1, n)
              IN  /\ (mode.split \/ stream[n].last)
                  /\ \/ Complete(b) /\ reply = FirstValue(b)
                     \/ mode.late /\ ~Complete(b)
        BY <2>3, <3>2
      <4> DEFINE b == c \o SubSeq(stream, 1, n)
                 s == SubSeq(stream, n + 1, Len(stream))
      <4>2. b \in Seq(Piece) /\ s \in Seq(Piece) /\ b \o s = c \o stream
        BY <2>2, Rechunk
      <4>3. stream[n].last => Complete(b)
        BY <2>2, LastCompletes
      <4>4. Complete(b) /\ reply = FirstValue(b)
        BY <4>1, <4>3 DEF TurnMode
      <4> HIDE DEF b, s
      <4>5. p \in 1 .. Len(b) /\ reply[p] = b[p]
        BY <2>5, <4>2, <4>4, FirstValueProperties
      <4> QED BY <2>4, <4>2, <4>5
    <3> QED BY <3>1, <3>2
  <2>6. [call |-> i, reply |-> reply] \in Response
    BY <2>2 DEF Response
  <2>7. /\ Len(out') = Len(out) + 1 /\ Len(out) \in Nat
        /\ \A k \in 1 .. Len(out) : out'[k] = out[k]
        /\ out'[Len(out) + 1] = [call |-> i, reply |-> reply]
    BY <1>2, <2>3, <2>6, AppendProperties, LenProperties
  <2>8. ASSUME NEW k \in 1 .. Len(out'), NEW p \in 1 .. Len(out'[k].reply)
        PROVE  out'[k].reply[p].call = out'[k].call
    <3>1. CASE k \in 1 .. Len(out)
      <4>1. out'[k] = out[k]
        BY <2>7, <3>1
      <4> QED BY <2>8, <3>1, <4>1 DEF TurnInv, RepliesMatchInTurn, TurnMode
    <3>2. CASE k \notin 1 .. Len(out)
      <4>1. k = Len(out) + 1
        BY <2>7, <3>2
      <4>2. out'[k].reply = reply /\ out'[k].call = i
        BY <2>7, <4>1
      <4> QED BY <2>5, <2>8, <4>2
    <3> QED BY <3>1, <3>2
  <2> QED BY <2>8
<1> QED BY <1>3, <1>4

LEMMA TurnHolds ==
  ASSUME LoginInv, Typed, TurnInv, [Next]_vars
  PROVE  TurnInv'
<1>1. CASE Next
  <2>1. Early' /\ mode' = mode
    BY <1>1, NextEarly DEF TurnInv
  <2>2. TurnMode' => Turn'
    BY <1>1, <2>1, NextTurn DEF TurnInv, TurnMode, Background
  <2> QED BY <1>1, <2>1, <2>2, NextMatch DEF TurnInv
<1>2. CASE UNCHANGED vars
  <2>1. UNCHANGED <<mode, stage, sock, calls, requests, stream, answered, out>>
    BY <1>2 DEF vars, ends, io, server
  <2>2. Early' /\ RepliesMatchInTurn' /\ TurnMode' = TurnMode
    BY <2>1 DEF TurnInv, Early, RepliesMatchInTurn, Calls, TurnMode
  <2>3. TurnMode => Turn'
    <3> SUFFICES ASSUME TurnMode PROVE Turn'
      OBVIOUS
    <3>1. Background
      BY DEF TurnInv, Background
    <3>2. UNCHANGED <<mode, calls, requests, stream, answered>> /\ sock' = sock
      BY <2>1
    <3> QED BY <3>1, <3>2, TurnQuiet
  <2> QED BY <2>2, <2>3 DEF TurnInv
<1> QED BY <1>1, <1>2

LEMMA InitTurn == Init => TurnInv
<1> SUFFICES ASSUME Init PROVE TurnInv
  OBVIOUS
<1>1. Len(<<>>) = 0 /\ Calls = 0 /\ Len(requests) = 0 /\ Len(out) = 0 /\ OnWire = <<>>
  BY EmptySeq DEF Init, Calls, OnWire
<1>2. Early /\ RepliesMatchInTurn
  BY <1>1 DEF Init, Early, RepliesMatchInTurn
<1>3. Turn
  BY <1>1 DEF Init, Turn, OneAtATime, InOrder, Replies, NoneEarlier, Buffers
<1> QED BY <1>2, <1>3 DEF TurnInv

THEOREM TurnInvariance == Spec => []TurnInv
<1>1. LoginInv /\ Typed /\ TurnInv /\ [Next]_vars => TurnInv'
  BY TurnHolds
<1> QED BY <1>1, InitTurn, LoginInvariance, TypedInvariance, PTL DEF Spec

(* A response holds pieces of the reply to its own command only, if the    *)
(* browser waits for each answer: replies may be cut anywhere, or come     *)
(* after their command timed out, and fit in the buffer.                   *)
THEOREM ResponsesMatchInTurn == Spec => []RepliesMatchInTurn
<1>1. TurnInv => RepliesMatchInTurn
  BY DEF TurnInv
<1> QED BY <1>1, TurnInvariance, PTL
=============================================================================
