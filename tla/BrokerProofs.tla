---------------------------- MODULE BrokerProofs -----------------------------
(***************************************************************************)
(* Theorems about the way of replies, in the driver and in the broker, for *)
(* any number and length of results, spoiled lines, losses and any room in *)
(* pipe and socket: lines are told from commands, and between the          *)
(* connection and scamper's reader no piece is lost or overtaken.          *)
(***************************************************************************)
EXTENDS Broker, SequenceTheorems, FiniteSetTheorems, TLAPS

Line == {<<"data">>, <<"more">>} \cup ({"uu", "bad"} \X Nat \X Nat)
Piece == Nat \X Nat

TypeInv ==
  /\ variant \in {"driver", "broker"}
  /\ inbound \in Seq(Line) /\ expected \in 0 .. Pieces /\ made \in Nat
  /\ spoiled \in [all : Nat, here : BOOLEAN]
  /\ mailbox \in Seq(Piece) /\ writebuf \in Seq(Piece) /\ pipe \in Seq(Piece)
  /\ parsed \in Seq(Piece) /\ received \in Seq(Piece) /\ forwarded \in Seq(Nat)
  /\ granted \in Nat /\ commands \in Nat /\ more = 0

(* The driver's lines come without the actor and the thread of the other   *)
(* variant, and its commands are those of ScamperDriver.                    *)
IsData(line) == line[1] = "data"
IsCommand(line) == line[1] = "more"

DriverAlone ==
  variant = "driver" =>
    /\ broker = "quit" /\ thread = "none" /\ mailbox = <<>>
    /\ \A i \in DOMAIN inbound : ~IsCommand(inbound[i])

(* As long as no line is spoiled, the lines still expected come first,     *)
(* each DATA has the lines of its result behind it, and there are no other *)
(* lines of results.                                                        *)
ExpectedFirst ==
  /\ expected <= Len(inbound)
  /\ \A i \in 1 .. expected : IsPiece(inbound[i])

DataFollowed ==
  \A i \in DOMAIN inbound : IsData(inbound[i]) =>
    /\ i + Pieces <= Len(inbound)
    /\ \A j \in i + 1 .. i + Pieces : IsPiece(inbound[j])

PiecesAnnounced ==
  \A i \in DOMAIN inbound : IsPiece(inbound[i]) /\ i > expected =>
    \E j \in DOMAIN inbound : j < i /\ i <= j + Pieces /\ IsData(inbound[j])

NoneBad == \A i \in DOMAIN inbound : inbound[i][1] # "bad"

Whole == ExpectedFirst /\ DataFollowed /\ PiecesAnnounced /\ NoneBad

Answered == link = "up" => commands + MoresIn(inbound) = granted

StreamInv == ~spoiled.here => Whole /\ Answered

(* A connection that is being made has received nothing yet, so the        *)
(* decoder that was made before it starts in order; and scamper's reader   *)
(* holds the first pieces of one result, never all.                        *)
NothingYet == broker \in {"new", "connecting", "refused"} => received = <<>>

PartOfResult ==
  /\ Len(parsed) < Pieces
  /\ \A i \in DOMAIN parsed : parsed[i] = <<parsed[1][1], i>>

PathInv == NothingYet /\ PartOfResult /\ PiecesInOrder

IInv == TypeInv /\ DriverAlone /\ StreamInv /\ PathInv

-----------------------------------------------------------------------------
(* Sequences. *)

LEMMA HeadAndTail ==
  ASSUME NEW S, NEW s \in Seq(S), s # <<>>
  PROVE  /\ Head(s) \in S /\ Head(s) = s[1] /\ Tail(s) \in Seq(S)
         /\ Len(s) \in Nat \ {0} /\ Len(Tail(s)) = Len(s) - 1
         /\ \A i \in 1 .. Len(s) - 1 : Tail(s)[i] = s[i + 1]
         /\ s = <<Head(s)>> \o Tail(s)
  <1>1. s = SubSeq(s, 1, Len(s))
    BY SubSeqFull
  <1>2. Len(s) \in Nat \ {0} /\ Head(s) = s[1]
    OBVIOUS
  <1>3. SubSeq(s, 1, Len(s)) = <<s[1]>> \o SubSeq(s, 1 + 1, Len(s))
    BY <1>2, SubSeqRecursiveFirst
  <1>4. Tail(s) = SubSeq(s, 2, Len(s))
    BY TailIsSubSeq
  <1> QED
    BY <1>1, <1>2, <1>3, <1>4, HeadTailProperties

LEMMA OneMoved ==
  ASSUME NEW S, NEW s \in Seq(S), NEW t \in Seq(S), t # <<>>
  PROVE  Append(s, Head(t)) \o Tail(t) = s \o t
  <1>1. Head(t) \in S /\ Tail(t) \in Seq(S) /\ t = <<Head(t)>> \o Tail(t)
    BY HeadAndTail
  <1>2. Append(s, Head(t)) = s \o <<Head(t)>> /\ <<Head(t)>> \in Seq(S)
    BY <1>1, AppendIsConcat
  <1>3. (s \o <<Head(t)>>) \o Tail(t) = s \o (<<Head(t)>> \o Tail(t))
    BY <1>1, <1>2, ConcatAssociative
  <1> QED
    BY <1>1, <1>2, <1>3

LEMMA CommandsFinite ==
  ASSUME NEW lines \in Seq(Line)
  PROVE  /\ IsFiniteSet({i \in DOMAIN lines : lines[i][1] = "more"})
         /\ MoresIn(lines) \in Nat
  <1> DEFINE cmds == {i \in DOMAIN lines : lines[i][1] = "more"}
  <1>1. IsFiniteSet(1 .. Len(lines))
    BY FS_Interval
  <1>2. cmds \subseteq 1 .. Len(lines)
    OBVIOUS
  <1>3. IsFiniteSet(cmds)
    BY <1>1, <1>2, FS_Subset
  <1> QED
    BY <1>3, FS_CardinalityType DEF MoresIn

(* What MORE counts for when lines are taken and added. *)
LEMMA CommandTaken ==
  ASSUME NEW lines \in Seq(Line), lines # <<>>
  PROVE  MoresIn(lines)
           = MoresIn(Tail(lines)) + (IF IsCommand(Head(lines)) THEN 1 ELSE 0)
  <1> DEFINE cmds == {i \in DOMAIN lines : lines[i][1] = "more"}
             later == {i \in DOMAIN Tail(lines) : Tail(lines)[i][1] = "more"}
             moved == [i \in later |-> i + 1]
  <1>1. /\ Head(lines) = lines[1] /\ Tail(lines) \in Seq(Line)
        /\ Len(lines) \in Nat \ {0} /\ Len(Tail(lines)) = Len(lines) - 1
        /\ \A i \in 1 .. Len(lines) - 1 : Tail(lines)[i] = lines[i + 1]
    BY HeadAndTail
  <1>2. IsFiniteSet(cmds) /\ IsFiniteSet(later)
    BY <1>1, CommandsFinite
  <1>3. moved \in Bijection(later, cmds \ {1})
    <2>1. \A i \in later : i \in 1 .. Len(lines) - 1 /\ i + 1 \in cmds \ {1}
      BY <1>1
    <2>2. \A k \in cmds \ {1} : k - 1 \in later
      <3>1. TAKE k \in cmds \ {1}
      <3>2. k - 1 \in 1 .. Len(lines) - 1
        BY <1>1
      <3> QED
        BY <3>2, <1>1
    <2>3. moved \in [later -> cmds \ {1}]
      BY <2>1
    <2>4. \A i, j \in later : moved[i] = moved[j] => i = j
      BY <2>1
    <2>5. \A k \in cmds \ {1} : \E i \in later : moved[i] = k
      <3>1. TAKE k \in cmds \ {1}
      <3>2. k - 1 \in later /\ moved[k - 1] = (k - 1) + 1 /\ k \in Int
        BY <2>2, <1>1
      <3>3. moved[k - 1] = k
        BY <3>2
      <3> QED
        BY <3>2, <3>3
    <2> QED
      BY <2>3, <2>4, <2>5 DEF Bijection, Injection, Surjection, IsInjective
  <1>a. MoresIn(lines) = Cardinality(cmds) /\ MoresIn(Tail(lines)) = Cardinality(later)
    BY DEF MoresIn
  <1>b. (1 \in cmds) <=> IsCommand(Head(lines))
    BY <1>1 DEF IsCommand
  <1> HIDE DEF cmds, later, moved
  <1>c. ExistsBijection(later, cmds \ {1})
    BY <1>3 DEF ExistsBijection
  <1>4. Cardinality(later) = Cardinality(cmds \ {1})
    BY <1>2, <1>c, FS_Bijection
  <1>5. CASE IsCommand(Head(lines))
    <2>1. 1 \in cmds
      BY <1>b, <1>5
    <2>2. Cardinality(cmds \ {1}) = Cardinality(cmds) - 1 /\ Cardinality(cmds) \in Nat
      BY <1>2, <2>1, FS_RemoveElement, FS_CardinalityType
    <2> QED
      BY <2>2, <1>4, <1>5, <1>a
  <1>6. CASE ~IsCommand(Head(lines))
    <2>1. cmds \ {1} = cmds
      BY <1>b, <1>6
    <2>2. Cardinality(cmds) \in Nat
      BY <1>2, FS_CardinalityType
    <2>3. Cardinality(later) = Cardinality(cmds)
      BY <2>1, <1>4
    <2> QED
      BY <2>2, <2>3, <1>6, <1>a
  <1> QED
    BY <1>5, <1>6

LEMMA CommandAdded ==
  ASSUME NEW lines \in Seq(Line)
  PROVE  MoresIn(Append(lines, <<"more">>)) = MoresIn(lines) + 1
  <1> DEFINE cmds == {i \in DOMAIN lines : lines[i][1] = "more"}
             longer == Append(lines, <<"more">>)
             all == {i \in DOMAIN longer : longer[i][1] = "more"}
  <1>1. IsFiniteSet(cmds)
    BY CommandsFinite
  <1>2. DOMAIN longer = 1 .. Len(lines) + 1 /\ Len(lines) \in Nat
    OBVIOUS
  <1>3. \A i \in 1 .. Len(lines) : longer[i] = lines[i]
    OBVIOUS
  <1>4. longer[Len(lines) + 1] = <<"more">>
    OBVIOUS
  <1>5. all = cmds \cup {Len(lines) + 1} /\ Len(lines) + 1 \notin cmds
    BY <1>2, <1>3, <1>4
  <1>6. Cardinality(cmds \cup {Len(lines) + 1}) = Cardinality(cmds) + 1
    BY <1>1, <1>5, FS_AddElement
  <1> QED
    BY <1>5, <1>6 DEF MoresIn

LEMMA WholeResult ==
  ASSUME NEW r \in Nat, NEW bad \in 0 .. Pieces
  PROVE  /\ Result(r, bad) \in Seq(Line) /\ Len(Result(r, bad)) = Pieces + 1
         /\ Result(r, bad)[1] = <<"data">>
         /\ \A i \in 2 .. Pieces + 1 :
              Result(r, bad)[i] = <<IF i - 1 = bad THEN "bad" ELSE "uu", r, i - 1>>
  <1> DEFINE body == [i \in 1 .. Pieces |-> <<IF i = bad THEN "bad" ELSE "uu", r, i>>]
  <1>1. Pieces \in Nat \ {0}
    BY ReplyAssumption
  <1>2. \A i \in 1 .. Pieces : body[i] \in Line
    BY <1>1 DEF Line
  <1>3. body \in Seq(Line) /\ Len(body) = Pieces
    BY <1>1, <1>2
  <1>4. <<<<"data">>>> \in Seq(Line) /\ Len(<<<<"data">>>>) = 1
    BY DEF Line
  <1>5. Result(r, bad) = <<<<"data">>>> \o body
    BY DEF Result
  <1> HIDE DEF body
  <1>6. /\ Result(r, bad) \in Seq(Line) /\ Len(Result(r, bad)) = 1 + Pieces
        /\ \A i \in 1 .. 1 + Pieces :
             Result(r, bad)[i] = IF i <= 1 THEN <<<<"data">>>>[i] ELSE body[i - 1]
    BY <1>3, <1>4, <1>5, ConcatProperties
  <1>7. Result(r, bad)[1] = <<"data">>
    BY <1>1, <1>6
  <1>8. ASSUME NEW i \in 2 .. Pieces + 1
        PROVE  Result(r, bad)[i] = <<IF i - 1 = bad THEN "bad" ELSE "uu", r, i - 1>>
    <2>1. i \in 1 .. 1 + Pieces /\ ~(i <= 1) /\ i - 1 \in 1 .. Pieces
      BY <1>1
    <2>2. Result(r, bad)[i] = body[i - 1]
      BY <1>6, <2>1
    <2> QED
      BY <2>1, <2>2 DEF body
  <1> QED
    BY <1>1, <1>6, <1>7, <1>8

LEMMA ResultAdded ==
  ASSUME NEW lines \in Seq(Line), NEW r \in Nat, NEW bad \in 0 .. Pieces
  PROVE  /\ lines \o Result(r, bad) \in Seq(Line)
         /\ Len(lines \o Result(r, bad)) = Len(lines) + Pieces + 1
         /\ \A i \in 1 .. Len(lines) : (lines \o Result(r, bad))[i] = lines[i]
         /\ \A k \in 1 .. Pieces + 1 :
              (lines \o Result(r, bad))[Len(lines) + k] = Result(r, bad)[k]
         /\ MoresIn(lines \o Result(r, bad)) = MoresIn(lines)
  <1> DEFINE longer == lines \o Result(r, bad)
  <1>1. Pieces \in Nat \ {0} /\ Len(lines) \in Nat
    BY ReplyAssumption
  <1>2. /\ longer \in Seq(Line) /\ Len(longer) = Len(lines) + (Pieces + 1)
        /\ \A i \in 1 .. Len(lines) + (Pieces + 1) :
             longer[i] = IF i <= Len(lines) THEN lines[i] ELSE Result(r, bad)[i - Len(lines)]
    BY WholeResult, ConcatProperties
  <1>3. \A i \in 1 .. Len(lines) : longer[i] = lines[i]
    BY <1>1, <1>2
  <1>4. ASSUME NEW k \in 1 .. Pieces + 1
        PROVE  longer[Len(lines) + k] = Result(r, bad)[k]
    <2>1. Len(lines) + k \in 1 .. Len(lines) + (Pieces + 1) /\ ~(Len(lines) + k <= Len(lines))
          /\ (Len(lines) + k) - Len(lines) = k
      BY <1>1
    <2> QED
      BY <1>2, <2>1
  <1> HIDE DEF longer
  <1>5. \A k \in 1 .. Pieces + 1 : Result(r, bad)[k][1] # "more"
    BY WholeResult
  <1>6. DOMAIN longer = 1 .. Len(lines) + (Pieces + 1) /\ DOMAIN lines = 1 .. Len(lines)
    BY <1>2
  <1>7. {i \in DOMAIN longer : longer[i][1] = "more"}
          = {i \in DOMAIN lines : lines[i][1] = "more"}
    <2>1. ASSUME NEW i \in DOMAIN longer, i \notin DOMAIN lines
          PROVE  longer[i][1] # "more"
      <3>1. i - Len(lines) \in 1 .. Pieces + 1 /\ Len(lines) + (i - Len(lines)) = i
        BY <1>1, <1>6, <2>1
      <3> QED
        BY <1>4, <1>5, <3>1
    <2> QED
      BY <1>1, <1>3, <1>6, <2>1
  <1>8. MoresIn(longer) = MoresIn(lines)
    BY <1>7 DEF MoresIn
  <1> QED
    BY <1>1, <1>2, <1>3, <1>4, <1>8 DEF longer

-----------------------------------------------------------------------------
(* The state is what the actions take it to be. *)

LEMMA LineFacts ==
  ASSUME NEW line \in Line
  PROVE  /\ line[1] \in {"data", "more", "uu", "bad"}
         /\ IsPiece(line) => PieceOf(line) \in Piece
         /\ LeftAfter(line) \in (IF expected = 0 THEN {0, Pieces} ELSE {expected, expected - 1})
  BY DEF Line, IsPiece, PieceOf, Piece, LeftAfter, Decodes

LEMMA TypeTaken ==
  ASSUME TypeInv, inbound # <<>>, TakeLine
  PROVE  /\ inbound' \in Seq(Line) /\ expected' \in 0 .. Pieces
         /\ received' \in Seq(Piece)
         /\ Decodes(Head(inbound)) => PieceOf(Head(inbound)) \in Piece
  <1>1. Head(inbound) \in Line /\ Tail(inbound) \in Seq(Line)
    BY HeadAndTail DEF TypeInv
  <1>2. LeftAfter(Head(inbound)) \in 0 .. Pieces
    <2>1. Pieces \in Nat /\ expected \in 0 .. Pieces
      BY ReplyAssumption DEF TypeInv
    <2>2. LeftAfter(Head(inbound))
            \in (IF expected = 0 THEN {0, Pieces} ELSE {expected, expected - 1})
      BY <1>1, LineFacts
    <2> QED
      BY <2>1, <2>2
  <1>3. Decodes(Head(inbound)) => PieceOf(Head(inbound)) \in Piece
    BY <1>1, LineFacts DEF Decodes
  <1> QED
    BY <1>1, <1>2, <1>3, AppendProperties DEF TypeInv, TakeLine

LEMMA TypeWritten ==
  ASSUME TypeInv, DecodeWrite
  PROVE  /\ pipe' \in Seq(Piece) /\ writebuf' \in Seq(Piece)
         /\ pipe' \o writebuf' = pipe \o writebuf
  <1> DEFINE room == PipeRoom - Len(pipe)
             n == IF Len(writebuf) <= room THEN Len(writebuf) ELSE room
  <1>1. /\ writebuf \in Seq(Piece) /\ pipe \in Seq(Piece) /\ Len(writebuf) \in Nat
        /\ Len(pipe) \in Nat /\ PipeRoom \in Nat
    BY ReplyAssumption DEF TypeInv
  <1>2. room > 0 /\ n \in 0 .. Len(writebuf)
    BY <1>1 DEF DecodeWrite
  <1>3. /\ pipe' = pipe \o SubSeq(writebuf, 1, n)
        /\ writebuf' = SubSeq(writebuf, n + 1, Len(writebuf))
    BY DEF DecodeWrite
  <1> HIDE DEF n
  <1>4. SubSeq(writebuf, 1, n) \in Seq(Piece)
    BY <1>1, <1>2
  <1>5. SubSeq(writebuf, n + 1, Len(writebuf)) \in Seq(Piece)
    BY <1>1, <1>2
  <1>6. SubSeq(writebuf, 1, n) \o SubSeq(writebuf, n + 1, Len(writebuf)) = writebuf
    <2>1. 1 \in 1 .. Len(writebuf) + 1 /\ n \in 1 - 1 .. Len(writebuf)
          /\ Len(writebuf) \in n .. Len(writebuf)
      BY <1>1, <1>2
    <2>2. SubSeq(writebuf, 1, n) \o SubSeq(writebuf, n + 1, Len(writebuf))
            = SubSeq(writebuf, 1, Len(writebuf))
      BY <1>1, <2>1, ConcatAdjacentSubSeq
    <2> QED
      BY <1>1, <2>2, SubSeqFull
  <1> DEFINE first == SubSeq(writebuf, 1, n)
             rest == SubSeq(writebuf, n + 1, Len(writebuf))
  <1>7. pipe' \o writebuf' = pipe \o writebuf
    <2>1. first \in Seq(Piece) /\ rest \in Seq(Piece) /\ first \o rest = writebuf
          /\ pipe' = pipe \o first /\ writebuf' = rest
      BY <1>3, <1>4, <1>5, <1>6
    <2> HIDE DEF first, rest
    <2>2. (pipe \o first) \o rest = pipe \o (first \o rest)
      <3>1. \A s, t, u \in Seq(Piece) : (s \o t) \o u = s \o (t \o u)
        BY ConcatAssociative
      <3> QED
        BY <1>1, <2>1, <3>1
    <2> QED
      BY <2>1, <2>2
  <1> QED
    BY <1>1, <1>3, <1>4, <1>5, <1>7, ConcatProperties

LEMMA TypeRead ==
  ASSUME TypeInv, DecodeReadPart
  PROVE  /\ Head(pipe) \in Piece /\ pipe' \in Seq(Piece) /\ parsed' \in Seq(Piece)
         /\ forwarded' \in Seq(Nat)
  <1>1. pipe \in Seq(Piece) /\ pipe # <<>> /\ parsed \in Seq(Piece)
    BY DEF TypeInv, DecodeReadPart
  <1>2. Head(pipe) \in Piece /\ Tail(pipe) \in Seq(Piece) /\ Head(pipe)[1] \in Nat
    BY <1>1, HeadAndTail DEF Piece
  <1>3. forwarded \in Seq(Nat) /\ <<>> \in Seq(Piece)
    BY DEF TypeInv
  <1>4. CASE Len(parsed) + 1 = Pieces
    <2>1. parsed' = <<>> /\ forwarded' = Append(forwarded, Head(pipe)[1])
          /\ pipe' = Tail(pipe)
      BY <1>4 DEF DecodeReadPart
    <2>2. Append(forwarded, Head(pipe)[1]) \in Seq(Nat)
      BY <1>2, <1>3, AppendProperties
    <2> QED
      BY <1>2, <1>3, <2>1, <2>2
  <1>5. CASE Len(parsed) + 1 # Pieces
    BY SMTT(30), <1>1, <1>2, <1>3, <1>5, AppendProperties DEF DecodeReadPart
  <1> QED
    BY <1>4, <1>5

LEMMA TypeThread == TypeInv /\ ThreadStep => TypeInv'
  <1> SUFFICES ASSUME TypeInv, ThreadStep PROVE TypeInv'
    OBVIOUS
  <1> USE DEF ThreadStep, brokerVars, sideVars
  <1>1. CASE ThreadStart
    BY <1>1 DEF ThreadStart, TypeInv, replyVars, lineVars, decodeVars
  <1>2. CASE ThreadCheck
    BY <1>2 DEF ThreadCheck, TypeInv, replyVars, lineVars, decodeVars
  <1>3. CASE HandleNotifyRead
    BY <1>3 DEF HandleNotifyRead, TypeInv, replyVars, lineVars, decodeVars
  <1>4. CASE ReceiveAll
    <2>1. writebuf \o mailbox \in Seq(Piece) /\ <<>> \in Seq(Piece)
      BY ConcatProperties DEF TypeInv
    <2> QED
      BY <1>4, <2>1 DEF ReceiveAll, Buffer, TypeInv, lineVars
  <1>5. CASE HandleDecodeWrite
    <2>1. pipe' \in Seq(Piece) /\ writebuf' \in Seq(Piece)
      BY <1>5, TypeWritten DEF HandleDecodeWrite
    <2> QED
      BY <1>5, <2>1 DEF HandleDecodeWrite, DecodeWrite, TypeInv, lineVars
  <1>6. CASE HandleDecodeRead
    <2>1. CASE DecodeReadPart
      BY <1>6, <2>1, TypeRead DEF HandleDecodeRead, DecodeReadPart, TypeInv, lineVars
    <2>2. CASE DecodeReadFails
      BY <1>6, <2>2 DEF HandleDecodeRead, DecodeReadFails, TypeInv, lineVars
    <2> QED
      BY <1>6, <2>1, <2>2 DEF HandleDecodeRead, DecodeRead
  <1> QED
    BY <1>1, <1>2, <1>3, <1>4, <1>5, <1>6 DEF Thread

LEMMA TypeDriver == TypeInv /\ DriverStep => TypeInv'
  <1> SUFFICES ASSUME TypeInv, DriverStep PROVE TypeInv'
    OBVIOUS
  <1> USE DEF DriverStep, threadVars, brokerVars, sideVars
  <1>1. CASE DriverRead
    <2>1. inbound # <<>> /\ TakeLine
      BY <1>1 DEF DriverRead
    <2> DEFINE new == IF Decodes(Head(inbound)) THEN <<PieceOf(Head(inbound))>> ELSE <<>>
    <2>2. new \in Seq(Piece)
      BY <2>1, TypeTaken
    <2> HIDE DEF new
    <2>3. writebuf \o new \in Seq(Piece)
      BY <2>2, ConcatProperties DEF TypeInv
    <2>4. writebuf' = writebuf \o new
      BY <1>1 DEF DriverRead, Buffer, new
    <2> QED
      BY <1>1, <2>1, <2>3, <2>4, TypeTaken DEF DriverRead, TypeInv
  <1>2. CASE DriverDecodeWrite
    <2>1. pipe' \in Seq(Piece) /\ writebuf' \in Seq(Piece)
      BY <1>2, TypeWritten DEF DriverDecodeWrite
    <2> QED
      BY <1>2, <2>1 DEF DriverDecodeWrite, DecodeWrite, TypeInv, lineVars
  <1>3. CASE DriverDecodeRead
    <2>1. CASE DecodeReadPart
      BY <2>1, TypeRead DEF DecodeReadPart, TypeInv, lineVars
    <2>2. CASE DecodeReadFails
      BY <2>2 DEF DecodeReadFails, TypeInv, lineVars
    <2> QED
      BY <1>3, <2>1, <2>2 DEF DriverDecodeRead, DecodeRead
  <1>4. CASE DriverLoses
    BY <1>4 DEF DriverLoses, TypeInv, decodeVars
  <1> QED
    BY <1>1, <1>2, <1>3, <1>4 DEF DriverLoop

LEMMA TypeDaemon == TypeInv /\ Daemon => TypeInv'
  <1> SUFFICES ASSUME TypeInv, Daemon PROVE TypeInv'
    OBVIOUS
  <1> USE DEF threadVars
  <1>1. CASE DaemonSends
    <2>1. PICK bad \in 0 .. Pieces : SendResult(bad)
      BY <1>1 DEF DaemonSends
    <2>2. inbound \o Result(made + 1, bad) \in Seq(Line)
      <3>1. made + 1 \in Nat /\ inbound \in Seq(Line)
        BY DEF TypeInv
      <3> QED
        BY <3>1, ResultAdded
    <2>3. spoiled' \in [all : Nat, here : BOOLEAN]
      BY <2>1 DEF SendResult, TypeInv
    <2>4. /\ inbound' = inbound \o Result(made + 1, bad) /\ made' = made + 1
          /\ UNCHANGED <<variant, link, expected, decodeVars, received>>
          /\ UNCHANGED <<threadVars, brokerVars>>
      BY <1>1, <2>1 DEF DaemonSends, SendResult
    <2> QED
      BY <2>2, <2>3, <2>4 DEF TypeInv, decodeVars, brokerVars, sideVars
  <1>2. CASE SendMore
    <2>1. Append(inbound, <<"more">>) \in Seq(Line)
      BY AppendProperties DEF TypeInv, Line
    <2> QED
      BY <1>2, <2>1 DEF SendMore, TypeInv, decodeVars
  <1>3. CASE Lose
    BY <1>3 DEF Lose, TypeInv, decodeVars
  <1>4. CASE DaemonAway
    BY <1>4 DEF DaemonAway, TypeInv, replyVars, lineVars, decodeVars
  <1>5. CASE DaemonBack
    BY <1>5 DEF DaemonBack, TypeInv, replyVars, lineVars, decodeVars
  <1> QED
    BY <1>1, <1>2, <1>3, <1>4, <1>5 DEF Daemon

LEMMA TypeBroker == TypeInv /\ (BrokerStep \/ Request \/ Done) => TypeInv'
  <1> SUFFICES ASSUME TypeInv, BrokerStep \/ Request \/ Done PROVE TypeInv'
    OBVIOUS
  <1>0. <<>> \in Seq(Piece) /\ <<>> \in Seq(Line) /\ <<>> \in Seq(Nat) /\ 0 \in 0 .. Pieces
    BY ReplyAssumption
  <1> USE DEF sideVars, lineVars, decodeVars, replyVars
  <1>1. CASE Connect
    BY <1>0, <1>1 DEF Connect, Make, Fresh, TypeInv
  <1>2. CASE Connected
    BY <1>0, <1>2 DEF Connected, NewInstance, NoInstance, threadVars, TypeInv
  <1>3. CASE ConnectFails
    BY <1>3 DEF ConnectFails, Stop, TypeInv
  <1>4. CASE ConnectFailed
    BY <1>0, <1>4 DEF ConnectFailed, Join, Fresh, TypeInv
  <1>5. CASE Reconnect
    BY <1>0, <1>5 DEF Reconnect, NewInstance, NoInstance, Make, Fresh, TypeInv
  <1>6. CASE ReconnectFails
    BY <1>6 DEF ReconnectFails, threadVars, TypeInv
  <1>7. CASE ReconnectDue
    BY <1>7 DEF ReconnectDue, threadVars, TypeInv
  <1>8. CASE NewData
    <2>1. inbound # <<>> /\ TakeLine
      BY <1>8 DEF NewData
    <2>2. mailbox' \in Seq(Piece)
      <3>1. mailbox \in Seq(Piece)
        BY DEF TypeInv
      <3>2. CASE Decodes(Head(inbound))
        <4>1. mailbox' = Append(mailbox, PieceOf(Head(inbound)))
          BY <1>8, <3>2 DEF NewData, WriteMessage
        <4> QED
          BY <2>1, <3>1, <3>2, <4>1, TypeTaken, AppendProperties
      <3>3. CASE ~Decodes(Head(inbound))
        BY <1>8, <3>1, <3>3 DEF NewData
      <3> QED
        BY <3>2, <3>3
    <2>3. commands' \in Nat /\ more' = 0
      BY <1>8 DEF NewData, SendRequests, TypeInv
    <2> QED
      BY <1>8, <2>1, <2>2, <2>3, TypeTaken DEF NewData, TypeInv
  <1>9. CASE DataNotified
    BY <1>9 DEF DataNotified, TypeInv
  <1>10. CASE Request
    BY <1>10 DEF Request, SendRequests, threadVars, TypeInv
  <1>11. CASE ConnectionClosed
    BY <1>11 DEF ConnectionClosed, Stop, TypeInv
  <1>12. CASE DecoderReset
    BY <1>0, <1>12 DEF DecoderReset, NoInstance, Join, Fresh, TypeInv
  <1>13. CASE Done
    BY <1>13 DEF Done, Stop, threadVars, TypeInv
  <1>14. CASE Quit
    BY <1>0, <1>14 DEF Quit, Join, Fresh, TypeInv
  <1> QED
    BY <1>1, <1>2, <1>3, <1>4, <1>5, <1>6, <1>7, <1>8, <1>9, <1>10, <1>11, <1>12,
       <1>13, <1>14
    DEF BrokerStep

-----------------------------------------------------------------------------
(* What a step does to the lines: they are those of a new connection, or   *)
(* one is taken, or some are added, or nothing happens to them.            *)

NewLines ==
  /\ inbound' = <<>> /\ expected' = 0 /\ ~spoiled'.here
  /\ link' = "up" => commands' = 0 /\ granted' = 0

LineTaken ==
  /\ inbound # <<>> /\ TakeLine /\ UNCHANGED <<link, spoiled, granted>>
  /\ commands' = commands
       + (IF variant = "broker" /\ IsMore(Head(inbound)) THEN 1 ELSE 0)

ResultSent ==
  /\ \E bad \in 0 .. Pieces : SendResult(bad)
  /\ UNCHANGED <<granted, commands>>

MoreSent ==
  /\ variant = "broker"
  /\ inbound' = Append(inbound, <<"more">>) /\ granted' = granted + 1
  /\ UNCHANGED <<link, expected, spoiled, commands>>

LinesKept ==
  /\ UNCHANGED <<inbound, expected, spoiled, granted, commands>>
  /\ link' = "up" => link = "up"

LEMMA LineSteps ==
  ASSUME TypeInv, DriverAlone, [Next]_vars
  PROVE  /\ NewLines \/ LineTaken \/ ResultSent \/ MoreSent \/ LinesKept
         /\ variant' = variant
  <1> USE DEF sideVars, lineVars, decodeVars, replyVars, threadVars, brokerVars
  <1>0. link' = link => (link' = "up" => link = "up")
    OBVIOUS
  <1>1. CASE Daemon
    <2>1. CASE DaemonSends
      BY <2>1 DEF DaemonSends, ResultSent, SendResult
    <2>2. CASE SendMore
      BY <2>2 DEF SendMore, MoreSent
    <2>3. CASE Lose
      BY <2>3 DEF Lose, LinesKept
    <2>4. CASE DaemonAway
      BY <2>4 DEF DaemonAway, LinesKept
    <2>5. CASE DaemonBack
      BY <2>5 DEF DaemonBack, LinesKept
    <2> QED
      BY <1>1, <2>1, <2>2, <2>3, <2>4, <2>5 DEF Daemon
  <1>2. CASE BrokerStep
    <2>1. CASE Connect
      BY <2>1 DEF Connect, LinesKept
    <2>2. CASE Connected
      BY <2>2 DEF Connected, NewInstance, NoInstance, NewLines, TypeInv
    <2>3. CASE ConnectFails
      BY <2>3 DEF ConnectFails, LinesKept
    <2>4. CASE ConnectFailed
      BY <2>4 DEF ConnectFailed, LinesKept
    <2>5. CASE Reconnect
      BY <2>5 DEF Reconnect, NewInstance, NoInstance, NewLines, TypeInv
    <2>6. CASE ReconnectFails
      BY <2>6 DEF ReconnectFails, LinesKept
    <2>7. CASE ReconnectDue
      BY <2>7 DEF ReconnectDue, LinesKept
    <2>8. CASE NewData
      <3>1. variant = "broker"
        BY <2>8 DEF NewData, DriverAlone, TypeInv
      <3>2. commands' = commands + (IF IsMore(Head(inbound)) THEN more + 1 ELSE more)
        BY <2>8 DEF NewData, SendRequests
      <3>3. more = 0 /\ commands \in Nat
        BY DEF TypeInv
      <3>4. commands' = commands
              + (IF variant = "broker" /\ IsMore(Head(inbound)) THEN 1 ELSE 0)
        BY <3>1, <3>2, <3>3
      <3> QED
        BY <2>8, <3>4 DEF NewData, LineTaken
    <2>9. CASE DataNotified
      BY <2>9 DEF DataNotified, LinesKept
    <2>10. CASE ConnectionClosed
      BY <2>10 DEF ConnectionClosed, LinesKept
    <2>11. CASE DecoderReset
      BY <2>11 DEF DecoderReset, NoInstance, NewLines, TypeInv
    <2>12. CASE Quit
      BY <2>12 DEF Quit, LinesKept
    <2> QED
      BY <1>2, <2>1, <2>2, <2>3, <2>4, <2>5, <2>6, <2>7, <2>8, <2>9, <2>10, <2>11, <2>12
      DEF BrokerStep
  <1>3. CASE Request
    BY <1>3 DEF Request, SendRequests, LinesKept, TypeInv
  <1>4. CASE Done
    BY <1>4 DEF Done, LinesKept
  <1>5. CASE ThreadStep
    <2> USE <1>5 DEF ThreadStep, LinesKept
    <2>1. CASE ThreadStart
      BY <2>1 DEF ThreadStart
    <2>2. CASE ThreadCheck
      BY <2>2 DEF ThreadCheck
    <2>3. CASE HandleNotifyRead
      BY <2>3 DEF HandleNotifyRead
    <2>4. CASE ReceiveAll
      BY <2>4 DEF ReceiveAll
    <2>5. CASE HandleDecodeWrite
      BY <2>5 DEF HandleDecodeWrite, DecodeWrite
    <2>6. CASE HandleDecodeRead
      BY <2>6 DEF HandleDecodeRead, DecodeRead, DecodeReadPart, DecodeReadFails
    <2> QED
      BY <2>1, <2>2, <2>3, <2>4, <2>5, <2>6 DEF Thread
  <1>6. CASE DriverStep
    <2>0. UNCHANGED <<granted, commands>>
      BY <1>6 DEF DriverStep
    <2>1. CASE DriverRead
      <3>1. variant = "driver" /\ commands \in Nat
        BY <2>1 DEF DriverRead, TypeInv
      <3> QED
        BY <2>0, <2>1, <3>1 DEF DriverRead, LineTaken
    <2>2. CASE DriverDecodeWrite
      BY <2>0, <2>2 DEF DriverDecodeWrite, DecodeWrite, LinesKept
    <2>3. CASE DriverDecodeRead
      BY <2>0, <2>3 DEF DriverDecodeRead, DecodeRead, DecodeReadPart, DecodeReadFails,
                        LinesKept
    <2>4. CASE DriverLoses
      BY <2>0, <2>4 DEF DriverLoses, LinesKept
    <2> QED
      BY <1>6, <2>1, <2>2, <2>3, <2>4 DEF DriverStep, DriverLoop
  <1>7. CASE UNCHANGED vars
    BY <1>7 DEF vars, LinesKept
  <1> QED
    BY <1>1, <1>2, <1>3, <1>4, <1>5, <1>6, <1>7 DEF Next

(* Taking a line from a stream without spoiled lines: the head is expected, *)
(* or it is a DATA or a command.                                            *)
LEMMA HeadOfWhole ==
  ASSUME TypeInv, Whole, inbound # <<>>
  PROVE  /\ Head(inbound) = inbound[1] /\ Head(inbound) \in Line
         /\ expected > 0 => IsPiece(Head(inbound))
         /\ expected = 0 => IsData(Head(inbound)) \/ IsCommand(Head(inbound))
  <1>1. /\ Head(inbound) = inbound[1] /\ Head(inbound) \in Line
        /\ Len(inbound) \in Nat \ {0} /\ Pieces \in Nat \ {0} /\ expected \in Nat
    BY HeadAndTail, ReplyAssumption DEF TypeInv
  <1>2. expected > 0 => IsPiece(inbound[1])
    BY <1>1 DEF Whole, ExpectedFirst
  <1>3. expected = 0 => ~IsPiece(inbound[1])
    BY <1>1 DEF Whole, PiecesAnnounced
  <1>4. ASSUME expected = 0
        PROVE  IsData(inbound[1]) \/ IsCommand(inbound[1])
    <2>1. \A i \in DOMAIN inbound : i >= 1
      BY SMTT(30)
    <2>2. inbound[1][1] \in {"data", "more", "uu", "bad"}
      BY <1>1, LineFacts
    <2>3. inbound[1][1] # "bad"
      BY <1>1 DEF Whole, NoneBad
    <2> QED
      BY <1>3, <1>4, <2>2, <2>3 DEF IsPiece, IsData, IsCommand
  <1> QED
    BY <1>1, <1>2, <1>4

LEMMA WholeTaken ==
  ASSUME TypeInv, Whole, inbound # <<>>, TakeLine
  PROVE  Whole' /\ (IsMore(Head(inbound)) <=> IsCommand(Head(inbound)))
  <1> DEFINE line == Head(inbound)
             N == Len(inbound)
  <1>1. /\ line = inbound[1] /\ line \in Line /\ N \in Nat \ {0}
        /\ expected \in 0 .. Pieces /\ Pieces \in Nat \ {0} /\ expected <= N
        /\ DOMAIN inbound = 1 .. N
    BY HeadAndTail, ReplyAssumption DEF TypeInv, Whole, ExpectedFirst
  <1>2. /\ inbound' = Tail(inbound) /\ Len(inbound') = N - 1
        /\ DOMAIN inbound' = 1 .. N - 1
        /\ \A i \in 1 .. N - 1 : inbound'[i] = inbound[i + 1]
    BY HeadAndTail DEF TypeInv, TakeLine
  <1>3. expected' = LeftAfter(line)
    BY DEF TakeLine
  <1>4. NoneBad'
    <2>1. ASSUME NEW i \in 1 .. N - 1 PROVE inbound'[i][1] # "bad"
      <3>1. i + 1 \in 1 .. N /\ inbound'[i] = inbound[i + 1]
        BY <1>1, <1>2
      <3> QED
        BY <1>1, <3>1 DEF Whole, NoneBad
    <2> QED
      BY <1>2, <2>1 DEF NoneBad
  <1>5. DataFollowed'
    <2>1. ASSUME NEW i \in 1 .. N - 1, IsData(inbound'[i])
          PROVE  i + Pieces <= N - 1 /\ \A j \in i + 1 .. i + Pieces : IsPiece(inbound'[j])
      <3>1. i + 1 \in 1 .. N /\ IsData(inbound[i + 1])
        BY <1>1, <1>2, <2>1 DEF IsData
      <3>2. /\ i + 1 + Pieces <= N
            /\ \A k \in i + 1 + 1 .. i + 1 + Pieces : IsPiece(inbound[k])
        BY <1>1, <3>1 DEF Whole, DataFollowed
      <3>3. ASSUME NEW j \in i + 1 .. i + Pieces PROVE IsPiece(inbound'[j])
        <4>1. j \in 1 .. N - 1 /\ j + 1 \in i + 1 + 1 .. i + 1 + Pieces
          BY <1>1, <3>2
        <4>2. inbound'[j] = inbound[j + 1] /\ IsPiece(inbound[j + 1])
          BY <1>2, <3>2, <4>1
        <4> QED
          BY <4>2
      <3> QED
        BY <1>1, <3>2, <3>3
    <2> QED
      BY <1>2, <2>1 DEF DataFollowed, IsData, IsPiece
  <1>6. CASE expected > 0
    <2>1. IsPiece(line) /\ Decodes(line)
      BY <1>6, HeadOfWhole DEF Decodes
    <2>2. expected' = expected - 1
      BY <1>3, <1>6, <2>1 DEF LeftAfter, Decodes
    <2>3. ExpectedFirst'
      <3>1. ASSUME NEW i \in 1 .. expected' PROVE IsPiece(inbound'[i])
        <4>1. i \in 1 .. N - 1 /\ i + 1 \in 1 .. expected
          BY <1>1, <1>6, <2>2
        <4> QED
          BY <1>2, <4>1 DEF Whole, ExpectedFirst
      <3> QED
        BY <1>1, <1>2, <2>2, <3>1 DEF ExpectedFirst, IsPiece
    <2>4. PiecesAnnounced'
      <3>1. ASSUME NEW i \in 1 .. N - 1, IsPiece(inbound'[i]), i > expected'
            PROVE  \E j \in 1 .. N - 1 : j < i /\ i <= j + Pieces /\ IsData(inbound'[j])
        <4>1. i + 1 \in 1 .. N /\ IsPiece(inbound[i + 1]) /\ i + 1 > expected
          BY <1>1, <1>2, <2>2, <3>1
        <4>2. PICK j \in 1 .. N : j < i + 1 /\ i + 1 <= j + Pieces /\ IsData(inbound[j])
          BY <1>1, <4>1 DEF Whole, PiecesAnnounced
        <4>3. j # 1
          BY <1>1, <2>1, <4>2 DEF IsData, IsPiece
        <4>4. j - 1 \in 1 .. N - 1 /\ inbound'[j - 1] = inbound[(j - 1) + 1] /\ (j - 1) + 1 = j
          BY <1>1, <1>2, <4>2, <4>3
        <4> QED
          BY <1>1, <4>2, <4>4
      <3> QED
        BY <1>2, <3>1 DEF PiecesAnnounced, IsPiece, IsData
    <2>5. ~IsMore(line) /\ ~IsCommand(line)
      BY <1>6, <2>1 DEF IsMore, IsCommand, IsPiece
    <2> QED
      BY <1>4, <1>5, <2>3, <2>4, <2>5 DEF Whole
  <1>7. CASE expected = 0 /\ IsData(line)
    <2>1. expected' = Pieces
      BY <1>3, <1>7 DEF LeftAfter, Decodes, IsData
    <2>2. 1 + Pieces <= N /\ \A j \in 1 + 1 .. 1 + Pieces : IsPiece(inbound[j])
      BY <1>1, <1>7 DEF Whole, DataFollowed
    <2>3. ExpectedFirst'
      <3>1. ASSUME NEW i \in 1 .. Pieces PROVE IsPiece(inbound'[i])
        <4>1. i \in 1 .. N - 1 /\ i + 1 \in 1 + 1 .. 1 + Pieces
          BY <1>1, <2>2
        <4> QED
          BY <1>2, <2>2, <4>1
      <3>2. Pieces <= N - 1
        BY <1>1, <2>2
      <3> QED
        BY <1>2, <2>1, <3>1, <3>2 DEF ExpectedFirst, IsPiece
    <2>4. PiecesAnnounced'
      <3>1. ASSUME NEW i \in 1 .. N - 1, IsPiece(inbound'[i]), i > expected'
            PROVE  \E j \in 1 .. N - 1 : j < i /\ i <= j + Pieces /\ IsData(inbound'[j])
        <4>1. i + 1 \in 1 .. N /\ IsPiece(inbound[i + 1]) /\ i + 1 > expected /\ i > Pieces
          BY <1>1, <1>2, <1>7, <2>1, <3>1
        <4>2. PICK j \in 1 .. N : j < i + 1 /\ i + 1 <= j + Pieces /\ IsData(inbound[j])
          BY <1>1, <4>1 DEF Whole, PiecesAnnounced
        <4>3. j # 1
          BY <1>1, <4>1, <4>2
        <4>4. j - 1 \in 1 .. N - 1 /\ inbound'[j - 1] = inbound[(j - 1) + 1] /\ (j - 1) + 1 = j
          BY <1>1, <1>2, <4>2, <4>3
        <4> QED
          BY <1>1, <4>2, <4>4
      <3> QED
        BY <1>2, <3>1 DEF PiecesAnnounced, IsPiece, IsData
    <2>5. ~IsMore(line) /\ ~IsCommand(line)
      BY <1>7 DEF IsMore, IsCommand, IsPiece, IsData
    <2> QED
      BY <1>4, <1>5, <2>3, <2>4, <2>5 DEF Whole
  <1>8. CASE expected = 0 /\ IsCommand(line)
    <2>1. expected' = 0
      BY <1>3, <1>8 DEF LeftAfter, Decodes, IsCommand
    <2>2. ExpectedFirst'
      BY <1>1, <1>2, <2>1 DEF ExpectedFirst
    <2>3. PiecesAnnounced'
      <3>1. ASSUME NEW i \in 1 .. N - 1, IsPiece(inbound'[i])
            PROVE  \E j \in 1 .. N - 1 : j < i /\ i <= j + Pieces /\ IsData(inbound'[j])
        <4>1. i + 1 \in 1 .. N /\ IsPiece(inbound[i + 1]) /\ i + 1 > expected
          BY <1>1, <1>2, <1>8, <3>1
        <4>2. PICK j \in 1 .. N : j < i + 1 /\ i + 1 <= j + Pieces /\ IsData(inbound[j])
          BY <1>1, <4>1 DEF Whole, PiecesAnnounced
        <4>3. j # 1
          BY <1>1, <1>8, <4>2 DEF IsData, IsCommand
        <4>4. j - 1 \in 1 .. N - 1 /\ inbound'[j - 1] = inbound[(j - 1) + 1] /\ (j - 1) + 1 = j
          BY <1>1, <1>2, <4>2, <4>3
        <4> QED
          BY <1>1, <4>2, <4>4
      <3> QED
        BY <1>2, <3>1 DEF PiecesAnnounced, IsPiece, IsData
    <2>4. IsMore(line)
      BY <1>8 DEF IsMore, IsCommand
    <2> QED
      BY <1>4, <1>5, <1>8, <2>2, <2>3, <2>4 DEF Whole
  <1> QED
    BY <1>1, <1>6, <1>7, <1>8, HeadOfWhole

(* New lines at the end, a command or a whole result.  The lemma is about   *)
(* any lines that are in themselves as they should be.                      *)
LEMMA WholeMore ==
  ASSUME TypeInv, Whole, MoreSent
  PROVE  Whole'
  <1> DEFINE N == Len(inbound)
  <1>1. N \in Nat /\ expected \in 0 .. Pieces /\ Pieces \in Nat \ {0} /\ DOMAIN inbound = 1 .. N
    BY ReplyAssumption DEF TypeInv
  <1>2. /\ inbound' = Append(inbound, <<"more">>) /\ expected' = expected
        /\ DOMAIN inbound' = 1 .. N + 1 /\ Len(inbound') = N + 1
        /\ \A i \in 1 .. N : inbound'[i] = inbound[i]
        /\ inbound'[N + 1] = <<"more">>
    BY DEF MoreSent, TypeInv
  <1>3. ExpectedFirst' /\ NoneBad'
    BY <1>1, <1>2 DEF Whole, ExpectedFirst, NoneBad, IsPiece
  <1>4. DataFollowed'
    <2>1. ASSUME NEW i \in 1 .. N + 1, IsData(inbound'[i])
          PROVE  i + Pieces <= N + 1 /\ \A j \in i + 1 .. i + Pieces : IsPiece(inbound'[j])
      <3>1. i \in 1 .. N /\ IsData(inbound[i])
        BY <1>1, <1>2, <2>1 DEF IsData
      <3>2. i + Pieces <= N /\ \A j \in i + 1 .. i + Pieces : IsPiece(inbound[j])
        BY <1>1, <3>1 DEF Whole, DataFollowed
      <3> QED
        BY <1>1, <1>2, <3>1, <3>2 DEF IsPiece
    <2> QED
      BY <1>2, <2>1 DEF DataFollowed, IsData, IsPiece
  <1>5. PiecesAnnounced'
    <2>1. ASSUME NEW i \in 1 .. N + 1, IsPiece(inbound'[i]), i > expected
          PROVE  \E j \in 1 .. N + 1 : j < i /\ i <= j + Pieces /\ IsData(inbound'[j])
      <3>1. i \in 1 .. N /\ IsPiece(inbound[i])
        BY <1>1, <1>2, <2>1 DEF IsPiece
      <3>2. PICK j \in 1 .. N : j < i /\ i <= j + Pieces /\ IsData(inbound[j])
        BY <1>1, <2>1, <3>1 DEF Whole, PiecesAnnounced
      <3> QED
        BY <1>1, <1>2, <3>2 DEF IsData
    <2> QED
      BY <1>2, <2>1 DEF PiecesAnnounced, IsPiece, IsData
  <1> QED
    BY <1>3, <1>4, <1>5 DEF Whole

LEMMA WholeSent ==
  ASSUME TypeInv, Whole, SendResult(0)
  PROVE  Whole'
  <1> DEFINE N == Len(inbound)
             new == Result(made + 1, 0)
  <1>1. /\ N \in Nat /\ expected \in 0 .. Pieces /\ Pieces \in Nat \ {0} /\ made + 1 \in Nat
        /\ DOMAIN inbound = 1 .. N /\ inbound \in Seq(Line) /\ 0 \in 0 .. Pieces
    BY ReplyAssumption DEF TypeInv
  <1>2. expected' = expected /\ inbound' = inbound \o new
    BY DEF SendResult
  <1>3. /\ Len(inbound') = N + Pieces + 1 /\ DOMAIN inbound' = 1 .. N + Pieces + 1
        /\ \A i \in 1 .. N : inbound'[i] = inbound[i]
        /\ \A k \in 1 .. Pieces + 1 : inbound'[N + k] = new[k]
    <2>1. /\ inbound' \in Seq(Line) /\ Len(inbound') = N + Pieces + 1
          /\ \A i \in 1 .. N : inbound'[i] = inbound[i]
      BY ZenonT(30), <1>1, <1>2, ResultAdded
    <2>2. \A k \in 1 .. Pieces + 1 : inbound'[N + k] = new[k]
      BY ZenonT(30), <1>1, <1>2, ResultAdded
    <2>3. DOMAIN inbound' = 1 .. Len(inbound')
      BY <2>1
    <2> QED
      BY <2>1, <2>2, <2>3
  <1>4. /\ new[1] = <<"data">>
        /\ \A k \in 2 .. Pieces + 1 : new[k] = <<"uu", made + 1, k - 1>>
    BY SMTT(30), <1>1, WholeResult
  <1> HIDE DEF new
  <1>5. /\ IsData(inbound'[N + 1])
        /\ \A i \in N + 2 .. N + Pieces + 1 : IsPiece(inbound'[i])
    <2>1. 1 \in 1 .. Pieces + 1
      BY <1>1
    <2>2. IsData(inbound'[N + 1])
      BY <1>3, <1>4, <2>1 DEF IsData
    <2>3. ASSUME NEW i \in N + 2 .. N + Pieces + 1 PROVE IsPiece(inbound'[i])
      <3>1. i - N \in 2 .. Pieces + 1 /\ i - N \in 1 .. Pieces + 1 /\ N + (i - N) = i
        BY <1>1
      <3>2. inbound'[i] = <<"uu", made + 1, (i - N) - 1>>
        BY <1>3, <1>4, <3>1
      <3> QED
        BY <3>2 DEF IsPiece
    <2> QED
      BY <2>2, <2>3
  <1>6. ExpectedFirst'
    BY <1>1, <1>2, <1>3 DEF Whole, ExpectedFirst, IsPiece
  <1>7. NoneBad'
    <2>1. ASSUME NEW i \in 1 .. N + Pieces + 1 PROVE inbound'[i][1] # "bad"
      <3>1. CASE i \in 1 .. N
        BY <1>1, <1>3, <3>1 DEF Whole, NoneBad
      <3>2. CASE i = N + 1
        BY <1>5, <3>2 DEF IsData
      <3>3. CASE i \in N + 2 .. N + Pieces + 1
        BY <1>5, <3>3 DEF IsPiece
      <3> QED
        BY <1>1, <3>1, <3>2, <3>3
    <2> QED
      BY <1>3, <2>1 DEF NoneBad
  <1>8. DataFollowed'
    <2>1. ASSUME NEW i \in 1 .. N + Pieces + 1, IsData(inbound'[i])
          PROVE  /\ i + Pieces <= N + Pieces + 1
                 /\ \A j \in i + 1 .. i + Pieces : IsPiece(inbound'[j])
      <3>1. CASE i \in 1 .. N
        <4>1. IsData(inbound[i])
          BY <1>3, <2>1, <3>1 DEF IsData
        <4>2. i + Pieces <= N /\ \A j \in i + 1 .. i + Pieces : IsPiece(inbound[j])
          BY <1>1, <3>1, <4>1 DEF Whole, DataFollowed
        <4> QED
          BY <1>1, <1>3, <3>1, <4>2 DEF IsPiece
      <3>2. CASE i = N + 1
        <4>1. i + Pieces = N + Pieces + 1 /\ i + 1 = N + 2
          BY <1>1, <3>2
        <4> QED
          BY <1>1, <1>5, <4>1
      <3>3. CASE i \in N + 2 .. N + Pieces + 1
        BY <1>5, <2>1, <3>3 DEF IsPiece, IsData
      <3> QED
        BY <1>1, <3>1, <3>2, <3>3
    <2> QED
      BY <1>3, <2>1 DEF DataFollowed, IsData, IsPiece
  <1>9. PiecesAnnounced'
    <2>1. ASSUME NEW i \in 1 .. N + Pieces + 1, IsPiece(inbound'[i]), i > expected
          PROVE  \E j \in 1 .. N + Pieces + 1 :
                   j < i /\ i <= j + Pieces /\ IsData(inbound'[j])
      <3>1. CASE i \in 1 .. N
        <4>1. IsPiece(inbound[i])
          BY <1>3, <2>1, <3>1 DEF IsPiece
        <4>2. PICK j \in 1 .. N : j < i /\ i <= j + Pieces /\ IsData(inbound[j])
          BY <1>1, <2>1, <3>1, <4>1 DEF Whole, PiecesAnnounced
        <4> QED
          BY <1>1, <1>3, <4>2 DEF IsData
      <3>2. CASE i \notin 1 .. N
        <4>1. i # N + 1
          BY <1>5, <2>1 DEF IsPiece, IsData
        <4>2. N + 1 \in 1 .. N + Pieces + 1 /\ N + 1 < i /\ i <= (N + 1) + Pieces
          BY <1>1, <3>2, <4>1
        <4> QED
          BY <1>5, <4>2
      <3> QED
        BY <3>1, <3>2
    <2> QED
      BY ZenonT(30), <1>2, <1>3, <2>1 DEF PiecesAnnounced, IsPiece, IsData
  <1> QED
    BY <1>6, <1>7, <1>8, <1>9 DEF Whole

LEMMA StreamStep ==
  ASSUME TypeInv, DriverAlone, StreamInv, [Next]_vars
  PROVE  StreamInv'
  <1>1. CASE NewLines
    <2>1. DOMAIN inbound' = {} /\ Len(inbound') = 0 /\ expected' = 0
      BY <1>1 DEF NewLines
    <2>2. Whole'
      BY <2>1 DEF Whole, ExpectedFirst, DataFollowed, PiecesAnnounced, NoneBad
    <2>3. MoresIn(inbound') = 0
      <3>1. {i \in DOMAIN inbound' : inbound'[i][1] = "more"} = {}
        BY <2>1
      <3> QED
        BY <3>1, FS_EmptySet DEF MoresIn
    <2>4. link' = "up" => commands' = 0 /\ granted' = 0
      BY <1>1 DEF NewLines
    <2> QED
      BY <2>2, <2>3, <2>4 DEF StreamInv, Answered
  <1>2. CASE LineTaken
    <2> SUFFICES ASSUME ~spoiled.here PROVE Whole' /\ Answered'
      BY <1>2 DEF StreamInv, LineTaken
    <2>1. Whole /\ Answered
      BY DEF StreamInv
    <2>2. Whole' /\ (IsMore(Head(inbound)) <=> IsCommand(Head(inbound)))
      BY <1>2, <2>1, WholeTaken DEF LineTaken
    <2>3. Answered'
      <3>1. inbound \in Seq(Line) /\ inbound # <<>> /\ inbound' = Tail(inbound)
        BY <1>2 DEF LineTaken, TakeLine, TypeInv
      <3>2. MoresIn(inbound)
              = MoresIn(inbound') + (IF IsCommand(Head(inbound)) THEN 1 ELSE 0)
        BY <3>1, CommandTaken
      <3>3. IsCommand(Head(inbound)) => variant = "broker"
        BY <3>1, HeadAndTail DEF TypeInv, DriverAlone
      <3>4. commands' = commands + (IF IsCommand(Head(inbound)) THEN 1 ELSE 0)
        BY <1>2, <2>2, <3>3 DEF LineTaken
      <3>5. MoresIn(inbound') \in Nat /\ commands \in Nat
        BY <3>1, HeadAndTail, CommandsFinite DEF TypeInv
      <3>6. link' = link /\ granted' = granted
        BY <1>2 DEF LineTaken
      <3>7. commands' + MoresIn(inbound') = commands + MoresIn(inbound)
        BY <3>2, <3>4, <3>5
      <3> QED
        BY <2>1, <3>6, <3>7 DEF Answered
    <2> QED
      BY <2>2, <2>3
  <1>3. CASE ResultSent
    <2>1. PICK bad \in 0 .. Pieces : SendResult(bad)
      BY <1>3 DEF ResultSent
    <2>2. CASE bad # 0
      BY <2>1, <2>2 DEF SendResult, StreamInv, TypeInv
    <2>3. CASE bad = 0
      <3> SUFFICES ASSUME ~spoiled.here PROVE Whole' /\ Answered'
        BY <2>1, <2>3 DEF StreamInv, SendResult
      <3>1. Whole /\ Answered
        BY DEF StreamInv
      <3>2. Whole'
        BY <2>1, <2>3, <3>1, WholeSent
      <3>3. inbound \in Seq(Line) /\ made + 1 \in Nat /\ 0 \in 0 .. Pieces
        BY ReplyAssumption DEF TypeInv
      <3>4. MoresIn(inbound') = MoresIn(inbound)
        BY <2>1, <2>3, <3>3, ResultAdded DEF SendResult
      <3> QED
        BY <1>3, <2>1, <3>1, <3>2, <3>4 DEF Answered, ResultSent, SendResult
    <2> QED
      BY <2>2, <2>3
  <1>4. CASE MoreSent
    <2> SUFFICES ASSUME ~spoiled.here PROVE Whole' /\ Answered'
      BY <1>4 DEF StreamInv, MoreSent
    <2>1. Whole' /\ Answered
      BY <1>4, WholeMore DEF StreamInv
    <2>2. inbound \in Seq(Line) /\ MoresIn(inbound) \in Nat /\ commands \in Nat
      BY CommandsFinite DEF TypeInv
    <2>3. MoresIn(inbound') = MoresIn(inbound) + 1
      BY <1>4, <2>2, CommandAdded DEF MoreSent
    <2>4. link' = link /\ granted' = granted + 1 /\ commands' = commands
      BY <1>4 DEF MoreSent
    <2>5. (commands + MoresIn(inbound)) + 1 = commands' + MoresIn(inbound')
      BY <2>2, <2>3, <2>4
    <2> QED
      BY <2>1, <2>4, <2>5 DEF Answered
  <1>5. CASE LinesKept
    <2>1. Whole => Whole'
      BY <1>5 DEF LinesKept, Whole, ExpectedFirst, DataFollowed, PiecesAnnounced, NoneBad
    <2>2. Answered => Answered'
      BY <1>5 DEF LinesKept, Answered
    <2> QED
      BY <1>5, <2>1, <2>2 DEF LinesKept, StreamInv
  <1> QED
    BY <1>1, <1>2, <1>3, <1>4, <1>5, LineSteps

-----------------------------------------------------------------------------
(* The driver is left alone by the actor and the thread. *)

LEMMA DriverStaysAlone ==
  ASSUME TypeInv, DriverAlone, [Next]_vars
  PROVE  DriverAlone'
  <1> SUFFICES ASSUME variant = "driver", variant' = "driver"
               PROVE  /\ broker' = "quit" /\ thread' = "none" /\ mailbox' = <<>>
                      /\ \A i \in DOMAIN inbound' : ~IsCommand(inbound'[i])
    BY LineSteps DEF DriverAlone, IsCommand
  <1>1. /\ broker = "quit" /\ thread = "none" /\ mailbox = <<>>
        /\ \A i \in DOMAIN inbound : ~IsCommand(inbound[i])
    BY DEF DriverAlone
  <1>2. broker' = "quit" /\ thread' = "none" /\ mailbox' = <<>>
    <2> USE <1>1 DEF sideVars, lineVars, decodeVars, replyVars, threadVars, brokerVars
    <2>1. CASE Daemon
      BY <2>1 DEF Daemon, DaemonSends, SendMore, Lose, DaemonAway, DaemonBack
    <2>2. ~BrokerStep /\ ~Request /\ ~Done
      BY DEF BrokerStep, Connect, Connected, ConnectFails, ConnectFailed, Reconnect,
             ReconnectFails, ReconnectDue, NewData, DataNotified, ConnectionClosed,
             DecoderReset, Quit, Request, Done
    <2>3. ~ThreadStep
      BY DEF ThreadStep, Thread, ThreadStart, ThreadCheck, HandleNotifyRead, ReceiveAll,
             HandleDecodeWrite, HandleDecodeRead
    <2>4. CASE DriverStep
      BY <2>4 DEF DriverStep
    <2>5. CASE UNCHANGED vars
      BY <2>5 DEF vars
    <2> QED
      BY <2>1, <2>2, <2>3, <2>4, <2>5 DEF Next
  <1>3. \A i \in DOMAIN inbound' : ~IsCommand(inbound'[i])
    <2>1. CASE NewLines
      BY <2>1 DEF NewLines
    <2>2. CASE LineTaken
      <3>1. /\ inbound' = Tail(inbound) /\ inbound' \in Seq(Line)
            /\ Len(inbound) \in Nat \ {0} /\ Len(inbound') = Len(inbound) - 1
            /\ \A i \in 1 .. Len(inbound) - 1 : inbound'[i] = inbound[i + 1]
        BY <2>2, HeadAndTail DEF LineTaken, TakeLine, TypeInv
      <3>2. ASSUME NEW i \in DOMAIN inbound' PROVE ~IsCommand(inbound'[i])
        <4>1. i \in 1 .. Len(inbound) - 1 /\ i + 1 \in DOMAIN inbound
          BY <3>1 DEF TypeInv
        <4> QED
          BY <1>1, <3>1, <4>1
      <3> QED
        BY <3>2
    <2>3. CASE ResultSent
      <3>1. PICK bad \in 0 .. Pieces : SendResult(bad)
        BY <2>3 DEF ResultSent
      <3> DEFINE new == Result(made + 1, bad)
                 N == Len(inbound)
      <3>2. /\ inbound \in Seq(Line) /\ made + 1 \in Nat /\ N \in Nat
            /\ Pieces \in Nat \ {0} /\ inbound' = inbound \o new /\ DOMAIN inbound = 1 .. N
        BY <3>1, ReplyAssumption DEF TypeInv, SendResult
      <3>3. /\ inbound' \in Seq(Line) /\ Len(inbound') = N + Pieces + 1
            /\ \A i \in 1 .. N : inbound'[i] = inbound[i]
        BY <3>2, ResultAdded
      <3>4. \A k \in 1 .. Pieces + 1 : inbound'[N + k] = new[k]
        BY <3>2, ResultAdded
      <3>5. \A k \in 1 .. Pieces + 1 : ~IsCommand(new[k])
        <4>1. \A k \in 1 .. Pieces + 1 : k = 1 \/ k \in 2 .. Pieces + 1
          BY <3>2
        <4>2. new[1][1] = "data" /\ \A k \in 2 .. Pieces + 1 : new[k][1] \in {"uu", "bad"}
          BY SMTT(30), <3>2, WholeResult
        <4> QED
          BY <4>1, <4>2 DEF IsCommand
      <3> HIDE DEF new
      <3>6. ASSUME NEW i \in DOMAIN inbound' PROVE ~IsCommand(inbound'[i])
        <4>1. CASE i \in 1 .. N
          BY <1>1, <3>2, <3>3, <4>1
        <4>2. CASE i \notin 1 .. N
          <5>1. i - N \in 1 .. Pieces + 1 /\ N + (i - N) = i
            BY <3>2, <3>3, <4>2
          <5> QED
            BY <3>4, <3>5, <5>1
        <4> QED
          BY <4>1, <4>2
      <3> QED
        BY <3>6
    <2>4. ~MoreSent
      BY DEF MoreSent
    <2>5. CASE LinesKept
      BY <1>1, <2>5 DEF LinesKept
    <2> QED
      BY <2>1, <2>2, <2>3, <2>4, <2>5, LineSteps
  <1> QED
    BY <1>2, <1>3

-----------------------------------------------------------------------------
(* What a step does to the pieces underway: there are none after it, or no  *)
(* decoder any more, or one piece more, or one less, or they only move.     *)

Live == thread # "none" \/ variant = "driver"

Emptied ==
  /\ writebuf' = <<>> /\ pipe' = <<>> /\ parsed' = <<>> /\ mailbox' = <<>>
  /\ forwarded' = <<>> /\ received' = <<>>

NoThread == ~Live' /\ parsed' = <<>>

PieceIn(piece) ==
  /\ received' = Append(received, piece)
  /\ \/ mailbox' = Append(mailbox, piece) /\ writebuf' = writebuf
     \/ writebuf' = writebuf \o <<piece>> /\ mailbox = <<>> /\ mailbox' = <<>>
  /\ UNCHANGED <<pipe, parsed, forwarded>>

PiecesMove ==
  /\ \/ writebuf' = writebuf \o mailbox /\ mailbox' = <<>> /\ pipe' = pipe
     \/ pipe' \o writebuf' = pipe \o writebuf /\ mailbox' = mailbox
  /\ UNCHANGED <<parsed, forwarded, received>>

PieceRead ==
  /\ DecodeReadPart
  /\ mailbox' = mailbox

LEMMA PathSteps ==
  ASSUME TypeInv, DriverAlone, NothingYet, [Next]_vars
  PROVE  /\ NothingYet'
         /\ \/ Emptied \/ NoThread
            \/ /\ Live' => Live
               /\ \/ \E piece \in Piece : PieceIn(piece)
                  \/ PiecesMove \/ PieceRead
  <1>0. variant' = variant
    BY LineSteps
  <1> USE <1>0 DEF sideVars, lineVars, decodeVars, replyVars, threadVars, brokerVars
  <1>1. CASE Daemon
    BY <1>1 DEF Daemon, DaemonSends, SendResult, SendMore, Lose, DaemonAway, DaemonBack,
                Live, PiecesMove, NothingYet
  <1>2. CASE BrokerStep \/ Request \/ Done
    <2>0. variant = "broker"
      BY <1>2 DEF DriverAlone, TypeInv, BrokerStep, Connect, Connected, ConnectFails,
             ConnectFailed, Reconnect,
             ReconnectFails, ReconnectDue, NewData, DataNotified, ConnectionClosed,
             DecoderReset, Quit, Request, Done
    <2>1. CASE Connect
      BY <2>1 DEF Connect, Make, Fresh, Emptied, NothingYet
    <2>2. CASE Connected
      BY <2>2 DEF Connected, NewInstance, NoInstance, NothingYet, PiecesMove, Live
    <2>3. CASE ConnectFails
      BY <2>3 DEF ConnectFails, Stop, NothingYet, PiecesMove, Live
    <2>4. CASE ConnectFailed
      BY <2>0, <2>4 DEF ConnectFailed, Join, Fresh, NothingYet, NoThread, Live
    <2>5. CASE Reconnect
      BY <2>5 DEF Reconnect, NewInstance, NoInstance, Make, Fresh, NothingYet, Emptied
    <2>6. CASE ReconnectFails
      BY <2>6 DEF ReconnectFails, NothingYet, PiecesMove, Live
    <2>7. CASE ReconnectDue
      BY <2>7 DEF ReconnectDue, NothingYet, PiecesMove, Live
    <2>8. CASE NewData
      <3>1. inbound # <<>> /\ TakeLine /\ broker = "idle"
        BY <2>8 DEF NewData
      <3>2. NothingYet' /\ (Live' => Live)
        BY <2>8 DEF NewData, NothingYet, Live
      <3>3. CASE Decodes(Head(inbound))
        <4>1. PieceOf(Head(inbound)) \in Piece
          BY <3>1, <3>3, TypeTaken
        <4>2. PieceIn(PieceOf(Head(inbound)))
          BY <2>8, <3>3 DEF NewData, TakeLine, WriteMessage, PieceIn
        <4> QED
          BY <3>2, <4>1, <4>2
      <3>4. CASE ~Decodes(Head(inbound))
        BY <2>8, <3>2, <3>4 DEF NewData, TakeLine, PiecesMove
      <3> QED
        BY <3>3, <3>4
    <2>9. CASE DataNotified
      BY <2>9 DEF DataNotified, NothingYet, PiecesMove, Live
    <2>10. CASE Request
      BY <2>10 DEF Request, NothingYet, PiecesMove, Live
    <2>11. CASE ConnectionClosed
      BY <2>11 DEF ConnectionClosed, Stop, NothingYet, PiecesMove, Live
    <2>12. CASE DecoderReset
      BY <2>0, <2>12 DEF DecoderReset, Join, Fresh, NoInstance, NothingYet, NoThread, Live
    <2>13. CASE Done
      BY <2>13 DEF Done, Stop, NothingYet, PiecesMove, Live
    <2>14. CASE Quit
      BY <2>0, <2>14 DEF Quit, Join, Fresh, NothingYet, NoThread, Live
    <2> QED
      BY <1>2, <2>1, <2>2, <2>3, <2>4, <2>5, <2>6, <2>7, <2>8, <2>9, <2>10, <2>11, <2>12,
         <2>13, <2>14
      DEF BrokerStep
  <1>3. CASE ThreadStep
    <2> USE <1>3 DEF ThreadStep
    <2>0. broker' = broker
      OBVIOUS
    <2>1. CASE ThreadStart
      BY <2>1 DEF ThreadStart, NothingYet, PiecesMove, Live
    <2>2. CASE ThreadCheck
      BY <2>2 DEF ThreadCheck, NothingYet, PiecesMove, Live
    <2>3. CASE HandleNotifyRead
      BY <2>3 DEF HandleNotifyRead, NothingYet, PiecesMove, Live
    <2>4. CASE ReceiveAll
      BY <2>4 DEF ReceiveAll, Buffer, NothingYet, PiecesMove, Live
    <2>5. CASE HandleDecodeWrite
      <3>1. pipe' \o writebuf' = pipe \o writebuf
        BY <2>5, TypeWritten DEF HandleDecodeWrite
      <3>2. UNCHANGED <<parsed, forwarded, received>>
        BY <2>5 DEF HandleDecodeWrite, DecodeWrite
      <3> QED
        BY <2>5, <3>1, <3>2 DEF HandleDecodeWrite, NothingYet, PiecesMove, Live
    <2>6. CASE HandleDecodeRead
      BY <2>6 DEF HandleDecodeRead, DecodeRead, DecodeReadPart, DecodeReadFails, NothingYet,
                  PiecesMove, PieceRead, Live
    <2> QED
      BY <2>1, <2>2, <2>3, <2>4, <2>5, <2>6 DEF Thread
  <1>4. CASE DriverStep
    <2>0. UNCHANGED <<broker, thread, mailbox>>
      BY <1>4 DEF DriverStep
    <2>1. CASE DriverRead
      <3>1. inbound # <<>> /\ TakeLine /\ broker = "quit" /\ mailbox = <<>>
        BY <2>1 DEF DriverRead, DriverAlone
      <3>2. NothingYet' /\ (Live' => Live)
        BY <2>0, <3>1 DEF NothingYet, Live
      <3>3. CASE Decodes(Head(inbound))
        <4>1. PieceOf(Head(inbound)) \in Piece
          BY <3>1, <3>3, TypeTaken
        <4>2. PieceIn(PieceOf(Head(inbound)))
          BY <2>0, <2>1, <3>1, <3>3 DEF DriverRead, TakeLine, Buffer, PieceIn
        <4> QED
          BY <3>2, <4>1, <4>2
      <3>4. CASE ~Decodes(Head(inbound))
        <4>1. writebuf' = writebuf \o <<>> /\ received' = received
          BY <2>1, <3>4 DEF DriverRead, TakeLine, Buffer
        <4>2. writebuf' = writebuf
          BY <4>1, ConcatEmptySeq DEF TypeInv
        <4> QED
          BY <2>0, <2>1, <3>2, <4>1, <4>2 DEF DriverRead, PiecesMove
      <3> QED
        BY <3>3, <3>4
    <2>2. CASE DriverDecodeWrite
      <3>1. pipe' \o writebuf' = pipe \o writebuf
        BY <2>2, TypeWritten DEF DriverDecodeWrite
      <3>2. UNCHANGED <<parsed, forwarded, received>>
        BY <2>2 DEF DriverDecodeWrite, DecodeWrite
      <3> QED
        BY <2>0, <3>1, <3>2 DEF NothingYet, PiecesMove, Live
    <2>3. CASE DriverDecodeRead
      BY <2>0, <2>3 DEF DriverDecodeRead, DecodeRead, DecodeReadPart, DecodeReadFails,
                        NothingYet, PiecesMove, PieceRead, Live
    <2>4. CASE DriverLoses
      BY <2>0, <2>4 DEF DriverLoses, NothingYet, PiecesMove, Live
    <2> QED
      BY <1>4, <2>1, <2>2, <2>3, <2>4 DEF DriverStep, DriverLoop
  <1>5. CASE UNCHANGED vars
    BY <1>5 DEF vars, NothingYet, PiecesMove, Live
  <1> QED
    BY <1>1, <1>2, <1>3, <1>4, <1>5 DEF Next

LEMMA UnderwayFacts ==
  ASSUME TypeInv
  PROVE  /\ Underway \in Seq(Piece) /\ Len(Underway) \in Nat
         /\ DOMAIN Underway = 1 .. Len(Underway)
         /\ parsed \o pipe \in Seq(Piece) /\ parsed \o pipe \o writebuf \in Seq(Piece)
  <1>1. parsed \o pipe \in Seq(Piece)
    BY ConcatProperties DEF TypeInv
  <1>2. parsed \o pipe \o writebuf \in Seq(Piece)
    BY <1>1, ConcatProperties DEF TypeInv
  <1>3. Underway \in Seq(Piece)
    BY <1>2, ConcatProperties DEF TypeInv, Underway
  <1> QED
    BY <1>1, <1>2, <1>3

LEMMA AppendToLast ==
  ASSUME NEW S, NEW s \in Seq(S), NEW t \in Seq(S), NEW e \in S
  PROVE  s \o Append(t, e) = Append(s \o t, e)
  <1>1. <<e>> \in Seq(S) /\ s \o t \in Seq(S)
    BY ConcatProperties
  <1>2. Append(t, e) = t \o <<e>> /\ Append(s \o t, e) = (s \o t) \o <<e>>
    BY <1>1, AppendIsConcat
  <1> QED
    BY <1>1, <1>2, ConcatAssociative

LEMMA UnderwayNext == TypeInv' => Underway' \in Seq(Piece) /\ Len(Underway') \in Nat
  <1> SUFFICES ASSUME TypeInv' PROVE Underway' \in Seq(Piece) /\ Len(Underway') \in Nat
    OBVIOUS
  <1>1. parsed' \o pipe' \in Seq(Piece)
    BY ConcatProperties DEF TypeInv
  <1>2. parsed' \o pipe' \o writebuf' \in Seq(Piece)
    BY <1>1, ConcatProperties DEF TypeInv
  <1>3. Underway' \in Seq(Piece)
    BY <1>2, ConcatProperties DEF TypeInv, Underway
  <1> QED
    BY <1>3

LEMMA PiecesAssociate == \A s, t, u \in Seq(Piece) : (s \o t) \o u = s \o (t \o u)
  BY ConcatAssociative

(* The three ways of a piece through Underway. *)
LEMMA UnderwayIn ==
  ASSUME TypeInv, NEW piece \in Piece, PieceIn(piece)
  PROVE  Underway' = Append(Underway, piece)
  <1> DEFINE front == parsed \o pipe
  <1>1. /\ front \in Seq(Piece) /\ front \o writebuf \in Seq(Piece)
        /\ Underway = (front \o writebuf) \o mailbox /\ <<>> \in Seq(Piece)
        /\ writebuf \in Seq(Piece) /\ mailbox \in Seq(Piece)
    BY UnderwayFacts DEF Underway, TypeInv
  <1>2. Underway' = (front \o writebuf') \o mailbox'
    BY DEF Underway, PieceIn
  <1> HIDE DEF front
  <1>3. CASE mailbox' = Append(mailbox, piece) /\ writebuf' = writebuf
    BY <1>1, <1>2, <1>3, AppendToLast
  <1>4. CASE writebuf' = writebuf \o <<piece>> /\ mailbox = <<>> /\ mailbox' = <<>>
    <2>1. writebuf' = Append(writebuf, piece)
      BY <1>1, <1>4, AppendIsConcat
    <2>2. front \o writebuf' = Append(front \o writebuf, piece)
      BY <1>1, <2>1, AppendToLast
    <2>3. Append(front \o writebuf, piece) \in Seq(Piece)
      BY <1>1, AppendProperties
    <2>4. Append(front \o writebuf, piece) \o <<>> = Append(front \o writebuf, piece)
      BY <2>3, ConcatEmptySeq
    <2>5. (front \o writebuf) \o <<>> = front \o writebuf
      BY <1>1, ConcatEmptySeq
    <2> QED
      BY <1>1, <1>2, <1>4, <2>2, <2>4, <2>5
  <1> QED
    BY <1>3, <1>4 DEF PieceIn

LEMMA UnderwayMoves ==
  ASSUME TypeInv, TypeInv', PiecesMove
  PROVE  Underway' = Underway
  <1> DEFINE front == parsed \o pipe
  <1>1. /\ front \in Seq(Piece) /\ parsed \in Seq(Piece) /\ pipe \in Seq(Piece)
        /\ Underway = (front \o writebuf) \o mailbox /\ <<>> \in Seq(Piece)
        /\ writebuf \in Seq(Piece) /\ mailbox \in Seq(Piece)
        /\ pipe' \in Seq(Piece) /\ writebuf' \in Seq(Piece)
    BY UnderwayFacts DEF Underway, TypeInv
  <1>2. Underway' = ((parsed \o pipe') \o writebuf') \o mailbox'
    BY DEF Underway, PiecesMove
  <1>3. CASE writebuf' = writebuf \o mailbox /\ mailbox' = <<>> /\ pipe' = pipe
    <2>1. Underway' = (front \o (writebuf \o mailbox)) \o <<>>
      BY <1>2, <1>3
    <2> HIDE DEF front
    <2>2. writebuf \o mailbox \in Seq(Piece)
      BY <1>1, ConcatProperties
    <2>3. front \o (writebuf \o mailbox) \in Seq(Piece)
      BY <1>1, <2>2, ConcatProperties
    <2>4. (front \o (writebuf \o mailbox)) \o <<>> = front \o (writebuf \o mailbox)
      BY <2>3, ConcatEmptySeq
    <2>5. (front \o writebuf) \o mailbox = front \o (writebuf \o mailbox)
      <3>1. front \in Seq(Piece) /\ writebuf \in Seq(Piece) /\ mailbox \in Seq(Piece)
        BY <1>1
      <3> QED
        BY <3>1, PiecesAssociate, Zenon
    <2> QED
      BY <1>1, <2>1, <2>4, <2>5
  <1>4. CASE pipe' \o writebuf' = pipe \o writebuf /\ mailbox' = mailbox
    <2>1. (parsed \o pipe') \o writebuf' = parsed \o (pipe' \o writebuf')
      BY SMTT(30), <1>1, PiecesAssociate
    <2>2. (parsed \o pipe) \o writebuf = parsed \o (pipe \o writebuf)
      BY SMTT(30), <1>1, PiecesAssociate
    <2> QED
      BY <1>1, <1>2, <1>4, <2>1, <2>2
  <1> QED
    BY <1>3, <1>4 DEF PiecesMove

LEMMA UnderwayRead ==
  ASSUME TypeInv, TypeInv', PieceRead
  PROVE  IF Len(parsed) + 1 = Pieces
         THEN Underway = Append(parsed, Head(pipe)) \o Underway'
         ELSE Underway' = Underway
  <1> DEFINE grown == Append(parsed, Head(pipe))
             rest == Tail(pipe)
  <1>1. /\ parsed \in Seq(Piece) /\ pipe \in Seq(Piece) /\ pipe # <<>>
        /\ writebuf \in Seq(Piece) /\ mailbox \in Seq(Piece)
        /\ pipe' = rest /\ writebuf' = writebuf /\ mailbox' = mailbox
    BY DEF TypeInv, PieceRead, DecodeReadPart
  <1>2. Head(pipe) \in Piece /\ rest \in Seq(Piece) /\ grown \in Seq(Piece)
    BY <1>1, HeadAndTail, AppendProperties
  <1>3. Underway = ((grown \o rest) \o writebuf) \o mailbox
    BY <1>1, OneMoved DEF Underway
  <1>4. CASE Len(parsed) + 1 = Pieces
    <2>1. parsed' = <<>>
      BY <1>4 DEF PieceRead, DecodeReadPart
    <2>2. Underway' = ((<<>> \o rest) \o writebuf) \o mailbox
      BY <1>1, <2>1 DEF Underway
    <2> HIDE DEF grown, rest
    <2>3. <<>> \o rest = rest
      BY <1>2, ConcatEmptySeq
    <2>4. rest \o writebuf \in Seq(Piece)
      BY <1>1, <1>2, ConcatProperties
    <2>5. (grown \o rest) \o writebuf = grown \o (rest \o writebuf)
      BY SMTT(30), <1>1, <1>2, PiecesAssociate
    <2>6. (grown \o (rest \o writebuf)) \o mailbox = grown \o ((rest \o writebuf) \o mailbox)
      <3>1. grown \in Seq(Piece) /\ rest \o writebuf \in Seq(Piece)
            /\ mailbox \in Seq(Piece)
        BY <1>1, <1>2, <2>4
      <3> QED
        BY <3>1, PiecesAssociate, Zenon
    <2>7. Underway = grown \o Underway'
      BY <1>3, <2>2, <2>3, <2>5, <2>6
    <2> QED
      BY <1>4, <2>7 DEF grown
  <1>5. CASE Len(parsed) + 1 # Pieces
    <2>1. parsed' = grown
      BY <1>5 DEF PieceRead, DecodeReadPart
    <2> QED
      BY <1>1, <1>3, <1>5, <2>1 DEF Underway
  <1> QED
    BY <1>4, <1>5

-----------------------------------------------------------------------------
(* The order of the pieces. *)

InOrder ==
  /\ \A k \in DOMAIN forwarded : \A i \in 1 .. Pieces :
       received[(k - 1) * Pieces + i] = <<forwarded[k], i>>
  /\ Len(received) = PiecesRead + Len(Underway)
  /\ \A j \in DOMAIN Underway : received[PiecesRead + j] = Underway[j]

LEMMA Multiples ==
  ASSUME NEW n \in Nat, NEW p \in Nat
  PROVE  /\ n * p \in Nat /\ (n + 1) * p = n * p + p
         /\ \A k \in 1 .. n : (k - 1) * p \in Nat /\ (k - 1) * p + p <= n * p
  <1>1. n * p \in Nat /\ (n + 1) * p = n * p + p
    BY SMT
  <1>2. ASSUME NEW k \in 1 .. n
        PROVE  (k - 1) * p \in Nat /\ (k - 1) * p + p <= n * p
    <2>1. PICK d \in Nat : n = k + d
      <3>1. n - k \in Nat /\ n = k + (n - k)
        OBVIOUS
      <3> QED
        BY <3>1
    <2>2. d * p \in Nat /\ (k - 1) * p \in Nat
      OBVIOUS
    <2>3. n * p = (k - 1) * p + p + d * p
      BY <2>1
    <2> QED
      BY <2>2, <2>3
  <1> QED
    BY <1>1, <1>2

LEMMA InOrderIn ==
  ASSUME TypeInv, InOrder, NEW piece \in Piece, PieceIn(piece)
  PROVE  InOrder'
  <1> DEFINE R == PiecesRead
             U == Underway
             L == Len(received)
  <1>1. /\ U \in Seq(Piece) /\ Len(U) \in Nat /\ DOMAIN U = 1 .. Len(U)
        /\ Underway' = Append(U, piece)
    BY UnderwayFacts, UnderwayIn
  <1>2. /\ received \in Seq(Piece) /\ L \in Nat /\ received' = Append(received, piece)
        /\ forwarded' = forwarded /\ PiecesRead' = R /\ forwarded \in Seq(Nat)
        /\ Pieces \in Nat /\ Len(forwarded) \in Nat
        /\ DOMAIN forwarded = 1 .. Len(forwarded)
    BY ReplyAssumption DEF PieceIn, TypeInv, PiecesRead
  <1>3. R = Len(forwarded) * Pieces /\ R \in Nat /\ L = R + Len(U)
    BY <1>2, Multiples DEF PiecesRead, InOrder
  <1> HIDE DEF R, U
  <1>4. /\ Len(received') = L + 1 /\ received'[L + 1] = piece
        /\ \A i \in 1 .. L : received'[i] = received[i]
    BY <1>2
  <1>5. /\ Len(Underway') = Len(U) + 1 /\ DOMAIN Underway' = 1 .. Len(U) + 1
        /\ Underway'[Len(U) + 1] = piece
        /\ \A j \in 1 .. Len(U) : Underway'[j] = U[j]
    BY <1>1
  <1>6. ASSUME NEW k \in DOMAIN forwarded, NEW i \in 1 .. Pieces
        PROVE  received'[(k - 1) * Pieces + i] = <<forwarded[k], i>>
    <2>1. PICK b \in Nat : b = (k - 1) * Pieces /\ b + Pieces <= R
      BY <1>2, <1>3, Multiples
    <2>2. R <= L
      BY <1>1, <1>2, <1>3
    <2>3. b + i \in 1 .. L
      BY SMTT(30), <1>2, <1>3, <2>1, <2>2
    <2>4. received[b + i] = <<forwarded[k], i>>
      BY <2>1 DEF InOrder
    <2> QED
      BY <1>4, <2>1, <2>3, <2>4
  <1>7. ASSUME NEW j \in 1 .. Len(U) + 1
        PROVE  received'[R + j] = Underway'[j]
    <2>1. CASE j \in 1 .. Len(U)
      <3>1. R + j \in 1 .. L
        BY <1>1, <1>2, <1>3, <2>1
      <3>2. received[R + j] = U[j]
        BY <1>1, <2>1 DEF InOrder, R, U
      <3> QED
        BY <1>4, <1>5, <2>1, <3>1, <3>2
    <2>2. CASE j = Len(U) + 1
      <3>1. R + j = L + 1
        BY <1>1, <1>2, <1>3, <2>2
      <3> QED
        BY <1>4, <1>5, <2>2, <3>1
    <2> QED
      BY <1>1, <2>1, <2>2
  <1>8. Len(received') = R + Len(Underway')
    BY <1>1, <1>2, <1>3, <1>4, <1>5
  <1> QED
    BY <1>2, <1>5, <1>6, <1>7, <1>8 DEF InOrder

LEMMA GrownPart ==
  ASSUME TypeInv, PartOfResult, DecodeReadPart
  PROVE  /\ Len(Append(parsed, Head(pipe))) = Len(parsed) + 1 /\ Len(parsed) \in Nat
         /\ \A i \in 1 .. Len(parsed) + 1 :
              Append(parsed, Head(pipe))[i] = <<Head(pipe)[1], i>>
  <1> DEFINE piece == Head(pipe)
             grown == Append(parsed, piece)
             n == Len(parsed)
  <1>1. parsed \in Seq(Piece) /\ n \in Nat /\ piece \in Piece
    BY HeadAndTail DEF TypeInv, DecodeReadPart
  <1>2. piece[2] = n + 1 /\ (parsed # <<>> => piece[1] = parsed[1][1])
    BY DEF DecodeReadPart, Continues
  <1>3. piece = <<piece[1], n + 1>>
    BY <1>1, <1>2 DEF Piece
  <1>4. Len(grown) = n + 1 /\ grown[n + 1] = piece /\ \A i \in 1 .. n : grown[i] = parsed[i]
    BY <1>1, AppendProperties
  <1> HIDE DEF grown, piece
  <1>5. ASSUME NEW i \in 1 .. n + 1 PROVE grown[i] = <<piece[1], i>>
    <2>1. CASE i = n + 1
      BY <1>3, <1>4, <2>1
    <2>2. CASE i \in 1 .. n
      <3>1. parsed # <<>> /\ parsed[i] = <<parsed[1][1], i>>
        BY <1>1, <2>2 DEF PartOfResult
      <3> QED
        BY <1>2, <1>4, <2>2, <3>1
    <2> QED
      BY <1>1, <2>1, <2>2
  <1> QED
    BY <1>1, <1>4, <1>5 DEF grown, piece

LEMMA PartRead ==
  ASSUME TypeInv, PartOfResult, PieceRead
  PROVE  PartOfResult'
  <1>1. /\ Len(Append(parsed, Head(pipe))) = Len(parsed) + 1 /\ Len(parsed) \in Nat
        /\ \A i \in 1 .. Len(parsed) + 1 :
             Append(parsed, Head(pipe))[i] = <<Head(pipe)[1], i>>
        /\ Pieces \in Nat \ {0}
    BY GrownPart, ReplyAssumption DEF PieceRead
  <1>2. CASE Len(parsed) + 1 = Pieces
    BY <1>1, <1>2 DEF PieceRead, DecodeReadPart, PartOfResult
  <1>3. CASE Len(parsed) + 1 # Pieces
    <2>1. parsed' = Append(parsed, Head(pipe)) /\ parsed' \in Seq(Piece)
      BY <1>3, TypeRead DEF PieceRead, DecodeReadPart
    <2>2. DOMAIN parsed' = 1 .. Len(parsed) + 1
      BY <1>1, <2>1
    <2>3. 1 \in 1 .. Len(parsed) + 1 /\ parsed'[1][1] = Head(pipe)[1]
      BY <1>1, <2>1
    <2> QED
      BY <1>1, <1>3, <2>1, <2>2, <2>3 DEF PartOfResult
  <1> QED
    BY <1>2, <1>3

LEMMA InOrderRead ==
  ASSUME TypeInv, TypeInv', InOrder, PartOfResult, PieceRead
  PROVE  InOrder'
  <1>1. CASE Len(parsed) + 1 # Pieces
    <2>1. Underway' = Underway
      BY <1>1, UnderwayRead
    <2>2. forwarded' = forwarded /\ received' = received
      BY <1>1 DEF PieceRead, DecodeReadPart
    <2> QED
      BY <2>1, <2>2 DEF InOrder, PiecesRead
  <1>2. CASE Len(parsed) + 1 = Pieces
    <2> DEFINE grown == Append(parsed, Head(pipe))
               r == Head(pipe)[1]
               R == PiecesRead
               F == Len(forwarded)
               U == Underway
               V == Underway'
    <2>1. /\ forwarded' = Append(forwarded, r) /\ received' = received
          /\ forwarded \in Seq(Nat) /\ forwarded' \in Seq(Nat) /\ F \in Nat
          /\ Pieces \in Nat \ {0} /\ r \in Nat
      <3>1. DecodeReadPart
        BY DEF PieceRead
      <3>2. forwarded' = Append(forwarded, r) /\ received' = received
        BY <1>2, <3>1 DEF DecodeReadPart
      <3>3. r \in Nat /\ forwarded' \in Seq(Nat)
        BY <3>1, TypeRead DEF Piece
      <3> QED
        BY <3>2, <3>3, ReplyAssumption DEF TypeInv
    <2>2. Len(grown) = Pieces /\ \A i \in 1 .. Pieces : grown[i] = <<r, i>>
      BY <1>2, GrownPart DEF PieceRead
    <2>3. U = grown \o V /\ U \in Seq(Piece) /\ V \in Seq(Piece)
          /\ Len(V) \in Nat /\ DOMAIN V = 1 .. Len(V) /\ DOMAIN U = 1 .. Len(U)
      <3>1. U = grown \o V
        BY <1>2, UnderwayRead
      <3>2. V \in Seq(Piece) /\ U \in Seq(Piece)
        BY UnderwayFacts, UnderwayNext
      <3> HIDE DEF U, V
      <3> QED
        BY <3>1, <3>2
    <2>4. grown \in Seq(Piece)
      BY TypeRead, AppendProperties DEF PieceRead, TypeInv
    <2>5. R = F * Pieces /\ R \in Nat /\ (F + 1) * Pieces = R + Pieces
          /\ (F + 1 - 1) * Pieces = R
      BY <2>1, Multiples DEF PiecesRead
    <2>6. Len(forwarded') = F + 1 /\ DOMAIN forwarded' = 1 .. F + 1
          /\ forwarded'[F + 1] = r /\ \A k \in 1 .. F : forwarded'[k] = forwarded[k]
      BY <2>1
    <2>7. PiecesRead' = R + Pieces
      BY <2>5, <2>6 DEF PiecesRead
    <2> HIDE DEF grown, R, U, V, F
    <2>8. /\ Len(U) = Pieces + Len(V)
          /\ \A i \in 1 .. Pieces + Len(V) :
               U[i] = IF i <= Pieces THEN grown[i] ELSE V[i - Pieces]
      BY <2>2, <2>3, <2>4, ConcatProperties
    <2>9. /\ Len(received) = R + Len(U)
          /\ \A j \in 1 .. Len(U) : received[R + j] = U[j]
      BY <2>3 DEF InOrder, R, U
    <2>10. ASSUME NEW k \in 1 .. F + 1, NEW i \in 1 .. Pieces
           PROVE  received[(k - 1) * Pieces + i] = <<forwarded'[k], i>>
      <3>1. CASE k \in 1 .. F
        <4>1. k \in DOMAIN forwarded
          BY <2>1, <3>1 DEF F
        <4>2. received[(k - 1) * Pieces + i] = <<forwarded[k], i>>
          BY <4>1 DEF InOrder
        <4> QED
          BY <2>6, <3>1, <4>2
      <3>2. CASE k = F + 1
        <4>1. i \in 1 .. Len(U) /\ i \in 1 .. Pieces + Len(V) /\ i <= Pieces
          BY <2>1, <2>3, <2>8
        <4>2. received[R + i] = <<r, i>>
          BY <2>2, <2>8, <2>9, <4>1
        <4>3. k - 1 = F /\ F * Pieces = R
          BY <2>1, <2>5, <3>2
        <4> QED
          BY <2>6, <3>2, <4>2, <4>3, Zenon
      <3>3. F \in Nat
        BY <2>1
      <3>4. k \in 1 .. F \/ k = F + 1
        BY <3>3
      <3> QED
        BY <3>1, <3>2, <3>4
    <2>11. Len(received) = (R + Pieces) + Len(V)
      BY <2>1, <2>3, <2>5, <2>8, <2>9
    <2>12. ASSUME NEW j \in 1 .. Len(V) PROVE received[(R + Pieces) + j] = V[j]
      <3>1. /\ Pieces + j \in 1 .. Len(U) /\ Pieces + j \in 1 .. Pieces + Len(V)
            /\ ~(Pieces + j <= Pieces) /\ (Pieces + j) - Pieces = j
            /\ R + (Pieces + j) = (R + Pieces) + j
        BY <2>1, <2>3, <2>5, <2>8
      <3> QED
        BY <2>8, <2>9, <3>1
    <2> QED
      BY <2>1, <2>3, <2>6, <2>7, <2>10, <2>11, <2>12 DEF InOrder, V
  <1> QED
    BY <1>1, <1>2

LEMMA PathStep ==
  ASSUME TypeInv, TypeInv', DriverAlone, PathInv, [Next]_vars
  PROVE  PathInv'
  <1>1. NothingYet /\ PartOfResult /\ (Live => InOrder)
    BY DEF PathInv, PiecesInOrder, Live, InOrder
  <1>2. CASE Emptied
    <2>1. parsed' \o pipe' \o writebuf' \o mailbox' = <<>>
      BY <1>2, ConcatEmptySeq DEF Emptied
    <2>2. Underway' = <<>> /\ DOMAIN Underway' = {} /\ Len(Underway') = 0
      BY <2>1 DEF Underway
    <2>3. DOMAIN forwarded' = {} /\ Len(forwarded') = 0 /\ Len(received') = 0
          /\ DOMAIN parsed' = {} /\ Len(parsed') = 0
      BY <1>2 DEF Emptied
    <2>4. PiecesRead' = 0
      BY <2>3, ReplyAssumption DEF PiecesRead
    <2>5. InOrder'
      BY <2>2, <2>3, <2>4 DEF InOrder
    <2>6. PartOfResult'
      BY <2>3, ReplyAssumption DEF PartOfResult
    <2> QED
      BY <1>1, <2>5, <2>6, PathSteps DEF PathInv, PiecesInOrder, InOrder
  <1>3. CASE NoThread
    <2>1. PartOfResult'
      BY <1>3, ReplyAssumption DEF NoThread, PartOfResult
    <2> QED
      BY <1>1, <1>3, <2>1, PathSteps DEF PathInv, PiecesInOrder, NoThread, Live
  <1>4. CASE /\ Live' => Live
             /\ (\E piece \in Piece : PieceIn(piece)) \/ PiecesMove \/ PieceRead
    <2> SUFFICES PartOfResult' /\ (Live' => InOrder')
      BY <1>1, PathSteps DEF PathInv, PiecesInOrder, InOrder, Live
    <2>1. ASSUME NEW piece \in Piece, PieceIn(piece)
          PROVE  PartOfResult' /\ (Live' => InOrder')
      BY <1>1, <1>4, <2>1, InOrderIn DEF PieceIn, PartOfResult
    <2>2. CASE PiecesMove
      <3>1. Underway' = Underway
        BY <2>2, UnderwayMoves
      <3> QED
        BY <1>1, <1>4, <2>2, <3>1 DEF PiecesMove, PartOfResult, InOrder, PiecesRead
    <2>3. CASE PieceRead
      BY <1>1, <1>4, <2>3, PartRead, InOrderRead
    <2> QED
      BY <1>4, <2>1, <2>2, <2>3
  <1> QED
    BY <1>1, <1>2, <1>3, <1>4, PathSteps

-----------------------------------------------------------------------------
(* The theorems. *)

LEMMA InitIInv == Init => IInv
  <1> SUFFICES ASSUME Init PROVE IInv
    OBVIOUS
  <1>1. /\ variant \in {"driver", "broker"} /\ inbound = <<>> /\ made = 0
        /\ spoiled = [all |-> 0, here |-> FALSE] /\ expected = 0 /\ received = <<>>
        /\ writebuf = <<>> /\ pipe = <<>> /\ parsed = <<>> /\ forwarded = <<>>
        /\ thread = "none" /\ mailbox = <<>> /\ more = 0 /\ granted = 0 /\ commands = 0
        /\ broker = IF variant = "broker" THEN "new" ELSE "quit"
    BY ReplyAssumption DEF Init, ReplyInit, ThreadInit, NoDecoder
  <1>2. Pieces \in Nat \ {0}
    BY ReplyAssumption
  <1>3. TypeInv
    BY <1>1, <1>2 DEF TypeInv
  <1>4. DriverAlone
    BY <1>1 DEF DriverAlone
  <1>5. StreamInv
    <2>1. {i \in DOMAIN inbound : inbound[i][1] = "more"} = {}
      BY <1>1
    <2>2. MoresIn(inbound) = 0
      BY <2>1, FS_EmptySet DEF MoresIn
    <2> QED
      BY <1>1, <2>2 DEF StreamInv, Answered, Whole, ExpectedFirst, DataFollowed,
                        PiecesAnnounced, NoneBad
  <1>6. PathInv
    <2>1. parsed \o pipe \o writebuf \o mailbox = <<>>
      BY <1>1, ConcatEmptySeq
    <2>2. Len(Underway) = 0 /\ DOMAIN Underway = {}
      BY <2>1 DEF Underway
    <2>3. PiecesRead = 0 /\ Len(received) = 0 /\ DOMAIN forwarded = {}
      BY <1>1, <1>2 DEF PiecesRead
    <2> QED
      BY <1>1, <1>2, <2>2, <2>3 DEF PathInv, NothingYet, PartOfResult, PiecesInOrder
  <1> QED
    BY <1>3, <1>4, <1>5, <1>6 DEF IInv

LEMMA TypeStep == TypeInv /\ [Next]_vars => TypeInv'
  <1>1. TypeInv /\ UNCHANGED vars => TypeInv'
    BY DEF TypeInv, vars, replyVars, lineVars, decodeVars, threadVars, brokerVars, sideVars
  <1> QED
    BY <1>1, TypeDaemon, TypeBroker, TypeThread, TypeDriver DEF Next

LEMMA StepIInv == IInv /\ [Next]_vars => IInv'
  <1> SUFFICES ASSUME IInv, [Next]_vars PROVE IInv'
    OBVIOUS
  <1>1. TypeInv /\ DriverAlone /\ StreamInv /\ PathInv
    BY DEF IInv
  <1>2. TypeInv'
    BY <1>1, TypeStep
  <1> QED
    BY <1>1, <1>2, DriverStaysAlone, StreamStep, PathStep DEF IInv

LEMMA AlwaysIInv == Spec => []IInv
  BY InitIInv, StepIInv, PTL DEF Spec

(* As long as every line decodes, a line of a result is never taken for a   *)
(* command nor a command for data, and every MORE read is answered once, in *)
(* the driver (driver.cpp) and in the broker (broker.cpp).                  *)
THEOREM LinesToldFromCommands == Spec => []InStep
  <1>1. IInv => InStep
    <2> SUFFICES ASSUME IInv, link = "up", ~spoiled.here PROVE InStep
      BY DEF InStep
    <2>1. Whole /\ Answered /\ TypeInv
      BY DEF IInv, StreamInv
    <2>2. ASSUME expected < Len(inbound) PROVE ~IsPiece(inbound[expected + 1])
      <3>1. expected + 1 \in DOMAIN inbound /\ expected \in 0 .. Pieces /\ Pieces \in Nat
        BY <2>1, <2>2, ReplyAssumption DEF TypeInv
      <3>2. SUFFICES ASSUME IsPiece(inbound[expected + 1]) PROVE FALSE
        OBVIOUS
      <3>3. PICK j \in DOMAIN inbound :
              j < expected + 1 /\ expected + 1 <= j + Pieces /\ IsData(inbound[j])
        BY <2>1, <3>1, <3>2 DEF Whole, PiecesAnnounced
      <3>4. j \in 1 .. expected
        BY <2>1, <3>1, <3>3 DEF TypeInv
      <3> QED
        BY <2>1, <3>3, <3>4 DEF Whole, ExpectedFirst, IsPiece, IsData
    <2> QED
      BY <2>1, <2>2 DEF InStep, Whole, ExpectedFirst, Answered
  <1> QED
    BY <1>1, AlwaysIInv, PTL

(* Between the connection and scamper's reader, over the mailbox of the     *)
(* decoder (async_decoder.cpp), its buffer and a pipe that takes parts of a *)
(* write, no piece of a result is lost, doubled or overtaken.               *)
THEOREM ResultsArriveInOrder == Spec => []PiecesInOrder
  <1>1. IInv => PiecesInOrder
    BY DEF IInv, PathInv
  <1> QED
    BY <1>1, AlwaysIInv, PTL
=============================================================================
