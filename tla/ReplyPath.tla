------------------------------ MODULE ReplyPath ------------------------------
(***************************************************************************)
(* How replies come back from a scamper daemon.  Its lines arrive on a     *)
(* stream; a DATA line announces the lines of a result, which are          *)
(* uudecoded and written through a pipe into scamper's own reader of warts *)
(* objects, from where the result goes to the collector.                   *)
(*                                                                         *)
(* This path exists twice: in the driver (driver.cpp), where one thread    *)
(* does it all, and in the older broker (broker.cpp), which hands the data *)
(* to the thread of an async_decoder (async_decoder.cpp).  The variable    *)
(* variant tells which of the two a behaviour is about; here is what they  *)
(* share and what is the driver's own.                                     *)
(*                                                                         *)
(* Result r has Pieces lines <<"uu", r, i>>; each counts one towards the   *)
(* announced length, and the daemon may spoil one, <<"bad", r, i>>, which  *)
(* then does not decode.  Nothing but the part of a line at its end is     *)
(* kept from one read to the next, so a read of several lines is as many   *)
(* reads of one.                                                           *)
(***************************************************************************)
EXTENDS Integers, Sequences, SequencesExt

CONSTANTS
  Variants,    \* subset of {"driver", "broker"}
  Pieces,      \* lines of a result
  PipeRoom,    \* pieces that the decode pipe holds
  MaxResults,  \* bound: results the daemon sends
  MaxBad       \* bound: lines that cannot be decoded

ASSUME ReplyAssumption ==
  /\ Variants \subseteq {"driver", "broker"}
  /\ {Pieces, PipeRoom, MaxResults} \subseteq Nat \ {0} /\ MaxBad \in Nat

VARIABLES
  variant,
  link,       \* the connection to the daemon: "none" | "up" | "lost"
  inbound,    \* lines on their way from the daemon
  made,       \* history: results the daemon has sent
  spoiled,    \* history: lines spoiled; whether one was on this connection
  expected,   \* scamper_expected_data_, data_left
  writebuf,   \* decode_wb_
  decoding,   \* decoding_; also whether POLLOUT is registered
  pipe,       \* pieces in the decode pipe
  parsed,     \* pieces of an object that scamper's reader has taken
  stuck,      \* the reader has met something that is no warts object
  forwarded,  \* results that have been read
  received    \* history: pieces decoded since the connection was made

lineVars == <<link, inbound, made, spoiled>>
decodeVars == <<writebuf, decoding, pipe, parsed, stuck, forwarded>>
replyVars == <<variant, lineVars, expected, decodeVars, received>>

NoDecoder ==
  /\ writebuf = <<>> /\ decoding = FALSE /\ pipe = <<>> /\ parsed = <<>>
  /\ stuck = FALSE /\ forwarded = <<>>

ReplyInit ==
  /\ variant \in Variants
  /\ link = IF variant = "driver" THEN "up" ELSE "none"
  /\ inbound = <<>> /\ made = 0 /\ spoiled = [all |-> 0, here |-> FALSE]
  /\ expected = 0
  /\ NoDecoder
  /\ received = <<>>

-----------------------------------------------------------------------------
(* The daemon (external). *)

Result(r, bad) ==
  <<<<"data">>>> \o [i \in 1 .. Pieces |-> <<IF i = bad THEN "bad" ELSE "uu", r, i>>]

SendResult(bad) ==
  /\ link = "up" /\ made < MaxResults
  /\ bad # 0 => spoiled.all < MaxBad
  /\ made' = made + 1
  /\ inbound' = inbound \o Result(made + 1, bad)
  /\ spoiled' = IF bad = 0 THEN spoiled
                ELSE [all |-> spoiled.all + 1, here |-> TRUE]
  /\ UNCHANGED <<variant, link, expected, decodeVars, received>>

-----------------------------------------------------------------------------
(* What a line does.  One that does not decode does not count, and then    *)
(* lines of a later result are taken for commands: a full line starts with *)
(* an M, like MORE.  Only the last line of a result is not full.           *)

IsPiece(line) == line[1] = "uu"

PieceOf(line) == <<line[2], line[3]>>

Decodes(line) == expected > 0 /\ IsPiece(line)

IsMore(line) ==
  /\ expected = 0
  /\ line[1] = "more" \/ (IsPiece(line) /\ line[3] < Pieces)

(* The line DATA itself is counted as one of those it announces. *)
LeftAfterHeadCounted(line) ==
  CASE Decodes(line) -> expected - 1
    [] expected = 0 /\ line[1] = "data" -> Pieces + 1
    [] OTHER -> expected

LeftAfter(line) ==
  CASE Decodes(line) -> expected - 1
    [] expected = 0 /\ line[1] = "data" -> Pieces
    [] OTHER -> expected

TakeLine ==
  /\ inbound' = Tail(inbound)
  /\ expected' = LeftAfter(Head(inbound))
  /\ received' = IF Decodes(Head(inbound))
                 THEN Append(received, PieceOf(Head(inbound))) ELSE received

(* New data are appended to the buffer, and writing is switched on. *)
Buffer(pieces) ==
  /\ writebuf' = writebuf \o pieces
  /\ decoding' = (decoding \/ pieces # <<>>)

-----------------------------------------------------------------------------
(* The decoder: what is buffered goes into the pipe as far as it fits ...  *)

DecodeWriteDropsRest ==
  LET room == PipeRoom - Len(pipe)
      n == IF Len(writebuf) <= room THEN Len(writebuf) ELSE room
  IN  /\ decoding /\ room > 0
      /\ pipe' = pipe \o SubSeq(writebuf, 1, n)
      /\ writebuf' = <<>> /\ decoding' = FALSE
      /\ UNCHANGED <<variant, lineVars, expected, received, parsed, stuck, forwarded>>

DecodeWrite ==
  LET room == PipeRoom - Len(pipe)
      n == IF Len(writebuf) <= room THEN Len(writebuf) ELSE room
  IN  /\ decoding /\ room > 0
      /\ pipe' = pipe \o SubSeq(writebuf, 1, n)
      /\ writebuf' = SubSeq(writebuf, n + 1, Len(writebuf))
      /\ decoding' = (writebuf' # <<>>)
      /\ UNCHANGED <<variant, lineVars, expected, received, parsed, stuck, forwarded>>

(* ... and is read from there, one object in a call at most.  A part of an *)
(* object is kept by the reader (external); after anything that does not   *)
(* continue it, the reader only fails.                                     *)
Continues(piece) ==
  /\ ~stuck
  /\ piece[2] = Len(parsed) + 1
  /\ parsed # <<>> => piece[1] = parsed[1][1]

DecodeReadPart ==
  /\ pipe # <<>> /\ Continues(Head(pipe))
  /\ pipe' = Tail(pipe)
  /\ IF Len(parsed) + 1 = Pieces
     THEN parsed' = <<>> /\ forwarded' = Append(forwarded, Head(pipe)[1])
     ELSE parsed' = Append(parsed, Head(pipe)) /\ UNCHANGED forwarded
  /\ UNCHANGED <<variant, lineVars, expected, received, writebuf, decoding, stuck>>

DecodeReadFails ==
  /\ pipe # <<>> /\ ~Continues(Head(pipe))
  /\ stuck' = TRUE
  /\ UNCHANGED <<variant, lineVars, expected, received, writebuf, decoding, pipe,
                 parsed, forwarded>>

DecodeRead == DecodeReadPart \/ DecodeReadFails

-----------------------------------------------------------------------------
(* The driver: its thread reads lines, decodes, writes and reads.          *)

DriverRead ==
  /\ variant = "driver" /\ link = "up" /\ inbound # <<>>
  /\ TakeLine
  /\ Buffer(IF Decodes(Head(inbound)) THEN <<PieceOf(Head(inbound))>> ELSE <<>>)
  /\ UNCHANGED <<variant, link, made, spoiled, pipe, parsed, stuck, forwarded>>

DriverDecodeWrite == variant = "driver" /\ DecodeWrite

DriverDecodeRead == variant = "driver" /\ DecodeRead

(* The driver does not connect again. *)
DriverLoses ==
  /\ variant = "driver" /\ link = "up"
  /\ link' = "lost"
  /\ UNCHANGED <<variant, inbound, made, spoiled, expected, decodeVars, received>>

DriverLoop == DriverRead \/ DriverDecodeWrite \/ DriverDecodeRead
=============================================================================
