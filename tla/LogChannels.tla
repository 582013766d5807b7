----------------------------- MODULE LogChannels -----------------------------
(***************************************************************************)
(* What the log buffers and their collector share: the lines, the clock    *)
(* they are stamped with, and the messages between them.                   *)
(*                                                                         *)
(* Time is counted in hours: align_to_hour() is applied to every timestamp *)
(* before it is used or compared with the bounds of a file, which are full *)
(* hours, too.  A line is known by its source and its number.              *)
(***************************************************************************)
EXTENDS Integers, Sequences, FiniteSets

CONSTANTS
  Buffers,        \* buffer actors, one per shard (or manager)
  DirectSenders,  \* actors that send single lines without a buffer
  MaxLines,       \* bound: lines each source logs
  LastHour,       \* bound: the hours are 0..LastHour
  MaxCrashes      \* bound: times the process dies and is started again

ASSUME LogAssumption ==
  /\ Buffers \cap DirectSenders = {} /\ "header" \notin Buffers \cup DirectSenders
  /\ MaxLines \in Nat /\ LastHour \in Nat /\ MaxCrashes \in Nat

Hours == 0..LastHour
Senders == Buffers \cup DirectSenders
Lines == [src : Senders, n : 1..MaxLines, hour : Hours]
Header(h) == [src |-> "header", n |-> 0, hour |-> h]

VARIABLES
  now,          \* the hour of the telescope's clock
  logged,       \* history: lines each source has logged
  toCollector,  \* per sender: messages on their way to the collector
  returned,     \* per buffer: vectors on their way back from the collector
  crashes       \* times the process died

logChannels == <<now, logged, toCollector, returned, crashes>>

LogChannelInit ==
  /\ now = 0 /\ crashes = 0
  /\ logged = [s \in Senders |-> 0]
  /\ toCollector = [s \in Senders |-> <<>>]
  /\ returned = [b \in Buffers |-> <<>>]

(* A packet is logged in the hour it is seen, the reply to a probe under    *)
(* the time the probe was started, at most an hour ago.                     *)
NextLine(s, h) == [src |-> s, n |-> logged[s] + 1, hour |-> h]
Stamps == {now, now - 1} \cap Hours
=============================================================================
