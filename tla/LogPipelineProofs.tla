------------------------- MODULE LogPipelineProofs -------------------------
(***************************************************************************)
(* Theorems about the log pipeline, for any number of buffers, senders,    *)
(* lines, hours and crashes: the collector's streams always fit its        *)
(* behaviour (so none is ever opened while it is open), every line is in   *)
(* the file of its hour, and only lines that are too old are refused.      *)
(***************************************************************************)
EXTENDS LogPipeline, SequenceTheorems, TLAPS

(* The inductive invariant.  To know that a line gets into the file of its  *)
(* hour, one has to know that the lines of a vector are all of the hour it  *)
(* is stamped with, wherever the vector is: in a buffer, on its way, or     *)
(* kept for reuse, where it must be empty.  "Lines of one hour" is said as  *)
(* a set, so that the vectors are just sequences over it.                   *)
LinesOf(h) == {e \in Lines : e.hour = h}
Text(h) == LinesOf(h) \cup {Header(h)}
Vectors == {m \in MessageType : m.content \in Seq(LinesOf(m.hour))}

ChannelInv ==
  /\ now \in Hours /\ crashes \in 0..MaxCrashes
  /\ logged \in [Senders -> 0..MaxLines]
  /\ toCollector \in [Senders -> Seq(Vectors)]
  /\ returned \in [Buffers -> Seq(Seq(Lines))]

BufferInv ==
  /\ buf \in [Buffers -> Seq(Lines)] /\ stamp \in [Buffers -> Hours]
  /\ \A b \in Buffers : buf[b] \in Seq(LinesOf(stamp[b]))
  /\ next \in [Buffers -> {<<>>}] /\ backup \in [Buffers -> BOOLEAN]

StreamInv ==
  /\ mode \in {"idle", "one", "two"}
  /\ current \in StreamType /\ last \in StreamType
  /\ StreamsFitMode
  /\ IF mode = "idle" THEN current.start = None ELSE current.start \in Hours

FileInv ==
  /\ files \in [Hours -> Seq(Lines \cup {Header(h) : h \in Hours})]
  /\ \A h \in Hours : files[h] \in Seq(Text(h))
  /\ created \subseteq Hours /\ synced \in [Hours -> Nat]
  /\ tooOld \subseteq Lines

IInv == ChannelInv /\ BufferInv /\ StreamInv /\ FileInv

-----------------------------------------------------------------------------
(* Sequences over the lines of an hour. *)

LEMMA HourFacts ==
  /\ 0 \in Hours /\ Hours \subseteq Nat /\ None \notin Hours /\ None = -2
  /\ \A h \in Hours : h + 1 # None /\ h - 1 \in Hours \cup {-1}
  BY LogAssumption DEF LogAssumption, Hours, None

LEMMA VectorFacts ==
  ASSUME NEW m \in Vectors
  PROVE  /\ m.hour \in Hours /\ m.buffered \in BOOLEAN
         /\ m.content \in Seq(Lines) /\ m.content \in Seq(LinesOf(m.hour))
  BY DEF Vectors, MessageType

LEMMA LinesAreText ==
  ASSUME NEW h \in Hours, NEW lines \in Seq(LinesOf(h))
  PROVE  /\ lines \in Seq(Lines) /\ lines \in Seq(Text(h))
         /\ <<Header(h)>> \in Seq(Text(h)) /\ <<>> \in Seq(Text(h))
  <1>1. LinesOf(h) \subseteq Lines /\ LinesOf(h) \subseteq Text(h)
    BY DEF LinesOf, Text
  <1>2. lines \in Seq(Lines) /\ lines \in Seq(Text(h))
    BY <1>1, SeqMonotonic
  <1>3. Header(h) \in Text(h)
    BY DEF Text
  <1> QED
    BY <1>2, <1>3

LEMMA TextIsTyped ==
  ASSUME NEW h \in Hours, NEW text \in Seq(Text(h))
  PROVE  text \in Seq(Lines \cup {Header(k) : k \in Hours})
  <1>1. Text(h) \subseteq Lines \cup {Header(k) : k \in Hours}
    BY DEF Text, LinesOf
  <1> QED
    BY <1>1, SeqMonotonic

LEMMA InitIInv == Init => IInv
  <1> SUFFICES ASSUME Init PROVE IInv
    OBVIOUS
  <1> USE HourFacts, LogAssumption DEF LogAssumption, Init
  <1>1. ChannelInv
    BY DEF LogChannelInit, ChannelInv
  <1>2. BufferInv
    BY DEF BufferInit, BufferInv
  <1>3. StreamInv
    BY DEF CollectorInit, StreamInv, Closed, StreamType, StreamsFitMode
  <1>4. FileInv
    BY DEF CollectorInit, FileInv
  <1> QED
    BY <1>1, <1>2, <1>3, <1>4 DEF IInv

-----------------------------------------------------------------------------
(* The sources: the clock, the buffers and the direct senders. *)

LEMMA StampsAreHours == IInv => Stamps \subseteq Hours
  BY DEF Stamps

LEMMA NextLineFacts ==
  ASSUME IInv, NEW s \in Senders, NEW h \in Hours, logged[s] < MaxLines
  PROVE  NextLine(s, h) \in LinesOf(h) /\ logged[s] + 1 \in 0..MaxLines
  BY LogAssumption
  DEF LogAssumption, IInv, ChannelInv, NextLine, LinesOf, Lines

LEMMA TickKeeps == IInv /\ Tick => IInv'
  <1> SUFFICES ASSUME IInv, Tick PROVE IInv'
    OBVIOUS
  <1> USE DEF Tick, IInv, bufferVars, collectorVars
  <1>1. ChannelInv'
    BY LogAssumption DEF LogAssumption, ChannelInv, Hours
  <1>2. BufferInv'
    BY DEF BufferInv
  <1>3. StreamInv'
    BY DEF StreamInv, StreamsFitMode
  <1>4. FileInv'
    BY DEF FileInv
  <1> QED
    BY <1>1, <1>2, <1>3, <1>4

(* A buffer that adds a line, whether or not it sends the others first:     *)
(* for a line of another hour it has to.                                    *)
LEMMA AddLineKeeps ==
  ASSUME IInv, NEW b \in Buffers, NEW h \in Hours, NEW otherHour \in BOOLEAN,
         AddLine(b, h, otherHour),
         otherHour <=> (buf[b] # <<>> /\ h # stamp[b])
  PROVE  ChannelInv' /\ BufferInv'
  <1> DEFINE filled == Append(IF otherHour THEN Fresh(b) ELSE buf[b],
                              NextLine(b, h))
             tooLarge == Len(filled) > Threshold
             hour == IF buf[b] = <<>> \/ otherHour THEN h ELSE stamp[b]
             first == IF otherHour THEN <<Message(stamp[b], buf[b])>> ELSE <<>>
             second == IF tooLarge THEN <<Message(hour, filled)>> ELSE <<>>
  <1>1. /\ logged[b] < MaxLines
        /\ logged' = [logged EXCEPT ![b] = @ + 1]
        /\ toCollector' = [toCollector EXCEPT ![b] = @ \o first \o second]
        /\ stamp' = [stamp EXCEPT ![b] = hour]
        /\ buf' = [buf EXCEPT ![b] = IF ~tooLarge THEN filled
                                     ELSE IF otherHour THEN <<>> ELSE Fresh(b)]
        /\ next' = [next EXCEPT ![b] = IF otherHour \/ tooLarge THEN <<>> ELSE @]
        /\ backup' = [backup EXCEPT ![b] = @ /\ ~otherHour /\ ~tooLarge]
        /\ UNCHANGED <<now, returned, crashes>>
    BY DEF AddLine
  <1> HIDE DEF first, second
  <1>2. /\ b \in Senders /\ stamp[b] \in Hours /\ backup[b] \in BOOLEAN
        /\ buf[b] \in Seq(LinesOf(stamp[b])) /\ buf[b] \in Seq(Lines)
        /\ next[b] = <<>> /\ Fresh(b) = <<>>
        /\ logged[b] \in Nat
        /\ toCollector[b] \in Seq(Vectors)
    BY DEF IInv, BufferInv, ChannelInv, Senders, Fresh
  <1>3. NextLine(b, h) \in LinesOf(h) /\ logged[b] + 1 \in 0..MaxLines
    BY <1>1, <1>2, NextLineFacts
  <1>4. hour \in Hours /\ filled \in Seq(LinesOf(hour))
    <2>1. CASE otherHour
      BY <2>1, <1>2, <1>3
    <2>2. CASE ~otherHour /\ buf[b] = <<>>
      BY <2>2, <1>2, <1>3
    <2>3. CASE ~otherHour /\ buf[b] # <<>>
      BY <2>3, <1>2, <1>3
    <2> QED
      BY <2>1, <2>2, <2>3
  <1> HIDE DEF filled, tooLarge, hour
  <1>5. filled \in Seq(Lines) /\ <<>> \in Seq(Lines) /\ <<>> \in Seq(LinesOf(hour))
    BY <1>4, LinesAreText
  <1>6. Message(stamp[b], buf[b]) \in Vectors /\ Message(hour, filled) \in Vectors
    BY <1>2, <1>4, <1>5 DEF Message, Vectors, MessageType
  <1>7. first \in Seq(Vectors) /\ second \in Seq(Vectors)
    BY <1>6 DEF first, second
  <1>8. toCollector[b] \o first \o second \in Seq(Vectors)
    BY <1>2, <1>7, ConcatProperties
  <1>9. ChannelInv'
    <2>1. toCollector' \in [Senders -> Seq(Vectors)]
      BY <1>1, <1>2, <1>8 DEF IInv, ChannelInv
    <2>2. logged' \in [Senders -> 0..MaxLines]
      BY <1>1, <1>2, <1>3 DEF IInv, ChannelInv
    <2> QED
      BY <1>1, <2>1, <2>2 DEF IInv, ChannelInv
  <1>10. BufferInv'
    <2>1. /\ buf' \in [Buffers -> Seq(Lines)] /\ stamp' \in [Buffers -> Hours]
          /\ next' \in [Buffers -> {<<>>}]
      BY <1>1, <1>2, <1>4, <1>5 DEF IInv, BufferInv
    <2>2. backup' \in [Buffers -> BOOLEAN]
      BY <1>1, Zenon DEF IInv, BufferInv
    <2>3. ASSUME NEW c \in Buffers PROVE buf'[c] \in Seq(LinesOf(stamp'[c]))
      <3>1. CASE c = b
        BY <3>1, <1>1, <1>2, <1>4, <1>5 DEF IInv, BufferInv
      <3>2. CASE c # b
        BY <3>2, <1>1 DEF IInv, BufferInv
      <3> QED
        BY <3>1, <3>2
    <2> QED
      BY <2>1, <2>2, <2>3 DEF BufferInv
  <1> QED
    BY <1>9, <1>10

LEMMA BufferKeeps ==
  ASSUME IInv, NEW b \in Buffers, BufferStep(b)
  PROVE  IInv'
  <1>1. StreamInv' /\ FileInv'
    BY DEF IInv, BufferStep, collectorVars, StreamInv, StreamsFitMode, FileInv
  <1>2. CASE Log(b)
    <2>1. PICK h \in Stamps : AddLine(b, h, buf[b] # <<>> /\ h # stamp[b])
      BY <1>2 DEF Log
    <2>2. h \in Hours
      BY <2>1, StampsAreHours
    <2> QED
      BY <2>1, <2>2, <1>1, AddLineKeeps DEF IInv
  <1>3. CASE TakeBack(b)
    <2> USE <1>3 DEF TakeBack, Keep
    <2>1. ChannelInv'
      BY DEF IInv, ChannelInv
    <2>2. BufferInv'
      BY DEF IInv, BufferInv
    <2> QED
      BY <1>1, <2>1, <2>2 DEF IInv
  <1> QED
    BY <1>2, <1>3 DEF BufferStep

LEMMA DirectKeeps ==
  ASSUME IInv, NEW d \in DirectSenders, LogDirectly(d)
  PROVE  IInv'
  <1>1. PICK h \in Stamps :
          toCollector' = [toCollector EXCEPT ![d] =
            Append(@, [hour |-> h, content |-> <<NextLine(d, h)>>,
                       buffered |-> FALSE])]
    BY DEF LogDirectly
  <1>2. h \in Hours /\ d \in Senders
    BY <1>1, StampsAreHours DEF Senders
  <1>3. NextLine(d, h) \in LinesOf(h) /\ logged[d] + 1 \in 0..MaxLines
    BY <1>2, NextLineFacts DEF LogDirectly
  <1>4. [hour |-> h, content |-> <<NextLine(d, h)>>, buffered |-> FALSE] \in Vectors
    <2>1. <<NextLine(d, h)>> \in Seq(LinesOf(h))
      BY <1>3
    <2>2. <<NextLine(d, h)>> \in Seq(Lines)
      BY <2>1, <1>2, LinesAreText
    <2> QED
      BY <1>2, <2>1, <2>2 DEF Vectors, MessageType
  <1>5. ChannelInv'
    <2>1. toCollector' \in [Senders -> Seq(Vectors)]
      BY <1>1, <1>2, <1>4 DEF IInv, ChannelInv
    <2>2. logged' \in [Senders -> 0..MaxLines]
      BY <1>2, <1>3 DEF IInv, ChannelInv, LogDirectly
    <2> QED
      BY <2>1, <2>2 DEF IInv, ChannelInv, LogDirectly
  <1>6. BufferInv' /\ StreamInv' /\ FileInv'
    BY DEF IInv, LogDirectly, bufferVars, collectorVars, BufferInv, StreamInv,
           StreamsFitMode, FileInv
  <1> QED
    BY <1>5, <1>6 DEF IInv

-----------------------------------------------------------------------------
(* The collector. *)

(* A message is taken: it is of one hour, and what remains stays typed. *)
LEMMA TakeKeeps ==
  ASSUME IInv, NEW s \in Senders, Take(s)
  PROVE  /\ Head(toCollector[s]) \in Vectors /\ HourOf(s) \in Hours
         /\ ChannelInv'
  <1>1. toCollector[s] \in Seq(Vectors) /\ toCollector[s] # <<>>
    BY DEF IInv, ChannelInv, Take
  <1>2. Head(toCollector[s]) \in Vectors /\ Tail(toCollector[s]) \in Seq(Vectors)
    BY <1>1, HeadTailProperties
  <1>3. HourOf(s) \in Hours /\ Head(toCollector[s]).content \in Seq(Lines)
    BY <1>2, VectorFacts DEF HourOf
  <1>4. toCollector' \in [Senders -> Seq(Vectors)]
    BY <1>2 DEF IInv, ChannelInv, Take
  <1>5. returned' \in [Buffers -> Seq(Seq(Lines))]
    BY <1>3 DEF IInv, ChannelInv, Take
  <1> QED
    BY <1>2, <1>3, <1>4, <1>5 DEF IInv, ChannelInv, Take

(* Lines that are written to the file of their hour, with or without a      *)
(* header, keep the files as they should be.                                *)
LEMMA WriteKeeps ==
  ASSUME IInv, NEW s \in Senders, Head(toCollector[s]) \in Vectors,
         NEW stream \in StreamType, stream.file = HourOf(s),
         NEW withHeader \in BOOLEAN, NEW closed,
         Write(s, stream, withHeader, closed), tooOld' = tooOld
  PROVE  FileInv'
  <1> DEFINE m == Head(toCollector[s])
             h == stream.file
             head == IF withHeader /\ h \notin created THEN <<Header(h)>> ELSE <<>>
             text == head \o m.content
  <1>1. h \in Hours /\ m.content \in Seq(LinesOf(h)) /\ h # None
    BY VectorFacts, HourFacts DEF HourOf
  <1>2. head \in Seq(Text(h)) /\ m.content \in Seq(Text(h))
    BY <1>1, LinesAreText
  <1> HIDE DEF head
  <1>3. text \in Seq(Text(h))
    BY <1>2, ConcatProperties
  <1>4. files[h] \o text \in Seq(Text(h))
    BY <1>1, <1>3, ConcatProperties DEF IInv, FileInv
  <1>5. Len(files[h] \o text) \in Nat /\ \A k \in Hours : Len(files[k]) \in Nat
    BY <1>4, LenProperties DEF IInv, FileInv
  <1>6. Sync(closed) \in [Hours -> Nat]
    BY <1>5 DEF Sync, IInv, FileInv
  <1>7. CASE stream.good
    <2>1. /\ files' = [files EXCEPT ![h] = @ \o text]
          /\ created' = created \cup {h}
          /\ synced' = IF m.buffered THEN Sync(closed)
                       ELSE [Sync(closed) EXCEPT ![h] = Len(files[h] \o text)]
      BY <1>1, <1>7 DEF Write, head
    <2> HIDE DEF text, h, m
    <2>2. files[h] \o text \in Seq(Lines \cup {Header(k) : k \in Hours})
      BY <1>1, <1>4, TextIsTyped
    <2>3. files' \in [Hours -> Seq(Lines \cup {Header(k) : k \in Hours})]
      BY <2>1, <2>2, <1>1 DEF IInv, FileInv
    <2>4. ASSUME NEW k \in Hours PROVE files'[k] \in Seq(Text(k))
      BY <2>1, <1>1, <1>4 DEF IInv, FileInv
    <2>5. synced' \in [Hours -> Nat]
      BY <2>1, <1>1, <1>5, <1>6
    <2> QED
      BY <2>1, <2>3, <2>4, <2>5, <1>1 DEF IInv, FileInv
  <1>8. CASE ~stream.good
    BY <1>8, <1>6 DEF Write, IInv, FileInv
  <1> QED
    BY <1>7, <1>8

(* What the streams are like, outside of the idle behaviour. *)
LEMMA StreamFacts ==
  ASSUME IInv
  PROVE  /\ current \in StreamType /\ last \in StreamType
         /\ mode = "idle" => current.file = None
         /\ mode # "idle" =>
              /\ current.start \in Hours /\ current.file = current.start
              /\ last.start = current.start - 1
         /\ mode = "one" => last.file = None
         /\ mode = "two" => last.file = last.start /\ last.start \in Hours
  <1>1. ASSUME mode = "two" PROVE last.start \in Hours
    <2>1. current.start \in Hours
      BY <1>1 DEF IInv, StreamInv
    <2>2. last.start = current.start - 1 /\ last.file = last.start
      BY <1>1 DEF IInv, StreamInv, StreamsFitMode
    <2>3. last.start # None
      BY <2>1, <2>2 DEF Hours, None
    <2>4. last.file \in Hours \cup {None}
      BY DEF IInv, StreamInv, StreamType
    <2> QED
      BY <2>2, <2>3, <2>4
  <1> QED
    BY <1>1 DEF IInv, StreamInv, StreamsFitMode

(* Opening a stream that is not open succeeds. *)
LEMMA OpenedFacts ==
  ASSUME NEW stream, stream.file = None, NEW h \in Hours
  PROVE  Opened(stream, h) = [start |-> h, file |-> h, good |-> TRUE]
  BY DEF Opened, OpenedAs

LEMMA FreshStreamType ==
  ASSUME NEW h \in Hours
  PROVE  /\ [start |-> h, file |-> h, good |-> TRUE] \in StreamType
         /\ Window(h - 1) \in StreamType /\ Closed \in StreamType
         /\ Closed.file = None
  BY HourFacts DEF StreamType, Window, Closed

(* One lemma per way the collector deals with a message. *)
LEMMA WriteFirstKeeps ==
  ASSUME IInv, NEW s \in Senders, WriteFirst(s)
  PROVE  ChannelInv' /\ StreamInv' /\ FileInv'
  <1> DEFINE h == HourOf(s)
  <1>1. Head(toCollector[s]) \in Vectors /\ h \in Hours /\ ChannelInv'
    BY TakeKeeps DEF WriteFirst
  <1> HIDE DEF h
  <1>2. current' = [start |-> h, file |-> h, good |-> TRUE]
    BY <1>1, StreamFacts, OpenedFacts DEF WriteFirst, h
  <1>3. /\ mode' = "one"
        /\ last' = [start |-> h - 1, file |-> None, good |-> TRUE]
    BY DEF WriteFirst, h, Window
  <1>4. current' \in StreamType /\ last' \in StreamType
    BY <1>1, <1>2, <1>3, FreshStreamType DEF Window
  <1>5. StreamInv'
    BY <1>1, <1>2, <1>3, <1>4 DEF StreamInv, StreamsFitMode
  <1>6. FileInv'
    BY <1>1, <1>2, <1>4, WriteKeeps DEF WriteFirst, h
  <1> QED
    BY <1>1, <1>5, <1>6

LEMMA WriteOpenKeeps ==
  ASSUME IInv, NEW s \in Senders, WriteCurrent(s) \/ WriteLast(s)
  PROVE  ChannelInv' /\ StreamInv' /\ FileInv'
  <1>1. Head(toCollector[s]) \in Vectors /\ HourOf(s) \in Hours /\ ChannelInv'
    BY TakeKeeps DEF WriteCurrent, WriteLast
  <1>2. StreamInv'
    BY DEF WriteCurrent, WriteLast, IInv, StreamInv, StreamsFitMode
  <1>3. ASSUME WriteCurrent(s) PROVE FileInv'
    <2>1. current \in StreamType /\ current.file = HourOf(s)
      BY <1>3, StreamFacts DEF WriteCurrent
    <2> QED
      BY <1>1, <1>3, <2>1, WriteKeeps DEF WriteCurrent
  <1>4. ASSUME WriteLast(s) PROVE FileInv'
    <2>1. last \in StreamType /\ last.file = HourOf(s)
      BY <1>4, StreamFacts DEF WriteLast
    <2> QED
      BY <1>1, <1>4, <2>1, WriteKeeps DEF WriteLast
  <1> QED
    BY <1>1, <1>2, <1>3, <1>4

LEMMA OpenLastKeeps ==
  ASSUME IInv, NEW s \in Senders, OpenLast(s)
  PROVE  ChannelInv' /\ StreamInv' /\ FileInv'
  <1> DEFINE h == HourOf(s)
             header == Head(toCollector[s]).buffered
  <1> USE DEF OpenLast, OpenLastWith
  <1>1. Head(toCollector[s]) \in Vectors /\ h \in Hours /\ ChannelInv'
    BY TakeKeeps
  <1>2. header \in BOOLEAN
    BY <1>1, VectorFacts
  <1> HIDE DEF h
  <1>3. last' = [start |-> h, file |-> h, good |-> TRUE]
    BY <1>1, StreamFacts, OpenedFacts DEF h
  <1>4. /\ mode' = "two" /\ current' = current
        /\ current.file = current.start /\ h = current.start - 1
        /\ current.start \in Hours /\ current \in StreamType /\ current.good
    <2>1. /\ mode = "one" /\ h = last.start
          /\ mode' = "two" /\ current' = current
      BY DEF h
    <2>2. current.good
      BY DEF IInv, StreamInv, StreamsFitMode
    <2> QED
      BY <2>1, <2>2, StreamFacts
  <1>5. last' \in StreamType
    BY <1>1, <1>3, FreshStreamType
  <1>6. StreamInv'
    BY <1>1, <1>3, <1>4, <1>5 DEF StreamInv, StreamsFitMode
  <1>7. FileInv'
    BY <1>1, <1>2, <1>3, <1>5, WriteKeeps DEF h
  <1> QED
    BY <1>1, <1>6, <1>7

LEMMA RotateKeeps ==
  ASSUME IInv, NEW s \in Senders, Rotate(s)
  PROVE  ChannelInv' /\ StreamInv' /\ FileInv'
  <1> DEFINE h == HourOf(s)
  <1> USE DEF Rotate
  <1>1. Head(toCollector[s]) \in Vectors /\ h \in Hours /\ ChannelInv'
    BY TakeKeeps
  <1> HIDE DEF h
  <1>2. current' = [start |-> h, file |-> h, good |-> TRUE]
    BY <1>1, FreshStreamType, OpenedFacts DEF h
  <1>3. /\ mode' = "two" /\ last' = current
        /\ current.start \in Hours /\ h = current.start + 1
        /\ current.file = current.start /\ current \in StreamType /\ current.good
    BY <1>1, StreamFacts DEF h, IInv, StreamInv, StreamsFitMode
  <1>4. current' \in StreamType
    BY <1>1, <1>2, FreshStreamType
  <1>5. StreamInv'
    <2>1. current.start = h - 1
      BY <1>1, <1>3 DEF Hours
    <2> QED
      BY <1>1, <1>2, <1>3, <1>4, <2>1 DEF StreamInv, StreamsFitMode
  <1>6. FileInv'
    BY <1>1, <1>2, <1>4, WriteKeeps DEF h
  <1> QED
    BY <1>1, <1>5, <1>6

LEMMA SkipHoursKeeps ==
  ASSUME IInv, NEW s \in Senders, SkipHours(s)
  PROVE  ChannelInv' /\ StreamInv' /\ FileInv'
  <1> DEFINE h == HourOf(s)
  <1> USE DEF SkipHours, Skip
  <1>1. Head(toCollector[s]) \in Vectors /\ h \in Hours /\ ChannelInv'
    BY TakeKeeps
  <1> HIDE DEF h
  <1>2. current' = [start |-> h, file |-> h, good |-> TRUE]
    BY <1>1, FreshStreamType, OpenedFacts DEF h
  <1>3. /\ mode' = "one"
        /\ last' = [start |-> h - 1, file |-> None, good |-> TRUE]
    BY DEF h, Window
  <1>4. current' \in StreamType /\ last' \in StreamType
    BY <1>1, <1>2, <1>3, FreshStreamType DEF Window
  <1>5. StreamInv'
    BY <1>1, <1>2, <1>3, <1>4 DEF StreamInv, StreamsFitMode
  <1>6. FileInv'
    BY <1>1, <1>2, <1>4, WriteKeeps DEF h
  <1> QED
    BY <1>1, <1>5, <1>6

LEMMA RefuseKeeps ==
  ASSUME IInv, NEW s \in Senders, Refuse(s)
  PROVE  ChannelInv' /\ StreamInv' /\ FileInv'
  <1> USE DEF Refuse, RefuseBefore
  <1>1. Head(toCollector[s]) \in Vectors /\ ChannelInv'
    BY TakeKeeps
  <1>2. Head(toCollector[s]).content \in Seq(Lines)
    BY <1>1, VectorFacts
  <1>3. tooOld' \subseteq Lines
    BY <1>2, ElementOfSeq, LenProperties DEF IInv, FileInv
  <1>4. StreamInv'
    BY DEF IInv, StreamInv, StreamsFitMode
  <1>5. FileInv'
    BY <1>3 DEF IInv, FileInv
  <1> QED
    BY <1>1, <1>4, <1>5

LEMMA CollectorKeeps ==
  ASSUME IInv, NEW s \in Senders, CollectorStep(s)
  PROVE  IInv'
  <1>1. BufferInv'
    BY DEF CollectorStep, bufferVars, IInv, BufferInv
  <1>2. ChannelInv' /\ StreamInv' /\ FileInv'
    BY WriteFirstKeeps, WriteOpenKeeps, OpenLastKeeps, RotateKeeps,
       SkipHoursKeeps, RefuseKeeps DEF CollectorStep, Collect
  <1> QED
    BY <1>1, <1>2 DEF IInv

(* A crash cuts the files and resets everything else. *)
LEMMA CrashKeeps == IInv /\ Crash => IInv'
  <1> SUFFICES ASSUME IInv, Crash PROVE IInv'
    OBVIOUS
  <1>1. PICK left \in [Hours -> 0..(Cardinality(Senders) * MaxLines + 1)] :
          /\ \A h \in Hours : left[h] \in synced[h]..Len(files[h])
          /\ files' = [h \in Hours |-> SubSeq(files[h], 1, left[h])]
          /\ synced' = left
    BY DEF Crash
  <1>2. ASSUME NEW h \in Hours
        PROVE  /\ files'[h] \in Seq(Text(h)) /\ synced'[h] \in Nat
    <2>1. files[h] \in Seq(Text(h)) /\ synced[h] \in Nat /\ Len(files[h]) \in Nat
      BY LenProperties DEF IInv, FileInv
    <2>2. left[h] \in Nat /\ left[h] <= Len(files[h])
      BY <1>1, <2>1
    <2>3. \A i \in 1..left[h] : files[h][i] \in Text(h)
      BY <2>1, <2>2, ElementOfSeq
    <2>4. SubSeq(files[h], 1, left[h]) \in Seq(Text(h))
      BY <2>2, <2>3, SubSeqProperties
    <2> QED
      BY <1>1, <2>2, <2>4
  <1>3. files' \in [Hours -> Seq(Lines \cup {Header(h) : h \in Hours})]
    <2>1. \A h \in Hours : files'[h] \in Seq(Lines \cup {Header(k) : k \in Hours})
      BY <1>2, TextIsTyped
    <2> QED
      BY <1>1, <2>1
  <1>4. synced' \in [Hours -> Nat]
    BY <1>1, <1>2
  <1>5. FileInv'
    BY <1>2, <1>3, <1>4 DEF FileInv, IInv, Crash
  <1>6. ChannelInv'
    <2>1. crashes' \in 0..MaxCrashes
      BY LogAssumption DEF LogAssumption, Crash, IInv, ChannelInv
    <2> QED
      BY <2>1 DEF Crash, IInv, ChannelInv
  <1>7. BufferInv'
    BY HourFacts DEF Crash, BufferInv
  <1>8. StreamInv'
    BY HourFacts DEF Crash, StreamInv, StreamsFitMode, StreamType, Closed
  <1> QED
    BY <1>5, <1>6, <1>7, <1>8 DEF IInv

-----------------------------------------------------------------------------
(* The theorems. *)

LEMMA NextKeeps == IInv /\ [Next]_vars => IInv'
  <1> SUFFICES ASSUME IInv, [Next]_vars PROVE IInv'
    OBVIOUS
  <1>1. CASE UNCHANGED vars
    BY <1>1 DEF IInv, ChannelInv, BufferInv, StreamInv, StreamsFitMode, FileInv,
                vars, logChannels, bufferVars, collectorVars
  <1>2. CASE Next
    BY <1>2, TickKeeps, BufferKeeps, DirectKeeps, CollectorKeeps, CrashKeeps
    DEF Next
  <1> QED
    BY <1>1, <1>2

LEMMA Invariance == Spec => []IInv
  BY InitIInv, NextKeeps, PTL DEF Spec

LEMMA IInvTyped == IInv => TypeOK
  <1> SUFFICES ASSUME IInv PROVE TypeOK
    OBVIOUS
  <1>1. Vectors \subseteq MessageType
    BY DEF Vectors
  <1>2. toCollector \in [Senders -> Seq(MessageType)]
    BY <1>1, SeqMonotonic DEF IInv, ChannelInv
  <1>3. next \in [Buffers -> Seq(Lines)]
    <2>1. <<>> \in Seq(Lines)
      OBVIOUS
    <2> QED
      BY <2>1 DEF IInv, BufferInv
  <1> QED
    BY <1>2, <1>3 DEF IInv, ChannelInv, BufferInv, StreamInv, FileInv, TypeOK

(* Every variable of buffers, collector and files keeps its type. *)
THEOREM LogsTypeCorrect == Spec => []TypeOK
  BY Invariance, IInvTyped, PTL

(* The collector's streams are open on the files its behaviour needs, and   *)
(* none is ever opened twice, which would make it swallow its lines         *)
(* (collector.cpp:313-502).                                                 *)
THEOREM StreamsAlwaysFit == Spec => []StreamsFitMode
  <1>1. IInv => StreamsFitMode
    BY DEF IInv, StreamInv
  <1> QED
    BY <1>1, Invariance, PTL

(* Every line and every header is in the file of its own hour.              *)
THEOREM LinesInTheirFiles == Spec => []LineInItsFile
  <1>1. ASSUME IInv, NEW h \in Hours, NEW i \in DOMAIN files[h]
        PROVE  files[h][i].hour = h
    <2>1. files[h] \in Seq(Text(h))
      BY <1>1 DEF IInv, FileInv
    <2>2. files[h][i] \in Text(h)
      BY <2>1, ElementOfSeq, LenProperties
    <2> QED
      BY <2>2 DEF Text, LinesOf, Header
  <1>2. IInv => LineInItsFile
    BY <1>1 DEF LineInItsFile
  <1> QED
    BY <1>2, Invariance, PTL

-----------------------------------------------------------------------------
(* What a step may not do. *)

Forward == current'.start >= current.start
NoneRefused == tooOld' = tooOld

LEMMA StartFacts == IInv => current.start \in Int /\ current.start >= -2
  <1> SUFFICES ASSUME IInv PROVE current.start \in Int /\ current.start >= -2
    OBVIOUS
  <1>1. current.start \in Hours \cup {-1, None}
    BY DEF IInv, StreamInv, StreamType
  <1> QED
    BY <1>1, LogAssumption DEF LogAssumption, Hours, None

(* A line is refused by the collector only, and with the rest of a vector   *)
(* that is older than the hour before the current one.                      *)
LEMMA RefuseOld ==
  ASSUME IInv, NEW s \in Senders, Refuse(s)
  PROVE  Forward /\ \A e \in tooOld' \ tooOld : e.hour + 1 < current.start
  <1> DEFINE m == Head(toCollector[s])
  <1>1. m \in Vectors
    BY TakeKeeps DEF Refuse, RefuseBefore
  <1>2. current.start \in Hours /\ m.hour < current.start - 1 /\ m.hour \in Hours
    BY <1>1, StreamFacts, VectorFacts DEF Refuse, RefuseBefore, HourOf
  <1>3. Forward
    BY <1>2 DEF Refuse, RefuseBefore, Forward, Hours
  <1>4. ASSUME NEW e \in tooOld' \ tooOld PROVE e.hour = m.hour
    <2>1. PICK i \in DOMAIN m.content : e = m.content[i]
      BY DEF Refuse, RefuseBefore
    <2>2. m.content \in Seq(LinesOf(m.hour))
      BY <1>1, VectorFacts
    <2>3. m.content[i] \in LinesOf(m.hour)
      BY <2>2, ElementOfSeq, LenProperties
    <2> QED
      BY <2>1, <2>3 DEF LinesOf
  <1> HIDE DEF m
  <1>5. m.hour + 1 < current.start
    BY <1>2 DEF Hours
  <1> QED
    BY <1>3, <1>4, <1>5

(* Whatever is written, the current hour stays or a later one begins.       *)
LEMMA WritingGoesForward ==
  ASSUME IInv, NEW s \in Senders,
         \/ WriteFirst(s) \/ WriteCurrent(s) \/ WriteLast(s) \/ OpenLast(s)
         \/ Rotate(s) \/ SkipHours(s)
  PROVE  Forward /\ NoneRefused
  <1>1. Take(s)
    BY DEF WriteFirst, WriteCurrent, WriteLast, OpenLast, OpenLastWith, Rotate,
           SkipHours, Skip
  <1>2. HourOf(s) \in Hours /\ HourOf(s) \in Nat
    BY <1>1, TakeKeeps, HourFacts
  <1>3. ASSUME WriteCurrent(s) \/ WriteLast(s) \/ OpenLast(s)
        PROVE  Forward /\ NoneRefused
    <2>1. current' = current /\ NoneRefused
      BY <1>3 DEF WriteCurrent, WriteLast, OpenLast, OpenLastWith, NoneRefused
    <2> QED
      BY <2>1, StartFacts DEF Forward
  <1>4. ASSUME WriteFirst(s) PROVE Forward /\ NoneRefused
    <2>1. current' = Opened(current, HourOf(s)) /\ current.file = None
      BY <1>4, StreamFacts DEF WriteFirst
    <2>2. current'.start = HourOf(s)
      BY <1>2, <2>1, OpenedFacts
    <2>3. current.start = None
      BY <1>4 DEF WriteFirst, IInv, StreamInv
    <2>4. Forward
      BY <1>2, <2>2, <2>3 DEF Forward, None
    <2> QED
      BY <1>4, <2>4 DEF WriteFirst, NoneRefused
  <1>5. ASSUME Rotate(s) \/ SkipHours(s) PROVE Forward /\ NoneRefused
    <2>1. PICK stream \in {current, Closed} :
             stream.file = None /\ current' = Opened(stream, HourOf(s))
      BY <1>5, <1>2, FreshStreamType DEF Rotate, SkipHours, Skip
    <2>2. current'.start = HourOf(s)
      BY <1>2, <2>1, OpenedFacts
    <2>3. /\ HourOf(s) = current.start + 1 \/ HourOf(s) > current.start + 1
          /\ mode # "idle" /\ tooOld' = tooOld
      BY <1>5 DEF Rotate, SkipHours, Skip
    <2>4. current.start \in Hours
      BY <2>3, StreamFacts
    <2>5. Forward
      BY <1>2, <2>2, <2>3, <2>4 DEF Forward, Hours
    <2> QED
      BY <2>3, <2>5 DEF NoneRefused
  <1> QED
    BY <1>3, <1>4, <1>5

LEMMA CollectorRefusesOld ==
  ASSUME IInv, NEW s \in Senders, CollectorStep(s)
  PROVE  Forward /\ \A e \in tooOld' \ tooOld : e.hour + 1 < current.start
  BY RefuseOld, WritingGoesForward DEF CollectorStep, Collect, NoneRefused

(* Only lines that are older than the hour before the current one are       *)
(* refused, and the current hour never goes back unless the process died    *)
(* (collector.cpp:313-502).                                                 *)
THEOREM OnlyOldRefused == Spec => RefusedOnlyWhenOld
  <1>1. ASSUME IInv, [Next]_vars
        PROVE  [/\ \A e \in tooOld' \ tooOld : e.hour + 1 < current.start
                /\ current'.start >= current.start \/ crashes' # crashes]_vars
    <2>1. CASE UNCHANGED vars
      BY <2>1
    <2>2. CASE Tick \/ (\E b \in Buffers : BufferStep(b))
                 \/ (\E d \in DirectSenders : LogDirectly(d))
      <3>1. tooOld' = tooOld /\ current' = current
        BY <2>2 DEF Tick, BufferStep, LogDirectly, collectorVars
      <3> QED
        BY <1>1, <3>1, StartFacts
    <2>3. CASE \E s \in Senders : CollectorStep(s)
      BY <1>1, <2>3, CollectorRefusesOld DEF Forward
    <2>4. CASE Crash
      <3>1. crashes' # crashes /\ tooOld' = tooOld
        BY <1>1, <2>4 DEF Crash, IInv, ChannelInv
      <3> QED
        BY <3>1
    <2> QED
      BY <1>1, <2>1, <2>2, <2>3, <2>4 DEF Next
  <1> QED
    BY <1>1, Invariance, PTL DEF Spec, RefusedOnlyWhenOld

-----------------------------------------------------------------------------
(* Where each line is.  The lines of a source that wait are in order and    *)
(* not yet counted among the taken ones, which are older; what is taken is  *)
(* in one file or refused.                                                  *)
Ordered(B) ==
  /\ \A k \in DOMAIN B : \A i, j \in DOMAIN B[k] : i < j => B[k][i].n < B[k][j].n
  /\ \A k, l \in DOMAIN B : k < l =>
       \A i \in DOMAIN B[k], j \in DOMAIN B[l] : B[k][i].n < B[l][j].n

QueueInOrder(s) ==
  /\ Ordered(Waiting[s])
  /\ \A k \in DOMAIN Waiting[s] : \A i \in DOMAIN Waiting[s][k] :
       Waiting[s][k][i].src = s /\ Waiting[s][k][i].n <= logged[s]
  /\ \A k \in DOMAIN toCollector[s] :
       /\ toCollector[s][k].content # <<>>
       /\ toCollector[s][k].buffered <=> s \in Buffers

InFile(e, h) == \E i \in DOMAIN files[h] : files[h][i] = e

Taken == {e \in Lines : e \in tooOld \/ \E h \in Hours : InFile(e, h)}

OlderThanQueue(e) ==
  /\ e.n <= logged[e.src]
  /\ \A k \in DOMAIN Waiting[e.src] : \A i \in DOMAIN Waiting[e.src][k] :
       e.n < Waiting[e.src][k][i].n

TakenOnce ==
  /\ \A e \in Taken : OlderThanQueue(e)
  /\ \A e, f \in Taken : e.src = f.src /\ e.n = f.n => e = f

RefusedNotWritten == \A e \in tooOld, h \in Hours : ~InFile(e, h)

Waits(s, n) == \E k \in DOMAIN Waiting[s] : \E i \in DOMAIN Waiting[s][k] :
                  Waiting[s][k][i].n = n

NoneMissing ==
  crashes = 0 =>
    \A s \in Senders : \A n \in 1..logged[s] :
      (\E e \in Taken : e.src = s /\ e.n = n) \/ Waits(s, n)

(* What is known of headers: a file that does not exist is empty, and the   *)
(* files that are open exist.                                               *)
OnlyBuffers == crashes = 0 /\ \A d \in DirectSenders : logged[d] = 0

HeadersInPlace ==
  /\ \A h \in Hours : h \notin created => files[h] = <<>>
  /\ mode # "idle" => current.start \in created
  /\ mode = "two" => last.start \in created
  /\ \A d \in DirectSenders : logged[d] = 0 => toCollector[d] = <<>>
  /\ OnlyBuffers =>
       \A h \in created : files[h] # <<>> /\ files[h][1] = Header(h)

LineInv ==
  /\ \A s \in Senders : QueueInOrder(s)
  /\ TakenOnce /\ RefusedNotWritten /\ SourceOrder /\ NoneMissing
  /\ HeadersInPlace

-----------------------------------------------------------------------------
(* Facts about queues. *)

LEMMA WaitingFacts ==
  ASSUME IInv, NEW s \in Senders
  PROVE  /\ Waiting[s] \in Seq(Seq(Lines))
         /\ Len(Waiting[s]) = Len(toCollector[s]) + 1
         /\ DOMAIN Waiting[s] = 1..(Len(toCollector[s]) + 1)
         /\ Len(toCollector[s]) \in Nat /\ toCollector[s] \in Seq(Vectors)
         /\ DOMAIN toCollector[s] = 1..Len(toCollector[s])
         /\ \A k \in DOMAIN Waiting[s] : Waiting[s][k] \in Seq(Lines)
  <1>1. /\ toCollector[s] \in Seq(Vectors) /\ Len(toCollector[s]) \in Nat
        /\ DOMAIN toCollector[s] = 1..Len(toCollector[s])
    BY LenProperties DEF IInv, ChannelInv
  <1>2. \A k \in 1..Len(toCollector[s]) : toCollector[s][k].content \in Seq(Lines)
    BY <1>1, ElementOfSeq, VectorFacts
  <1>3. (IF s \in Buffers THEN buf[s] ELSE <<>>) \in Seq(Lines)
    BY EmptySeq DEF IInv, BufferInv
  <1>4. \A k \in 1..(Len(toCollector[s]) + 1) :
          (IF k <= Len(toCollector[s]) THEN toCollector[s][k].content
           ELSE IF s \in Buffers THEN buf[s] ELSE <<>>) \in Seq(Lines)
    BY <1>1, <1>2, <1>3
  <1>5. Len(toCollector[s]) + 1 \in Nat
    BY <1>1
  <1> QED
    BY <1>1, <1>4, <1>5 DEF Waiting

LEMMA WaitingTyped ==
  IInv => \A s \in Senders : \A k \in DOMAIN Waiting[s] :
            k \in Int /\ Waiting[s][k] \in Seq(Lines)
  <1>1. ASSUME IInv, NEW s \in Senders, NEW k \in DOMAIN Waiting[s]
        PROVE  k \in Int /\ Waiting[s][k] \in Seq(Lines)
    BY <1>1, WaitingFacts
  <1> QED
    BY <1>1

LEMMA WaitingStaysTyped ==
  (IInv => \A s \in Senders : \A k \in DOMAIN Waiting[s] :
             k \in Int /\ Waiting[s][k] \in Seq(Lines))'
  BY WaitingTyped, PTL

(* A line in a batch is a line.                                             *)
LEMMA BatchElements ==
  ASSUME IInv, NEW s \in Senders,
         NEW k \in DOMAIN Waiting[s], NEW i \in DOMAIN Waiting[s][k]
  PROVE  /\ Waiting[s][k][i] \in Lines /\ Waiting[s][k][i].n \in Int
         /\ k \in Int /\ i \in Int
  <1>1. Waiting[s][k] \in Seq(Lines) /\ k \in Int
    BY WaitingFacts
  <1>2. i \in 1..Len(Waiting[s][k]) /\ i \in Int
    BY <1>1, LenProperties
  <1>3. Waiting[s][k][i] \in Lines
    BY <1>1, <1>2, ElementOfSeq
  <1> QED
    BY <1>1, <1>2, <1>3 DEF Lines

(* C is B with the line e at its end: every other line is where it was, and *)
(* e comes after all of them.                                               *)
Grown(B, C, e) ==
  \E l \in DOMAIN C : \E j \in DOMAIN C[l] :
    /\ C[l][j] = e
    /\ \A k \in DOMAIN C : \A i \in DOMAIN C[k] :
         \/ k = l /\ i = j
         \/ /\ k < l \/ (k = l /\ i < j)
            /\ k \in DOMAIN B /\ i \in DOMAIN B[k] /\ C[k][i] = B[k][i]
    /\ \A k \in DOMAIN B : \A i \in DOMAIN B[k] :
         k \in DOMAIN C /\ i \in DOMAIN C[k] /\ C[k][i] = B[k][i]

(* When a source logs a line, its queue stays in order and the line waits.  *)
LEMMA QueueGrows ==
  ASSUME IInv, IInv', LineInv, NEW s \in Senders, NEW h \in Hours,
         logged[s] < MaxLines, logged' = [logged EXCEPT ![s] = @ + 1],
         Grown(Waiting[s], Waiting'[s], NextLine(s, h))
  PROVE  /\ Ordered(Waiting'[s])
         /\ \A k \in DOMAIN Waiting'[s] : \A i \in DOMAIN Waiting'[s][k] :
              /\ Waiting'[s][k][i].src = s /\ Waiting'[s][k][i].n <= logged'[s]
              /\ Waiting'[s][k][i].n > logged[s] \/ Waits(s, Waiting'[s][k][i].n)
         /\ \A n \in Int : Waits(s, n) \/ n = logged'[s] => Waits(s, n)'
  <1> DEFINE B == Waiting[s]
             C == Waiting'[s]
             e == NextLine(s, h)
  <1>1. /\ e.n = logged[s] + 1 /\ e.src = s /\ logged'[s] = logged[s] + 1
        /\ logged[s] \in Int
    BY DEF NextLine, IInv, ChannelInv
  <1>2. PICK l \in DOMAIN C : \E j \in DOMAIN C[l] :
          /\ C[l][j] = e
          /\ \A k \in DOMAIN C : \A i \in DOMAIN C[k] :
               \/ k = l /\ i = j
               \/ /\ k < l \/ (k = l /\ i < j)
                  /\ k \in DOMAIN B /\ i \in DOMAIN B[k] /\ C[k][i] = B[k][i]
          /\ \A k \in DOMAIN B : \A i \in DOMAIN B[k] :
               k \in DOMAIN C /\ i \in DOMAIN C[k] /\ C[k][i] = B[k][i]
    BY DEF Grown
  <1>3. PICK j \in DOMAIN C[l] :
          /\ C[l][j] = e
          /\ \A k \in DOMAIN C : \A i \in DOMAIN C[k] :
               \/ k = l /\ i = j
               \/ /\ k < l \/ (k = l /\ i < j)
                  /\ k \in DOMAIN B /\ i \in DOMAIN B[k] /\ C[k][i] = B[k][i]
          /\ \A k \in DOMAIN B : \A i \in DOMAIN B[k] :
               k \in DOMAIN C /\ i \in DOMAIN C[k] /\ C[k][i] = B[k][i]
    BY <1>2
  <1>4. /\ \A k \in DOMAIN B : \A i \in DOMAIN B[k] :
             /\ B[k][i].n \in Int /\ k \in Int /\ i \in Int
             /\ B[k][i].src = s /\ B[k][i].n <= logged[s]
        /\ Ordered(B)
    BY BatchElements DEF LineInv, QueueInOrder
  <1>5. \A k \in DOMAIN C : \A i \in DOMAIN C[k] : k \in Int /\ i \in Int
    <2>1. \A k \in DOMAIN C : k \in Int /\ C[k] \in Seq(Lines)
      BY WaitingStaysTyped
    <2> QED
      BY <2>1, LenProperties
  <1> HIDE DEF B, C, e
  <1>6. ASSUME NEW k \in DOMAIN C, NEW i \in DOMAIN C[k]
        PROVE  \/ k = l /\ i = j /\ C[k][i] = e
               \/ /\ k < l \/ (k = l /\ i < j)
                  /\ k \in DOMAIN B /\ i \in DOMAIN B[k] /\ C[k][i] = B[k][i]
                  /\ C[k][i].n <= logged[s] /\ C[k][i].n \in Int
    BY <1>3, <1>4
  <1>7. Ordered(C)
    <2>1. ASSUME NEW k \in DOMAIN C, NEW i \in DOMAIN C[k],
                 NEW m \in DOMAIN C, NEW o \in DOMAIN C[m],
                 k < m \/ (k = m /\ i < o)
          PROVE  C[k][i].n < C[m][o].n
      <3>1. k \in Int /\ i \in Int /\ m \in Int /\ o \in Int /\ l \in Int /\ j \in Int
        BY <1>5
      <3>2. CASE m = l /\ o = j
        <4>1. C[m][o].n = logged[s] + 1
          BY <3>2, <1>1, <1>3
        <4>2. C[k][i].n <= logged[s] /\ C[k][i].n \in Int
          BY <1>6, <2>1, <3>1, <3>2
        <4> QED
          BY <4>1, <4>2, <1>1
      <3>3. CASE ~(m = l /\ o = j)
        <4>1. /\ m < l \/ (m = l /\ o < j)
              /\ m \in DOMAIN B /\ o \in DOMAIN B[m] /\ C[m][o] = B[m][o]
          BY <1>6, <3>3
        <4>2. k \in DOMAIN B /\ i \in DOMAIN B[k] /\ C[k][i] = B[k][i]
          <5>1. ~(k = l /\ i = j)
            BY <4>1, <3>1, <2>1
          <5> QED
            BY <1>6, <5>1
        <4> QED
          BY <4>1, <4>2, <2>1, <1>4 DEF Ordered
      <3> QED
        BY <3>2, <3>3
    <2> QED
      BY <2>1 DEF Ordered
  <1>8. ASSUME NEW k \in DOMAIN C, NEW i \in DOMAIN C[k]
        PROVE  /\ C[k][i].src = s /\ C[k][i].n <= logged'[s]
               /\ C[k][i].n > logged[s] \/ Waits(s, C[k][i].n)
    <2>1. CASE C[k][i] = e
      BY <2>1, <1>1
    <2>2. CASE C[k][i] # e
      <3>1. /\ k \in DOMAIN B /\ i \in DOMAIN B[k] /\ C[k][i] = B[k][i]
            /\ C[k][i].n <= logged[s] /\ C[k][i].n \in Int
        BY <1>6, <2>2
      <3> QED
        BY <3>1, <1>1, <1>4 DEF Waits, B
    <2> QED
      BY <2>1, <2>2
  <1>9. ASSUME NEW n \in Int, Waits(s, n) \/ n = logged'[s]
        PROVE  Waits(s, n)'
    <2>1. \E k \in DOMAIN C : \E i \in DOMAIN C[k] : C[k][i].n = n
      <3>1. CASE Waits(s, n)
        BY <3>1, <1>3 DEF Waits, B
      <3>2. CASE n = logged'[s]
        BY <3>2, <1>1, <1>3
      <3> QED
        BY <1>9, <3>1, <3>2
    <2> QED
      BY <2>1 DEF Waits, C
  <1> QED
    BY <1>7, <1>8, <1>9 DEF C

(* What a step of a source leaves: the files, and the queues of the others. *)
LEMMA SourceLogs ==
  ASSUME IInv, IInv', LineInv, NEW s \in Senders, NEW h \in Hours,
         logged[s] < MaxLines, logged' = [logged EXCEPT ![s] = @ + 1],
         Grown(Waiting[s], Waiting'[s], NextLine(s, h)),
         \A k \in DOMAIN toCollector'[s] :
           /\ toCollector'[s][k].content # <<>>
           /\ toCollector'[s][k].buffered <=> s \in Buffers,
         \A t \in Senders \ {s} :
           toCollector'[t] = toCollector[t] /\ Waiting'[t] = Waiting[t],
         UNCHANGED collectorVars, crashes' = crashes
  PROVE  LineInv'
  <1>1. /\ files' = files /\ tooOld' = tooOld /\ created' = created
        /\ mode' = mode /\ current' = current /\ last' = last
    BY DEF collectorVars
  <1>2. /\ Taken' = Taken /\ SourceOrder' /\ RefusedNotWritten'
        /\ \A e \in Taken : e \in Lines
    BY <1>1 DEF LineInv, SourceOrder, RefusedNotWritten, InFile, Taken
  <1>3. /\ logged[s] \in Int /\ logged'[s] = logged[s] + 1
        /\ \A t \in Senders \ {s} : logged'[t] = logged[t]
        /\ \A t \in Senders : logged[t] \in Nat
    BY DEF IInv, ChannelInv
  <1>0. /\ Ordered(Waiting'[s])
        /\ \A k \in DOMAIN Waiting'[s] : \A i \in DOMAIN Waiting'[s][k] :
             /\ Waiting'[s][k][i].src = s /\ Waiting'[s][k][i].n <= logged'[s]
             /\ Waiting'[s][k][i].n > logged[s] \/ Waits(s, Waiting'[s][k][i].n)
        /\ \A n \in Int : Waits(s, n) \/ n = logged'[s] => Waits(s, n)'
    BY QueueGrows
  <1>4. ASSUME NEW t \in Senders PROVE QueueInOrder(t)'
    <2>1. CASE t = s
      BY <2>1, <1>0 DEF QueueInOrder
    <2>2. CASE t # s
      BY <2>2, <1>3 DEF LineInv, QueueInOrder
    <2> QED
      BY <2>1, <2>2
  <1>5. TakenOnce'
    <2>1. ASSUME NEW e \in Taken PROVE OlderThanQueue(e)'
      <3>1. OlderThanQueue(e) /\ e.src \in Senders /\ e.n \in Int
        BY <1>2 DEF LineInv, TakenOnce, Lines
      <3>2. CASE e.src = s
        <4>1. e.n <= logged[s] /\ e.n <= logged'[s]
          BY <3>1, <3>2, <1>3 DEF OlderThanQueue
        <4>2. ASSUME NEW k \in DOMAIN Waiting'[s], NEW i \in DOMAIN Waiting'[s][k],
                     Waits(s, Waiting'[s][k][i].n)
              PROVE  e.n < Waiting'[s][k][i].n
          BY <4>2, <3>1, <3>2 DEF OlderThanQueue, Waits
        <4>3. ASSUME NEW k \in DOMAIN Waiting'[s], NEW i \in DOMAIN Waiting'[s][k]
              PROVE  e.n < Waiting'[s][k][i].n
          <5>1. Waiting'[s][k][i].n \in Int
            <6>1. Waiting'[s][k] \in Seq(Lines)
              BY WaitingStaysTyped
            <6>2. Waiting'[s][k][i] \in Lines
              BY <6>1, ElementOfSeq, LenProperties
            <6> QED
              BY <6>2 DEF Lines
          <5>2. Waiting'[s][k][i].n > logged[s] \/ Waits(s, Waiting'[s][k][i].n)
            BY <1>0
          <5> QED
            BY <3>1, <4>1, <4>2, <5>1, <5>2, <1>3
        <4> QED
          BY <3>2, <4>1, <4>3 DEF OlderThanQueue
      <3>3. CASE e.src # s
        BY <3>1, <3>3, <1>3 DEF OlderThanQueue
      <3> QED
        BY <3>2, <3>3
    <2> QED
      BY <2>1, <1>2 DEF LineInv, TakenOnce
  <1>6. NoneMissing'
    <2>1. SUFFICES ASSUME crashes = 0, NEW t \in Senders, NEW n \in 1..logged'[t]
                   PROVE  (\E e \in Taken : e.src = t /\ e.n = n) \/ Waits(t, n)'
      BY <1>2 DEF NoneMissing
    <2>2. CASE t = s
      <3>1. n \in Int /\ (n \in 1..logged[s] \/ n = logged'[s])
        BY <2>1, <2>2, <1>3
      <3> QED
        BY <2>1, <2>2, <3>1, <1>0 DEF LineInv, NoneMissing, Waits
    <2>3. CASE t # s
      BY <2>1, <2>3, <1>3 DEF LineInv, NoneMissing, Waits
    <2> QED
      BY <2>2, <2>3
  <1>7. HeadersInPlace'
    <2>1. \A d \in DirectSenders :
            /\ logged'[d] = 0 => logged[d] = 0
            /\ logged'[d] = 0 => toCollector'[d] = toCollector[d]
      BY <1>3 DEF Senders
    <2> QED
      BY <2>1, <1>1 DEF LineInv, HeadersInPlace, OnlyBuffers
  <1> QED
    BY <1>2, <1>4, <1>5, <1>6, <1>7 DEF LineInv

(* A line that is appended to the last batch, which may be sent then.       *)
LEMMA GrownAtEnd ==
  ASSUME NEW L \in Nat, NEW B, NEW C, NEW e \in Lines,
         DOMAIN B = 1..(L + 1), B[L + 1] \in Seq(Lines),
         DOMAIN C = 1..(L + 1) \/ DOMAIN C = 1..(L + 2),
         \A k \in 1..L : C[k] = B[k],
         C[L + 1] = Append(B[L + 1], e),
         L + 2 \in DOMAIN C => C[L + 2] = <<>>
  PROVE  Grown(B, C, e)
  <1> DEFINE j == Len(B[L + 1]) + 1
  <1>1. B[L + 1] \in Seq(Lines) /\ DOMAIN B = 1..(L + 1) /\ L + 1 \in DOMAIN C
    BY ElementOfSeq, LenProperties
  <1>2. /\ DOMAIN C[L + 1] = 1..j /\ j \in DOMAIN C[L + 1] /\ C[L + 1][j] = e
        /\ DOMAIN B[L + 1] = 1..(j - 1)
        /\ \A i \in 1..(j - 1) : C[L + 1][i] = B[L + 1][i]
    BY <1>1, AppendProperties, LenProperties
  <1> HIDE DEF j
  <1>3. ASSUME NEW k \in DOMAIN C, NEW i \in DOMAIN C[k]
        PROVE  \/ k = L + 1 /\ i = j
               \/ /\ k < L + 1 \/ (k = L + 1 /\ i < j)
                  /\ k \in DOMAIN B /\ i \in DOMAIN B[k] /\ C[k][i] = B[k][i]
    <2>1. CASE k = L + 1
      BY <2>1, <1>1, <1>2
    <2>2. CASE k \in 1..L
      BY <2>2, <1>1
    <2>3. CASE k = L + 2
      BY <2>3
    <2> QED
      BY <2>1, <2>2, <2>3
  <1>4. ASSUME NEW k \in DOMAIN B, NEW i \in DOMAIN B[k]
        PROVE  k \in DOMAIN C /\ i \in DOMAIN C[k] /\ C[k][i] = B[k][i]
    <2>1. CASE k = L + 1
      BY <2>1, <1>1, <1>2
    <2>2. CASE k \in 1..L
      BY <2>2
    <2> QED
      BY <2>1, <2>2, <1>1
  <1> QED
    BY <1>1, <1>2, <1>3, <1>4 DEF Grown

(* A line that starts a batch of its own, the one before being sent.        *)
LEMMA GrownAfter ==
  ASSUME NEW L \in Nat, NEW B, NEW C, NEW e \in Lines,
         DOMAIN B = 1..(L + 1),
         DOMAIN C = 1..(L + 2) \/ DOMAIN C = 1..(L + 3),
         \A k \in 1..L : C[k] = B[k], C[L + 1] = B[L + 1],
         C[L + 2] = <<e>>,
         L + 3 \in DOMAIN C => C[L + 3] = <<>>
  PROVE  Grown(B, C, e)
  <1>1. /\ DOMAIN B = 1..(L + 1) /\ L + 2 \in DOMAIN C
        /\ DOMAIN C[L + 2] = 1..1 /\ C[L + 2][1] = e
    BY LenProperties
  <1>2. ASSUME NEW k \in DOMAIN C, NEW i \in DOMAIN C[k]
        PROVE  \/ k = L + 2 /\ i = 1
               \/ /\ k < L + 2 \/ (k = L + 2 /\ i < 1)
                  /\ k \in DOMAIN B /\ i \in DOMAIN B[k] /\ C[k][i] = B[k][i]
    <2>1. CASE k \in 1..L \/ k = L + 1
      BY <2>1, <1>1
    <2>2. CASE k = L + 2
      BY <2>2, <1>1
    <2>3. CASE k = L + 3
      BY <2>3
    <2> QED
      BY <2>1, <2>2, <2>3
  <1>3. \A k \in DOMAIN B : \A i \in DOMAIN B[k] :
          k \in DOMAIN C /\ i \in DOMAIN C[k] /\ C[k][i] = B[k][i]
    BY <1>1
  <1> QED
    BY <1>1, <1>2, <1>3 DEF Grown

(* Queues of the sources that take no step. *)
LEMMA OthersWait ==
  ASSUME NEW s \in Senders,
         \A t \in Senders \ {s} : toCollector'[t] = toCollector[t],
         \A t \in Buffers \ {s} : buf'[t] = buf[t]
  PROVE  \A t \in Senders \ {s} : Waiting'[t] = Waiting[t]
  BY DEF Waiting

LEMMA WaitingBecomes ==
  ASSUME NEW s \in Senders, NEW N \in Nat, NEW M \in Nat,
         Len(toCollector'[s]) = N, M = N + 1
  PROVE  /\ DOMAIN Waiting'[s] = 1..M
         /\ \A k \in 1..N : Waiting'[s][k] = toCollector'[s][k].content
         /\ Waiting'[s][M] = IF s \in Buffers THEN buf'[s] ELSE <<>>
  <1>1. Waiting'[s] = [k \in 1..M |-> IF k <= N THEN toCollector'[s][k].content
                                      ELSE IF s \in Buffers THEN buf'[s] ELSE <<>>]
    BY DEF Waiting
  <1> QED
    BY <1>1

LEMMA LogKeepsLines ==
  ASSUME IInv, IInv', LineInv, NEW b \in Buffers, NEW h \in Hours,
         NEW otherHour \in BOOLEAN, AddLine(b, h, otherHour),
         otherHour <=> (buf[b] # <<>> /\ h # stamp[b]), UNCHANGED collectorVars
  PROVE  LineInv'
  <1> DEFINE e == NextLine(b, h)
             T == toCollector[b]
             L == Len(T)
             filled == Append(IF otherHour THEN Fresh(b) ELSE buf[b], e)
             tooLarge == Len(filled) > Threshold
             hour == IF buf[b] = <<>> \/ otherHour THEN h ELSE stamp[b]
             first == IF otherHour THEN <<Message(stamp[b], buf[b])>> ELSE <<>>
             second == IF tooLarge THEN <<Message(hour, filled)>> ELSE <<>>
  <1>1. /\ logged[b] < MaxLines
        /\ logged' = [logged EXCEPT ![b] = @ + 1]
        /\ toCollector' = [toCollector EXCEPT ![b] = @ \o first \o second]
        /\ buf' = [buf EXCEPT ![b] = IF ~tooLarge THEN filled
                                     ELSE IF otherHour THEN <<>> ELSE Fresh(b)]
        /\ crashes' = crashes
    BY DEF AddLine
  <1> HIDE DEF first, second, tooLarge, hour
  <1>2. /\ b \in Senders /\ buf[b] \in Seq(Lines) /\ Fresh(b) = <<>>
        /\ T \in Seq(Vectors) /\ L \in Nat
        /\ DOMAIN toCollector = Senders /\ DOMAIN buf = Buffers
    BY WaitingFacts DEF IInv, BufferInv, ChannelInv, Senders, Fresh
  <1>3. e \in Lines
    BY <1>1, <1>2, NextLineFacts DEF LinesOf
  <1>4. /\ filled = IF otherHour THEN <<e>> ELSE Append(buf[b], e)
        /\ filled # <<>>
    <2>1. CASE otherHour
      BY <2>1, <1>2, <1>3
    <2>2. CASE ~otherHour
      BY <2>2, <1>2, <1>3, AppendProperties
    <2> QED
      BY <2>1, <2>2
  <1>5. /\ toCollector'[b] = T \o first \o second
        /\ buf'[b] = IF ~tooLarge THEN filled ELSE <<>>
    BY <1>1, <1>2
  <1> HIDE DEF T, L, e, filled
  <1>6. /\ DOMAIN Waiting[b] = 1..(L + 1)
        /\ \A k \in 1..L : Waiting[b][k] = T[k].content
        /\ Waiting[b][L + 1] = buf[b]
    BY <1>2, WaitingFacts DEF Waiting, T, L
  <1>9. /\ Grown(Waiting[b], Waiting'[b], e)
        /\ \A k \in DOMAIN toCollector'[b] :
             \/ k \in DOMAIN T /\ toCollector'[b][k] = T[k]
             \/ /\ toCollector'[b][k].content # <<>>
                /\ toCollector'[b][k].buffered
    <2>1. CASE ~otherHour /\ ~tooLarge
      <3>1. toCollector'[b] = T /\ buf'[b] = Append(buf[b], e)
        BY <2>1, <1>2, <1>4, <1>5 DEF first, second
      <3>2. /\ DOMAIN Waiting'[b] = 1..(L + 1)
            /\ \A k \in 1..L : Waiting'[b][k] = Waiting[b][k]
        <4>1. Len(toCollector'[b]) = L /\ L + 1 \in Nat
          BY <3>1, <1>2 DEF L
        <4> QED
          BY <4>1, <3>1, <1>2, <1>6, WaitingBecomes
      <3>3. Waiting'[b][L + 1] = Append(Waiting[b][L + 1], e)
        <4>1. Len(toCollector'[b]) = L /\ L + 1 \in Nat
          BY <3>1, <1>2 DEF L
        <4> QED
          BY <4>1, <3>1, <1>2, <1>6, WaitingBecomes
      <3>4. Grown(Waiting[b], Waiting'[b], e)
        BY SMTT(30), <3>2, <3>3, <1>2, <1>3, <1>6, GrownAtEnd
      <3> QED
        BY <3>1, <3>4
    <2>2. CASE ~otherHour /\ tooLarge
      <3>1. /\ toCollector'[b] = Append(T, Message(hour, filled))
            /\ filled = Append(buf[b], e) /\ buf'[b] = <<>>
        BY <2>2, <1>2, <1>4, <1>5 DEF first, second
      <3>2. /\ Len(toCollector'[b]) = L + 1 /\ DOMAIN toCollector'[b] = 1..(L + 1)
            /\ DOMAIN T = 1..L
            /\ \A k \in 1..L : toCollector'[b][k] = T[k]
            /\ toCollector'[b][L + 1] = Message(hour, filled)
        BY <3>1, <1>2 DEF L
      <3>3. /\ DOMAIN Waiting'[b] = 1..(L + 2)
            /\ \A k \in 1..L : Waiting'[b][k] = toCollector'[b][k].content
            /\ Waiting'[b][L + 1] = Message(hour, filled).content /\ Waiting'[b][L + 2] = <<>>
        <4>1. L + 1 \in Nat /\ L + 2 \in Nat /\ L + 2 = (L + 1) + 1
          BY <1>2
        <4>2. /\ DOMAIN Waiting'[b] = 1..(L + 2)
              /\ \A k \in 1..(L + 1) : Waiting'[b][k] = toCollector'[b][k].content
              /\ Waiting'[b][L + 2] = buf'[b]
          BY <4>1, <3>2, <1>2, WaitingBecomes
        <4>3. /\ \A k \in 1..L : k \in 1..(L + 1) /\ k \in 1..(L + 2)
              /\ L + 1 \in 1..(L + 1) /\ L + 1 \in 1..(L + 2) /\ L + 2 \in 1..(L + 2)
          BY <1>2
        <4> QED
          BY <4>2, <4>3, <3>1, <3>2
      <3>4. /\ Waiting'[b][L + 1] = Append(Waiting[b][L + 1], e)
            /\ Waiting'[b][L + 2] = <<>>
        BY <3>1, <3>3, <1>6 DEF Message
      <3>7. \A k \in 1..L : Waiting'[b][k] = Waiting[b][k]
        BY <3>2, <3>3, <1>6
      <3>5. Grown(Waiting[b], Waiting'[b], e)
        BY <3>3, <3>4, <3>7, <1>2, <1>3, <1>6, GrownAtEnd
      <3>6. ASSUME NEW k \in 1..(L + 1)
            PROVE  \/ k \in DOMAIN T /\ toCollector'[b][k] = T[k]
                   \/ /\ toCollector'[b][k].content # <<>>
                      /\ toCollector'[b][k].buffered
        <4>1. k \in 1..L \/ k = L + 1
          BY <1>2
        <4> QED
          BY SMTT(30), <4>1, <3>2, <1>4 DEF Message
      <3> QED
        BY <3>2, <3>5, <3>6
    <2>3. CASE otherHour /\ ~tooLarge
      <3>1. /\ toCollector'[b] = Append(T, Message(stamp[b], buf[b]))
            /\ buf'[b] = <<e>>
        BY <2>3, <1>2, <1>4, <1>5 DEF first, second
      <3>2. /\ Len(toCollector'[b]) = L + 1 /\ DOMAIN toCollector'[b] = 1..(L + 1)
            /\ DOMAIN T = 1..L
            /\ \A k \in 1..L : toCollector'[b][k] = T[k]
            /\ toCollector'[b][L + 1] = Message(stamp[b], buf[b])
        BY <3>1, <1>2 DEF L
      <3>3. /\ DOMAIN Waiting'[b] = 1..(L + 2)
            /\ \A k \in 1..L : Waiting'[b][k] = toCollector'[b][k].content
            /\ Waiting'[b][L + 1] = Message(stamp[b], buf[b]).content
            /\ Waiting'[b][L + 2] = <<e>>
        <4>1. L + 1 \in Nat /\ L + 2 \in Nat /\ L + 2 = (L + 1) + 1
          BY <1>2
        <4>2. /\ DOMAIN Waiting'[b] = 1..(L + 2)
              /\ \A k \in 1..(L + 1) : Waiting'[b][k] = toCollector'[b][k].content
              /\ Waiting'[b][L + 2] = buf'[b]
          BY <4>1, <3>2, <1>2, WaitingBecomes
        <4>3. /\ \A k \in 1..L : k \in 1..(L + 1) /\ k \in 1..(L + 2)
              /\ L + 1 \in 1..(L + 1) /\ L + 1 \in 1..(L + 2) /\ L + 2 \in 1..(L + 2)
          BY <1>2
        <4> QED
          BY <4>2, <4>3, <3>1, <3>2
      <3>4. /\ Waiting'[b][L + 1] = Waiting[b][L + 1]
            /\ Waiting'[b][L + 2] = <<e>>
        BY <3>1, <3>3, <1>6 DEF Message
      <3>7. \A k \in 1..L : Waiting'[b][k] = Waiting[b][k]
        BY <3>2, <3>3, <1>6
      <3>5. Grown(Waiting[b], Waiting'[b], e)
        BY SMTT(30), <3>3, <3>4, <3>7, <1>2, <1>3, <1>6, GrownAfter
      <3> QED
        BY <2>3, <3>2, <3>5, <1>2 DEF Message
    <2>4. CASE otherHour /\ tooLarge
      <3>1. /\ toCollector'[b] =
                 Append(Append(T, Message(stamp[b], buf[b])), Message(hour, filled))
            /\ filled = <<e>> /\ buf'[b] = <<>>
        BY <2>4, <1>2, <1>4, <1>5 DEF first, second
      <3>2. /\ Len(toCollector'[b]) = L + 2 /\ DOMAIN toCollector'[b] = 1..(L + 2)
            /\ DOMAIN T = 1..L
            /\ \A k \in 1..L : toCollector'[b][k] = T[k]
            /\ toCollector'[b][L + 1] = Message(stamp[b], buf[b])
            /\ toCollector'[b][L + 2] = Message(hour, filled)
        BY <3>1, <1>2 DEF L
      <3>3. /\ DOMAIN Waiting'[b] = 1..(L + 3)
            /\ \A k \in 1..L : Waiting'[b][k] = toCollector'[b][k].content
            /\ Waiting'[b][L + 1] = Message(stamp[b], buf[b]).content
            /\ Waiting'[b][L + 2] = Message(hour, filled).content
            /\ Waiting'[b][L + 3] = <<>>
        <4>1. L + 2 \in Nat /\ L + 3 \in Nat /\ L + 3 = (L + 2) + 1
          BY <1>2
        <4>2. /\ DOMAIN Waiting'[b] = 1..(L + 3)
              /\ \A k \in 1..(L + 2) : Waiting'[b][k] = toCollector'[b][k].content
              /\ Waiting'[b][L + 3] = buf'[b]
          BY <4>1, <3>2, <1>2, WaitingBecomes
        <4>3. /\ \A k \in 1..L : k \in 1..(L + 1) /\ k \in 1..(L + 2)
              /\ L + 1 \in 1..(L + 1) /\ L + 1 \in 1..(L + 2) /\ L + 2 \in 1..(L + 2)
          BY <1>2
        <4> QED
          BY <4>2, <4>3, <3>1, <3>2
      <3>4. /\ Waiting'[b][L + 1] = Waiting[b][L + 1]
            /\ Waiting'[b][L + 2] = <<e>> /\ Waiting'[b][L + 3] = <<>>
        BY <3>1, <3>3, <1>6 DEF Message
      <3>7. \A k \in 1..L : Waiting'[b][k] = Waiting[b][k]
        BY <3>2, <3>3, <1>6
      <3>5. Grown(Waiting[b], Waiting'[b], e)
        BY <3>3, <3>4, <3>7, <1>2, <1>3, <1>6, GrownAfter
      <3>6. ASSUME NEW k \in 1..(L + 2)
            PROVE  \/ k \in DOMAIN T /\ toCollector'[b][k] = T[k]
                   \/ /\ toCollector'[b][k].content # <<>>
                      /\ toCollector'[b][k].buffered
        <4>1. k \in 1..L \/ k = L + 1 \/ k = L + 2
          BY <1>2
        <4>2. CASE k \in 1..L
          BY <4>2, <3>2
        <4>3. CASE k = L + 1
          <5>1. toCollector'[b][k] = Message(stamp[b], buf[b]) /\ buf[b] # <<>>
            BY <4>3, <2>4, <3>2, <1>4
          <5> QED
            BY <5>1 DEF Message
        <4>4. CASE k = L + 2
          <5>1. toCollector'[b][k] = Message(hour, filled) /\ filled # <<>>
            BY <4>4, <3>1, <3>2
          <5> QED
            BY <5>1 DEF Message
        <4> QED
          BY <4>1, <4>2, <4>3, <4>4
      <3> QED
        BY <3>2, <3>5, <3>6
    <2> QED
      BY <2>1, <2>2, <2>3, <2>4
  <1>10. \A k \in DOMAIN toCollector'[b] :
           /\ toCollector'[b][k].content # <<>>
           /\ toCollector'[b][k].buffered <=> b \in Buffers
    BY <1>2, <1>9 DEF LineInv, QueueInOrder, T
  <1>11. \A t \in Senders \ {b} :
           toCollector'[t] = toCollector[t] /\ Waiting'[t] = Waiting[t]
    <2>1. \A t \in Senders \ {b} : toCollector'[t] = toCollector[t]
      BY <1>1, <1>2
    <2>2. \A t \in Buffers \ {b} : buf'[t] = buf[t]
      BY <1>1, <1>2
    <2> QED
      BY <2>1, <2>2, <1>2, OthersWait
  <1> QED
    BY <1>1, <1>2, <1>9, <1>10, <1>11, SourceLogs DEF e

LEMMA DirectKeepsLines ==
  ASSUME IInv, IInv', LineInv, NEW d \in DirectSenders, LogDirectly(d)
  PROVE  LineInv'
  <1>1. PICK h \in Stamps :
          toCollector' = [toCollector EXCEPT ![d] =
            Append(@, [hour |-> h, content |-> <<NextLine(d, h)>>,
                       buffered |-> FALSE])]
    BY DEF LogDirectly
  <1> DEFINE e == NextLine(d, h)
             T == toCollector[d]
             L == Len(T)
             m == [hour |-> h, content |-> <<e>>, buffered |-> FALSE]
  <1>2. /\ h \in Hours /\ d \in Senders /\ d \notin Buffers
        /\ T \in Seq(Vectors) /\ L \in Nat /\ DOMAIN toCollector = Senders
    BY <1>1, StampsAreHours, WaitingFacts, LogAssumption
    DEF LogAssumption, IInv, ChannelInv, Senders
  <1>3. e \in Lines
    BY <1>2, NextLineFacts DEF LinesOf, LogDirectly
  <1>4. toCollector'[d] = Append(T, m)
    BY <1>1, <1>2
  <1> HIDE DEF T, L, e
  <1>5. /\ Len(toCollector'[d]) = L + 1 /\ DOMAIN toCollector'[d] = 1..(L + 1)
        /\ DOMAIN T = 1..L
        /\ \A k \in 1..L : toCollector'[d][k] = T[k]
        /\ toCollector'[d][L + 1] = m
    BY <1>2, <1>4 DEF L
  <1>6. /\ DOMAIN Waiting[d] = 1..(L + 1)
        /\ \A k \in 1..L : Waiting[d][k] = T[k].content
        /\ Waiting[d][L + 1] = <<>>
    BY <1>2, WaitingFacts DEF Waiting, T, L
  <1>7. /\ DOMAIN Waiting'[d] = 1..(L + 2)
        /\ \A k \in 1..(L + 1) : Waiting'[d][k] = toCollector'[d][k].content
        /\ Waiting'[d][L + 2] = <<>>
    <2>1. L + 1 \in Nat /\ L + 2 \in Nat /\ L + 2 = (L + 1) + 1
      BY <1>2
    <2> QED
      BY <2>1, <1>2, <1>5, WaitingBecomes
  <1>8. Append(<<>>, e) = <<e>>
    BY <1>3
  <1>9. Grown(Waiting[d], Waiting'[d], e)
    <2>1. ASSUME NEW k \in 1..L PROVE Waiting'[d][k] = Waiting[d][k]
      <3>1. k \in 1..(L + 1)
        BY <1>2
      <3> QED
        BY <3>1, <1>5, <1>6, <1>7
    <2>2. /\ Waiting'[d][L + 1] = Append(Waiting[d][L + 1], e)
          /\ Waiting'[d][L + 2] = <<>>
      BY <1>2, <1>5, <1>6, <1>7, <1>8
    <2>3. <<>> \in Seq(Lines)
      OBVIOUS
    <2> QED
      BY <2>1, <2>2, <2>3, <1>2, <1>3, <1>6, <1>7, GrownAtEnd
  <1>10. \A k \in DOMAIN toCollector'[d] :
           /\ toCollector'[d][k].content # <<>>
           /\ toCollector'[d][k].buffered <=> d \in Buffers
    BY SMTT(30), <1>2, <1>5 DEF LineInv, QueueInOrder, T
  <1>11. \A t \in Senders \ {d} :
           toCollector'[t] = toCollector[t] /\ Waiting'[t] = Waiting[t]
    <2>1. \A t \in Senders \ {d} : toCollector'[t] = toCollector[t]
      BY <1>1, <1>2
    <2> QED
      BY <2>1, <1>2, OthersWait DEF LogDirectly, bufferVars
  <1> QED
    BY <1>2, <1>9, <1>10, <1>11, SourceLogs DEF e, LogDirectly

-----------------------------------------------------------------------------
(* Lines that are taken. *)

Content(s) == Head(toCollector[s]).content

LEMMA TakeShifts ==
  ASSUME IInv, NEW s \in Senders, Take(s), UNCHANGED bufferVars
  PROVE  /\ \A t \in Senders \ {s} :
              toCollector'[t] = toCollector[t] /\ Waiting'[t] = Waiting[t]
         /\ Len(toCollector[s]) \in Nat \ {0}
         /\ DOMAIN Waiting[s] = 1..(Len(toCollector[s]) + 1)
         /\ DOMAIN Waiting'[s] = 1..Len(toCollector[s])
         /\ \A k \in DOMAIN Waiting'[s] :
              k + 1 \in DOMAIN Waiting[s] /\ Waiting'[s][k] = Waiting[s][k + 1]
         /\ 1 \in DOMAIN Waiting[s] /\ Waiting[s][1] = Content(s)
         /\ Content(s) \in Seq(Lines)
         /\ \A k \in DOMAIN toCollector'[s] :
              k + 1 \in DOMAIN toCollector[s]
              /\ toCollector'[s][k] = toCollector[s][k + 1]
  <1> DEFINE T == toCollector[s]
             L == Len(T)
  <1>1. T \in Seq(Vectors) /\ T # <<>> /\ DOMAIN toCollector = Senders
    BY DEF IInv, ChannelInv, Take
  <1>2. L \in Nat \ {0}
    BY <1>1, LenProperties
  <1>3. toCollector'[s] = Tail(T)
    BY <1>1 DEF Take
  <1> HIDE DEF T, L
  <1>4. /\ Tail(T) \in Seq(Vectors) /\ Len(Tail(T)) = L - 1 /\ Head(T) = T[1]
        /\ \A k \in 1..(L - 1) : Tail(T)[k] = T[k + 1]
        /\ Head(T) \in Vectors /\ DOMAIN Tail(T) = 1..(L - 1) /\ DOMAIN T = 1..L
    BY <1>1, HeadTailProperties, LenProperties DEF L
  <1>5. Content(s) = T[1].content /\ Content(s) \in Seq(Lines)
    BY <1>4, VectorFacts DEF Content, T
  <1>6. /\ Waiting[s] = [k \in 1..(L + 1) |->
             IF k <= L THEN T[k].content ELSE IF s \in Buffers THEN buf[s] ELSE <<>>]
        /\ DOMAIN Waiting[s] = 1..(L + 1)
    BY DEF Waiting, T, L
  <1>7. 1 \in DOMAIN Waiting[s] /\ Waiting[s][1] = Content(s)
    BY <1>2, <1>5, <1>6
  <1>8. /\ DOMAIN Waiting'[s] = 1..L
        /\ \A k \in 1..(L - 1) : Waiting'[s][k] = toCollector'[s][k].content
        /\ Waiting'[s][L] = IF s \in Buffers THEN buf[s] ELSE <<>>
    <2>1. L - 1 \in Nat /\ L \in Nat /\ L = (L - 1) + 1 /\ Len(toCollector'[s]) = L - 1
      BY <1>2, <1>3, <1>4
    <2>2. /\ DOMAIN Waiting'[s] = 1..L
          /\ \A k \in 1..(L - 1) : Waiting'[s][k] = toCollector'[s][k].content
          /\ Waiting'[s][L] = IF s \in Buffers THEN buf'[s] ELSE <<>>
      BY <2>1, WaitingBecomes
    <2> QED
      BY <2>2 DEF bufferVars
  <1>9. ASSUME NEW k \in 1..L
        PROVE  k + 1 \in DOMAIN Waiting[s] /\ Waiting'[s][k] = Waiting[s][k + 1]
    <2>1. k + 1 \in 1..(L + 1)
      BY <1>2
    <2>2. CASE k = L
      BY <2>1, <2>2, <1>2, <1>6, <1>8
    <2>3. CASE k # L
      <3>1. k \in 1..(L - 1) /\ k + 1 <= L
        BY <2>3, <1>2
      <3> QED
        BY <2>1, <3>1, <1>3, <1>4, <1>6, <1>8
    <2> QED
      BY <2>2, <2>3
  <1>10. \A t \in Senders \ {s} :
           toCollector'[t] = toCollector[t] /\ Waiting'[t] = Waiting[t]
    <2>1. \A t \in Senders \ {s} : toCollector'[t] = toCollector[t]
      BY <1>1 DEF Take
    <2> QED
      BY <2>1, OthersWait DEF bufferVars
  <1>11. ASSUME NEW k \in 1..(L - 1) PROVE k + 1 \in 1..L
    BY <1>2
  <1> QED
    BY <1>2, <1>3, <1>4, <1>5, <1>6, <1>7, <1>8, <1>9, <1>10, <1>11 DEF T, L

(* Where the lines of the vector went does not matter here, only that they  *)
(* are counted as taken.                                                    *)
TakenGrows(s) ==
  \A e \in Lines : e \in Taken' <=> e \in Taken \/ \E i \in DOMAIN Content(s) : Content(s)[i] = e

LEMMA TakeKeepsQueues ==
  ASSUME IInv, LineInv, NEW s \in Senders, Take(s), UNCHANGED bufferVars,
         TakenGrows(s)
  PROVE  (\A t \in Senders : QueueInOrder(t)') /\ TakenOnce' /\ NoneMissing'
  <1>1. logged' = logged /\ crashes' = crashes
    BY DEF Take
  <1>2. \A e \in Taken : e \in Lines /\ e.src \in Senders /\ e.n \in Int
    BY DEF Taken, Lines
  <1>3. \A k \in DOMAIN Waiting[s] : \A i \in DOMAIN Waiting[s][k] :
          /\ Waiting[s][k][i] \in Lines /\ Waiting[s][k][i].n \in Int
          /\ Waiting[s][k][i].src = s /\ Waiting[s][k][i].n <= logged[s]
          /\ k \in Int /\ i \in Int
    BY BatchElements DEF LineInv, QueueInOrder
  <1>4. Ordered(Waiting[s])
    BY DEF LineInv, QueueInOrder
  <1>5. ASSUME NEW t \in Senders PROVE QueueInOrder(t)'
    <2>1. CASE t = s
      <3>1. Ordered(Waiting'[s])
        <4>1. \A k, l \in DOMAIN Waiting'[s] : k < l => k + 1 < l + 1
          BY TakeShifts
        <4> QED
          BY <4>1, <1>4, TakeShifts DEF Ordered
      <3>2. \A k \in DOMAIN Waiting'[s] : \A i \in DOMAIN Waiting'[s][k] :
              Waiting'[s][k][i].src = s /\ Waiting'[s][k][i].n <= logged[s]
        BY <1>3, TakeShifts
      <3>3. \A k \in DOMAIN toCollector'[s] :
              /\ toCollector'[s][k].content # <<>>
              /\ toCollector'[s][k].buffered <=> s \in Buffers
        BY TakeShifts DEF LineInv, QueueInOrder
      <3> QED
        BY <2>1, <3>1, <3>2, <3>3, <1>1 DEF QueueInOrder
    <2>2. CASE t # s
      BY <2>2, <1>1, TakeShifts DEF LineInv, QueueInOrder
    <2> QED
      BY <2>1, <2>2
  <1>6. ASSUME NEW e \in Lines, NEW i \in DOMAIN Content(s), Content(s)[i] = e
        PROVE  /\ e.src = s /\ e.n <= logged[s] /\ e.n \in Int
               /\ \A k \in DOMAIN Waiting'[s] : \A j \in DOMAIN Waiting'[s][k] :
                    e.n < Waiting'[s][k][j].n
    <2>1. 1 \in DOMAIN Waiting[s] /\ Waiting[s][1][i] = e /\ i \in DOMAIN Waiting[s][1]
      BY <1>6, TakeShifts
    <2>2. ASSUME NEW k \in DOMAIN Waiting'[s], NEW j \in DOMAIN Waiting'[s][k]
          PROVE  e.n < Waiting'[s][k][j].n
      <3>1. /\ k + 1 \in DOMAIN Waiting[s] /\ Waiting'[s][k] = Waiting[s][k + 1]
            /\ 1 < k + 1
        BY TakeShifts
      <3> QED
        BY <2>1, <3>1, <1>4 DEF Ordered
    <2> QED
      BY <2>1, <2>2, <1>3
  <1>7. ASSUME NEW e \in Taken
        PROVE  \A k \in DOMAIN Waiting'[e.src] : \A j \in DOMAIN Waiting'[e.src][k] :
                 e.n < Waiting'[e.src][k][j].n
    <2>1. OlderThanQueue(e) /\ e.src \in Senders
      BY <1>2 DEF LineInv, TakenOnce
    <2>2. CASE e.src = s
      BY <2>1, <2>2, TakeShifts DEF OlderThanQueue
    <2>3. CASE e.src # s
      BY <2>1, <2>3, TakeShifts DEF OlderThanQueue
    <2> QED
      BY <2>2, <2>3
  <1>8. \A e \in Taken' : e \in Lines
    BY DEF Taken
  <1>9. ASSUME NEW e \in Taken' PROVE OlderThanQueue(e)'
    <2>1. CASE e \in Taken
      BY <2>1, <1>1, <1>7 DEF LineInv, TakenOnce, OlderThanQueue
    <2>2. CASE \E i \in DOMAIN Content(s) : Content(s)[i] = e
      BY <2>2, <1>1, <1>6, <1>8 DEF OlderThanQueue
    <2> QED
      BY <2>1, <2>2, <1>8 DEF TakenGrows
  <1>10. ASSUME NEW e \in Taken, NEW i \in DOMAIN Content(s), e.src = s
         PROVE  e.n < Content(s)[i].n
    BY <1>10, TakeShifts DEF LineInv, TakenOnce, OlderThanQueue
  <1>11. ASSUME NEW i \in DOMAIN Content(s), NEW j \in DOMAIN Content(s),
                Content(s)[i].n = Content(s)[j].n
         PROVE  i = j
    <2>1. /\ i < j => Content(s)[i].n < Content(s)[j].n
          /\ j < i => Content(s)[j].n < Content(s)[i].n
      BY <1>4, TakeShifts DEF Ordered
    <2>2. Content(s)[i].n \in Int /\ Content(s)[j].n \in Int /\ i \in Int /\ j \in Int
      BY <1>3, TakeShifts
    <2> QED
      BY <1>11, <2>1, <2>2
  <1>12. ASSUME NEW e \in Taken', NEW f \in Taken', e.src = f.src, e.n = f.n
         PROVE  e = f
    <2>1. CASE e \in Taken /\ f \in Taken
      BY <1>12, <2>1 DEF LineInv, TakenOnce
    <2>2. CASE e \in Taken /\ \E i \in DOMAIN Content(s) : Content(s)[i] = f
      BY <1>2, <1>6, <1>8, <1>10, <1>12, <2>2
    <2>3. CASE f \in Taken /\ \E i \in DOMAIN Content(s) : Content(s)[i] = e
      BY <1>2, <1>6, <1>8, <1>10, <1>12, <2>3
    <2>4. CASE /\ \E i \in DOMAIN Content(s) : Content(s)[i] = e
               /\ \E i \in DOMAIN Content(s) : Content(s)[i] = f
      BY <1>11, <1>12, <2>4
    <2> QED
      BY <2>1, <2>2, <2>3, <2>4, <1>8 DEF TakenGrows
  <1>13. TakenOnce'
    BY <1>9, <1>12 DEF TakenOnce
  <1>14. NoneMissing'
    <2>1. SUFFICES ASSUME crashes = 0, NEW t \in Senders, NEW n \in 1..logged[t]
                   PROVE  (\E e \in Taken' : e.src = t /\ e.n = n) \/ Waits(t, n)'
      BY <1>1 DEF NoneMissing
    <2>2. CASE \E e \in Taken : e.src = t /\ e.n = n
      BY <2>2, <1>2 DEF TakenGrows
    <2>3. CASE Waits(t, n) /\ t # s
      BY <2>3, TakeShifts DEF Waits
    <2>4. CASE Waits(t, n) /\ t = s
      <3>1. PICK k \in DOMAIN Waiting[s] : \E i \in DOMAIN Waiting[s][k] :
                   Waiting[s][k][i].n = n
        BY <2>4 DEF Waits
      <3>2. PICK i \in DOMAIN Waiting[s][k] : Waiting[s][k][i].n = n
        BY <3>1
      <3>3. CASE k = 1
        <4>1. /\ i \in DOMAIN Content(s) /\ Waiting[s][k][i] = Content(s)[i]
              /\ Waiting[s][k][i] \in Lines /\ Waiting[s][k][i].src = s
          BY <3>3, <1>3, TakeShifts
        <4> QED
          BY <2>4, <3>2, <4>1 DEF TakenGrows
      <3>4. CASE k # 1
        <4>1. /\ k - 1 \in DOMAIN Waiting'[s] /\ (k - 1) + 1 = k
          BY <3>4, TakeShifts
        <4>2. Waiting'[s][k - 1] = Waiting[s][k]
          BY <4>1, TakeShifts
        <4> QED
          BY <2>4, <3>2, <4>1, <4>2 DEF Waits
      <3> QED
        BY <3>3, <3>4
    <2> QED
      BY <2>1, <2>2, <2>3, <2>4 DEF LineInv, NoneMissing
  <1> QED
    BY <1>5, <1>13, <1>14

(* The lines of the vector are after all taken lines of their source.       *)
LEMMA ContentIsLast ==
  ASSUME IInv, LineInv, NEW s \in Senders, Take(s), UNCHANGED bufferVars
  PROVE  /\ \A i \in DOMAIN Content(s) :
              Content(s)[i] \in Lines /\ Content(s)[i].src = s /\ i \in Int
         /\ \A i, j \in DOMAIN Content(s) : i < j => Content(s)[i].n < Content(s)[j].n
         /\ \A e \in Taken : e.src = s =>
              \A i \in DOMAIN Content(s) : e.n < Content(s)[i].n
  <1>1. 1 \in DOMAIN Waiting[s] /\ Waiting[s][1] = Content(s)
    BY TakeShifts
  <1>2. \A i \in DOMAIN Waiting[s][1] :
          Waiting[s][1][i] \in Lines /\ Waiting[s][1][i].src = s /\ i \in Int
    BY <1>1, BatchElements DEF LineInv, QueueInOrder
  <1>3. \A i, j \in DOMAIN Waiting[s][1] : i < j => Waiting[s][1][i].n < Waiting[s][1][j].n
    BY <1>1 DEF LineInv, QueueInOrder, Ordered
  <1>4. \A e \in Taken : e.src = s =>
          \A i \in DOMAIN Waiting[s][1] : e.n < Waiting[s][1][i].n
    BY <1>1 DEF LineInv, TakenOnce, OlderThanQueue
  <1> QED
    BY <1>1, <1>2, <1>3, <1>4

(* Lines appended to a text in which each source is in order.               *)
InOrder(F) ==
  \A i, j \in DOMAIN F : i < j /\ F[i].src = F[j].src => F[i].n < F[j].n

Appended(F, C, G) ==
  \E p \in Nat : \E q \in Nat :
    /\ DOMAIN F = 1..p /\ DOMAIN C = 1..q /\ DOMAIN G = 1..(p + q)
    /\ \A i \in 1..p : G[i] = F[i]
    /\ \A i \in 1..q : G[p + i] = C[i]

(* C consists of lines of a source, in order, and later ones than in F.     *)
Follows(C, F, s) ==
  /\ \A i \in DOMAIN C : C[i].src = s
  /\ \A i, j \in DOMAIN C : i < j => C[i].n < C[j].n
  /\ \A i \in DOMAIN F, j \in DOMAIN C : F[i].src = s => F[i].n < C[j].n

LEMMA AppendKeepsOrder ==
  ASSUME NEW F, NEW C, NEW G, NEW s, Appended(F, C, G), InOrder(F),
         Follows(C, F, s)
  PROVE  /\ InOrder(G)
         /\ \A i \in DOMAIN G : \/ i \in DOMAIN F /\ G[i] = F[i]
                                \/ \E j \in DOMAIN C : G[i] = C[j]
         /\ \A i \in DOMAIN F : i \in DOMAIN G /\ G[i] = F[i]
         /\ \A i \in DOMAIN C : \E j \in DOMAIN G : G[j] = C[i]
  <1>1. PICK p \in Nat, q \in Nat :
          /\ DOMAIN F = 1..p /\ DOMAIN C = 1..q /\ DOMAIN G = 1..(p + q)
          /\ \A i \in 1..p : G[i] = F[i]
          /\ \A i \in 1..q : G[p + i] = C[i]
    BY DEF Appended
  <1>2. ASSUME NEW i \in DOMAIN G
        PROVE  \/ i \in DOMAIN F /\ G[i] = F[i]
               \/ i - p \in DOMAIN C /\ G[i] = C[i - p] /\ i > p
    <2>1. CASE i <= p
      BY <1>1, <2>1
    <2>2. CASE i > p
      <3>1. i - p \in 1..q /\ p + (i - p) = i
        BY <1>1, <2>2
      <3> QED
        BY <1>1, <3>1, <2>2
    <2> QED
      BY <1>1, <2>1, <2>2
  <1>3. ASSUME NEW i \in DOMAIN G, NEW j \in DOMAIN G, i < j, G[i].src = G[j].src
        PROVE  G[i].n < G[j].n
    <2>1. CASE i \in DOMAIN F /\ j \in DOMAIN F /\ G[i] = F[i] /\ G[j] = F[j]
      BY <1>3, <2>1 DEF InOrder
    <2>2. CASE i \in DOMAIN F /\ G[i] = F[i] /\ j - p \in DOMAIN C /\ G[j] = C[j - p]
      BY <1>3, <2>2 DEF Follows
    <2>3. CASE /\ i - p \in DOMAIN C /\ G[i] = C[i - p]
               /\ j - p \in DOMAIN C /\ G[j] = C[j - p]
      <3>1. i - p < j - p
        BY <1>1, <1>3
      <3> QED
        BY <2>3, <3>1 DEF Follows
    <2>4. CASE i > p /\ j \in DOMAIN F
      BY <1>1, <1>3, <2>4
    <2> QED
      BY <1>2, <2>1, <2>2, <2>3, <2>4
  <1>4. ASSUME NEW i \in DOMAIN C PROVE \E j \in DOMAIN G : G[j] = C[i]
    <2>1. p + i \in DOMAIN G
      BY <1>1
    <2> QED
      BY <1>1, <2>1
  <1>5. \A i \in DOMAIN F : i \in DOMAIN G /\ G[i] = F[i]
    BY <1>1
  <1> QED
    BY <1>2, <1>3, <1>4, <1>5 DEF InOrder

LEMMA ConcatAppends ==
  ASSUME NEW S, NEW F \in Seq(S), NEW C \in Seq(S)
  PROVE  Appended(F, C, F \o C)
  <1>1. /\ DOMAIN F = 1..Len(F) /\ Len(F) \in Nat
        /\ DOMAIN C = 1..Len(C) /\ Len(C) \in Nat
        /\ DOMAIN (F \o C) = 1..(Len(F) + Len(C))
        /\ \A i \in 1..Len(F) : (F \o C)[i] = F[i]
        /\ \A i \in 1..Len(C) : (F \o C)[Len(F) + i] = C[i]
    BY ConcatProperties, LenProperties
  <1> QED
    BY <1>1 DEF Appended

(* A vector is appended to the file of its hour.                            *)
LEMMA WriteKeepsOrder ==
  ASSUME IInv, LineInv, NEW s \in Senders, Take(s), UNCHANGED bufferVars,
         NEW stream \in StreamType, stream.file = HourOf(s), stream.good,
         NEW withHeader \in BOOLEAN, NEW closed,
         Write(s, stream, withHeader, closed), tooOld' = tooOld
  PROVE  /\ TakenGrows(s) /\ SourceOrder' /\ RefusedNotWritten'
         /\ created' = created \cup {HourOf(s)}
         /\ \A k \in Hours \ {HourOf(s)} : files'[k] = files[k]
         /\ IF withHeader /\ HourOf(s) \notin created
            THEN files'[HourOf(s)] # <<>>
                 /\ files'[HourOf(s)][1] = Header(HourOf(s))
            ELSE files[HourOf(s)] # <<>> =>
                   /\ files'[HourOf(s)] # <<>>
                   /\ files'[HourOf(s)][1] = files[HourOf(s)][1]
  <1> DEFINE h == HourOf(s)
             C == Content(s)
             new == withHeader /\ h \notin created
             F == IF new THEN <<Header(h)>> ELSE files[h]
  <1>1. h \in Hours /\ Head(toCollector[s]) \in Vectors /\ h # None
    BY TakeKeeps, HourFacts
  <1>2. C \in Seq(LinesOf(h)) /\ C \in Seq(Text(h)) /\ C \in Seq(Lines)
    BY <1>1, VectorFacts, LinesAreText DEF HourOf, Content
  <1>3. /\ files[h] \in Seq(Text(h)) /\ <<Header(h)>> \in Seq(Text(h))
        /\ DOMAIN files = Hours
    BY <1>1, <1>2, LinesAreText DEF IInv, FileInv
  <1> DEFINE text == (IF new THEN <<Header(h)>> ELSE <<>>) \o C
  <1>4. /\ files' = [files EXCEPT ![h] = @ \o text]
        /\ created' = created \cup {h}
    BY <1>1 DEF Write, Content
  <1>5. new => files[h] = <<>>
    BY <1>1 DEF LineInv, HeadersInPlace
  <1>6. files'[h] = F \o C /\ F \in Seq(Text(h))
    <2>1. files'[h] = files[h] \o text
      BY <1>1, <1>3, <1>4
    <2>2. CASE new
      <3>1. <<Header(h)>> \o C \in Seq(Text(h)) /\ files'[h] = <<>> \o (<<Header(h)>> \o C)
        BY <2>1, <2>2, <1>2, <1>3, <1>5, ConcatProperties
      <3> HIDE DEF C
      <3> QED
        BY <2>2, <3>1, <1>3, ConcatEmptySeq
    <2>3. CASE ~new
      <3>1. text = <<>> \o C
        BY <2>3
      <3>2. text = C
        BY <3>1, <1>2, ConcatEmptySeq
      <3> QED
        BY <2>1, <2>3, <3>2, <1>3
    <2> QED
      BY <2>2, <2>3
  <1>7. \A k \in Hours \ {h} : files'[k] = files[k]
    BY <1>3, <1>4
  <1>8. "header" \notin Senders /\ \A e \in Lines : e.src \in Senders /\ e # Header(h)
    BY LogAssumption DEF LogAssumption, Senders, Lines, Header
  <1>9. \A i \in DOMAIN F : F[i] = Header(h) \/ (F[i] \in Taken /\ i \in DOMAIN files[h] /\ F[i] = files[h][i])
    <2>1. CASE new
      BY <2>1
    <2>2. CASE ~new
      <3>1. \A i \in DOMAIN files[h] : files[h][i] \in Text(h)
        BY <1>3, ElementOfSeq, LenProperties
      <3> QED
        BY <2>2, <3>1, <1>1 DEF Text, LinesOf, Taken, InFile
    <2> QED
      BY <2>1, <2>2
  <1>10. InOrder(F)
    <2>1. CASE new
      <3>1. \A i, j \in DOMAIN F : ~(i < j)
        BY <2>1
      <3> QED
        BY <3>1 DEF InOrder
    <2>2. CASE ~new
      BY <2>2, <1>1 DEF LineInv, SourceOrder, InOrder
    <2> QED
      BY <2>1, <2>2
  <1> HIDE DEF F, C, new, h
  <1>11. Appended(F, C, files'[h])
    BY <1>2, <1>6, ConcatAppends
  <1>12. \A i \in DOMAIN F, j \in DOMAIN C : F[i].src = s => F[i].n < C[j].n
    BY <1>8, <1>9, ContentIsLast DEF Header, C, h
  <1>13. /\ \A i \in DOMAIN C : C[i] \in Lines /\ C[i].src = s
         /\ \A i, j \in DOMAIN C : i < j => C[i].n < C[j].n
    BY ContentIsLast DEF C
  <1>14. /\ InOrder(files'[h])
         /\ \A i \in DOMAIN files'[h] :
              \/ i \in DOMAIN F /\ files'[h][i] = F[i]
              \/ \E j \in DOMAIN C : files'[h][i] = C[j]
         /\ \A i \in DOMAIN F : i \in DOMAIN files'[h] /\ files'[h][i] = F[i]
         /\ \A i \in DOMAIN C : \E j \in DOMAIN files'[h] : files'[h][j] = C[i]
    <2>1. Follows(C, F, s)
      BY <1>12, <1>13 DEF Follows
    <2> QED
      BY <1>10, <1>11, <2>1, AppendKeepsOrder
  <1>15. SourceOrder'
    BY <1>7, <1>14, <1>3 DEF LineInv, SourceOrder, InOrder
  <1>16. ASSUME NEW e \in Lines, NEW k \in Hours
         PROVE  InFile(e, k)' <=> InFile(e, k) \/ (k = h /\ \E i \in DOMAIN C : C[i] = e)
    <2>1. CASE k # h
      BY <2>1, <1>7 DEF InFile
    <2>2. CASE k = h
      <3>1. ASSUME InFile(e, k)
            PROVE  InFile(e, k)'
        <4>1. PICK i \in DOMAIN files[h] : files[h][i] = e
          BY <2>2, <3>1 DEF InFile
        <4>2. ~new
          BY <4>1, <1>5
        <4> QED
          BY <2>2, <4>1, <4>2, <1>14 DEF InFile, F
      <3>2. ASSUME NEW i \in DOMAIN C, C[i] = e
            PROVE  InFile(e, k)'
        BY <2>2, <3>2, <1>14 DEF InFile
      <3>3. ASSUME NEW i \in DOMAIN files'[h], files'[h][i] = e
            PROVE  InFile(e, k) \/ \E j \in DOMAIN C : C[j] = e
        BY <2>2, <3>3, <1>8, <1>9, <1>14 DEF InFile
      <3> QED
        BY <2>2, <3>1, <3>2, <3>3 DEF InFile
    <2> QED
      BY <2>1, <2>2
  <1>17. TakenGrows(s)
    BY <1>1, <1>16 DEF TakenGrows, Taken, C, h
  <1>18. RefusedNotWritten'
    <2>1. ASSUME NEW e \in tooOld, NEW k \in Hours PROVE ~InFile(e, k)'
      <3>1. e \in Lines /\ e \in Taken /\ ~InFile(e, k) /\ e.n \in Int
        BY DEF Taken, IInv, FileInv, LineInv, RefusedNotWritten, Lines
      <3>2. ASSUME NEW i \in DOMAIN C, C[i] = e PROVE FALSE
        <4>1. e.n < e.n
          BY <3>1, <3>2, ContentIsLast DEF C
        <4> QED
          BY <3>1, <4>1
      <3> QED
        BY <3>1, <3>2, <1>16
    <2> QED
      BY <2>1 DEF RefusedNotWritten
  <1>19. IF new THEN files'[h] # <<>> /\ files'[h][1] = Header(h)
         ELSE files[h] # <<>> => files'[h] # <<>> /\ files'[h][1] = files[h][1]
    <2>1. CASE new
      <3>1. 1 \in DOMAIN F /\ F[1] = Header(h)
        BY <2>1 DEF F
      <3> QED
        BY <2>1, <3>1, <1>14
    <2>2. CASE ~new
      <3>1. ASSUME files[h] # <<>> PROVE 1 \in DOMAIN F /\ F[1] = files[h][1]
        BY <2>2, <3>1, <1>3, LenProperties, EmptySeq DEF F
      <3> QED
        BY <2>2, <3>1, <1>14
    <2> QED
      BY <2>1, <2>2
  <1> QED
    BY <1>4, <1>7, <1>15, <1>17, <1>18, <1>19 DEF h, new

(* What is left to know of a write: that it is to a file with a header, or  *)
(* writes one, and that the streams stay on files that exist.               *)
LEMMA WriteKeepsLines ==
  ASSUME IInv, LineInv, NEW s \in Senders, Take(s), UNCHANGED bufferVars,
         NEW stream \in StreamType, stream.file = HourOf(s), stream.good,
         NEW withHeader \in BOOLEAN, NEW closed,
         Write(s, stream, withHeader, closed), tooOld' = tooOld,
         OnlyBuffers => withHeader \/ HourOf(s) \in created,
         mode' # "idle" => current'.start \in created \cup {HourOf(s)},
         mode' = "two" => last'.start \in created \cup {HourOf(s)}
  PROVE  LineInv'
  <1> DEFINE h == HourOf(s)
  <1>1. /\ TakenGrows(s) /\ SourceOrder' /\ RefusedNotWritten'
        /\ created' = created \cup {h}
        /\ \A k \in Hours \ {h} : files'[k] = files[k]
        /\ IF withHeader /\ h \notin created
           THEN files'[h] # <<>> /\ files'[h][1] = Header(h)
           ELSE files[h] # <<>> => /\ files'[h] # <<>>
                                   /\ files'[h][1] = files[h][1]
    BY WriteKeepsOrder
  <1>2. (\A t \in Senders : QueueInOrder(t)') /\ TakenOnce' /\ NoneMissing'
    BY <1>1, TakeKeepsQueues
  <1>3. logged' = logged /\ crashes' = crashes
    BY DEF Take
  <1> HIDE DEF h
  <1>4. \A k \in Hours : k \notin created' => files'[k] = <<>>
    BY <1>1 DEF LineInv, HeadersInPlace
  <1>5. ASSUME NEW d \in DirectSenders, logged'[d] = 0
        PROVE  toCollector'[d] = <<>>
    <2>1. toCollector[d] = <<>> /\ d \in Senders
      BY <1>3, <1>5 DEF LineInv, HeadersInPlace, Senders
    <2> QED
      BY <2>1, TakeShifts DEF Take
  <1>6. ASSUME OnlyBuffers, NEW k \in created'
        PROVE  files'[k] # <<>> /\ files'[k][1] = Header(k)
    <2>1. k \in Hours /\ h \in Hours
      BY <1>1, <1>6, TakeKeeps DEF h, IInv, FileInv
    <2>2. CASE k # h
      BY <1>1, <1>6, <2>1, <2>2 DEF LineInv, HeadersInPlace
    <2>3. CASE k = h /\ h \in created
      BY <1>1, <1>6, <2>3 DEF LineInv, HeadersInPlace
    <2>4. CASE k = h /\ h \notin created
      BY <1>1, <1>6, <2>4 DEF h
    <2> QED
      BY <2>2, <2>3, <2>4
  <1>7. /\ mode' # "idle" => current'.start \in created'
        /\ mode' = "two" => last'.start \in created'
    BY <1>1 DEF h
  <1>8. HeadersInPlace'
    BY <1>3, <1>4, <1>5, <1>6, <1>7 DEF HeadersInPlace, OnlyBuffers
  <1> QED
    BY <1>1, <1>2, <1>8 DEF LineInv

(* As long as only buffers log, what is taken comes from a buffer.          *)
LEMMA TakenFromBuffer ==
  ASSUME IInv, LineInv, NEW s \in Senders, Take(s), OnlyBuffers
  PROVE  Head(toCollector[s]).buffered
  <1>1. s \in Buffers
    BY DEF OnlyBuffers, LineInv, HeadersInPlace, Take, Senders
  <1>2. toCollector[s] \in Seq(Vectors) /\ toCollector[s] # <<>>
    BY DEF IInv, ChannelInv, Take
  <1>3. 1 \in DOMAIN toCollector[s] /\ Head(toCollector[s]) = toCollector[s][1]
    BY <1>2, HeadTailProperties, LenProperties
  <1> QED
    BY <1>1, <1>3 DEF LineInv, QueueInOrder

LEMMA RefuseKeepsLines ==
  ASSUME IInv, LineInv, NEW s \in Senders, Refuse(s), UNCHANGED bufferVars
  PROVE  LineInv'
  <1>1. /\ Take(s) /\ tooOld' = tooOld \cup {Content(s)[i] : i \in DOMAIN Content(s)}
        /\ UNCHANGED <<mode, current, last, files, created>>
    BY DEF Refuse, RefuseBefore, Content
  <1>2. \A e : \A h \in Hours : InFile(e, h)' <=> InFile(e, h)
    BY <1>1 DEF InFile
  <1>3. TakenGrows(s)
    BY <1>1, <1>2 DEF TakenGrows, Taken
  <1>4. (\A t \in Senders : QueueInOrder(t)') /\ TakenOnce' /\ NoneMissing'
    BY <1>1, <1>3, TakeKeepsQueues
  <1>5. SourceOrder'
    BY <1>1 DEF LineInv, SourceOrder
  <1>6. RefusedNotWritten'
    <2>1. ASSUME NEW i \in DOMAIN Content(s), NEW h \in Hours,
                 InFile(Content(s)[i], h)
          PROVE  FALSE
      <3>1. Content(s)[i] \in Lines /\ Content(s)[i].src = s
        BY <1>1, ContentIsLast
      <3>2. Content(s)[i] \in Taken /\ Content(s)[i].n \in Int
        BY <2>1, <3>1 DEF Taken, Lines
      <3>3. Content(s)[i].n < Content(s)[i].n
        BY <1>1, <3>1, <3>2, ContentIsLast
      <3> QED
        BY <3>2, <3>3
    <2> QED
      BY <1>1, <1>2, <2>1 DEF LineInv, RefusedNotWritten
  <1>7. HeadersInPlace'
    <2>1. ASSUME NEW d \in DirectSenders, logged'[d] = 0
          PROVE  toCollector'[d] = <<>>
      <3>1. toCollector[d] = <<>> /\ d \in Senders /\ d # s
        BY <1>1, <2>1 DEF LineInv, HeadersInPlace, Senders, Take
      <3> QED
        BY <1>1, <3>1, TakeShifts
    <2> QED
      BY <1>1, <2>1 DEF LineInv, HeadersInPlace, OnlyBuffers, Take
  <1> QED
    BY <1>4, <1>5, <1>6, <1>7 DEF LineInv

LEMMA CollectorKeepsLines ==
  ASSUME IInv, LineInv, NEW s \in Senders, CollectorStep(s)
  PROVE  LineInv'
  <1> DEFINE h == HourOf(s)
  <1>1. UNCHANGED bufferVars
    BY DEF CollectorStep
  <1>2. ASSUME Take(s) PROVE h \in Hours
    BY <1>2, TakeKeeps
  <1> HIDE DEF h
  <1>3. ASSUME WriteFirst(s) PROVE LineInv'
    <2>1. /\ Take(s) /\ Write(s, current', TRUE, {}) /\ tooOld' = tooOld
          /\ mode' = "one" /\ current' = Opened(current, h) /\ h \in Hours
      BY <1>2, <1>3 DEF WriteFirst, h
    <2>2. current' = [start |-> h, file |-> h, good |-> TRUE]
      BY <1>3, <2>1, StreamFacts, OpenedFacts DEF WriteFirst
    <2>3. current' \in StreamType
      BY <2>1, <2>2, FreshStreamType
    <2>4. current'.start \in created \cup {h} /\ current'.file = h /\ current'.good
      BY <2>2
    <2> QED
      BY <1>1, <2>1, <2>3, <2>4, WriteKeepsLines DEF h
  <1>4. ASSUME WriteCurrent(s) PROVE LineInv'
    <2>1. /\ Take(s) /\ Write(s, current, FALSE, {}) /\ tooOld' = tooOld
          /\ mode # "idle" /\ h = current.start
          /\ mode' = mode /\ current' = current /\ last' = last
      BY <1>4 DEF WriteCurrent, h
    <2>2. current \in StreamType /\ current.file = h /\ current.good
      BY <2>1, StreamFacts DEF IInv, StreamInv, StreamsFitMode
    <2>3. h \in created /\ (mode = "two" => last.start \in created)
      BY <2>1 DEF LineInv, HeadersInPlace
    <2> QED
      BY <1>1, <2>1, <2>2, <2>3, WriteKeepsLines DEF h
  <1>5. ASSUME WriteLast(s) PROVE LineInv'
    <2>1. /\ Take(s) /\ Write(s, last, FALSE, {}) /\ tooOld' = tooOld
          /\ mode = "two" /\ h = last.start
          /\ mode' = mode /\ current' = current /\ last' = last
      BY <1>5 DEF WriteLast, h
    <2>2. last \in StreamType /\ last.file = h /\ last.good
      BY <2>1, StreamFacts DEF IInv, StreamInv, StreamsFitMode
    <2>3. h \in created /\ current.start \in created
      BY <2>1 DEF LineInv, HeadersInPlace
    <2> QED
      BY <1>1, <2>1, <2>2, <2>3, WriteKeepsLines DEF h
  <1>6. ASSUME OpenLast(s) PROVE LineInv'
    <2> DEFINE header == Head(toCollector[s]).buffered
    <2>1. /\ Take(s) /\ Write(s, last', header, {}) /\ tooOld' = tooOld
          /\ mode = "one" /\ h = last.start /\ h \in Hours
          /\ mode' = "two" /\ current' = current /\ last' = Opened(last, h)
      BY <1>2, <1>6 DEF OpenLast, OpenLastWith, h
    <2>2. last' = [start |-> h, file |-> h, good |-> TRUE]
      BY <2>1, StreamFacts, OpenedFacts
    <2>3. last' \in StreamType
      BY <2>1, <2>2, FreshStreamType
    <2>4. header \in BOOLEAN
      BY <2>1, TakeKeeps, VectorFacts
    <2>5. current.start \in created
      BY <2>1 DEF LineInv, HeadersInPlace
    <2>6. OnlyBuffers => header
      BY <2>1, TakenFromBuffer
    <2> HIDE DEF header
    <2> QED
      BY <1>1, <2>1, <2>2, <2>3, <2>4, <2>5, <2>6, WriteKeepsLines DEF h
  <1>7. ASSUME Rotate(s) PROVE LineInv'
    <2>1. /\ Take(s) /\ Write(s, current', TRUE, {last}) /\ tooOld' = tooOld
          /\ mode # "idle" /\ last' = current
          /\ current' = Opened(Closed, h) /\ h \in Hours
      BY <1>2, <1>7 DEF Rotate, h
    <2>2. current' = [start |-> h, file |-> h, good |-> TRUE]
      BY <2>1, FreshStreamType, OpenedFacts
    <2>3. current' \in StreamType
      BY <2>1, <2>2, FreshStreamType
    <2>4. current.start \in created
      BY <2>1 DEF LineInv, HeadersInPlace
    <2>5. current'.start \in created \cup {h} /\ current'.file = h /\ current'.good
      BY <2>2
    <2> QED
      BY <1>1, <2>1, <2>3, <2>4, <2>5, WriteKeepsLines DEF h
  <1>8. ASSUME SkipHours(s) PROVE LineInv'
    <2>1. /\ Take(s) /\ Write(s, current', TRUE, {current, last}) /\ tooOld' = tooOld
          /\ mode' = "one" /\ current' = Opened(Closed, h) /\ h \in Hours
      BY <1>2, <1>8 DEF SkipHours, Skip, h
    <2>2. current' = [start |-> h, file |-> h, good |-> TRUE]
      BY <2>1, FreshStreamType, OpenedFacts
    <2>3. current' \in StreamType
      BY <2>1, <2>2, FreshStreamType
    <2>4. current'.start \in created \cup {h} /\ current'.file = h /\ current'.good
      BY <2>2
    <2> QED
      BY <1>1, <2>1, <2>3, <2>4, WriteKeepsLines DEF h
  <1> QED
    BY <1>1, <1>3, <1>4, <1>5, <1>6, <1>7, <1>8, RefuseKeepsLines
    DEF CollectorStep, Collect

-----------------------------------------------------------------------------
(* The other steps, and the theorems. *)

LEMMA InitLineInv == Init => LineInv
  <1> SUFFICES ASSUME Init PROVE LineInv
    OBVIOUS
  <1>1. /\ logged = [s \in Senders |-> 0] /\ toCollector = [s \in Senders |-> <<>>]
        /\ buf = [b \in Buffers |-> <<>>] /\ mode = "idle"
        /\ files = [h \in Hours |-> <<>>] /\ created = {} /\ tooOld = {}
    BY DEF Init, LogChannelInit, BufferInit, CollectorInit
  <1>2. \A s \in Senders : DOMAIN Waiting[s] = 1..1 /\ Waiting[s][1] = <<>>
    BY <1>1 DEF Waiting
  <1>3. \A s \in Senders : QueueInOrder(s)
    BY <1>1, <1>2 DEF QueueInOrder, Ordered
  <1>4. Taken = {}
    BY <1>1 DEF Taken, InFile
  <1>5. \A s \in Senders : 1..logged[s] = {}
    BY <1>1
  <1>6. DirectSenders \subseteq Senders
    BY DEF Senders
  <1> QED
    BY <1>1, <1>3, <1>4, <1>5, <1>6
    DEF LineInv, TakenOnce, RefusedNotWritten, SourceOrder, NoneMissing, HeadersInPlace

LEMMA NothingMoves ==
  ASSUME LineInv, UNCHANGED <<logged, toCollector, buf, crashes, collectorVars>>
  PROVE  LineInv'
  <1>1. Waiting' = Waiting /\ Taken' = Taken
    BY DEF Waiting, Taken, InFile, collectorVars
  <1>2. \A s \in Senders : QueueInOrder(s)'
    BY <1>1 DEF LineInv, QueueInOrder
  <1>3. TakenOnce' /\ RefusedNotWritten' /\ SourceOrder' /\ NoneMissing'
    BY <1>1 DEF LineInv, TakenOnce, OlderThanQueue, RefusedNotWritten, SourceOrder,
                NoneMissing, Waits, InFile, collectorVars
  <1>4. HeadersInPlace'
    BY DEF LineInv, HeadersInPlace, OnlyBuffers, collectorVars
  <1> QED
    BY <1>2, <1>3, <1>4 DEF LineInv

(* A crash empties the queues and cuts the files. *)
LEMMA CrashKeepsLines ==
  ASSUME IInv, LineInv, Crash
  PROVE  LineInv'
  <1>1. PICK left \in [Hours -> 0..(Cardinality(Senders) * MaxLines + 1)] :
          /\ \A h \in Hours : left[h] \in synced[h]..Len(files[h])
          /\ files' = [h \in Hours |-> SubSeq(files[h], 1, left[h])]
          /\ synced' = left
    BY DEF Crash
  <1>2. /\ logged' = logged /\ created' = created /\ tooOld' = tooOld
        /\ toCollector' = [s \in Senders |-> <<>>]
        /\ buf' = [b \in Buffers |-> <<>>] /\ mode' = "idle"
        /\ crashes' = crashes + 1 /\ crashes \in Nat
        /\ logged \in [Senders -> 0..MaxLines]
    BY LogAssumption DEF LogAssumption, Crash, IInv, ChannelInv
  <1>3. ASSUME NEW h \in Hours
        PROVE  /\ \A i \in DOMAIN files'[h] :
                    i \in DOMAIN files[h] /\ files'[h][i] = files[h][i]
               /\ files[h] = <<>> => files'[h] = <<>>
    <2>1. files[h] \in Seq(Text(h)) /\ synced[h] \in Nat /\ Len(files[h]) \in Nat
      BY LenProperties DEF IInv, FileInv
    <2>2. left[h] \in Nat /\ left[h] <= Len(files[h])
      BY <1>1, <2>1
    <2>3. \A i \in 1..left[h] : i \in 1..Len(files[h]) /\ files[h][i] \in Text(h)
      BY <2>1, <2>2, ElementOfSeq
    <2>4. /\ Len(SubSeq(files[h], 1, left[h])) = left[h]
          /\ SubSeq(files[h], 1, left[h]) \in Seq(Text(h))
          /\ \A i \in 1..left[h] : SubSeq(files[h], 1, left[h])[i] = files[h][i]
      BY <2>1, <2>2, <2>3, SubSeqProperties
    <2>5. files'[h] = SubSeq(files[h], 1, left[h])
      BY <1>1
    <2>6. DOMAIN files'[h] = 1..left[h] /\ DOMAIN files[h] = 1..Len(files[h])
      BY <2>1, <2>4, <2>5, LenProperties
    <2>7. ASSUME files[h] = <<>> PROVE files'[h] = <<>>
      <3>1. left[h] = 0
        BY <2>2, <2>7
      <3> QED
        BY <2>4, <2>5, <3>1, EmptySeq
    <2> QED
      BY <2>3, <2>4, <2>5, <2>6, <2>7
  <1>4. \A s \in Senders : DOMAIN Waiting'[s] = 1..1 /\ Waiting'[s][1] = <<>>
    BY <1>2 DEF Waiting
  <1>5. \A s \in Senders : QueueInOrder(s)'
    BY <1>2, <1>4 DEF QueueInOrder, Ordered
  <1>6. \A e : \A h \in Hours : InFile(e, h)' => InFile(e, h)
    BY <1>3 DEF InFile
  <1>7. \A e \in Taken' : e \in Taken /\ e \in Lines
    BY <1>2, <1>6 DEF Taken
  <1>8. TakenOnce'
    <2>1. ASSUME NEW e \in Taken' PROVE OlderThanQueue(e)'
      <3>1. OlderThanQueue(e) /\ e.src \in Senders
        BY <1>7 DEF LineInv, TakenOnce, Lines
      <3> QED
        BY <3>1, <1>2, <1>4 DEF OlderThanQueue
    <2> QED
      BY <2>1, <1>7 DEF LineInv, TakenOnce
  <1>9. RefusedNotWritten'
    BY <1>2, <1>6 DEF LineInv, RefusedNotWritten
  <1>10. SourceOrder'
    BY <1>3 DEF LineInv, SourceOrder
  <1>11. NoneMissing' /\ ~OnlyBuffers'
    BY <1>2 DEF NoneMissing, OnlyBuffers
  <1>12. HeadersInPlace'
    <2>1. DirectSenders \subseteq Senders
      BY DEF Senders
    <2> QED
      BY <1>2, <1>3, <1>11, <2>1 DEF LineInv, HeadersInPlace
  <1> QED
    BY <1>5, <1>8, <1>9, <1>10, <1>11, <1>12 DEF LineInv

LEMMA NextKeepsLines == IInv /\ IInv' /\ LineInv /\ [Next]_vars => LineInv'
  <1> SUFFICES ASSUME IInv, IInv', LineInv, [Next]_vars PROVE LineInv'
    OBVIOUS
  <1>1. CASE UNCHANGED vars
    BY <1>1, NothingMoves DEF vars, logChannels, bufferVars
  <1>2. CASE Tick
    BY <1>2, NothingMoves DEF Tick, bufferVars
  <1>3. ASSUME NEW b \in Buffers, BufferStep(b) PROVE LineInv'
    <2>1. CASE Log(b)
      <3>1. PICK h \in Stamps : AddLine(b, h, buf[b] # <<>> /\ h # stamp[b])
        BY <2>1 DEF Log
      <3>2. h \in Hours
        BY <3>1, StampsAreHours
      <3> QED
        BY <1>3, <3>1, <3>2, LogKeepsLines DEF BufferStep
    <2>2. CASE TakeBack(b)
      BY <1>3, <2>2, NothingMoves DEF BufferStep, TakeBack, Keep
    <2> QED
      BY <1>3, <2>1, <2>2 DEF BufferStep
  <1> QED
    BY <1>1, <1>2, <1>3, DirectKeepsLines, CollectorKeepsLines, CrashKeepsLines
    DEF Next

LEMMA LinesInvariance == Spec => []LineInv
  <1>1. Init => LineInv
    BY InitLineInv
  <1>2. LineInv /\ IInv /\ IInv' /\ [Next]_vars => LineInv'
    BY NextKeepsLines
  <1> QED
    BY <1>1, <1>2, Invariance, PTL DEF Spec

(* A line that a file or the set of refused lines shows is taken.           *)
LEMMA ShownIsTaken ==
  ASSUME IInv, NEW s \in Senders
  PROVE  /\ \A h \in Hours : \A i \in DOMAIN files[h] :
              files[h][i].src = s => /\ files[h][i] \in Taken /\ files[h][i].hour = h
                                     /\ files[h][i].n \in Int /\ i \in Int
                                     /\ InFile(files[h][i], h)
         /\ \A e \in tooOld : e \in Taken /\ e.n \in Int
  <1>1. ASSUME NEW h \in Hours, NEW i \in DOMAIN files[h], files[h][i].src = s
        PROVE  /\ files[h][i] \in Taken /\ files[h][i].hour = h
               /\ files[h][i].n \in Int /\ i \in Int /\ InFile(files[h][i], h)
    <2>1. files[h] \in Seq(Text(h))
      BY DEF IInv, FileInv
    <2>2. files[h][i] \in Text(h) /\ i \in Int
      BY <2>1, ElementOfSeq, LenProperties
    <2>3. files[h][i] # Header(h)
      BY <1>1, LogAssumption DEF LogAssumption, Header, Senders
    <2>4. files[h][i] \in Lines /\ files[h][i].hour = h /\ InFile(files[h][i], h)
      BY <2>2, <2>3 DEF Text, LinesOf, InFile
    <2> QED
      BY <2>2, <2>4 DEF Taken, Lines
  <1>2. \A e \in tooOld : e \in Taken /\ e.n \in Int
    BY DEF Taken, IInv, FileInv, Lines
  <1> QED
    BY <1>1, <1>2

(* The three kinds of places.                                               *)
InFileAt(s, n, r) ==
  \E h \in Hours : \E i \in DOMAIN files[h] :
    files[h][i].src = s /\ files[h][i].n = n /\ r = <<"file", h, i>>

WaitsAt(s, n, r) ==
  \E k \in DOMAIN Waiting[s] : \E i \in DOMAIN Waiting[s][k] :
    Waiting[s][k][i].src = s /\ Waiting[s][k][i].n = n /\ r = <<"waiting", k, i>>

RefusedAt(s, n, r) ==
  \E e \in tooOld : e.src = s /\ e.n = n /\ r = <<"refused", e.hour, 0>>

LEMMA PlacesAre ==
  ASSUME NEW s, NEW n, NEW r
  PROVE  r \in Places(s, n) <=> InFileAt(s, n, r) \/ WaitsAt(s, n, r) \/ RefusedAt(s, n, r)
  <1> DEFINE A == {{<<"file", h, i>> : i \in At(files[h], s, n)} : h \in Hours}
             B == {{<<"waiting", k, i>> : i \in At(Waiting[s][k], s, n)} :
                     k \in DOMAIN Waiting[s]}
             C == {<<"refused", e.hour, 0>> : e \in {l \in tooOld : l.src = s /\ l.n = n}}
  <1>1. Places(s, n) = (UNION A) \cup (UNION B) \cup C
    BY Zenon DEF Places
  <1>2. r \in UNION A <=> InFileAt(s, n, r)
    <2>1. r \in UNION A <=> \E X \in A : r \in X
      OBVIOUS
    <2>2. (\E X \in A : r \in X) <=>
            \E h \in Hours : r \in {<<"file", h, i>> : i \in At(files[h], s, n)}
      OBVIOUS
    <2>3. \A h \in Hours : r \in {<<"file", h, i>> : i \in At(files[h], s, n)} <=>
            \E i \in DOMAIN files[h] :
              files[h][i].src = s /\ files[h][i].n = n /\ r = <<"file", h, i>>
      BY DEF At
    <2> QED
      BY <2>1, <2>2, <2>3 DEF InFileAt
  <1>3. r \in UNION B <=> WaitsAt(s, n, r)
    <2>1. r \in UNION B <=> \E X \in B : r \in X
      OBVIOUS
    <2>2. (\E X \in B : r \in X) <=>
            \E k \in DOMAIN Waiting[s] :
              r \in {<<"waiting", k, i>> : i \in At(Waiting[s][k], s, n)}
      OBVIOUS
    <2>3. \A k \in DOMAIN Waiting[s] :
            r \in {<<"waiting", k, i>> : i \in At(Waiting[s][k], s, n)} <=>
            \E i \in DOMAIN Waiting[s][k] :
              Waiting[s][k][i].src = s /\ Waiting[s][k][i].n = n /\ r = <<"waiting", k, i>>
      BY DEF At
    <2> QED
      BY <2>1, <2>2, <2>3 DEF WaitsAt
  <1>4. r \in C <=> RefusedAt(s, n, r)
    BY DEF RefusedAt
  <1> HIDE DEF A, B, C
  <1>5. r \in Places(s, n) <=> r \in UNION A \/ r \in UNION B \/ r \in C
    BY <1>1
  <1> QED
    BY <1>2, <1>3, <1>4, <1>5

LEMMA OnePlace ==
  ASSUME IInv, LineInv, NEW s \in Senders, NEW n \in Int,
         NEW p \in Places(s, n), NEW q \in Places(s, n)
  PROVE  p = q
  <1>2. ASSUME NEW h \in Hours, NEW i \in DOMAIN files[h], files[h][i].src = s,
               files[h][i].n = n, NEW k \in Hours, NEW j \in DOMAIN files[k],
               files[k][j].src = s, files[k][j].n = n
        PROVE  h = k /\ i = j
    <2>1. files[h][i] = files[k][j]
      BY <1>2, ShownIsTaken DEF LineInv, TakenOnce
    <2>2. h = k
      BY <1>2, <2>1, ShownIsTaken
    <2>3. ~(i < j) /\ ~(j < i)
      BY <1>2, <2>1, <2>2, ShownIsTaken DEF LineInv, SourceOrder
    <2> QED
      BY <1>2, <2>2, <2>3, ShownIsTaken
  <1>3. ASSUME NEW e \in Taken, e.src = s, e.n = n,
               NEW k \in DOMAIN Waiting[s], NEW i \in DOMAIN Waiting[s][k],
               Waiting[s][k][i].n = n
        PROVE  FALSE
    <2>1. e.n < Waiting[s][k][i].n
      BY <1>3 DEF LineInv, TakenOnce, OlderThanQueue
    <2> QED
      BY <1>3, <2>1
  <1>4. ASSUME NEW k \in DOMAIN Waiting[s], NEW i \in DOMAIN Waiting[s][k],
               NEW l \in DOMAIN Waiting[s], NEW j \in DOMAIN Waiting[s][l],
               Waiting[s][k][i].n = n, Waiting[s][l][j].n = n
        PROVE  k = l /\ i = j
    <2>1. Ordered(Waiting[s])
      BY DEF LineInv, QueueInOrder
    <2>2. ~(k < l) /\ ~(l < k) /\ (k = l => ~(i < j) /\ ~(j < i))
      BY <1>4, <2>1 DEF Ordered
    <2> QED
      BY <2>2, BatchElements
  <1>5. ASSUME NEW h \in Hours, NEW i \in DOMAIN files[h], files[h][i].src = s,
               files[h][i].n = n, NEW e \in tooOld, e.src = s, e.n = n
        PROVE  FALSE
    <2>1. files[h][i] = e /\ InFile(files[h][i], h)
      BY <1>5, ShownIsTaken DEF LineInv, TakenOnce
    <2> QED
      BY <2>1 DEF LineInv, RefusedNotWritten
  <1>6. ASSUME NEW e \in tooOld, NEW f \in tooOld, e.src = s, e.n = n,
               f.src = s, f.n = n
        PROVE  e = f
    BY <1>6, ShownIsTaken DEF LineInv, TakenOnce
  <1>7. CASE InFileAt(s, n, p) /\ InFileAt(s, n, q)
    BY <1>2, <1>7 DEF InFileAt
  <1>8. CASE WaitsAt(s, n, p) /\ WaitsAt(s, n, q)
    BY <1>4, <1>8 DEF WaitsAt
  <1>9. CASE RefusedAt(s, n, p) /\ RefusedAt(s, n, q)
    BY <1>6, <1>9 DEF RefusedAt
  <1>10. \A r, t : ~(InFileAt(s, n, r) /\ WaitsAt(s, n, t))
    BY <1>3, ShownIsTaken DEF InFileAt, WaitsAt
  <1>11. \A r, t : ~(InFileAt(s, n, r) /\ RefusedAt(s, n, t))
    BY <1>5 DEF InFileAt, RefusedAt
  <1>12. \A r, t : ~(WaitsAt(s, n, r) /\ RefusedAt(s, n, t))
    BY <1>3, ShownIsTaken DEF WaitsAt, RefusedAt
  <1>13. /\ InFileAt(s, n, p) \/ WaitsAt(s, n, p) \/ RefusedAt(s, n, p)
         /\ InFileAt(s, n, q) \/ WaitsAt(s, n, q) \/ RefusedAt(s, n, q)
    BY PlacesAre
  <1> QED
    BY <1>7, <1>8, <1>9, <1>10, <1>11, <1>12, <1>13

LEMMA SomePlace ==
  ASSUME IInv, LineInv, crashes = 0, NEW s \in Senders, NEW n \in 1..logged[s]
  PROVE  Places(s, n) # {}
  <1>1. CASE \E e \in Taken : e.src = s /\ e.n = n
    <2>1. PICK e \in Taken : e.src = s /\ e.n = n
      BY <1>1
    <2>2. CASE e \in tooOld
      <3>1. RefusedAt(s, n, <<"refused", e.hour, 0>>)
        BY <2>1, <2>2 DEF RefusedAt
      <3> QED
        BY <3>1, PlacesAre
    <2>3. CASE \E h \in Hours : InFile(e, h)
      <3>1. PICK h \in Hours : \E i \in DOMAIN files[h] : files[h][i] = e
        BY <2>3 DEF InFile
      <3>2. PICK i \in DOMAIN files[h] : files[h][i] = e
        BY <3>1
      <3>3. InFileAt(s, n, <<"file", h, i>>)
        BY <2>1, <3>2 DEF InFileAt
      <3> QED
        BY <3>3, PlacesAre
    <2> QED
      BY <2>1, <2>2, <2>3 DEF Taken
  <1>2. CASE Waits(s, n)
    <2>1. PICK k \in DOMAIN Waiting[s] : \E i \in DOMAIN Waiting[s][k] :
            Waiting[s][k][i].n = n
      BY <1>2 DEF Waits
    <2>2. PICK i \in DOMAIN Waiting[s][k] : Waiting[s][k][i].n = n
      BY <2>1
    <2>3. Waiting[s][k][i].src = s
      BY DEF LineInv, QueueInOrder
    <2>4. WaitsAt(s, n, <<"waiting", k, i>>)
      BY <2>2, <2>3 DEF WaitsAt
    <2> QED
      BY <2>4, PlacesAre
  <1> QED
    BY <1>1, <1>2 DEF LineInv, NoneMissing

(* A line a source has logged is in one place, its file, the queue or among *)
(* the refused ones, unless the process died, and the lines of a source are *)
(* in a file in the order they were logged (buffer.cpp:38-141,              *)
(* collector.cpp:313-502).                                                  *)
THEOREM LinesNeitherLostNorDoubled == Spec => []EveryLineOnce
  <1>1. ASSUME IInv, LineInv PROVE EveryLineOnce
    <2>1. ASSUME NEW s \in Senders, NEW n \in 1..logged[s]
          PROVE  /\ \A p, q \in Places(s, n) : p = q
                 /\ crashes = 0 => Places(s, n) # {}
      <3>1. n \in Int
        BY <1>1 DEF IInv, ChannelInv
      <3> QED
        BY <1>1, <3>1, OnePlace, SomePlace
    <2> QED
      BY <1>1, <2>1 DEF EveryLineOnce, LineInv
  <1> QED
    BY <1>1, Invariance, LinesInvariance, PTL

(* If only buffers log, and as long as the process lives, a log starts with *)
(* its header and has no other (collector.cpp:313-378).                     *)
THEOREM HeadersOfBufferedLogs == Spec => []BufferedLogsHaveHeader
  <1>1. ASSUME IInv, LineInv, OnlyBuffers, NEW h \in Hours
        PROVE  HeaderFirst(h)
    <2>1. files[h] \in Seq(Text(h))
      BY <1>1 DEF IInv, FileInv
    <2>2. CASE files[h] = <<>>
      BY <2>2 DEF HeaderFirst
    <2>3. CASE files[h] # <<>>
      <3>1. files[h][1] = Header(h) /\ 1 \in DOMAIN files[h] /\ Head(files[h]) = files[h][1]
        <4>1. h \in created
          BY <1>1, <2>3 DEF LineInv, HeadersInPlace
        <4> QED
          BY <1>1, <2>1, <2>3, <4>1, HeadTailProperties, LenProperties DEF LineInv, HeadersInPlace
      <3>2. ASSUME NEW i \in DOMAIN files[h], files[h][i] = Header(h) PROVE i = 1
        <4>1. i \in Int /\ i >= 1
          BY <2>1, LenProperties
        <4>2. ~(1 < i)
          BY <1>1, <3>1, <3>2 DEF LineInv, SourceOrder, Header
        <4> QED
          BY <4>1, <4>2
      <3> QED
        BY <2>3, <3>1, <3>2 DEF HeaderFirst
    <2> QED
      BY <2>2, <2>3
  <1>2. IInv /\ LineInv => BufferedLogsHaveHeader
    BY <1>1 DEF BufferedLogsHaveHeader, LogsStartWithHeader, OnlyBuffers
  <1> QED
    BY <1>2, Invariance, LinesInvariance, PTL
=============================================================================
