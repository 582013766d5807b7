------------------------------ MODULE Collector ------------------------------
(***************************************************************************)
(* A collector (libspoki/src/collector.cpp) writes the lines of its        *)
(* senders to one file per hour.  It keeps the file of the current hour    *)
(* open, and that of the hour before when it has written to it, and moves  *)
(* on when a later hour comes.                                             *)
(*                                                                         *)
(* A C++ stream that is opened while it is open fails and takes no output  *)
(* any more.  What is written to it may be on disk or in its buffer.       *)
(***************************************************************************)
EXTENDS LogChannels

None == -2   \* no hour, and no hour's neighbour

VARIABLES
  mode,      \* "idle" | "one" | "two": the behaviour of the actor
  current,   \* current_hour: start, the file the stream has open, is it good
  last,      \* last_hour
  files,     \* per hour: what was written to its file, the header included
  created,   \* hours whose file exists
  synced,    \* per hour: lines of its file that are certainly on disk
  tooOld     \* history: lines the collector refused

collectorVars == <<mode, current, last, files, created, synced, tooOld>>

Closed == [start |-> None, file |-> None, good |-> TRUE]

CollectorInit ==
  /\ mode = "idle" /\ current = Closed /\ last = Closed
  /\ files = [h \in Hours |-> <<>>] /\ created = {}
  /\ synced = [h \in Hours |-> 0]
  /\ tooOld = {}

-----------------------------------------------------------------------------
(* open() on a stream for the file of hour h; out_file::start is set in any *)
(* case.                                                                    *)
OpenedAs(stream, h, start) ==
  IF stream.file = None THEN [start |-> start, file |-> h, good |-> TRUE]
  ELSE [stream EXCEPT !.start = start, !.good = FALSE]

Opened(stream, h) == OpenedAs(stream, h, h)

(* close(): what the stream holds goes to disk. *)
Sync(streams) ==
  [h \in Hours |-> IF \E st \in streams : st.file = h THEN Len(files[h])
                   ELSE synced[h]]

(* The lines of a message are written to a stream; a single line is flushed *)
(* by std::endl.  withHeader: a file that did not exist gets one first.     *)
Write(s, stream, withHeader, closed) ==
  LET m == Head(toCollector[s])
      h == stream.file
      text == (IF withHeader /\ h \notin created THEN <<Header(h)>> ELSE <<>>)
                \o m.content
  IN IF stream.good /\ h # None
     THEN /\ files' = [files EXCEPT ![h] = @ \o text]
          /\ created' = created \cup {h}
          /\ synced' = IF m.buffered THEN Sync(closed)
                       ELSE [Sync(closed) EXCEPT ![h] = Len(files[h] \o text)]
     ELSE UNCHANGED <<files, created>> /\ synced' = Sync(closed)

(* Every message is taken from its queue, and a vector sent back. *)
Take(s) ==
  /\ toCollector[s] # <<>>
  /\ toCollector' = [toCollector EXCEPT ![s] = Tail(@)]
  /\ returned' = IF s \in Buffers
                 THEN [returned EXCEPT ![s] = Append(@, Head(toCollector[s]).content)]
                 ELSE returned
  /\ UNCHANGED <<now, logged, crashes>>

HourOf(s) == Head(toCollector[s]).hour
Window(h) == [start |-> h, file |-> None, good |-> TRUE]

(* write_idle(): whatever comes first makes the current hour. *)
WriteFirst(s) ==
  /\ Take(s) /\ mode = "idle"
  /\ mode' = "one"
  /\ current' = Opened(current, HourOf(s))
  /\ last' = Window(HourOf(s) - 1)
  /\ Write(s, current', TRUE, {})
  /\ UNCHANGED tooOld

WriteCurrent(s) ==
  /\ Take(s) /\ mode # "idle" /\ HourOf(s) = current.start
  /\ Write(s, current, FALSE, {})
  /\ UNCHANGED <<mode, current, last, tooOld>>

WriteLast(s) ==
  /\ Take(s) /\ mode = "two" /\ HourOf(s) = last.start
  /\ Write(s, last, FALSE, {})
  /\ UNCHANGED <<mode, current, last, tooOld>>

(* A line of the last hour opens its file.  write_one_log() does not use    *)
(* open_log_file() here, and writes no header.                              *)
OpenLastWith(s, withHeader) ==
  /\ Take(s) /\ mode = "one" /\ HourOf(s) = last.start
  /\ mode' = "two"
  /\ last' = Opened(last, HourOf(s))
  /\ Write(s, last', withHeader, {})
  /\ UNCHANGED <<current, tooOld>>

OpenLast_NoHeader(s) == OpenLastWith(s, FALSE)
OpenLast(s) == toCollector[s] # <<>> /\ OpenLastWith(s, Head(toCollector[s]).buffered)

(* The next hour begins: the current file becomes the last one, which is    *)
(* closed if it was open.                                                   *)
Rotate(s) ==
  /\ Take(s) /\ mode # "idle" /\ HourOf(s) = current.start + 1
  /\ mode' = "two"
  /\ last' = current
  /\ current' = Opened(Closed, HourOf(s))
  /\ Write(s, current', TRUE, {last})
  /\ UNCHANGED tooOld

(* An hour or more was skipped: both files are closed. *)
Skip(s, closed) ==
  /\ Take(s) /\ mode # "idle" /\ HourOf(s) > current.start + 1
  /\ mode' = "one"
  /\ current' = Opened(IF current \in closed THEN Closed ELSE current, HourOf(s))
  /\ last' = Window(HourOf(s) - 1)
  /\ Write(s, current', TRUE, closed)
  /\ UNCHANGED tooOld

SkipHours(s) == Skip(s, {current, last})

(* A line older than the last hour is refused. *)
RefuseBefore(s, start) ==
  /\ Take(s) /\ mode # "idle" /\ HourOf(s) < start
  /\ LET lines == Head(toCollector[s]).content
     IN tooOld' = tooOld \cup {lines[i] : i \in DOMAIN lines}
  /\ UNCHANGED <<mode, current, last, files, created, synced>>

Refuse_LastHourToo(s) == RefuseBefore(s, current.start)
Refuse(s) == RefuseBefore(s, last.start)

Collect(s) ==
  \/ WriteFirst(s) \/ WriteCurrent(s) \/ WriteLast(s) \/ OpenLast(s)
  \/ Rotate(s) \/ SkipHours(s) \/ Refuse(s)
=============================================================================
