----------------------------- MODULE LogPipeline -----------------------------
(***************************************************************************)
(* Buffers and the collector they feed, as tools/src/spoki.cpp wires them, *)
(* and what happens to the log files when the process is killed (its only  *)
(* end in operation) and started again.                                    *)
(***************************************************************************)
EXTENDS LogBuffer, Collector

vars == <<logChannels, bufferVars, collectorVars>>

Init == LogChannelInit /\ BufferInit /\ CollectorInit

Tick ==
  /\ now < LastHour
  /\ now' = now + 1
  /\ UNCHANGED <<logged, toCollector, returned, crashes, bufferVars, collectorVars>>

BufferStep(b) == (Log(b) \/ TakeBack(b)) /\ UNCHANGED collectorVars

(* A line that goes to the collector without a buffer. *)
LogDirectly(d) ==
  /\ logged[d] < MaxLines
  /\ logged' = [logged EXCEPT ![d] = @ + 1]
  /\ \E h \in Stamps :
       toCollector' = [toCollector EXCEPT ![d] =
         Append(@, [hour |-> h, content |-> <<NextLine(d, h)>>, buffered |-> FALSE])]
  /\ UNCHANGED <<now, returned, crashes, bufferVars, collectorVars>>

CollectorStep(s) == Collect(s) /\ UNCHANGED bufferVars

(* The process dies.  Files keep what was on disk, cut at some line, and    *)
(* exist even if they are empty; everything else starts anew.               *)
Crash ==
  /\ crashes < MaxCrashes
  /\ crashes' = crashes + 1
  /\ \E left \in [Hours -> 0..(Cardinality(Senders) * MaxLines + 1)] :
       /\ \A h \in Hours : left[h] \in synced[h]..Len(files[h])
       /\ files' = [h \in Hours |-> SubSeq(files[h], 1, left[h])]
       /\ synced' = left
  /\ toCollector' = [s \in Senders |-> <<>>]
  /\ returned' = [b \in Buffers |-> <<>>]
  /\ buf' = [b \in Buffers |-> <<>>] /\ stamp' = [b \in Buffers |-> 0]
  /\ next' = [b \in Buffers |-> <<>>] /\ backup' = [b \in Buffers |-> FALSE]
  /\ mode' = "idle" /\ current' = Closed /\ last' = Closed
  /\ UNCHANGED <<now, logged, created, tooOld>>

Next ==
  \/ Tick
  \/ \E b \in Buffers : BufferStep(b)
  \/ \E d \in DirectSenders : LogDirectly(d)
  \/ \E s \in Senders : CollectorStep(s)
  \/ Crash

Spec == Init /\ [][Next]_vars

-----------------------------------------------------------------------------
(* Properties. *)

MessageType == [hour : Hours, content : Seq(Lines), buffered : BOOLEAN]
StreamType ==
  [start : Hours \cup {-1, None}, file : Hours \cup {None}, good : BOOLEAN]

TypeOK ==
  /\ now \in Hours /\ crashes \in 0..MaxCrashes
  /\ logged \in [Senders -> 0..MaxLines]
  /\ toCollector \in [Senders -> Seq(MessageType)]
  /\ returned \in [Buffers -> Seq(Seq(Lines))]
  /\ buf \in [Buffers -> Seq(Lines)] /\ next \in [Buffers -> Seq(Lines)]
  /\ stamp \in [Buffers -> Hours] /\ backup \in [Buffers -> BOOLEAN]
  /\ mode \in {"idle", "one", "two"}
  /\ current \in StreamType /\ last \in StreamType
  /\ files \in [Hours -> Seq(Lines \cup {Header(h) : h \in Hours})]
  /\ created \subseteq Hours /\ synced \in [Hours -> Nat]
  /\ tooOld \subseteq Lines

(* The streams are what the behaviour of the actor says: the current one is *)
(* open on the file of its hour and good, the last one is the hour before,  *)
(* and is open exactly in the two-file behaviour.                           *)
StreamsFitMode ==
  /\ current.good /\ last.good
  /\ mode # "idle" => /\ current.file = current.start
                      /\ last.start = current.start - 1
                      /\ last.file = IF mode = "two" THEN last.start ELSE None
  /\ mode = "idle" => current.file = None /\ last.file = None

(* Every line is in the file of its own hour. *)
LineInItsFile ==
  \A h \in Hours : \A i \in DOMAIN files[h] : files[h][i].hour = h

(* The lines of a source that are still on their way, oldest first: the     *)
(* messages the collector has not taken, and then the buffer.               *)
Waiting ==
  [s \in Senders |->
     [k \in 1..(Len(toCollector[s]) + 1) |->
        IF k <= Len(toCollector[s]) THEN toCollector[s][k].content
        ELSE IF s \in Buffers THEN buf[s] ELSE <<>>]]

(* The places where the n-th line of a source is.                           *)
At(lines, s, n) == {i \in DOMAIN lines : lines[i].src = s /\ lines[i].n = n}

Places(s, n) ==
  (UNION {{<<"file", h, i>> : i \in At(files[h], s, n)} : h \in Hours})
    \cup (UNION {{<<"waiting", k, i>> : i \in At(Waiting[s][k], s, n)} :
                    k \in DOMAIN Waiting[s]})
    \cup {<<"refused", e.hour, 0>> : e \in {l \in tooOld : l.src = s /\ l.n = n}}

(* The lines of a source are in a file in the order they were logged; a     *)
(* file has at most one header.                                             *)
SourceOrder ==
  \A h \in Hours : \A i, j \in DOMAIN files[h] :
    i < j /\ files[h][i].src = files[h][j].src => files[h][i].n < files[h][j].n

(* No line gets lost between a source and its file, unless the process died *)
(* or the collector refused it, none is there twice, and those of a source  *)
(* are in the order they were logged.                                       *)
EveryLineOnce ==
  /\ SourceOrder
  /\ \A s \in Senders : \A n \in 1..logged[s] :
       /\ \A p, q \in Places(s, n) : p = q
       /\ crashes = 0 => Places(s, n) # {}

HeaderFirst(h) ==
  /\ files[h] # <<>> => Head(files[h]) = Header(h)
  /\ \A i \in DOMAIN files[h] : files[h][i] = Header(h) => i = 1

(* collector.hpp:118: each log starts with its header, and has it once.     *)
(* Not so after a crash, or with direct senders.                            *)
LogsStartWithHeader == \A h \in Hours : HeaderFirst(h)

(* That is so for buffers, as long as the process lives. *)
BufferedLogsHaveHeader ==
  crashes = 0 /\ (\A d \in DirectSenders : logged[d] = 0) => LogsStartWithHeader

(* Lines are refused only when the collector has seen an hour that is two   *)
(* hours later, and the current hour never goes back.                       *)
RefusedOnlyWhenOld ==
  [][/\ \A e \in tooOld' \ tooOld : e.hour + 1 < current.start
     /\ current'.start >= current.start \/ crashes' # crashes]_vars
=============================================================================
