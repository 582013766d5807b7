------------------------------ MODULE LogReader ------------------------------
(***************************************************************************)
(* The live reader of the evaluation (evaluation/src/cse/logs/reader.py).  *)
(* A LiveReader follows the hourly log files of one protocol while the     *)
(* collector writes them: it opens the file of the next hour once it       *)
(* exists, reads every open file to its end again and again, gives up an   *)
(* hour whose file does not appear and closes a file that is old and has   *)
(* nothing new.  The lines of file n get batch id n.                       *)
(*                                                                         *)
(* A line is two pieces of text, so that it can be met half written.  Its  *)
(* kind tells what the parser makes of it: an "event", text that is no     *)
(* JSON ("junk"), a line that lacks a field ("bad"), or one with a field   *)
(* that does not convert ("odd").  The clock ticks a few times an hour;    *)
(* its thresholds are ordered as in the source:                            *)
(* Hour < SkipTime (1h 5min) < Timeout (1h 10min).                         *)
(*                                                                         *)
(* Files of the formats "csv" and "json" grow while they are read; those   *)
(* of the store ("swift") and compressed ones ("gzip", JSON in bytes) are  *)
(* there as a whole once their hour is over.                               *)
(***************************************************************************)
EXTENDS Integers, Sequences, SequencesExt, FiniteSets

CONSTANTS
  Formats,    \* the formats a run may use, of AllFormats
  Hours,      \* files 0 .. Hours - 1 may be written
  Kinds,      \* kinds of the lines, of {"event", "bad", "odd", "junk"}
  MaxLines,   \* lines of one file
  MaxEntries, \* lines of all files
  MaxFaults,  \* lines of all growing files that are neither event nor header
  Hour, SkipTime, Timeout,
  MaxBusy,    \* ticks between two passes of the reader over its files
  MaxTime     \* bound of the clock

AllFormats == {"csv", "json", "gzip", "swift"}

ASSUME ReaderAssumption ==
  /\ Formats \subseteq AllFormats
  /\ Kinds \subseteq {"event", "bad", "odd", "junk"}
  /\ {Hours, MaxLines, MaxEntries, Hour, MaxBusy} \subseteq Nat \ {0}
  /\ {MaxFaults, SkipTime, Timeout, MaxTime} \subseteq Nat
  /\ Hour < SkipTime /\ SkipTime < Timeout /\ Timeout < 2 * Hour

VARIABLES
  now,
  format,     \* what the file factory makes, fixed at the start
  lines,      \* per hour: the kinds of the lines of its file
  torn,       \* per hour: the last line is half written
  timely,     \* history, per hour: lines that were complete before the
              \* reader may give up the hour
  pc,         \* "idle" (the caller's turn, or a pause) | "scan" | "open"
              \* | "reap" | "crashed"
  began,      \* time at which the latest pass began
  upcoming,   \* upcoming_file: its hour, or None
  nextHour,   \* next_hour, and batch_id, which counts with it
  files,      \* files: the open ones in the order of the dictionary
  scanned,    \* files consumed in this pass
  items,      \* items: <<hour, line>> pairs
  ids,        \* ids_to_delete
  delivered   \* history: what the calls of next_batch() returned

written == <<format, lines, torn, timely>>
readerVars == <<pc, began, upcoming, nextHour, files, scanned, items, ids,
                delivered>>
vars == <<now, written, readerVars>>

None == -1
HourIds == 0 .. Hours - 1

-----------------------------------------------------------------------------
(* The files, as the collector or the upload leaves them. *)

Exists(h) == h \in HourIds /\ lines[h] # <<>>

Pieces(h) == 2 * Len(lines[h]) - (IF torn[h] THEN 1 ELSE 0)

LinesOf(kinds) ==
  SumFunction([h \in HourIds |->
     Cardinality({l \in DOMAIN lines[h] : lines[h][l] \in kinds})])

AllLines == LinesOf(Kinds \cup {"header"})

Faults == LinesOf(Kinds \ {"event"})

Uploaded == format \in {"swift", "gzip"}

(* The collector keeps the files of two hours open: the one of an hour is  *)
(* added to, however late, until the one of the hour after next is there.  *)
(* What is uploaded is not added to.                                       *)
Writable(h) ==
  IF Uploaded THEN lines[h] = <<>> /\ now >= (h + 1) * Hour
  ELSE h * Hour <= now /\ \A g \in HourIds : g >= h + 2 => lines[g] = <<>>

(* n lines of the file are complete; those that are within five minutes    *)
(* after the hour are in time.                                             *)
Complete(h, n) ==
  timely' = [timely EXCEPT ![h] = IF now <= h * Hour + SkipTime THEN n ELSE @]

(* A csv file begins with a header. *)
WriteLine(h, kind, half) ==
  /\ ~Uploaded /\ Writable(h)
  /\ ~torn[h] /\ Len(lines[h]) < MaxLines
  /\ (kind = "header") <=> (format = "csv" /\ lines[h] = <<>>)
  /\ lines' = [lines EXCEPT ![h] = Append(@, kind)]
  /\ AllLines' <= MaxEntries /\ Faults' <= MaxFaults
  /\ torn' = [torn EXCEPT ![h] = half]
  /\ Complete(h, IF half THEN Len(lines[h]) ELSE Len(lines[h]) + 1)
  /\ UNCHANGED <<now, format, readerVars>>

FinishLine(h) ==
  /\ Writable(h) /\ torn[h]
  /\ torn' = [torn EXCEPT ![h] = FALSE]
  /\ Complete(h, Len(lines[h]))
  /\ UNCHANGED <<now, format, lines, readerVars>>

Upload(h) ==
  /\ Uploaded /\ Writable(h)
  /\ \E content \in UNION {[1 .. n -> Kinds] : n \in 1 .. MaxLines} :
        /\ lines' = [lines EXCEPT ![h] = content] /\ AllLines' <= MaxEntries
        /\ Complete(h, Len(content))
  /\ UNCHANGED <<now, format, torn, readerVars>>

Write ==
  \E h \in HourIds :
    \/ \E kind \in Kinds \cup {"header"}, half \in BOOLEAN :
          WriteLine(h, kind, half)
    \/ FinishLine(h)
    \/ Upload(h)

-----------------------------------------------------------------------------
(* Reading one file.  A text is the sequence of the pieces it is made of:  *)
(* line l of a file is the pieces 2l - 1 and 2l, the second one ends it.   *)

EndsLine(text) == Last(text) % 2 = 0

LineOf(text) == Last(text) \div 2

IsLine(text) == EndsLine(text) /\ text = <<Last(text) - 1, Last(text)>>

Parses(h, text) == IsLine(text) /\ lines[h][LineOf(text)] # "junk"

(* A line that lacks a field makes no item: the KeyError is caught. *)
ItemOf(h, text) ==
  IF lines[h][LineOf(text)] = "event" THEN <<<<h, LineOf(text)>>>> ELSE <<>>

(* A file at its beginning: last_line or the csv buffer is empty, and the  *)
(* header is not known; batch_id and timeout follow from the hour.         *)
NewFile(h) ==
  [hour |-> h, pos |-> 0, text |-> <<>>, header |-> FALSE, items |-> <<>>]

(* What readline() returns at a position before the end of the file. *)
Chunk(pos, end) == IF pos % 2 = 0 /\ pos + 1 < end THEN <<pos + 1, pos + 2>> ELSE <<pos + 1>>

(* What readline() returns next of a file. *)
NextChunk(file) == Chunk(file.pos, Pieces(file.hour))

(* No except clause is for a field that does not convert (ValueError), the *)
(* one of the store is not for a field that is missing (KeyError) either,  *)
(* and of bytes handle_json_error() asks whether they end in a text        *)
(* (TypeError) once it has kept some before: the reader ends.              *)
Raises(file) ==
  LET chunk == NextChunk(file)
      Is(kind, text) == IsLine(text) /\ lines[file.hour][LineOf(text)] = kind
  IN  \/ Is("odd", chunk) \/ Is("odd", file.text \o chunk)
      \/ format = "swift" /\ Is("bad", chunk)
      \/ format = "gzip" /\ file.text # <<>> /\ ~Parses(file.hour, chunk)

(* JSONFile: text that does not parse is kept, and parsed again with all   *)
(* that does not parse after it once it ends in a newline.                 *)
JsonLine(h, file, chunk) ==
  IF Parses(h, chunk)
  THEN [file EXCEPT !.items = @ \o ItemOf(h, chunk)]
  ELSE IF file.text = <<>>
  THEN [file EXCEPT !.text = chunk]
  ELSE LET text == file.text \o chunk
       IN  IF ~EndsLine(text)
           THEN [file EXCEPT !.text = text]
           ELSE [file EXCEPT
                   !.text = <<>>,
                   !.items = IF Parses(h, text) THEN @ \o ItemOf(h, text)
                             ELSE @]

CsvLine_TakesHalf(h, file, chunk) ==
  IF file.header
  THEN [file EXCEPT !.items = @ \o <<<<h, (Last(chunk) + 1) \div 2>>>>]
  ELSE [file EXCEPT !.header = TRUE]

(* CSVFile: the buffer grows to a whole line; the first one is the header. *)
CsvLine(h, file, chunk) ==
  LET text == file.text \o chunk
  IN  IF ~EndsLine(text)
      THEN [file EXCEPT !.text = text]
      ELSE IF file.header
      THEN [file EXCEPT !.text = <<>>, !.items = @ \o ItemOf(h, text)]
      ELSE [file EXCEPT !.text = <<>>, !.header = TRUE]

(* SwiftLogFile: a line that is no JSON is dropped. *)
SwiftLine(h, file, chunk) ==
  IF Parses(h, chunk)
  THEN [file EXCEPT !.items = @ \o ItemOf(h, chunk)]
  ELSE file

(* A file after one readline(). *)
ReadFrom(file) ==
  LET h == file.hour
      chunk == NextChunk(file)
      read == [file EXCEPT !.pos = Last(chunk)]
  IN  CASE format \in {"json", "gzip"} -> JsonLine(h, read, chunk)
        [] format = "csv"              -> CsvLine(h, read, chunk)
        [] format = "swift"            -> SwiftLine(h, read, chunk)

(* A csv file is not read on from a half written line. *)
StopsAtHalf(file) ==
  format = "csv" /\ ~EndsLine(NextChunk(file))

(* expect_more(), after a consume() without items: a file of the disk may  *)
(* grow until its timeout, an object of the store was read completely.     *)
ExpectMore(file) ==
  format # "swift" /\ now <= file.hour * Hour + Timeout

-----------------------------------------------------------------------------
(* LiveReader. *)

(* The constructor prepares the first file; its open files are not known. *)
Init ==
  /\ now = 0 /\ format \in Formats
  /\ lines = [h \in HourIds |-> <<>>] /\ torn = [h \in HourIds |-> FALSE]
  /\ timely = [h \in HourIds |-> 0]
  /\ pc = "idle" /\ began = 0
  /\ upcoming = 0 /\ nextHour = 1
  /\ files = <<>> /\ scanned = 0 /\ items = <<>> /\ ids = {}
  /\ delivered = <<>>

(* A pass begins when the caller asks for a batch, when the pause of five  *)
(* seconds is over, or at once if the last pass opened a file.             *)
BeginPass ==
  /\ pc = "idle"
  /\ pc' = "scan" /\ began' = now
  /\ scanned' = 0
  /\ UNCHANGED <<now, written, upcoming, nextHour, files, items, ids,
                 delivered>>

(* consume() reads line by line; others may write between two of them. *)
ConsumeLine ==
  /\ pc = "scan" /\ scanned < Len(files)
  /\ LET file == files[scanned + 1]
     IN  /\ file.pos < Pieces(file.hour) /\ ~StopsAtHalf(file)
         /\ ~Raises(file)
         /\ files' = [files EXCEPT ![scanned + 1] = ReadFrom(file)]
  /\ UNCHANGED <<now, written, pc, began, upcoming, nextHour, scanned, items,
                 ids, delivered>>

(* The exception leaves next_batch(), and nothing above it catches it: all *)
(* that was read and not yet returned is lost with the reader.             *)
ConsumeRaises ==
  /\ pc = "scan" /\ scanned < Len(files)
  /\ LET file == files[scanned + 1]
     IN  file.pos < Pieces(file.hour) /\ Raises(file)
  /\ pc' = "crashed"
  /\ UNCHANGED <<now, written, began, upcoming, nextHour, files, scanned,
                 items, ids, delivered>>

(* The last readline(): the end of the file, or a half written line. *)
EndConsume ==
  /\ pc = "scan" /\ scanned < Len(files)
  /\ LET file == files[scanned + 1]
         more == file.pos < Pieces(file.hour)
         last == IF more THEN ReadFrom(file) ELSE file
     IN  /\ more => StopsAtHalf(file)
         /\ files' = [files EXCEPT ![scanned + 1] = [last EXCEPT !.items = <<>>]]
         /\ items' = items \o last.items
         /\ ids' = IF last.items = <<>> /\ ~ExpectMore(last)
                   THEN ids \cup {last.hour} ELSE ids
  /\ scanned' = scanned + 1
  /\ UNCHANGED <<now, written, pc, began, upcoming, nextHour, delivered>>

EndScan ==
  /\ pc = "scan" /\ scanned = Len(files)
  /\ pc' = IF items = <<>> THEN "open" ELSE "reap"
  /\ UNCHANGED <<now, written, began, upcoming, nextHour, files, scanned,
                 items, ids, delivered>>

(* prepare_next_file(), when there is no upcoming file. *)
Prepared == IF upcoming = None THEN nextHour ELSE upcoming
NextAfter == IF upcoming = None THEN nextHour + 1 ELSE nextHour

OpenUpcoming ==
  /\ pc = "open" /\ Exists(Prepared)
  /\ files' = Append(files, NewFile(Prepared))
  /\ upcoming' = None /\ nextHour' = NextAfter
  /\ pc' = "reap"
  /\ UNCHANGED <<now, written, began, scanned, items, ids, delivered>>

(* An hour is given up five minutes after its end. *)
SkipDue_Never == FALSE
SkipDue == now > Prepared * Hour + SkipTime

AwaitUpcoming ==
  /\ pc = "open" /\ ~Exists(Prepared)
  /\ IF SkipDue
     THEN upcoming' = NextAfter /\ nextHour' = NextAfter + 1
     ELSE upcoming' = Prepared /\ nextHour' = NextAfter
  /\ pc' = "reap"
  /\ UNCHANGED <<now, written, began, files, scanned, items, ids, delivered>>

(* The assertion in the loop expects the first deletion to be the only one. *)
Fails == \E g, h \in ids : g # h

Reap ==
  /\ pc = "reap"
  /\ IF Fails
     THEN /\ pc' = "crashed"
          /\ UNCHANGED <<files, items, ids, delivered>>
     ELSE /\ \/ ids = {} /\ UNCHANGED files
             \/ \E i \in DOMAIN files : files[i].hour \in ids /\ files' = RemoveAt(files, i)
          /\ delivered' = delivered \o items
          /\ pc' = "idle" /\ items' = <<>> /\ ids' = {}
  /\ UNCHANGED <<now, written, began, upcoming, nextHour, scanned>>

Reader == BeginPass \/ ConsumeLine \/ ConsumeRaises \/ EndConsume \/ EndScan
          \/ OpenUpcoming \/ AwaitUpcoming \/ Reap

Tick ==
  /\ now < MaxTime /\ now < began + MaxBusy
  /\ now' = now + 1
  /\ UNCHANGED <<written, readerVars>>

Next == Write \/ Reader \/ Tick

Spec == Init /\ [][Next]_vars

(* The loop of the reader and the clock go on. *)
FairSpec == Spec /\ WF_vars(Reader) /\ WF_vars(Tick)

-----------------------------------------------------------------------------
(* Properties. *)

FileType == [hour : HourIds, pos : 0 .. 2 * MaxLines,
             text : Seq(1 .. 2 * MaxLines), header : BOOLEAN,
             items : Seq(HourIds \X (1 .. MaxLines))]

(* The state has the shape the code gives it; the text that is kept was    *)
(* read, and no file is open twice (reader.py: LiveReader).                *)
TypeOK ==
  /\ now \in 0 .. MaxTime /\ began \in 0 .. now
  /\ pc \in {"idle", "scan", "open", "reap", "crashed"}
  /\ upcoming \in Nat \cup {None} /\ nextHour \in Nat
  /\ upcoming # None => nextHour = upcoming + 1
  /\ \A i \in DOMAIN files :
        /\ files[i] \in FileType
        /\ files[i].hour < nextHour /\ files[i].hour # upcoming
        /\ files[i].text # <<>> => Last(files[i].text) <= files[i].pos
        /\ i > 1 => files[i - 1].hour < files[i].hour
  /\ ids \subseteq {files[i].hour : i \in DOMAIN files}
  /\ \A h \in HourIds : 2 * timely[h] <= Pieces(h)

(* The events a reader owes to its caller: the lines that were complete    *)
(* five minutes after their hour, but in a json file junk that was kept    *)
(* may spoil the lines behind it.                                          *)
Owed(h) ==
  {l \in DOMAIN lines[h] :
     /\ lines[h][l] = "event" /\ l <= timely[h]
     /\ format = "json" => \A k \in 1 .. l - 1 : lines[h][k] # "junk"}

Returned(h) == \A l \in Owed(h) : <<h, l>> \in Range(delivered)

(* The reader has turned its back on an hour: it has closed its file, or   *)
(* skipped it because the file did not appear in time.                     *)
Left(h) ==
  /\ h < nextHour /\ h # upcoming
  /\ \A i \in DOMAIN files : files[i].hour # h

(* Of an hour that was left all was returned that was written in time: the *)
(* reader neither closes a file that may still grow in time nor skips one  *)
(* that may still appear (SpokiLogFile.expect_more, LiveReader.next_batch).*)
LeftHoursRead == \A h \in HourIds : pc = "idle" /\ Left(h) => Returned(h)

(* next_batch() returns events only, each one once and those of a file in  *)
(* the order of its lines, however the writes fall between the reads: a    *)
(* line that is met half written is neither returned twice nor cut         *)
(* (JSONFile.consume, CSVFile.consume); and it leaves no hour before what  *)
(* was written of it in time was returned, though files may be written     *)
(* later and a line may end the reader at any time.                        *)
EachLineOnceInOrder ==
  /\ \A i \in DOMAIN delivered :
        LET h == delivered[i][1]
            l == delivered[i][2]
        IN  lines[h][l] = "event" /\ (l = Len(lines[h]) => ~torn[h])
  /\ \A i, j \in DOMAIN delivered :
        i < j /\ delivered[i][1] = delivered[j][1]
          => delivered[i][2] < delivered[j][2]
  /\ LeftHoursRead

(* Not so: every complete event of an hour that was left was returned.     *)
(* The collector adds to the file of an hour as long as that of the hour   *)
(* after next is not there, the reader waits for ten minutes               *)
(* (collector.cpp:443, reader.py:542).                                     *)
LateLinesRead ==
  \A h \in HourIds : pc = "idle" /\ Left(h) =>
     \A l \in DOMAIN lines[h] :
        /\ lines[h][l] = "event" /\ 2 * l <= Pieces(h)
        /\ format = "json" => \A k \in 1 .. l - 1 : lines[h][k] # "junk"
        => <<h, l>> \in Range(delivered)

(* Not so: no line ends the reader (reader.py:341, 473, 731).              *)
NoLineRaises ==
  pc = "scan" /\ scanned < Len(files)
    => LET file == files[scanned + 1]
       IN  file.pos < Pieces(file.hour) => ~Raises(file)

(* Not so: next_batch() deletes its files without running into its own     *)
(* assertion "failed to delete file" (reader.py:824).                      *)
AssertionHolds == ~(pc = "crashed" /\ Fails)

(* The reader has ended for one of the two reasons the code has: a line    *)
(* that raises, or the assertion after a deletion.                         *)
Ended ==
  /\ pc = "crashed"
  /\ Fails \/ (scanned < Len(files) /\ Raises(files[scanned + 1]))

(* However the files grow, the reader catches up, unless one of two causes *)
(* ends it: again and again a time comes when every event it owes has been *)
(* returned (LiveReader.next_batch polls its files and opens or skips the  *)
(* next one).                                                              *)
CatchesUp == []<>(Ended \/ \A h \in HourIds : Returned(h))
=============================================================================
