--------------------------- MODULE LogReaderProofs ---------------------------
(***************************************************************************)
(* Theorems about the live reader of the logs, for any number of hours,    *)
(* lines and ticks of an hour: what next_batch() returns is each complete  *)
(* event once and in order, however the lines are written between the      *)
(* reads and whichever line ends the reader, and no hour is left before    *)
(* what was written of it in time was returned.                            *)
(***************************************************************************)
EXTENDS LogReader, SequenceTheorems, TLAPS

AllKinds == Kinds \cup {"header"}
Entry == HourIds \X (Nat \ {0})
FileTypes == [hour : HourIds, pos : Nat, text : Seq(Nat), header : BOOLEAN, items : Seq(Entry)]

-----------------------------------------------------------------------------
(* The inductive invariant. *)

(* No line of the hour will be in time any more. *)
Sealed(h) == now > h * Hour + SkipTime \/ (Uploaded /\ lines[h] # <<>>)

(* The files, as others write them. *)
WriterInv ==
  /\ now \in Nat /\ format \in AllFormats
  /\ lines \in [HourIds -> Seq(AllKinds)] /\ torn \in [HourIds -> BOOLEAN]
  /\ timely \in [HourIds -> Nat]
  /\ \A h \in HourIds :
       /\ torn[h] => lines[h] # <<>> /\ ~Uploaded
       /\ format = "csv" /\ lines[h] # <<>> => lines[h][1] = "header"
       /\ 2 * timely[h] <= Pieces(h)
       /\ now <= h * Hour + SkipTime => Pieces(h) <= 2 * timely[h] + 1

(* What is kept of a file after all of its lines up to there parsed: the   *)
(* half line.                                                              *)
Half(pos) == IF pos % 2 = 1 THEN <<pos>> ELSE <<>>

Clean(h, pos) == \A k \in DOMAIN lines[h] : 2 * k <= pos => lines[h][k] # "junk"

FileInv(file) ==
  LET h == file.hour  pos == file.pos
  IN  /\ file \in FileTypes /\ lines[h] # <<>> /\ pos <= Pieces(h)
      /\ format = "csv" => file.text = Half(pos) /\ (file.header <=> pos > 1)
      /\ format = "json" /\ Clean(h, pos) => file.text = Half(pos)
      /\ Uploaded => pos % 2 = 0

(* The open files, and where in a pass the reader is: one that has ended   *)
(* is where the exception met it.                                          *)
ShapeInv ==
  /\ pc \in {"idle", "scan", "open", "reap", "crashed"}
  /\ nextHour \in Nat /\ upcoming \in Nat \cup {None}
  /\ upcoming # None => nextHour = upcoming + 1
  /\ scanned \in Nat
  /\ items \in Seq(Entry) /\ delivered \in Seq(Entry)
  /\ pc \in {"idle", "open"} => items = <<>>
  /\ pc = "idle" => ids = {}

Opened(h) == h < nextHour /\ h # upcoming

Scanning == pc \in {"scan", "crashed"}

FilesInv ==
  /\ files \in Seq(FileTypes)
  /\ \A i \in DOMAIN files :
       /\ FileInv(files[i]) /\ Opened(files[i].hour)
       /\ files[i].items # <<>> => Scanning /\ i = scanned + 1
  /\ \A i, j \in DOMAIN files : files[i].hour = files[j].hour => i = j
  /\ \A h \in ids : \E i \in DOMAIN files :
       files[i].hour = h /\ Sealed(h) /\ \A l \in Owed(h) : 2 * l <= files[i].pos

(* What the reader has found: what it has returned and is about to return. *)
Current == IF Scanning /\ scanned < Len(files) THEN files[scanned + 1].items ELSE <<>>

Found == delivered \o items \o Current

IsFound(h, l) == \E k \in DOMAIN Found : Found[k] = <<h, l>>

FoundInv ==
  /\ \A k \in DOMAIN Found :
       LET h == Found[k][1]  l == Found[k][2]
       IN  Opened(h) /\ l \in DOMAIN lines[h] /\ lines[h][l] = "event" /\ 2 * l <= Pieces(h)
  /\ \A j, k \in DOMAIN Found :
       j < k /\ Found[j][1] = Found[k][1] => Found[j][2] < Found[k][2]

(* Of a file that is open all up to its position was found and nothing     *)
(* after it, of an hour that was left all.                                 *)
ReadInv ==
  /\ \A i \in DOMAIN files :
       LET h == files[i].hour  pos == files[i].pos
       IN  /\ \A k \in DOMAIN Found : Found[k][1] = h => 2 * Found[k][2] <= pos
           /\ \A l \in Owed(h) : 2 * l <= pos => IsFound(h, l)
  /\ \A h \in HourIds :
       Opened(h) /\ (\A i \in DOMAIN files : files[i].hour # h) =>
         Sealed(h) /\ \A l \in Owed(h) : IsFound(h, l)

LogReaderInv == WriterInv /\ ShapeInv /\ FilesInv /\ FoundInv /\ ReadInv

-----------------------------------------------------------------------------
(* Reading a line. *)

LEMMA ReaderConstants ==
  /\ Hours \in Nat /\ Hour \in Nat /\ SkipTime \in Nat /\ Timeout \in Nat
  /\ SkipTime < Timeout /\ Hour > 0
  /\ Formats \subseteq AllFormats
  /\ HourIds \subseteq Nat
  BY ReaderAssumption DEF HourIds

(* A position is at the end of a line or amid one. *)
LEMMA Parity ==
  ASSUME NEW pos \in Nat
  PROVE  \/ \E k \in Nat : pos = 2 * k /\ pos % 2 = 0 /\ pos \div 2 = k
         \/ \E k \in Nat : pos = 2 * k + 1 /\ pos % 2 = 1
  OBVIOUS

LEMMA EvenOdd ==
  ASSUME NEW k \in Nat
  PROVE  /\ (2 * k) % 2 = 0 /\ (2 * k) \div 2 = k
         /\ (2 * k + 1) % 2 = 1
  OBVIOUS

LEMMA ChunkFacts ==
  ASSUME NEW pos \in Nat, NEW end \in Nat, pos < end
  PROVE  LET c == Chunk(pos, end)
         IN  \/ \E k \in Nat : /\ pos = 2 * k /\ 2 * k + 2 <= end /\ c = <<2 * k + 1, 2 * k + 2>>
                               /\ Last(c) = 2 * k + 2
             \/ \E k \in Nat : pos = 2 * k /\ end = 2 * k + 1 /\ c = <<2 * k + 1>> /\ Last(c) = 2 * k + 1
             \/ \E k \in Nat : pos = 2 * k + 1 /\ c = <<2 * k + 2>> /\ Last(c) = 2 * k + 2
<1> DEFINE c == Chunk(pos, end)
<1>1. ASSUME NEW k \in Nat, pos = 2 * k, pos % 2 = 0
      PROVE  \/ 2 * k + 2 <= end /\ c = <<2 * k + 1, 2 * k + 2>> /\ Last(c) = 2 * k + 2
             \/ end = 2 * k + 1 /\ c = <<2 * k + 1>> /\ Last(c) = 2 * k + 1
  <2>1. CASE pos + 1 < end
    BY <1>1, <2>1 DEF Chunk, Last
  <2>2. CASE ~(pos + 1 < end)
    BY <1>1, <2>2 DEF Chunk, Last
  <2> QED
    BY <2>1, <2>2
<1>2. ASSUME NEW k \in Nat, pos = 2 * k + 1, pos % 2 = 1
      PROVE  c = <<2 * k + 2>> /\ Last(c) = 2 * k + 2
  BY <1>2 DEF Chunk, Last
<1> HIDE DEF c
<1> QED
  BY <1>1, <1>2, Parity DEF c

LEMMA PiecesFacts ==
  ASSUME WriterInv, NEW h \in HourIds
  PROVE  /\ lines[h] \in Seq(AllKinds) /\ Len(lines[h]) \in Nat
         /\ DOMAIN lines[h] = 1 .. Len(lines[h])
         /\ Pieces(h) \in Nat
         /\ Pieces(h) = 2 * Len(lines[h]) - (IF torn[h] THEN 1 ELSE 0)
         /\ \A l \in DOMAIN lines[h] :
              2 * l <= Pieces(h) <=> (l = Len(lines[h]) => ~torn[h])
         /\ timely[h] \in Nat /\ 2 * timely[h] <= Pieces(h)
<1>1. lines[h] \in Seq(AllKinds) /\ torn[h] \in BOOLEAN
      /\ (torn[h] => lines[h] # <<>>)
  BY DEF WriterInv
<1>2. Len(lines[h]) \in Nat /\ DOMAIN lines[h] = 1 .. Len(lines[h])
      /\ (lines[h] # <<>> => Len(lines[h]) > 0)
  BY <1>1, LenProperties, EmptySeq
<1> DEFINE n == Len(lines[h])
<1>3. Pieces(h) = 2 * n - (IF torn[h] THEN 1 ELSE 0)
  BY DEF Pieces
<1> HIDE DEF n
<1>4. n \in Nat /\ (torn[h] => n > 0)
  BY <1>1, <1>2 DEF n
<1>5. Pieces(h) \in Nat
  BY <1>3, <1>4
<1>6. \A l \in 1 .. n : 2 * l <= Pieces(h) <=> (l = n => ~torn[h])
  BY <1>3, <1>4
<1>7. timely[h] \in Nat /\ 2 * timely[h] <= Pieces(h)
  BY DEF WriterInv
<1> QED
  BY <1>1, <1>2, <1>3, <1>5, <1>6, <1>7 DEF n

(* The event that the last text of a file is, if any, is found. *)
WithItem(file, l) ==
  IF lines[file.hour][l] = "event" THEN Append(file.items, <<file.hour, l>>) ELSE file.items

LEMMA ItemFacts ==
  ASSUME WriterInv, NEW file \in FileTypes, NEW text, NEW l \in Nat, Last(text) = 2 * l
  PROVE  /\ EndsLine(text) /\ LineOf(text) = l
         /\ file.items \o ItemOf(file.hour, text) = WithItem(file, l)
<1>1. EndsLine(text) /\ LineOf(text) = l
  BY EvenOdd DEF EndsLine, LineOf
<1>2. file.items \in Seq(Entry)
  BY DEF FileTypes
<1>3. CASE lines[file.hour][l] = "event"
  <2>1. ItemOf(file.hour, text) = <<<<file.hour, l>>>>
    BY <1>1, <1>3 DEF ItemOf
  <2>2. file.items \o <<<<file.hour, l>>>> = Append(file.items, <<file.hour, l>>)
    BY <1>2
  <2> QED
    BY <1>1, <1>3, <2>1, <2>2 DEF WithItem
<1>4. CASE lines[file.hour][l] # "event"
  <2>1. ItemOf(file.hour, text) = <<>>
    BY <1>1, <1>4 DEF ItemOf
  <2>2. file.items \o <<>> = file.items
    BY <1>2
  <2> QED
    BY <1>1, <1>4, <2>1, <2>2 DEF WithItem
<1> QED
  BY <1>3, <1>4

(* What a line that is read adds: its event, or nothing that is owed. *)
Adds(file, g) ==
  LET h == file.hour
  IN  \/ g.items = file.items /\ \A m \in Owed(h) : 2 * m <= g.pos => 2 * m <= file.pos
      \/ \E m \in DOMAIN lines[h] :
           /\ 2 * m = g.pos /\ g.pos <= file.pos + 2
           /\ lines[h][m] = "event" /\ g.items = Append(file.items, <<h, m>>)

LEMMA WholeLineAdds ==
  ASSUME WriterInv, NEW file \in FileTypes, NEW g \in FileTypes, NEW k \in Nat,
         g.pos = 2 * k + 2, g.pos <= Pieces(file.hour),
         file.pos = 2 * k \/ file.pos = 2 * k + 1,
         g.items = file.items \/ g.items = WithItem(file, k + 1),
         k + 1 \in Owed(file.hour) => g.items = WithItem(file, k + 1)
  PROVE  Adds(file, g)
<1> DEFINE h == file.hour
<1>1. h \in HourIds /\ file.pos \in Nat
  BY DEF FileTypes
<1>2. DOMAIN lines[h] = 1 .. Len(lines[h]) /\ Len(lines[h]) \in Nat
      /\ Pieces(h) = 2 * Len(lines[h]) - (IF torn[h] THEN 1 ELSE 0)
  BY <1>1, PiecesFacts
<1>3. k + 1 \in DOMAIN lines[h] /\ 2 * (k + 1) = g.pos
  <2> HIDE DEF h
  <2>1. 2 * k + 2 <= 2 * Len(lines[h])
    BY <1>2 DEF h
  <2> QED
    BY <1>2, <2>1
<1>4. Owed(h) \subseteq DOMAIN lines[h] /\ \A m \in Owed(h) : lines[h][m] = "event" /\ m \in Nat
  BY <1>2 DEF Owed
<1>5. CASE g.items = WithItem(file, k + 1) /\ lines[h][k + 1] = "event"
  <2>1. g.pos <= file.pos + 2
    BY <1>1
  <2> QED
    BY <1>3, <1>5, <2>1 DEF Adds, WithItem
<1>6. CASE ~(g.items = WithItem(file, k + 1) /\ lines[h][k + 1] = "event")
  <2>1. k + 1 \notin Owed(h)
    BY <1>4, <1>6
  <2>2. g.items = file.items
    BY <1>6 DEF WithItem
  <2>3. ASSUME NEW m \in Owed(h), 2 * m <= g.pos PROVE 2 * m <= file.pos
    <3>1. m \in Nat /\ m # k + 1
      BY <1>4, <2>1, <2>3
    <3> QED
      BY <1>1, <2>3, <3>1
  <2> QED
    BY <2>2, <2>3 DEF Adds
<1> QED
  BY <1>5, <1>6

LEMMA HalfLineAdds ==
  ASSUME WriterInv, NEW file \in FileTypes, NEW g, NEW k \in Nat,
         g.pos = 2 * k + 1, file.pos = 2 * k, g.items = file.items
  PROVE  Adds(file, g)
<1>1. file.hour \in HourIds
  BY DEF FileTypes
<1>2. Owed(file.hour) \subseteq Nat
  <2>1. DOMAIN lines[file.hour] = 1 .. Len(lines[file.hour]) /\ Len(lines[file.hour]) \in Nat
    BY <1>1, PiecesFacts
  <2>2. Owed(file.hour) \subseteq DOMAIN lines[file.hour]
    BY DEF Owed
  <2> QED
    BY <2>1, <2>2
<1>3. ASSUME NEW m \in Owed(file.hour), 2 * m <= g.pos PROVE 2 * m <= file.pos
  BY <1>2, <1>3
<1> QED
  BY <1>3 DEF Adds

LEMMA HalfIs ==
  ASSUME NEW k \in Nat
  PROVE  Half(2 * k) = <<>> /\ Half(2 * k + 2) = <<>> /\ Half(2 * k + 1) = <<2 * k + 1>>
<1>1. 2 * k + 2 = 2 * (k + 1) /\ k + 1 \in Nat
  OBVIOUS
<1>2. (2 * k) % 2 = 0 /\ (2 * k + 2) % 2 = 0 /\ (2 * k + 1) % 2 = 1
  BY <1>1, EvenOdd
<1> QED
  BY <1>2 DEF Half

LEMMA LineTexts ==
  ASSUME NEW k \in Nat
  PROVE  /\ LET t == <<2 * k + 1, 2 * k + 2>>
             IN  t \in Seq(Nat) /\ Last(t) = 2 * (k + 1) /\ EndsLine(t) /\ IsLine(t)
         /\ LET t == <<2 * k + 1>>
             IN  t \in Seq(Nat) /\ Last(t) = 2 * k + 1 /\ ~EndsLine(t) /\ ~IsLine(t)
         /\ LET t == <<2 * k + 2>>
             IN  t \in Seq(Nat) /\ Last(t) = 2 * (k + 1) /\ EndsLine(t) /\ ~IsLine(t)
<1> DEFINE a == <<2 * k + 1, 2 * k + 2>>
           b == <<2 * k + 1>>
           c == <<2 * k + 2>>
<1>1. 2 * k + 2 = 2 * (k + 1) /\ k + 1 \in Nat /\ 2 * k + 2 - 1 = 2 * k + 1
  OBVIOUS
<1>2. a \in Seq(Nat) /\ b \in Seq(Nat) /\ c \in Seq(Nat)
  OBVIOUS
<1>3. Last(a) = 2 * k + 2 /\ Last(b) = 2 * k + 1 /\ Last(c) = 2 * k + 2
  BY DEF Last
<1>4. (2 * k + 2) % 2 = 0 /\ (2 * k + 1) % 2 = 1
  BY <1>1, EvenOdd
<1>5. EndsLine(a) /\ ~EndsLine(b) /\ EndsLine(c)
  BY <1>3, <1>4 DEF EndsLine
<1>6. IsLine(a)
  BY <1>1, <1>3, <1>5 DEF IsLine
<1>7. ~IsLine(b) /\ ~IsLine(c)
  <2>1. Len(b) = 1 /\ Len(c) = 1 /\ \A x, y : Len(<<x, y>>) = 2
    OBVIOUS
  <2> HIDE DEF b, c
  <2> QED
    BY <2>1 DEF IsLine
<1> QED
  BY <1>1, <1>2, <1>3, <1>5, <1>6, <1>7

(* What becomes of a file whose fields are set. *)
LEMMA FileFields ==
  ASSUME NEW f \in FileTypes, NEW s \in Seq(Entry)
  PROVE  /\ LET g == [f EXCEPT !.text = <<>>, !.items = s]
            IN  /\ g \in FileTypes /\ g.items = s /\ g.text = <<>>
                /\ g.header = f.header /\ g.hour = f.hour /\ g.pos = f.pos
         /\ LET g == [f EXCEPT !.text = <<>>, !.header = TRUE]
            IN  /\ g \in FileTypes /\ g.items = f.items /\ g.text = <<>>
                /\ g.header = TRUE /\ g.hour = f.hour /\ g.pos = f.pos
         /\ LET g == [f EXCEPT !.items = s]
            IN  /\ g \in FileTypes /\ g.items = s /\ g.text = f.text
                /\ g.header = f.header /\ g.hour = f.hour /\ g.pos = f.pos
<1> DEFINE a == [f EXCEPT !.text = <<>>, !.items = s]
           b == [f EXCEPT !.text = <<>>, !.header = TRUE]
           c == [f EXCEPT !.items = s]
<1>1. f.hour \in HourIds /\ <<>> \in Seq(Nat)
  BY DEF FileTypes
<1>2. a \in FileTypes
  BY <1>1 DEF FileTypes
<1>3. /\ a.items = s /\ a.text = <<>> /\ a.header = f.header
      /\ a.hour = f.hour /\ a.pos = f.pos
  BY DEF FileTypes
<1>4. b \in FileTypes
  BY <1>1 DEF FileTypes
<1>5. /\ b.items = f.items /\ b.text = <<>> /\ b.header = TRUE
      /\ b.hour = f.hour /\ b.pos = f.pos
  BY DEF FileTypes
<1>6. c \in FileTypes
  BY DEF FileTypes
<1>7. /\ c.items = s /\ c.text = f.text /\ c.header = f.header
      /\ c.hour = f.hour /\ c.pos = f.pos
  BY DEF FileTypes
<1> HIDE DEF a, b, c
<1> QED
  BY <1>2, <1>3, <1>4, <1>5, <1>6, <1>7 DEF a, b, c

(* Two pieces of a line together. *)
LEMMA PiecesTogether ==
  ASSUME NEW x \in Nat, NEW y \in Nat
  PROVE  <<x>> \o <<y>> = <<x, y>>
<1>1. <<x>> \in Seq(Nat) /\ <<y>> \in Seq(Nat) /\ <<x, y>> \in Seq(Nat)
  OBVIOUS
<1> DEFINE s == <<x>> \o <<y>>
           t == <<x, y>>
<1>2. Len(s) = 2 /\ s[1] = x /\ s[2] = y /\ s \in Seq(Nat)
  BY <1>1
<1>3. Len(t) = 2 /\ t[1] = x /\ t[2] = y /\ t \in Seq(Nat)
  BY <1>1
<1> HIDE DEF s, t
<1>4. \A i \in 1 .. Len(s) : s[i] = t[i]
  <2> TAKE i \in 1 .. Len(s)
  <2>1. i = 1 \/ i = 2
    BY <1>2
  <2> QED
    BY <1>2, <1>3, <2>1
<1>5. s = t
  BY <1>2, <1>3, <1>4, SeqEqual
<1> QED
  BY <1>5 DEF s, t

Steps(file, g) ==
  FileInv(g) /\ g.hour = file.hour /\ file.pos < g.pos /\ Adds(file, g)

LEMMA WithItemType ==
  ASSUME WriterInv, NEW file \in FileTypes, NEW l \in DOMAIN lines[file.hour]
  PROVE  WithItem(file, l) \in Seq(Entry)
<1>1. file.hour \in HourIds /\ file.items \in Seq(Entry)
  BY DEF FileTypes
<1>2. l \in Nat \ {0}
  <2>1. DOMAIN lines[file.hour] = 1 .. Len(lines[file.hour]) /\ Len(lines[file.hour]) \in Nat
    BY <1>1, PiecesFacts
  <2> QED
    BY <2>1
<1>3. <<file.hour, l>> \in Entry
  BY <1>1, <1>2 DEF Entry
<1> QED
  BY <1>1, <1>3 DEF WithItem

(* A csv file. *)
LEMMA CsvReads ==
  ASSUME WriterInv, NEW file, FileInv(file), file.pos < Pieces(file.hour), format = "csv"
  PROVE  Steps(file, ReadFrom(file))
<1> DEFINE h == file.hour
           chunk == NextChunk(file)
           read == [file EXCEPT !.pos = Last(chunk)]
           text == file.text \o chunk
           g == CsvLine(h, read, chunk)
<1>1. ReadFrom(file) = g
  BY DEF ReadFrom
<1>2. /\ file \in FileTypes /\ h \in HourIds /\ file.pos \in Nat /\ file.items \in Seq(Entry)
      /\ lines[h] # <<>> /\ file.text = Half(file.pos) /\ (file.header <=> file.pos > 1)
      /\ file.header \in BOOLEAN /\ Pieces(h) \in Nat
  BY PiecesFacts DEF FileInv, FileTypes
<1>3. /\ Len(lines[h]) \in Nat /\ DOMAIN lines[h] = 1 .. Len(lines[h])
      /\ Pieces(h) = 2 * Len(lines[h]) - (IF torn[h] THEN 1 ELSE 0)
      /\ lines[h][1] = "header"
  BY <1>2, PiecesFacts DEF WriterInv
<1> HIDE DEF chunk
<1>4. ASSUME NEW k \in Nat, file.pos = 2 * k \/ file.pos = 2 * k + 1, 2 * k + 2 <= Pieces(h),
             Last(chunk) = 2 * k + 2, text = <<2 * k + 1, 2 * k + 2>>
      PROVE  Steps(file, g)
  <2>1. EndsLine(text) /\ Last(text) = 2 * (k + 1)
    BY <1>4, LineTexts
  <2>2. file.items \o ItemOf(h, text) = WithItem(file, k + 1)
    <3>1. k + 1 \in Nat /\ Last(text) = 2 * (k + 1)
      BY <2>1
    <3> HIDE DEF text
    <3> QED
      BY <1>2, <3>1, ItemFacts
  <2>3. k + 1 \in DOMAIN lines[h]
    <3>1. 2 * k + 2 <= 2 * Len(lines[h])
      BY <1>3, <1>4
    <3> QED
      BY <1>3, <3>1
  <2>4. /\ read \in FileTypes /\ read.items = file.items /\ read.text = file.text
        /\ read.header = file.header /\ read.hour = h /\ read.pos = 2 * k + 2
    BY <1>2, <1>4 DEF FileTypes
  <2>5. CASE file.header
    <3>1. g = [read EXCEPT !.text = <<>>, !.items = WithItem(file, k + 1)]
      BY <2>1, <2>2, <2>4, <2>5 DEF CsvLine
    <3>2. WithItem(file, k + 1) \in Seq(Entry)
      BY <1>2, <2>3, WithItemType
    <3> HIDE DEF read, g
    <3>3. /\ g \in FileTypes /\ g.items = WithItem(file, k + 1) /\ g.text = <<>>
          /\ g.header = file.header /\ g.hour = h /\ g.pos = 2 * k + 2
      BY <2>4, <3>1, <3>2, FileFields
    <3>4. FileInv(g)
      BY <1>2, <1>4, <2>5, <3>3, HalfIs DEF FileInv, Uploaded
    <3>5. Adds(file, g)
      BY <1>2, <1>4, <3>3, WholeLineAdds
    <3> QED
      BY <1>4, <3>3, <3>4, <3>5 DEF Steps
  <2>6. CASE ~file.header
    <3>1. g = [read EXCEPT !.text = <<>>, !.header = TRUE]
      BY <2>1, <2>4, <2>6 DEF CsvLine
    <3> HIDE DEF read, g
    <3>2. /\ g \in FileTypes /\ g.items = file.items /\ g.text = <<>>
          /\ g.header = TRUE /\ g.hour = h /\ g.pos = 2 * k + 2
      BY <1>2, <2>4, <3>1, FileFields
    <3>3. FileInv(g)
      BY <1>2, <1>4, <3>2, HalfIs DEF FileInv, Uploaded
    <3>4. k = 0
      BY <1>2, <1>4, <2>6
    <3>5. k + 1 \notin Owed(h)
      BY <1>3, <3>4 DEF Owed
    <3>6. Adds(file, g)
      BY <1>2, <1>4, <3>2, <3>5, WholeLineAdds
    <3> QED
      BY <1>4, <3>2, <3>3, <3>6 DEF Steps
  <2> QED
    BY <1>2, <2>5, <2>6
<1>5. ASSUME NEW k \in Nat, file.pos = 2 * k, 2 * k + 1 = Pieces(h),
             Last(chunk) = 2 * k + 1, text = <<2 * k + 1>>
      PROVE  Steps(file, g)
  <2>1. ~EndsLine(text) /\ text \in Seq(Nat)
    BY <1>5, LineTexts
  <2>2. /\ read \in FileTypes /\ read.items = file.items /\ read.text = file.text
        /\ read.header = file.header /\ read.hour = h /\ read.pos = 2 * k + 1
    BY <1>2, <1>5 DEF FileTypes
  <2>3. g = [read EXCEPT !.text = text]
    BY <2>1, <2>2 DEF CsvLine
  <2> HIDE DEF read, g, text
  <2>4. /\ g \in FileTypes /\ g.items = file.items /\ g.text = text
        /\ g.header = file.header /\ g.hour = h /\ g.pos = 2 * k + 1
    BY <2>1, <2>2, <2>3 DEF FileTypes
  <2>5. g.header <=> g.pos > 1
    BY <1>2, <1>5, <2>4
  <2>6. FileInv(g)
    BY <1>2, <1>5, <2>4, <2>5, HalfIs DEF FileInv, Uploaded
  <2>7. Adds(file, g)
    BY <1>2, <1>5, <2>4, HalfLineAdds
  <2> QED
    BY <1>5, <2>4, <2>6, <2>7 DEF Steps
<1>6. \/ \E k \in Nat : /\ file.pos = 2 * k /\ 2 * k + 2 <= Pieces(h)
                        /\ chunk = <<2 * k + 1, 2 * k + 2>> /\ Last(chunk) = 2 * k + 2
      \/ \E k \in Nat : /\ file.pos = 2 * k /\ Pieces(h) = 2 * k + 1 /\ chunk = <<2 * k + 1>>
                        /\ Last(chunk) = 2 * k + 1
      \/ \E k \in Nat : file.pos = 2 * k + 1 /\ chunk = <<2 * k + 2>> /\ Last(chunk) = 2 * k + 2
  BY <1>2, ChunkFacts DEF chunk, NextChunk
<1>7. ASSUME NEW k \in Nat, file.pos = 2 * k, 2 * k + 2 <= Pieces(h),
             chunk = <<2 * k + 1, 2 * k + 2>>, Last(chunk) = 2 * k + 2
      PROVE  Steps(file, g)
  <2>1. file.text = <<>>
    BY <1>2, <1>7, HalfIs
  <2>2. text = chunk
    BY <1>7, <2>1
  <2> QED
    BY <1>4, <1>7, <2>2
<1>8. ASSUME NEW k \in Nat, file.pos = 2 * k, Pieces(h) = 2 * k + 1, chunk = <<2 * k + 1>>,
             Last(chunk) = 2 * k + 1
      PROVE  Steps(file, g)
  <2>1. file.text = <<>>
    BY <1>2, <1>8, HalfIs
  <2>2. text = chunk
    BY <1>8, <2>1
  <2> QED
    BY <1>5, <1>8, <2>2
<1>9. ASSUME NEW k \in Nat, file.pos = 2 * k + 1, chunk = <<2 * k + 2>>, Last(chunk) = 2 * k + 2
      PROVE  Steps(file, g)
  <2>1. file.text = <<2 * k + 1>>
    BY <1>2, <1>9, HalfIs
  <2>2. text = <<2 * k + 1, 2 * k + 2>>
    <3>1. 2 * k + 1 \in Nat /\ 2 * k + 2 \in Nat
      OBVIOUS
    <3> QED
      BY <1>9, <2>1, <3>1, PiecesTogether
  <2>3. 2 * k + 2 <= Pieces(h)
    BY <1>2, <1>9
  <2> QED
    BY <1>4, <1>9, <2>2, <2>3
<1> QED
  BY <1>1, <1>6, <1>7, <1>8, <1>9

LEMMA LastOfBoth ==
  ASSUME NEW s \in Seq(Nat), NEW t \in Seq(Nat), t # <<>>
  PROVE  s \o t \in Seq(Nat) /\ Last(s \o t) = Last(t)
<1>1. Len(t) \in Nat \ {0} /\ Len(s) \in Nat
  BY EmptySeq, LenProperties
<1>2. /\ s \o t \in Seq(Nat) /\ Len(s \o t) = Len(s) + Len(t)
      /\ \A i \in 1 .. Len(s) + Len(t) : (s \o t)[i] = IF i <= Len(s) THEN s[i] ELSE t[i - Len(s)]
  BY ConcatProperties
<1>3. (s \o t)[Len(s) + Len(t)] = t[Len(t)]
  BY <1>1, <1>2
<1> QED
  BY <1>2, <1>3 DEF Last

LEMMA TextField ==
  ASSUME NEW f \in FileTypes, NEW t \in Seq(Nat)
  PROVE  LET g == [f EXCEPT !.text = t]
         IN  /\ g \in FileTypes /\ g.items = f.items /\ g.text = t
             /\ g.header = f.header /\ g.hour = f.hour /\ g.pos = f.pos
<1> DEFINE g == [f EXCEPT !.text = t]
<1>1. g \in FileTypes
  BY DEF FileTypes
<1>2. g.items = f.items /\ g.text = t /\ g.header = f.header /\ g.hour = f.hour /\ g.pos = f.pos
  BY DEF FileTypes
<1> QED
  BY <1>1, <1>2

(* A json file after text that was read: what is kept, and the event.       *)
LEMMA JsonBecomes ==
  ASSUME WriterInv, NEW read \in FileTypes, NEW chunk \in Seq(Nat), chunk # <<>>,
         NEW k \in Nat, Last(chunk) = 2 * (k + 1), k + 1 \in DOMAIN lines[read.hour]
  PROVE  LET h == read.hour
             text == read.text \o chunk
             g == JsonLine(h, read, chunk)
         IN  /\ g \in FileTypes /\ g.hour = h /\ g.pos = read.pos
             /\ IF Parses(h, chunk)
                THEN g.items = WithItem(read, k + 1) /\ g.text = read.text
                ELSE /\ read.text = <<>> => g.items = read.items /\ g.text = chunk
                     /\ read.text # <<>> => g.text = <<>>
                     /\ read.text # <<>> => IF Parses(h, text) THEN g.items = WithItem(read, k + 1)
                                           ELSE g.items = read.items
<1> DEFINE h == read.hour
           text == read.text \o chunk
           g == JsonLine(h, read, chunk)
<1>1. h \in HourIds /\ read.text \in Seq(Nat) /\ read.items \in Seq(Entry) /\ k + 1 \in Nat
  BY DEF FileTypes
<1>2. text \in Seq(Nat) /\ Last(text) = 2 * (k + 1)
  BY <1>1, LastOfBoth
<1> HIDE DEF text
<1>3. EndsLine(text) /\ read.items \o ItemOf(h, text) = WithItem(read, k + 1)
  BY <1>1, <1>2, ItemFacts
<1>4. read.items \o ItemOf(h, chunk) = WithItem(read, k + 1)
  BY <1>1, ItemFacts
<1>5. WithItem(read, k + 1) \in Seq(Entry)
  BY WithItemType
<1>6. CASE Parses(h, chunk)
  <2>1. g = [read EXCEPT !.items = WithItem(read, k + 1)]
    BY <1>4, <1>6 DEF JsonLine
  <2> HIDE DEF g
  <2>2. g \in FileTypes /\ g.hour = h /\ g.pos = read.pos /\ g.items = WithItem(read, k + 1)
        /\ g.text = read.text
    BY <1>5, <2>1, FileFields
  <2> QED
    BY <1>6, <2>2 DEF g
<1>7. CASE ~Parses(h, chunk) /\ read.text = <<>>
  <2>1. g = [read EXCEPT !.text = chunk]
    BY <1>7 DEF JsonLine
  <2> HIDE DEF g
  <2>2. g \in FileTypes /\ g.hour = h /\ g.pos = read.pos /\ g.items = read.items /\ g.text = chunk
    BY <2>1, TextField
  <2> QED
    BY <1>7, <2>2 DEF g
<1>8. CASE ~Parses(h, chunk) /\ read.text # <<>>
  <2> DEFINE found == IF Parses(h, text) THEN WithItem(read, k + 1) ELSE read.items
  <2>1. g = [read EXCEPT !.text = <<>>, !.items = found]
    BY <1>3, <1>8 DEF JsonLine, text
  <2>2. found \in Seq(Entry)
    BY <1>1, <1>5
  <2>3. IF Parses(h, text) THEN found = WithItem(read, k + 1) ELSE found = read.items
    OBVIOUS
  <2> HIDE DEF g, found
  <2>4. g \in FileTypes /\ g.hour = h /\ g.pos = read.pos /\ g.items = found /\ g.text = <<>>
    BY <2>1, <2>2, FileFields
  <2> QED
    BY <1>8, <2>3, <2>4 DEF g, text
<1> QED
  BY <1>6, <1>7, <1>8

(* A file that was there as a whole when it was opened: its lines are met   *)
(* as a whole.                                                              *)
LEMMA UploadedReads ==
  ASSUME WriterInv, NEW file, FileInv(file), file.pos < Pieces(file.hour), Uploaded
  PROVE  Steps(file, ReadFrom(file))
<1> DEFINE h == file.hour
           chunk == NextChunk(file)
           read == [file EXCEPT !.pos = Last(chunk)]
           g == ReadFrom(file)
<1>1. ReadFrom(file) = IF format = "swift" THEN SwiftLine(h, read, chunk) ELSE JsonLine(h, read, chunk)
  BY DEF ReadFrom, Uploaded
<1>2. /\ file \in FileTypes /\ h \in HourIds /\ file.pos \in Nat /\ file.items \in Seq(Entry)
      /\ lines[h] # <<>> /\ Pieces(h) \in Nat /\ file.pos % 2 = 0
  BY PiecesFacts DEF FileInv, FileTypes
<1>3. /\ Len(lines[h]) \in Nat /\ DOMAIN lines[h] = 1 .. Len(lines[h])
      /\ Pieces(h) = 2 * Len(lines[h]) - (IF torn[h] THEN 1 ELSE 0) /\ ~torn[h]
  BY <1>2, PiecesFacts DEF WriterInv
<1> HIDE DEF chunk
<1>4. PICK k \in Nat : file.pos = 2 * k
  BY <1>2, Parity, EvenOdd
<1>5. 2 * k + 2 <= Pieces(h)
  BY <1>3, <1>4
<1>6. chunk = <<2 * k + 1, 2 * k + 2>> /\ Last(chunk) = 2 * k + 2
  <2> DEFINE end == Pieces(h)
  <2>1. end \in Nat /\ file.pos < end /\ 2 * k + 2 <= end /\ chunk = Chunk(file.pos, end)
    BY <1>2, <1>5 DEF chunk, NextChunk
  <2> HIDE DEF end
  <2>2. \/ \E j \in Nat : /\ file.pos = 2 * j /\ 2 * j + 2 <= end /\ chunk = <<2 * j + 1, 2 * j + 2>>
                          /\ Last(chunk) = 2 * j + 2
        \/ \E j \in Nat : file.pos = 2 * j /\ end = 2 * j + 1 /\ chunk = <<2 * j + 1>> /\ Last(chunk) = 2 * j + 1
        \/ \E j \in Nat : file.pos = 2 * j + 1 /\ chunk = <<2 * j + 2>> /\ Last(chunk) = 2 * j + 2
    BY <1>2, <2>1, ChunkFacts
  <2>3. ASSUME NEW j \in Nat, file.pos = 2 * j, chunk = <<2 * j + 1, 2 * j + 2>>, Last(chunk) = 2 * j + 2
        PROVE  chunk = <<2 * k + 1, 2 * k + 2>> /\ Last(chunk) = 2 * k + 2
    <3>1. j = k
      BY <1>4, <2>3
    <3> QED
      BY <2>3, <3>1
  <2>4. ASSUME NEW j \in Nat, file.pos = 2 * j, end = 2 * j + 1 PROVE FALSE
    BY <1>4, <2>1, <2>4
  <2>5. ASSUME NEW j \in Nat, file.pos = 2 * j + 1 PROVE FALSE
    BY <1>4, <2>5
  <2> QED
    BY <2>2, <2>3, <2>4, <2>5
<1>7. IsLine(chunk) /\ Last(chunk) = 2 * (k + 1)
  BY <1>6, LineTexts
<1>8. LineOf(chunk) = k + 1 /\ file.items \o ItemOf(h, chunk) = WithItem(file, k + 1)
  <2>1. k + 1 \in Nat /\ Last(chunk) = 2 * (k + 1)
    BY <1>7
  <2> QED
    BY <1>2, <2>1, ItemFacts
<1>9. k + 1 \in DOMAIN lines[h]
  BY <1>3, <1>5
<1>10. /\ read \in FileTypes /\ read.items = file.items /\ read.text = file.text
       /\ read.header = file.header /\ read.hour = h /\ read.pos = 2 * k + 2
  <2>1. Last(chunk) = 2 * k + 2 /\ 2 * k + 2 \in Nat
    BY <1>6
  <2> QED
    BY <1>2, <2>1 DEF FileTypes
<1>11. /\ g \in FileTypes /\ g.hour = h /\ g.pos = 2 * k + 2
       /\ g.items = file.items \/ g.items = WithItem(file, k + 1)
       /\ lines[h][k + 1] # "junk" => g.items = WithItem(file, k + 1)
  <2>1. Parses(h, chunk) <=> lines[h][k + 1] # "junk"
    BY <1>7, <1>8 DEF Parses
  <2>2. CASE format = "swift" /\ Parses(h, chunk)
    <3>1. g = [read EXCEPT !.items = WithItem(file, k + 1)]
      BY <1>1, <1>8, <1>10, <2>2 DEF SwiftLine
    <3>2. WithItem(file, k + 1) \in Seq(Entry)
      BY <1>2, <1>9, WithItemType
    <3> HIDE DEF read, g
    <3>3. g \in FileTypes /\ g.hour = h /\ g.pos = 2 * k + 2 /\ g.items = WithItem(file, k + 1)
      BY <1>10, <3>1, <3>2, FileFields
    <3> QED
      BY <3>3
  <2>3. CASE format = "swift" /\ ~Parses(h, chunk)
    <3>1. g = read
      BY <1>1, <2>3 DEF SwiftLine
    <3> QED
      BY <1>10, <2>1, <2>3, <3>1
  <2>4. CASE format # "swift"
    <3>1. g = JsonLine(h, read, chunk)
      BY <1>1, <2>4
    <3>2. WithItem(read, k + 1) = WithItem(file, k + 1) /\ k + 1 \in Nat
      BY <1>10 DEF WithItem
    <3>3. chunk \in Seq(Nat) /\ chunk # <<>>
      BY <1>6, LineTexts
    <3> HIDE DEF g, read
    <3>4. /\ g \in FileTypes /\ g.hour = h /\ g.pos = read.pos
          /\ Parses(h, chunk) => g.items = WithItem(read, k + 1)
          /\ g.items = read.items \/ g.items = WithItem(read, k + 1)
      BY <1>7, <1>9, <1>10, <3>1, <3>2, <3>3, JsonBecomes
    <3> QED
      BY <1>10, <2>1, <3>2, <3>4
  <2> QED
    BY <2>2, <2>3, <2>4
<1> HIDE DEF g, read
<1>12. (2 * k + 2) % 2 = 0
  OBVIOUS
<1>13. FileInv(g)
  <2>1. format # "csv" /\ format # "json"
    BY DEF Uploaded
  <2> QED
    BY <1>2, <1>5, <1>11, <1>12, <2>1 DEF FileInv
<1>14. k + 1 \in Owed(h) => g.items = WithItem(file, k + 1)
  BY <1>11 DEF Owed
<1>15. Adds(file, g)
  BY <1>2, <1>4, <1>5, <1>11, <1>14, WholeLineAdds
<1> QED
  BY <1>4, <1>11, <1>13, <1>15 DEF Steps, g

LEMMA JsonReads ==
  ASSUME WriterInv, NEW file, FileInv(file), file.pos < Pieces(file.hour), format = "json"
  PROVE  Steps(file, ReadFrom(file))
<1> DEFINE h == file.hour
           chunk == NextChunk(file)
           read == [file EXCEPT !.pos = Last(chunk)]
           g == JsonLine(h, read, chunk)
<1>1. ReadFrom(file) = g
  BY DEF ReadFrom
<1>2. /\ file \in FileTypes /\ h \in HourIds /\ file.pos \in Nat /\ file.items \in Seq(Entry)
      /\ file.text \in Seq(Nat) /\ lines[h] # <<>> /\ Pieces(h) \in Nat
      /\ Clean(h, file.pos) => file.text = Half(file.pos)
  BY PiecesFacts DEF FileInv, FileTypes
<1>3. /\ Len(lines[h]) \in Nat /\ DOMAIN lines[h] = 1 .. Len(lines[h])
      /\ Pieces(h) = 2 * Len(lines[h]) - (IF torn[h] THEN 1 ELSE 0)
  BY <1>2, PiecesFacts
<1> HIDE DEF chunk
<1>4. ASSUME NEW n \in Nat, Last(chunk) = n
      PROVE  /\ read \in FileTypes /\ read.items = file.items /\ read.text = file.text
             /\ read.header = file.header /\ read.hour = h /\ read.pos = n
  BY <1>2, <1>4 DEF FileTypes
<1>5. ASSUME NEW n \in Nat, file.pos <= n, Clean(h, n) PROVE Clean(h, file.pos)
  <2>1. \A l \in DOMAIN lines[h] : 2 * l <= file.pos => 2 * l <= n
    BY <1>2, <1>3, <1>5
  <2> QED
    BY <1>5, <2>1 DEF Clean
<1> HIDE DEF read, g
<1>6. ASSUME NEW k \in Nat, file.pos = 2 * k, 2 * k + 2 <= Pieces(h),
             chunk = <<2 * k + 1, 2 * k + 2>>, Last(chunk) = 2 * k + 2
      PROVE  Steps(file, g)
  <2>1. /\ read \in FileTypes /\ read.items = file.items /\ read.text = file.text
        /\ read.hour = h /\ read.pos = 2 * k + 2
    BY <1>4, <1>6
  <2>2. k + 1 \in DOMAIN lines[h] /\ 2 * (k + 1) <= 2 * k + 2
    <3>1. 2 * k + 2 <= Pieces(h)
      BY <1>6
    <3> QED
      BY <1>3, <3>1
  <2>3. chunk \in Seq(Nat) /\ IsLine(chunk) /\ Last(chunk) = 2 * (k + 1) /\ chunk # <<>>
    BY <1>6, LineTexts
  <2>4. LineOf(chunk) = k + 1 /\ k + 1 \in Nat
    <3>1. k + 1 \in Nat /\ Last(chunk) = 2 * (k + 1)
      BY <2>3
    <3> QED
      BY <2>1, <3>1, ItemFacts
  <2>5. Parses(h, chunk) <=> lines[h][k + 1] # "junk"
    BY <2>3, <2>4 DEF Parses
  <2>6. WithItem(read, k + 1) = WithItem(file, k + 1)
    BY <2>1 DEF WithItem
  <2>7. /\ g \in FileTypes /\ g.hour = h /\ g.pos = 2 * k + 2
        /\ Parses(h, chunk) => g.items = WithItem(file, k + 1) /\ g.text = file.text
        /\ ~Parses(h, chunk) => g.items = file.items \/ g.items = WithItem(file, k + 1)
    BY <2>1, <2>2, <2>3, <2>6, JsonBecomes DEF g
  <2>8. Clean(h, 2 * k + 2) => lines[h][k + 1] # "junk" /\ Clean(h, file.pos)
    <3>1. 2 * k + 2 \in Nat /\ file.pos <= 2 * k + 2
      BY <1>6
    <3> QED
      BY <1>5, <2>2, <3>1 DEF Clean
  <2>9. Clean(h, 2 * k + 2) => g.text = Half(2 * k + 2)
    BY <1>2, <1>6, <2>5, <2>7, <2>8, HalfIs
  <2>10. FileInv(g)
    BY <1>2, <1>6, <2>7, <2>9 DEF FileInv, Uploaded
  <2>11. k + 1 \in Owed(h) => g.items = WithItem(file, k + 1)
    BY <2>5, <2>7 DEF Owed
  <2>12. Adds(file, g)
    BY <1>2, <1>6, <2>7, <2>11, WholeLineAdds
  <2> QED
    BY <1>6, <2>7, <2>10, <2>12 DEF Steps
<1>7. ASSUME NEW k \in Nat, file.pos = 2 * k + 1, chunk = <<2 * k + 2>>, Last(chunk) = 2 * k + 2
      PROVE  Steps(file, g)
  <2>1. /\ read \in FileTypes /\ read.items = file.items /\ read.text = file.text
        /\ read.hour = h /\ read.pos = 2 * k + 2
    BY <1>4, <1>7
  <2>2. k + 1 \in DOMAIN lines[h] /\ 2 * (k + 1) <= 2 * k + 2 /\ 2 * k + 2 <= Pieces(h)
    <3>1. 2 * k + 2 <= Pieces(h)
      BY <1>2, <1>7
    <3> QED
      BY <1>3, <3>1
  <2>3. chunk \in Seq(Nat) /\ ~IsLine(chunk) /\ Last(chunk) = 2 * (k + 1) /\ chunk # <<>>
    BY <1>7, LineTexts
  <2>4. ~Parses(h, chunk)
    BY <2>3 DEF Parses
  <2>5. WithItem(read, k + 1) = WithItem(file, k + 1) /\ k + 1 \in Nat
    BY <2>1 DEF WithItem
  <2> DEFINE text == file.text \o chunk
  <2>6. /\ g \in FileTypes /\ g.hour = h /\ g.pos = 2 * k + 2
        /\ g.items = file.items \/ g.items = WithItem(file, k + 1)
        /\ file.text # <<>> => g.text = <<>>
        /\ file.text # <<>> /\ Parses(h, text) => g.items = WithItem(file, k + 1)
    <3> HIDE DEF text
    <3>1. text = read.text \o chunk
      BY <2>1 DEF text
    <3> QED
      BY <2>1, <2>2, <2>3, <2>4, <2>5, <3>1, JsonBecomes DEF g
  <2>7. Clean(h, file.pos) => file.text = <<2 * k + 1>> /\ text = <<2 * k + 1, 2 * k + 2>>
    <3>1. 2 * k + 1 \in Nat /\ 2 * k + 2 \in Nat
      OBVIOUS
    <3>2. <<2 * k + 1>> \o <<2 * k + 2>> = <<2 * k + 1, 2 * k + 2>>
      BY <3>1, PiecesTogether
    <3>3. Clean(h, file.pos) => file.text = <<2 * k + 1>>
      BY <1>2, <1>7, HalfIs
    <3> QED
      BY <1>7, <3>2, <3>3
  <2> HIDE DEF text
  <2>8. Clean(h, file.pos) /\ lines[h][k + 1] # "junk" => Parses(h, text)
    <3> SUFFICES ASSUME Clean(h, file.pos), lines[h][k + 1] # "junk" PROVE Parses(h, text)
      OBVIOUS
    <3>1. IsLine(text) /\ Last(text) = 2 * (k + 1)
      BY <2>7, LineTexts
    <3>2. LineOf(text) = k + 1
      BY <2>1, <2>5, <3>1, ItemFacts
    <3> QED
      BY <3>1, <3>2 DEF Parses
  <2>9. \A t : t = <<2 * k + 1>> => t # <<>>
    OBVIOUS
  <2>10. Clean(h, 2 * k + 2) => g.text = Half(2 * k + 2)
    <3>1. 2 * k + 2 \in Nat /\ file.pos <= 2 * k + 2
      BY <1>7
    <3> QED
      BY <1>5, <2>6, <2>7, <2>9, <3>1, HalfIs
  <2>11. FileInv(g)
    BY <1>2, <2>2, <2>6, <2>10 DEF FileInv, Uploaded
  <2>12. k + 1 \in Owed(h) => g.items = WithItem(file, k + 1)
    <3> SUFFICES ASSUME k + 1 \in Owed(h) PROVE g.items = WithItem(file, k + 1)
      OBVIOUS
    <3>1. lines[h][k + 1] = "event" /\ \A l \in 1 .. k + 1 - 1 : lines[h][l] # "junk"
      BY DEF Owed
    <3>2. \A l \in DOMAIN lines[h] : 2 * l <= file.pos => l \in 1 .. k + 1 - 1
      BY <1>3, <1>7
    <3>3. Clean(h, file.pos)
      BY <3>1, <3>2 DEF Clean
    <3> QED
      BY <2>6, <2>7, <2>8, <2>9, <3>1, <3>3
  <2>13. Adds(file, g)
    BY <1>2, <1>7, <2>2, <2>6, <2>12, WholeLineAdds
  <2> QED
    BY <1>7, <2>6, <2>11, <2>13 DEF Steps
<1>8. ASSUME NEW k \in Nat, file.pos = 2 * k, Pieces(h) = 2 * k + 1, chunk = <<2 * k + 1>>,
             Last(chunk) = 2 * k + 1
      PROVE  Steps(file, g)
  <2>1. /\ read \in FileTypes /\ read.items = file.items /\ read.text = file.text
        /\ read.hour = h /\ read.pos = 2 * k + 1
    BY <1>4, <1>8
  <2>2. /\ chunk \in Seq(Nat) /\ ~EndsLine(chunk) /\ ~IsLine(chunk)
        /\ Last(chunk) = 2 * k + 1 /\ chunk # <<>>
    BY <1>8, LineTexts
  <2>3. ~Parses(h, chunk)
    BY <2>2 DEF Parses
  <2> DEFINE text == file.text \o chunk
  <2>4. text \in Seq(Nat) /\ ~EndsLine(text)
    <3>1. text \in Seq(Nat) /\ Last(text) = Last(chunk)
      BY <1>2, <2>2, LastOfBoth
    <3> QED
      BY <2>2, <3>1 DEF EndsLine
  <2> DEFINE kept == IF file.text = <<>> THEN chunk ELSE text
  <2>5. g = [read EXCEPT !.text = kept]
    BY <2>1, <2>3, <2>4 DEF JsonLine, g
  <2>6. kept \in Seq(Nat) /\ (file.text = <<>> => kept = <<2 * k + 1>>)
    BY <1>8, <2>2, <2>4
  <2> HIDE DEF kept
  <2>7. g \in FileTypes /\ g.hour = h /\ g.pos = 2 * k + 1 /\ g.items = file.items /\ g.text = kept
    BY <2>1, <2>5, <2>6, TextField
  <2>8. Clean(h, 2 * k + 1) => g.text = Half(2 * k + 1)
    <3>1. 2 * k + 1 \in Nat /\ file.pos <= 2 * k + 1
      BY <1>8
    <3> QED
      BY <1>2, <1>5, <1>8, <2>6, <2>7, <3>1, HalfIs
  <2>9. FileInv(g)
    BY <1>2, <1>8, <2>7, <2>8 DEF FileInv, Uploaded
  <2>10. Adds(file, g)
    BY <1>2, <1>8, <2>7, HalfLineAdds
  <2> QED
    BY <1>8, <2>7, <2>9, <2>10 DEF Steps
<1>9. \/ \E k \in Nat : /\ file.pos = 2 * k /\ 2 * k + 2 <= Pieces(h)
                        /\ chunk = <<2 * k + 1, 2 * k + 2>> /\ Last(chunk) = 2 * k + 2
      \/ \E k \in Nat : /\ file.pos = 2 * k /\ Pieces(h) = 2 * k + 1 /\ chunk = <<2 * k + 1>>
                        /\ Last(chunk) = 2 * k + 1
      \/ \E k \in Nat : file.pos = 2 * k + 1 /\ chunk = <<2 * k + 2>> /\ Last(chunk) = 2 * k + 2
  BY <1>2, ChunkFacts DEF chunk, NextChunk
<1> QED
  BY <1>1, <1>6, <1>7, <1>8, <1>9

(* In any format: what is known of a file stays known when a line is read.  *)
LEMMA ReadSteps ==
  ASSUME WriterInv, NEW file, FileInv(file), file.pos < Pieces(file.hour)
  PROVE  Steps(file, ReadFrom(file))
  BY CsvReads, JsonReads, UploadedReads DEF WriterInv, AllFormats, Uploaded

-----------------------------------------------------------------------------
(* The invariant while others write and time goes by: files only grow, and  *)
(* nothing that is added once they are sealed is in time.                   *)
Grows ==
  /\ WriterInv' /\ format' = format
  /\ \A h \in HourIds :
       /\ Pieces(h) <= Pieces(h)'
       /\ lines[h] # <<>> => lines'[h] # <<>>
       /\ \A l \in DOMAIN lines[h] : l \in DOMAIN lines'[h] /\ lines'[h][l] = lines[h][l]
       /\ Sealed(h) => Sealed(h)' /\ timely'[h] = timely[h]

LEMMA PiecesNext ==
  ASSUME Grows, NEW h \in HourIds
  PROVE  Pieces(h)' \in Nat
<1>1. /\ lines'[h] \in Seq(AllKinds) /\ torn'[h] \in BOOLEAN
      /\ (torn'[h] => lines'[h] # <<>>)
  BY DEF Grows, WriterInv
<1>2. Len(lines'[h]) \in Nat /\ (lines'[h] # <<>> => Len(lines'[h]) > 0)
  BY <1>1, LenProperties, EmptySeq
<1>3. Pieces(h)' = 2 * Len(lines'[h]) - (IF torn'[h] THEN 1 ELSE 0)
  BY DEF Pieces
<1> QED
  BY <1>1, <1>2, <1>3

LEMMA FileKeeps ==
  ASSUME WriterInv, Grows, NEW file, FileInv(file)
  PROVE  FileInv(file)'
<1> DEFINE h == file.hour
           pos == file.pos
<1>1. h \in HourIds /\ pos \in Nat /\ file \in FileTypes
  BY DEF FileInv, FileTypes
<1>2. /\ Pieces(h) \in Nat /\ Pieces(h)' \in Nat /\ Pieces(h) <= Pieces(h)'
      /\ lines[h] # <<>> => lines'[h] # <<>>
      /\ \A l \in DOMAIN lines[h] : l \in DOMAIN lines'[h] /\ lines'[h][l] = lines[h][l]
      /\ format' = format
  <2>1. Pieces(h) \in Nat
    BY <1>1, PiecesFacts
  <2>2. Pieces(h)' \in Nat
    BY <1>1, PiecesNext
  <2> QED
    BY <1>1, <2>1, <2>2 DEF Grows
<1>3. Clean(h, pos)' => Clean(h, pos)
  BY <1>2 DEF Clean
<1> QED
  BY <1>1, <1>2, <1>3 DEF FileInv, Uploaded

LEMMA OwedIsNat ==
  ASSUME WriterInv, NEW h \in HourIds
  PROVE  \A l \in Owed(h) : l \in Nat \ {0} /\ 2 * l <= Pieces(h)
<1>1. DOMAIN lines[h] \subseteq Nat \ {0}
  <2>1. DOMAIN lines[h] = 1 .. Len(lines[h]) /\ Len(lines[h]) \in Nat
    BY PiecesFacts
  <2> QED
    BY <2>1
<1>2. timely[h] \in Nat /\ Pieces(h) \in Nat /\ 2 * timely[h] <= Pieces(h)
  BY PiecesFacts
<1>3. ASSUME NEW l \in Owed(h) PROVE l \in Nat \ {0} /\ 2 * l <= Pieces(h)
  <2>1. l \in Nat \ {0} /\ l <= timely[h]
    BY <1>1 DEF Owed
  <2> QED
    BY <1>2, <2>1
<1> QED
  BY <1>3

(* A line that was complete before is owed before.                          *)
LEMMA OwedKeeps ==
  ASSUME WriterInv, Grows, NEW h \in HourIds
  PROVE  /\ \A l \in Owed(h)' : l \in Nat /\ (2 * l <= Pieces(h) => l \in Owed(h))
         /\ Sealed(h) => \A l \in Owed(h)' : l \in Owed(h)
<1>1. /\ Len(lines[h]) \in Nat /\ DOMAIN lines[h] = 1 .. Len(lines[h])
      /\ Pieces(h) = 2 * Len(lines[h]) - (IF torn[h] THEN 1 ELSE 0)
      /\ Pieces(h) \in Nat /\ timely[h] \in Nat /\ 2 * timely[h] <= Pieces(h)
  BY PiecesFacts
<1>2. /\ \A l \in DOMAIN lines[h] : l \in DOMAIN lines'[h] /\ lines'[h][l] = lines[h][l]
      /\ format' = format
      /\ Sealed(h) => timely'[h] = timely[h]
  BY DEF Grows
<1>3. DOMAIN lines'[h] \subseteq Nat \ {0}
  <2>1. lines'[h] \in Seq(AllKinds)
    BY DEF Grows, WriterInv
  <2>2. DOMAIN lines'[h] = 1 .. Len(lines'[h]) /\ Len(lines'[h]) \in Nat
    BY <2>1, LenProperties
  <2> QED
    BY <2>2
<1>4. ~Sealed(h) => Pieces(h) <= 2 * timely[h] + 1
  <2>1. now \in Nat /\ h \in Nat /\ Hour \in Nat /\ SkipTime \in Nat
    BY ReaderConstants DEF WriterInv
  <2>2. h * Hour + SkipTime \in Nat
    BY <2>1
  <2>3. ~Sealed(h) => now <= h * Hour + SkipTime
    BY <2>1, <2>2 DEF Sealed
  <2> QED
    BY <2>3 DEF WriterInv
<1>5. ASSUME NEW l \in Owed(h)'
      PROVE  /\ l \in Nat /\ (2 * l <= Pieces(h) => l \in Owed(h))
             /\ Sealed(h) => 2 * l <= Pieces(h)
  <2>1. /\ l \in DOMAIN lines'[h] /\ lines'[h][l] = "event" /\ l <= timely'[h]
        /\ format = "json" => \A k \in 1 .. l - 1 : lines'[h][k] # "junk"
    BY <1>2 DEF Owed
  <2>2. l \in Nat \ {0}
    BY <1>3, <2>1
  <2>3. ASSUME Sealed(h) PROVE 2 * l <= Pieces(h)
    <3>1. l <= timely[h]
      BY <1>2, <2>1, <2>3
    <3>2. PICK t \in Nat, end \in Nat : t = timely[h] /\ end = Pieces(h)
      BY <1>1
    <3>3. l <= t /\ 2 * t <= end
      BY <1>1, <3>1, <3>2
    <3>4. 2 * l <= end
      BY <2>2, <3>3
    <3> QED
      BY <3>2, <3>4
  <2>4. ASSUME 2 * l <= Pieces(h) PROVE l \in Owed(h)
    <3>1. 2 * l <= 2 * Len(lines[h])
      BY <1>1, <2>2, <2>4
    <3>2. l \in DOMAIN lines[h] /\ \A k \in 1 .. l - 1 : k \in DOMAIN lines[h]
      BY <1>1, <2>2, <3>1
    <3>3. lines[h][l] = "event"
      BY <1>2, <2>1, <3>2
    <3>4. format = "json" => \A k \in 1 .. l - 1 : lines[h][k] # "junk"
      BY <1>2, <2>1, <3>2
    <3>5. l <= timely[h]
      <4>1. CASE Sealed(h)
        BY <1>2, <2>1, <4>1
      <4>2. CASE ~Sealed(h)
        <5>1. PICK t \in Nat, end \in Nat : t = timely[h] /\ end = Pieces(h)
          BY <1>1
        <5>2. end <= 2 * t + 1 /\ 2 * l <= end
          BY <1>4, <2>4, <4>2, <5>1
        <5>3. l <= t
          BY <2>2, <5>2
        <5> QED
          BY <5>1, <5>3
      <4> QED
        BY <4>1, <4>2
    <3> QED
      BY <3>2, <3>3, <3>4, <3>5 DEF Owed
  <2> QED
    BY <2>2, <2>3, <2>4
<1> QED
  BY <1>5

LEMMA FoundTypes ==
  ASSUME ShapeInv, FilesInv
  PROVE  /\ Found \in Seq(Entry) /\ Current \in Seq(Entry)
         /\ DOMAIN Found = 1 .. Len(Found) /\ Len(Found) \in Nat
         /\ \A k \in DOMAIN Found :
              Found[k][1] \in HourIds /\ Found[k][2] \in Nat \ {0} /\ Found[k] = <<Found[k][1], Found[k][2]>>
<1>1. Current \in Seq(Entry)
  <2>1. CASE Scanning /\ scanned < Len(files)
    <3>1. scanned \in Nat /\ files \in Seq(FileTypes) /\ Len(files) \in Nat
      BY LenProperties DEF ShapeInv, FilesInv
    <3>2. scanned + 1 \in 1 .. Len(files)
      BY <2>1, <3>1
    <3>3. files[scanned + 1] \in FileTypes
      BY <3>1, <3>2, ElementOfSeq
    <3>4. files[scanned + 1].items \in Seq(Entry)
      BY <3>3 DEF FileTypes
    <3> QED
      BY <2>1, <3>4 DEF Current
  <2>2. CASE ~(Scanning /\ scanned < Len(files))
    <3>1. <<>> \in Seq(Entry)
      BY EmptySeq
    <3> QED
      BY <2>2, <3>1, Zenon DEF Current
  <2> QED
    BY <2>1, <2>2
<1>2. Found \in Seq(Entry)
  <2>1. delivered \o items \in Seq(Entry)
    BY ConcatProperties DEF ShapeInv
  <2> QED
    BY <1>1, <2>1, ConcatProperties DEF Found
<1>3. DOMAIN Found = 1 .. Len(Found) /\ Len(Found) \in Nat
  BY <1>2, LenProperties
<1>4. ASSUME NEW k \in DOMAIN Found
      PROVE  Found[k][1] \in HourIds /\ Found[k][2] \in Nat \ {0} /\ Found[k] = <<Found[k][1], Found[k][2]>>
  <2>1. Found[k] \in Entry
    BY <1>2, <1>3, ElementOfSeq
  <2> QED
    BY <2>1 DEF Entry
<1> QED
  BY <1>1, <1>2, <1>3, <1>4

LEMMA WritesKeep ==
  ASSUME LogReaderInv, Grows, UNCHANGED readerVars
  PROVE  LogReaderInv'
<1>1. /\ pc' = pc /\ upcoming' = upcoming /\ nextHour' = nextHour /\ files' = files
      /\ scanned' = scanned /\ items' = items /\ ids' = ids /\ delivered' = delivered
  BY DEF readerVars
<1>2. WriterInv /\ ShapeInv /\ FilesInv /\ FoundInv /\ ReadInv /\ WriterInv'
  BY DEF LogReaderInv, Grows
<1>3. ShapeInv'
  BY <1>1, <1>2 DEF ShapeInv
<1>4. Found' = Found /\ \A h : Opened(h)' = Opened(h)
  BY <1>1, Zenon DEF Found, Current, Opened, Scanning
<1>5. FilesInv'
  <2>1. ASSUME NEW i \in DOMAIN files PROVE FileInv(files[i])'
    <3>1. FileInv(files[i])
      BY <1>2 DEF FilesInv
    <3> DEFINE file == files[i]
    <3>2. PICK f : f = file
      OBVIOUS
    <3>3. FileInv(f)'
      BY <1>2, <3>1, <3>2, FileKeeps
    <3> QED
      BY <1>1, <3>2, <3>3 DEF FileInv
  <2>2. ASSUME NEW h \in ids
        PROVE  \E i \in DOMAIN files : files[i].hour = h /\ Sealed(h)' /\ \A l \in Owed(h)' : 2 * l <= files[i].pos
    <3>1. PICK i \in DOMAIN files : files[i].hour = h /\ Sealed(h) /\ \A l \in Owed(h) : 2 * l <= files[i].pos
      BY <1>2 DEF FilesInv
    <3>2. h \in HourIds
      BY <1>2, <3>1 DEF FilesInv, FileInv, FileTypes
    <3>3. Sealed(h)' /\ \A l \in Owed(h)' : l \in Owed(h)
      BY <1>2, <3>1, <3>2, OwedKeeps DEF Grows
    <3> QED
      BY <3>1, <3>3
  <2> QED
    BY <1>1, <1>2, <1>4, <2>1, <2>2 DEF FilesInv, Scanning
<1>6. \A h \in HourIds, l \in Nat : IsFound(h, l)' <=> IsFound(h, l)
  BY <1>4, Zenon DEF IsFound
<1>7. \A k \in DOMAIN Found : Found[k][1] \in HourIds /\ Found[k][2] \in Nat
  BY <1>2, FoundTypes
<1> DEFINE F == Found
<1>8. FoundInv'
  <2>1. ASSUME NEW k \in DOMAIN F, NEW h \in HourIds, NEW l \in Nat, F[k][1] = h, F[k][2] = l
        PROVE  Opened(h)' /\ l \in DOMAIN lines'[h] /\ lines'[h][l] = "event" /\ 2 * l <= Pieces(h)'
    <3>1. Opened(h) /\ l \in DOMAIN lines[h] /\ lines[h][l] = "event" /\ 2 * l <= Pieces(h)
      BY <1>2, <2>1 DEF FoundInv
    <3>2. l \in DOMAIN lines'[h] /\ lines'[h][l] = "event" /\ Pieces(h) <= Pieces(h)'
      BY <3>1 DEF Grows
    <3>3. Pieces(h) \in Nat /\ Pieces(h)' \in Nat
      BY <1>2, PiecesFacts, PiecesNext
    <3>4. 2 * l <= Pieces(h)'
      BY <3>1, <3>2, <3>3
    <3> QED
      BY <1>4, <3>1, <3>2, <3>4
  <2>2. \A j, k \in DOMAIN F : j < k /\ F[j][1] = F[k][1] => F[j][2] < F[k][2]
    BY <1>2 DEF FoundInv
  <2>3. \A k \in DOMAIN F : \E h \in HourIds, l \in Nat :
          /\ F[k][1] = h /\ F[k][2] = l
          /\ Opened(h)' /\ l \in DOMAIN lines'[h] /\ lines'[h][l] = "event" /\ 2 * l <= Pieces(h)'
    <3> TAKE k \in DOMAIN F
    <3>1. PICK h \in HourIds, l \in Nat : F[k][1] = h /\ F[k][2] = l
      BY <1>7
    <3> QED
      BY <2>1, <3>1
  <2>4. F' = F
    BY <1>4
  <2> HIDE DEF F
  <2>5. (/\ \A k \in DOMAIN F :
             /\ Opened(F[k][1]) /\ F[k][2] \in DOMAIN lines[F[k][1]]
             /\ lines[F[k][1]][F[k][2]] = "event" /\ 2 * F[k][2] <= Pieces(F[k][1])
         /\ \A j, k \in DOMAIN F : j < k /\ F[j][1] = F[k][1] => F[j][2] < F[k][2])'
    BY <2>2, <2>3, <2>4
  <2> QED
    BY <2>5 DEF F, FoundInv
<1>9. ASSUME NEW i \in DOMAIN files, NEW h, NEW pos, h = files[i].hour, pos = files[i].pos
      PROVE  /\ \A k \in DOMAIN Found : Found[k][1] = h => 2 * Found[k][2] <= pos
             /\ \A l \in Owed(h)' : 2 * l <= pos => IsFound(h, l)'
  <2>1. /\ \A k \in DOMAIN Found : Found[k][1] = h => 2 * Found[k][2] <= pos
        /\ \A l \in Owed(h) : 2 * l <= pos => IsFound(h, l)
    BY <1>2, <1>9 DEF ReadInv
  <2>2. FileInv(files[i])
    BY <1>2 DEF FilesInv
  <2>3. h \in HourIds /\ pos \in Nat /\ pos <= Pieces(h) /\ Pieces(h) \in Nat
    BY <1>2, <1>9, <2>2, PiecesFacts DEF FileInv, FileTypes
  <2>4. ASSUME NEW l \in Owed(h)', 2 * l <= pos PROVE IsFound(h, l)'
    <3>1. l \in Nat /\ (2 * l <= Pieces(h) => l \in Owed(h))
      BY <1>2, <2>3, OwedKeeps
    <3>2. l \in Owed(h)
      BY <2>3, <2>4, <3>1
    <3> QED
      BY <1>6, <2>1, <2>3, <2>4, <3>1, <3>2
  <2> QED
    BY <2>1, <2>4
<1>10. ASSUME NEW h \in HourIds, Opened(h), \A i \in DOMAIN files : files[i].hour # h
       PROVE  Sealed(h)' /\ \A l \in Owed(h)' : IsFound(h, l)'
  <2>1. Sealed(h) /\ \A l \in Owed(h) : IsFound(h, l)
    BY <1>2, <1>10 DEF ReadInv
  <2>2. Sealed(h)' /\ \A l \in Owed(h)' : l \in Nat /\ l \in Owed(h)
    BY <1>2, <2>1, OwedKeeps DEF Grows
  <2> QED
    BY <1>6, <2>1, <2>2
<1>11. ReadInv'
  BY <1>1, <1>4, <1>9, <1>10, Zenon DEF ReadInv
<1> QED
  BY <1>2, <1>3, <1>5, <1>8, <1>11 DEF LogReaderInv

(* What is written to one file makes the files grow: n of its lines are     *)
(* complete then.                                                           *)
LEMMA OneFileGrows ==
  ASSUME WriterInv, NEW h \in HourIds,
         now' = now, format' = format,
         NEW content \in Seq(AllKinds), NEW half \in BOOLEAN, NEW n \in Nat,
         lines' = [lines EXCEPT ![h] = content], torn' = [torn EXCEPT ![h] = half],
         timely' = [timely EXCEPT ![h] = IF now <= h * Hour + SkipTime THEN n ELSE timely[h]],
         content # <<>>, half => ~Uploaded, Uploaded => lines[h] = <<>>,
         format = "csv" => content[1] = "header",
         Len(lines[h]) <= Len(content),
         \A l \in 1 .. Len(lines[h]) : content[l] = lines[h][l],
         Pieces(h) <= 2 * Len(content) - (IF half THEN 1 ELSE 0),
         n = Len(content) - (IF half THEN 1 ELSE 0)
  PROVE  Grows
<1>1. /\ lines \in [HourIds -> Seq(AllKinds)] /\ torn \in [HourIds -> BOOLEAN]
      /\ timely \in [HourIds -> Nat]
      /\ now \in Nat /\ format \in AllFormats
      /\ \A g \in HourIds : /\ torn[g] => lines[g] # <<>> /\ ~Uploaded
                            /\ format = "csv" /\ lines[g] # <<>> => lines[g][1] = "header"
                            /\ 2 * timely[g] <= Pieces(g)
                            /\ now <= g * Hour + SkipTime => Pieces(g) <= 2 * timely[g] + 1
  BY DEF WriterInv
<1> DEFINE in == now <= h * Hour + SkipTime
           count == IF in THEN n ELSE timely[h]
<1>2. /\ lines' \in [HourIds -> Seq(AllKinds)] /\ torn' \in [HourIds -> BOOLEAN]
      /\ lines'[h] = content /\ torn'[h] = half
      /\ \A g \in HourIds \ {h} : lines'[g] = lines[g] /\ torn'[g] = torn[g]
  BY <1>1
<1>3. timely' \in [HourIds -> Nat] /\ timely'[h] = count
      /\ \A g \in HourIds \ {h} : timely'[g] = timely[g]
  BY <1>1
<1>4. Uploaded' <=> Uploaded
  BY DEF Uploaded
<1>5. /\ Len(lines[h]) \in Nat /\ DOMAIN lines[h] = 1 .. Len(lines[h]) /\ Pieces(h) \in Nat
      /\ Len(content) \in Nat /\ DOMAIN content = 1 .. Len(content)
  BY PiecesFacts, LenProperties
<1>6. Pieces(h)' = 2 * Len(content) - (IF half THEN 1 ELSE 0)
  BY <1>2 DEF Pieces
<1>7. Pieces(h) <= Pieces(h)' /\ Pieces(h)' \in Int /\ 2 * n <= Pieces(h)' /\ Pieces(h)' <= 2 * n + 1
  <2>1. PICK size \in Nat : size = Len(content)
    BY <1>5
  <2>2. PICK end : end = 2 * size - (IF half THEN 1 ELSE 0)
    OBVIOUS
  <2>3. n = size - (IF half THEN 1 ELSE 0) /\ Pieces(h)' = end /\ Pieces(h) <= end
    BY <1>6, <2>1, <2>2
  <2>4. end \in Int /\ 2 * n <= end /\ end <= 2 * n + 1
    BY <2>2, <2>3
  <2> QED
    BY <2>3, <2>4
<1>8. ASSUME NEW g \in HourIds, g # h
      PROVE  /\ Pieces(g)' = Pieces(g) /\ (Sealed(g)' <=> Sealed(g))
             /\ lines'[g] = lines[g] /\ torn'[g] = torn[g] /\ timely'[g] = timely[g]
  <2>1. lines'[g] = lines[g] /\ torn'[g] = torn[g] /\ timely'[g] = timely[g]
    BY <1>2, <1>3, <1>8
  <2> QED
    BY <1>4, <2>1, Zenon DEF Pieces, Sealed
<1>9. 2 * count <= Pieces(h)' /\ (in => Pieces(h)' <= 2 * count + 1)
  <2>1. timely[h] \in Nat /\ 2 * timely[h] <= Pieces(h)
    BY <1>1
  <2>2. CASE in
    BY <1>7, <2>2
  <2>3. CASE ~in
    <3>1. 2 * timely[h] <= Pieces(h)'
      <4>1. PICK t \in Nat, old \in Nat, end \in Int :
              t = timely[h] /\ old = Pieces(h) /\ end = Pieces(h)'
        BY <1>5, <1>7, <2>1
      <4>2. 2 * t <= old /\ old <= end
        BY <1>7, <2>1, <4>1
      <4>3. 2 * t <= end
        BY <4>2
      <4> QED
        BY <4>1, <4>3
    <3> QED
      BY <2>3, <3>1
  <2> QED
    BY <2>2, <2>3
<1> HIDE DEF count
<1>10. ASSUME NEW g \in HourIds
       PROVE  /\ torn'[g] => lines'[g] # <<>> /\ ~Uploaded
              /\ format = "csv" /\ lines'[g] # <<>> => lines'[g][1] = "header"
              /\ 2 * timely'[g] <= Pieces(g)'
              /\ now <= g * Hour + SkipTime => Pieces(g)' <= 2 * timely'[g] + 1
  <2>1. CASE g = h
    BY <1>2, <1>3, <1>9, <2>1
  <2>2. CASE g # h
    BY <1>1, <1>2, <1>8, <2>2
  <2> QED
    BY <2>1, <2>2
<1>11. WriterInv'
  BY <1>1, <1>2, <1>3, <1>4, <1>10 DEF WriterInv
<1>12. \A l \in DOMAIN lines[h] : l \in DOMAIN content /\ content[l] = lines[h][l]
  <2>1. PICK size \in Nat, old \in Nat : size = Len(content) /\ old = Len(lines[h])
    BY <1>5
  <2>2. \A l \in 1 .. old : l \in 1 .. size
    BY <2>1
  <2> QED
    BY <1>5, <2>1, <2>2
<1>13. Sealed(h) => Sealed(h)' /\ timely'[h] = timely[h]
  <2>1. now \in Nat /\ h \in Nat /\ Hour \in Nat /\ SkipTime \in Nat
    BY <1>1, ReaderConstants
  <2>2. h * Hour + SkipTime \in Nat
    BY <2>1
  <2> SUFFICES ASSUME Sealed(h) PROVE Sealed(h)' /\ timely'[h] = timely[h]
    OBVIOUS
  <2>3. now > h * Hour + SkipTime
    BY DEF Sealed
  <2>4. ~in
    BY <2>1, <2>2, <2>3
  <2> QED
    BY <1>3, <2>3, <2>4 DEF Sealed, count
<1>14. \A g \in HourIds : Pieces(g) \in Nat /\ Pieces(g) <= Pieces(g)
  <2> TAKE g \in HourIds
  <2>1. Pieces(g) \in Nat
    BY PiecesFacts
  <2> QED
    BY <2>1
<1>15. ASSUME NEW g \in HourIds
       PROVE  /\ Pieces(g) <= Pieces(g)'
              /\ lines[g] # <<>> => lines'[g] # <<>>
              /\ \A l \in DOMAIN lines[g] : l \in DOMAIN lines'[g] /\ lines'[g][l] = lines[g][l]
              /\ Sealed(g) => Sealed(g)' /\ timely'[g] = timely[g]
  <2>1. CASE g = h
    <3>1. lines'[h] # <<>>
      BY <1>2
    <3>2. \A l \in DOMAIN lines[h] : l \in DOMAIN lines'[h] /\ lines'[h][l] = lines[h][l]
      BY <1>2, <1>12
    <3>3. Pieces(g) = Pieces(h) /\ Pieces(g)' = Pieces(h)' /\ (Sealed(g) <=> Sealed(h))
          /\ (Sealed(g)' <=> Sealed(h)')
      BY <2>1
    <3> QED
      BY <1>7, <1>13, <2>1, <3>1, <3>2, <3>3
  <2>2. CASE g # h
    BY <1>8, <1>14, <2>2
  <2> QED
    BY <2>1, <2>2
<1> QED
  BY <1>11, <1>15 DEF Grows

LEMMA WriteGrows == ASSUME WriterInv, Write PROVE Grows /\ UNCHANGED readerVars
<1>1. PICK h \in HourIds : \/ \E kind \in Kinds \cup {"header"}, half \in BOOLEAN : WriteLine(h, kind, half)
                          \/ FinishLine(h)
                          \/ Upload(h)
  BY DEF Write
<1>2. /\ lines[h] \in Seq(AllKinds) /\ Len(lines[h]) \in Nat /\ DOMAIN lines[h] = 1 .. Len(lines[h])
      /\ Pieces(h) = 2 * Len(lines[h]) - (IF torn[h] THEN 1 ELSE 0)
      /\ lines \in [HourIds -> Seq(AllKinds)] /\ torn \in [HourIds -> BOOLEAN]
      /\ torn[h] => lines[h] # <<>> /\ ~Uploaded
      /\ format = "csv" /\ lines[h] # <<>> => lines[h][1] = "header"
  BY PiecesFacts DEF WriterInv
<1>3. ASSUME NEW n, Complete(h, n)
      PROVE  timely' = [timely EXCEPT ![h] = IF now <= h * Hour + SkipTime THEN n ELSE timely[h]]
  BY <1>3 DEF Complete
<1>4. ASSUME NEW kind \in Kinds \cup {"header"}, NEW half \in BOOLEAN, WriteLine(h, kind, half)
      PROVE  Grows /\ UNCHANGED readerVars
  <2>1. /\ ~Uploaded /\ ~torn[h]
        /\ (kind = "header") <=> (format = "csv" /\ lines[h] = <<>>)
        /\ lines' = [lines EXCEPT ![h] = Append(lines[h], kind)]
        /\ torn' = [torn EXCEPT ![h] = half]
        /\ now' = now /\ format' = format /\ UNCHANGED readerVars
        /\ Complete(h, IF half THEN Len(lines[h]) ELSE Len(lines[h]) + 1)
    BY <1>2, <1>4 DEF WriteLine
  <2> DEFINE content == Append(lines[h], kind)
  <2>2. kind \in AllKinds
    BY DEF AllKinds
  <2>3. /\ content \in Seq(AllKinds) /\ content # <<>> /\ Len(content) = Len(lines[h]) + 1
        /\ \A l \in 1 .. Len(lines[h]) : content[l] = lines[h][l]
        /\ content[Len(lines[h]) + 1] = kind
    BY <1>2, <2>2, AppendProperties
  <2> HIDE DEF content
  <2>4. format = "csv" => content[1] = "header"
    <3>1. CASE lines[h] = <<>>
      <4>1. Len(lines[h]) = 0
        BY <3>1
      <4>2. content[0 + 1] = kind
        BY <2>3, <4>1
      <4> QED
        BY <2>1, <3>1, <4>2
    <3>2. CASE lines[h] # <<>>
      <4>1. 1 \in 1 .. Len(lines[h])
        BY <1>2, <3>2, EmptySeq
      <4> QED
        BY <1>2, <2>3, <3>2, <4>1
    <3> QED
      BY <3>1, <3>2
  <2>5. Len(lines[h]) <= Len(content) /\ Pieces(h) <= 2 * Len(content) - (IF half THEN 1 ELSE 0)
    BY <1>2, <2>1, <2>3
  <2> DEFINE n == IF half THEN Len(lines[h]) ELSE Len(lines[h]) + 1
  <2>6. n \in Nat /\ n = Len(content) - (IF half THEN 1 ELSE 0)
    BY <1>2, <2>3
  <2>7. lines' = [lines EXCEPT ![h] = content]
    BY <2>1 DEF content
  <2>8. timely' = [timely EXCEPT ![h] = IF now <= h * Hour + SkipTime THEN n ELSE timely[h]]
    BY <1>3, <2>1
  <2> HIDE DEF n
  <2> QED
    BY <2>1, <2>3, <2>4, <2>5, <2>6, <2>7, <2>8, OneFileGrows
<1>5. CASE FinishLine(h)
  <2>1. /\ torn[h] /\ torn' = [torn EXCEPT ![h] = FALSE] /\ Complete(h, Len(lines[h]))
        /\ now' = now /\ format' = format /\ lines' = lines /\ UNCHANGED readerVars
    BY <1>5 DEF FinishLine
  <2>2. lines' = [lines EXCEPT ![h] = lines[h]]
    BY <1>2, <2>1
  <2>3. Pieces(h) <= 2 * Len(lines[h]) - (IF FALSE THEN 1 ELSE 0) /\ Len(lines[h]) <= Len(lines[h])
    BY <1>2, <2>1
  <2> DEFINE n == Len(lines[h])
  <2>4. n \in Nat /\ n = Len(lines[h]) - (IF FALSE THEN 1 ELSE 0)
    BY <1>2
  <2>5. timely' = [timely EXCEPT ![h] = IF now <= h * Hour + SkipTime THEN n ELSE timely[h]]
    BY <1>3, <2>1
  <2> HIDE DEF n
  <2> QED
    BY <1>2, <2>1, <2>2, <2>3, <2>4, <2>5, OneFileGrows
<1>6. CASE Upload(h)
  <2>1. PICK content \in UNION {[1 .. n -> Kinds] : n \in 1 .. MaxLines} :
             lines' = [lines EXCEPT ![h] = content] /\ Complete(h, Len(content))
    BY <1>6 DEF Upload
  <2>2. /\ Uploaded /\ lines[h] = <<>>
        /\ now' = now /\ format' = format /\ torn' = torn /\ UNCHANGED readerVars
    BY <1>6 DEF Upload, Writable
  <2>3. PICK n \in 1 .. MaxLines : content \in [1 .. n -> Kinds]
    BY <2>1
  <2>4. n \in Nat /\ n > 0
    BY ReaderAssumption
  <2>5. content \in Seq(AllKinds) /\ Len(content) = n
    BY <2>3, <2>4 DEF AllKinds
  <2>6. content # <<>> /\ Len(lines[h]) = 0
    BY <2>2, <2>4, <2>5
  <2>7. torn[h] = FALSE
    BY <1>2, <2>2
  <2>8. torn' = [torn EXCEPT ![h] = FALSE]
    BY <1>2, <2>2, <2>7
  <2>9. Len(lines[h]) <= Len(content) /\ Pieces(h) <= 2 * Len(content) - (IF FALSE THEN 1 ELSE 0)
        /\ \A l \in 1 .. Len(lines[h]) : content[l] = lines[h][l]
    BY <1>2, <2>4, <2>5, <2>6, <2>7
  <2>10. timely' = [timely EXCEPT ![h] = IF now <= h * Hour + SkipTime THEN n ELSE timely[h]]
    BY <1>3, <2>1, <2>5
  <2>11. n = Len(content) - (IF FALSE THEN 1 ELSE 0) /\ n \in Nat /\ format # "csv"
    BY <2>2, <2>4, <2>5 DEF Uploaded
  <2> QED
    BY <2>1, <2>2, <2>5, <2>6, <2>8, <2>9, <2>10, <2>11, OneFileGrows
<1> QED
  BY <1>1, <1>4, <1>5, <1>6

LEMMA TickGrows == ASSUME WriterInv, Tick \/ UNCHANGED vars PROVE Grows /\ UNCHANGED readerVars
<1>1. /\ now' = now \/ now' = now + 1
      /\ format' = format /\ lines' = lines /\ torn' = torn /\ timely' = timely
      /\ UNCHANGED readerVars
  BY DEF Tick, vars, written
<1>2. now \in Nat /\ now' \in Nat /\ now <= now'
  BY <1>1 DEF WriterInv
<1>3. WriterInv'
  <2>1. \A h \in HourIds : Pieces(h)' = Pieces(h)
    BY <1>1 DEF Pieces
  <2>2. Uploaded' <=> Uploaded
    BY <1>1 DEF Uploaded
  <2>3. ASSUME NEW h \in HourIds, now' <= h * Hour + SkipTime PROVE now <= h * Hour + SkipTime
    <3>1. h \in Nat /\ Hour \in Nat /\ SkipTime \in Nat
      BY ReaderConstants
    <3>2. h * Hour + SkipTime \in Nat
      BY <3>1
    <3> QED
      BY <1>2, <2>3, <3>2
  <2> QED
    BY <1>1, <1>2, <2>1, <2>2, <2>3 DEF WriterInv
<1>4. ASSUME NEW h \in HourIds
      PROVE  Pieces(h)' = Pieces(h) /\ Pieces(h) \in Nat /\ (Sealed(h) => Sealed(h)')
  <2>1. Pieces(h)' = Pieces(h) /\ Pieces(h) \in Nat
    BY <1>1, PiecesFacts DEF Pieces
  <2>2. h \in Nat /\ Hour \in Nat /\ SkipTime \in Nat
    BY ReaderConstants
  <2> DEFINE end == h * Hour + SkipTime
  <2>3. end \in Nat
    BY <2>2
  <2>4. (Sealed(h) <=> now > end \/ (Uploaded /\ lines[h] # <<>>))
        /\ (Sealed(h)' <=> now' > end \/ (Uploaded /\ lines[h] # <<>>))
    BY <1>1, Zenon DEF Sealed, Uploaded
  <2> HIDE DEF end
  <2> QED
    BY <1>2, <2>1, <2>3, <2>4
<1>5. \A h \in HourIds : Pieces(h) <= Pieces(h)'
  BY <1>4
<1> QED
  BY <1>1, <1>3, <1>4, <1>5 DEF Grows

-----------------------------------------------------------------------------
(* The invariant at the start and in the steps of the reader.               *)

LEMMA InitHolds == Init => LogReaderInv
<1> SUFFICES ASSUME Init PROVE LogReaderInv
  OBVIOUS
<1>1. /\ now = 0 /\ format \in AllFormats
      /\ lines = [h \in HourIds |-> <<>>] /\ torn = [h \in HourIds |-> FALSE]
      /\ timely = [h \in HourIds |-> 0]
      /\ pc = "idle" /\ upcoming = 0 /\ nextHour = 1
      /\ files = <<>> /\ scanned = 0 /\ items = <<>> /\ ids = {} /\ delivered = <<>>
  BY ReaderConstants DEF Init
<1>2. <<>> \in Seq(AllKinds) /\ <<>> \in Seq(Entry) /\ <<>> \in Seq(FileTypes)
  BY EmptySeq
<1>3. WriterInv
  <2>1. lines \in [HourIds -> Seq(AllKinds)] /\ torn \in [HourIds -> BOOLEAN]
    BY <1>1, <1>2
  <2>2. \A h \in HourIds : ~torn[h] /\ lines[h] = <<>> /\ timely[h] = 0
    BY <1>1
  <2>3. \A h \in HourIds : Pieces(h) = 0
    BY <2>2 DEF Pieces
  <2>4. timely \in [HourIds -> Nat]
    BY <1>1
  <2> QED
    BY <1>1, <2>1, <2>2, <2>3, <2>4 DEF WriterInv
<1>4. ShapeInv
  BY <1>1, <1>2 DEF ShapeInv, None
<1>5. DOMAIN files = {}
  BY <1>1
<1>6. FilesInv
  BY <1>1, <1>2, <1>5 DEF FilesInv
<1>7. Found = <<>>
  <2>1. Current = <<>>
    BY <1>1 DEF Current, Scanning
  <2>2. <<>> \o <<>> = <<>>
    BY <1>2, ConcatEmptySeq
  <2> QED
    BY <1>1, <2>1, <2>2 DEF Found
<1>8. DOMAIN Found = {}
  BY <1>7
<1>9. \A h \in HourIds : ~Opened(h)
  BY <1>1, ReaderConstants DEF Opened
<1>10. FoundInv
  BY <1>8 DEF FoundInv
<1>11. ReadInv
  BY <1>5, <1>9 DEF ReadInv
<1> QED
  BY <1>3, <1>4, <1>6, <1>10, <1>11 DEF LogReaderInv

LEMMA SameWritten ==
  ASSUME WriterInv, UNCHANGED <<now, written>>
  PROVE  /\ WriterInv'
         /\ \A h : /\ Pieces(h)' = Pieces(h) /\ Owed(h)' = Owed(h) /\ (Sealed(h)' <=> Sealed(h))
                   /\ lines'[h] = lines[h]
<1>1. now' = now /\ format' = format /\ lines' = lines /\ torn' = torn /\ timely' = timely
  BY DEF written
<1>2. WriterInv'
  BY <1>1 DEF WriterInv, Pieces, Uploaded
<1>3. ASSUME NEW h
      PROVE  Pieces(h)' = Pieces(h) /\ Owed(h)' = Owed(h) /\ (Sealed(h)' <=> Sealed(h))
  BY <1>1, Zenon DEF Pieces, Owed, Sealed, Uploaded
<1> QED
  BY <1>1, <1>2, <1>3

LEMMA SameFile ==
  ASSUME UNCHANGED <<now, written>>, NEW f
  PROVE  FileInv(f)' <=> FileInv(f)
<1>1. now' = now /\ format' = format /\ lines' = lines /\ torn' = torn
  BY DEF written
<1> QED
  BY <1>1, Zenon DEF FileInv, Pieces, Clean, Uploaded

(* A pass that goes on without reading keeps what was found.                *)
LEMMA NothingRead ==
  ASSUME LogReaderInv, UNCHANGED <<now, written, upcoming, nextHour>>,
         Found' = Found, DOMAIN files' = DOMAIN files,
         \A j \in DOMAIN files : files'[j].hour = files[j].hour /\ files'[j].pos = files[j].pos
  PROVE  FoundInv' /\ ReadInv'
<1>1. WriterInv /\ FoundInv /\ ReadInv
  BY DEF LogReaderInv
<1>2. UNCHANGED <<now, written>> /\ upcoming' = upcoming /\ nextHour' = nextHour
  BY DEF written
<1>3. \A h : /\ Pieces(h)' = Pieces(h) /\ Owed(h)' = Owed(h) /\ (Sealed(h)' <=> Sealed(h))
             /\ lines'[h] = lines[h]
  BY <1>1, <1>2, SameWritten
<1>4. lines' = lines /\ torn' = torn
  BY DEF written
<1>5. \A h, l : IsFound(h, l)' <=> IsFound(h, l)
  BY Zenon DEF IsFound
<1>6. \A h : Opened(h)' <=> Opened(h)
  BY <1>2, Zenon DEF Opened
<1>7. FoundInv'
  BY <1>1, <1>2, <1>4, Zenon DEF FoundInv, Opened, Pieces
<1>8. ASSUME NEW j \in DOMAIN files, NEW h, NEW pos, h = files[j].hour, pos = files[j].pos
      PROVE  /\ \A k \in DOMAIN Found : Found[k][1] = h => 2 * Found[k][2] <= pos
             /\ \A l \in Owed(h)' : 2 * l <= pos => IsFound(h, l)'
  BY <1>1, <1>3, <1>5, <1>8, Zenon DEF ReadInv
<1>9. ASSUME NEW h \in HourIds, Opened(h), \A j \in DOMAIN files : files[j].hour # h
      PROVE  Sealed(h)' /\ \A l \in Owed(h)' : IsFound(h, l)'
  BY <1>1, <1>3, <1>5, <1>9, Zenon DEF ReadInv
<1>10. ReadInv'
  BY <1>6, <1>8, <1>9, Zenon DEF ReadInv
<1> QED
  BY <1>7, <1>10

(* A line that is read adds to what was found, at the end of it.            *)
LEMMA LineRead ==
  ASSUME LogReaderInv, UNCHANGED <<now, written, upcoming, nextHour>>,
         NEW i \in DOMAIN files, NEW g, Steps(files[i], g),
         DOMAIN files' = DOMAIN files,
         files'[i].hour = files[i].hour, files'[i].pos = g.pos,
         \A j \in DOMAIN files \ {i} :
           files'[j].hour = files[j].hour /\ files'[j].pos = files[j].pos,
         g.items = files[i].items => Found' = Found,
         \A x \in Entry : g.items = Append(files[i].items, x) => Found' = Append(Found, x)
  PROVE  FoundInv' /\ ReadInv'
<1> DEFINE file == files[i]
<1>1. WriterInv /\ FoundInv /\ ReadInv /\ FilesInv /\ ShapeInv
  BY DEF LogReaderInv
<1>2. UNCHANGED <<now, written>> /\ upcoming' = upcoming /\ nextHour' = nextHour
  BY DEF written
<1>3. \A h : /\ Pieces(h)' = Pieces(h) /\ Owed(h)' = Owed(h) /\ (Sealed(h)' <=> Sealed(h))
             /\ lines'[h] = lines[h]
  BY <1>1, <1>2, SameWritten
<1>4. \A h : Opened(h)' <=> Opened(h)
  BY <1>2, Zenon DEF Opened
<1>5. PICK f : f = file
  OBVIOUS
<1>6. PICK F : F = Found
  OBVIOUS
<1>7. PICK h : h = f.hour
  OBVIOUS
<1>8. /\ FileInv(f) /\ FileInv(g) /\ Opened(h) /\ g.hour = h /\ f.pos < g.pos /\ Adds(f, g)
      /\ files[i].hour = h /\ files[i].pos = f.pos
  BY <1>1, <1>5, <1>7 DEF Steps, FilesInv
<1>9. h \in HourIds /\ f.pos \in Nat /\ g.pos \in Nat /\ g.pos <= Pieces(h) /\ Pieces(h) \in Nat
      /\ \A l \in Owed(h) : l \in Nat \ {0}
  BY <1>1, <1>7, <1>8, PiecesFacts, OwedIsNat DEF FileInv, FileTypes
<1>10. /\ F \in Seq(Entry) /\ DOMAIN F = 1 .. Len(F) /\ Len(F) \in Nat
       /\ \A k \in DOMAIN F : /\ F[k][1] \in HourIds /\ F[k][2] \in Nat \ {0}
                              /\ F[k] = <<F[k][1], F[k][2]>>
  BY <1>1, <1>6, FoundTypes
<1>11. /\ \A k \in DOMAIN F : /\ Opened(F[k][1]) /\ F[k][2] \in DOMAIN lines[F[k][1]]
                              /\ lines[F[k][1]][F[k][2]] = "event"
                              /\ 2 * F[k][2] <= Pieces(F[k][1])
       /\ \A j, k \in DOMAIN F : j < k /\ F[j][1] = F[k][1] => F[j][2] < F[k][2]
  BY <1>1, <1>6 DEF FoundInv
<1>12. /\ \A j \in DOMAIN files, k \in DOMAIN F :
             F[k][1] = files[j].hour => 2 * F[k][2] <= files[j].pos
       /\ \A j \in DOMAIN files : \A l \in Owed(files[j].hour) :
             2 * l <= files[j].pos => \E k \in DOMAIN F : F[k] = <<files[j].hour, l>>
       /\ \A e \in HourIds : Opened(e) /\ (\A j \in DOMAIN files : files[j].hour # e) =>
             Sealed(e) /\ \A l \in Owed(e) : \E k \in DOMAIN F : F[k] = <<e, l>>
  BY <1>1, <1>6 DEF ReadInv, IsFound
(* What has to be shown of the sequence G that was found then.              *)
<1> DEFINE Right(G) ==
      /\ \A k \in DOMAIN G : /\ Opened(G[k][1]) /\ G[k][2] \in DOMAIN lines[G[k][1]]
                             /\ lines[G[k][1]][G[k][2]] = "event"
                             /\ 2 * G[k][2] <= Pieces(G[k][1])
      /\ \A j, k \in DOMAIN G : j < k /\ G[j][1] = G[k][1] => G[j][2] < G[k][2]
      /\ \A j \in DOMAIN files, k \in DOMAIN G :
            G[k][1] = files[j].hour => 2 * G[k][2] <= files'[j].pos
      /\ \A j \in DOMAIN files : \A l \in Owed(files[j].hour) :
            2 * l <= files'[j].pos => \E k \in DOMAIN G : G[k] = <<files[j].hour, l>>
      /\ \A e \in HourIds : Opened(e) /\ (\A j \in DOMAIN files : files[j].hour # e) =>
            Sealed(e) /\ \A l \in Owed(e) : \E k \in DOMAIN G : G[k] = <<e, l>>
<1>13. \A G : Right(G) /\ Found' = G => FoundInv' /\ ReadInv'
  <2> TAKE G
  <2> SUFFICES ASSUME Right(G), Found' = G PROVE FoundInv' /\ ReadInv'
    OBVIOUS
  <2>1. lines' = lines /\ torn' = torn
    BY DEF written
  <2>2. FoundInv'
    BY <1>2, <2>1, Zenon DEF FoundInv, Opened, Pieces
  <2>3. \A e, l : IsFound(e, l)' <=> \E k \in DOMAIN G : G[k] = <<e, l>>
    BY Zenon DEF IsFound
  <2>4. \A j \in DOMAIN files : files'[j].hour = files[j].hour
    OBVIOUS
  <2>5. ASSUME NEW j \in DOMAIN files, NEW e, NEW pos, e = files[j].hour, pos = files'[j].pos
        PROVE  /\ \A k \in DOMAIN G : G[k][1] = e => 2 * G[k][2] <= pos
               /\ \A l \in Owed(e)' : 2 * l <= pos => IsFound(e, l)'
    BY <1>3, <2>3, <2>5, Zenon
  <2>6. ASSUME NEW e \in HourIds, Opened(e), \A j \in DOMAIN files : files[j].hour # e
        PROVE  Sealed(e)' /\ \A l \in Owed(e)' : IsFound(e, l)'
    BY <1>3, <2>3, <2>6, Zenon
  <2>7. ReadInv'
    BY <1>4, <2>4, <2>5, <2>6, Zenon DEF ReadInv
  <2> QED
    BY <2>2, <2>7
<1>14. \A j \in DOMAIN files : /\ files[j].hour = h => j = i
                               /\ j # i => files'[j].pos = files[j].pos
  BY <1>1, <1>8 DEF FilesInv
<1>15. files'[i].pos = g.pos
  OBVIOUS
<1>16. CASE g.items = f.items /\ \A m \in Owed(h) : 2 * m <= g.pos => 2 * m <= f.pos
  <2>1. \A j \in DOMAIN files, k \in DOMAIN F :
          F[k][1] = files[j].hour => 2 * F[k][2] <= files'[j].pos
    <3> TAKE j \in DOMAIN files, k \in DOMAIN F
    <3>1. CASE j = i
      BY <1>8, <1>9, <1>10, <1>12, <1>15, <3>1
    <3>2. CASE j # i
      BY <1>12, <1>14, <3>2
    <3> QED
      BY <3>1, <3>2
  <2>2. \A j \in DOMAIN files : \A l \in Owed(files[j].hour) :
          2 * l <= files'[j].pos => \E k \in DOMAIN F : F[k] = <<files[j].hour, l>>
    <3> TAKE j \in DOMAIN files
    <3>1. CASE j = i
      BY <1>8, <1>12, <1>15, <1>16, <3>1
    <3>2. CASE j # i
      BY <1>12, <1>14, <3>2
    <3> QED
      BY <3>1, <3>2
  <2>3. Right(F)
    BY <1>11, <1>12, <2>1, <2>2
  <2>4. Found' = F
    BY <1>5, <1>6, <1>16
  <2> HIDE DEF Right
  <2> QED
    BY <1>13, <2>3, <2>4
<1>17. ASSUME NEW m \in DOMAIN lines[h], 2 * m = g.pos, g.pos <= f.pos + 2,
              lines[h][m] = "event", g.items = Append(f.items, <<h, m>>)
       PROVE  FoundInv' /\ ReadInv'
  <2>1. m \in Nat \ {0}
    <3>1. DOMAIN lines[h] = 1 .. Len(lines[h]) /\ Len(lines[h]) \in Nat
      BY <1>1, <1>9, PiecesFacts
    <3> QED
      BY <3>1
  <2> DEFINE x == <<h, m>>
             G == Append(F, x)
  <2>2. x \in Entry /\ x[1] = h /\ x[2] = m
    BY <1>9, <2>1 DEF Entry
  <2> HIDE DEF x
  <2>3. Found' = G
    BY <1>5, <1>6, <1>17, <2>2 DEF x
  <2>4. /\ G \in Seq(Entry) /\ Len(G) = Len(F) + 1 /\ DOMAIN G = 1 .. Len(F) + 1
        /\ \A k \in 1 .. Len(F) : G[k] = F[k]
        /\ G[Len(F) + 1] = x
    BY <1>10, <2>2, AppendProperties, LenProperties
  <2> HIDE DEF G
  <2>5. PICK n : n = Len(F)
    OBVIOUS
  <2>6. /\ DOMAIN G = 1 .. n + 1 /\ DOMAIN F = 1 .. n /\ n \in Nat
        /\ \A k \in 1 .. n : G[k] = F[k]
        /\ G[n + 1][1] = h /\ G[n + 1][2] = m /\ G[n + 1] = <<h, m>>
    BY <1>10, <2>2, <2>4, <2>5 DEF x
  <2>7. \A k \in DOMAIN G : (k \in DOMAIN F /\ G[k] = F[k]) \/ k = n + 1
    BY <2>6
  <2>8. \A k \in DOMAIN F : k \in DOMAIN G /\ G[k] = F[k]
    BY <2>6
  <2>9. \A k \in DOMAIN F : F[k][1] = h => 2 * F[k][2] <= f.pos
    BY <1>8, <1>12
  <2>10. \A k \in DOMAIN G : /\ Opened(G[k][1]) /\ G[k][2] \in DOMAIN lines[G[k][1]]
                             /\ lines[G[k][1]][G[k][2]] = "event"
                             /\ 2 * G[k][2] <= Pieces(G[k][1])
    <3> TAKE k \in DOMAIN G
    <3>1. CASE k \in DOMAIN F /\ G[k] = F[k]
      BY <1>11, <3>1
    <3>2. CASE k = n + 1
      BY <1>8, <1>9, <1>17, <2>6, <3>2
    <3> QED
      BY <2>7, <3>1, <3>2
  <2>11. \A j, k \in DOMAIN G : j < k /\ G[j][1] = G[k][1] => G[j][2] < G[k][2]
    <3> SUFFICES ASSUME NEW j \in DOMAIN G, NEW k \in DOMAIN G, j < k, G[j][1] = G[k][1]
                 PROVE  G[j][2] < G[k][2]
      OBVIOUS
    <3>1. j \in DOMAIN F /\ G[j] = F[j]
      BY <2>6
    <3>2. CASE k \in DOMAIN F /\ G[k] = F[k]
      BY <1>11, <3>1, <3>2
    <3>3. CASE k = n + 1
      <4>1. 2 * F[j][2] <= f.pos /\ F[j][2] \in Nat
        BY <1>10, <2>6, <2>9, <3>1, <3>3
      <4>2. F[j][2] < m
        BY <1>8, <1>9, <1>17, <2>1, <4>1
      <4> QED
        BY <2>6, <3>1, <3>3, <4>2
    <3> QED
      BY <2>7, <3>2, <3>3
  <2>12. \A j \in DOMAIN files, k \in DOMAIN G :
           G[k][1] = files[j].hour => 2 * G[k][2] <= files'[j].pos
    <3> SUFFICES ASSUME NEW j \in DOMAIN files, NEW k \in DOMAIN G, G[k][1] = files[j].hour
                 PROVE  2 * G[k][2] <= files'[j].pos
      OBVIOUS
    <3>1. CASE k = n + 1
      <4>1. j = i /\ 2 * m <= g.pos
        BY <1>9, <1>14, <1>17, <2>1, <2>6, <3>1
      <4> QED
        BY <1>15, <2>6, <3>1, <4>1
    <3>2. CASE k \in DOMAIN F /\ G[k] = F[k] /\ j # i
      BY <1>12, <1>14, <3>2
    <3>3. CASE k \in DOMAIN F /\ G[k] = F[k] /\ j = i
      <4>1. 2 * F[k][2] <= f.pos /\ F[k][2] \in Nat
        BY <1>8, <1>10, <2>9, <3>3
      <4>2. 2 * F[k][2] <= g.pos
        BY <1>8, <1>9, <4>1
      <4> QED
        BY <1>15, <3>3, <4>2
    <3> QED
      BY <2>7, <3>1, <3>2, <3>3
  <2>13. \A j \in DOMAIN files : \A l \in Owed(files[j].hour) :
           2 * l <= files'[j].pos => \E k \in DOMAIN G : G[k] = <<files[j].hour, l>>
    <3> SUFFICES ASSUME NEW j \in DOMAIN files, NEW l \in Owed(files[j].hour), 2 * l <= files'[j].pos
                 PROVE  \E k \in DOMAIN G : G[k] = <<files[j].hour, l>>
      OBVIOUS
    <3>1. CASE 2 * l <= files[j].pos
      BY <1>12, <2>8, <3>1
    <3>2. CASE ~(2 * l <= files[j].pos)
      <4>1. j = i
        BY <1>14, <3>2
      <4>2. l \in Nat /\ 2 * l <= g.pos /\ ~(2 * l <= f.pos)
        BY <1>8, <1>9, <1>15, <3>2, <4>1
      <4>3. l = m
        <5>1. l <= m
          BY <1>17, <2>1, <4>2
        <5>2. m - 1 < l
          BY <1>9, <1>17, <2>1, <4>2
        <5> QED
          BY <2>1, <4>2, <5>1, <5>2
      <4>4. n + 1 \in DOMAIN G
        BY <2>6
      <4> QED
        BY <1>8, <2>6, <4>1, <4>3, <4>4
    <3> QED
      BY <3>1, <3>2
  <2>14. \A e \in HourIds : Opened(e) /\ (\A j \in DOMAIN files : files[j].hour # e) =>
           Sealed(e) /\ \A l \in Owed(e) : \E k \in DOMAIN G : G[k] = <<e, l>>
    BY <1>12, <2>8
  <2>15. Right(G)
    BY <2>10, <2>11, <2>12, <2>13, <2>14
  <2> HIDE DEF Right
  <2> QED
    BY <1>13, <2>3, <2>15
<1>18. \/ g.items = f.items /\ \A m \in Owed(h) : 2 * m <= g.pos => 2 * m <= f.pos
       \/ \E m \in DOMAIN lines[h] :
            /\ 2 * m = g.pos /\ g.pos <= f.pos + 2
            /\ lines[h][m] = "event" /\ g.items = Append(f.items, <<h, m>>)
  BY <1>7, <1>8 DEF Adds
<1> HIDE DEF Right
<1> QED
  BY <1>16, <1>17, <1>18

LEMMA FoundAppend ==
  ASSUME NEW a \in Seq(Entry), NEW b \in Seq(Entry), NEW c \in Seq(Entry), NEW x \in Entry
  PROVE  /\ a \o b \o Append(c, x) = Append(a \o b \o c, x)
         /\ a \o (b \o c) \o <<>> = a \o b \o c
         /\ a \o (b \o Append(c, x)) \o <<>> = Append(a \o b \o c, x)
<1> DEFINE one == <<x>>
<1>1. one \in Seq(Entry) /\ a \o b \in Seq(Entry) /\ a \o b \o c \in Seq(Entry) /\ b \o c \in Seq(Entry)
  BY ConcatProperties
<1>2. Append(c, x) = c \o one /\ Append(a \o b \o c, x) = (a \o b \o c) \o one
  BY <1>1, AppendIsConcat
<1>3. Append(c, x) \in Seq(Entry)
  BY AppendProperties
<1> HIDE DEF one
<1>4. (a \o b) \o (c \o one) = ((a \o b) \o c) \o one
  BY <1>1, ConcatAssociative
<1>5. \A d \in Seq(Entry) : a \o (b \o d) \o <<>> = a \o b \o d
  <2> TAKE d \in Seq(Entry)
  <2>1. b \o d \in Seq(Entry)
    BY ConcatProperties
  <2>2. a \o (b \o d) \in Seq(Entry)
    BY <2>1, ConcatProperties
  <2>3. a \o (b \o d) \o <<>> = a \o (b \o d)
    BY <2>2, ConcatEmptySeq
  <2>4. (a \o b) \o d = a \o (b \o d)
    BY ConcatAssociative
  <2> QED
    BY <2>3, <2>4
<1> QED
  BY <1>2, <1>3, <1>4, <1>5

(* The file that the pass is at.                                            *)
LEMMA AtFile ==
  ASSUME LogReaderInv, pc = "scan", scanned < Len(files)
  PROVE  /\ scanned + 1 \in DOMAIN files /\ FileInv(files[scanned + 1])
         /\ Current = files[scanned + 1].items
         /\ scanned + 1 \in 1 .. Len(files) /\ DOMAIN files = 1 .. Len(files) /\ Len(files) \in Nat
<1>1. files \in Seq(FileTypes) /\ scanned \in Nat
  BY DEF LogReaderInv, FilesInv, ShapeInv
<1>2. DOMAIN files = 1 .. Len(files) /\ Len(files) \in Nat
  BY <1>1, LenProperties
<1>3. scanned + 1 \in DOMAIN files
  BY <1>1, <1>2
<1> QED
  BY <1>2, <1>3, Zenon DEF LogReaderInv, FilesInv, Current, Scanning

(* One file is replaced: no line was taken back.                            *)
LEMMA FileReplaced ==
  ASSUME FilesInv, NEW i \in DOMAIN files, NEW g \in FileTypes, files' = [files EXCEPT ![i] = g]
  PROVE  /\ files' \in Seq(FileTypes) /\ Len(files') = Len(files) /\ DOMAIN files' = DOMAIN files
         /\ files'[i] = g /\ \A j \in DOMAIN files \ {i} : files'[j] = files[j]
<1>1. files \in Seq(FileTypes)
  BY DEF FilesInv
<1>2. DOMAIN files = 1 .. Len(files)
  BY <1>1, LenProperties
<1>3. files' \in Seq(FileTypes) /\ Len(files') = Len(files)
      /\ \A j \in DOMAIN files : files'[j] = IF j = i THEN g ELSE files[j]
  BY <1>1, <1>2, ExceptSeq
<1>4. DOMAIN files' = DOMAIN files
  BY <1>2, <1>3, LenProperties
<1> QED
  BY <1>3, <1>4

LEMMA ConsumeLineKeeps ==
  ASSUME LogReaderInv, ConsumeLine
  PROVE  LogReaderInv'
<1> DEFINE i == scanned + 1
           file == files[i]
           g == ReadFrom(file)
<1>1. /\ pc = "scan" /\ scanned < Len(files) /\ file.pos < Pieces(file.hour)
      /\ files' = [files EXCEPT ![i] = g]
      /\ UNCHANGED <<now, written>> /\ UNCHANGED <<now, written, upcoming, nextHour>>
      /\ pc' = pc /\ upcoming' = upcoming /\ nextHour' = nextHour /\ scanned' = scanned
      /\ items' = items /\ ids' = ids /\ delivered' = delivered
  BY DEF ConsumeLine
<1>2. WriterInv /\ ShapeInv /\ FilesInv
  BY DEF LogReaderInv
<1>3. i \in DOMAIN files /\ FileInv(file) /\ Current = file.items
  BY <1>1, AtFile
<1>4. Steps(file, g)
  BY <1>1, <1>2, <1>3, ReadSteps
<1>5. FileInv(g) /\ g.hour = file.hour /\ g \in FileTypes
  BY <1>4 DEF Steps, FileInv
<1>6. PICK n : n = i
  OBVIOUS
<1>7. n \in DOMAIN files /\ n = scanned + 1 /\ n = scanned' + 1
  BY <1>1, <1>3, <1>6
<1>8. PICK r : r = g
  OBVIOUS
<1>9. FileInv(r) /\ r.hour = files[n].hour /\ r \in FileTypes /\ Steps(files[n], r)
      /\ files' = [files EXCEPT ![n] = r] /\ Current = files[n].items
      /\ files[n].pos < Pieces(files[n].hour)
  BY <1>1, <1>3, <1>4, <1>5, <1>6, <1>8
<1> HIDE DEF i, file, g
<1>10. /\ files' \in Seq(FileTypes) /\ Len(files') = Len(files) /\ DOMAIN files' = DOMAIN files
       /\ files'[n] = r /\ \A j \in DOMAIN files \ {n} : files'[j] = files[j]
  BY <1>2, <1>7, <1>9, FileReplaced
<1>11. ShapeInv'
  BY <1>1, <1>2 DEF ShapeInv
<1>12. WriterInv' /\ \A h : Owed(h)' = Owed(h) /\ (Sealed(h)' <=> Sealed(h))
  BY <1>1, <1>2, SameWritten
<1>13. \A h : Opened(h)' <=> Opened(h)
  BY <1>1, Zenon DEF Opened
<1>14. FilesInv'
  <2>1. ASSUME NEW j \in DOMAIN files, NEW f, f = files'[j]
        PROVE  /\ FileInv(f)' /\ Opened(f.hour)' /\ f.hour = files[j].hour
               /\ f.items # <<>> => Scanning' /\ j = scanned' + 1
    <3>1. CASE j = n
      BY <1>1, <1>2, <1>7, <1>9, <1>10, <1>13, <2>1, <3>1, SameFile DEF FilesInv, Scanning
    <3>2. CASE j # n
      BY <1>1, <1>2, <1>10, <1>13, <2>1, <3>2, SameFile DEF FilesInv, Scanning
    <3> QED
      BY <3>1, <3>2
  <2>2. \A j \in DOMAIN files : files'[j].hour = files[j].hour
    BY <2>1
  <2>3. \A j, k \in DOMAIN files : files'[j].hour = files'[k].hour => j = k
    BY <1>2, <2>2 DEF FilesInv
  <2>4. ASSUME NEW h \in ids
        PROVE  \E j \in DOMAIN files :
                 files'[j].hour = h /\ Sealed(h)' /\ \A l \in Owed(h)' : 2 * l <= files'[j].pos
    <3>1. PICK j \in DOMAIN files : files[j].hour = h /\ Sealed(h) /\ \A l \in Owed(h) : 2 * l <= files[j].pos
      BY <1>2 DEF FilesInv
    <3>2. \A l \in Owed(h) : 2 * l <= files'[j].pos
      <4>1. CASE j = n
        <5>1. h \in HourIds /\ files[j].pos \in Nat /\ r.pos \in Nat /\ files[j].pos < r.pos
          BY <1>2, <1>9, <3>1, <4>1 DEF FilesInv, FileInv, FileTypes, Steps
        <5>2. \A l \in Owed(h) : l \in Nat
          BY <1>2, <5>1, OwedIsNat
        <5>3. files'[j].pos = r.pos
          BY <1>10, <4>1
        <5> QED
          BY <3>1, <5>1, <5>2, <5>3
      <4>2. CASE j # n
        BY <1>10, <3>1, <4>2
      <4> QED
        BY <4>1, <4>2
    <3>3. files'[j].hour = h
      BY <2>2, <3>1
    <3> QED
      BY <1>12, <3>1, <3>2, <3>3
  <2> HIDE DEF FileInv
  <2>5. \A j \in DOMAIN files' :
          /\ FileInv(files[j])' /\ Opened(files[j].hour)'
          /\ files'[j].items # <<>> => Scanning' /\ j = scanned' + 1
    BY <1>10, <2>1
  <2> QED
    BY <1>1, <1>10, <2>3, <2>4, <2>5, Zenon DEF FilesInv
<1>15. Current' = r.items
  <2>1. pc' = "scan" /\ scanned' < Len(files') /\ files'[scanned' + 1] = r
    BY <1>1, <1>7, <1>10
  <2> QED
    BY <2>1 DEF Current, Scanning
<1>16. /\ r.items = files[n].items => Found' = Found
       /\ \A x \in Entry : r.items = Append(files[n].items, x) => Found' = Append(Found, x)
  <2>1. Found' = delivered \o items \o r.items /\ Found = delivered \o items \o files[n].items
    BY <1>1, <1>9, <1>15, Zenon DEF Found
  <2>2. delivered \in Seq(Entry) /\ items \in Seq(Entry) /\ files[n].items \in Seq(Entry)
    BY <1>2, <1>9, FoundTypes DEF ShapeInv
  <2>3. ASSUME NEW x \in Entry, r.items = Append(files[n].items, x)
        PROVE  Found' = Append(Found, x)
    <3> DEFINE c == files[n].items
    <3>1. c \in Seq(Entry) /\ r.items = Append(c, x) /\ Found = delivered \o items \o c
      BY <2>1, <2>2, <2>3
    <3> HIDE DEF c
    <3>2. delivered \o items \o Append(c, x) = Append(delivered \o items \o c, x)
      BY <2>2, <3>1, FoundAppend
    <3> QED
      BY <2>1, <3>1, <3>2
  <2> QED
    BY <2>1, <2>3
<1>17. FoundInv' /\ ReadInv'
  <2>1. \A j \in DOMAIN files \ {n} : files'[j].hour = files[j].hour /\ files'[j].pos = files[j].pos
    BY <1>10
  <2>2. files'[n].hour = files[n].hour /\ files'[n].pos = r.pos
    BY <1>9, <1>10
  <2> QED
    BY <1>1, <1>7, <1>9, <1>10, <1>16, <2>1, <2>2, LineRead
<1> QED
  BY <1>11, <1>12, <1>14, <1>17 DEF LogReaderInv

(* Nothing is in time any more for a file that nothing more is expected of: *)
(* its timeout is later than that.                                          *)
LEMMA NothingExpected ==
  ASSUME WriterInv, NEW file, FileInv(file), ~ExpectMore(file)
  PROVE  Sealed(file.hour)
<1>1. /\ now \in Nat /\ file.hour \in Nat /\ Hour \in Nat
      /\ SkipTime \in Nat /\ Timeout \in Nat /\ SkipTime < Timeout
      /\ lines[file.hour] # <<>>
  BY ReaderConstants DEF WriterInv, FileInv, FileTypes
<1>2. CASE format = "swift"
  BY <1>1, <1>2, Zenon DEF Sealed, Uploaded
<1>3. CASE ~(now <= file.hour * Hour + Timeout)
  <2> DEFINE start == file.hour * Hour
  <2>1. start \in Nat
    BY <1>1
  <2>2. ~(now <= start + Timeout)
    BY <1>3
  <2> HIDE DEF start
  <2>3. now > start + SkipTime
    BY <1>1, <2>1, <2>2
  <2> QED
    BY <2>3 DEF Sealed, start
<1> QED
  BY <1>2, <1>3 DEF ExpectMore

(* A file that is not read on from a half line was read to its end.         *)
LEMMA ReadToHalf ==
  ASSUME WriterInv, NEW file, FileInv(file), file.pos < Pieces(file.hour), StopsAtHalf(file),
         NEW g, Steps(file, g)
  PROVE  g.pos = Pieces(file.hour)
<1> DEFINE h == file.hour
           end == Pieces(h)
           c == Chunk(file.pos, end)
<1>1. h \in HourIds /\ file.pos \in Nat /\ g.pos \in Nat
  BY DEF Steps, FileInv, FileTypes
<1>2. end \in Nat
  BY <1>1, PiecesFacts
<1>3. ~EndsLine(c)
  BY DEF StopsAtHalf, NextChunk
<1>4. file.pos < g.pos /\ g.pos <= end
  BY DEF Steps, FileInv
<1> HIDE DEF end
<1>5. \/ \E k \in Nat : /\ file.pos = 2 * k /\ 2 * k + 2 <= end /\ c = <<2 * k + 1, 2 * k + 2>>
                        /\ Last(c) = 2 * k + 2
      \/ \E k \in Nat : file.pos = 2 * k /\ end = 2 * k + 1 /\ c = <<2 * k + 1>> /\ Last(c) = 2 * k + 1
      \/ \E k \in Nat : file.pos = 2 * k + 1 /\ c = <<2 * k + 2>> /\ Last(c) = 2 * k + 2
  <2>1. file.pos < end
    BY DEF end
  <2> QED
    BY <1>1, <1>2, <2>1, ChunkFacts
<1> HIDE DEF c
<1>6. \A k \in Nat : Last(c) = 2 * k + 2 => EndsLine(c)
  <2> TAKE k \in Nat
  <2>1. (2 * k + 2) % 2 = 0
    <3>1. 2 * k + 2 = 2 * (k + 1) /\ k + 1 \in Nat
      OBVIOUS
    <3> QED
      BY <3>1, EvenOdd
  <2> QED
    BY <2>1 DEF EndsLine
<1>7. PICK k \in Nat : file.pos = 2 * k /\ end = 2 * k + 1
  BY <1>3, <1>5, <1>6
<1>8. g.pos = end
  BY <1>1, <1>4, <1>7
<1> QED
  BY <1>8 DEF end

LEMMA ItemsTaken ==
  ASSUME NEW f, FileInv(f)
  PROVE  LET g == [f EXCEPT !.items = <<>>]
         IN  /\ FileInv(g) /\ g \in FileTypes /\ g.hour = f.hour /\ g.pos = f.pos /\ g.items = <<>>
<1> DEFINE g == [f EXCEPT !.items = <<>>]
<1>1. f \in FileTypes /\ <<>> \in Seq(Entry)
  BY EmptySeq DEF FileInv
<1>2. /\ g \in FileTypes /\ g.items = <<>> /\ g.text = f.text
      /\ g.header = f.header /\ g.hour = f.hour /\ g.pos = f.pos
  BY <1>1, FileFields
<1> HIDE DEF g
<1>3. FileInv(g)
  BY <1>2 DEF FileInv
<1> QED
  BY <1>2, <1>3 DEF g

LEMMA EndConsumeKeeps ==
  ASSUME LogReaderInv, EndConsume
  PROVE  LogReaderInv'
<1> DEFINE file == files[scanned + 1]
           more == file.pos < Pieces(file.hour)
           last == IF more THEN ReadFrom(file) ELSE file
<1>1. /\ pc = "scan" /\ scanned < Len(files) /\ (more => StopsAtHalf(file))
      /\ files' = [files EXCEPT ![scanned + 1] = [last EXCEPT !.items = <<>>]]
      /\ UNCHANGED <<now, written>> /\ UNCHANGED <<now, written, upcoming, nextHour>>
      /\ pc' = pc /\ upcoming' = upcoming /\ nextHour' = nextHour /\ scanned' = scanned + 1
      /\ items' = items \o last.items /\ delivered' = delivered
      /\ ids' = IF last.items = <<>> /\ ~ExpectMore(last) THEN ids \cup {last.hour} ELSE ids
  BY DEF EndConsume
<1>2. WriterInv /\ ShapeInv /\ FilesInv
  BY DEF LogReaderInv
<1>3. PICK n : n = scanned + 1
  OBVIOUS
<1>4. n \in DOMAIN files /\ FileInv(files[n]) /\ Current = files[n].items /\ file = files[n]
  BY <1>1, <1>3, AtFile
<1>5. more => Steps(file, last)
  BY <1>1, <1>2, <1>4, ReadSteps
<1>6. FileInv(last) /\ last.hour = file.hour
  BY <1>4, <1>5 DEF Steps
<1>7. last.pos = Pieces(file.hour) /\ file.pos <= last.pos
  <2>1. CASE more
    <3>1. last.pos = Pieces(file.hour)
      BY <1>1, <1>2, <1>4, <1>5, <2>1, ReadToHalf
    <3>2. last.pos \in Nat /\ file.pos \in Nat /\ file.pos < last.pos
      BY <1>4, <1>5, <1>6, <2>1 DEF Steps, FileInv, FileTypes
    <3> HIDE DEF last, file
    <3> QED
      BY <3>1, <3>2
  <2>2. CASE ~more
    <3>1. file.hour \in HourIds /\ file.pos \in Nat /\ file.pos <= Pieces(file.hour)
      BY <1>4 DEF FileInv, FileTypes
    <3>2. Pieces(file.hour) \in Nat
      BY <1>2, <3>1, PiecesFacts
    <3>3. last = file
      BY <2>2
    <3> HIDE DEF last, file
    <3> QED
      BY <2>2, <3>1, <3>2, <3>3
  <2> QED
    BY <2>1, <2>2
<1>8. PICK r : r = last
  OBVIOUS
<1>9. PICK s : s = [r EXCEPT !.items = <<>>]
  OBVIOUS
<1>10. PICK h : h = files[n].hour
  OBVIOUS
<1>11. /\ FileInv(r) /\ r.hour = h /\ r.pos = Pieces(h) /\ files[n].hour = h
       /\ (Steps(files[n], r) \/ r = files[n])
       /\ files' = [files EXCEPT ![n] = s] /\ items' = items \o r.items /\ scanned' = n
       /\ ids' = IF r.items = <<>> /\ ~ExpectMore(r) THEN ids \cup {h} ELSE ids
  BY <1>1, <1>3, <1>4, <1>5, <1>6, <1>7, <1>8, <1>9, <1>10
<1> HIDE DEF file, more, last
<1>12. FileInv(s) /\ s \in FileTypes /\ s.hour = h /\ s.pos = Pieces(h) /\ s.items = <<>> /\ s.pos = r.pos
  BY <1>9, <1>11, ItemsTaken
<1>13. r.items \in Seq(Entry) /\ items \in Seq(Entry) /\ delivered \in Seq(Entry) /\ Found \in Seq(Entry)
       /\ Current \in Seq(Entry) /\ scanned \in Nat
  BY <1>2, <1>11, FoundTypes DEF FileInv, FileTypes, ShapeInv
<1>14. /\ files' \in Seq(FileTypes) /\ Len(files') = Len(files) /\ DOMAIN files' = DOMAIN files
       /\ files'[n] = s /\ \A j \in DOMAIN files \ {n} : files'[j] = files[j]
  BY <1>2, <1>4, <1>11, <1>12, FileReplaced
<1>15. ShapeInv'
  <2>1. items' \in Seq(Entry) /\ scanned' \in Nat
    BY <1>3, <1>11, <1>13, ConcatProperties
  <2> QED
    BY <1>1, <1>2, <2>1 DEF ShapeInv
<1>16. WriterInv' /\ \A e : Owed(e)' = Owed(e) /\ (Sealed(e)' <=> Sealed(e))
  BY <1>1, <1>2, SameWritten
<1>17. \A e : Opened(e)' <=> Opened(e)
  BY <1>1, Zenon DEF Opened
<1>18. \A j \in DOMAIN files : files'[j].items = <<>> /\ files'[j].hour = files[j].hour
  <2> TAKE j \in DOMAIN files
  <2>1. CASE j = n
    BY <1>11, <1>12, <1>14, <2>1
  <2>2. CASE j # n
    <3>1. files[j].items # <<>> => j = n
      BY <1>2, <1>3 DEF FilesInv
    <3> QED
      BY <1>14, <2>2, <3>1
  <2> QED
    BY <2>1, <2>2
<1>19. FilesInv'
  <2>1. ASSUME NEW j \in DOMAIN files, NEW f, f = files'[j]
        PROVE  FileInv(f)' /\ Opened(f.hour)'
    <3>1. CASE j = n
      BY <1>1, <1>2, <1>4, <1>11, <1>12, <1>14, <1>17, <2>1, <3>1, SameFile DEF FilesInv
    <3>2. CASE j # n
      BY <1>1, <1>2, <1>14, <1>17, <2>1, <3>2, SameFile DEF FilesInv
    <3> QED
      BY <3>1, <3>2
  <2>2. \A j, k \in DOMAIN files : files'[j].hour = files'[k].hour => j = k
    BY <1>2, <1>18 DEF FilesInv
  <2>3. \A l \in Owed(h) : 2 * l <= s.pos
    <3>1. h \in HourIds
      BY <1>11 DEF FileInv, FileTypes
    <3> QED
      BY <1>2, <1>12, <3>1, OwedIsNat
  <2>4. ASSUME NEW e \in ids'
        PROVE  \E j \in DOMAIN files :
                 files'[j].hour = e /\ Sealed(e)' /\ \A l \in Owed(e)' : 2 * l <= files'[j].pos
    <3>1. CASE e \in ids
      <4>1. PICK j \in DOMAIN files : files[j].hour = e /\ Sealed(e) /\ \A l \in Owed(e) : 2 * l <= files[j].pos
        BY <1>2, <3>1 DEF FilesInv
      <4>2. \A l \in Owed(e) : 2 * l <= files'[j].pos
        <5>1. CASE j = n
          BY <1>11, <1>14, <2>3, <4>1, <5>1
        <5>2. CASE j # n
          BY <1>14, <4>1, <5>2
        <5> QED
          BY <5>1, <5>2
      <4> QED
        BY <1>16, <1>18, <4>1, <4>2
    <3>2. CASE e \notin ids
      <4>1. e = h /\ ~ExpectMore(r)
        BY <1>11, <3>2
      <4>2. Sealed(h)
        BY <1>2, <1>11, <4>1, NothingExpected
      <4> QED
        BY <1>4, <1>12, <1>14, <1>16, <2>3, <4>1, <4>2
    <3> QED
      BY <3>1, <3>2
  <2> HIDE DEF FileInv
  <2>5. \A j \in DOMAIN files' :
          FileInv(files[j])' /\ Opened(files[j].hour)' /\ files'[j].items = <<>>
    BY <1>14, <1>18, <2>1
  <2> QED
    BY <1>14, <2>2, <2>4, <2>5, Zenon DEF FilesInv
<1>20. Current' = <<>>
  <2>1. CASE scanned' < Len(files')
    <3>1. Len(files') \in Nat /\ DOMAIN files' = 1 .. Len(files')
      BY <1>14, LenProperties
    <3>2. scanned' + 1 \in DOMAIN files'
      BY <1>3, <1>11, <1>13, <2>1, <3>1
    <3>3. files'[scanned' + 1].items = <<>>
      BY <1>14, <1>18, <3>2
    <3> QED
      BY <3>3 DEF Current
  <2>2. CASE ~(scanned' < Len(files'))
    BY <2>2, Zenon DEF Current
  <2> QED
    BY <2>1, <2>2
<1>21. /\ r.items = files[n].items => Found' = Found
       /\ \A x \in Entry : r.items = Append(files[n].items, x) => Found' = Append(Found, x)
  <2>1. Found' = delivered \o (items \o r.items) \o <<>> /\ Found = delivered \o items \o files[n].items
    BY <1>1, <1>4, <1>11, <1>20, Zenon DEF Found
  <2> DEFINE c == files[n].items
  <2>2. c \in Seq(Entry) /\ Found = delivered \o items \o c
    BY <1>4, <1>13, <2>1
  <2> HIDE DEF c
  <2>3. CASE r.items = c
    <3>1. delivered \o (items \o c) \o <<>> = delivered \o items \o c
      <4>1. c = <<>> \/ c # <<>>
        OBVIOUS
      <4>2. (delivered \o items) \o c \in Seq(Entry) /\ items \o c \in Seq(Entry)
        BY <1>13, <2>2, ConcatProperties
      <4>3. delivered \o (items \o c) \in Seq(Entry)
        BY <1>13, <4>2, ConcatProperties
      <4>4. delivered \o (items \o c) \o <<>> = delivered \o (items \o c)
        BY <4>3, ConcatEmptySeq
      <4>5. delivered \o items \o c = delivered \o (items \o c)
        BY <1>13, <2>2, ConcatAssociative
      <4> QED
        BY <4>4, <4>5
    <3>2. \A x \in Entry : r.items # Append(c, x)
      <4> TAKE x \in Entry
      <4>1. Len(Append(c, x)) = Len(c) + 1 /\ Len(c) \in Nat
        BY <2>2, AppendProperties, LenProperties
      <4>2. Len(c) # Len(c) + 1
        BY <4>1
      <4> QED
        BY <2>3, <4>1, <4>2
    <3> QED
      BY <2>1, <2>2, <2>3, <3>1, <3>2 DEF c
  <2>4. CASE r.items # c
    <3>1. \A x \in Entry : r.items = Append(c, x) => Found' = Append(Found, x)
      <4> SUFFICES ASSUME NEW x \in Entry, r.items = Append(c, x) PROVE Found' = Append(Found, x)
        OBVIOUS
      <4>1. \A a, b, d \in Seq(Entry) : a \o (b \o Append(d, x)) \o <<>> = Append(a \o b \o d, x)
        BY FoundAppend
      <4>2. delivered \o (items \o Append(c, x)) \o <<>> = Append(delivered \o items \o c, x)
        BY <1>13, <2>2, <4>1
      <4> QED
        BY <2>1, <2>2, <4>2
    <3> QED
      BY <2>4, <3>1 DEF c
  <2> QED
    BY <2>3, <2>4
<1>22. FoundInv' /\ ReadInv'
  <2>1. \A j \in DOMAIN files \ {n} : files'[j].hour = files[j].hour /\ files'[j].pos = files[j].pos
    BY <1>14
  <2>2. files'[n].hour = files[n].hour /\ files'[n].pos = r.pos
    BY <1>11, <1>12, <1>14
  <2>3. CASE Steps(files[n], r)
    BY <1>1, <1>4, <1>14, <1>21, <2>1, <2>2, <2>3, LineRead
  <2>4. CASE r = files[n]
    <3>1. Found' = Found
      BY <1>21, <2>4
    <3>2. \A j \in DOMAIN files : files'[j].hour = files[j].hour /\ files'[j].pos = files[j].pos
      BY <2>1, <2>2, <2>4
    <3> QED
      BY <1>1, <1>14, <3>1, <3>2, NothingRead
  <2> QED
    BY <1>11, <2>3, <2>4
<1> QED
  BY <1>15, <1>16, <1>19, <1>22 DEF LogReaderInv

(* A pass begins, and comes to the end of the files.                        *)
LEMMA PassKeeps ==
  ASSUME LogReaderInv, BeginPass \/ EndScan
  PROVE  LogReaderInv'
<1>1. /\ UNCHANGED <<now, written>> /\ UNCHANGED <<now, written, upcoming, nextHour>>
      /\ upcoming' = upcoming /\ nextHour' = nextHour /\ files' = files
      /\ items' = items /\ delivered' = delivered /\ ids' = ids
  BY DEF BeginPass, EndScan, written
<1>2. \/ pc = "idle" /\ pc' = "scan" /\ scanned' = 0
      \/ /\ pc = "scan" /\ scanned = Len(files) /\ scanned' = scanned
         /\ pc' = IF items = <<>> THEN "open" ELSE "reap"
  BY DEF BeginPass, EndScan
<1>3. WriterInv /\ ShapeInv /\ FilesInv
  BY DEF LogReaderInv
<1>4. ShapeInv'
  BY <1>1, <1>2, <1>3 DEF ShapeInv
<1>5. WriterInv' /\ \A e : Owed(e)' = Owed(e) /\ (Sealed(e)' <=> Sealed(e))
  BY <1>1, <1>3, SameWritten
<1>6. files \in Seq(FileTypes) /\ DOMAIN files = 1 .. Len(files) /\ Len(files) \in Nat /\ scanned \in Nat
  BY <1>3, LenProperties DEF FilesInv, ShapeInv
<1>7. \A j \in DOMAIN files : files[j].items = <<>>
  <2>1. \A j \in DOMAIN files : files[j].items # <<>> => Scanning /\ j = scanned + 1
    BY <1>3 DEF FilesInv
  <2>2. scanned = Len(files) => scanned + 1 \notin DOMAIN files
    BY <1>6
  <2>3. ~Scanning \/ scanned = Len(files)
    BY <1>2 DEF Scanning
  <2> QED
    BY <2>1, <2>2, <2>3
<1>8. Current = <<>> /\ Current' = <<>>
  <2>1. CASE pc = "idle" /\ pc' = "scan" /\ scanned' = 0
    <3>1. Current = <<>>
      BY <2>1 DEF Current, Scanning
    <3>2. scanned' < Len(files') => files'[scanned' + 1].items = <<>>
      BY <1>1, <1>6, <1>7, <2>1
    <3> QED
      BY <3>1, <3>2 DEF Current
  <2>2. CASE pc = "scan" /\ scanned = Len(files) /\ pc' \notin {"scan", "crashed"}
    BY <1>6, <2>2 DEF Current, Scanning
  <2> QED
    BY <1>2, <2>1, <2>2
<1>9. Found' = Found
  BY <1>1, <1>8 DEF Found
<1>10. FoundInv' /\ ReadInv'
  BY <1>1, <1>9, NothingRead
<1>11. \A e : Opened(e)' <=> Opened(e)
  BY <1>1, Zenon DEF Opened
<1>12. FilesInv'
  <2>1. ASSUME NEW j \in DOMAIN files, NEW f, f = files[j]
        PROVE  FileInv(f)' /\ Opened(f.hour)'
    BY <1>1, <1>3, <1>11, <2>1, SameFile DEF FilesInv
  <2>2. \A j \in DOMAIN files' : FileInv(files[j])' /\ Opened(files[j].hour)' /\ files'[j].items = <<>>
    BY <1>1, <1>7, <2>1
  <2> QED
    BY <1>1, <1>3, <1>5, <2>2, Zenon DEF FilesInv
<1> QED
  BY <1>4, <1>5, <1>10, <1>12 DEF LogReaderInv

(* The hour that is prepared is the next one that is opened or skipped.     *)
LEMMA PreparedNext ==
  ASSUME ShapeInv
  PROVE  /\ Prepared \in Nat /\ NextAfter = Prepared + 1 /\ ~Opened(Prepared)
         /\ \A h \in HourIds : Opened(h) <=> h < Prepared
<1>1. nextHour \in Nat /\ upcoming \in Nat \cup {None} /\ (upcoming # None => nextHour = upcoming + 1)
      /\ HourIds \subseteq Nat
  BY ReaderConstants DEF ShapeInv
<1>2. CASE upcoming = None
  <2>1. Prepared = nextHour /\ NextAfter = nextHour + 1
    BY <1>2 DEF Prepared, NextAfter
  <2>2. \A h \in HourIds : h # upcoming
    BY <1>1, <1>2 DEF None
  <2> QED
    BY <1>1, <2>1, <2>2 DEF Opened
<1>3. CASE upcoming # None
  <2>1. Prepared = upcoming /\ NextAfter = nextHour /\ upcoming \in Nat /\ nextHour = upcoming + 1
    BY <1>1, <1>3 DEF Prepared, NextAfter
  <2> QED
    BY <1>1, <2>1 DEF Opened
<1> QED
  BY <1>2, <1>3

(* What was found stays right when hours are opened or left.                *)
LEMMA FoundStays ==
  ASSUME LogReaderInv, UNCHANGED <<now, written>>, Found' = Found,
         \A h \in HourIds : Opened(h) => Opened(h)'
  PROVE  FoundInv' /\ \A h, l : IsFound(h, l)' <=> IsFound(h, l)
<1>1. lines' = lines /\ torn' = torn
  BY DEF written
<1>2. FoundInv /\ \A k \in DOMAIN Found : Found[k][1] \in HourIds
  BY FoundTypes DEF LogReaderInv
<1>3. \A h : Pieces(h)' = Pieces(h)
  BY <1>1, Zenon DEF Pieces
<1>4. PICK F : F = Found
  OBVIOUS
<1>5. \A k \in DOMAIN F : \A h : h = F[k][1] =>
        Opened(h)' /\ F[k][2] \in DOMAIN lines[h] /\ lines[h][F[k][2]] = "event" /\ 2 * F[k][2] <= Pieces(h)
  BY <1>2, <1>4, Zenon DEF FoundInv
<1>6. \A j, k \in DOMAIN F : j < k /\ F[j][1] = F[k][1] => F[j][2] < F[k][2]
  BY <1>2, <1>4 DEF FoundInv
<1>7. Found' = F
  BY <1>4
<1>8. FoundInv'
  BY <1>1, <1>5, <1>6, <1>7, Zenon DEF FoundInv, Opened, Pieces
<1>9. \A h, l : IsFound(h, l)' <=> IsFound(h, l)
  BY Zenon DEF IsFound
<1> QED
  BY <1>8, <1>9

(* Between two passes no file keeps an item.                                *)
LEMMA NoItemsKept ==
  ASSUME FilesInv, ~Scanning
  PROVE  Current = <<>> /\ \A j \in DOMAIN files : files[j].items = <<>>
  BY DEF FilesInv, Current

LEMMA NewFileIs ==
  ASSUME WriterInv, NEW h \in HourIds, lines[h] # <<>>
  PROVE  LET g == NewFile(h)
         IN  FileInv(g) /\ g \in FileTypes /\ g.hour = h /\ g.pos = 0 /\ g.items = <<>>
<1> DEFINE g == NewFile(h)
<1>1. <<>> \in Seq(Nat) /\ <<>> \in Seq(Entry)
  BY EmptySeq
<1>2. g = [hour |-> h, pos |-> 0, text |-> <<>>, header |-> FALSE, items |-> <<>>]
  BY DEF NewFile
<1> HIDE DEF g
<1>3. /\ g \in FileTypes /\ g.hour = h /\ g.pos = 0 /\ g.items = <<>> /\ g.text = <<>>
      /\ g.header = FALSE
  BY <1>1, <1>2 DEF FileTypes
<1>4. Half(0) = <<>> /\ 0 % 2 = 0 /\ 0 <= Pieces(h) /\ ~(0 > 1)
  <2>1. 2 * 0 = 0 /\ Half(2 * 0) = <<>> /\ (2 * 0) % 2 = 0
    BY HalfIs, EvenOdd
  <2>2. Pieces(h) \in Nat
    BY PiecesFacts
  <2> QED
    BY <2>1, <2>2
<1>5. FileInv(g)
  BY <1>3, <1>4 DEF FileInv
<1> QED
  BY <1>3, <1>5 DEF g

LEMMA OpenUpcomingKeeps ==
  ASSUME LogReaderInv, OpenUpcoming
  PROVE  LogReaderInv'
<1>1. /\ pc = "open" /\ Exists(Prepared) /\ pc' = "reap"
      /\ files' = Append(files, NewFile(Prepared))
      /\ upcoming' = None /\ nextHour' = NextAfter /\ UNCHANGED <<now, written>>
      /\ scanned' = scanned /\ items' = items /\ ids' = ids /\ delivered' = delivered
  BY DEF OpenUpcoming, written
<1>2. WriterInv /\ ShapeInv /\ FilesInv /\ ReadInv
  BY DEF LogReaderInv
<1>3. PICK p : p = Prepared
  OBVIOUS
<1>4. p \in HourIds /\ lines[p] # <<>>
  BY <1>1, <1>3 DEF Exists
<1>5. /\ p \in Nat /\ nextHour' = p + 1 /\ ~Opened(p)
      /\ \A h \in HourIds : Opened(h) <=> h < p
  BY <1>1, <1>2, <1>3, PreparedNext
<1>6. \A h \in HourIds : Opened(h)' <=> Opened(h) \/ h = p
  <2> TAKE h \in HourIds
  <2>1. h \in Nat
    BY ReaderConstants
  <2>2. Opened(h)' <=> h < p + 1
    BY <1>1, <1>5, <2>1 DEF Opened, None
  <2> QED
    BY <1>5, <2>1, <2>2
<1>7. PICK g : g = NewFile(p)
  OBVIOUS
<1>8. FileInv(g) /\ g \in FileTypes /\ g.hour = p /\ g.pos = 0 /\ g.items = <<>>
  BY <1>2, <1>4, <1>7, NewFileIs
<1>9. PICK n : n = Len(files)
  OBVIOUS
<1>10. files \in Seq(FileTypes) /\ n \in Nat /\ DOMAIN files = 1 .. n
  BY <1>2, <1>9, LenProperties DEF FilesInv
<1>11. files' \in Seq(FileTypes) /\ DOMAIN files' = 1 .. n + 1 /\ files'[n + 1] = g
       /\ \A j \in DOMAIN files : files'[j] = files[j]
  <2>1. files' = Append(files, g)
    BY <1>1, <1>3, <1>7
  <2>2. /\ files' \in Seq(FileTypes) /\ Len(files') = n + 1 /\ files'[n + 1] = g
        /\ \A j \in 1 .. n : files'[j] = files[j]
    BY <1>8, <1>9, <1>10, <2>1, AppendProperties
  <2> QED
    BY <1>10, <2>2, LenProperties
<1>12. /\ \A j \in DOMAIN files' :
            (j \in DOMAIN files /\ files'[j] = files[j]) \/ (j = n + 1 /\ files'[j] = g)
       /\ \A j \in DOMAIN files : j \in DOMAIN files' /\ files'[j] = files[j]
  <2>1. /\ \A j \in DOMAIN files' : j \in DOMAIN files \/ j = n + 1
        /\ \A j \in DOMAIN files : j \in DOMAIN files'
    BY <1>10, <1>11
  <2>2. \A j : j = n + 1 => files'[j] = g
    BY <1>11
  <2>3. \A j \in DOMAIN files : files'[j] = files[j]
    BY <1>11
  <2>4. ASSUME NEW j \in DOMAIN files'
        PROVE  (j \in DOMAIN files /\ files'[j] = files[j]) \/ (j = n + 1 /\ files'[j] = g)
    <3>1. CASE j \in DOMAIN files
      BY <2>3, <3>1
    <3>2. CASE j = n + 1
      BY <2>2, <3>2
    <3> QED
      BY <2>1, <3>1, <3>2
  <2> QED
    BY <2>1, <2>3, <2>4
<1>13. \A j \in DOMAIN files : /\ FileInv(files[j]) /\ Opened(files[j].hour) /\ files[j].hour \in HourIds
                              /\ files[j].hour # p
  BY <1>2, <1>5 DEF FilesInv, FileInv, FileTypes
<1>14. Current = <<>> /\ \A j \in DOMAIN files : files[j].items = <<>>
  BY <1>1, <1>2, NoItemsKept DEF Scanning
<1>15. WriterInv' /\ \A h : Pieces(h)' = Pieces(h) /\ Owed(h)' = Owed(h) /\ (Sealed(h)' <=> Sealed(h))
  BY <1>1, <1>2, SameWritten
<1>16. ShapeInv'
  <2>1. nextHour' \in Nat
    BY <1>5
  <2> QED
    BY <1>1, <1>2, <2>1 DEF ShapeInv
<1>17. Found' = Found
  <2>1. Current' = <<>>
    BY <1>1 DEF Current, Scanning
  <2> QED
    BY <1>1, <1>14, <2>1 DEF Found
<1>18. FoundInv' /\ \A h, l : IsFound(h, l)' <=> IsFound(h, l)
  BY <1>1, <1>6, <1>17, FoundStays
<1>19. FilesInv'
  <2>1. ASSUME NEW j \in DOMAIN files', NEW f, f = files'[j]
        PROVE  FileInv(f)' /\ Opened(f.hour)' /\ f.items = <<>>
    <3>1. CASE f = g
      BY <1>1, <1>4, <1>6, <1>8, <3>1, SameFile
    <3>2. CASE j \in DOMAIN files /\ f = files[j]
      BY <1>1, <1>6, <1>13, <1>14, <3>2, SameFile
    <3> QED
      BY <1>12, <2>1, <3>1, <3>2
  <2>2. \A j, k \in DOMAIN files' : files'[j].hour = files'[k].hour => j = k
    BY <1>2, <1>8, <1>12, <1>13 DEF FilesInv
  <2>3. ASSUME NEW h \in ids
        PROVE  \E j \in DOMAIN files' :
                 files'[j].hour = h /\ Sealed(h)' /\ \A l \in Owed(h)' : 2 * l <= files'[j].pos
    <3>1. PICK j \in DOMAIN files : files[j].hour = h /\ Sealed(h) /\ \A l \in Owed(h) : 2 * l <= files[j].pos
      BY <1>2 DEF FilesInv
    <3> QED
      BY <1>12, <1>15, <3>1
  <2>4. \A j \in DOMAIN files' : \A f : f = files'[j] => FileInv(f)' /\ Opened(f.hour)' /\ f.items = <<>>
    BY <2>1
  <2>5. files' \in Seq(FileTypes) /\ ids' = ids
    BY <1>1, <1>11
  <2> HIDE DEF FileInv
  <2> QED
    BY <2>2, <2>3, <2>4, <2>5, Zenon DEF FilesInv, Opened
<1>20. ReadInv'
  <2>1. ASSUME NEW j \in DOMAIN files', NEW h, NEW pos, h = files'[j].hour, pos = files'[j].pos
        PROVE  /\ \A k \in DOMAIN Found : Found[k][1] = h => 2 * Found[k][2] <= pos
               /\ \A l \in Owed(h)' : 2 * l <= pos => IsFound(h, l)'
    <3>1. CASE j \in DOMAIN files /\ files'[j] = files[j]
      BY <1>2, <1>15, <1>18, <2>1, <3>1, Zenon DEF ReadInv
    <3>2. CASE files'[j] = g
      <4>1. h = p /\ pos = 0
        BY <1>8, <2>1, <3>2
      <4>2. \A k \in DOMAIN Found : Opened(Found[k][1])
        BY DEF LogReaderInv, FoundInv
      <4>3. \A k \in DOMAIN Found : Found[k][1] # p
        BY <1>5, <4>2
      <4>4. \A l \in Owed(h)' : l \in Nat \ {0}
        BY <1>2, <1>4, <1>15, <4>1, OwedIsNat
      <4>5. \A l \in Owed(h)' : ~(2 * l <= pos)
        BY <4>1, <4>4
      <4> QED
        BY <4>1, <4>3, <4>5
    <3> QED
      BY <1>12, <3>1, <3>2
  <2>2. ASSUME NEW h \in HourIds, Opened(h)', \A j \in DOMAIN files' : files'[j].hour # h
        PROVE  Sealed(h)' /\ \A l \in Owed(h)' : IsFound(h, l)'
    <3>1. h # p
      BY <1>8, <1>10, <1>11, <2>2
    <3>2. Opened(h) /\ \A j \in DOMAIN files : files[j].hour # h
      BY <1>6, <1>12, <2>2, <3>1
    <3> QED
      BY <1>2, <1>15, <1>18, <3>2, Zenon DEF ReadInv
  <2> QED
    BY <1>17, <2>1, <2>2, Zenon DEF ReadInv
<1> QED
  BY <1>15, <1>16, <1>18, <1>19, <1>20 DEF LogReaderInv

LEMMA AwaitUpcomingKeeps ==
  ASSUME LogReaderInv, AwaitUpcoming
  PROVE  LogReaderInv'
<1>1. /\ pc = "open" /\ ~Exists(Prepared) /\ pc' = "reap" /\ files' = files /\ UNCHANGED <<now, written>>
      /\ scanned' = scanned /\ items' = items /\ ids' = ids /\ delivered' = delivered
      /\ IF SkipDue THEN upcoming' = NextAfter /\ nextHour' = NextAfter + 1
         ELSE upcoming' = Prepared /\ nextHour' = NextAfter
  BY DEF AwaitUpcoming, written
<1>2. WriterInv /\ ShapeInv /\ FilesInv /\ ReadInv
  BY DEF LogReaderInv
<1>3. PICK p : p = Prepared
  OBVIOUS
<1>4. /\ p \in Nat /\ ~Opened(p)
      /\ \A h \in HourIds : Opened(h) <=> h < p
      /\ IF SkipDue THEN upcoming' = p + 1 /\ nextHour' = p + 1 + 1
         ELSE upcoming' = p /\ nextHour' = p + 1
  BY <1>1, <1>2, <1>3, PreparedNext
<1>5. \A h \in HourIds : Opened(h)' <=> Opened(h) \/ (SkipDue /\ h = p)
  <2> TAKE h \in HourIds
  <2>1. h \in Nat
    BY ReaderConstants
  <2>2. CASE SkipDue
    <3>1. Opened(h)' <=> h < p + 1 + 1 /\ h # p + 1
      BY <1>4, <2>2 DEF Opened
    <3>2. h < p + 1 + 1 /\ h # p + 1 <=> h < p \/ h = p
      BY <1>4, <2>1
    <3> QED
      BY <1>4, <2>2, <3>1, <3>2
  <2>3. CASE ~SkipDue
    <3>1. Opened(h)' <=> h < p + 1 /\ h # p
      BY <1>4, <2>3 DEF Opened
    <3>2. h < p + 1 /\ h # p <=> h < p
      BY <1>4, <2>1
    <3> QED
      BY <1>4, <2>3, <3>1, <3>2
  <2> QED
    BY <2>2, <2>3
<1>6. Current = <<>> /\ \A j \in DOMAIN files : files[j].items = <<>>
  BY <1>1, <1>2, NoItemsKept DEF Scanning
<1>7. WriterInv' /\ \A h : Pieces(h)' = Pieces(h) /\ Owed(h)' = Owed(h) /\ (Sealed(h)' <=> Sealed(h))
  BY <1>1, <1>2, SameWritten
<1>8. ShapeInv'
  <2>1. nextHour' \in Nat /\ upcoming' \in Nat /\ nextHour' = upcoming' + 1
    BY <1>4
  <2> QED
    BY <1>1, <1>2, <2>1 DEF ShapeInv
<1>9. Found' = Found
  <2>1. Current' = <<>>
    BY <1>1 DEF Current, Scanning
  <2> QED
    BY <1>1, <1>6, <2>1 DEF Found
<1>10. FoundInv' /\ \A h, l : IsFound(h, l)' <=> IsFound(h, l)
  BY <1>1, <1>5, <1>9, FoundStays
<1>11. FilesInv'
  <2>1. ASSUME NEW j \in DOMAIN files, NEW f, f = files[j]
        PROVE  FileInv(f)' /\ Opened(f.hour)'
    <3>1. FileInv(f) /\ Opened(f.hour) /\ f.hour \in HourIds
      BY <1>2, <2>1 DEF FilesInv, FileInv, FileTypes
    <3> QED
      BY <1>1, <1>5, <3>1, SameFile
  <2>2. \A j \in DOMAIN files : \A f : f = files[j] => FileInv(f)' /\ Opened(f.hour)'
    BY <2>1
  <2>3. /\ \A j \in DOMAIN files : files[j].items = <<>>
        /\ \A j, k \in DOMAIN files : files[j].hour = files[k].hour => j = k
        /\ \A h \in ids : \E j \in DOMAIN files :
             files[j].hour = h /\ Sealed(h)' /\ \A l \in Owed(h)' : 2 * l <= files[j].pos
        /\ files \in Seq(FileTypes)
    BY <1>2, <1>6, <1>7, Zenon DEF FilesInv
  <2> HIDE DEF FileInv
  <2> QED
    BY <1>1, <2>2, <2>3, Zenon DEF FilesInv, Opened
<1>12. ASSUME SkipDue, p \in HourIds PROVE Sealed(p) /\ Owed(p) = {}
  <2>1. now > p * Hour + SkipTime
    BY <1>3, <1>12 DEF SkipDue
  <2>2. lines[p] = <<>>
    BY <1>1, <1>3, <1>12 DEF Exists
  <2>3. DOMAIN lines[p] = {}
    BY <2>2
  <2> QED
    BY <2>1, <2>3 DEF Sealed, Owed
<1>13. ReadInv'
  <2>1. ASSUME NEW j \in DOMAIN files, NEW h, NEW pos, h = files[j].hour, pos = files[j].pos
        PROVE  /\ \A k \in DOMAIN Found : Found[k][1] = h => 2 * Found[k][2] <= pos
               /\ \A l \in Owed(h)' : 2 * l <= pos => IsFound(h, l)'
    BY <1>2, <1>7, <1>10, <2>1, Zenon DEF ReadInv
  <2>2. ASSUME NEW h \in HourIds, Opened(h)', \A j \in DOMAIN files : files[j].hour # h
        PROVE  Sealed(h)' /\ \A l \in Owed(h)' : IsFound(h, l)'
    <3>1. CASE Opened(h)
      BY <1>2, <1>7, <1>10, <2>2, <3>1, Zenon DEF ReadInv
    <3>2. CASE SkipDue /\ h = p
      BY <1>7, <1>12, <3>2
    <3> QED
      BY <1>5, <2>2, <3>1, <3>2
  <2> QED
    BY <1>1, <1>9, <2>1, <2>2, Zenon DEF ReadInv
<1> QED
  BY <1>7, <1>8, <1>10, <1>11, <1>13 DEF LogReaderInv

(* What is left of a sequence without its element i.                        *)
LEMMA Without ==
  ASSUME NEW S, NEW s \in Seq(S), NEW i \in DOMAIN s, NEW t, t = RemoveAt(s, i)
  PROVE  /\ t \in Seq(S)
         /\ \A j \in DOMAIN t : \E k \in DOMAIN s :
              k # i /\ t[j] = s[k] /\ (IF j < i THEN k = j ELSE k = j + 1)
         /\ \A k \in DOMAIN s : k # i => \E j \in DOMAIN t : t[j] = s[k]
<1> DEFINE n == Len(s)
           a == SubSeq(s, 1, i - 1)
           b == SubSeq(s, i + 1, n)
<1>1. n \in Nat /\ DOMAIN s = 1 .. n /\ i \in 1 .. n /\ \A k \in 1 .. n : s[k] \in S
  BY LenProperties, ElementOfSeq
<1> HIDE DEF n
<1>2. /\ a \in Seq(S) /\ Len(a) = i - 1
      /\ \A j \in 1 .. i - 1 : a[j] = s[j]
  <2>1. \A k \in 1 .. i - 1 : s[k] \in S
    BY <1>1
  <2>2. /\ a \in Seq(S) /\ Len(a) = IF 1 <= i - 1 THEN (i - 1) - 1 + 1 ELSE 0
        /\ \A j \in 1 .. (i - 1) - 1 + 1 : a[j] = s[1 + j - 1]
    BY <1>1, <2>1, SubSeqProperties
  <2> HIDE DEF a
  <2>3. (i - 1) - 1 + 1 = i - 1 /\ \A j \in 1 .. i - 1 : 1 + j - 1 = j
    BY <1>1
  <2> QED
    BY <1>1, <2>2, <2>3
<1>3. /\ b \in Seq(S) /\ Len(b) = n - i
      /\ \A j \in 1 .. n - i : b[j] = s[i + j]
  <2>1. \A k \in i + 1 .. n : s[k] \in S
    BY <1>1
  <2>2. /\ b \in Seq(S) /\ Len(b) = IF i + 1 <= n THEN n - (i + 1) + 1 ELSE 0
        /\ \A j \in 1 .. n - (i + 1) + 1 : b[j] = s[i + 1 + j - 1]
    BY <1>1, <2>1, SubSeqProperties
  <2> HIDE DEF b
  <2>3. n - (i + 1) + 1 = n - i /\ \A j \in 1 .. n - i : i + 1 + j - 1 = i + j
    BY <1>1
  <2> QED
    BY <1>1, <2>2, <2>3
<1>4. t = a \o b
  BY DEF RemoveAt, n
<1> HIDE DEF a, b
<1>5. /\ t \in Seq(S) /\ Len(t) = n - 1
      /\ \A j \in 1 .. n - 1 : t[j] = IF j <= i - 1 THEN a[j] ELSE b[j - (i - 1)]
  <2>1. /\ a \o b \in Seq(S) /\ Len(a \o b) = Len(a) + Len(b)
        /\ \A j \in 1 .. Len(a) + Len(b) : (a \o b)[j] = IF j <= Len(a) THEN a[j] ELSE b[j - Len(a)]
    BY <1>2, <1>3, ConcatProperties
  <2>2. Len(a) + Len(b) = n - 1
    BY <1>1, <1>2, <1>3
  <2> QED
    BY <1>2, <1>4, <2>1, <2>2
<1>6. DOMAIN t = 1 .. n - 1
  BY <1>5, LenProperties
<1>7. \A j \in 1 .. n - 1 : t[j] = IF j < i THEN s[j] ELSE s[j + 1]
  <2> TAKE j \in 1 .. n - 1
  <2>1. CASE j < i
    BY <1>1, <1>2, <1>5, <2>1
  <2>2. CASE ~(j < i)
    <3>1. ~(j <= i - 1) /\ j - (i - 1) \in 1 .. n - i /\ i + (j - (i - 1)) = j + 1
      BY <1>1, <2>2
    <3>2. t[j] = b[j - (i - 1)] /\ b[j - (i - 1)] = s[i + (j - (i - 1))]
      BY <1>3, <1>5, <3>1
    <3> QED
      BY <2>2, <3>1, <3>2
  <2> QED
    BY <2>1, <2>2
<1>8. ASSUME NEW j \in DOMAIN t
      PROVE  \E k \in DOMAIN s : k # i /\ t[j] = s[k] /\ (IF j < i THEN k = j ELSE k = j + 1)
  <2>1. CASE j < i
    <3>1. j \in DOMAIN s /\ j # i
      BY <1>1, <1>6, <2>1
    <3>2. t[j] = s[j]
      BY <1>6, <1>7, <2>1
    <3> QED
      BY <2>1, <3>1, <3>2
  <2>2. CASE ~(j < i)
    <3>1. j + 1 \in DOMAIN s /\ j + 1 # i
      BY <1>1, <1>6, <2>2
    <3>2. t[j] = s[j + 1]
      BY <1>6, <1>7, <2>2
    <3> QED
      BY <2>2, <3>1, <3>2
  <2> QED
    BY <2>1, <2>2
<1>9. ASSUME NEW k \in DOMAIN s, k # i
      PROVE  \E j \in DOMAIN t : t[j] = s[k]
  <2>1. CASE k < i
    <3>1. k \in 1 .. n - 1
      BY <1>1, <2>1
    <3> QED
      BY <1>6, <1>7, <2>1, <3>1
  <2>2. CASE ~(k < i)
    <3>1. k - 1 \in 1 .. n - 1 /\ ~(k - 1 < i) /\ k - 1 + 1 = k
      BY <1>1, <1>9, <2>2
    <3> QED
      BY <1>6, <1>7, <3>1
  <2> QED
    BY <2>1, <2>2
<1> QED
  BY <1>5, <1>8, <1>9

LEMMA ReapKeeps ==
  ASSUME LogReaderInv, Reap
  PROVE  LogReaderInv'
<1>1. /\ pc = "reap" /\ UNCHANGED <<now, written>> /\ UNCHANGED <<now, written, upcoming, nextHour>>
      /\ upcoming' = upcoming /\ nextHour' = nextHour /\ scanned' = scanned
  BY DEF Reap, written
<1>2. \/ pc' = "crashed" /\ files' = files /\ items' = items /\ ids' = ids /\ delivered' = delivered
      \/ /\ \/ files' = files
            \/ \E i \in DOMAIN files : files[i].hour \in ids /\ files' = RemoveAt(files, i)
         /\ delivered' = delivered \o items
         /\ pc' = "idle" /\ items' = <<>> /\ ids' = {}
  BY DEF Reap
<1>3. WriterInv /\ ShapeInv /\ FilesInv /\ FoundInv /\ ReadInv
  BY DEF LogReaderInv
<1>4. Current = <<>> /\ \A j \in DOMAIN files : files[j].items = <<>>
  BY <1>1, <1>3, NoItemsKept DEF Scanning
<1>5. WriterInv' /\ \A h : Pieces(h)' = Pieces(h) /\ Owed(h)' = Owed(h) /\ (Sealed(h)' <=> Sealed(h))
  BY <1>1, <1>3, SameWritten
<1>6. \A h : Opened(h)' <=> Opened(h)
  BY <1>1, Zenon DEF Opened
<1>7. delivered \in Seq(Entry) /\ items \in Seq(Entry) /\ <<>> \in Seq(Entry)
      /\ delivered \o items \in Seq(Entry)
  BY <1>3, ConcatProperties, EmptySeq DEF ShapeInv
<1>8. ShapeInv'
  BY <1>1, <1>2, <1>3, <1>7 DEF ShapeInv
<1>9. Found' = Found
  <2>1. ASSUME files' = files, scanned' < Len(files') PROVE files'[scanned' + 1].items = <<>>
    <3>1. scanned \in Nat /\ Len(files) \in Nat /\ DOMAIN files = 1 .. Len(files)
      BY <1>3, LenProperties DEF ShapeInv, FilesInv
    <3>2. scanned + 1 \in DOMAIN files
      BY <1>1, <2>1, <3>1
    <3> QED
      BY <1>1, <1>4, <2>1, <3>2
  <2>2. Current' = <<>>
    <3>1. CASE files' = files
      BY <2>1, <3>1, Zenon DEF Current
    <3>2. CASE pc' = "idle"
      BY <3>2 DEF Current, Scanning
    <3> QED
      BY <1>2, <3>1, <3>2
  <2>3. delivered \o items \o <<>> = delivered \o items
    BY <1>7, ConcatEmptySeq
  <2>4. Found = delivered \o items \o <<>> /\ Found' = delivered' \o items' \o <<>>
    BY <1>4, <2>2 DEF Found
  <2> QED
    BY <1>2, <2>3, <2>4
<1>10. FoundInv' /\ \A h, l : IsFound(h, l)' <=> IsFound(h, l)
  BY <1>1, <1>6, <1>9, FoundStays
<1>11. files \in Seq(FileTypes)
  BY <1>3 DEF FilesInv
(* The files that are left, and the one that is closed.                     *)
<1> DEFINE Closed(h) == \E i \in DOMAIN files : files[i].hour = h /\ h \in ids
<1> DEFINE Remaining ==
      /\ files' \in Seq(FileTypes)
      /\ \A j \in DOMAIN files' : \E k \in DOMAIN files : files'[j] = files[k]
      /\ \A j, k \in DOMAIN files' : files'[j].hour = files'[k].hour => j = k
      /\ \A k \in DOMAIN files : Closed(files[k].hour) \/ \E j \in DOMAIN files' : files'[j] = files[k]
      /\ ids' # {} => files' = files /\ ids' = ids
<1>12. Remaining
  <2>1. CASE files' = files /\ (ids' = {} \/ ids' = ids)
    BY <1>3, <1>11, <2>1 DEF FilesInv
  <2>2. ASSUME NEW i \in DOMAIN files, files[i].hour \in ids, files' = RemoveAt(files, i), ids' = {}
        PROVE  Remaining
    <3>1. /\ files' \in Seq(FileTypes)
          /\ \A j \in DOMAIN files' : \E k \in DOMAIN files :
               k # i /\ files'[j] = files[k] /\ (IF j < i THEN k = j ELSE k = j + 1)
          /\ \A k \in DOMAIN files : k # i => \E j \in DOMAIN files' : files'[j] = files[k]
      BY <1>11, <2>2, Without
    <3>2. Closed(files[i].hour)
      BY <2>2
    <3> HIDE DEF Closed
    <3>3. ASSUME NEW j \in DOMAIN files', NEW k \in DOMAIN files', files'[j].hour = files'[k].hour
          PROVE  j = k
      <4>1. PICK m \in DOMAIN files :
              files'[j] = files[m] /\ (IF j < i THEN m = j ELSE m = j + 1)
        BY <3>1
      <4>2. PICK q \in DOMAIN files :
              files'[k] = files[q] /\ (IF k < i THEN q = k ELSE q = k + 1)
        BY <3>1
      <4>3. m = q
        BY <1>3, <3>3, <4>1, <4>2 DEF FilesInv
      <4>4. j \in Int /\ k \in Int /\ i \in Int
        <5>1. DOMAIN files = 1 .. Len(files) /\ DOMAIN files' = 1 .. Len(files')
          BY <1>11, <3>1, LenProperties
        <5> QED
          BY <5>1
      <4> QED
        BY <4>1, <4>2, <4>3, <4>4
    <3>4. \A k \in DOMAIN files : Closed(files[k].hour) \/ \E j \in DOMAIN files' : files'[j] = files[k]
      BY <3>1, <3>2
    <3>5. \A j \in DOMAIN files' : \E k \in DOMAIN files : files'[j] = files[k]
      BY <3>1
    <3> QED
      BY <2>2, <3>1, <3>3, <3>4, <3>5
  <2> QED
    BY <1>2, <2>1, <2>2
<1>13. FilesInv'
  <2>1. ASSUME NEW j \in DOMAIN files', NEW f, f = files'[j]
        PROVE  FileInv(f)' /\ Opened(f.hour)' /\ f.items = <<>>
    <3>1. PICK k \in DOMAIN files : f = files[k]
      BY <1>12, <2>1
    <3> QED
      BY <1>1, <1>3, <1>4, <1>6, <3>1, SameFile DEF FilesInv
  <2>2. \A j \in DOMAIN files' : \A f : f = files'[j] => FileInv(f)' /\ Opened(f.hour)' /\ f.items = <<>>
    BY <2>1
  <2>3. ASSUME NEW h \in ids'
        PROVE  \E j \in DOMAIN files' :
                 files'[j].hour = h /\ Sealed(h)' /\ \A l \in Owed(h)' : 2 * l <= files'[j].pos
    <3>1. files' = files /\ ids' = ids
      BY <1>12
    <3>2. PICK j \in DOMAIN files : files[j].hour = h /\ Sealed(h) /\ \A l \in Owed(h) : 2 * l <= files[j].pos
      BY <1>3, <3>1 DEF FilesInv
    <3> QED
      BY <1>5, <3>1, <3>2
  <2> HIDE DEF FileInv
  <2> QED
    BY <1>12, <2>2, <2>3, Zenon DEF FilesInv, Opened
<1>14. ReadInv'
  <2>1. ASSUME NEW j \in DOMAIN files', NEW h, NEW pos, h = files'[j].hour, pos = files'[j].pos
        PROVE  /\ \A k \in DOMAIN Found : Found[k][1] = h => 2 * Found[k][2] <= pos
               /\ \A l \in Owed(h)' : 2 * l <= pos => IsFound(h, l)'
    <3>1. PICK i \in DOMAIN files : files'[j] = files[i]
      BY <1>12
    <3> QED
      BY <1>3, <1>5, <1>10, <2>1, <3>1, Zenon DEF ReadInv
  <2>2. ASSUME NEW h \in HourIds, Opened(h), \A j \in DOMAIN files' : files'[j].hour # h
        PROVE  Sealed(h)' /\ \A l \in Owed(h)' : IsFound(h, l)'
    <3>1. CASE \A i \in DOMAIN files : files[i].hour # h
      BY <1>3, <1>5, <1>10, <2>2, <3>1, Zenon DEF ReadInv
    <3>2. CASE Closed(h)
      <4>1. PICK i \in DOMAIN files : files[i].hour = h /\ Sealed(h) /\ \A l \in Owed(h) : 2 * l <= files[i].pos
        BY <1>3, <3>2 DEF FilesInv
      <4>2. \A l \in Owed(h) : IsFound(h, l)
        BY <1>3, <4>1 DEF ReadInv
      <4> QED
        BY <1>5, <1>10, <4>1, <4>2
    <3> QED
      BY <1>12, <2>2, <3>1, <3>2
  <2> QED
    BY <1>6, <1>9, <2>1, <2>2, Zenon DEF ReadInv
<1> QED
  BY <1>5, <1>8, <1>10, <1>13, <1>14 DEF LogReaderInv

(* A line ends the reader: what was found stays where it is.                *)
LEMMA ConsumeRaisesKeeps ==
  ASSUME LogReaderInv, ConsumeRaises
  PROVE  LogReaderInv'
<1>1. /\ pc = "scan" /\ pc' = "crashed" /\ UNCHANGED <<now, written>>
      /\ UNCHANGED <<now, written, upcoming, nextHour>>
      /\ upcoming' = upcoming /\ nextHour' = nextHour /\ files' = files /\ scanned' = scanned
      /\ items' = items /\ ids' = ids /\ delivered' = delivered
  BY DEF ConsumeRaises, written
<1>2. WriterInv /\ ShapeInv /\ FilesInv
  BY DEF LogReaderInv
<1>3. ShapeInv'
  BY <1>1, <1>2 DEF ShapeInv
<1>4. WriterInv' /\ \A e : Owed(e)' = Owed(e) /\ (Sealed(e)' <=> Sealed(e))
  BY <1>1, <1>2, SameWritten
<1>5. Scanning /\ Scanning' /\ \A e : Opened(e)' <=> Opened(e)
  BY <1>1, Zenon DEF Scanning, Opened
<1>6. Found' = Found
  BY <1>1, <1>5, Zenon DEF Found, Current
<1>7. FoundInv' /\ ReadInv'
  BY <1>1, <1>6, NothingRead
<1>8. FilesInv'
  <2>1. ASSUME NEW j \in DOMAIN files, NEW f, f = files[j]
        PROVE  FileInv(f)' /\ Opened(f.hour)' /\ (f.items # <<>> => Scanning' /\ j = scanned' + 1)
    BY <1>1, <1>2, <1>5, <2>1, SameFile DEF FilesInv
  <2>2. \A j \in DOMAIN files : \A f : f = files[j] =>
          FileInv(f)' /\ Opened(f.hour)' /\ (f.items # <<>> => Scanning' /\ j = scanned' + 1)
    BY <2>1
  <2> HIDE DEF FileInv
  <2> QED
    BY <1>1, <1>2, <1>4, <2>2, Zenon DEF FilesInv, Opened
<1> QED
  BY <1>3, <1>4, <1>7, <1>8 DEF LogReaderInv

(* The invariant is inductive.                                              *)
LEMMA LogReaderKeeps == LogReaderInv /\ [Next]_vars => LogReaderInv'
<1> SUFFICES ASSUME LogReaderInv, [Next]_vars PROVE LogReaderInv'
  OBVIOUS
<1>1. WriterInv
  BY DEF LogReaderInv
<1>2. CASE Write
  BY <1>1, <1>2, WriteGrows, WritesKeep
<1>3. CASE Tick \/ UNCHANGED vars
  BY <1>1, <1>3, TickGrows, WritesKeep
<1>4. CASE Reader
  BY <1>4, PassKeeps, ConsumeLineKeeps, ConsumeRaisesKeeps, EndConsumeKeeps, OpenUpcomingKeeps, AwaitUpcomingKeeps,
     ReapKeeps DEF Reader
<1> QED
  BY <1>2, <1>3, <1>4 DEF Next

LEMMA FoundIsReturned == LogReaderInv => EachLineOnceInOrder
<1> SUFFICES ASSUME LogReaderInv PROVE EachLineOnceInOrder
  OBVIOUS
<1>1. WriterInv /\ ShapeInv /\ FilesInv /\ FoundInv /\ ReadInv
  BY DEF LogReaderInv
<1>2. /\ delivered \in Seq(Entry) /\ items \in Seq(Entry) /\ Current \in Seq(Entry)
      /\ Found \in Seq(Entry) /\ DOMAIN Found = 1 .. Len(Found)
      /\ \A k \in DOMAIN Found : Found[k][1] \in HourIds
  BY <1>1, FoundTypes DEF ShapeInv
<1>3. \A k \in DOMAIN delivered : k \in DOMAIN Found /\ Found[k] = delivered[k]
  <2> DEFINE rest == items \o Current
  <2>1. rest \in Seq(Entry) /\ Found = delivered \o rest
    BY <1>2, ConcatProperties, ConcatAssociative DEF Found
  <2> HIDE DEF rest
  <2>2. /\ Len(Found) = Len(delivered) + Len(rest)
        /\ \A k \in 1 .. Len(delivered) + Len(rest) :
             Found[k] = IF k <= Len(delivered) THEN delivered[k] ELSE rest[k - Len(delivered)]
    BY <1>2, <2>1, ConcatProperties
  <2>3. Len(delivered) \in Nat /\ Len(rest) \in Nat /\ DOMAIN delivered = 1 .. Len(delivered)
    BY <1>2, <2>1, LenProperties
  <2> QED
    BY <1>2, <2>2, <2>3
<1>4. ASSUME NEW k \in DOMAIN delivered, NEW h, NEW l, h = delivered[k][1], l = delivered[k][2]
      PROVE  lines[h][l] = "event" /\ (l = Len(lines[h]) => ~torn[h])
  <2>1. h \in HourIds /\ l \in DOMAIN lines[h] /\ lines[h][l] = "event" /\ 2 * l <= Pieces(h)
    BY <1>1, <1>2, <1>3, <1>4 DEF FoundInv
  <2>2. l = Len(lines[h]) => ~torn[h]
    BY <1>1, <2>1, PiecesFacts
  <2> QED
    BY <2>1, <2>2
<1>5. \A j, k \in DOMAIN delivered :
        j < k /\ delivered[j][1] = delivered[k][1] => delivered[j][2] < delivered[k][2]
  BY <1>1, <1>3 DEF FoundInv
<1>6. LeftHoursRead
  <2> SUFFICES ASSUME NEW h \in HourIds, pc = "idle", h < nextHour, h # upcoming,
                      \A i \in DOMAIN files : files[i].hour # h,
                      NEW l \in Owed(h)
               PROVE  <<h, l>> \in Range(delivered)
    BY DEF LeftHoursRead, Left, Returned
  <2>1. Current = <<>> /\ items = <<>>
    BY <1>1, NoItemsKept DEF ShapeInv, Scanning
  <2>2. Found = delivered
    BY <1>2, <2>1, ConcatEmptySeq DEF Found
  <2>3. IsFound(h, l)
    BY <1>1 DEF ReadInv, Opened
  <2> QED
    BY <2>2, <2>3 DEF IsFound, Range
<1> QED
  BY <1>4, <1>5, <1>6 DEF EachLineOnceInOrder

(* next_batch() returns events only, each one once and those of a file in   *)
(* the order of its lines, never a line that is half written, and leaves no *)
(* hour before all was returned of it that was complete five minutes after  *)
(* it - whatever is written later, and whichever line ends the reader       *)
(* (reader.py: JSONFile.consume, CSVFile.consume, SwiftLogFile.consume,     *)
(* LiveReader.next_batch).                                                  *)
THEOREM EveryLineOnceInOrder == Spec => []EachLineOnceInOrder
<1>1. Init => LogReaderInv
  BY InitHolds
<1>2. LogReaderInv /\ [Next]_vars => LogReaderInv'
  BY LogReaderKeeps
<1>3. LogReaderInv => EachLineOnceInOrder
  BY FoundIsReturned
<1> QED
  BY <1>1, <1>2, <1>3, PTL DEF Spec
=============================================================================
