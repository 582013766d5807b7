------------------------------ MODULE LogBuffer ------------------------------
(***************************************************************************)
(* The log buffers (libspoki/src/buffer.cpp) collect lines of one hour and *)
(* send them to the collector as one vector, when it gets too large or a   *)
(* line of another hour comes.  The collector sends the vector back and    *)
(* the buffer keeps one for reuse.  Nothing else makes a buffer send: no   *)
(* timer does, and nothing is sent when the actor ends.                    *)
(***************************************************************************)
EXTENDS LogChannels

CONSTANT Threshold   \* write_threshold, in lines

ASSUME BufferAssumption == Threshold \in Nat

VARIABLES
  buf,      \* per buffer: buffer
  stamp,    \* unix_ts: the hour of its lines
  next,     \* next_buffer
  backup    \* got_backup_buffer

bufferVars == <<buf, stamp, next, backup>>

BufferInit ==
  /\ buf = [b \in Buffers |-> <<>>]
  /\ stamp = [b \in Buffers |-> 0]
  /\ next = [b \in Buffers |-> <<>>]
  /\ backup = [b \in Buffers |-> FALSE]

Message(h, lines) == [hour |-> h, content |-> lines, buffered |-> TRUE]

(* What is in the buffer after its vector was sent: the vector that was     *)
(* kept, or a new one.                                                      *)
Fresh(b) == IF backup[b] THEN next[b] ELSE <<>>

(* The three handlers for packets, packets with a request, and replies      *)
(* differ in the line only.  The lines of another hour are sent first.      *)
AddLine(b, h, otherHour) ==
  LET filled == Append(IF otherHour THEN Fresh(b) ELSE buf[b], NextLine(b, h))
      tooLarge == Len(filled) > Threshold
      hour == IF buf[b] = <<>> \/ otherHour THEN h ELSE stamp[b]
  IN
  /\ logged[b] < MaxLines
  /\ logged' = [logged EXCEPT ![b] = @ + 1]
  /\ toCollector' = [toCollector EXCEPT ![b] =
       @ \o (IF otherHour THEN <<Message(stamp[b], buf[b])>> ELSE <<>>)
         \o (IF tooLarge THEN <<Message(hour, filled)>> ELSE <<>>)]
  /\ stamp' = [stamp EXCEPT ![b] = hour]
  /\ buf' = [buf EXCEPT ![b] =
       IF ~tooLarge THEN filled ELSE IF otherHour THEN <<>> ELSE Fresh(b)]
  /\ next' = [next EXCEPT ![b] = IF otherHour \/ tooLarge THEN <<>> ELSE @]
  /\ backup' = [backup EXCEPT ![b] = @ /\ ~otherHour /\ ~tooLarge]
  /\ UNCHANGED <<now, returned, crashes>>

Log_KeepHour(b) == \E h \in Stamps : AddLine(b, h, FALSE)
Log(b) == \E h \in Stamps : AddLine(b, h, buf[b] # <<>> /\ h # stamp[b])

(* A vector comes back, is kept and cleared. *)
Keep(b, vector) ==
  /\ returned[b] # <<>>
  /\ returned' = [returned EXCEPT ![b] = Tail(@)]
  /\ next' = [next EXCEPT ![b] = vector]
  /\ backup' = [backup EXCEPT ![b] = TRUE]
  /\ UNCHANGED <<buf, stamp, now, logged, toCollector, crashes>>

TakeBack_NoClear(b) == Keep(b, Head(returned[b]))
TakeBack(b) == Keep(b, <<>>)
=============================================================================
