------------------------ MODULE ScamperDriverProofs ------------------------
(***************************************************************************)
(* Theorems about the scamper driver, for every number of probes and every *)
(* size of commands, buffers and windows: its variables stay well typed,   *)
(* the write event is armed exactly when there is work for it, no command  *)
(* in the mailbox is forgotten, commands leave in the order of their       *)
(* requests, and the driver implements CommandChannel.                     *)
(***************************************************************************)
EXTENDS ScamperDriver, SequenceTheorems, TLAPS

(* What the invariants of ScamperDriver need to be inductive: before the   *)
(* loop starts the attach command waits with its credit, an error event    *)
(* means that the connection was reset, and scamper_writing_ agrees with   *)
(* the event mask.                                                         *)
LoopState ==
  /\ loopPc = "start" => queue # <<>> /\ more > 0
  /\ "error" \in ready => link = "reset"
  /\ link # "reset" /\ writing => "write" \in mask

IInv ==
  /\ TypeOK /\ WriteHasWork /\ NoLostWakeup /\ NoIdleCredit /\ BacklogInOrder
  /\ LoopState

(* What taking from the front and adding at the end does to a sequence of   *)
(* consecutive numbers.                                                     *)
LEMMA NumberedAppend ==
  ASSUME NEW seq \in Seq(Int), NEW from \in Int, Numbered(seq, from),
         NEW n \in Int, n = from + Len(seq)
  PROVE  Numbered(Append(seq, n), from)
  <1>1. /\ DOMAIN Append(seq, n) = 1..(Len(seq) + 1)
        /\ Append(seq, n)[Len(seq) + 1] = n
        /\ \A i \in 1..Len(seq) : Append(seq, n)[i] = seq[i]
        /\ DOMAIN seq = 1..Len(seq) /\ Len(seq) \in Nat
    OBVIOUS
  <1> SUFFICES ASSUME NEW i \in 1..(Len(seq) + 1)
               PROVE  Append(seq, n)[i] = from + i - 1
    BY <1>1 DEF Numbered
  <1>2. CASE i = Len(seq) + 1
    BY <1>1, <1>2
  <1>3. CASE i \in 1..Len(seq)
    BY <1>1, <1>3 DEF Numbered
  <1> QED
    BY <1>1, <1>2, <1>3

LEMMA NumberedTail ==
  ASSUME NEW seq \in Seq(Int), NEW from \in Int, Numbered(seq, from),
         seq # <<>>
  PROVE  /\ Head(seq) = from
         /\ Numbered(Tail(seq), from + 1)
         /\ Len(Tail(seq)) = Len(seq) - 1
  <1>1. /\ DOMAIN Tail(seq) = 1..(Len(seq) - 1)
        /\ Len(Tail(seq)) = Len(seq) - 1
        /\ \A i \in 1..(Len(seq) - 1) : Tail(seq)[i] = seq[i + 1]
        /\ DOMAIN seq = 1..Len(seq) /\ Len(seq) \in Nat \ {0}
        /\ Head(seq) = seq[1]
    BY HeadTailProperties, EmptySeq, LenProperties
  <1>2. \A i \in 1..(Len(seq) - 1) : Tail(seq)[i] = (from + 1) + i - 1
    <2> SUFFICES ASSUME NEW i \in 1..(Len(seq) - 1)
                 PROVE  Tail(seq)[i] = (from + 1) + i - 1
      OBVIOUS
    <2>1. i + 1 \in 1..Len(seq) /\ i \in Int
      BY <1>1
    <2>2. seq[i + 1] = from + (i + 1) - 1
      BY <2>1, <1>1 DEF Numbered
    <2> QED
      BY <2>1, <2>2, <1>1
  <1>3. Head(seq) = from
    BY <1>1 DEF Numbered
  <1> QED
    BY <1>1, <1>2, <1>3 DEF Numbered

(* The initial state satisfies the inductive invariant. *)
LEMMA InitIInv == Init => IInv
  <1> SUFFICES ASSUME Init PROVE IInv
    OBVIOUS
  <1> USE DriverAssumption DEF DriverAssumption, Init
  <1>1. TypeOK
    <2>1. /\ <<0>> \in Seq(Commands) /\ Len(<<0>>) = 1
          /\ <<>> \in Seq(Commands) /\ <<>> \in Seq(Units) /\ Len(<<>>) = 0
      BY DEF Commands
    <2>2. line \in Seq(Units) \cup {Garbled}
      BY <2>1
    <2>3. /\ ready \subseteq {"notify", "read", "write", "error"}
          /\ mask \subseteq {"read", "write"}
      OBVIOUS
    <2>4. /\ issued \in 0..MaxProbes /\ pipe \in 0..PipeCap
          /\ offset \in 0..CmdSize /\ put \in 0..CmdSize
          /\ Len(wire) <= WireCap
      BY <2>1
    <2>5. /\ done \in BOOLEAN /\ writing \in BOOLEAN
      OBVIOUS
    <2>6. /\ callerPc \in {"idle", "notify", "stopping", "joining", "gone"}
          /\ loopPc \in {"start", "check", "poll", "dispatch", "drain", "exited",
                         "undefined"}
          /\ link \in {"up", "fin", "reset"}
      OBVIOUS
    <2>7. /\ more \in Nat /\ written \in Nat /\ moresRead \in Nat
          /\ credit \in Int /\ inMore \in Nat /\ inOther \in Nat
      OBVIOUS
    <2>8. /\ mailbox \in Seq(Commands) /\ queue \in Seq(Commands)
          /\ wire \in Seq(Units) /\ accepted \in Seq(Commands)
      BY <2>1
    <2> QED
      BY <2>2, <2>3, <2>4, <2>5, <2>6, <2>7, <2>8, Zenon DEF TypeOK
  <1>2. WriteHasWork /\ NoLostWakeup /\ NoIdleCredit /\ LoopState
    BY DEF WriteHasWork, NoLostWakeup, NoIdleCredit, LoopState
  <1>3. BacklogInOrder
    BY DEF BacklogInOrder, Numbered
  <1> QED
    BY <1>1, <1>2, <1>3 DEF IInv

(* The manager's steps keep the invariant. *)
LEMMA ManagerStep == IInv /\ Manager => IInv'
  <1> SUFFICES ASSUME IInv, Manager PROVE IInv'
    OBVIOUS
  <1> USE DriverAssumption DEF DriverAssumption, IInv, callerVars, loopVars, scamperVars
  <1>1. CASE ProbeSend
    <2> USE <1>1 DEF ProbeSend
    <2>1. TypeOK'
      BY DEF TypeOK, Commands
    <2>2. BacklogInOrder'
      BY SMTT(30) DEF BacklogInOrder, Numbered, TypeOK, Commands
    <2>3. (WriteHasWork /\ NoLostWakeup /\ NoIdleCredit /\ LoopState)'
      BY DEF WriteHasWork, NoLostWakeup, NoIdleCredit, LoopState
    <2> QED
      BY <2>1, <2>2, <2>3
  <1>2. ASSUME NEW k \in {1}, NEW pc \in {"idle", "joining"},
               callerPc \in {"notify", "stopping"}, Wake(k, pc)
        PROVE  IInv'
    <2> USE <1>2 DEF Wake
    <2>1. TypeOK'
      BY DEF TypeOK
    <2>2. (BacklogInOrder /\ WriteHasWork /\ NoIdleCredit /\ LoopState)'
      BY DEF BacklogInOrder, WriteHasWork, NoIdleCredit, LoopState
    <2>3. NoLostWakeup'
      BY DEF NoLostWakeup, TypeOK
    <2> QED
      BY <2>1, <2>2, <2>3
  <1>3. CASE StopRequest
    BY <1>3 DEF StopRequest, TypeOK, WriteHasWork, NoLostWakeup, NoIdleCredit,
                BacklogInOrder, LoopState
  <1>4. CASE StopJoin
    BY <1>4 DEF StopJoin, TypeOK, WriteHasWork, NoLostWakeup, NoIdleCredit,
                BacklogInOrder, LoopState
  <1> QED
    BY <1>1, <1>2, <1>3, <1>4 DEF Manager, ProbeNotify, StopNotify

(* The steps of the loop that call no callback of the driver keep it. *)
LEMMA LoopControlStep ==
  ASSUME IInv, LoopStart \/ LoopCheck \/ PollReturn \/ DispatchEnd \/ HandleError
  PROVE  IInv'
  <1> USE DriverAssumption DEF DriverAssumption, IInv, callerVars, loopVars, scamperVars
  <1>1. CASE LoopStart
    <2> USE <1>1 DEF LoopStart
    <2>1. TypeOK'
      BY DEF TypeOK
    <2>2. (WriteHasWork /\ NoLostWakeup /\ NoIdleCredit /\ LoopState)'
      BY DEF WriteHasWork, NoLostWakeup, NoIdleCredit, LoopState
    <2>3. BacklogInOrder'
      BY DEF BacklogInOrder
    <2> QED
      BY <2>1, <2>2, <2>3
  <1>2. CASE LoopCheck
    BY <1>2 DEF LoopCheck, TypeOK, WriteHasWork, NoLostWakeup, NoIdleCredit,
                BacklogInOrder, LoopState
  <1>3. CASE PollReturn
    <2> USE <1>3 DEF PollReturn
    <2>1. /\ ready' \subseteq {"notify", "read", "write", "error"}
          /\ "write" \in ready' => "write" \in mask
          /\ "error" \in ready' => link = "reset"
      BY DEF NotifyEvents, ScamperEvents
    <2> QED
      BY <2>1 DEF TypeOK, WriteHasWork, NoLostWakeup, NoIdleCredit,
                  BacklogInOrder, LoopState
  <1>4. CASE DispatchEnd
    BY <1>4 DEF DispatchEnd, TypeOK, WriteHasWork, NoLostWakeup, NoIdleCredit,
                BacklogInOrder, LoopState
  <1>5. CASE HandleError
    BY <1>5 DEF HandleError, Dispatch, TypeOK, WriteHasWork, NoLostWakeup,
                NoIdleCredit, BacklogInOrder, LoopState
  <1> QED
    BY <1>1, <1>2, <1>3, <1>4, <1>5

(* handle_notify_read() keeps it: the bytes are taken before the mailbox is *)
(* drained, so a command that arrives in between leaves its byte behind.    *)
LEMMA NotifyStep ==
  ASSUME IInv, HandleNotifyRead \/ DrainMailbox \/ DrainEnd
  PROVE  IInv'
  <1> USE DriverAssumption DEF DriverAssumption, IInv, callerVars, loopVars, scamperVars
  <1>1. CASE HandleNotifyRead
    BY <1>1 DEF HandleNotifyRead, Dispatch, TypeOK, WriteHasWork, NoLostWakeup,
                NoIdleCredit, BacklogInOrder, LoopState
  <1>2. CASE DrainMailbox
    <2> USE <1>2 DEF DrainMailbox, TakeMessage
    <2>a. /\ mailbox \in Seq(Commands) /\ mailbox # <<>>
          /\ queue \in Seq(Commands)
      BY DEF TypeOK
    <2>b. Head(mailbox) \in Commands /\ Head(mailbox) = mailbox[1]
      BY <2>a
    <2>1. /\ queue' \in Seq(Commands) /\ Len(queue') = Len(queue) + 1
          /\ queue' # <<>>
          /\ \A i \in 1..Len(queue) : queue'[i] = queue[i]
          /\ queue'[Len(queue) + 1] = mailbox[1]
      BY <2>a, <2>b
    <2>2. /\ mailbox' \in Seq(Commands) /\ Len(mailbox') = Len(mailbox) - 1
          /\ \A i \in 1..Len(mailbox') : mailbox'[i] = mailbox[i + 1]
      BY <2>a
    <2>3. TypeOK'
      BY <2>1, <2>2 DEF TypeOK, EnableWrite
    <2>4. BacklogInOrder'
      <3>1. /\ issued' = issued /\ written' = written
            /\ queue' = Append(queue, Head(mailbox)) /\ mailbox' = Tail(mailbox)
            /\ issued \in Int /\ written \in Int
            /\ queue \in Seq(Int) /\ mailbox \in Seq(Int) /\ mailbox # <<>>
            /\ Len(queue) \in Int /\ Len(mailbox) \in Int
        BY <2>a DEF TypeOK, Commands
      <3>2. /\ Len(queue) + Len(mailbox) = issued + 1 - written
            /\ Numbered(queue, written)
            /\ Numbered(mailbox, written + Len(queue))
        BY DEF BacklogInOrder
      <3> HIDE <1>2 DEF IInv, DrainMailbox, TakeMessage
      <3>3. /\ Head(mailbox) = written + Len(queue)
            /\ Numbered(mailbox', written + Len(queue) + 1)
            /\ Len(mailbox') = Len(mailbox) - 1
        BY <3>1, <3>2, NumberedTail
      <3>4. Numbered(queue', written)
        BY <3>1, <3>2, <3>3, NumberedAppend
      <3>5. /\ Len(queue') = Len(queue) + 1
            /\ Len(queue') + Len(mailbox') = issued' + 1 - written'
            /\ written' + Len(queue') = written + Len(queue) + 1
        BY <3>1, <3>2, <3>3, <2>1
      <3> QED
        BY <3>1, <3>3, <3>4, <3>5 DEF BacklogInOrder
    <2>5. (WriteHasWork /\ NoLostWakeup /\ NoIdleCredit /\ LoopState)'
      BY <2>1 DEF WriteHasWork, NoLostWakeup, NoIdleCredit, LoopState,
                  EnableWrite, TypeOK
    <2> QED
      BY <2>3, <2>4, <2>5
  <1>3. CASE DrainEnd
    BY <1>3 DEF DrainEnd, TypeOK, WriteHasWork, NoLostWakeup, NoIdleCredit,
                BacklogInOrder, LoopState
  <1> QED
    BY <1>1, <1>2, <1>3

(* handle_scamper_read() keeps it. *)
LEMMA ReadStep ==
  ASSUME IInv, HandleScamperRead
  PROVE  IInv'
  <1> USE DriverAssumption DEF DriverAssumption, IInv, callerVars, loopVars, scamperVars
  <1>1. PICK m \in 0..inMore, o \in 0..inOther :
          /\ inMore' = inMore - m /\ inOther' = inOther - o
          /\ more' = more + m /\ moresRead' = moresRead + m
          /\ EnableWrite(m > 0 /\ queue # <<>>)
    BY DEF HandleScamperRead, ReadLines
  <1> USE DEF HandleScamperRead, ReadLines, Dispatch
  <1>2. /\ m \in Nat /\ more \in Nat /\ more' \in Nat /\ more' >= more
        /\ inMore' \in Nat /\ inOther' \in Nat /\ moresRead' \in Nat
        /\ m > 0 => more' > 0
    BY <1>1 DEF TypeOK
  <1>3. TypeOK'
    BY <1>1, <1>2 DEF TypeOK, EnableWrite
  <1>4. BacklogInOrder'
    BY DEF BacklogInOrder
  <1>5. WriteHasWork'
    BY <1>1, <1>2 DEF WriteHasWork, EnableWrite
  <1>a. NoLostWakeup'
    BY DEF NoLostWakeup
  <1>b. LoopState'
    BY <1>1, <1>2 DEF LoopState, EnableWrite
  <1>6. NoIdleCredit'
    BY <1>1, <1>2 DEF NoIdleCredit, LoopState, EnableWrite
  <1> QED
    BY <1>3, <1>4, <1>5, <1>6, <1>a, <1>b

(* handle_scamper_write() keeps it.  Its first test never applies, since    *)
(* WriteHasWork holds when the event is dispatched.                         *)
LEMMA WriteStep ==
  ASSUME IInv, HandleScamperWrite
  PROVE  IInv'
  <1> DEFINE remaining == CmdSize - offset
             rest == Tail(queue)
             nothingLeft == more = 1 \/ Len(queue) = 1
  <1> USE DriverAssumption DEF DriverAssumption
  <1>1. /\ queue \in Seq(Commands) /\ queue # <<>> /\ more \in Nat /\ more > 0
        /\ Head(queue) \in Commands /\ Len(queue) \in Nat \ {0}
        /\ rest \in Seq(Commands) /\ Len(rest) = Len(queue) - 1
        /\ offset \in 0..CmdSize /\ remaining \in 0..CmdSize
    <2>1. queue # <<>> /\ more > 0 /\ queue \in Seq(Commands) /\ more \in Nat
          /\ offset \in 0..CmdSize
      BY DEF IInv, WriteHasWork, TypeOK, HandleScamperWrite, WriteFront, Dispatch
    <2> QED
      BY <2>1, HeadTailProperties, EmptySeq, LenProperties
  <1>2. PICK n \in IF link # "up" THEN {0, remaining}
                   ELSE IF WireCap - Len(wire) < remaining
                        THEN {WireCap - Len(wire)} ELSE {remaining} :
          /\ loopPc' = loopPc
          /\ mask' = IF more = 0 \/ (n = remaining /\ nothingLeft)
                     THEN mask \ {"write"} ELSE mask
          /\ writing' = (writing /\ ~(more = 0 \/ (n = remaining /\ nothingLeft)))
          /\ wire' = IF link = "up"
                     THEN wire \o [i \in 1..n |-> <<Head(queue), offset + i>>]
                     ELSE wire
          /\ IF n = remaining
             THEN /\ queue' = rest /\ more' = more - 1 /\ offset' = 0
                  /\ written' = written + 1 /\ put' = 0
             ELSE /\ put' = IF link = "up" THEN offset + n ELSE put
                  /\ UNCHANGED <<queue, more, offset, written>>
    BY <1>1 DEF HandleScamperWrite, WriteFront
  <1>3. /\ loopPc = "dispatch" /\ "write" \in ready /\ ready' = ready \ {"write"}
        /\ UNCHANGED <<callerPc, issued, mailbox, pipe, done, moresRead, link,
                       line, accepted, credit, inMore, inOther>>
    BY DEF HandleScamperWrite, WriteFront, Dispatch, callerVars
  <1>4. n \in 0..remaining /\ (link = "up" => n <= WireCap - Len(wire))
    BY <1>1, <1>2 DEF IInv, TypeOK
  <1>5. wire' \in Seq(Units) /\ Len(wire') <= WireCap
    <2>1. wire \in Seq(Units) /\ Len(wire) <= WireCap /\ Len(wire) \in Nat
      BY DEF IInv, TypeOK
    <2>2. CASE link = "up"
      <3> DEFINE new == [i \in 1..n |-> <<Head(queue), offset + i>>]
      <3>1. new \in Seq(Units) /\ Len(new) = n
        BY <1>1, <1>4 DEF Units
      <3>2. wire \o new \in Seq(Units) /\ Len(wire \o new) = Len(wire) + n
        BY <3>1, <2>1, ConcatProperties
      <3> QED
        BY <3>2, <2>1, <2>2, <1>2, <1>4
    <2> QED
      BY <2>1, <2>2, <1>2
  <1>6. TypeOK'
    <2>1. /\ queue' \in Seq(Commands) /\ more' \in Nat /\ offset' \in 0..CmdSize
          /\ put' \in 0..CmdSize /\ written' \in Nat
      <3>1. CASE n = remaining
        <4>1. /\ queue' = rest /\ more' = more - 1 /\ offset' = 0
              /\ written' = written + 1 /\ put' = 0
          BY <3>1, <1>2
        <4>2. written \in Nat
          BY DEF IInv, TypeOK
        <4> QED
          BY <4>1, <4>2, <1>1
      <3>2. CASE n # remaining
        <4>1. UNCHANGED <<queue, more, offset, written>>
          BY <3>2, <1>2
        <4>2. put' = put \/ put' = offset + n
          BY <3>2, <1>2
        <4>3. offset + n \in 0..CmdSize
          BY <1>1, <1>4
        <4> QED
          BY <4>1, <4>2, <4>3 DEF IInv, TypeOK
      <3> QED
        BY <3>1, <3>2
    <2>2. mask' \subseteq {"read", "write"} /\ writing' \in BOOLEAN
      BY <1>2 DEF IInv, TypeOK
    <2> QED
      BY <1>2, <1>3, <1>5, <2>1, <2>2 DEF IInv, TypeOK
  <1>7. BacklogInOrder'
    <2>1. /\ Len(queue) + Len(mailbox) = issued + 1 - written
          /\ Numbered(queue, written) /\ Numbered(mailbox, written + Len(queue))
          /\ queue \in Seq(Int) /\ written \in Int /\ issued \in Int
          /\ Len(queue) \in Int /\ Len(mailbox) \in Int
      BY LenProperties DEF IInv, BacklogInOrder, TypeOK, Commands
    <2>2. mailbox' = mailbox /\ issued' = issued
      BY <1>3
    <2>3. CASE n = remaining
      <3>1. queue' = rest /\ written' = written + 1
        BY <2>3, <1>2
      <3>2. Numbered(queue', written') /\ Len(queue') = Len(queue) - 1
        BY <2>1, <3>1, <1>1, NumberedTail
      <3>3. /\ written' + Len(queue') = written + Len(queue)
            /\ Len(queue') + Len(mailbox') = issued' + 1 - written'
        <4> HIDE DEF rest
        <4>1. Len(queue') \in Int /\ Len(mailbox') = Len(mailbox)
          BY <2>1, <2>2, <3>2
        <4> QED
          BY <2>1, <2>2, <3>1, <3>2, <4>1
      <3> QED
        BY <2>1, <2>2, <3>2, <3>3 DEF BacklogInOrder
    <2>4. CASE n # remaining
      <3>1. queue' = queue /\ written' = written
        BY <2>4, <1>2
      <3> QED
        BY <2>1, <2>2, <3>1 DEF BacklogInOrder
    <2> QED
      BY <2>3, <2>4
  <1>8. WriteHasWork' /\ NoIdleCredit'
    <2>1. "write" \in mask \/ loopPc = "start" \/ link = "reset"
      BY <1>1 DEF IInv, NoIdleCredit
    <2>2. n = remaining /\ ~nothingLeft => queue' # <<>> /\ more' > 0
      BY <1>1, <1>2, EmptySeq
    <2>3. n = remaining /\ nothingLeft => queue' = <<>> \/ more' = 0
      BY <1>1, <1>2, LenProperties
    <2> QED
      BY <2>1, <2>2, <2>3, <1>1, <1>2, <1>3 DEF WriteHasWork, NoIdleCredit
  <1>9. NoLostWakeup' /\ LoopState'
    BY <1>1, <1>2, <1>3 DEF IInv, NoLostWakeup, LoopState
  <1> QED
    BY <1>6, <1>7, <1>8, <1>9 DEF IInv

(* The daemon and the connection keep it. *)
LEMMA ScamperStep ==
  ASSUME IInv, ScamperReceive \/ ScamperMore \/ Disconnect
  PROVE  IInv'
  <1> USE DriverAssumption DEF DriverAssumption, callerVars, loopVars, scamperVars
  <1>1. CASE ScamperReceive
    <2> DEFINE unit == Head(wire)
               text == Append(line, unit)
               intact == line # Garbled /\ text = [i \in 1..Len(text) |-> <<unit[1], i>>]
    <2>1. /\ wire \in Seq(Units) /\ wire # <<>>
      BY <1>1 DEF ScamperReceive, IInv, TypeOK
    <2>2. /\ unit \in Units /\ Tail(wire) \in Seq(Units)
          /\ Len(Tail(wire)) <= WireCap
      BY <2>1, HeadTailProperties, LenProperties DEF IInv, TypeOK
    <2>3. IF unit[2] = CmdSize
          THEN /\ accepted' = IF intact THEN Append(accepted, unit[1]) ELSE accepted
               /\ line' = <<>> /\ credit' = credit - 1 /\ inOther' = inOther + 1
          ELSE /\ line' = IF intact THEN text ELSE Garbled
               /\ UNCHANGED <<accepted, credit, inOther>>
      BY <1>1 DEF ScamperReceive
    <2>5. intact => text \in Seq(Units)
      BY <2>2, AppendProperties DEF IInv, TypeOK
    <2>6. /\ line' \in Seq(Units) \cup {Garbled}
          /\ accepted' \in Seq(Commands) /\ credit' \in Int /\ inOther' \in Nat
      <3>1. accepted \in Seq(Commands) /\ credit \in Int /\ inOther \in Nat
        BY DEF IInv, TypeOK
      <3>2. unit[1] \in Commands
        BY <2>2 DEF Units
      <3>3. Append(accepted, unit[1]) \in Seq(Commands) /\ <<>> \in Seq(Units)
        BY <3>1, <3>2, AppendProperties, EmptySeq
      <3>4. CASE unit[2] = CmdSize
        <4>1. /\ accepted' = Append(accepted, unit[1]) \/ accepted' = accepted
              /\ line' = <<>> /\ credit' = credit - 1 /\ inOther' = inOther + 1
          BY <3>4, <2>3
        <4> QED
          BY <4>1, <3>1, <3>3
      <3>5. CASE unit[2] # CmdSize
        <4>1. /\ \/ line' = text /\ intact
                 \/ line' = Garbled
              /\ UNCHANGED <<accepted, credit, inOther>>
          BY <3>5, <2>3
        <4> QED
          BY <4>1, <3>1, <2>5
      <3> QED
        BY <3>4, <3>5
    <2>7. /\ wire' = Tail(wire)
          /\ UNCHANGED <<callerVars, mailbox, pipe, loopPc, ready, done, loopVars,
                         link, inMore>>
      BY <1>1 DEF ScamperReceive
    <2>8. TypeOK'
      BY <2>2, <2>6, <2>7 DEF IInv, TypeOK
    <2> QED
      BY <2>7, <2>8 DEF IInv, WriteHasWork, NoLostWakeup, NoIdleCredit,
                        BacklogInOrder, LoopState
  <1>2. CASE ScamperMore
    BY <1>2 DEF ScamperMore, IInv, TypeOK, WriteHasWork, NoLostWakeup,
                NoIdleCredit, BacklogInOrder, LoopState
  <1>3. CASE Disconnect
    BY <1>3 DEF Disconnect, IInv, TypeOK, WriteHasWork, NoLostWakeup,
                NoIdleCredit, BacklogInOrder, LoopState
  <1> QED
    BY <1>1, <1>2, <1>3

-----------------------------------------------------------------------------
(* Every step keeps the inductive invariant. *)
LEMMA NextIInv == IInv /\ [Next]_vars => IInv'
  <1> SUFFICES ASSUME IInv, [Next]_vars PROVE IInv'
    OBVIOUS
  <1>1. CASE Manager
    BY <1>1, ManagerStep
  <1>2. CASE LoopStart \/ LoopCheck \/ PollReturn \/ DispatchEnd \/ HandleError
    BY <1>2, LoopControlStep
  <1>3. CASE HandleNotifyRead \/ DrainMailbox \/ DrainEnd
    BY <1>3, NotifyStep
  <1>4. CASE HandleScamperRead
    BY <1>4, ReadStep
  <1>5. CASE HandleScamperWrite
    BY <1>5, WriteStep
  <1>6. CASE ScamperReceive \/ ScamperMore \/ Disconnect
    BY <1>6, ScamperStep
  <1>7. CASE UNCHANGED vars
    BY <1>7 DEF vars, callerVars, loopVars, scamperVars, IInv, TypeOK,
                WriteHasWork, NoLostWakeup, NoIdleCredit, BacklogInOrder,
                LoopState
  <1> QED
    BY <1>1, <1>2, <1>3, <1>4, <1>5, <1>6, <1>7 DEF Next, Loop

(* The inductive invariant holds in every reachable state. *)
LEMMA Invariance == Spec => []IInv
  BY InitIInv, NextIInv, PTL DEF Spec

(* Every variable of the driver stays well typed; scamper_more_ never       *)
(* underflows.                                                              *)
THEOREM DriverTypeCorrect == Spec => []TypeOK
  BY Invariance, PTL DEF IInv

(* A write event is armed or pending only while there is a command and a    *)
(* MORE for it, so handle_scamper_write() never reads front() of an empty   *)
(* queue, although its guard does not return.                               *)
THEOREM WriteEventHasWork == Spec => []WriteHasWork
  BY Invariance, PTL DEF IInv

(* No command stays behind in the mailbox without a byte that wakes the     *)
(* multiplexer.                                                             *)
THEOREM WakeupsAreNotLost == Spec => []NoLostWakeup
  BY Invariance, PTL DEF IInv

(* While a command and a MORE for it are there, writing is switched on.     *)
THEOREM CreditIsNotIdle == Spec => []NoIdleCredit
  BY Invariance, PTL DEF IInv

(* Commands leave the driver without a gap in the order of the requests.    *)
THEOREM BacklogStaysInOrder == Spec => []BacklogInOrder
  BY Invariance, PTL DEF IInv

-----------------------------------------------------------------------------
(* What scamper executes.                                                   *)

(* The units on the wire that end a command: a command that was cut short   *)
(* has left none there.  They are those of commands that count as written,  *)
(* in order, and after all that scamper has accepted.                       *)
Ends(unit) == unit[2] = CmdSize

WireInOrder ==
  /\ \A i \in DOMAIN wire : Ends(wire[i]) => wire[i][1] < written
  /\ \A i, j \in DOMAIN wire :
       i < j /\ Ends(wire[i]) /\ Ends(wire[j]) => wire[i][1] < wire[j][1]
  /\ \A i \in DOMAIN accepted : accepted[i] < written
  /\ \A i \in DOMAIN accepted, j \in DOMAIN wire :
       Ends(wire[j]) => accepted[i] < wire[j][1]
  /\ ExecutedOnceInOrder

(* Nothing but a write and the daemon's read changes what this is about.    *)
LEMMA OthersKeepWire ==
  ASSUME Next, ~HandleScamperWrite, ~ScamperReceive
  PROVE  UNCHANGED <<wire, accepted, written>>
  BY DEF Next, Manager, ProbeSend, ProbeNotify, StopRequest, StopNotify, Wake,
         StopJoin, Loop, LoopStart, LoopCheck, PollReturn, DispatchEnd,
         HandleError, HandleNotifyRead, DrainMailbox, TakeMessage, DrainEnd,
         HandleScamperRead, ReadLines, ScamperMore, Disconnect, loopVars,
         scamperVars

(* A write puts the front command on the wire, which is the next one that   *)
(* is not written.  Only if it is complete does it end there, and then it   *)
(* counts as written.                                                       *)
LEMMA WriteKeepsOrder ==
  ASSUME IInv, WireInOrder, HandleScamperWrite
  PROVE  WireInOrder'
  <1> USE DriverAssumption DEF DriverAssumption
  <1>1. /\ queue # <<>> /\ queue \in Seq(Commands) /\ Head(queue) = written
        /\ wire \in Seq(Units) /\ accepted \in Seq(Commands) /\ written \in Nat
        /\ offset \in 0..CmdSize /\ Len(wire) \in Nat /\ Len(wire) <= WireCap
    <2>1. /\ queue # <<>> /\ queue \in Seq(Commands)
          /\ wire \in Seq(Units) /\ accepted \in Seq(Commands) /\ written \in Nat
          /\ offset \in 0..CmdSize /\ Len(wire) <= WireCap
          /\ Numbered(queue, written)
      BY DEF IInv, WriteHasWork, TypeOK, BacklogInOrder, HandleScamperWrite,
             WriteFront, Dispatch
    <2>2. queue \in Seq(Int)
      BY <2>1, SeqMonotonic DEF Commands
    <2>3. Head(queue) = written
      BY <2>1, <2>2, NumberedTail
    <2> QED
      BY <2>1, <2>3, LenProperties
  <1>2. PICK n \in IF link # "up" THEN {0, CmdSize - offset}
                   ELSE IF WireCap - Len(wire) < CmdSize - offset
                        THEN {WireCap - Len(wire)} ELSE {CmdSize - offset} :
          /\ wire' = IF link = "up"
                     THEN wire \o [i \in 1..n |-> <<Head(queue), offset + i>>]
                     ELSE wire
          /\ written' = IF n = CmdSize - offset THEN written + 1 ELSE written
    BY <1>1 DEF HandleScamperWrite, WriteFront
  <1>3. accepted' = accepted
    BY DEF HandleScamperWrite, WriteFront
  <1>4. n \in 0..(CmdSize - offset)
    BY <1>1, <1>2
  <1>5. written' \in Nat /\ written' >= written
    BY <1>1, <1>2
  <1>6. CASE link # "up"
    <2>1. wire' = wire
      BY <1>2, <1>6
    <2>2. \A i \in DOMAIN wire : wire[i][1] \in Int
      BY <1>1, LenProperties, ElementOfSeq DEF Units, Commands
    <2>3. \A i \in DOMAIN accepted : accepted[i] \in Int
      BY <1>1, LenProperties, ElementOfSeq DEF Commands
    <2> QED
      BY <1>1, <1>3, <1>5, <2>1, <2>2, <2>3 DEF WireInOrder, ExecutedOnceInOrder, Ends
  <1>7. CASE link = "up"
    <2> DEFINE new == [i \in 1..n |-> <<Head(queue), offset + i>>]
    <2>1. new \in Seq(Units) /\ Len(new) = n
      BY <1>1, <1>4 DEF Units
    <2>2. /\ wire' = wire \o new
          /\ DOMAIN wire' = 1..(Len(wire) + n) /\ DOMAIN wire = 1..Len(wire)
          /\ \A i \in 1..Len(wire) : wire'[i] = wire[i]
          /\ \A i \in 1..n : wire'[Len(wire) + i] = <<written, offset + i>>
      BY <1>1, <1>2, <1>4, <1>7, <2>1, ConcatProperties, LenProperties
    <2> HIDE DEF new
    <2>3. ASSUME NEW k \in DOMAIN wire', Ends(wire'[k]), k \notin DOMAIN wire
          PROVE  /\ wire'[k][1] = written /\ written' = written + 1
                 /\ k = Len(wire) + n
      <3>1. k - Len(wire) \in 1..n /\ k = Len(wire) + (k - Len(wire))
        BY <1>1, <1>4, <2>2, <2>3
      <3>2. wire'[k] = <<written, offset + (k - Len(wire))>>
        BY <2>2, <3>1
      <3>3. offset + (k - Len(wire)) = CmdSize
        BY <2>3, <3>2 DEF Ends
      <3>4. n = CmdSize - offset
        BY <1>1, <1>4, <3>1, <3>3
      <3> QED
        BY SMTT(30), <1>1, <1>2, <3>1, <3>2, <3>3, <3>4
    <2>4. ASSUME NEW k \in DOMAIN wire PROVE wire'[k] = wire[k] /\ wire[k][1] \in Int
      BY <1>1, <2>2, ElementOfSeq DEF Units, Commands
    <2>5. \A i \in DOMAIN accepted : accepted[i] \in Int /\ accepted[i] < written
      BY <1>1, LenProperties, ElementOfSeq DEF Commands, WireInOrder
    <2>6. \A i \in DOMAIN wire' : Ends(wire'[i]) => wire'[i][1] < written'
      BY <1>1, <1>5, <2>3, <2>4 DEF WireInOrder
    <2>7. ASSUME NEW i \in DOMAIN wire', NEW j \in DOMAIN wire', i < j,
                 Ends(wire'[i]), Ends(wire'[j])
          PROVE  wire'[i][1] < wire'[j][1]
      <3>1. CASE j \in DOMAIN wire
        <4>1. i \in DOMAIN wire
          BY <2>2, <2>7, <3>1, <1>1
        <4> QED
          BY <2>4, <2>7, <3>1, <4>1 DEF WireInOrder
      <3>2. CASE j \notin DOMAIN wire
        <4>1. j = Len(wire) + n /\ (i \notin DOMAIN wire => i = Len(wire) + n)
          BY <2>3, <2>7, <3>2
        <4>2. i \in DOMAIN wire
          BY <4>1, <2>7, <1>1, <1>4
        <4> QED
          BY <2>3, <2>4, <2>7, <3>2, <4>2 DEF WireInOrder
      <3> QED
        BY <3>1, <3>2
    <2>8. ASSUME NEW i \in DOMAIN accepted, NEW j \in DOMAIN wire', Ends(wire'[j])
          PROVE  accepted[i] < wire'[j][1]
      BY <2>3, <2>4, <2>5, <2>8 DEF WireInOrder
    <2>9. \A i \in DOMAIN accepted : accepted[i] < written'
      BY <1>1, <1>5, <2>5
    <2> QED
      BY <1>3, <2>6, <2>7, <2>8, <2>9 DEF WireInOrder, ExecutedOnceInOrder, Ends
  <1> QED
    BY <1>6, <1>7

(* Scamper accepts a command only with its last unit.                       *)
LEMMA ReceiveKeepsOrder ==
  ASSUME IInv, WireInOrder, ScamperReceive
  PROVE  WireInOrder'
  <1> USE DriverAssumption DEF DriverAssumption
  <1>1. /\ wire \in Seq(Units) /\ wire # <<>> /\ wire' = Tail(wire)
        /\ accepted \in Seq(Commands) /\ written' = written /\ written \in Nat
    BY DEF ScamperReceive, IInv, TypeOK, loopVars
  <1>2. /\ Head(wire) = wire[1] /\ wire[1] \in Units
        /\ Len(wire) \in Nat \ {0} /\ DOMAIN wire = 1..Len(wire)
        /\ DOMAIN wire' = 1..(Len(wire) - 1)
        /\ \A i \in DOMAIN wire' : wire'[i] = wire[i + 1]
    BY <1>1, HeadTailProperties, EmptySeq, LenProperties, ElementOfSeq
  <1>3. \A i \in DOMAIN wire' : i + 1 \in DOMAIN wire /\ 1 < i + 1
    BY <1>2
  <1>4. /\ \A i \in DOMAIN wire' : Ends(wire'[i]) => wire'[i][1] < written'
        /\ \A i, j \in DOMAIN wire' :
             i < j /\ Ends(wire'[i]) /\ Ends(wire'[j]) => wire'[i][1] < wire'[j][1]
    <2>1. ASSUME NEW i \in DOMAIN wire', NEW j \in DOMAIN wire', i < j
          PROVE  i + 1 < j + 1
      BY <1>2, <2>1
    <2> QED
      BY <1>1, <1>2, <1>3, <2>1 DEF WireInOrder
  <1>5. CASE accepted' = accepted
    BY <1>1, <1>2, <1>3, <1>4, <1>5 DEF WireInOrder, ExecutedOnceInOrder, Ends
  <1>6. CASE accepted' = Append(accepted, wire[1][1]) /\ Ends(wire[1])
    <2>1. wire[1][1] \in Commands
      BY <1>2 DEF Units
    <2>2. /\ DOMAIN accepted' = 1..(Len(accepted) + 1) /\ Len(accepted) \in Nat
          /\ DOMAIN accepted = 1..Len(accepted)
          /\ accepted'[Len(accepted) + 1] = wire[1][1]
          /\ \A i \in DOMAIN accepted : accepted'[i] = accepted[i]
      BY <1>1, <1>6, <2>1, AppendProperties, LenProperties
    <2>3. 1 \in DOMAIN wire
      BY <1>2
    <2>4. ASSUME NEW i \in DOMAIN accepted'
          PROVE  \/ i \in DOMAIN accepted /\ accepted'[i] = accepted[i]
                 \/ i = Len(accepted) + 1 /\ accepted'[i] = wire[1][1]
      BY <2>2
    <2>5. \A i \in DOMAIN accepted' : accepted'[i] < written'
      BY <1>1, <1>6, <2>3, <2>4 DEF WireInOrder
    <2>6. \A i \in DOMAIN accepted', j \in DOMAIN wire' :
            Ends(wire'[j]) => accepted'[i] < wire'[j][1]
      BY <1>2, <1>3, <1>6, <2>3, <2>4 DEF WireInOrder
    <2>7. ASSUME NEW i \in DOMAIN accepted', NEW j \in DOMAIN accepted', i < j
          PROVE  accepted'[i] < accepted'[j]
      <3>1. i \in DOMAIN accepted
        BY <2>2, <2>7
      <3>2. CASE j \in DOMAIN accepted
        BY <2>2, <2>7, <3>1, <3>2 DEF WireInOrder, ExecutedOnceInOrder
      <3>3. CASE j = Len(accepted) + 1
        BY <1>6, <2>2, <2>3, <3>1, <3>3 DEF WireInOrder
      <3> QED
        BY <2>4, <3>2, <3>3
    <2> QED
      BY <1>4, <2>5, <2>6, <2>7 DEF WireInOrder, ExecutedOnceInOrder, Ends
  <1>7. \/ accepted' = accepted
        \/ accepted' = Append(accepted, wire[1][1]) /\ Ends(wire[1])
    BY <1>2 DEF ScamperReceive, Ends
  <1> QED
    BY <1>5, <1>6, <1>7

LEMMA WireStaysInOrder == Spec => []WireInOrder
  <1>1. Init => WireInOrder
    BY DEF Init, WireInOrder, ExecutedOnceInOrder
  <1>2. ASSUME IInv, WireInOrder, [Next]_vars PROVE WireInOrder'
    <2>1. CASE HandleScamperWrite
      BY <1>2, <2>1, WriteKeepsOrder
    <2>2. CASE ScamperReceive
      BY <1>2, <2>2, ReceiveKeepsOrder
    <2>3. CASE UNCHANGED <<wire, accepted, written>>
      BY <1>2, <2>3 DEF WireInOrder, ExecutedOnceInOrder, Ends
    <2> QED
      BY <1>2, <2>1, <2>2, <2>3, OthersKeepWire DEF vars, loopVars, scamperVars
  <1> QED
    BY <1>1, <1>2, Invariance, PTL DEF Spec

(* Scamper executes no probe twice and none before an earlier one, although *)
(* handle_scamper_write() repeats an interrupted command from its start     *)
(* (driver.cpp:489-511): what is left of the first attempt never ends with  *)
(* the command's newline.                                                   *)
THEOREM ProbesExecutedOnceInOrder == Spec => []ExecutedOnceInOrder
  BY WireStaysInOrder, PTL DEF WireInOrder

-----------------------------------------------------------------------------
(* The driver implements CommandChannel. *)

LEMMA InitChannel == Init => Channel!Init
  BY DEF Init, Channel!Init

(* Every step of the driver is a step of the channel or leaves it alone:    *)
(* probe() submits, a read of MOREs grants, a complete write delivers.      *)
LEMMA NextChannel ==
  ASSUME IInv, [Next]_vars
  PROVE  [Channel!Next]_(Channel!channelVars)
  <1> USE DEF Channel!Next, Channel!channelVars
  <1>1. /\ issued \in Nat /\ written \in Nat /\ more \in Nat
        /\ Len(queue) + Len(mailbox) = issued + 1 - written
        /\ Len(queue) \in Nat /\ Len(mailbox) \in Nat
    BY LenProperties DEF IInv, TypeOK, BacklogInOrder
  <1>2. CASE ProbeSend
    BY <1>2, <1>1 DEF ProbeSend, loopVars, Channel!Submit
  <1>3. CASE HandleScamperRead
    <2>1. PICK m \in 0..inMore : more' = more + m
      BY <1>3 DEF HandleScamperRead, ReadLines
    <2>2. m \in Nat
      BY <2>1 DEF IInv, TypeOK
    <2>3. UNCHANGED <<issued, written, link>>
      BY <1>3 DEF HandleScamperRead, ReadLines, callerVars
    <2>4. CASE m = 0
      BY <2>1, <2>3, <2>4, <1>1
    <2>5. CASE m > 0
      <3>1. more' \in Nat /\ more' > more
        BY <2>1, <2>2, <2>5, <1>1
      <3> QED
        BY <3>1, <2>3 DEF Channel!Grant
    <2> QED
      BY <2>2, <2>4, <2>5
  <1>4. CASE HandleScamperWrite
    <2>1. queue # <<>> /\ queue \in Seq(Commands) /\ more > 0
      BY <1>4 DEF HandleScamperWrite, WriteFront, Dispatch, IInv, WriteHasWork,
                  TypeOK
    <2>2. UNCHANGED <<issued, link>>
      BY <1>4 DEF HandleScamperWrite, WriteFront, callerVars
    <2>3. \/ more' = more - 1 /\ written' = written + 1
          \/ UNCHANGED <<more, written>>
      BY <1>4, <2>1 DEF HandleScamperWrite, WriteFront
    <2>4. written < issued + 1
      <3>1. Len(queue) > 0
        BY <2>1, EmptySeq
      <3> QED
        BY <3>1, <1>1
    <2> QED
      BY <2>1, <2>2, <2>3, <2>4, <1>1 DEF Channel!Deliver
  <1>5. CASE Disconnect
    BY <1>5 DEF Disconnect, callerVars, loopVars, Channel!Break
  <1>6. CASE ProbeNotify \/ StopRequest \/ StopNotify \/ StopJoin
    BY <1>6 DEF ProbeNotify, StopRequest, StopNotify, StopJoin, Wake, loopVars
  <1>7. CASE LoopStart \/ LoopCheck \/ PollReturn \/ DispatchEnd \/ HandleError
             \/ HandleNotifyRead \/ DrainMailbox \/ DrainEnd
    BY <1>7 DEF LoopStart, LoopCheck, PollReturn, DispatchEnd, HandleError,
                HandleNotifyRead, DrainMailbox, TakeMessage, DrainEnd, callerVars,
                loopVars
  <1>8. CASE ScamperReceive \/ ScamperMore \/ UNCHANGED vars
    BY <1>8 DEF ScamperReceive, ScamperMore, vars, callerVars, loopVars
  <1> QED
    BY <1>2, <1>3, <1>4, <1>5, <1>6, <1>7, <1>8 DEF Next, Manager, Loop

(* The driver is a credit-controlled channel: it sends what was submitted,  *)
(* in order, and never more than scamper asked for.                         *)
THEOREM DriverImplementsChannel == Spec => ChannelSpec
  <1>1. Spec => Channel!Init /\ [][Channel!Next]_(Channel!channelVars)
    BY InitChannel, NextChannel, Invariance, PTL DEF Spec
  <1> QED
    BY <1>1, PTL DEF ChannelSpec, Channel!Spec
=============================================================================
