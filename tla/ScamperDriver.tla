---------------------------- MODULE ScamperDriver ----------------------------
(***************************************************************************)
(* The driver of one scamper daemon (libspoki/src/scamper/driver.cpp).     *)
(*                                                                         *)
(* Three parties run concurrently:                                         *)
(*   - the manager actor, which calls probe() and finally destroys the     *)
(*     driver (stop());                                                    *)
(*   - the multiplexer thread run() with its callbacks, here the epoll     *)
(*     variant that Linux builds use;                                      *)
(*   - the scamper daemon at the other end of a non-blocking stream        *)
(*     socket (external).                                                  *)
(* A probe travels from the manager through the mailbox of the driver's    *)
(* scoped actor (announced by a byte in the notify pipe) into the request  *)
(* queue, and from there, one MORE per command, to scamper.                *)
(*                                                                         *)
(* Commands are numbered: 0 is "attach", n is the n-th probe.  A command   *)
(* has CmdSize units (bytes) <<c, 1>> .. <<c, CmdSize>>, the last one is   *)
(* its newline.  Replies and their decoding are left out: here every line  *)
(* of scamper that is not a MORE is just an inbound line.                  *)
(***************************************************************************)
EXTENDS Integers, Sequences, FiniteSets

CONSTANTS
  MaxProbes,  \* bound: probes the manager requests in a behaviour
  CmdSize,    \* units of a command
  WireCap,    \* units the socket buffers between driver and scamper hold
  LowWater,   \* free units from which on the kernel reports EPOLLOUT
  PipeCap,    \* bytes the notify pipe holds (64 KiB on Linux)
  ReadChunk,  \* bytes one notify read takes from the pipe (16)
  Window      \* commands scamper accepts before it has worked on one

ASSUME DriverAssumption ==
  /\ MaxProbes \in Nat
  /\ CmdSize \in Nat \ {0} /\ WireCap \in Nat \ {0} /\ LowWater \in 1..WireCap
  /\ PipeCap \in Nat \ {0} /\ ReadChunk \in Nat \ {0} /\ Window \in Nat \ {0}

VARIABLES
  \* the manager's side
  callerPc,   \* "idle" | "notify" | "stopping" | "joining" | "gone"
  issued,     \* probes requested so far
  mailbox,    \* commands in the mailbox of self_
  pipe,       \* bytes in the notify pipe
  \* the multiplexer thread
  loopPc,     \* "start" | "check" | "poll" | "dispatch" | "drain" | "exited" | "undefined"
  ready,      \* events of the current pollset that are not dispatched yet
  done,       \* done_
  mask,       \* masks_[scamper_fd_]
  queue,      \* scamper_probe_requests_
  more,       \* scamper_more_
  writing,    \* scamper_writing_
  offset,     \* scamper_written_
  \* the connection and the scamper daemon
  link,       \* "up" | "fin" (orderly shutdown) | "reset" (error or hang-up)
  wire,       \* units on their way to scamper
  line,       \* units scamper has read since the last newline
  accepted,   \* commands scamper has read as an intact line
  credit,     \* commands scamper has asked for and not read
  inMore,     \* MORE lines on their way to the driver
  inOther,    \* other lines (OK, ERR, DATA) on their way to the driver
  \* history, read by properties only
  written,    \* commands the driver counted as sent
  put,        \* units of the front command the kernel has taken
  moresRead   \* MORE lines the driver has handled

callerVars == <<callerPc, issued>>
loopVars == <<mask, queue, more, writing, offset, written, put, moresRead>>
scamperVars == <<wire, line, accepted, credit, inMore, inOther>>
vars == <<callerVars, mailbox, pipe, loopPc, ready, done, loopVars, link,
          scamperVars>>

Commands == 0..MaxProbes
Units == Commands \X (1..CmdSize)

Init ==
  /\ callerPc = "idle" /\ issued = 0 /\ mailbox = <<>> /\ pipe = 0
  /\ loopPc = "start" /\ ready = {} /\ done = FALSE /\ mask = {}
  /\ queue = <<0>> /\ more = 1 /\ writing = FALSE /\ offset = 0
  /\ link = "up" /\ wire = <<>> /\ line = <<>> /\ accepted = <<>>
  /\ credit = 1 /\ inMore = 0 /\ inOther = 0
  /\ written = 0 /\ put = 0 /\ moresRead = 0

-----------------------------------------------------------------------------
(* The manager's thread. *)

(* probe(): the command goes into the mailbox ... *)
ProbeSend ==
  /\ callerPc = "idle" /\ issued < MaxProbes
  /\ issued' = issued + 1
  /\ mailbox' = Append(mailbox, issued + 1)
  /\ callerPc' = "notify"
  /\ UNCHANGED <<pipe, loopPc, ready, done, loopVars, link, scamperVars>>

(* k bytes go into the notify pipe; its writing end blocks while it is full. *)
Wake(k, pc) ==
  /\ pipe + k <= PipeCap
  /\ pipe' = pipe + k
  /\ callerPc' = pc
  /\ UNCHANGED <<issued, mailbox, loopPc, ready, done, loopVars, link,
                 scamperVars>>

(* ... and then a byte into the notify pipe. *)
ProbeNotify == callerPc = "notify" /\ Wake(1, "idle")

(* stop(), called by the destructor: done_ is set ... *)
StopRequest ==
  /\ callerPc = "idle"
  /\ done' = TRUE
  /\ callerPc' = "stopping"
  /\ UNCHANGED <<issued, mailbox, pipe, loopPc, ready, loopVars, link,
                 scamperVars>>

(* ... the multiplexer is woken ... *)
StopNotify_NoByte == callerPc = "stopping" /\ Wake(0, "joining")
StopNotify == callerPc = "stopping" /\ Wake(1, "joining")

(* ... and joined. *)
StopJoin ==
  /\ callerPc = "joining" /\ loopPc = "exited"
  /\ callerPc' = "gone"
  /\ UNCHANGED <<issued, mailbox, pipe, loopPc, ready, done, loopVars, link,
                 scamperVars>>

Manager == ProbeSend \/ ProbeNotify \/ StopRequest \/ StopNotify \/ StopJoin

-----------------------------------------------------------------------------
(* The multiplexer thread: run() and the epoll bookkeeping. *)

(* The thread reaches its loop: events are registered, done_ is cleared. *)
LoopStart ==
  /\ loopPc = "start"
  /\ loopPc' = "check"
  /\ done' = FALSE
  /\ mask' = {"read", "write"}
  /\ UNCHANGED <<callerVars, mailbox, pipe, ready, queue, more, writing, offset,
                 written, put, moresRead, link, scamperVars>>

LoopCheck ==
  /\ loopPc = "check"
  /\ loopPc' = IF done THEN "exited" ELSE "poll"
  /\ UNCHANGED <<callerVars, mailbox, pipe, ready, done, loopVars, link,
                 scamperVars>>

(* What epoll_wait reports.  For one socket an error hides everything, and  *)
(* run() looks at EPOLLOUT only when EPOLLIN is not set.                    *)
NotifyEvents == IF pipe > 0 THEN {"notify"} ELSE {}
ScamperEvents ==
  IF link = "reset" THEN {"error"}
  ELSE IF "read" \in mask /\ (link = "fin" \/ inMore + inOther > 0) THEN {"read"}
  ELSE IF "write" \in mask /\ WireCap - Len(wire) >= LowWater THEN {"write"}
  ELSE {}

PollReturn ==
  /\ loopPc = "poll"
  /\ ready' = NotifyEvents \cup ScamperEvents
  /\ ready' # {}
  /\ loopPc' = "dispatch"
  /\ UNCHANGED <<callerVars, mailbox, pipe, done, loopVars, link, scamperVars>>

(* The callback of one event of the pollset is called. *)
Dispatch(event) ==
  /\ loopPc = "dispatch"
  /\ event \in ready
  /\ ready' = ready \ {event}

DispatchEnd ==
  /\ loopPc = "dispatch" /\ ready = {}
  /\ loopPc' = "check"
  /\ UNCHANGED <<callerVars, mailbox, pipe, ready, done, loopVars, link,
                 scamperVars>>

(* An error event switches off both directions of the socket. *)
HandleError ==
  /\ Dispatch("error")
  /\ mask' = {}
  /\ UNCHANGED <<callerVars, mailbox, pipe, loopPc, done, queue, more, writing,
                 offset, written, put, moresRead, link, scamperVars>>

(* The first half of handle_notify_read(): up to ReadChunk bytes are taken. *)
HandleNotifyRead ==
  /\ Dispatch("notify")
  /\ pipe' = IF pipe < ReadChunk THEN 0 ELSE pipe - ReadChunk
  /\ loopPc' = "drain"
  /\ UNCHANGED <<callerVars, mailbox, done, loopVars, link, scamperVars>>

(* Writing is switched on when there is something to send and a MORE for it, *)
(* and both hold only after this step's change.                              *)
EnableWrite(cond) ==
  /\ writing' = (writing \/ cond)
  /\ mask' = IF cond /\ ~writing THEN mask \cup {"write"} ELSE mask

(* The second half takes the messages one by one until none is left. *)
TakeMessage(pc) ==
  /\ loopPc = "drain" /\ mailbox # <<>>
  /\ queue' = Append(queue, Head(mailbox))
  /\ mailbox' = Tail(mailbox)
  /\ EnableWrite(more > 0)
  /\ loopPc' = pc
  /\ UNCHANGED <<callerVars, pipe, ready, done, more, offset, written, put,
                 moresRead, link, scamperVars>>

DrainMailbox_OneMessage == TakeMessage("dispatch")
DrainMailbox == TakeMessage("drain")

DrainEnd ==
  /\ loopPc = "drain" /\ mailbox = <<>>
  /\ loopPc' = "dispatch"
  /\ UNCHANGED <<callerVars, mailbox, pipe, ready, done, loopVars, link,
                 scamperVars>>

(* handle_scamper_read(): some of the lines that have arrived are read; a   *)
(* MORE raises scamper_more_ and may switch writing on.  Nothing is read    *)
(* from a closed connection.                                                *)
ReadLines(mayEnable) ==
  /\ Dispatch("read")
  /\ \E m \in 0..inMore, o \in 0..inOther :
       /\ m + o > 0 \/ inMore + inOther = 0
       /\ inMore' = inMore - m /\ inOther' = inOther - o
       /\ more' = more + m /\ moresRead' = moresRead + m
       /\ EnableWrite(m > 0 /\ mayEnable)
  /\ UNCHANGED <<callerVars, mailbox, pipe, loopPc, done, queue, offset,
                 written, put, link, wire, line, accepted, credit>>

HandleScamperRead_Never == ReadLines(FALSE)
HandleScamperRead == ReadLines(queue # <<>>)

(* handle_scamper_write(): the front command is written from scamper_written_ *)
(* on.  The kernel takes what fits; on a broken connection send() returns an  *)
(* error number that the code adds up as if it were a count of bytes, so the  *)
(* command either counts as sent or stays.  After a complete write the        *)
(* command is popped and a MORE used up; a partial write moves nothing.       *)
(* The first test of the handler does not return: with an empty queue front() *)
(* is undefined.  moreAfter, queueAfter and nothingLeft are the counter, the  *)
(* queue and the condition to switch writing off after a complete write.      *)
WriteFront(moreAfter, queueAfter, nothingLeft) ==
  LET remaining == CmdSize - offset
      free == WireCap - Len(wire)
      taken == IF link # "up" THEN {0, remaining}
               ELSE IF free < remaining THEN {free} ELSE {remaining}
      off(stop) == /\ mask' = IF stop THEN mask \ {"write"} ELSE mask
                   /\ writing' = (writing /\ ~stop)
  IN
  /\ Dispatch("write")
  /\ IF queue = <<>>
     THEN /\ loopPc' = "undefined"
          /\ off(TRUE)
          /\ UNCHANGED <<queue, more, offset, wire, written, put>>
     ELSE \E n \in taken :
          /\ loopPc' = loopPc
          /\ off(more = 0 \/ (n = remaining /\ nothingLeft))
          /\ wire' = IF link = "up"
                     THEN wire \o [i \in 1..n |-> <<Head(queue), offset + i>>]
                     ELSE wire
          /\ IF n = remaining
             THEN /\ queue' = queueAfter /\ more' = moreAfter /\ offset' = 0
                  /\ written' = written + 1 /\ put' = 0
             ELSE /\ put' = IF link = "up" THEN offset + n ELSE put
                  /\ UNCHANGED <<queue, more, offset, written>>
  /\ UNCHANGED <<callerVars, mailbox, pipe, done, moresRead, link, line,
                 accepted, credit, inMore, inOther>>

HandleScamperWrite_NoMoreTest == WriteFront(more - 1, Tail(queue), Len(queue) = 1)
HandleScamperWrite_FreeCommand ==
  WriteFront(more, Tail(queue), more = 0 \/ Len(queue) = 1)
HandleScamperWrite_NoPop == WriteFront(more - 1, queue, more = 1)
HandleScamperWrite ==
  WriteFront(more - 1, Tail(queue), more = 1 \/ Len(queue) = 1)

Loop ==
  \/ LoopStart \/ LoopCheck \/ PollReturn \/ DispatchEnd
  \/ HandleError \/ HandleNotifyRead \/ DrainMailbox \/ DrainEnd
  \/ HandleScamperRead \/ HandleScamperWrite

-----------------------------------------------------------------------------
(* The scamper daemon (external) and the connection.                        *)

Garbled == <<<<-1, 0>>>>

(* Scamper reads a unit.  Up to a newline it collects the units of one      *)
(* command; a line that is anything else is answered with an error.         *)
ScamperReceive ==
  /\ link = "up" /\ wire # <<>>
  /\ wire' = Tail(wire)
  /\ LET unit == Head(wire)
         text == Append(line, unit)
         intact == line # Garbled /\ text = [i \in 1..Len(text) |-> <<unit[1], i>>]
     IN IF unit[2] = CmdSize
        THEN /\ accepted' = IF intact THEN Append(accepted, unit[1]) ELSE accepted
             /\ line' = <<>>
             /\ credit' = credit - 1
             /\ inOther' = inOther + 1
        ELSE /\ line' = IF intact THEN text ELSE Garbled
             /\ UNCHANGED <<accepted, credit, inOther>>
  /\ UNCHANGED <<callerVars, mailbox, pipe, loopPc, ready, done, loopVars, link,
                 inMore>>

(* Once attached, scamper asks for commands until Window of them are open. *)
ScamperMore ==
  /\ link = "up" /\ accepted # <<>> /\ credit < Window
  /\ credit' = credit + 1
  /\ inMore' = inMore + 1
  /\ UNCHANGED <<callerVars, mailbox, pipe, loopPc, ready, done, loopVars, link,
                 wire, line, accepted, inOther>>

(* The connection ends; the driver never opens another one. *)
Disconnect ==
  /\ link = "up"
  /\ link' \in {"fin", "reset"}
  /\ UNCHANGED <<callerVars, mailbox, pipe, loopPc, ready, done, loopVars,
                 scamperVars>>

Next == Manager \/ Loop \/ ScamperReceive \/ ScamperMore \/ Disconnect

(* The multiplexer thread and a manager in the middle of a call are         *)
(* scheduled, and the daemon works on its input while the link is up.       *)
(* Nobody has to request a probe, stop the driver or break the connection.  *)
Fairness ==
  /\ WF_vars(Loop)
  /\ WF_vars(ProbeNotify) /\ WF_vars(StopNotify) /\ WF_vars(StopJoin)
  /\ WF_vars(ScamperReceive) /\ WF_vars(ScamperMore)

Spec == Init /\ [][Next]_vars
FairSpec == Spec /\ Fairness

-----------------------------------------------------------------------------
(* Properties. *)

(* Every variable has its type; in particular scamper_more_, unsigned in    *)
(* the code, never underflows, and scamper never gets a command it has not  *)
(* asked for.                                                               *)
TypeOK ==
  /\ callerPc \in {"idle", "notify", "stopping", "joining", "gone"}
  /\ issued \in 0..MaxProbes /\ mailbox \in Seq(Commands) /\ pipe \in 0..PipeCap
  /\ loopPc \in {"start", "check", "poll", "dispatch", "drain", "exited",
                 "undefined"}
  /\ ready \subseteq {"notify", "read", "write", "error"}
  /\ done \in BOOLEAN /\ mask \subseteq {"read", "write"}
  /\ queue \in Seq(Commands) /\ more \in Nat /\ writing \in BOOLEAN
  /\ offset \in 0..CmdSize /\ put \in 0..CmdSize
  /\ written \in Nat /\ moresRead \in Nat
  /\ link \in {"up", "fin", "reset"}
  /\ wire \in Seq(Units) /\ Len(wire) <= WireCap /\ accepted \in Seq(Commands)
  /\ line \in Seq(Units) \cup {Garbled}
  /\ credit \in Int /\ inMore \in Nat /\ inOther \in Nat

(* A write event is only ever armed or pending while there is a command to  *)
(* write and a MORE to spend on it.  This is what keeps the handler, whose  *)
(* guard at driver.cpp:485 falls through, away from front() on an empty     *)
(* queue and from an underflow of scamper_more_.                            *)
WriteHasWork ==
  /\ "write" \in mask \cup ready => queue # <<>> /\ more > 0
  /\ loopPc # "undefined"

(* A command in the mailbox is never forgotten: a byte in the pipe, a       *)
(* caller about to write one, or a running drain loop will get to it.       *)
NoLostWakeup ==
  mailbox # <<>> => pipe > 0 \/ callerPc = "notify" \/ loopPc = "drain"

(* While a command waits and scamper has asked for one, writing is on:      *)
(* otherwise no event would ever send it.                                   *)
NoIdleCredit ==
  loopPc # "start" /\ link # "reset" /\ queue # <<>> /\ more > 0
    => "write" \in mask

Numbered(seq, from) == \A i \in DOMAIN seq : seq[i] = from + i - 1

(* Nothing is lost, duplicated or reordered between probe() and the socket: *)
(* what is left of the requests is, without a gap, first the queue and then *)
(* the mailbox.                                                             *)
BacklogInOrder ==
  /\ Len(queue) + Len(mailbox) = issued + 1 - written
  /\ Numbered(queue, written)
  /\ Numbered(mailbox, written + Len(queue))

(* Driver and daemon agree on the flow control: what scamper has asked for  *)
(* is what the driver may still send, plus the MOREs and the commands that  *)
(* are on their way, and it is never negative.                              *)
CreditAgrees ==
  link = "up" =>
    /\ credit = more + inMore
                + Cardinality({i \in DOMAIN wire : wire[i][2] = CmdSize})
    /\ credit >= 0

(* Scamper never executes a probe twice and never one before an earlier     *)
(* one, although an interrupted write is repeated from the start.           *)
ExecutedOnceInOrder ==
  \A i, j \in DOMAIN accepted : i < j => accepted[i] < accepted[j]

(* driver.hpp:179 calls scamper_written_ the "Offset while writing."        *)
OffsetWhileWriting == offset = put

(* Every requested probe is sent, unless the connection breaks or the       *)
(* driver is stopped.                                                       *)
EveryProbeSent ==
  \A n \in 1..MaxProbes :
    issued >= n ~> written > n \/ link # "up" \/ callerPc \in {"stopping", "joining", "gone"}

(* Once the loop runs, a stop request ends it. *)
RunningLoopStops == done /\ loopPc # "start" ~> loopPc = "exited"

(* Not so: driver.hpp:143 says that setting done_ makes the multiplexer     *)
(* stop at the next opportunity, so that stop() returns from join().  The   *)
(* loop undoes a stop() that comes before its start.                        *)
StopReturns == callerPc = "joining" ~> callerPc = "gone"

(* The driver is a credit-controlled channel that keeps the order. *)
Channel == INSTANCE CommandChannel WITH
  submitted <- issued + 1, delivered <- written, credit <- more,
  broken <- (link # "up")
ChannelSpec == Channel!Spec
=============================================================================
