------------------------------- MODULE Broker --------------------------------
(***************************************************************************)
(* The scamper broker (broker.cpp), predecessor of manager and driver,     *)
(* with one daemon.  It connects, answers each MORE with a request of its  *)
(* own making, hands results to an async_decoder and, when the connection  *)
(* is lost, destroys the decoder and connects again, every 15 seconds if   *)
(* need be.                                                                *)
(***************************************************************************)
EXTENDS AsyncDecoder

CONSTANTS
  MaxMores,    \* bound: MOREs of the daemon
  MaxLosses    \* bound: times the daemon closes the connection or goes away

ASSUME BrokerAssumption == {MaxMores, MaxLosses} \subseteq Nat

VARIABLES
  broker,      \* "new" | "connecting" | "refused" | "idle" | "writing" | "joining"
               \* | "quitting" | "quit": where a handler of the actor is
  reconnect,   \* the reconnect message: "no" | "sent" | "delayed"
  reachable,   \* the daemon accepts connections
  request_queue, \* requests of the shards: some or none
  more,        \* more
  granted,     \* history: MOREs the daemon has sent on this connection
  commands,    \* history: commands sent on this connection
  mores,       \* history: MOREs sent
  losses       \* history: times the daemon has gone

sideVars == <<reachable, request_queue, granted, mores, losses>>
brokerVars == <<broker, reconnect, more, commands, sideVars>>
vars == <<replyVars, threadVars, brokerVars>>

Init ==
  /\ ReplyInit /\ ThreadInit
  /\ broker = IF variant = "broker" THEN "new" ELSE "quit"
  /\ reconnect = "no" /\ reachable = TRUE /\ request_queue = FALSE
  /\ more = 0 /\ granted = 0 /\ commands = 0 /\ mores = 0 /\ losses = 0

-----------------------------------------------------------------------------
(* Connecting.  A new connection has an instance and a decoder of its own; *)
(* at first the decoder is made before the connection, later after it.     *)

NoInstance ==
  /\ inbound' = <<>> /\ expected' = 0 /\ received' = <<>> /\ more' = 0
  /\ spoiled' = [spoiled EXCEPT !.here = FALSE]

NewInstance ==
  /\ link' = "up" /\ NoInstance
  /\ granted' = 0 /\ commands' = 0

Connect ==
  /\ broker = "new"
  /\ broker' = "connecting"
  /\ Make
  /\ UNCHANGED <<variant, lineVars, expected, received, reconnect, more, commands,
                 sideVars>>

Connected ==
  /\ broker = "connecting" /\ reachable
  /\ broker' = "idle"
  /\ NewInstance
  /\ UNCHANGED <<variant, made, decodeVars, threadVars, reconnect, reachable,
                 request_queue, mores, losses>>

(* Without a connection the handler returns, which destroys the decoder. *)
ConnectFails ==
  /\ broker = "connecting" /\ ~reachable
  /\ broker' = "refused"
  /\ Stop
  /\ UNCHANGED <<replyVars, reconnect, more, commands, sideVars>>

ConnectFailed ==
  /\ broker = "refused" /\ Join
  /\ broker' = "new"
  /\ UNCHANGED <<variant, lineVars, expected, received, reconnect, more, commands,
                 sideVars>>

Reconnect ==
  /\ broker = "idle" /\ reconnect = "sent" /\ reachable
  /\ reconnect' = "no"
  /\ NewInstance /\ Make
  /\ UNCHANGED <<variant, made, broker, reachable, request_queue, mores, losses>>

ReconnectFails ==
  /\ broker = "idle" /\ reconnect = "sent" /\ ~reachable
  /\ reconnect' = "delayed"
  /\ UNCHANGED <<replyVars, threadVars, broker, more, commands, sideVars>>

ReconnectDue ==
  /\ broker = "idle" /\ reconnect = "delayed"
  /\ reconnect' = "sent"
  /\ UNCHANGED <<replyVars, threadVars, broker, more, commands, sideVars>>

-----------------------------------------------------------------------------
(* The handlers. *)

(* send_requests(hdl): all that scamper asks for. *)
SendRequests(wanted) ==
  /\ commands' = commands + wanted
  /\ more' = 0

NewData ==
  /\ broker = "idle" /\ link = "up" /\ inbound # <<>>
  /\ TakeLine
  /\ SendRequests(IF IsMore(Head(inbound)) THEN more + 1 ELSE more)
  /\ IF Decodes(Head(inbound))
     THEN broker' = "writing" /\ WriteMessage(PieceOf(Head(inbound)))
     ELSE UNCHANGED <<broker, mailbox>>
  /\ UNCHANGED <<variant, link, made, spoiled, decodeVars, thread, done, notify,
                 reconnect, sideVars>>

DataNotified ==
  /\ broker = "writing"
  /\ broker' = "idle"
  /\ WriteByte
  /\ UNCHANGED <<replyVars, thread, done, mailbox, reconnect, more, commands, sideVars>>

(* A request of a shard only lengthens the queue; nothing shortens it. *)
Request ==
  /\ broker = "idle" /\ ~request_queue
  /\ request_queue' = TRUE
  /\ SendRequests(more)
  /\ UNCHANGED <<replyVars, threadVars, broker, reconnect, reachable, granted, mores,
                 losses>>

(* connection_closed_msg: the handler waits for the thread of the decoder. *)
ConnectionClosed ==
  /\ broker = "idle" /\ link = "lost"
  /\ broker' = "joining"
  /\ Stop
  /\ UNCHANGED <<replyVars, reconnect, more, commands, sideVars>>

DecoderReset ==
  /\ broker = "joining" /\ Join
  /\ broker' = "idle" /\ reconnect' = "sent"
  /\ link' = "none" /\ NoInstance
  /\ UNCHANGED <<variant, made, commands, sideVars>>

(* done_atom: the connection is closed, and the state destroyed with the   *)
(* actor.                                                                  *)
Done ==
  /\ broker \in {"new", "idle"}
  /\ reconnect' = "no"
  /\ IF link = "none"
     THEN broker' = "quit" /\ UNCHANGED <<link, threadVars>>
     ELSE broker' = "quitting" /\ link' = "lost" /\ Stop
  /\ UNCHANGED <<variant, inbound, made, spoiled, expected, decodeVars, received,
                 more, commands, sideVars>>

Quit ==
  /\ broker = "quitting" /\ Join
  /\ broker' = "quit"
  /\ UNCHANGED <<variant, lineVars, expected, received, reconnect, more, commands,
                 sideVars>>

BrokerStep ==
  \/ Connect \/ Connected \/ ConnectFails \/ ConnectFailed \/ Reconnect
  \/ ReconnectFails \/ ReconnectDue \/ NewData \/ DataNotified \/ ConnectionClosed
  \/ DecoderReset \/ Quit

-----------------------------------------------------------------------------
(* The daemon (external): it sends results, asks for commands, and goes    *)
(* and comes.                                                              *)

DaemonSends ==
  /\ \E bad \in 0 .. Pieces : SendResult(bad)
  /\ UNCHANGED <<threadVars, brokerVars>>

SendMore ==
  /\ variant = "broker" /\ link = "up" /\ mores < MaxMores
  /\ mores' = mores + 1 /\ granted' = granted + 1
  /\ inbound' = Append(inbound, <<"more">>)
  /\ UNCHANGED <<variant, link, made, spoiled, expected, decodeVars, received,
                 threadVars, broker, reconnect, reachable, request_queue, more, commands,
                 losses>>

Lose ==
  /\ variant = "broker" /\ link = "up" /\ losses < MaxLosses
  /\ losses' = losses + 1
  /\ link' = "lost"
  /\ UNCHANGED <<variant, inbound, made, spoiled, expected, decodeVars, received,
                 threadVars, broker, reconnect, reachable, request_queue, more, granted,
                 commands, mores>>

DaemonAway ==
  /\ variant = "broker" /\ link # "up" /\ reachable /\ losses < MaxLosses
  /\ reachable' = FALSE /\ losses' = losses + 1
  /\ UNCHANGED <<replyVars, threadVars, broker, reconnect, request_queue, more, granted,
                 commands, mores>>

DaemonBack ==
  /\ ~reachable
  /\ reachable' = TRUE
  /\ UNCHANGED <<replyVars, threadVars, broker, reconnect, request_queue, more, granted,
                 commands, mores, losses>>

Daemon == DaemonSends \/ SendMore \/ Lose \/ DaemonAway \/ DaemonBack

ThreadStep == Thread /\ UNCHANGED brokerVars

DriverStep == (DriverLoop \/ DriverLoses) /\ UNCHANGED <<threadVars, brokerVars>>

Next == Daemon \/ BrokerStep \/ Request \/ Done \/ ThreadStep \/ DriverStep

(* Actors and threads are scheduled, every pass of a poll loop handles all *)
(* that is ready, the delayed message arrives, and a daemon that is away   *)
(* comes back.                                                             *)
Fairness ==
  /\ WF_vars(BrokerStep)
  /\ WF_vars((ThreadStart \/ ThreadCheck \/ ReceiveAll) /\ UNCHANGED brokerVars)
  /\ SF_vars(HandleNotifyRead /\ UNCHANGED brokerVars)
  /\ SF_vars(HandleDecodeWrite /\ UNCHANGED brokerVars)
  /\ SF_vars(HandleDecodeRead /\ UNCHANGED brokerVars)
  /\ WF_vars(DriverRead /\ UNCHANGED <<threadVars, brokerVars>>)
  /\ WF_vars(DriverDecodeWrite /\ UNCHANGED <<threadVars, brokerVars>>)
  /\ WF_vars(DriverDecodeRead /\ UNCHANGED <<threadVars, brokerVars>>)
  /\ WF_vars(DaemonBack)

Spec == Init /\ [][Next]_vars /\ Fairness

-----------------------------------------------------------------------------
(* Properties                                                              *)

(* Lines are told from data by counting: as long as every line decodes,    *)
(* the lines still expected are the rest of the result being received, and *)
(* what follows them is a command; and each MORE read has been answered    *)
(* with one command.  A result's line is never taken for a command, nor a  *)
(* command for data.                                                       *)
MoresIn(lines) == Cardinality({i \in DOMAIN lines : lines[i][1] = "more"})

InStep ==
  link = "up" /\ ~spoiled.here =>
    /\ expected <= Len(inbound)
    /\ \A i \in 1 .. expected : IsPiece(inbound[i])
    /\ expected < Len(inbound) => ~IsPiece(inbound[expected + 1])
    /\ commands + MoresIn(inbound) = granted

(* Between the connection and scamper's reader, over the mailbox of the    *)
(* decoder, the buffer and the pipe, which takes only a part of a write,   *)
(* no piece is lost, doubled or overtaken: what was decoded is the results *)
(* that have been read, piece by piece, and then what is still on its way. *)
Underway == parsed \o pipe \o writebuf \o mailbox

PiecesRead == Len(forwarded) * Pieces

PiecesInOrder ==
  thread # "none" \/ variant = "driver" =>
    /\ \A k \in DOMAIN forwarded : \A i \in 1 .. Pieces :
         received[(k - 1) * Pieces + i] = <<forwarded[k], i>>
    /\ Len(received) = PiecesRead + Len(Underway)
    /\ \A j \in DOMAIN Underway : received[PiecesRead + j] = Underway[j]

(* A result that has been received in full is read by the decoder at last, *)
(* whatever comes after it, unless a line was spoiled or the decoder is    *)
(* destroyed with the connection.                                          *)
ReceivedAll(r) == \A i \in 1 .. Pieces : Contains(received, <<r, i>>)

EveryResultRead ==
  \A r \in 1 .. MaxResults :
    ReceivedAll(r) /\ ~spoiled.here
      ~> \/ Contains(forwarded, r)
         \/ spoiled.here
         \/ variant = "broker" /\ link # "up"

(* A lost connection is made again, however often the daemon refuses, or   *)
(* the broker quits: the thread of the old decoder does not keep the       *)
(* handler in join() for ever.  The exception is a thread that has not     *)
(* started when it is stopped: its start undoes the stop.                  *)
Reconnects ==
  link = "lost" /\ broker \in {"idle", "writing"} /\ thread # "starting"
    ~> link = "up" \/ broker = "quit"
=============================================================================
