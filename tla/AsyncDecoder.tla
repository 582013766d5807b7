---------------------------- MODULE AsyncDecoder -----------------------------
(***************************************************************************)
(* The decoder of the broker (async_decoder.cpp): a thread of its own with *)
(* a poll loop over a notify socket and the two ends of the decode pipe.   *)
(* The broker hands it data through the mailbox of a scoped actor and a    *)
(* byte in the notify socket, and stops it by a flag, a byte and join().   *)
(***************************************************************************)
EXTENDS ReplyPath

CONSTANTS
  NotifyRoom,  \* bytes the notify socket holds; more are dropped
  NotifyRead   \* bytes one call takes (16)

ASSUME NotifyAssumption == {NotifyRoom, NotifyRead} \subseteq Nat \ {0}

VARIABLES
  thread,   \* "none" | "starting" | "check" | "poll" | "receiving" | "exited"
  done,     \* done_
  mailbox,  \* pieces in the mailbox of self_
  notify    \* bytes in the notify socket

threadVars == <<thread, done, mailbox, notify>>

ThreadInit == thread = "none" /\ done = FALSE /\ mailbox = <<>> /\ notify = 0

(* write(): the message, and then the byte. *)
WriteMessage(piece) == mailbox' = Append(mailbox, piece)

WriteByte == notify' = IF notify < NotifyRoom THEN notify + 1 ELSE notify

-----------------------------------------------------------------------------
(* run() *)

(* The loop clears done_ when it begins, also when stop() has been before. *)
ThreadStart ==
  /\ thread = "starting"
  /\ done' = FALSE
  /\ thread' = "check"
  /\ UNCHANGED <<mailbox, notify, replyVars>>

ThreadCheck ==
  /\ thread = "check"
  /\ thread' = IF done THEN "exited" ELSE "poll"
  /\ UNCHANGED <<done, mailbox, notify, replyVars>>

(* A pass of the loop may handle more than one event; here the flag is     *)
(* read again after each.                                                  *)
HandleNotifyRead ==
  /\ thread = "poll" /\ notify > 0
  /\ notify' = IF notify < NotifyRead THEN 0 ELSE notify - NotifyRead
  /\ thread' = "receiving"
  /\ UNCHANGED <<done, mailbox, replyVars>>

(* One message for each call. *)
ReceiveOne ==
  /\ thread = "receiving"
  /\ thread' = "check"
  /\ IF mailbox = <<>> THEN UNCHANGED <<mailbox, writebuf, decoding>>
     ELSE mailbox' = Tail(mailbox) /\ Buffer(<<Head(mailbox)>>)
  /\ UNCHANGED <<done, notify, variant, lineVars, expected, received, pipe, parsed,
                 stuck, forwarded>>

ReceiveAll ==
  /\ thread = "receiving"
  /\ thread' = "check"
  /\ mailbox' = <<>>
  /\ Buffer(mailbox)
  /\ UNCHANGED <<done, notify, variant, lineVars, expected, received, pipe, parsed,
                 stuck, forwarded>>

HandleDecodeWrite ==
  /\ thread = "poll" /\ thread' = "check"
  /\ DecodeWrite
  /\ UNCHANGED <<done, mailbox, notify>>

HandleDecodeRead ==
  /\ thread = "poll" /\ thread' = "check"
  /\ DecodeRead
  /\ UNCHANGED <<done, mailbox, notify>>

Thread ==
  \/ ThreadStart \/ ThreadCheck \/ HandleNotifyRead \/ ReceiveAll
  \/ HandleDecodeWrite \/ HandleDecodeRead

-----------------------------------------------------------------------------
(* Made and destroyed by the broker. *)

Fresh ==
  /\ writebuf' = <<>> /\ decoding' = FALSE /\ pipe' = <<>> /\ parsed' = <<>>
  /\ stuck' = FALSE /\ forwarded' = <<>>
  /\ mailbox' = <<>> /\ notify' = 0 /\ done' = FALSE

Make == thread' = "starting" /\ Fresh

StopUnnoticed == done' = TRUE /\ UNCHANGED <<thread, mailbox, notify>>

Stop ==
  /\ done' = TRUE /\ WriteByte
  /\ UNCHANGED <<thread, mailbox>>

Join == thread = "exited" /\ thread' = "none" /\ Fresh
=============================================================================
