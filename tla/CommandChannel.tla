--------------------------- MODULE CommandChannel ---------------------------
(***************************************************************************)
(* What the scamper driver promises its manager: a channel that carries    *)
(* the commands of the attach protocol to scamper in the order in which    *)
(* they were submitted, loses none, and never sends one that scamper has   *)
(* not asked for.  Command 0 is the "attach" the driver submits itself,    *)
(* command n the n-th probe.  The channel is abstract: there is no thread, *)
(* no pipe, no event loop and no queue, only three counters and the state  *)
(* of the connection.  ScamperDriver implements it.                        *)
(***************************************************************************)
EXTENDS Naturals

VARIABLES
  submitted,  \* commands handed to the driver, the attach command included
  delivered,  \* commands the driver handed to the socket
  credit,     \* commands scamper asked for (MORE) and has not been sent
  broken      \* the connection is gone, nothing is promised any more

channelVars == <<submitted, delivered, credit, broken>>

TypeOK ==
  /\ submitted \in Nat /\ delivered \in Nat /\ credit \in Nat
  /\ broken \in BOOLEAN

Init ==
  /\ submitted = 1 /\ delivered = 0   \* the attach command waits ...
  /\ credit = 1                       \* ... and needs no MORE
  /\ broken = FALSE

(* The manager asks for a probe. *)
Submit ==
  /\ submitted' = submitted + 1
  /\ UNCHANGED <<delivered, credit, broken>>

(* The driver learns that scamper accepts some more commands. *)
Grant ==
  /\ credit' \in Nat /\ credit' > credit
  /\ UNCHANGED <<submitted, delivered, broken>>

(* The next command in order goes out and uses up one credit. *)
Deliver ==
  /\ delivered < submitted
  /\ credit > 0
  /\ delivered' = delivered + 1
  /\ credit' = credit - 1
  /\ UNCHANGED <<submitted, broken>>

(* The connection to scamper breaks, at any time and for good. *)
Break ==
  /\ broken' = TRUE
  /\ UNCHANGED <<submitted, delivered, credit>>

Next == Submit \/ Grant \/ Deliver \/ Break

Spec == Init /\ [][Next]_channelVars
=============================================================================
