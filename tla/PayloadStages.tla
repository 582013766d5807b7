---------------------------- MODULE PayloadStages ----------------------------
(***************************************************************************)
(* The first two stages of the malware pipeline, each a process between    *)
(* two Kafka topics: filter.py keeps the events whose payload names wget   *)
(* or curl, clean.py (with payloadcleaner.py) sends one message per URL.   *)
(*                                                                         *)
(* An event has a payload in its regular ack, or in the ack to its         *)
(* irregular SYN, or NoPayload where the code finds none to look at (no    *)
(* packet, not TCP, empty, not decodable).  A payload is the sequence of   *)
(* the downloaders it names; args is the URL that follows the name, NoUrl  *)
(* if there is none, or BadArgs if the parser of the arguments raises.     *)
(*                                                                         *)
(* A consumer remembers its place, and Kafka the place committed; the      *)
(* client commits between two polls, at times of its own, and a new        *)
(* process of the group goes on from there, or from the end of the topic   *)
(* as long as nothing has been committed (auto_offset_reset is left at     *)
(* "latest").  send() leaves a message to a thread of the producer, which  *)
(* delivers it later; what it has not delivered ends with the process.     *)
(***************************************************************************)
EXTENDS HashFiles, Sequences, SequencesExt

CONSTANTS
  Urls, NoPayload, NoUrl, BadArgs

Payloads == Seq([tool : {"wget", "curl"}, args : Urls \cup {NoUrl, BadArgs}])
Events == [id : Nat, rack : Payloads \cup {NoPayload}, iack : Payloads \cup {NoPayload}]

ASSUME StagesAssumption == \A sc \in Scenarios : sc.input \in Seq(Events)

Groups == {"filter", "clean", "download"}

VARIABLES
  topic,      \* per group: the messages of the topic that it reads
  at,         \* per group: messages the process has passed
  committed,  \* per group: the place that Kafka knows of, or Nothing
  alive,      \* per group: the process runs
  sending,    \* per group: messages its producer has not delivered yet
  crashes,    \* ends of a process so far
  lost,       \* history: per group, messages that ended with a producer
  skipped     \* history: per group, places left out at a start

stageVars == <<topic, at, committed, alive, sending, crashes, lost, skipped>>

Nothing == -1

StagesInit ==
  /\ topic = [g \in Groups |-> <<>>]
  /\ at = [g \in Groups |-> 0]
  /\ committed = [g \in Groups |-> Nothing]
  /\ alive = [g \in Groups |-> TRUE]
  /\ sending = [g \in Groups |-> <<>>]
  /\ crashes = 0
  /\ lost = [g \in Groups |-> {}]
  /\ skipped = [g \in Groups |-> {}]

(* Whoever matches the phases publishes the next event.                    *)
Publish ==
  /\ Len(topic["filter"]) < Len(scenario.input)
  /\ topic' = [topic EXCEPT !["filter"] = Append(@, scenario.input[Len(@) + 1])]
  /\ UNCHANGED <<at, committed, alive, sending, crashes, lost, skipped>>

HasMessage(g) == alive[g] /\ at[g] < Len(topic[g])

Message(g) == topic[g][at[g] + 1]

Handled(g) == at' = [at EXCEPT ![g] = @ + 1]

After(g) == IF g = "filter" THEN "clean" ELSE "download"

Deliver(g) ==
  /\ sending[g] # <<>>
  /\ topic' = [topic EXCEPT ![After(g)] = Append(@, Head(sending[g]))]
  /\ sending' = [sending EXCEPT ![g] = Tail(@)]
  /\ UNCHANGED <<at, committed, alive, crashes, lost, skipped>>

Commit(g) ==
  /\ alive[g] /\ committed[g] # at[g]
  /\ committed' = [committed EXCEPT ![g] = at[g]]
  /\ UNCHANGED <<topic, at, alive, sending, crashes, lost, skipped>>

Ends(g) ==
  /\ alive' = [alive EXCEPT ![g] = FALSE]
  /\ sending' = [sending EXCEPT ![g] = <<>>]
  /\ lost' = [lost EXCEPT ![g] = @ \cup ToSet(sending[g])]
  /\ crashes' = crashes + 1
  /\ UNCHANGED <<topic, at, committed, skipped>>

Killed(g) == alive[g] /\ crashes < scenario.kills /\ Ends(g)

Restarted(g) ==
  /\ ~alive[g] /\ crashes <= scenario.kills
  /\ alive' = [alive EXCEPT ![g] = TRUE]
  /\ IF committed[g] = Nothing
     THEN /\ at' = [at EXCEPT ![g] = Len(topic[g])]
          /\ skipped' = [skipped EXCEPT ![g] = @ \cup (at[g] + 1 .. Len(topic[g]))]
     ELSE /\ at' = [at EXCEPT ![g] = committed[g]]
          /\ UNCHANGED skipped
  /\ UNCHANGED <<topic, committed, sending, crashes, lost>>

-----------------------------------------------------------------------------
(* filter.py *)

Names(payload) == payload # NoPayload /\ payload # <<>>

(* The ack to an irregular SYN is looked at if the regular one has none. *)
FilteredPayload(event) ==
  IF Names(event.rack) THEN event.rack
  ELSE IF Names(event.iack) THEN event.iack
  ELSE NoPayload

Filter ==
  /\ HasMessage("filter")
  /\ LET event == Message("filter")
         payload == FilteredPayload(event)
     IN  sending' = IF payload = NoPayload THEN sending
                    ELSE [sending EXCEPT !["filter"] =
                            Append(@, [id |-> event.id, payload |-> payload])]
  /\ Handled("filter")
  /\ UNCHANGED <<topic, committed, alive, crashes, lost, skipped>>

-----------------------------------------------------------------------------
(* clean.py and payloadcleaner.py *)

Raises(payload) == \E i \in DOMAIN payload : payload[i].args = BadArgs

UrlsFor(tool, payload) ==
  LET named == {i \in DOMAIN payload : payload[i].tool = tool /\ payload[i].args # NoUrl}
      Nth(n) == CHOOSE i \in named : Cardinality({j \in named : j <= i}) = n
  IN  [n \in 1 .. Cardinality(named) |-> payload[Nth(n)].args]

GetUrls(payload) == UrlsFor("wget", payload) \o UrlsFor("curl", payload)

Clean ==
  /\ HasMessage("clean") /\ ~Raises(Message("clean").payload)
  /\ LET event == Message("clean")
         urls == GetUrls(event.payload)
     IN  sending' = [sending EXCEPT !["clean"] =
                       @ \o [i \in DOMAIN urls |-> [id |-> event.id, url |-> urls[i]]]]
  /\ Handled("clean")
  /\ UNCHANGED <<topic, committed, alive, crashes, lost, skipped>>

(* The exception ends the process; it meets the message again when it is   *)
(* started again, if it has committed a place before.                      *)
CleanRaises ==
  /\ HasMessage("clean") /\ Raises(Message("clean").payload)
  /\ Ends("clean")
=============================================================================
