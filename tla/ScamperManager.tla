--------------------------- MODULE ScamperManager ---------------------------
(***************************************************************************)
(* The scamper managers (libspoki/src/scamper/manager.cpp), one per shard. *)
(* A manager requests a probe of a target only when it waits for none of   *)
(* that target.  Its statistics (rps, pps, queue size, the tick) are left  *)
(* out, and the driver with scamper behind it is reduced to what it does   *)
(* with a probe: answer it some time, or never.                            *)
(***************************************************************************)
EXTENDS TelescopeChannels

VARIABLES
  targets,       \* targets: keys that are not probed again for now
  userids,       \* userids: from user ids to those keys
  outstanding,   \* requests the driver has accepted and not answered
  lost,          \* requests that will never be answered
  sent           \* history: numbers n of the requests the driver has accepted

managerVars == <<targets, userids, outstanding, lost, sent>>

NoKeys == [uid \in {} |-> {}]

ManagerInit ==
  /\ targets = [s \in Shards |-> {}]
  /\ userids = [s \in Shards |-> NoKeys]
  /\ outstanding = [s \in Shards |-> {}]
  /\ lost = [s \in Shards |-> {}]
  /\ sent = {}

(* A request goes to the driver when its target is free, otherwise nothing  *)
(* happens: nobody is told.                                                 *)
TakeRequest(s, blocked) ==
  /\ requests[s] # <<>>
  /\ requests' = [requests EXCEPT ![s] = Tail(@)]
  /\ LET req == Head(requests[s])
     IN IF KeyOf(req) \in blocked
        THEN UNCHANGED <<targets, userids, outstanding, sent>>
        ELSE /\ sent' = sent \cup {req.n}
             /\ outstanding' = [outstanding EXCEPT ![s] = @ \cup {req}]
             /\ targets' = [targets EXCEPT ![s] = @ \cup {KeyOf(req)}]
             /\ userids' = [userids EXCEPT ![s] =
                  [uid \in DOMAIN @ \cup {req.uid} |->
                     IF uid = req.uid THEN KeyOf(req) ELSE @[uid]]]
  /\ UNCHANGED <<lost, arrived, shardBox, replies>>

HandleRequest(s) == TakeRequest(s, targets[s])

(* A reply frees the target of its user id.  (For an unknown id the code    *)
(* frees 0.0.0.0, which no packet of the model comes from.)                 *)
TakeReply(s, freed) ==
  /\ replies[s] # <<>>
  /\ replies' = [replies EXCEPT ![s] = Tail(@)]
  /\ targets' = [targets EXCEPT ![s] = @ \ freed]
  /\ userids' = [userids EXCEPT ![s] =
       [uid \in DOMAIN @ \ {Head(replies[s]).uid} |-> @[uid]]]
  /\ UNCHANGED <<outstanding, lost, sent, arrived, shardBox, requests>>

HandleReply_KeepTarget(s) == TakeReply(s, {})
HandleReply(s) ==
  TakeReply(s, {userids[s][uid] :
                  uid \in {Head(replies[s]).uid} \cap DOMAIN userids[s]})

-----------------------------------------------------------------------------
(* The driver and scamper (external). *)

(* Scamper's result of a probe is decoded and sent to the manager. *)
Answer(s, req) ==
  /\ outstanding' = [outstanding EXCEPT ![s] = @ \ {req}]
  /\ replies' = [replies EXCEPT ![s] = Append(@, req)]
  /\ UNCHANGED <<targets, userids, lost, sent, arrived, shardBox, requests>>

(* Scamper refuses the command, its output cannot be decoded, or the        *)
(* connection is gone.                                                      *)
Lose(s, req) ==
  /\ outstanding' = [outstanding EXCEPT ![s] = @ \ {req}]
  /\ lost' = [lost EXCEPT ![s] = @ \cup {req}]
  /\ UNCHANGED <<targets, userids, sent, arrived, shardBox, requests, replies>>
=============================================================================
