------------------------------ MODULE Telescope ------------------------------
(***************************************************************************)
(* The telescope from the packets to the probes, wired as caf_main() in    *)
(* tools/src/spoki.cpp does: libtrace threads feed shards, every shard has *)
(* one manager with one driver.  All parts run concurrently and only       *)
(* exchange messages.                                                      *)
(***************************************************************************)
EXTENDS TraceIngest, Shard, ScamperManager

vars == <<channels, ingestVars, shardVars, managerVars>>

Init == ChannelInit /\ IngestInit /\ ShardInit /\ ManagerInit

Ingest ==
  /\ \E t \in Threads : AddPacket(t) \/ StopProcessing(t)
  /\ UNCHANGED <<shardVars, managerVars>>

HandlePackets(s) ==
  \/ TakePackets(s) \/ DropUnexpected(s) \/ IgnoreDisabled(s)
  \/ AnswerSyn(s) \/ ScheduleReset(s) \/ SkipAck(s) \/ LogOnly(s)
  \/ HandleUdp(s) \/ HandleIcmp(s)

ShardStep(s) ==
  /\ HandlePackets(s) \/ ReleaseReset(s)
  /\ UNCHANGED <<ingestVars, managerVars>>

ManagerStep(s) ==
  /\ HandleRequest(s) \/ HandleReply(s)
  /\ UNCHANGED <<ingestVars, shardVars>>

ScamperStep(s) ==
  /\ \E req \in outstanding[s] : Answer(s, req) \/ Lose(s, req)
  /\ UNCHANGED <<ingestVars, shardVars>>

Next == Ingest \/ \E s \in Shards : ShardStep(s) \/ ManagerStep(s) \/ ScamperStep(s)

Spec == Init /\ [][Next]_vars

(* Actors with messages run, timers expire, and scamper deals with every    *)
(* probe one way or the other.  No packet has to arrive and no thread has   *)
(* to stop.                                                                 *)
Fairness ==
  \A s \in Shards :
    /\ WF_vars(HandlePackets(s) /\ UNCHANGED <<ingestVars, managerVars>>)
    /\ WF_vars(ReleaseReset(s) /\ UNCHANGED <<ingestVars, managerVars>>)
    /\ WF_vars(ManagerStep(s)) /\ WF_vars(ScamperStep(s))

FairSpec == Spec /\ Fairness

-----------------------------------------------------------------------------
(* Properties. *)

Messages == [type : {"packets", "event"}, content : Seq(Arrivals)]
Rows == [n : 1..MaxPackets, uid : UserIds, probed : BOOLEAN,
         method : {"synack", "rst", "udp", "icmp_echo", "default", "none"}]

TypeOK ==
  /\ arrived \in 0..MaxPackets
  /\ shardBox \in [Shards -> Seq(Messages)]
  /\ requests \in [Shards -> Seq(Requests)]
  /\ replies \in [Shards -> Seq(Requests)]
  /\ bucket \in [Threads -> [Shards -> Seq(Arrivals)]]
  /\ reading \subseteq Threads
  /\ enabled \subseteq Transports
  /\ current \in [Shards -> Seq(Arrivals)]
  /\ tagCnt \in [Shards -> 0..MaxTag]
  /\ rstScheduled \in [Shards -> SUBSET Endpoints]
  /\ delayed \in [Shards -> Seq(Requests)]
  /\ rawLog \subseteq Rows
  /\ handled \subseteq 1..MaxPackets /\ unhandled \subseteq 1..MaxPackets
  /\ targets \in [Shards -> SUBSET Keys]
  /\ \A s \in Shards : /\ DOMAIN userids[s] \subseteq UserIds
                       /\ \A uid \in DOMAIN userids[s] : userids[s][uid] \in Keys
  /\ outstanding \in [Shards -> SUBSET Requests]
  /\ lost \in [Shards -> SUBSET Requests]
  /\ sent \subseteq 1..MaxPackets

(* Probes the managers wait for. *)
Awaited(s) ==
  outstanding[s] \cup {replies[s][i] : i \in DOMAIN replies[s]} \cup lost[s]

(* manager.hpp:26: no two probes of one target are under way, whichever     *)
(* shards and managers they came through.                                   *)
OneProbePerTarget ==
  \A s1, s2 \in Shards : \A p \in Awaited(s1), q \in Awaited(s2) :
    KeyOf(p) = KeyOf(q) => s1 = s2 /\ p = q

(* A target is blocked exactly as long as the manager waits for a probe of  *)
(* it, and the reply will find it under its user id.                        *)
BlockedByItsProbe ==
  \A s \in Shards :
    /\ targets[s] = {KeyOf(p) : p \in Awaited(s)}
    /\ DOMAIN userids[s] = {p.uid : p \in Awaited(s)}
    /\ \A p \in Awaited(s) : userids[s][p.uid] = KeyOf(p)

(* A request gets a user id that no request of its shard that is still under *)
(* way has.  (The counter comes round after 2^24 ids, and a lost probe is    *)
(* under way for ever: managers and log rows rely on this.)                  *)
UnderWay(s) ==
  Awaited(s) \cup {requests[s][i] : i \in DOMAIN requests[s]}
             \cup {delayed[s][i] : i \in DOMAIN delayed[s]}
IdsFresh ==
  [][\A s \in Shards : AnswerSyn(s) \/ ScheduleReset(s) =>
       NextId(s) \notin {p.uid : p \in UnderWay(s)}]_vars

(* rst_scheduled and the delayed messages agree: an endpoint is in the set  *)
(* while one reset of it is on its way, and never two.                      *)
OneResetPerEndpoint ==
  \A s \in Shards :
    /\ rstScheduled[s] = {<<delayed[s][i].daddr, delayed[s][i].dport>> :
                            i \in DOMAIN delayed[s]}
    /\ \A i, j \in DOMAIN delayed[s] :
         delayed[s][i].daddr = delayed[s][j].daddr
           /\ delayed[s][i].dport = delayed[s][j].dport => i = j

(* The user id of a probe leads to one row of the raw logs, the row of the  *)
(* packet it answers, with the method of the probe.                         *)
ProbeFoundInLog ==
  \A s \in Shards : \A p \in Awaited(s) :
    {row \in rawLog : row.uid = p.uid /\ row.probed} =
      {[n |-> p.n, uid |-> p.uid, method |-> p.method, probed |-> TRUE]}

(* No target and no endpoint is held for ever: a blocked target is free     *)
(* again some time, unless its probe is lost (manager.cpp:75), and a        *)
(* scheduled reset goes to the manager (shard.cpp:182).                     *)
NothingHeldForEver ==
  \A s \in Shards :
    /\ \A key \in Keys :
         key \in targets[s] ~>
           key \notin targets[s] \/ \E p \in lost[s] : KeyOf(p) = key
    /\ \A e \in Endpoints :
         e \in rstScheduled[s] ~> e \notin rstScheduled[s]

(* Not so, here and below: trace/state.hpp:50, processing.cpp:37: send_all() *)
(* sends out what is cached, so that the shards get every packet.            *)
OutstandingPacketsAreSent == unhandled = {}

(* evaluation/README.md:85: the raw log has the incoming packets.           *)
IncomingPacketsAreLogged ==
  enabled = Transports => handled \subseteq {row.n : row \in rawLog}

(* evaluation/README.md:85: a row says whether a probe was sent.  When its  *)
(* request is neither delayed nor on its way, the driver has got it.        *)
LoggedProbesAreSent ==
  \A row \in rawLog : row.method \in {"synack", "rst"} =>
    \/ row.n \in sent
    \/ \E s \in Shards : \/ \E i \in DOMAIN requests[s] : requests[s][i].n = row.n
                        \/ \E i \in DOMAIN delayed[s] : delayed[s][i].n = row.n
=============================================================================
