-------------------------------- MODULE Shard --------------------------------
(***************************************************************************)
(* The shards (libspoki/src/cache/shard.cpp) decide for every packet       *)
(* whether and how to probe its source, and log it.  Their raw log is kept *)
(* as a set of rows; module LogPipeline says how rows reach a file.  Only  *)
(* the TCP prober exists (tools/src/spoki.cpp:228): requests to the ICMP   *)
(* and the UDP prober go to an actor handle that is null, and vanish.      *)
(***************************************************************************)
EXTENDS TelescopeChannels

CONSTANT Configurations   \* sets of protocols that may be enabled

ASSUME ShardAssumption == Configurations \subseteq SUBSET Transports

VARIABLES
  enabled,        \* enable_tcp, enable_udp, enable_icmp; never changes
  current,        \* per shard: what is left of the vector of packets it handles
  tagCnt,         \* tag_cnt
  rstScheduled,   \* rst_scheduled
  delayed,        \* per shard: reset requests the shard sent itself with a delay
  rawLog,         \* rows [n, uid, method, probed] of the raw logs
  handled,        \* history: numbers of the packets a shard has handled
  unhandled       \* history: packets in messages a shard has no handler for

shardVars == <<enabled, current, tagCnt, rstScheduled, delayed, rawLog, handled,
               unhandled>>

NoId == <<0, 0>>   \* the user id of a default-constructed request

ShardInit ==
  /\ enabled \in Configurations
  /\ current = [s \in Shards |-> <<>>]
  /\ tagCnt = [s \in Shards |-> 0]
  /\ rstScheduled = [s \in Shards |-> {}]
  /\ delayed = [s \in Shards |-> <<>>]
  /\ rawLog = {} /\ handled = {} /\ unhandled = {}

-----------------------------------------------------------------------------
(* next_id() *)
NextTag(s) == (tagCnt[s] + 1) % (MaxTag + 1)
NextId_TagOnly(s) == <<0, NextTag(s)>>
NextId(s) == <<ShardId[s], NextTag(s)>>

(* The shard takes a message with packets out of its mailbox ... *)
TakePackets(s) ==
  /\ current[s] = <<>> /\ shardBox[s] # <<>>
  /\ Head(shardBox[s]).type = "packets"
  /\ current' = [current EXCEPT ![s] = Head(shardBox[s]).content]
  /\ shardBox' = [shardBox EXCEPT ![s] = Tail(@)]
  /\ UNCHANGED <<enabled, tagCnt, rstScheduled, delayed, rawLog, handled,
                 unhandled, arrived, requests, replies>>

(* ... while it has no handler for one with an event_atom: print_and_drop. *)
DropUnexpected(s) ==
  /\ current[s] = <<>> /\ shardBox[s] # <<>>
  /\ Head(shardBox[s]).type # "packets"
  /\ unhandled' = unhandled \cup
       {Head(shardBox[s]).content[i].n : i \in DOMAIN Head(shardBox[s]).content}
  /\ shardBox' = [shardBox EXCEPT ![s] = Tail(@)]
  /\ UNCHANGED <<enabled, current, tagCnt, rstScheduled, delayed, rawLog,
                 handled, arrived, requests, replies>>

(* What every branch of handle_packet() has in common. *)
Handle(s, proto) ==
  /\ current[s] # <<>> /\ Head(current[s]).pkt.proto = proto
  /\ current' = [current EXCEPT ![s] = Tail(@)]
  /\ handled' = handled \cup {Head(current[s]).n}
  /\ UNCHANGED <<enabled, unhandled, arrived, shardBox, replies>>

Log(s, uid, method, probed) ==
  rawLog' = rawLog \cup
    {[n |-> Head(current[s]).n, uid |-> uid, method |-> method, probed |-> probed]}

Request(s, method) ==
  LET a == Head(current[s])
  IN [n |-> a.n, method |-> method, uid |-> NextId(s), daddr |-> a.pkt.saddr,
      dport |-> a.pkt.sport,
      irregular |-> method # "rst" /\ a.pkt.scanner]

IsSyn(flags) == "syn" \in flags /\ "ack" \notin flags /\ "rst" \notin flags
IsAck(flags) == "syn" \notin flags /\ "ack" \in flags
Source(s) == <<Head(current[s]).pkt.saddr, Head(current[s]).pkt.sport>>
Flags(s) == Head(current[s]).pkt.flags

(* A packet of a protocol that is switched off is not even logged. *)
IgnoreDisabled(s) ==
  /\ \E proto \in Transports \ enabled : Handle(s, proto)
  /\ UNCHANGED <<tagCnt, rstScheduled, delayed, rawLog, requests>>

(* A SYN is answered at once. *)
AnswerSyn(s) ==
  /\ "tcp" \in enabled /\ Handle(s, "tcp") /\ IsSyn(Flags(s))
  /\ tagCnt' = [tagCnt EXCEPT ![s] = NextTag(s)]
  /\ requests' = [requests EXCEPT ![s] = Append(@, Request(s, "synack"))]
  /\ Log(s, NextId(s), "synack", TRUE)
  /\ UNCHANGED <<rstScheduled, delayed>>

(* An ACK is answered with a reset, five seconds later. *)
ScheduleReset(s) ==
  /\ "tcp" \in enabled /\ Handle(s, "tcp") /\ IsAck(Flags(s))
  /\ Source(s) \notin rstScheduled[s]
  /\ rstScheduled' = [rstScheduled EXCEPT ![s] = @ \cup {Source(s)}]
  /\ tagCnt' = [tagCnt EXCEPT ![s] = NextTag(s)]
  /\ delayed' = [delayed EXCEPT ![s] = Append(@, Request(s, "rst"))]
  /\ Log(s, NextId(s), "rst", TRUE)
  /\ UNCHANGED requests

(* While that reset is pending, further ACKs of the endpoint are skipped. *)
SkipAck(s) ==
  /\ "tcp" \in enabled /\ Handle(s, "tcp") /\ IsAck(Flags(s))
  /\ Source(s) \in rstScheduled[s]
  /\ UNCHANGED <<tagCnt, rstScheduled, delayed, rawLog, requests>>

(* A FIN and everything else is only logged. *)
LogOnly(s) ==
  /\ "tcp" \in enabled /\ Handle(s, "tcp")
  /\ ~IsSyn(Flags(s)) /\ ~IsAck(Flags(s))
  /\ Log(s, NoId, "none", FALSE)
  /\ UNCHANGED <<tagCnt, rstScheduled, delayed, requests>>

(* A UDP packet uses up an id for a request that goes nowhere. *)
HandleUdp(s) ==
  /\ "udp" \in enabled /\ Handle(s, "udp")
  /\ tagCnt' = [tagCnt EXCEPT ![s] = NextTag(s)]
  /\ Log(s, NextId(s), "udp", TRUE)
  /\ UNCHANGED <<rstScheduled, delayed, requests>>

(* So does an ICMP packet, unless it is an echo reply: that is logged with  *)
(* a default-constructed request.                                           *)
HandleIcmp(s) ==
  /\ "icmp" \in enabled /\ Handle(s, "icmp")
  /\ IF "echo_reply" \in Flags(s)
     THEN Log(s, NoId, "default", TRUE) /\ UNCHANGED tagCnt
     ELSE /\ tagCnt' = [tagCnt EXCEPT ![s] = NextTag(s)]
          /\ Log(s, NextId(s), "icmp_echo", TRUE)
  /\ UNCHANGED <<rstScheduled, delayed, requests>>

(* The delay of the oldest reset is over: the shard's message to itself     *)
(* arrives, and the request goes to the prober.                             *)
Release(s, scheduled) ==
  /\ current[s] = <<>> /\ delayed[s] # <<>>
  /\ delayed' = [delayed EXCEPT ![s] = Tail(@)]
  /\ rstScheduled' = [rstScheduled EXCEPT ![s] = scheduled]
  /\ requests' = [requests EXCEPT ![s] = Append(@, Head(delayed[s]))]
  /\ UNCHANGED <<enabled, current, tagCnt, rawLog, handled, unhandled, arrived,
                 shardBox, replies>>

ReleaseReset_NoErase(s) == Release(s, rstScheduled[s])
ReleaseReset(s) ==
  Release(s, rstScheduled[s] \ {<<Head(delayed[s]).daddr, Head(delayed[s]).dport>>})
=============================================================================
