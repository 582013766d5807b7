--------------------------- MODULE TelescopeProofs ---------------------------
(***************************************************************************)
(* Theorems about the telescope, for any number of threads, shards and     *)
(* packets of any kind: its variables stay well typed, and an endpoint is  *)
(* in rst_scheduled while exactly one reset of it waits.                   *)
(*                                                                         *)
(* Under the condition that user ids are fresh (IdsFresh), a target is     *)
(* blocked exactly while its manager waits for a probe of it, and no two   *)
(* probes of one target are awaited, whichever shards they came through.   *)
(* And ids are fresh, and lead to one row of the log, as long as the tags  *)
(* suffice (IdsSuffice): then the targets are safe without a condition on  *)
(* behaviours.                                                             *)
(***************************************************************************)
EXTENDS Telescope, SequenceTheorems, FiniteSetTheorems, TLAPS

(* The types by component; what the maps of the managers hold is said as a *)
(* set of functions.                                                       *)
UserIdMaps == UNION {[ids -> Keys] : ids \in SUBSET UserIds}

ChannelTypes ==
  /\ arrived \in 0..MaxPackets
  /\ shardBox \in [Shards -> Seq(Messages)]
  /\ requests \in [Shards -> Seq(Requests)]
  /\ replies \in [Shards -> Seq(Requests)]

IngestTypes ==
  /\ bucket \in [Threads -> [Shards -> Seq(Arrivals)]]
  /\ reading \subseteq Threads

ShardTypes ==
  /\ enabled \subseteq Transports
  /\ current \in [Shards -> Seq(Arrivals)]
  /\ tagCnt \in [Shards -> 0..MaxTag]
  /\ rstScheduled \in [Shards -> SUBSET Endpoints]
  /\ delayed \in [Shards -> Seq(Requests)]
  /\ rawLog \subseteq Rows
  /\ handled \subseteq 1..MaxPackets /\ unhandled \subseteq 1..MaxPackets

ManagerTypes ==
  /\ targets \in [Shards -> SUBSET Keys]
  /\ userids \in [Shards -> UserIdMaps]
  /\ outstanding \in [Shards -> SUBSET Requests]
  /\ lost \in [Shards -> SUBSET Requests]
  /\ sent \subseteq 1..MaxPackets

Types == ChannelTypes /\ IngestTypes /\ ShardTypes /\ ManagerTypes
IInv == Types /\ OneResetPerEndpoint

-----------------------------------------------------------------------------
(* Sequences. *)

LEMMA HeadAndTail ==
  ASSUME NEW S, NEW seq \in Seq(S), seq # <<>>
  PROVE  Head(seq) \in S /\ Tail(seq) \in Seq(S)
  BY HeadTailProperties

LEMMA Appended ==
  ASSUME NEW S, NEW seq \in Seq(S), NEW e \in S
  PROVE  Append(seq, e) \in Seq(S)
  BY AppendProperties

LEMMA UpdatedTwice ==
  ASSUME NEW A, NEW B, NEW C, NEW f \in [A -> [B -> C]],
         NEW x \in A, NEW y \in B, NEW v \in C
  PROVE  [f EXCEPT ![x][y] = v] \in [A -> [B -> C]]
  <1>1. [f[x] EXCEPT ![y] = v] \in [B -> C]
    OBVIOUS
  <1>2. [f EXCEPT ![x] = [f[x] EXCEPT ![y] = v]] \in [A -> [B -> C]]
    BY <1>1
  <1> QED
    BY <1>2

-----------------------------------------------------------------------------
(* What the expressions of the modules yield. *)

LEMMA ArrivalFacts ==
  ASSUME NEW a \in Arrivals
  PROVE  /\ a.n \in 1..MaxPackets /\ a.pkt \in Packets
         /\ a.pkt.saddr \in Hosts /\ a.pkt.sport \in Nat
         /\ a.pkt.scanner \in BOOLEAN
         /\ LastByte[a.pkt.saddr] \in 0..255
  BY TelescopeAssumption DEF Arrivals, PacketType, Hosts

LEMMA RouteToShard == ASSUME NEW a \in Arrivals PROVE Route(a) \in Shards
  <1>1. LastByte[a.pkt.saddr] \in 0..255 /\ NumShards \in Nat \ {0}
    BY ArrivalFacts, TelescopeAssumption
  <1> QED
    BY <1>1 DEF Route, Shards

LEMMA KeyIsKey == ASSUME NEW req \in Requests PROVE KeyOf(req) \in Keys
  BY DEF Requests, KeyOf, Keys

LEMMA IdFacts ==
  ASSUME NEW s \in Shards, tagCnt \in [Shards -> 0..MaxTag]
  PROVE  NextTag(s) \in 0..MaxTag /\ NextId(s) \in UserIds /\ NoId \in UserIds
  <1>1. MaxTag \in Nat /\ ShardId[s] \in 1..255
    BY TelescopeAssumption
  <1>2. tagCnt[s] \in Nat
    BY <1>1
  <1>3. NextTag(s) \in 0..MaxTag
    BY <1>1, <1>2 DEF NextTag
  <1> QED
    BY <1>1, <1>3 DEF NextId, NoId, UserIds

-----------------------------------------------------------------------------
(* Initial states. *)

LEMMA InitTypes == Init => IInv
  <1> SUFFICES ASSUME Init PROVE IInv
    OBVIOUS
  <1>1. ChannelTypes
    BY TelescopeAssumption DEF Init, ChannelInit, ChannelTypes
  <1>2. IngestTypes
    BY DEF Init, IngestInit, IngestTypes
  <1>3. ShardTypes
    BY TelescopeAssumption, ShardAssumption DEF Init, ShardInit, ShardTypes
  <1>4. ManagerTypes
    <2>1. NoKeys \in UserIdMaps
      BY DEF NoKeys, UserIdMaps
    <2> QED
      BY <2>1 DEF Init, ManagerInit, ManagerTypes
  <1>5. OneResetPerEndpoint
    BY DEF Init, ShardInit, OneResetPerEndpoint
  <1> QED
    BY <1>1, <1>2, <1>3, <1>4, <1>5 DEF IInv, Types

-----------------------------------------------------------------------------
(* The libtrace threads. *)

LEMMA AddKeeps ==
  ASSUME Types, NEW t \in Threads, AddPacket(t)
  PROVE  ChannelTypes' /\ IngestTypes'
  <1> USE DEF Types, ChannelTypes, IngestTypes
  <1>1. PICK pkt \in Packets :
          LET a == [n |-> arrived + 1, pkt |-> pkt]
              s == Route(a)
              full == Append(bucket[t][s], a)
          IN IF Len(full) >= BatchSize
             THEN /\ shardBox' = [shardBox EXCEPT
                       ![s] = Append(@, [type |-> "packets", content |-> full])]
                  /\ bucket' = [bucket EXCEPT ![t][s] = <<>>]
             ELSE /\ bucket' = [bucket EXCEPT ![t][s] = full]
                  /\ UNCHANGED shardBox
    BY DEF AddPacket
  <1> DEFINE a == [n |-> arrived + 1, pkt |-> pkt]
             s == Route(a)
             full == Append(bucket[t][s], a)
  <1>2. /\ arrived < MaxPackets /\ arrived' = arrived + 1
        /\ UNCHANGED <<reading, requests, replies>>
    BY DEF AddPacket
  <1>3. arrived' \in 0..MaxPackets /\ a \in Arrivals
    BY <1>2, TelescopeAssumption DEF Arrivals
  <1>4. s \in Shards
    BY <1>3, RouteToShard
  <1>5. bucket[t][s] \in Seq(Arrivals)
    BY <1>4
  <1>6. full \in Seq(Arrivals) /\ <<>> \in Seq(Arrivals)
    BY <1>3, <1>5, Appended
  <1>7. [type |-> "packets", content |-> full] \in Messages
    BY <1>6 DEF Messages
  <1>8. Append(shardBox[s], [type |-> "packets", content |-> full]) \in Seq(Messages)
    BY <1>4, <1>7, Appended
  <1>9. shardBox' \in [Shards -> Seq(Messages)]
    BY <1>1, <1>4, <1>8
  <1>10. /\ [bucket EXCEPT ![t][s] = <<>>] \in [Threads -> [Shards -> Seq(Arrivals)]]
         /\ [bucket EXCEPT ![t][s] = full] \in [Threads -> [Shards -> Seq(Arrivals)]]
    <2> HIDE DEF full, s
    <2> QED
      BY <1>4, <1>6, UpdatedTwice
  <1>11. bucket' \in [Threads -> [Shards -> Seq(Arrivals)]]
    BY <1>1, <1>10
  <1> QED
    BY <1>2, <1>3, <1>9, <1>11

LEMMA StopKeeps ==
  ASSUME Types, NEW t \in Threads, StopProcessing(t)
  PROVE  ChannelTypes' /\ IngestTypes'
  <1> USE DEF Types, ChannelTypes, IngestTypes
  <1>1. ASSUME NEW s \in Shards
        PROVE  Append(shardBox[s], [type |-> "event", content |-> bucket[t][s]])
                 \in Seq(Messages)
    <2>1. [type |-> "event", content |-> bucket[t][s]] \in Messages
      BY DEF Messages
    <2> QED
      BY <2>1, Appended
  <1>2. shardBox' \in [Shards -> Seq(Messages)]
    BY <1>1 DEF StopProcessing
  <1>3. [s \in Shards |-> <<>>] \in [Shards -> Seq(Arrivals)]
    OBVIOUS
  <1>4. bucket' \in [Threads -> [Shards -> Seq(Arrivals)]]
    BY <1>3 DEF StopProcessing
  <1> QED
    BY <1>2, <1>4 DEF StopProcessing

(* Neither changes what is scheduled. *)
LEMMA IngestKeeps == IInv /\ Ingest => IInv'
  <1> SUFFICES ASSUME IInv, Ingest PROVE IInv'
    OBVIOUS
  <1>1. ChannelTypes' /\ IngestTypes'
    BY AddKeeps, StopKeeps DEF IInv, Ingest
  <1>2. UNCHANGED <<shardVars, managerVars>>
    BY DEF Ingest
  <1>3. ShardTypes' /\ OneResetPerEndpoint'
    BY <1>2 DEF IInv, Types, ShardTypes, OneResetPerEndpoint, shardVars
  <1>4. ManagerTypes'
    BY <1>2 DEF IInv, Types, ManagerTypes, managerVars
  <1> QED
    BY <1>1, <1>3, <1>4 DEF IInv, Types

-----------------------------------------------------------------------------
(* The shards. *)

(* A message is taken from the mailbox, whether there is a handler or not.  *)
LEMMA TakeKeeps ==
  ASSUME Types, NEW s \in Shards, TakePackets(s) \/ DropUnexpected(s)
  PROVE  ChannelTypes' /\ ShardTypes'
  <1> USE DEF Types, ChannelTypes, ShardTypes
  <1>1. shardBox[s] # <<>> /\ shardBox' = [shardBox EXCEPT ![s] = Tail(@)]
    BY DEF TakePackets, DropUnexpected
  <1>2. Head(shardBox[s]) \in Messages /\ Tail(shardBox[s]) \in Seq(Messages)
    BY <1>1, HeadAndTail
  <1>3. Head(shardBox[s]).content \in Seq(Arrivals)
    BY <1>2 DEF Messages
  <1>4. ChannelTypes'
    BY <1>1, <1>2 DEF TakePackets, DropUnexpected
  <1>5. CASE TakePackets(s)
    BY <1>3, <1>4, <1>5 DEF TakePackets
  <1>6. CASE DropUnexpected(s)
    <2>1. ASSUME NEW i \in DOMAIN Head(shardBox[s]).content
          PROVE  Head(shardBox[s]).content[i].n \in 1..MaxPackets
      <3>1. Head(shardBox[s]).content[i] \in Arrivals
        BY <1>3, ElementOfSeq, LenProperties
      <3> QED
        BY <3>1, ArrivalFacts
    <2>2. unhandled' \subseteq 1..MaxPackets
      BY <1>6, <2>1 DEF DropUnexpected
    <2> QED
      BY <1>4, <1>6, <2>2 DEF DropUnexpected
  <1> QED
    BY <1>5, <1>6

(* What handling a packet has in common. *)
LEMMA HandleFacts ==
  ASSUME Types, NEW s \in Shards, NEW proto, Handle(s, proto)
  PROVE  /\ Head(current[s]) \in Arrivals
         /\ current' \in [Shards -> Seq(Arrivals)]
         /\ handled' \subseteq 1..MaxPackets
         /\ UNCHANGED <<enabled, unhandled, arrived, shardBox, replies>>
  <1> USE DEF Types, ShardTypes
  <1>1. Head(current[s]) \in Arrivals /\ Tail(current[s]) \in Seq(Arrivals)
    BY HeadAndTail DEF Handle
  <1>2. Head(current[s]).n \in 1..MaxPackets
    BY <1>1, ArrivalFacts
  <1> QED
    BY <1>1, <1>2 DEF Handle

LEMMA LogTyped ==
  ASSUME Types, NEW s \in Shards, NEW proto, Handle(s, proto),
         NEW uid \in UserIds, NEW probed \in BOOLEAN,
         NEW method \in {"synack", "rst", "udp", "icmp_echo", "default", "none"},
         Log(s, uid, method, probed)
  PROVE  rawLog' \subseteq Rows
  <1>1. Head(current[s]).n \in 1..MaxPackets
    BY HandleFacts, ArrivalFacts
  <1>2. [n |-> Head(current[s]).n, uid |-> uid, method |-> method,
         probed |-> probed] \in Rows
    BY <1>1 DEF Rows
  <1> QED
    BY <1>2 DEF Log, Types, ShardTypes

LEMMA RequestTyped ==
  ASSUME Types, NEW s \in Shards, NEW proto, Handle(s, proto),
         NEW method \in {"synack", "rst"}
  PROVE  /\ Request(s, method) \in Requests
         /\ Source(s) = <<Request(s, method).daddr, Request(s, method).dport>>
         /\ Source(s) \in Endpoints
  <1>1. Head(current[s]) \in Arrivals
    BY HandleFacts
  <1>2. NextId(s) \in UserIds
    BY IdFacts DEF Types, ShardTypes
  <1>3. (method # "rst" /\ Head(current[s]).pkt.scanner) \in BOOLEAN
    OBVIOUS
  <1>4. Request(s, method) \in Requests
    BY <1>1, <1>2, <1>3, ArrivalFacts DEF Request, Requests
  <1> QED
    BY <1>1, <1>4, ArrivalFacts DEF Request, Source, Endpoints

(* The branches that schedule nothing. *)
LEMMA PlainKeeps ==
  ASSUME Types, NEW s \in Shards,
         \/ IgnoreDisabled(s) \/ AnswerSyn(s) \/ SkipAck(s) \/ LogOnly(s)
         \/ HandleUdp(s) \/ HandleIcmp(s)
  PROVE  ChannelTypes' /\ ShardTypes' /\ UNCHANGED <<rstScheduled, delayed>>
  <1> USE DEF Types, ChannelTypes, ShardTypes
  <1>1. NextTag(s) \in 0..MaxTag /\ NextId(s) \in UserIds /\ NoId \in UserIds
    BY IdFacts
  <1>2. [tagCnt EXCEPT ![s] = NextTag(s)] \in [Shards -> 0..MaxTag]
    BY <1>1
  <1>3. CASE IgnoreDisabled(s)
    BY <1>3, HandleFacts DEF IgnoreDisabled
  <1>4. CASE AnswerSyn(s)
    <2>1. Handle(s, "tcp")
      BY <1>4 DEF AnswerSyn
    <2>2. Request(s, "synack") \in Requests
      BY <2>1, RequestTyped
    <2>3. Append(requests[s], Request(s, "synack")) \in Seq(Requests)
      BY <2>2, Appended
    <2>4. rawLog' \subseteq Rows
      BY <1>1, <1>4, <2>1, LogTyped DEF AnswerSyn
    <2> QED
      BY <1>2, <1>4, <2>1, <2>3, <2>4, HandleFacts DEF AnswerSyn
  <1>5. CASE SkipAck(s)
    BY <1>5, HandleFacts DEF SkipAck
  <1>6. CASE LogOnly(s)
    <2>1. Handle(s, "tcp")
      BY <1>6 DEF LogOnly
    <2>2. rawLog' \subseteq Rows
      BY <1>1, <1>6, <2>1, LogTyped DEF LogOnly
    <2> QED
      BY <1>6, <2>1, <2>2, HandleFacts DEF LogOnly
  <1>7. CASE HandleUdp(s)
    <2>1. Handle(s, "udp")
      BY <1>7 DEF HandleUdp
    <2>2. rawLog' \subseteq Rows
      BY <1>1, <1>7, <2>1, LogTyped DEF HandleUdp
    <2> QED
      BY <1>2, <1>7, <2>1, <2>2, HandleFacts DEF HandleUdp
  <1>8. CASE HandleIcmp(s)
    <2>1. Handle(s, "icmp")
      BY <1>8 DEF HandleIcmp
    <2>2. rawLog' \subseteq Rows
      BY <1>1, <1>8, <2>1, LogTyped DEF HandleIcmp
    <2>3. tagCnt' \in [Shards -> 0..MaxTag]
      BY <1>2, <1>8 DEF HandleIcmp
    <2> QED
      BY <1>8, <2>1, <2>2, <2>3, HandleFacts DEF HandleIcmp
  <1> QED
    BY <1>3, <1>4, <1>5, <1>6, <1>7, <1>8

(* rst_scheduled and the delayed messages of a shard. *)
EndpointOf(req) == <<req.daddr, req.dport>>
OneReset(scheduled, messages) ==
  /\ scheduled = {EndpointOf(messages[i]) : i \in DOMAIN messages}
  /\ \A i, j \in DOMAIN messages :
       EndpointOf(messages[i]) = EndpointOf(messages[j]) => i = j

LEMMA OneResetIs ==
  OneResetPerEndpoint <=> \A s \in Shards : OneReset(rstScheduled[s], delayed[s])
  BY DEF OneResetPerEndpoint, OneReset, EndpointOf

LEMMA ResetAdded ==
  ASSUME NEW scheduled, NEW messages \in Seq(Requests),
         OneReset(scheduled, messages),
         NEW req \in Requests, EndpointOf(req) \notin scheduled
  PROVE  OneReset(scheduled \cup {EndpointOf(req)}, Append(messages, req))
  <1> DEFINE more == Append(messages, req)
             n == Len(messages)
  <1>1. /\ n \in Nat /\ DOMAIN messages = 1..n /\ DOMAIN more = 1..(n + 1)
        /\ more[n + 1] = req
        /\ \A i \in 1..n : more[i] = messages[i]
    BY AppendProperties, LenProperties
  <1> HIDE DEF more, n
  <1>2. \A i \in 1..n : EndpointOf(more[i]) \in scheduled
    BY <1>1 DEF OneReset
  <1>3. scheduled \cup {EndpointOf(req)} = {EndpointOf(more[i]) : i \in 1..(n + 1)}
    <2>1. scheduled = {EndpointOf(more[i]) : i \in 1..n}
      BY <1>1 DEF OneReset
    <2>2. 1..(n + 1) = 1..n \cup {n + 1}
      BY <1>1
    <2> QED
      BY <1>1, <2>1, <2>2
  <1>4. \A i, j \in 1..(n + 1) : EndpointOf(more[i]) = EndpointOf(more[j]) => i = j
    <2> SUFFICES ASSUME NEW i \in 1..(n + 1), NEW j \in 1..(n + 1),
                        EndpointOf(more[i]) = EndpointOf(more[j])
                 PROVE  i = j
      OBVIOUS
    <2>1. CASE i \in 1..n /\ j \in 1..n
      BY <1>1, <2>1 DEF OneReset
    <2>2. CASE i = n + 1 /\ j = n + 1
      BY <2>2
    <2>3. CASE i = n + 1 /\ j \in 1..n
      BY <1>1, <1>2, <2>3
    <2>4. CASE i \in 1..n /\ j = n + 1
      BY <1>1, <1>2, <2>4
    <2> QED
      BY <1>1, <2>1, <2>2, <2>3, <2>4
  <1> QED
    BY <1>1, <1>3, <1>4 DEF OneReset, more

LEMMA ResetRemoved ==
  ASSUME NEW scheduled, NEW messages \in Seq(Requests), messages # <<>>,
         OneReset(scheduled, messages)
  PROVE  OneReset(scheduled \ {EndpointOf(Head(messages))}, Tail(messages))
  <1> DEFINE rest == Tail(messages)
             n == Len(messages)
             first == EndpointOf(Head(messages))
  <1>1. /\ n \in Nat \ {0} /\ DOMAIN messages = 1..n /\ DOMAIN rest = 1..(n - 1)
        /\ Head(messages) = messages[1]
        /\ \A i \in 1..(n - 1) : rest[i] = messages[i + 1]
    BY HeadTailProperties, EmptySeq, LenProperties
  <1>2. first = EndpointOf(messages[1])
    BY <1>1
  <1> HIDE DEF rest, n, first
  <1>3. \A i, j \in 1..(n - 1) : EndpointOf(rest[i]) = EndpointOf(rest[j]) => i = j
    <2> SUFFICES ASSUME NEW i \in 1..(n - 1), NEW j \in 1..(n - 1),
                        EndpointOf(rest[i]) = EndpointOf(rest[j])
                 PROVE  i = j
      OBVIOUS
    <2>1. i + 1 \in 1..n /\ j + 1 \in 1..n
      BY <1>1
    <2>2. i + 1 = j + 1
      BY <1>1, <2>1 DEF OneReset
    <2> QED
      BY <2>2
  <1>4. \A i \in 1..(n - 1) : EndpointOf(rest[i]) \in scheduled \ {first}
    <2> SUFFICES ASSUME NEW i \in 1..(n - 1)
                 PROVE  EndpointOf(rest[i]) \in scheduled \ {first}
      OBVIOUS
    <2>1. i + 1 \in 1..n /\ 1 \in 1..n /\ i + 1 # 1
      BY <1>1
    <2>2. EndpointOf(messages[i + 1]) # EndpointOf(messages[1])
      BY <1>1, <2>1 DEF OneReset
    <2> QED
      BY <1>1, <1>2, <2>1, <2>2 DEF OneReset
  <1>5. ASSUME NEW e \in scheduled \ {first}
        PROVE  \E i \in 1..(n - 1) : e = EndpointOf(rest[i])
    <2>1. PICK k \in 1..n : e = EndpointOf(messages[k])
      BY <1>1, <1>5 DEF OneReset
    <2>2. k # 1
      BY <1>2, <2>1, <1>5
    <2>3. k - 1 \in 1..(n - 1) /\ (k - 1) + 1 = k
      BY <1>1, <2>2
    <2> QED
      BY <1>1, <2>1, <2>3
  <1>6. scheduled \ {first} = {EndpointOf(rest[i]) : i \in 1..(n - 1)}
    BY <1>4, <1>5
  <1> QED
    BY <1>1, <1>3, <1>6 DEF OneReset, rest, first

LEMMA ScheduleKeeps ==
  ASSUME IInv, NEW s \in Shards, ScheduleReset(s)
  PROVE  ChannelTypes' /\ ShardTypes' /\ OneResetPerEndpoint'
  <1> USE DEF Types, ChannelTypes, ShardTypes
  <1>1. Types /\ Handle(s, "tcp")
    BY DEF IInv, ScheduleReset
  <1> DEFINE req == Request(s, "rst")
  <1>2. req \in Requests /\ Source(s) = EndpointOf(req) /\ Source(s) \in Endpoints
    BY <1>1, RequestTyped DEF EndpointOf
  <1> HIDE DEF req
  <1>3. /\ Source(s) \notin rstScheduled[s]
        /\ rstScheduled' = [rstScheduled EXCEPT ![s] = @ \cup {Source(s)}]
        /\ delayed' = [delayed EXCEPT ![s] = Append(@, req)]
        /\ tagCnt' = [tagCnt EXCEPT ![s] = NextTag(s)]
        /\ Log(s, NextId(s), "rst", TRUE)
        /\ UNCHANGED requests
    BY DEF ScheduleReset, req
  <1>4. NextTag(s) \in 0..MaxTag /\ NextId(s) \in UserIds
    BY <1>1, IdFacts
  <1>5. rawLog' \subseteq Rows
    BY <1>1, <1>3, <1>4, LogTyped
  <1>6. Append(delayed[s], req) \in Seq(Requests)
    BY <1>1, <1>2, Appended
  <1>7. ChannelTypes' /\ ShardTypes'
    BY <1>1, <1>2, <1>3, <1>4, <1>5, <1>6, HandleFacts
  <1>8. OneReset(rstScheduled[s] \cup {Source(s)}, Append(delayed[s], req))
    BY <1>1, <1>2, <1>3, ResetAdded, OneResetIs DEF IInv
  <1>9. \A x \in Shards : OneReset(rstScheduled'[x], delayed'[x])
    BY <1>1, <1>3, <1>8, OneResetIs DEF IInv
  <1>10. OneResetPerEndpoint'
    BY <1>9 DEF OneResetPerEndpoint, OneReset, EndpointOf
  <1> QED
    BY <1>7, <1>10

LEMMA ReleaseKeeps ==
  ASSUME IInv, NEW s \in Shards, ReleaseReset(s)
  PROVE  ChannelTypes' /\ ShardTypes' /\ OneResetPerEndpoint'
  <1> USE DEF Types, ChannelTypes, ShardTypes
  <1>1. Types
    BY DEF IInv
  <1> DEFINE req == Head(delayed[s])
  <1>2. /\ delayed[s] # <<>>
        /\ delayed' = [delayed EXCEPT ![s] = Tail(@)]
        /\ rstScheduled' = [rstScheduled EXCEPT ![s] =
                              rstScheduled[s] \ {EndpointOf(req)}]
        /\ requests' = [requests EXCEPT ![s] = Append(@, req)]
        /\ UNCHANGED <<enabled, current, tagCnt, rawLog, handled, unhandled,
                       arrived, shardBox, replies>>
    BY DEF ReleaseReset, Release, EndpointOf
  <1>3. req \in Requests /\ Tail(delayed[s]) \in Seq(Requests)
    BY <1>1, <1>2, HeadAndTail
  <1> HIDE DEF req
  <1>4. Append(requests[s], req) \in Seq(Requests)
    BY <1>1, <1>3, Appended
  <1>5. ChannelTypes' /\ ShardTypes'
    BY <1>1, <1>2, <1>3, <1>4
  <1>6. OneReset(rstScheduled[s] \ {EndpointOf(req)}, Tail(delayed[s]))
    BY <1>1, <1>2, ResetRemoved, OneResetIs DEF IInv, req
  <1>7. \A x \in Shards : OneReset(rstScheduled'[x], delayed'[x])
    BY <1>1, <1>2, <1>6, OneResetIs DEF IInv
  <1>8. OneResetPerEndpoint'
    BY <1>7 DEF OneResetPerEndpoint, OneReset, EndpointOf
  <1> QED
    BY <1>5, <1>8

LEMMA ShardKeeps == ASSUME IInv, NEW s \in Shards, ShardStep(s) PROVE IInv'
  <1>1. UNCHANGED <<ingestVars, managerVars>>
    BY DEF ShardStep
  <1>2. ManagerTypes'
    BY <1>1 DEF IInv, Types, ManagerTypes, managerVars
  <1>3. IngestTypes'
    BY <1>1 DEF IInv, Types, IngestTypes, ingestVars
  <1>4. CASE TakePackets(s) \/ DropUnexpected(s)
    <2>1. UNCHANGED <<rstScheduled, delayed>>
      BY <1>4 DEF TakePackets, DropUnexpected
    <2>2. OneResetPerEndpoint'
      BY <2>1 DEF IInv, OneResetPerEndpoint
    <2> QED
      BY <1>2, <1>3, <1>4, <2>2, TakeKeeps DEF IInv, Types
  <1>5. CASE \/ IgnoreDisabled(s) \/ AnswerSyn(s) \/ SkipAck(s) \/ LogOnly(s)
             \/ HandleUdp(s) \/ HandleIcmp(s)
    <2>1. ChannelTypes' /\ ShardTypes' /\ UNCHANGED <<rstScheduled, delayed>>
      BY <1>5, PlainKeeps DEF IInv
    <2>2. OneResetPerEndpoint'
      BY <2>1 DEF IInv, OneResetPerEndpoint
    <2> QED
      BY <1>2, <1>3, <2>1, <2>2 DEF IInv, Types
  <1>6. CASE ScheduleReset(s)
    BY <1>2, <1>3, <1>6, ScheduleKeeps DEF IInv, Types
  <1>7. CASE ReleaseReset(s)
    BY <1>2, <1>3, <1>7, ReleaseKeeps DEF IInv, Types
  <1> QED
    BY <1>4, <1>5, <1>6, <1>7 DEF ShardStep, HandlePackets

-----------------------------------------------------------------------------
(* The managers and scamper. *)

LEMMA MapExtended ==
  ASSUME NEW map \in UserIdMaps, NEW uid \in UserIds, NEW key \in Keys
  PROVE  [u \in DOMAIN map \cup {uid} |-> IF u = uid THEN key ELSE map[u]]
           \in UserIdMaps
  <1>1. PICK ids \in SUBSET UserIds : map \in [ids -> Keys]
    BY DEF UserIdMaps
  <1>2. [u \in DOMAIN map \cup {uid} |-> IF u = uid THEN key ELSE map[u]]
          \in [ids \cup {uid} -> Keys]
    BY <1>1
  <1>3. ids \cup {uid} \in SUBSET UserIds
    BY <1>1
  <1> QED
    BY <1>2, <1>3 DEF UserIdMaps

LEMMA MapReduced ==
  ASSUME NEW map \in UserIdMaps, NEW uid
  PROVE  [u \in DOMAIN map \ {uid} |-> map[u]] \in UserIdMaps
  <1>1. PICK ids \in SUBSET UserIds : map \in [ids -> Keys]
    BY DEF UserIdMaps
  <1>2. [u \in DOMAIN map \ {uid} |-> map[u]] \in [ids \ {uid} -> Keys]
    BY <1>1
  <1>3. ids \ {uid} \in SUBSET UserIds
    BY <1>1
  <1> QED
    BY <1>2, <1>3 DEF UserIdMaps

LEMMA RequestKeeps ==
  ASSUME Types, NEW s \in Shards, HandleRequest(s)
  PROVE  ChannelTypes' /\ ManagerTypes'
  <1> USE DEF Types, ChannelTypes, ManagerTypes
  <1> DEFINE req == Head(requests[s])
  <1>1. requests[s] # <<>> /\ requests' = [requests EXCEPT ![s] = Tail(@)]
        /\ UNCHANGED <<lost, arrived, shardBox, replies>>
    BY DEF HandleRequest, TakeRequest
  <1>2. req \in Requests /\ Tail(requests[s]) \in Seq(Requests)
    BY <1>1, HeadAndTail
  <1>3. ChannelTypes'
    BY <1>1, <1>2
  <1>4. CASE KeyOf(req) \in targets[s]
    <2>1. UNCHANGED <<targets, userids, outstanding, sent>>
      BY <1>4 DEF HandleRequest, TakeRequest
    <2> QED
      BY <1>1, <1>3, <2>1
  <1>5. CASE KeyOf(req) \notin targets[s]
    <2>1. /\ sent' = sent \cup {req.n}
          /\ outstanding' = [outstanding EXCEPT ![s] = @ \cup {req}]
          /\ targets' = [targets EXCEPT ![s] = @ \cup {KeyOf(req)}]
          /\ userids' = [userids EXCEPT ![s] =
               [uid \in DOMAIN @ \cup {req.uid} |->
                  IF uid = req.uid THEN KeyOf(req) ELSE @[uid]]]
      BY <1>5 DEF HandleRequest, TakeRequest
    <2>2. req.n \in 1..MaxPackets /\ req.uid \in UserIds /\ KeyOf(req) \in Keys
      BY <1>2, KeyIsKey DEF Requests
    <2> HIDE DEF req
    <2>3. ASSUME NEW map \in UserIdMaps
          PROVE  [uid \in DOMAIN map \cup {req.uid} |->
                    IF uid = req.uid THEN KeyOf(req) ELSE map[uid]] \in UserIdMaps
      BY <2>2, MapExtended, Zenon
    <2>4. userids' \in [Shards -> UserIdMaps]
      BY <2>1, <2>3
    <2> QED
      BY <1>1, <1>2, <1>3, <2>1, <2>2, <2>4
  <1> QED
    BY <1>4, <1>5

LEMMA ReplyKeeps ==
  ASSUME Types, NEW s \in Shards, HandleReply(s)
  PROVE  ChannelTypes' /\ ManagerTypes'
  <1> USE DEF Types, ChannelTypes, ManagerTypes
  <1>1. PICK freed :
          /\ replies[s] # <<>>
          /\ replies' = [replies EXCEPT ![s] = Tail(@)]
          /\ targets' = [targets EXCEPT ![s] = @ \ freed]
          /\ userids' = [userids EXCEPT ![s] =
               [uid \in DOMAIN @ \ {Head(replies[s]).uid} |-> @[uid]]]
          /\ UNCHANGED <<outstanding, lost, sent, arrived, shardBox, requests>>
    BY DEF HandleReply, TakeReply
  <1>2. Tail(replies[s]) \in Seq(Requests)
    BY <1>1, HeadAndTail
  <1>3. [uid \in DOMAIN userids[s] \ {Head(replies[s]).uid} |-> userids[s][uid]]
          \in UserIdMaps
    BY MapReduced
  <1>4. userids' \in [Shards -> UserIdMaps]
    BY <1>1, <1>3
  <1> QED
    BY <1>1, <1>2, <1>4

LEMMA ScamperKeeps ==
  ASSUME Types, NEW s \in Shards, NEW req \in outstanding[s],
         Answer(s, req) \/ Lose(s, req)
  PROVE  ChannelTypes' /\ ManagerTypes'
  <1> USE DEF Types, ChannelTypes, ManagerTypes
  <1>1. req \in Requests
    OBVIOUS
  <1>2. Append(replies[s], req) \in Seq(Requests)
    BY <1>1, Appended
  <1>3. CASE Answer(s, req)
    BY <1>2, <1>3 DEF Answer
  <1>4. CASE Lose(s, req)
    BY <1>1, <1>4 DEF Lose
  <1> QED
    BY <1>3, <1>4

LEMMA ManagersKeep ==
  ASSUME IInv, NEW s \in Shards, ManagerStep(s) \/ ScamperStep(s) PROVE IInv'
  <1>1. ChannelTypes' /\ ManagerTypes'
    BY RequestKeeps, ReplyKeeps, ScamperKeeps DEF IInv, ManagerStep, ScamperStep
  <1>2. UNCHANGED <<ingestVars, shardVars>>
    BY DEF ManagerStep, ScamperStep
  <1>3. IngestTypes' /\ ShardTypes' /\ OneResetPerEndpoint'
    BY <1>2 DEF IInv, Types, IngestTypes, ShardTypes, OneResetPerEndpoint,
                ingestVars, shardVars
  <1> QED
    BY <1>1, <1>3 DEF IInv, Types

-----------------------------------------------------------------------------
(* Theorems. *)

LEMMA NextKeeps == IInv /\ [Next]_vars => IInv'
  <1> SUFFICES ASSUME IInv, [Next]_vars PROVE IInv'
    OBVIOUS
  <1>1. CASE UNCHANGED vars
    BY <1>1 DEF vars, channels, ingestVars, shardVars, managerVars, IInv, Types,
                ChannelTypes, IngestTypes, ShardTypes, ManagerTypes,
                OneResetPerEndpoint
  <1> QED
    BY <1>1, IngestKeeps, ShardKeeps, ManagersKeep DEF Next

LEMMA Invariance == Spec => []IInv
  BY InitTypes, NextKeeps, PTL DEF Spec

LEMMA MapTypes ==
  ASSUME NEW map \in UserIdMaps
  PROVE  DOMAIN map \subseteq UserIds /\ \A uid \in DOMAIN map : map[uid] \in Keys
  BY DEF UserIdMaps

(* Every variable of threads, shards and managers keeps its type; in        *)
(* particular tags stay in their range, and every request has a user id and *)
(* a key that its manager can file it under.                                *)
THEOREM TelescopeTypeCorrect == Spec => []TypeOK
  <1>1. IInv => TypeOK
    <2> SUFFICES ASSUME IInv PROVE TypeOK
      OBVIOUS
    <2>1. \A s \in Shards : /\ DOMAIN userids[s] \subseteq UserIds
                            /\ \A uid \in DOMAIN userids[s] : userids[s][uid] \in Keys
      BY MapTypes DEF IInv, Types, ManagerTypes
    <2> QED
      BY <2>1 DEF IInv, Types, ChannelTypes, IngestTypes, ShardTypes, ManagerTypes,
                  TypeOK
  <1> QED
    BY <1>1, Invariance, PTL

(* An endpoint is in a shard's rst_scheduled exactly while one delayed      *)
(* reset of it waits, so that it is neither reset twice at a time nor       *)
(* barred from resets for good.                                             *)
THEOREM ResetsAreSingle == Spec => []OneResetPerEndpoint
  <1>1. IInv => OneResetPerEndpoint
    BY DEF IInv
  <1> QED
    BY <1>1, Invariance, PTL

-----------------------------------------------------------------------------
(* The targets of the managers and the ids of their probes. *)

(* What is in a sequence, and that it is there once. *)
Elems(seq) == {seq[i] : i \in DOMAIN seq}
Once(seq) == \A i, j \in DOMAIN seq : seq[i] = seq[j] => i = j

(* A request under way is in one place of its shard, and known by its id.   *)
Apart(Q, D, R, O, L) ==
  /\ Q \cap D = {} /\ Q \cap R = {} /\ Q \cap O = {} /\ Q \cap L = {}
  /\ D \cap R = {} /\ D \cap O = {} /\ D \cap L = {}
  /\ R \cap O = {} /\ R \cap L = {} /\ O \cap L = {}
Identified(all) == \A p, q \in all : p.uid = q.uid => p = q

(* The maps of a manager hold the probes it waits for, of which no two have *)
(* the same target.                                                         *)
Blocks(keys, map, awaited) ==
  /\ keys = {KeyOf(p) : p \in awaited}
  /\ DOMAIN map = {p.uid : p \in awaited}
  /\ \A p \in awaited : map[p.uid] = KeyOf(p)
  /\ \A p, q \in awaited : KeyOf(p) = KeyOf(q) => p = q

(* What a shard and its manager have: requests q to be handled, delayed     *)
(* resets d, replies r to be handled, probes O that scamper has, lost       *)
(* probes L, and the maps of the manager.                                   *)
Good(q, d, r, O, L, keys, map) ==
  /\ Once(q) /\ Once(d) /\ Once(r)
  /\ Apart(Elems(q), Elems(d), Elems(r), O, L)
  /\ Identified(O \cup Elems(r) \cup L \cup Elems(q) \cup Elems(d))
  /\ Blocks(keys, map, O \cup Elems(r) \cup L)

(* The maps after a request and after a reply. *)
WithProbe(map, req) ==
  [uid \in DOMAIN map \cup {req.uid} |-> IF uid = req.uid THEN KeyOf(req) ELSE map[uid]]
WithoutId(map, id) == [uid \in DOMAIN map \ {id} |-> map[uid]]
Freed(map, id) == {map[uid] : uid \in {id} \cap DOMAIN map}

Targeted(s) == Good(requests[s], delayed[s], replies[s], outstanding[s], lost[s],
                    targets[s], userids[s])

TInv == IInv /\ \A s \in Shards : Targeted(s)

-----------------------------------------------------------------------------
(* Sequences as sets. *)

LEMMA ElemsAre ==
  ASSUME NEW S, NEW seq \in Seq(S)
  PROVE  Elems(seq) \subseteq S
  BY ElementOfSeq, LenProperties DEF Elems

LEMMA ElemsAdded ==
  ASSUME NEW S, NEW seq \in Seq(S), NEW e \in S
  PROVE  /\ Elems(Append(seq, e)) = Elems(seq) \cup {e}
         /\ Once(seq) /\ e \notin Elems(seq) => Once(Append(seq, e))
  <1> DEFINE more == Append(seq, e)
             n == Len(seq)
  <1>1. /\ n \in Nat /\ DOMAIN seq = 1..n /\ DOMAIN more = 1..(n + 1)
        /\ more[n + 1] = e
        /\ \A i \in 1..n : more[i] = seq[i]
    BY AppendProperties, LenProperties
  <1>2. 1..(n + 1) = 1..n \cup {n + 1}
    BY <1>1
  <1> HIDE DEF more, n
  <1>3. Elems(more) = Elems(seq) \cup {e}
    BY <1>1, <1>2 DEF Elems
  <1>4. ASSUME Once(seq), e \notin Elems(seq) PROVE Once(more)
    <2> SUFFICES ASSUME NEW i \in 1..(n + 1), NEW j \in 1..(n + 1),
                        more[i] = more[j]
                 PROVE  i = j
      BY <1>1 DEF Once
    <2>1. CASE i \in 1..n /\ j \in 1..n
      BY <1>1, <1>4, <2>1 DEF Once
    <2>2. CASE i = n + 1 /\ j \in 1..n
      BY <1>1, <1>4, <2>2 DEF Elems
    <2>3. CASE i \in 1..n /\ j = n + 1
      BY <1>1, <1>4, <2>3 DEF Elems
    <2> QED
      BY <1>2, <2>1, <2>2, <2>3
  <1> QED
    BY <1>3, <1>4 DEF more

LEMMA ElemsTaken ==
  ASSUME NEW S, NEW seq \in Seq(S), seq # <<>>, Once(seq)
  PROVE  /\ Head(seq) \in Elems(seq)
         /\ Elems(Tail(seq)) = Elems(seq) \ {Head(seq)}
         /\ Once(Tail(seq))
  <1> DEFINE rest == Tail(seq)
             n == Len(seq)
  <1>1. /\ n \in Nat \ {0} /\ DOMAIN seq = 1..n /\ DOMAIN rest = 1..(n - 1)
        /\ Head(seq) = seq[1]
        /\ \A i \in 1..(n - 1) : rest[i] = seq[i + 1]
    BY HeadTailProperties, EmptySeq, LenProperties
  <1> HIDE DEF rest, n
  <1>2. Once(rest)
    <2> SUFFICES ASSUME NEW i \in 1..(n - 1), NEW j \in 1..(n - 1),
                        rest[i] = rest[j]
                 PROVE  i = j
      BY <1>1 DEF Once
    <2>1. i + 1 \in 1..n /\ j + 1 \in 1..n
      BY <1>1
    <2>2. i + 1 = j + 1
      BY <1>1, <2>1 DEF Once
    <2> QED
      BY <2>2
  <1>3. \A i \in 1..(n - 1) : rest[i] \in Elems(seq) \ {seq[1]}
    <2> SUFFICES ASSUME NEW i \in 1..(n - 1)
                 PROVE  rest[i] \in Elems(seq) \ {seq[1]}
      OBVIOUS
    <2>1. i + 1 \in 1..n /\ 1 \in 1..n /\ i + 1 # 1
      BY <1>1
    <2>2. seq[i + 1] # seq[1]
      BY <1>1, <2>1 DEF Once
    <2>3. seq[i + 1] \in Elems(seq)
      BY <1>1, <2>1 DEF Elems
    <2> QED
      BY <1>1, <2>2, <2>3
  <1>4. ASSUME NEW e \in Elems(seq) \ {seq[1]} PROVE \E i \in 1..(n - 1) : e = rest[i]
    <2>1. PICK k \in 1..n : e = seq[k]
      BY <1>1 DEF Elems
    <2>2. k # 1
      BY <2>1
    <2>3. k - 1 \in 1..(n - 1) /\ (k - 1) + 1 = k
      BY <1>1, <2>2
    <2> QED
      BY <1>1, <2>1, <2>3
  <1>5. Elems(rest) = Elems(seq) \ {seq[1]}
    <2>1. Elems(rest) = {rest[i] : i \in 1..(n - 1)}
      BY <1>1 DEF Elems
    <2> QED
      BY <1>3, <1>4, <2>1
  <1>6. Head(seq) \in Elems(seq)
    BY <1>1 DEF Elems
  <1> QED
    BY <1>1, <1>2, <1>5, <1>6 DEF rest

-----------------------------------------------------------------------------
(* The steps, on values. *)

LEMMA RequestAdded ==
  ASSUME NEW q \in Seq(Requests), NEW d \in Seq(Requests), NEW r, NEW O, NEW L,
         NEW keys, NEW map, Good(q, d, r, O, L, keys, map), NEW req \in Requests,
         \A p \in O \cup Elems(r) \cup L \cup Elems(q) \cup Elems(d) :
           p.uid # req.uid
  PROVE  /\ Good(Append(q, req), d, r, O, L, keys, map)
         /\ Good(q, Append(d, req), r, O, L, keys, map)
  <1>1. req \notin O \cup Elems(r) \cup L \cup Elems(q) \cup Elems(d)
    OBVIOUS
  <1>2. /\ Elems(Append(q, req)) = Elems(q) \cup {req} /\ Once(Append(q, req))
        /\ Elems(Append(d, req)) = Elems(d) \cup {req} /\ Once(Append(d, req))
    BY <1>1, ElemsAdded DEF Good
  <1> DEFINE all == O \cup Elems(r) \cup L \cup Elems(q) \cup Elems(d)
  <1>3. Identified(all \cup {req})
    BY DEF Good, Identified
  <1>4. /\ all \cup {req} = O \cup Elems(r) \cup L \cup (Elems(q) \cup {req}) \cup Elems(d)
        /\ all \cup {req} = O \cup Elems(r) \cup L \cup Elems(q) \cup (Elems(d) \cup {req})
    OBVIOUS
  <1>5. /\ Apart(Elems(q) \cup {req}, Elems(d), Elems(r), O, L)
        /\ Apart(Elems(q), Elems(d) \cup {req}, Elems(r), O, L)
    BY <1>1 DEF Good, Apart
  <1> HIDE DEF all
  <1> QED
    BY <1>2, <1>3, <1>4, <1>5 DEF Good

LEMMA ResetReleased ==
  ASSUME NEW q \in Seq(Requests), NEW d \in Seq(Requests), NEW r, NEW O, NEW L,
         NEW keys, NEW map, Good(q, d, r, O, L, keys, map), d # <<>>
  PROVE  Good(Append(q, Head(d)), Tail(d), r, O, L, keys, map)
  <1> DEFINE req == Head(d)
  <1>1. /\ req \in Elems(d) /\ Elems(Tail(d)) = Elems(d) \ {req}
        /\ Once(Tail(d)) /\ req \in Requests
    BY ElemsTaken, HeadAndTail DEF Good
  <1>2. req \notin Elems(q)
    BY <1>1 DEF Good, Apart
  <1> HIDE DEF req
  <1>3. Elems(Append(q, req)) = Elems(q) \cup {req} /\ Once(Append(q, req))
    BY <1>1, <1>2, ElemsAdded DEF Good
  <1>4. (Elems(q) \cup {req}) \cup (Elems(d) \ {req}) = Elems(q) \cup Elems(d)
    BY <1>1
  <1>5. O \cup Elems(r) \cup L \cup (Elems(q) \cup {req}) \cup (Elems(d) \ {req})
          = O \cup Elems(r) \cup L \cup Elems(q) \cup Elems(d)
    BY <1>4
  <1>6. Apart(Elems(q) \cup {req}, Elems(d) \ {req}, Elems(r), O, L)
    BY <1>1 DEF Good, Apart
  <1> QED
    BY <1>1, <1>3, <1>5, <1>6 DEF Good, req

LEMMA RequestRefused ==
  ASSUME NEW q \in Seq(Requests), NEW d, NEW r, NEW O, NEW L,
         NEW keys, NEW map, Good(q, d, r, O, L, keys, map), q # <<>>
  PROVE  Good(Tail(q), d, r, O, L, keys, map)
  <1>1. Elems(Tail(q)) = Elems(q) \ {Head(q)} /\ Once(Tail(q))
    BY ElemsTaken DEF Good
  <1>2. Elems(Tail(q)) \subseteq Elems(q)
    BY <1>1
  <1>3. Apart(Elems(Tail(q)), Elems(d), Elems(r), O, L)
    BY <1>2 DEF Good, Apart
  <1>4. Identified(O \cup Elems(r) \cup L \cup Elems(Tail(q)) \cup Elems(d))
    BY <1>2 DEF Good, Identified
  <1> QED
    BY <1>1, <1>3, <1>4 DEF Good

LEMMA RequestAccepted ==
  ASSUME NEW q \in Seq(Requests), NEW d, NEW r, NEW O, NEW L,
         NEW keys, NEW map, Good(q, d, r, O, L, keys, map), q # <<>>,
         KeyOf(Head(q)) \notin keys
  PROVE  Good(Tail(q), d, r, O \cup {Head(q)}, L, keys \cup {KeyOf(Head(q))},
              WithProbe(map, Head(q)))
  <1> DEFINE req == Head(q)
             awaited == O \cup Elems(r) \cup L
             more == WithProbe(map, req)
  <1>1. req \in Elems(q) /\ Elems(Tail(q)) = Elems(q) \ {req} /\ Once(Tail(q))
    BY ElemsTaken DEF Good
  <1>2. req \notin awaited
    BY <1>1 DEF Good, Apart
  <1>3. Apart(Elems(q) \ {req}, Elems(d), Elems(r), O \cup {req}, L)
    BY <1>1 DEF Good, Apart
  <1>4. (O \cup {req}) \cup Elems(r) \cup L \cup (Elems(q) \ {req}) \cup Elems(d)
          = O \cup Elems(r) \cup L \cup Elems(q) \cup Elems(d)
    BY <1>1
  <1>5. \A p \in awaited : p.uid # req.uid
    BY <1>1, <1>2 DEF Good, Identified
  <1>6. (O \cup {req}) \cup Elems(r) \cup L = awaited \cup {req}
    OBVIOUS
  <1>7. Blocks(keys, map, awaited) /\ KeyOf(req) \notin keys
    BY DEF Good
  <1> HIDE DEF req, awaited
  <1>8. Blocks(keys \cup {KeyOf(req)}, more, awaited \cup {req})
    <2>1. keys \cup {KeyOf(req)} = {KeyOf(p) : p \in awaited \cup {req}}
      BY <1>7 DEF Blocks
    <2>2. DOMAIN more = {p.uid : p \in awaited \cup {req}}
      BY <1>7 DEF Blocks, WithProbe
    <2>3. \A p \in awaited \cup {req} : more[p.uid] = KeyOf(p)
      BY <1>5, <1>7 DEF Blocks, WithProbe
    <2>4. \A p \in awaited : KeyOf(p) # KeyOf(req)
      BY <1>7 DEF Blocks
    <2>5. \A p1, p2 \in awaited \cup {req} : KeyOf(p1) = KeyOf(p2) => p1 = p2
      BY <1>7, <2>4 DEF Blocks
    <2> HIDE DEF more
    <2> QED
      BY <2>1, <2>2, <2>3, <2>5 DEF Blocks
  <1> HIDE DEF more
  <1>9. Good(Tail(q), d, r, O \cup {req}, L, keys \cup {KeyOf(req)}, more)
    BY <1>1, <1>3, <1>4, <1>6, <1>8 DEF Good
  <1> QED
    BY <1>9 DEF req, more

LEMMA ReplyTaken ==
  ASSUME NEW q, NEW d, NEW r \in Seq(Requests), NEW O, NEW L,
         NEW keys, NEW map, Good(q, d, r, O, L, keys, map), r # <<>>
  PROVE  Good(q, d, Tail(r), O, L,
              keys \ Freed(map, Head(r).uid), WithoutId(map, Head(r).uid))
  <1> DEFINE req == Head(r)
             awaited == O \cup Elems(r) \cup L
             less == WithoutId(map, req.uid)
             freed == Freed(map, req.uid)
  <1>1. req \in Elems(r) /\ Elems(Tail(r)) = Elems(r) \ {req} /\ Once(Tail(r))
    BY ElemsTaken DEF Good
  <1>2. Apart(Elems(q), Elems(d), Elems(r) \ {req}, O, L)
    BY DEF Good, Apart
  <1>3. Identified(O \cup (Elems(r) \ {req}) \cup L \cup Elems(q) \cup Elems(d))
    BY DEF Good, Identified
  <1>4. O \cup (Elems(r) \ {req}) \cup L = awaited \ {req}
    BY <1>1 DEF Good, Apart
  <1>5. Blocks(keys, map, awaited) /\ req \in awaited
    BY <1>1 DEF Good
  <1>6. \A p \in awaited \ {req} : p.uid # req.uid
    BY <1>5 DEF Good, Identified
  <1> HIDE DEF req, awaited
  <1>7. freed = {KeyOf(req)}
    BY <1>5 DEF Blocks, Freed
  <1>8. Blocks(keys \ {KeyOf(req)}, less, awaited \ {req})
    <2>1. keys \ {KeyOf(req)} = {KeyOf(p) : p \in awaited \ {req}}
      BY <1>5 DEF Blocks
    <2>2. DOMAIN less = {p.uid : p \in awaited \ {req}}
      BY <1>5, <1>6 DEF Blocks, WithoutId
    <2>3. \A p \in awaited \ {req} : less[p.uid] = KeyOf(p)
      BY <1>5, <1>6 DEF Blocks, WithoutId
    <2>4. \A p1, p2 \in awaited \ {req} : KeyOf(p1) = KeyOf(p2) => p1 = p2
      BY <1>5 DEF Blocks
    <2> HIDE DEF less
    <2> QED
      BY <2>1, <2>2, <2>3, <2>4 DEF Blocks
  <1> HIDE DEF less, freed
  <1>9. Good(q, d, Tail(r), O, L, keys \ freed, less)
    BY <1>1, <1>2, <1>3, <1>4, <1>7, <1>8 DEF Good
  <1> QED
    BY <1>9 DEF req, less, freed

LEMMA ProbeAnswered ==
  ASSUME NEW q, NEW d, NEW r \in Seq(Requests), NEW O, NEW L,
         NEW keys, NEW map, Good(q, d, r, O, L, keys, map),
         NEW req \in O, req \in Requests
  PROVE  /\ Good(q, d, Append(r, req), O \ {req}, L, keys, map)
         /\ Good(q, d, r, O \ {req}, L \cup {req}, keys, map)
  <1>1. req \notin Elems(r)
    BY DEF Good, Apart
  <1>2. Elems(Append(r, req)) = Elems(r) \cup {req} /\ Once(Append(r, req))
    BY <1>1, ElemsAdded DEF Good
  <1>3. /\ Apart(Elems(q), Elems(d), Elems(r) \cup {req}, O \ {req}, L)
        /\ Apart(Elems(q), Elems(d), Elems(r), O \ {req}, L \cup {req})
    BY DEF Good, Apart
  <1>4. /\ (O \ {req}) \cup (Elems(r) \cup {req}) \cup L = O \cup Elems(r) \cup L
        /\ (O \ {req}) \cup Elems(r) \cup (L \cup {req}) = O \cup Elems(r) \cup L
    OBVIOUS
  <1> QED
    BY <1>2, <1>3, <1>4 DEF Good
-----------------------------------------------------------------------------
(* The steps of the telescope. *)

FreshStep ==
  \A s \in Shards : AnswerSyn(s) \/ ScheduleReset(s) =>
    NextId(s) \notin {p.uid : p \in UnderWay(s)}

LEMMA FreshIs == IdsFresh <=> [][FreshStep]_vars
  BY DEF IdsFresh, FreshStep

LEMMA AllUnderWay ==
  ASSUME NEW s \in Shards
  PROVE  UnderWay(s) = outstanding[s] \cup Elems(replies[s]) \cup lost[s]
                         \cup Elems(requests[s]) \cup Elems(delayed[s])
  BY DEF UnderWay, Awaited, Elems

(* Nothing of what Targeted is about changes. *)
LEMMA TargetsUntouched ==
  ASSUME \A s \in Shards : Targeted(s),
         UNCHANGED <<requests, delayed, replies, managerVars>>
  PROVE  (\A s \in Shards : Targeted(s))'
  BY DEF Targeted, managerVars

(* Only shard s changes. *)
LEMMA OneShard ==
  ASSUME \A x \in Shards : Targeted(x), NEW s \in Shards, Targeted(s)',
         \A x \in Shards \ {s} :
           /\ requests'[x] = requests[x] /\ delayed'[x] = delayed[x]
           /\ replies'[x] = replies[x] /\ outstanding'[x] = outstanding[x]
           /\ lost'[x] = lost[x] /\ targets'[x] = targets[x]
           /\ userids'[x] = userids[x]
  PROVE  (\A x \in Shards : Targeted(x))'
  BY DEF Targeted

LEMMA NewRequestKeeps ==
  ASSUME TInv, NEW s \in Shards, AnswerSyn(s) \/ ScheduleReset(s), FreshStep,
         UNCHANGED managerVars
  PROVE  (\A x \in Shards : Targeted(x))'
  <1> USE DEF Types, ChannelTypes, ShardTypes
  <1>1. Types /\ Handle(s, "tcp") /\ Targeted(s)
    BY DEF TInv, IInv, AnswerSyn, ScheduleReset
  <1>2. Request(s, "synack") \in Requests /\ Request(s, "rst") \in Requests
    BY <1>1, RequestTyped
  <1>3. Request(s, "synack").uid = NextId(s) /\ Request(s, "rst").uid = NextId(s)
    BY DEF Request
  <1>4. \A p \in outstanding[s] \cup Elems(replies[s]) \cup lost[s]
                \cup Elems(requests[s]) \cup Elems(delayed[s]) : p.uid # NextId(s)
    BY AllUnderWay DEF FreshStep
  <1>5. UNCHANGED <<targets, userids, outstanding, lost>>
    BY DEF managerVars
  <1>6. UNCHANGED replies
    BY <1>1, HandleFacts
  <1>7. requests[s] \in Seq(Requests) /\ delayed[s] \in Seq(Requests)
    BY <1>1
  <1>8. CASE AnswerSyn(s)
    <2>1. /\ requests' = [requests EXCEPT ![s] = Append(@, Request(s, "synack"))]
          /\ UNCHANGED delayed
      BY <1>8 DEF AnswerSyn
    <2>2. Good(Append(requests[s], Request(s, "synack")), delayed[s], replies[s],
               outstanding[s], lost[s], targets[s], userids[s])
      BY <1>1, <1>2, <1>3, <1>4, <1>7, RequestAdded DEF Targeted
    <2>3. Targeted(s)'
      BY <1>1, <1>5, <1>6, <2>1, <2>2 DEF Targeted
    <2> QED
      BY <1>1, <1>5, <1>6, <2>1, <2>3, OneShard DEF TInv
  <1>9. CASE ScheduleReset(s)
    <2>1. /\ delayed' = [delayed EXCEPT ![s] = Append(@, Request(s, "rst"))]
          /\ UNCHANGED requests
      BY <1>9 DEF ScheduleReset
    <2>2. Good(requests[s], Append(delayed[s], Request(s, "rst")), replies[s],
               outstanding[s], lost[s], targets[s], userids[s])
      BY <1>1, <1>2, <1>3, <1>4, <1>7, RequestAdded DEF Targeted
    <2>3. Targeted(s)'
      BY <1>1, <1>5, <1>6, <2>1, <2>2 DEF Targeted
    <2> QED
      BY <1>1, <1>5, <1>6, <2>1, <2>3, OneShard DEF TInv
  <1> QED
    BY <1>8, <1>9

LEMMA ReleasedKeeps ==
  ASSUME TInv, NEW s \in Shards, ReleaseReset(s), UNCHANGED managerVars
  PROVE  (\A x \in Shards : Targeted(x))'
  <1>1. /\ requests \in [Shards -> Seq(Requests)]
        /\ delayed \in [Shards -> Seq(Requests)] /\ Targeted(s)
    BY DEF TInv, IInv, Types, ChannelTypes, ShardTypes
  <1>2. /\ delayed[s] # <<>>
        /\ delayed' = [delayed EXCEPT ![s] = Tail(@)]
        /\ requests' = [requests EXCEPT ![s] = Append(@, Head(delayed[s]))]
        /\ UNCHANGED <<replies, targets, userids, outstanding, lost>>
    BY DEF ReleaseReset, Release, managerVars
  <1>3. Good(Append(requests[s], Head(delayed[s])), Tail(delayed[s]), replies[s],
             outstanding[s], lost[s], targets[s], userids[s])
    BY <1>1, <1>2, ResetReleased DEF Targeted
  <1>4. Targeted(s)'
    BY <1>1, <1>2, <1>3 DEF Targeted
  <1> QED
    BY <1>1, <1>2, <1>4, OneShard DEF TInv

LEMMA ShardKeepsTargets ==
  ASSUME TInv, NEW s \in Shards, ShardStep(s), FreshStep
  PROVE  (\A x \in Shards : Targeted(x))'
  <1>1. UNCHANGED managerVars
    BY DEF ShardStep
  <1>2. CASE TakePackets(s) \/ DropUnexpected(s)
    <2>1. UNCHANGED <<requests, delayed, replies>>
      BY <1>2 DEF TakePackets, DropUnexpected
    <2> QED
      BY <1>1, <2>1, TargetsUntouched DEF TInv
  <1>3. CASE \/ IgnoreDisabled(s) \/ SkipAck(s) \/ LogOnly(s)
             \/ HandleUdp(s) \/ HandleIcmp(s)
    <2>1. UNCHANGED <<requests, delayed, replies>>
      BY <1>3 DEF IgnoreDisabled, SkipAck, LogOnly, HandleUdp, HandleIcmp, Handle
    <2> QED
      BY <1>1, <2>1, TargetsUntouched DEF TInv
  <1>4. CASE AnswerSyn(s) \/ ScheduleReset(s)
    BY <1>1, <1>4, NewRequestKeeps
  <1>5. CASE ReleaseReset(s)
    BY <1>1, <1>5, ReleasedKeeps
  <1> QED
    BY <1>2, <1>3, <1>4, <1>5 DEF ShardStep, HandlePackets

LEMMA ManagersKeepTargets ==
  ASSUME TInv, NEW s \in Shards, ManagerStep(s) \/ ScamperStep(s)
  PROVE  (\A x \in Shards : Targeted(x))'
  <1>1. /\ requests \in [Shards -> Seq(Requests)]
        /\ replies \in [Shards -> Seq(Requests)]
        /\ outstanding \in [Shards -> SUBSET Requests]
        /\ lost \in [Shards -> SUBSET Requests]
        /\ targets \in [Shards -> SUBSET Keys]
        /\ userids \in [Shards -> UserIdMaps]
        /\ Targeted(s)
    BY DEF TInv, IInv, Types, ChannelTypes, ManagerTypes
  <1>2. UNCHANGED delayed
    BY DEF ManagerStep, ScamperStep, shardVars
  <1> DEFINE q == requests[s]
             r == replies[s]
  <1>3. CASE HandleRequest(s) /\ KeyOf(Head(q)) \in targets[s]
    <2>1. /\ q # <<>> /\ requests' = [requests EXCEPT ![s] = Tail(@)]
          /\ UNCHANGED <<replies, targets, userids, outstanding, lost>>
      BY <1>3 DEF HandleRequest, TakeRequest
    <2>2. Good(Tail(q), delayed[s], r, outstanding[s], lost[s], targets[s], userids[s])
      BY <1>1, <2>1, RequestRefused DEF Targeted
    <2>3. Targeted(s)'
      BY <1>1, <1>2, <2>1, <2>2 DEF Targeted
    <2> QED
      BY <1>1, <1>2, <2>1, <2>3, OneShard DEF TInv
  <1>4. CASE HandleRequest(s) /\ KeyOf(Head(q)) \notin targets[s]
    <2> DEFINE more == WithProbe(userids[s], Head(q))
    <2>1. /\ q # <<>> /\ requests' = [requests EXCEPT ![s] = Tail(@)]
          /\ outstanding' = [outstanding EXCEPT ![s] = @ \cup {Head(q)}]
          /\ targets' = [targets EXCEPT ![s] = @ \cup {KeyOf(Head(q))}]
          /\ userids' = [userids EXCEPT ![s] = more]
          /\ UNCHANGED <<replies, lost>>
      BY <1>4 DEF HandleRequest, TakeRequest, WithProbe
    <2>2. Good(Tail(q), delayed[s], r, outstanding[s] \cup {Head(q)}, lost[s],
               targets[s] \cup {KeyOf(Head(q))}, more)
      BY <1>1, <1>4, <2>1, RequestAccepted DEF Targeted
    <2> HIDE DEF more
    <2>3. Targeted(s)'
      BY <1>1, <1>2, <2>1, <2>2 DEF Targeted
    <2> QED
      BY <1>1, <1>2, <2>1, <2>3, OneShard DEF TInv
  <1>5. CASE HandleReply(s)
    <2> DEFINE less == WithoutId(userids[s], Head(r).uid)
               freed == Freed(userids[s], Head(r).uid)
    <2>1. /\ r # <<>> /\ replies' = [replies EXCEPT ![s] = Tail(@)]
          /\ targets' = [targets EXCEPT ![s] = @ \ freed]
          /\ userids' = [userids EXCEPT ![s] = less]
          /\ UNCHANGED <<requests, outstanding, lost>>
      BY <1>5 DEF HandleReply, TakeReply, WithoutId, Freed
    <2>2. Good(q, delayed[s], Tail(r), outstanding[s], lost[s],
               targets[s] \ freed, less)
      BY <1>1, <2>1, ReplyTaken DEF Targeted
    <2> HIDE DEF less, freed
    <2>3. Targeted(s)'
      BY <1>1, <1>2, <2>1, <2>2 DEF Targeted
    <2> QED
      BY <1>1, <1>2, <2>1, <2>3, OneShard DEF TInv
  <1>6. ASSUME NEW req \in outstanding[s], Answer(s, req) PROVE (\A x \in Shards : Targeted(x))'
    <2>1. /\ outstanding' = [outstanding EXCEPT ![s] = @ \ {req}]
          /\ replies' = [replies EXCEPT ![s] = Append(@, req)]
          /\ UNCHANGED <<targets, userids, lost, requests>>
      BY <1>6 DEF Answer
    <2>2. Good(q, delayed[s], Append(r, req), outstanding[s] \ {req}, lost[s],
               targets[s], userids[s])
      BY <1>1, ProbeAnswered DEF Targeted
    <2>3. Targeted(s)'
      BY <1>1, <1>2, <2>1, <2>2 DEF Targeted
    <2> QED
      BY <1>1, <1>2, <2>1, <2>3, OneShard DEF TInv
  <1>7. ASSUME NEW req \in outstanding[s], Lose(s, req) PROVE (\A x \in Shards : Targeted(x))'
    <2>1. /\ outstanding' = [outstanding EXCEPT ![s] = @ \ {req}]
          /\ lost' = [lost EXCEPT ![s] = @ \cup {req}]
          /\ UNCHANGED <<targets, userids, requests, replies>>
      BY <1>7 DEF Lose
    <2>2. Good(q, delayed[s], r, outstanding[s] \ {req}, lost[s] \cup {req},
               targets[s], userids[s])
      BY <1>1, ProbeAnswered DEF Targeted
    <2>3. Targeted(s)'
      BY <1>1, <1>2, <2>1, <2>2 DEF Targeted
    <2> QED
      BY <1>1, <1>2, <2>1, <2>3, OneShard DEF TInv
  <1> QED
    BY <1>3, <1>4, <1>5, <1>6, <1>7 DEF ManagerStep, ScamperStep

-----------------------------------------------------------------------------
(* Theorems. *)

LEMMA InitTargeted == Init => TInv
  <1> SUFFICES ASSUME Init, NEW s \in Shards PROVE Targeted(s)
    BY InitTypes DEF TInv
  <1>1. /\ requests[s] = <<>> /\ delayed[s] = <<>> /\ replies[s] = <<>>
        /\ outstanding[s] = {} /\ lost[s] = {} /\ targets[s] = {}
        /\ userids[s] = NoKeys
    BY DEF Init, ChannelInit, ShardInit, ManagerInit
  <1>2. Elems(<<>>) = {} /\ Once(<<>>)
    BY DEF Elems, Once
  <1>3. Blocks({}, NoKeys, {})
    BY DEF Blocks, NoKeys
  <1>4. Apart({}, {}, {}, {}, {}) /\ Identified({})
    BY DEF Apart, Identified
  <1> QED
    BY <1>1, <1>2, <1>3, <1>4 DEF Targeted, Good

LEMMA NextKeepsTargets == TInv /\ [Next]_vars /\ [FreshStep]_vars => TInv'
  <1> SUFFICES ASSUME TInv, [Next]_vars, [FreshStep]_vars PROVE TInv'
    OBVIOUS
  <1>1. IInv'
    BY NextKeeps DEF TInv
  <1>2. CASE UNCHANGED vars
    <2>1. UNCHANGED <<requests, delayed, replies, managerVars>>
      BY <1>2 DEF vars, channels, shardVars
    <2> QED
      BY <1>1, <2>1, TargetsUntouched DEF TInv
  <1>3. CASE Next /\ FreshStep
    <2>1. CASE Ingest
      <3>1. UNCHANGED <<requests, delayed, replies, managerVars>>
        BY <2>1 DEF Ingest, AddPacket, StopProcessing, shardVars
      <3> QED
        BY <1>1, <3>1, TargetsUntouched DEF TInv
    <2> QED
      BY <1>1, <1>3, <2>1, ShardKeepsTargets, ManagersKeepTargets DEF Next, TInv
  <1> QED
    BY <1>2, <1>3

LEMMA TargetInvariance == Spec /\ IdsFresh => []TInv
  BY InitTargeted, NextKeepsTargets, FreshIs, PTL DEF Spec

(* While user ids are fresh, a target is blocked exactly as long as the     *)
(* manager waits for a probe of it, and the reply finds it under its id.    *)
THEOREM TargetsAreBlockedByProbes == Spec /\ IdsFresh => []BlockedByItsProbe
  <1>1. TInv => BlockedByItsProbe
    <2> SUFFICES ASSUME TInv, NEW s \in Shards
                 PROVE  /\ targets[s] = {KeyOf(p) : p \in Awaited(s)}
                        /\ DOMAIN userids[s] = {p.uid : p \in Awaited(s)}
                        /\ \A p \in Awaited(s) : userids[s][p.uid] = KeyOf(p)
      BY DEF BlockedByItsProbe
    <2>1. Awaited(s) = outstanding[s] \cup Elems(replies[s]) \cup lost[s]
      BY DEF Awaited, Elems
    <2> QED
      BY <2>1 DEF TInv, Targeted, Good, Blocks
  <1> QED
    BY <1>1, TargetInvariance, PTL
-----------------------------------------------------------------------------
(* Routing: everything a shard and its manager have comes from sources that *)
(* are routed to that shard.                                                *)

Local(s) == {a \in Arrivals : Route(a) = s}
Mine(s) == {req \in Requests : LastByte[req.daddr] % NumShards = s}
Mail(s) == [type : {"packets", "event"}, content : Seq(Local(s))]

PacketsHome ==
  \A s \in Shards :
    /\ \A t \in Threads : bucket[t][s] \in Seq(Local(s))
    /\ shardBox[s] \in Seq(Mail(s))
    /\ current[s] \in Seq(Local(s))
RequestsHome ==
  \A s \in Shards :
    /\ requests[s] \in Seq(Mine(s)) /\ delayed[s] \in Seq(Mine(s))
    /\ replies[s] \in Seq(Mine(s))
    /\ outstanding[s] \subseteq Mine(s) /\ lost[s] \subseteq Mine(s)

HInv == IInv /\ PacketsHome /\ RequestsHome

LEMMA InitHome == Init => HInv
  <1> SUFFICES ASSUME Init PROVE HInv
    OBVIOUS
  <1>1. PacketsHome
    BY DEF Init, ChannelInit, IngestInit, ShardInit, PacketsHome
  <1>2. RequestsHome
    BY DEF Init, ChannelInit, ShardInit, ManagerInit, RequestsHome
  <1> QED
    BY <1>1, <1>2, InitTypes DEF HInv

LEMMA NoPackets == \A s \in Shards : <<>> \in Seq(Local(s))
  OBVIOUS

LEMMA IngestHome == HInv /\ Ingest => PacketsHome' /\ RequestsHome'
  <1> SUFFICES ASSUME HInv, Ingest PROVE PacketsHome' /\ RequestsHome'
    OBVIOUS
  <1>1. /\ UNCHANGED <<requests, delayed, replies, outstanding, lost, current>>
    BY DEF Ingest, AddPacket, StopProcessing, shardVars, managerVars
  <1>2. RequestsHome'
    BY <1>1 DEF HInv, RequestsHome
  <1>3. /\ bucket \in [Threads -> [Shards -> Seq(Arrivals)]]
        /\ shardBox \in [Shards -> Seq(Messages)] /\ PacketsHome
    BY DEF HInv, IInv, Types, ChannelTypes, IngestTypes
  <1>4. ASSUME NEW t \in Threads, AddPacket(t) PROVE PacketsHome'
    <2>1. PICK pkt \in Packets :
            LET a == [n |-> arrived + 1, pkt |-> pkt]
                s == Route(a)
                full == Append(bucket[t][s], a)
            IN IF Len(full) >= BatchSize
               THEN /\ shardBox' = [shardBox EXCEPT
                         ![s] = Append(@, [type |-> "packets", content |-> full])]
                    /\ bucket' = [bucket EXCEPT ![t][s] = <<>>]
               ELSE /\ bucket' = [bucket EXCEPT ![t][s] = full]
                    /\ UNCHANGED shardBox
      BY <1>4 DEF AddPacket
    <2> DEFINE a == [n |-> arrived + 1, pkt |-> pkt]
               s == Route(a)
               full == Append(bucket[t][s], a)
               box == Append(shardBox[s], [type |-> "packets", content |-> full])
    <2>2. a \in Arrivals
      BY <1>4, TelescopeAssumption
         DEF HInv, IInv, Types, ChannelTypes, AddPacket, Arrivals
    <2>3. s \in Shards /\ a \in Local(s)
      BY <2>2, RouteToShard DEF Local
    <2> HIDE DEF a, s
    <2>4. full \in Seq(Local(s))
      BY <1>3, <2>3, Appended DEF PacketsHome
    <2>5. [type |-> "packets", content |-> full] \in Mail(s)
      BY <2>4 DEF Mail
    <2>6. box \in Seq(Mail(s))
      BY <1>3, <2>3, <2>5, Appended DEF PacketsHome
    <2>7. shardBox' = [shardBox EXCEPT ![s] = box] \/ shardBox' = shardBox
      BY <2>1 DEF a, s
    <2>8. bucket' = [bucket EXCEPT ![t][s] = <<>>] \/ bucket' = [bucket EXCEPT ![t][s] = full]
      BY <2>1 DEF a, s
    <2> HIDE DEF full, box
    <2>9. \A x \in Shards : shardBox'[x] \in Seq(Mail(x))
      BY <1>3, <2>3, <2>6, <2>7 DEF PacketsHome
    <2>10. \A x \in Shards, y \in Threads :
             \/ bucket'[y][x] = bucket[y][x] \/ bucket'[y][x] = <<>>
             \/ x = s /\ bucket'[y][x] = full
      BY ZenonT(30), <1>3, <2>3, <2>8
    <2>11. \A x \in Shards, y \in Threads : bucket'[y][x] \in Seq(Local(x))
      BY <1>3, <2>4, <2>10, NoPackets DEF PacketsHome
    <2> QED
      BY <1>1, <1>3, <2>9, <2>11 DEF PacketsHome
  <1>5. ASSUME NEW t \in Threads, StopProcessing(t) PROVE PacketsHome'
    <2>1. ASSUME NEW s \in Shards PROVE shardBox'[s] \in Seq(Mail(s))
      <3>1. [type |-> "event", content |-> bucket[t][s]] \in Mail(s)
        BY <1>3 DEF PacketsHome, Mail
      <3>2. Append(shardBox[s], [type |-> "event", content |-> bucket[t][s]])
              \in Seq(Mail(s))
        BY <1>3, <3>1, Appended DEF PacketsHome
      <3> QED
        BY <1>3, <1>5, <3>2 DEF StopProcessing, PacketsHome
    <2>2. \A s \in Shards, y \in Threads :
            bucket'[y][s] = bucket[y][s] \/ bucket'[y][s] = <<>>
      BY <1>3, <1>5 DEF StopProcessing
    <2>3. \A s \in Shards, y \in Threads : bucket'[y][s] \in Seq(Local(s))
      BY <1>3, <2>2, NoPackets DEF PacketsHome
    <2> QED
      BY <1>1, <1>3, <2>1, <2>3 DEF PacketsHome
  <1> QED
    BY <1>2, <1>4, <1>5 DEF Ingest

(* A request goes to the source of the packet it answers. *)
LEMMA RequestHome ==
  ASSUME HInv, NEW s \in Shards, NEW proto, Handle(s, proto),
         NEW method \in {"synack", "rst"}
  PROVE  Request(s, method) \in Mine(s)
  <1>1. current[s] # <<>> /\ current[s] \in Seq(Local(s))
    BY DEF Handle, HInv, PacketsHome
  <1>2. Head(current[s]) \in Local(s)
    BY <1>1, HeadAndTail
  <1>3. Request(s, method) \in Requests
    BY RequestTyped DEF HInv, IInv
  <1>4. Request(s, method).daddr = Head(current[s]).pkt.saddr
    BY DEF Request
  <1> QED
    BY <1>2, <1>3, <1>4 DEF Local, Mine, Route

LEMMA ShardHome ==
  ASSUME HInv, NEW s \in Shards, ShardStep(s)
  PROVE  PacketsHome' /\ RequestsHome'
  <1> USE DEF Types, ChannelTypes, ShardTypes
  <1>1. /\ UNCHANGED <<bucket, outstanding, lost>>
        /\ Types /\ PacketsHome /\ RequestsHome
    BY DEF HInv, IInv, ShardStep, ingestVars, managerVars
  <1>2. CASE TakePackets(s) \/ DropUnexpected(s)
    <2>1. /\ shardBox[s] # <<>> /\ shardBox' = [shardBox EXCEPT ![s] = Tail(@)]
          /\ UNCHANGED <<requests, delayed, replies>>
          /\ \/ current' = [current EXCEPT ![s] = Head(shardBox[s]).content]
             \/ current' = current
      BY <1>2 DEF TakePackets, DropUnexpected
    <2>2. Head(shardBox[s]) \in Mail(s) /\ Tail(shardBox[s]) \in Seq(Mail(s))
      BY <1>1, <2>1, HeadAndTail DEF PacketsHome
    <2>3. Head(shardBox[s]).content \in Seq(Local(s))
      BY <2>2 DEF Mail
    <2>4. PacketsHome'
      BY <1>1, <2>1, <2>2, <2>3 DEF PacketsHome
    <2> QED
      BY <1>1, <2>1, <2>4 DEF RequestsHome
  <1>3. ASSUME NEW proto, Handle(s, proto) PROVE PacketsHome' /\ UNCHANGED replies
    <2>1. /\ current[s] # <<>> /\ current' = [current EXCEPT ![s] = Tail(@)]
          /\ UNCHANGED <<shardBox, replies>>
      BY <1>3 DEF Handle
    <2>2. Tail(current[s]) \in Seq(Local(s))
      BY <1>1, <2>1, HeadAndTail DEF PacketsHome
    <2> QED
      BY <1>1, <2>1, <2>2 DEF PacketsHome
  <1>4. CASE \/ IgnoreDisabled(s) \/ SkipAck(s) \/ LogOnly(s)
             \/ HandleUdp(s) \/ HandleIcmp(s)
    <2>1. UNCHANGED <<requests, delayed>> /\ \E proto : Handle(s, proto)
      BY <1>4 DEF IgnoreDisabled, SkipAck, LogOnly, HandleUdp, HandleIcmp
    <2> QED
      BY <1>1, <1>3, <2>1 DEF RequestsHome
  <1>5. CASE AnswerSyn(s)
    <2>1. /\ Handle(s, "tcp") /\ UNCHANGED delayed
          /\ requests' = [requests EXCEPT ![s] = Append(@, Request(s, "synack"))]
      BY <1>5 DEF AnswerSyn
    <2>2. Append(requests[s], Request(s, "synack")) \in Seq(Mine(s))
      BY <1>1, <2>1, RequestHome, Appended DEF RequestsHome
    <2> QED
      BY <1>1, <1>3, <2>1, <2>2 DEF RequestsHome
  <1>6. CASE ScheduleReset(s)
    <2>1. /\ Handle(s, "tcp") /\ UNCHANGED requests
          /\ delayed' = [delayed EXCEPT ![s] = Append(@, Request(s, "rst"))]
      BY <1>6 DEF ScheduleReset
    <2>2. Append(delayed[s], Request(s, "rst")) \in Seq(Mine(s))
      BY <1>1, <2>1, RequestHome, Appended DEF RequestsHome
    <2> QED
      BY <1>1, <1>3, <2>1, <2>2 DEF RequestsHome
  <1>7. CASE ReleaseReset(s)
    <2>1. /\ delayed[s] # <<>>
          /\ delayed' = [delayed EXCEPT ![s] = Tail(@)]
          /\ requests' = [requests EXCEPT ![s] = Append(@, Head(delayed[s]))]
          /\ UNCHANGED <<current, shardBox, replies>>
      BY <1>7 DEF ReleaseReset, Release
    <2>2. Head(delayed[s]) \in Mine(s) /\ Tail(delayed[s]) \in Seq(Mine(s))
      BY <1>1, <2>1, HeadAndTail DEF RequestsHome
    <2>3. Append(requests[s], Head(delayed[s])) \in Seq(Mine(s))
      BY <1>1, <2>2, Appended DEF RequestsHome
    <2> QED
      BY <1>1, <2>1, <2>2, <2>3 DEF RequestsHome, PacketsHome
  <1> QED
    BY <1>2, <1>4, <1>5, <1>6, <1>7 DEF ShardStep, HandlePackets

LEMMA ManagersHome ==
  ASSUME HInv, NEW s \in Shards, ManagerStep(s) \/ ScamperStep(s)
  PROVE  PacketsHome' /\ RequestsHome'
  <1>1. /\ requests \in [Shards -> Seq(Requests)]
        /\ replies \in [Shards -> Seq(Requests)]
        /\ outstanding \in [Shards -> SUBSET Requests]
        /\ lost \in [Shards -> SUBSET Requests]
        /\ PacketsHome /\ RequestsHome
    BY DEF HInv, IInv, Types, ChannelTypes, ManagerTypes
  <1>2. UNCHANGED <<bucket, shardBox, current, delayed>>
    BY DEF ManagerStep, ScamperStep, HandleRequest, TakeRequest, HandleReply,
           TakeReply, Answer, Lose, ingestVars, shardVars
  <1>3. PacketsHome'
    BY <1>1, <1>2 DEF PacketsHome
  <1>4. CASE HandleRequest(s)
    <2>1. /\ requests[s] # <<>> /\ requests' = [requests EXCEPT ![s] = Tail(@)]
          /\ \/ outstanding' = outstanding
             \/ outstanding' = [outstanding EXCEPT ![s] = @ \cup {Head(requests[s])}]
          /\ UNCHANGED <<replies, lost>>
      BY <1>4 DEF HandleRequest, TakeRequest
    <2>2. Head(requests[s]) \in Mine(s) /\ Tail(requests[s]) \in Seq(Mine(s))
      BY <1>1, <2>1, HeadAndTail DEF RequestsHome
    <2> QED
      BY <1>1, <1>2, <1>3, <2>1, <2>2 DEF RequestsHome
  <1>5. CASE HandleReply(s)
    <2>1. /\ replies[s] # <<>> /\ replies' = [replies EXCEPT ![s] = Tail(@)]
          /\ UNCHANGED <<requests, outstanding, lost>>
      BY <1>5 DEF HandleReply, TakeReply
    <2>2. Tail(replies[s]) \in Seq(Mine(s))
      BY <1>1, <2>1, HeadAndTail DEF RequestsHome
    <2> QED
      BY <1>1, <1>2, <1>3, <2>1, <2>2 DEF RequestsHome
  <1>6. ASSUME NEW req \in outstanding[s], Answer(s, req) \/ Lose(s, req)
        PROVE  RequestsHome'
    <2>1. req \in Mine(s)
      BY <1>1 DEF RequestsHome
    <2>2. Append(replies[s], req) \in Seq(Mine(s))
      BY <1>1, <2>1, Appended DEF RequestsHome
    <2>3. CASE Answer(s, req)
      BY <1>1, <1>2, <2>2, <2>3 DEF Answer, RequestsHome
    <2>4. CASE Lose(s, req)
      BY <1>1, <1>2, <2>1, <2>4 DEF Lose, RequestsHome
    <2> QED
      BY <1>6, <2>3, <2>4
  <1> QED
    BY <1>3, <1>4, <1>5, <1>6 DEF ManagerStep, ScamperStep

LEMMA NextHome == HInv /\ [Next]_vars => HInv'
  <1> SUFFICES ASSUME HInv, [Next]_vars PROVE HInv'
    OBVIOUS
  <1>1. IInv'
    BY NextKeeps DEF HInv
  <1>2. CASE UNCHANGED vars
    <2>1. PacketsHome' /\ RequestsHome'
      BY <1>2 DEF HInv, PacketsHome, RequestsHome, vars, channels, ingestVars,
                  shardVars, managerVars
    <2> QED
      BY <1>1, <2>1 DEF HInv
  <1>3. CASE Next
    BY <1>1, <1>3, IngestHome, ShardHome, ManagersHome DEF Next, HInv
  <1> QED
    BY <1>2, <1>3

LEMMA HomeInvariance == Spec => []HInv
  BY InitHome, NextHome, PTL DEF Spec

LEMMA AwaitedAreMine ==
  ASSUME HInv, NEW s \in Shards
  PROVE  Awaited(s) \subseteq Mine(s)
  <1>1. /\ outstanding[s] \subseteq Mine(s) /\ lost[s] \subseteq Mine(s)
        /\ replies[s] \in Seq(Mine(s))
    BY DEF HInv, RequestsHome
  <1>2. {replies[s][i] : i \in DOMAIN replies[s]} \subseteq Mine(s)
    BY <1>1, ElementOfSeq, LenProperties
  <1> QED
    BY <1>1, <1>2 DEF Awaited

(* While user ids are fresh, no two probes of one target are awaited,       *)
(* whichever shards and managers they came through.                         *)
THEOREM TargetsAreProbedOnce == Spec /\ IdsFresh => []OneProbePerTarget
  <1>1. TInv /\ HInv => OneProbePerTarget
    <2> SUFFICES ASSUME TInv, HInv, NEW s1 \in Shards, NEW s2 \in Shards,
                        NEW p \in Awaited(s1), NEW q \in Awaited(s2),
                        KeyOf(p) = KeyOf(q)
                 PROVE  s1 = s2 /\ p = q
      BY DEF OneProbePerTarget
    <2>1. p \in Mine(s1) /\ q \in Mine(s2)
      BY AwaitedAreMine
    <2>2. p.daddr = q.daddr
      BY DEF KeyOf
    <2>3. s1 = s2
      BY <2>1, <2>2 DEF Mine
    <2>4. Awaited(s1) = outstanding[s1] \cup Elems(replies[s1]) \cup lost[s1]
      BY DEF Awaited, Elems
    <2> QED
      BY <2>3, <2>4 DEF TInv, Targeted, Good, Blocks
  <1> QED
    BY <1>1, TargetInvariance, HomeInvariance, PTL

-----------------------------------------------------------------------------
(* User ids.                                                               *)

(* The condition: no more packets than tags, and no two shards whose actor  *)
(* ids have the same lower 8 bit.                                           *)
IdsSuffice ==
  /\ MaxPackets <= MaxTag + 1
  /\ \A s1, s2 \in Shards : ShardId[s1] = ShardId[s2] => s1 = s2

(* The numbers of packets, each there once.                                 *)
Nums(seq) == {seq[i].n : i \in DOMAIN seq}
Alone(seq) == \A i, j \in DOMAIN seq : seq[i].n = seq[j].n => i = j

(* The packets on their way to a shard: b[t] in the bucket of thread t, box *)
(* in its mailbox, cur in the vector it handles.  Of the numbers up to max, *)
(* each is in one place, unless its packet has got an id already (used).    *)
BucketsAlone(b) ==
  /\ \A t \in Threads : Alone(b[t])
  /\ \A t1, t2 \in Threads : t1 # t2 => Nums(b[t1]) \cap Nums(b[t2]) = {}
BoxAlone(box) ==
  /\ \A i \in DOMAIN box : Alone(box[i].content)
  /\ \A i, j \in DOMAIN box : i # j => Nums(box[i].content) \cap Nums(box[j].content) = {}
PlacesApart(b, box, cur) ==
  /\ \A t \in Threads, i \in DOMAIN box : Nums(b[t]) \cap Nums(box[i].content) = {}
  /\ \A t \in Threads : Nums(b[t]) \cap Nums(cur) = {}
  /\ \A i \in DOMAIN box : Nums(box[i].content) \cap Nums(cur) = {}
AllIn(b, box, cur, all) ==
  /\ \A t \in Threads : Nums(b[t]) \subseteq all
  /\ \A i \in DOMAIN box : Nums(box[i].content) \subseteq all
  /\ Nums(cur) \subseteq all
Flying(b, box, cur, used, max) ==
  /\ BucketsAlone(b) /\ BoxAlone(box) /\ Alone(cur)
  /\ PlacesApart(b, box, cur)
  /\ AllIn(b, box, cur, 1..max \ used)
  /\ used \subseteq 1..max

(* The rows with ids of a shard, and the packets they are about.            *)
RowsOf(s) == {row \in rawLog : row.uid[1] = ShardId[s]}
Used(s) == {row.n : row \in RowsOf(s)}
PacketsOnce(s) ==
  Flying([t \in Threads |-> bucket[t][s]], shardBox[s], current[s], Used(s), arrived)

(* A shard has used up a tag for each of its rows, in order.                *)
TagsUsed(used) == {k % (MaxTag + 1) : k \in 1..Cardinality(used)}
TagsInOrder(s) ==
  /\ tagCnt[s] = Cardinality(Used(s)) % (MaxTag + 1)
  /\ \A row \in RowsOf(s) : row.uid[2] \in TagsUsed(Used(s))

(* Ids are unique in the log, and a request has a row there.                *)
RowsUnique == \A r1, r2 \in rawLog : r1.uid = r2.uid /\ r1.uid[1] # 0 => r1 = r2
RowFor(p) == [n |-> p.n, uid |-> p.uid, method |-> p.method, probed |-> TRUE]
Logged(s) == \A p \in UnderWay(s) : RowFor(p) \in RowsOf(s)

UInv ==
  /\ IInv /\ IdsSuffice /\ RowsUnique
  /\ \A s \in Shards : PacketsOnce(s) /\ TagsInOrder(s) /\ Logged(s)

LEMMA NumsAdded ==
  ASSUME NEW seq \in Seq(Arrivals), NEW a \in Arrivals
  PROVE  /\ Nums(Append(seq, a)) = Nums(seq) \cup {a.n}
         /\ Alone(seq) /\ a.n \notin Nums(seq) => Alone(Append(seq, a))
  <1> DEFINE more == Append(seq, a)
             n == Len(seq)
  <1>1. /\ n \in Nat /\ DOMAIN seq = 1..n /\ DOMAIN more = 1..(n + 1)
        /\ more[n + 1] = a
        /\ \A i \in 1..n : more[i] = seq[i]
    BY AppendProperties, LenProperties
  <1>2. 1..(n + 1) = 1..n \cup {n + 1}
    BY <1>1
  <1> HIDE DEF more, n
  <1>3. Nums(more) = Nums(seq) \cup {a.n}
    BY <1>1, <1>2 DEF Nums
  <1>4. ASSUME Alone(seq), a.n \notin Nums(seq) PROVE Alone(more)
    <2> SUFFICES ASSUME NEW i \in 1..(n + 1), NEW j \in 1..(n + 1),
                        more[i].n = more[j].n
                 PROVE  i = j
      BY <1>1 DEF Alone
    <2>1. CASE i \in 1..n /\ j \in 1..n
      BY <1>1, <1>4, <2>1 DEF Alone
    <2>2. CASE i = n + 1 /\ j \in 1..n
      BY <1>1, <1>4, <2>2 DEF Nums
    <2>3. CASE i \in 1..n /\ j = n + 1
      BY <1>1, <1>4, <2>3 DEF Nums
    <2> QED
      BY <1>2, <2>1, <2>2, <2>3
  <1> QED
    BY <1>3, <1>4 DEF more

LEMMA NumsTaken ==
  ASSUME NEW seq \in Seq(Arrivals), seq # <<>>, Alone(seq)
  PROVE  /\ Head(seq).n \in Nums(seq)
         /\ Nums(Tail(seq)) \subseteq Nums(seq) \ {Head(seq).n}
         /\ Alone(Tail(seq))
  <1> DEFINE rest == Tail(seq)
             n == Len(seq)
  <1>1. /\ n \in Nat \ {0} /\ DOMAIN seq = 1..n /\ DOMAIN rest = 1..(n - 1)
        /\ Head(seq) = seq[1]
        /\ \A i \in 1..(n - 1) : rest[i] = seq[i + 1]
    BY HeadTailProperties, EmptySeq, LenProperties
  <1> HIDE DEF rest, n
  <1>2. \A i \in 1..(n - 1) : i + 1 \in 1..n /\ 1 \in 1..n /\ i + 1 # 1
    BY <1>1
  <1>3. Alone(rest)
    <2> SUFFICES ASSUME NEW i \in 1..(n - 1), NEW j \in 1..(n - 1),
                        rest[i].n = rest[j].n
                 PROVE  i = j
      BY <1>1 DEF Alone
    <2>1. seq[i + 1].n = seq[j + 1].n /\ i + 1 \in 1..n /\ j + 1 \in 1..n
      BY <1>1, <1>2
    <2>2. i + 1 = j + 1
      BY <1>1, <2>1 DEF Alone
    <2> QED
      BY <2>2
  <1>4. \A i \in 1..(n - 1) : rest[i].n \in Nums(seq) \ {seq[1].n}
    BY <1>1, <1>2 DEF Nums, Alone
  <1>5. Nums(rest) \subseteq Nums(seq) \ {seq[1].n}
    BY <1>1, <1>4 DEF Nums
  <1>6. Head(seq).n \in Nums(seq)
    BY <1>1 DEF Nums
  <1> QED
    BY <1>1, <1>3, <1>5, <1>6 DEF rest

-----------------------------------------------------------------------------
(* Packets on their way, step by step. *)

(* A packet with a new number comes into a bucket; to the other shards only *)
(* the number is new.                                                       *)
LEMMA PacketArrives ==
  ASSUME NEW b \in [Threads -> Seq(Arrivals)], NEW box, NEW cur, NEW used,
         NEW max \in Nat, Flying(b, box, cur, used, max),
         NEW t \in Threads, NEW a \in Arrivals, a.n = max + 1
  PROVE  /\ Flying([b EXCEPT ![t] = Append(@, a)], box, cur, used, max + 1)
         /\ Flying(b, box, cur, used, max + 1)
  <1> DEFINE old == 1..max \ used
             new == 1..(max + 1) \ used
             c == [b EXCEPT ![t] = Append(@, a)]
  <1>1. /\ used \subseteq 1..(max + 1) /\ old \subseteq new
        /\ a.n \in new /\ a.n \notin old
    BY DEF Flying
  <1>2. /\ AllIn(b, box, cur, old) /\ BucketsAlone(b) /\ BoxAlone(box)
        /\ Alone(cur) /\ PlacesApart(b, box, cur)
    BY DEF Flying
  <1> HIDE DEF old, new
  <1>3. AllIn(b, box, cur, new)
    BY <1>1, <1>2 DEF AllIn
  <1>4. Nums(Append(b[t], a)) = Nums(b[t]) \cup {a.n} /\ Alone(Append(b[t], a))
    BY <1>1, <1>2, NumsAdded DEF AllIn, BucketsAlone
  <1>5. /\ Nums(c[t]) = Nums(b[t]) \cup {a.n} /\ Alone(c[t])
        /\ \A x \in Threads : x # t => c[x] = b[x]
    BY <1>4
  <1> HIDE DEF c
  <1>6. BucketsAlone(c)
    BY <1>1, <1>2, <1>5 DEF BucketsAlone, AllIn
  <1>7. PlacesApart(c, box, cur)
    BY ZenonT(30), <1>1, <1>2, <1>5 DEF PlacesApart, AllIn
  <1>8. AllIn(c, box, cur, new)
    BY <1>1, <1>3, <1>5 DEF AllIn
  <1> QED
    BY <1>1, <1>2, <1>3, <1>6, <1>7, <1>8 DEF Flying, c, new

(* A bucket is sent.                                                        *)
LEMMA BucketSent ==
  ASSUME NEW b \in [Threads -> Seq(Arrivals)], NEW box \in Seq(Messages),
         NEW cur, NEW used, NEW max, Flying(b, box, cur, used, max),
         NEW t \in Threads, NEW message \in Messages, message.content = b[t]
  PROVE  Flying([b EXCEPT ![t] = <<>>], Append(box, message), cur, used, max)
  <1> DEFINE old == 1..max \ used
             c == [b EXCEPT ![t] = <<>>]
             more == Append(box, message)
             n == Len(box)
  <1>1. /\ n \in Nat /\ DOMAIN box = 1..n /\ DOMAIN more = 1..(n + 1)
        /\ more[n + 1] = message
        /\ \A i \in 1..n : more[i] = box[i]
    BY AppendProperties, LenProperties
  <1>2. 1..(n + 1) = 1..n \cup {n + 1} /\ n + 1 \notin 1..n
    BY <1>1
  <1>3. /\ AllIn(b, box, cur, old) /\ BucketsAlone(b) /\ BoxAlone(box)
        /\ Alone(cur) /\ PlacesApart(b, box, cur)
    BY DEF Flying
  <1>4. Nums(<<>>) = {} /\ Alone(<<>>)
    BY DEF Nums, Alone
  <1>5. Nums(c[t]) = {} /\ Alone(c[t]) /\ \A x \in Threads : x # t => c[x] = b[x]
    BY <1>4
  <1> HIDE DEF old, c, more, n
  <1>6. BucketsAlone(c)
    BY <1>3, <1>5 DEF BucketsAlone
  <1>7. BoxAlone(more)
    <2>1. \A i \in 1..(n + 1) : Alone(more[i].content)
      BY <1>1, <1>2, <1>3 DEF BoxAlone, BucketsAlone
    <2>2. \A i \in 1..n : Nums(more[i].content) \cap Nums(more[n + 1].content) = {}
      BY <1>1, <1>3 DEF PlacesApart
    <2>3. \A i, j \in 1..n :
            i # j => Nums(more[i].content) \cap Nums(more[j].content) = {}
      BY <1>1, <1>3 DEF BoxAlone
    <2>4. \A i, j \in 1..(n + 1) :
            i # j => Nums(more[i].content) \cap Nums(more[j].content) = {}
      BY <1>2, <2>2, <2>3
    <2> QED
      BY <1>1, <2>1, <2>4 DEF BoxAlone
  <1>8. PlacesApart(c, more, cur)
    <2>1. \A x \in Threads, i \in 1..(n + 1) : Nums(c[x]) \cap Nums(more[i].content) = {}
      <3> SUFFICES ASSUME NEW x \in Threads, x # t, NEW i \in 1..(n + 1)
                   PROVE  Nums(b[x]) \cap Nums(more[i].content) = {}
        BY <1>5
      <3>1. CASE i \in 1..n
        BY <1>1, <1>3, <3>1 DEF PlacesApart
      <3>2. CASE i = n + 1
        BY <1>1, <1>3, <3>2 DEF BucketsAlone
      <3> QED
        BY <1>2, <3>1, <3>2
    <2>2. \A x \in Threads : Nums(c[x]) \cap Nums(cur) = {}
      BY <1>3, <1>5 DEF PlacesApart
    <2>3. \A i \in 1..(n + 1) : Nums(more[i].content) \cap Nums(cur) = {}
      BY <1>1, <1>2, <1>3 DEF PlacesApart
    <2> QED
      BY <1>1, <2>1, <2>2, <2>3 DEF PlacesApart
  <1>9. AllIn(c, more, cur, old)
    <2>1. \A i \in 1..(n + 1) : Nums(more[i].content) \subseteq old
      BY <1>1, <1>2, <1>3 DEF AllIn
    <2>2. \A x \in Threads : Nums(c[x]) \subseteq old
      BY <1>3, <1>5 DEF AllIn
    <2> QED
      BY <1>1, <1>3, <2>1, <2>2 DEF AllIn
  <1> QED
    BY <1>3, <1>6, <1>7, <1>8, <1>9 DEF Flying, c, more, old

(* A shard takes a message from its mailbox, and handles it or drops it.    *)
LEMMA MessageTaken ==
  ASSUME NEW b, NEW box \in Seq(Messages), box # <<>>, NEW cur, NEW used, NEW max,
         Flying(b, box, cur, used, max)
  PROVE  /\ Flying(b, Tail(box), cur, used, max)
         /\ Flying(b, Tail(box), Head(box).content, used, max)
  <1> DEFINE old == 1..max \ used
             rest == Tail(box)
             n == Len(box)
  <1>1. /\ n \in Nat \ {0} /\ DOMAIN box = 1..n /\ DOMAIN rest = 1..(n - 1)
        /\ Head(box) = box[1]
        /\ \A i \in 1..(n - 1) : rest[i] = box[i + 1]
    BY HeadTailProperties, EmptySeq, LenProperties
  <1>2. \A i \in 1..(n - 1) : i + 1 \in 1..n /\ 1 \in 1..n /\ i + 1 # 1
    BY <1>1
  <1>3. /\ AllIn(b, box, cur, old) /\ BucketsAlone(b) /\ BoxAlone(box)
        /\ Alone(cur) /\ PlacesApart(b, box, cur)
    BY DEF Flying
  <1>4. 1 \in 1..n /\ Alone(box[1].content)
    BY <1>1, <1>3 DEF BoxAlone
  <1> HIDE DEF old, rest, n
  <1>5. BoxAlone(rest)
    <2>1. \A i \in 1..(n - 1) : Alone(rest[i].content)
      BY <1>1, <1>2, <1>3 DEF BoxAlone
    <2>2. ASSUME NEW i \in 1..(n - 1), NEW j \in 1..(n - 1), i # j
          PROVE  Nums(rest[i].content) \cap Nums(rest[j].content) = {}
      <3>1. i + 1 # j + 1
        BY <2>2
      <3> QED
        BY <1>1, <1>2, <1>3, <3>1 DEF BoxAlone
    <2> QED
      BY <1>1, <2>1, <2>2 DEF BoxAlone
  <1>6. PlacesApart(b, rest, cur)
    BY <1>1, <1>2, <1>3 DEF PlacesApart
  <1>7. PlacesApart(b, rest, box[1].content)
    <2>1. \A i \in 1..(n - 1) : Nums(rest[i].content) \cap Nums(box[1].content) = {}
      BY <1>1, <1>2, <1>3 DEF BoxAlone
    <2> QED
      BY <1>1, <1>2, <1>3, <1>4, <2>1 DEF PlacesApart
  <1>8. AllIn(b, rest, cur, old) /\ AllIn(b, rest, box[1].content, old)
    BY <1>1, <1>2, <1>3, <1>4 DEF AllIn
  <1> QED
    BY <1>1, <1>3, <1>4, <1>5, <1>6, <1>7, <1>8 DEF Flying, rest, old

(* A packet is handled, with an id or without one.                          *)
LEMMA PacketDone ==
  ASSUME NEW b, NEW box, NEW cur \in Seq(Arrivals), cur # <<>>, NEW used, NEW max,
         Flying(b, box, cur, used, max)
  PROVE  /\ Head(cur).n \in 1..max \ used
         /\ Flying(b, box, Tail(cur), used, max)
         /\ Flying(b, box, Tail(cur), used \cup {Head(cur).n}, max)
  <1> DEFINE old == 1..max \ used
             n == Head(cur).n
             rest == Tail(cur)
  <1>1. /\ AllIn(b, box, cur, old) /\ BucketsAlone(b) /\ BoxAlone(box)
        /\ Alone(cur) /\ PlacesApart(b, box, cur)
    BY DEF Flying
  <1>2. n \in Nums(cur) /\ Nums(rest) \subseteq Nums(cur) \ {n} /\ Alone(rest)
    BY <1>1, NumsTaken
  <1>3. n \in old
    BY <1>1, <1>2 DEF AllIn
  <1> HIDE DEF n, rest
  <1>4. PlacesApart(b, box, rest)
    BY <1>1, <1>2 DEF PlacesApart
  <1>5. AllIn(b, box, rest, old)
    BY <1>1, <1>2 DEF AllIn
  <1>6. AllIn(b, box, rest, old \ {n})
    BY <1>1, <1>2 DEF AllIn, PlacesApart
  <1>7. old \ {n} = 1..max \ (used \cup {n}) /\ used \cup {n} \subseteq 1..max
    BY <1>3 DEF Flying
  <1>8. used \subseteq 1..max
    BY DEF Flying
  <1> HIDE DEF old
  <1>9. Flying(b, box, rest, used \cup {n}, max)
    BY <1>1, <1>2, <1>4, <1>6, <1>7 DEF Flying
  <1>10. Flying(b, box, rest, used, max)
    BY <1>1, <1>2, <1>4, <1>5, <1>8 DEF Flying, old
  <1> QED
    BY <1>3, <1>9, <1>10 DEF n, rest, old


-----------------------------------------------------------------------------
(* The steps of the telescope and the packets on their way.                 *)

Buckets(s) == [t \in Threads |-> bucket[t][s]]

LEMMA IngestKeepsPackets == UInv /\ Ingest => \A s \in Shards : PacketsOnce(s)'
  <1> SUFFICES ASSUME UInv, Ingest, NEW s \in Shards PROVE PacketsOnce(s)'
    OBVIOUS
  <1>1. /\ bucket \in [Threads -> [Shards -> Seq(Arrivals)]]
        /\ shardBox \in [Shards -> Seq(Messages)]
        /\ arrived \in Nat /\ arrived \in 0..MaxPackets
        /\ PacketsOnce(s)
    BY TelescopeAssumption DEF UInv, IInv, Types, ChannelTypes, IngestTypes
  <1>2. UNCHANGED <<current, rawLog>> /\ Used(s)' = Used(s)
    BY DEF Ingest, shardVars, Used, RowsOf
  <1> DEFINE b == Buckets(s)
             used == Used(s)
  <1>3. b \in [Threads -> Seq(Arrivals)] /\ \A x \in Threads : b[x] = bucket[x][s]
    BY <1>1 DEF Buckets
  <1>4. Flying(b, shardBox[s], current[s], used, arrived)
    BY <1>1 DEF PacketsOnce, Buckets
  <1>5. ASSUME Flying(Buckets(s)', shardBox'[s], current[s], used, arrived')
        PROVE  PacketsOnce(s)'
    BY <1>2, <1>5 DEF PacketsOnce, Buckets
  <1>6. Buckets(s)' = [x \in Threads |-> bucket'[x][s]]
    BY DEF Buckets
  <1> HIDE DEF b, used
  <1>7. ASSUME NEW t \in Threads, AddPacket(t) PROVE PacketsOnce(s)'
    <2>1. PICK pkt \in Packets :
            LET a == [n |-> arrived + 1, pkt |-> pkt]
                r == Route(a)
                full == Append(bucket[t][r], a)
            IN IF Len(full) >= BatchSize
               THEN /\ shardBox' = [shardBox EXCEPT
                         ![r] = Append(@, [type |-> "packets", content |-> full])]
                    /\ bucket' = [bucket EXCEPT ![t][r] = <<>>]
               ELSE /\ bucket' = [bucket EXCEPT ![t][r] = full]
                    /\ UNCHANGED shardBox
      BY <1>7 DEF AddPacket
    <2> DEFINE a == [n |-> arrived + 1, pkt |-> pkt]
               r == Route(a)
               full == Append(bucket[t][r], a)
               message == [type |-> "packets", content |-> full]
               c == [b EXCEPT ![t] = Append(@, a)]
    <2>2. a \in Arrivals /\ a.n = arrived + 1 /\ arrived' = arrived + 1
      BY <1>1, <1>7, TelescopeAssumption DEF AddPacket, Arrivals
    <2>3. r \in Shards
      BY <2>2, RouteToShard
    <2>4. \/ /\ shardBox' = [shardBox EXCEPT ![r] = Append(@, message)]
             /\ bucket' = [bucket EXCEPT ![t][r] = <<>>]
          \/ bucket' = [bucket EXCEPT ![t][r] = full] /\ UNCHANGED shardBox
      BY <2>1
    <2> HIDE DEF a, r
    <2>5. full \in Seq(Arrivals)
      BY <1>1, <2>2, <2>3, Appended
    <2>6. message \in Messages /\ message.content = full
      BY <2>5 DEF Messages
    <2>7. Flying(c, shardBox[s], current[s], used, arrived')
          /\ Flying(b, shardBox[s], current[s], used, arrived')
      BY <1>1, <1>3, <1>4, <2>2, PacketArrives
    <2>8. c \in [Threads -> Seq(Arrivals)] /\ (r = s => c[t] = full)
      BY <1>3, <2>2, Appended
    <2>9. CASE r # s
      <3>1. Buckets(s)' = b /\ shardBox'[s] = shardBox[s]
        <4>1. \A x \in Threads : bucket'[x][s] = b[x]
          BY ZenonT(30), <1>1, <1>3, <2>3, <2>4, <2>9
        <4>2. shardBox'[s] = shardBox[s]
          BY <1>1, <2>3, <2>4, <2>9
        <4> QED
          BY <1>3, <1>6, <4>1, <4>2
      <3> QED
        BY <1>5, <2>7, <3>1
    <2>10. CASE r = s /\ bucket' = [bucket EXCEPT ![t][r] = full] /\ UNCHANGED shardBox
      <3>1. Buckets(s)' = c
        <4>1. \A x \in Threads : bucket'[x][s] = c[x]
          BY <1>1, <1>3, <2>8, <2>10
        <4> QED
          BY <1>3, <1>6, <4>1
      <3> QED
        BY <1>5, <2>7, <2>10, <3>1
    <2>11. CASE /\ r = s
                /\ shardBox' = [shardBox EXCEPT ![r] = Append(@, message)]
                /\ bucket' = [bucket EXCEPT ![t][r] = <<>>]
      <3>1. Flying([c EXCEPT ![t] = <<>>], Append(shardBox[s], message), current[s],
                   used, arrived')
        <4> HIDE DEF c, message
        <4> QED
          BY <1>1, <2>6, <2>7, <2>8, <2>11, BucketSent
      <3>2. Buckets(s)' = [c EXCEPT ![t] = <<>>]
        <4>1. \A x \in Threads : bucket'[x][s] = IF x = t THEN <<>> ELSE b[x]
          BY <1>1, <1>3, <2>11
        <4> QED
          BY <1>3, <1>6, <4>1
      <3>3. shardBox'[s] = Append(shardBox[s], message)
        BY <1>1, <2>11
      <3> QED
        BY <1>5, <3>1, <3>2, <3>3
    <2> QED
      BY <2>4, <2>9, <2>10, <2>11
  <1>8. ASSUME NEW t \in Threads, StopProcessing(t) PROVE PacketsOnce(s)'
    <2> DEFINE message == [type |-> "event", content |-> bucket[t][s]]
               c == [b EXCEPT ![t] = <<>>]
    <2>1. /\ shardBox'[s] = IF bucket[t][s] = <<>> THEN shardBox[s]
                            ELSE Append(shardBox[s], message)
          /\ bucket' = [bucket EXCEPT ![t] = [x \in Shards |-> <<>>]]
          /\ arrived' = arrived
      BY <1>8 DEF StopProcessing
    <2>2. Buckets(s)' = c
      <3>1. \A x \in Threads : bucket'[x][s] = IF x = t THEN <<>> ELSE b[x]
        BY <1>1, <1>3, <2>1
      <3> QED
        BY <1>3, <1>6, <3>1
    <2>3. message \in Messages /\ message.content = b[t]
      BY <1>1, <1>3 DEF Messages
    <2> HIDE DEF message
    <2>4. Flying(c, Append(shardBox[s], message), current[s], used, arrived)
      BY <1>1, <1>3, <1>4, <2>3, BucketSent
    <2>5. bucket[t][s] = <<>> => c = b
      BY <1>3
    <2> HIDE DEF c
    <2> QED
      BY <1>4, <1>5, <2>1, <2>2, <2>4, <2>5
  <1> QED
    BY <1>7, <1>8 DEF Ingest

(* What a shard does to the packets on their way, to itself and to others.  *)
LEMMA OthersKeepPackets ==
  ASSUME NEW s \in Shards, PacketsOnce(s), UNCHANGED <<bucket, arrived>>,
         shardBox'[s] = shardBox[s], current'[s] = current[s], Used(s)' = Used(s)
  PROVE  PacketsOnce(s)'
  BY DEF PacketsOnce

LEMMA TakenKeepsPackets ==
  ASSUME UInv, NEW s \in Shards, TakePackets(s) \/ DropUnexpected(s),
         UNCHANGED bucket, NEW x \in Shards
  PROVE  PacketsOnce(x)'
  <1>1. /\ shardBox \in [Shards -> Seq(Messages)] /\ current \in [Shards -> Seq(Arrivals)]
        /\ PacketsOnce(s) /\ PacketsOnce(x)
    BY DEF UInv, IInv, Types, ChannelTypes, ShardTypes
  <1>2. /\ shardBox[s] # <<>> /\ shardBox' = [shardBox EXCEPT ![s] = Tail(@)]
        /\ UNCHANGED <<rawLog, arrived>>
        /\ \/ current' = [current EXCEPT ![s] = Head(shardBox[s]).content]
           \/ current' = current
    BY DEF TakePackets, DropUnexpected
  <1>3. Used(s)' = Used(s) /\ Used(x)' = Used(x)
    BY <1>2 DEF Used, RowsOf
  <1>4. /\ Flying(Buckets(s), Tail(shardBox[s]), current[s], Used(s), arrived)
        /\ Flying(Buckets(s), Tail(shardBox[s]), Head(shardBox[s]).content, Used(s), arrived)
    BY <1>1, <1>2, MessageTaken DEF PacketsOnce, Buckets
  <1>5. CASE x = s
    BY <1>1, <1>2, <1>3, <1>4, <1>5 DEF PacketsOnce, Buckets
  <1>6. CASE x # s
    BY <1>1, <1>2, <1>3, <1>6, OthersKeepPackets
  <1> QED
    BY <1>5, <1>6

LEMMA HandledKeepsPackets ==
  ASSUME UInv, NEW s \in Shards, NEW proto, Handle(s, proto), UNCHANGED bucket,
         Used(s)' = Used(s) \/ Used(s)' = Used(s) \cup {Head(current[s]).n},
         \A x \in Shards : x # s => Used(x)' = Used(x), NEW x \in Shards
  PROVE  PacketsOnce(x)'
  <1>1. /\ current \in [Shards -> Seq(Arrivals)] /\ PacketsOnce(s) /\ PacketsOnce(x)
    BY DEF UInv, IInv, Types, ShardTypes
  <1>2. /\ current[s] # <<>> /\ current' = [current EXCEPT ![s] = Tail(@)]
        /\ UNCHANGED <<shardBox, arrived>>
    BY DEF Handle
  <1>3. /\ Flying(Buckets(s), shardBox[s], Tail(current[s]), Used(s), arrived)
        /\ Flying(Buckets(s), shardBox[s], Tail(current[s]),
                  Used(s) \cup {Head(current[s]).n}, arrived)
    BY <1>1, <1>2, PacketDone DEF PacketsOnce, Buckets
  <1>4. CASE x = s
    BY <1>1, <1>2, <1>3, <1>4 DEF PacketsOnce, Buckets
  <1>5. CASE x # s
    BY <1>1, <1>2, <1>5, OthersKeepPackets
  <1> QED
    BY <1>4, <1>5

-----------------------------------------------------------------------------
(* The tags.                                                                *)

LEMMA SmallRemainders ==
  ASSUME NEW m \in Nat
  PROVE  /\ \A k \in 0..m : k % (m + 1) = k
         /\ (m + 1) % (m + 1) = 0
  OBVIOUS

LEMMA NextRemainder ==
  ASSUME NEW m \in Nat, NEW k \in 0..m
  PROVE  (k + 1) % (m + 1) = IF k = m THEN 0 ELSE k + 1
  <1>1. CASE k = m
    BY <1>1, SmallRemainders
  <1>2. CASE k # m
    <2>1. k + 1 \in 0..m
      BY <1>2
    <2> QED
      BY <1>2, <2>1, SmallRemainders
  <1> QED
    BY <1>1, <1>2

LEMMA TagFresh ==
  ASSUME IdsSuffice, NEW used \in SUBSET (1..MaxPackets), NEW n \in 1..MaxPackets \ used
  PROVE  LET u == Cardinality(used)
             tag == (u + 1) % (MaxTag + 1)
         IN /\ Cardinality(used \cup {n}) = u + 1
            /\ ((u % (MaxTag + 1)) + 1) % (MaxTag + 1) = tag
            /\ tag \notin TagsUsed(used)
            /\ TagsUsed(used \cup {n}) = TagsUsed(used) \cup {tag}
  <1> DEFINE u == Cardinality(used)
             tag == (u + 1) % (MaxTag + 1)
  <1>1. MaxPackets \in Nat /\ MaxTag \in Nat /\ MaxPackets <= MaxTag + 1
    BY TelescopeAssumption DEF IdsSuffice
  <1>2. IsFiniteSet(1..MaxPackets) /\ Cardinality(1..MaxPackets) = MaxPackets
    BY <1>1, FS_Interval
  <1>3. IsFiniteSet(used) /\ Cardinality(used \cup {n}) = u + 1 /\ u \in Nat
    BY <1>2, FS_Subset, FS_AddElement, FS_CardinalityType
  <1>4. used \cup {n} \in SUBSET (1..MaxPackets)
    OBVIOUS
  <1>5. u + 1 <= MaxPackets
    BY <1>2, <1>3, <1>4, FS_Subset
  <1>6. u \in 0..MaxTag
    BY <1>1, <1>3, <1>5
  <1>7. /\ \A k : k \in TagsUsed(used) <=> \E j \in 1..u : k = j % (MaxTag + 1)
        /\ \A S : Cardinality(S) = u + 1 =>
             TagsUsed(S) = {k % (MaxTag + 1) : k \in 1..(u + 1)}
        /\ TagsUsed(used) = {k % (MaxTag + 1) : k \in 1..u}
    BY DEF TagsUsed
  <1> HIDE DEF u
  <1>8. u % (MaxTag + 1) = u
    BY <1>1, <1>6, SmallRemainders
  <1>9. \A k \in 1..u : k % (MaxTag + 1) = k
    <2>1. \A k \in 1..u : k \in 0..MaxTag
      BY <1>1, <1>6
    <2> QED
      BY <1>1, <2>1, SmallRemainders
  <1>10. tag \notin TagsUsed(used)
    <2> SUFFICES ASSUME NEW k \in 1..u, tag = k % (MaxTag + 1) PROVE FALSE
      BY <1>7
    <2> QED
      <3>1. tag = IF u = MaxTag THEN 0 ELSE u + 1
        BY <1>1, <1>6, NextRemainder
      <3>2. tag = k
        BY <1>9
      <3> QED
        BY <1>1, <1>6, <3>1, <3>2
  <1>11. TagsUsed(used \cup {n}) = TagsUsed(used) \cup {tag}
    <2>1. 1..(u + 1) = 1..u \cup {u + 1}
      BY <1>3
    <2> QED
      BY <1>3, <1>7, <2>1
  <1> QED
    BY <1>3, <1>8, <1>10, <1>11 DEF u


-----------------------------------------------------------------------------
(* The rows of the log.                                                     *)

(* A row without an id, or none: the tags stay.                             *)
LEMMA PlainLogged ==
  ASSUME UInv, NEW row, row.uid[1] = 0, rawLog' = rawLog \/ rawLog' = rawLog \cup {row},
         UNCHANGED tagCnt, NEW x \in Shards
  PROVE  /\ RowsOf(x)' = RowsOf(x) /\ Used(x)' = Used(x) /\ TagsInOrder(x)'
         /\ RowsUnique'
  <1>1. ShardId[x] # 0
    BY TelescopeAssumption
  <1>2. RowsOf(x)' = RowsOf(x)
    BY <1>1 DEF RowsOf
  <1>3. Used(x)' = Used(x)
    BY <1>2 DEF Used
  <1>4. TagsInOrder(x)'
    BY <1>2, <1>3 DEF UInv, TagsInOrder, TagsUsed
  <1>5. RowsUnique'
    BY DEF UInv, RowsUnique
  <1> QED
    BY <1>2, <1>3, <1>4, <1>5

(* A row with the next id: no row has it so far.                            *)
LEMMA NextIdIsNew ==
  ASSUME UInv, NEW s \in Shards, NEW proto, Handle(s, proto)
  PROVE  /\ NextId(s) \notin {row.uid : row \in rawLog}
         /\ NextTag(s) = (Cardinality(Used(s)) + 1) % (MaxTag + 1)
         /\ NextTag(s) = Cardinality(Used(s) \cup {Head(current[s]).n}) % (MaxTag + 1)
         /\ TagsUsed(Used(s) \cup {Head(current[s]).n}) = TagsUsed(Used(s)) \cup {NextTag(s)}
  <1> DEFINE n == Head(current[s]).n
             used == Used(s)
             u == Cardinality(used)
             tag == (u + 1) % (MaxTag + 1)
  <1>1. /\ current \in [Shards -> Seq(Arrivals)] /\ PacketsOnce(s) /\ TagsInOrder(s)
        /\ arrived \in 0..MaxPackets /\ IdsSuffice /\ MaxPackets \in Nat
    BY TelescopeAssumption DEF UInv, IInv, Types, ChannelTypes, ShardTypes
  <1>2. n \in 1..arrived \ used /\ used \subseteq 1..arrived
    BY <1>1, PacketDone DEF PacketsOnce, Flying, Handle
  <1>3. n \in 1..MaxPackets \ used /\ used \in SUBSET (1..MaxPackets)
    BY <1>1, <1>2
  <1> HIDE DEF n, used
  <1>4. /\ Cardinality(used \cup {n}) = u + 1
        /\ ((u % (MaxTag + 1)) + 1) % (MaxTag + 1) = tag
        /\ tag \notin TagsUsed(used)
        /\ TagsUsed(used \cup {n}) = TagsUsed(used) \cup {tag}
    BY <1>1, <1>3, TagFresh, Zenon
  <1> HIDE DEF u, tag
  <1>5. tagCnt[s] = u % (MaxTag + 1)
    BY <1>1 DEF TagsInOrder, u, used
  <1>6. NextTag(s) = tag
    BY <1>4, <1>5 DEF NextTag
  <1>7. ASSUME NEW row \in rawLog PROVE row.uid # NextId(s)
    <2>1. CASE row.uid[1] = ShardId[s]
      <3>1. row.uid[2] # tag
        BY <1>1, <1>4, <2>1 DEF TagsInOrder, RowsOf, used
      <3> QED
        BY <1>6, <3>1 DEF NextId
    <2>2. CASE row.uid[1] # ShardId[s]
      BY <2>2 DEF NextId
    <2> QED
      BY <2>1, <2>2
  <1> QED
    BY <1>4, <1>6, <1>7 DEF tag, u, used, n

LEMMA IdLogged ==
  ASSUME UInv, NEW s \in Shards, NEW proto, Handle(s, proto), NEW method,
         Log(s, NextId(s), method, TRUE),
         tagCnt' = [tagCnt EXCEPT ![s] = NextTag(s)]
  PROVE  /\ RowsOf(s)' = RowsOf(s) \cup
              {[n |-> Head(current[s]).n, uid |-> NextId(s), method |-> method, probed |-> TRUE]}
         /\ Used(s)' = Used(s) \cup {Head(current[s]).n}
         /\ \A x \in Shards : x # s => RowsOf(x)' = RowsOf(x) /\ Used(x)' = Used(x)
         /\ \A x \in Shards : TagsInOrder(x)'
         /\ RowsUnique'
  <1> DEFINE row == [n |-> Head(current[s]).n, uid |-> NextId(s), method |-> method,
                     probed |-> TRUE]
             id == NextId(s)
  <1>1. rawLog' = rawLog \cup {row} /\ row.uid = id /\ row.n = Head(current[s]).n
    BY DEF Log
  <1>2. id[1] = ShardId[s] /\ id[2] = NextTag(s) /\ id \notin {r.uid : r \in rawLog}
    BY NextIdIsNew DEF NextId
  <1> HIDE DEF row, id
  <1>3. RowsOf(s)' = RowsOf(s) \cup {row}
    BY <1>1, <1>2 DEF RowsOf
  <1>4. Used(s)' = Used(s) \cup {Head(current[s]).n}
    BY <1>1, <1>3 DEF Used
  <1>5. ASSUME NEW x \in Shards, x # s
        PROVE  RowsOf(x)' = RowsOf(x) /\ Used(x)' = Used(x) /\ tagCnt'[x] = tagCnt[x]
    <2>1. ShardId[x] # ShardId[s]
      BY <1>5 DEF UInv, IdsSuffice
    <2>2. RowsOf(x)' = RowsOf(x)
      BY <1>1, <1>2, <2>1 DEF RowsOf
    <2> QED
      BY <1>5, <2>2 DEF Used, UInv, IInv, Types, ShardTypes
  <1>6. ASSUME NEW x \in Shards, x # s PROVE TagsInOrder(x)'
    BY <1>5, <1>6 DEF UInv, TagsInOrder, TagsUsed
  <1>7. TagsInOrder(s)'
    <2>1. tagCnt'[s] = NextTag(s)
      BY DEF UInv, IInv, Types, ShardTypes
    <2>2. /\ NextTag(s) = Cardinality(Used(s)') % (MaxTag + 1)
          /\ TagsUsed(Used(s)') = TagsUsed(Used(s)) \cup {NextTag(s)}
      BY <1>4, NextIdIsNew
    <2>3. \A r \in RowsOf(s)' : r.uid[2] \in TagsUsed(Used(s)')
      BY <1>1, <1>2, <1>3, <2>2 DEF UInv, TagsInOrder
    <2> QED
      BY <2>1, <2>2, <2>3 DEF TagsInOrder, TagsUsed
  <1>8. RowsUnique'
    BY <1>1, <1>2 DEF UInv, RowsUnique
  <1> QED
    BY <1>3, <1>4, <1>5, <1>6, <1>7, <1>8 DEF row, id

-----------------------------------------------------------------------------
(* The requests under way and their rows.                                   *)

LEMMA ElemsLeft ==
  ASSUME NEW S, NEW seq \in Seq(S), seq # <<>>
  PROVE  Head(seq) \in Elems(seq) /\ Elems(Tail(seq)) \subseteq Elems(seq)
  <1> DEFINE rest == Tail(seq)
             n == Len(seq)
  <1>1. /\ n \in Nat \ {0} /\ DOMAIN seq = 1..n /\ DOMAIN rest = 1..(n - 1)
        /\ Head(seq) = seq[1]
        /\ \A i \in 1..(n - 1) : rest[i] = seq[i + 1]
    BY HeadTailProperties, EmptySeq, LenProperties
  <1> HIDE DEF rest, n
  <1>2. \A i \in 1..(n - 1) : i + 1 \in 1..n
    BY <1>1
  <1>3. \A i \in 1..(n - 1) : rest[i] \in Elems(seq)
    BY <1>1, <1>2 DEF Elems
  <1>4. Elems(rest) \subseteq Elems(seq)
    BY <1>1, <1>3 DEF Elems
  <1>5. Head(seq) \in Elems(seq)
    BY <1>1 DEF Elems
  <1> QED
    BY <1>4, <1>5 DEF rest

LEMMA NextUnderWay ==
  ASSUME NEW s \in Shards
  PROVE  UnderWay(s)' = outstanding'[s] \cup Elems(replies'[s]) \cup lost'[s]
                         \cup Elems(requests'[s]) \cup Elems(delayed'[s])
  BY DEF UnderWay, Awaited, Elems

LEMMA LoggedKept ==
  ASSUME NEW s \in Shards, Logged(s), RowsOf(s) \subseteq RowsOf(s)',
         \A p \in UnderWay(s)' : p \in UnderWay(s) \/ RowFor(p) \in RowsOf(s)'
  PROVE  Logged(s)'
  BY DEF Logged, RowFor

LEMMA UntouchedUnderWay ==
  ASSUME NEW x \in Shards, requests'[x] = requests[x], delayed'[x] = delayed[x],
         replies'[x] = replies[x], outstanding'[x] = outstanding[x], lost'[x] = lost[x]
  PROVE  UnderWay(x)' = UnderWay(x)
  BY AllUnderWay, NextUnderWay

LEMMA ReleasedUnderWay ==
  ASSUME IInv, NEW s \in Shards, ReleaseReset(s), UNCHANGED managerVars, NEW x \in Shards
  PROVE  UnderWay(x)' \subseteq UnderWay(x)
  <1>1. /\ requests \in [Shards -> Seq(Requests)]
        /\ delayed \in [Shards -> Seq(Requests)]
    BY DEF IInv, Types, ChannelTypes, ShardTypes
  <1>2. /\ delayed[s] # <<>>
        /\ delayed' = [delayed EXCEPT ![s] = Tail(@)]
        /\ requests' = [requests EXCEPT ![s] = Append(@, Head(delayed[s]))]
        /\ UNCHANGED <<replies, outstanding, lost>>
    BY DEF ReleaseReset, Release, managerVars
  <1>3. CASE x # s
    BY <1>1, <1>2, <1>3, UntouchedUnderWay
  <1>4. CASE x = s
    <2>1. /\ Head(delayed[s]) \in Requests /\ Head(delayed[s]) \in Elems(delayed[s])
          /\ Elems(Tail(delayed[s])) \subseteq Elems(delayed[s])
      BY <1>1, <1>2, HeadAndTail, ElemsLeft
    <2>2. Elems(Append(requests[s], Head(delayed[s])))
            = Elems(requests[s]) \cup {Head(delayed[s])}
      BY <1>1, <2>1, ElemsAdded
    <2>3. requests'[s] = Append(requests[s], Head(delayed[s])) /\ delayed'[s] = Tail(delayed[s])
      BY <1>1, <1>2
    <2> QED
      BY <1>2, <1>4, <2>1, <2>2, <2>3, AllUnderWay, NextUnderWay
  <1> QED
    BY <1>3, <1>4

LEMMA ManagersUnderWay ==
  ASSUME IInv, NEW s \in Shards, ManagerStep(s) \/ ScamperStep(s), NEW x \in Shards
  PROVE  UnderWay(x)' \subseteq UnderWay(x)
  <1>1. /\ requests \in [Shards -> Seq(Requests)]
        /\ replies \in [Shards -> Seq(Requests)]
        /\ outstanding \in [Shards -> SUBSET Requests]
        /\ lost \in [Shards -> SUBSET Requests]
    BY DEF IInv, Types, ChannelTypes, ManagerTypes
  <1>2. UNCHANGED delayed
    BY DEF ManagerStep, ScamperStep, shardVars
  <1>3. CASE HandleRequest(s)
    <2>1. /\ requests[s] # <<>> /\ requests' = [requests EXCEPT ![s] = Tail(@)]
          /\ \/ outstanding' = outstanding
             \/ outstanding' = [outstanding EXCEPT ![s] = @ \cup {Head(requests[s])}]
          /\ UNCHANGED <<replies, lost>>
      BY <1>3 DEF HandleRequest, TakeRequest
    <2>2. /\ Head(requests[s]) \in Elems(requests[s])
          /\ Elems(Tail(requests[s])) \subseteq Elems(requests[s])
      BY <1>1, <2>1, ElemsLeft
    <2>3. CASE x # s
      BY <1>1, <1>2, <2>1, <2>3, UntouchedUnderWay
    <2>4. CASE x = s
      <3>1. /\ requests'[s] = Tail(requests[s])
            /\ outstanding'[s] \subseteq outstanding[s] \cup {Head(requests[s])}
        BY <1>1, <2>1
      <3> QED
        BY <1>2, <2>1, <2>2, <2>4, <3>1, AllUnderWay, NextUnderWay
    <2> QED
      BY <2>3, <2>4
  <1>4. CASE HandleReply(s)
    <2>1. /\ replies[s] # <<>> /\ replies' = [replies EXCEPT ![s] = Tail(@)]
          /\ UNCHANGED <<requests, outstanding, lost>>
      BY <1>4 DEF HandleReply, TakeReply
    <2>2. Elems(Tail(replies[s])) \subseteq Elems(replies[s])
      BY <1>1, <2>1, ElemsLeft
    <2>3. replies'[x] = IF x = s THEN Tail(replies[s]) ELSE replies[x]
      BY <1>1, <2>1
    <2> QED
      BY <1>2, <2>1, <2>2, <2>3, AllUnderWay, NextUnderWay
  <1>5. ASSUME NEW req \in outstanding[s], Answer(s, req)
        PROVE  UnderWay(x)' \subseteq UnderWay(x)
    <2>1. /\ replies' = [replies EXCEPT ![s] = Append(@, req)]
          /\ outstanding' = [outstanding EXCEPT ![s] = @ \ {req}]
          /\ UNCHANGED <<requests, lost>>
      BY <1>5 DEF Answer
    <2>2. Elems(Append(replies[s], req)) = Elems(replies[s]) \cup {req}
      BY <1>1, ElemsAdded
    <2>3. CASE x # s
      BY <1>1, <1>2, <2>1, <2>3, UntouchedUnderWay
    <2>4. CASE x = s
      <3>1. replies'[s] = Append(replies[s], req) /\ outstanding'[s] = outstanding[s] \ {req}
        BY <1>1, <2>1
      <3> QED
        BY <1>2, <2>1, <2>2, <2>4, <3>1, AllUnderWay, NextUnderWay
    <2> QED
      BY <2>3, <2>4
  <1>6. ASSUME NEW req \in outstanding[s], Lose(s, req)
        PROVE  UnderWay(x)' \subseteq UnderWay(x)
    <2>1. /\ outstanding' = [outstanding EXCEPT ![s] = @ \ {req}]
          /\ lost' = [lost EXCEPT ![s] = @ \cup {req}]
          /\ UNCHANGED <<requests, replies>>
      BY <1>6 DEF Lose
    <2>2. CASE x # s
      BY <1>1, <1>2, <2>1, <2>2, UntouchedUnderWay
    <2>3. CASE x = s
      <3>1. lost'[s] = lost[s] \cup {req} /\ outstanding'[s] = outstanding[s] \ {req}
        BY <1>1, <2>1
      <3> QED
        BY <1>2, <2>1, <2>3, <3>1, AllUnderWay, NextUnderWay
    <2> QED
      BY <2>2, <2>3
  <1> QED
    BY <1>3, <1>4, <1>5, <1>6 DEF ManagerStep, ScamperStep


-----------------------------------------------------------------------------
(* The invariant.                                                           *)

LEMMA InitIds == IdsSuffice /\ Init => UInv
  <1> SUFFICES ASSUME IdsSuffice, Init, NEW s \in Shards
               PROVE  PacketsOnce(s) /\ TagsInOrder(s) /\ Logged(s)
    <2>1. Init => RowsUnique
      BY DEF Init, ShardInit, RowsUnique
    <2> QED
      BY <2>1, InitTypes DEF UInv
  <1>1. /\ rawLog = {} /\ tagCnt[s] = 0 /\ arrived = 0
        /\ shardBox[s] = <<>> /\ current[s] = <<>> /\ requests[s] = <<>>
        /\ delayed[s] = <<>> /\ replies[s] = <<>>
        /\ outstanding[s] = {} /\ lost[s] = {}
        /\ \A t \in Threads : bucket[t][s] = <<>>
    BY DEF Init, ChannelInit, IngestInit, ShardInit, ManagerInit
  <1>2. RowsOf(s) = {} /\ Used(s) = {}
    BY <1>1 DEF RowsOf, Used
  <1>3. Nums(<<>>) = {} /\ Alone(<<>>) /\ Elems(<<>>) = {}
    BY DEF Nums, Alone, Elems
  <1>4. PacketsOnce(s)
    BY <1>1, <1>2, <1>3 DEF PacketsOnce, Flying, BucketsAlone, BoxAlone,
                            PlacesApart, AllIn
  <1>5. TagsInOrder(s)
    <2>1. MaxTag \in Nat /\ Cardinality({}) = 0
      BY TelescopeAssumption, FS_EmptySet
    <2>2. 0 % (MaxTag + 1) = 0
      BY <2>1, SmallRemainders
    <2> QED
      BY <1>1, <1>2, <2>1, <2>2 DEF TagsInOrder
  <1>6. UnderWay(s) = {}
    BY <1>1, <1>3, AllUnderWay
  <1> QED
    BY <1>2, <1>4, <1>5, <1>6 DEF Logged

(* Steps that log nothing leave the tags and the rows of requests.          *)
LEMMA NothingLogged ==
  ASSUME UInv, UNCHANGED <<rawLog, tagCnt>>, NEW x \in Shards,
         UnderWay(x)' \subseteq UnderWay(x)
  PROVE  Used(x)' = Used(x) /\ TagsInOrder(x)' /\ RowsUnique' /\ Logged(x)'
  <1>1. RowsOf(x)' = RowsOf(x)
    BY DEF RowsOf
  <1>2. Used(x)' = Used(x)
    BY <1>1 DEF Used
  <1>3. TagsInOrder(x)'
    BY <1>1, <1>2 DEF UInv, TagsInOrder, TagsUsed
  <1>4. Logged(x)'
    BY <1>1, LoggedKept DEF UInv
  <1> QED
    BY <1>2, <1>3, <1>4 DEF UInv, RowsUnique

Known(x) == PacketsOnce(x) /\ TagsInOrder(x) /\ Logged(x)

LEMMA RequestKnown ==
  ASSUME UInv, NEW s \in Shards, UNCHANGED <<bucket, managerVars>>,
         AnswerSyn(s) \/ ScheduleReset(s)
  PROVE  RowsUnique' /\ \A x \in Shards : Known(x)'
  <1>1. /\ requests \in [Shards -> Seq(Requests)]
        /\ delayed \in [Shards -> Seq(Requests)] /\ Types
    BY DEF UInv, IInv, Types, ChannelTypes, ShardTypes
  <1>2. PICK method \in {"synack", "rst"} :
          /\ Handle(s, "tcp") /\ Log(s, NextId(s), method, TRUE)
          /\ tagCnt' = [tagCnt EXCEPT ![s] = NextTag(s)]
          /\ \/ /\ requests' = [requests EXCEPT ![s] = Append(@, Request(s, method))]
                /\ UNCHANGED delayed
             \/ /\ delayed' = [delayed EXCEPT ![s] = Append(@, Request(s, method))]
                /\ UNCHANGED requests
    BY DEF AnswerSyn, ScheduleReset
  <1> DEFINE req == Request(s, method)
  <1>3. UNCHANGED <<replies, outstanding, lost>>
    BY <1>2 DEF Handle, managerVars
  <1>4. /\ RowsOf(s)' = RowsOf(s) \cup {RowFor(req)}
        /\ Used(s)' = Used(s) \cup {Head(current[s]).n}
        /\ \A x \in Shards : x # s => RowsOf(x)' = RowsOf(x) /\ Used(x)' = Used(x)
        /\ \A x \in Shards : TagsInOrder(x)'
        /\ RowsUnique'
    BY <1>2, IdLogged DEF RowFor, Request
  <1>5. req \in Requests
    BY <1>1, <1>2, RequestTyped
  <1> HIDE DEF req
  <1>6. \A x \in Shards : PacketsOnce(x)'
    BY <1>2, <1>4, HandledKeepsPackets
  <1>7. ASSUME NEW x \in Shards, x # s PROVE Logged(x)'
    <2>1. UnderWay(x)' = UnderWay(x)
      BY <1>1, <1>2, <1>3, <1>7, UntouchedUnderWay
    <2> QED
      BY <1>4, <1>7, <2>1, LoggedKept DEF UInv
  <1>8. Logged(s)'
    <2>1. UnderWay(s)' \subseteq UnderWay(s) \cup {req}
      <3>1. /\ Elems(Append(requests[s], req)) = Elems(requests[s]) \cup {req}
            /\ Elems(Append(delayed[s], req)) = Elems(delayed[s]) \cup {req}
        BY <1>1, <1>5, ElemsAdded
      <3>2. /\ requests'[s] \in {requests[s], Append(requests[s], req)}
            /\ delayed'[s] \in {delayed[s], Append(delayed[s], req)}
        BY <1>1, <1>2 DEF req
      <3>3. /\ Elems(requests'[s]) \subseteq Elems(requests[s]) \cup {req}
            /\ Elems(delayed'[s]) \subseteq Elems(delayed[s]) \cup {req}
        BY <3>1, <3>2
      <3> QED
        BY <1>3, <3>3, AllUnderWay, NextUnderWay
    <2> QED
      BY <1>4, <2>1, LoggedKept DEF UInv
  <1> QED
    BY <1>4, <1>6, <1>7, <1>8 DEF Known

(* Packets that are only logged, with an id or without.                     *)
LEMMA LogKnown ==
  ASSUME UInv, NEW s \in Shards, UNCHANGED <<bucket, managerVars>>,
         \/ IgnoreDisabled(s) \/ SkipAck(s) \/ LogOnly(s) \/ HandleUdp(s) \/ HandleIcmp(s)
  PROVE  RowsUnique' /\ \A x \in Shards : Known(x)'
  <1>1. UNCHANGED <<requests, delayed>> /\ \E proto : Handle(s, proto)
    BY DEF IgnoreDisabled, SkipAck, LogOnly, HandleUdp, HandleIcmp
  <1>2. PICK proto : Handle(s, proto)
    BY <1>1
  <1>3. UNCHANGED <<replies, outstanding, lost>>
    BY <1>2 DEF Handle, managerVars
  <1>4. \A x \in Shards : UnderWay(x)' = UnderWay(x)
    BY <1>1, <1>3, UntouchedUnderWay
  <1> DEFINE row(method, probed) ==
               [n |-> Head(current[s]).n, uid |-> NoId, method |-> method, probed |-> probed]
  <1>5. /\ \A method, probed : row(method, probed).uid[1] = 0
        /\ \A method, probed :
             Log(s, NoId, method, probed) => rawLog' = rawLog \cup {row(method, probed)}
    BY DEF NoId, Log
  <1>6. \/ /\ UNCHANGED tagCnt
           /\ \/ UNCHANGED rawLog
              \/ Log(s, NoId, "none", FALSE) \/ Log(s, NoId, "default", TRUE)
        \/ /\ tagCnt' = [tagCnt EXCEPT ![s] = NextTag(s)]
           /\ \/ Log(s, NextId(s), "udp", TRUE) \/ Log(s, NextId(s), "icmp_echo", TRUE)
    BY DEF IgnoreDisabled, SkipAck, LogOnly, HandleUdp, HandleIcmp
  <1> HIDE DEF row
  <1>7. CASE /\ UNCHANGED tagCnt
             /\ \/ UNCHANGED rawLog
                \/ Log(s, NoId, "none", FALSE) \/ Log(s, NoId, "default", TRUE)
    <2>1. PICK r : r.uid[1] = 0 /\ (rawLog' = rawLog \/ rawLog' = rawLog \cup {r})
      BY <1>5, <1>7
    <2>2. \A x \in Shards : /\ RowsOf(x)' = RowsOf(x) /\ Used(x)' = Used(x)
                            /\ TagsInOrder(x)'
      BY <1>7, <2>1, PlainLogged
    <2>3. RowsUnique'
      BY <2>1 DEF UInv, RowsUnique
    <2>4. \A x \in Shards : PacketsOnce(x)'
      BY <1>2, <2>2, HandledKeepsPackets
    <2>5. \A x \in Shards : Logged(x)'
      BY <1>4, <2>2, LoggedKept DEF UInv
    <2> QED
      BY <2>2, <2>3, <2>4, <2>5 DEF Known
  <1>8. ASSUME NEW method, tagCnt' = [tagCnt EXCEPT ![s] = NextTag(s)],
               Log(s, NextId(s), method, TRUE)
        PROVE  RowsUnique' /\ \A x \in Shards : Known(x)'
    <2>1. /\ \A x \in Shards : RowsOf(x) \subseteq RowsOf(x)'
          /\ Used(s)' = Used(s) \cup {Head(current[s]).n}
          /\ \A x \in Shards : x # s => Used(x)' = Used(x)
          /\ \A x \in Shards : TagsInOrder(x)'
          /\ RowsUnique'
      BY <1>2, <1>8, IdLogged
    <2>2. \A x \in Shards : PacketsOnce(x)'
      BY <1>2, <2>1, HandledKeepsPackets
    <2>3. \A x \in Shards : Logged(x)'
      BY <1>4, <2>1, LoggedKept DEF UInv
    <2> QED
      BY <2>1, <2>2, <2>3 DEF Known
  <1> QED
    BY <1>6, <1>7, <1>8

LEMMA NextIds == UInv /\ [Next]_vars => UInv'
  <1> SUFFICES ASSUME UInv, [Next]_vars PROVE UInv'
    OBVIOUS
  <1>1. IInv' /\ IdsSuffice'
    BY NextKeeps DEF UInv, IdsSuffice
  <1>2. ASSUME RowsUnique', \A x \in Shards : Known(x)' PROVE UInv'
    BY <1>1, <1>2 DEF UInv, Known
  <1>3. ASSUME UNCHANGED <<rawLog, tagCnt>>,
               \A x \in Shards : UnderWay(x)' \subseteq UnderWay(x),
               (\A x \in Shards : Used(x)' = Used(x)) => \A x \in Shards : PacketsOnce(x)'
        PROVE  UInv'
    <2>1. \A x \in Shards : /\ Used(x)' = Used(x) /\ TagsInOrder(x)' /\ Logged(x)'
      BY <1>3, NothingLogged
    <2>2. RowsUnique'
      BY <1>3 DEF UInv, RowsUnique
    <2> QED
      BY <1>2, <1>3, <2>1, <2>2 DEF Known
  <1>4. CASE UNCHANGED vars
    <2>1. UNCHANGED <<rawLog, tagCnt, bucket, arrived, shardBox, current>>
          /\ UNCHANGED <<requests, delayed, replies, outstanding, lost>>
      BY <1>4 DEF vars, channels, ingestVars, shardVars, managerVars
    <2>2. \A x \in Shards : UnderWay(x)' \subseteq UnderWay(x)
      BY <2>1, UntouchedUnderWay
    <2> QED
      BY <1>3, <2>1, <2>2, OthersKeepPackets DEF UInv
  <1>5. CASE Ingest
    <2>1. UNCHANGED <<rawLog, tagCnt, requests, delayed, replies, outstanding, lost>>
      BY <1>5 DEF Ingest, AddPacket, StopProcessing, shardVars, managerVars
    <2>2. \A x \in Shards : UnderWay(x)' \subseteq UnderWay(x)
      BY <2>1, UntouchedUnderWay
    <2> QED
      BY <1>3, <1>5, <2>1, <2>2, IngestKeepsPackets
  <1>6. ASSUME NEW s \in Shards, ShardStep(s) PROVE UInv'
    <2>1. UNCHANGED <<bucket, managerVars>> /\ (HandlePackets(s) \/ ReleaseReset(s))
      BY <1>6 DEF ShardStep, ingestVars
    <2>2. CASE TakePackets(s) \/ DropUnexpected(s)
      <3>1. UNCHANGED <<rawLog, tagCnt, requests, delayed, replies, outstanding, lost>>
        BY <2>1, <2>2 DEF TakePackets, DropUnexpected, managerVars
      <3>2. \A x \in Shards : UnderWay(x)' \subseteq UnderWay(x)
        BY <3>1, UntouchedUnderWay
      <3> QED
        BY <1>3, <2>1, <2>2, <3>1, <3>2, TakenKeepsPackets
    <2>3. CASE ReleaseReset(s)
      <3>1. UNCHANGED <<rawLog, tagCnt, arrived, shardBox, current>>
        BY <2>3 DEF ReleaseReset, Release
      <3>2. \A x \in Shards : UnderWay(x)' \subseteq UnderWay(x)
        BY <2>1, <2>3, ReleasedUnderWay DEF UInv
      <3> QED
        BY <1>3, <2>1, <3>1, <3>2, OthersKeepPackets DEF UInv
    <2> QED
      BY <1>2, <2>1, <2>2, <2>3, RequestKnown, LogKnown DEF HandlePackets
  <1>7. ASSUME NEW s \in Shards, ManagerStep(s) \/ ScamperStep(s) PROVE UInv'
    <2>1. UNCHANGED <<rawLog, tagCnt, bucket, arrived, shardBox, current>>
      BY <1>7 DEF ManagerStep, ScamperStep, HandleRequest, TakeRequest, HandleReply,
                  TakeReply, Answer, Lose, ingestVars, shardVars
    <2>2. \A x \in Shards : UnderWay(x)' \subseteq UnderWay(x)
      BY <1>7, ManagersUnderWay DEF UInv
    <2> QED
      BY <1>3, <2>1, <2>2, OthersKeepPackets DEF UInv
  <1> QED
    BY <1>4, <1>5, <1>6, <1>7 DEF Next

LEMMA IdInvariance == IdsSuffice /\ Spec => []UInv
  BY InitIds, NextIds, PTL DEF Spec

(* As long as there are tags for all packets and the actor ids of shards    *)
(* differ in their lower 8 bit, a request gets a user id that no request of *)
(* its shard still under way has.                                           *)
THEOREM IdsAreFresh == IdsSuffice /\ Spec => IdsFresh
  <1>1. UInv /\ [Next]_vars => [FreshStep]_vars
    <2> SUFFICES ASSUME UInv, NEW s \in Shards, AnswerSyn(s) \/ ScheduleReset(s)
                 PROVE  NextId(s) \notin {p.uid : p \in UnderWay(s)}
      BY DEF FreshStep
    <2>1. NextId(s) \notin {row.uid : row \in rawLog}
      BY NextIdIsNew DEF AnswerSyn, ScheduleReset
    <2>2. \A p \in UnderWay(s) : RowFor(p) \in rawLog
      BY DEF UInv, Logged, RowsOf
    <2>3. \A p \in UnderWay(s) : RowFor(p).uid = p.uid
      BY DEF RowFor
    <2> QED
      BY <2>1, <2>2, <2>3
  <1> QED
    BY <1>1, IdInvariance, FreshIs, PTL DEF Spec

(* Under the same condition the id of a probe leads to one row of the raw   *)
(* logs: the packet it answers, with its method.                            *)
THEOREM ProbesAreFoundInLog == IdsSuffice /\ Spec => []ProbeFoundInLog
  <1>1. UInv => ProbeFoundInLog
    <2> SUFFICES ASSUME UInv, NEW s \in Shards, NEW p \in Awaited(s)
                 PROVE  {row \in rawLog : row.uid = p.uid /\ row.probed} = {RowFor(p)}
      BY DEF ProbeFoundInLog, RowFor
    <2>1. RowFor(p) \in rawLog /\ RowFor(p).uid[1] = ShardId[s]
      BY DEF UInv, Logged, RowsOf, UnderWay
    <2>2. RowFor(p).uid = p.uid /\ RowFor(p).probed
      BY DEF RowFor
    <2>3. ShardId[s] # 0
      BY TelescopeAssumption
    <2>4. \A row \in rawLog : row.uid = p.uid => row = RowFor(p)
      BY <2>1, <2>2, <2>3 DEF UInv, RowsUnique
    <2> QED
      BY <2>1, <2>2, <2>4
  <1> QED
    BY <1>1, IdInvariance, PTL

(* ... and so targets are blocked by their probes, one at a time.           *)
THEOREM TargetsAreSafe ==
  IdsSuffice /\ Spec => [](BlockedByItsProbe /\ OneProbePerTarget)
  BY IdsAreFresh, TargetsAreBlockedByProbes, TargetsAreProbedOnce, PTL
=============================================================================
