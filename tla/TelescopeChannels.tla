-------------------------- MODULE TelescopeChannels --------------------------
(***************************************************************************)
(* What the parts of the telescope share: the packets it sees, the probe   *)
(* requests it makes from them, and the mailboxes between the parts.       *)
(*                                                                         *)
(*   libtrace threads (TraceIngest)                                        *)
(*        -- shardBox -->  shards (Shard)                                  *)
(*        -- requests -->  managers (ScamperManager), one per shard        *)
(*        -- probe()  -->  driver and scamper (external here, in detail in *)
(*                         ScamperDriver)  -- replies --> managers         *)
(*                                                                         *)
(* A mailbox is a sequence per receiver: messages of one sender arrive in   *)
(* order, and a manager, which has two senders, has a sequence for each.   *)
(***************************************************************************)
EXTENDS Integers, Sequences, FiniteSets

CONSTANTS
  NumShards,     \* shards, each with a manager and a scamper of its own
  ShardId,       \* the upper 8 bit of a shard's user ids: its actor id % 256
  LastByte,      \* the last byte of each source address
  Packets,       \* the packets that may arrive
  MaxPackets,    \* bound: packets that arrive in a behaviour
  MaxTag         \* tag_cnt_max

Shards == 0..NumShards - 1
Hosts == DOMAIN LastByte

(* A packet: its transport, the TCP flags that are set (or whether an ICMP  *)
(* packet is an echo reply), its source, and is_scanner_like of its key.    *)
(* Destination and payload are the same for all and left out.               *)
Transports == {"tcp", "udp", "icmp"}
PacketType ==
  [proto : Transports, flags : SUBSET {"syn", "ack", "rst", "fin", "echo_reply"},
   saddr : Hosts, sport : Nat, scanner : BOOLEAN]

ASSUME TelescopeAssumption ==
  /\ NumShards \in Nat \ {0} /\ MaxPackets \in Nat /\ MaxTag \in Nat
  /\ ShardId \in [Shards -> 1..255] /\ LastByte \in [Hosts -> 0..255]
  /\ Packets \subseteq PacketType

(* A packet that has arrived is known by its number n: no code reads it. *)
Arrivals == [n : 1..MaxPackets, pkt : Packets]
UserIds == (0..255) \X (0..MaxTag)
Keys == Hosts \X BOOLEAN
Endpoints == {<<pkt.saddr, pkt.sport>> : pkt \in Packets}

(* A request keeps the number of the packet it answers. *)
Requests ==
  [n : 1..MaxPackets, method : {"synack", "rst"}, uid : UserIds, daddr : Hosts,
   dport : Nat, irregular : BOOLEAN]

(* The key under which a manager files a request.  A reset is sent without  *)
(* the flag, and counts as regular.                                         *)
KeyOf(req) == <<req.daddr, req.method # "rst" /\ req.irregular>>

VARIABLES
  arrived,    \* packets seen so far
  shardBox,   \* per shard: messages from the libtrace threads
  requests,   \* per shard: requests on their way to its manager
  replies     \* per shard: replies of scamper on their way to its manager

channels == <<arrived, shardBox, requests, replies>>

ChannelInit ==
  /\ arrived = 0
  /\ shardBox = [s \in Shards |-> <<>>]
  /\ requests = [s \in Shards |-> <<>>]
  /\ replies = [s \in Shards |-> <<>>]
=============================================================================
