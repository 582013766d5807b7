----------------------------- MODULE TraceIngest -----------------------------
(***************************************************************************)
(* The libtrace processing threads (libspoki/src/trace/state.cpp,          *)
(* processing.cpp).  Every thread routes the packets it reads to the       *)
(* shards and collects them in a bucket per shard until BatchSize are      *)
(* there.  Packets that filters, a missing IPv4 header or an unknown       *)
(* transport keep out are counted by the code and do not enter the model.  *)
(***************************************************************************)
EXTENDS TelescopeChannels

CONSTANTS
  Threads,    \* processing threads, --ingest-threads
  BatchSize   \* --batch-size

ASSUME IngestAssumption == BatchSize \in Nat \ {0}

VARIABLES
  bucket,     \* packets: per thread and shard, the packets not sent yet
  reading     \* threads that have not stopped

ingestVars == <<bucket, reading>>

IngestInit ==
  /\ bucket = [t \in Threads |-> [s \in Shards |-> <<>>]]
  /\ reading = Threads

(* All packets of a source address go to the same shard. *)
Route_ByArrival(a) == a.n % NumShards
Route(a) == LastByte[a.pkt.saddr] % NumShards

(* add_packet() *)
AddPacket(t) ==
  /\ t \in reading /\ arrived < MaxPackets
  /\ arrived' = arrived + 1
  /\ \E pkt \in Packets :
       LET a == [n |-> arrived + 1, pkt |-> pkt]
           s == Route(a)
           full == Append(bucket[t][s], a)
       IN IF Len(full) >= BatchSize
          THEN /\ shardBox' = [shardBox EXCEPT
                    ![s] = Append(@, [type |-> "packets", content |-> full])]
               /\ bucket' = [bucket EXCEPT ![t][s] = <<>>]
          ELSE /\ bucket' = [bucket EXCEPT ![t][s] = full]
               /\ UNCHANGED shardBox
  /\ UNCHANGED <<reading, requests, replies>>

(* stop_processing(): send_all() sends what the buckets hold, but as a      *)
(* message with an event_atom in front.                                     *)
StopProcessing(t) ==
  /\ t \in reading
  /\ reading' = reading \ {t}
  /\ shardBox' = [s \in Shards |->
       IF bucket[t][s] = <<>> THEN shardBox[s]
       ELSE Append(shardBox[s], [type |-> "event", content |-> bucket[t][s]])]
  /\ bucket' = [bucket EXCEPT ![t] = [s \in Shards |-> <<>>]]
  /\ UNCHANGED <<arrived, requests, replies>>
=============================================================================
