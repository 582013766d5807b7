----------------------------- MODULE TraceReader ------------------------------
(***************************************************************************)
(* The reader actor (trace/reader.cpp) and the libtrace instances it       *)
(* starts (instance.cpp).  An instance has processing threads, which count *)
(* their packets (state.cpp, processing.cpp), and a reporter, which adds   *)
(* up what they publish at their end (reporting.cpp) and tells the reader. *)
(* The first report ends the reader, and with it all other traces.         *)
(*                                                                         *)
(* Where the packets that are kept go to is the matter of TraceIngest.     *)
(***************************************************************************)
EXTENDS Integers, Sequences, FiniteSets

CONSTANTS
  Threads,      \* processing threads of a trace
  MaxTraces,    \* bound: trace requests
  Frames,       \* the frames that may be captured
  MaxFrames,    \* bound: frames in a behaviour
  EnableFilters,\* enable-filters
  MaxStarts     \* bound: starts of the statistics

(* A frame: its ether type ("none": no layer 3), its addresses as the       *)
(* filters see them, and its transport, for ICMP also what it quotes.       *)
FrameType ==
  [ether : {"none", "ipv4", "ipv6", "arp"},
   saddr : {"network", "filtered", "other"},
   daddr : {"network", "filtered", "multicast", "other"},
   transport : {"none", "tcp", "udp", "icmp", "icmp_udp", "icmp_tcp", "gre"}]

ASSUME ReaderAssumption ==
  /\ IsFiniteSet(Threads) /\ MaxTraces \in Nat /\ MaxFrames \in Nat
  /\ MaxStarts \in Nat /\ EnableFilters \in BOOLEAN /\ Frames \subseteq FrameType

VARIABLES
  up,         \* the reader has not quit
  ids,        \* ids
  states,     \* keys of states
  traces,     \* keys of traces
  statistics, \* statistics
  ticks,      \* stats messages to itself, delayed ones included
  starts,     \* history: starts of the statistics
  box,        \* reports, as pairs of id and tally, and "done", for the reader
  thread,     \* per trace and thread: "none" | "runs" | "paused" | "stopped"
  local,      \* per trace and thread: its counters
  results,    \* per trace: published results, in the order of the reporter
  tally,      \* per trace: the reporter's sums
  reporter,   \* per trace: "none" | "runs" | "stopped"
  handed,     \* per trace: the packets for the shards, in batches or sent
  given       \* history: per trace, the frames given, each with its thread

actorVars == <<up, ids, states, traces, statistics, ticks, starts>>
traceVars == <<thread, local, results, tally, reporter, handed, given>>
readerVars == <<actorVars, box, traceVars>>

TraceIds == 0 .. MaxTraces - 1

NoCounts == [total |-> 0, ipv4 |-> 0, ipv6 |-> 0, others |-> 0]

ReaderInit ==
  /\ up = TRUE /\ ids = 0 /\ states = {} /\ traces = {} /\ box = <<>>
  /\ statistics = FALSE /\ ticks = 0 /\ starts = 0
  /\ thread = [i \in TraceIds |-> [t \in Threads |-> "none"]]
  /\ local = [i \in TraceIds |-> [t \in Threads |-> NoCounts]]
  /\ results = [i \in TraceIds |-> <<>>]
  /\ tally = [i \in TraceIds |-> NoCounts]
  /\ reporter = [i \in TraceIds |-> "none"]
  /\ handed = [i \in TraceIds |-> <<>>]
  /\ given = [i \in TraceIds |-> <<>>]

-----------------------------------------------------------------------------
(* The threads of libtrace. *)

(* extract_protocol(): a packet of another transport is not kept; an ICMP   *)
(* packet is, with the header it quotes if that is one of UDP.              *)
ExtractProtocol(f) ==
  CASE f.transport \in {"tcp", "udp"} -> f.transport
    [] f.transport \in {"icmp", "icmp_tcp"} -> "icmp"
    [] f.transport = "icmp_udp" -> "unreachable"
    [] OTHER -> "none"

PassesFilters(f) ==
  EnableFilters => f.saddr = "other" /\ f.daddr = "network"

Kept(f) == f.ether = "ipv4" /\ PassesFilters(f) /\ ExtractProtocol(f) # "none"

(* add_packet(): every frame counts, also one that is not kept. *)
Counted_KeptOnly(c, f) ==
  [total |-> c.total + 1,
   ipv4 |-> IF Kept(f) THEN c.ipv4 + 1 ELSE c.ipv4,
   ipv6 |-> IF f.ether = "ipv6" THEN c.ipv6 + 1 ELSE c.ipv6,
   others |-> IF f.ether \in {"none", "arp"} THEN c.others + 1 ELSE c.others]
Counted(c, f) ==
  [total |-> c.total + 1,
   ipv4 |-> IF f.ether = "ipv4" THEN c.ipv4 + 1 ELSE c.ipv4,
   ipv6 |-> IF f.ether = "ipv6" THEN c.ipv6 + 1 ELSE c.ipv6,
   others |-> IF f.ether \in {"none", "arp"} THEN c.others + 1 ELSE c.others]

FramesGiven == Cardinality({x \in TraceIds \X (1 .. MaxFrames) : x[2] <= Len(given[x[1]])})

PerPacket(i, t) ==
  /\ thread[i][t] = "runs" /\ FramesGiven < MaxFrames
  /\ \E f \in Frames :
       /\ local' = [local EXCEPT ![i][t] = Counted(@, f)]
       /\ handed' = IF Kept(f) THEN [handed EXCEPT ![i] = Append(@, ExtractProtocol(f))]
                    ELSE handed
       /\ given' = [given EXCEPT ![i] = Append(@, <<t, f>>)]
  /\ UNCHANGED <<actorVars, box, thread, results, tally, reporter>>

PublishStats(i, t) == results' = [results EXCEPT ![i] = Append(@, local[i][t])]

(* At the end of the input a thread publishes its counters. *)
StopProcessing(i, t) ==
  /\ thread[i][t] = "runs"
  /\ thread' = [thread EXCEPT ![i][t] = "stopped"]
  /\ PublishStats(i, t)
  /\ UNCHANGED <<actorVars, box, local, tally, reporter, handed, given>>

Sum(a, b) ==
  [total |-> a.total + b.total, ipv4 |-> a.ipv4 + b.ipv4,
   ipv6 |-> a.ipv6 + b.ipv6, others |-> a.others + b.others]

PerResult(i) ==
  /\ reporter[i] = "runs" /\ results[i] # <<>>
  /\ tally' = [tally EXCEPT ![i] = Sum(@, Head(results[i]))]
  /\ results' = [results EXCEPT ![i] = Tail(@)]
  /\ UNCHANGED <<actorVars, box, thread, local, reporter, handed, given>>

(* After all results, says libtrace (external), comes stop_reporting(). *)
StopReporting(i) ==
  /\ reporter[i] = "runs"
  /\ \A t \in Threads : thread[i][t] = "stopped"
  /\ results[i] = <<>>
  /\ reporter' = [reporter EXCEPT ![i] = "stopped"]
  /\ box' = Append(box, <<i, tally[i]>>)
  /\ UNCHANGED <<actorVars, thread, local, results, tally, handed, given>>

Libtrace ==
  \E i \in TraceIds :
    \/ \E t \in Threads : PerPacket(i, t) \/ StopProcessing(i, t)
    \/ PerResult(i) \/ StopReporting(i)

-----------------------------------------------------------------------------
(* The handlers of the reader. *)

(* start() *)
StartTrace(i) ==
  /\ thread' = [thread EXCEPT ![i] = [t \in Threads |-> "runs"]]
  /\ reporter' = [reporter EXCEPT ![i] = "runs"]

(* trace_atom: a trace that cannot be created or started leaves its entry   *)
(* in states.                                                               *)
Trace ==
  /\ up /\ ids < MaxTraces
  /\ ids' = ids + 1
  /\ states' = states \cup {ids}
  /\ \/ UNCHANGED <<traces, thread, reporter>>
     \/ traces' = traces \cup {ids} /\ StartTrace(ids)
  /\ UNCHANGED <<up, statistics, ticks, starts, box, local, results, tally, handed, given>>

Report ==
  /\ up /\ box # <<>> /\ Head(box) # <<"done">>
  /\ LET i == Head(box)[1]
     IN /\ traces' = traces \ {i}
        /\ states' = states \ {i}
  /\ box' = Append(Tail(box), <<"done">>)
  /\ UNCHANGED <<up, ids, statistics, ticks, starts, traceVars>>

Pause(S) ==
  thread' = [i \in TraceIds |-> [t \in Threads |->
    IF i \in S /\ thread[i][t] = "runs" THEN "paused" ELSE thread[i][t]]]

(* done_atom: traces that still run are paused, and nothing more is handled. *)
Done ==
  /\ up /\ box # <<>> /\ Head(box) = <<"done">>
  /\ up' = FALSE
  /\ box' = Tail(box)
  /\ Pause(traces)
  /\ UNCHANGED <<ids, states, traces, statistics, ticks, starts, local, results,
                 tally, reporter, handed, given>>

StatsStart ==
  /\ up /\ starts < MaxStarts
  /\ starts' = starts + 1
  /\ statistics' = TRUE
  /\ ticks' = IF statistics THEN ticks ELSE ticks + 1
  /\ UNCHANGED <<up, ids, states, traces, box, traceVars>>

StatsStop ==
  /\ up /\ statistics
  /\ statistics' = FALSE
  /\ UNCHANGED <<up, ids, states, traces, ticks, starts, box, traceVars>>

(* Without a trace the next tick is not sent, but statistics stays set. *)
StatsTick ==
  /\ up /\ ticks > 0
  /\ ticks' = IF traces # {} /\ statistics THEN ticks ELSE ticks - 1
  /\ UNCHANGED <<up, ids, states, traces, statistics, starts, box, traceVars>>

Reader == Trace \/ Report \/ Done \/ StatsStart \/ StatsStop \/ StatsTick

ReaderNext == Libtrace \/ Reader

ReaderSpec == ReaderInit /\ [][ReaderNext]_readerVars

-----------------------------------------------------------------------------
(* Properties *)

(* A report that is on its way to the reader tells all frames that any     *)
(* thread of its trace was given, in any order of their ends, each as what *)
(* it is, among them all that went to the shards; its trace has not been   *)
(* forgotten (join() would be called on an instance made up without an     *)
(* input) and no thread of it runs that join() would wait for.             *)
FramesOf(g, S, types) == {n \in DOMAIN g : g[n][1] \in S /\ g[n][2].ether \in types}

OfEther(i, types) == Cardinality(FramesOf(given[i], Threads, types))

ReportsAreComplete ==
  \A k \in DOMAIN box : box[k] # <<"done">> =>
    LET i == box[k][1]  t == box[k][2]
    IN /\ t.total = Len(given[i]) /\ t.ipv4 = OfEther(i, {"ipv4"})
       /\ t.ipv6 = OfEther(i, {"ipv6"}) /\ t.others = OfEther(i, {"none", "arp"})
       /\ Len(handed[i]) <= t.ipv4
       /\ up => i \in traces /\ i \in states
       /\ \A u \in Threads : thread[i][u] = "stopped"
=============================================================================
