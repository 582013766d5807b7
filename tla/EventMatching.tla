---------------------------- MODULE EventMatching ---------------------------
(***************************************************************************)
(* The assembly of events in the evaluation: a ConfirmationMatcher joins   *)
(* logged packets with the confirmations of their probes                   *)
(* (evaluation/src/cse/logs/confirmationmatcher.py), a PhaseMatcher finds  *)
(* two-phase scans among them (PhaseStore), and an EventMatcher drives     *)
(* both and writes an hour half an hour after its end                      *)
(* (evaluation/src/cse/logs/eventmatcher.py).                              *)
(*                                                                         *)
(* The two logs are fixed at the start; a call of a reader returns any     *)
(* number of the lines that follow, and blocks at the end (LogReader).     *)
(***************************************************************************)
EXTENDS PhaseStore, FiniteSets, FiniteSetsExt

CONSTANTS
  Probed,       \* events whose log line has a probe request
  ProbeKey,     \* per event: what identifies its probe in a confirmation
  ProbeTimeout, \* probe_timeout
  LoadAhead,    \* confirmation_load_threshold
  Scenarios     \* what the logs may hold: records [events, ts, confirmations]

ASSUME MatcherAssumption ==
  /\ Probed \subseteq Events
  /\ ProbeTimeout \in Nat /\ LoadAhead \in Nat \ {0}

VARIABLES
  log,          \* events the reader has not returned yet
  conLog,       \* confirmations it has not returned: [key, ts] records
  pc,           \* "load" | "match" | "add"
  ets, cts,     \* newest timestamps, or None
  ccache,       \* confirmations, in the order they were loaded
  ecache,       \* events that wait for their confirmation
  batchOrder,   \* batch_id_order
  observed,     \* observed_batch_ids
  pending,      \* events: matched, but not passed on yet
  retransmitCache, \* retransmit_cache: <<batch, tuple>> pairs
  retransmits,  \* retransmits
  batchToDump,  \* batch_to_dump; next_dump_ts counts with it
  newest,       \* history: newest timestamp passed to the phase matcher
  written,      \* history: elements written, in order
  dropped,      \* history: events that were given up
  late          \* history: events passed on when their hour was written

readerVars == <<log, conLog, ets, cts>>
cacheVars == <<ccache, ecache, batchOrder, observed>>
phaseVars == <<stores, retransmitCache, retransmits>>
outVars == <<batchToDump, newest, written, dropped, late>>
vars == <<ts, confirmedAt, readerVars, pc, cacheVars, pending, phaseVars,
          outVars>>

CacheInit ==
  /\ confirmedAt = [e \in Events |-> None]
  /\ ets = None /\ cts = None
  /\ ccache = <<>> /\ ecache = <<>>
  /\ batchOrder = <<0, 1>> /\ observed = {0, 1}

LoopInit == pc = "load" /\ pending = <<>> /\ batchToDump = 0

(* Both readers start at the same hour, which has batch id 0. *)
Init ==
  /\ \E scenario \in Scenarios :
        /\ log = scenario.events /\ ts = scenario.ts
        /\ conLog = scenario.confirmations
  /\ CacheInit /\ LoopInit
  /\ stores = [k \in Keys |-> EmptyStore]
  /\ retransmitCache = {} /\ retransmits = <<>>
  /\ newest = None /\ written = <<>> /\ dropped = <<>> /\ late = {}

-----------------------------------------------------------------------------
(* Loading: the log that is behind, or both, as known before the loads. *)

Newer(old, times) == Max(times \cup (IF old = None THEN {} ELSE {old}))

WantsConfirmations == cts = None \/ cts - ets < LoadAhead
WantsEvents == ets = None \/ ets - cts < LoadAhead

LoadConfirmations ==
  IF WantsConfirmations
  THEN \E n \in 1 .. Len(conLog) :
         LET batch == SubSeq(conLog, 1, n)
         IN  /\ ccache' = ccache \o batch
             /\ conLog' = SubSeq(conLog, n + 1, Len(conLog))
             /\ cts' = Newer(cts, {c.ts : c \in ToSet(batch)})
  ELSE UNCHANGED <<ccache, conLog, cts>>

LoadEvents ==
  IF WantsEvents
  THEN \E n \in 1 .. Len(log) :
         LET batch == SubSeq(log, 1, n)
         IN  /\ ecache' = ecache \o batch
             /\ log' = SubSeq(log, n + 1, Len(log))
             /\ ets' = Newer(ets, {ts[e] : e \in ToSet(batch)})
  ELSE UNCHANGED <<ecache, log, ets>>

Load ==
  /\ pc = "load"
  /\ LoadConfirmations
  /\ LoadEvents
  /\ pc' = "match"
  /\ UNCHANGED <<ts, confirmedAt, batchOrder, observed, pending, phaseVars,
                 outVars>>

-----------------------------------------------------------------------------
(* match_events(): the cached events meet the cached confirmations. *)

Distance(a, b) == IF a > b THEN a - b ELSE b - a

(* find_confirmation(): the first one that fits is taken from the cache. *)
FindConfirmation(cache, e) ==
  SelectInSeq(cache, LAMBDA c : /\ c.key = ProbeKey[e]
                                /\ Distance(c.ts, ts[e]) <= ProbeTimeout)

MatchEvent(acc, e) ==
  LET i == FindConfirmation(acc.ccache, e)
  IN  IF e \notin Probed
      THEN [acc EXCEPT !.results = Append(@, e)]
      ELSE IF i # 0
      THEN [acc EXCEPT !.ccache = RemoveAt(@, i),
                       !.results = Append(@, e),
                       !.at = [@ EXCEPT ![e] = acc.ccache[i].ts]]
      ELSE [acc EXCEPT !.unmatched = Append(@, e)]

Matched ==
  FoldLeft(MatchEvent, [ccache |-> ccache, results |-> <<>>,
                        unmatched |-> <<>>, at |-> confirmedAt], ecache)

(* As soon as a third batch is observed, the oldest one is evicted: its    *)
(* confirmations, and its events that were not confirmed.                  *)
Seen == observed \cup {Batch(e) : e \in ToSet(ecache)}

Evicts == Cardinality(Seen) >= 3

Oldest == Head(batchOrder)

MatchEvents ==
  /\ pc = "match"
  /\ confirmedAt' = Matched.at
  /\ pending' = pending \o Matched.results
  /\ IF Evicts
     THEN /\ ccache' = SelectSeq(Matched.ccache,
                                 LAMBDA c : c.ts \div Hour # Oldest)
          /\ ecache' = SelectSeq(Matched.unmatched,
                                 LAMBDA e : Batch(e) # Oldest)
          /\ dropped' = dropped \o SelectSeq(Matched.unmatched,
                                             LAMBDA e : Batch(e) = Oldest)
          /\ batchOrder' = Tail(batchOrder)
                           \o SetToSeq(Seen \ ToSet(batchOrder))
          /\ observed' = Seen \ {Oldest}
     ELSE /\ ccache' = Matched.ccache /\ ecache' = Matched.unmatched
          /\ observed' = Seen
          /\ UNCHANGED <<dropped, batchOrder>>
  /\ pc' = "add"
  /\ UNCHANGED <<ts, readerVars, phaseVars, batchToDump, newest, written,
                 late>>

-----------------------------------------------------------------------------
(* The loop over the events: one is passed on, up to a checkpoint. *)

(* is_retransmit(): seen in this batch or in the one before. *)
IsRetransmit(e) ==
  \/ <<Batch(e), Tuple[e]>> \in retransmitCache
  \/ Batch(e) > 0 /\ <<Batch(e) - 1, Tuple[e]>> \in retransmitCache

(* add_event() *)
Forgotten(e) == Kind[e] = "rst" \/ (~IsRetransmit(e) /\ Kind[e] = "other")

StoresWith(e) ==
  IF Kind[e] = "rst" \/ IsRetransmit(e) THEN stores
  ELSE [stores EXCEPT ![Key[e]] = AddToStore(@, e)]

(* next_dump_ts *)
NextDump == (batchToDump + 1) * Hour + Hour \div 2

Due(e) == ts[e] >= NextDump

(* The checkpoint: try_match_everything() to evict().  Nothing is written  *)
(* and the checkpoint stays if the batch left no element.                  *)
Elements(checked) ==
  FlattenSeq(SetToSeq({Evicted(checked[k], batchToDump) : k \in Keys}))

Checkpoint(e) ==
  LET checked == [k \in Keys |-> MatchEverything(StoresWith(e)[k])]
      unwritten == {Unwritten(checked[k], batchToDump) : k \in Keys}
      seen == IF Kind[e] = "rst" THEN retransmitCache
              ELSE retransmitCache \cup {<<Batch(e), Tuple[e]>>}
  IN  /\ stores' = [k \in Keys |-> Remaining(checked[k], batchToDump)]
      /\ retransmitCache' = {r \in seen : r[1] # batchToDump}
      /\ retransmits' = <<>>
      /\ dropped' = dropped \o FlattenSeq(SetToSeq(unwritten))
                    \o retransmits
                    \o (IF Forgotten(e) \/ IsRetransmit(e) THEN <<e>> ELSE <<>>)
      /\ written' = written \o Elements(checked)
      /\ batchToDump' = IF Elements(checked) = <<>> THEN batchToDump
                        ELSE batchToDump + 1

Pass(e) ==
  /\ stores' = StoresWith(e)
  /\ retransmitCache' = IF Kind[e] = "rst" THEN retransmitCache
                        ELSE retransmitCache \cup {<<Batch(e), Tuple[e]>>}
  /\ retransmits' = IF Kind[e] # "rst" /\ IsRetransmit(e)
                    THEN Append(retransmits, e) ELSE retransmits
  /\ dropped' = IF Forgotten(e) THEN Append(dropped, e) ELSE dropped
  /\ UNCHANGED <<batchToDump, written>>

AddEvent ==
  /\ pc = "add" /\ pending # <<>>
  /\ LET e == Head(pending)
     IN  /\ newest' = Newer(newest, {ts[e]})
         /\ late' = late \cup (IF Batch(e) < batchToDump THEN {e} ELSE {})
         /\ IF Due(e)
            THEN Checkpoint(e) /\ pc' = "load"
            ELSE Pass(e) /\ pc' = "add"
  /\ pending' = Tail(pending)
  /\ UNCHANGED <<ts, confirmedAt, readerVars, cacheVars>>

EndLoop ==
  /\ pc = "add" /\ pending = <<>>
  /\ pc' = "load"
  /\ UNCHANGED <<ts, confirmedAt, readerVars, cacheVars, pending, phaseVars,
                 outVars>>

Next == Load \/ MatchEvents \/ AddEvent \/ EndLoop

Spec == Init /\ [][Next]_vars

-----------------------------------------------------------------------------
(* Properties. *)

PacketsOfAll(list) == FlattenSeq([i \in DOMAIN list |-> PacketsOf(list[i])])

InStore(s) ==
  s.isyns \o s.rsyns \o s.acks
  \o PacketsOfAll(s.iacked \o s.racked \o s.tpNoAck \o s.tp \o s.repeated)

Sequences(s) == ToSet(s.iacked \o s.racked \o s.tpNoAck \o s.tp)

(* A sequence holds what belongs together, in whatever order its packets   *)
(* and confirmations came: the second phase follows the confirmation of    *)
(* the first, and each ack answers the SYN it stands beside                *)
(* (phasematcher.py: try_match_...).                                       *)
FitsTogether(found) ==
  /\ found.isyn # None /\ found.rsyn # None
       => WithinTimeout(found.isyn, found.rsyn)
  /\ found.iack # None => IsMatchingAck(found.isyn, found.iack)
  /\ found.rack # None => IsMatchingAck(found.rsyn, found.rack)

(* What is written is written with the hour its first packet belongs to,   *)
(* and what the matcher still holds belongs to an hour that will be        *)
(* written, as only the current hour is ever evicted, unless that packet   *)
(* was passed on too late (phasematcher.py: evict; eventmatcher.py:        *)
(* batch_to_dump).                                                         *)
WrittenWithItsHour ==
  \A i \in DOMAIN written :
     LET found == written[i].found
         first == IF found.isyn # None THEN found.isyn ELSE found.rsyn
     IN  FitsTogether(found) /\ Batch(first) = written[i].batch

NoneLeftBehind ==
  \A k \in Keys :
     LET s == stores[k]
         firsts == ToSet(s.isyns) \cup ToSet(s.rsyns)
                   \cup {p2.rsyn : p2 \in ToSet(s.racked)}
                   \cup {x.isyn : x \in ToSet(s.iacked \o s.tpNoAck \o s.tp)}
     IN  \A e \in firsts \ late : Batch(e) >= batchToDump

(* No event is lost, doubled or put where it does not belong on its way    *)
(* through the caches: each one of the log is in exactly one list, beside  *)
(* the packets it belongs to and, if it was passed on in time, before its  *)
(* hour is written, or was written in one element, with its hour, or was   *)
(* given up for a reason (confirmationmatcher.py, phasematcher.py: moves   *)
(* between lists, deletions by index, filters).  The batch ids in the      *)
(* order of their eviction are those that were observed.                   *)
EveryEventInOnePlace ==
  LET places == log \o ecache \o pending \o retransmits \o dropped
                \o PacketsOfAll([i \in DOMAIN written |-> written[i].found])
                \o FlattenSeq(SetToSeq({InStore(stores[k]) : k \in Keys}))
  IN  /\ IsInjective(batchOrder) /\ ToSet(batchOrder) = observed
      /\ IsInjective(places)
      /\ ToSet(places) = {e \in Events : ts[e] # None}
      /\ \A k \in Keys : \A found \in Sequences(stores[k]) : FitsTogether(found)
      /\ WrittenWithItsHour
      /\ NoneLeftBehind

(* The second phases of a key that are paired with a first one. *)
Paired(s, elements) ==
  {ev.rsyn : ev \in {x \in ToSet(s.tpNoAck \o s.tp) \cup
                           {elements[i].found : i \in DOMAIN elements} :
                       x.isyn # None /\ x.rsyn # None}}

(* A checkpoint leaves no ack beside the SYN it answers.  It leaves a      *)
(* second phase beside a first one that it fits only if it found the       *)
(* partner of another one of the key, after which it looks no further      *)
(* (phasematcher.py: try_match_everything, whose loops over the SYNs of a  *)
(* key end with the first match).                                          *)
CheckpointMatchesAll ==
  [][pc = "add" /\ pc' = "load" /\ pending # <<>> =>
       \A k \in Keys :
         LET s == stores'[k]
             firsts == ToSet(s.isyns) \cup {p1.isyn : p1 \in ToSet(s.iacked)}
             seconds == ToSet(s.rsyns) \cup {p2.rsyn : p2 \in ToSet(s.racked)}
             unanswered == ToSet(s.isyns) \cup ToSet(s.rsyns)
                           \cup {ev.rsyn : ev \in ToSet(s.tpNoAck)}
             found == {e \in Paired(s, written') \ Paired(stores[k], written) :
                         Key[e] = k /\ e # Head(pending)}
         IN  /\ \A ack \in ToSet(s.acks), syn \in unanswered :
                   ~IsMatchingAck(syn, ack)
             /\ \/ found # {}
                \/ \A isyn \in firsts, rsyn \in seconds :
                      ~WithinTimeout(isyn, rsyn)]_vars

(* Not so: "Start dumping data 30 min past the end hour"                   *)
(* (eventmatcher.py:50), so that it has come by then.  An event waits for  *)
(* its confirmation while later ones, which were read with it, pass; what  *)
(* is passed on after its hour was written is never written.               *)
NoneComesTooLate == late = {}

(* Not so: "Start dumping data 30 min past the end hour"                   *)
(* (eventmatcher.py:50).  After an hour without elements the checkpoint    *)
(* that is due stays for ever.                                             *)
DumpsHalfPast == newest # None => newest < NextDump + Hour
=============================================================================
