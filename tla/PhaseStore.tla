------------------------------ MODULE PhaseStore -----------------------------
(***************************************************************************)
(* The phase matcher of the evaluation                                     *)
(* (evaluation/src/cse/logs/phasematcher.py): it finds two-phase scans, an *)
(* irregular SYN that is followed by a regular one once the first was      *)
(* answered.  Its dictionaries map a key, the two addresses and a port, to *)
(* lists; keys never interact, so a store here is what all dictionaries    *)
(* hold for one key, and an operator returns the store after the call.  A  *)
(* try_match_... that returns False leaves the store as it is, and one     *)
(* that returns True changes it.                                           *)
(***************************************************************************)
EXTENDS Integers, Sequences, SequencesExt

CONSTANTS
  Events,       \* logged packets
  Kind,         \* per event: "isyn" | "rsyn" | "ack" | "rst" | "other"
  Key,          \* per event: key of its packet
  Tuple,        \* per event: addresses, ports and sequence number
  Answers,      \* per ack: the probed SYN whose probe it acknowledges
  PhaseTimeout, \* phase_timeout_s
  Skew,         \* a second: how much too early a second phase may seem
  Hour,         \* ticks of an hour
  None

ASSUME PhaseAssumption ==
  /\ Kind \in [Events -> {"isyn", "rsyn", "ack", "rst", "other"}]
  /\ Answers \in [Events -> Events \cup {None}]
  /\ PhaseTimeout \in Nat /\ Skew \in Nat /\ Hour \in Nat \ {0}
  /\ None \notin Events

VARIABLES
  ts,          \* per event: time of the packet, fixed at the start
  confirmedAt, \* per event: time of its probe_confirmation, or None
  stores       \* per key: the dictionaries of the phase matcher

Keys == {Key[e] : e \in Events}

EmptyStore ==
  [isyns |-> <<>>,    \* irregular_syns
   rsyns |-> <<>>,    \* regular_syns
   acks |-> <<>>,     \* acks
   iacked |-> <<>>,   \* irregular_acked
   racked |-> <<>>,   \* regular_acked
   tpNoAck |-> <<>>,  \* two_phase_no_ack
   tp |-> <<>>,       \* two_phase
   repeated |-> <<>>] \* repeated_connection_attempts

(* What the lists from irregular_acked on hold: the packets of a sequence. *)
Found(isyn, iack, rsyn, rack) ==
  [isyn |-> isyn, iack |-> iack, rsyn |-> rsyn, rack |-> rack]

-----------------------------------------------------------------------------
(* is_within_timeout(): the second phase comes soon after the confirmation *)
(* of the first one's probe, or a second before it.                        *)
WithinTimeout(isyn, rsyn) ==
  /\ confirmedAt[isyn] # None
  /\ \/ /\ confirmedAt[isyn] <= ts[rsyn]
        /\ ts[rsyn] - confirmedAt[isyn] < PhaseTimeout
     \/ /\ ts[rsyn] < confirmedAt[isyn]
        /\ confirmedAt[isyn] - ts[rsyn] <= Skew

IsMatchingAck(syn, ack) == Answers[ack] = syn

TryRsynToIsyn(s, rsyn) ==
  LET i == SelectInSeq(s.isyns, LAMBDA isyn : WithinTimeout(isyn, rsyn))
  IN  IF i = 0 THEN s
      ELSE [s EXCEPT !.isyns = RemoveAt(@, i),
                     !.tpNoAck = Append(@, Found(s.isyns[i], None, rsyn, None))]

TryRsynToIsynAcked(s, rsyn) ==
  LET i == SelectInSeq(s.iacked, LAMBDA p1 : WithinTimeout(p1.isyn, rsyn))
  IN  IF i = 0 THEN s
      ELSE [s EXCEPT !.iacked = RemoveAt(@, i),
                     !.tpNoAck = Append(@, [s.iacked[i] EXCEPT !.rsyn = rsyn])]

TryRsynAckedToIsyn(s, p2) ==
  LET i == SelectInSeq(s.isyns, LAMBDA isyn : WithinTimeout(isyn, p2.rsyn))
  IN  IF i = 0 THEN s
      ELSE [s EXCEPT !.isyns = RemoveAt(@, i),
                     !.tp = Append(@, [p2 EXCEPT !.isyn = s.isyns[i]])]

TryRsynAckedToIsynAcked(s, p2) ==
  LET i == SelectInSeq(s.iacked, LAMBDA p1 : WithinTimeout(p1.isyn, p2.rsyn))
  IN  IF i = 0 THEN s
      ELSE [s EXCEPT !.iacked = RemoveAt(@, i),
                     !.tp = Append(@, [p2 EXCEPT !.isyn = s.iacked[i].isyn,
                                                 !.iack = s.iacked[i].iack])]

TryAckToIsyn(s, ack) ==
  LET i == SelectInSeq(s.isyns, LAMBDA syn : IsMatchingAck(syn, ack))
  IN  IF i = 0 THEN s
      ELSE [s EXCEPT !.isyns = RemoveAt(@, i),
                     !.iacked = Append(@, Found(s.isyns[i], ack, None, None))]

TryAckToRsyn(s, ack) ==
  LET i == SelectInSeq(s.rsyns, LAMBDA syn : IsMatchingAck(syn, ack))
  IN  IF i = 0 THEN s
      ELSE [s EXCEPT !.rsyns = RemoveAt(@, i),
                     !.racked = Append(@, Found(None, None, s.rsyns[i], ack))]

(* Only the second phase of a two-phase event is looked at. *)
TryAckToTp(s, ack) ==
  LET i == SelectInSeq(s.tpNoAck, LAMBDA ev : IsMatchingAck(ev.rsyn, ack))
  IN  IF i = 0 THEN s
      ELSE [s EXCEPT !.tpNoAck = RemoveAt(@, i),
                     !.tp = Append(@, [s.tpNoAck[i] EXCEPT !.rack = ack])]

(* The first of three attempts that changes the store. *)
FirstOf(s, a, b, c) == IF a # s THEN a ELSE IF b # s THEN b ELSE c

TryRsyn(s, rsyn) ==
  FirstOf(s, TryRsynToIsyn(s, rsyn), TryRsynToIsynAcked(s, rsyn), s)

TryAck(s, ack) ==
  FirstOf(s, TryAckToRsyn(s, ack), TryAckToIsyn(s, ack), TryAckToTp(s, ack))

TryRsynAcked(s, p2) ==
  FirstOf(s, TryRsynAckedToIsyn(s, p2), TryRsynAckedToIsynAcked(s, p2), s)

-----------------------------------------------------------------------------
(* add_event(), for an event that is neither a reset nor a retransmit. *)

AddRsyn(s, rsyn) ==
  IF TryRsyn(s, rsyn) # s THEN TryRsyn(s, rsyn)
  ELSE [s EXCEPT !.rsyns = Append(@, rsyn)]

AddAck(s, ack) ==
  IF TryAck(s, ack) # s THEN TryAck(s, ack)
  ELSE [s EXCEPT !.acks = Append(@, ack)]

AddToStore(s, e) ==
  CASE Kind[e] = "isyn"  -> [s EXCEPT !.isyns = Append(@, e)]
    [] Kind[e] = "rsyn"  -> AddRsyn(s, e)
    [] Kind[e] = "ack"   -> AddAck(s, e)
    [] Kind[e] = "other" -> s

-----------------------------------------------------------------------------
(* try_match_everything(): every ack is tried again, and one regular SYN   *)
(* and one acknowledged regular SYN of the key are matched.                *)

MatchAcks_Not(s) == s
MatchAcks(s) == FoldLeft(AddAck, [s EXCEPT !.acks = <<>>], s.acks)

MatchOneRsyn_Keeps(s) ==
  LET i == SelectInSeq(s.rsyns, LAMBDA rsyn : TryRsyn(s, rsyn) # s)
  IN  IF i = 0 THEN s ELSE TryRsyn(s, s.rsyns[i])
MatchOneRsyn(s) ==
  LET i == SelectInSeq(s.rsyns, LAMBDA rsyn : TryRsyn(s, rsyn) # s)
  IN  IF i = 0 THEN s
      ELSE [TryRsyn(s, s.rsyns[i]) EXCEPT !.rsyns = RemoveAt(@, i)]

MatchOneRsynAcked(s) ==
  LET i == SelectInSeq(s.racked, LAMBDA p2 : TryRsynAcked(s, p2) # s)
  IN  IF i = 0 THEN s
      ELSE [TryRsynAcked(s, s.racked[i]) EXCEPT !.racked = RemoveAt(@, i)]

(* find_repeated_connections(): an acknowledged regular SYN that fits the  *)
(* first phase of a two-phase event repeats its second phase.              *)
Repeats(s, p2) ==
  \E ev \in ToSet(s.tpNoAck) \cup ToSet(s.tp) :
     WithinTimeout(ev.isyn, p2.rsyn)

FindRepeated(s) ==
  [s EXCEPT !.racked = SelectSeq(@, LAMBDA p2 : ~Repeats(s, p2)),
            !.repeated = @ \o SelectSeq(s.racked, LAMBDA p2 : Repeats(s, p2))]

MatchEverything(s) ==
  FindRepeated(MatchOneRsynAcked(MatchOneRsyn(MatchAcks(s))))

-----------------------------------------------------------------------------
(* evict(): what began in a batch leaves the store, with the tag of the    *)
(* list it was in; acks and repeated connections are not written.          *)

(* The batch of an event is the hour of the log it was read from. *)
Batch(e) == ts[e] \div Hour

(* filter_list() and filter_dict_elems() take what has the batch id. *)
Gone(e, batch) == Batch(e) = batch

Remaining(s, batch) ==
  LET keeps(e) == ~Gone(e, batch)
      keepsIsyn(x) == keeps(x.isyn)
      keepsRsyn(x) == keeps(x.rsyn)
  IN  [isyns |-> SelectSeq(s.isyns, keeps),
       rsyns |-> SelectSeq(s.rsyns, keeps),
       acks |-> SelectSeq(s.acks, keeps),
       iacked |-> SelectSeq(s.iacked, keepsIsyn),
       racked |-> SelectSeq(s.racked, keepsRsyn),
       tpNoAck |-> SelectSeq(s.tpNoAck, keepsIsyn),
       tp |-> SelectSeq(s.tp, keepsIsyn),
       repeated |-> <<>>]

(* What is written, and what is dropped without being written. *)
Evicted(s, batch) ==
  LET gone(e) == Gone(e, batch)
      goneIsyn(x) == gone(x.isyn)
      goneRsyn(x) == gone(x.rsyn)
      tagged(tag, list) ==
        [i \in DOMAIN list |-> [tag |-> tag, batch |-> batch, found |-> list[i]]]
      asIsyn(list) == [i \in DOMAIN list |-> Found(list[i], None, None, None)]
      asRsyn(list) == [i \in DOMAIN list |-> Found(None, None, list[i], None)]
  IN  tagged("isyn", asIsyn(SelectSeq(s.isyns, gone)))
      \o tagged("rsyn", asRsyn(SelectSeq(s.rsyns, gone)))
      \o tagged("isyn (acked)", SelectSeq(s.iacked, goneIsyn))
      \o tagged("rsyn (acked)", SelectSeq(s.racked, goneRsyn))
      \o tagged("two-phase (no ack)", SelectSeq(s.tpNoAck, goneIsyn))
      \o tagged("two-phase", SelectSeq(s.tp, goneIsyn))

(* The packets of a sequence that was found, the absent ones left out. *)
PacketsOf(found) ==
  SelectSeq(<<found.isyn, found.iack, found.rsyn, found.rack>>,
            LAMBDA e : e # None)

Unwritten(s, batch) ==
  SelectSeq(s.acks, LAMBDA e : Batch(e) = batch)
  \o FlattenSeq([i \in DOMAIN s.repeated |-> PacketsOf(s.repeated[i])])
=============================================================================
