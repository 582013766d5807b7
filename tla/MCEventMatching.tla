--------------------------- MODULE MCEventMatching --------------------------
(***************************************************************************)
(* Instances of the event matching for TLC.  Times are ordered as in the   *)
(* code: a second, the wait for a probe's confirmation, the wait for a     *)
(* second phase, half an hour.  The packets of a two-phase scan, of two of *)
(* them, or a SYN and its retransmit, come in any order about the end of   *)
(* an hour, with confirmations that come at once, in time or too late,     *)
(* among packets of another key that keep the clock going.                 *)
(***************************************************************************)
EXTENDS EventMatching

CONSTANTS
  Groups,  \* sets of packets of the scanner that a log holds
  Times,   \* when they are received
  Held,    \* how long their shard may hold them before they are logged
  Delays,  \* delays of a confirmation
  Fillers, \* times of the packets of the other key
  Others   \* times of confirmations that belong to no event

Scanner == {"i1", "i2", "d1", "r1", "r2", "r3", "a1", "a2"}
FillerAt == [f0 |-> 0, f1 |-> 12, f2 |-> 18, f3 |-> 24, f4 |-> 30]

MCEvents == Scanner \cup DOMAIN FillerAt
MCKind == [e \in MCEvents |-> CASE e \in {"r1", "r2", "r3"} -> "rsyn"
                                [] e \in {"a1", "a2"} -> "ack"
                                [] OTHER -> "isyn"]
MCKey == [e \in MCEvents |-> IF e \in Scanner THEN "scan" ELSE "other"]
MCTuple == [e \in MCEvents |-> IF e = "d1" THEN "i1" ELSE e]
MCAnswers == [e \in MCEvents |-> CASE e = "a1" -> "i1"
                                   [] e = "a2" -> "r1"
                                   [] OTHER -> None]
MCProbed == {"i1", "i2", "d1", "r1"}

FillersIn == {e \in DOMAIN FillerAt : FillerAt[e] \in Fillers}

(* The packets of a group in an order, with times that do not decrease.    *)
Orders == UNION {SetToSeqs(group) : group \in Groups}

TimesOf(order) ==
  {f \in [DOMAIN order -> Times] :
     \A i, j \in DOMAIN order : i < j => f[i] <= f[j]}

TimeOf(order, f) ==
  [e \in MCEvents |->
     IF e \in ToSet(order) THEN f[CHOOSE i \in DOMAIN order : order[i] = e]
     ELSE IF e \in FillersIn THEN FillerAt[e] ELSE None]

(* The members of a set in the order of their times, the first one 0.      *)
InOrder(S, TimeAt(_), last) ==
  FlattenSeq([k \in 1 .. last + 1 |-> SetToSeq({x \in S : TimeAt(x) = k - 1})])

(* The packets of the scanner keep their order; one of the other key is    *)
(* logged after those that were logged by its time.                        *)
LogOf(order, ts0, held) ==
  LET fillers == InOrder(FillersIn, LAMBDA e : ts0[e], Max(Fillers))
      before(i) == IF i = 0 THEN 0
                   ELSE Cardinality({e \in ToSet(order) :
                                       ts0[e] + held <= ts0[fillers[i]]})
  IN  FlattenSeq([i \in DOMAIN fillers |->
                    SubSeq(order, before(i - 1) + 1, before(i)) \o <<fillers[i]>>])
      \o SubSeq(order, before(Len(fillers)) + 1, Len(order))

ConfirmationsOf(ts0, delay) ==
  InOrder({[key |-> MCTuple[e], ts |-> ts0[e] + delay[e]] : e \in DOMAIN delay}
          \cup {[key |-> "none", ts |-> t] : t \in Others},
          LAMBDA c : c.ts, Max(Others))

MCScenarios ==
  UNION {UNION {
    LET ts0 == TimeOf(order, f)
    IN  {[events |-> LogOf(order, ts0, held), ts |-> ts0,
          confirmations |-> ConfirmationsOf(ts0, delay)] :
         delay \in [MCProbed \cap ToSet(order) -> Delays], held \in Held}
    : f \in TimesOf(order)} : order \in Orders}
=============================================================================
