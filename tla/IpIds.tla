-------------------------------- MODULE IpIds --------------------------------
(***************************************************************************)
(* The analysis of IP IDs (analysis/classify.cpp, consistency.cpp): a task *)
(* (task.hpp) has the packet that triggered it and the replies to probes.  *)
(* The replies are classified by the distances of their IDs; the trigger   *)
(* is consistent with them if one counter may have numbered them all.      *)
(* Here the host that sent them has such a counter, and the history says   *)
(* by how much it has really moved between two packets.                    *)
(***************************************************************************)
EXTENDS Integers, Sequences, FiniteSets, Regression

CONSTANTS
  Space,            \* number of IDs, 2^16 in the code
  RandomThreshold, Tolerance,         \* of the classifiers
  IpidThreshold,                      \* ipid_treshold
  Bounds,           \* of prediction errors, per protocol: see BoundType
  MinInterval,                        \* min_interval
  Intervals,        \* the prediction intervals that may be computed
  FirstIds, Steps, Gaps,   \* inputs: IDs of triggers, steps and milliseconds
  MaxReplies,       \* bound: replies
  NumProbes         \* num_probes

(* Slopes in hundredths and constants below and above; a protocol that is   *)
(* not supported has only zeros.                                            *)
BoundType == [sl : Nat, cl : Nat, sh : Nat, ch : Nat]

ASSUME IpIdAssumption ==
  /\ {Space, RandomThreshold, Tolerance, IpidThreshold,
      MinInterval, MaxReplies, NumProbes} \subseteq Nat
  /\ Bounds \subseteq BoundType
  /\ Tolerance < RandomThreshold /\ RandomThreshold < Space
  /\ FirstIds \subseteq 0 .. Space - 1 /\ Steps \subseteq 0 .. Space - 1
  /\ Intervals \subseteq Nat /\ Gaps \subseteq Nat

VARIABLES
  initial,     \* ID of the trigger, which is observed at time zero
  replies,     \* packets: pairs of ID and time
  type,        \* type
  consistent,  \* what thesis() or regression() has returned
  checked,     \* whether one of them was called
  steps        \* history: by how much the counter moved before each reply

taskVars == <<initial, replies, type, consistent, checked, steps>>

TaskInit ==
  /\ initial \in FirstIds
  /\ replies = <<>> /\ steps = <<>>
  /\ type = "unchecked" /\ consistent = FALSE /\ checked = FALSE

LastOf(s) == s[Len(s)]

Reply ==
  /\ Len(replies) < MaxReplies /\ type = "unchecked"
  /\ \E step \in Steps, gap \in Gaps :
       LET last == IF replies = <<>> THEN <<initial, 0>> ELSE LastOf(replies)
       IN  /\ replies' = Append(replies, <<(last[1] + step) % Space, last[2] + gap>>)
           /\ steps' = Append(steps, step)
  /\ UNCHANGED <<initial, type, consistent, checked>>

-----------------------------------------------------------------------------
(* Classification. *)

(* dist(): the difference is taken in the width of an ID, and then the     *)
(* largest ID added and not their number.                                  *)
Dist_Swapped(lhs, rhs) == (lhs - rhs + (IF rhs < lhs THEN Space - 1 ELSE 0)) % Space

Dist(lhs, rhs) == (rhs - lhs + (IF rhs < lhs THEN Space - 1 ELSE 0)) % Space

IpidDistances(pkts) == [i \in 1 .. Len(pkts) - 1 |-> Dist(pkts[i][1], pkts[i + 1][1])]

Trivial(pkts) ==
  LET diffs == {IpidDistances(pkts)[i] : i \in 1 .. Len(pkts) - 1}
  IN  CASE Len(pkts) < 2 -> "unchecked"
        [] Len(pkts) >= 2 /\ diffs = {0} -> "constant"
        [] Len(pkts) >= 2 /\ \E d \in diffs : d > RandomThreshold -> "random"
        [] Len(pkts) >= 2 /\ diffs # {0} /\ \A d \in diffs : d <= Tolerance -> "monotonic"
        [] OTHER -> "other"

Occurrences(pkts, id) == Cardinality({i \in DOMAIN pkts : pkts[i][1] = id})

Midarmm(pkts) ==
  LET enough == (3 * NumProbes + 2) \div 4
      degenerate == (Len(pkts) + 2) \div 4
      unknown == Len(pkts) < 2 \/ Len(pkts) < enough
      repeats == \E i \in DOMAIN pkts : Occurrences(pkts, pkts[i][1]) > degenerate
      near == \A i \in 1 .. Len(pkts) - 1 : IpidDistances(pkts)[i] <= Tolerance
  IN  CASE unknown -> "unchecked"
        [] ~unknown /\ repeats -> "constant"
        [] ~unknown /\ ~repeats /\ near -> "monotonic"
        [] OTHER -> "other"

Classify ==
  /\ type = "unchecked"
  /\ type' \in {Trivial(replies), Midarmm(replies)}
  /\ UNCHANGED <<initial, replies, consistent, checked, steps>>

-----------------------------------------------------------------------------
(* Consistency. *)

MonotonicityTest == replies # <<>> /\ type = "monotonic"

ThresholdTest ==
  LET probe == replies[1][1]
  IN  IF initial <= probe THEN Dist(initial, probe) < IpidThreshold
      ELSE Dist(probe, initial) > Space - 1 - IpidThreshold

(* A distance and the time it took. *)
Velocity == <<Dist(replies[1][1], LastOf(replies)[1]), LastOf(replies)[2] - replies[1][2]>>

DeltaT == LastOf(replies)[2]

DeltaA_First == Dist(initial, replies[1][1])

DeltaA == Dist(initial, LastOf(replies)[1])

(* dA - dE is within bounds that grow with dE.  Replies of one millisecond *)
(* have an infinite velocity: where the bounds grow without end too, all    *)
(* is within them; else, and without a velocity, a bound is not a number.   *)
Thesis(b) ==
  /\ MonotonicityTest /\ ThresholdTest
  /\ LET moved == Velocity[1] * DeltaT
         error == 100 * (DeltaA * Velocity[2] - moved)
         finite == /\ error >= -(b.sl * moved + 100 * b.cl * Velocity[2])
                   /\ error <= b.sh * moved + 100 * b.ch * Velocity[2]
         infinite == moved > 0 /\ b.sl > 0 /\ b.sh > 0
     IN  IF Velocity[2] > 0 THEN finite ELSE infinite

ReplyTimes == [i \in DOMAIN replies |-> replies[i][2]]
ReplyIds == [i \in DOMAIN replies |-> replies[i][1]]

(* A prediction beyond the IDs is moved by the largest ID and then cut off *)
(* to an integer.                                                          *)
InRange(p) ==
  LET max == Space - 1
      low == IF p[1] > max * p[2] THEN p[1] - ((p[1] - 1) \div (max * p[2])) * max * p[2] ELSE p[1]
      up == IF low < 0 THEN low + ((-low + max * p[2] - 1) \div (max * p[2])) * max * p[2] ELSE low
  IN  up \div p[2]

(* The bounds of the interval have the width of an ID; they are compared   *)
(* as integers of a larger one.                                            *)
CheckInterval(actual, prediction, interval) ==
  LET upper == (prediction + interval) % Space
      lower == (prediction - interval) % Space
  IN  actual - lower <= upper - lower

(* With two replies the interval is not a number, or infinite (here: too   *)
(* large) if the slope was rounded.  Replies of one millisecond have no    *)
(* line through them, which is cast to an integer all the same (undefined: *)
(* any prediction).                                                        *)
RegressionTest(interval, undefined) ==
  /\ MonotonicityTest /\ ThresholdTest
  /\ LET line == LeastSquaresMethod(ReplyTimes, ReplyIds)
         known == Len(replies) > 2 /\ ~Undefined(line.m) /\ interval >= MinInterval
         rounded == Len(replies) = 2 /\ ~Undefined(line.m) /\ line.m[1] % line.m[2] # 0
     IN  /\ known \/ rounded => interval <= (Space - 1) \div 4
         /\ CheckInterval(initial, IF Undefined(line.m) THEN undefined ELSE InRange(line.b),
                          IF known THEN interval ELSE MinInterval)

CheckThesis ==
  /\ type # "unchecked" /\ ~checked
  /\ \E b \in Bounds : consistent' = Thesis(b)
  /\ checked' = TRUE
  /\ UNCHANGED <<initial, replies, type, steps>>

CheckRegression ==
  /\ type # "unchecked" /\ ~checked
  /\ \E interval \in Intervals, undefined \in 0 .. Space - 1 :
       consistent' = RegressionTest(interval, undefined)
  /\ checked' = TRUE
  /\ UNCHANGED <<initial, replies, type, steps>>

TaskNext == Reply \/ Classify \/ CheckThesis \/ CheckRegression

TaskSpec == TaskInit /\ [][TaskNext]_taskVars

-----------------------------------------------------------------------------
(* Properties *)

(* The step to reply i goes over the last ID. *)
Wraps(i) == (IF i = 1 THEN initial ELSE replies[i - 1][1]) + steps[i] >= Space

Between == {steps[i] : i \in 2 .. Len(steps)}

(* A distance over the last ID is one short, so steps one above a limit    *)
(* are taken for the limit, and a step of one for none.                    *)
OneShort ==
  \E i \in 1 .. Len(steps) :
    Wraps(i) /\ steps[i] \in {1, Tolerance + 1, RandomThreshold + 1, IpidThreshold}

(* But for those, a task is judged by how its host has really counted:     *)
(* whether it does not count, jumps, or moves on by little; whether the    *)
(* first reply is less than a threshold ahead of the trigger, with its     *)
(* distance taken in either direction.  The two classifiers do not         *)
(* contradict each other.                                                  *)
StepsAreJudged ==
  ~OneShort =>
    /\ Len(steps) > 1 =>
         /\ Trivial(replies) = "constant" <=> Between = {0}
         /\ Trivial(replies) = "random" <=> \E s \in Between : s > RandomThreshold
         /\ Trivial(replies) = "monotonic" <=>
              Between # {0} /\ \A s \in Between : s <= Tolerance
         /\ Midarmm(replies) = "monotonic" => Trivial(replies) = "monotonic"
    /\ Len(steps) > 0 => (ThresholdTest <=> steps[1] < IpidThreshold)

CountsEvenly(rate) ==
  \A i \in DOMAIN steps :
    steps[i] = rate * (replies[i][2] - (IF i = 1 THEN 0 ELSE replies[i - 1][2]))

(* A host that counts evenly and has come less than once around is         *)
(* consistent by its thesis, if the protocol is supported.  The distance   *)
(* over the last ID is one short: between the first reply and the last     *)
(* one this does not matter as long as the first has not waited for longer *)
(* than the bounds make up for.                                            *)
PassesThesis(rate) ==
  rate * DeltaT < Space =>
    \A b \in Bounds :
      /\ b.cl > 0
      /\ (\A i \in 2 .. Len(steps) : ~Wraps(i)) \/ replies[1][2] <= b.ch * Velocity[2]
      => Thesis(b)

(* By the regression it is consistent if its IDs do not go over the last   *)
(* one, and not if they come too near.                                     *)
PassesRegression(rate) ==
  initial + rate * DeltaT < Space =>
    \A interval \in Intervals :
      LET used == IF interval < MinInterval \/ Len(replies) = 2 THEN MinInterval ELSE interval
      IN  interval <= (Space - 1) \div 4 /\ used <= initial /\ initial + used < Space
          => RegressionTest(interval, 0)

Honest(rate) == CountsEvenly(rate) /\ MonotonicityTest /\ ThresholdTest

(* Hosts with a counter that moves at a steady rate pass the test of the    *)
(* thesis, but for what PassesThesis leaves out.                           *)
HonestHostsPass == \A rate \in 1 .. Space : Honest(rate) => PassesThesis(rate)

(* The line that is fitted to the replies is the best one, as FitIsBest     *)
(* says, and such hosts pass the test that is based on it, but for what    *)
(* PassesRegression leaves out.                                            *)
FitsAreBest ==
  /\ Len(replies) > 1 /\ ~Undefined(LeastSquaresMethod(ReplyTimes, ReplyIds).m)
     => FitIsBest(ReplyTimes, ReplyIds)
  /\ \A rate \in 1 .. Space : Honest(rate) => PassesRegression(rate)
=============================================================================
