------------------------------ MODULE HashRing -------------------------------
(***************************************************************************)
(* The consistent hash map (libspoki/spoki/consistent_hash_map.hpp): a map *)
(* from points of a ring to buckets.  A key belongs to the bucket at the   *)
(* first point not before its hash, over the end of the ring if need be.   *)
(* next() and previous() walk over the ring from the point of a bucket, in *)
(* either direction, and collect others; nothing changes meanwhile.        *)
(***************************************************************************)
EXTENDS Integers, FiniteSets

CONSTANTS
  Buckets,
  Points,    \* the values of hashes
  HashOf,    \* hash_: the point of each bucket
  Counts     \* numbers of buckets that are asked for

ASSUME RingAssumption ==
  /\ Points \subseteq Nat /\ IsFiniteSet(Points)
  /\ HashOf \in [Buckets -> Points] /\ Counts \subseteq Nat

VARIABLES
  ring,      \* ring_: a function on the points that are taken
  walk       \* the call of next() or previous() that runs, or the last one

ringVars == <<ring, walk>>

(* at: itr.  A walk that has not begun is one that has ended with nothing. *)
NoWalk == [way |-> "next", of |-> CHOOSE b \in Buckets : TRUE, n |-> 0, at |-> 0,
           result |-> {}, running |-> FALSE]

NoRing == [p \in {} |-> CHOOSE b \in Buckets : TRUE]

RingInit == ring = NoRing /\ walk = NoWalk

-----------------------------------------------------------------------------
(* Positions.  S is a non-empty set of points. *)

Least(S) == CHOOSE p \in S : \A q \in S : p <= q

Greatest(S) == CHOOSE p \in S : \A q \in S : q <= p

(* lower_bound(), and the first point after the end. *)
Owner(S, h) ==
  IF \E p \in S : p >= h THEN Least({p \in S : p >= h}) ELSE Least(S)

(* upper_bound() or itr++, and the first point after the end. *)
After(S, h) ==
  IF \E p \in S : p > h THEN Least({p \in S : p > h}) ELSE Least(S)

(* itr--, and the last point before the begin. *)
Before(S, h) ==
  IF \E p \in S : p < h THEN Greatest({p \in S : p < h}) ELSE Greatest(S)

Resolve(h) == ring[Owner(DOMAIN ring, h)]

-----------------------------------------------------------------------------
(* Changing the ring. *)

(* std::map::insert() leaves a point alone that is taken. *)
Insert_Overwrites(p, b) ==
  /\ ~walk.running
  /\ ring' = [q \in DOMAIN ring \cup {p} |-> IF q = p THEN b ELSE ring[q]]
  /\ UNCHANGED walk

Insert(p, b) ==
  /\ ~walk.running
  /\ ring' = [q \in DOMAIN ring \cup {p} |-> IF q \in DOMAIN ring THEN ring[q] ELSE b]
  /\ UNCHANGED walk

InsertBucket(b) == Insert(HashOf[b], b)

Without(S) == [q \in DOMAIN ring \ S |-> ring[q]]

Erase(p) ==
  /\ ~walk.running /\ p \in DOMAIN ring
  /\ ring' = Without({p})
  /\ UNCHANGED walk

EraseAll(b) ==
  /\ ~walk.running
  /\ ring' = Without({p \in DOMAIN ring : ring[p] = b})
  /\ UNCHANGED walk

Clear ==
  /\ ~walk.running
  /\ ring' = NoRing
  /\ UNCHANGED walk

-----------------------------------------------------------------------------
(* next(b, n) and previous(b, n). *)

Begin(way, b, n, at) ==
  /\ ~walk.running /\ DOMAIN ring # {}
  /\ walk' = [way |-> way, of |-> b, n |-> n, at |-> at, result |-> {},
              running |-> TRUE]
  /\ UNCHANGED ring

NextBuckets_LowerBound(b, n) == Begin("next", b, n, Owner(DOMAIN ring, HashOf[b]))

NextBuckets(b, n) == Begin("next", b, n, After(DOMAIN ring, HashOf[b]))

PreviousBuckets(b, n) == Begin("previous", b, n, Before(DOMAIN ring, HashOf[b]))

(* The loop ends at the point it began from, or with enough buckets. *)
Walk ==
  /\ walk.running
  /\ IF walk.at = HashOf[walk.of] \/ Cardinality(walk.result) >= walk.n
     THEN walk' = [walk EXCEPT !.running = FALSE]
     ELSE walk' = [walk EXCEPT
            !.result = IF ring[walk.at] = walk.of THEN @ ELSE @ \cup {ring[walk.at]},
            !.at = IF walk.way = "next" THEN After(DOMAIN ring, @)
                   ELSE Before(DOMAIN ring, @)]
  /\ UNCHANGED ring

RingNext ==
  \/ \E b \in Buckets, p \in Points : Insert(p, b)
  \/ \E b \in Buckets : InsertBucket(b) \/ EraseAll(b)
  \/ \E p \in Points : Erase(p)
  \/ Clear
  \/ \E b \in Buckets, n \in Counts : NextBuckets(b, n) \/ PreviousBuckets(b, n)
  \/ Walk

RingSpec == RingInit /\ [][RingNext]_ringVars

-----------------------------------------------------------------------------
(* Properties                                                              *)

(* What a consistent hash is for: a change of the ring moves a key from    *)
(* one bucket to another only if the point it belonged to is taken away,   *)
(* or the one it belongs to now is new.                                    *)
KeysStay ==
  \A h \in Points :
    DOMAIN ring # {} /\ DOMAIN ring' # {} /\ Resolve(h)' # Resolve(h) =>
      \/ Owner(DOMAIN ring, h) \notin DOMAIN ring'
      \/ Owner(DOMAIN ring', h) \notin DOMAIN ring

KeysStayPut == [][KeysStay]_ringVars

(* What next() and previous() are to find: of the other buckets, those met *)
(* first on the way round.                                                 *)
Others(b) == {p \in DOMAIN ring \ {HashOf[b]} : ring[p] # b}

Distance(way, h, p) ==
  LET d == IF way = "next" THEN p - h ELSE h - p
  IN  IF d > 0 THEN d ELSE d + Greatest(Points) + 1

MetBefore(way, b, p) ==
  {ring[q] : q \in {r \in Others(b) :
                     Distance(way, HashOf[b], r) < Distance(way, HashOf[b], p)}}

Nearest(way, b, n) ==
  {ring[p] : p \in {q \in Others(b) : Cardinality(MetBefore(way, b, q)) < n}}
=============================================================================
