-------------------------- MODULE StructuresProofs --------------------------
(***************************************************************************)
(* Theorems about parts of the library that stand alone.  Keys stay on the *)
(* hash ring, for any buckets, points and hashes: what a consistent hash   *)
(* promises.  Every operation leaves the bucket of a point alone as long   *)
(* as the point is taken, and of two rings that both have the owning       *)
(* points of a key, these are the same point.  Stores of hosts agree when  *)
(* they have seen the same, and a rotating store finds the newest entry of *)
(* a host.  Event loops watch the writers that have work, after any number *)
(* of inputs.  Factories and destructors leave nothing open, however often *)
(* they are called.  What the reader of a trace is told counts all frames, *)
(* whatever the number of threads and the order in which they end.  The    *)
(* replies of a host are judged by the steps of its counter, and a host    *)
(* whose counter moves steadily passes the test of the thesis.             *)
(***************************************************************************)
EXTENDS HashRing, HostStores, EventLoops, Lifecycles, TraceReader, IpIds,
        FiniteSetTheorems, SequenceTheorems, WellFoundedInduction, TLAPS

(* A non-empty set of numbers has a least one. *)
LEMMA LeastOf ==
  ASSUME NEW S \in SUBSET Nat, S # {}
  PROVE  Least(S) \in S /\ \A q \in S : Least(S) <= q
<1> DEFINE Less == {r \in Nat \X Nat : r[1] < r[2]}
<1>1. IsWellFoundedOn(Less, Nat)
  BY NatLessThanWellFounded, Zenon DEF OpToRel
<1>2. PICK p \in S : \A q \in S : <<q, p>> \notin Less
  BY <1>1, WFMin, Zenon
<1>3. \A q \in S : p <= q
  <2> TAKE q \in S
  <2>1. q \in Nat /\ p \in Nat
    OBVIOUS
  <2>2. q < p => <<q, p>> \in Less
    BY <2>1
  <2> QED
    BY <1>2, <2>1, <2>2
<1> QED
  BY <1>3, Zenon DEF Least

-----------------------------------------------------------------------------

(* The owner of a hash is the least point not before it, or, if there is   *)
(* none, the least point of all.                                           *)
LEMMA OwnerOf ==
  ASSUME NEW S \in SUBSET Nat, S # {}, NEW h \in Nat
  PROVE  /\ Owner(S, h) \in S
         /\ \A q \in S : q >= h => Owner(S, h) >= h /\ Owner(S, h) <= q
         /\ Owner(S, h) < h => \A q \in S : Owner(S, h) <= q
<1>1. CASE \E p \in S : p >= h
  <2> DEFINE T == {p \in S : p >= h}
  <2>1. T \in SUBSET Nat /\ T # {}
    BY <1>1
  <2>2. Least(T) \in T /\ \A q \in T : Least(T) <= q
    BY <2>1, LeastOf
  <2>3. Owner(S, h) = Least(T)
    BY <1>1 DEF Owner
  <2>4. Owner(S, h) \in S /\ Owner(S, h) >= h
    BY <2>2, <2>3
  <2>5. \A q \in S : q >= h => Owner(S, h) <= q
    BY <2>2, <2>3
  <2>6. Owner(S, h) \in Nat
    BY <2>4
  <2>7. ~(Owner(S, h) < h)
    BY <2>4, <2>6
  <2> HIDE DEF T
  <2> QED
    BY <2>4, <2>5, <2>7
<1>2. CASE ~ \E p \in S : p >= h
  <2>1. Owner(S, h) = Least(S)
    BY <1>2 DEF Owner
  <2>2. Least(S) \in S /\ \A q \in S : Least(S) <= q
    BY LeastOf
  <2> QED
    BY <1>2, <2>1, <2>2
<1> QED
  BY <1>1, <1>2

(* Two sets of points that each have the other's owner have the same one.  *)
LEMMA OwnersMeet ==
  ASSUME NEW S \in SUBSET Nat, NEW T \in SUBSET Nat, NEW h \in Nat,
         S # {}, T # {},
         Owner(S, h) \in T, Owner(T, h) \in S
  PROVE  Owner(S, h) = Owner(T, h)
<1>1. Owner(S, h) \in Nat /\ Owner(T, h) \in Nat
  OBVIOUS
<1>2. CASE Owner(S, h) >= h
  <2>1. Owner(T, h) >= h /\ Owner(T, h) <= Owner(S, h)
    BY <1>2, OwnerOf
  <2>2. Owner(S, h) <= Owner(T, h)
    BY <2>1, OwnerOf
  <2> QED
    BY <1>1, <2>1, <2>2
<1>3. CASE Owner(S, h) < h
  <2>1. \A q \in S : Owner(S, h) <= q
    BY <1>3, OwnerOf
  <2>2. Owner(T, h) < h
    <3> SUFFICES ASSUME Owner(T, h) >= h
                 PROVE  FALSE
      BY <1>1
    <3>1. Owner(S, h) >= h
      BY OwnerOf
    <3> QED
      BY <1>1, <1>3, <3>1
  <2>3. \A q \in T : Owner(T, h) <= q
    BY <2>2, OwnerOf
  <2> QED
    BY <1>1, <2>1, <2>3
<1> QED
  BY <1>1, <1>2, <1>3

-----------------------------------------------------------------------------

RingOK == DOMAIN ring \subseteq Points

(* What every operation does: a point that is taken before and after has   *)
(* the same bucket.                                                        *)
SamePoints == \A p \in DOMAIN ring \cap DOMAIN ring' : ring'[p] = ring[p]

LEMMA StepsKeepPoints ==
  ASSUME RingOK, [RingNext]_ringVars
  PROVE  RingOK' /\ SamePoints
<1> USE DEF RingOK, SamePoints
<1>1. ASSUME NEW b \in Buckets, NEW p \in Points, Insert(p, b)
      PROVE  RingOK' /\ SamePoints
  BY <1>1 DEF Insert
<1>2. ASSUME NEW b \in Buckets, InsertBucket(b)
      PROVE  RingOK' /\ SamePoints
  <2>1. HashOf[b] \in Points
    BY RingAssumption
  <2> QED
    BY <1>2, <2>1 DEF InsertBucket, Insert
<1>3. ASSUME NEW b \in Buckets, EraseAll(b)
      PROVE  RingOK' /\ SamePoints
  BY <1>3 DEF EraseAll, Without
<1>4. ASSUME NEW p \in Points, Erase(p)
      PROVE  RingOK' /\ SamePoints
  BY <1>4 DEF Erase, Without
<1>5. ASSUME Clear
      PROVE  RingOK' /\ SamePoints
  BY <1>5 DEF Clear, NoRing
<1>6. ASSUME UNCHANGED ring
      PROVE  RingOK' /\ SamePoints
  BY <1>6
<1>7. ASSUME NEW b \in Buckets, NEW n \in Counts,
             NextBuckets(b, n) \/ PreviousBuckets(b, n)
      PROVE  RingOK' /\ SamePoints
  BY <1>6, <1>7 DEF NextBuckets, PreviousBuckets, Begin
<1>8. ASSUME Walk
      PROVE  RingOK' /\ SamePoints
  BY <1>6, <1>8 DEF Walk
<1>9. ASSUME UNCHANGED ringVars
      PROVE  RingOK' /\ SamePoints
  BY <1>6, <1>9 DEF ringVars
<1> QED
  BY <1>1, <1>2, <1>3, <1>4, <1>5, <1>7, <1>8, <1>9 DEF RingNext

LEMMA SamePointsKeepKeys ==
  ASSUME RingOK, RingOK', SamePoints
  PROVE  KeysStay
<1> SUFFICES ASSUME NEW h \in Points,
                    DOMAIN ring # {}, DOMAIN ring' # {},
                    Owner(DOMAIN ring, h) \in DOMAIN ring',
                    Owner(DOMAIN ring', h) \in DOMAIN ring
             PROVE  ring'[Owner(DOMAIN ring', h)] = ring[Owner(DOMAIN ring, h)]
  BY DEF KeysStay, Resolve
<1>1. DOMAIN ring \in SUBSET Nat /\ DOMAIN ring' \in SUBSET Nat /\ h \in Nat
  BY RingAssumption DEF RingOK
<1>2. Owner(DOMAIN ring, h) = Owner(DOMAIN ring', h)
  BY <1>1, OwnersMeet
<1> QED
  BY <1>2 DEF SamePoints

(* A change of the ring moves only the keys of the points it takes or      *)
(* gives: what every operation of the hash map does, whatever the buckets, *)
(* the points and the hashes are, also when hashes collide.                *)
THEOREM KeysStayOnTheRing == RingSpec => KeysStayPut
<1>1. RingInit => RingOK
  BY DEF RingInit, NoRing, RingOK
<1>2. RingOK /\ [RingNext]_ringVars => RingOK'
  BY StepsKeepPoints
<1>3. RingOK /\ RingOK' /\ [RingNext]_ringVars => [KeysStay]_ringVars
  BY StepsKeepPoints, SamePointsKeepKeys
<1> QED
  BY <1>1, <1>2, <1>3, PTL DEF RingSpec, KeysStayPut

-----------------------------------------------------------------------------
(* Stores.  An entry sums up a set of entries: it is of the newest time     *)
(* among them, and consistent if all of that time are.                      *)
Values == Entries \cup {DefaultEntry}

SumsUp(r, E) ==
  /\ r \in Entries /\ E # {}
  /\ \E e \in E : e.ts = r.ts
  /\ \A e \in E : e.ts <= r.ts
  /\ r.consistent = TRUE <=> \A e \in E : e.ts = r.ts => e.consistent = TRUE

Fits(r, E) == IF E = {} THEN r = DefaultEntry ELSE SumsUp(r, E)

SeenOf(s, h) == {e \in Entries : <<h, e>> \in seen[s]}

StoresInv ==
  /\ store \in [Stores -> [Hosts -> Values]]
  /\ seen \in [Stores -> SUBSET (Hosts \X Entries)]
  /\ \A s \in Stores, h \in Hosts : Fits(store[s][h], SeenOf(s, h))

LEMMA EntryFacts ==
  /\ DefaultEntry \notin Entries
  /\ \A e \in Entries : e.ts \in Nat /\ e.consistent \in BOOLEAN
  BY StoreAssumption DEF StoreAssumption, Entries, DefaultEntry

LEMMA OneSummary ==
  ASSUME NEW E \in SUBSET Entries, NEW r, NEW q, Fits(r, E), Fits(q, E)
  PROVE  r = q
<1>1. CASE E = {}
  BY <1>1 DEF Fits
<1>2. CASE E # {}
  <2>1. SumsUp(r, E) /\ SumsUp(q, E)
    BY <1>2 DEF Fits
  <2>2. r.ts \in Nat /\ q.ts \in Nat
    BY <2>1, EntryFacts DEF SumsUp
  <2>3. r.ts <= q.ts /\ q.ts <= r.ts
    BY <2>1 DEF SumsUp
  <2>4. r.ts = q.ts
    BY <2>2, <2>3
  <2>5. r.consistent = TRUE <=> q.consistent = TRUE
    BY <2>1, <2>4 DEF SumsUp
  <2>6. r.consistent = q.consistent
    BY <2>1, <2>5 DEF SumsUp, Entries
  <2> QED
    BY <2>1, <2>4, <2>6 DEF SumsUp, Entries
<1> QED
  BY <1>1, <1>2

LEMMA SummaryOfOne ==
  ASSUME NEW e \in Entries
  PROVE  SumsUp(e, {e})
  BY EntryFacts DEF SumsUp

(* Merged() is what combines the summaries of two sets.                     *)
LEMMA MergedSumsUp ==
  ASSUME NEW E \in SUBSET Entries, NEW F \in SUBSET Entries, NEW r, NEW q,
         SumsUp(r, E), SumsUp(q, F)
  PROVE  SumsUp(Merged(r, q), E \cup F)
<1>1. /\ r \in Entries /\ q \in Entries /\ r.ts \in Nat /\ q.ts \in Nat
      /\ \A e \in E \cup F : e.ts \in Nat
  BY EntryFacts DEF SumsUp
<1>2. CASE r.ts < q.ts
  <2>1. Merged(r, q) = q
    BY <1>2 DEF Merged
  <2>2. \A e \in E : e.ts < q.ts /\ e.ts # q.ts
    BY <1>1, <1>2 DEF SumsUp
  <2> QED
    BY <2>1, <2>2, <1>1 DEF SumsUp
<1>3. CASE q.ts < r.ts
  <2>1. Merged(r, q) = r
    BY <1>1, <1>3 DEF Merged
  <2>2. \A e \in F : e.ts < r.ts /\ e.ts # r.ts
    BY <1>1, <1>3 DEF SumsUp
  <2> QED
    BY <2>1, <2>2, <1>1 DEF SumsUp
<1>4. CASE r.ts = q.ts
  <2> DEFINE m == [r EXCEPT !.consistent = @ /\ q.consistent]
  <2>1. Merged(r, q) = m
    BY <1>1, <1>4 DEF Merged
  <2>2. m \in Entries /\ m.ts = r.ts
    BY <1>1, Zenon DEF Entries
  <2>3. m.consistent = TRUE <=> r.consistent = TRUE /\ q.consistent = TRUE
    BY <1>1 DEF Entries
  <2> HIDE DEF m
  <2> QED
    BY <2>1, <2>2, <2>3, <1>1, <1>4 DEF SumsUp
<1> QED
  BY <1>1, <1>2, <1>3, <1>4

LEMMA ContainsIffSeen ==
  ASSUME StoresInv, NEW s \in Stores, NEW h \in Hosts
  PROVE  /\ Contains(store[s], h) <=> SeenOf(s, h) # {}
         /\ SeenOf(s, h) \in SUBSET Entries
<1>1. Fits(store[s][h], SeenOf(s, h))
  BY DEF StoresInv
<1>2. SeenOf(s, h) # {} => store[s][h] \in Entries
  BY <1>1 DEF Fits, SumsUp
<1>3. SeenOf(s, h) = {} => store[s][h] = DefaultEntry
  BY <1>1 DEF Fits
<1>4. SeenOf(s, h) \in SUBSET Entries
  BY DEF SeenOf
<1> QED
  BY <1>2, <1>3, <1>4, EntryFacts DEF Contains

LEMMA InitStores == StoresInit => StoresInv
<1> SUFFICES ASSUME StoresInit PROVE StoresInv
  OBVIOUS
<1>1. /\ store \in [Stores -> [Hosts -> Values]]
      /\ seen \in [Stores -> SUBSET (Hosts \X Entries)]
  BY DEF StoresInit, Empty, Values
<1>2. \A s \in Stores, h \in Hosts :
        SeenOf(s, h) = {} /\ store[s][h] = DefaultEntry
  BY DEF StoresInit, Empty, SeenOf
<1> QED
  BY <1>1, <1>2 DEF StoresInv, Fits

LEMMA MergeEntryKeeps ==
  ASSUME StoresInv, NEW s \in Stores, NEW h \in Hosts, NEW e \in Entries,
         MergeEntry(s, h, e)
  PROVE  StoresInv'
<1> DEFINE new == IF Contains(store[s], h) THEN Merged(store[s][h], e) ELSE e
<1>1. /\ \A t \in Stores, g \in Hosts :
           store'[t][g] = IF t = s /\ g = h THEN new ELSE store[t][g]
      /\ \A t \in Stores : seen'[t] = IF t = s THEN seen[s] \cup {<<h, e>>} ELSE seen[t]
      /\ DOMAIN store' = Stores /\ DOMAIN seen' = Stores
      /\ store' = [t \in Stores |-> store'[t]]
      /\ \A t \in Stores : store'[t] = [g \in Hosts |-> store'[t][g]]
  BY DEF MergeEntry, StoresInv
<1>2. SumsUp(new, SeenOf(s, h) \cup {e})
  <2>1. CASE Contains(store[s], h)
    <3>1. SumsUp(store[s][h], SeenOf(s, h)) /\ SeenOf(s, h) \in SUBSET Entries
      BY <2>1, ContainsIffSeen DEF StoresInv, Fits
    <3>2. {e} \in SUBSET Entries /\ SumsUp(e, {e})
      BY SummaryOfOne
    <3> QED
      BY <2>1, <3>1, <3>2, MergedSumsUp
  <2>2. CASE ~Contains(store[s], h)
    <3>1. SeenOf(s, h) \cup {e} = {e}
      BY <2>2, ContainsIffSeen
    <3> QED
      BY <2>2, <3>1, SummaryOfOne
  <2> QED
    BY <2>1, <2>2
<1> HIDE DEF new
<1>3. \A t \in Stores, g \in Hosts :
        SeenOf(t, g)' = IF t = s /\ g = h THEN SeenOf(s, h) \cup {e} ELSE SeenOf(t, g)
  BY <1>1 DEF SeenOf
<1>4. \A t \in Stores, g \in Hosts : Fits(store'[t][g], SeenOf(t, g)')
  <2> TAKE t \in Stores, g \in Hosts
  <2>1. CASE t = s /\ g = h
    BY <2>1, <1>1, <1>2, <1>3 DEF Fits
  <2>2. CASE ~(t = s /\ g = h)
    BY <2>2, <1>1, <1>3 DEF StoresInv
  <2> QED
    BY <2>1, <2>2
<1>5. store' \in [Stores -> [Hosts -> Values]]
  <2>1. new \in Values
    BY <1>2 DEF SumsUp, Values
  <2>2. \A t \in Stores : \A g \in Hosts : store'[t][g] \in Values
    BY <2>1, <1>1 DEF StoresInv
  <2> QED
    BY <2>2, <1>1
<1>6. seen' \in [Stores -> SUBSET (Hosts \X Entries)]
  BY DEF MergeEntry, StoresInv
<1> QED
  BY <1>4, <1>5, <1>6 DEF StoresInv

LEMMA MergeStoreKeeps ==
  ASSUME StoresInv, NEW s \in Stores, NEW t \in Stores, MergeStore(s, t)
  PROVE  StoresInv'
<1> DEFINE New(h) == IF ~Contains(store[t], h) THEN store[s][h]
                     ELSE IF Contains(store[s], h) THEN Merged(store[s][h], store[t][h])
                     ELSE store[t][h]
<1>1. /\ \A u \in Stores, h \in Hosts :
           store'[u][h] = IF u = s THEN New(h) ELSE store[u][h]
      /\ \A u \in Stores : seen'[u] = IF u = s THEN seen[s] \cup seen[t] ELSE seen[u]
      /\ DOMAIN store' = Stores /\ DOMAIN seen' = Stores
      /\ store' = [u \in Stores |-> store'[u]]
      /\ \A u \in Stores : store'[u] = [h \in Hosts |-> store'[u][h]]
  BY DEF MergeStore, StoresInv
<1>2. \A h \in Hosts : Fits(New(h), SeenOf(s, h) \cup SeenOf(t, h))
  <2> TAKE h \in Hosts
  <2>1. /\ Fits(store[s][h], SeenOf(s, h)) /\ Fits(store[t][h], SeenOf(t, h))
        /\ Contains(store[s], h) <=> SeenOf(s, h) # {}
        /\ Contains(store[t], h) <=> SeenOf(t, h) # {}
        /\ SeenOf(s, h) \in SUBSET Entries /\ SeenOf(t, h) \in SUBSET Entries
    BY ContainsIffSeen DEF StoresInv
  <2>2. CASE ~Contains(store[t], h)
    <3>1. SeenOf(s, h) \cup SeenOf(t, h) = SeenOf(s, h) /\ New(h) = store[s][h]
      BY <2>1, <2>2
    <3> QED
      BY <2>1, <3>1
  <2>3. CASE Contains(store[t], h) /\ ~Contains(store[s], h)
    <3>1. SeenOf(s, h) \cup SeenOf(t, h) = SeenOf(t, h) /\ New(h) = store[t][h]
      BY <2>1, <2>3
    <3> QED
      BY <2>1, <3>1
  <2>4. CASE Contains(store[t], h) /\ Contains(store[s], h)
    <3>1. SumsUp(store[s][h], SeenOf(s, h)) /\ SumsUp(store[t][h], SeenOf(t, h))
      BY <2>1, <2>4 DEF Fits
    <3>2. New(h) = Merged(store[s][h], store[t][h])
      BY <2>4
    <3>3. SumsUp(New(h), SeenOf(s, h) \cup SeenOf(t, h))
      BY <2>1, <3>1, <3>2, MergedSumsUp
    <3>4. SeenOf(s, h) \cup SeenOf(t, h) # {}
      BY <2>1, <2>4
    <3> QED
      BY <3>3, <3>4 DEF Fits
  <2> QED
    BY <2>2, <2>3, <2>4
<1> HIDE DEF New
<1>3. \A u \in Stores, h \in Hosts :
        SeenOf(u, h)' = IF u = s THEN SeenOf(s, h) \cup SeenOf(t, h) ELSE SeenOf(u, h)
  BY <1>1 DEF SeenOf
<1>4. \A u \in Stores, h \in Hosts : Fits(store'[u][h], SeenOf(u, h)')
  BY <1>1, <1>2, <1>3 DEF StoresInv
<1>5. store' \in [Stores -> [Hosts -> Values]]
  <2>1. \A h \in Hosts : New(h) \in Values
    BY <1>2 DEF Fits, SumsUp, Values
  <2>2. \A u \in Stores : \A h \in Hosts : store'[u][h] \in Values
    BY <2>1, <1>1 DEF StoresInv
  <2> QED
    BY <2>2, <1>1
<1>6. seen' \in [Stores -> SUBSET (Hosts \X Entries)]
  BY DEF MergeStore, StoresInv
<1> QED
  BY <1>4, <1>5, <1>6 DEF StoresInv

LEMMA NextKeepsStores == StoresInv /\ [StoresNext]_storeVars => StoresInv'
<1> SUFFICES ASSUME StoresInv, [StoresNext]_storeVars PROVE StoresInv'
  OBVIOUS
<1>1. CASE UNCHANGED <<store, seen>>
  BY <1>1 DEF StoresInv, SeenOf
<1>2. CASE ~UNCHANGED <<store, seen>>
  BY <1>2, MergeEntryKeeps, MergeStoreKeeps
  DEF StoresNext, InsertEntry, Rotate, storeVars
<1> QED
  BY <1>1, <1>2

(* Stores that have seen the same entries agree, in whatever order and      *)
(* however often these came (store.cpp:33-51).                              *)
THEOREM StoresAlwaysAgree == StoresSpec => []StoresAgree
<1>1. StoresInv => StoresAgree
  <2> SUFFICES ASSUME StoresInv, NEW s \in Stores, NEW t \in Stores, seen[s] = seen[t]
               PROVE  store[s] = store[t]
    BY DEF StoresAgree
  <2>1. ASSUME NEW h \in Hosts PROVE store[s][h] = store[t][h]
    <3>1. SeenOf(s, h) = SeenOf(t, h) /\ SeenOf(s, h) \in SUBSET Entries
      BY DEF SeenOf
    <3>2. Fits(store[s][h], SeenOf(s, h)) /\ Fits(store[t][h], SeenOf(s, h))
      BY <3>1 DEF StoresInv
    <3> QED
      BY <3>1, <3>2, OneSummary
  <2> QED
    BY <2>1 DEF StoresInv
<1> QED
  BY <1>1, InitStores, NextKeepsStores, PTL DEF StoresSpec

-----------------------------------------------------------------------------
(* The rotating store: the last entry of a host is in the subset that has   *)
(* aged as much as it has, no younger subset has one, and what is too old   *)
(* is in none.                                                              *)
AsInserted(h) ==
  LET last == inserted[h]
  IN  IF last.entry # DefaultEntry /\ last.ago < MaxSubsets
      THEN /\ last.ago < Len(subsets) /\ subsets[last.ago + 1][h] = last.entry
           /\ \A i \in 1..last.ago : subsets[i][h] = DefaultEntry
      ELSE \A i \in DOMAIN subsets : subsets[i][h] = DefaultEntry

RotatingInv ==
  /\ subsets \in Seq([Hosts -> Values]) /\ Len(subsets) \in 1..MaxSubsets
  /\ inserted \in [Hosts -> [entry : Values, ago : 0..MaxAge]]
  /\ \A h \in Hosts : AsInserted(h)

LEMMA BoundFacts ==
  MaxSubsets \in Nat \ {0} /\ MaxAge \in Nat \ {0} /\ MaxSubsets <= MaxAge
  BY StoreAssumption DEF StoreAssumption

LEMMA InitRotating == StoresInit => RotatingInv
<1> SUFFICES ASSUME StoresInit PROVE RotatingInv
  OBVIOUS
<1> USE BoundFacts
<1>1. Empty \in [Hosts -> Values] /\ \A h \in Hosts : Empty[h] = DefaultEntry
  BY DEF Empty, Values
<1>2. subsets = <<Empty>> /\ Len(subsets) = 1 /\ DOMAIN subsets = 1..1
  BY DEF StoresInit
<1>3. inserted \in [Hosts -> [entry : Values, ago : 0..MaxAge]]
  BY DEF StoresInit, Values
<1>4. \A h \in Hosts : AsInserted(h)
  BY <1>1, <1>2 DEF StoresInit, AsInserted
<1> QED
  BY <1>1, <1>2, <1>3, <1>4 DEF RotatingInv

LEMMA InsertEntryKeeps ==
  ASSUME RotatingInv, NEW h \in Hosts, NEW e \in Entries, InsertEntry(h, e)
  PROVE  RotatingInv'
<1> USE BoundFacts
<1> DEFINE first == [subsets[1] EXCEPT ![h] = e]
<1>1. /\ Len(subsets) \in Nat /\ 1 \in DOMAIN subsets
      /\ DOMAIN subsets = 1..Len(subsets)
      /\ subsets[1] \in [Hosts -> Values]
  BY LenProperties, ElementOfSeq DEF RotatingInv
<1>2. e \in Values /\ e # DefaultEntry
  BY EntryFacts DEF Values
<1>3. /\ subsets' = [subsets EXCEPT ![1] = first]
      /\ inserted' = [inserted EXCEPT ![h] = [entry |-> e, ago |-> 0]]
  BY DEF InsertEntry
<1>4. /\ first \in [Hosts -> Values] /\ first[h] = e
      /\ \A g \in Hosts \ {h} : first[g] = subsets[1][g]
  BY <1>1, <1>2
<1> HIDE DEF first
<1>5. /\ subsets' \in Seq([Hosts -> Values]) /\ Len(subsets') = Len(subsets)
      /\ DOMAIN subsets' = DOMAIN subsets /\ subsets'[1] = first
      /\ \A i \in DOMAIN subsets \ {1} : subsets'[i] = subsets[i]
  <2>1. subsets \in Seq([Hosts -> Values]) /\ 1 \in 1..Len(subsets)
    BY <1>1 DEF RotatingInv
  <2>2. /\ subsets' \in Seq([Hosts -> Values]) /\ Len(subsets') = Len(subsets)
        /\ \A j \in 1..Len(subsets) :
             subsets'[j] = IF j = 1 THEN first ELSE subsets[j]
    BY <2>1, <1>3, <1>4, ExceptSeq
  <2> QED
    BY <2>1, <2>2, <1>1, LenProperties
<1>6. inserted' \in [Hosts -> [entry : Values, ago : 0..MaxAge]]
  BY <1>2, <1>3 DEF RotatingInv
<1>7. ASSUME NEW g \in Hosts PROVE AsInserted(g)'
  <2>1. CASE g = h
    <3>1. inserted'[g] = [entry |-> e, ago |-> 0]
      BY <2>1, <1>3 DEF RotatingInv
    <3> QED
      BY <2>1, <3>1, <1>1, <1>2, <1>4, <1>5 DEF AsInserted
  <2>2. CASE g # h
    <3>1. inserted'[g] = inserted[g]
      BY <2>2, <1>3 DEF RotatingInv
    <3>2. \A i \in DOMAIN subsets : subsets'[i][g] = subsets[i][g]
      BY <2>2, <1>4, <1>5
    <3>3. inserted[g].ago \in Nat /\ AsInserted(g)
      BY DEF RotatingInv
    <3>4. 1..inserted[g].ago \subseteq DOMAIN subsets
            \/ ~(inserted[g].ago < Len(subsets))
      BY <3>3, <1>1
    <3>5. inserted[g].ago < Len(subsets) => inserted[g].ago + 1 \in DOMAIN subsets
      BY <3>3, <1>1
    <3> QED
      BY <3>1, <3>2, <3>3, <3>4, <3>5, <1>5 DEF AsInserted
  <2> QED
    BY <2>1, <2>2
<1> QED
  BY <1>1, <1>5, <1>6, <1>7 DEF RotatingInv

LEMMA RotateKeeps ==
  ASSUME RotatingInv, Rotate
  PROVE  RotatingInv'
<1> USE BoundFacts
<1> DEFINE L == Len(subsets)
           more == <<Empty>> \o subsets
           M == IF L + 1 > MaxSubsets THEN L ELSE L + 1
<1>1. /\ L \in Nat /\ L >= 1 /\ L <= MaxSubsets /\ DOMAIN subsets = 1..L
      /\ Empty \in [Hosts -> Values] /\ \A h \in Hosts : Empty[h] = DefaultEntry
  BY LenProperties DEF RotatingInv, Empty, Values
<1>2. /\ more \in Seq([Hosts -> Values]) /\ Len(more) = L + 1 /\ more[1] = Empty
      /\ \A i \in 1..L : more[i + 1] = subsets[i]
  <2>1. <<Empty>> \in Seq([Hosts -> Values]) /\ Len(<<Empty>>) = 1 /\ <<Empty>>[1] = Empty
    BY <1>1
  <2>2. subsets \in Seq([Hosts -> Values])
    BY DEF RotatingInv
  <2>3. /\ more \in Seq([Hosts -> Values]) /\ Len(more) = 1 + L
        /\ \A i \in 1..(1 + L) :
             more[i] = IF i <= 1 THEN <<Empty>>[i] ELSE subsets[i - 1]
    BY <2>1, <2>2, ConcatProperties
  <2> HIDE DEF more
  <2> QED
    BY <2>1, <2>3, <1>1
<1>3. subsets' = SubSeq(more, 1, M)
  BY DEF Rotate
<1>4. M \in Nat /\ M >= 1 /\ M <= L + 1 /\ M <= MaxSubsets
      /\ (L < MaxSubsets => M = L + 1) /\ (L = MaxSubsets => M = L)
  <2> HIDE DEF L
  <2>1. CASE L + 1 > MaxSubsets
    BY <1>1, <2>1
  <2>2. CASE ~(L + 1 > MaxSubsets)
    BY <1>1, <2>2
  <2> QED
    BY <2>1, <2>2
<1> HIDE DEF more, M, L
<1>5. /\ subsets' \in Seq([Hosts -> Values]) /\ Len(subsets') = M
      /\ DOMAIN subsets' = 1..M
      /\ \A i \in 1..M : subsets'[i] = more[i]
  <2>1. \A i \in 1..M : i \in 1..(L + 1)
    BY <1>1, <1>4
  <2>2. \A i \in 1..M : more[i] \in [Hosts -> Values]
    BY <2>1, <1>2, ElementOfSeq
  <2>3. /\ SubSeq(more, 1, M) \in Seq([Hosts -> Values])
        /\ Len(SubSeq(more, 1, M)) = M
        /\ \A i \in 1..M : SubSeq(more, 1, M)[i] = more[i]
    BY <2>2, <1>4, SubSeqProperties
  <2> QED
    BY <2>3, <1>3, LenProperties
<1>6. /\ subsets'[1] = Empty
      /\ \A i \in 1..M : i > 1 => i - 1 \in DOMAIN subsets /\ subsets'[i] = subsets[i - 1]
  <2>1. subsets'[1] = Empty
    BY <1>2, <1>4, <1>5
  <2>2. ASSUME NEW i \in 1..M, i > 1
        PROVE  i - 1 \in DOMAIN subsets /\ subsets'[i] = subsets[i - 1]
    <3>1. i - 1 \in 1..L /\ (i - 1) + 1 = i
      BY <2>2, <1>1, <1>4
    <3> QED
      BY <3>1, <1>1, <1>2, <1>5
  <2> QED
    BY <2>1, <2>2
<1>7. \A h \in Hosts :
        /\ inserted[h].ago \in Nat /\ inserted[h].ago <= MaxAge
        /\ inserted'[h].entry = inserted[h].entry
        /\ inserted'[h].ago = IF inserted[h].ago < MaxAge THEN inserted[h].ago + 1
                              ELSE inserted[h].ago
        /\ AsInserted(h)
  BY DEF Rotate, RotatingInv
<1>8. inserted' \in [Hosts -> [entry : Values, ago : 0..MaxAge]]
  <2>1. inserted' = [h \in Hosts |-> [inserted[h] EXCEPT !.ago = IF @ < MaxAge THEN @ + 1 ELSE @]]
    BY DEF Rotate
  <2>2. \A h \in Hosts : inserted[h] \in [entry : Values, ago : 0..MaxAge]
    BY DEF RotatingInv
  <2>3. \A h \in Hosts :
          (IF inserted[h].ago < MaxAge THEN inserted[h].ago + 1 ELSE inserted[h].ago)
             \in 0..MaxAge
    BY <1>7
  <2> QED
    BY <2>1, <2>2, <2>3
<1>9. ASSUME NEW h \in Hosts PROVE AsInserted(h)'
  <2>1. CASE /\ inserted[h].entry # DefaultEntry /\ inserted[h].ago + 1 < MaxSubsets
    <3> DEFINE a == inserted[h].ago
    <3>1. /\ a \in Nat /\ a < L /\ subsets[a + 1][h] = inserted[h].entry
          /\ \A i \in 1..a : subsets[i][h] = DefaultEntry
      BY <2>1, <1>7 DEF AsInserted, L
    <3>2. inserted'[h].ago = a + 1 /\ inserted'[h].entry = inserted[h].entry
      BY <2>1, <1>7
    <3> HIDE DEF a
    <3>3. a + 1 < M /\ a + 2 \in 1..M /\ (a + 2) - 1 = a + 1 /\ (a + 1) + 1 = a + 2
      BY <2>1, <3>1, <1>1, <1>4 DEF a
    <3>4. subsets'[a + 2] = subsets[a + 1]
      BY <3>1, <3>3, <1>6
    <3>5. ASSUME NEW i \in 1..(a + 1) PROVE subsets'[i][h] = DefaultEntry
      <4>1. CASE i = 1
        BY <4>1, <1>1, <1>6
      <4>2. CASE i > 1
        <5>1. i - 1 \in 1..a /\ i \in 1..M
          BY <4>2, <3>1, <3>3, <1>4
        <5> QED
          BY <4>2, <5>1, <3>1, <1>6
      <4> QED
        BY <3>1, <4>1, <4>2
    <3>6. inserted'[h].ago < MaxSubsets
      BY <2>1, <3>2 DEF a
    <3>7. inserted'[h].ago < Len(subsets') /\ inserted'[h].ago + 1 = a + 2
      BY <3>1, <3>2, <3>3, <1>5
    <3>8. subsets'[a + 2][h] = inserted'[h].entry
      BY <3>1, <3>2, <3>4
    <3> QED
      BY <2>1, <3>2, <3>5, <3>6, <3>7, <3>8 DEF AsInserted
  <2>2. CASE /\ inserted[h].entry # DefaultEntry /\ inserted[h].ago + 1 = MaxSubsets
    <3> DEFINE a == inserted[h].ago
    <3>1. /\ a \in Nat /\ a < L
          /\ \A i \in 1..a : subsets[i][h] = DefaultEntry
      BY <2>2, <1>7 DEF AsInserted, L
    <3>2. inserted'[h].ago = a + 1 /\ inserted'[h].entry = inserted[h].entry
      BY <2>2, <1>7
    <3> HIDE DEF a
    <3>3. L = a + 1 /\ M = a + 1 /\ a + 1 = MaxSubsets
      BY <2>2, <3>1, <1>1, <1>4 DEF a
    <3>4. ASSUME NEW i \in 1..M PROVE subsets'[i][h] = DefaultEntry
      <4>1. CASE i = 1
        BY <4>1, <1>1, <1>6
      <4>2. CASE i > 1
        <5>1. i - 1 \in 1..a
          BY <4>2, <3>1, <3>3, <1>4
        <5> QED
          BY <4>2, <5>1, <3>1, <1>6
      <4> QED
        BY <4>1, <4>2, <1>4
    <3> QED
      BY <3>2, <3>3, <3>4, <1>5 DEF AsInserted
  <2>3. CASE inserted[h].entry = DefaultEntry \/ inserted[h].ago >= MaxSubsets
    <3>1. \A i \in DOMAIN subsets : subsets[i][h] = DefaultEntry
      BY <2>3, <1>7 DEF AsInserted
    <3>2. \A i \in 1..M : subsets'[i][h] = DefaultEntry
      BY <3>1, <1>1, <1>4, <1>6
    <3>3. inserted'[h].entry = DefaultEntry \/ inserted'[h].ago >= MaxSubsets
      BY <2>3, <1>7
    <3> QED
      BY <3>2, <3>3, <1>5, <1>7, <1>8 DEF AsInserted
  <2> QED
    BY <2>1, <2>2, <2>3, <1>7
<1> QED
  BY <1>4, <1>5, <1>8, <1>9 DEF RotatingInv

LEMMA NextKeepsRotating == RotatingInv /\ [StoresNext]_storeVars => RotatingInv'
<1> SUFFICES ASSUME RotatingInv, [StoresNext]_storeVars PROVE RotatingInv'
  OBVIOUS
<1>1. CASE UNCHANGED <<subsets, inserted>>
  BY <1>1 DEF RotatingInv, AsInserted
<1>2. CASE ~UNCHANGED <<subsets, inserted>>
  BY <1>2, InsertEntryKeeps, RotateKeeps
  DEF StoresNext, MergeEntry, MergeStore, storeVars
<1> QED
  BY <1>1, <1>2

(* The rotating store finds the last entry of a host, never an older one,   *)
(* until as many rotations as it has subsets have dropped it                *)
(* (rotating_store.cpp:31-62).                                              *)
THEOREM LookupsFindTheNewest == StoresSpec => []LookupNewest
<1>1. ASSUME RotatingInv, NEW h \in Hosts
      PROVE  Lookup(h) = IF inserted[h].ago < MaxSubsets THEN inserted[h].entry
                         ELSE DefaultEntry
  <2>1. AsInserted(h) /\ inserted[h].ago \in Nat /\ DOMAIN subsets = 1..Len(subsets)
        /\ Len(subsets) \in Nat
    BY <1>1, LenProperties DEF RotatingInv
  <2>2. CASE inserted[h].entry = DefaultEntry \/ inserted[h].ago >= MaxSubsets
    <3>1. InSome(h) = {}
      BY <2>1, <2>2, BoundFacts DEF AsInserted, InSome, Contains
    <3> QED
      BY <2>1, <2>2, <3>1, BoundFacts DEF Lookup
  <2>3. CASE inserted[h].entry # DefaultEntry /\ inserted[h].ago < MaxSubsets
    <3> DEFINE k == inserted[h].ago + 1
    <3>1. /\ k \in DOMAIN subsets /\ subsets[k][h] = inserted[h].entry
          /\ \A i \in 1..(k - 1) : subsets[i][h] = DefaultEntry
          /\ k \in Int
      BY <2>1, <2>3 DEF AsInserted
    <3> HIDE DEF k
    <3>2. k \in InSome(h)
      BY <2>3, <3>1 DEF InSome, Contains
    <3>3. ASSUME NEW j \in InSome(h) PROVE k <= j
      <4>1. j \in 1..Len(subsets) /\ subsets[j][h] # DefaultEntry
        BY <2>1 DEF InSome, Contains
      <4>2. j \notin 1..(k - 1)
        BY <3>1, <4>1
      <4> QED
        BY <2>1, <3>1, <4>1, <4>2
    <3>4. ASSUME NEW i \in InSome(h), \A j \in InSome(h) : i <= j PROVE i = k
      <4>1. i <= k /\ k <= i /\ i \in Int
        BY <2>1, <3>2, <3>3, <3>4 DEF InSome
      <4> QED
        BY <3>1, <4>1
    <3>5. (CHOOSE i \in InSome(h) : \A j \in InSome(h) : i <= j) = k
      BY <3>2, <3>3, <3>4, Zenon
    <3> QED
      BY <2>3, <3>1, <3>2, <3>5 DEF Lookup
  <2> QED
    BY <2>1, <2>2, <2>3, BoundFacts
<1>2. RotatingInv => LookupNewest
  BY <1>1 DEF LookupNewest
<1> QED
  BY <1>2, InitRotating, NextKeepsRotating, PTL DEF StoresSpec

-----------------------------------------------------------------------------
(* Event loops *)

(* The invariant for the event loops.  A flag that is set tells the truth, *)
(* which is what keeps a handler from switching on what it believes to be  *)
(* on; a request to the prober that comes before its loop is announced.    *)
Files == {"decode_write", "scamper", "probe_out"}

LoopTypes ==
  /\ loop \in Loops
  /\ work \in [Files -> Nat] /\ flag \in [Files -> BOOLEAN]
  /\ stopped \in BOOLEAN
  /\ readable \in [{"notify", "decode_read", "scamper"} -> BOOLEAN]
  /\ watched \subseteq (Files \cup DOMAIN readable) \X {"read", "write"}

LoopStarts ==
  at = "setup" =>
    /\ batch = {} /\ \A fd \in Writers : ~flag[fd]
    /\ IF Prober THEN work["probe_out"] > 0 => readable["notify"]
       ELSE \A fd \in Writers : work[fd] > 0 <=> fd = "scamper"

FlagsTellTheTruth ==
  at \in {"wait", "batch"} /\ ~stopped =>
    \A fd \in Writers : flag[fd] => <<fd, "write">> \in watched

LoopsInv == LoopTypes /\ LoopStarts /\ FlagsTellTheTruth /\ WritersAreWatched

LEMMA LoopNames ==
  ASSUME loop \in Loops
  PROVE  /\ Writers \subseteq Files
         /\ Driver => ~Prober /\ Writers = {"decode_write", "scamper"}
         /\ Prober => ~Driver /\ Writers = {"probe_out"} /\ Kqueue
         /\ ~Driver /\ ~Prober => Writers = {"decode_write"} /\ Kqueue
BY LoopAssumption DEF Writers, Driver, Prober, Files, Kqueue, AllLoops

LEMMA InitLoops == LoopsInit => LoopsInv
<1> SUFFICES ASSUME LoopsInit PROVE LoopsInv
  OBVIOUS
<1>1. LoopTypes
  BY DEF LoopsInit, LoopTypes, Files
<1>2. /\ at = "setup" /\ batch = {}
      /\ \A fd \in Files : ~flag[fd] /\ (work[fd] > 0 <=> Driver /\ fd = "scamper")
  BY DEF LoopsInit, Files
<1> QED
  BY <1>1, <1>2, LoopNames DEF LoopsInit, LoopsInv, LoopStarts, FlagsTellTheTruth, WritersAreWatched, Files

(* A handler that leaves work switches on what was off. *)
LEMMA LeavesKeeps ==
  ASSUME LoopsInv, at = "batch", at' = at, loop' = loop, batch' \subseteq batch,
         NEW S \in SUBSET Writers, NEW n \in [S -> 0 .. 1], Leaves(n),
         Prober => readable'["notify"] = readable["notify"],
         readable' \in [{"notify", "decode_read", "scamper"} -> BOOLEAN]
  PROVE  LoopsInv'
<1>1. DOMAIN work = Files /\ DOMAIN flag = Files /\ Writers \subseteq Files /\ DOMAIN n = S
      /\ Writers' = Writers /\ (Driver <=> Driver') /\ (Prober <=> Prober')
  BY LoopNames DEF LoopsInv, LoopTypes, Writers, Driver, Prober
<1>2. \A fd \in Files : work'[fd] = IF fd \in S THEN work[fd] + n[fd] ELSE work[fd]
  BY <1>1 DEF Leaves
<1>3. \A fd \in Files : flag'[fd] = (flag[fd] \/ fd \in Unflagged(n))
  BY <1>1 DEF Leaves, Enable
<1>4. Unflagged(n) = {fd \in S : n[fd] > 0 /\ ~flag[fd]}
  BY <1>1 DEF Unflagged
<1>5. \/ watched' = watched \cup (Unflagged(n) \X {"write"}) /\ stopped' = stopped
      \/ stopped' = TRUE /\ watched' = watched
  BY DEF Leaves, Enable, Mod
<1>6. LoopTypes'
  <2>1. work' \in [Files -> Nat]
    BY <1>1, <1>2 DEF LoopsInv, LoopTypes, Leaves
  <2>2. flag' \in [Files -> BOOLEAN]
    <3>1. flag' = [fd \in Files |-> flag[fd] \/ fd \in Unflagged(n)]
      BY <1>1, Zenon DEF Leaves, Enable
    <3> QED
      BY <3>1
  <2>3. watched' \subseteq (Files \cup DOMAIN readable') \X {"read", "write"}
    BY <1>1, <1>4, <1>5 DEF LoopsInv, LoopTypes
  <2> QED
    BY <1>5, <2>1, <2>2, <2>3 DEF LoopsInv, LoopTypes
<1>7. CASE stopped'
  BY <1>6, <1>7 DEF LoopsInv, LoopStarts, FlagsTellTheTruth, WritersAreWatched
<1>8. CASE ~stopped'
  <2>1. ~stopped /\ watched' = watched \cup (Unflagged(n) \X {"write"})
    BY <1>5, <1>8
  <2>2. ASSUME NEW fd \in Writers
        PROVE  /\ flag'[fd] => <<fd, "write">> \in watched'
               /\ work'[fd] > 0 => <<fd, "write">> \in watched' \/ (Prober /\ readable'["notify"])
               /\ ~Prober /\ <<fd, "write">> \in watched' \cup batch' => work'[fd] > 0
    <3>1. /\ flag[fd] => <<fd, "write">> \in watched
          /\ work[fd] > 0 => <<fd, "write">> \in watched \/ (Prober /\ readable'["notify"])
          /\ ~Prober /\ <<fd, "write">> \in watched \cup batch => work[fd] > 0
          /\ work[fd] \in Nat /\ fd \in Files
      BY <1>1, <2>1 DEF LoopsInv, FlagsTellTheTruth, WritersAreWatched, LoopTypes
    <3>2. <<fd, "write">> \in watched' <=> <<fd, "write">> \in watched \/ fd \in Unflagged(n)
      BY <2>1
    <3>3. CASE fd \in S
      <4>1. n[fd] = 0 \/ n[fd] = 1
        BY <3>3
      <4>2. work'[fd] = work[fd] + n[fd] /\ (flag'[fd] <=> flag[fd] \/ fd \in Unflagged(n))
        BY <1>2, <1>3, <3>1, <3>3
      <4>3. fd \in Unflagged(n) <=> n[fd] > 0 /\ ~flag[fd]
        BY <1>4, <3>3
      <4> QED
        BY <3>1, <3>2, <4>1, <4>2, <4>3
    <3>4. CASE fd \notin S
      BY <1>2, <1>3, <1>4, <3>1, <3>2, <3>4
    <3> QED
      BY <3>3, <3>4
  <2> QED
    BY <1>1, <1>6, <2>2 DEF LoopsInv, LoopStarts, FlagsTellTheTruth, WritersAreWatched
<1> QED
  BY <1>6, <1>7, <1>8 DEF LoopsInv, LoopTypes

(* What changes neither work, flags nor what is watched keeps the          *)
(* invariant, as long as no byte is taken from a prober.                   *)
LEMMA LoopGoesOn ==
  ASSUME LoopsInv, at # "setup" \/ at' = "setup", loop' = loop, work' = work, flag' = flag,
         watched' = watched, batch' \subseteq batch, stopped' \in BOOLEAN,
         stopped \/ at \notin {"wait", "batch"} => stopped' \/ at' \notin {"wait", "batch"},
         at' = "setup" => at = "setup",
         readable' \in [{"notify", "decode_read", "scamper"} -> BOOLEAN],
         readable["notify"] => readable'["notify"] \/ ~Prober
  PROVE  LoopsInv'
<1>1. Writers' = Writers /\ (Driver <=> Driver') /\ (Prober <=> Prober')
  BY DEF Writers, Driver, Prober
<1>2. LoopTypes'
  BY DEF LoopsInv, LoopTypes
<1>3. LoopStarts'
  BY <1>1, Zenon DEF LoopsInv, LoopStarts
<1>4. FlagsTellTheTruth'
  BY <1>1, Zenon DEF LoopsInv, FlagsTellTheTruth
<1>5. WritersAreWatched'
  BY <1>1, Zenon DEF LoopsInv, WritersAreWatched
<1> QED
  BY <1>2, <1>3, <1>4, <1>5 DEF LoopsInv

LEMMA WorldKeepsLoops ==
  ASSUME LoopsInv, Request \/ ScamperSends \/ ScamperHangsUp \/ StopCalled
  PROVE  LoopsInv'
<1>1. CASE Request
  <2>1. CASE ~Prober
    <3>1. work' = work /\ readable' = [readable EXCEPT !["notify"] = TRUE]
      BY <1>1, <2>1 DEF Request
    <3> QED
      BY <1>1, <3>1, LoopGoesOn DEF Request, LoopsInv, LoopTypes
  <2>2. CASE Prober
    <3>1. /\ work' = [work EXCEPT !["probe_out"] = @ + 1]
          /\ readable' = [readable EXCEPT !["notify"] = @ \/ ~flag["probe_out"]]
          /\ UNCHANGED <<loop, at, watched, batch, flag, stopped>>
      BY <1>1, <2>2 DEF Request
    <3>2. Writers = {"probe_out"} /\ Writers' = Writers /\ Prober' /\ ~Driver'
      BY <2>2, <3>1, LoopNames DEF LoopsInv, LoopTypes, Writers, Driver, Prober
    <3>3. LoopTypes'
      BY <3>1 DEF LoopsInv, LoopTypes, Files
    <3>4. flag["probe_out"] \/ readable'["notify"]
      BY <3>1 DEF LoopsInv, LoopTypes, Files
    <3> QED
      BY <2>2, <3>1, <3>2, <3>3, <3>4
      DEF LoopsInv, LoopStarts, FlagsTellTheTruth, WritersAreWatched
  <2> QED
    BY <2>1, <2>2
<1>2. CASE ScamperSends \/ ScamperHangsUp
  BY <1>2, LoopGoesOn DEF ScamperSends, ScamperHangsUp, LoopsInv, LoopTypes
<1>3. CASE StopCalled
  BY <1>3, LoopGoesOn DEF StopCalled, LoopsInv, LoopTypes
<1> QED
  BY <1>1, <1>2, <1>3

LEMMA TurnsKeepLoops ==
  ASSUME LoopsInv, SetUp \/ Wait \/ WaitFails \/ BatchDone \/ EndOfStream \/ TearDown
  PROVE  LoopsInv'
<1>1. CASE SetUp
  <2>1. /\ at = "setup" /\ at' \in {"wait", "ended"}
        /\ UNCHANGED <<loop, batch, readable, work, flag>>
        /\ stopped' = (stopped /\ Prober)
    BY <1>1 DEF SetUp
  <2>2. /\ Driver => watched' = watched \/ watched' = DriverWatches
        /\ Prober => watched' = watched \/ watched' = ProberWatches
        /\ ~Driver /\ ~Prober => watched' = watched \/ watched' = DecoderWatches
        /\ at' = "wait" => watched' \in {DriverWatches, ProberWatches, DecoderWatches}
        /\ at' = "wait" /\ Driver => watched' = DriverWatches
        /\ at' = "wait" /\ Prober => watched' = ProberWatches
        /\ at' = "wait" /\ ~Driver /\ ~Prober => watched' = DecoderWatches
    BY <1>1, LoopNames DEF SetUp, LoopsInv, LoopTypes
  <2>3. Writers' = Writers /\ (Driver <=> Driver') /\ (Prober <=> Prober')
    BY <2>1 DEF Writers, Driver, Prober
  <2>4. watched' = watched
        \/ watched' \subseteq {"notify", "decode_read", "scamper"} \X {"read", "write"}
    BY <2>2 DEF DriverWatches, ProberWatches, DecoderWatches
  <2>5. LoopTypes'
    BY <2>1, <2>4 DEF LoopsInv, LoopTypes
  <2>6. ASSUME at' = "wait", NEW fd \in Writers
        PROVE  <<fd, "write">> \in watched' <=> Driver /\ fd = "scamper"
    BY <2>2, <2>6, LoopNames
    DEF LoopsInv, LoopTypes, DriverWatches, ProberWatches, DecoderWatches, Files
  <2>7. /\ batch = {} /\ \A fd \in Writers : ~flag[fd]
        /\ Prober => (work["probe_out"] > 0 => readable["notify"])
        /\ ~Prober => \A fd \in Writers : work[fd] > 0 <=> fd = "scamper"
    BY <2>1 DEF LoopsInv, LoopStarts
  <2>8. "scamper" \in Writers => Driver
    BY LoopNames DEF LoopsInv, LoopTypes
  <2>9. Prober => Writers = {"probe_out"}
    BY LoopNames DEF LoopsInv, LoopTypes
  <2>10. LoopStarts' /\ FlagsTellTheTruth' /\ WritersAreWatched'
    <3>1. ASSUME at' = "wait", NEW fd \in Writers
          PROVE  /\ work[fd] > 0 => <<fd, "write">> \in watched' \/ (Prober /\ readable["notify"])
                 /\ ~Prober /\ <<fd, "write">> \in watched' => work[fd] > 0
      BY <2>6, <2>7, <2>8, <2>9, <3>1
    <3> QED
      BY <2>1, <2>3, <2>7, <3>1 DEF LoopStarts, FlagsTellTheTruth, WritersAreWatched
  <2> QED
    BY <2>5, <2>10 DEF LoopsInv
<1>2. CASE Wait
  <2>1. /\ at = "wait" /\ at' = "batch" /\ UNCHANGED <<loop, watched, readable, work, flag, stopped>>
        /\ \A fd \in Writers : <<fd, "write">> \in batch' => <<fd, "write">> \in watched
    <3>1. PICK writable \in SUBSET Writers :
            batch' = Returned({e \in watched : IF e[2] = "read" THEN CanRead(e[1])
                                               ELSE e[1] \in writable})
      BY <1>2 DEF Wait
    <3>2. ASSUME NEW S \in SUBSET watched, NEW fd, <<fd, "write">> \in Returned(S)
          PROVE  <<fd, "write">> \in S
      BY <3>2 DEF Returned
    <3> QED
      BY <1>2, <3>1, <3>2 DEF Wait
  <2>2. Writers' = Writers /\ (Driver <=> Driver') /\ (Prober <=> Prober')
    BY <2>1 DEF Writers, Driver, Prober
  <2> QED
    BY <2>1, <2>2 DEF LoopsInv, LoopTypes, LoopStarts, FlagsTellTheTruth, WritersAreWatched
<1>3. CASE WaitFails \/ BatchDone
  BY <1>3, LoopGoesOn DEF WaitFails, BatchDone, LoopsInv, LoopTypes
<1>4. CASE EndOfStream
  BY <1>4, LoopGoesOn DEF EndOfStream, Dispatch, LoopsInv, LoopTypes
<1>5. CASE TearDown
  BY <1>5 DEF TearDown, LoopsInv, LoopTypes, LoopStarts, FlagsTellTheTruth, WritersAreWatched
<1> QED
  BY <1>1, <1>2, <1>3, <1>4, <1>5

LEMMA HandlersKeepLoops ==
  ASSUME LoopsInv, NotifyRead \/ ScamperRead \/ DecodeRead
  PROVE  LoopsInv'
<1>1. CASE NotifyRead /\ ~Prober
  <2>1. /\ at = "batch" /\ UNCHANGED <<loop, at>> /\ batch' \subseteq batch
        /\ readable' = [readable EXCEPT !["notify"] = FALSE]
    BY <1>1 DEF NotifyRead, Dispatch
  <2>2. \E S \in SUBSET Writers : \E n \in [S -> 0 .. 1] : Leaves(n)
    <3>1. CASE Driver
      BY <1>1, <3>1, LoopNames DEF NotifyRead, LoopsInv, LoopTypes
    <3>2. CASE ~Driver
      BY <1>1, <3>2, LoopNames DEF NotifyRead, LoopsInv, LoopTypes
    <3> QED
      BY <3>1, <3>2
  <2> QED
    BY <1>1, <2>1, <2>2, LeavesKeeps DEF LoopsInv, LoopTypes
<1>2. CASE NotifyRead /\ Prober
  <2>1. /\ at = "batch" /\ UNCHANGED <<loop, at, work>> /\ batch' \subseteq batch
        /\ readable' = [readable EXCEPT !["notify"] = FALSE] /\ Enable({"probe_out"})
    BY <1>2, LoopNames DEF NotifyRead, Dispatch, LoopsInv, LoopTypes
  <2>2. Writers = {"probe_out"} /\ Writers' = Writers /\ Prober' /\ ~Driver'
    BY <1>2, <2>1, LoopNames DEF LoopsInv, LoopTypes, Writers, Driver, Prober
  <2>3. /\ flag' = [fd \in Files |-> flag[fd] \/ fd \in {"probe_out"}]
        /\ \/ watched' = watched \cup {<<"probe_out", "write">>} /\ stopped' = stopped
           \/ stopped' = TRUE /\ watched' = watched
    BY <2>1 DEF Enable, Mod, LoopsInv, LoopTypes
  <2>4. LoopTypes'
    <3>1. flag' \in [Files -> BOOLEAN]
      BY <2>3 DEF LoopsInv, LoopTypes
    <3>2. watched' \subseteq (Files \cup DOMAIN readable') \X {"read", "write"}
      BY <2>1, <2>3 DEF LoopsInv, LoopTypes, Files
    <3> QED
      BY <2>1, <2>3, <3>1, <3>2 DEF LoopsInv, LoopTypes
  <2> QED
    BY <2>1, <2>2, <2>3, <2>4 DEF LoopsInv, LoopStarts, FlagsTellTheTruth, WritersAreWatched
<1>3. CASE ScamperRead
  <2>1. /\ at = "batch" /\ UNCHANGED <<loop, at>> /\ batch' \subseteq batch
        /\ readable' = [readable EXCEPT !["scamper"] = FALSE]
        /\ \E n \in [Writers -> 0 .. 1] : Leaves(n)
    BY <1>3 DEF ScamperRead, Dispatch
  <2>2. readable'["notify"] = readable["notify"]
    BY <2>1 DEF LoopsInv, LoopTypes
  <2>3. readable' \in [{"notify", "decode_read", "scamper"} -> BOOLEAN]
    BY <2>1 DEF LoopsInv, LoopTypes
  <2> QED
    BY <2>1, <2>2, <2>3, LeavesKeeps
<1>4. CASE DecodeRead
  BY <1>4, LoopGoesOn DEF DecodeRead, Dispatch, LoopsInv, LoopTypes
<1> QED
  BY <1>1, <1>2, <1>3, <1>4

LEMMA WritesKeepLoops ==
  ASSUME LoopsInv, NEW fd \in Writers, Write(fd)
  PROVE  LoopsInv'
<1>1. /\ at = "batch" /\ UNCHANGED <<loop, at>> /\ batch' = batch \ {<<fd, "write">>}
      /\ readable' = [readable EXCEPT !["decode_read"] = @ \/ fd = "decode_write"]
  BY DEF Write, Dispatch
<1>2. /\ Writers' = Writers /\ (Driver <=> Driver') /\ (Prober <=> Prober')
      /\ Writers \subseteq Files
  BY <1>1, LoopNames DEF LoopsInv, LoopTypes, Writers, Driver, Prober
<1>3. PICK left \in Nat :
        /\ work' = [work EXCEPT ![fd] = left]
        /\ work[fd] = 0 => left = 0
        /\ IF left = 0 THEN Disable({fd}) ELSE UNCHANGED <<flag, watched, stopped>>
  <2>1. work[fd] \in Nat
    BY <1>2 DEF LoopsInv, LoopTypes
  <2> DEFINE Left == IF work[fd] = 0 THEN {0}
                     ELSE IF Prober THEN {work[fd] - 1} ELSE {work[fd], work[fd] - 1}
  <2>2. Left \subseteq Nat /\ (work[fd] = 0 => Left = {0})
    BY <2>1
  <2>3. \E left \in Left :
          /\ work' = [work EXCEPT ![fd] = left]
          /\ IF left = 0 THEN Disable({fd}) ELSE UNCHANGED <<flag, watched, stopped>>
    BY Zenon DEF Write
  <2> HIDE DEF Left
  <2> QED
    BY <2>2, <2>3
<1>4. /\ \A g \in Files : flag'[g] <=> flag[g] /\ ~(g = fd /\ left = 0)
      /\ flag' \in [Files -> BOOLEAN]
  BY <1>3 DEF Disable, LoopsInv, LoopTypes
<1>5. \/ watched' = (IF left = 0 THEN watched \ {<<fd, "write">>} ELSE watched) /\ stopped' = stopped
      \/ stopped' = TRUE /\ watched' = watched
  BY <1>3 DEF Disable, Mod
<1>6. /\ work' \in [Files -> Nat] /\ work'[fd] = left
      /\ \A g \in Files : g # fd => work'[g] = work[g]
  BY <1>2, <1>3 DEF LoopsInv, LoopTypes
<1>7. LoopTypes'
  <2>1. readable' \in [{"notify", "decode_read", "scamper"} -> BOOLEAN]
    BY <1>1 DEF LoopsInv, LoopTypes
  <2> QED
    BY <1>1, <1>4, <1>5, <1>6, <2>1 DEF LoopsInv, LoopTypes
<1>8. CASE stopped'
  BY <1>1, <1>7, <1>8 DEF LoopsInv, LoopStarts, FlagsTellTheTruth, WritersAreWatched
<1>9. CASE ~stopped'
  <2>1. ~stopped /\ watched' = IF left = 0 THEN watched \ {<<fd, "write">>} ELSE watched
    BY <1>5, <1>9
  <2>2. readable'["notify"] = readable["notify"]
    BY <1>1 DEF LoopsInv, LoopTypes
  <2>3. ASSUME NEW g \in Writers
        PROVE  /\ flag'[g] => <<g, "write">> \in watched'
               /\ work'[g] > 0 => <<g, "write">> \in watched' \/ (Prober /\ readable'["notify"])
               /\ ~Prober /\ <<g, "write">> \in watched' \cup batch' => work'[g] > 0
    <3>1. /\ flag[g] => <<g, "write">> \in watched
          /\ work[g] > 0 => <<g, "write">> \in watched \/ (Prober /\ readable["notify"])
          /\ ~Prober /\ <<g, "write">> \in watched \cup batch => work[g] > 0
          /\ work[g] \in Nat /\ g \in Files
      BY <1>1, <1>2, <2>1 DEF LoopsInv, FlagsTellTheTruth, WritersAreWatched, LoopTypes
    <3>2. CASE g = fd
      BY <1>1, <1>3, <1>4, <1>6, <2>1, <2>2, <3>1, <3>2
    <3>3. CASE g # fd
      <4>1. work'[g] = work[g] /\ (flag'[g] <=> flag[g])
        BY <1>4, <1>6, <3>1, <3>3
      <4>2. /\ <<g, "write">> \in watched' <=> <<g, "write">> \in watched
            /\ <<g, "write">> \in batch' => <<g, "write">> \in batch
        BY <1>1, <2>1, <3>3
      <4> QED
        BY <2>2, <3>1, <4>1, <4>2
    <3> QED
      BY <3>2, <3>3
  <2> QED
    BY <1>1, <1>2, <1>7, <2>3 DEF LoopsInv, LoopStarts, FlagsTellTheTruth, WritersAreWatched
<1> QED
  BY <1>8, <1>9

LEMMA NextKeepsLoops == LoopsInv /\ [LoopsNext]_loopVars => LoopsInv'
<1> SUFFICES ASSUME LoopsInv, [LoopsNext]_loopVars PROVE LoopsInv'
  OBVIOUS
<1>1. CASE UNCHANGED loopVars
  BY <1>1, LoopGoesOn DEF loopVars, LoopsInv, LoopTypes
<1>2. CASE LoopsNext
  BY <1>2, WorldKeepsLoops, TurnsKeepLoops, HandlersKeepLoops, WritesKeepLoops DEF LoopsNext
<1> QED
  BY <1>1, <1>2

(* For any number of inputs, WritersAreWatched: as long as a loop is not   *)
(* to stop, a writer with work is watched, or a byte will tell a prober's  *)
(* loop, and no event of a writer of the others meets an empty buffer      *)
(* (driver.cpp, udp_prober.cpp, async_decoder.cpp: run() with kqueue and   *)
(* poll).                                                                  *)
THEOREM WritersAreAlwaysWatched == LoopsSpec => []WritersAreWatched
<1>1. LoopsInv => WritersAreWatched
  BY DEF LoopsInv
<1> QED
  BY <1>1, InitLoops, NextKeepsLoops, PTL DEF LoopsSpec

-----------------------------------------------------------------------------
(* Factories and destructors *)

(* What a factory has got before step i. *)
GotBefore(i) == UNION {FactorySteps[j].gets : j \in {j \in DOMAIN FactorySteps : j < i}}

(* Between its steps a factory holds what they have got, and a driver the  *)
(* socket with which it began.                                             *)
LifeInv ==
  /\ kind \in Kinds
  /\ phase \in {"none", "connecting", "making", "runs", "exit"}
  /\ phase \in {"none", "exit"} => held = {}
  /\ phase = "connecting" => kind = "driver" /\ held = {"addrinfo"} /\ step = 1
  /\ phase = "making" => step \in 1 .. Len(FactorySteps) + 1
  /\ phase = "runs" => step = Len(FactorySteps) + 1
  /\ phase \in {"making", "runs"} =>
       /\ GotBefore(step) \subseteq held
       /\ held \subseteq GotBefore(step) \cup (IF kind = "driver" THEN {"scamper", "stdout"} ELSE {})
  /\ NothingLeftOpen

(* The steps of each factory, one by one. *)
LEMMA StepsOfFactories ==
  ASSUME kind \in {"driver", "prober", "decoder"}
  PROVE  /\ kind = "driver" =>
              /\ Len(FactorySteps) = 5 /\ DOMAIN FactorySteps = 1 .. 5
              /\ FactorySteps[1] = Try({"decode_read", "decode_write"}, {})
              /\ FactorySteps[2] = Try({"file"}, {})
              /\ FactorySteps[3] = Try({"filter"}, {"file"})
              /\ FactorySteps[4] = Try({"writebuf"}, {"file", "filter"})
              /\ FactorySteps[5] = Try({"notify_read", "notify_write"}, {"file", "writebuf", "filter"})
         /\ kind = "prober" =>
              /\ Len(FactorySteps) = 4 /\ DOMAIN FactorySteps = 1 .. 4
              /\ FactorySteps[1] = Try({"probe_out"}, {})
              /\ FactorySteps[2] = Try({}, {"probe_out"})
              /\ FactorySteps[3] = Try({"notify_read", "notify_write"}, {"probe_out"})
              /\ FactorySteps[4] = Try({}, {"probe_out", "notify_read", "notify_write"})
         /\ kind = "decoder" => Len(FactorySteps) = 7 /\ DOMAIN FactorySteps = 1 .. 7
BY DEF FactorySteps, DriverSteps, ProberSteps, DecoderSteps, DecodePair, NotifyPair, Try

LEMMA NothingBeforeFirst ==
  ASSUME kind \in Kinds
  PROVE  GotBefore(1) = {}
<1>1. {j \in DOMAIN FactorySteps : j < 1} = {}
  <2>1. DOMAIN FactorySteps \subseteq 1 .. 7
    BY StepsOfFactories, LifecycleAssumption
  <2> QED
    BY <2>1
<1> QED
  BY <1>1 DEF GotBefore

LEMMA GotNext ==
  ASSUME kind \in Kinds, NEW i \in 1 .. Len(FactorySteps)
  PROVE  GotBefore(i + 1) = GotBefore(i) \cup FactorySteps[i].gets
<1>1. DOMAIN FactorySteps = 1 .. Len(FactorySteps) /\ Len(FactorySteps) \in Nat
  BY StepsOfFactories, LifecycleAssumption
<1>2. {j \in DOMAIN FactorySteps : j < i + 1} = {j \in DOMAIN FactorySteps : j < i} \cup {i}
  BY <1>1
<1> QED
  BY <1>2 DEF GotBefore

(* Whatever fails, the factory of a driver frees the objects that it has,  *)
(* and that of a prober all that it has, but where it ends the program.    *)
LEMMA ObjectsAreFreed ==
  ASSUME kind \in Kinds, NEW i \in 1 .. Len(FactorySteps)
  PROVE  /\ kind = "driver" =>
              /\ GotBefore(i) \subseteq FactorySteps[i].frees \cup DecodePair \cup NotifyPair
              /\ FactorySteps[i].frees \subseteq {"file", "filter", "writebuf"}
         /\ kind = "prober" /\ i # 2 => GotBefore(i) \subseteq FactorySteps[i].frees
<1>1. CASE kind = "driver"
  <2>1. i \in 1 .. 5
    BY <1>1, StepsOfFactories
  <2>2. \A j \in 1 .. 5 : j < i =>
          FactorySteps[j].gets \subseteq FactorySteps[i].frees \cup DecodePair \cup NotifyPair
    BY <1>1, <2>1, StepsOfFactories DEF Try, DecodePair, NotifyPair
  <2>3. FactorySteps[i].frees \subseteq {"file", "filter", "writebuf"}
    BY <1>1, <2>1, StepsOfFactories DEF Try
  <2> QED
    BY <1>1, <2>2, <2>3, StepsOfFactories DEF GotBefore
<1>2. CASE kind = "prober"
  <2>1. i \in 1 .. 4
    BY <1>2, StepsOfFactories
  <2>2. i # 2 => \A j \in 1 .. 4 : j < i => FactorySteps[j].gets \subseteq FactorySteps[i].frees
    BY <1>2, <2>1, StepsOfFactories DEF Try
  <2> QED
    BY <1>2, <2>2, StepsOfFactories DEF GotBefore
<1> QED
  BY <1>1, <1>2

LEMMA InitLife == LifeInit => LifeInv
BY DEF LifeInit, LifeInv, NothingLeftOpen

LEMMA BeginKeepsLife ==
  ASSUME LifeInv, FindHostFails \/ FindHost \/ ConnectUnix \/ BeginMake
  PROVE  LifeInv'
<1>1. PICK next, handles :
        /\ BeginWith(next, handles)
        /\ \/ next = "making" /\ handles = {}
           \/ kind = "driver" /\ next = "making" /\ handles \in {{"scamper"}, {"stdout"}}
           \/ kind = "driver" /\ next = "connecting" /\ handles = {"addrinfo"}
           \/ next = "none" /\ handles = {}
  BY DEF FindHostFails, FindHost, ConnectUnix, BeginMake
<1>2. /\ phase' = next /\ step' = 1 /\ held' = handles /\ UNCHANGED <<kind, leaked, strays>>
  BY <1>1 DEF BeginWith
<1>3. FactorySteps' = FactorySteps /\ GotBefore(1)' = {}
  <2>1. kind' = kind /\ kind \in Kinds
    BY <1>2 DEF LifeInv
  <2>2. FactorySteps' = FactorySteps
    BY <2>1 DEF FactorySteps
  <2> QED
    BY <2>1, <2>2, NothingBeforeFirst DEF GotBefore
<1>4. Len(FactorySteps) \in Nat
  BY StepsOfFactories, LifecycleAssumption DEF LifeInv
<1> QED
  BY <1>1, <1>2, <1>3, <1>4 DEF LifeInv, NothingLeftOpen, GotBefore

(* What is given back is neither lost nor closed twice.                    *)
LEMMA GivingBackKeepsLife ==
  ASSUME LifeInv, NEW objects, NEW descriptors, GiveBack(objects, descriptors),
         kind # "decoder" => held \ (objects \cup descriptors) \subseteq {"addrinfo"},
         objects \cap descriptors = {}
  PROVE  LifeInv'
<1>1. PICK freed :
        /\ objects \subseteq freed /\ freed \subseteq objects \cup {"decode_read"}
        /\ phase' = "none" /\ held' = {} /\ UNCHANGED <<kind, step>>
        /\ leaked' = leaked \cup (held \ (freed \cup descriptors))
        /\ strays' = strays \cup (freed \cap descriptors) \cup (descriptors \cap {"stdout"})
  BY DEF GiveBack
<1>2. kind # "decoder" => leaked' \subseteq {"addrinfo"}
  BY <1>1 DEF LifeInv, NothingLeftOpen
<1>3. strays' \subseteq {"decode_read", "stdout"}
  BY <1>1 DEF LifeInv, NothingLeftOpen
<1> QED
  BY <1>1, <1>2, <1>3 DEF LifeInv, NothingLeftOpen

LEMMA StepsKeepLife ==
  ASSUME LifeInv, Connected \/ AllRefuse \/ StepSucceeds \/ StepFails \/ Exit \/ Start \/ Destruct
  PROVE  LifeInv'
<1>1. CASE Connected
  <2>1. /\ phase' = "making" /\ held' = {"scamper"} /\ UNCHANGED <<kind, step, leaked, strays>>
        /\ kind = "driver" /\ step = 1
    BY <1>1 DEF Connected, LifeInv
  <2>2. FactorySteps' = FactorySteps /\ GotBefore(1)' = {}
    BY <2>1, NothingBeforeFirst DEF FactorySteps, GotBefore, LifeInv
  <2>3. Len(FactorySteps) \in Nat
    BY StepsOfFactories, LifecycleAssumption DEF LifeInv
  <2> QED
    BY <2>1, <2>2, <2>3 DEF LifeInv, NothingLeftOpen
<1>2. CASE AllRefuse
  BY <1>2, GivingBackKeepsLife DEF AllRefuse, LifeInv
<1>3. CASE StepSucceeds
  <2>1. /\ phase = "making" /\ phase' = "making" /\ step \in 1 .. Len(FactorySteps)
        /\ held' = held \cup FactorySteps[step].gets /\ step' = step + 1
        /\ UNCHANGED <<kind, leaked, strays>> /\ Len(FactorySteps) \in Nat
    BY <1>3, StepsOfFactories, LifecycleAssumption DEF StepSucceeds, LifeInv
  <2>2. FactorySteps' = FactorySteps
    BY <2>1 DEF FactorySteps
  <2>3. GotBefore(step)' = GotBefore(step) \cup FactorySteps[step].gets
    <3>1. GotBefore(step)' = GotBefore(step + 1)
      BY <2>1, <2>2 DEF GotBefore
    <3> QED
      BY <2>1, <3>1, GotNext DEF LifeInv
  <2> QED
    BY <2>1, <2>2, <2>3 DEF LifeInv, NothingLeftOpen
<1>4. CASE StepFails
  <2> DEFINE frees == FactorySteps[step].frees
  <2>1. /\ phase = "making" /\ step \in 1 .. Len(FactorySteps) /\ ~Fatal
        /\ GiveBack(frees, Guarded)
    BY <1>4, StepsOfFactories, LifecycleAssumption DEF StepFails, LifeInv
  <2>2. kind # "decoder" => held \ (frees \cup Guarded) \subseteq {"addrinfo"}
    <3>1. CASE kind = "driver"
      <4>1. held \subseteq frees \cup DecodePair \cup NotifyPair \cup {"scamper", "stdout"}
        BY <2>1, <3>1, ObjectsAreFreed DEF LifeInv
      <4> QED
        BY <3>1, <4>1 DEF Guarded
    <3>2. CASE kind = "prober"
      BY <2>1, <3>2, ObjectsAreFreed DEF LifeInv, Fatal
    <3> QED
      BY <3>1, <3>2, LifecycleAssumption DEF LifeInv
  <2>3. frees \cap Guarded = {}
    BY <2>1, ObjectsAreFreed DEF LifeInv, Guarded, DecodePair, NotifyPair
  <2> HIDE DEF frees
  <2> QED
    BY <2>1, <2>2, <2>3, GivingBackKeepsLife
<1>5. CASE Exit
  BY <1>5 DEF Exit, LifeInv, NothingLeftOpen
<1>6. CASE Start
  <2>1. /\ phase = "making" /\ phase' = "runs" /\ step = Len(FactorySteps) + 1
        /\ UNCHANGED <<kind, step, held, leaked, strays>> /\ Len(FactorySteps) \in Nat
    BY <1>6, StepsOfFactories, LifecycleAssumption DEF Start, AllStepsDone, LifeInv
  <2>2. FactorySteps' = FactorySteps /\ GotBefore(step)' = GotBefore(step)
    BY <2>1 DEF FactorySteps, GotBefore
  <2>3. UNION {FactorySteps[i].gets : i \in DOMAIN FactorySteps} = GotBefore(step)
    <3>1. DOMAIN FactorySteps = 1 .. Len(FactorySteps)
      BY StepsOfFactories, LifecycleAssumption DEF LifeInv
    <3>2. {j \in DOMAIN FactorySteps : j < step} = DOMAIN FactorySteps
      BY <2>1, <3>1
    <3> QED
      BY <3>2 DEF GotBefore
  <2> QED
    BY <2>1, <2>2, <2>3 DEF LifeInv, NothingLeftOpen
<1>7. CASE Destruct
  <2> DEFINE objects == held \cap {"file", "filter", "writebuf"}
  <2>1. GiveBack(objects, held \ objects)
    BY <1>7 DEF Destruct
  <2> HIDE DEF objects
  <2> QED
    BY <2>1, GivingBackKeepsLife
<1> QED
  BY <1>1, <1>2, <1>3, <1>4, <1>5, <1>6, <1>7

LEMMA NextKeepsLife == LifeInv /\ [LifeNext]_lifeVars => LifeInv'
<1> SUFFICES ASSUME LifeInv, [LifeNext]_lifeVars PROVE LifeInv'
  OBVIOUS
<1>1. CASE UNCHANGED lifeVars
  <2>1. UNCHANGED <<kind, phase, step, held, leaked, strays>>
    BY <1>1 DEF lifeVars
  <2>2. FactorySteps' = FactorySteps /\ GotBefore(step)' = GotBefore(step)
    BY <2>1 DEF FactorySteps, GotBefore
  <2> QED
    BY <2>1, <2>2 DEF LifeInv, NothingLeftOpen
<1>2. CASE LifeNext
  BY <1>2, BeginKeepsLife, StepsKeepLife DEF LifeNext
<1> QED
  BY <1>1, <1>2

(* For any number of calls of a factory, NothingLeftOpen: whichever steps  *)
(* fail and however often a part comes and goes, driver and prober leave   *)
(* nothing open but an address list, nothing is closed twice but the       *)
(* reading end of a decode pair, and a part that runs has all it needs     *)
(* (driver.cpp, udp_prober.cpp, async_decoder.cpp: make, destructors).     *)
THEOREM NothingIsLeftOpen == LifeSpec => []NothingLeftOpen
<1>1. LifeInv => NothingLeftOpen
  BY DEF LifeInv
<1> QED
  BY <1>1, InitLife, NextKeepsLife, PTL DEF LifeSpec

-----------------------------------------------------------------------------
(* Counting the frames of a trace. *)

(* What the frames of some threads count for. *)
Tallied(g, S, types) == Cardinality(FramesOf(g, S, types))

AnyEther == {"none", "ipv4", "ipv6", "arp"}

CountsOf(g, S) ==
  [total |-> Tallied(g, S, AnyEther), ipv4 |-> Tallied(g, S, {"ipv4"}),
   ipv6 |-> Tallied(g, S, {"ipv6"}), others |-> Tallied(g, S, {"none", "arp"})]

Tallies == [total : Nat, ipv4 : Nat, ipv6 : Nat, others : Nat]

IsReport(m) == m # <<"done">>

ReaderTypes ==
  /\ ids \in Nat
  /\ thread \in [TraceIds -> [Threads -> {"none", "runs", "paused", "stopped"}]]
  /\ local \in [TraceIds -> [Threads -> Tallies]]
  /\ results \in [TraceIds -> Seq(Tallies)]
  /\ tally \in [TraceIds -> Tallies]
  /\ reporter \in [TraceIds -> {"none", "runs", "stopped"}]
  /\ handed \in [TraceIds -> Seq({"tcp", "udp", "icmp", "unreachable"})]
  /\ given \in [TraceIds -> Seq(Threads \X Frames)]
  /\ box \in Seq((TraceIds \X Tallies) \cup {<<"done">>})

(* A trace that was not asked for has not begun; one whose reporter runs is *)
(* known to the reader.                                                     *)
TracesKnown ==
  \A i \in TraceIds :
    /\ i >= ids => reporter[i] = "none" /\ \A t \in Threads : thread[i][t] = "none"
    /\ up /\ reporter[i] = "runs" => i \in traces /\ i \in states

(* A thread has counted what it was given, and what was handed on for the   *)
(* shards is among it.                                                      *)
ThreadsCount ==
  \A i \in TraceIds :
    /\ \A t \in Threads : local[i][t] = CountsOf(given[i], {t})
    /\ Len(handed[i]) <= Tallied(given[i], Threads, {"ipv4"})

(* The results that wait are those of stopped threads, in the order o, and  *)
(* all other stopped threads are in the tally.                              *)
InTally(i, o) ==
  {t \in Threads : thread[i][t] = "stopped" /\ \A k \in DOMAIN o : o[k] # t}

Ordered(i, o) ==
  /\ \A k \in DOMAIN o :
       thread[i][o[k]] = "stopped" /\ results[i][k] = local[i][o[k]]
  /\ \A j, k \in DOMAIN o : o[j] = o[k] => j = k
  /\ tally[i] = CountsOf(given[i], InTally(i, o))

AddedUp ==
  \A i \in TraceIds :
    \E o \in [1 .. Len(results[i]) -> Threads] : Ordered(i, o)

(* A report is complete, and the only one of its trace. *)
ReportsWait ==
  /\ \A k \in DOMAIN box : IsReport(box[k]) =>
       LET i == box[k][1]
       IN  /\ reporter[i] = "stopped"
           /\ \A t \in Threads : thread[i][t] = "stopped"
           /\ box[k][2] = CountsOf(given[i], Threads)
           /\ up => i \in traces /\ i \in states
  /\ \A j, k \in DOMAIN box :
       IsReport(box[j]) /\ IsReport(box[k]) /\ box[j][1] = box[k][1] => j = k

ReaderInv == ReaderTypes /\ TracesKnown /\ ThreadsCount /\ AddedUp /\ ReportsWait

LEMMA FrameFacts ==
  ASSUME NEW g \in Seq(Threads \X Frames), NEW S, NEW types
  PROVE  /\ DOMAIN g = 1 .. Len(g) /\ Len(g) \in Nat
         /\ FramesOf(g, S, types) \subseteq 1 .. Len(g)
         /\ IsFiniteSet(FramesOf(g, S, types))
         /\ Tallied(g, S, types) \in Nat
<1>1. DOMAIN g = 1 .. Len(g) /\ Len(g) \in Nat
  BY LenProperties
<1>2. FramesOf(g, S, types) \subseteq 1 .. Len(g)
  BY <1>1 DEF FramesOf
<1>3. IsFiniteSet(1 .. Len(g))
  BY <1>1, FS_Interval
<1>4. IsFiniteSet(FramesOf(g, S, types))
  BY <1>2, <1>3, FS_Subset
<1> QED
  BY <1>1, <1>2, <1>4, FS_CardinalityType DEF Tallied

(* One frame more. *)
More(g, t, f) == Append(g, <<t, f>>)

IsOne(t, f, S, types) == IF t \in S /\ f.ether \in types THEN 1 ELSE 0

(* A frame more counts one more for the thread and types that it is of.     *)
LEMMA TalliedMore ==
  ASSUME NEW g \in Seq(Threads \X Frames), NEW t \in Threads, NEW f \in Frames,
         NEW S, NEW types
  PROVE  Tallied(More(g, t, f), S, types) =
           Tallied(g, S, types) + IsOne(t, f, S, types)
<1> DEFINE h == More(g, t, f)
           n == Len(g) + 1
           Old == FramesOf(g, S, types)
           New == FramesOf(h, S, types)
<1>1. DOMAIN g = 1 .. Len(g) /\ Len(g) \in Nat /\ Old \subseteq 1 .. Len(g)
      /\ IsFiniteSet(Old)
  BY FrameFacts
<1>2. /\ h \in Seq(Threads \X Frames) /\ Len(h) = n /\ DOMAIN h = 1 .. n
      /\ h[n] = <<t, f>>
      /\ \A i \in 1 .. Len(g) : h[i] = g[i]
  BY <1>1, AppendProperties, LenProperties DEF More
<1>3. n \notin Old
  BY <1>1
<1>4. \A i : i \in New <=> i \in Old \/ (i = n /\ t \in S /\ f.ether \in types)
  <2> TAKE i
  <2>1. i \in DOMAIN h <=> i \in DOMAIN g \/ i = n
    BY <1>1, <1>2
  <2>2. CASE i \in DOMAIN g
    <3>1. h[i] = g[i] /\ i # n
      BY <1>1, <1>2, <2>2
    <3> QED
      BY <2>1, <2>2, <3>1 DEF FramesOf
  <2>3. CASE i = n
    <3>1. i \notin Old /\ i \in DOMAIN h
      BY <1>3, <2>1, <2>3
    <3>2. h[i] = <<t, f>>
      BY <1>2, <2>3
    <3>3. \A p : p = <<t, f>> => p[1] = t /\ p[2] = f
      OBVIOUS
    <3>4. h[i][1] = t /\ h[i][2] = f
      BY <3>2, <3>3, Zenon
    <3> QED
      BY <2>3, <3>1, <3>4 DEF FramesOf
  <2>4. CASE i \notin DOMAIN g /\ i # n
    BY <2>1, <2>4 DEF FramesOf
  <2> QED
    BY <2>2, <2>3, <2>4
<1>5. CASE t \in S /\ f.ether \in types
  <2>1. New = Old \cup {n}
    <3> HIDE DEF New, Old, n
    <3> QED
      BY <1>4, <1>5
  <2>2. Cardinality(Old \cup {n}) = Cardinality(Old) + 1
    BY <1>1, <1>3, FS_AddElement
  <2> QED
    BY <1>5, <2>1, <2>2 DEF Tallied, IsOne
<1>6. CASE ~(t \in S /\ f.ether \in types)
  <2>1. New = Old
    <3> HIDE DEF New, Old, n
    <3> QED
      BY <1>4, <1>6
  <2> QED
    BY <1>6, <2>1 , FrameFacts DEF Tallied, IsOne
<1> QED
  BY <1>5, <1>6

Together(A, B) == A \cup B

Apart(A, B) == A \cap B = {}

LEMMA TalliedJoin ==
  ASSUME NEW g \in Seq(Threads \X Frames), NEW A, NEW B, NEW types, Apart(A, B)
  PROVE  Tallied(g, Together(A, B), types) = Tallied(g, A, types) + Tallied(g, B, types)
<1> DEFINE P == FramesOf(g, A, types)
           Q == FramesOf(g, B, types)
<1>1. IsFiniteSet(P) /\ IsFiniteSet(Q)
  BY FrameFacts
<1>2. FramesOf(g, Together(A, B), types) = P \cup Q
  BY Zenon DEF FramesOf, Together
<1>3. P \cap Q = {}
  BY DEF FramesOf, Apart
<1>4. Cardinality(P \cup Q) = Cardinality(P) + Cardinality(Q) - Cardinality(P \cap Q)
  BY <1>1, FS_Union
<1>5. Cardinality(P \cap Q) = 0
  BY <1>3, FS_EmptySet
<1>6. Cardinality(P) \in Nat /\ Cardinality(Q) \in Nat
  BY <1>1, FS_CardinalityType
<1> HIDE DEF P, Q
<1>7. Cardinality(P \cup Q) = Cardinality(P) + Cardinality(Q)
  BY <1>4, <1>5, <1>6
<1> QED
  BY <1>2, <1>7 DEF Tallied, P, Q

LEMMA TalliedNone ==
  ASSUME NEW g \in Seq(Threads \X Frames), NEW S, NEW types
  PROVE  Tallied(<<>>, S, types) = 0 /\ Tallied(g, {}, types) = 0
<1>1. FramesOf(<<>>, S, types) = {}
  BY DEF FramesOf
<1>2. FramesOf(g, {}, types) = {}
  BY DEF FramesOf
<1> QED
  BY <1>1, <1>2, FS_EmptySet DEF Tallied

LEMMA TalliedAll ==
  ASSUME NEW g \in Seq(Threads \X Frames)
  PROVE  Tallied(g, Threads, AnyEther) = Len(g)
<1>1. DOMAIN g = 1 .. Len(g) /\ Len(g) \in Nat
  BY LenProperties
<1>2. ASSUME NEW n \in DOMAIN g PROVE g[n][1] \in Threads /\ g[n][2].ether \in AnyEther
  <2>1. g[n] \in Threads \X Frames
    BY <1>1, ElementOfSeq
  <2>2. g[n][1] \in Threads /\ g[n][2] \in FrameType
    BY <2>1, ReaderAssumption
  <2> QED
    BY <2>2 DEF FrameType, AnyEther
<1>3. FramesOf(g, Threads, AnyEther) = 1 .. Len(g)
  BY <1>1, <1>2 DEF FramesOf
<1>4. Cardinality(1 .. Len(g)) = Len(g)
  <2>1. 1 \in Int /\ Len(g) \in Int
    BY <1>1
  <2>2. Cardinality(1 .. Len(g)) = IF 1 > Len(g) THEN 0 ELSE Len(g) - 1 + 1
    BY <2>1, FS_Interval
  <2> QED
    BY <1>1, <2>2
<1> QED
  BY <1>3, <1>4 DEF Tallied

CountedFor(S, t, f, c) == IF t \in S THEN Counted(c, f) ELSE c

LEMMA CountsMore ==
  ASSUME NEW g \in Seq(Threads \X Frames), NEW t \in Threads, NEW f \in Frames,
         NEW S
  PROVE  CountsOf(More(g, t, f), S) = CountedFor(S, t, f, CountsOf(g, S))
<1> DEFINE T(types) == Tallied(g, S, types)
           N(types) == Tallied(More(g, t, f), S, types)
<1>1. f.ether \in AnyEther
  BY ReaderAssumption DEF FrameType, AnyEther
<1>2. \A types : /\ t \in S /\ f.ether \in types => N(types) = T(types) + 1
                 /\ ~(t \in S /\ f.ether \in types) => N(types) = T(types)
  <2> TAKE types
  <2>1. N(types) = T(types) + IsOne(t, f, S, types)
    BY TalliedMore
  <2>2. T(types) \in Nat
    BY FrameFacts
  <2> HIDE DEF N, T
  <2> QED
    BY <2>1, <2>2 DEF IsOne
<1>3. CountsOf(More(g, t, f), S) =
        [total |-> N(AnyEther), ipv4 |-> N({"ipv4"}), ipv6 |-> N({"ipv6"}),
         others |-> N({"none", "arp"})]
  BY DEF CountsOf
<1>4. CountsOf(g, S) =
        [total |-> T(AnyEther), ipv4 |-> T({"ipv4"}), ipv6 |-> T({"ipv6"}),
         others |-> T({"none", "arp"})]
  BY DEF CountsOf
<1> HIDE DEF N, T
<1>5. CASE t \in S
  <2>1. N(AnyEther) = T(AnyEther) + 1
    BY <1>1, <1>2, <1>5
  <2>2. N({"ipv4"}) = IF f.ether = "ipv4" THEN T({"ipv4"}) + 1 ELSE T({"ipv4"})
    BY <1>2, <1>5
  <2>3. N({"ipv6"}) = IF f.ether = "ipv6" THEN T({"ipv6"}) + 1 ELSE T({"ipv6"})
    BY <1>2, <1>5
  <2>4. N({"none", "arp"}) = IF f.ether \in {"none", "arp"} THEN T({"none", "arp"}) + 1
                             ELSE T({"none", "arp"})
    BY <1>2, <1>5
  <2>5. Counted(CountsOf(g, S), f) =
          [total |-> N(AnyEther), ipv4 |-> N({"ipv4"}), ipv6 |-> N({"ipv6"}),
           others |-> N({"none", "arp"})]
    BY <1>4, <2>1, <2>2, <2>3, <2>4 DEF Counted
  <2> QED
    BY <1>3, <1>5, <2>5 DEF CountedFor
<1>6. CASE t \notin S
  BY <1>2, <1>3, <1>4, <1>6 DEF CountedFor
<1> QED
  BY <1>5, <1>6

LEMMA CountsJoin ==
  ASSUME NEW g \in Seq(Threads \X Frames), NEW A, NEW B, Apart(A, B)
  PROVE  CountsOf(g, Together(A, B)) = Sum(CountsOf(g, A), CountsOf(g, B))
<1>1. \A types : Tallied(g, Together(A, B), types) = Tallied(g, A, types) + Tallied(g, B, types)
  BY TalliedJoin
<1> QED
  BY <1>1 DEF CountsOf, Sum

LEMMA CountsNone ==
  ASSUME NEW g \in Seq(Threads \X Frames), NEW S
  PROVE  CountsOf(g, {}) = NoCounts /\ CountsOf(<<>>, S) = NoCounts
BY TalliedNone DEF CountsOf, NoCounts

LEMMA CountsType ==
  ASSUME NEW g \in Seq(Threads \X Frames), NEW S
  PROVE  CountsOf(g, S) \in Tallies
BY FrameFacts DEF CountsOf, Tallies

-----------------------------------------------------------------------------
(* Messages to the reader. *)

LEMMA MessageKinds ==
  /\ \A i, c : IsReport(<<i, c>>)
  /\ ~IsReport(<<"done">>)
<1>1. \A i, c : <<i, c>> # <<"done">>
  <2> TAKE i, c
  <2>1. Len(<<i, c>>) = 2 /\ Len(<<"done">>) = 1
    OBVIOUS
  <2> QED
    BY <2>1
<1> QED
  BY <1>1 DEF IsReport

ReportTypes == TraceIds \X Tallies

BoxTypes == ReportTypes \cup {<<"done">>}

LEMMA ReportFacts ==
  ASSUME NEW m \in BoxTypes, IsReport(m)
  PROVE  m[1] \in TraceIds /\ m[2] \in Tallies
BY DEF BoxTypes, ReportTypes, IsReport

(* At first nothing has been counted. *)
LEMMA InitReader == ReaderInit => ReaderInv
<1> SUFFICES ASSUME ReaderInit PROVE ReaderInv
  OBVIOUS
<1> USE DEF ReaderInit
<1>1. TraceIds \subseteq Nat
  BY DEF TraceIds
<1>2. NoCounts \in Tallies
  BY DEF NoCounts, Tallies
<1>3. ReaderTypes
  BY <1>2, EmptySeq DEF ReaderTypes
<1>4. TracesKnown
  BY DEF TracesKnown
<1>5. \A i \in TraceIds : given[i] = <<>> /\ results[i] = <<>> /\ tally[i] = NoCounts
                          /\ given[i] \in Seq(Threads \X Frames)
                          /\ handed[i] = <<>>
  BY EmptySeq
<1>6. ThreadsCount
  <2>1. ASSUME NEW i \in TraceIds PROVE Tallied(given[i], Threads, {"ipv4"}) = 0
    BY <1>5, TalliedNone
  <2>2. ASSUME NEW i \in TraceIds, NEW t \in Threads PROVE local[i][t] = CountsOf(given[i], {t})
    <3>1. CountsOf(<<>>, {t}) = NoCounts
      BY <1>5, CountsNone
    <3> QED
      BY <1>5, <3>1
  <2>3. \A i \in TraceIds : Len(handed[i]) = 0
    BY <1>5
  <2> QED
    BY <2>1, <2>2, <2>3 DEF ThreadsCount
<1>7. AddedUp
  <2> SUFFICES ASSUME NEW i \in TraceIds
               PROVE  \E o \in [1 .. Len(results[i]) -> Threads] : Ordered(i, o)
    BY DEF AddedUp
  <2>1. Len(results[i]) = 0
    BY <1>5
  <2>2. <<>> \in [1 .. Len(results[i]) -> Threads] /\ DOMAIN <<>> = {}
    BY <2>1
  <2>3. CountsOf(given[i], InTally(i, <<>>)) = NoCounts
    BY <1>5, CountsNone
  <2>4. Ordered(i, <<>>)
    BY <1>5, <2>2, <2>3, Zenon DEF Ordered
  <2> QED
    BY <2>2, <2>4
<1>8. ReportsWait
  BY DEF ReportsWait
<1> QED
  BY <1>3, <1>4, <1>6, <1>7, <1>8 DEF ReaderInv

-----------------------------------------------------------------------------
(* What the invariant needs of a trace that a step leaves alone, and of     *)
(* what does not concern it.                                                *)
LEMMA SameTrace ==
  ASSUME NEW i, AddedUp, i \in TraceIds,
         thread'[i] = thread[i], local'[i] = local[i], results'[i] = results[i],
         tally'[i] = tally[i], given'[i] = given[i]
  PROVE  \E o \in [1 .. Len(results'[i]) -> Threads] : Ordered(i, o)'
<1>1. PICK o \in [1 .. Len(results[i]) -> Threads] : Ordered(i, o)
  BY DEF AddedUp
<1>2. Ordered(i, o)'
  BY <1>1 DEF Ordered, InTally
<1> QED
  BY <1>1, <1>2

(* Handlers of the reader that leave traces and messages alone. *)
LEMMA TraceVarsKeep ==
  ASSUME ReaderInv, UNCHANGED traceVars, ids' \in Nat, box' = box,
         UNCHANGED <<ids, up, traces, states>>
  PROVE  ReaderInv'
<1> USE DEF ReaderInv, traceVars
<1>1. ReaderTypes'
  BY DEF ReaderTypes
<1>2. TracesKnown'
  BY DEF TracesKnown
<1>3. ThreadsCount'
  BY DEF ThreadsCount
<1>4. AddedUp'
  BY SameTrace DEF AddedUp
<1>5. ReportsWait'
  BY DEF ReportsWait
<1> QED
  BY <1>1, <1>2, <1>3, <1>4, <1>5

LEMMA PerPacketKeeps ==
  ASSUME ReaderInv, NEW i \in TraceIds, NEW t \in Threads, PerPacket(i, t)
  PROVE  ReaderInv'
<1> USE DEF ReaderInv
<1>1. PICK f \in Frames :
        /\ local' = [local EXCEPT ![i][t] = Counted(@, f)]
        /\ handed' = IF Kept(f) THEN [handed EXCEPT ![i] = Append(@, ExtractProtocol(f))]
                     ELSE handed
        /\ given' = [given EXCEPT ![i] = Append(@, <<t, f>>)]
  BY DEF PerPacket
<1>2. /\ thread[i][t] = "runs"
      /\ UNCHANGED <<actorVars, box, thread, results, tally, reporter>>
  BY DEF PerPacket
<1>3. f \in FrameType
  BY ReaderAssumption
<1>4. given[i] \in Seq(Threads \X Frames) /\ local[i] \in [Threads -> Tallies]
      /\ handed[i] \in Seq({"tcp", "udp", "icmp", "unreachable"})
  BY DEF ReaderTypes
<1>5. given'[i] = More(given[i], t, f) /\ \A j \in TraceIds \ {i} : given'[j] = given[j]
  BY <1>1 DEF ReaderTypes, More
<1>6. given' \in [TraceIds -> Seq(Threads \X Frames)]
  <2>1. Append(given[i], <<t, f>>) \in Seq(Threads \X Frames)
    BY <1>4, AppendProperties
  <2> QED
    BY <1>1, <2>1 DEF ReaderTypes
<1>7. local' \in [TraceIds -> [Threads -> Tallies]]
  <2>1. \A c \in Tallies : Counted(c, f) \in Tallies
    BY DEF Counted, Tallies
  <2>2. Counted(local[i][t], f) \in Tallies
    BY <1>4, <2>1
  <2>3. [local[i] EXCEPT ![t] = Counted(@, f)] \in [Threads -> Tallies]
    BY <1>4, <2>2
  <2> QED
    BY <1>1, <2>3 DEF ReaderTypes
<1>8. /\ local'[i][t] = Counted(local[i][t], f)
      /\ \A u \in Threads \ {t} : local'[i][u] = local[i][u]
      /\ \A j \in TraceIds \ {i} : local'[j] = local[j]
  BY <1>1, <1>4 DEF ReaderTypes
<1>9. handed' \in [TraceIds -> Seq({"tcp", "udp", "icmp", "unreachable"})]
  <2>1. ASSUME Kept(f) PROVE ExtractProtocol(f) \in {"tcp", "udp", "icmp", "unreachable"}
    BY <1>3, <2>1 DEF Kept, ExtractProtocol, FrameType
  <2>2. CASE Kept(f)
    <3>1. Append(handed[i], ExtractProtocol(f)) \in Seq({"tcp", "udp", "icmp", "unreachable"})
      BY <1>4, <2>1, <2>2, AppendProperties
    <3> QED
      BY <1>1, <2>2, <3>1 DEF ReaderTypes
  <2> QED
    BY <1>1, <2>2 DEF ReaderTypes
<1>10. ReaderTypes'
  BY <1>2, <1>6, <1>7, <1>9 DEF ReaderTypes, actorVars
<1>11. TracesKnown'
  BY <1>2 DEF TracesKnown, actorVars
<1>12. \A S : CountsOf(given'[i], S) =
               IF t \in S THEN Counted(CountsOf(given[i], S), f) ELSE CountsOf(given[i], S)
  <2> TAKE S
  <2>1. CountsOf(More(given[i], t, f), S) = CountedFor(S, t, f, CountsOf(given[i], S))
    BY <1>4, CountsMore
  <2> QED
    BY <1>5, <2>1 DEF CountedFor
<1>13. ThreadsCount'
  <2> SUFFICES ASSUME NEW j \in TraceIds
               PROVE  /\ \A u \in Threads : local'[j][u] = CountsOf(given'[j], {u})
                      /\ Len(handed'[j]) <= Tallied(given'[j], Threads, {"ipv4"})
    BY DEF ThreadsCount
  <2>1. CASE j # i
    <3>1. handed'[j] = handed[j]
      BY <1>1, <2>1 DEF ReaderTypes
    <3> QED
      BY <1>5, <1>8, <2>1, <3>1 DEF ThreadsCount
  <2>2. CASE j = i
    <3>1. ASSUME NEW u \in Threads PROVE local'[i][u] = CountsOf(given'[i], {u})
      <4>1. local[i][u] = CountsOf(given[i], {u})
        BY DEF ThreadsCount
      <4>2. CASE u = t
        BY <1>8, <1>12, <4>1, <4>2
      <4>3. CASE u # t
        <5>1. t \notin {u}
          BY <4>3
        <5> QED
          BY <1>8, <1>12, <4>1, <4>3, <5>1
      <4> QED
        BY <4>2, <4>3
    <3>2. Tallied(given'[i], Threads, {"ipv4"}) =
            Tallied(given[i], Threads, {"ipv4"})
              + (IF t \in Threads /\ f.ether \in {"ipv4"} THEN 1 ELSE 0)
      <4>1. \A types : Tallied(More(given[i], t, f), Threads, types) =
              Tallied(given[i], Threads, types)
                + IsOne(t, f, Threads, types)
        <5> DEFINE g == given[i]
        <5>1. g \in Seq(Threads \X Frames)
          BY <1>4
        <5> HIDE DEF g
        <5>2. \A types : Tallied(More(g, t, f), Threads, types) =
                           Tallied(g, Threads, types) + IsOne(t, f, Threads, types)
          BY <5>1, TalliedMore
        <5> QED
          BY <5>2 DEF g
      <4> QED
        BY <1>5, <4>1 DEF IsOne
    <3>3. Tallied(given[i], Threads, {"ipv4"}) \in Nat
      BY <1>4, FrameFacts
    <3>4. Len(handed[i]) \in Nat /\ Len(handed[i]) <= Tallied(given[i], Threads, {"ipv4"})
      BY <1>4, LenProperties DEF ThreadsCount
    <3>5. CASE Kept(f)
      <4>1. f.ether = "ipv4"
        BY <3>5 DEF Kept
      <4>2. handed'[i] = Append(handed[i], ExtractProtocol(f))
        BY <1>1, <3>5 DEF ReaderTypes
      <4>3. Len(handed'[i]) = Len(handed[i]) + 1
        BY <1>4, <4>2, LenProperties
      <4> HIDE DEF ReaderInv
      <4> QED
        BY <2>2, <3>1, <3>2, <3>3, <3>4, <4>1, <4>3
    <3>6. CASE ~Kept(f)
      <4>1. handed'[i] = handed[i]
        BY <1>1, <3>6
      <4> HIDE DEF ReaderInv
      <4> QED
        BY <2>2, <3>1, <3>2, <3>3, <3>4, <4>1
    <3> QED
      BY <3>5, <3>6
  <2> QED
    BY <2>1, <2>2
<1>14. AddedUp'
  <2> SUFFICES ASSUME NEW j \in TraceIds
               PROVE  \E o \in [1 .. Len(results'[j]) -> Threads] : Ordered(j, o)'
    BY DEF AddedUp
  <2>1. CASE j # i
    BY <1>2, <1>5, <1>8, <2>1, SameTrace
  <2>2. CASE j = i
    <3>1. PICK o \in [1 .. Len(results[i]) -> Threads] : Ordered(i, o)
      BY DEF AddedUp
    <3>2. t \notin InTally(i, o) /\ \A k \in DOMAIN o : o[k] # t
      BY <1>2, <3>1 DEF InTally, Ordered
    <3>3. CountsOf(given'[i], InTally(i, o)) = CountsOf(given[i], InTally(i, o))
      BY <1>12, <3>2
    <3>4. InTally(i, o)' = InTally(i, o)
      BY <1>2 DEF InTally
    <3>5. \A k \in DOMAIN o : local'[i][o[k]] = local[i][o[k]]
      BY <1>8, <3>1, <3>2
    <3>6. Ordered(i, o)'
      BY <1>2, <3>1, <3>3, <3>4, <3>5 DEF Ordered
    <3> QED
      BY <1>2, <2>2, <3>1, <3>6
  <2> QED
    BY <2>1, <2>2
<1>15. ReportsWait'
  <2>1. ASSUME NEW k \in DOMAIN box, IsReport(box[k]) PROVE box[k][1] # i
    BY <1>2, <2>1 DEF ReportsWait
  <2>2. ASSUME NEW k \in DOMAIN box, IsReport(box[k]) PROVE given'[box[k][1]] = given[box[k][1]]
    <3>1. box[k] \in BoxTypes
      BY ElementOfSeq, LenProperties DEF ReaderTypes, BoxTypes, ReportTypes
    <3>2. box[k][1] \in TraceIds
      BY <2>2, <3>1, ReportFacts
    <3> QED
      BY <1>5, <2>1, <2>2, <3>2
  <2> QED
    BY <1>2, <2>2 DEF ReportsWait, actorVars
<1> QED
  BY <1>10, <1>11, <1>13, <1>14, <1>15

(* A thread that stops goes to the end of the order. *)
LEMMA StopProcessingKeeps ==
  ASSUME ReaderInv, NEW i \in TraceIds, NEW t \in Threads, StopProcessing(i, t)
  PROVE  ReaderInv'
<1> USE DEF ReaderInv
<1>1. /\ thread[i][t] = "runs"
      /\ thread' = [thread EXCEPT ![i][t] = "stopped"]
      /\ results' = [results EXCEPT ![i] = Append(@, local[i][t])]
      /\ UNCHANGED <<actorVars, box, local, tally, reporter, handed, given>>
  BY DEF StopProcessing, PublishStats
<1>2. /\ results[i] \in Seq(Tallies) /\ local[i][t] \in Tallies
      /\ thread[i] \in [Threads -> {"none", "runs", "paused", "stopped"}]
      /\ given[i] \in Seq(Threads \X Frames)
  BY DEF ReaderTypes
<1>3. /\ thread' \in [TraceIds -> [Threads -> {"none", "runs", "paused", "stopped"}]]
      /\ thread'[i][t] = "stopped"
      /\ \A u \in Threads \ {t} : thread'[i][u] = thread[i][u]
      /\ \A j \in TraceIds \ {i} : thread'[j] = thread[j] /\ results'[j] = results[j]
      /\ results'[i] = Append(results[i], local[i][t])
  BY <1>1, <1>2 DEF ReaderTypes
<1>4. ReaderTypes'
  <2>1. Append(results[i], local[i][t]) \in Seq(Tallies)
    BY <1>2, AppendProperties
  <2>2. results' \in [TraceIds -> Seq(Tallies)]
    BY <1>1, <2>1 DEF ReaderTypes
  <2> QED
    BY <1>1, <1>3, <2>2 DEF ReaderTypes, actorVars
<1>5. TracesKnown'
  <2>1. ~(i >= ids)
    BY <1>1 DEF TracesKnown
  <2> QED
    BY <1>1, <1>3, <2>1 DEF TracesKnown, actorVars
<1>6. ThreadsCount'
  BY <1>1 DEF ThreadsCount
<1>7. AddedUp'
  <2> SUFFICES ASSUME NEW j \in TraceIds
               PROVE  \E o \in [1 .. Len(results'[j]) -> Threads] : Ordered(j, o)'
    BY DEF AddedUp
  <2>1. CASE j # i
    BY <1>1, <1>3, <2>1, SameTrace
  <2>2. CASE j = i
    <3> DEFINE n == Len(results[i])
    <3>1. PICK o \in [1 .. n -> Threads] : Ordered(i, o)
      BY DEF AddedUp
    <3>2. n \in Nat /\ Len(results'[i]) = n + 1
          /\ \A k \in 1 .. n : results'[i][k] = results[i][k]
          /\ results'[i][n + 1] = local[i][t]
      BY <1>2, <1>3, LenProperties, AppendProperties
    <3>3. PICK p \in [1 .. n + 1 -> Threads] :
            /\ DOMAIN p = 1 .. n + 1 /\ p[n + 1] = t
            /\ \A k \in 1 .. n : k \in DOMAIN o /\ k # n + 1 /\ k \in DOMAIN p /\ p[k] = o[k]
      <4> DEFINE q == [k \in 1 .. n + 1 |-> IF k = n + 1 THEN t ELSE o[k]]
      <4>1. /\ q \in [1 .. n + 1 -> Threads] /\ DOMAIN q = 1 .. n + 1 /\ q[n + 1] = t
            /\ \A k \in 1 .. n : k \in DOMAIN o /\ k # n + 1 /\ k \in DOMAIN q /\ q[k] = o[k]
        BY <3>1, <3>2
      <4> QED
        BY <4>1
    <3>4. \A k \in 1 .. n : o[k] # t /\ o[k] \in Threads
      BY <1>1, <3>1, <3>3 DEF Ordered
    <3>5. \A k \in 1 .. n + 1 : k \in 1 .. n \/ k = n + 1
      BY <3>2
    <3> HIDE DEF n
    <3>6. \A k \in DOMAIN p : thread'[i][p[k]] = "stopped" /\ results'[i][k] = local'[i][p[k]]
      <4> SUFFICES ASSUME NEW k \in DOMAIN p
                   PROVE  thread'[i][p[k]] = "stopped" /\ results'[i][k] = local'[i][p[k]]
        OBVIOUS
      <4>1. CASE k \in 1 .. n
        <5>1. thread[i][o[k]] = "stopped" /\ results[i][k] = local[i][o[k]]
          BY <3>1, <3>3, <4>1 DEF Ordered
        <5> QED
          BY <1>1, <1>3, <3>2, <3>3, <3>4, <4>1, <5>1
      <4>2. CASE k = n + 1
        BY <1>1, <1>3, <3>2, <3>3, <4>2
      <4> QED
        BY <3>3, <3>5, <4>1, <4>2
    <3>7. \A j1, k \in DOMAIN p : p[j1] = p[k] => j1 = k
      BY <3>1, <3>3, <3>4, <3>5 DEF Ordered
    <3>8. InTally(i, p)' = InTally(i, o)
      <4>1. ASSUME NEW u \in Threads
            PROVE  (thread'[i][u] = "stopped" /\ \A k \in DOMAIN p : p[k] # u)
                   <=> (thread[i][u] = "stopped" /\ \A k \in DOMAIN o : o[k] # u)
        <5>0. DOMAIN o = 1 .. n
          BY <3>1
        <5>1. CASE u = t
          <6>1. p[n + 1] = u /\ n + 1 \in DOMAIN p
            BY <3>2, <3>3, <5>1
          <6>2. thread[i][u] # "stopped"
            BY <1>1, <5>1
          <6> QED
            BY <6>1, <6>2
        <5>2. CASE u # t
          <6>1. thread'[i][u] = thread[i][u]
            BY <1>3, <5>2
          <6>2. (\A k \in DOMAIN p : p[k] # u) => (\A k \in DOMAIN o : o[k] # u)
            BY <3>3, <5>0
          <6>3. (\A k \in DOMAIN o : o[k] # u) => (\A k \in DOMAIN p : p[k] # u)
            BY <3>3, <3>5, <5>2
          <6> QED
            BY <6>1, <6>2, <6>3
        <5> QED
          BY <5>1, <5>2
      <4> QED
        BY <4>1 DEF InTally
    <3>9. tally'[i] = CountsOf(given'[i], InTally(i, p)')
      BY <1>1, <3>1, <3>8 DEF Ordered
    <3>10. Ordered(i, p)'
      BY <3>6, <3>7, <3>9 DEF Ordered
    <3> QED
      BY <2>2, <3>2, <3>3, <3>10
  <2> QED
    BY <2>1, <2>2
<1>8. ReportsWait'
  <2>1. ASSUME NEW k \in DOMAIN box, IsReport(box[k])
        PROVE  \A u \in Threads : thread'[box[k][1]][u] = "stopped"
    <3>1. box[k] \in BoxTypes
      BY ElementOfSeq, LenProperties DEF ReaderTypes, BoxTypes, ReportTypes
    <3>2. box[k][1] \in TraceIds
      BY <2>1, <3>1, ReportFacts
    <3>3. box[k][1] # i
      BY <1>1, <2>1 DEF ReportsWait
    <3> QED
      BY <1>3, <2>1, <3>2, <3>3 DEF ReportsWait
  <2> QED
    BY <1>1, <2>1 DEF ReportsWait, actorVars
<1> QED
  BY <1>4, <1>5, <1>6, <1>7, <1>8

(* The reporter adds what the first in the order has counted. *)
LEMMA PerResultKeeps ==
  ASSUME ReaderInv, NEW i \in TraceIds, PerResult(i)
  PROVE  ReaderInv'
<1> USE DEF ReaderInv
<1>1. /\ reporter[i] = "runs" /\ results[i] # <<>>
      /\ tally' = [tally EXCEPT ![i] = Sum(@, Head(results[i]))]
      /\ results' = [results EXCEPT ![i] = Tail(@)]
      /\ UNCHANGED <<actorVars, box, thread, local, reporter, handed, given>>
  BY DEF PerResult
<1>2. /\ results[i] \in Seq(Tallies) /\ tally[i] \in Tallies
      /\ given[i] \in Seq(Threads \X Frames)
  BY DEF ReaderTypes
<1> DEFINE n == Len(results[i])
<1>3. /\ n \in Nat /\ n > 0 /\ Head(results[i]) = results[i][1]
      /\ Head(results[i]) \in Tallies
      /\ Tail(results[i]) \in Seq(Tallies) /\ Len(Tail(results[i])) = n - 1
      /\ \A k \in 1 .. n - 1 : Tail(results[i])[k] = results[i][k + 1]
  BY <1>1, <1>2, LenProperties, HeadTailProperties, EmptySeq
<1>4. /\ results'[i] = Tail(results[i])
      /\ tally'[i] = Sum(tally[i], results[i][1])
      /\ \A j \in TraceIds \ {i} : results'[j] = results[j] /\ tally'[j] = tally[j]
  BY <1>1, <1>3 DEF ReaderTypes
<1>5. ReaderTypes'
  <2>1. \A a, b \in Tallies : Sum(a, b) \in Tallies
    BY DEF Sum, Tallies
  <2>2. Sum(tally[i], Head(results[i])) \in Tallies
    BY <1>2, <1>3, <2>1
  <2>3. results' \in [TraceIds -> Seq(Tallies)] /\ tally' \in [TraceIds -> Tallies]
    BY <1>1, <1>3, <2>2 DEF ReaderTypes
  <2> QED
    BY <1>1, <2>3 DEF ReaderTypes, actorVars
<1>6. TracesKnown'
  BY <1>1 DEF TracesKnown, actorVars
<1>7. ThreadsCount'
  BY <1>1 DEF ThreadsCount
<1>8. AddedUp'
  <2> SUFFICES ASSUME NEW j \in TraceIds
               PROVE  \E o \in [1 .. Len(results'[j]) -> Threads] : Ordered(j, o)'
    BY DEF AddedUp
  <2>1. CASE j # i
    BY <1>1, <1>4, <2>1, SameTrace
  <2>2. CASE j = i
    <3>1. PICK o \in [1 .. n -> Threads] : Ordered(i, o)
      BY DEF AddedUp
    <3> DEFINE t == o[1]
    <3>2. /\ DOMAIN o = 1 .. n /\ 1 \in DOMAIN o
          /\ \A k \in 1 .. n - 1 : k + 1 \in DOMAIN o /\ k + 1 # 1
          /\ \A k \in DOMAIN o : k = 1 \/ (k - 1 \in 1 .. n - 1 /\ k = k - 1 + 1)
      BY <1>3, <3>1
    <3>3. t \in Threads /\ \E p \in [1 .. n - 1 -> Threads] : \A k \in 1 .. n - 1 : p[k] = o[k + 1]
      <4> DEFINE q == [k \in 1 .. n - 1 |-> o[k + 1]]
      <4>1. q \in [1 .. n - 1 -> Threads] /\ \A k \in 1 .. n - 1 : q[k] = o[k + 1]
        BY <3>1, <3>2
      <4> QED
        BY <3>1, <3>2, <4>1
    <3>12. PICK p \in [1 .. n - 1 -> Threads] : \A k \in 1 .. n - 1 : p[k] = o[k + 1]
      BY <3>3
    <3>13. DOMAIN p = 1 .. n - 1
      BY <3>12
    <3>4. \A k \in 1 .. n - 1 : p[k] # t
      <4> SUFFICES ASSUME NEW k \in 1 .. n - 1, o[k + 1] = o[1] PROVE FALSE
        BY <3>12
      <4>1. k + 1 = 1
        BY <3>1, <3>2 DEF Ordered
      <4> QED
        BY <3>2, <4>1
    <3> HIDE DEF n, t
    <3>5. \A k \in DOMAIN p : thread'[i][p[k]] = "stopped" /\ results'[i][k] = local'[i][p[k]]
      <4> SUFFICES ASSUME NEW k \in 1 .. n - 1
                   PROVE  thread'[i][p[k]] = "stopped" /\ results'[i][k] = local'[i][p[k]]
        BY <3>13
      <4>1. thread[i][o[k + 1]] = "stopped" /\ results[i][k + 1] = local[i][o[k + 1]]
        BY <3>1, <3>2 DEF Ordered
      <4>2. results'[i][k] = results[i][k + 1]
        BY <1>3, <1>4 DEF n
      <4> QED
        BY <1>1, <3>12, <4>1, <4>2
    <3>6. \A j1, k \in DOMAIN p : p[j1] = p[k] => j1 = k
      <4> SUFFICES ASSUME NEW j1 \in DOMAIN p, NEW k \in DOMAIN p, p[j1] = p[k]
                   PROVE  j1 = k
        OBVIOUS
      <4>1. o[j1 + 1] = o[k + 1] /\ j1 + 1 \in DOMAIN o /\ k + 1 \in DOMAIN o
        BY <3>2, <3>12, <3>13
      <4>2. j1 + 1 = k + 1
        BY <3>1, <4>1 DEF Ordered
      <4>3. j1 \in Int /\ k \in Int
        BY <3>13
      <4> QED
        BY <4>2, <4>3
    <3>7. t \notin InTally(i, o)
      BY <3>2 DEF InTally, t
    <3>8. InTally(i, p)' = InTally(i, o) \cup {t}
      <4>1. ASSUME NEW u \in Threads
            PROVE  (thread'[i][u] = "stopped" /\ \A k \in DOMAIN p : p[k] # u)
                   <=> u = t \/ (thread[i][u] = "stopped" /\ \A k \in DOMAIN o : o[k] # u)
        <5>1. thread' = thread
          BY <1>1
        <5>2. CASE u = t
          <6>1. thread[i][t] = "stopped"
            BY <3>1, <3>2 DEF Ordered, t
          <6> QED
            BY <3>4, <3>13, <5>1, <5>2, <6>1
        <5>3. CASE u # t
          <6>1. (\A k \in DOMAIN p : p[k] # u) => (\A k \in DOMAIN o : o[k] # u)
            <7> SUFFICES ASSUME \A k \in DOMAIN p : p[k] # u, NEW k \in DOMAIN o
                         PROVE  o[k] # u
              OBVIOUS
            <7>1. CASE k = 1
              BY <5>3, <7>1 DEF t
            <7>2. CASE k - 1 \in 1 .. n - 1 /\ k = k - 1 + 1
              <8>1. p[k - 1] = o[k - 1 + 1] /\ k - 1 \in DOMAIN p
                BY <3>12, <3>13, <7>2
              <8> QED
                BY <7>2, <8>1
            <7> QED
              BY <3>2, <7>1, <7>2
          <6>2. (\A k \in DOMAIN o : o[k] # u) => (\A k \in DOMAIN p : p[k] # u)
            BY <3>2, <3>12, <3>13
          <6> QED
            BY <5>1, <5>3, <6>1, <6>2
        <5> QED
          BY <5>2, <5>3
      <4> QED
        BY <3>3, <4>1 DEF InTally
    <3>9. tally'[i] = CountsOf(given'[i], InTally(i, p)')
      <4> DEFINE g == given[i]
                 A == InTally(i, o)
                 B == {t}
      <4>1. g \in Seq(Threads \X Frames) /\ Apart(A, B)
        BY <1>2, <3>7 DEF Apart
      <4>2. InTally(i, p)' = Together(A, B)
        BY <3>8 DEF Together
      <4> HIDE DEF g, A, B
      <4>8. CountsOf(g, Together(A, B)) = Sum(CountsOf(g, A), CountsOf(g, B))
        <5> HIDE DEF ReaderInv
        <5> QED
          BY <4>1, CountsJoin
      <4>9. CountsOf(g, InTally(i, p)') = Sum(CountsOf(g, A), CountsOf(g, B))
        BY <4>2, <4>8, Zenon
      <4>3. CountsOf(g, B) = local[i][t]
        BY <3>3 DEF ThreadsCount, B, g
      <4>4. results[i][1] = local[i][t]
        BY <3>1, <3>2 DEF Ordered, t
      <4>5. tally[i] = CountsOf(g, A)
        BY <3>1 DEF Ordered, A, g
      <4>6. given'[i] = g
        BY <1>1 DEF g
      <4> QED
        BY <1>4, <4>3, <4>4, <4>5, <4>6, <4>9, Zenon
    <3>10. Ordered(i, p)'
      BY <3>5, <3>6, <3>9 DEF Ordered
    <3>11. Len(results'[i]) = n - 1
      BY <1>3, <1>4
    <3> QED
      BY <2>2, <3>10, <3>11, <3>12
  <2> QED
    BY <2>1, <2>2
<1>9. ReportsWait'
  BY <1>1 DEF ReportsWait, actorVars
<1> QED
  BY <1>5, <1>6, <1>7, <1>8, <1>9

(* The reporter tells the reader when all threads are in its tally. *)
LEMMA StopReportingKeeps ==
  ASSUME ReaderInv, NEW i \in TraceIds, StopReporting(i)
  PROVE  ReaderInv'
<1> USE DEF ReaderInv
<1>1. /\ reporter[i] = "runs" /\ results[i] = <<>>
      /\ \A t \in Threads : thread[i][t] = "stopped"
      /\ reporter' = [reporter EXCEPT ![i] = "stopped"]
      /\ box' = Append(box, <<i, tally[i]>>)
      /\ UNCHANGED <<actorVars, thread, local, results, tally, handed, given>>
  BY DEF StopReporting
<1> DEFINE n == Len(box)
           m == <<i, tally[i]>>
<1>2. m \in BoxTypes /\ IsReport(m) /\ m[1] = i /\ m[2] = tally[i] /\ box \in Seq(BoxTypes)
  BY MessageKinds DEF ReaderTypes, BoxTypes, ReportTypes
<1> HIDE DEF m
<1>3. /\ n \in Nat /\ DOMAIN box = 1 .. n /\ DOMAIN box' = 1 .. n + 1
      /\ box' \in Seq(BoxTypes) /\ box'[n + 1] = m
      /\ \A k \in 1 .. n : box'[k] = box[k] /\ k # n + 1
  BY <1>1, <1>2, LenProperties, AppendProperties DEF m
<1>4. /\ reporter'[i] = "stopped" /\ \A j \in TraceIds \ {i} : reporter'[j] = reporter[j]
      /\ reporter' \in [TraceIds -> {"none", "runs", "stopped"}]
  BY <1>1 DEF ReaderTypes
<1>5. ReaderTypes'
  BY <1>1, <1>3, <1>4 DEF ReaderTypes, actorVars, BoxTypes, ReportTypes
<1>6. TracesKnown'
  <2> SUFFICES ASSUME NEW j \in TraceIds
               PROVE  /\ j >= ids => reporter'[j] = "none" /\ \A t \in Threads : thread[j][t] = "none"
                      /\ up /\ reporter'[j] = "runs" => j \in traces /\ j \in states
    BY <1>1 DEF TracesKnown, actorVars
  <2>1. CASE j = i
    BY <1>1, <1>4, <2>1 DEF TracesKnown
  <2>2. CASE j # i
    BY <1>4, <2>2 DEF TracesKnown
  <2> QED
    BY <2>1, <2>2
<1>7. ThreadsCount'
  BY <1>1 DEF ThreadsCount
<1>8. AddedUp'
  BY <1>1, SameTrace DEF AddedUp
<1>9. tally[i] = CountsOf(given[i], Threads)
  <2>1. PICK o \in [1 .. Len(results[i]) -> Threads] : Ordered(i, o)
    BY DEF AddedUp
  <2>2. Len(results[i]) = 0
    BY <1>1
  <2>3. DOMAIN o = {}
    BY <2>1, <2>2
  <2>4. InTally(i, o) = Threads
    BY <1>1, <2>3 DEF InTally
  <2> QED
    BY <2>1, <2>4 DEF Ordered
<1>10. ASSUME NEW k \in 1 .. n, IsReport(box[k]) PROVE box[k][1] # i
  BY <1>1, <1>3, <1>10 DEF ReportsWait
<1>11. \A k \in 1 .. n + 1 : k \in 1 .. n \/ k = n + 1
  BY <1>3
<1>12. ASSUME NEW k \in 1 .. n + 1, IsReport(box'[k])
       PROVE  LET j == box'[k][1]
              IN  /\ reporter'[j] = "stopped"
                  /\ \A t \in Threads : thread[j][t] = "stopped"
                  /\ box'[k][2] = CountsOf(given[j], Threads)
                  /\ up => j \in traces /\ j \in states
  <2>1. CASE k = n + 1
    BY <1>1, <1>2, <1>3, <1>4, <1>9, <2>1 DEF TracesKnown
  <2>2. CASE k \in 1 .. n
    <3>1. box'[k] = box[k] /\ IsReport(box[k]) /\ box[k] \in BoxTypes
      BY <1>2, <1>3, <1>12, <2>2, ElementOfSeq
    <3>2. box[k][1] \in TraceIds /\ box[k][1] # i
      BY <1>10, <2>2, <3>1, ReportFacts
    <3>3. LET j == box[k][1]
          IN  /\ reporter[j] = "stopped"
              /\ \A t \in Threads : thread[j][t] = "stopped"
              /\ box[k][2] = CountsOf(given[j], Threads)
              /\ up => j \in traces /\ j \in states
      BY <1>3, <2>2, <3>1 DEF ReportsWait
    <3>4. reporter'[box[k][1]] = reporter[box[k][1]]
      BY <1>4, <3>2
    <3> HIDE DEF ReaderInv
    <3> QED
      BY <3>1, <3>3, <3>4
  <2> QED
    BY <1>11, <2>1, <2>2
<1>13. ASSUME NEW j \in 1 .. n + 1, NEW k \in 1 .. n + 1,
              IsReport(box'[j]), IsReport(box'[k]), box'[j][1] = box'[k][1]
       PROVE  j = k
  <2>1. CASE j \in 1 .. n /\ k \in 1 .. n
    BY <1>3, <1>13, <2>1 DEF ReportsWait
  <2>2. CASE j = n + 1 /\ k \in 1 .. n
    BY <1>2, <1>3, <1>10, <1>13, <2>2
  <2>3. CASE j \in 1 .. n /\ k = n + 1
    BY <1>2, <1>3, <1>10, <1>13, <2>3
  <2> QED
    BY <1>11, <2>1, <2>2, <2>3
<1>14. ReportsWait'
  <2>1. DOMAIN box' = 1 .. n + 1
    BY <1>3
  <2> HIDE DEF ReaderInv, n
  <2> QED
    BY <1>1, <1>12, <1>13, <2>1 DEF ReportsWait, actorVars
<1> QED
  BY <1>5, <1>6, <1>7, <1>8, <1>14

LEMMA TraceKeeps == ASSUME ReaderInv, Trace PROVE ReaderInv'
<1> USE DEF ReaderInv
<1>1. /\ up /\ ids < MaxTraces /\ ids' = ids + 1 /\ states' = states \cup {ids}
      /\ UNCHANGED <<up, statistics, ticks, starts, box, local, results, tally, handed, given>>
  BY DEF Trace
<1>2. ids \in TraceIds /\ ids \in Nat /\ MaxTraces \in Nat
  BY <1>1, ReaderAssumption DEF ReaderTypes, TraceIds
<1>3. reporter[ids] = "none"
  BY <1>2 DEF TracesKnown
<1>4. \/ UNCHANGED <<traces, thread, reporter>>
      \/ traces' = traces \cup {ids} /\ StartTrace(ids)
  BY DEF Trace
<1>5. /\ reporter' \in [TraceIds -> {"none", "runs", "stopped"}]
      /\ thread' \in [TraceIds -> [Threads -> {"none", "runs", "paused", "stopped"}]]
      /\ \A j \in TraceIds \ {ids} : reporter'[j] = reporter[j] /\ thread'[j] = thread[j]
      /\ reporter'[ids] \in {"none", "runs"}
      /\ reporter'[ids] = "runs" => ids \in traces'
      /\ traces \subseteq traces'
  <2>1. CASE UNCHANGED <<traces, thread, reporter>>
    BY <1>3, <2>1 DEF ReaderTypes
  <2>2. CASE traces' = traces \cup {ids} /\ StartTrace(ids)
    BY <1>2, <2>2 DEF StartTrace, ReaderTypes
  <2> QED
    BY <1>4, <2>1, <2>2
<1>6. ReaderTypes'
  BY <1>1, <1>5 DEF ReaderTypes
<1>7. TracesKnown'
  <2> SUFFICES ASSUME NEW j \in TraceIds
               PROVE  /\ j >= ids' => reporter'[j] = "none"
                                        /\ \A t \in Threads : thread'[j][t] = "none"
                      /\ up' /\ reporter'[j] = "runs" => j \in traces' /\ j \in states'
    BY DEF TracesKnown
  <2>1. j \in Nat
    BY DEF TraceIds
  <2>2. CASE j = ids
    BY <1>1, <1>2, <1>5, <2>2
  <2>3. CASE j # ids
    BY <1>1, <1>2, <1>5, <2>1, <2>3 DEF TracesKnown
  <2> QED
    BY <2>2, <2>3
<1>8. ThreadsCount'
  BY <1>1 DEF ThreadsCount
<1>9. AddedUp'
  <2> SUFFICES ASSUME NEW j \in TraceIds
               PROVE  \E o \in [1 .. Len(results'[j]) -> Threads] : Ordered(j, o)'
    BY DEF AddedUp
  <2>1. CASE thread'[j] = thread[j]
    BY <1>1, <2>1, SameTrace
  <2>2. CASE thread'[j] # thread[j]
    <3>1. j = ids /\ thread'[j] = [t \in Threads |-> "runs"] /\ UNCHANGED given
      BY <1>1, <1>2, <1>4, <1>5, <2>2 DEF StartTrace, ReaderTypes
    <3>2. PICK o \in [1 .. Len(results[j]) -> Threads] : Ordered(j, o)
      BY DEF AddedUp
    <3>3. \A t \in Threads : thread[j][t] = "none" /\ thread'[j][t] = "runs"
      BY <1>2, <3>1 DEF TracesKnown
    <3>4. DOMAIN o = {} /\ InTally(j, o) = {}
      BY <3>2, <3>3 DEF Ordered, InTally
    <3>5. InTally(j, o)' = {}
      BY <3>3 DEF InTally
    <3>6. Ordered(j, o)'
      BY <1>1, <3>1, <3>2, <3>4, <3>5, Zenon DEF Ordered
    <3> QED
      BY <1>1, <3>2, <3>6
  <2> QED
    BY <2>1, <2>2
<1>10. ReportsWait'
  <2>1. ASSUME NEW k \in DOMAIN box, IsReport(box[k])
        PROVE  /\ reporter'[box[k][1]] = "stopped"
               /\ thread'[box[k][1]] = thread[box[k][1]]
    <3>1. box[k] \in BoxTypes
      BY ElementOfSeq, LenProperties DEF ReaderTypes, BoxTypes, ReportTypes
    <3>2. box[k][1] \in TraceIds /\ reporter[box[k][1]] = "stopped"
      BY <2>1, <3>1, ReportFacts DEF ReportsWait
    <3>3. box[k][1] # ids
      BY <1>3, <3>2
    <3> QED
      BY <1>5, <3>2, <3>3
  <2> QED
    BY <1>1, <1>5, <2>1 DEF ReportsWait
<1> QED
  BY <1>6, <1>7, <1>8, <1>9, <1>10

(* The first report goes, and is the only one of its trace. *)
LEMMA ReportKeeps == ASSUME ReaderInv, Report PROVE ReaderInv'
<1> USE DEF ReaderInv
<1> DEFINE n == Len(box)
           i == Head(box)[1]
<1>1. /\ up /\ box # <<>> /\ IsReport(Head(box))
      /\ traces' = traces \ {i} /\ states' = states \ {i}
      /\ box' = Append(Tail(box), <<"done">>)
      /\ UNCHANGED <<up, ids, statistics, ticks, starts, traceVars>>
  BY DEF Report, IsReport
<1>2. box \in Seq(BoxTypes) /\ <<"done">> \in BoxTypes
  BY DEF ReaderTypes, BoxTypes, ReportTypes
<1>3. /\ n \in Nat /\ n > 0 /\ DOMAIN box = 1 .. n /\ Head(box) = box[1]
      /\ Tail(box) \in Seq(BoxTypes) /\ Len(Tail(box)) = n - 1
      /\ \A k \in 1 .. n - 1 : Tail(box)[k] = box[k + 1]
  BY <1>1, <1>2, LenProperties, HeadTailProperties, EmptySeq
<1>4. /\ box' \in Seq(BoxTypes) /\ DOMAIN box' = 1 .. n /\ ~IsReport(box'[n])
      /\ \A k \in 1 .. n - 1 : box'[k] = box[k + 1]
  <2>1. /\ box' \in Seq(BoxTypes) /\ Len(box') = n - 1 + 1 /\ box'[n - 1 + 1] = <<"done">>
        /\ \A k \in 1 .. n - 1 : box'[k] = Tail(box)[k]
    BY <1>1, <1>2, <1>3, AppendProperties
  <2>2. n - 1 + 1 = n
    BY <1>3
  <2>3. DOMAIN box' = 1 .. n
    BY <2>1, <2>2, LenProperties
  <2> QED
    BY <1>3, <2>1, <2>2, <2>3, MessageKinds
<1>5. \A k \in 1 .. n : IsReport(box'[k]) =>
        k \in 1 .. n - 1 /\ k + 1 \in DOMAIN box /\ k + 1 # 1
  BY <1>3, <1>4
<1>6. ReaderTypes'
  BY <1>1, <1>4 DEF ReaderTypes, traceVars, BoxTypes, ReportTypes
<1>7. reporter[i] = "stopped"
  BY <1>1, <1>3 DEF ReportsWait
<1>8. TracesKnown'
  BY <1>1, <1>7 DEF TracesKnown, traceVars
<1>9. ThreadsCount'
  BY <1>1 DEF ThreadsCount, traceVars
<1>10. AddedUp'
  BY <1>1, SameTrace DEF AddedUp, traceVars
<1>11. ASSUME NEW k \in 1 .. n, IsReport(box'[k])
       PROVE  LET j == box'[k][1]
              IN  /\ reporter[j] = "stopped"
                  /\ \A t \in Threads : thread[j][t] = "stopped"
                  /\ box'[k][2] = CountsOf(given[j], Threads)
                  /\ up => j \in traces' /\ j \in states'
  <2>1. k \in 1 .. n - 1 /\ k + 1 \in DOMAIN box /\ k + 1 # 1 /\ box'[k] = box[k + 1]
    BY <1>4, <1>5, <1>11
  <2>2. LET j == box[k + 1][1]
        IN  /\ reporter[j] = "stopped"
            /\ \A t \in Threads : thread[j][t] = "stopped"
            /\ box[k + 1][2] = CountsOf(given[j], Threads)
            /\ up => j \in traces /\ j \in states
    BY <1>11, <2>1 DEF ReportsWait
  <2>3. box[k + 1][1] # i
    BY <1>1, <1>3, <1>11, <2>1 DEF ReportsWait
  <2> HIDE DEF ReaderInv, i
  <2> QED
    BY <1>1, <2>1, <2>2, <2>3
<1>12. ASSUME NEW j \in 1 .. n, NEW k \in 1 .. n,
              IsReport(box'[j]), IsReport(box'[k]), box'[j][1] = box'[k][1]
       PROVE  j = k
  <2>1. /\ j + 1 \in DOMAIN box /\ box'[j] = box[j + 1]
        /\ k + 1 \in DOMAIN box /\ box'[k] = box[k + 1]
    BY <1>4, <1>5, <1>12
  <2>2. j + 1 = k + 1
    BY <1>12, <2>1 DEF ReportsWait
  <2>3. j \in Int /\ k \in Int
    BY <1>3
  <2> HIDE DEF ReaderInv
  <2> QED
    BY <2>2, <2>3
<1>13. ReportsWait'
  <2>1. DOMAIN box' = 1 .. n
    BY <1>4
  <2> HIDE DEF ReaderInv, n
  <2> QED
    BY <1>1, <1>11, <1>12, <2>1 DEF ReportsWait, traceVars
<1> QED
  BY <1>6, <1>8, <1>9, <1>10, <1>13

(* At the end only threads that still run are paused. *)
LEMMA DoneKeeps == ASSUME ReaderInv, Done PROVE ReaderInv'
<1> USE DEF ReaderInv
<1> DEFINE n == Len(box)
<1>1. /\ box # <<>> /\ up' = FALSE /\ box' = Tail(box) /\ Pause(traces)
      /\ UNCHANGED <<ids, states, traces, statistics, ticks, starts, local, results,
                     tally, reporter, handed, given>>
  BY DEF Done
<1>2. box \in Seq(BoxTypes)
  BY DEF ReaderTypes, BoxTypes, ReportTypes
<1>3. /\ n \in Nat /\ n > 0 /\ DOMAIN box = 1 .. n
      /\ box' \in Seq(BoxTypes) /\ DOMAIN box' = 1 .. n - 1
      /\ \A k \in 1 .. n - 1 : box'[k] = box[k + 1] /\ k + 1 \in DOMAIN box
  BY <1>1, <1>2, LenProperties, HeadTailProperties, EmptySeq
<1>4. /\ thread' \in [TraceIds -> [Threads -> {"none", "runs", "paused", "stopped"}]]
      /\ \A j \in TraceIds, t \in Threads :
           /\ thread'[j][t] = "stopped" <=> thread[j][t] = "stopped"
           /\ thread'[j][t] = "none" <=> thread[j][t] = "none"
  BY <1>1 DEF Pause, ReaderTypes
<1>5. ReaderTypes'
  BY <1>1, <1>3, <1>4 DEF ReaderTypes, BoxTypes, ReportTypes
<1>6. TracesKnown'
  BY <1>1, <1>4 DEF TracesKnown
<1>7. ThreadsCount'
  BY <1>1 DEF ThreadsCount
<1>8. AddedUp'
  <2> SUFFICES ASSUME NEW j \in TraceIds
               PROVE  \E o \in [1 .. Len(results'[j]) -> Threads] : Ordered(j, o)'
    BY DEF AddedUp
  <2>1. PICK o \in [1 .. Len(results[j]) -> Threads] : Ordered(j, o)
    BY DEF AddedUp
  <2>2. InTally(j, o)' = InTally(j, o)
    BY <1>4 DEF InTally
  <2>3. \A k \in DOMAIN o : thread'[j][o[k]] = "stopped"
    BY <1>4, <2>1 DEF Ordered
  <2>4. Ordered(j, o)'
    BY <1>1, <2>1, <2>2, <2>3 DEF Ordered
  <2> QED
    BY <1>1, <2>1, <2>4
<1>9. ReportsWait'
  <2>1. ASSUME NEW k \in DOMAIN box', IsReport(box'[k])
        PROVE  LET j == box'[k][1]
               IN  /\ reporter[j] = "stopped"
                   /\ \A t \in Threads : thread'[j][t] = "stopped"
                   /\ box'[k][2] = CountsOf(given[j], Threads)
    <3>1. box'[k] = box[k + 1] /\ k + 1 \in DOMAIN box
      BY <1>3
    <3>2. box[k + 1] \in BoxTypes
      BY <1>2, <1>3, <3>1, ElementOfSeq
    <3>3. box[k + 1][1] \in TraceIds
      BY <2>1, <3>1, <3>2, ReportFacts
    <3>4. LET j == box[k + 1][1]
          IN  /\ reporter[j] = "stopped"
              /\ \A t \in Threads : thread[j][t] = "stopped"
              /\ box[k + 1][2] = CountsOf(given[j], Threads)
      BY <2>1, <3>1 DEF ReportsWait
    <3> HIDE DEF ReaderInv
    <3> QED
      BY <1>4, <3>1, <3>3, <3>4
  <2>2. ASSUME NEW j \in DOMAIN box', NEW k \in DOMAIN box',
               IsReport(box'[j]), IsReport(box'[k]), box'[j][1] = box'[k][1]
        PROVE  j = k
    <3>1. /\ box'[j] = box[j + 1] /\ j + 1 \in DOMAIN box /\ j \in Int
          /\ box'[k] = box[k + 1] /\ k + 1 \in DOMAIN box /\ k \in Int
      BY <1>3
    <3>2. j + 1 = k + 1
      BY <2>2, <3>1 DEF ReportsWait
    <3> HIDE DEF ReaderInv
    <3> QED
      BY <3>1, <3>2
  <2> HIDE DEF ReaderInv
  <2> QED
    BY <1>1, <2>1, <2>2 DEF ReportsWait
<1> QED
  BY <1>5, <1>6, <1>7, <1>8, <1>9

LEMMA NextKeepsReader == ReaderInv /\ [ReaderNext]_readerVars => ReaderInv'
<1> SUFFICES ASSUME ReaderInv, [ReaderNext]_readerVars PROVE ReaderInv'
  OBVIOUS
<1>1. ASSUME UNCHANGED <<traceVars, box, ids, up, traces, states>> PROVE ReaderInv'
  <2>1. ids' \in Nat
    BY <1>1 DEF ReaderInv, ReaderTypes
  <2> QED
    BY <1>1, <2>1, TraceVarsKeep
<1>2. CASE StatsStart
  BY <1>1, <1>2 DEF StatsStart
<1>3. CASE StatsStop
  BY <1>1, <1>3 DEF StatsStop
<1>4. CASE StatsTick
  BY <1>1, <1>4 DEF StatsTick
<1>5. CASE UNCHANGED readerVars
  BY <1>1, <1>5 DEF readerVars, actorVars
<1>6. CASE Libtrace
  BY <1>6, PerPacketKeeps, StopProcessingKeeps, PerResultKeeps, StopReportingKeeps DEF Libtrace
<1>7. CASE Trace \/ Report \/ Done
  BY <1>7, TraceKeeps, ReportKeeps, DoneKeeps
<1> QED
  BY <1>2, <1>3, <1>4, <1>5, <1>6, <1>7 DEF ReaderNext, Reader

(* What a report has added up is what all threads were given. *)
LEMMA InvImpliesComplete == ReaderInv => ReportsAreComplete
<1> SUFFICES ASSUME ReaderInv, NEW k \in DOMAIN box, box[k] # <<"done">>
             PROVE  LET i == box[k][1]  t == box[k][2]
                    IN /\ t.total = Len(given[i]) /\ t.ipv4 = OfEther(i, {"ipv4"})
                       /\ t.ipv6 = OfEther(i, {"ipv6"}) /\ t.others = OfEther(i, {"none", "arp"})
                       /\ Len(handed[i]) <= t.ipv4
                       /\ up => i \in traces /\ i \in states
                       /\ \A u \in Threads : thread[i][u] = "stopped"
  BY Zenon DEF ReportsAreComplete
<1> DEFINE i == box[k][1]
<1>1. IsReport(box[k])
  BY DEF IsReport
<1>2. box[k] \in BoxTypes
  BY ElementOfSeq, LenProperties DEF ReaderInv, ReaderTypes, BoxTypes, ReportTypes
<1>3. i \in TraceIds
  BY <1>1, <1>2, ReportFacts
<1>4. /\ \A t \in Threads : thread[i][t] = "stopped"
      /\ box[k][2] = CountsOf(given[i], Threads)
      /\ up => i \in traces /\ i \in states
  BY <1>1 DEF ReaderInv, ReportsWait
<1>5. given[i] \in Seq(Threads \X Frames) /\ Len(handed[i]) <= Tallied(given[i], Threads, {"ipv4"})
  BY <1>3 DEF ReaderInv, ReaderTypes, ThreadsCount
<1>6. Tallied(given[i], Threads, AnyEther) = Len(given[i])
  BY <1>5, TalliedAll
<1>7. LET t == CountsOf(given[i], Threads)
      IN /\ t.total = Len(given[i]) /\ t.ipv4 = OfEther(i, {"ipv4"})
         /\ t.ipv6 = OfEther(i, {"ipv6"}) /\ t.others = OfEther(i, {"none", "arp"})
         /\ Len(handed[i]) <= t.ipv4
  <2> DEFINE t == CountsOf(given[i], Threads)
  <2>1. /\ t.total = Tallied(given[i], Threads, AnyEther)
        /\ t.ipv4 = Tallied(given[i], Threads, {"ipv4"})
        /\ t.ipv6 = Tallied(given[i], Threads, {"ipv6"})
        /\ t.others = Tallied(given[i], Threads, {"none", "arp"})
    BY DEF CountsOf
  <2>2. \A types : OfEther(i, types) = Tallied(given[i], Threads, types)
    BY Zenon DEF OfEther, Tallied
  <2> HIDE DEF i, t
  <2>3. t.ipv4 = OfEther(i, {"ipv4"}) /\ t.ipv6 = OfEther(i, {"ipv6"})
    BY <2>1, <2>2, Zenon
  <2>4. t.others = OfEther(i, {"none", "arp"})
    BY <2>1, <2>2, Zenon
  <2>5. t.total = Len(given[i])
    BY <1>6, <2>1, Zenon
  <2>6. Len(handed[i]) <= t.ipv4
    BY <1>5, <2>1, Zenon
  <2> QED
    BY <2>3, <2>4, <2>5, <2>6 DEF t
<1> HIDE DEF i
<1> QED
  BY <1>4, <1>7 DEF i

(* Of whatever number of traces and threads, in whatever order the threads  *)
(* end and their results are added up while others still count: a report    *)
(* that waits for the reader tells all frames of its trace, each as what it *)
(* is, of a trace that is known until then and whose threads have ended.    *)
THEOREM EveryReportIsComplete == ReaderSpec => []ReportsAreComplete
<1>1. ReaderInit => ReaderInv
  BY InitReader
<1>2. ReaderInv /\ [ReaderNext]_readerVars => ReaderInv'
  BY NextKeepsReader
<1>3. ReaderInv => ReportsAreComplete
  BY InvImpliesComplete
<1> QED
  BY <1>1, <1>2, <1>3, PTL DEF ReaderSpec

-----------------------------------------------------------------------------
(* The analysis of IP IDs. *)

(* What of the next ID stays when it goes over the last one. *)
LEMMA ModFacts ==
  ASSUME NEW x \in Nat, NEW n \in Nat, n > 0
  PROVE  /\ x < n => x % n = x
         /\ x >= n /\ x < n + n => x % n = x - n
  OBVIOUS

IdRange == 0 .. Space - 1

LEMMA SpaceFacts ==
  /\ Space \in Nat /\ Space > 0 /\ RandomThreshold \in Nat /\ Tolerance \in Nat
  /\ IpidThreshold \in Nat /\ NumProbes \in Nat /\ MaxReplies \in Nat
  /\ Tolerance < RandomThreshold /\ RandomThreshold < Space
  /\ FirstIds \subseteq IdRange /\ Steps \subseteq IdRange /\ Gaps \subseteq Nat
  /\ \A b \in Bounds : b.sl \in Nat /\ b.cl \in Nat /\ b.sh \in Nat /\ b.ch \in Nat
  BY IpIdAssumption DEF IdRange, BoundType

(* The distance of two IDs is the step between them, or one less if the     *)
(* step goes over the last ID; of an ID and the one before it, then, it is  *)
(* also known how they compare.                                             *)
LEMMA DistFacts ==
  ASSUME NEW a \in IdRange, NEW s \in IdRange
  PROVE  LET b == (a + s) % Space
         IN  /\ b \in IdRange
             /\ a + s < Space => b = a + s /\ a <= b /\ Dist(a, b) = s
             /\ a + s >= Space => /\ b = a + s - Space /\ b < a /\ s > 0
                                  /\ Dist(a, b) = s - 1
                                  /\ Dist(b, a) = Space - s
<1> DEFINE b == (a + s) % Space
<1>1. a \in Nat /\ s \in Nat /\ a < Space /\ s < Space /\ Space \in Nat /\ Space > 0
  BY SpaceFacts DEF IdRange
<1>2. CASE a + s < Space
  <2>1. b = a + s
    BY <1>1, <1>2, ModFacts
  <2>2. Dist(a, b) = (b - a + 0) % Space
    BY <1>1, <2>1 DEF Dist
  <2>3. b - a + 0 = s
    BY <1>1, <2>1
  <2>4. Dist(a, b) = s
    BY <1>1, <2>2, <2>3, ModFacts
  <2> QED
    BY <1>1, <1>2, <2>1, <2>4 DEF IdRange
<1>3. CASE a + s >= Space
  <2>1. b = a + s - Space
    BY <1>1, <1>3, ModFacts
  <2>2. b < a /\ s > 0 /\ b \in Nat
    BY <1>1, <1>3, <2>1
  <2>3. Dist(a, b) = (b - a + (Space - 1)) % Space
    BY <1>1, <2>2 DEF Dist
  <2>4. b - a + (Space - 1) = s - 1
    BY <1>1, <2>1
  <2>5. Dist(a, b) = s - 1
    BY <1>1, <2>2, <2>3, <2>4, ModFacts
  <2>6. Dist(b, a) = (a - b + 0) % Space
    BY <1>1, <2>2 DEF Dist
  <2>7. a - b + 0 = Space - s
    BY <1>1, <2>1
  <2>8. Dist(b, a) = Space - s
    BY <1>1, <2>2, <2>6, <2>7, ModFacts
  <2> QED
    BY <1>1, <1>3, <2>1, <2>2, <2>5, <2>8 DEF IdRange
<1> QED
  BY <1>1, <1>2, <1>3

-----------------------------------------------------------------------------
(* The invariant: replies have the IDs of a counter that moves by the       *)
(* steps, and times that do not go back; a task is monotonic only as one of *)
(* the classifiers says of them.                                            *)
IdBefore(i) == IF i = 1 THEN initial ELSE replies[i - 1][1]

TimeBefore(i) == IF i = 1 THEN 0 ELSE replies[i - 1][2]

TaskTypes ==
  /\ initial \in IdRange
  /\ replies \in Seq(IdRange \X Nat) /\ steps \in Seq(IdRange)
  /\ Len(replies) = Len(steps)

CounterMoves ==
  \A i \in 1 .. Len(replies) :
    /\ replies[i][1] = (IdBefore(i) + steps[i]) % Space
    /\ TimeBefore(i) <= replies[i][2]

Classified ==
  type = "monotonic" => Trivial(replies) = "monotonic" \/ Midarmm(replies) = "monotonic"

TaskInv == TaskTypes /\ CounterMoves /\ Classified

LEMMA ReplyFacts ==
  ASSUME TaskTypes
  PROVE  /\ Len(replies) \in Nat /\ DOMAIN replies = 1 .. Len(replies)
         /\ DOMAIN steps = 1 .. Len(replies)
         /\ \A i \in 1 .. Len(replies) :
              /\ replies[i][1] \in IdRange /\ replies[i][2] \in Nat /\ steps[i] \in IdRange
              /\ IdBefore(i) \in IdRange /\ TimeBefore(i) \in Nat
<1>1. Len(replies) \in Nat /\ DOMAIN replies = 1 .. Len(replies)
      /\ DOMAIN steps = 1 .. Len(replies)
  BY LenProperties DEF TaskTypes
<1>2. ASSUME NEW i \in 1 .. Len(replies)
      PROVE  replies[i][1] \in IdRange /\ replies[i][2] \in Nat /\ steps[i] \in IdRange
  <2>1. replies[i] \in IdRange \X Nat /\ steps[i] \in IdRange
    BY ElementOfSeq DEF TaskTypes
  <2> QED
    BY <2>1
<1>3. ASSUME NEW i \in 1 .. Len(replies)
      PROVE  IdBefore(i) \in IdRange /\ TimeBefore(i) \in Nat
  <2>1. i = 1 \/ i - 1 \in 1 .. Len(replies)
    BY <1>1
  <2>2. CASE i = 1
    BY <2>2 DEF IdBefore, TimeBefore, TaskTypes
  <2>3. CASE i # 1
    <3>1. replies[i - 1][1] \in IdRange /\ replies[i - 1][2] \in Nat
      BY <1>2, <2>1, <2>3
    <3> QED
      BY <2>3, <3>1 DEF IdBefore, TimeBefore
  <2> QED
    BY <2>2, <2>3
<1> QED
  BY <1>1, <1>2, <1>3

(* It holds at first and after every step. *)
LEMMA InitTask == TaskInit => TaskInv
<1> SUFFICES ASSUME TaskInit PROVE TaskInv
  OBVIOUS
<1>1. TaskTypes
  BY SpaceFacts, EmptySeq DEF TaskInit, TaskTypes
<1>2. CounterMoves /\ Classified
  BY DEF TaskInit, CounterMoves, Classified
<1> QED
  BY <1>1, <1>2 DEF TaskInv

LEMMA ReplyKeeps == ASSUME TaskInv, Reply PROVE TaskInv'
<1>1. PICK hop \in Steps, gap \in Gaps :
        LET last == IF replies = <<>> THEN <<initial, 0>> ELSE LastOf(replies)
        IN  /\ replies' = Append(replies, <<(last[1] + hop) % Space, last[2] + gap>>)
            /\ steps' = Append(steps, hop)
  BY DEF Reply
<1> DEFINE n == Len(replies)
           id == (IdBefore(n + 1) + hop) % Space
           time == TimeBefore(n + 1) + gap
<1>2. TaskTypes
  BY DEF TaskInv
<1>3. /\ n \in Nat /\ DOMAIN replies = 1 .. n /\ DOMAIN steps = 1 .. n
      /\ \A i \in 1 .. n : replies[i][1] \in IdRange /\ replies[i][2] \in Nat
  BY <1>2, ReplyFacts
<1>4. IdBefore(n + 1) \in IdRange /\ TimeBefore(n + 1) \in Nat
  <2>1. CASE n = 0
    BY <1>2, <2>1 DEF IdBefore, TimeBefore, TaskTypes
  <2>2. CASE n # 0
    <3>1. n \in 1 .. n /\ n + 1 # 1 /\ n + 1 - 1 = n
      BY <1>3, <2>2
    <3> QED
      BY <1>3, <3>1 DEF IdBefore, TimeBefore
  <2> QED
    BY <2>1, <2>2
<1>5. replies' = Append(replies, <<id, time>>) /\ steps' = Append(steps, hop)
  <2>1. CASE replies = <<>>
    <3>1. n = 0
      BY <2>1
    <3>2. IdBefore(n + 1) = initial /\ TimeBefore(n + 1) = 0
      BY <3>1 DEF IdBefore, TimeBefore
    <3> QED
      BY <1>1, <2>1, <3>2
  <2>2. CASE replies # <<>>
    <3>1. n # 0
      BY <1>2, <2>2, EmptySeq DEF TaskTypes
    <3>2. n + 1 # 1 /\ n + 1 - 1 = n
      BY <1>3, <3>1
    <3>3. IdBefore(n + 1) = LastOf(replies)[1] /\ TimeBefore(n + 1) = LastOf(replies)[2]
      BY <3>2 DEF IdBefore, TimeBefore, LastOf
    <3> QED
      BY <1>1, <2>2, <3>3
  <2> QED
    BY <2>1, <2>2
<1>6. hop \in IdRange /\ gap \in Nat
  BY SpaceFacts
<1>7. id \in IdRange /\ time \in Nat /\ TimeBefore(n + 1) <= time
  BY <1>4, <1>6, DistFacts
<1>8. UNCHANGED <<initial, type, consistent, checked>> /\ type = "unchecked"
  BY DEF Reply
<1> HIDE DEF id, time
<1>9. /\ replies' \in Seq(IdRange \X Nat) /\ Len(replies') = n + 1
      /\ replies'[n + 1] = <<id, time>>
      /\ \A i \in 1 .. n : replies'[i] = replies[i]
  <2>1. <<id, time>> \in IdRange \X Nat /\ replies \in Seq(IdRange \X Nat)
    BY <1>2, <1>7 DEF TaskTypes
  <2> QED
    BY <1>5, <2>1, AppendProperties
<1>10. /\ steps' \in Seq(IdRange) /\ Len(steps') = n + 1
       /\ steps'[n + 1] = hop
       /\ \A i \in 1 .. n : steps'[i] = steps[i]
  <2>1. steps \in Seq(IdRange) /\ Len(steps) = n
    BY <1>2 DEF TaskTypes
  <2> QED
    BY <1>5, <1>6, <2>1, AppendProperties
<1>11. TaskTypes'
  BY <1>2, <1>8, <1>9, <1>10 DEF TaskTypes
<1>12. \A i \in 1 .. n + 1 : IdBefore(i)' = IdBefore(i) /\ TimeBefore(i)' = TimeBefore(i)
  <2> TAKE i \in 1 .. n + 1
  <2>1. CASE i = 1
    BY <1>8, <2>1 DEF IdBefore, TimeBefore
  <2>2. CASE i # 1
    <3>1. i - 1 \in 1 .. n
      BY <1>3, <2>2
    <3> QED
      BY <1>9, <2>2, <3>1 DEF IdBefore, TimeBefore
  <2> QED
    BY <2>1, <2>2
<1>13. CounterMoves'
  <2> SUFFICES ASSUME NEW i \in 1 .. n + 1
               PROVE  /\ replies'[i][1] = (IdBefore(i)' + steps'[i]) % Space
                      /\ TimeBefore(i)' <= replies'[i][2]
    BY <1>9 DEF CounterMoves
  <2>1. CASE i = n + 1
    <3>1. replies'[i][1] = id /\ replies'[i][2] = time
      BY <1>9, <2>1
    <3> QED
      BY <1>7, <1>10, <1>12, <2>1, <3>1 DEF id
  <2>2. CASE i # n + 1
    <3>1. i \in 1 .. n
      BY <1>3, <2>2
    <3> QED
      BY <1>9, <1>10, <1>12, <3>1 DEF TaskInv, CounterMoves
  <2> QED
    BY <2>1, <2>2
<1>14. Classified'
  BY <1>8 DEF Classified
<1> QED
  BY <1>11, <1>13, <1>14 DEF TaskInv

LEMMA NextKeepsTask == TaskInv /\ [TaskNext]_taskVars => TaskInv'
<1> SUFFICES ASSUME TaskInv, [TaskNext]_taskVars PROVE TaskInv'
  OBVIOUS
<1>1. ASSUME UNCHANGED <<initial, replies, steps>>
      PROVE  TaskTypes' /\ CounterMoves'
  BY <1>1 DEF TaskInv, TaskTypes, CounterMoves, IdBefore, TimeBefore
<1>2. ASSUME UNCHANGED <<initial, replies, steps, type>>
      PROVE  TaskInv'
  <2>1. Classified'
    BY <1>2 DEF TaskInv, Classified, Trivial, Midarmm, IpidDistances, Occurrences, Dist
  <2> QED
    BY <1>1, <1>2, <2>1 DEF TaskInv
<1>3. CASE Reply
  BY <1>3, ReplyKeeps
<1>4. CASE Classify
  <2>1. UNCHANGED <<initial, replies, steps>> /\ type' \in {Trivial(replies), Midarmm(replies)}
    BY <1>4 DEF Classify
  <2>2. Trivial(replies)' = Trivial(replies) /\ Midarmm(replies)' = Midarmm(replies)
    BY <2>1 DEF Trivial, Midarmm, IpidDistances, Occurrences, Dist
  <2>3. Classified'
    BY <2>1, <2>2 DEF Classified
  <2> QED
    BY <1>1, <2>1, <2>3 DEF TaskInv
<1>5. CASE CheckThesis
  BY <1>2, <1>5 DEF CheckThesis
<1>6. CASE CheckRegression
  BY <1>2, <1>6 DEF CheckRegression
<1>7. CASE UNCHANGED taskVars
  BY <1>2, <1>7 DEF taskVars
<1> QED
  BY <1>3, <1>4, <1>5, <1>6, <1>7 DEF TaskNext

-----------------------------------------------------------------------------
(* Verdicts. *)

Moved(i) == IF Wraps(i) THEN steps[i] - 1 ELSE steps[i]

(* Between two replies there is the step, or one less over the last ID. *)
LEMMA StepDistances ==
  ASSUME TaskTypes, CounterMoves, NEW i \in 2 .. Len(replies)
  PROVE  /\ i \in 1 .. Len(replies) /\ i - 1 \in 1 .. Len(replies) - 1
         /\ IpidDistances(replies)[i - 1] = Moved(i)
         /\ Moved(i) \in IdRange
         /\ Wraps(i) => steps[i] > 0
         /\ Dist(replies[i - 1][1], replies[i][1]) = Moved(i)
<1>1. Len(replies) \in Nat /\ i \in 1 .. Len(replies) /\ i # 1 /\ i - 1 + 1 = i
      /\ i - 1 \in 1 .. Len(replies) - 1
  BY ReplyFacts
<1> DEFINE a == IdBefore(i)
           s == steps[i]
<1>2. a = replies[i - 1][1] /\ a \in IdRange /\ s \in IdRange
      /\ replies[i][1] = (a + s) % Space
  BY <1>1, ReplyFacts DEF IdBefore, CounterMoves
<1>3. Wraps(i) <=> a + s >= Space
  BY DEF Wraps, IdBefore
<1>4. a \in Nat /\ s \in Nat /\ Space \in Nat /\ s < Space
  BY <1>2, SpaceFacts DEF IdRange
<1> HIDE DEF a, s
<1>5. Dist(a, replies[i][1]) = (IF Wraps(i) THEN s - 1 ELSE s) /\ (Wraps(i) => s > 0)
  <2>1. CASE a + s < Space
    <3>1. Dist(a, (a + s) % Space) = s
      BY <1>2, <2>1, DistFacts
    <3> QED
      BY <1>2, <1>3, <1>4, <2>1, <3>1
  <2>2. CASE a + s >= Space
    <3>1. Dist(a, (a + s) % Space) = s - 1 /\ s > 0
      BY <1>2, <2>2, DistFacts
    <3> QED
      BY <1>2, <1>3, <2>2, <3>1
  <2> QED
    BY <1>4, <2>1, <2>2
<1>6. IpidDistances(replies)[i - 1] = Dist(replies[i - 1][1], replies[i][1])
  BY <1>1 DEF IpidDistances
<1>7. Moved(i) = (IF Wraps(i) THEN s - 1 ELSE s)
  BY DEF Moved, s
<1>8. Moved(i) \in IdRange
  BY <1>4, <1>5, <1>7 DEF IdRange
<1>9. Wraps(i) => steps[i] > 0
  BY <1>5 DEF s
<1> QED
  BY <1>1, <1>2, <1>5, <1>6, <1>7, <1>8, <1>9

Diffs == {IpidDistances(replies)[i] : i \in 1 .. Len(replies) - 1}

LEMMA DiffsAreMoves ==
  ASSUME TaskTypes, CounterMoves
  PROVE  /\ \A i \in 2 .. Len(replies) : Moved(i) \in Diffs
         /\ \A d \in Diffs : \E i \in 2 .. Len(replies) : d = Moved(i)
<1>1. ASSUME NEW i \in 2 .. Len(replies) PROVE Moved(i) \in Diffs
  <2>1. IpidDistances(replies)[i - 1] = Moved(i) /\ i - 1 \in 1 .. Len(replies) - 1
    BY StepDistances
  <2> QED
    BY <2>1 DEF Diffs
<1>2. ASSUME NEW d \in Diffs PROVE \E i \in 2 .. Len(replies) : d = Moved(i)
  <2>1. PICK j \in 1 .. Len(replies) - 1 : d = IpidDistances(replies)[j]
    BY DEF Diffs
  <2>2. Len(replies) \in Nat
    BY ReplyFacts
  <2>3. j + 1 \in 2 .. Len(replies) /\ j + 1 - 1 = j
    BY <2>2
  <2>4. IpidDistances(replies)[j + 1 - 1] = Moved(j + 1)
    BY <2>3, StepDistances
  <2> QED
    BY <2>1, <2>3, <2>4
<1> QED
  BY <1>1, <1>2

(* The verdicts in terms of the distances. *)
LEMMA TrivialVerdicts ==
  ASSUME TaskTypes, CounterMoves, Len(replies) > 1
  PROVE  /\ Trivial(replies) = "constant" <=> Diffs = {0}
         /\ Trivial(replies) = "random" <=> \E d \in Diffs : d > RandomThreshold
         /\ Trivial(replies) = "monotonic" <=> Diffs # {0} /\ \A d \in Diffs : d <= Tolerance
<1>1. Len(replies) \in Nat /\ Len(replies) >= 2 /\ ~(Len(replies) < 2)
  BY ReplyFacts
<1>2. \A d \in Diffs : d \in Nat
  <2> SUFFICES ASSUME NEW d \in Diffs PROVE d \in Nat
    OBVIOUS
  <2>1. PICK i \in 2 .. Len(replies) : d = Moved(i)
    BY DiffsAreMoves
  <2>2. d \in IdRange
    BY <2>1, StepDistances
  <2> QED
    BY <2>2, SpaceFacts DEF IdRange
<1>3. ~(Diffs = {0} /\ \E d \in Diffs : d > RandomThreshold)
  BY SpaceFacts
<1>4. ~((\E d \in Diffs : d > RandomThreshold) /\ \A d \in Diffs : d <= Tolerance)
  BY <1>2, SpaceFacts
<1> DEFINE same == Diffs = {0}
           jump == \E d \in Diffs : d > RandomThreshold
           near == \A d \in Diffs : d <= Tolerance
<1>5. Trivial(replies) = CASE Len(replies) < 2 -> "unchecked"
        [] Len(replies) >= 2 /\ same -> "constant"
        [] Len(replies) >= 2 /\ jump -> "random"
        [] Len(replies) >= 2 /\ ~same /\ near -> "monotonic"
        [] OTHER -> "other"
  BY Zenon DEF Trivial, Diffs
<1>6. ~(same /\ jump) /\ ~(jump /\ near)
  BY <1>3, <1>4, Zenon
<1> HIDE DEF same, jump, near
<1>7. /\ Trivial(replies) = "constant" <=> same
      /\ Trivial(replies) = "random" <=> jump
      /\ Trivial(replies) = "monotonic" <=> ~same /\ near
  BY <1>1, <1>5, <1>6
<1> QED
  BY <1>7, Zenon DEF same, jump, near

(* Replies that all have one ID are never judged monotonic. *)
LEMMA StandingStill ==
  ASSUME TaskTypes, CounterMoves, Len(replies) > 1,
         \A i \in 2 .. Len(replies) : steps[i] = 0
  PROVE  Trivial(replies) # "monotonic" /\ Midarmm(replies) # "monotonic"
<1> DEFINE n == Len(replies)
<1>1. n \in Nat /\ n > 1 /\ DOMAIN replies = 1 .. n
      /\ \A i \in 1 .. n : replies[i][1] \in IdRange
  BY ReplyFacts
<1>2. ASSUME NEW i \in 2 .. n
      PROVE  Moved(i) = 0 /\ replies[i][1] = replies[i - 1][1] /\ i - 1 \in 1 .. n
  <2>1. i \in 1 .. n /\ i - 1 \in 1 .. n /\ i # 1
    BY <1>1
  <2>2. replies[i][1] = (replies[i - 1][1] + 0) % Space
    BY <2>1 DEF CounterMoves, IdBefore
  <2>3. replies[i - 1][1] \in IdRange
    BY <1>1, <2>1
  <2>4. replies[i][1] = replies[i - 1][1]
    BY <2>2, <2>3, SpaceFacts, ModFacts DEF IdRange
  <2>5. ~Wraps(i)
    BY StepDistances
  <2> QED
    BY <2>1, <2>4, <2>5 DEF Moved
<1>3. Diffs = {0}
  <2>1. 2 \in 2 .. n
    BY <1>1
  <2> HIDE DEF n
  <2> QED
    BY <1>2, <2>1, DiffsAreMoves DEF n
<1>4. Trivial(replies) # "monotonic"
  BY <1>3, TrivialVerdicts
<1>5. \A i \in 1 .. n : replies[i][1] = replies[1][1]
  <2> DEFINE Bad == {i \in 1 .. n : replies[i][1] # replies[1][1]}
  <2> SUFFICES ASSUME Bad # {} PROVE FALSE
    OBVIOUS
  <2>1. Bad \in SUBSET Nat
    BY <1>1
  <2>2. Least(Bad) \in Bad /\ \A q \in Bad : Least(Bad) <= q
    BY <2>1, LeastOf
  <2> DEFINE m == Least(Bad)
  <2>3. m \in 2 .. n
    BY <1>1, <2>2
  <2>4. replies[m][1] = replies[m - 1][1] /\ m - 1 \in 1 .. n
    BY <1>2, <2>3
  <2>5. m - 1 \in Bad
    BY <2>2, <2>4
  <2>6. m <= m - 1
    BY <2>2, <2>5
  <2>7. m \in Nat
    BY <2>3
  <2> HIDE DEF m
  <2> QED
    BY <2>6, <2>7
<1>6. Occurrences(replies, replies[1][1]) = n
  <2>1. {i \in DOMAIN replies : replies[i][1] = replies[1][1]} = 1 .. n
    BY <1>1, <1>5
  <2>2. Cardinality(1 .. n) = IF 1 > n THEN 0 ELSE n - 1 + 1
    BY <1>1, FS_Interval
  <2>3. Cardinality(1 .. n) = n
    BY <1>1, <2>2
  <2>4. Occurrences(replies, replies[1][1]) = Cardinality(1 .. n)
    BY <2>1, Zenon DEF Occurrences
  <2> QED
    BY <2>3, <2>4
<1>7. n > (n + 2) \div 4
  BY <1>1
<1>8. \E i \in DOMAIN replies : Occurrences(replies, replies[i][1]) > (n + 2) \div 4
  <2>1. 1 \in DOMAIN replies
    BY <1>1
  <2> QED
    BY <1>6, <1>7, <2>1
<1>9. Midarmm(replies) # "monotonic"
  BY <1>8 DEF Midarmm
<1> QED
  BY <1>4, <1>9

LEMMA MidarmmVerdict ==
  ASSUME TaskTypes, CounterMoves, Midarmm(replies) = "monotonic"
  PROVE  Len(replies) > 1 /\ \A d \in Diffs : d <= Tolerance
<1>1. Len(replies) \in Nat
  BY ReplyFacts
<1>2. ~(Len(replies) < 2) /\ \A i \in 1 .. Len(replies) - 1 : IpidDistances(replies)[i] <= Tolerance
  BY DEF Midarmm
<1> QED
  BY <1>1, <1>2 DEF Diffs

(* The first reply, of the trigger. *)
LEMMA FirstIsJudged ==
  ASSUME TaskTypes, CounterMoves, Len(replies) > 0, ~OneShort
  PROVE  ThresholdTest <=> steps[1] < IpidThreshold
<1> DEFINE s == steps[1]
<1>1. 1 \in 1 .. Len(replies) /\ Len(steps) = Len(replies)
  BY ReplyFacts DEF TaskTypes
<1>2. s \in IdRange /\ initial \in IdRange /\ replies[1][1] = (initial + s) % Space
  BY <1>1, ReplyFacts DEF CounterMoves, IdBefore, TaskTypes
<1>3. initial + s >= Space => s # IpidThreshold
  BY <1>1 DEF OneShort, Wraps
<1>4. initial \in Nat /\ s \in Nat /\ Space \in Nat /\ IpidThreshold \in Nat
      /\ initial < Space /\ s < Space
  BY <1>2, SpaceFacts DEF IdRange
<1> HIDE DEF s
<1>5. CASE initial + s < Space
  <2>1. initial <= replies[1][1] /\ Dist(initial, replies[1][1]) = s
    BY <1>2, <1>5, DistFacts
  <2> QED
    BY <2>1 DEF ThresholdTest, s
<1>6. CASE initial + s >= Space
  <2>1. replies[1][1] < initial /\ Dist(replies[1][1], initial) = Space - s
    BY <1>2, <1>6, DistFacts
  <2>2. ~(initial <= replies[1][1])
    BY <1>2, <1>4, <2>1, DistFacts DEF IdRange
  <2>3. ThresholdTest <=> Space - s > Space - 1 - IpidThreshold
    BY <2>1, <2>2 DEF ThresholdTest
  <2>4. Space - s > Space - 1 - IpidThreshold <=> s < IpidThreshold
    BY <1>3, <1>4, <1>6
  <2> QED
    BY <2>3, <2>4 DEF s
<1> QED
  BY <1>4, <1>5, <1>6

LEMMA InvImpliesJudged == TaskInv => StepsAreJudged
<1> SUFFICES ASSUME TaskInv, ~OneShort
             PROVE  /\ Len(steps) > 1 =>
                         /\ Trivial(replies) = "constant" <=> Between = {0}
                         /\ Trivial(replies) = "random" <=> \E s \in Between : s > RandomThreshold
                         /\ Trivial(replies) = "monotonic" <=>
                              Between # {0} /\ \A s \in Between : s <= Tolerance
                         /\ Midarmm(replies) = "monotonic" => Trivial(replies) = "monotonic"
                    /\ Len(steps) > 0 => (ThresholdTest <=> steps[1] < IpidThreshold)
  BY Zenon DEF StepsAreJudged
<1>1. TaskTypes /\ CounterMoves /\ Len(steps) = Len(replies) /\ Len(replies) \in Nat
  BY ReplyFacts DEF TaskInv, TaskTypes
<1>2. ASSUME NEW i \in 2 .. Len(replies)
      PROVE  /\ Moved(i) = 0 <=> steps[i] = 0
             /\ Moved(i) > RandomThreshold <=> steps[i] > RandomThreshold
             /\ Moved(i) <= Tolerance <=> steps[i] <= Tolerance
             /\ steps[i] \in Between /\ Moved(i) \in Diffs
  <2>1. i \in 1 .. Len(steps) /\ steps[i] \in IdRange /\ (Wraps(i) => steps[i] > 0)
    BY <1>1, StepDistances, ReplyFacts
  <2>2. Wraps(i) => steps[i] # 1 /\ steps[i] # Tolerance + 1 /\ steps[i] # RandomThreshold + 1
    BY <2>1 DEF OneShort
  <2>3. steps[i] \in Between /\ Moved(i) \in Diffs
    BY <1>1, DiffsAreMoves DEF Between
  <2>4. steps[i] \in Nat /\ Tolerance \in Nat /\ RandomThreshold \in Nat
    BY <2>1, SpaceFacts DEF IdRange
  <2>5. CASE Wraps(i)
    BY <2>1, <2>2, <2>3, <2>4, <2>5 DEF Moved
  <2>6. CASE ~Wraps(i)
    BY <2>3, <2>6 DEF Moved
  <2> QED
    BY <2>5, <2>6
<1>3. /\ \A s \in Between : \E i \in 2 .. Len(replies) : s = steps[i]
      /\ \A d \in Diffs : \E i \in 2 .. Len(replies) : d = Moved(i)
  BY <1>1, DiffsAreMoves DEF Between
<1>4. ASSUME Len(steps) > 1
      PROVE  /\ Diffs = {0} <=> Between = {0}
             /\ (\E d \in Diffs : d > RandomThreshold) <=> \E s \in Between : s > RandomThreshold
             /\ (\A d \in Diffs : d <= Tolerance) <=> \A s \in Between : s <= Tolerance
  <2>1. 2 \in 2 .. Len(replies)
    BY <1>1, <1>4
  <2>2. Diffs = {0} <=> Between = {0}
    <3>1. Diffs = {0} => \A i \in 2 .. Len(replies) : steps[i] = 0
      BY <1>2
    <3>2. Between = {0} => \A i \in 2 .. Len(replies) : Moved(i) = 0
      BY <1>2
    <3>3. (\A i \in 2 .. Len(replies) : steps[i] = 0) => Between = {0}
      BY <1>2, <1>3, <2>1
    <3>4. (\A i \in 2 .. Len(replies) : Moved(i) = 0) => Diffs = {0}
      BY <1>2, <1>3, <2>1
    <3> QED
      BY <3>1, <3>2, <3>3, <3>4
  <2>3. (\E d \in Diffs : d > RandomThreshold) <=> \E s \in Between : s > RandomThreshold
    BY <1>2, <1>3
  <2>4. (\A d \in Diffs : d <= Tolerance) <=> \A s \in Between : s <= Tolerance
    BY <1>2, <1>3
  <2> QED
    BY <2>2, <2>3, <2>4
<1>5. ASSUME Len(steps) > 1, Midarmm(replies) = "monotonic"
      PROVE  Trivial(replies) = "monotonic"
  <2>1. \A d \in Diffs : d <= Tolerance
    BY <1>1, <1>5, MidarmmVerdict
  <2>2. Diffs # {0}
    <3> SUFFICES ASSUME Diffs = {0} PROVE FALSE
      OBVIOUS
    <3>1. \A i \in 2 .. Len(replies) : steps[i] = 0
      BY <1>2
    <3> QED
      BY <1>1, <1>5, <3>1, StandingStill
  <2> QED
    BY <1>1, <1>5, <2>1, <2>2, TrivialVerdicts
<1>6. ASSUME Len(steps) > 1
      PROVE  /\ Trivial(replies) = "constant" <=> Between = {0}
             /\ Trivial(replies) = "random" <=> \E s \in Between : s > RandomThreshold
             /\ Trivial(replies) = "monotonic" <=>
                  Between # {0} /\ \A s \in Between : s <= Tolerance
  <2>1. Len(replies) > 1
    BY <1>1, <1>6
  <2>2. /\ Trivial(replies) = "constant" <=> Diffs = {0}
        /\ Trivial(replies) = "random" <=> \E d \in Diffs : d > RandomThreshold
        /\ Trivial(replies) = "monotonic" <=> Diffs # {0} /\ \A d \in Diffs : d <= Tolerance
    BY <1>1, <2>1, TrivialVerdicts
  <2>3. /\ Diffs = {0} <=> Between = {0}
        /\ (\E d \in Diffs : d > RandomThreshold) <=> \E s \in Between : s > RandomThreshold
        /\ (\A d \in Diffs : d <= Tolerance) <=> \A s \in Between : s <= Tolerance
    BY <1>4, <1>6
  <2> QED
    BY <2>2, <2>3, Zenon
<1>7. Len(steps) > 0 => (ThresholdTest <=> steps[1] < IpidThreshold)
  BY <1>1, FirstIsJudged
<1> QED
  BY <1>5, <1>6, <1>7

-----------------------------------------------------------------------------
(* Hosts that count evenly. *)

(* Where the counter has come to at a reply, not taken modulo the IDs.      *)
Reached(rate, i) == initial + rate * replies[i][2]

Over(rate, i) == Reached(rate, i) >= Space

Lap(rate, i) == IF Over(rate, i) THEN Space ELSE 0

LEMMA TimesGrow ==
  ASSUME TaskTypes, CounterMoves, NEW i \in 1 .. Len(replies)
  PROVE  replies[1][2] <= replies[i][2] /\ replies[i][2] <= DeltaT
<1> DEFINE n == Len(replies)
           T(k) == replies[k][2]
<1>1. /\ n \in Nat /\ \A k \in 1 .. n : T(k) \in Nat
      /\ \A k \in 2 .. n : k \in 1 .. n /\ k - 1 \in 1 .. n /\ T(k - 1) <= T(k)
  <2>1. n \in Nat /\ \A k \in 1 .. n : T(k) \in Nat
    BY ReplyFacts
  <2>2. ASSUME NEW k \in 2 .. n PROVE k \in 1 .. n /\ k - 1 \in 1 .. n /\ T(k - 1) <= T(k)
    <3>1. k \in 1 .. n /\ k - 1 \in 1 .. n /\ k # 1
      BY <2>1
    <3> QED
      BY <3>1 DEF CounterMoves, TimeBefore
  <2> QED
    BY <2>1, <2>2
<1> HIDE DEF T
<1>2. \A k \in 1 .. n : T(1) <= T(k)
  <2> DEFINE Bad == {k \in 1 .. n : ~(T(1) <= T(k))}
  <2> SUFFICES ASSUME Bad # {} PROVE FALSE
    OBVIOUS
  <2>1. Bad \in SUBSET Nat
    BY <1>1
  <2> DEFINE m == Least(Bad)
  <2>2. m \in Bad /\ \A q \in Bad : m <= q
    BY <2>1, LeastOf
  <2>3. m \in 2 .. n
    BY <1>1, <2>2
  <2>4. m - 1 \in 1 .. n /\ m \in 1 .. n /\ 1 \in 1 .. n /\ T(m - 1) <= T(m)
    BY <1>1, <2>3
  <2>5. m - 1 \in Bad
    BY <1>1, <2>2, <2>4
  <2>6. m <= m - 1 /\ m \in Nat
    BY <2>2, <2>3, <2>5
  <2> HIDE DEF m
  <2> QED
    BY <2>6
<1>3. \A k \in 1 .. n : T(k) <= T(n)
  <2> DEFINE Gap == {g \in Nat : g < n /\ ~(T(n - g) <= T(n))}
  <2>1. Gap = {}
    <3> SUFFICES ASSUME Gap # {} PROVE FALSE
      OBVIOUS
    <3>1. Gap \in SUBSET Nat
      OBVIOUS
    <3> DEFINE m == Least(Gap)
    <3>2. m \in Gap /\ \A q \in Gap : m <= q
      BY <3>1, LeastOf
    <3>3. m \in Nat /\ m < n /\ m # 0
      BY <1>1, <3>2
    <3>4. n - (m - 1) \in 2 .. n /\ n - (m - 1) - 1 = n - m
      BY <1>1, <3>3
    <3>5. T(n - m) <= T(n - (m - 1)) /\ n - (m - 1) \in 1 .. n /\ n \in 1 .. n /\ n - m \in 1 .. n
      BY <1>1, <3>3, <3>4
    <3>6. m - 1 \in Gap
      <4>1. ~(T(n - m) <= T(n)) /\ T(n - m) \in Nat /\ T(n - (m - 1)) \in Nat /\ T(n) \in Nat
        BY <1>1, <3>2, <3>5
      <4>2. ~(T(n - (m - 1)) <= T(n))
        <5> HIDE DEF T, m
        <5> QED
          BY <3>5, <4>1
      <4>3. m - 1 \in Nat /\ m - 1 < n
        BY <1>1, <3>3
      <4> QED
        BY <4>2, <4>3
    <3>7. m <= m - 1
      BY <3>2, <3>6
    <3> HIDE DEF m
    <3> QED
      BY <3>3, <3>7
  <2> TAKE k \in 1 .. n
  <2>2. n - k \in Nat /\ n - k < n /\ n - (n - k) = k
    BY <1>1
  <2> QED
    BY <2>1, <2>2
<1>4. T(1) <= T(i) /\ T(i) <= T(n)
  BY <1>2, <1>3
<1> QED
  BY <1>4 DEF T, DeltaT, LastOf

(* A host that has come less than once around has the ID of its position,   *)
(* or of that less all IDs.                                                 *)
LEMMA PositionsAre ==
  ASSUME TaskTypes, CounterMoves, NEW rate \in Nat, CountsEvenly(rate), rate * DeltaT < Space,
         NEW i \in 1 .. Len(replies)
  PROVE  /\ replies[i][1] = Reached(rate, i) - Lap(rate, i)
         /\ Reached(rate, i) \in Nat
         /\ Reached(rate, i) < Space + Space
<1> DEFINE n == Len(replies)
           P(k) == Reached(rate, k)
           W(k) == Lap(rate, k)
<1>1. n \in Nat /\ \A k \in 1 .. n : replies[k][2] \in Nat /\ replies[k][2] <= DeltaT
      /\ steps[k] \in IdRange /\ replies[k][1] \in IdRange
  BY ReplyFacts, TimesGrow
<1>2. Space \in Nat /\ Space > 0 /\ initial \in Nat /\ initial < Space
  BY SpaceFacts DEF TaskTypes, IdRange
<1>3. DeltaT \in Nat
  BY <1>1 DEF DeltaT, LastOf
<1>4. ASSUME NEW k \in 1 .. n PROVE P(k) \in Nat /\ P(k) < Space + Space
  <2>1. replies[k][2] \in Nat /\ replies[k][2] <= DeltaT
    BY <1>1
  <2>2. rate * replies[k][2] \in Nat /\ rate * replies[k][2] <= rate * DeltaT /\ rate * DeltaT \in Nat
    BY <1>3, <2>1
  <2> QED
    BY <1>2, <2>2 DEF Reached
<1>5. ASSUME NEW k \in 1 .. n
      PROVE  steps[k] = rate * replies[k][2] - rate * TimeBefore(k)
  <2>1. steps[k] = rate * (replies[k][2] - TimeBefore(k))
    BY ReplyFacts DEF CountsEvenly, TimeBefore
  <2>2. replies[k][2] \in Nat /\ TimeBefore(k) \in Nat
    BY ReplyFacts
  <2> QED
    BY <2>1, <2>2
<1>6. \A k \in 1 .. n : replies[k][1] = P(k) - W(k)
  <2> DEFINE Bad == {k \in 1 .. n : replies[k][1] # P(k) - W(k)}
  <2> SUFFICES ASSUME Bad # {} PROVE FALSE
    OBVIOUS
  <2>1. Bad \in SUBSET Nat
    BY <1>1
  <2> DEFINE m == Least(Bad)
  <2>2. m \in Bad /\ \A q \in Bad : m <= q
    BY <2>1, LeastOf
  <2>3. m \in 1 .. n
    BY <2>2
  <2>4. replies[m][1] = (IdBefore(m) + steps[m]) % Space
    BY <2>3 DEF CounterMoves
  <2>5. IdBefore(m) \in IdRange /\ steps[m] \in IdRange
    BY <2>3, ReplyFacts
  <2>6. P(m) \in Nat /\ P(m) < Space + Space
    BY <1>4, <2>3
  <2>7. \/ IdBefore(m) + steps[m] = P(m)
        \/ IdBefore(m) + steps[m] = P(m) - Space
    <3>1. CASE m = 1
      <4>1. IdBefore(m) = initial /\ TimeBefore(m) = 0
        BY <3>1 DEF IdBefore, TimeBefore
      <4>2. rate * replies[m][2] \in Nat /\ rate * 0 = 0
        BY <1>1, <2>3
      <4>3. steps[m] = rate * replies[m][2] - rate * 0
        BY <1>5, <2>3, <4>1
      <4> QED
        BY <4>1, <4>2, <4>3 DEF Reached
    <3>2. CASE m # 1
      <4>1. m - 1 \in 1 .. n /\ m \in Nat
        BY <1>1, <2>3, <3>2
      <4>2. m - 1 \notin Bad
        <5> SUFFICES ASSUME m - 1 \in Bad PROVE FALSE
          OBVIOUS
        <5>1. m <= m - 1
          BY <2>2
        <5> HIDE DEF m
        <5> QED
          BY <4>1, <5>1
      <4>3. replies[m - 1][1] = P(m - 1) - W(m - 1)
        BY <4>1, <4>2
      <4>4. IdBefore(m) = replies[m - 1][1] /\ TimeBefore(m) = replies[m - 1][2]
        BY <3>2 DEF IdBefore, TimeBefore
      <4>5. steps[m] = rate * replies[m][2] - rate * replies[m - 1][2]
        BY <1>5, <2>3, <4>4
      <4>6. rate * replies[m][2] \in Nat /\ rate * replies[m - 1][2] \in Nat
        BY <1>1, <2>3, <4>1
      <4> DEFINE a == rate * replies[m][2]
                 c == rate * replies[m - 1][2]
                 w == W(m - 1)
      <4>7. w = 0 \/ w = Space
        BY DEF Lap
      <4>8. IdBefore(m) = initial + c - w /\ steps[m] = a - c /\ P(m) = initial + a
        <5>1. P(m - 1) = initial + c /\ P(m) = initial + a
          BY Zenon DEF Reached
        <5>2. IdBefore(m) = P(m - 1) - w
          BY <4>3, <4>4, Zenon
        <5>3. IdBefore(m) = initial + c - w
          <6> DEFINE p == P(m - 1)
                     y == IdBefore(m)
          <6>1. p = initial + c /\ y = p - w
            BY <5>1, <5>2, Zenon
          <6>2. y = initial + c - w
            <7>1. initial \in Nat /\ c \in Nat /\ w \in Nat
              BY <1>2, <4>6, <4>7
            <7> HIDE DEF p, y, c, w
            <7> QED
              BY <6>1, <7>1
          <6> QED
            BY <6>2, Zenon
        <5> QED
          BY <4>5, <5>1, <5>3, Zenon
      <4> HIDE DEF a, c, w, m, P
      <4>9. a \in Nat /\ c \in Nat
        BY <4>6 DEF a, c, m
      <4> QED
        BY <1>2, <4>7, <4>8, <4>9
    <3> QED
      BY <3>1, <3>2
  <2>8. /\ IdBefore(m) + steps[m] \in Nat
        /\ Space \in Nat
    BY <1>2, <2>5 DEF IdRange
  <2>9. replies[m][1] = P(m) - W(m)
    <3> DEFINE x == IdBefore(m) + steps[m]
               p == P(m)
    <3>1. /\ x \in Nat /\ p \in Nat /\ p < Space + Space
          /\ x = p \/ x = p - Space
      BY <2>6, <2>7, <2>8
    <3>2. W(m) = IF p >= Space THEN Space ELSE 0
      BY Zenon DEF Over, Lap
    <3> HIDE DEF x, p, W
    <3>3. CASE p >= Space
      <4>1. x % Space = p - Space
        BY <1>2, <3>1, <3>3, ModFacts
      <4> QED
        BY <2>4, <3>2, <3>3, <4>1 DEF x, p
    <3>4. CASE p < Space
      <4>1. x % Space = p /\ p - 0 = p
        BY <1>2, <3>1, <3>4, ModFacts
      <4>2. W(m) = 0
        BY <1>2, <3>1, <3>2, <3>4
      <4> QED
        BY <2>4, <4>1, <4>2 DEF x, p
    <3> QED
      BY <1>2, <3>1, <3>3, <3>4
  <2> QED
    BY <2>2, <2>9
<1> QED
  BY <1>4, <1>6

(* If the counter is over at the last reply but not at the first, some step *)
(* between them goes over.                                                  *)
LEMMA TurnIsSeen ==
  ASSUME TaskTypes, CounterMoves, NEW rate \in Nat, CountsEvenly(rate), rate * DeltaT < Space,
         Len(replies) > 1, Over(rate, Len(replies)), ~Over(rate, 1)
  PROVE  \E i \in 2 .. Len(steps) : Wraps(i)
<1> DEFINE n == Len(replies)
           Late == {k \in 1 .. n : Over(rate, k)}
           m == Least(Late)
<1>1. n \in Nat /\ n \in 1 .. n /\ Len(steps) = n
  BY ReplyFacts DEF TaskTypes
<1>2. Late \in SUBSET Nat /\ Late # {}
  BY <1>1
<1>3. m \in Late /\ \A q \in Late : m <= q
  BY <1>2, LeastOf
<1>4. m \in 2 .. n /\ m - 1 \in 1 .. n /\ m \in 1 .. n /\ m # 1 /\ m \in Nat
  BY <1>1, <1>3
<1>5. ~Over(rate, m - 1)
  <2> SUFFICES ASSUME Over(rate, m - 1) PROVE FALSE
    OBVIOUS
  <2>1. m - 1 \in Late
    BY <1>4
  <2>2. m <= m - 1
    BY <1>3, <2>1
  <2> HIDE DEF m
  <2> QED
    BY <1>4, <2>2
<1>6. Over(rate, m)
  BY <1>3
<1> DEFINE a == rate * replies[m][2]
           c == rate * replies[m - 1][2]
<1>7. a \in Nat /\ c \in Nat
  <2>1. replies[m][2] \in Nat /\ replies[m - 1][2] \in Nat
    BY <1>4, ReplyFacts
  <2> QED
    BY <2>1
<1>8. replies[m - 1][1] = initial + c
  <2>1. replies[m - 1][1] = Reached(rate, m - 1) - Lap(rate, m - 1) /\ Lap(rate, m - 1) = 0
    BY <1>4, <1>5, PositionsAre DEF Lap
  <2>2. Reached(rate, m - 1) = initial + c
    BY Zenon DEF Reached
  <2>3. initial \in Nat
    BY SpaceFacts DEF TaskTypes, IdRange
  <2> HIDE DEF c, m
  <2> QED
    BY <1>7, <2>1, <2>2, <2>3
<1>9. steps[m] = a - c
  <2>1. steps[m] = rate * (replies[m][2] - replies[m - 1][2])
    BY <1>1, <1>4, ReplyFacts DEF CountsEvenly
  <2>2. replies[m][2] \in Nat /\ replies[m - 1][2] \in Nat
    BY <1>4, ReplyFacts
  <2> HIDE DEF m
  <2> QED
    BY <2>1, <2>2
<1>10. initial + a >= Space
  BY <1>6, Zenon DEF Over, Reached
<1>11. Wraps(m)
  <2>1. Wraps(m) <=> replies[m - 1][1] + steps[m] >= Space
    BY <1>4 DEF Wraps
  <2>2. initial \in Nat
    BY SpaceFacts DEF TaskTypes, IdRange
  <2> HIDE DEF a, c, m
  <2> QED
    BY <1>7, <1>8, <1>9, <1>10, <2>1, <2>2
<1> QED
  BY <1>1, <1>4, <1>11

(* How far such a host has come, as delta_A() and velocity() see it. *)
LEMMA HonestMoves ==
  ASSUME TaskInv, NEW rate \in Nat, rate > 0, Honest(rate), rate * DeltaT < Space
  PROVE  /\ Len(replies) > 1
         /\ DeltaT \in Nat /\ replies[1][2] \in Nat
         /\ Velocity[2] = DeltaT - replies[1][2] /\ Velocity[2] > 0 /\ Velocity[2] \in Nat
         /\ Over(rate, 1) => Over(rate, Len(replies))
         /\ DeltaA = rate * DeltaT - (IF Over(rate, Len(replies)) THEN 1 ELSE 0)
         /\ Velocity[1] = rate * Velocity[2]
              - (IF Over(rate, Len(replies)) /\ ~Over(rate, 1) THEN 1 ELSE 0)
         /\ Velocity[1] \in Nat
<1> DEFINE n == Len(replies)
           t1 == replies[1][2]
           tn == DeltaT
<1>1. TaskTypes /\ CounterMoves /\ Classified /\ CountsEvenly(rate) /\ MonotonicityTest
  BY DEF TaskInv, Honest
<1>2. n \in Nat /\ n > 0 /\ 1 \in 1 .. n /\ n \in 1 .. n /\ tn = replies[n][2]
      /\ LastOf(replies) = replies[n]
  BY <1>1, ReplyFacts, EmptySeq DEF MonotonicityTest, DeltaT, LastOf, TaskTypes
<1>3. t1 \in Nat /\ tn \in Nat /\ t1 <= tn
  BY <1>1, <1>2, ReplyFacts, TimesGrow
<1>4. Trivial(replies) = "monotonic" \/ Midarmm(replies) = "monotonic"
  BY <1>1 DEF Classified, MonotonicityTest
<1>5. n > 1
  <2>1. CASE Trivial(replies) = "monotonic"
    <3>1. ~(n < 2)
      BY <2>1 DEF Trivial
    <3> QED
      BY <1>2, <3>1
  <2>2. CASE Midarmm(replies) = "monotonic"
    BY <1>1, <2>2, MidarmmVerdict
  <2> QED
    BY <1>4, <2>1, <2>2
<1>6. tn # t1
  <2> SUFFICES ASSUME tn = t1 PROVE FALSE
    OBVIOUS
  <2>1. ASSUME NEW i \in 2 .. n PROVE steps[i] = 0
    <3>1. i \in 1 .. n /\ i - 1 \in 1 .. n /\ i # 1
      BY <1>2
    <3>2. replies[i][2] = t1 /\ replies[i - 1][2] = t1
      <4>1. ASSUME NEW k \in 1 .. n PROVE replies[k][2] = t1
        <5>1. t1 <= replies[k][2] /\ replies[k][2] <= tn /\ replies[k][2] \in Nat
          BY <1>1, TimesGrow, ReplyFacts
        <5> HIDE DEF t1, tn
        <5> QED
          BY <1>3, <5>1
      <4> QED
        BY <3>1, <4>1
    <3>3. steps[i] = rate * (replies[i][2] - replies[i - 1][2])
      BY <1>1, <3>1, ReplyFacts DEF CountsEvenly
    <3>4. replies[i][2] - replies[i - 1][2] = 0
      BY <1>3, <3>2
    <3> QED
      BY <3>3, <3>4
  <2> QED
    BY <1>1, <1>4, <1>5, <2>1, StandingStill
<1>7. Velocity[2] = tn - t1 /\ Velocity[2] > 0 /\ Velocity[2] \in Nat
  <2>1. Velocity[2] = tn - t1
    BY DEF Velocity, DeltaT
  <2> HIDE DEF tn, t1
  <2> QED
    BY <1>3, <1>6, <2>1
<1> DEFINE a == rate * t1
           z == rate * tn
           d == rate * (tn - t1)
<1>8. a \in Nat /\ z \in Nat /\ d \in Nat /\ d = z - a /\ d > 0 /\ z < Space
  <2>1. z < Space
    OBVIOUS
  <2> HIDE DEF tn, t1
  <2>2. tn - t1 \in Nat /\ tn - t1 > 0
    BY <1>3, <1>6
  <2>3. a \in Nat /\ z \in Nat /\ d \in Nat /\ d = z - a
    BY <1>3, <2>2
  <2>4. d > 0
    BY <2>2
  <2> QED
    BY <2>1, <2>3, <2>4
<1>9. Reached(rate, 1) = initial + a /\ Reached(rate, n) = initial + z
  BY <1>2, Zenon DEF Reached
<1>10. initial \in Nat /\ initial < Space /\ Space \in Nat /\ initial \in IdRange
  BY <1>1, SpaceFacts DEF TaskTypes, IdRange
<1>11. /\ replies[1][1] = initial + a - (IF Over(rate, 1) THEN Space ELSE 0)
       /\ replies[n][1] = initial + z - (IF Over(rate, n) THEN Space ELSE 0)
  <2>1. /\ replies[1][1] = Reached(rate, 1) - Lap(rate, 1)
        /\ replies[n][1] = Reached(rate, n) - Lap(rate, n)
    BY <1>1, <1>2, PositionsAre
  <2> DEFINE p == Reached(rate, 1)
             q == Reached(rate, n)
             r == replies[1][1]
             s == replies[n][1]
             v == Lap(rate, 1)
             w == Lap(rate, n)
  <2>2. r = initial + a - v /\ s = initial + z - w
    <3>1. r = p - v /\ s = q - w /\ p = initial + a /\ q = initial + z
      BY <1>9, <2>1, Zenon
    <3>2. initial \in Nat /\ a \in Nat /\ z \in Nat /\ v \in Nat /\ w \in Nat
      BY <1>1, <1>8, SpaceFacts DEF TaskTypes, IdRange, Lap
    <3> HIDE DEF p, q, r, s, v, w, a, z
    <3> QED
      BY <3>1, <3>2
  <2> QED
    BY <2>2, Zenon DEF Lap
<1>12. /\ Over(rate, 1) <=> initial + a >= Space
       /\ Over(rate, n) <=> initial + z >= Space
  BY <1>9, Zenon DEF Over
<1>13. replies[1][1] \in IdRange /\ replies[n][1] \in IdRange
  BY <1>1, <1>2, ReplyFacts
<1>14. DeltaA = Dist(initial, replies[n][1])
       /\ Velocity[1] = Dist(replies[1][1], replies[n][1])
  BY <1>2 DEF DeltaA, Velocity
<1> HIDE DEF n, t1, tn, a, z, d
<1>15. DeltaA = z - (IF Over(rate, n) THEN 1 ELSE 0)
  <2>1. z \in IdRange
    BY <1>8, <1>10 DEF IdRange
  <2>2. CASE initial + z < Space
    <3>1. (initial + z) % Space = replies[n][1]
      BY <1>8, <1>10, <1>11, <1>12, <2>2, ModFacts
    <3>2. Dist(initial, (initial + z) % Space) = z
      BY <1>10, <2>1, <2>2, DistFacts
    <3> QED
      BY <1>8, <1>10, <1>12, <1>14, <2>2, <3>1, <3>2
  <2>3. CASE initial + z >= Space
    <3>1. (initial + z) % Space = replies[n][1]
      BY <1>8, <1>10, <1>11, <1>12, <2>3, ModFacts
    <3>2. Dist(initial, (initial + z) % Space) = z - 1
      BY <1>10, <2>1, <2>3, DistFacts
    <3> QED
      BY <1>12, <1>14, <2>3, <3>1, <3>2
  <2> QED
    BY <1>8, <1>10, <2>2, <2>3
<1>16. Over(rate, 1) => Over(rate, n)
  BY <1>8, <1>10, <1>12
<1>17. Velocity[1] = d - (IF Over(rate, n) /\ ~Over(rate, 1) THEN 1 ELSE 0)
       /\ Velocity[1] \in Nat
  <2> DEFINE r == replies[1][1]
  <2>1. d \in IdRange /\ r \in IdRange /\ r \in Nat
    BY <1>8, <1>10, <1>13 DEF IdRange
  <2>2. \/ Over(rate, n) /\ ~Over(rate, 1) /\ r + d >= Space /\ replies[n][1] = r + d - Space
        \/ ~(Over(rate, n) /\ ~Over(rate, 1)) /\ r + d < Space /\ replies[n][1] = r + d
    <3>1. replies[n][1] < Space /\ replies[n][1] \in Nat
      BY <1>10, <1>13 DEF IdRange
    <3>2. r = initial + a - (IF Over(rate, 1) THEN Space ELSE 0)
      BY <1>11
    <3> HIDE DEF r
    <3>3. CASE Over(rate, 1)
      BY <1>8, <1>10, <1>11, <1>12, <1>16, <2>1, <3>1, <3>2, <3>3
    <3>4. CASE ~Over(rate, 1) /\ Over(rate, n)
      BY <1>8, <1>10, <1>11, <1>12, <2>1, <3>1, <3>2, <3>4
    <3>5. CASE ~Over(rate, n)
      BY <1>8, <1>10, <1>11, <1>12, <1>16, <2>1, <3>1, <3>2, <3>5
    <3> QED
      BY <3>3, <3>4, <3>5
  <2> HIDE DEF r
  <2>3. CASE Over(rate, n) /\ ~Over(rate, 1)
    <3>1. r + d >= Space /\ replies[n][1] = r + d - Space
      BY <2>2, <2>3
    <3>2. (r + d) % Space = replies[n][1]
      BY <1>8, <1>10, <2>1, <3>1, ModFacts DEF IdRange
    <3>3. Dist(r, (r + d) % Space) = d - 1
      BY <2>1, <3>1, DistFacts
    <3> QED
      BY <1>8, <1>14, <2>3, <3>2, <3>3 DEF r
  <2>4. CASE ~(Over(rate, n) /\ ~Over(rate, 1))
    <3>1. r + d < Space /\ replies[n][1] = r + d
      BY <2>2, <2>4
    <3>2. (r + d) % Space = replies[n][1]
      BY <1>8, <1>10, <2>1, <3>1, ModFacts
    <3>3. Dist(r, (r + d) % Space) = d
      BY <2>1, <3>1, DistFacts
    <3> QED
      BY <1>8, <1>14, <2>4, <3>2, <3>3 DEF r
  <2> QED
    BY <2>3, <2>4
<1>18. z = rate * DeltaT /\ d = rate * Velocity[2]
  BY <1>7, Zenon DEF z, d, tn
<1> QED
  BY <1>3, <1>5, <1>7, <1>15, <1>16, <1>17, <1>18 DEF n, tn, t1

(* The test of the thesis compares products; of a host that has come by v    *)
(* in time V between its replies and by z in time T from the trigger, and    *)
(* whose distances are short by E and A, these are the same but for E and A. *)
LEMMA ShortOfTheThesis ==
  ASSUME NEW r \in Nat, NEW V \in Nat, NEW T \in Nat, NEW A \in {0, 1}, NEW E \in {0, 1}
  PROVE  (r * T - A) * V - (r * V - E) * T = E * T - A * V
<1> DEFINE p == r * T
           q == r * V
           x == p * V
           y == q * T
<1>1. p \in Nat /\ q \in Nat
  OBVIOUS
<1>2. x = y
  OBVIOUS
<1> HIDE DEF p, q
<1>3. x \in Nat /\ y \in Nat
  BY <1>1
<1>4. (p - A) * V = x - A * V
  BY <1>1
<1>5. (q - E) * T = y - E * T
  BY <1>1
<1>6. A * V \in Nat /\ E * T \in Nat
  OBVIOUS
<1> DEFINE av == A * V
           et == E * T
           l == (p - A) * V
           k == (q - E) * T
<1>7. l = x - av /\ k = y - et /\ av \in Nat /\ et \in Nat
  BY <1>4, <1>5, <1>6
<1>8. l - k = et - av
  <2> HIDE DEF l, k, x, y, av, et
  <2> QED
    BY <1>2, <1>3, <1>7
<1> QED
  BY <1>8 DEF p, q

LEMMA HonestPass ==
  ASSUME TaskInv, NEW rate \in 1 .. Space, Honest(rate)
  PROVE  PassesThesis(rate)
<1> SUFFICES ASSUME rate * DeltaT < Space, NEW b \in Bounds, b.cl > 0,
                    \/ \A i \in 2 .. Len(steps) : ~Wraps(i)
                    \/ replies[1][2] <= b.ch * Velocity[2]
             PROVE  Thesis(b)
  BY DEF PassesThesis
<1> DEFINE n == Len(replies)
           V == Velocity[2]
           T == DeltaT
           t1 == replies[1][2]
           A == IF Over(rate, n) THEN 1 ELSE 0
           E == IF Over(rate, n) /\ ~Over(rate, 1) THEN 1 ELSE 0
           moved == Velocity[1] * T
           w == DeltaA * V - moved
<1>1. rate \in Nat /\ rate > 0
  BY SpaceFacts
<1>2. TaskTypes /\ CounterMoves /\ CountsEvenly(rate) /\ MonotonicityTest /\ ThresholdTest
  BY DEF TaskInv, Honest
<1>3. /\ n > 1 /\ T \in Nat /\ t1 \in Nat
      /\ V = T - t1 /\ V > 0 /\ V \in Nat
      /\ DeltaA = rate * T - A
      /\ Velocity[1] = rate * V - E
      /\ Velocity[1] \in Nat
  BY <1>1, HonestMoves
<1>4. A \in {0, 1} /\ E \in {0, 1} /\ E <= A
  OBVIOUS
<1>5. E = 1 => t1 <= b.ch * V
  <2> SUFFICES ASSUME E = 1 PROVE t1 <= b.ch * V
    OBVIOUS
  <2>1. Over(rate, n) /\ ~Over(rate, 1)
    OBVIOUS
  <2>2. \E i \in 2 .. Len(steps) : Wraps(i)
    BY <1>1, <1>2, <1>3, <2>1, TurnIsSeen
  <2> QED
    BY <2>2
<1>6. b.sl \in Nat /\ b.cl \in Nat /\ b.sh \in Nat /\ b.ch \in Nat
  BY SpaceFacts
<1>7. Thesis(b) <=> /\ 100 * w >= -(b.sl * moved + 100 * b.cl * V)
                    /\ 100 * w <= b.sh * moved + 100 * b.ch * V
  BY <1>2, <1>3 DEF Thesis
<1> HIDE DEF A, E, V, T, t1, n
<1>8. w = E * T - A * V
  BY <1>1, <1>3, <1>4, ShortOfTheThesis
<1>9. moved \in Nat
  BY <1>3
<1> HIDE DEF moved, w
<1> DEFINE sl == b.sl * moved
           sh == b.sh * moved
           cl == b.cl * V
           ch == b.ch * V
<1>10. sl \in Nat /\ sh \in Nat /\ cl \in Nat /\ ch \in Nat
  <2>1. V \in Nat
    BY <1>3
  <2>2. sl \in Nat /\ sh \in Nat
    BY <1>6, <1>9
  <2>3. cl \in Nat /\ ch \in Nat
    BY <1>6, <2>1
  <2> QED
    BY <2>2, <2>3
<1>11. cl >= V
  BY <1>3, <1>6
<1>12. 100 * b.cl * V = 100 * cl /\ 100 * b.ch * V = 100 * ch
  BY <1>3, <1>6
<1>13. E = 1 => t1 <= ch
  BY <1>5
<1> HIDE DEF sl, sh, cl, ch
<1>14. \/ E = 0 /\ A = 0 /\ w = 0
       \/ E = 0 /\ A = 1 /\ w = -V
       \/ E = 1 /\ A = 1 /\ w = t1
  BY <1>3, <1>4, <1>8
<1>15. 100 * w >= -(sl + 100 * cl) /\ 100 * w <= sh + 100 * ch
  BY <1>3, <1>10, <1>11, <1>13, <1>14
<1> QED
  BY <1>7, <1>12, <1>15 DEF sl, sh

(* Whatever the number of IDs, the limits of the classifiers and the replies: *)
(* but for hosts that go over the last ID by a step of just these lengths,    *)
(* the verdicts on a task are those on the steps of the counter of its host.  *)
THEOREM StepsAreAlwaysJudged == TaskSpec => []StepsAreJudged
<1>1. TaskSpec => []TaskInv
  BY InitTask, NextKeepsTask, PTL DEF TaskSpec
<1> QED
  BY <1>1, InvImpliesJudged, PTL

(* A host whose counter moves at any steady rate and that has come less than  *)
(* once around passes the test of the thesis, with the bounds of any          *)
(* supported protocol, if its IDs do not go over the last one between the     *)
(* first reply and the last, or the first reply is early enough.              *)
THEOREM HonestHostsAlwaysPass == TaskSpec => []HonestHostsPass
<1>1. TaskSpec => []TaskInv
  BY InitTask, NextKeepsTask, PTL DEF TaskSpec
<1>2. TaskInv => HonestHostsPass
  BY HonestPass DEF HonestHostsPass
<1> QED
  BY <1>1, <1>2, PTL
=============================================================================
