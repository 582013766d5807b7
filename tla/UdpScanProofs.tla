---------------------------- MODULE UdpScanProofs ----------------------------
(***************************************************************************)
(* Theorems about the UDP scan, for any targets, files, timeouts and any   *)
(* size of the socket pair: the prober never forgets a request, and every  *)
(* target that was read is in one place and is not probed too often.       *)
(***************************************************************************)
EXTENDS UdpScan, FiniteSetTheorems, FunctionTheorems,
        SequenceTheorems, TLAPS

(* What NoLostWakeup needs to be inductive: bytes in the pair are counted.  *)
IInv == pipe \in Nat /\ NoLostWakeup

LEMMA InitIInv == Init => IInv
  BY DEF Init, ProberInit, IInv, NoLostWakeup

LEMMA PokeWakes == IInv => Poked \in Nat /\ Poked > 0
  BY ProberAssumption DEF IInv, Poked

(* The prober's actor only adds requests, and pokes unless writing is on,   *)
(* which it is only while the loop waits for the raw socket.                *)
LEMMA ActorKeeps == IInv /\ ProberActor => IInv'
  <1> SUFFICES ASSUME IInv, ProberActor PROVE IInv'
    OBVIOUS
  <1> USE DEF IInv, NoLostWakeup, loopVars
  <1>1. ASSUME NEW t \in Targets, AddRequest(t) PROVE IInv'
    BY <1>1, PokeWakes DEF AddRequest
  <1>2. CASE ShutDown
    BY <1>2, PokeWakes DEF ShutDown
  <1>3. CASE Join
    BY <1>3 DEF Join
  <1> QED
    BY <1>1, <1>2, <1>3 DEF ProberActor

(* The loop empties the pair only on its way to switch writing on, and      *)
(* switches it off only with the last request.                              *)
LEMMA LoopKeeps == IInv /\ ProberLoop => IInv'
  <1> SUFFICES ASSUME IInv, ProberLoop PROVE IInv'
    OBVIOUS
  <1> USE DEF IInv, NoLostWakeup
  <1>1. CASE LoopStart
    BY <1>1 DEF LoopStart
  <1>2. CASE LoopCheck
    BY <1>2 DEF LoopCheck
  <1>3. CASE PollReturn
    BY <1>3 DEF PollReturn
  <1>4. CASE NotifyRead
    BY <1>4, ProberAssumption DEF NotifyRead
  <1>5. CASE NotifyEnable
    BY <1>5 DEF NotifyEnable, EnableWrite
  <1>6. CASE ProbeWrite
    <2>1. /\ requests' = Rest /\ pipe' = pipe /\ loopPc' = loopPc
          /\ armed' = (armed /\ Rest # <<>>)
          /\ writing' = (writing /\ Rest # <<>>)
      BY <1>6 DEF ProbeWrite, WriteOne
    <2>2. loopPc = "dispatch" /\ "write" \in ready
      BY <1>6 DEF ProbeWrite, WriteOne
    <2>3. Rest # <<>> => requests # <<>>
      BY DEF Rest
    <2> QED
      BY <2>1, <2>2, <2>3
  <1> QED
    BY <1>1, <1>2, <1>3, <1>4, <1>5, <1>6 DEF ProberLoop

(* Nothing else in the tool touches queue, flag, pair or loop.              *)
LEMMA OthersKeep ==
  /\ CaptureRuns \/ CaptureFails \/ ProcessorDone \/ ProcessorStep
       \/ ReaderStep \/ Pass \/ (\E t \in Targets : Answer(t) \/ Lose(t))
  => UNCHANGED <<requests, writing, pipe, loopVars>>
  <1> USE DEF proberVars
  <1>1. CaptureRuns => UNCHANGED <<requests, writing, pipe, loopVars>>
    BY DEF CaptureRuns, HandleOther
  <1>2. CaptureFails => UNCHANGED <<requests, writing, pipe, loopVars>>
    BY DEF CaptureFails
  <1>3. ProcessorDone => UNCHANGED <<requests, writing, pipe, loopVars>>
    BY DEF ProcessorDone, HandleDone
  <1>4. ProcessorStep => UNCHANGED <<requests, writing, pipe, loopVars>>
    <2>1. HandleTargets => UNCHANGED <<requests, writing, pipe, loopVars>>
      BY DEF HandleTargets, HandleBatch
    <2>2. Tick => UNCHANGED <<requests, writing, pipe, loopVars>>
      BY DEF Tick, TickWith
    <2> QED
      BY <2>1, <2>2 DEF ProcessorStep
  <1>5. ReaderStep => UNCHANGED <<requests, writing, pipe, loopVars>>
    BY DEF ReaderStep, ReadBatch, ReadLines
  <1>6. Pass => UNCHANGED <<requests, writing, pipe, loopVars>>
    BY DEF Pass
  <1>7. ASSUME NEW t \in Targets, Answer(t) \/ Lose(t)
        PROVE  UNCHANGED <<requests, writing, pipe, loopVars>>
    BY <1>7 DEF Answer, Lose, HandleUdp, HandleIcmp, HandleEvent, HandleOther
  <1> QED
    BY <1>1, <1>2, <1>3, <1>4, <1>5, <1>6, <1>7

LEMMA NextKeeps == IInv /\ [Next]_vars => IInv'
  <1> SUFFICES ASSUME IInv, [Next]_vars PROVE IInv'
    OBVIOUS
  <1>1. CASE UNCHANGED <<requests, writing, pipe, loopVars>>
    BY <1>1 DEF IInv, NoLostWakeup, loopVars
  <1>2. CASE ProberStep
    BY <1>2, ActorKeeps, LoopKeeps DEF ProberStep
  <1>3. CASE UNCHANGED vars
    BY <1>1, <1>3 DEF vars, proberVars
  <1> QED
    BY <1>1, <1>2, <1>3, OthersKeep DEF Next

(* A request in the prober's queue always has something that will make the  *)
(* loop look at it: an armed write event, a byte in the socket pair, or the *)
(* loop itself on its way to arm it.  So neither a flag read while the loop *)
(* is about to set it, nor a byte dropped by a full pair, loses a request.  *)
THEOREM RequestsAreNotForgotten == Spec => []NoLostWakeup
  <1>1. Init => IInv
    BY InitIInv
  <1>2. IInv /\ [Next]_vars => IInv'
    BY NextKeeps
  <1>3. IInv => NoLostWakeup
    BY DEF IInv
  <1> QED
    BY <1>1, <1>2, <1>3, PTL DEF Spec

-----------------------------------------------------------------------------
(* Counting in sequences. *)

(* How often something occurs in a sequence is a number. *)
LEMMA OccurrencesNat ==
  ASSUME NEW S, NEW s \in Seq(S), NEW x
  PROVE  /\ IsFiniteSet({i \in DOMAIN s : s[i] = x})
         /\ Occurrences(x, s) \in Nat
<1>1. DOMAIN s = 1..Len(s) /\ Len(s) \in Nat
  BY LenProperties
<1>2. IsFiniteSet(1..Len(s))
  BY <1>1, FS_Interval
<1>3. IsFiniteSet({i \in DOMAIN s : s[i] = x})
  BY <1>1, <1>2, FS_Subset
<1> QED
  BY <1>3, FS_CardinalityType DEF Occurrences

LEMMA OccurrencesEmpty ==
  ASSUME NEW x
  PROVE  Occurrences(x, <<>>) = 0
<1>1. {i \in DOMAIN <<>> : <<>>[i] = x} = {}
  OBVIOUS
<1> QED
  BY <1>1, FS_EmptySet DEF Occurrences

LEMMA OccurrencesAppend ==
  ASSUME NEW S, NEW s \in Seq(S), NEW e \in S, NEW x
  PROVE  Occurrences(x, Append(s, e)) =
           Occurrences(x, s) + (IF e = x THEN 1 ELSE 0)
<1> DEFINE n == Len(s)
<1> DEFINE old == {i \in DOMAIN s : s[i] = x}
<1> DEFINE new == {i \in DOMAIN Append(s, e) : Append(s, e)[i] = x}
<1>1. n \in Nat /\ DOMAIN s = 1..n /\ DOMAIN Append(s, e) = 1..(n + 1)
  BY LenProperties, AppendProperties
<1>2. \A i \in 1..n : Append(s, e)[i] = s[i]
  BY <1>1, AppendProperties
<1>3. Append(s, e)[n + 1] = e
  BY AppendProperties
<1>4. n + 1 \notin old
  BY <1>1
<1>5. IsFiniteSet(old) /\ Cardinality(old) \in Nat
  BY OccurrencesNat, FS_CardinalityType
<1>6. CASE e = x
  <2>1. new = old \cup {n + 1}
    BY <1>1, <1>2, <1>3, <1>6
  <2>2. Cardinality(new) = Cardinality(old) + 1
    BY <1>4, <1>5, <2>1, FS_AddElement
  <2> QED
    BY <1>6, <2>2 DEF Occurrences
<1>7. CASE e # x
  <2>1. new = old
    BY <1>1, <1>2, <1>3, <1>7
  <2> HIDE DEF new, old
  <2>2. Cardinality(new) = Cardinality(old) + 0
    BY <1>5, <2>1
  <2> USE DEF new, old
  <2> QED
    BY <1>7, <2>2 DEF Occurrences
<1> QED
  BY <1>6, <1>7

LEMMA OccurrencesConcat ==
  ASSUME NEW S, NEW s \in Seq(S), NEW t \in Seq(S), NEW x
  PROVE  Occurrences(x, s \o t) = Occurrences(x, s) + Occurrences(x, t)
<1> DEFINE n == Len(s)
<1> DEFINE A == {i \in DOMAIN s : s[i] = x}
<1> DEFINE B == {i \in DOMAIN t : t[i] = x}
<1> DEFINE C == {i \in DOMAIN (s \o t) : (s \o t)[i] = x}
<1> DEFINE D == {i \in C : i > n}
<1> DEFINE shift == [i \in B |-> n + i]
<1>1. /\ n \in Nat /\ DOMAIN s = 1..n
      /\ Len(t) \in Nat /\ DOMAIN t = 1..Len(t)
      /\ DOMAIN (s \o t) = 1..(n + Len(t))
  BY LenProperties, ConcatProperties
<1>2. \A i \in 1..(n + Len(t)) :
         (s \o t)[i] = IF i <= n THEN s[i] ELSE t[i - n]
  BY ConcatProperties
<1>3. IsFiniteSet(A) /\ IsFiniteSet(B)
  BY OccurrencesNat
<1>4. C = A \cup D /\ A \cap D = {}
  BY <1>1, <1>2
<1>5. shift \in Bijection(B, D)
  <2>1. \A i \in B : shift[i] \in D
    BY <1>1, <1>2
  <2>2. \A i, j \in B : shift[i] = shift[j] => i = j
    BY <1>1
  <2>3. \A d \in D : \E i \in B : shift[i] = d
    <3> TAKE d \in D
    <3>1. d - n \in B /\ n + (d - n) = d
      BY <1>1, <1>2
    <3> QED
      BY <3>1
  <2> QED
    BY <2>1, <2>2, <2>3, Fun_IsBij
<1>6. IsFiniteSet(D) /\ Cardinality(D) = Cardinality(B)
  BY <1>3, <1>5, FS_Bijection, Fun_ExistsBij
<1>7. Cardinality(C) = Cardinality(A) + Cardinality(D) - Cardinality({})
  BY <1>3, <1>4, <1>6, FS_Union
<1>8. Cardinality(A) \in Nat /\ Cardinality(B) \in Nat
  BY <1>3, FS_CardinalityType
<1> HIDE DEF A, B, C, D
<1>9. Cardinality(C) = Cardinality(A) + Cardinality(B)
  BY <1>6, <1>7, <1>8, FS_EmptySet
<1> QED
  BY <1>9 DEF Occurrences, A, B, C

LEMMA OccurrencesHeadTail ==
  ASSUME NEW S, NEW s \in Seq(S), s # <<>>, NEW x
  PROVE  Occurrences(x, s) =
           (IF Head(s) = x THEN 1 ELSE 0) + Occurrences(x, Tail(s))
<1>1. Head(s) \in S /\ Tail(s) \in Seq(S) /\ s = <<Head(s)>> \o Tail(s)
  OBVIOUS
<1>2. <<Head(s)>> \in Seq(S) /\ <<Head(s)>> = Append(<<>>, Head(s)) /\ <<>> \in Seq(S)
  BY <1>1
<1>3. Occurrences(x, <<Head(s)>>) = 0 + (IF Head(s) = x THEN 1 ELSE 0)
  <2>1. Occurrences(x, Append(<<>>, Head(s))) =
          Occurrences(x, <<>>) + (IF Head(s) = x THEN 1 ELSE 0)
    BY <1>1, <1>2, OccurrencesAppend
  <2> QED
    BY <1>2, <2>1, OccurrencesEmpty
<1>4. Occurrences(x, s) = Occurrences(x, <<Head(s)>>) + Occurrences(x, Tail(s))
  BY <1>1, <1>2, OccurrencesConcat
<1>5. Occurrences(x, Tail(s)) \in Nat
  BY <1>1, OccurrencesNat
<1> QED
  BY <1>3, <1>4, <1>5

Before(at, i) == {j \in at : j < i}

Those(s, at, x) == {i \in at : s[i] = x}

(* What is picked from a sequence is what is at those positions.            *)
LEMMA PickedFacts ==
  ASSUME NEW n \in Nat, NEW s, NEW at \in SUBSET (1..n)
  PROVE  /\ Picked(s, at) = [k \in 1..Cardinality(at) |-> Picked(s, at)[k]]
         /\ Cardinality(at) \in Nat
         /\ \A x : Occurrences(x, Picked(s, at)) = Cardinality(Those(s, at, x))
         /\ \A k \in 1..Cardinality(at) : \E i \in at : Picked(s, at)[k] = s[i]
<1> DEFINE c == Cardinality(at)
           rank == [i \in at |-> Cardinality(Before(at, i)) + 1]
           picked == Picked(s, at)
<1>1. IsFiniteSet(at) /\ c \in Nat
  <2>1. IsFiniteSet(1..n)
    BY FS_Interval
  <2>2. IsFiniteSet(at)
    BY <2>1, FS_Subset
  <2> QED
    BY <2>2, FS_CardinalityType
<1>2. \A i \in at : /\ IsFiniteSet(Before(at, i)) /\ Cardinality(Before(at, i)) \in Nat
                    /\ IsFiniteSet(Before(at, i) \cup {i})
                    /\ Cardinality(Before(at, i) \cup {i}) = Cardinality(Before(at, i)) + 1
  <2> TAKE i \in at
  <2>1. Before(at, i) \in SUBSET at /\ i \notin Before(at, i)
    BY DEF Before
  <2>2. IsFiniteSet(Before(at, i))
    BY <1>1, <2>1, FS_Subset
  <2> QED
    BY <2>1, <2>2, FS_CardinalityType, FS_AddElement
<1>a. \A i \in at : rank[i] = Cardinality(Before(at, i)) + 1
  OBVIOUS
<1>n. \A i \in at : Cardinality(Before(at, i)) \in Nat
  BY <1>2
<1>b. rank \in [at -> Nat]
  <2>1. \A i \in at : Cardinality(Before(at, i)) + 1 \in Nat
    BY <1>n
  <2> QED
    BY <2>1
<1> HIDE DEF rank
<1>3. \A i \in at : rank[i] \in 1..c
  <2> TAKE i \in at
  <2>1. Before(at, i) \cup {i} \in SUBSET at
    BY DEF Before
  <2>2. Cardinality(Before(at, i) \cup {i}) <= c
    BY <1>1, <2>1, FS_Subset
  <2> QED
    BY <1>a, <1>1, <1>2, <2>2
<1>4. \A i, j \in at : i < j => rank[i] < rank[j]
  <2> TAKE i, j \in at
  <2> HAVE i < j
  <2>1. Before(at, i) \cup {i} \in SUBSET Before(at, j)
    <3>1. i \in Nat /\ j \in Nat /\ \A k \in at : k \in Nat
      OBVIOUS
    <3>2. i \in Before(at, j)
      BY <3>1 DEF Before
    <3>3. ASSUME NEW k \in Before(at, i) PROVE k \in Before(at, j)
      <4>1. k \in at /\ k < i
        BY DEF Before
      <4>2. k < j
        BY <3>1, <4>1
      <4> QED
        BY <4>1, <4>2 DEF Before
    <3> QED
      BY <3>2, <3>3
  <2>2. Cardinality(Before(at, i) \cup {i}) <= Cardinality(Before(at, j))
    BY <1>2, <2>1, FS_Subset
  <2>3. /\ Cardinality(Before(at, i) \cup {i}) = Cardinality(Before(at, i)) + 1
        /\ Cardinality(Before(at, i)) \in Nat /\ Cardinality(Before(at, j)) \in Nat
    BY <1>2
  <2>4. rank[i] = Cardinality(Before(at, i)) + 1 /\ rank[j] = Cardinality(Before(at, j)) + 1
    BY <1>a
  <2> QED
    BY <2>2, <2>3, <2>4
<1>5. \A i, j \in at : rank[i] = rank[j] => i = j
  <2> TAKE i, j \in at
  <2> HAVE rank[i] = rank[j]
  <2>1. i \in Nat /\ j \in Nat /\ rank[i] \in Nat /\ rank[j] \in Nat
    BY <1>3
  <2>2. ~(i < j) /\ ~(j < i)
    BY <1>4, <2>1
  <2> QED
    BY <2>1, <2>2
<1>6. rank \in Injection(at, 1..c)
  <2>1. rank \in [at -> 1..c]
    BY <1>b, <1>3
  <2> QED
    BY <1>5, <2>1, Fun_IsInj
<1>7. \A k \in 1..c : \E i \in at : rank[i] = k
  <2>1. IsFiniteSet(1..c) /\ Cardinality(1..c) = c
    BY <1>1, FS_Interval
  <2>2. rank \in Surjection(at, 1..c)
    BY <1>1, <1>6, <2>1, FS_Injection
  <2> HIDE DEF c
  <2> QED
    BY <2>2, Fun_SurjectionProperties
<1>8. picked = [k \in 1..c |-> s[CHOOSE i \in at : Cardinality(Before(at, i)) = k - 1]]
  BY DEF Picked, Before
<1> HIDE DEF c, picked
<1>9. \A i \in at : picked[rank[i]] = s[i]
  <2> TAKE i \in at
  <2> DEFINE there == CHOOSE j \in at : Cardinality(Before(at, j)) = rank[i] - 1
  <2>1. Cardinality(Before(at, i)) = rank[i] - 1
    BY <1>a, <1>n
  <2>2. there \in at /\ Cardinality(Before(at, there)) = rank[i] - 1
    BY <2>1
  <2>3. picked[rank[i]] = s[there]
    BY <1>3, <1>8
  <2> HIDE DEF there
  <2>4. rank[there] = rank[i]
    BY <1>a, <1>2, <2>1, <2>2
  <2>5. there = i
    BY <1>5, <2>2, <2>4
  <2> QED
    BY <2>3, <2>5
<1>10. DOMAIN picked = 1..c /\ \A k \in 1..c : \E i \in at : rank[i] = k /\ picked[k] = s[i]
  <2>1. DOMAIN picked = 1..c
    BY <1>8
  <2>2. ASSUME NEW k \in 1..c
        PROVE  \E i \in at : rank[i] = k /\ picked[k] = s[i]
    <3>1. PICK i \in at : rank[i] = k
      BY <1>7
    <3> QED
      BY <1>9, <3>1
  <2> QED
    BY <2>1, <2>2
<1>11. picked = [k \in 1..c |-> picked[k]]
  BY <1>8
<1>12. ASSUME NEW x
       PROVE  Occurrences(x, picked) = Cardinality({i \in at : s[i] = x})
  <2> DEFINE A == {i \in at : s[i] = x}
             B == {k \in DOMAIN picked : picked[k] = x}
             f == [i \in A |-> rank[i]]
  <2>1. IsFiniteSet(A)
    BY <1>1, FS_Subset
  <2>2. f \in [A -> B]
    BY <1>3, <1>9, <1>10
  <2>3. \A i, j \in A : f[i] = f[j] => i = j
    BY <1>5
  <2>4. \A k \in B : \E i \in A : f[i] = k
    <3> TAKE k \in B
    <3>1. PICK i \in at : rank[i] = k /\ picked[k] = s[i]
      BY <1>10
    <3> QED
      BY <3>1
  <2> HIDE DEF A, B, f
  <2>5. Cardinality(B) = Cardinality(A)
    <3>1. f \in Bijection(A, B)
      BY <2>2, <2>3, <2>4, Fun_IsBij
    <3> QED
      BY <2>1, <3>1, FS_Bijection, Fun_ExistsBij
  <2> QED
    BY <2>5 DEF Occurrences, A, B
<1> QED
  BY <1>1, <1>10, <1>11, <1>12 DEF c, picked, Those

LEMMA PickedSeq ==
  ASSUME NEW T, NEW n \in Nat, NEW s, NEW at \in SUBSET (1..n),
         \A i \in at : s[i] \in T
  PROVE  Picked(s, at) \in Seq(T)
<1>1. /\ Picked(s, at) = [k \in 1..Cardinality(at) |-> Picked(s, at)[k]]
      /\ Cardinality(at) \in Nat
      /\ \A k \in 1..Cardinality(at) : \E i \in at : Picked(s, at)[k] = s[i]
  BY PickedFacts
<1>2. \A k \in 1..Cardinality(at) : Picked(s, at)[k] \in T
  BY <1>1
<1>3. Picked(s, at) \in [1..Cardinality(at) -> T]
  BY <1>1, <1>2
<1> QED
  BY <1>1, <1>3

-----------------------------------------------------------------------------
(* Numbers. *)

Allowed(r) == r * (1 + Repeats)
RepeatAge(k) == k * Interval + 1

(* What the bounds are about: with every row K more datagrams are allowed,  *)
(* and the k-th repetition is Interval after the one before.                *)
LEMMA BoundFacts ==
  /\ Repeats \in Nat
  /\ \A r \in Nat : Allowed(r) \in Nat /\ Allowed(r + 1) = Allowed(r) + 1 + Repeats
  /\ \A r, q \in Nat : r <= q => Allowed(r) <= Allowed(q)
  /\ \A k \in Nat : RepeatAge(k) \in Nat /\ RepeatAge(k + 1) = RepeatAge(k) + Interval
  /\ RepeatAge(1) = Interval + 1
  /\ \A k \in Nat : RepeatAge(k) <= Timeout => k <= Repeats
<1>1. Interval \in Nat /\ Interval > 0 /\ Timeout \in Nat /\ Interval < Timeout
  BY ProcessorAssumption
<1>2. Repeats \in Nat
  BY <1>1 DEF Repeats
<1>3. \A r \in Nat : Allowed(r) \in Nat /\ Allowed(r + 1) = Allowed(r) + 1 + Repeats
  BY <1>2 DEF Allowed
<1>4. \A r, q \in Nat : r <= q => Allowed(r) <= Allowed(q)
  BY <1>2 DEF Allowed
<1>5. \A k \in Nat : RepeatAge(k) \in Nat /\ RepeatAge(k + 1) = RepeatAge(k) + Interval
  BY <1>1 DEF RepeatAge
<1>6. RepeatAge(1) = Interval + 1
  BY <1>1 DEF RepeatAge
<1>7. ASSUME NEW k \in Nat, RepeatAge(k) <= Timeout
      PROVE  k <= Repeats
  <2>1. k * Interval <= Timeout - 1
    BY <1>1, <1>7 DEF RepeatAge
  <2> QED
    BY <1>1, <2>1 DEF Repeats
<1> QED
  BY <1>2, <1>3, <1>4, <1>5, <1>6, <1>7

(* There are finitely many addresses. *)
LEMMA AddressesFinite == IsFiniteSet(Addresses) /\ \A t \in Targets : Addr[t] \in Addresses
<1> DEFINE f == [t \in Targets |-> Addr[t]]
<1>1. f \in [Targets -> Addresses] /\ \A a \in Addresses : \E t \in Targets : f[t] = a
  BY DEF Addresses
<1>2. f \in Surjection(Targets, Addresses)
  BY <1>1, Fun_IsSurj
<1> QED
  BY <1>2, FS_Surjection, ProberAssumption DEF Addresses

(* Messages for some addresses, in whatever order: one for each of them.    *)
LEMMA OnceEach ==
  ASSUME NEW A \in SUBSET Addresses, NEW target,
         \A a \in A : target[a] \in Targets /\ Addr[target[a]] = a,
         NEW m \in InAnyOrder(A, target)
  PROVE  /\ m \in Seq(Targets)
         /\ \A t \in Targets :
              Occurrences(t, m) = IF Addr[t] \in A /\ target[Addr[t]] = t THEN 1 ELSE 0
<1> DEFINE c == Cardinality(A)
<1>1. IsFiniteSet(A) /\ c \in Nat
  BY AddressesFinite, FS_Subset, FS_CardinalityType
<1>2. PICK order \in SetToSeqs(A) : m = [i \in DOMAIN order |-> target[order[i]]]
  BY DEF InAnyOrder
<1>3. order \in [1..c -> A] /\ \A i, j \in 1..c : order[i] = order[j] => i = j
  BY <1>2 DEF SetToSeqs
<1>4. \A a \in A : \E i \in 1..c : order[i] = a
  <2>1. order \in Injection(1..c, A)
    BY <1>3, Fun_IsInj
  <2>2. IsFiniteSet(1..c) /\ Cardinality(1..c) = c
    BY <1>1, FS_Interval
  <2>3. order \in Surjection(1..c, A)
    BY <1>1, <2>1, <2>2, FS_Injection
  <2> HIDE DEF c
  <2> QED
    BY <2>3 DEF Surjection
<1> HIDE DEF c
<1>5. DOMAIN m = 1..c /\ \A i \in 1..c : m[i] = target[order[i]]
  BY <1>2, <1>3
<1>6. m \in Seq(Targets)
  <2>1. m \in [1..c -> Targets]
    BY <1>2, <1>3
  <2> QED
    BY <1>1, <2>1
<1>7. ASSUME NEW t \in Targets
      PROVE  Occurrences(t, m) = IF Addr[t] \in A /\ target[Addr[t]] = t THEN 1 ELSE 0
  <2> DEFINE at == {i \in DOMAIN m : m[i] = t}
  <2>1. CASE Addr[t] \in A /\ target[Addr[t]] = t
    <3>1. PICK i \in 1..c : order[i] = Addr[t]
      BY <1>4, <2>1
    <3>2. \A j \in 1..c : m[j] = t => j = i
      BY <1>3, <1>5, <3>1
    <3>3. at = {i}
      BY <1>5, <2>1, <3>1, <3>2
    <3>4. Cardinality(at) = 1
      BY <3>3, FS_Singleton
    <3> QED
      BY <2>1, <3>4 DEF Occurrences
  <2>2. CASE ~(Addr[t] \in A /\ target[Addr[t]] = t)
    <3>1. \A j \in 1..c : m[j] # t
      BY <1>3, <1>5, <2>2
    <3>2. at = {}
      BY <1>5, <3>1
    <3>3. Cardinality(at) = 0
      BY <3>2, FS_EmptySet
    <3> QED
      BY <2>2, <3>3 DEF Occurrences
  <2> QED
    BY <2>1, <2>2
<1> QED
  BY <1>6, <1>7

Of(a) == {t \in Targets : Addr[t] = a}
Probes == {prog \in [Addresses -> Targets \cup {None}] :
             \A a \in Addresses : prog[a] # None => Addr[prog[a]] = a}
Queues == {q \in [Addresses -> Seq(Targets)] : \A a \in Addresses : q[a] \in Seq(Of(a))}
Is(x, t) == IF x = t THEN 1 ELSE 0

(* start_probes(): what it starts has waited and waits no more, and there   *)
(* is one message for each of the probes.                                   *)
LEMMA StartFacts ==
  ASSUME NEW prog \in Probes, NEW q \in Queues
  PROVE  LET next == Started(prog, q)
             starts == Startable(prog, q)
         IN  /\ next \in Probes /\ Dequeued(prog, q) \in Queues
             /\ starts \in SUBSET Addresses
             /\ \A a \in starts : prog[a] = None /\ next[a] # None
             /\ \A a \in Addresses \ starts : next[a] = prog[a] /\ Dequeued(prog, q)[a] = q[a]
             /\ \A t \in Targets :
                  LET a == Addr[t]
                  IN  Is(next[a], t) + Occurrences(t, Dequeued(prog, q)[a])
                        = Is(prog[a], t) + Occurrences(t, q[a])
             /\ \A m \in InAnyOrder(starts, next) :
                  /\ m \in Seq(Targets)
                  /\ \A t \in Targets :
                       Occurrences(t, m) = IF Addr[t] \in starts THEN Is(next[Addr[t]], t) ELSE 0
<1> DEFINE next == Started(prog, q)
           left == Dequeued(prog, q)
           starts == Startable(prog, q)
<1>1. starts \in SUBSET Addresses /\ \A a \in starts : prog[a] = None /\ q[a] # <<>>
  BY DEF Startable
<1>2. /\ \A a \in Addresses : next[a] = IF a \in starts THEN Head(q[a]) ELSE prog[a]
      /\ \A a \in Addresses : left[a] = IF a \in starts THEN Tail(q[a]) ELSE q[a]
      /\ DOMAIN next = Addresses /\ DOMAIN left = Addresses
      /\ next = [a \in Addresses |-> next[a]] /\ left = [a \in Addresses |-> left[a]]
  BY DEF Started, Dequeued
<1>3. \A a \in Addresses : /\ prog[a] \in Targets \cup {None}
                           /\ prog[a] # None => Addr[prog[a]] = a
                           /\ q[a] \in Seq(Of(a)) /\ q[a] \in Seq(Targets)
  BY DEF Probes, Queues
<1> HIDE DEF next, left, starts
<1>4. \A a \in starts : /\ next[a] \in Of(a) /\ left[a] \in Seq(Of(a))
                        /\ left[a] \in Seq(Targets)
                        /\ next[a] = Head(q[a]) /\ left[a] = Tail(q[a])
  <2> TAKE a \in starts
  <2>1. q[a] \in Seq(Of(a)) /\ q[a] \in Seq(Targets) /\ q[a] # <<>>
    BY <1>1, <1>3
  <2>2. next[a] = Head(q[a]) /\ left[a] = Tail(q[a])
    BY <1>1, <1>2
  <2> QED
    BY <2>1, <2>2
<1>5. next \in Probes
  <2>1. \A a \in Addresses : next[a] \in Targets \cup {None}
    BY <1>2, <1>3, <1>4 DEF Of
  <2>2. \A a \in Addresses : next[a] # None => Addr[next[a]] = a
    BY <1>2, <1>3, <1>4 DEF Of
  <2> QED
    BY <1>2, <2>1, <2>2 DEF Probes
<1>6. left \in Queues
  <2>1. \A a \in Addresses : left[a] \in Seq(Of(a)) /\ left[a] \in Seq(Targets)
    BY <1>2, <1>3, <1>4
  <2> QED
    BY <1>2, <2>1 DEF Queues
<1>7. \A a \in starts : prog[a] = None /\ next[a] # None
  BY <1>1, <1>4, ProcessorAssumption DEF Of
<1>8. \A a \in Addresses \ starts : next[a] = prog[a] /\ left[a] = q[a]
  BY <1>2
<1>9. ASSUME NEW t \in Targets
      PROVE  Is(next[Addr[t]], t) + Occurrences(t, left[Addr[t]])
               = Is(prog[Addr[t]], t) + Occurrences(t, q[Addr[t]])
  <2> DEFINE a == Addr[t]
  <2>1. a \in Addresses
    BY AddressesFinite
  <2>2. CASE a \in starts
    <3>1. q[a] \in Seq(Targets) /\ q[a] # <<>>
      BY <1>1, <1>3, <2>2
    <3>2. Occurrences(t, q[a]) = Is(Head(q[a]), t) + Occurrences(t, Tail(q[a]))
      BY <3>1, OccurrencesHeadTail DEF Is
    <3>3. Is(prog[a], t) = 0
      BY <1>1, <2>2, ProcessorAssumption DEF Is
    <3>4. Occurrences(t, q[a]) \in Nat
      BY <3>1, OccurrencesNat
    <3>5. next[a] = Head(q[a]) /\ left[a] = Tail(q[a])
      BY <1>4, <2>2
    <3> QED
      BY <3>2, <3>3, <3>4, <3>5
  <2>3. CASE a \notin starts
    BY <1>8, <2>1, <2>3
  <2> QED
    BY <2>2, <2>3
<1>10. ASSUME NEW m \in InAnyOrder(starts, next)
       PROVE  /\ m \in Seq(Targets)
              /\ \A t \in Targets :
                   Occurrences(t, m) = IF Addr[t] \in starts THEN Is(next[Addr[t]], t) ELSE 0
  <2>1. \A a \in starts : next[a] \in Targets /\ Addr[next[a]] = a
    BY <1>4 DEF Of
  <2>2. /\ m \in Seq(Targets)
        /\ \A t \in Targets :
             Occurrences(t, m) = IF Addr[t] \in starts /\ next[Addr[t]] = t THEN 1 ELSE 0
    BY <1>1, <2>1, OnceEach
  <2> QED
    BY <2>2 DEF Is
<1> QED
  BY <1>1, <1>5, <1>6, <1>7, <1>8, <1>9, <1>10 DEF next, left, starts

-----------------------------------------------------------------------------
(* Every target in one place, and not probed too often. *)

(* Datagrams for a target that were sent or will be. *)
Out(t) == sent[t] + Occurrences(t, requests) + Occurrences(t, toProber)

(* What EveryTargetOnce needs to be inductive.  A batch is asked for or on  *)
(* its way only while asked; a target waits in the queue of its address;    *)
(* and a probe in progress was repeated k times, the last time Interval     *)
(* after the time before.                                                   *)
OneBatch == toReader + Len(fromReader) <= (IF asked THEN 1 ELSE 0)

Conserved ==
  \A t \in Targets : Read(t) = Coming(t) + Waiting(t) + UnderWay(t) + Rows(t)

BoundedBy(t, k) ==
  /\ Out(t) <= Allowed(Rows(t)) + (IF UnderWay(t) = 1 THEN 1 + k ELSE 0)
  /\ UnderWay(t) = 1 /\ k > 0 =>
       age[Addr[t]] = Timeout + 1 \/ age[Addr[t]] >= RepeatAge(k) + sinceTick

Bounded == \A t \in Targets : \E k \in 0..Repeats : BoundedBy(t, k)

ScanInv == TypeOK /\ OneBatch /\ pending \in Queues /\ Conserved /\ Bounded

LEMMA TargetsOfFacts ==
  ASSUME NEW s \in Seq(RowType)
  PROVE  /\ TargetsOf(s) \in Seq(Targets)
         /\ \A r \in RowType : /\ Append(s, r) \in Seq(RowType)
                               /\ TargetsOf(Append(s, r)) = Append(TargetsOf(s), r.target)
         /\ \A m \in Seq(Targets) :
              LET lines == [i \in DOMAIN m |-> [target |-> m[i], how |-> "-"]]
              IN  s \o lines \in Seq(RowType) /\ TargetsOf(s \o lines) = TargetsOf(s) \o m
<1>1. Len(s) \in Nat /\ DOMAIN s = 1..Len(s) /\ \A i \in 1..Len(s) : s[i] \in RowType
  BY LenProperties, ElementOfSeq
<1>2. \A r \in RowType : r.target \in Targets
  BY DEF RowType
<1>3. TargetsOf(s) \in Seq(Targets) /\ Len(TargetsOf(s)) = Len(s)
  BY <1>1, <1>2 DEF TargetsOf
<1>4. ASSUME NEW r \in RowType
      PROVE  /\ Append(s, r) \in Seq(RowType)
             /\ TargetsOf(Append(s, r)) = Append(TargetsOf(s), r.target)
  <2> DEFINE x == TargetsOf(Append(s, r))
             y == Append(TargetsOf(s), r.target)
  <2>1. /\ Append(s, r) \in Seq(RowType) /\ DOMAIN Append(s, r) = 1..(Len(s) + 1)
        /\ \A i \in 1..Len(s) : Append(s, r)[i] = s[i]
        /\ Append(s, r)[Len(s) + 1] = r
    BY <1>1, AppendProperties
  <2>2. x = [i \in 1..(Len(s) + 1) |-> Append(s, r)[i].target]
    BY <2>1 DEF TargetsOf
  <2>3. y \in Seq(Targets) /\ Len(y) = Len(s) + 1
    BY <1>2, <1>3, AppendProperties
  <2>4. y = [i \in 1..(Len(s) + 1) |-> y[i]]
    BY <2>3, LenProperties
  <2>5. \A i \in 1..(Len(s) + 1) : y[i] = Append(s, r)[i].target
    <3> TAKE i \in 1..(Len(s) + 1)
    <3>1. CASE i \in 1..Len(s)
      <4>1. y[i] = TargetsOf(s)[i]
        BY <1>2, <1>3, <3>1, AppendProperties
      <4>2. TargetsOf(s)[i] = s[i].target
        BY <1>1, <3>1 DEF TargetsOf
      <4> QED
        BY <2>1, <3>1, <4>1, <4>2
    <3>2. CASE i = Len(s) + 1
      BY <1>2, <1>3, <2>1, <3>2, AppendProperties
    <3>3. i \in 1..Len(s) \/ i = Len(s) + 1
      <4>1. Len(s) \in Nat
        BY <1>1
      <4> QED
        BY <4>1
    <3> QED
      BY <3>1, <3>2, <3>3
  <2> HIDE DEF x, y
  <2>6. x = y
    BY <2>2, <2>4, <2>5
  <2> QED
    BY <2>1, <2>6 DEF x, y
<1>5. ASSUME NEW m \in Seq(Targets)
      PROVE  LET lines == [i \in DOMAIN m |-> [target |-> m[i], how |-> "-"]]
             IN  s \o lines \in Seq(RowType) /\ TargetsOf(s \o lines) = TargetsOf(s) \o m
  <2> DEFINE lines == [i \in DOMAIN m |-> [target |-> m[i], how |-> "-"]]
             n == Len(s) + Len(m)
             x == TargetsOf(s \o lines)
             y == TargetsOf(s) \o m
  <2>1. Len(m) \in Nat /\ DOMAIN m = 1..Len(m) /\ \A i \in 1..Len(m) : m[i] \in Targets
    BY LenProperties, ElementOfSeq
  <2>2. lines \in Seq(RowType) /\ Len(lines) = Len(m) /\ \A i \in 1..Len(m) : lines[i].target = m[i]
    BY <2>1 DEF RowType
  <2> HIDE DEF lines
  <2>3. /\ s \o lines \in Seq(RowType) /\ DOMAIN (s \o lines) = 1..n
        /\ \A i \in 1..n : (s \o lines)[i] = IF i <= Len(s) THEN s[i] ELSE lines[i - Len(s)]
    <3>1. /\ s \o lines \in Seq(RowType) /\ Len(s \o lines) = Len(s) + Len(lines)
          /\ \A i \in 1..(Len(s) + Len(lines)) :
               (s \o lines)[i] = IF i <= Len(s) THEN s[i] ELSE lines[i - Len(s)]
      BY <2>2, ConcatProperties
    <3>2. DOMAIN (s \o lines) = 1..Len(s \o lines)
      BY <3>1, LenProperties
    <3> QED
      BY <2>2, <3>1, <3>2
  <2>4. /\ y \in Seq(Targets) /\ Len(y) = n
        /\ \A i \in 1..n : y[i] = IF i <= Len(s) THEN TargetsOf(s)[i] ELSE m[i - Len(s)]
    <3>1. /\ y \in Seq(Targets) /\ Len(y) = Len(TargetsOf(s)) + Len(m)
          /\ \A i \in 1..(Len(TargetsOf(s)) + Len(m)) :
               y[i] = IF i <= Len(TargetsOf(s)) THEN TargetsOf(s)[i]
                      ELSE m[i - Len(TargetsOf(s))]
      BY <1>3, ConcatProperties
    <3> QED
      BY <1>3, <3>1
  <2>5. x = [i \in 1..n |-> (s \o lines)[i].target]
    BY <2>3 DEF TargetsOf
  <2>6. y = [i \in 1..n |-> y[i]]
    BY <2>4, LenProperties
  <2>7. \A i \in 1..n : y[i] = (s \o lines)[i].target
    <3> TAKE i \in 1..n
    <3>1. CASE i <= Len(s)
      <4>1. i \in 1..Len(s) /\ TargetsOf(s)[i] = s[i].target
        BY <1>1, <3>1 DEF TargetsOf
      <4> QED
        BY <2>3, <2>4, <3>1, <4>1
    <3>2. CASE ~(i <= Len(s))
      <4>1. i - Len(s) \in 1..Len(m)
        BY <1>1, <2>1, <3>2
      <4> QED
        BY <2>2, <2>3, <2>4, <3>2, <4>1
    <3> QED
      BY <3>1, <3>2
  <2> HIDE DEF x, y
  <2>8. x = y
    BY <2>5, <2>6, <2>7
  <2> QED
    BY <2>3, <2>8 DEF x, y, lines
<1> QED
  BY <1>3, <1>4, <1>5

LEMMA CountsNat ==
  ASSUME TypeOK, NEW t \in Targets
  PROVE  /\ Waiting(t) \in Nat /\ Rows(t) \in Nat /\ UnderWay(t) \in 0..1
         /\ UnderWay(t) = Is(probing[Addr[t]], t)
         /\ Coming(t) \in Nat /\ Out(t) \in Nat /\ sent[t] \in Nat
         /\ Occurrences(t, requests) \in Nat /\ Occurrences(t, toProber) \in Nat
<1>1. Waiting(t) \in Nat
  <2>1. pending[Addr[t]] \in Seq(Targets)
    BY AddressesFinite DEF TypeOK
  <2> QED
    BY <2>1, OccurrencesNat DEF Waiting
<1>2. Rows(t) \in Nat
  <2>1. TargetsOf(reported) \in Seq(Targets)
    BY TargetsOfFacts DEF TypeOK
  <2> QED
    BY <2>1, OccurrencesNat DEF Rows
<1>3. Coming(t) \in Nat
  <2>1. CASE fromReader # <<>>
    <3>1. Head(fromReader) \in Seq(Targets)
      BY <2>1, HeadTailProperties DEF TypeOK
    <3> QED
      BY <2>1, <3>1, OccurrencesNat DEF Coming
  <2> QED
    BY <2>1 DEF Coming
<1>4. Occurrences(t, requests) \in Nat
  BY OccurrencesNat DEF TypeOK
<1>5. Occurrences(t, toProber) \in Nat
  BY OccurrencesNat DEF TypeOK
<1>6. sent[t] \in Nat
  BY DEF TypeOK
<1> QED
  BY <1>1, <1>2, <1>3, <1>4, <1>5, <1>6 DEF UnderWay, Is, Out

LEMMA ProbingFacts == TypeOK => probing \in Probes
  BY DEF TypeOK, Probes, Busy

LEMMA ScanImplies == ScanInv => EveryTargetOnce
<1> SUFFICES ASSUME ScanInv, NEW t \in Targets
             PROVE  /\ Read(t) = Coming(t) + Waiting(t) + UnderWay(t) + Rows(t)
                    /\ sent[t] <= Read(t) * (1 + Repeats)
  BY DEF EveryTargetOnce
<1>1. Read(t) = Coming(t) + Waiting(t) + UnderWay(t) + Rows(t)
  BY DEF ScanInv, Conserved
<1>2. /\ Waiting(t) \in Nat /\ Rows(t) \in Nat /\ UnderWay(t) \in 0..1
      /\ Coming(t) \in Nat /\ Out(t) \in Nat /\ sent[t] \in Nat
      /\ Occurrences(t, requests) \in Nat /\ Occurrences(t, toProber) \in Nat
  BY CountsNat DEF ScanInv
<1>3. PICK k \in 0..Repeats : BoundedBy(t, k)
  BY DEF ScanInv, Bounded
<1>4. /\ Repeats \in Nat /\ Allowed(Rows(t)) \in Nat
      /\ Allowed(Rows(t) + 1) = Allowed(Rows(t)) + 1 + Repeats
  BY <1>2, BoundFacts
<1>5. sent[t] <= Out(t)
  BY <1>2 DEF Out
<1>6. Out(t) <= Allowed(Rows(t) + UnderWay(t))
  BY <1>2, <1>3, <1>4 DEF BoundedBy
<1>7. Rows(t) + UnderWay(t) \in Nat /\ Read(t) \in Nat /\ Rows(t) + UnderWay(t) <= Read(t)
  BY <1>1, <1>2
<1>8. Allowed(Rows(t) + UnderWay(t)) <= Allowed(Read(t)) /\ Allowed(Read(t)) \in Nat
      /\ Allowed(Rows(t) + UnderWay(t)) \in Nat
  BY <1>7, BoundFacts
<1>9. sent[t] <= Allowed(Read(t))
  BY <1>2, <1>5, <1>6, <1>8
<1> QED
  BY <1>1, <1>9 DEF Allowed

(* When e probes of t end and s start, 0 or 1 of each, the bound is kept.   *)
LEMMA EndOrStart ==
  ASSUME ScanInv, TypeOK', NEW t \in Targets, NEW e \in 0..1, NEW s \in 0..1,
         e <= UnderWay(t),
         Rows(t)' = Rows(t) + e,
         UnderWay(t)' = (UnderWay(t) - e) + s,
         Out(t)' = Out(t) + s,
         s = 0 => age'[Addr[t]] = age[Addr[t]] \/ UnderWay(t)' = 0,
         sinceTick' = sinceTick \/ sinceTick' = 0
  PROVE  \E k \in 0..Repeats : BoundedBy(t, k)'
<1>1. PICK k \in 0..Repeats : BoundedBy(t, k)
  BY DEF ScanInv, Bounded
<1>2. /\ Rows(t) \in Nat /\ UnderWay(t) \in 0..1 /\ Out(t) \in Nat
  BY CountsNat DEF ScanInv
<1>3. UnderWay(t)' \in 0..1
  <2>1. UnderWay(t)' = IF probing'[Addr[t]] = t THEN 1 ELSE 0
    BY DEF UnderWay
  <2> QED
    BY <2>1
<1>4. /\ Repeats \in Nat /\ Allowed(Rows(t)) \in Nat
      /\ Allowed(Rows(t) + 1) = Allowed(Rows(t)) + 1 + Repeats
  BY <1>2, BoundFacts
<1>5. /\ age[Addr[t]] \in Nat /\ age'[Addr[t]] \in Nat
      /\ sinceTick \in Nat /\ Interval \in Nat /\ Timeout \in Nat
      /\ RepeatAge(k) \in Nat
  <2>1. Interval \in Nat /\ Timeout \in Nat
    BY ProcessorAssumption
  <2>2. Addr[t] \in Addresses
    BY AddressesFinite
  <2>3. age \in [Addresses -> 0..Timeout + 1] /\ sinceTick \in 0..Interval
    BY DEF ScanInv, TypeOK
  <2>4. age' \in [Addresses -> 0..Timeout + 1]
    BY DEF TypeOK
  <2>5. RepeatAge(k) \in Nat
    <3>1. k \in Nat
      BY <1>4
    <3> QED
      BY <3>1, BoundFacts
  <2> QED
    BY <2>1, <2>2, <2>3, <2>4, <2>5
<1>6. CASE s = 0 /\ UnderWay(t)' = 1
  <2>1. e = 0 /\ UnderWay(t) = 1
    BY <1>2, <1>6
  <2>2. Out(t)' = Out(t) /\ Rows(t)' = Rows(t) /\ age'[Addr[t]] = age[Addr[t]]
    BY <1>2, <1>6, <2>1
  <2>3. Out(t)' <= Allowed(Rows(t)') + (IF UnderWay(t)' = 1 THEN 1 + k ELSE 0)
    BY <1>1, <1>6, <2>1, <2>2 DEF BoundedBy
  <2>4. k > 0 => age'[Addr[t]] = Timeout + 1 \/ age'[Addr[t]] >= RepeatAge(k) + sinceTick'
    BY <1>1, <1>5, <2>1, <2>2 DEF BoundedBy
  <2>5. BoundedBy(t, k)'
    BY <2>3, <2>4 DEF BoundedBy, Allowed, RepeatAge, Repeats
  <2> QED
    BY <2>5
<1>7. CASE ~(s = 0 /\ UnderWay(t)' = 1)
  <2>1. Out(t)' <= Allowed(Rows(t)') + (IF UnderWay(t)' = 1 THEN 1 + 0 ELSE 0)
    BY <1>1, <1>2, <1>3, <1>4, <1>7 DEF BoundedBy
  <2>2. BoundedBy(t, 0)'
    BY <2>1 DEF BoundedBy, Allowed, Repeats
  <2>3. 0 \in 0..Repeats
    BY <1>4
  <2> QED
    BY <2>2, <2>3
<1> QED
  BY <1>6, <1>7

(* A tick that repeats a probe comes Interval after the one before it.      *)
LEMMA RepeatOnce ==
  ASSUME ScanInv, TypeOK', NEW t \in Targets,
         UnderWay(t) = 1, UnderWay(t)' = 1, Rows(t)' = Rows(t),
         Out(t)' = Out(t) + 1,
         sinceTick = Interval, sinceTick' = 0,
         Interval < age[Addr[t]], age[Addr[t]] <= Timeout,
         age'[Addr[t]] = age[Addr[t]]
  PROVE  \E k \in 0..Repeats : BoundedBy(t, k)'
<1>1. PICK k \in 0..Repeats : BoundedBy(t, k)
  BY DEF ScanInv, Bounded
<1>2. Repeats \in Nat /\ k \in Nat
  BY BoundFacts
<1>3. /\ RepeatAge(k) \in Nat /\ RepeatAge(k + 1) = RepeatAge(k) + Interval
      /\ RepeatAge(1) = Interval + 1
  BY <1>2, BoundFacts
<1>4. age[Addr[t]] \in Nat /\ Interval \in Nat /\ Timeout \in Nat
  <2>1. Addr[t] \in Addresses
    BY AddressesFinite
  <2>2. age \in [Addresses -> 0..Timeout + 1]
    BY DEF ScanInv, TypeOK
  <2> QED
    BY <2>1, <2>2, ProcessorAssumption
<1>5. RepeatAge(k + 1) <= age[Addr[t]]
  <2>1. CASE k = 0
    BY <1>3, <1>4, <2>1
  <2>2. CASE k > 0
    BY <1>1, <1>3, <1>4, <2>2 DEF BoundedBy
  <2> QED
    BY <1>2, <2>1, <2>2
<1>6. k + 1 <= Repeats
  <2>1. RepeatAge(k + 1) <= Timeout
    BY <1>3, <1>4, <1>5
  <2>2. k + 1 \in Nat
    BY <1>2
  <2> QED
    BY <2>1, <2>2, BoundFacts
<1>7. Out(t)' <= Allowed(Rows(t)') + (IF UnderWay(t)' = 1 THEN 1 + (k + 1) ELSE 0)
  <2>1. Out(t) \in Nat /\ Rows(t) \in Nat
    BY CountsNat DEF ScanInv
  <2>2. Allowed(Rows(t)) \in Nat
    BY <2>1, BoundFacts
  <2>3. Out(t) <= Allowed(Rows(t)) + (1 + k)
    BY <1>1 DEF BoundedBy
  <2> QED
    BY <1>2, <2>1, <2>2, <2>3
<1>8. age'[Addr[t]] >= RepeatAge(k + 1) + sinceTick'
  BY <1>3, <1>4, <1>5
<1>9. BoundedBy(t, k + 1)'
  BY <1>7, <1>8 DEF BoundedBy, Allowed, RepeatAge, Repeats
<1> QED
  BY <1>2, <1>6, <1>9

(* The clock. *)
LEMMA PassKeepsScan ==
  ASSUME ScanInv, Pass
  PROVE  ScanInv'
<1> USE DEF ScanInv
<1>1. TypeOK /\ pending \in Queues
  OBVIOUS
<1>2. /\ age' = [a \in Addresses |-> IF a \in Busy(probing) /\ age[a] <= Timeout
                                     THEN age[a] + 1 ELSE age[a]]
      /\ sinceTick' = IF sinceTick < Interval THEN sinceTick + 1 ELSE sinceTick
      /\ UNCHANGED <<mainPc, file, position, toReader, fromReader, procPc, asked,
                     pending, probing, reported, toProber, proberPc, requests,
                     writing, pipe, loopPc, ready, armed, done, sent, air>>
  BY DEF Pass, readerVars, proberVars, actorVars, loopVars
<1>3. Interval \in Nat /\ Timeout \in Nat
  BY ProcessorAssumption
<1>4. age \in [Addresses -> 0..Timeout + 1] /\ sinceTick \in 0..Interval
  BY DEF TypeOK
<1>5. age' \in [Addresses -> 0..Timeout + 1]
  BY <1>2, <1>3, <1>4
<1>6. sinceTick' \in 0..Interval
  BY <1>2, <1>3, <1>4
<1>7. TypeOK'
  BY <1>2, <1>5, <1>6 DEF TypeOK, Busy
<1>8. OneBatch' /\ pending' \in Queues
  BY <1>2 DEF OneBatch
<1>9. \A t \in Targets : /\ Read(t)' = Read(t) /\ Coming(t)' = Coming(t)
                         /\ Waiting(t)' = Waiting(t) /\ UnderWay(t)' = UnderWay(t)
                         /\ Rows(t)' = Rows(t) /\ Out(t)' = Out(t)
  BY <1>2 DEF Read, Coming, Waiting, UnderWay, Rows, Out
<1>10. Conserved'
  BY <1>9 DEF Conserved
<1>11. ASSUME NEW t \in Targets
       PROVE  \E k \in 0..Repeats : BoundedBy(t, k)'
  <2>1. PICK k \in 0..Repeats : BoundedBy(t, k)
    BY DEF Bounded
  <2>2. RepeatAge(k) \in Nat
    <3>1. k \in Nat
      BY BoundFacts
    <3> QED
      BY <3>1, BoundFacts
  <2>3. UnderWay(t) = 1 => Addr[t] \in Busy(probing)
    BY AddressesFinite, ProcessorAssumption DEF UnderWay, Busy
  <2>4. Addr[t] \in Addresses
    BY AddressesFinite
  <2>5. Addr[t] \in Busy(probing) =>
          age'[Addr[t]] = IF age[Addr[t]] <= Timeout THEN age[Addr[t]] + 1 ELSE age[Addr[t]]
    BY <1>2, <2>4
  <2>6. /\ age[Addr[t]] \in 0..Timeout + 1 /\ sinceTick \in Nat
        /\ sinceTick' <= sinceTick + 1 /\ sinceTick' \in Nat
    BY <1>2, <1>3, <1>4, <2>4
  <2>7. UnderWay(t)' = 1 /\ k > 0 =>
          age'[Addr[t]] = Timeout + 1 \/ age'[Addr[t]] >= RepeatAge(k) + sinceTick'
    BY <1>3, <1>9, <2>1, <2>2, <2>3, <2>5, <2>6 DEF BoundedBy
  <2>8. Out(t)' <= Allowed(Rows(t)') + (IF UnderWay(t)' = 1 THEN 1 + k ELSE 0)
    BY <1>9, <2>1 DEF BoundedBy
  <2> QED
    BY <2>7, <2>8 DEF BoundedBy, Allowed, RepeatAge, Repeats
<1>12. Bounded'
  BY <1>11 DEF Bounded, Repeats
<1> QED
  BY <1>7, <1>8, <1>10, <1>12

(* Steps that leave the processor's books alone. *)
LEMMA BooksKeep ==
  ASSUME ScanInv, TypeOK', OneBatch',
         UNCHANGED <<file, position, fromReader, pending, probing, age, sinceTick, reported>>,
         \A t \in Targets : Out(t)' = Out(t)
  PROVE  ScanInv'
<1> USE DEF ScanInv
<1>1. \A t \in Targets : /\ Read(t)' = Read(t) /\ Coming(t)' = Coming(t)
                         /\ Waiting(t)' = Waiting(t) /\ UnderWay(t)' = UnderWay(t)
                         /\ Rows(t)' = Rows(t)
  BY DEF Read, Coming, Waiting, UnderWay, Rows
<1>2. Conserved'
  BY <1>1 DEF Conserved
<1>3. ASSUME NEW t \in Targets
      PROVE  \E k \in 0..Repeats : BoundedBy(t, k)'
  <2>1. PICK k \in 0..Repeats : BoundedBy(t, k)
    BY DEF Bounded
  <2>2. BoundedBy(t, k)'
    BY <1>1, <2>1 DEF BoundedBy, Allowed, RepeatAge, Repeats
  <2> QED
    BY <2>2
<1>4. Bounded'
  BY <1>3 DEF Bounded, Repeats
<1> QED
  BY <1>2, <1>4

(* request_more(): no more than one batch is asked for.                     *)
LEMMA AskFacts ==
  ASSUME TypeOK, NEW was \in BOOLEAN, NEW prog, RequestMore(was, prog),
         NEW n \in Nat, toReader + n <= (IF was THEN 1 ELSE 0)
  PROVE  /\ toReader' \in 0..1 /\ asked' \in BOOLEAN
         /\ toReader' + n <= (IF asked' THEN 1 ELSE 0)
<1>1. toReader \in 0..1
  BY DEF TypeOK
<1> DEFINE ask == ~was /\ Cardinality(Busy(prog)) < Threshold
<1>2. toReader' = (IF ask THEN toReader + 1 ELSE toReader) /\ asked' = (was \/ ask)
  BY DEF RequestMore, Ask
<1>3. CASE ask
  <2>1. was = FALSE /\ toReader' = toReader + 1 /\ asked' = TRUE
    BY <1>2, <1>3
  <2>2. toReader = 0 /\ n = 0
    BY <1>1, <2>1
  <2> QED
    BY <2>1, <2>2
<1>4. CASE ~ask
  <2>1. toReader' = toReader /\ asked' = was
    BY <1>2, <1>4
  <2> QED
    BY <1>1, <2>1
<1> QED
  BY <1>3, <1>4

(* The prober: requests move from the mailbox to the queue and the network. *)
LEMMA ProberKeepsScan ==
  ASSUME ScanInv, ProberStep
  PROVE  ScanInv'
<1> USE DEF ScanInv
<1>1. /\ TypeOK /\ pending \in Queues
      /\ UNCHANGED <<mainPc, file, position, toReader, fromReader, procPc, asked,
                     pending, probing, age, sinceTick, reported>>
      /\ ProberActor \/ ProberLoop
  BY DEF ProberStep, readerVars, processorVars
<1>2. OneBatch'
  BY <1>1 DEF OneBatch
<1>3. /\ PipeCap \in Nat /\ ReadChunk \in Nat /\ pipe \in 0..PipeCap /\ Poked \in 0..PipeCap
      /\ toProber \in Seq(Targets \cup {"done"}) /\ requests \in Seq(Targets)
      /\ sent \in [Targets -> Nat] /\ air \in [Targets -> Nat]
  BY ProberAssumption DEF TypeOK, Poked
<1>4. \A t \in Targets : /\ sent[t] \in Nat /\ Occurrences(t, requests) \in Nat
                         /\ Occurrences(t, toProber) \in Nat
  BY CountsNat
<1>5. ASSUME NEW x \in Targets, AddRequest(x)
      PROVE  TypeOK' /\ \A t \in Targets : Out(t)' = Out(t)
  <2>1. /\ toProber # <<>> /\ Head(toProber) = x /\ toProber' = Tail(toProber)
        /\ requests' = Append(requests, x)
        /\ pipe' \in 0..PipeCap
        /\ UNCHANGED <<proberPc, writing, loopPc, ready, armed, done, sent, air>>
    BY <1>3, <1>5 DEF AddRequest, Receive, loopVars
  <2>2. toProber' \in Seq(Targets \cup {"done"}) /\ requests' \in Seq(Targets)
    BY <1>3, <2>1
  <2>3. TypeOK'
    BY <1>1, <2>1, <2>2 DEF TypeOK, Busy
  <2>4. ASSUME NEW t \in Targets PROVE Out(t)' = Out(t)
    <3>1. Occurrences(t, toProber) = (IF x = t THEN 1 ELSE 0) + Occurrences(t, toProber')
      BY <1>3, <2>1, OccurrencesHeadTail
    <3>2. Occurrences(t, requests') = Occurrences(t, requests) + (IF x = t THEN 1 ELSE 0)
      BY <1>3, <2>1, OccurrencesAppend
    <3>3. Occurrences(t, toProber') \in Nat /\ sent' = sent
      BY <2>1, <2>2, OccurrencesNat
    <3> HIDE DEF ScanInv
    <3>4. Out(t) = sent[t] + Occurrences(t, requests) + Occurrences(t, toProber)
      BY DEF Out
    <3>5. Out(t)' = sent'[t] + Occurrences(t, requests') + Occurrences(t, toProber')
      BY DEF Out, Occurrences
    <3> QED
      BY <1>4, <3>1, <3>2, <3>3, <3>4, <3>5
  <2> QED
    BY <2>3, <2>4
<1>6. ASSUME ShutDown
      PROVE  TypeOK' /\ \A t \in Targets : Out(t)' = Out(t)
  <2>1. /\ toProber # <<>> /\ Head(toProber) = "done" /\ toProber' = Tail(toProber)
        /\ pipe' \in 0..PipeCap /\ proberPc' = "joining" /\ done' = TRUE
        /\ UNCHANGED <<requests, writing, loopPc, ready, armed, sent, air>>
    BY <1>3, <1>6 DEF ShutDown, Receive, loopVars
  <2>2. toProber' \in Seq(Targets \cup {"done"})
    BY <1>3, <2>1
  <2>3. TypeOK'
    BY <1>1, <2>1, <2>2 DEF TypeOK, Busy
  <2>4. ASSUME NEW t \in Targets PROVE Out(t)' = Out(t)
    <3>1. Occurrences(t, toProber)
            = (IF "done" = t THEN 1 ELSE 0) + Occurrences(t, toProber')
      BY <1>3, <2>1, OccurrencesHeadTail
    <3>2. t # "done" /\ Occurrences(t, toProber') \in Nat
      BY <2>2, OccurrencesNat, ProberAssumption
    <3>3. Occurrences(t, toProber') = Occurrences(t, toProber)
      BY <3>1, <3>2
    <3> QED
      BY <2>1, <3>3 DEF Out, Occurrences
  <2> QED
    BY <2>3, <2>4
<1>7. ASSUME Join \/ LoopStart \/ PollReturn \/ LoopCheck \/ NotifyRead \/ NotifyEnable
      PROVE  TypeOK' /\ \A t \in Targets : Out(t)' = Out(t)
  <2>1. /\ UNCHANGED <<toProber, requests, sent, air>>
        /\ proberPc' \in {"open", "joining", "quit"} /\ writing' \in BOOLEAN
        /\ pipe' \in 0..PipeCap
        /\ loopPc' \in {"start", "poll", "dispatch", "enable", "exited"}
        /\ ready' \subseteq {"notify", "write"} /\ armed' \in BOOLEAN /\ done' \in BOOLEAN
    <3> USE DEF TypeOK
    <3>1. CASE Join
      BY <3>1 DEF Join, loopVars
    <3>2. CASE LoopStart
      BY <3>2 DEF LoopStart
    <3>3. CASE PollReturn
      BY <3>3 DEF PollReturn
    <3>4. CASE LoopCheck
      BY <3>4 DEF LoopCheck
    <3>5. CASE NotifyRead
      BY <3>5, <1>3 DEF NotifyRead
    <3>6. CASE NotifyEnable
      BY <3>6 DEF NotifyEnable, EnableWrite
    <3> QED
      BY <1>7, <3>1, <3>2, <3>3, <3>4, <3>5, <3>6
  <2>2. TypeOK'
    BY <1>1, <2>1 DEF TypeOK, Busy
  <2> QED
    BY <2>1, <2>2 DEF Out
<1>8. ASSUME ProbeWrite
      PROVE  TypeOK' /\ \A t \in Targets : Out(t)' = Out(t)
  <2>1. /\ UNCHANGED <<toProber, proberPc, pipe, loopPc, done>>
        /\ ready' = {} /\ armed' \in BOOLEAN /\ writing' \in BOOLEAN
        /\ requests' = Rest
    BY <1>8 DEF ProbeWrite, WriteOne, TypeOK
  <2>2. CASE requests = <<>>
    <3>1. UNCHANGED <<requests, sent, air>>
      BY <1>8, <2>1, <2>2 DEF ProbeWrite, WriteOne, Rest
    <3>2. TypeOK'
      BY <1>1, <2>1, <3>1 DEF TypeOK, Busy
    <3> QED
      BY <2>1, <3>1, <3>2 DEF Out
  <2>3. CASE requests # <<>>
    <3> DEFINE x == Head(requests)
    <3>1. /\ requests' = Tail(requests)
          /\ sent' = [sent EXCEPT ![x] = @ + 1] /\ air' = [air EXCEPT ![x] = @ + 1]
      BY <1>8, <2>1, <2>3 DEF ProbeWrite, WriteOne, Rest
    <3>2. x \in Targets /\ requests' \in Seq(Targets)
      BY <1>3, <2>3, <3>1
    <3>3. sent' \in [Targets -> Nat] /\ air' \in [Targets -> Nat]
      BY <1>3, <3>1, <3>2
    <3>4. TypeOK'
      BY <1>1, <2>1, <3>2, <3>3 DEF TypeOK, Busy
    <3>5. ASSUME NEW t \in Targets PROVE Out(t)' = Out(t)
      <4>1. Occurrences(t, requests) = (IF x = t THEN 1 ELSE 0) + Occurrences(t, requests')
        BY <1>3, <2>3, <3>1, OccurrencesHeadTail
      <4>2. sent'[t] = sent[t] + (IF x = t THEN 1 ELSE 0)
        BY <1>3, <3>1, <3>2
      <4>3. Occurrences(t, requests') \in Nat
        BY <3>2, OccurrencesNat
      <4> HIDE DEF ScanInv, x
      <4>4. Out(t) = sent[t] + Occurrences(t, requests) + Occurrences(t, toProber)
        BY DEF Out
      <4>5. Out(t)' = sent'[t] + Occurrences(t, requests') + Occurrences(t, toProber)
        BY <2>1 DEF Out, Occurrences
      <4> QED
        BY <1>4, <4>1, <4>2, <4>3, <4>4, <4>5
    <3> QED
      BY <3>4, <3>5
  <2> QED
    BY <2>2, <2>3
<1>9. TypeOK' /\ \A t \in Targets : Out(t)' = Out(t)
  BY <1>1, <1>5, <1>6, <1>7, <1>8 DEF ProberActor, ProberLoop
<1> HIDE DEF ScanInv
<1> QED
  BY <1>1, <1>2, <1>9, BooksKeep

LEMMA OtherKeepsScan ==
  ASSUME ScanInv, HandleOther, mainPc' \in {"starting", "scanning", "failed"}
  PROVE  ScanInv'
<1> USE DEF ScanInv
<1>1. /\ TypeOK /\ pending \in Queues /\ OneBatch /\ RequestMore(asked, probing)
      /\ UNCHANGED <<file, position, fromReader, procPc, pending, probing, age,
                     sinceTick, reported, toProber, proberPc, requests, writing, pipe,
                     loopPc, ready, armed, done, sent, air>>
  BY DEF HandleOther, readerVars, proberVars, actorVars, loopVars
<1>2. asked \in BOOLEAN /\ Len(fromReader) \in Nat
  BY DEF TypeOK
<1>3. toReader + Len(fromReader) <= (IF asked THEN 1 ELSE 0)
  BY DEF OneBatch
<1>4. /\ toReader' \in 0..1 /\ asked' \in BOOLEAN
      /\ toReader' + Len(fromReader) <= (IF asked' THEN 1 ELSE 0)
  BY <1>1, <1>2, <1>3, AskFacts
<1>5. TypeOK'
  BY <1>1, <1>4 DEF TypeOK, Busy
<1>6. OneBatch'
  BY <1>1, <1>4 DEF OneBatch
<1>7. \A t \in Targets : Out(t)' = Out(t)
  BY <1>1 DEF Out
<1> HIDE DEF ScanInv
<1> QED
  BY <1>1, <1>5, <1>6, <1>7, BooksKeep

LEMMA FailsKeepsScan ==
  ASSUME ScanInv, CaptureFails
  PROVE  ScanInv'
<1> USE DEF ScanInv
<1>1. /\ TypeOK /\ pending \in Queues /\ OneBatch
      /\ mainPc' = "failed" /\ toProber' = Append(toProber, "done")
      /\ UNCHANGED <<file, position, toReader, fromReader, procPc, asked, pending, probing,
                     age, sinceTick, reported, proberPc, requests, writing, pipe,
                     loopPc, ready, armed, done, sent, air>>
  BY DEF CaptureFails, readerVars, processorVars, loopVars
<1>2. toProber \in Seq(Targets \cup {"done"})
  BY DEF TypeOK
<1>3. toProber' \in Seq(Targets \cup {"done"})
  BY <1>1, <1>2
<1>4. TypeOK' /\ OneBatch'
  BY <1>1, <1>3 DEF TypeOK, Busy, OneBatch
<1>5. ASSUME NEW t \in Targets PROVE Out(t)' = Out(t)
  <2>1. Occurrences(t, toProber') = Occurrences(t, toProber) + (IF "done" = t THEN 1 ELSE 0)
    BY <1>1, <1>2, OccurrencesAppend
  <2>2. "done" # t /\ Occurrences(t, toProber) \in Nat
    BY <1>2, OccurrencesNat, ProberAssumption
  <2>3. Occurrences(t, toProber') = Occurrences(t, toProber)
    BY <2>1, <2>2
  <2> QED
    BY <1>1, <2>3 DEF Out, Occurrences
<1> HIDE DEF ScanInv
<1> QED
  BY <1>1, <1>4, <1>5, BooksKeep

LEMMA DoneOrLossKeepsScan ==
  ASSUME ScanInv, ProcessorDone \/ \E t \in Targets : Lose(t)
  PROVE  ScanInv'
<1> USE DEF ScanInv
<1>1. /\ TypeOK /\ pending \in Queues /\ OneBatch
      /\ procPc' \in {"up", "quit"} /\ air' \in [Targets -> Nat]
      /\ UNCHANGED <<mainPc, file, position, toReader, fromReader, asked, pending, probing,
                     age, sinceTick, reported, toProber, proberPc, requests, writing,
                     pipe, loopPc, ready, armed, done, sent>>
  <2>1. CASE ProcessorDone
    BY <2>1 DEF ProcessorDone, HandleDone, readerVars, proberVars, actorVars, loopVars, TypeOK
  <2>2. ASSUME NEW t \in Targets, Lose(t)
        PROVE  /\ procPc' \in {"up", "quit"} /\ air' \in [Targets -> Nat]
               /\ UNCHANGED <<mainPc, file, position, toReader, fromReader, asked, pending,
                     probing, age, sinceTick, reported, toProber, proberPc, requests,
                     writing, pipe, loopPc, ready, armed, done, sent>>
    <3>1. air \in [Targets -> Nat]
      BY DEF TypeOK
    <3>2. air' \in [Targets -> Nat]
      BY <2>2, <3>1 DEF Lose
    <3> QED
      BY <2>2, <3>2 DEF Lose, readerVars, processorVars, loopVars, TypeOK
  <2> QED
    BY <2>1, <2>2
<1>2. TypeOK' /\ OneBatch'
  BY <1>1 DEF TypeOK, Busy, OneBatch
<1>3. \A t \in Targets : Out(t)' = Out(t)
  BY <1>1 DEF Out
<1> HIDE DEF ScanInv
<1> QED
  BY <1>1, <1>2, <1>3, BooksKeep

(* The reader: the lines of a batch are the ones that it has read.          *)
LEMMA ReaderKeepsScan ==
  ASSUME ScanInv, ReaderStep
  PROVE  ScanInv'
<1> USE DEF ScanInv
<1> DEFINE at(end) == {i \in WellFormed : position < i /\ i <= end}
<1>1. PICK end \in position..Len(file) :
         position' = end /\ fromReader' = Append(fromReader, Picked(file, at(end)))
  BY DEF ReaderStep, ReadBatch, ReadLines
<1>2. /\ TypeOK /\ pending \in Queues /\ OneBatch
      /\ toReader > 0 /\ toReader' = toReader - 1
      /\ UNCHANGED <<mainPc, file, procPc, asked, pending, probing, age, sinceTick,
                     reported, toProber, proberPc, requests, writing,
                     pipe, loopPc, ready, armed, done, sent, air>>
  BY DEF ReaderStep, ReadBatch, ReadLines, proberVars, actorVars, loopVars
<1>3. /\ file \in Seq(Targets \cup {"malformed"}) /\ position \in 0..Len(file)
      /\ Len(file) \in Nat /\ DOMAIN file = 1..Len(file)
      /\ fromReader \in Seq(Seq(Targets)) /\ toReader \in 0..1
  BY DEF TypeOK
<1>4. Len(fromReader) \in Nat
  BY <1>3
<1>5. toReader = 1 /\ Len(fromReader) = 0 /\ asked
  BY <1>2, <1>3, <1>4 DEF OneBatch
<1>6. fromReader = <<>>
  BY <1>3, <1>5
<1>7. end \in 0..Len(file)
  BY <1>3
<1>8. at(end) \in SUBSET (1..Len(file)) /\ \A i \in at(end) : file[i] \in Targets
  BY <1>3 DEF WellFormed
<1> DEFINE batch == Picked(file, at(end))
<1> HIDE DEF at
<1>9. /\ batch \in Seq(Targets)
      /\ \A x : Occurrences(x, batch) = Cardinality(Those(file, at(end), x))
  <2> HIDE DEF ScanInv
  <2>1. Len(file) \in Nat
    BY <1>3
  <2> DEFINE these == at(end)
  <2>2. these \in SUBSET (1..Len(file)) /\ \A i \in these : file[i] \in Targets
    BY <1>8
  <2> HIDE DEF these
  <2>3. Picked(file, these) \in Seq(Targets)
    BY <2>1, <2>2, PickedSeq
  <2>4. \A x : Occurrences(x, Picked(file, these)) = Cardinality(Those(file, these, x))
    BY <2>1, <2>2, PickedFacts
  <2> QED
    BY <2>3, <2>4 DEF these
<1> HIDE DEF batch
<1>10. fromReader' = <<batch>> /\ fromReader' # <<>> /\ Head(fromReader') = batch
       /\ fromReader' \in Seq(Seq(Targets)) /\ Len(fromReader') = 1
  BY <1>1, <1>6, <1>9 DEF batch
<1>11. TypeOK'
  BY <1>1, <1>2, <1>5, <1>7, <1>10 DEF TypeOK, Busy
<1>12. OneBatch'
  BY <1>2, <1>5, <1>10 DEF OneBatch
<1>13. \A t \in Targets : Waiting(t)' = Waiting(t) /\ UnderWay(t)' = UnderWay(t)
                          /\ Rows(t)' = Rows(t) /\ Out(t)' = Out(t)
  BY <1>2 DEF Waiting, UnderWay, Rows, Out
<1>14. ASSUME NEW t \in Targets
       PROVE  Read(t)' = Coming(t)' + Waiting(t)' + UnderWay(t)' + Rows(t)'
  <2> DEFINE old == {i \in 1..position : file[i] = t}
             fresh == {i \in at(end) : file[i] = t}
             now == {i \in 1..end : file[i] = t}
  <2>1. t # "malformed"
    BY ProcessorAssumption
  <2>2. position \in Nat /\ end \in Nat /\ position <= end
    BY <1>3
  <2>3. now = old \cup fresh /\ old \cap fresh = {}
    BY <1>3, <2>1, <2>2 DEF at, WellFormed
  <2>4. IsFiniteSet(old) /\ IsFiniteSet(fresh)
    <3>1. IsFiniteSet(1..position) /\ IsFiniteSet(1..Len(file))
      BY <1>3, <2>2, FS_Interval
    <3>2. old \in SUBSET (1..position) /\ fresh \in SUBSET (1..Len(file))
      BY <1>8
    <3> QED
      BY <3>1, <3>2, FS_Subset
  <2> HIDE DEF old, fresh, now
  <2>5. Cardinality(now) = Cardinality(old) + Cardinality(fresh) - Cardinality({})
    BY <2>3, <2>4, FS_Union
  <2>6. Cardinality(old) \in Nat /\ Cardinality(fresh) \in Nat /\ Cardinality({}) = 0
    BY <2>4, FS_CardinalityType, FS_EmptySet
  <2>7. Read(t)' = Cardinality(now) /\ Read(t) = Cardinality(old)
    BY <1>1, <1>2 DEF Read, now, old
  <2>8. Coming(t)' = Cardinality(fresh) /\ Coming(t) = 0
    <3>1. Coming(t)' = Occurrences(t, batch)
      BY <1>10 DEF Coming, Occurrences
    <3> QED
      BY <1>6, <1>9, <3>1 DEF Coming, fresh, Those
  <2>9. Read(t) = Coming(t) + Waiting(t) + UnderWay(t) + Rows(t)
    BY DEF Conserved
  <2>10. Waiting(t) \in Nat /\ UnderWay(t) \in 0..1 /\ Rows(t) \in Nat
    BY CountsNat
  <2> HIDE DEF ScanInv
  <2> QED
    BY <1>13, <2>5, <2>6, <2>7, <2>8, <2>9, <2>10
<1>15. Conserved'
  BY <1>14 DEF Conserved
<1>16. ASSUME NEW t \in Targets
       PROVE  \E k \in 0..Repeats : BoundedBy(t, k)'
  <2>1. PICK k \in 0..Repeats : BoundedBy(t, k)
    BY DEF Bounded
  <2>2. BoundedBy(t, k)'
    BY <1>2, <1>13, <2>1 DEF BoundedBy, Allowed, RepeatAge, Repeats
  <2> QED
    BY <2>2
<1>17. Bounded'
  BY <1>16 DEF Bounded, Repeats
<1> QED
  BY <1>2, <1>11, <1>12, <1>15, <1>17

(* A batch: its targets wait in the queues of their addresses.              *)
LEMMA BatchQueues ==
  ASSUME TypeOK, pending \in Queues, NEW batch \in Seq(Targets)
  PROVE  LET queues == [a \in Addresses |->
                          pending[a] \o Picked(batch, {i \in DOMAIN batch : Addr[batch[i]] = a})]
         IN  /\ queues \in Queues
             /\ \A t \in Targets : Occurrences(t, queues[Addr[t]])
                                     = Waiting(t) + Occurrences(t, batch)
<1> DEFINE at(a) == {i \in DOMAIN batch : Addr[batch[i]] = a}
           queues == [a \in Addresses |-> pending[a] \o Picked(batch, at(a))]
<1>1. Len(batch) \in Nat /\ DOMAIN batch = 1..Len(batch) /\ \A i \in DOMAIN batch : batch[i] \in Targets
  BY LenProperties, ElementOfSeq
<1>2. ASSUME NEW a \in Addresses
      PROVE  /\ Picked(batch, at(a)) \in Seq(Of(a)) /\ Picked(batch, at(a)) \in Seq(Targets)
             /\ pending[a] \in Seq(Of(a)) /\ pending[a] \in Seq(Targets)
             /\ \A t : Occurrences(t, Picked(batch, at(a))) = Cardinality(Those(batch, at(a), t))
  <2> DEFINE these == at(a)
  <2>1. /\ these \in SUBSET (1..Len(batch)) /\ \A i \in these : batch[i] \in Of(a)
        /\ \A i \in these : batch[i] \in Targets
    BY <1>1 DEF Of
  <2> HIDE DEF these
  <2>2. Picked(batch, these) \in Seq(Of(a))
    BY <1>1, <2>1, PickedSeq
  <2>3. Picked(batch, these) \in Seq(Targets)
    BY <1>1, <2>1, PickedSeq
  <2>4. \A t : Occurrences(t, Picked(batch, these)) = Cardinality(Those(batch, these, t))
    BY <1>1, <2>1, PickedFacts
  <2>5. pending[a] \in Seq(Of(a)) /\ pending[a] \in Seq(Targets)
    BY DEF Queues
  <2> QED
    BY <2>2, <2>3, <2>4, <2>5 DEF these
<1> HIDE DEF at
<1>3. queues \in Queues
  <2>1. \A a \in Addresses : queues[a] \in Seq(Of(a)) /\ queues[a] \in Seq(Targets)
    <3> TAKE a \in Addresses
    <3>1. queues[a] = pending[a] \o Picked(batch, at(a))
      OBVIOUS
    <3> HIDE DEF queues
    <3> QED
      BY <1>2, <3>1, ConcatProperties
  <2> QED
    BY <2>1 DEF Queues
<1>4. ASSUME NEW t \in Targets
      PROVE  Occurrences(t, queues[Addr[t]]) = Waiting(t) + Occurrences(t, batch)
  <2> DEFINE a == Addr[t]
  <2>1. a \in Addresses
    BY AddressesFinite
  <2>2. queues[a] = pending[a] \o Picked(batch, at(a))
    BY <2>1
  <2>3. Occurrences(t, queues[a]) = Occurrences(t, pending[a]) + Occurrences(t, Picked(batch, at(a)))
    <3> HIDE DEF queues, a
    <3>1. pending[a] \in Seq(Targets) /\ Picked(batch, at(a)) \in Seq(Targets)
      BY <1>2, <2>1
    <3> QED
      BY <2>2, <3>1, OccurrencesConcat
  <2>4. Those(batch, at(a), t) = {i \in DOMAIN batch : batch[i] = t}
    BY DEF Those, at
  <2>5. Occurrences(t, Picked(batch, at(a))) = Occurrences(t, batch)
    <3> HIDE DEF a
    <3>1. Occurrences(t, Picked(batch, at(a))) = Cardinality(Those(batch, at(a), t))
      BY <1>2, <2>1
    <3> QED
      BY <2>4, <3>1 DEF Occurrences
  <2> QED
    BY <2>3, <2>5 DEF Waiting
<1> QED
  BY <1>3, <1>4 DEF queues, at

LEMMA BatchKeepsScan ==
  ASSUME ScanInv, HandleTargets, UNCHANGED mainPc
  PROVE  ScanInv'
<1> USE DEF ScanInv
<1> DEFINE batch == Head(fromReader)
           queues == [a \in Addresses |->
                        pending[a] \o Picked(batch, {i \in DOMAIN batch : Addr[batch[i]] = a})]
           next == Started(probing, queues)
           starts == Startable(probing, queues)
<1>1. PICK messages \in InAnyOrder(starts, next) : toProber' = toProber \o messages
  BY DEF HandleTargets, HandleBatch
<1>2. /\ TypeOK /\ pending \in Queues /\ OneBatch
      /\ procPc = "up" /\ fromReader # <<>> /\ fromReader' = Tail(fromReader)
      /\ pending' = Dequeued(probing, queues) /\ probing' = next
      /\ age' = [a \in Addresses |-> IF a \in starts THEN 0 ELSE age[a]]
      /\ RequestMore(asked /\ batch = <<>>, next)
      /\ UNCHANGED <<mainPc, file, position, procPc, sinceTick, reported, proberPc, requests,
                     writing, pipe, loopPc, ready, armed, done, sent, air>>
  BY DEF HandleTargets, HandleBatch, readerVars, loopVars
<1>3. /\ fromReader \in Seq(Seq(Targets)) /\ toReader \in 0..1 /\ asked \in BOOLEAN
      /\ toProber \in Seq(Targets \cup {"done"})
      /\ age \in [Addresses -> 0..Timeout + 1] /\ Timeout \in Nat
  BY ProcessorAssumption DEF TypeOK
<1>4. batch \in Seq(Targets) /\ Len(fromReader) \in Nat /\ Len(fromReader) > 0
  BY <1>2, <1>3
<1>5. asked /\ toReader = 0 /\ Len(fromReader) = 1
  <2>1. toReader + Len(fromReader) <= (IF asked THEN 1 ELSE 0)
    BY <1>2 DEF OneBatch
  <2> HIDE DEF ScanInv
  <2>2. toReader + Len(fromReader) >= 1
    BY <1>3, <1>4
  <2>3. asked
    BY <1>3, <1>4, <2>1, <2>2
  <2>4. toReader + Len(fromReader) <= 1
    BY <2>1, <2>3
  <2>5. toReader \in 0..1 /\ Len(fromReader) \in Nat /\ Len(fromReader) > 0
    BY <1>3, <1>4
  <2> QED
    BY <2>3, <2>4, <2>5
<1>6. fromReader' = <<>>
  <2>1. Tail(fromReader) \in Seq(Seq(Targets)) /\ Len(Tail(fromReader)) = 0
    BY <1>2, <1>3, <1>5
  <2> QED
    BY <1>2, <2>1
<1>7. /\ queues \in Queues
      /\ \A t \in Targets : Occurrences(t, queues[Addr[t]]) = Waiting(t) + Occurrences(t, batch)
  BY <1>2, <1>4, BatchQueues
<1> HIDE DEF batch, queues
<1>8. /\ next \in Probes /\ Dequeued(probing, queues) \in Queues
      /\ starts \in SUBSET Addresses
      /\ \A a \in starts : probing[a] = None /\ next[a] # None
      /\ \A a \in Addresses \ starts : next[a] = probing[a]
      /\ \A t \in Targets : Is(next[Addr[t]], t) + Occurrences(t, Dequeued(probing, queues)[Addr[t]])
                              = Is(probing[Addr[t]], t) + Occurrences(t, queues[Addr[t]])
      /\ messages \in Seq(Targets)
      /\ \A t \in Targets :
           Occurrences(t, messages) = IF Addr[t] \in starts THEN Is(next[Addr[t]], t) ELSE 0
  BY <1>2, <1>7, ProbingFacts, StartFacts
<1> HIDE DEF next, starts
<1>9. /\ toReader' \in 0..1 /\ asked' \in BOOLEAN
      /\ toReader' + 0 <= (IF asked' THEN 1 ELSE 0)
  <2>1. (asked /\ batch = <<>>) \in BOOLEAN /\ toReader + 0 <= (IF asked /\ batch = <<>> THEN 1 ELSE 0)
    BY <1>5
  <2> HIDE DEF ScanInv
  <2> QED
    BY <1>2, <2>1, AskFacts
<1>10. TypeOK'
  <2>1. toProber' \in Seq(Targets \cup {"done"})
    BY <1>1, <1>3, <1>8
  <2>2. age' \in [Addresses -> 0..Timeout + 1]
    BY <1>2, <1>3
  <2>3. /\ probing' \in [Addresses -> Targets \cup {None}]
        /\ \A a \in Busy(probing') : Addr[probing'[a]] = a
        /\ pending' \in [Addresses -> Seq(Targets)]
    BY <1>2, <1>8 DEF Probes, Queues, Busy
  <2>4. fromReader' \in Seq(Seq(Targets))
    BY <1>6
  <2> QED
    BY <1>2, <1>9, <2>1, <2>2, <2>3, <2>4 DEF TypeOK, Busy
<1>11. OneBatch' /\ pending' \in Queues
  BY <1>2, <1>6, <1>8, <1>9 DEF OneBatch
<1>12. ASSUME NEW t \in Targets
       PROVE  /\ Read(t)' = Coming(t)' + Waiting(t)' + UnderWay(t)' + Rows(t)'
              /\ \E k \in 0..Repeats : BoundedBy(t, k)'
  <2> DEFINE a == Addr[t]
             s == IF a \in starts THEN Is(next[a], t) ELSE 0
  <2>1. a \in Addresses
    BY AddressesFinite
  <2>2. Read(t)' = Read(t) /\ Rows(t)' = Rows(t) /\ Coming(t)' = 0 /\ Coming(t) = Occurrences(t, batch)
    BY <1>2, <1>6 DEF Read, Rows, Coming, batch
  <2>3. /\ Waiting(t) \in Nat /\ Rows(t) \in Nat /\ UnderWay(t) \in 0..1
        /\ UnderWay(t) = Is(probing[a], t) /\ sent[t] \in Nat
        /\ Occurrences(t, requests) \in Nat /\ Occurrences(t, toProber) \in Nat
        /\ Coming(t) \in Nat
    BY CountsNat
  <2>4. UnderWay(t)' = Is(next[a], t) /\ Waiting(t)' = Occurrences(t, Dequeued(probing, queues)[a])
    BY <1>2 DEF UnderWay, Is, Waiting, Occurrences
  <2>5. Waiting(t)' \in Nat
    <3>1. Dequeued(probing, queues)[a] \in Seq(Targets)
      BY <1>8, <2>1 DEF Queues
    <3>2. Occurrences(t, Dequeued(probing, queues)[a]) \in Nat
      BY <3>1, OccurrencesNat
    <3> QED
      BY <2>4, <3>2
  <2>6. Is(next[a], t) \in 0..1
    BY DEF Is
  <2>7. Read(t) = Coming(t) + Waiting(t) + UnderWay(t) + Rows(t)
    BY DEF Conserved
  <2>8. UnderWay(t)' + Waiting(t)' = UnderWay(t) + Waiting(t) + Coming(t)
    BY <1>7, <1>8, <2>2, <2>3, <2>4
  <2>9. Read(t)' = Coming(t)' + Waiting(t)' + UnderWay(t)' + Rows(t)'
    <3> HIDE DEF ScanInv, a, s
    <3> QED
      BY <2>2, <2>3, <2>4, <2>5, <2>6, <2>7, <2>8
  <2>10. s \in 0..1 /\ UnderWay(t)' = (UnderWay(t) - 0) + s
    <3>1. CASE a \in starts
      <4>1. UnderWay(t) = 0
        BY <1>8, <2>3, <3>1, ProcessorAssumption DEF Is
      <4> QED
        BY <2>4, <2>6, <3>1, <4>1
    <3>2. CASE a \notin starts
      <4>1. next[a] = probing[a]
        BY <1>8, <2>1, <3>2
      <4> QED
        BY <2>3, <2>4, <3>2, <4>1
    <3> QED
      BY <3>1, <3>2
  <2>11. Out(t)' = Out(t) + s
    <3>1. toProber \in Seq(Targets \cup {"done"}) /\ messages \in Seq(Targets \cup {"done"})
      BY <1>3, <1>8
    <3>2. Occurrences(t, toProber \o messages) = Occurrences(t, toProber) + Occurrences(t, messages)
      BY <3>1, OccurrencesConcat
    <3>3. Occurrences(t, messages) = s
      BY <1>8
    <3>4. Out(t) = sent[t] + Occurrences(t, requests) + Occurrences(t, toProber)
      BY DEF Out
    <3>5. Out(t)' = sent[t] + Occurrences(t, requests) + Occurrences(t, toProber \o messages)
      BY <1>1, <1>2 DEF Out, Occurrences
    <3> HIDE DEF ScanInv, a, s
    <3> QED
      BY <2>3, <2>10, <3>2, <3>3, <3>4, <3>5
  <2>12. s = 0 => age'[a] = age[a] \/ UnderWay(t)' = 0
    BY <1>2, <2>1, <2>4
  <2> HIDE DEF ScanInv, s
  <2>13. \E k \in 0..Repeats : BoundedBy(t, k)'
    <3>1. 0 <= UnderWay(t) /\ 0 \in 0..1 /\ Rows(t)' = Rows(t) + 0
      BY <2>2, <2>3
    <3> QED
      BY <1>2, <1>10, <2>10, <2>11, <2>12, <3>1, EndOrStart
  <2> QED
    BY <2>9, <2>13
<1> QED
  BY <1>10, <1>11, <1>12 DEF Conserved, Bounded, Repeats

(* An answer ends the probe of its address, and the next one starts.        *)
LEMMA EventKeepsScan ==
  ASSUME ScanInv, NEW x \in Targets, NEW kind \in {"udp", "icmp"}, NEW port,
         HandleEvent(x, kind, port), UNCHANGED mainPc
  PROVE  ScanInv'
<1> USE DEF ScanInv
<1> DEFINE a == Addr[x]
           t0 == probing[a]
           ends == t0 # None /\ port = Dport[t0]
           idle == IF ends THEN [probing EXCEPT ![a] = None] ELSE probing
           here == [b \in Addresses |-> IF ends /\ b = a THEN pending[b] ELSE <<>>]
           next == Started(idle, here)
           left == Dequeued(idle, here)
           starts == Startable(idle, here)
<1>1. /\ reported' = IF ends THEN Append(reported, [target |-> t0, how |-> kind]) ELSE reported
      /\ probing' = next
      /\ pending' = IF ends THEN [pending EXCEPT ![a] = left[a]] ELSE pending
      /\ age' = IF ends THEN [age EXCEPT ![a] = 0] ELSE age
      /\ toProber' = IF ends /\ next[a] # None THEN Append(toProber, next[a]) ELSE toProber
      /\ RequestMore(asked, next)
      /\ air' = [air EXCEPT ![x] = @ - 1] /\ air[x] > 0
      /\ UNCHANGED <<mainPc, file, position, fromReader, procPc, sinceTick, proberPc, requests,
                     writing, pipe, loopPc, ready, armed, done, sent>>
  BY DEF HandleEvent, readerVars, loopVars
<1>2. /\ TypeOK /\ pending \in Queues /\ OneBatch /\ probing \in Probes
      /\ toReader \in 0..1 /\ asked \in BOOLEAN /\ Len(fromReader) \in Nat
      /\ toProber \in Seq(Targets \cup {"done"}) /\ reported \in Seq(RowType)
      /\ age \in [Addresses -> 0..Timeout + 1] /\ Timeout \in Nat
      /\ air \in [Targets -> Nat]
  <2>1. TypeOK /\ pending \in Queues /\ OneBatch
    OBVIOUS
  <2> HIDE DEF ScanInv
  <2>2. /\ toReader \in 0..1 /\ asked \in BOOLEAN /\ fromReader \in Seq(Seq(Targets))
        /\ toProber \in Seq(Targets \cup {"done"}) /\ reported \in Seq(RowType)
        /\ age \in [Addresses -> 0..Timeout + 1] /\ air \in [Targets -> Nat]
    BY <2>1 DEF TypeOK
  <2>3. Len(fromReader) \in Nat
    BY <2>2
  <2> QED
    BY <2>1, <2>2, <2>3, ProcessorAssumption, ProbingFacts
<1>3. a \in Addresses
  BY AddressesFinite
<1>4. /\ DOMAIN probing = Addresses
      /\ \A b \in Addresses : /\ probing[b] \in Targets \cup {None}
                              /\ probing[b] # None => Addr[probing[b]] = b
      /\ \A b \in Addresses : pending[b] \in Seq(Of(b)) /\ pending[b] \in Seq(Targets)
      /\ DOMAIN pending = Addresses
  BY <1>2 DEF Probes, Queues
<1>5. ends => t0 \in Targets /\ Addr[t0] = a
  BY <1>3, <1>4
<1>6. idle \in Probes /\ here \in Queues
  <2>1. idle \in Probes
    BY <1>2, <1>3 DEF Probes
  <2>2. \A b \in Addresses : here[b] \in Seq(Of(b)) /\ here[b] \in Seq(Targets)
    BY <1>4
  <2> QED
    BY <2>1, <2>2 DEF Queues
<1>7. /\ \A b \in Addresses : idle[b] = IF ends /\ b = a THEN None ELSE probing[b]
      /\ \A b \in Addresses : here[b] = IF ends /\ b = a THEN pending[b] ELSE <<>>
      /\ starts = {b \in Addresses : idle[b] = None /\ here[b] # <<>>}
  BY <1>4 DEF Startable
<1> HIDE DEF idle, here
<1>8. /\ next \in Probes /\ left \in Queues
      /\ \A b \in starts : idle[b] = None /\ next[b] # None
      /\ \A b \in Addresses \ starts : next[b] = idle[b] /\ left[b] = here[b]
      /\ \A t \in Targets : Is(next[Addr[t]], t) + Occurrences(t, left[Addr[t]])
                              = Is(idle[Addr[t]], t) + Occurrences(t, here[Addr[t]])
  BY <1>6, StartFacts
<1>9. \A b \in starts : ends /\ b = a
  BY <1>7
<1>10. starts \subseteq Addresses
  BY <1>7
<1> HIDE DEF next, left, starts
<1>11. /\ \A b \in Addresses : next[b] \in Targets \cup {None} /\ (next[b] # None => Addr[next[b]] = b)
       /\ left[a] \in Seq(Of(a)) /\ left[a] \in Seq(Targets)
  BY <1>3, <1>8 DEF Probes, Queues
<1>12. ~ends => next = probing
  <2>1. DOMAIN next = Addresses /\ next = [b \in Addresses |-> next[b]]
        /\ probing = [b \in Addresses |-> probing[b]]
    BY <1>2, <1>8 DEF Probes
  <2>2. ~ends => \A b \in Addresses : next[b] = probing[b]
    BY <1>7, <1>8, <1>9
  <2> QED
    BY <2>1, <2>2
<1>13. [target |-> t0, how |-> kind] \in RowType \/ ~ends
  BY <1>5 DEF RowType
<1>14. /\ toReader' \in 0..1 /\ asked' \in BOOLEAN
       /\ toReader' + Len(fromReader) <= (IF asked' THEN 1 ELSE 0)
  <2>1. toReader + Len(fromReader) <= (IF asked THEN 1 ELSE 0)
    BY <1>2 DEF OneBatch
  <2> HIDE DEF ScanInv
  <2> QED
    BY <1>1, <1>2, <2>1, AskFacts
<1> HIDE DEF ends, t0
<1>15. reported' \in Seq(RowType)
  BY <1>1, <1>2, <1>13
<1>16. TypeOK' /\ pending' \in Queues
  <2>1. toProber' \in Seq(Targets \cup {"done"})
    BY <1>1, <1>2, <1>3, <1>11
  <2>2. age' \in [Addresses -> 0..Timeout + 1]
    BY <1>1, <1>2, <1>3
  <2>3. /\ probing' \in [Addresses -> Targets \cup {None}]
        /\ \A b \in Busy(probing') : Addr[probing'[b]] = b
    BY <1>1, <1>8 DEF Probes, Busy
  <2>4. pending' \in Queues
    BY <1>1, <1>2, <1>3, <1>11 DEF Queues
  <2>5. air' \in [Targets -> Nat]
    BY <1>1, <1>2
  <2>6. pending' \in [Addresses -> Seq(Targets)]
    BY <2>4 DEF Queues
  <2> QED
    BY <1>1, <1>2, <1>14, <1>15, <2>1, <2>2, <2>3, <2>4, <2>5, <2>6 DEF TypeOK, Busy
<1>17. OneBatch'
  BY <1>1, <1>14 DEF OneBatch
<1>18. ASSUME NEW t \in Targets
       PROVE  /\ Read(t)' = Coming(t)' + Waiting(t)' + UnderWay(t)' + Rows(t)'
              /\ \E k \in 0..Repeats : BoundedBy(t, k)'
  <2> DEFINE b == Addr[t]
             e == IF ends THEN Is(t0, t) ELSE 0
             s == IF ends THEN Is(next[a], t) ELSE 0
  <2>1. b \in Addresses
    BY AddressesFinite
  <2>2. Read(t)' = Read(t) /\ Coming(t)' = Coming(t)
    BY <1>1 DEF Read, Coming
  <2>3. /\ Waiting(t) \in Nat /\ Rows(t) \in Nat /\ UnderWay(t) \in 0..1
        /\ UnderWay(t) = Is(probing[b], t) /\ sent[t] \in Nat
        /\ Occurrences(t, requests) \in Nat /\ Occurrences(t, toProber) \in Nat
        /\ Coming(t) \in Nat /\ Waiting(t) = Occurrences(t, pending[b])
    BY CountsNat DEF Waiting
  <2>4. UnderWay(t)' = Is(next[b], t) /\ Waiting(t)' = Occurrences(t, pending'[b])
    BY <1>1 DEF UnderWay, Is, Waiting, Occurrences
  <2>5. e \in 0..1 /\ s \in 0..1 /\ Is(next[b], t) \in 0..1
    BY DEF Is
  <2>6. Read(t) = Coming(t) + Waiting(t) + UnderWay(t) + Rows(t)
    BY DEF Conserved
  <2>7. b # a => e = 0 /\ s = 0 /\ next[b] = probing[b] /\ pending'[b] = pending[b]
                 /\ age'[b] = age[b]
    <3> HAVE b # a
    <3>1. e = 0
      BY <1>5 DEF Is
    <3>2. s = 0
      BY <1>3, <1>11, ProcessorAssumption DEF Is
    <3>3. b \notin starts
      BY <1>9
    <3>4. next[b] = probing[b]
      BY <1>7, <1>8, <2>1, <3>3
    <3>5. pending'[b] = pending[b] /\ age'[b] = age[b]
      BY <1>1, <1>2, <1>4, <2>1
    <3> QED
      BY <3>1, <3>2, <3>4, <3>5
  <2>8. b = a /\ ends => /\ UnderWay(t) = e /\ UnderWay(t)' = s
                         /\ pending'[b] = left[a]
                         /\ s + Occurrences(t, left[a]) = Waiting(t)
    <3> HAVE b = a /\ ends
    <3>1. UnderWay(t) = e /\ UnderWay(t)' = s
      BY <2>3, <2>4 DEF t0
    <3>2. pending'[b] = left[a]
      BY <1>1, <1>3, <1>4
    <3>3. Is(next[a], t) + Occurrences(t, left[a]) = Is(idle[a], t) + Occurrences(t, here[a])
      BY <1>8
    <3>4. Is(idle[a], t) = 0 /\ here[a] = pending[a]
      BY <1>3, <1>7, ProcessorAssumption DEF Is
    <3>5. s + Occurrences(t, left[a]) = Waiting(t)
      BY <2>3, <3>3, <3>4
    <3> QED
      BY <3>1, <3>2, <3>5
  <2>9. ~ends => e = 0 /\ s = 0 /\ next = probing /\ pending' = pending /\ age' = age
    BY <1>1, <1>12
  <2>10. e <= UnderWay(t) /\ UnderWay(t)' = (UnderWay(t) - e) + s
    <3> HIDE DEF ScanInv, e, s, b, a
    <3>1. CASE ends /\ b = a
      BY <2>3, <2>5, <2>8, <3>1
    <3>2. CASE ~(ends /\ b = a)
      BY <2>3, <2>4, <2>5, <2>7, <2>9, <3>2
    <3> QED
      BY <3>1, <3>2
  <2>11. UnderWay(t)' + Waiting(t)' + e = UnderWay(t) + Waiting(t) /\ Waiting(t)' \in Nat
    <3>1. CASE ends /\ b = a
      <4>1. Occurrences(t, left[a]) \in Nat
        BY <1>11, OccurrencesNat
      <4> HIDE DEF ScanInv, e, s, b, a
      <4> QED
        BY <2>3, <2>4, <2>5, <2>8, <3>1, <4>1
    <3>2. CASE ~(ends /\ b = a)
      <4> HIDE DEF ScanInv, e, s, b, a
      <4>1. e = 0 /\ UnderWay(t)' = UnderWay(t) /\ Waiting(t)' = Waiting(t)
        BY <2>3, <2>4, <2>7, <2>9, <3>2
      <4> QED
        BY <2>3, <4>1
    <3> QED
      BY <3>1, <3>2
  <2>12. Rows(t)' = Rows(t) + e
    <3>1. CASE ends
      <4> DEFINE r == [target |-> t0, how |-> kind]
      <4>1. r \in RowType /\ r.target = t0 /\ t0 \in Targets
        BY <1>5, <1>13, <3>1
      <4> HIDE DEF r
      <4>2. TargetsOf(reported) \in Seq(Targets) /\ TargetsOf(Append(reported, r)) = Append(TargetsOf(reported), t0)
        BY <1>2, <4>1, TargetsOfFacts
      <4>3. Occurrences(t, Append(TargetsOf(reported), t0)) = Rows(t) + (IF t0 = t THEN 1 ELSE 0)
        BY <4>1, <4>2, OccurrencesAppend DEF Rows
      <4>4. Rows(t)' = Occurrences(t, TargetsOf(Append(reported, r)))
        BY <1>1, <3>1 DEF Rows, Occurrences, TargetsOf, r
      <4> QED
        BY <3>1, <4>2, <4>3, <4>4 DEF Is
    <3>2. CASE ~ends
      <4>1. Rows(t)' = Rows(t)
        BY <1>1, <3>2 DEF Rows
      <4> QED
        BY <2>3, <3>2, <4>1
    <3> QED
      BY <3>1, <3>2
  <2>13. Out(t)' = Out(t) + s
    <3>1. Out(t) = sent[t] + Occurrences(t, requests) + Occurrences(t, toProber)
      BY DEF Out
    <3>2. Out(t)' = sent[t] + Occurrences(t, requests) + Occurrences(t, toProber')
      BY <1>1 DEF Out, Occurrences
    <3>3. Occurrences(t, toProber') = Occurrences(t, toProber) + s
      <4>1. CASE ends /\ next[a] # None
        <5>1. next[a] \in Targets \cup {"done"} /\ toProber' = Append(toProber, next[a])
          BY <1>1, <1>3, <1>11, <4>1
        <5>2. Occurrences(t, Append(toProber, next[a]))
                = Occurrences(t, toProber) + (IF next[a] = t THEN 1 ELSE 0)
          BY <1>2, <5>1, OccurrencesAppend
        <5> QED
          BY <4>1, <5>1, <5>2 DEF Is
      <4>2. CASE ~(ends /\ next[a] # None)
        <5>1. toProber' = toProber
          BY <1>1, <4>2
        <5>2. s = 0
          BY <4>2, ProcessorAssumption DEF Is
        <5> QED
          BY <2>3, <5>1, <5>2
      <4> QED
        BY <4>1, <4>2
    <3> HIDE DEF ScanInv, e, s, b, a
    <3> QED
      BY <2>3, <2>5, <3>1, <3>2, <3>3
  <2>14. s = 0 => age'[b] = age[b] \/ UnderWay(t)' = 0
    BY <2>7, <2>8, <2>9
  <2>15. Read(t)' = Coming(t)' + Waiting(t)' + UnderWay(t)' + Rows(t)'
    <3>1. UnderWay(t)' \in 0..1
      BY <2>4, <2>5
    <3> HIDE DEF ScanInv, e, s, b, a
    <3> QED
      BY <2>2, <2>3, <2>5, <2>6, <2>11, <2>12, <3>1
  <2>16. \E k \in 0..Repeats : BoundedBy(t, k)'
    <3> HIDE DEF e, s
    <3>1. ScanInv /\ TypeOK' /\ (sinceTick' = sinceTick)
      BY <1>1, <1>16
    <3> HIDE DEF ScanInv
    <3> QED
      BY <2>5, <2>10, <2>12, <2>13, <2>14, <3>1, EndOrStart
  <2> QED
    BY <2>15, <2>16
<1> QED
  BY <1>16, <1>17, <1>18 DEF Conserved, Bounded, Repeats

(* The tick: too old probes end, others are repeated, new ones start.       *)
LEMMA TickKeepsScan ==
  ASSUME ScanInv, Tick, UNCHANGED mainPc
  PROVE  ScanInv'
<1> USE DEF ScanInv
<1> DEFINE idle == [a \in Addresses |-> IF a \in Over THEN None ELSE probing[a]]
           here == [a \in Addresses |-> IF a \in Addresses THEN pending[a] ELSE <<>>]
           next == Started(idle, here)
           left == Dequeued(idle, here)
           starts == Startable(idle, here)
<1>1. PICK lines \in InAnyOrder(Over, probing) :
         reported' = reported \o [i \in DOMAIN lines |-> [target |-> lines[i], how |-> "-"]]
  BY DEF Tick, TickWith
<1>2. PICK again \in InAnyOrder(Repeat, probing), new \in InAnyOrder(starts, next) :
         toProber' = toProber \o again \o new
  BY DEF Tick, TickWith
<1>3. /\ sinceTick = Interval /\ sinceTick' = 0
      /\ probing' = next
      /\ pending' = [a \in Addresses |-> IF a \in starts THEN Tail(pending[a]) ELSE pending[a]]
      /\ age' = [a \in Addresses |-> IF a \in Over \cup starts THEN 0 ELSE age[a]]
      /\ RequestMore(asked, next)
      /\ UNCHANGED <<mainPc, file, position, fromReader, procPc, proberPc, requests,
                     writing, pipe, loopPc, ready, armed, done, sent, air>>
  BY DEF Tick, TickWith, readerVars, loopVars
<1>4. /\ TypeOK /\ pending \in Queues /\ OneBatch /\ probing \in Probes
      /\ toReader \in 0..1 /\ asked \in BOOLEAN /\ Len(fromReader) \in Nat
      /\ toProber \in Seq(Targets \cup {"done"}) /\ reported \in Seq(RowType)
      /\ age \in [Addresses -> 0..Timeout + 1] /\ Timeout \in Nat /\ Interval \in Nat
  <2>1. TypeOK /\ pending \in Queues /\ OneBatch
    OBVIOUS
  <2> HIDE DEF ScanInv
  <2>2. /\ toReader \in 0..1 /\ asked \in BOOLEAN /\ fromReader \in Seq(Seq(Targets))
        /\ toProber \in Seq(Targets \cup {"done"}) /\ reported \in Seq(RowType)
        /\ age \in [Addresses -> 0..Timeout + 1]
    BY <2>1 DEF TypeOK
  <2>3. Len(fromReader) \in Nat
    BY <2>2
  <2> QED
    BY <2>1, <2>2, <2>3, ProcessorAssumption, ProbingFacts
<1>5. /\ DOMAIN probing = Addresses
      /\ \A b \in Addresses : /\ probing[b] \in Targets \cup {None}
                              /\ probing[b] # None => Addr[probing[b]] = b
      /\ \A b \in Addresses : pending[b] \in Seq(Of(b)) /\ pending[b] \in Seq(Targets)
      /\ DOMAIN pending = Addresses
  BY <1>4 DEF Probes, Queues
<1>6. idle \in Probes /\ here \in Queues /\ here = pending
  <2>1. idle \in Probes
    BY <1>5 DEF Probes
  <2>2. here = pending
    BY <1>4 DEF Queues
  <2> QED
    BY <1>4, <2>1, <2>2
<1>7. \A b \in Addresses : idle[b] = IF b \in Over THEN None ELSE probing[b]
  OBVIOUS
<1>8. left = pending'
  BY <1>3, <1>6 DEF Dequeued
<1> HIDE DEF idle, here
<1>9. /\ next \in Probes /\ left \in Queues
      /\ starts \in SUBSET Addresses
      /\ \A b \in starts : idle[b] = None /\ next[b] # None
      /\ \A b \in Addresses \ starts : next[b] = idle[b]
      /\ \A t \in Targets : Is(next[Addr[t]], t) + Occurrences(t, left[Addr[t]])
                              = Is(idle[Addr[t]], t) + Occurrences(t, here[Addr[t]])
      /\ new \in Seq(Targets)
      /\ \A t \in Targets : Occurrences(t, new) = IF Addr[t] \in starts THEN Is(next[Addr[t]], t) ELSE 0
  BY <1>2, <1>6, StartFacts
<1> HIDE DEF next, left, starts
<1>10. /\ Over \in SUBSET Addresses /\ Repeat \in SUBSET Addresses
       /\ \A b \in Over : probing[b] \in Targets /\ Addr[probing[b]] = b
       /\ \A b \in Repeat : probing[b] \in Targets /\ Addr[probing[b]] = b
       /\ \A b \in Repeat : b \notin Over /\ Interval < age[b] /\ age[b] <= Timeout
  <2>1. /\ Over \in SUBSET Addresses /\ Repeat \in SUBSET Addresses
        /\ \A b \in Over \cup Repeat : probing[b] # None
    BY DEF Over, Repeat, Busy
  <2>2. \A b \in Repeat : b \notin Over /\ Interval < age[b] /\ age[b] <= Timeout
    <3> TAKE b \in Repeat
    <3>1. age[b] \in Nat
      BY <1>4, <2>1
    <3>2. Interval < age[b] /\ age[b] <= Timeout
      BY DEF Repeat
    <3> QED
      BY <1>4, <3>1, <3>2 DEF Over
  <2> QED
    BY <1>5, <2>1, <2>2
<1>11. /\ lines \in Seq(Targets)
       /\ \A t \in Targets :
            Occurrences(t, lines) = IF Addr[t] \in Over /\ probing[Addr[t]] = t THEN 1 ELSE 0
  BY <1>10, OnceEach
<1>12. /\ again \in Seq(Targets)
       /\ \A t \in Targets :
            Occurrences(t, again) = IF Addr[t] \in Repeat /\ probing[Addr[t]] = t THEN 1 ELSE 0
  BY <1>10, OnceEach
<1>13. /\ reported' \in Seq(RowType) /\ TargetsOf(reported') = TargetsOf(reported) \o lines
       /\ TargetsOf(reported) \in Seq(Targets)
  BY <1>1, <1>4, <1>11, TargetsOfFacts
<1>14. /\ toReader' \in 0..1 /\ asked' \in BOOLEAN
       /\ toReader' + Len(fromReader) <= (IF asked' THEN 1 ELSE 0)
  <2>1. toReader + Len(fromReader) <= (IF asked THEN 1 ELSE 0)
    BY <1>4 DEF OneBatch
  <2> HIDE DEF ScanInv
  <2> QED
    BY <1>3, <1>4, <2>1, AskFacts
<1>15. /\ toProber \o again \in Seq(Targets \cup {"done"})
       /\ toProber' \in Seq(Targets \cup {"done"})
       /\ \A t \in Targets :
            Occurrences(t, toProber') = Occurrences(t, toProber) + Occurrences(t, again) + Occurrences(t, new)
  <2>1. again \in Seq(Targets \cup {"done"}) /\ new \in Seq(Targets \cup {"done"})
    BY <1>9, <1>12
  <2>2. toProber \o again \in Seq(Targets \cup {"done"})
    BY <1>4, <2>1
  <2>3. toProber' \in Seq(Targets \cup {"done"})
    BY <1>2, <2>1, <2>2
  <2>4. \A t : Occurrences(t, toProber \o again) = Occurrences(t, toProber) + Occurrences(t, again)
    BY <1>4, <2>1, OccurrencesConcat
  <2>5. \A t : Occurrences(t, (toProber \o again) \o new) = Occurrences(t, toProber \o again) + Occurrences(t, new)
    BY <2>1, <2>2, OccurrencesConcat
  <2> QED
    BY <1>2, <2>2, <2>3, <2>4, <2>5
<1>16. TypeOK' /\ pending' \in Queues
  <2>1. age' \in [Addresses -> 0..Timeout + 1]
    BY <1>3, <1>4
  <2>2. /\ probing' \in [Addresses -> Targets \cup {None}]
        /\ \A b \in Busy(probing') : Addr[probing'[b]] = b
    BY <1>3, <1>9 DEF Probes, Busy
  <2>3. pending' \in Queues /\ pending' \in [Addresses -> Seq(Targets)]
    BY <1>8, <1>9 DEF Queues
  <2>4. sinceTick' \in 0..Interval
    BY <1>3, <1>4
  <2> QED
    BY <1>3, <1>13, <1>14, <1>15, <2>1, <2>2, <2>3, <2>4 DEF TypeOK, Busy
<1>17. OneBatch'
  BY <1>3, <1>14 DEF OneBatch
<1>18. ASSUME NEW t \in Targets
       PROVE  /\ Read(t)' = Coming(t)' + Waiting(t)' + UnderWay(t)' + Rows(t)'
              /\ \E k \in 0..Repeats : BoundedBy(t, k)'
  <2> DEFINE b == Addr[t]
             e == IF b \in Over THEN Is(probing[b], t) ELSE 0
             r == IF b \in Repeat THEN Is(probing[b], t) ELSE 0
             s == IF b \in starts THEN Is(next[b], t) ELSE 0
  <2>1. b \in Addresses
    BY AddressesFinite
  <2>2. Read(t)' = Read(t) /\ Coming(t)' = Coming(t)
    BY <1>3 DEF Read, Coming
  <2>3. /\ Waiting(t) \in Nat /\ Rows(t) \in Nat /\ UnderWay(t) \in 0..1
        /\ UnderWay(t) = Is(probing[b], t) /\ sent[t] \in Nat
        /\ Occurrences(t, requests) \in Nat /\ Occurrences(t, toProber) \in Nat
        /\ Coming(t) \in Nat /\ Waiting(t) = Occurrences(t, pending[b])
    BY CountsNat DEF Waiting
  <2>4. UnderWay(t)' = Is(next[b], t) /\ Waiting(t)' = Occurrences(t, left[b])
    BY <1>3, <1>8 DEF UnderWay, Is, Waiting, Occurrences
  <2>5. /\ e \in 0..1 /\ r \in 0..1 /\ s \in 0..1 /\ Is(next[b], t) \in 0..1
        /\ Is(idle[b], t) \in 0..1 /\ Is(None, t) = 0
    BY ProcessorAssumption DEF Is
  <2>6. Read(t) = Coming(t) + Waiting(t) + UnderWay(t) + Rows(t)
    BY DEF Conserved
  <2>7. Is(next[b], t) + Occurrences(t, left[b]) = Is(idle[b], t) + Waiting(t)
    BY <1>6, <1>9, <2>3
  <2>8. Occurrences(t, left[b]) \in Nat
    BY <1>9, <2>1, OccurrencesNat DEF Queues
  <2>9. e <= UnderWay(t) /\ Is(idle[b], t) = UnderWay(t) - e
    <3>1. CASE b \in Over
      <4>1. idle[b] = None /\ e = UnderWay(t)
        BY <1>7, <2>1, <2>3, <3>1
      <4> HIDE DEF e, b
      <4> QED
        BY <2>3, <2>5, <4>1
    <3>2. CASE b \notin Over
      <4>1. idle[b] = probing[b] /\ e = 0
        BY <1>7, <2>1, <3>2
      <4> HIDE DEF e, b
      <4> QED
        BY <2>3, <4>1
    <3> QED
      BY <3>1, <3>2
  <2>10. UnderWay(t)' = (UnderWay(t) - e) + s
    <3>1. CASE b \in starts
      <4>1. Is(idle[b], t) = 0 /\ s = Is(next[b], t)
        BY <1>9, <2>5, <3>1
      <4> HIDE DEF ScanInv, e, s, b
      <4> QED
        BY <2>4, <2>5, <2>9, <4>1
    <3>2. CASE b \notin starts
      <4>1. next[b] = idle[b] /\ s = 0
        BY <1>9, <2>1, <3>2
      <4> HIDE DEF ScanInv, e, s, b
      <4> QED
        BY <2>3, <2>4, <2>5, <2>9, <4>1
    <3> QED
      BY <3>1, <3>2
  <2>11. Rows(t)' = Rows(t) + e
    <3>1. Occurrences(t, TargetsOf(reported) \o lines) = Rows(t) + Occurrences(t, lines)
      BY <1>11, <1>13, OccurrencesConcat DEF Rows
    <3>2. Rows(t)' = Occurrences(t, TargetsOf(reported) \o lines)
      BY <1>13 DEF Rows, Occurrences, TargetsOf
    <3>3. Occurrences(t, lines) = e
      BY <1>11 DEF Is
    <3> QED
      BY <3>1, <3>2, <3>3
  <2>12. Out(t)' = Out(t) + r + s
    <3>1. Occurrences(t, again) = r /\ Occurrences(t, new) = s
      BY <1>9, <1>12 DEF Is
    <3>2. Out(t) = sent[t] + Occurrences(t, requests) + Occurrences(t, toProber)
      BY DEF Out
    <3>3. Out(t)' = sent[t] + Occurrences(t, requests) + Occurrences(t, toProber')
      BY <1>3 DEF Out, Occurrences
    <3>4. Occurrences(t, toProber') = Occurrences(t, toProber) + r + s
      BY <1>15, <3>1
    <3> HIDE DEF ScanInv, e, r, s, b
    <3> QED
      BY <2>3, <2>5, <3>2, <3>3, <3>4
  <2>13. Read(t)' = Coming(t)' + Waiting(t)' + UnderWay(t)' + Rows(t)'
    <3> HIDE DEF ScanInv, e, r, s, b
    <3> QED
      BY <2>2, <2>3, <2>4, <2>5, <2>6, <2>7, <2>8, <2>9, <2>10, <2>11
  <2>14. age'[b] = IF b \in Over \cup starts THEN 0 ELSE age[b]
    BY <1>3, <2>1
  <2>15. ScanInv /\ TypeOK'
    BY <1>16
  <2>16. Out(t) \in Nat
    BY CountsNat
  <2>17. CASE r = 1
    <3>1. b \in Repeat /\ probing[b] = t
      BY <2>17 DEF Is
    <3>2. b \notin Over /\ Interval < age[b] /\ age[b] <= Timeout
      BY <1>10, <3>1
    <3>3. b \notin starts
      BY <1>7, <1>9, <2>1, <3>1, <3>2, ProcessorAssumption
    <3>4. e = 0 /\ s = 0 /\ age'[b] = age[b] /\ UnderWay(t) = 1
      BY <2>3, <2>14, <3>1, <3>2, <3>3 DEF Is
    <3> HIDE DEF ScanInv, e, r, s, b
    <3>5. UnderWay(t)' = 1 /\ Rows(t)' = Rows(t) /\ Out(t)' = Out(t) + 1
      BY <2>3, <2>10, <2>11, <2>12, <2>16, <2>17, <3>4
    <3>6. \E k \in 0..Repeats : BoundedBy(t, k)'
      BY <1>3, <2>15, <3>2, <3>4, <3>5, RepeatOnce DEF b
    <3> QED
      BY <2>13, <3>6
  <2>18. CASE r # 1
    <3>1. s = 0 => age'[b] = age[b] \/ UnderWay(t)' = 0
      <4> HAVE s = 0
      <4>1. CASE b \in starts
        BY <2>4, <4>1
      <4>2. CASE b \notin starts /\ b \in Over
        <5>1. e = UnderWay(t)
          BY <2>3, <4>2
        <5> HIDE DEF ScanInv, e, r, s, b
        <5> QED
          BY <2>3, <2>10, <5>1
      <4>3. CASE b \notin starts /\ b \notin Over
        BY <2>14, <4>3
      <4> QED
        BY <4>1, <4>2, <4>3
    <3> HIDE DEF ScanInv, e, r, s
    <3>2. Out(t)' = Out(t) + s
      BY <2>5, <2>12, <2>16, <2>18
    <3>3. \E k \in 0..Repeats : BoundedBy(t, k)'
      BY <1>3, <2>5, <2>9, <2>10, <2>11, <2>15, <3>1, <3>2, EndOrStart
    <3> QED
      BY <2>13, <3>3
  <2> QED
    BY <2>17, <2>18
<1> QED
  BY <1>16, <1>17, <1>18 DEF Conserved, Bounded, Repeats

LEMMA InitScan == Init => ScanInv
<1> SUFFICES ASSUME Init PROVE ScanInv
  OBVIOUS
<1>1. /\ mainPc = "starting" /\ file \in Files /\ position = 0
      /\ toReader = 0 /\ fromReader = <<>> /\ procPc = "up" /\ asked = FALSE
      /\ pending = [a \in Addresses |-> <<>>] /\ probing = [a \in Addresses |-> None]
      /\ age = [a \in Addresses |-> 0] /\ sinceTick = 0 /\ reported = <<>>
      /\ toProber = <<>> /\ proberPc = "open" /\ requests = <<>> /\ writing = FALSE
      /\ pipe = 0 /\ loopPc = "start" /\ ready = {} /\ armed = FALSE /\ done = FALSE
      /\ sent = [t \in Targets |-> 0] /\ air = [t \in Targets |-> 0]
  BY DEF Init, ProcessorInit, ProberInit
<1>2. /\ file \in Seq(Targets \cup {"malformed"}) /\ Len(file) \in Nat
      /\ Interval \in Nat /\ Timeout \in Nat /\ PipeCap \in Nat
  BY <1>1, ProcessorAssumption, ProberAssumption
<1>5. pending \in Queues /\ pending \in [Addresses -> Seq(Targets)]
  <2>1. \A a \in Addresses : <<>> \in Seq(Targets) /\ <<>> \in Seq(Of(a))
    BY EmptySeq
  <2> QED
    BY <1>1, <2>1 DEF Queues
<1>3. TypeOK
  <2>1. /\ probing \in [Addresses -> Targets \cup {None}]
        /\ \A a \in Busy(probing) : Addr[probing[a]] = a
        /\ age \in [Addresses -> 0..Timeout + 1] /\ sinceTick \in 0..Interval
        /\ pipe \in 0..PipeCap /\ position \in 0..Len(file)
        /\ sent \in [Targets -> Nat] /\ air \in [Targets -> Nat]
    BY <1>1, <1>2 DEF Busy
  <2>2. /\ fromReader \in Seq(Seq(Targets)) /\ reported \in Seq(RowType)
        /\ toProber \in Seq(Targets \cup {"done"}) /\ requests \in Seq(Targets)
    BY <1>1, EmptySeq
  <2>3. /\ mainPc \in {"starting", "scanning", "failed"} /\ procPc \in {"up", "quit"}
        /\ asked \in BOOLEAN /\ proberPc \in {"open", "joining", "quit"} /\ writing \in BOOLEAN
        /\ loopPc \in {"start", "poll", "dispatch", "enable", "exited"}
        /\ ready \subseteq {"notify", "write"} /\ armed \in BOOLEAN /\ done \in BOOLEAN
    BY <1>1
  <2>4. file \in Seq(Targets \cup {"malformed"}) /\ toReader \in 0..1
    BY <1>1, <1>2
  <2> QED
    BY <1>5, <2>1, <2>2, <2>3, <2>4 DEF TypeOK
<1>4. OneBatch
  BY <1>1 DEF OneBatch
<1>6. ASSUME NEW t \in Targets
      PROVE  /\ Read(t) = 0 /\ Coming(t) = 0 /\ Waiting(t) = 0 /\ UnderWay(t) = 0
             /\ Rows(t) = 0 /\ Out(t) = 0
  <2>1. Read(t) = 0
    <3>1. {i \in 1..position : file[i] = t} = {}
      BY <1>1
    <3> QED
      BY <3>1, FS_EmptySet DEF Read
  <2>2. Coming(t) = 0
    BY <1>1 DEF Coming
  <2>3. Waiting(t) = 0
    <3>1. pending[Addr[t]] = <<>>
      BY <1>1, AddressesFinite
    <3> QED
      BY <3>1, OccurrencesEmpty DEF Waiting
  <2>4. UnderWay(t) = 0
    BY <1>1, AddressesFinite, ProcessorAssumption DEF UnderWay
  <2>5. Rows(t) = 0
    <3>1. TargetsOf(reported) = <<>>
      BY <1>1 DEF TargetsOf
    <3> QED
      BY <3>1, OccurrencesEmpty DEF Rows
  <2>6. Out(t) = 0
    <3>1. sent[t] = 0 /\ Occurrences(t, requests) = 0 /\ Occurrences(t, toProber) = 0
      BY <1>1, OccurrencesEmpty
    <3> QED
      BY <3>1 DEF Out
  <2> QED
    BY <2>1, <2>2, <2>3, <2>4, <2>5, <2>6
<1>7. Conserved
  BY <1>6 DEF Conserved
<1>8. ASSUME NEW t \in Targets PROVE BoundedBy(t, 0)
  <2>1. Allowed(0) \in Nat
    BY BoundFacts
  <2> QED
    BY <1>6, <2>1 DEF BoundedBy
<1>9. 0 \in 0..Repeats
  BY BoundFacts
<1>10. Bounded
  BY <1>8, <1>9 DEF Bounded
<1> QED
  BY <1>3, <1>4, <1>5, <1>7, <1>10 DEF ScanInv

LEMMA NextKeepsScan == ScanInv /\ [Next]_vars => ScanInv'
<1> SUFFICES ASSUME ScanInv, [Next]_vars PROVE ScanInv'
  OBVIOUS
<1>1. CASE CaptureRuns
  BY <1>1, OtherKeepsScan DEF CaptureRuns
<1>2. CASE CaptureFails
  BY <1>2, FailsKeepsScan
<1>3. CASE ProcessorDone \/ \E t \in Targets : Lose(t)
  BY <1>3, DoneOrLossKeepsScan
<1>4. CASE ProcessorStep
  BY <1>4, BatchKeepsScan, TickKeepsScan DEF ProcessorStep
<1>5. CASE ReaderStep
  BY <1>5, ReaderKeepsScan
<1>6. CASE ProberStep
  BY <1>6, ProberKeepsScan
<1>7. ASSUME NEW t \in Targets, Answer(t) PROVE ScanInv'
  <2>1. CASE HandleUdp(t)
    BY <1>7, <2>1, EventKeepsScan DEF Answer, HandleUdp
  <2>2. CASE HandleIcmp(t)
    BY <1>7, <2>2, EventKeepsScan DEF Answer, HandleIcmp
  <2>3. CASE HandleOther
    BY <1>7, <2>3, OtherKeepsScan DEF Answer
  <2> QED
    BY <1>7, <2>1, <2>2, <2>3 DEF Answer
<1>8. CASE Pass
  BY <1>8, PassKeepsScan
<1>9. CASE UNCHANGED vars
  <2>1. /\ UNCHANGED <<file, position, toReader, fromReader, procPc, asked, pending, probing,
                     age, sinceTick, reported, toProber, proberPc, requests, writing, pipe,
                     loopPc, ready, armed, done, sent, air, mainPc>>
    BY <1>9 DEF vars, readerVars, processorVars, proberVars, actorVars, loopVars
  <2>2. TypeOK' /\ OneBatch'
    BY <2>1 DEF ScanInv, TypeOK, OneBatch, Busy
  <2>3. \A t \in Targets : Out(t)' = Out(t)
    BY <2>1 DEF Out
  <2> QED
    BY <2>1, <2>2, <2>3, BooksKeep
<1> QED
  BY <1>1, <1>2, <1>3, <1>4, <1>5, <1>6, <1>7, <1>8, <1>9 DEF Next

(* Every target that was read from the file is in one place, as often as it *)
(* was read, however answers, ticks and batches are interleaved; and it is  *)
(* sent no more datagrams than its probes may have before they time out,    *)
(* even when the answer to one probe ends another to the same address.      *)
THEOREM TargetsAreInOnePlace == Spec => []EveryTargetOnce
<1>1. Init => ScanInv
  BY InitScan
<1>2. ScanInv /\ [Next]_vars => ScanInv'
  BY NextKeepsScan
<1>3. ScanInv => EveryTargetOnce
  BY ScanImplies
<1> QED
  BY <1>1, <1>2, <1>3, PTL DEF Spec

(* Every variable keeps its type: with it, a probe in progress is one to    *)
(* its address, and no more than one batch is asked for at a time.          *)
THEOREM ScanTypes == Spec => []TypeOK
<1>1. Init => ScanInv
  BY InitScan
<1>2. ScanInv /\ [Next]_vars => ScanInv'
  BY NextKeepsScan
<1>3. ScanInv => TypeOK
  BY DEF ScanInv
<1> QED
  BY <1>1, <1>2, <1>3, PTL DEF Spec
=============================================================================
