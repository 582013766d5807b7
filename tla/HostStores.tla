----------------------------- MODULE HostStores ------------------------------
(***************************************************************************)
(* The caches of hosts (libspoki/src/cache).  A store keeps the newest     *)
(* entry of each address and takes the entries of other stores; a rotating *)
(* store keeps what was inserted lately, in subsets of which the oldest is *)
(* dropped.                                                                *)
(***************************************************************************)
EXTENDS Integers, Sequences, Functions

CONSTANTS
  Stores, Hosts,
  Times,        \* timestamps of entries
  MaxSubsets,   \* max of rotate()
  MaxAge        \* bound: rotations that are told apart

ASSUME StoreAssumption ==
  /\ Times \subseteq Nat \ {0} /\ {MaxSubsets, MaxAge} \subseteq Nat \ {0}
  /\ MaxSubsets <= MaxAge

Entries == [ts : Times, consistent : BOOLEAN]
DefaultEntry == [ts |-> 0, consistent |-> FALSE]

VARIABLES
  store,     \* per store, data_: host to entry, the default if there is none
  seen,      \* history, per store: the entries that went into it
  subsets,   \* data_ of the rotating store, the newest first
  inserted   \* history, per host: the last entry and the rotations since then

storeVars == <<store, seen, subsets, inserted>>

Empty == [h \in Hosts |-> DefaultEntry]

StoresInit ==
  /\ store = [s \in Stores |-> Empty]
  /\ seen = [s \in Stores |-> {}]
  /\ subsets = <<Empty>>
  /\ inserted = [h \in Hosts |-> [entry |-> DefaultEntry, ago |-> 0]]

-----------------------------------------------------------------------------
(* store *)

Contains(data, h) == data[h] # DefaultEntry

Merged_LastWins(existing, e) == IF existing.ts <= e.ts THEN e ELSE existing

Merged(existing, e) ==
  IF existing.ts < e.ts THEN e
  ELSE IF existing.ts = e.ts
       THEN [existing EXCEPT !.consistent = @ /\ e.consistent]
       ELSE existing

MergeEntry(s, h, e) ==
  /\ store' = [store EXCEPT ![s][h] = IF Contains(store[s], h) THEN Merged(@, e) ELSE e]
  /\ seen' = [seen EXCEPT ![s] = @ \cup {<<h, e>>}]
  /\ UNCHANGED <<subsets, inserted>>

MergeStore(s, t) ==
  /\ s # t
  /\ store' = [store EXCEPT ![s] = [h \in Hosts |->
                 IF ~Contains(store[t], h) THEN @[h]
                 ELSE IF Contains(@, h) THEN Merged(@[h], store[t][h])
                 ELSE store[t][h]]]
  /\ seen' = [seen EXCEPT ![s] = @ \cup seen[t]]
  /\ UNCHANGED <<subsets, inserted>>

-----------------------------------------------------------------------------
(* rotating_store *)

InsertEntry(h, e) ==
  /\ subsets' = [subsets EXCEPT ![1][h] = e]
  /\ inserted' = [inserted EXCEPT ![h] = [entry |-> e, ago |-> 0]]
  /\ UNCHANGED <<store, seen>>

Rotate_DropNewest ==
  /\ subsets' = IF Len(subsets) >= MaxSubsets THEN <<Empty>> \o Tail(subsets)
                ELSE <<Empty>> \o subsets
  /\ inserted' = [h \in Hosts |-> [inserted[h] EXCEPT !.ago = IF @ < MaxAge THEN @ + 1 ELSE @]]
  /\ UNCHANGED <<store, seen>>

Rotate ==
  /\ subsets' = SubSeq(<<Empty>> \o subsets, 1,
                       IF Len(subsets) + 1 > MaxSubsets THEN Len(subsets)
                       ELSE Len(subsets) + 1)
  /\ inserted' = [h \in Hosts |-> [inserted[h] EXCEPT !.ago = IF @ < MaxAge THEN @ + 1 ELSE @]]
  /\ UNCHANGED <<store, seen>>

InSome(h) == {i \in DOMAIN subsets : Contains(subsets[i], h)}

Lookup(h) ==
  IF InSome(h) = {} THEN DefaultEntry
  ELSE subsets[CHOOSE i \in InSome(h) : \A j \in InSome(h) : i <= j][h]

StoresNext ==
  \/ \E s \in Stores, h \in Hosts, e \in Entries : MergeEntry(s, h, e)
  \/ \E s, t \in Stores : MergeStore(s, t)
  \/ \E h \in Hosts, e \in Entries : InsertEntry(h, e)
  \/ Rotate

StoresSpec == StoresInit /\ [][StoresNext]_storeVars

-----------------------------------------------------------------------------
(* Properties                                                              *)

(* Stores that have seen the same entries agree, in whatever order these   *)
(* came, from probes or from other stores, and however often.              *)
StoresAgree == \A s, t \in Stores : seen[s] = seen[t] => store[s] = store[t]

(* The rotating store finds the last entry of a host, not one of an older  *)
(* subset, until MaxSubsets rotations have dropped it.                     *)
LookupNewest ==
  \A h \in Hosts :
    Lookup(h) = IF inserted[h].ago < MaxSubsets THEN inserted[h].entry ELSE DefaultEntry
=============================================================================
