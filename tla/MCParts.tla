------------------------------- MODULE MCParts -------------------------------
(***************************************************************************)
(* The parts of the library that have nothing to do with each other, for   *)
(* TLC: a behaviour is about one of them, which never changes, and leaves  *)
(* the others as they were.                                                *)
(***************************************************************************)
EXTENDS HashRing, HostStores, TraceReader, Lifecycles, EventLoops, IpIds

CONSTANTS b1, b2, b3

(* Two buckets share a hash. *)
MCHashOf == [b \in Buckets |-> CASE b = b1 -> 1 [] b = b2 -> 3 [] b = b3 -> 3]

(* Frames that are kept, filtered, of another version and of none. *)
MCFrames ==
  {[ether |-> "ipv4", saddr |-> "other", daddr |-> "network", transport |-> "icmp_udp"],
   [ether |-> "ipv4", saddr |-> "filtered", daddr |-> "network", transport |-> "tcp"],
   [ether |-> "ipv6", saddr |-> "other", daddr |-> "other", transport |-> "udp"],
   [ether |-> "arp", saddr |-> "other", daddr |-> "network", transport |-> "none"]}

(* Bounds that are constant, as for UDP, bounds that grow, and those of a    *)
(* protocol that is not supported.                                          *)
MCBounds ==
  {[sl |-> 0, cl |-> 2, sh |-> 0, ch |-> 2], [sl |-> 20, cl |-> 1, sh |-> 10, ch |-> 1],
   [sl |-> 0, cl |-> 0, sh |-> 0, ch |-> 0]}

VARIABLE part

Parts == {"ring", "store", "rotating", "reader", "life", "loops", "task"}

vars == <<part, ringVars, storeVars, readerVars, lifeVars, loopVars, taskVars>>

Init ==
  /\ part \in Parts
  /\ RingInit /\ StoresInit /\ ReaderInit
  /\ LifeInit /\ (part # "life" => kind = "driver")
  /\ LoopsInit /\ (part # "loops" => loop = "driver_poll")
  /\ TaskInit /\ (part # "task" => initial = 9)

Ring == part = "ring" /\ RingNext /\ UNCHANGED <<storeVars, readerVars, lifeVars, loopVars, taskVars>>

HostStore ==
  /\ part = "store" /\ StoresNext /\ subsets' = subsets /\ inserted' = inserted
  /\ UNCHANGED <<ringVars, readerVars, lifeVars, loopVars, taskVars>>

RotatingStore ==
  /\ part = "rotating" /\ StoresNext /\ store' = store /\ seen' = seen
  /\ UNCHANGED <<ringVars, readerVars, lifeVars, loopVars, taskVars>>

TheReader ==
  part = "reader" /\ ReaderNext /\ UNCHANGED <<ringVars, storeVars, lifeVars, loopVars, taskVars>>

Life == part = "life" /\ LifeNext /\ UNCHANGED <<ringVars, storeVars, readerVars, loopVars, taskVars>>

Loop == part = "loops" /\ LoopsNext /\ UNCHANGED <<ringVars, storeVars, readerVars, lifeVars, taskVars>>

Task == part = "task" /\ TaskNext /\ UNCHANGED <<ringVars, storeVars, readerVars, lifeVars, loopVars>>

Next ==
  /\ Ring \/ HostStore \/ RotatingStore \/ TheReader \/ Life \/ Loop \/ Task
  /\ UNCHANGED part

Fairness == WF_vars(Walk /\ UNCHANGED <<part, storeVars, readerVars, lifeVars, loopVars, taskVars>>)

Spec == Init /\ [][Next]_vars /\ Fairness

(* When the loop of a walk has an end. *)
Ends ==
  /\ walk.running
  /\ HashOf[walk.of] \in DOMAIN ring
     \/ Cardinality({ring[p] : p \in Others(walk.of)}) >= walk.n

(* A call of next() or previous() returns what it should, as long as the   *)
(* point it starts from is on the ring or there are enough other buckets   *)
(* to find; if neither is so, its loop has no end.  (Of what is walked     *)
(* from, in which way and for how much nothing changes meanwhile.)         *)
WalksFind == Ends ~> ~walk.running /\ walk.result = Nearest(walk.way, walk.of, walk.n)
=============================================================================
