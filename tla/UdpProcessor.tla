---------------------------- MODULE UdpProcessor ----------------------------
(***************************************************************************)
(* The UDP scan tool's processor (tools/src/udp_processor.cpp), which      *)
(* probes the targets of a file, and the reader of that file               *)
(* (tools/src/batch_reader.cpp).                                           *)
(*                                                                         *)
(* The processor asks the reader for batches, has at most one probe per    *)
(* address under way, repeats it on its ticks, and writes a line for each  *)
(* target: what answered it, or that nothing did.                          *)
(***************************************************************************)
EXTENDS UdpProber, SequencesExt

CONSTANTS
  Files,       \* target files: sequences of targets and malformed lines
  BatchSize,   \* batch_size (5)
  Threshold,   \* threshold (10)
  Interval,    \* interval (6 s), in units of time
  Timeout,     \* timeout (20 s)
  None,        \* no target
  Addr, Sport, Dport   \* daddr, sport and dport of a target

ASSUME ProcessorAssumption ==
  /\ \A f \in Files : f \in Seq(Targets \cup {"malformed"})
  /\ BatchSize \in Nat \ {0} /\ Threshold \in Nat \ {0}
  /\ Interval \in Nat \ {0} /\ Timeout \in Nat /\ Interval < Timeout
  /\ None \notin Targets /\ "malformed" \notin Targets
  /\ DOMAIN Addr = Targets /\ DOMAIN Sport = Targets /\ DOMAIN Dport = Targets

Addresses == {Addr[t] : t \in Targets}

VARIABLES
  file,        \* the target file
  position,    \* lines the reader has read
  toReader,    \* requests on their way to the reader
  fromReader,  \* batches on their way to the processor
  procPc,      \* "up" | "quit"
  asked,       \* asked
  pending,     \* per address: pending
  probing,     \* per address: the target that is in_progress, or None
  age,         \* per address: time since the probe was started
  sinceTick,   \* time since the tick before, as far as it matters
  reported     \* the output file: [target, how]

readerVars == <<file, position>>
processorVars == <<toReader, fromReader, procPc, asked, pending,
                   probing, age, sinceTick, reported>>

ProcessorInit ==
  /\ file \in Files
  /\ position = 0
  /\ toReader = 0 /\ fromReader = <<>>
  /\ procPc = "up" /\ asked = FALSE
  /\ pending = [a \in Addresses |-> <<>>]
  /\ probing = [a \in Addresses |-> None] /\ age = [a \in Addresses |-> 0]
  /\ sinceTick = 0 /\ reported = <<>>

-----------------------------------------------------------------------------
(* The reader. *)

(* The elements of a sequence at some of its positions, in their order.     *)
Picked(s, at) ==
  [k \in 1..Cardinality(at) |->
     s[CHOOSE i \in at : Cardinality({j \in at : j < i}) = k - 1]]

WellFormed == {i \in DOMAIN file : file[i] # "malformed"}

(* Lines are read until a batch is full or the file ends.  The batch may be *)
(* empty then.  eatsNext: the line after a full batch is read, too.         *)
ReadLines(eatsNext) ==
  /\ toReader > 0
  /\ toReader' = toReader - 1
  /\ LET batch(end) == Picked(file, {i \in WellFormed : position < i /\ i <= end})
         full(end) == Len(batch(end)) = BatchSize
     IN \E end \in position..Len(file) :
          /\ full(end) \/ end = Len(file)
          /\ \A k \in position..end - 1 : ~full(k)
          /\ position' = IF eatsNext /\ full(end) /\ end < Len(file) THEN end + 1
                         ELSE end
          /\ fromReader' = Append(fromReader, batch(end))
  /\ UNCHANGED <<file, procPc, asked, pending, probing, age, sinceTick,
                 reported, proberVars>>

ReadBatch_GetlineFirst == ReadLines(TRUE)
ReadBatch == ReadLines(FALSE)

-----------------------------------------------------------------------------
(* The processor. *)

Busy(prog) == {a \in Addresses : prog[a] # None}

(* request_more() at the end of a handler, for the probes then in progress. *)
Ask(ask, wasAsked) ==
  /\ toReader' = IF ask THEN toReader + 1 ELSE toReader
  /\ asked' = (wasAsked \/ ask)

RequestMore(wasAsked, prog) ==
  Ask(~wasAsked /\ Cardinality(Busy(prog)) < Threshold, wasAsked)

(* start_probes() when prog is in progress and queues are pending: every    *)
(* address that has none gets a probe for its first target.                 *)
Startable(prog, queues) ==
  {a \in Addresses : prog[a] = None /\ queues[a] # <<>>}
Started(prog, queues) ==
  [a \in Addresses |-> IF a \in Startable(prog, queues) THEN Head(queues[a])
                       ELSE prog[a]]
Dequeued(prog, queues) ==
  [a \in Addresses |-> IF a \in Startable(prog, queues) THEN Tail(queues[a])
                       ELSE queues[a]]

(* Messages to the prober for some addresses; the hash maps of the code     *)
(* are in no particular order.                                              *)
InAnyOrder(addresses, target) ==
  {[i \in DOMAIN order |-> target[order[i]]] : order \in SetToSeqs(addresses)}

(* A captured packet, the answer to a datagram for target x.  A datagram    *)
(* from the port that is probed, or a message that it is unreachable, ends  *)
(* the probe, and the next one to this address starts.  An unreachable      *)
(* message has the ports of our own datagram, and the code compares port,   *)
(* its source port.  That the packet waits in the network and in the        *)
(* mailbox is the same to the processor, and there are no empty events.     *)
HandleEvent(x, kind, port) ==
  /\ procPc = "up" /\ air[x] > 0
  /\ air' = [air EXCEPT ![x] = @ - 1]
  /\ LET a == Addr[x]
         t == probing[a]
         ends == t # None /\ port = Dport[t]
         idle == IF ends THEN [probing EXCEPT ![a] = None] ELSE probing
         here == [b \in Addresses |-> IF ends /\ b = a THEN pending[b] ELSE <<>>]
         next == Started(idle, here)
     IN /\ reported' = IF ends THEN Append(reported, [target |-> t, how |-> kind])
                       ELSE reported
        /\ probing' = next
        /\ pending' = IF ends THEN [pending EXCEPT ![a] = Dequeued(idle, here)[a]]
                      ELSE pending
        /\ age' = IF ends THEN [age EXCEPT ![a] = 0] ELSE age
        /\ toProber' = IF ends /\ next[a] # None THEN Append(toProber, next[a])
                       ELSE toProber
        /\ RequestMore(asked, next)
  /\ UNCHANGED <<readerVars, fromReader, procPc, sinceTick, proberPc, requests,
                 writing, pipe, loopVars, done, sent>>

HandleUdp(x) == HandleEvent(x, "udp", Dport[x])
HandleIcmp(x) == HandleEvent(x, "icmp", Sport[x])

(* A batch of targets; an empty one is taken for the end of the file.       *)
HandleBatch(stillAsked) ==
  /\ procPc = "up" /\ fromReader # <<>>
  /\ fromReader' = Tail(fromReader)
  /\ LET batch == Head(fromReader)
         queues == [a \in Addresses |->
                      pending[a] \o
                        Picked(batch, {i \in DOMAIN batch : Addr[batch[i]] = a})]
         next == Started(probing, queues)
         starts == Startable(probing, queues)
     IN /\ pending' = Dequeued(probing, queues)
        /\ probing' = next
        /\ age' = [a \in Addresses |-> IF a \in starts THEN 0 ELSE age[a]]
        /\ \E messages \in InAnyOrder(starts, next) : toProber' = toProber \o messages
        /\ RequestMore(asked /\ (stillAsked \/ batch = <<>>), next)
  /\ UNCHANGED <<readerVars, procPc, sinceTick, reported, proberPc,
                 requests, writing, pipe, loopVars, done, sent, air>>

HandleTargets_StillAsked == HandleBatch(TRUE)
HandleTargets == HandleBatch(FALSE)

(* The tick: probes that are too old are given up, others are repeated, and *)
(* new ones are started.                                                    *)
TickWith(over, repeat, startable) ==
  /\ procPc = "up" /\ sinceTick = Interval
  /\ sinceTick' = 0
  /\ LET idle == [a \in Addresses |-> IF a \in over THEN None ELSE probing[a]]
         here == [a \in Addresses |-> IF a \in startable THEN pending[a] ELSE <<>>]
         next == Started(idle, here)
         starts == Startable(idle, here)
     IN /\ \E lines \in InAnyOrder(over, probing) :
             reported' = reported \o [i \in DOMAIN lines |->
                                        [target |-> lines[i], how |-> "-"]]
        /\ \E again \in InAnyOrder(repeat, probing), new \in InAnyOrder(starts, next) :
             toProber' = toProber \o again \o new
        /\ probing' = next
        /\ pending' = [a \in Addresses |-> IF a \in starts THEN Tail(pending[a])
                                           ELSE pending[a]]
        /\ age' = [a \in Addresses |-> IF a \in over \cup starts THEN 0 ELSE age[a]]
        /\ RequestMore(asked, next)
  /\ UNCHANGED <<readerVars, fromReader, procPc, proberPc,
                 requests, writing, pipe, loopVars, done, sent, air>>

Over == {a \in Busy(probing) : age[a] > Timeout}
Repeat == {a \in Busy(probing) : Interval < age[a] /\ age[a] <= Timeout}

Tick == TickWith(Over, Repeat, Addresses)

(* The message that the capture runs, or a packet of somebody else. *)
HandleOther ==
  /\ procPc = "up"
  /\ RequestMore(asked, probing)
  /\ UNCHANGED <<readerVars, fromReader, procPc, pending, probing, age,
                 sinceTick, reported, proberVars>>

HandleDone ==
  /\ procPc' = "quit"
  /\ UNCHANGED <<readerVars, toReader, fromReader, asked, pending,
                 probing, age, sinceTick, reported, proberVars>>
=============================================================================
