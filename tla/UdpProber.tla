------------------------------ MODULE UdpProber ------------------------------
(***************************************************************************)
(* The UDP prober (libspoki/src/probe/udp_prober.cpp): an actor puts       *)
(* requests into a queue, a thread with a poll loop (the variant of Linux  *)
(* builds) sends them as raw datagrams.  They share the queue and the flag *)
(* writing_, and a socket pair whose bytes wake the loop.                  *)
(*                                                                         *)
(* add_request() and handle_probe_write() hold the mutex and are one step  *)
(* each; handle_notify_read() sets writing_ without it.                    *)
(***************************************************************************)
EXTENDS Integers, Sequences, FiniteSets

CONSTANTS
  Targets,    \* what can be probed: one line of the target file
  PipeCap,    \* bytes the socket pair holds
  ReadChunk   \* bytes one notify read takes from it (16)

ASSUME ProberAssumption ==
  /\ PipeCap \in Nat \ {0} /\ ReadChunk \in Nat \ {0}
  /\ IsFiniteSet(Targets) /\ "done" \notin Targets

VARIABLES
  toProber,   \* mailbox of the prober actor: targets, or "done"
  proberPc,   \* "open" | "joining" | "quit"
  requests,   \* requests_
  writing,    \* writing_
  pipe,       \* bytes in the socket pair
  loopPc,     \* "start" | "poll" | "dispatch" | "enable" | "exited"
  ready,      \* events of the current poll() that are not dispatched yet
  armed,      \* POLLOUT is set for the raw socket
  done,       \* done_
  sent,       \* history: datagrams sent to each target
  air         \* per target: datagrams the network has not dealt with yet

actorVars == <<proberPc>>
loopVars == <<loopPc, ready, armed>>
proberVars == <<toProber, actorVars, requests, writing, pipe, loopVars, done,
                sent, air>>

ProberInit ==
  /\ toProber = <<>> /\ proberPc = "open"
  /\ requests = <<>> /\ writing = FALSE /\ pipe = 0
  /\ loopPc = "start" /\ ready = {} /\ armed = FALSE /\ done = FALSE
  /\ sent = [t \in Targets |-> 0] /\ air = [t \in Targets |-> 0]

-----------------------------------------------------------------------------
(* The actor. *)

(* poke(): the socket does not block, a byte that does not fit is dropped. *)
Poked == IF pipe < PipeCap THEN pipe + 1 ELSE pipe

Receive(message) ==
  /\ proberPc = "open" /\ toProber # <<>> /\ Head(toProber) = message
  /\ toProber' = Tail(toProber)

(* add_request() wakes the loop unless it is writing anyway. *)
AddRequest(t) ==
  /\ Receive(t)
  /\ requests' = Append(requests, t)
  /\ pipe' = IF writing THEN pipe ELSE Poked
  /\ UNCHANGED <<proberPc, writing, loopVars, done, sent, air>>

(* shutdown(): done_ is set, the loop is woken and joined. *)
ShutDown ==
  /\ Receive("done")
  /\ done' = TRUE
  /\ pipe' = Poked
  /\ proberPc' = "joining"
  /\ UNCHANGED <<requests, writing, loopVars, sent, air>>

Join ==
  /\ proberPc = "joining" /\ loopPc = "exited"
  /\ proberPc' = "quit"
  /\ UNCHANGED <<toProber, requests, writing, pipe, loopVars, done, sent, air>>

ProberActor == (\E t \in Targets : AddRequest(t)) \/ ShutDown \/ Join

-----------------------------------------------------------------------------
(* The thread: run() and its two callbacks. *)

LoopStart ==
  /\ loopPc = "start"
  /\ loopPc' = "dispatch"
  /\ done' = FALSE
  /\ UNCHANGED <<toProber, proberPc, requests, writing, pipe, ready, armed,
                 sent, air>>

(* The raw socket is writable whenever the loop asks. *)
PollReturn ==
  /\ loopPc = "poll"
  /\ pipe > 0 \/ armed
  /\ ready' = (IF pipe > 0 THEN {"notify"} ELSE {})
                \cup (IF armed THEN {"write"} ELSE {})
  /\ loopPc' = "dispatch"
  /\ UNCHANGED <<toProber, proberPc, requests, writing, pipe, armed, done, sent,
                 air>>

(* When all callbacks of the poll set, if any, were called, in its order,   *)
(* done_ is checked.                                                        *)
LoopCheck ==
  /\ loopPc = "dispatch" /\ ready = {}
  /\ loopPc' = IF done THEN "exited" ELSE "poll"
  /\ UNCHANGED <<toProber, proberPc, requests, writing, pipe, ready, armed,
                 done, sent, air>>

(* handle_notify_read() takes bytes from the pair ... *)
NotifyRead ==
  /\ loopPc = "dispatch" /\ "notify" \in ready
  /\ ready' = ready \ {"notify"}
  /\ pipe' = IF pipe < ReadChunk THEN 0 ELSE pipe - ReadChunk
  /\ loopPc' = "enable"
  /\ UNCHANGED <<toProber, proberPc, requests, writing, armed, done, sent, air>>

(* ... and switches writing on. *)
EnableWrite(arms) ==
  /\ loopPc = "enable"
  /\ loopPc' = "dispatch"
  /\ armed' = arms
  /\ writing' = TRUE
  /\ UNCHANGED <<toProber, proberPc, requests, pipe, ready, done, sent, air>>

NotifyEnable_IfQueued == EnableWrite(requests # <<>>)
NotifyEnable == EnableWrite(TRUE)

(* handle_probe_write(): one request is sent; one that fails to be is gone, *)
(* too, like a datagram that the network loses.  Writing is switched off    *)
(* with the last one.                                                       *)
WriteOne(left, off) ==
  /\ loopPc = "dispatch" /\ "notify" \notin ready /\ "write" \in ready
  /\ ready' = {}
  /\ requests' = left
  /\ armed' = (armed /\ ~off) /\ writing' = (writing /\ ~off)
  /\ IF requests = <<>> THEN UNCHANGED <<sent, air>>
     ELSE LET t == Head(requests)
          IN /\ sent' = [sent EXCEPT ![t] = @ + 1]
             /\ air' = [air EXCEPT ![t] = @ + 1]
  /\ UNCHANGED <<toProber, proberPc, pipe, loopPc, done>>

Rest == IF requests = <<>> THEN <<>> ELSE Tail(requests)
ProbeWrite == WriteOne(Rest, Rest = <<>>)

ProberLoop ==
  \/ LoopStart \/ LoopCheck \/ PollReturn
  \/ NotifyRead \/ NotifyEnable \/ ProbeWrite
=============================================================================
