----------------------------- MODULE EventLoops ------------------------------
(***************************************************************************)
(* The loops of builds for other systems: the driver with kqueue and with  *)
(* poll (driver.cpp), the UDP prober and the decoder of the broker with    *)
(* kqueue (udp_prober.cpp, async_decoder.cpp).  The loops of Linux builds  *)
(* are in ScamperDriver, UdpProber and AsyncDecoder; here is what differs: *)
(* what is watched, what a call returns at once, in which order it is      *)
(* dispatched while the handlers change what is watched, and what errors   *)
(* do.  The handlers are those of the other modules, reduced to whether a  *)
(* writer has something that it could write now.                           *)
(***************************************************************************)
EXTENDS Integers, Sequences, FiniteSets

CONSTANTS
  Loops,     \* subset of AllLoops
  MaxInput   \* bound: requests, and messages of scamper

AllLoops == {"driver_kqueue", "driver_poll", "prober_kqueue", "decoder_kqueue"}

ASSUME LoopAssumption == Loops \subseteq AllLoops /\ MaxInput \in Nat

VARIABLES
  loop,      \* which of the loops
  at,        \* "setup" | "wait" | "batch" | "ended"
  watched,   \* pairs of descriptor and operation that are enabled
  batch,     \* events of the last call that are not dispatched yet
  readable,  \* per reading descriptor: whether there is something to read
  work,      \* per writing descriptor: what can be written now
  flag,      \* per writing descriptor: scamper_writing_, decoding_, writing_
  stopped,   \* done_
  queue,     \* the kqueue: "none" | "open" | "closed"
  input,     \* history: requests and messages
  hungUp     \* scamper has closed its end

loopVars == <<loop, at, watched, batch, readable, work, flag, stopped, queue,
              input, hungUp>>

Kqueue == loop # "driver_poll"
Driver == loop \in {"driver_kqueue", "driver_poll"}
Prober == loop = "prober_kqueue"

(* In the order of the array that poll() is called with. *)
Descriptors == <<"notify", "decode_write", "decode_read", "scamper", "probe_out">>

Writers ==
  CASE Driver -> {"decode_write", "scamper"}
    [] Prober -> {"probe_out"}
    [] OTHER  -> {"decode_write"}

(* The driver begins with the command to attach and permission to send it. *)
LoopsInit ==
  /\ loop \in Loops
  /\ at = "setup" /\ watched = {} /\ batch = {}
  /\ readable = [fd \in {"notify", "decode_read", "scamper"} |-> FALSE]
  /\ work = [fd \in {"decode_write", "scamper", "probe_out"} |->
               IF Driver /\ fd = "scamper" THEN 1 ELSE 0]
  /\ flag = [fd \in {"decode_write", "scamper", "probe_out"} |-> FALSE]
  /\ stopped = FALSE /\ queue = "none" /\ input = 0 /\ hungUp = FALSE

-----------------------------------------------------------------------------
(* The world: probe(), add_request() and write() of other threads, scamper. *)

Request ==
  /\ input < MaxInput
  /\ input' = input + 1
  /\ IF Prober
     THEN /\ work' = [work EXCEPT !["probe_out"] = @ + 1]
          /\ readable' = [readable EXCEPT !["notify"] = @ \/ ~flag["probe_out"]]
     ELSE readable' = [readable EXCEPT !["notify"] = TRUE] /\ UNCHANGED work
  /\ UNCHANGED <<loop, at, watched, batch, flag, stopped, queue, hungUp>>

ScamperSends ==
  /\ Driver /\ ~hungUp /\ input < MaxInput
  /\ input' = input + 1
  /\ readable' = [readable EXCEPT !["scamper"] = TRUE]
  /\ UNCHANGED <<loop, at, watched, batch, work, flag, stopped, queue, hungUp>>

ScamperHangsUp ==
  /\ Driver /\ ~hungUp /\ hungUp' = TRUE
  /\ UNCHANGED <<loop, at, watched, batch, readable, work, flag, stopped, queue, input>>

StopCalled ==
  /\ at # "ended" /\ ~stopped /\ stopped' = TRUE
  /\ readable' = [readable EXCEPT !["notify"] = TRUE]
  /\ UNCHANGED <<loop, at, watched, batch, work, flag, queue, input, hungUp>>

-----------------------------------------------------------------------------
(* The loop itself. *)

DriverWatches == {<<"notify", "read">>, <<"decode_read", "read">>,
                  <<"scamper", "read">>, <<"scamper", "write">>}
ProberWatches == {<<"notify", "read">>}
DecoderWatches == {<<"notify", "read">>, <<"decode_read", "read">>}

(* A kqueue that cannot be set up stays open and the thread is gone.  The  *)
(* prober hands over three events of an array of two.  The others forget   *)
(* a stop() that came before.                                              *)
SetUp ==
  /\ at = "setup"
  /\ stopped' = (stopped /\ Prober)
  /\ \/ /\ at' = "wait"
        /\ watched' = (CASE Driver -> DriverWatches
                         [] Prober -> ProberWatches
                         [] OTHER  -> DecoderWatches)
     \/ Kqueue /\ at' = "ended" /\ UNCHANGED watched
  /\ queue' = IF Kqueue THEN "open" ELSE "none"
  /\ UNCHANGED <<loop, batch, readable, work, flag, input, hungUp>>

CanRead(fd) == readable[fd] \/ (fd = "scamper" /\ hungUp)

(* What is returned of the events: poll() returns both operations of a     *)
(* descriptor, and then it is only read; a kqueue marks the end of a       *)
(* stream.                                                                 *)
Returned(events) ==
  IF Kqueue THEN {IF hungUp /\ e[1] = "scamper" THEN <<"scamper", "eof">> ELSE e : e \in events}
  ELSE {e \in events : e[2] = "write" => <<e[1], "read">> \notin events}

(* All that is watched and can be read, and any of the writers. *)
Wait ==
  /\ at = "wait" /\ ~stopped
  /\ \E writable \in SUBSET Writers :
       LET events == {e \in watched : IF e[2] = "read" THEN CanRead(e[1])
                                      ELSE e[1] \in writable}
       IN  /\ events # {}
           /\ batch' = Returned(events)
  /\ at' = "batch"
  /\ UNCHANGED <<loop, watched, readable, work, flag, stopped, queue, input, hungUp>>

WaitFails ==
  /\ at = "wait" /\ ~stopped
  /\ stopped' = TRUE
  /\ UNCHANGED <<loop, at, watched, batch, readable, work, flag, queue, input, hungUp>>

BatchDone ==
  /\ at = "batch" /\ batch = {}
  /\ at' = "wait"
  /\ UNCHANGED <<loop, watched, batch, readable, work, flag, stopped, queue, input, hungUp>>

Position(fd) == CHOOSE i \in DOMAIN Descriptors : Descriptors[i] = fd

(* poll() is dispatched in the order of the array, a kqueue in its own. *)
Dispatch(e) ==
  /\ at = "batch" /\ e \in batch
  /\ ~Kqueue => \A f \in batch : Position(e[1]) <= Position(f[1])
  /\ batch' = batch \ {e}

(* The end of a stream is no event for the handler, and stops the loop     *)
(* after the batch.                                                        *)
EndOfStream ==
  /\ Dispatch(<<"scamper", "eof">>)
  /\ stopped' = TRUE
  /\ UNCHANGED <<loop, at, watched, readable, work, flag, queue, input, hungUp>>

(* mod() of a kqueue that fails stops the loop; a flag changes all the     *)
(* same.                                                                   *)
Mod(S, next) ==
  \/ watched' = next /\ UNCHANGED stopped
  \/ Kqueue /\ S # {} /\ stopped' = TRUE /\ UNCHANGED watched

Enable(S) ==
  /\ flag' = [fd \in DOMAIN flag |-> flag[fd] \/ fd \in S]
  /\ Mod(S, watched \cup (S \X {"write"}))

Disable(S) ==
  /\ flag' = [fd \in DOMAIN flag |-> flag[fd] /\ fd \notin S]
  /\ Mod(S, watched \ (S \X {"write"}))

(* A handler that leaves n more units for each writer switches on the      *)
(* writers that have no flag yet.                                          *)
Unflagged_Always(n) == {fd \in DOMAIN n : ~flag[fd]}

Unflagged(n) == {fd \in DOMAIN n : n[fd] > 0 /\ ~flag[fd]}

Leaves(n) ==
  /\ work' = [fd \in DOMAIN work |-> IF fd \in DOMAIN n THEN work[fd] + n[fd] ELSE work[fd]]
  /\ Enable(Unflagged(n))

(* The prober switches on whatever is in its queue; for the driver there   *)
(* may be no command, or no permission to send it, for the decoder no data *)
(* that was not taken with an earlier byte.                                *)
NotifyRead ==
  /\ Dispatch(<<"notify", "read">>)
  /\ readable' = [readable EXCEPT !["notify"] = FALSE]
  /\ CASE Driver -> \E n \in [{"scamper"} -> 0 .. 1] : Leaves(n)
       [] Prober -> Enable({"probe_out"}) /\ UNCHANGED work
       [] OTHER  -> \E n \in [{"decode_write"} -> 0 .. 1] : Leaves(n)
  /\ UNCHANGED <<loop, at, queue, input, hungUp>>

(* Permission for a command, data to decode, or both. *)
ScamperRead ==
  /\ Dispatch(<<"scamper", "read">>)
  /\ readable' = [readable EXCEPT !["scamper"] = FALSE]
  /\ \E n \in [Writers -> 0 .. 1] :
       (~readable["scamper"] => \A fd \in Writers : n[fd] = 0) /\ Leaves(n)
  /\ UNCHANGED <<loop, at, queue, input, hungUp>>

DecodeRead ==
  /\ Dispatch(<<"decode_read", "read">>)
  /\ readable' = [readable EXCEPT !["decode_read"] = FALSE]
  /\ UNCHANGED <<loop, at, watched, work, flag, stopped, queue, input, hungUp>>

(* A write, which may be a partial one but for the prober, stops the       *)
(* writing with the last unit.                                             *)
Write(fd) ==
  /\ Dispatch(<<fd, "write">>)
  /\ \E left \in (IF work[fd] = 0 THEN {0}
                  ELSE IF Prober THEN {work[fd] - 1} ELSE {work[fd], work[fd] - 1}) :
       /\ work' = [work EXCEPT ![fd] = left]
       /\ IF left = 0 THEN Disable({fd}) ELSE UNCHANGED <<flag, watched, stopped>>
  /\ readable' = [readable EXCEPT !["decode_read"] = @ \/ fd = "decode_write"]
  /\ UNCHANGED <<loop, at, queue, input, hungUp>>

(* The driver removes an event that it never added, which fails, and the   *)
(* prober again one too many, which may: then the kqueue stays open.       *)
DriverLeaves == {"open"}
ProberLeaves == {"open", "closed"}
DecoderLeaves == {"closed"}

TearDown ==
  /\ at = "wait" /\ stopped
  /\ at' = "ended"
  /\ watched' = {}
  /\ queue' \in (CASE loop = "driver_poll"    -> {"none"}
                   [] loop = "driver_kqueue"  -> DriverLeaves
                   [] loop = "prober_kqueue"  -> ProberLeaves
                   [] loop = "decoder_kqueue" -> DecoderLeaves)
  /\ UNCHANGED <<loop, batch, readable, work, flag, stopped, input, hungUp>>

LoopsNext ==
  \/ Request \/ ScamperSends \/ ScamperHangsUp \/ StopCalled
  \/ SetUp \/ Wait \/ WaitFails \/ BatchDone \/ EndOfStream \/ TearDown
  \/ NotifyRead \/ ScamperRead \/ DecodeRead
  \/ \E fd \in Writers : Write(fd)

LoopsSpec == LoopsInit /\ [][LoopsNext]_loopVars

-----------------------------------------------------------------------------
(* Properties *)

(* As long as a loop is not to stop, every writer that has something to    *)
(* write is watched, or a byte will tell the loop; a writer that has       *)
(* nothing is not, but for the prober's, so that none of its events, also  *)
(* none that was returned before other handlers ran, meets an empty buffer *)
(* or queue.                                                               *)
WritersAreWatched ==
  at \in {"wait", "batch"} /\ ~stopped =>
    \A fd \in Writers :
      /\ work[fd] > 0 => <<fd, "write">> \in watched \/ (Prober /\ readable["notify"])
      /\ ~Prober /\ <<fd, "write">> \in watched \cup batch => work[fd] > 0
=============================================================================
