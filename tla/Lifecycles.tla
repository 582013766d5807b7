----------------------------- MODULE Lifecycles ------------------------------
(***************************************************************************)
(* How the parts that run a thread of their own come and go: the driver    *)
(* (driver.cpp, with connect() of tcp.cpp and unix.cpp), the UDP prober    *)
(* (udp_prober.cpp) and the decoder of the broker (async_decoder.cpp).     *)
(* Each has a factory that takes what it needs from the system step by     *)
(* step, any of which may fail, and a destructor that gives it back.       *)
(* A behaviour is about one part, which is made again after it has failed  *)
(* or gone; what it holds are handles with names.                          *)
(***************************************************************************)
EXTENDS Integers, Sequences

CONSTANTS
  Kinds,     \* subset of {"driver", "prober", "decoder"}
  MaxMakes   \* bound: calls of the factory

ASSUME LifecycleAssumption ==
  Kinds \subseteq {"driver", "prober", "decoder"} /\ MaxMakes \in Nat

VARIABLES
  kind,      \* the part
  phase,     \* "none" | "connecting" | "making" | "runs" | "exit"
  step,      \* the step of its factory that comes next
  held,      \* handles that are open and known
  leaked,    \* history: handles that are open and nobody knows any more
  strays,    \* history: handles closed though not, or no longer, its own
  makes      \* history: calls of its factory

lifeVars == <<kind, phase, step, held, leaked, strays, makes>>

LifeInit ==
  /\ kind \in Kinds
  /\ phase = "none" /\ step = 1 /\ held = {}
  /\ leaked = {} /\ strays = {} /\ makes = 0

-----------------------------------------------------------------------------
(* The steps of the factories: what one gets, and what is freed by hand if *)
(* it fails.                                                               *)

DecodePair == {"decode_read", "decode_write"}
NotifyPair == {"notify_read", "notify_write"}

Try(gets, frees) == [gets |-> gets, frees |-> frees]

DriverSteps_FileForgotten ==
  <<Try(DecodePair, {}), Try({"file"}, {}), Try({"filter"}, {"file"}),
    Try({"writebuf"}, {"file", "filter"}), Try(NotifyPair, {"writebuf", "filter"})>>

DriverSteps ==
  <<Try(DecodePair, {}), Try({"file"}, {}), Try({"filter"}, {"file"}),
    Try({"writebuf"}, {"file", "filter"}), Try(NotifyPair, {"file", "writebuf", "filter"})>>

(* The second and the fourth only set options of sockets. *)
ProberSteps ==
  <<Try({"probe_out"}, {}), Try({}, {"probe_out"}), Try(NotifyPair, {"probe_out"}),
    Try({}, {"probe_out"} \cup NotifyPair)>>

DecoderSteps ==
  <<Try(DecodePair, {}), Try({"file"}, {}), Try({}, {}), Try({"filter"}, {}),
    Try({"writebuf"}, {}), Try(NotifyPair, {}), Try({}, {})>>

FactorySteps ==
  CASE kind = "driver" -> DriverSteps
    [] kind = "prober" -> ProberSteps
    [] kind = "decoder" -> DecoderSteps

AllStepsDone == phase = "making" /\ step > Len(FactorySteps)

(* Descriptors of the driver are in socket guards until it is made. *)
Guarded ==
  IF kind = "driver" THEN held \cap ({"scamper", "stdout"} \cup DecodePair \cup NotifyPair)
  ELSE {}

(* Frees objects by hand, then closes descriptors.  Freeing a file of      *)
(* scamper has closed its descriptor already (external).                   *)
GiveBack(objects, descriptors) ==
  LET freed == IF "file" \in objects THEN objects \cup {"decode_read"} ELSE objects
  IN  /\ phase' = "none"
      /\ held' = {}
      /\ leaked' = leaked \cup (held \ (freed \cup descriptors))
      /\ strays' = strays \cup (freed \cap descriptors) \cup (descriptors \cap {"stdout"})
      /\ UNCHANGED <<kind, step, makes>>

-----------------------------------------------------------------------------
(* connect() *)

BeginWith(next, handles) ==
  /\ phase = "none" /\ makes < MaxMakes
  /\ makes' = makes + 1 /\ phase' = next /\ step' = 1 /\ held' = handles
  /\ UNCHANGED <<kind, leaked, strays>>

(* A host that has no address: connect() returns 1, which is no error for  *)
(* the driver but the descriptor of the standard output.                   *)
FindHostFails == kind = "driver" /\ BeginWith("making", {"stdout"})

FindHost == kind = "driver" /\ BeginWith("connecting", {"addrinfo"})

Connected ==
  /\ phase = "connecting"
  /\ phase' = "making" /\ held' = {"scamper"}
  /\ UNCHANGED <<kind, step, leaked, strays, makes>>

(* The socket of each address that refuses is closed, the list is not. *)
AllRefuse == phase = "connecting" /\ GiveBack({}, {})

(* A name in the file system; after an error nothing is left open. *)
ConnectUnix ==
  kind = "driver" /\ (BeginWith("making", {"scamper"}) \/ BeginWith("none", {}))

-----------------------------------------------------------------------------
(* make(), the thread and the destructor. *)

BeginMake == kind # "driver" /\ BeginWith("making", {})

StepSucceeds ==
  /\ phase = "making" /\ step <= Len(FactorySteps)
  /\ held' = held \cup FactorySteps[step].gets
  /\ step' = step + 1
  /\ UNCHANGED <<kind, phase, leaked, strays, makes>>

(* Without IP_HDRINCL the prober ends the whole program. *)
Fatal == kind = "prober" /\ step = 2

StepFails ==
  /\ phase = "making" /\ step <= Len(FactorySteps) /\ ~Fatal
  /\ GiveBack(FactorySteps[step].frees, Guarded)

Exit ==
  /\ phase = "making" /\ Fatal
  /\ phase' = "exit" /\ held' = {}
  /\ UNCHANGED <<kind, step, leaked, strays, makes>>

Start ==
  /\ AllStepsDone
  /\ phase' = "runs"
  /\ UNCHANGED <<kind, step, held, leaked, strays, makes>>

(* Frees what belongs to scamper and then closes all descriptors; also     *)
(* after a thread that could not be started.                               *)
Destruct ==
  /\ phase = "runs" \/ AllStepsDone
  /\ LET objects == held \cap {"file", "filter", "writebuf"}
     IN  GiveBack(objects, held \ objects)

LifeNext ==
  \/ FindHostFails \/ FindHost \/ Connected \/ AllRefuse \/ ConnectUnix
  \/ BeginMake \/ StepSucceeds \/ StepFails \/ Exit \/ Start \/ Destruct

LifeSpec == LifeInit /\ [][LifeNext]_lifeVars

-----------------------------------------------------------------------------
(* Properties *)

(* However often a part is made, fails half-way, runs and goes: a driver   *)
(* or prober leaves nothing open but the address list of a connect() that  *)
(* was refused; nothing is closed twice but the reading end of a decode    *)
(* pair, which scamper's file has closed before, and nothing foreign but   *)
(* the standard output; a part that runs has all that its steps got.       *)
NothingLeftOpen ==
  /\ kind # "decoder" => leaked \subseteq {"addrinfo"}
  /\ strays \subseteq {"decode_read", "stdout"}
  /\ phase = "none" => held = {}
  /\ phase = "runs" => UNION {FactorySteps[i].gets : i \in DOMAIN FactorySteps} \subseteq held
=============================================================================
