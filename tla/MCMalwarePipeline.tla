------------------------- MODULE MCMalwarePipeline --------------------------
(* Instances of the malware pipeline for TLC. *)
EXTENDS MalwarePipeline

CONSTANTS u1, u2

Wget(args) == [tool |-> "wget", args |-> args]
Curl(args) == [tool |-> "curl", args |-> args]
Event(id, rack, iack) == [id |-> id, rack |-> rack, iack |-> iack]

(* Droppers with two URLs, with none, with the same URL twice, in either   *)
(* kind of ack, and one that the parser cannot read.                       *)
Streams ==
  {<<Event(1, <<Curl(u2), Wget(u1), Wget(NoUrl)>>, NoPayload),
     Event(2, <<>>, NoPayload)>>,
   <<Event(1, NoPayload, <<Curl(u1)>>),
     Event(2, <<Wget(u1), Curl(BadArgs)>>, NoPayload)>>,
   <<Event(1, <<>>, <<Curl(u1)>>), Event(2, <<Curl(u1)>>, <<Wget(u2)>>)>>}

(* The stages with a kill, and no checker. *)
StageScenarios ==
  {[input |-> stream, present |-> {}, served |-> Hashes,
    now |-> 0, kills |-> 1, starts |-> 0, until |-> 2] : stream \in Streams}

(* One download while the checker runs. *)
FileScenarios ==
  {[input |-> <<Event(1, <<Wget(u1)>>, NoPayload)>>, present |-> {}, served |-> Hashes,
    now |-> 0, kills |-> 1, starts |-> 1, until |-> 1]}

(* The checker alone with what was downloaded before, over several days. *)
QuotaScenarios ==
  {[input |-> <<>>, present |-> Hashes, served |-> {}, now |-> 4,
    kills |-> 0, starts |-> 2, until |-> 10]}

Perms == Permutations(Hashes)
MCScenarios == StageScenarios \cup FileScenarios \cup QuotaScenarios
=============================================================================
