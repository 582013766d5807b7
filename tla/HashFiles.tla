------------------------------ MODULE HashFiles ------------------------------
(***************************************************************************)
(* What the downloader and the hash checker share: the clock and one       *)
(* directory per hash with the downloaded bytes, malware.bin, and the log  *)
(* of its downloads, downloads.csv.gz.                                     *)
(***************************************************************************)
EXTENDS Integers

CONSTANTS
  Hashes,
  Scenarios  \* records of what a run begins with: the events of the first topic
             \* (input), the hashes downloaded before (present), those that the
             \* servers hold (served) and the time (now); and its bounds: how
             \* often a stage is killed, how often the checker is started, and
             \* the end of the clock (until)

ASSUME FilesAssumption ==
  \A sc \in Scenarios :
    /\ sc.present \subseteq Hashes /\ sc.served \subseteq Hashes
    /\ {sc.now, sc.kills, sc.starts, sc.until} \subseteq Nat

VARIABLES
  scenario,
  now,
  dirs,   \* the directories
  bytes,  \* per hash: malware.bin is "none", "part" or "whole"
  log,    \* per hash: the log is "none", "open", "closed" or "cut"
  rows    \* per hash: the times in its log

shared == <<scenario, now>>
hashFiles == <<dirs, bytes, log, rows>>

FilesInit ==
  /\ scenario \in Scenarios
  /\ now = scenario.now
  /\ dirs = scenario.present
  /\ bytes = [h \in Hashes |-> IF h \in dirs THEN "whole" ELSE "none"]
  /\ log = [h \in Hashes |-> IF h \in dirs THEN "closed" ELSE "none"]
  /\ rows = [h \in Hashes |-> IF h \in dirs THEN {now} ELSE {}]
=============================================================================
