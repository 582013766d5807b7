----------------------------- MODULE Downloader ------------------------------
(***************************************************************************)
(* The third stage of the malware pipeline (download.py): it requests the  *)
(* URLs, no URL twice within an hour, writes a row about every message     *)
(* and keeps what it gets in a directory named by its hash, which holds    *)
(* the bytes and a log of the downloads.  A directory is written in steps  *)
(* that others can see and that a kill can cut short.                      *)
(***************************************************************************)
EXTENDS PayloadStages

CONSTANTS
  DownloadInterval,  \* ticks of an hour
  cleanupinterval    \* downloads between two clean-ups of expiretimes

ASSUME DownloadAssumption == {DownloadInterval, cleanupinterval} \subseteq Nat \ {0}

VARIABLES
  step,        \* "poll" | "request" | "mkdir" | "bytes" | "log" | "row"
               \* | "done"
  job,         \* the message in work: when it was asked for and what came
  expiretimes, \* per URL asked for in this run: when it may be asked again
  cleanup,     \* cleanupcounter
  activity     \* rows of the activity folder

downloadVars == <<step, job, expiretimes, cleanup, activity>>

NoJob == [msg |-> 0, at |-> 0, hash |-> NoPayload]

NoTimes == [url \in {} |-> 0]

DownloadInit ==
  /\ step = "poll" /\ job = NoJob
  /\ expiretimes = NoTimes /\ cleanup = cleanupinterval
  /\ activity = {}

Url == Message("download").url

Row(time, attempted) ==
  [msg |-> at["download"] + 1, url |-> Url, at |-> time, attempted |-> attempted]

(* Mutant: an entry counts as long as it is there. *)
Expires_Ever(url) == url \in DOMAIN expiretimes

Expires(url) == url \in DOMAIN expiretimes /\ now < expiretimes[url]

Skip ==
  /\ step = "poll" /\ HasMessage("download")
  /\ Expires(Url)
  /\ activity' = activity \cup {Row(now, FALSE)}
  /\ Handled("download")
  /\ UNCHANGED <<shared, topic, committed, alive, sending, crashes, lost, skipped, step,
                 job, expiretimes, cleanup, hashFiles>>

Request ==
  /\ step = "poll" /\ HasMessage("download")
  /\ ~Expires(Url)
  /\ step' = "request"
  /\ job' = [msg |-> at["download"] + 1, at |-> now, hash |-> NoPayload]
  /\ UNCHANGED <<shared, stageVars, expiretimes, cleanup, activity, hashFiles>>

(* download() returns a hash or fails; the row is written with the time at *)
(* which the message was met.                                              *)
Answer(h) ==
  /\ step = "request" /\ alive["download"]
  /\ activity' = activity \cup {Row(job.at, TRUE)}
  /\ job' = [job EXCEPT !.hash = h]
  /\ step' = IF h = NoPayload THEN "done" ELSE "mkdir"
  /\ UNCHANGED <<shared, stageVars, expiretimes, cleanup, hashFiles>>

-----------------------------------------------------------------------------
(* log_hash(): what exists is not made again. *)

MakeDirectory ==
  /\ step = "mkdir" /\ alive["download"]
  /\ dirs' = dirs \cup {job.hash}
  /\ IF bytes[job.hash] = "none"
     THEN /\ bytes' = [bytes EXCEPT ![job.hash] = "part"]
          /\ step' = "bytes"
     ELSE /\ UNCHANGED bytes
          /\ step' = "log"
  /\ UNCHANGED <<shared, stageVars, job, expiretimes, cleanup, activity, log, rows>>

(* Mutant: the bytes stay in a buffer while the log is written. *)
WriteBytes_Buffered ==
  /\ step = "bytes" /\ alive["download"]
  /\ step' = "log"
  /\ UNCHANGED <<shared, stageVars, job, expiretimes, cleanup, activity, hashFiles>>

WriteBytes ==
  /\ step = "bytes" /\ alive["download"]
  /\ bytes' = [bytes EXCEPT ![job.hash] = "whole"]
  /\ step' = "log"
  /\ UNCHANGED <<shared, stageVars, job, expiretimes, cleanup, activity, log, rows,
                 dirs>>

OpenLog ==
  /\ step = "log" /\ alive["download"]
  /\ log' = [log EXCEPT ![job.hash] = IF @ = "cut" THEN "cut" ELSE "open"]
  /\ step' = "row"
  /\ UNCHANGED <<shared, stageVars, job, expiretimes, cleanup, activity, bytes,
                 rows, dirs>>

WriteRow ==
  /\ step = "row" /\ alive["download"]
  /\ rows' = [rows EXCEPT ![job.hash] = @ \cup {job.at}]
  /\ log' = [log EXCEPT ![job.hash] = IF @ = "cut" THEN "cut" ELSE "closed"]
  /\ step' = "done"
  /\ UNCHANGED <<shared, stageVars, job, expiretimes, cleanup, activity, bytes, dirs>>

-----------------------------------------------------------------------------

Unexpired(times) ==
  [url \in {u \in DOMAIN times : now < times[u]} |-> times[url]]

WithUrl(url) ==
  [u \in DOMAIN expiretimes \cup {url} |->
     IF u = url THEN job.at + DownloadInterval ELSE expiretimes[u]]

SaveTime ==
  /\ step = "done" /\ alive["download"]
  /\ LET cleans == cleanup = 1
     IN  /\ expiretimes' = IF cleans THEN Unexpired(WithUrl(Url)) ELSE WithUrl(Url)
         /\ cleanup' = IF cleans THEN cleanupinterval ELSE cleanup - 1
  /\ Handled("download")
  /\ step' = "poll" /\ job' = NoJob
  /\ UNCHANGED <<shared, topic, committed, alive, sending, crashes, lost, skipped,
                 activity, hashFiles>>

Forgets ==
  /\ step' = "poll" /\ job' = NoJob
  /\ expiretimes' = NoTimes /\ cleanup' = cleanupinterval

(* An answer other than 200 that is no error, and one whose connection is  *)
(* already given back, raise what nobody catches.                          *)
AnswerRaises ==
  /\ step = "request" /\ Ends("download")
  /\ Forgets
  /\ UNCHANGED <<shared, activity, hashFiles>>

(* A log cut short stays unreadable; one of which nothing reached the disk *)
(* is empty.                                                               *)
KillDownloader ==
  /\ Killed("download")
  /\ Forgets
  /\ log' \in IF step = "row" /\ log[job.hash] = "open"
              THEN {[log EXCEPT ![job.hash] = end] : end \in {"closed", "cut"}}
              ELSE {log}
  /\ UNCHANGED <<shared, activity, bytes, rows, dirs>>

Download ==
  \/ Skip \/ Request \/ \E h \in scenario.served \cup {NoPayload} : Answer(h)
  \/ AnswerRaises \/ MakeDirectory \/ WriteBytes \/ OpenLog \/ WriteRow \/ SaveTime
  \/ KillDownloader
=============================================================================
