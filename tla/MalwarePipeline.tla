--------------------------- MODULE MalwarePipeline ---------------------------
(***************************************************************************)
(* The malware pipeline: filter.py, clean.py, download.py and              *)
(* vtchecker.py, four processes that share Kafka topics and the hash       *)
(* directories.                                                            *)
(***************************************************************************)
EXTENDS Downloader, HashChecker

vars == <<stageVars, downloadVars, checkerVars, shared, hashFiles>>

Init == FilesInit /\ StagesInit /\ DownloadInit /\ CheckerInit

(* The service counts the requests of a day and of a month. *)
Tick ==
  /\ now < scenario.until
  /\ now' = now + 1
  /\ asked' = [day |-> IF DayOf(now') = DayOf(now) THEN asked.day ELSE 0,
               month |-> IF MonthOf(now') = MonthOf(now) THEN asked.month ELSE 0]
  /\ UNCHANGED <<scenario, stageVars, downloadVars, hashFiles, checker, todo, hash, reply,
                 pending, wake, newHash, lastRecheck, database, notinvt, changed,
                 budget, disk, starts, unsaved, owed>>

(* The client of the downloader commits between two messages. *)
CommitAny == \E g \in Groups : (g = "download" => step = "poll") /\ Commit(g)

Stages ==
  \/ Publish \/ Filter \/ Clean \/ CleanRaises
  \/ Deliver("filter") \/ Deliver("clean")
  \/ Killed("filter") \/ Killed("clean")
  \/ \E g \in Groups : Restarted(g)
  \/ CommitAny

Next ==
  \/ Tick
  \/ Stages /\ UNCHANGED <<downloadVars, checkerVars, shared, hashFiles>>
  \/ Download /\ UNCHANGED checkerVars
  \/ Check /\ UNCHANGED <<stageVars, downloadVars>>

Spec == Init /\ [][Next]_vars

-----------------------------------------------------------------------------

(* What a producer was given: delivered, on its way or lost with it.        *)
Sent(g) == ToSet(topic[After(g)]) \cup ToSet(sending[g]) \cup lost[g]

PassedOn(event) ==
  FilteredPayload(event) = NoPayload
    \/ [id |-> event.id, payload |-> FilteredPayload(event)] \in Sent("filter")

SentOn(event) ==
  \A i \in DOMAIN GetUrls(event.payload) :
    [id |-> event.id, url |-> GetUrls(event.payload)[i]] \in Sent("clean")

(* A message about a URL of which the last attempt is younger than an hour  *)
(* counts as tried.                                                        *)
Tried(m) ==
  \E row \in activity :
    /\ row.msg = m /\ row.url = topic["download"][m].url
    /\ row.attempted
         \/ \E other \in activity :
              /\ other.url = row.url /\ other.attempted
              /\ other.at <= row.at /\ row.at < other.at + DownloadInterval

Done(g, i) ==
  CASE g = "filter" -> PassedOn(topic[g][i])
    [] g = "clean" -> SentOn(topic[g][i])
    [] g = "download" -> Tried(i)

(* Every message that a stage has passed, committed or not, it has passed  *)
(* on or tried, over kills, exceptions and repeated messages; the          *)
(* downloader leaves out only a URL that it asked for within the hour      *)
(* before (download.py:266-308).  Two things lose messages: a producer     *)
(* that ends before its thread has delivered them (filter.py:190,          *)
(* clean.py:144), and a start while nothing has been committed, which      *)
(* begins at the end of the topic (filter.py:130, clean.py:86,             *)
(* download.py:237).                                                       *)
EveryUrlTried ==
  \A g \in Groups : \A i \in 1 .. at[g] : i \in skipped[g] \/ Done(g, i)

(* The checker takes no hash into its database before its bytes are whole, *)
(* whatever the downloader is doing: the log comes last, and it is read    *)
(* first (download.py:134-155, vtchecker.py:238).  A kill within the bytes *)
(* leaves them cut, and they are never written again.                      *)
KnownHashHasBytes ==
  \A h \in Hashes :
    database[h] # Absent \/ disk.database[h] # Absent =>
      /\ bytes[h] = "whole" \/ (bytes[h] = "part" /\ crashes > 0)
      /\ rows[h] # {}

(* The service is never asked more than is allowed in a day or a month,    *)
(* across restarts with either source of the statistics, but for the       *)
(* requests of which the checker does not know: those after midnight in a  *)
(* minute that began before it are forgotten with the old day              *)
(* (virustotal.py:112-127); a process that ends by an exception or a kill  *)
(* forgets all that it has not saved (vtchecker.py:290); and one counted   *)
(* by the service whose answer does not arrive is never counted by the     *)
(* checker (virustotal.py:196-212).  No other request escapes the budget.  *)
QuotaKept ==
  /\ asked.day <= max_requests_per_day + max_requests_per_minute + owed
  /\ asked.month <= max_requests_per_month + max_requests_per_minute + owed

(* Between two passes nothing is known that is not on disk: each change of *)
(* a dictionary has set its flag, and no flag was reset before the files   *)
(* were written (vtchecker.py:185-284).                                    *)
SavedBetweenPasses ==
  checker = "list" => disk.database = database /\ disk.notinvt = notinvt
=============================================================================
