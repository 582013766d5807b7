------------------------ MODULE MalwarePipelineProofs ------------------------
(***************************************************************************)
(* Theorems about the malware pipeline, for any topics, hashes, scenarios  *)
(* and request limits, any number of kills and starts, and any length of   *)
(* minute, day and month: what a stage has passed it has given to the next *)
(* or tried, no hash is known before its bytes are there, the requests     *)
(* over the quota are those the checker does not know of, and the files of *)
(* the checker follow its dictionaries.                                    *)
(***************************************************************************)
EXTENDS MalwarePipeline, SequenceTheorems, FiniteSetTheorems, WellFoundedInduction, TLAPS

(* A dictionary with an entry per hash, and a sequence of something.        *)
PerHash(d) == d = [h \in Hashes |-> d[h]]
IsSeq(seq) == seq \in Seq({seq[i] : i \in DOMAIN seq})

-----------------------------------------------------------------------------
(* The invariant, by component.                                             *)

CheckerSteps ==
  {"off", "list", "look", "search", "asking", "handle", "dump", "dump2", "recheck",
   "ask again", "asking again", "handle again"}
IsDisk(d) ==
  d = [database |-> d.database, notinvt |-> d.notinvt, stats |-> d.stats, torn |-> d.torn]
CommonTypes ==
  /\ scenario \in Scenarios /\ now \in Nat
  /\ step \in {"poll", "request", "mkdir", "bytes", "log", "row", "done"}
  /\ job \in [msg : Nat, at : Nat, hash : Hashes \cup {NoPayload}]
  /\ checker \in CheckerSteps
  /\ IsDisk(disk)
  /\ crashes \in Nat

(* A directory is written in order: the bytes are begun before the log, and *)
(* only a process in the middle of them, or one killed there, leaves a part *)
(* of them.                                                                 *)
InWork == {"mkdir", "bytes", "log", "row"}
BytesFirst ==
  /\ bytes \in [Hashes -> {"none", "part", "whole"}]
  /\ log \in [Hashes -> {"none", "open", "closed", "cut"}]
  /\ rows \in [Hashes -> SUBSET Nat]
  /\ step \in InWork => job.hash \in Hashes
  /\ step \in {"log", "row"} => bytes[job.hash] # "none"
  /\ \A h \in Hashes :
       /\ bytes[h] = "part" => crashes > 0 \/ (step = "bytes" /\ job.hash = h)
       /\ log[h] # "none" => bytes[h] # "none" /\ ~(step = "bytes" /\ job.hash = h)

(* The checker knows only hashes whose log it has read.                     *)
Logged == {h \in Hashes : log[h] # "none" /\ rows[h] # {}}
KnownAreLogged ==
  /\ PerHash(database) /\ PerHash(disk.database)
  /\ \A h \in Hashes :
       database[h] # Absent \/ disk.database[h] # Absent => h \in Logged
  /\ notinvt \in Seq(Logged) /\ disk.notinvt \in Seq(Logged)
  /\ pending \in Seq(Logged)
  /\ checker \in {"ask again", "asking again", "handle again"} => pending # <<>>
  /\ checker \in {"search", "asking", "handle"} => hash \in Logged

(* Where a dictionary may differ from its file, its flag says so.           *)
SavedOrMarked ==
  /\ checker \in {"list", "look", "recheck", "dump2"} => database = disk.database
  /\ checker \in {"list", "look", "recheck"} => notinvt = disk.notinvt
  /\ checker # "off" =>
       /\ database # disk.database => "database" \in changed
       /\ notinvt # disk.notinvt => "notinvt" \in changed

(* A budget b accounts for the requests of this day and this month but for  *)
(* free of them and those of a minute: until the new day is noticed, those  *)
(* of the day were made in the minute that runs.                            *)
BudgetType ==
  [last : Nat \cup {None}, day : Nat \cup {None}, month : Nat \cup {None},
   thisMinute : 0 .. max_requests_per_minute, thisDay : Nat, thisMonth : Nat]
InStep(b) ==
  b.last # None =>
    /\ b.day \in Nat /\ b.month \in Nat
    /\ b.day <= DayOf(now) /\ b.month = b.day \div DaysPerMonth
Covers(counted, period, current, minute, made, free) ==
  made <= (IF period # current THEN minute ELSE counted + max_requests_per_minute) + free
Accounts(b, free) ==
  IF b.last = None
  THEN /\ asked.day <= b.thisDay + max_requests_per_minute + free
       /\ asked.month <= b.thisMonth + max_requests_per_minute + free
  ELSE /\ Covers(b.thisDay, b.day, DayOf(now), b.thisMinute, asked.day, free)
       /\ Covers(b.thisMonth, b.month, MonthOf(now), b.thisMinute, asked.month, free)

QuotaInv ==
  /\ asked \in [day : Nat, month : Nat] /\ unsaved \in Nat /\ owed \in Nat
  /\ budget \in BudgetType /\ disk.stats \in BudgetType
  /\ InStep(budget) /\ InStep(disk.stats)
  /\ Accounts(disk.stats, owed + unsaved)
  /\ IF checker = "off" THEN unsaved = 0
     ELSE Accounts(budget, owed) /\ (budget.last = None => unsaved = 0)
  /\ Asking =>
       /\ budget.last # None
       /\ ~OutOfMinute(budget) /\ ~OutOfDay(budget) /\ ~OutOfMonth(budget)
       /\ reply # None => owed > 0
  /\ QuotaKept

(* Where the stages are, and what is under way.                             *)
Passed == [id : Nat, payload : Payloads]
Sendings ==
  /\ sending = [g \in Groups |-> sending[g]] /\ \A g \in Groups : IsSeq(sending[g])
  /\ sending["filter"] \in Seq(Passed)
StageTypes ==
  /\ topic = [g \in Groups |-> topic[g]] /\ \A g \in Groups : IsSeq(topic[g])
  /\ Sendings
  /\ lost = [g \in Groups |-> lost[g]] /\ skipped = [g \in Groups |-> skipped[g]]
  /\ topic["filter"] \in Seq(Events)
  /\ topic["clean"] \in Seq(Passed)
  /\ at \in [Groups -> Nat] /\ committed \in [Groups -> Nat \cup {Nothing}]
  /\ alive \in [Groups -> BOOLEAN]
  /\ \A g \in Groups : committed[g] <= at[g] /\ at[g] <= Len(topic[g])
Attempted(url, time) ==
  \E row \in activity : row.url = url /\ row.attempted /\ row.at = time
TimesOfAttempts ==
  \A url \in DOMAIN expiretimes :
    \E time \in Nat : /\ time <= now /\ Attempted(url, time)
                      /\ expiretimes[url] = time + DownloadInterval
JobIsNext ==
  /\ step # "poll" =>
       /\ HasMessage("download") /\ job.msg = at["download"] + 1 /\ job.at <= now
  /\ step \in InWork \cup {"done"} => Row(job.at, TRUE) \in activity
  /\ TimesOfAttempts

UrlsInv == StageTypes /\ EveryUrlTried /\ JobIsNext

IInv == CommonTypes /\ BytesFirst /\ KnownAreLogged /\ SavedOrMarked /\ QuotaInv /\ UrlsInv

-----------------------------------------------------------------------------
(* What the steps leave alone.                                              *)

LEMMA Scenario ==
  ASSUME scenario \in Scenarios
  PROVE  /\ scenario.present \subseteq Hashes /\ scenario.served \subseteq Hashes
         /\ scenario.now \in Nat /\ scenario.input \in Seq(Events)
  BY FilesAssumption, StagesAssumption

LEMMA DownloadLeaves ==
  Download => UNCHANGED shared /\ (crashes' = crashes \/ crashes' = crashes + 1)
  BY DEF Download, Skip, Request, Answer, AnswerRaises, MakeDirectory, WriteBytes, OpenLog,
         WriteRow, SaveTime, KillDownloader, Killed, Ends, stageVars

LEMMA CommonNumbers ==
  ASSUME CommonTypes
  PROVE  /\ crashes \in Nat /\ now \in Nat
         /\ \A c : c = crashes \/ c = crashes + 1 => c \in Nat
         /\ \A c : c = now \/ c = now + 1 => c \in Nat
  <1>1. crashes \in Nat /\ now \in Nat
    BY DEF CommonTypes
  <1> QED
    BY <1>1

LEMMA StagesLeave ==
  Stages => crashes' = crashes \/ crashes' = crashes + 1
  BY DEF Stages, Publish, Filter, Clean, CleanRaises, Deliver, Killed, Ends, Restarted,
         CommitAny, Commit

LEMMA InitCommon == Init => CommonTypes
  <1> SUFFICES ASSUME Init PROVE CommonTypes
    OBVIOUS
  <1>1. scenario \in Scenarios /\ now \in Nat
    BY Scenario DEF Init, FilesInit
  <1> QED
    BY <1>1 DEF CommonTypes, CheckerSteps, IsDisk, Init, StagesInit, DownloadInit,
                CheckerInit, NoJob

LEMMA DownloadCommon ==
  ASSUME CommonTypes, StageTypes, Download, UNCHANGED checkerVars
  PROVE  CommonTypes'
  <1>1. at["download"] + 1 \in Nat
    BY DEF StageTypes, Groups
  <1>2. crashes' \in Nat
    BY DownloadLeaves, CommonNumbers
  <1>3. /\ UNCHANGED <<checker, disk, scenario, now>> /\ crashes' \in Nat
        /\ at["download"] + 1 \in Nat
    BY <1>1, <1>2, DownloadLeaves DEF checkerVars, shared
  <1>4. CASE Skip
    BY <1>3, <1>4 DEF Skip, CommonTypes
  <1>5. CASE Request
    BY <1>3, <1>5 DEF Request, CommonTypes
  <1>6. CASE \E h \in scenario.served \cup {NoPayload} : Answer(h)
    <2>1. PICK h \in scenario.served \cup {NoPayload} : Answer(h)
      BY <1>6
    <2>2. h \in Hashes \cup {NoPayload}
      BY Scenario DEF CommonTypes
    <2> QED
      BY <1>3, <2>1, <2>2 DEF Answer, CommonTypes
  <1>7. CASE MakeDirectory \/ WriteBytes \/ OpenLog \/ WriteRow
    BY <1>3, <1>7 DEF MakeDirectory, WriteBytes, OpenLog, WriteRow, CommonTypes
  <1>8. CASE SaveTime \/ KillDownloader \/ AnswerRaises
    <2>1. step' = "poll" /\ job' = NoJob
      BY <1>8 DEF SaveTime, KillDownloader, AnswerRaises, Forgets
    <2>2. NoJob \in [msg : Nat, at : Nat, hash : Hashes \cup {NoPayload}]
      BY DEF NoJob
    <2> QED
      BY <1>3, <2>1, <2>2 DEF CommonTypes
  <1> QED
    BY <1>4, <1>5, <1>6, <1>7, <1>8 DEF Download

(* A step of the checker: where it may go, and what it does to the files.   *)
LEMMA CheckLeaves ==
  ASSUME CommonTypes, Check
  PROVE  /\ UNCHANGED <<shared, hashFiles>>
         /\ checker' \in CheckerSteps
         /\ IsDisk(disk')
  <1> USE DEF CommonTypes, CheckerSteps, IsDisk
  <1>1. UNCHANGED <<shared, hashFiles>>
    BY DEF Check
  <1>2. CASE \E online \in BOOLEAN : Start(online) \/ StartRaises(online)
    BY <1>1, <1>2 DEF Start, StartRaises
  <1>3. CASE Kill \/ Interrupt \/ KillInSave
    BY <1>1, <1>3 DEF Kill, Interrupt, KillInSave, Ended
  <1>4. CASE ListDirectories
    BY <1>1, <1>4 DEF ListDirectories
  <1>5. CASE \E h \in Hashes : UnreadableLog(h) \/ LookAtKnown(h) \/ LookAtNew(h)
    BY <1>1, <1>5 DEF UnreadableLog, LookAtKnown, LookAtNew, Dies, Ended
  <1>6. CASE WaitMinute \/ WaitDay \/ WaitMonth
    BY <1>1, <1>6 DEF WaitMinute, WaitDay, WaitMonth, Dies, Ended
  <1>7. CASE Send \/ (\E answer \in Served : Serve(answer)) \/ Return \/ Fail
    BY <1>1, <1>7 DEF Send, Serve, Return, Fail, Answered
  <1>8. CASE Handle
    BY <1>1, <1>8 DEF Handle
  <1>9. CASE DumpDatabase
    BY <1>1, <1>9 DEF DumpDatabase
  <1>10. CASE DumpNotInVt
    BY <1>1, <1>10 DEF DumpNotInVt
  <1>11. CASE Recheck
    BY <1>1, <1>11 DEF Recheck
  <1>12. CASE HandleAgain
    BY <1>1, <1>12 DEF HandleAgain
  <1>13. CASE RefusedAgain \/ ReplyRaises
    BY <1>1, <1>13 DEF RefusedAgain, ReplyRaises, Dies, Ended
  <1> QED
    BY <1>2, <1>3, <1>4, <1>5, <1>6, <1>7, <1>8, <1>9, <1>10, <1>11, <1>12, <1>13 DEF Check

LEMMA NextCommon ==
  ASSUME CommonTypes, StageTypes, [Next]_vars PROVE CommonTypes'
  <1>1. CASE UNCHANGED vars
    BY <1>1 DEF vars, stageVars, downloadVars, checkerVars, shared, CommonTypes
  <1>2. CASE Tick
    <2>1. UNCHANGED <<scenario, step, job, checker, disk, crashes>> /\ now' = now + 1
      BY <1>2 DEF Tick, stageVars, downloadVars
    <2>2. now' \in Nat
      BY <2>1, CommonNumbers
    <2> QED
      BY <2>1, <2>2 DEF CommonTypes
  <1>3. CASE Stages /\ UNCHANGED <<downloadVars, checkerVars, shared, hashFiles>>
    <2>1. UNCHANGED <<scenario, now, step, job, checker, disk>>
      BY <1>3 DEF downloadVars, checkerVars, shared
    <2>2. crashes' \in Nat
      BY <1>3, StagesLeave, CommonNumbers
    <2> QED
      BY <2>1, <2>2 DEF CommonTypes
  <1>4. CASE Download /\ UNCHANGED checkerVars
    BY <1>4, DownloadCommon
  <1>5. CASE Check /\ UNCHANGED <<stageVars, downloadVars>>
    BY <1>5, CheckLeaves DEF stageVars, downloadVars, shared, CommonTypes
  <1> QED
    BY <1>1, <1>2, <1>3, <1>4, <1>5 DEF Next

-----------------------------------------------------------------------------
(* The directories.                                                         *)

LEMMA InitBytes == Init => BytesFirst
  <1> SUFFICES ASSUME Init PROVE BytesFirst
    OBVIOUS
  <1>1. scenario \in Scenarios /\ now \in Nat
    BY Scenario DEF Init, FilesInit
  <1> QED
    BY <1>1 DEF BytesFirst, InWork, Init, FilesInit, DownloadInit

LEMMA BytesUntouched ==
  ASSUME CommonTypes, BytesFirst, UNCHANGED <<bytes, log, rows, step, job>>,
         crashes' = crashes \/ crashes' = crashes + 1
  PROVE  BytesFirst'
  <1>1. crashes \in Nat
    BY CommonNumbers
  <1> HIDE DEF CommonTypes
  <1> QED
    BY <1>1 DEF BytesFirst, InWork

LEMMA DownloadBytes ==
  ASSUME CommonTypes, BytesFirst, Download PROVE BytesFirst'
  <1>0. crashes + 1 > 0
    BY CommonNumbers
  <1> USE DEF CommonTypes, BytesFirst, InWork
  <1>1. CASE Skip \/ Request
    BY <1>1 DEF Skip, Request, hashFiles, stageVars
  <1>2. CASE \E h \in scenario.served \cup {NoPayload} : Answer(h)
    <2>1. PICK h \in scenario.served \cup {NoPayload} : Answer(h)
      BY <1>2
    <2>2. h # NoPayload => h \in Hashes
      BY Scenario
    <2> QED
      BY <2>1, <2>2 DEF Answer, hashFiles, stageVars
  <1>3. CASE MakeDirectory
    BY <1>3 DEF MakeDirectory, stageVars
  <1>4. CASE WriteBytes
    BY <1>4 DEF WriteBytes, stageVars
  <1>5. CASE OpenLog
    BY <1>5 DEF OpenLog, stageVars
  <1>6. CASE WriteRow
    BY <1>6 DEF WriteRow, stageVars
  <1>7. CASE SaveTime
    BY <1>7 DEF SaveTime, hashFiles
  <1>9. CASE AnswerRaises
    <2>1. step' = "poll" /\ crashes' = crashes + 1 /\ UNCHANGED <<bytes, log, rows>>
      BY <1>9 DEF AnswerRaises, Forgets, Ends, hashFiles
    <2>2. crashes' > 0
      BY <2>1, <1>0
    <2> HIDE DEF CommonTypes
    <2> QED
      BY <2>1, <2>2
  <1>8. CASE KillDownloader
    <2>1. /\ step' = "poll" /\ crashes' = crashes + 1 /\ UNCHANGED <<bytes, rows>>
      BY <1>8 DEF KillDownloader, Killed, Ends, Forgets
    <2>2. /\ log' \in [Hashes -> {"none", "open", "closed", "cut"}]
          /\ \A h \in Hashes : log'[h] # "none" => log[h] # "none"
      <3>1. CASE step = "row" /\ log[job.hash] = "open"
        <4>1. PICK end \in {"closed", "cut"} : log' = [log EXCEPT ![job.hash] = end]
          BY <1>8, <3>1 DEF KillDownloader
        <4> QED
          BY <3>1, <4>1
      <3>2. CASE ~(step = "row" /\ log[job.hash] = "open")
        BY <1>8, <3>2 DEF KillDownloader
      <3> QED
        BY <3>1, <3>2
    <2>3. crashes' > 0
      BY <2>1, <1>0
    <2> HIDE DEF CommonTypes
    <2> QED
      BY <2>1, <2>2, <2>3
  <1> QED
    BY <1>1, <1>2, <1>3, <1>4, <1>5, <1>6, <1>7, <1>8, <1>9 DEF Download

LEMMA NextBytes ==
  ASSUME CommonTypes, BytesFirst, [Next]_vars PROVE BytesFirst'
  <1>1. CASE Download
    BY <1>1, DownloadBytes
  <1>2. CASE ~Download
    <2>1. /\ UNCHANGED <<bytes, log, rows, step, job>>
          /\ crashes' = crashes \/ crashes' = crashes + 1
      BY <1>2, StagesLeave, CheckLeaves
         DEF Next, Tick, vars, stageVars, downloadVars, hashFiles
    <2> QED
      BY <2>1, BytesUntouched
  <1> QED
    BY <1>1, <1>2

-----------------------------------------------------------------------------
(* The dictionaries.                                                        *)

LEMMA SeqOfMore ==
  ASSUME NEW S, NEW T, S \subseteq T, NEW seq \in Seq(S)
  PROVE  seq \in Seq(T)
  OBVIOUS

LEMMA LeastExists ==
  ASSUME NEW N \in SUBSET Nat, N # {}
  PROVE  Min(N) \in N
  <1>1. PICK least \in N : \A n \in N : ~ (<<n, least>> \in OpToRel(<, Nat))
    BY NatLessThanWellFounded, WFMin
  <1>2. ASSUME NEW n \in N PROVE least =< n
    <2>1. n \in Nat /\ least \in Nat /\ <<n, least>> \in Nat \X Nat
      OBVIOUS
    <2>2. <<n, least>> \in OpToRel(<, Nat) <=> n < least
      BY <2>1, Zenon DEF OpToRel
    <2>3. ~ (n < least)
      BY <1>1, <2>2, Zenon
    <2> QED
      BY <2>1, <2>3
  <1> QED
    BY <1>2 DEF Min

LEMMA RemoveFirstKeeps ==
  ASSUME NEW S, NEW seq \in Seq(S), NEW e
  PROVE  /\ RemoveFirst(seq, e) \in Seq(S)
         /\ ~Contains(seq, e) => RemoveFirst(seq, e) = seq
  <1> DEFINE found == {i \in 1 .. Len(seq) : seq[i] = e}
  <1>1. CASE found = {}
    BY <1>1 DEF RemoveFirst, Contains
  <1>2. CASE found # {}
    <2> DEFINE i == Min(found)
    <2>1. i \in found
      <3>1. found \in SUBSET Nat
        OBVIOUS
      <3> HIDE DEF found
      <3> QED
        BY <1>2, <3>1, LeastExists
    <2>2. RemoveFirst(seq, e) = SubSeq(seq, 1, i - 1) \o SubSeq(seq, i + 1, Len(seq))
      BY <1>2 DEF RemoveFirst, RemoveAt, SelectInSeq
    <2>3. SubSeq(seq, 1, i - 1) \in Seq(S) /\ SubSeq(seq, i + 1, Len(seq)) \in Seq(S)
      <3> HIDE DEF i
      <3> QED
        BY <2>1, SubSeqProperties
    <2>4. Contains(seq, e)
      BY <1>2 DEF Contains
    <2> QED
      BY <2>2, <2>3, <2>4, ConcatProperties
  <1> QED
    BY <1>1, <1>2

LEMMA FirstOfProperties ==
  ASSUME NEW S, NEW seq \in Seq(S), NEW use \in Int
  PROVE  FirstOf(seq, use) \in Seq(S)
  <1> DEFINE n == Min({use, Len(seq)})
  <1>1. n \in Int /\ n <= Len(seq)
    <2>1. CASE use <= Len(seq)
      BY <2>1 DEF Min
    <2>2. CASE ~(use <= Len(seq))
      BY <2>2 DEF Min
    <2> QED
      BY <2>1, <2>2
  <1> HIDE DEF n
  <1>2. SubSeq(seq, 1, n) \in Seq(S)
    BY <1>1, SubSeqProperties
  <1> QED
    BY <1>2 DEF FirstOf, n

LEMMA LoggedStays ==
  ASSUME CommonTypes, BytesFirst, [Next]_vars PROVE Logged \subseteq Logged'
  <1>1. CASE UNCHANGED <<log, rows>>
    BY <1>1 DEF Logged
  <1>2. CASE Download
    <2>1. CASE OpenLog
      BY <2>1 DEF OpenLog, BytesFirst, InWork, Logged
    <2>2. CASE WriteRow
      BY <2>2 DEF WriteRow, BytesFirst, InWork, Logged
    <2>3. CASE KillDownloader
      <3>1. CASE step = "row" /\ log[job.hash] = "open"
        <4>1. PICK end \in {"closed", "cut"} : log' = [log EXCEPT ![job.hash] = end]
          BY <2>3, <3>1 DEF KillDownloader
        <4> QED
          BY <2>3, <3>1, <4>1 DEF KillDownloader, BytesFirst, InWork, Logged
      <3>2. CASE ~(step = "row" /\ log[job.hash] = "open")
        BY <2>3, <3>2 DEF KillDownloader, Logged
      <3> QED
        BY <3>1, <3>2
    <2>4. CASE ~(OpenLog \/ WriteRow \/ KillDownloader)
      BY <1>2, <2>4, <1>1
         DEF Download, Skip, Request, Answer, AnswerRaises, MakeDirectory, WriteBytes,
             SaveTime, hashFiles
    <2> QED
      BY <2>1, <2>2, <2>3, <2>4
  <1>3. CASE ~Download
    BY <1>1, <1>3, CheckLeaves DEF Next, Tick, vars, hashFiles
  <1> QED
    BY <1>2, <1>3

LEMMA ToUseIsInt ==
  ASSUME QuotaInv PROVE ToUse(RemainingThisDay(budget)) \in Int
  <1>1. budget.thisDay \in Nat /\ max_requests_per_day \in Nat
    BY BudgetAssumption DEF QuotaInv, BudgetType
  <1>2. RemainingThisDay(budget) \in Int
    BY <1>1 DEF RemainingThisDay
  <1>3. \A tokens \in Int : ToUse(tokens) \in Int
    BY DEF ToUse
  <1> QED
    BY <1>2, <1>3

LEMMA InitKnown == Init => KnownAreLogged
  BY DEF Init, CheckerInit, KnownAreLogged, PerHash, NoHash

LEMMA KnownUntouched ==
  ASSUME KnownAreLogged, Logged \subseteq Logged', UNCHANGED checkerVars
  PROVE  KnownAreLogged'
  <1>1. /\ notinvt \in Seq(Logged') /\ disk.notinvt \in Seq(Logged')
        /\ pending \in Seq(Logged')
    BY SeqOfMore DEF KnownAreLogged
  <1> QED
    BY <1>1 DEF KnownAreLogged, checkerVars, PerHash

LEMMA HandleReplyKnown ==
  ASSUME NEW h \in Logged, KnownAreLogged, HandleReply(h)
  PROVE  /\ PerHash(database')
         /\ \A other \in Hashes : database'[other] # Absent => other \in Logged
         /\ notinvt' \in Seq(Logged)
  <1> USE DEF KnownAreLogged
  <1>1. h \in Hashes
    BY DEF Logged
  <1>2. CASE Known(h)
    <2>1. notinvt' \in Seq(Logged)
      BY <1>2, RemoveFirstKeeps DEF Known
    <2> QED
      BY <1>1, <1>2, <2>1 DEF Known, PerHash
  <1>3. CASE Unknown(h)
    <2>1. notinvt' \in Seq(Logged)
      BY <1>3, AppendProperties DEF Unknown
    <2> QED
      BY <1>3, <2>1 DEF Unknown
  <1>4. CASE UNCHANGED <<database, notinvt, changed>>
    BY <1>4
  <1> QED
    BY <1>2, <1>3, <1>4 DEF HandleReply

LEMMA EndedKnown ==
  ASSUME KnownAreLogged, Logged' = Logged, Ended,
         disk'.database = disk.database, disk'.notinvt = disk.notinvt
  PROVE  KnownAreLogged'
  <1>1. \A h \in Hashes : NoHash[h] = Absent
    BY DEF NoHash
  <1>2. database' = NoHash /\ PerHash(NoHash)
    BY DEF Ended, PerHash, NoHash
  <1>3. notinvt' = <<>> /\ pending' = <<>> /\ checker' = "off"
    BY DEF Ended
  <1>4. <<>> \in Seq(Logged')
    OBVIOUS
  <1>5. PerHash(database)' /\ PerHash(disk.database)'
    BY <1>2 DEF PerHash, KnownAreLogged
  <1>6. disk'.notinvt \in Seq(Logged')
    BY DEF KnownAreLogged
  <1>7. \A h \in Hashes :
          database'[h] # Absent \/ disk'.database[h] # Absent => h \in Logged'
    BY <1>1, <1>2 DEF KnownAreLogged
  <1> QED
    BY <1>3, <1>4, <1>5, <1>6, <1>7 DEF KnownAreLogged

LEMMA CheckKnown ==
  ASSUME CommonTypes, KnownAreLogged, QuotaInv, Check PROVE KnownAreLogged'
  <1> USE DEF KnownAreLogged
  <1>1. Logged' = Logged
    BY CheckLeaves DEF hashFiles, Logged
  <1>2. IsDisk(disk)
    BY DEF CommonTypes
  <1>3. CASE \E online \in BOOLEAN : Start(online) \/ StartRaises(online)
    BY <1>1, <1>3 DEF Start, StartRaises
  <1>4. CASE Kill \/ Interrupt \/ KillInSave
    <2>1. disk'.database = disk.database /\ disk'.notinvt = disk.notinvt
      BY <1>2, <1>4 DEF Kill, Interrupt, KillInSave, IsDisk
    <2> QED
      BY <1>1, <1>4, <2>1, EndedKnown DEF Kill, Interrupt, KillInSave
  <1>5. CASE ListDirectories
    BY <1>1, <1>5 DEF ListDirectories
  <1>6. ASSUME NEW h \in Hashes, UnreadableLog(h) \/ LookAtKnown(h) \/ LookAtNew(h)
        PROVE  KnownAreLogged'
    <2>1. CASE UnreadableLog(h)
      BY <1>1, <2>1, EndedKnown DEF UnreadableLog, Dies
    <2>2. CASE LookAtKnown(h) \/ LookAtNew(h)
      <3>1. h \in Logged
        BY <2>2 DEF LookAtKnown, LookAtNew, NoTimestamps, Logged
      <3>2. /\ PerHash(database')
            /\ \A other \in Hashes : database'[other] # Absent => other \in Logged
        BY <2>2, <3>1 DEF LookAtKnown, LookAtNew, PerHash
      <3>3. /\ UNCHANGED <<disk, notinvt, pending>>
            /\ checker' \in {"search", "dump"} /\ hash' = h
        BY <2>2 DEF LookAtKnown, LookAtNew
      <3> QED
        BY <1>1, <3>1, <3>2, <3>3
    <2> QED
      BY <1>6, <2>1, <2>2
  <1>7. CASE WaitMinute \/ WaitMonth
    BY <1>1, <1>7 DEF WaitMinute, WaitMonth
  <1>8. CASE WaitDay \/ RefusedAgain \/ ReplyRaises
    BY <1>1, <1>8, EndedKnown DEF WaitDay, RefusedAgain, ReplyRaises, Dies
  <1>9. CASE Send \/ (\E answer \in Served : Serve(answer)) \/ Return \/ Fail
    BY <1>1, <1>9 DEF Send, Serve, Return, Fail, Searches, Asking, Answered
  <1>10. CASE Handle
    <2>1. hash \in Logged
      BY <1>10 DEF Handle
    <2>2. /\ PerHash(database')
          /\ \A other \in Hashes : database'[other] # Absent => other \in Logged
          /\ notinvt' \in Seq(Logged)
      BY <1>10, <2>1, HandleReplyKnown DEF Handle
    <2> QED
      BY <1>1, <1>10, <2>2 DEF Handle
  <1>11. CASE DumpDatabase
    BY <1>1, <1>2, <1>11 DEF DumpDatabase, IsDisk
  <1>12. CASE DumpNotInVt
    BY <1>1, <1>2, <1>12 DEF DumpNotInVt, IsDisk
  <1>13. CASE Recheck
    <2>1. ToUse(RemainingThisDay(budget)) \in Int
      BY ToUseIsInt
    <2>2. pending' \in Seq(Logged) /\ (checker' = "ask again" => pending' # <<>>)
      BY <1>13, <2>1, FirstOfProperties DEF Recheck
    <2>3. UNCHANGED <<database, disk, notinvt>> /\ checker' \in {"dump", "ask again", "list"}
      BY <1>13 DEF Recheck
    <2> QED
      BY <1>1, <2>2, <2>3
  <1>14. CASE HandleAgain
    <2>1. Head(pending) \in Logged /\ Tail(pending) \in Seq(Logged)
      BY <1>14, HeadTailProperties DEF HandleAgain
    <2>2. /\ PerHash(database')
          /\ \A other \in Hashes : database'[other] # Absent => other \in Logged
          /\ notinvt' \in Seq(Logged)
      BY <1>14, <2>1, HandleReplyKnown DEF HandleAgain
    <2>3. /\ UNCHANGED disk /\ pending' = Tail(pending)
          /\ checker' = IF pending' = <<>> THEN "dump" ELSE "ask again"
      BY <1>14 DEF HandleAgain
    <2> QED
      BY <1>1, <2>1, <2>2, <2>3
  <1> QED
    BY <1>3, <1>4, <1>5, <1>6, <1>7, <1>8, <1>9, <1>10, <1>11, <1>12, <1>13, <1>14 DEF Check

LEMMA NextKnown ==
  ASSUME CommonTypes, BytesFirst, KnownAreLogged, QuotaInv, [Next]_vars
  PROVE  KnownAreLogged'
  <1>1. CASE Check
    BY <1>1, CheckKnown
  <1>2. CASE Tick
    <2>1. /\ UNCHANGED <<checker, hash, pending, database, notinvt, disk>>
          /\ Logged' = Logged
      BY <1>2 DEF Tick, hashFiles, Logged
    <2> QED
      BY <2>1 DEF KnownAreLogged, PerHash
  <1>3. CASE ~Check /\ ~Tick
    BY <1>3, LoggedStays, KnownUntouched DEF Next, vars
  <1> QED
    BY <1>1, <1>2, <1>3

LEMMA HandleReplyMarks ==
  ASSUME NEW h, KnownAreLogged, HandleReply(h)
  PROVE  /\ changed \subseteq changed'
         /\ database' # database => "database" \in changed'
         /\ notinvt' # notinvt => "notinvt" \in changed'
  <1>1. CASE Known(h)
    <2>1. ~Contains(notinvt, h) => notinvt' = notinvt
      BY <1>1, RemoveFirstKeeps DEF Known, KnownAreLogged
    <2> QED
      BY <1>1, <2>1 DEF Known
  <1>2. CASE Unknown(h)
    BY <1>2 DEF Unknown
  <1>3. CASE UNCHANGED <<database, notinvt, changed>>
    BY <1>3
  <1> QED
    BY <1>1, <1>2, <1>3 DEF HandleReply

LEMMA CheckSaved ==
  ASSUME CommonTypes, KnownAreLogged, SavedOrMarked, Check PROVE SavedOrMarked'
  <1> USE DEF SavedOrMarked
  <1>1. IsDisk(disk)
    BY DEF CommonTypes
  <1>2. CASE \E online \in BOOLEAN : Start(online) \/ StartRaises(online)
    BY <1>2 DEF Start, StartRaises
  <1>3. CASE Kill \/ Interrupt \/ KillInSave \/ WaitDay \/ RefusedAgain \/ ReplyRaises
    BY <1>3 DEF Kill, Interrupt, KillInSave, WaitDay, RefusedAgain, ReplyRaises, Dies, Ended
  <1>4. CASE ListDirectories
    BY <1>4 DEF ListDirectories
  <1>5. CASE \E h \in Hashes : UnreadableLog(h) \/ LookAtKnown(h) \/ LookAtNew(h)
    BY <1>5 DEF UnreadableLog, LookAtKnown, LookAtNew, Dies, Ended
  <1>6. CASE WaitMinute \/ WaitMonth
    BY <1>6 DEF WaitMinute, WaitMonth
  <1>7. CASE Send \/ (\E answer \in Served : Serve(answer)) \/ Return \/ Fail
    BY <1>7 DEF Send, Serve, Return, Fail, Searches, Asking, Answered
  <1>8. CASE Handle
    <2>1. /\ changed \subseteq changed'
          /\ database' # database => "database" \in changed'
          /\ notinvt' # notinvt => "notinvt" \in changed'
      BY <1>8, HandleReplyMarks DEF Handle
    <2> QED
      BY <1>8, <2>1 DEF Handle
  <1>9. CASE DumpDatabase
    BY <1>1, <1>9 DEF DumpDatabase, IsDisk
  <1>10. CASE DumpNotInVt
    BY <1>1, <1>10 DEF DumpNotInVt, IsDisk
  <1>11. CASE Recheck
    BY <1>11 DEF Recheck
  <1>12. CASE HandleAgain
    <2>1. /\ changed \subseteq changed'
          /\ database' # database => "database" \in changed'
          /\ notinvt' # notinvt => "notinvt" \in changed'
      BY <1>12, HandleReplyMarks DEF HandleAgain
    <2> QED
      BY <1>12, <2>1 DEF HandleAgain
  <1> QED
    BY <1>2, <1>3, <1>4, <1>5, <1>6, <1>7, <1>8, <1>9, <1>10, <1>11, <1>12 DEF Check

LEMMA InitSaved == Init => SavedOrMarked
  BY DEF Init, CheckerInit, SavedOrMarked

LEMMA NextSaved ==
  ASSUME CommonTypes, KnownAreLogged, SavedOrMarked, [Next]_vars PROVE SavedOrMarked'
  <1>1. CASE Check
    BY <1>1, CheckSaved
  <1>2. CASE ~Check
    BY <1>2 DEF Next, Tick, vars, checkerVars, SavedOrMarked
  <1> QED
    BY <1>1, <1>2

-----------------------------------------------------------------------------
(* The budget.                                                              *)

LEMMA Quotient ==
  ASSUME NEW n \in Nat, NEW d \in Nat \ {0}
  PROVE  n \div d \in Nat /\ d * (n \div d) <= n /\ n < d * (n \div d) + d
  OBVIOUS

LEMMA QuotientGrows ==
  ASSUME NEW m \in Nat, NEW n \in Nat, m <= n, NEW d \in Nat \ {0}
  PROVE  m \div d <= n \div d
  <1>1. PICK p \in Nat : p = m \div d /\ d * p <= m
    BY Quotient
  <1>2. PICK q \in Nat : q = n \div d /\ n < d * q + d
    BY Quotient
  <1>3. CASE p > q
    <2>1. PICK r \in Nat : p = q + 1 + r
      <3>1. p - q - 1 \in Nat /\ p = q + 1 + (p - q - 1)
        BY <1>3
      <3> QED
        BY <3>1
    <2>2. d * p = d * q + d + d * r /\ d * r \in Nat /\ d * q \in Nat
      BY <2>1
    <2> QED
      BY <1>1, <1>2, <2>2
  <1> QED
    BY <1>1, <1>2, <1>3

LEMMA Calendar ==
  ASSUME NEW t \in Nat
  PROVE  /\ DayOf(t) \in Nat /\ MonthOf(t) \in Nat
         /\ DayOf(t) <= DayOf(t + 1) /\ MonthOf(t) <= MonthOf(t + 1)
         /\ MonthOf(t) = DayOf(t) \div DaysPerMonth
         /\ \A day \in Nat : /\ day \div DaysPerMonth \in Nat
                             /\ day <= DayOf(t) => day \div DaysPerMonth <= MonthOf(t)
  <1> USE BudgetAssumption
  <1>1. Day \in Nat \ {0} /\ DaysPerMonth \in Nat \ {0}
    OBVIOUS
  <1>2. DayOf(t) \in Nat /\ DayOf(t + 1) \in Nat /\ DayOf(t) <= DayOf(t + 1)
    BY <1>1, Quotient, QuotientGrows DEF DayOf
  <1> QED
    BY <1>1, <1>2, Quotient, QuotientGrows DEF MonthOf

Made == now \in Nat /\ asked \in [day : Nat, month : Nat]

(* What UpdateTime keeps: a budget that has begun accounts for the requests *)
(* before it and after it.                                                  *)
LEMMA UpdatedBudget ==
  ASSUME Made, NEW free \in Nat, NEW b \in BudgetType, b.last # None,
         InStep(b), Accounts(b, free)
  PROVE  LET u == UpdateTime(b, now)
         IN  u \in BudgetType /\ u.last # None /\ InStep(u) /\ Accounts(u, free)
  <1> DEFINE u == UpdateTime(b, now)
  <1> USE DEF Made
  <1>1. /\ b.last \in Nat /\ b.day \in Nat /\ b.month \in Nat
        /\ b.day <= DayOf(now) /\ b.month = b.day \div DaysPerMonth
        /\ b.thisMinute \in 0 .. max_requests_per_minute
        /\ b.thisDay \in Nat /\ b.thisMonth \in Nat
    BY DEF BudgetType, InStep
  <1>2. /\ DayOf(now) \in Nat /\ MonthOf(now) \in Nat /\ b.month <= MonthOf(now)
        /\ MonthOf(now) = DayOf(now) \div DaysPerMonth
    BY <1>1, Calendar
  <1>3. max_requests_per_minute \in Nat /\ None \notin Nat
    BY BudgetAssumption
  <1>4. /\ Covers(b.thisDay, b.day, DayOf(now), b.thisMinute, asked.day, free)
        /\ Covers(b.thisMonth, b.month, MonthOf(now), b.thisMinute, asked.month, free)
    BY DEF Accounts
  <1>5. asked.day \in Nat /\ asked.month \in Nat
    OBVIOUS
  <1>6. u = b \/ now - b.last > Minute
    BY DEF UpdateTime, BudgetType
  <1>7. CASE now - b.last > Minute
    <2>1. u = [last |-> now,
               day |-> IF DayOf(now) > b.day THEN DayOf(now) ELSE b.day,
               month |-> IF DayOf(now) > b.day /\ MonthOf(now) > b.month
                         THEN MonthOf(now) ELSE b.month,
               thisMinute |-> 0,
               thisDay |-> IF DayOf(now) > b.day THEN 0 ELSE b.thisDay,
               thisMonth |-> IF DayOf(now) > b.day /\ MonthOf(now) > b.month
                             THEN 0 ELSE b.thisMonth]
      BY <1>7 DEF UpdateTime
    <2>2. u \in BudgetType
      BY <1>1, <1>2, <1>3, <2>1 DEF BudgetType
    <2>3. u.day = DayOf(now)
      BY <1>1, <1>2, <2>1
    <2>4. u.month = MonthOf(now)
      <3>1. CASE DayOf(now) > b.day
        BY <1>1, <1>2, <2>1, <3>1
      <3>2. CASE ~(DayOf(now) > b.day)
        <4>1. b.day = DayOf(now)
          BY <1>1, <1>2, <3>2
        <4> QED
          BY <1>1, <1>2, <2>1, <3>2, <4>1
      <3> QED
        BY <3>1, <3>2
    <2>5. InStep(u)
      BY <1>2, <2>3, <2>4 DEF InStep
    <2>6. asked.day <= u.thisDay + max_requests_per_minute + free
      <3>1. CASE DayOf(now) > b.day
        BY <1>1, <1>2, <1>3, <1>4, <1>5, <2>1, <3>1 DEF Covers
      <3>2. CASE ~(DayOf(now) > b.day)
        BY <1>1, <1>2, <1>4, <2>1, <3>2 DEF Covers
      <3> QED
        BY <3>1, <3>2
    <2>7. asked.month <= u.thisMonth + max_requests_per_minute + free
      <3>1. CASE DayOf(now) > b.day /\ MonthOf(now) > b.month
        BY <1>1, <1>2, <1>3, <1>4, <1>5, <2>1, <3>1 DEF Covers
      <3>2. CASE ~(DayOf(now) > b.day /\ MonthOf(now) > b.month)
        <4>1. b.month = MonthOf(now) /\ u.thisMonth = b.thisMonth
          BY <2>1, <2>4, <3>2
        <4> QED
          BY <1>4, <4>1 DEF Covers
      <3> QED
        BY <3>1, <3>2
    <2>8. u.last # None
      BY <1>3, <2>1
    <2> QED
      BY <2>2, <2>3, <2>4, <2>5, <2>6, <2>7, <2>8 DEF Accounts, Covers
  <1> QED
    BY <1>6, <1>7

LEMMA ReadyBudget ==
  ASSUME Made, NEW free \in Nat, NEW b \in BudgetType, InStep(b), Accounts(b, free)
  PROVE  LET r == UpdateTime(Started(b, now), now)
         IN  r \in BudgetType /\ r.last # None /\ InStep(r) /\ Accounts(r, free)
  <1> DEFINE s == Started(b, now)
  <1>1. CASE b.last = None
    <2>1. s = [b EXCEPT !.last = now, !.day = DayOf(now), !.month = MonthOf(now)]
      BY <1>1 DEF Started
    <2>2. /\ now \in Nat /\ None \notin Nat /\ DayOf(now) \in Nat /\ MonthOf(now) \in Nat
          /\ MonthOf(now) = DayOf(now) \div DaysPerMonth
      BY Calendar, BudgetAssumption DEF Made
    <2>3. s \in BudgetType /\ s.last # None
      BY <2>1, <2>2 DEF BudgetType
    <2>4. InStep(s)
      BY <2>1, <2>2 DEF BudgetType, InStep
    <2>5. Accounts(s, free)
      BY <1>1, <2>1, <2>2 DEF BudgetType, Accounts, Covers
    <2> HIDE DEF s
    <2> QED
      BY <2>3, <2>4, <2>5, UpdatedBudget DEF s
  <1>2. CASE b.last # None
    BY <1>2, UpdatedBudget DEF Started
  <1> QED
    BY <1>1, <1>2

LEMMA QuotaFields ==
  ASSUME NEW b \in BudgetType
  PROVE  /\ UpdateQuota(b).last = b.last /\ UpdateQuota(b).day = b.day
         /\ UpdateQuota(b).month = b.month
         /\ UpdateQuota(b).thisMinute = b.thisMinute + 1
         /\ UpdateQuota(b).thisDay = b.thisDay + 1
         /\ UpdateQuota(b).thisMonth = b.thisMonth + 1
  BY DEF UpdateQuota, BudgetType

LEMMA QuotaType ==
  ASSUME NEW b \in BudgetType, b.thisMinute < max_requests_per_minute
  PROVE  UpdateQuota(b) \in BudgetType
  <1>1. /\ b.thisMinute + 1 \in 0 .. max_requests_per_minute
        /\ b.thisDay + 1 \in Nat /\ b.thisMonth + 1 \in Nat
    BY BudgetAssumption DEF BudgetType
  <1>2. \A x \in 0 .. max_requests_per_minute : \A y, z \in Nat :
          [b EXCEPT !.thisMinute = x, !.thisDay = y, !.thisMonth = z] \in BudgetType
    BY DEF BudgetType
  <1> QED
    BY <1>1, <1>2 DEF UpdateQuota

(* A request that the service counts and a budget does not.                 *)
LEMMA ServedRequest ==
  ASSUME Made, NEW free \in Nat, NEW b \in BudgetType, Accounts(b, free),
         asked' = [day |-> asked.day + 1, month |-> asked.month + 1], now' = now
  PROVE  Accounts(b, free + 1)'
  <1>1. /\ asked.day \in Nat /\ asked.month \in Nat
        /\ asked'.day = asked.day + 1 /\ asked'.month = asked.month + 1
    BY DEF Made
  <1>2. /\ b.thisDay \in Nat /\ b.thisMonth \in Nat /\ b.thisMinute \in Nat
        /\ max_requests_per_minute \in Nat
    BY BudgetAssumption DEF BudgetType
  <1>3. ASSUME NEW counted \in Nat, NEW period, NEW current, NEW minute \in Nat,
               NEW made \in Nat, Covers(counted, period, current, minute, made, free)
        PROVE  Covers(counted, period, current, minute, made + 1, free + 1)
    BY <1>2, <1>3 DEF Covers
  <1>4. CASE b.last = None
    BY <1>1, <1>2, <1>4 DEF Accounts
  <1>5. CASE b.last # None
    <2>1. /\ Covers(b.thisDay, b.day, DayOf(now), b.thisMinute, asked'.day, free + 1)
          /\ Covers(b.thisMonth, b.month, MonthOf(now), b.thisMinute, asked'.month, free + 1)
      BY <1>1, <1>2, <1>3, <1>5 DEF Accounts
    <2> QED
      BY <1>5, <2>1 DEF Accounts, DayOf, MonthOf
  <1> QED
    BY <1>4, <1>5

(* One that a budget counts later, which allowed it when it was sent.       *)
LEMMA CountedRequest ==
  ASSUME Made, NEW free \in Nat, NEW b \in BudgetType, b.last # None,
         InStep(b), Accounts(b, free + 1),
         ~OutOfMinute(b), ~OutOfDay(b), ~OutOfMonth(b), UNCHANGED <<asked, now>>
  PROVE  /\ UpdateQuota(b) \in BudgetType /\ UpdateQuota(b).last # None
         /\ InStep(UpdateQuota(b))' /\ Accounts(UpdateQuota(b), free)'
         /\ asked.day <= max_requests_per_day + max_requests_per_minute + free
         /\ asked.month <= max_requests_per_month + max_requests_per_minute + free
  <1> DEFINE q == UpdateQuota(b)
  <1>1. /\ q.last = b.last /\ q.day = b.day /\ q.month = b.month
        /\ q.thisMinute = b.thisMinute + 1 /\ q.thisDay = b.thisDay + 1
        /\ q.thisMonth = b.thisMonth + 1
    BY QuotaFields
  <1>2. /\ b.last \in Nat \cup {None} /\ b.day \in Nat \cup {None}
        /\ b.month \in Nat \cup {None}
        /\ b.thisMinute \in 0 .. max_requests_per_minute
        /\ b.thisDay \in Nat /\ b.thisMonth \in Nat
    BY DEF BudgetType
  <1>3. /\ max_requests_per_minute \in Nat /\ max_requests_per_day \in Nat
        /\ max_requests_per_month \in Nat
    BY BudgetAssumption
  <1>4. /\ b.thisMinute < max_requests_per_minute /\ b.thisDay < max_requests_per_day
        /\ b.thisMonth < max_requests_per_month
    BY <1>2, <1>3 DEF OutOfMinute, OutOfDay, OutOfMonth
  <1>5. q \in BudgetType
    BY <1>4, QuotaType
  <1>6. /\ Covers(b.thisDay, b.day, DayOf(now), b.thisMinute, asked.day, free + 1)
        /\ Covers(b.thisMonth, b.month, MonthOf(now), b.thisMinute, asked.month, free + 1)
    BY DEF Accounts
  <1>7. asked.day \in Nat /\ asked.month \in Nat
    BY DEF Made
  <1>8. /\ Covers(q.thisDay, q.day, DayOf(now), q.thisMinute, asked.day, free)
        /\ Covers(q.thisMonth, q.month, MonthOf(now), q.thisMinute, asked.month, free)
    BY <1>1, <1>2, <1>3, <1>6, <1>7 DEF Covers
  <1>9. Accounts(q, free)' /\ InStep(q)'
    BY <1>1, <1>8 DEF Accounts, InStep, DayOf, MonthOf
  <1>10. /\ asked.day <= max_requests_per_day + max_requests_per_minute + free
         /\ asked.month <= max_requests_per_month + max_requests_per_minute + free
    BY <1>2, <1>3, <1>4, <1>6, <1>7 DEF Covers
  <1> HIDE DEF q
  <1>11. q.last # None
    BY <1>1
  <1> QED
    BY <1>5, <1>9, <1>10, <1>11 DEF q

LEMMA InitQuota == Init => QuotaInv
  <1> SUFFICES ASSUME Init PROVE QuotaInv
    OBVIOUS
  <1>1. NoBudget \in BudgetType /\ NoBudget.last = None
        /\ NoBudget.thisDay = 0 /\ NoBudget.thisMonth = 0
    BY BudgetAssumption DEF NoBudget, BudgetType
  <1>2. /\ max_requests_per_minute \in Nat /\ max_requests_per_day \in Nat
        /\ max_requests_per_month \in Nat
    BY BudgetAssumption
  <1>3. /\ checker = "off" /\ budget = NoBudget /\ disk.stats = NoBudget
        /\ asked = [day |-> 0, month |-> 0] /\ unsaved = 0 /\ owed = 0
    BY DEF Init, CheckerInit
  <1> HIDE DEF Init
  <1>4. InStep(NoBudget) /\ Accounts(NoBudget, 0)
    BY <1>1, <1>2, <1>3 DEF InStep, Accounts
  <1>5. QuotaKept
    BY <1>2, <1>3 DEF QuotaKept
  <1> QED
    BY <1>1, <1>3, <1>4, <1>5 DEF QuotaInv, Asking

(* The steps by what they do to the budget: nothing, or they make it ready, *)
(* or the process ends and forgets or saves it.                             *)
Budgets == <<asked, unsaved, owed, budget, disk.stats>>

LEMMA QuotaUntouched ==
  ASSUME QuotaInv, UNCHANGED <<now, Budgets>>,
         checker' = "off" <=> checker = "off",
         Asking' => Asking /\ reply' = reply
  PROVE  QuotaInv'
  <1>1. /\ now' = now /\ asked' = asked /\ unsaved' = unsaved /\ owed' = owed
        /\ budget' = budget /\ disk'.stats = disk.stats
    BY DEF Budgets
  <1>2. /\ InStep(budget)' = InStep(budget) /\ InStep(disk.stats)' = InStep(disk.stats)
        /\ Accounts(disk.stats, owed + unsaved)' = Accounts(disk.stats, owed + unsaved)
        /\ Accounts(budget, owed)' = Accounts(budget, owed)
    BY <1>1 DEF InStep, Accounts, DayOf, MonthOf
  <1>3. QuotaKept' = QuotaKept
    BY <1>1 DEF QuotaKept
  <1>4. /\ OutOfMinute(budget)' = OutOfMinute(budget)
        /\ OutOfDay(budget)' = OutOfDay(budget) /\ OutOfMonth(budget)' = OutOfMonth(budget)
    BY <1>1 DEF OutOfMinute, OutOfDay, OutOfMonth
  <1> QED
    BY <1>1, <1>2, <1>3, <1>4 DEF QuotaInv

LEMMA QuotaReady ==
  ASSUME CommonTypes, QuotaInv, checker # "off", checker' # "off", budget' = Ready,
         UNCHANGED <<now, asked, unsaved, owed, disk>>,
         Asking' => MayAsk /\ reply' = None
  PROVE  QuotaInv'
  <1>1. Made /\ owed \in Nat
    BY DEF Made, CommonTypes, QuotaInv
  <1>2. /\ Ready \in BudgetType /\ Ready.last # None
        /\ InStep(Ready) /\ Accounts(Ready, owed)
    BY <1>1, ReadyBudget DEF QuotaInv, Ready
  <1>6. Asking' => /\ ~OutOfMinute(budget)' /\ ~OutOfDay(budget)' /\ ~OutOfMonth(budget)'
                   /\ reply' = None
    BY DEF MayAsk, OutOfMinute, OutOfDay, OutOfMonth
  <1> HIDE DEF Ready
  <1>3. InStep(budget)' /\ Accounts(budget, owed)'
    BY <1>2 DEF InStep, Accounts, DayOf, MonthOf
  <1>4. /\ InStep(disk.stats)' = InStep(disk.stats)
        /\ Accounts(disk.stats, owed + unsaved)' = Accounts(disk.stats, owed + unsaved)
    BY DEF InStep, Accounts, DayOf, MonthOf
  <1>5. QuotaKept' = QuotaKept
    BY DEF QuotaKept
  <1> QED
    BY <1>2, <1>3, <1>4, <1>5, <1>6 DEF QuotaInv

LEMMA NoBudgetInStep ==
  NoBudget \in BudgetType /\ NoBudget.last = None
  BY BudgetAssumption DEF NoBudget, BudgetType

LEMMA QuotaForgets ==
  ASSUME QuotaInv, Ended, UNCHANGED <<now, disk.stats>>, owed' = owed + unsaved
  PROVE  QuotaInv'
  <1>1. /\ now' = now /\ asked' = asked /\ unsaved' = 0 /\ owed' = owed + unsaved
        /\ budget' = NoBudget /\ disk'.stats = disk.stats /\ checker' = "off"
    BY DEF Ended
  <1>2. unsaved \in Nat /\ owed \in Nat
    BY DEF QuotaInv
  <1>3. owed' \in Nat /\ owed' + unsaved' = owed + unsaved /\ owed <= owed'
    BY <1>1, <1>2
  <1>4. InStep(budget)'
    BY <1>1, NoBudgetInStep DEF InStep
  <1>5. /\ InStep(disk.stats)' = InStep(disk.stats)
        /\ Accounts(disk.stats, owed + unsaved)' = Accounts(disk.stats, owed + unsaved)
    BY <1>1, <1>3 DEF InStep, Accounts, DayOf, MonthOf
  <1>6. QuotaKept'
    <2>1. asked.day \in Nat /\ asked.month \in Nat /\ QuotaKept
      BY DEF QuotaInv
    <2>2. /\ max_requests_per_minute \in Nat /\ max_requests_per_day \in Nat
          /\ max_requests_per_month \in Nat
      BY BudgetAssumption
    <2> QED
      BY <1>1, <1>2, <1>3, <2>1, <2>2 DEF QuotaKept
  <1>7. ~Asking'
    BY <1>1 DEF Asking
  <1> QED
    BY <1>1, <1>3, <1>4, <1>5, <1>6, <1>7, NoBudgetInStep DEF QuotaInv

LEMMA QuotaInterrupt ==
  ASSUME CommonTypes, QuotaInv, Interrupt, UNCHANGED now PROVE QuotaInv'
  <1>1. /\ now' = now /\ asked' = asked /\ unsaved' = 0 /\ owed' = owed
        /\ budget' = NoBudget /\ checker' = "off"
        /\ disk'.stats = IF budget.last = None THEN disk.stats ELSE budget
    BY DEF Interrupt, Ended, SavedStats, CommonTypes, IsDisk
  <1>2. unsaved \in Nat /\ owed \in Nat /\ owed + 0 = owed
    BY DEF QuotaInv
  <1>3. InStep(budget)'
    BY <1>1, NoBudgetInStep DEF InStep
  <1>4. disk'.stats \in BudgetType /\ InStep(disk.stats)'
    BY <1>1 DEF QuotaInv, InStep, DayOf
  <1>5. Accounts(disk.stats, owed)'
    <2>1. CASE budget.last = None
      <3>1. unsaved = 0 /\ disk'.stats = disk.stats
        BY <1>1, <2>1 DEF QuotaInv, Interrupt
      <3>2. Accounts(disk.stats, owed)
        BY <1>2, <3>1 DEF QuotaInv
      <3> QED
        BY <1>1, <3>1, <3>2 DEF Accounts, DayOf, MonthOf
    <2>2. CASE budget.last # None
      <3>1. Accounts(budget, owed) /\ disk'.stats = budget
        BY <1>1, <2>2 DEF QuotaInv, Interrupt
      <3> QED
        BY <1>1, <3>1 DEF Accounts, DayOf, MonthOf
    <2> QED
      BY <2>1, <2>2
  <1>6. Accounts(disk.stats, owed + unsaved)'
    BY <1>1, <1>2, <1>5 DEF Accounts
  <1>7. QuotaKept'
    BY <1>1 DEF QuotaInv, QuotaKept
  <1>8. ~Asking'
    BY <1>1 DEF Asking
  <1> QED
    BY <1>1, <1>2, <1>3, <1>4, <1>6, <1>7, <1>8, NoBudgetInStep DEF QuotaInv

LEMMA QuotaStart ==
  ASSUME QuotaInv, NEW online \in BOOLEAN, Start(online), UNCHANGED now PROVE QuotaInv'
  <1>1. /\ now' = now /\ asked' = asked /\ unsaved' = unsaved /\ owed' = owed
        /\ disk' = disk /\ unsaved = 0 /\ checker' = "list"
    BY DEF Start, QuotaInv
  <1>2. owed \in Nat /\ owed + 0 = owed /\ asked.day \in Nat /\ asked.month \in Nat
    BY DEF QuotaInv
  <1>3. /\ InStep(disk.stats)' = InStep(disk.stats)
        /\ Accounts(disk.stats, owed + unsaved)' = Accounts(disk.stats, owed + unsaved)
        /\ QuotaKept' = QuotaKept
    BY <1>1 DEF InStep, Accounts, DayOf, MonthOf, QuotaKept
  <1>4. budget' \in BudgetType /\ InStep(budget)' /\ Accounts(budget, owed)'
    <2>1. CASE online
      <3>1. budget' = [NoBudget EXCEPT !.thisDay = asked.day, !.thisMonth = asked.month]
        BY <2>1 DEF Start, OnlineBudget
      <3>2. /\ budget' \in BudgetType /\ budget'.last = None
            /\ budget'.thisDay = asked.day /\ budget'.thisMonth = asked.month
        BY <1>2, <3>1, NoBudgetInStep DEF BudgetType
      <3>3. max_requests_per_minute \in Nat
        BY BudgetAssumption
      <3> QED
        BY <1>1, <1>2, <3>2, <3>3 DEF InStep, Accounts
    <2>2. CASE ~online
      <3>1. budget' = disk.stats
        BY <2>2 DEF Start
      <3>2. Accounts(disk.stats, owed)
        BY <1>1, <1>2 DEF QuotaInv
      <3> QED
        BY <1>1, <3>1, <3>2 DEF QuotaInv, InStep, Accounts, DayOf, MonthOf
    <2> QED
      BY <2>1, <2>2
  <1>5. ~Asking'
    BY <1>1 DEF Asking
  <1> QED
    BY <1>1, <1>2, <1>3, <1>4, <1>5 DEF QuotaInv

LEMMA QuotaServe ==
  ASSUME CommonTypes, QuotaInv, UNCHANGED now, NEW answer \in Served, Serve(answer)
  PROVE  QuotaInv'
  <1>1. /\ asked' = [day |-> asked.day + 1, month |-> asked.month + 1]
        /\ owed' = owed + 1 /\ Asking /\ checker # "off" /\ now' = now
        /\ UNCHANGED <<checker, budget, disk, unsaved>>
    BY DEF Serve, Asking
  <1>2. Made /\ owed \in Nat /\ unsaved \in Nat /\ owed + unsaved \in Nat
    BY DEF Made, CommonTypes, QuotaInv
  <1>3. asked' \in [day : Nat, month : Nat] /\ owed' \in Nat
        /\ owed' + unsaved' = (owed + unsaved) + 1 /\ owed' > 0
    BY <1>1, <1>2 DEF Made
  <1>4. PICK b \in BudgetType, stats \in BudgetType :
          b = budget /\ budget' = b /\ stats = disk.stats /\ disk'.stats = stats
    BY <1>1 DEF QuotaInv
  <1>5. PICK free \in Nat, more \in Nat : free = owed /\ more = owed + unsaved
    BY <1>2
  <1>6. Accounts(budget, owed)' /\ Accounts(disk.stats, owed + unsaved)'
    <2>1. Accounts(b, free) /\ Accounts(stats, more)
      BY <1>1, <1>4, <1>5 DEF QuotaInv
    <2>2. Accounts(b, free + 1)' /\ Accounts(stats, more + 1)'
      BY <1>1, <1>2, <2>1, ServedRequest
    <2>3. owed' = free + 1 /\ owed' + unsaved' = more + 1
      BY <1>1, <1>3, <1>5
    <2> QED
      BY <1>4, <2>2, <2>3
  <1>7. InStep(budget)' /\ InStep(disk.stats)'
    BY <1>1 DEF QuotaInv, InStep, DayOf
  <1>8. QuotaKept'
    <2>1. /\ max_requests_per_minute \in Nat /\ max_requests_per_day \in Nat
          /\ max_requests_per_month \in Nat /\ QuotaKept
          /\ asked.day \in Nat /\ asked.month \in Nat
      BY BudgetAssumption DEF QuotaInv
    <2> QED
      BY <1>1, <1>2, <2>1 DEF QuotaKept
  <1>9. Asking' => /\ budget'.last # None
                   /\ ~OutOfMinute(budget)' /\ ~OutOfDay(budget)' /\ ~OutOfMonth(budget)'
    BY <1>1 DEF QuotaInv, OutOfMinute, OutOfDay, OutOfMonth
  <1>10. budget'.last # None
    BY <1>1 DEF QuotaInv
  <1> QED
    BY <1>1, <1>2, <1>3, <1>6, <1>7, <1>8, <1>9, <1>10 DEF QuotaInv

LEMMA QuotaReturn ==
  ASSUME CommonTypes, QuotaInv, UNCHANGED now, Return PROVE QuotaInv'
  <1>1. /\ asked' = asked /\ owed' = owed - 1 /\ unsaved' = unsaved + 1
        /\ budget' = UpdateQuota(budget) /\ Asking /\ reply # None /\ checker # "off"
        /\ checker' \in {"handle", "handle again"} /\ disk' = disk /\ now' = now
    BY DEF Return, Asking, Answered
  <1>2. /\ Made /\ owed \in Nat /\ unsaved \in Nat /\ owed > 0
        /\ budget \in BudgetType /\ budget.last # None /\ InStep(budget)
        /\ Accounts(budget, owed)
        /\ ~OutOfMinute(budget) /\ ~OutOfDay(budget) /\ ~OutOfMonth(budget)
    BY <1>1 DEF Made, CommonTypes, QuotaInv
  <1>3. PICK rest \in Nat : owed = rest + 1 /\ owed' = rest
    <2>1. owed - 1 \in Nat /\ owed = (owed - 1) + 1
      BY <1>2
    <2> QED
      BY <1>1, <2>1
  <1>4. Accounts(budget, rest + 1)
    BY <1>2, <1>3
  <1>10. PICK b \in BudgetType : b = budget
    BY <1>2
  <1>5. /\ UpdateQuota(b) \in BudgetType /\ UpdateQuota(b).last # None
        /\ InStep(UpdateQuota(b))' /\ Accounts(UpdateQuota(b), rest)'
        /\ asked.day <= max_requests_per_day + max_requests_per_minute + rest
        /\ asked.month <= max_requests_per_month + max_requests_per_minute + rest
    BY <1>1, <1>2, <1>4, <1>10, CountedRequest
  <1>6. /\ budget' \in BudgetType /\ budget'.last # None
        /\ InStep(budget)' /\ Accounts(budget, owed)'
    <2>1. budget' = UpdateQuota(b)
      BY <1>1, <1>10
    <2> QED
      BY <1>3, <1>5, <2>1
  <1>7. owed' + unsaved' = owed + unsaved /\ unsaved' \in Nat /\ owed' \in Nat
    <2>1. unsaved' = unsaved + 1 /\ unsaved \in Nat /\ owed = rest + 1 /\ owed' = rest
      BY <1>1, <1>2, <1>3
    <2> QED
      BY <2>1
  <1>8. InStep(disk.stats)' /\ Accounts(disk.stats, owed + unsaved)'
    <2>1. PICK stats, free : /\ stats = disk.stats /\ disk'.stats = stats
                             /\ free = owed + unsaved /\ owed' + unsaved' = free
      BY <1>1, <1>7
    <2>2. disk.stats \in BudgetType /\ InStep(stats) /\ Accounts(stats, free)
      BY <2>1 DEF QuotaInv
    <2>3. InStep(stats)' /\ Accounts(stats, free)'
      BY <1>1, <2>2 DEF InStep, Accounts, DayOf, MonthOf
    <2> QED
      BY <2>1, <2>3
  <1>9. QuotaKept' /\ ~Asking'
    BY <1>1, <1>3, <1>5 DEF QuotaKept, Asking
  <1> QED
    BY <1>1, <1>6, <1>7, <1>8, <1>9 DEF QuotaInv

LEMMA TickCalendar ==
  ASSUME Tick, now \in Nat
  PROVE  /\ DayOf(now) \in Nat /\ MonthOf(now) \in Nat
         /\ DayOf(now') \in Nat /\ MonthOf(now') \in Nat
         /\ DayOf(now) <= DayOf(now') /\ MonthOf(now) <= MonthOf(now')
  <1>1. now' = now + 1 /\ now + 1 \in Nat
    BY DEF Tick
  <1>2. /\ DayOf(now) \in Nat /\ MonthOf(now) \in Nat
        /\ DayOf(now) <= DayOf(now + 1) /\ MonthOf(now) <= MonthOf(now + 1)
    BY Calendar
  <1>3. DayOf(now + 1) \in Nat /\ MonthOf(now + 1) \in Nat
    BY <1>1, Calendar
  <1> QED
    BY <1>1, <1>2, <1>3

LEMMA BudgetTick ==
  ASSUME Tick, Made, NEW b \in BudgetType, NEW free \in Nat, InStep(b), Accounts(b, free)
  PROVE  InStep(b)' /\ Accounts(b, free)'
  <1>1. /\ DayOf(now) \in Nat /\ MonthOf(now) \in Nat
        /\ DayOf(now') \in Nat /\ MonthOf(now') \in Nat
        /\ DayOf(now) <= DayOf(now') /\ MonthOf(now) <= MonthOf(now')
    BY TickCalendar DEF Made
  <1>2. /\ asked'.day = IF DayOf(now') = DayOf(now) THEN asked.day ELSE 0
        /\ asked'.month = IF MonthOf(now') = MonthOf(now) THEN asked.month ELSE 0
        /\ asked.day \in Nat /\ asked.month \in Nat
    BY DEF Tick, Made
  <1>3. /\ b.thisMinute \in Nat /\ b.thisDay \in Nat /\ b.thisMonth \in Nat
        /\ max_requests_per_minute \in Nat
    BY BudgetAssumption DEF BudgetType
  <1>4. CASE b.last = None
    BY <1>2, <1>3, <1>4 DEF InStep, Accounts
  <1>5. CASE b.last # None
    <2>1. /\ b.day \in Nat /\ b.month \in Nat /\ b.day <= DayOf(now)
          /\ b.month = b.day \div DaysPerMonth /\ b.month <= MonthOf(now)
      BY <1>5, Calendar DEF InStep, Made
    <2>2. /\ Covers(b.thisDay, b.day, DayOf(now), b.thisMinute, asked.day, free)
          /\ Covers(b.thisMonth, b.month, MonthOf(now), b.thisMinute, asked.month, free)
      BY <1>5 DEF Accounts
    <2>3. Covers(b.thisDay, b.day, DayOf(now'), b.thisMinute, asked'.day, free)
      BY <1>1, <1>2, <1>3, <2>1, <2>2 DEF Covers
    <2>4. Covers(b.thisMonth, b.month, MonthOf(now'), b.thisMinute, asked'.month, free)
      BY <1>1, <1>2, <1>3, <2>1, <2>2 DEF Covers
    <2>5. InStep(b)'
      BY <1>1, <2>1 DEF InStep, DayOf
    <2> QED
      BY <1>5, <2>3, <2>4, <2>5 DEF Accounts, DayOf, MonthOf
  <1> QED
    BY <1>4, <1>5

LEMMA TickQuota ==
  ASSUME CommonTypes, QuotaInv, Tick PROVE QuotaInv'
  <1>1. /\ unsaved' = unsaved /\ owed' = owed /\ budget' = budget /\ disk' = disk
        /\ checker' = checker
    BY DEF Tick
  <1>2. /\ Made /\ owed \in Nat /\ owed + unsaved \in Nat
        /\ budget \in BudgetType /\ disk.stats \in BudgetType
    <2>1. /\ unsaved \in Nat /\ owed \in Nat /\ asked \in [day : Nat, month : Nat]
          /\ budget \in BudgetType /\ disk.stats \in BudgetType
      BY DEF QuotaInv
    <2> QED
      BY <2>1, CommonNumbers DEF Made
  <1>3. /\ InStep(disk.stats)' /\ Accounts(disk.stats, owed + unsaved)'
    BY <1>1, <1>2, BudgetTick DEF QuotaInv
  <1>4. InStep(budget)'
    <2>1. CASE budget.last = None
      BY <1>1, <2>1 DEF InStep
    <2>2. CASE budget.last # None
      <3>1. /\ budget.day \in Nat /\ budget.month \in Nat /\ budget.day <= DayOf(now)
            /\ budget.month = budget.day \div DaysPerMonth
        BY <2>2 DEF QuotaInv, InStep
      <3>2. DayOf(now) \in Nat /\ DayOf(now') \in Nat /\ DayOf(now) <= DayOf(now')
        BY <1>2, TickCalendar DEF Made
      <3> QED
        BY <1>1, <3>1, <3>2 DEF InStep, DayOf
    <2> QED
      BY <2>1, <2>2
  <1>5. checker # "off" => Accounts(budget, owed)'
    BY <1>1, <1>2, BudgetTick DEF QuotaInv
  <1>6. asked' \in [day : Nat, month : Nat] /\ asked'.day <= asked.day
        /\ asked'.month <= asked.month
    BY <1>2 DEF Tick, Made
  <1>7. QuotaKept'
    <2>1. asked.day \in Nat /\ asked.month \in Nat /\ QuotaKept
      BY DEF QuotaInv
    <2>2. /\ max_requests_per_minute \in Nat /\ max_requests_per_day \in Nat
          /\ max_requests_per_month \in Nat
      BY BudgetAssumption
    <2> QED
      BY <1>1, <1>2, <1>6, <2>1, <2>2 DEF QuotaKept
  <1>8. /\ OutOfMinute(budget)' = OutOfMinute(budget)
        /\ OutOfDay(budget)' = OutOfDay(budget) /\ OutOfMonth(budget)' = OutOfMonth(budget)
        /\ Asking' = Asking /\ reply' = reply
    BY <1>1 DEF OutOfMinute, OutOfDay, OutOfMonth, Asking, Tick
  <1> QED
    BY <1>1, <1>3, <1>4, <1>5, <1>6, <1>7, <1>8 DEF QuotaInv

LEMMA CheckQuota ==
  ASSUME CommonTypes, QuotaInv, Check PROVE QuotaInv'
  <1>1. UNCHANGED now
    BY DEF Check, shared
  <1>2. IsDisk(disk)
    BY DEF CommonTypes
  <1>3. ASSUME NEW online \in BOOLEAN, Start(online) \/ StartRaises(online)
        PROVE  QuotaInv'
    <2>1. CASE Start(online)
      BY <1>1, <2>1, QuotaStart
    <2>2. CASE StartRaises(online)
      BY <1>1, <2>2, QuotaUntouched DEF StartRaises, Budgets, Asking
    <2> QED
      BY <1>3, <2>1, <2>2
  <1>4. CASE Interrupt
    BY <1>1, <1>4, QuotaInterrupt
  <1>5. CASE Kill \/ KillInSave
    <2>1. Ended /\ disk'.stats = disk.stats /\ owed' = owed + unsaved
      BY <1>2, <1>5 DEF Kill, KillInSave, IsDisk
    <2> QED
      BY <1>1, <2>1, QuotaForgets
  <1>6. CASE ListDirectories
    BY <1>1, <1>6, QuotaUntouched DEF ListDirectories, Budgets, Asking
  <1>7. ASSUME NEW h \in Hashes, UnreadableLog(h) \/ LookAtKnown(h) \/ LookAtNew(h)
        PROVE  QuotaInv'
    <2>1. CASE UnreadableLog(h)
      BY <1>1, <2>1, QuotaForgets DEF UnreadableLog, Dies
    <2>2. CASE LookAtKnown(h) \/ LookAtNew(h)
      BY <1>1, <2>2, QuotaUntouched DEF LookAtKnown, LookAtNew, Budgets, Asking
    <2> QED
      BY <1>7, <2>1, <2>2
  <1>8. CASE WaitMinute \/ WaitMonth
    BY <1>1, <1>8, QuotaReady DEF WaitMinute, WaitMonth, Searches, Asking
  <1>9. CASE Send
    BY <1>1, <1>9, QuotaReady DEF Send, Searches, Asking
  <1>10. CASE WaitDay \/ RefusedAgain \/ ReplyRaises
    BY <1>1, <1>10, QuotaForgets DEF WaitDay, RefusedAgain, ReplyRaises, Dies
  <1>11. CASE \E answer \in Served : Serve(answer)
    BY <1>1, <1>11, QuotaServe
  <1>12. CASE Return
    BY <1>1, <1>12, QuotaReturn
  <1>13. CASE Fail
    BY <1>1, <1>13, QuotaUntouched DEF Fail, Answered, Budgets, Asking
  <1>14. CASE Handle \/ HandleAgain
    BY <1>1, <1>14, QuotaUntouched DEF Handle, HandleAgain, Budgets, Asking
  <1>15. CASE DumpDatabase \/ DumpNotInVt
    BY <1>1, <1>2, <1>15, QuotaUntouched DEF DumpDatabase, DumpNotInVt, Budgets, Asking, IsDisk
  <1>16. CASE Recheck
    BY <1>1, <1>16, QuotaUntouched DEF Recheck, Budgets, Asking
  <1> QED
    BY <1>3, <1>4, <1>5, <1>6, <1>7, <1>8, <1>9, <1>10, <1>11, <1>12, <1>13, <1>14, <1>15,
       <1>16 DEF Check

LEMMA NextQuota ==
  ASSUME CommonTypes, QuotaInv, [Next]_vars PROVE QuotaInv'
  <1>1. CASE Tick
    BY <1>1, TickQuota
  <1>2. CASE Check
    BY <1>2, CheckQuota
  <1>3. CASE ~Tick /\ ~Check
    <2>1. UNCHANGED checkerVars /\ UNCHANGED now
      BY <1>3, DownloadLeaves DEF Next, vars, shared
    <2> QED
      BY <2>1, QuotaUntouched DEF checkerVars, Budgets, Asking
  <1> QED
    BY <1>1, <1>2, <1>3

-----------------------------------------------------------------------------
(* The topics.                                                              *)

Continues(seq, longer) ==
  /\ DOMAIN seq \subseteq DOMAIN longer
  /\ \A i \in DOMAIN seq : longer[i] = seq[i]

LEMMA SeqIsSeq ==
  ASSUME NEW S, NEW seq \in Seq(S)
  PROVE  IsSeq(seq) /\ DOMAIN seq = 1 .. Len(seq) /\ Len(seq) \in Nat
  <1>1. DOMAIN seq = 1 .. Len(seq) /\ Len(seq) \in Nat
    OBVIOUS
  <1>2. seq \in Seq({seq[i] : i \in DOMAIN seq})
    BY <1>1
  <1> QED
    BY <1>1, <1>2 DEF IsSeq

LEMMA FunctionIsSeq ==
  ASSUME NEW n \in Nat, NEW f, f = [i \in 1 .. n |-> f[i]]
  PROVE  IsSeq(f) /\ DOMAIN f = 1 .. n /\ Len(f) = n
  <1>1. DOMAIN f = 1 .. n
    OBVIOUS
  <1>2. f \in [1 .. n -> {f[i] : i \in DOMAIN f}]
    BY <1>1
  <1>3. f \in Seq({f[i] : i \in DOMAIN f})
    BY <1>2
  <1> QED
    BY <1>1, <1>3 DEF IsSeq

LEMMA ConcatContinues ==
  ASSUME NEW s, NEW t, IsSeq(s), IsSeq(t)
  PROVE  /\ IsSeq(s \o t) /\ Len(s \o t) = Len(s) + Len(t) /\ Continues(s, s \o t)
         /\ \A i \in DOMAIN t : Len(s) + i \in DOMAIN (s \o t) /\ (s \o t)[Len(s) + i] = t[i]
  <1> DEFINE S == {s[i] : i \in DOMAIN s} \cup {t[i] : i \in DOMAIN t}
  <1>1. s \in Seq(S) /\ t \in Seq(S)
    <2>1. s \in Seq({s[i] : i \in DOMAIN s}) /\ t \in Seq({t[i] : i \in DOMAIN t})
      BY DEF IsSeq
    <2>2. {s[i] : i \in DOMAIN s} \subseteq S /\ {t[i] : i \in DOMAIN t} \subseteq S
      OBVIOUS
    <2> HIDE DEF S
    <2> QED
      BY <2>1, <2>2, SeqOfMore
  <1> HIDE DEF S
  <1>2. /\ s \o t \in Seq(S) /\ Len(s \o t) = Len(s) + Len(t)
        /\ \A i \in 1 .. Len(s) + Len(t) :
             (s \o t)[i] = IF i <= Len(s) THEN s[i] ELSE t[i - Len(s)]
    BY <1>1, ConcatProperties
  <1>3. /\ DOMAIN s = 1 .. Len(s) /\ DOMAIN t = 1 .. Len(t) /\ IsSeq(s \o t)
        /\ DOMAIN (s \o t) = 1 .. Len(s \o t) /\ Len(s) \in Nat /\ Len(t) \in Nat
    BY <1>1, <1>2, SeqIsSeq
  <1> QED
    BY <1>2, <1>3 DEF Continues

LEMMA UrlsAreSeq ==
  ASSUME NEW payload \in Payloads
  PROVE  IsSeq(GetUrls(payload))
  <1>1. ASSUME NEW tool PROVE IsSeq(UrlsFor(tool, payload))
    <2> DEFINE named == {i \in DOMAIN payload : /\ payload[i].tool = tool
                                                /\ payload[i].args # NoUrl}
               n == Cardinality(named)
    <2>1. DOMAIN payload = 1 .. Len(payload) /\ Len(payload) \in Nat
      BY DEF Payloads
    <2>2. IsFiniteSet(named)
      <3>1. IsFiniteSet(1 .. Len(payload)) /\ named \subseteq 1 .. Len(payload)
        BY <2>1, FS_Interval
      <3> HIDE DEF named
      <3> QED
        BY <3>1, FS_Subset
    <2>3. n \in Nat
      BY <2>2, FS_CardinalityType
    <2> DEFINE f == UrlsFor(tool, payload)
    <2>4. f = [i \in 1 .. n |-> f[i]]
      BY DEF UrlsFor
    <2> HIDE DEF f, n
    <2>5. IsSeq(f)
      BY <2>3, <2>4, FunctionIsSeq
    <2> QED
      BY <2>5 DEF f
  <1> QED
    BY <1>1, ConcatContinues DEF GetUrls

(* A message more, at either end of a topic.                                *)
LEMMA Appended ==
  ASSUME NEW s, IsSeq(s), NEW e
  PROVE  /\ IsSeq(Append(s, e)) /\ Len(Append(s, e)) = Len(s) + 1
         /\ Continues(s, Append(s, e)) /\ ToSet(Append(s, e)) = ToSet(s) \cup {e}
  <1> DEFINE S == {s[i] : i \in DOMAIN s} \cup {e}
  <1>1. s \in Seq(S)
    <2>1. s \in Seq({s[i] : i \in DOMAIN s}) /\ {s[i] : i \in DOMAIN s} \subseteq S
      BY DEF IsSeq
    <2> HIDE DEF S
    <2> QED
      BY <2>1, SeqOfMore
  <1>2. e \in S
    OBVIOUS
  <1> HIDE DEF S
  <1>3. /\ Append(s, e) \in Seq(S) /\ Len(Append(s, e)) = Len(s) + 1
        /\ \A i \in 1 .. Len(s) : Append(s, e)[i] = s[i]
        /\ Append(s, e)[Len(s) + 1] = e
    BY <1>1, <1>2, AppendProperties
  <1>4. /\ IsSeq(Append(s, e)) /\ DOMAIN Append(s, e) = 1 .. Len(s) + 1
        /\ DOMAIN s = 1 .. Len(s) /\ Len(s) \in Nat
    BY <1>1, <1>3, SeqIsSeq
  <1>5. Continues(s, Append(s, e))
    BY <1>3, <1>4 DEF Continues
  <1>6. ToSet(Append(s, e)) = ToSet(s) \cup {e}
    BY <1>3, <1>4 DEF ToSet
  <1> QED
    BY <1>3, <1>4, <1>5, <1>6

LEMMA FirstTaken ==
  ASSUME NEW s, IsSeq(s), s # <<>>
  PROVE  IsSeq(Tail(s)) /\ ToSet(s) = {Head(s)} \cup ToSet(Tail(s))
  <1> DEFINE S == {s[i] : i \in DOMAIN s}
  <1>1. s \in Seq(S)
    BY DEF IsSeq
  <1> HIDE DEF S
  <1>2. /\ Tail(s) \in Seq(S) /\ Len(Tail(s)) = Len(s) - 1 /\ Len(s) \in Nat \ {0}
        /\ Head(s) = s[1] /\ \A i \in 1 .. Len(Tail(s)) : Tail(s)[i] = s[i + 1]
    BY <1>1, HeadTailProperties
  <1>3. /\ IsSeq(Tail(s)) /\ DOMAIN Tail(s) = 1 .. Len(s) - 1 /\ DOMAIN s = 1 .. Len(s)
    BY <1>1, <1>2, SeqIsSeq
  <1>4. ASSUME NEW i \in DOMAIN s PROVE s[i] \in {Head(s)} \cup ToSet(Tail(s))
    <2>1. CASE i = 1
      BY <1>2, <2>1
    <2>2. CASE i # 1
      <3>1. i - 1 \in DOMAIN Tail(s) /\ Tail(s)[i - 1] = s[i]
        BY <1>2, <1>3, <2>2
      <3> QED
        BY <3>1 DEF ToSet
    <2> QED
      BY <2>1, <2>2
  <1>5. ASSUME NEW i \in DOMAIN Tail(s) PROVE Tail(s)[i] \in ToSet(s)
    <2>1. i + 1 \in DOMAIN s /\ Tail(s)[i] = s[i + 1]
      BY <1>2, <1>3
    <2> QED
      BY <2>1 DEF ToSet
  <1>6. Head(s) \in ToSet(s)
    BY <1>2, <1>3 DEF ToSet
  <1> QED
    BY <1>3, <1>4, <1>5, <1>6 DEF ToSet

LEMMA TopicFacts ==
  ASSUME StageTypes, NEW g \in Groups
  PROVE  /\ at[g] \in Nat /\ committed[g] \in Nat \cup {Nothing} /\ alive[g] \in BOOLEAN
         /\ committed[g] <= at[g] /\ at[g] <= Len(topic[g])
         /\ IsSeq(topic[g]) /\ Len(topic[g]) \in Nat
         /\ DOMAIN topic[g] = 1 .. Len(topic[g])
  <1>1. IsSeq(topic[g])
    BY DEF StageTypes
  <1>2. DOMAIN topic[g] = 1 .. Len(topic[g]) /\ Len(topic[g]) \in Nat
    BY <1>1, SeqIsSeq DEF IsSeq
  <1> QED
    BY <1>1, <1>2 DEF StageTypes

(* What was done stays done while these grow.                               *)
Grow ==
  /\ \A g \in Groups : /\ Continues(topic[g], topic'[g])
                        /\ skipped[g] \subseteq skipped'[g]
  /\ Sent("filter") \subseteq Sent("filter")' /\ Sent("clean") \subseteq Sent("clean")'
  /\ activity \subseteq activity'

LEMMA DoneStays ==
  ASSUME StageTypes, Grow, NEW g \in Groups, NEW i \in 1 .. at[g], Done(g, i)
  PROVE  Done(g, i)'
  <1>1. i \in DOMAIN topic[g]
    BY TopicFacts
  <1>2. topic'[g][i] = topic[g][i]
    BY <1>1 DEF Grow, Continues
  <1>3. CASE g = "filter"
    BY <1>2, <1>3 DEF Grow, Done, PassedOn
  <1>4. CASE g = "clean"
    BY <1>2, <1>4 DEF Grow, Done, SentOn
  <1>5. CASE g = "download"
    BY <1>2, <1>5 DEF Grow, Done, Tried
  <1> QED
    BY <1>3, <1>4, <1>5 DEF Groups

LEMMA StillTried ==
  ASSUME StageTypes, EveryUrlTried, Grow,
         \A g \in Groups : \A i \in 1 .. at'[g] :
           i \in 1 .. at[g] \/ i \in skipped'[g] \/ Done(g, i)'
  PROVE  EveryUrlTried'
  <1> SUFFICES ASSUME NEW g \in Groups, NEW i \in 1 .. at'[g]
               PROVE  i \in skipped'[g] \/ Done(g, i)'
    BY DEF EveryUrlTried
  <1>1. CASE i \in 1 .. at[g]
    BY <1>1, DoneStays DEF EveryUrlTried, Grow
  <1> QED
    BY <1>1

LEMMA JobStays ==
  ASSUME CommonTypes, StageTypes, StageTypes', JobIsNext,
         Continues(topic["download"], topic'["download"]),
         UNCHANGED <<downloadVars, now>>,
         step # "poll" => /\ at'["download"] = at["download"]
                          /\ alive'["download"] = alive["download"]
  PROVE  JobIsNext'
  <1>1. "download" \in Groups
    BY DEF Groups
  <1>2. UNCHANGED <<step, job, expiretimes, activity, now>>
    BY DEF downloadVars
  <1>3. /\ DOMAIN topic["download"] = 1 .. Len(topic["download"])
        /\ Len(topic["download"]) \in Nat /\ at["download"] \in Nat
    BY <1>1, TopicFacts
  <1>4. /\ DOMAIN topic'["download"] = 1 .. Len(topic'["download"])
        /\ Len(topic'["download"]) \in Nat
    BY <1>1, SeqIsSeq DEF IsSeq, StageTypes
  <1>5. ASSUME step # "poll"
        PROVE  /\ HasMessage("download")' /\ job'.msg = at'["download"] + 1 /\ job'.at <= now'
               /\ topic'["download"][at["download"] + 1] = topic["download"][at["download"] + 1]
    <2>1. /\ alive["download"] /\ at["download"] < Len(topic["download"])
          /\ job.msg = at["download"] + 1 /\ job.at <= now
      BY <1>5 DEF JobIsNext, HasMessage
    <2>2. at["download"] + 1 \in DOMAIN topic["download"]
      BY <1>3, <2>1
    <2>3. /\ at["download"] + 1 \in DOMAIN topic'["download"]
          /\ topic'["download"][at["download"] + 1] = topic["download"][at["download"] + 1]
      BY <2>2 DEF Continues
    <2>4. at["download"] < Len(topic'["download"])
      BY <1>3, <1>4, <2>3
    <2> QED
      BY <1>2, <1>5, <2>1, <2>3, <2>4 DEF HasMessage
  <1>6. step \in InWork \cup {"done"} => Row(job.at, TRUE)' \in activity'
    <2>1. step \in InWork \cup {"done"} => step # "poll" /\ Row(job.at, TRUE) \in activity
      BY DEF InWork, JobIsNext
    <2> QED
      BY <1>2, <1>5, <2>1 DEF Row, Url, Message
  <1>7. TimesOfAttempts'
    BY <1>2 DEF JobIsNext, TimesOfAttempts, Attempted
  <1> QED
    BY <1>2, <1>5, <1>6, <1>7 DEF JobIsNext

LEMMA InitUrls == Init => UrlsInv
  <1> SUFFICES ASSUME Init PROVE UrlsInv
    OBVIOUS
  <1>1. /\ topic = [g \in Groups |-> <<>>] /\ sending = [g \in Groups |-> <<>>]
        /\ at = [g \in Groups |-> 0] /\ committed = [g \in Groups |-> Nothing]
        /\ alive = [g \in Groups |-> TRUE]
        /\ lost = [g \in Groups |-> {}] /\ skipped = [g \in Groups |-> {}]
    BY DEF Init, StagesInit
  <1>2. IsSeq(<<>>) /\ Len(<<>>) = 0 /\ <<>> \in Seq(Events) /\ <<>> \in Seq(Passed)
    BY DEF IsSeq
  <1>3. {"filter", "clean", "download"} \subseteq Groups
    BY DEF Groups
  <1>4. Sendings
    BY <1>1, <1>2, <1>3 DEF Sendings
  <1>5. StageTypes
    BY <1>1, <1>2, <1>3, <1>4 DEF StageTypes, Nothing
  <1>6. EveryUrlTried
    BY <1>1 DEF EveryUrlTried
  <1>7. JobIsNext
    BY DEF Init, DownloadInit, JobIsNext, TimesOfAttempts, NoTimes, InWork
  <1> QED
    BY <1>5, <1>6, <1>7 DEF UrlsInv

(* A topic gets a message.                                                  *)
LEMMA TopicGrows ==
  ASSUME StageTypes, EveryUrlTried, NEW g \in Groups, NEW e,
         topic' = [topic EXCEPT ![g] = Append(@, e)],
         g = "filter" => e \in Events, g = "clean" => e \in Passed,
         Sendings', UNCHANGED <<at, committed, alive, skipped, activity>>,
         lost' = [h \in Groups |-> lost'[h]],
         Sent("filter") \subseteq Sent("filter")', Sent("clean") \subseteq Sent("clean")'
  PROVE  /\ StageTypes' /\ EveryUrlTried'
         /\ Continues(topic["download"], topic'["download"])
  <1>1. {"filter", "clean", "download"} \subseteq Groups
    BY DEF Groups
  <1>2. /\ topic' = [h \in Groups |-> topic'[h]]
        /\ \A h \in Groups : topic'[h] = IF h = g THEN Append(topic[h], e) ELSE topic[h]
    BY DEF StageTypes
  <1>3. ASSUME NEW h \in Groups
        PROVE  /\ IsSeq(topic'[h]) /\ Continues(topic[h], topic'[h])
               /\ committed[h] <= at[h] /\ at[h] <= Len(topic'[h])
    <2>1. /\ IsSeq(topic[h]) /\ Len(topic[h]) \in Nat /\ at[h] \in Nat
          /\ committed[h] <= at[h] /\ at[h] <= Len(topic[h])
      BY TopicFacts
    <2>2. CASE h = g
      BY <1>2, <2>1, <2>2, Appended
    <2>3. CASE h # g
      BY <1>2, <2>1, <2>3 DEF Continues
    <2> QED
      BY <2>2, <2>3
  <1>4. topic'["filter"] \in Seq(Events) /\ topic'["clean"] \in Seq(Passed)
    <2>1. topic["filter"] \in Seq(Events) /\ topic["clean"] \in Seq(Passed)
      BY DEF StageTypes
    <2>2. topic'["filter"] \in Seq(Events)
      BY <1>1, <1>2, <2>1, AppendProperties
    <2>3. topic'["clean"] \in Seq(Passed)
      BY <1>1, <1>2, <2>1, AppendProperties
    <2> QED
      BY <2>2, <2>3
  <1>5. StageTypes'
    BY <1>2, <1>3, <1>4 DEF StageTypes
  <1>6. Grow
    BY <1>3 DEF Grow
  <1>7. EveryUrlTried'
    BY <1>6, StillTried
  <1> QED
    BY <1>1, <1>3, <1>5, <1>7

(* A stage is done with a message.                                          *)
LEMMA HandledOne ==
  ASSUME StageTypes, EveryUrlTried, NEW g \in Groups, HasMessage(g), Handled(g),
         Sendings', UNCHANGED <<topic, committed, alive, lost, skipped>>,
         activity \subseteq activity',
         Sent("filter") \subseteq Sent("filter")', Sent("clean") \subseteq Sent("clean")',
         \A i : i = at[g] + 1 => Done(g, i)'
  PROVE  StageTypes' /\ EveryUrlTried'
  <1>1. /\ at' \in [Groups -> Nat]
        /\ \A h \in Groups : at'[h] = IF h = g THEN at[h] + 1 ELSE at[h]
    BY DEF Handled, StageTypes
  <1>2. ASSUME NEW h \in Groups
        PROVE  committed'[h] <= at'[h] /\ at'[h] <= Len(topic'[h])
    <2>1. /\ at[h] \in Nat /\ committed[h] \in Int /\ Len(topic[h]) \in Nat
          /\ committed[h] <= at[h] /\ at[h] <= Len(topic[h])
      BY TopicFacts DEF Nothing
    <2>2. h = g => at[h] < Len(topic[h])
      BY DEF HasMessage
    <2> QED
      BY <1>1, <2>1, <2>2
  <1>3. StageTypes'
    BY <1>1, <1>2 DEF StageTypes
  <1>4. Grow
    BY DEF Grow, Continues
  <1>5. ASSUME NEW h \in Groups, NEW i \in 1 .. at'[h]
        PROVE  i \in 1 .. at[h] \/ Done(h, i)'
    <2>1. CASE h = g
      <3>1. i \in 1 .. at[g] \/ i = at[g] + 1
        BY <1>1, <2>1, TopicFacts
      <3> QED
        BY <2>1, <3>1
    <2>2. CASE h # g
      BY <1>1, <2>2
    <2> QED
      BY <2>1, <2>2
  <1>6. EveryUrlTried'
    BY <1>4, <1>5, StillTried
  <1> QED
    BY <1>3, <1>6

LEMMA PublishUrls ==
  ASSUME StageTypes, EveryUrlTried, Publish, scenario.input \in Seq(Events),
         UNCHANGED activity
  PROVE  /\ StageTypes' /\ EveryUrlTried'
         /\ Continues(topic["download"], topic'["download"])
  <1>1. {"filter", "clean", "download"} \subseteq Groups
    BY DEF Groups
  <1> DEFINE n == Len(topic["filter"]) + 1
  <1>2. PICK e : e = scenario.input[n]
    OBVIOUS
  <1>3. /\ topic' = [topic EXCEPT !["filter"] = Append(@, e)]
        /\ Len(topic["filter"]) < Len(scenario.input)
        /\ UNCHANGED <<at, committed, alive, sending, lost, skipped>>
    BY <1>2 DEF Publish, StageTypes
  <1>4. e \in Events
    <2>1. Len(topic["filter"]) \in Nat
      BY <1>1, TopicFacts
    <2>2. n \in 1 .. Len(scenario.input)
      BY <1>3, <2>1, LenProperties
    <2> HIDE DEF n
    <2> QED
      BY <1>2, <2>2
  <1>5. Sendings' /\ lost' = [h \in Groups |-> lost'[h]]
    BY <1>3 DEF StageTypes, Sendings
  <1>6. /\ Sent("filter") \subseteq Sent("filter")'
        /\ Sent("clean") \subseteq Sent("clean")'
    <2>1. topic'["clean"] = topic["clean"] /\ topic'["download"] = topic["download"]
      BY <1>1, <1>3 DEF StageTypes
    <2> QED
      BY <1>3, <2>1 DEF Sent, After
  <1> QED
    BY <1>1, <1>3, <1>4, <1>5, <1>6, TopicGrows

(* What has been delivered is in the topic.                                 *)
LEMMA DeliverUrls ==
  ASSUME StageTypes, EveryUrlTried, NEW g \in {"filter", "clean"}, Deliver(g),
         UNCHANGED activity
  PROVE  /\ StageTypes' /\ EveryUrlTried'
         /\ Continues(topic["download"], topic'["download"])
  <1>1. /\ {"filter", "clean", "download"} \subseteq Groups /\ g \in Groups
        /\ After(g) \in Groups /\ After("filter") = "clean" /\ After("clean") = "download"
    BY DEF Groups, After
  <1>2. PICK e : e = Head(sending[g])
    OBVIOUS
  <1>3. /\ sending[g] # <<>> /\ topic' = [topic EXCEPT ![After(g)] = Append(@, e)]
        /\ sending' = [sending EXCEPT ![g] = Tail(@)]
        /\ UNCHANGED <<at, committed, alive, lost, skipped>>
    BY <1>2 DEF Deliver, StageTypes
  <1>4. /\ IsSeq(sending[g]) /\ IsSeq(topic[After(g)])
        /\ sending = [h \in Groups |-> sending[h]] /\ topic = [h \in Groups |-> topic[h]]
        /\ \A h \in Groups : IsSeq(sending[h])
        /\ sending["filter"] \in Seq(Passed)
    BY <1>1 DEF StageTypes, Sendings
  <1>5. /\ IsSeq(Tail(sending[g])) /\ ToSet(sending[g]) = {e} \cup ToSet(Tail(sending[g]))
    BY <1>2, <1>3, <1>4, FirstTaken
  <1>6. ToSet(Append(topic[After(g)], e)) = ToSet(topic[After(g)]) \cup {e}
    BY <1>4, Appended
  <1>7. /\ \A h \in Groups : sending'[h] = IF h = g THEN Tail(sending[h]) ELSE sending[h]
        /\ \A h \in Groups :
             topic'[h] = IF h = After(g) THEN Append(topic[h], e) ELSE topic[h]
        /\ sending' = [h \in Groups |-> sending'[h]]
    BY <1>1, <1>3, <1>4
  <1>8. g = "filter" => e \in Passed /\ Tail(sending["filter"]) \in Seq(Passed)
    BY <1>2, <1>3, <1>4, HeadTailProperties
  <1>9. Sendings'
    BY <1>1, <1>4, <1>5, <1>7, <1>8 DEF Sendings
  <1>10. ASSUME NEW h \in {"filter", "clean"} PROVE Sent(h) \subseteq Sent(h)'
    <2>1. /\ After(h) \in Groups /\ h \in Groups
          /\ h # g => After(h) # After(g)
      BY <1>1
    <2>2. CASE h = g
      <3>1. /\ ToSet(topic'[After(h)]) = ToSet(topic[After(h)]) \cup {e}
            /\ ToSet(sending[h]) = {e} \cup ToSet(sending'[h])
        BY <1>5, <1>6, <1>7, <2>1, <2>2
      <3> QED
        BY <1>3, <3>1 DEF Sent, After
    <2>3. CASE h # g
      <3>1. topic'[After(h)] = topic[After(h)] /\ sending'[h] = sending[h]
        BY <1>7, <2>1, <2>3
      <3> QED
        BY <1>3, <3>1 DEF Sent, After
    <2> QED
      BY <2>2, <2>3
  <1>11. (After(g) = "filter" => e \in Events) /\ (After(g) = "clean" => e \in Passed)
    BY <1>8 DEF After
  <1>12. lost' = [h \in Groups |-> lost'[h]]
    BY <1>3 DEF StageTypes
  <1> QED
    BY <1>1, <1>3, <1>9, <1>10, <1>11, <1>12, TopicGrows

LEMMA FilterUrls ==
  ASSUME StageTypes, EveryUrlTried, Filter, UNCHANGED activity
  PROVE  StageTypes' /\ EveryUrlTried'
  <1>1. {"filter", "clean", "download"} \subseteq Groups
    BY DEF Groups
  <1> DEFINE event == Message("filter")
             payload == FilteredPayload(event)
             message == [id |-> event.id, payload |-> payload]
             sent == IF payload = NoPayload THEN sending["filter"]
                     ELSE Append(sending["filter"], message)
  <1>2. HasMessage("filter") /\ Handled("filter")
        /\ UNCHANGED <<topic, committed, alive, lost, skipped>>
    BY DEF Filter
  <1>3. /\ sending = [h \in Groups |-> sending[h]] /\ \A h \in Groups : IsSeq(sending[h])
        /\ sending["filter"] \in Seq(Passed)
    BY DEF StageTypes, Sendings
  <1>4. /\ sending' = [h \in Groups |-> sending'[h]]
        /\ \A h \in Groups : sending'[h] = IF h = "filter" THEN sent ELSE sending[h]
    BY <1>1, <1>3 DEF Filter
  <1>5. event \in Events
    <2>1. at["filter"] + 1 \in DOMAIN topic["filter"]
      BY <1>1, <1>2, TopicFacts DEF HasMessage
    <2> QED
      BY <2>1 DEF Message, StageTypes
  <1>6. payload # NoPayload => message \in Passed
    BY <1>5 DEF Passed, Events, FilteredPayload, Names
  <1>7. /\ IsSeq(sent) /\ sent \in Seq(Passed) /\ ToSet(sending["filter"]) \subseteq ToSet(sent)
        /\ payload # NoPayload => message \in ToSet(sent)
    <2> HIDE DEF payload, message
    <2>1. IsSeq(sending["filter"])
      BY <1>1, <1>3
    <2>2. CASE payload = NoPayload
      BY <1>3, <2>1, <2>2
    <2>3. CASE payload # NoPayload
      BY <1>3, <1>6, <2>1, <2>3, Appended, AppendProperties
    <2> QED
      BY <2>2, <2>3
  <1> HIDE DEF payload, message, sent, event
  <1>8. Sendings'
    BY <1>1, <1>3, <1>4, <1>7 DEF Sendings
  <1>9. /\ Sent("filter") \subseteq Sent("filter")'
        /\ Sent("clean") \subseteq Sent("clean")'
        /\ payload # NoPayload => message \in Sent("filter")'
    BY <1>1, <1>2, <1>4, <1>7 DEF Sent, After
  <1>10. ASSUME NEW i, i = at["filter"] + 1 PROVE Done("filter", i)'
    <2>1. topic'["filter"][i] = event
      BY <1>2, <1>10 DEF event, Message
    <2>2. FilteredPayload(event) = NoPayload
            \/ [id |-> event.id, payload |-> FilteredPayload(event)] \in Sent("filter")'
      BY <1>9 DEF payload, message
    <2> QED
      BY <2>1, <2>2 DEF Done, PassedOn
  <1> QED
    BY <1>1, <1>2, <1>8, <1>9, <1>10, HandledOne

LEMMA CleanUrls ==
  ASSUME StageTypes, EveryUrlTried, Clean, UNCHANGED activity
  PROVE  StageTypes' /\ EveryUrlTried'
  <1>1. {"filter", "clean", "download"} \subseteq Groups
    BY DEF Groups
  <1> DEFINE event == Message("clean")
             urls == GetUrls(event.payload)
             messages == [i \in DOMAIN urls |-> [id |-> event.id, url |-> urls[i]]]
  <1>2. HasMessage("clean") /\ Handled("clean")
        /\ UNCHANGED <<topic, committed, alive, lost, skipped>>
    BY DEF Clean
  <1>3. /\ sending = [h \in Groups |-> sending[h]] /\ \A h \in Groups : IsSeq(sending[h])
        /\ sending["filter"] \in Seq(Passed)
    BY DEF StageTypes, Sendings
  <1>4. /\ sending' = [h \in Groups |-> sending'[h]]
        /\ \A h \in Groups :
             sending'[h] = IF h = "clean" THEN sending[h] \o messages ELSE sending[h]
    BY <1>1, <1>3 DEF Clean
  <1>5. event.payload \in Payloads
    <2>1. at["clean"] + 1 \in DOMAIN topic["clean"]
      BY <1>1, <1>2, TopicFacts DEF HasMessage
    <2>2. event \in Passed
      BY <2>1 DEF Message, StageTypes
    <2> HIDE DEF event
    <2> QED
      BY <2>2 DEF Passed
  <1>6. IsSeq(urls)
    <2> HIDE DEF event
    <2> QED
      BY <1>5, UrlsAreSeq
  <1>7. DOMAIN urls = 1 .. Len(urls) /\ Len(urls) \in Nat
    BY <1>6, SeqIsSeq DEF IsSeq
  <1>8. IsSeq(messages) /\ DOMAIN messages = DOMAIN urls
    <2> HIDE DEF urls, event
    <2>1. messages = [i \in 1 .. Len(urls) |-> messages[i]]
      BY <1>7
    <2> HIDE DEF messages
    <2> QED
      BY <1>7, <2>1, FunctionIsSeq
  <1>9. \A i \in DOMAIN urls : messages[i] = [id |-> event.id, url |-> urls[i]]
    OBVIOUS
  <1> HIDE DEF messages, urls, event
  <1>10. /\ IsSeq(sending["clean"] \o messages)
         /\ ToSet(sending["clean"]) \subseteq ToSet(sending["clean"] \o messages)
         /\ \A i \in DOMAIN messages : messages[i] \in ToSet(sending["clean"] \o messages)
    <2>1. IsSeq(sending["clean"])
      BY <1>1, <1>3
    <2>2. PICK s : s = sending["clean"]
      OBVIOUS
    <2>3. /\ IsSeq(s \o messages) /\ Continues(s, s \o messages)
          /\ \A i \in DOMAIN messages : /\ Len(s) + i \in DOMAIN (s \o messages)
                                        /\ (s \o messages)[Len(s) + i] = messages[i]
      BY <1>8, <2>1, <2>2, ConcatContinues
    <2>4. PICK whole : whole = s \o messages
      OBVIOUS
    <2>5. ToSet(s) \subseteq ToSet(whole) /\ \A i \in DOMAIN messages : messages[i] \in ToSet(whole)
      BY <2>3, <2>4 DEF ToSet, Continues
    <2> QED
      BY <2>2, <2>3, <2>4, <2>5
  <1>11. Sendings'
    BY <1>1, <1>3, <1>4, <1>10 DEF Sendings
  <1>12. /\ Sent("filter") \subseteq Sent("filter")'
         /\ Sent("clean") \subseteq Sent("clean")'
         /\ \A i \in DOMAIN urls : [id |-> event.id, url |-> urls[i]] \in Sent("clean")'
    BY <1>1, <1>2, <1>4, <1>8, <1>9, <1>10 DEF Sent, After
  <1>13. ASSUME NEW i, i = at["clean"] + 1 PROVE Done("clean", i)'
    <2>1. topic'["clean"][i] = event
      BY <1>2, <1>13 DEF event, Message
    <2> QED
      BY <1>12, <2>1 DEF Done, SentOn, urls
  <1> QED
    BY <1>1, <1>2, <1>11, <1>12, <1>13, HandledOne

(* What ends with a producer is counted as lost.                            *)
LEMMA EndsUrls ==
  ASSUME StageTypes, EveryUrlTried, NEW g \in Groups, Ends(g), UNCHANGED activity
  PROVE  StageTypes' /\ EveryUrlTried'
  <1>1. /\ UNCHANGED <<topic, at, committed, skipped>>
        /\ alive' = [alive EXCEPT ![g] = FALSE] /\ sending' = [sending EXCEPT ![g] = <<>>]
        /\ lost' = [lost EXCEPT ![g] = @ \cup ToSet(sending[g])]
    BY DEF Ends
  <1>2. /\ sending = [h \in Groups |-> sending[h]] /\ \A h \in Groups : IsSeq(sending[h])
        /\ sending["filter"] \in Seq(Passed) /\ lost = [h \in Groups |-> lost[h]]
    BY DEF StageTypes, Sendings
  <1>3. /\ sending' = [h \in Groups |-> sending'[h]] /\ lost' = [h \in Groups |-> lost'[h]]
        /\ \A h \in Groups :
             /\ sending'[h] = IF h = g THEN <<>> ELSE sending[h]
             /\ lost'[h] = IF h = g THEN lost[h] \cup ToSet(sending[h]) ELSE lost[h]
    BY <1>1, <1>2
  <1>4. IsSeq(<<>>) /\ <<>> \in Seq(Passed)
    BY DEF IsSeq
  <1>5. {"filter", "clean", "download"} \subseteq Groups
    BY DEF Groups
  <1>6. Sendings'
    BY <1>2, <1>3, <1>4, <1>5 DEF Sendings
  <1>7. StageTypes'
    BY <1>1, <1>3, <1>6 DEF StageTypes
  <1>8. ASSUME NEW h \in Groups PROVE Sent(h) \subseteq Sent(h)'
    BY <1>1, <1>3 DEF Sent, After
  <1>9. Grow
    BY <1>1, <1>5, <1>8 DEF Grow, Continues
  <1>10. EveryUrlTried'
    BY <1>1, <1>9, StillTried
  <1> QED
    BY <1>7, <1>10

(* A start goes back to what was committed, or on to the end of the topic.  *)
LEMMA RestartUrls ==
  ASSUME StageTypes, EveryUrlTried, NEW g \in Groups, Restarted(g), UNCHANGED activity
  PROVE  StageTypes' /\ EveryUrlTried'
  <1>1. UNCHANGED <<topic, committed, sending, lost>> /\ alive' = [alive EXCEPT ![g] = TRUE]
    BY DEF Restarted
  <1>2. \/ /\ committed[g] = Nothing /\ at' = [at EXCEPT ![g] = Len(topic[g])]
           /\ skipped' = [skipped EXCEPT ![g] = @ \cup (at[g] + 1 .. Len(topic[g]))]
        \/ /\ committed[g] # Nothing /\ at' = [at EXCEPT ![g] = committed[g]]
           /\ skipped' = skipped
    BY DEF Restarted
  <1>3. \A h \in Groups :
          /\ at[h] \in Nat /\ committed[h] \in Nat \cup {Nothing} /\ Len(topic[h]) \in Nat
          /\ committed[h] <= at[h] /\ at[h] <= Len(topic[h])
    BY TopicFacts
  <1>4. skipped = [h \in Groups |-> skipped[h]] /\ at \in [Groups -> Nat]
    BY DEF StageTypes
  <1>5. /\ at' \in [Groups -> Nat] /\ skipped' = [h \in Groups |-> skipped'[h]]
        /\ \A h \in Groups : skipped[h] \subseteq skipped'[h]
        /\ \A h \in Groups : h # g => at'[h] = at[h]
    BY <1>2, <1>3, <1>4
  <1>6. \/ /\ committed[g] = Nothing /\ at'[g] = Len(topic[g])
           /\ skipped'[g] = skipped[g] \cup (at[g] + 1 .. Len(topic[g]))
        \/ committed[g] \in Nat /\ at'[g] = committed[g]
    BY <1>2, <1>3, <1>4
  <1>7. ASSUME NEW h \in Groups PROVE committed[h] <= at'[h] /\ at'[h] <= Len(topic[h])
    BY <1>3, <1>5, <1>6 DEF Nothing
  <1>8. StageTypes'
    BY <1>1, <1>5, <1>7 DEF StageTypes, Sendings
  <1>9. Grow
    BY <1>1, <1>5 DEF Grow, Continues, Sent
  <1>10. ASSUME NEW h \in Groups, NEW i \in 1 .. at'[h]
         PROVE  i \in 1 .. at[h] \/ i \in skipped'[h]
    <2>1. CASE h = g
      BY <1>3, <1>6, <2>1
    <2>2. CASE h # g
      BY <1>5, <2>2
    <2> QED
      BY <2>1, <2>2
  <1>11. EveryUrlTried'
    BY <1>9, <1>10, StillTried
  <1> QED
    BY <1>8, <1>11

LEMMA CommitUrls ==
  ASSUME StageTypes, EveryUrlTried, NEW g \in Groups, Commit(g), UNCHANGED activity
  PROVE  StageTypes' /\ EveryUrlTried'
  <1>1. /\ UNCHANGED <<topic, at, alive, sending, lost, skipped>>
        /\ committed' = [committed EXCEPT ![g] = at[g]]
    BY DEF Commit
  <1>2. ASSUME NEW h \in Groups
        PROVE  committed'[h] \in Nat \cup {Nothing} /\ committed'[h] <= at[h]
    <2>1. at[h] \in Nat /\ committed[h] \in Nat \cup {Nothing} /\ committed[h] <= at[h]
      BY TopicFacts
    <2> QED
      BY <1>1, <2>1 DEF StageTypes
  <1>3. committed' \in [Groups -> Nat \cup {Nothing}]
    BY <1>1, <1>2 DEF StageTypes
  <1>4. StageTypes'
    BY <1>1, <1>2, <1>3 DEF StageTypes, Sendings
  <1>5. Grow
    BY <1>1 DEF Grow, Continues, Sent
  <1>6. EveryUrlTried'
    BY <1>1, <1>5, StillTried
  <1> QED
    BY <1>4, <1>6

LEMMA StagesUrls ==
  ASSUME CommonTypes, UrlsInv, Stages, UNCHANGED <<downloadVars, checkerVars, shared, hashFiles>>
  PROVE  UrlsInv'
  <1>1. UNCHANGED <<downloadVars, now, activity>>
    BY DEF shared, downloadVars
  <1>2. StageTypes /\ EveryUrlTried /\ JobIsNext
    BY DEF UrlsInv
  <1>3. at \in [Groups -> Nat] /\ alive \in [Groups -> BOOLEAN]
    BY <1>2 DEF StageTypes
  <1>4. {"filter", "clean", "download"} \subseteq Groups
    BY DEF Groups
  <1>5. step # "poll" => alive["download"]
    BY <1>2 DEF JobIsNext, HasMessage
  <1>6. Continues(topic["download"], topic["download"])
    BY DEF Continues
  <1> DEFINE DownloaderStays == step # "poll" => /\ at'["download"] = at["download"]
                                                 /\ alive'["download"] = alive["download"]
  <1>7. ASSUME StageTypes', EveryUrlTried', DownloaderStays,
               Continues(topic["download"], topic'["download"])
        PROVE  UrlsInv'
    BY <1>1, <1>2, <1>7, JobStays DEF UrlsInv
  <1>8. CASE Publish
    <2>1. DownloaderStays
      BY <1>8 DEF Publish
    <2> QED
      BY <1>1, <1>2, <1>7, <1>8, <2>1, Scenario, PublishUrls DEF CommonTypes
  <1>9. CASE Filter
    <2>1. DownloaderStays /\ UNCHANGED topic
      BY <1>3, <1>4, <1>9 DEF Filter, Handled
    <2> QED
      BY <1>1, <1>2, <1>6, <1>7, <1>9, <2>1, FilterUrls
  <1>10. CASE Clean
    <2>1. DownloaderStays /\ UNCHANGED topic
      BY <1>3, <1>4, <1>10 DEF Clean, Handled
    <2> QED
      BY <1>1, <1>2, <1>6, <1>7, <1>10, <2>1, CleanUrls
  <1>11. ASSUME NEW g \in {"filter", "clean"}, Deliver(g)
         PROVE  UrlsInv'
    <2>1. DownloaderStays
      BY <1>11 DEF Deliver
    <2> QED
      BY <1>1, <1>2, <1>7, <1>11, <2>1, DeliverUrls
  <1>12. ASSUME NEW g \in {"filter", "clean"}, Ends(g)
         PROVE  UrlsInv'
    <2>1. DownloaderStays /\ UNCHANGED topic
      BY <1>3, <1>4, <1>12 DEF Ends
    <2> QED
      BY <1>1, <1>2, <1>4, <1>6, <1>7, <1>12, <2>1, EndsUrls
  <1>13. CASE CleanRaises \/ Killed("filter") \/ Killed("clean")
    BY <1>12, <1>13 DEF CleanRaises, Killed
  <1>14. ASSUME NEW g \in Groups, Restarted(g)
         PROVE  UrlsInv'
    <2>1. DownloaderStays /\ UNCHANGED topic
      BY <1>3, <1>4, <1>5, <1>14 DEF Restarted
    <2> QED
      BY <1>1, <1>2, <1>6, <1>7, <1>14, <2>1, RestartUrls
  <1>15. ASSUME NEW g \in Groups, Commit(g)
         PROVE  UrlsInv'
    <2>1. DownloaderStays /\ UNCHANGED topic
      BY <1>15 DEF Commit
    <2> QED
      BY <1>1, <1>2, <1>6, <1>7, <1>15, <2>1, CommitUrls
  <1> QED
    BY <1>8, <1>9, <1>10, <1>11, <1>13, <1>14, <1>15 DEF Stages, CommitAny

(* A message of the downloader is done with.                                *)
LEMMA TriedOne ==
  ASSUME StageTypes, EveryUrlTried, HasMessage("download"), Handled("download"),
         UNCHANGED <<topic, committed, alive, sending, lost, skipped>>,
         activity \subseteq activity', \A m : m = at["download"] + 1 => Tried(m)'
  PROVE  StageTypes' /\ EveryUrlTried'
  <1>1. "download" \in Groups
    BY DEF Groups
  <1>2. Sendings'
    BY DEF StageTypes, Sendings
  <1>3. Sent("filter") \subseteq Sent("filter")' /\ Sent("clean") \subseteq Sent("clean")'
    BY DEF Sent
  <1>4. \A m : m = at["download"] + 1 => Done("download", m)'
    BY DEF Done
  <1> QED
    BY <1>1, <1>2, <1>3, <1>4, HandledOne

LEMMA TimesStay ==
  ASSUME TimesOfAttempts, now' = now \/ now' = now + 1, now \in Nat,
         UNCHANGED expiretimes, activity \subseteq activity'
  PROVE  TimesOfAttempts'
  <1> SUFFICES ASSUME NEW url \in DOMAIN expiretimes
               PROVE  \E time \in Nat : /\ time <= now' /\ Attempted(url, time)'
                                        /\ expiretimes[url] = time + DownloadInterval
    BY DEF TimesOfAttempts
  <1>1. PICK time \in Nat : /\ time <= now /\ Attempted(url, time)
                            /\ expiretimes[url] = time + DownloadInterval
    BY DEF TimesOfAttempts
  <1>2. Attempted(url, time)'
    BY <1>1 DEF Attempted
  <1>3. time <= now'
    BY <1>1
  <1> QED
    BY <1>1, <1>2, <1>3

LEMMA SkipUrls ==
  ASSUME CommonTypes, UrlsInv, Skip PROVE UrlsInv'
  <1> DEFINE m == at["download"] + 1
             url == topic["download"][m].url
             row == [msg |-> m, url |-> url, at |-> now, attempted |-> FALSE]
  <1>1. /\ step = "poll" /\ HasMessage("download") /\ Handled("download")
        /\ url \in DOMAIN expiretimes /\ now < expiretimes[url]
        /\ activity' = activity \cup {row}
        /\ UNCHANGED <<topic, committed, alive, sending, lost, skipped, step, expiretimes, now>>
    BY DEF Skip, Expires, Url, Message, Row, shared
  <1> HIDE DEF url, m
  <1>2. StageTypes /\ EveryUrlTried /\ JobIsNext /\ TimesOfAttempts
    BY DEF UrlsInv, JobIsNext
  <1>3. PICK time \in Nat : /\ time <= now /\ Attempted(url, time)
                            /\ expiretimes[url] = time + DownloadInterval
    BY <1>1, <1>2 DEF TimesOfAttempts
  <1>4. PICK other \in activity : other.url = url /\ other.attempted /\ other.at = time
    BY <1>3 DEF Attempted
  <1>5. ASSUME NEW n, n = at["download"] + 1 PROVE Tried(n)'
    <2>1. row \in activity' /\ other \in activity' /\ topic'["download"][n].url = url
      BY <1>1, <1>4, <1>5 DEF url, m
    <2>2. other.at <= now /\ now < other.at + DownloadInterval
      BY <1>1, <1>3, <1>4
    <2>3. row.msg = n /\ row.url = url /\ row.at = now
      BY <1>5 DEF m
    <2> HIDE DEF row
    <2> QED
      BY <1>4, <2>1, <2>2, <2>3 DEF Tried
  <1>6. StageTypes' /\ EveryUrlTried'
    BY <1>1, <1>2, <1>5, TriedOne
  <1>7. TimesOfAttempts'
    BY <1>1, <1>2, CommonNumbers, TimesStay
  <1> QED
    BY <1>1, <1>6, <1>7 DEF UrlsInv, JobIsNext, InWork

LEMMA SaveTimeUrls ==
  ASSUME CommonTypes, UrlsInv, SaveTime PROVE UrlsInv'
  <1> DEFINE m == at["download"] + 1
             url == topic["download"][m].url
             row == [msg |-> m, url |-> url, at |-> job.at, attempted |-> TRUE]
  <1>1. /\ step = "done" /\ Handled("download") /\ step' = "poll"
        /\ expiretimes' \in {Unexpired(WithUrl(url)), WithUrl(url)}
        /\ UNCHANGED <<topic, committed, alive, sending, lost, skipped, activity, now>>
    BY DEF SaveTime, Url, Message, shared
  <1>2. /\ StageTypes /\ EveryUrlTried /\ JobIsNext /\ TimesOfAttempts
        /\ HasMessage("download") /\ row \in activity /\ job.at <= now
    BY <1>1 DEF UrlsInv, JobIsNext, Row, Url, Message
  <1>3. job.at \in Nat
    BY DEF CommonTypes
  <1>4. ASSUME NEW n, n = at["download"] + 1 PROVE Tried(n)'
    <2>1. row \in activity' /\ topic'["download"][n].url = url
      BY <1>1, <1>2, <1>4
    <2>2. row.msg = n /\ row.url = url /\ row.attempted
      BY <1>4
    <2> HIDE DEF row, url
    <2> QED
      BY <2>1, <2>2 DEF Tried
  <1>5. StageTypes' /\ EveryUrlTried'
    BY <1>1, <1>2, <1>4, TriedOne
  <1>6. Attempted(url, job.at)
    <2>1. row.url = url /\ row.attempted /\ row.at = job.at
      OBVIOUS
    <2> HIDE DEF row, url
    <2> QED
      BY <1>2, <2>1 DEF Attempted
  <1>7. TimesOfAttempts'
    <2> HIDE DEF row, url, m
    <2> SUFFICES ASSUME NEW u \in DOMAIN expiretimes'
                 PROVE  \E time \in Nat : /\ time <= now' /\ Attempted(u, time)'
                                          /\ expiretimes'[u] = time + DownloadInterval
      BY DEF TimesOfAttempts
    <2>1. /\ u \in DOMAIN expiretimes \cup {url}
          /\ expiretimes'[u] = IF u = url THEN job.at + DownloadInterval ELSE expiretimes[u]
      BY <1>1 DEF Unexpired, WithUrl
    <2>2. \A time : Attempted(u, time) => Attempted(u, time)'
      BY <1>1 DEF Attempted
    <2>3. CASE u = url
      BY <1>1, <1>2, <1>3, <1>6, <2>1, <2>2, <2>3
    <2>4. CASE u # url
      BY <1>1, <1>2, <2>1, <2>2, <2>4 DEF TimesOfAttempts
    <2> QED
      BY <2>3, <2>4
  <1> QED
    BY <1>1, <1>5, <1>7 DEF UrlsInv, JobIsNext, InWork


(* The steps between the start of a request and its end.                    *)
LEMMA JobUrls ==
  ASSUME CommonTypes, UrlsInv, Request \/ (\E h : Answer(h)) \/ MakeDirectory
                               \/ WriteBytes \/ OpenLog \/ WriteRow
  PROVE  UrlsInv'
  <1>1. UNCHANGED <<stageVars, expiretimes, now>> /\ activity \subseteq activity'
    BY DEF Request, Answer, MakeDirectory, WriteBytes, OpenLog, WriteRow, shared, stageVars
  <1>2. UNCHANGED <<topic, at, committed, alive, sending, lost, skipped>>
    BY <1>1 DEF stageVars
  <1>3. StageTypes /\ EveryUrlTried /\ JobIsNext /\ TimesOfAttempts
    BY DEF UrlsInv, JobIsNext
  <1>4. StageTypes'
    BY <1>2, <1>3 DEF StageTypes, Sendings
  <1>5. EveryUrlTried'
    <2>1. Grow
      BY <1>1, <1>2 DEF Grow, Continues, Sent
    <2> QED
      BY <1>2, <1>3, <2>1, StillTried
  <1>6. TimesOfAttempts'
    BY <1>1, <1>3, CommonNumbers, TimesStay
  <1>7. HasMessage("download") /\ job'.msg = at["download"] + 1 /\ job'.at <= now
    <2>1. now <= now
      BY CommonNumbers
    <2>2. CASE Request
      BY <2>1, <2>2 DEF Request
    <2>3. CASE ~Request
      <3>1. step # "poll" /\ job'.msg = job.msg /\ job'.at = job.at
        BY <2>3 DEF CommonTypes, Answer, MakeDirectory, WriteBytes, OpenLog, WriteRow
      <3> QED
        BY <1>3, <3>1 DEF JobIsNext
    <2> QED
      BY <2>2, <2>3
  <1>8. step' \in InWork \cup {"done"} => Row(job'.at, TRUE) \in activity'
    <2>1. CASE Request
      BY <2>1 DEF Request, InWork
    <2>2. CASE \E h : Answer(h)
      BY <2>2 DEF Answer, CommonTypes
    <2>3. CASE MakeDirectory \/ WriteBytes \/ OpenLog \/ WriteRow
      <3>1. step \in InWork /\ UNCHANGED <<job, activity>>
        BY <2>3 DEF InWork, MakeDirectory, WriteBytes, OpenLog, WriteRow
      <3> QED
        BY <1>3, <3>1 DEF JobIsNext
    <2> QED
      BY <2>1, <2>2, <2>3
  <1>9. JobIsNext'
    BY <1>1, <1>2, <1>6, <1>7, <1>8 DEF JobIsNext, HasMessage, Row, Url, Message
  <1> QED
    BY <1>4, <1>5, <1>9 DEF UrlsInv

(* The process may end at any time.                                         *)
LEMMA KillUrls ==
  ASSUME UrlsInv, KillDownloader \/ AnswerRaises PROVE UrlsInv'
  <1>1. /\ Ends("download") /\ UNCHANGED activity /\ "download" \in Groups
        /\ step' = "poll" /\ expiretimes' = NoTimes
    BY DEF KillDownloader, AnswerRaises, Killed, Forgets, Groups
  <1>2. StageTypes' /\ EveryUrlTried'
    BY <1>1, EndsUrls DEF UrlsInv
  <1>3. JobIsNext'
    BY <1>1 DEF JobIsNext, TimesOfAttempts, NoTimes, InWork
  <1> QED
    BY <1>2, <1>3 DEF UrlsInv

LEMMA UntouchedUrls ==
  ASSUME CommonTypes, UrlsInv, UNCHANGED <<stageVars, downloadVars>>,
         now' = now \/ now' = now + 1
  PROVE  UrlsInv'
  <1>1. /\ UNCHANGED <<step, job, expiretimes, activity>>
        /\ UNCHANGED <<topic, at, committed, alive, sending, lost, skipped>>
    BY DEF downloadVars, stageVars
  <1>2. StageTypes /\ EveryUrlTried /\ JobIsNext /\ TimesOfAttempts
    BY DEF UrlsInv, JobIsNext
  <1>3. StageTypes'
    BY <1>1, <1>2 DEF StageTypes, Sendings
  <1>4. EveryUrlTried'
    <2>1. Grow
      BY <1>1 DEF Grow, Continues, Sent
    <2> QED
      BY <1>1, <1>2, <2>1, StillTried
  <1>5. TimesOfAttempts'
    BY <1>1, <1>2, CommonNumbers, TimesStay
  <1>6. step # "poll" => job.at <= now'
    <2>1. job.at \in Nat /\ now \in Nat
      BY DEF CommonTypes
    <2> QED
      BY <1>2, <2>1 DEF JobIsNext
  <1>7. JobIsNext'
    BY <1>1, <1>2, <1>5, <1>6 DEF JobIsNext, HasMessage, Row, Url, Message
  <1> QED
    BY <1>3, <1>4, <1>7 DEF UrlsInv

LEMMA NextUrls ==
  ASSUME CommonTypes, UrlsInv, [Next]_vars PROVE UrlsInv'
  <1>1. CASE Stages /\ UNCHANGED <<downloadVars, checkerVars, shared, hashFiles>>
    BY <1>1, StagesUrls
  <1>2. CASE Download
    <2>1. CASE Skip
      BY <2>1, SkipUrls
    <2>2. CASE SaveTime
      BY <2>2, SaveTimeUrls
    <2>3. CASE KillDownloader \/ AnswerRaises
      BY <2>3, KillUrls
    <2>4. CASE Request \/ (\E h : Answer(h)) \/ MakeDirectory \/ WriteBytes \/ OpenLog
               \/ WriteRow
      BY <2>4, JobUrls
    <2> QED
      BY <1>2, <2>1, <2>2, <2>3, <2>4 DEF Download
  <1>3. CASE Tick \/ (Check /\ UNCHANGED <<stageVars, downloadVars>>) \/ UNCHANGED vars
    <2>1. /\ UNCHANGED <<stageVars, downloadVars>>
          /\ now' = now \/ now' = now + 1
      BY <1>3 DEF Tick, Check, vars, shared
    <2> QED
      BY <2>1, UntouchedUrls
  <1> QED
    BY <1>1, <1>2, <1>3 DEF Next

-----------------------------------------------------------------------------
(* The theorems.                                                            *)

LEMMA Inductive == Spec => []IInv
  <1>1. Init => IInv
    BY InitCommon, InitBytes, InitKnown, InitSaved, InitQuota, InitUrls DEF IInv
  <1>2. IInv /\ [Next]_vars => IInv'
    <2> SUFFICES ASSUME IInv, [Next]_vars PROVE IInv'
      OBVIOUS
    <2>1. CommonTypes /\ BytesFirst /\ KnownAreLogged /\ SavedOrMarked /\ QuotaInv /\ UrlsInv
      BY DEF IInv
    <2>2. CommonTypes' /\ BytesFirst' /\ KnownAreLogged'
      BY <2>1, NextCommon, NextBytes, NextKnown DEF UrlsInv
    <2>3. SavedOrMarked' /\ QuotaInv' /\ UrlsInv'
      BY <2>1, NextSaved, NextQuota, NextUrls
    <2> QED
      BY <2>2, <2>3 DEF IInv
  <1> QED
    BY <1>1, <1>2, PTL DEF Spec

(* What a stage has passed it has passed on or tried, unless it was left    *)
(* out at a start before the first commit; passed on means given to a       *)
(* producer, which may end before it delivers: EveryUrlTried.               *)
THEOREM HandledIsPassedOn == Spec => []EveryUrlTried
  <1>1. IInv => EveryUrlTried
    BY DEF IInv, UrlsInv
  <1> QED
    BY <1>1, Inductive, PTL

(* The checker knows no hash before its bytes and its log are on disk:      *)
(* KnownHashHasBytes.                                                       *)
THEOREM KnownHashesHaveBytes == Spec => []KnownHashHasBytes
  <1>1. IInv => KnownHashHasBytes
    <2> SUFFICES ASSUME CommonTypes, BytesFirst, KnownAreLogged, NEW h \in Hashes,
                        database[h] # Absent \/ disk.database[h] # Absent
                 PROVE  /\ bytes[h] = "whole" \/ (bytes[h] = "part" /\ crashes > 0)
                        /\ rows[h] # {}
      BY DEF IInv, KnownHashHasBytes
    <2>1. log[h] # "none" /\ rows[h] # {}
      BY DEF KnownAreLogged, Logged
    <2> QED
      BY <2>1 DEF BytesFirst
  <1> QED
    BY <1>1, Inductive, PTL

(* The dictionaries are on disk whenever a pass over the directories ends:  *)
(* SavedBetweenPasses.                                                      *)
THEOREM PassesEndSaved == Spec => []SavedBetweenPasses
  <1>1. IInv => SavedBetweenPasses
    BY DEF IInv, SavedOrMarked, SavedBetweenPasses
  <1> QED
    BY <1>1, Inductive, PTL

(* The requests of a day and of a month stay within the quota, but for      *)
(* those of a minute, those that an exception or a kill made the checker    *)
(* forget and those of which the answer never came: QuotaKept.              *)
THEOREM QuotaIsKept == Spec => []QuotaKept
  <1>1. IInv => QuotaKept
    BY DEF IInv, QuotaInv
  <1> QED
    BY <1>1, Inductive, PTL
=============================================================================
