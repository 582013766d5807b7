----------------------------- MODULE HashChecker -----------------------------
(***************************************************************************)
(* The hash checker (database/vtchecker.py): it lists the directories of   *)
(* the downloader, asks VirusTotal once about every new hash and, on the   *)
(* first occasion of a day on which requests are left over, again about    *)
(* those VirusTotal did not know.  What it learns is in two dictionaries   *)
(* that are written to a file each.  Ctrl-C saves the request budget, an   *)
(* exception and a kill do not, and what ends the process while it writes  *)
(* a file leaves it torn: no later process starts over it.                 *)
(*                                                                         *)
(* The service is external: it counts a request that it gets, and may know *)
(* the hash ("known"), know it without a date ("undated") or not           *)
(* ("unknown"), refuse ("refused", an APIError) or answer what cannot be   *)
(* read ("malformed").  The request or its answer may get lost ("failed",  *)
(* a RequestsError): whether it was counted the checker cannot know.       *)
(***************************************************************************)
EXTENDS HashFiles, VirusTotal, Sequences, SequencesExt, FiniteSetsExt

CONSTANT
  Sleep  \* ticks of sleep_interval

VARIABLES
  checker,    \* "off" | "list" | "look" | "search" | "asking" | "handle"
              \* | "dump" | "dump2" | "recheck" | "ask again"
              \* | "asking again" | "handle again"
  todo,       \* hashes of the listing still to look at
  hash,       \* the hash in work
  reply,      \* what the service answered, or None
  pending,    \* hashes to ask again about
  wake,       \* paused until then
  newHash,    \* encountered_new_hash
  lastRecheck,
  database,   \* per hash: Absent or [first, last, vt]
  notinvt,    \* keys of notinvt in their order
  changed,    \* the dictionaries whose flag is set
  budget,     \* the VirusTotal object
  disk,       \* files: database, notinvt, stats, and which are torn
  starts,
  asked,      \* history: requests counted in this day and this month
  unsaved,    \* history: of this process
  owed        \* history: those that no budget has counted or saved

checkerVars == <<checker, todo, hash, reply, pending, wake, newHash, lastRecheck,
                 database, notinvt, changed, budget, disk, starts, asked, unsaved,
                 owed>>

Absent == [first |-> None, last |-> None, vt |-> FALSE]

NoHash == [h \in Hashes |-> Absent]

CheckerInit ==
  /\ checker = "off"
  /\ todo = {} /\ hash = None /\ reply = None /\ pending = <<>> /\ wake = 0
  /\ newHash = FALSE /\ lastRecheck = None
  /\ database = NoHash /\ notinvt = <<>> /\ changed = {}
  /\ budget = NoBudget
  /\ disk = [database |-> NoHash, notinvt |-> <<>>, stats |-> NoBudget, torn |-> {}]
  /\ starts = 0
  /\ asked = [day |-> 0, month |-> 0] /\ unsaved = 0 /\ owed = 0

(* The state of a process that is not there; the history stays. *)
Ended ==
  /\ checker' = "off"
  /\ todo' = {} /\ hash' = None /\ reply' = None /\ pending' = <<>> /\ wake' = 0
  /\ newHash' = FALSE /\ lastRecheck' = None
  /\ database' = NoHash /\ notinvt' = <<>> /\ changed' = {}
  /\ budget' = NoBudget
  /\ unsaved' = 0
  /\ UNCHANGED <<starts, asked>>

(* With -O the budget comes from the service, or from the file if that     *)
(* cannot be had.                                                          *)
Readable(online) == disk.torn \subseteq IF online THEN {"stats"} ELSE {}

Start(online) ==
  /\ checker = "off" /\ starts < scenario.starts
  /\ Readable(online)
  /\ starts' = starts + 1
  /\ database' = disk.database /\ notinvt' = disk.notinvt
  /\ budget' = IF online THEN OnlineBudget(asked) ELSE disk.stats
  /\ checker' = "list"
  /\ UNCHANGED <<todo, hash, reply, pending, wake, newHash, lastRecheck, changed,
                 disk, asked, unsaved, owed>>

(* A file that cannot be read raises, as does an answer of the service.    *)
StartRaises(online) ==
  /\ checker = "off" /\ starts < scenario.starts
  /\ ~Readable(online) \/ online
  /\ starts' = starts + 1
  /\ UNCHANGED <<checker, todo, hash, reply, pending, wake, newHash, lastRecheck,
                 database, notinvt, changed, budget, disk, asked, unsaved, owed>>

(* Any exception but KeyboardInterrupt. *)
Dies ==
  /\ Ended
  /\ owed' = owed + unsaved
  /\ UNCHANGED disk

(* What a process that ends now may have left of the file in work. *)
InWriting ==
  {file \in changed : \/ file = "database" /\ checker = "dump"
                      \/ file = "notinvt" /\ checker = "dump2"}

Kill ==
  /\ checker # "off"
  /\ Ended
  /\ owed' = owed + unsaved
  /\ \E cut \in SUBSET InWriting : disk' = [disk EXCEPT !.torn = @ \cup cut]

Interrupt ==
  /\ checker # "off"
  /\ Ended
  /\ \E cut \in SUBSET InWriting :
       LET whole == IF budget.last = None THEN {} ELSE {"stats"}
       IN  disk' = [disk EXCEPT !.stats = SavedStats(budget, @),
                                !.torn = (@ \ whole) \cup cut]
  /\ UNCHANGED owed

(* A kill while the budget is written. *)
KillInSave ==
  /\ checker # "off" /\ budget.last # None
  /\ Ended
  /\ owed' = owed + unsaved
  /\ \E cut \in SUBSET InWriting :
       disk' = [disk EXCEPT !.torn = @ \cup cut \cup {"stats"}]

-----------------------------------------------------------------------------
(* The loop over the directories. *)

ListDirectories ==
  /\ checker = "list" /\ now >= wake
  /\ todo' = dirs /\ newHash' = FALSE /\ changed' = {}
  /\ checker' = IF dirs = {} THEN "recheck" ELSE "look"
  /\ UNCHANGED <<hash, reply, pending, wake, lastRecheck, database, notinvt, budget,
                 disk, starts, asked, unsaved, owed>>

(* get_our_timestamps() returns nothing, or raises. *)
NoTimestamps(h) == log[h] # "closed" \/ rows[h] = {}

UnreadableLog(h) ==
  /\ checker = "look" /\ h \in todo /\ NoTimestamps(h)
  /\ Dies

LookAtKnown(h) ==
  /\ checker = "look" /\ h \in todo /\ ~NoTimestamps(h)
  /\ database[h] # Absent
  /\ hash' = h /\ todo' = todo \ {h}
  /\ database' = [database EXCEPT ![h].last = Max(rows[h])]
  /\ changed' = IF database' # database THEN {"database"} ELSE {}
  /\ checker' = "dump"
  /\ UNCHANGED <<reply, pending, wake, newHash, lastRecheck, notinvt, budget, disk,
                 starts, asked, unsaved, owed>>

LookAtNew(h) ==
  /\ checker = "look" /\ h \in todo /\ ~NoTimestamps(h)
  /\ database[h] = Absent
  /\ hash' = h /\ todo' = todo \ {h}
  /\ newHash' = TRUE
  /\ database' = [database EXCEPT ![h] =
                    [first |-> Min(rows[h]), last |-> Max(rows[h]), vt |-> FALSE]]
  /\ changed' = {"database"}
  /\ checker' = "search"
  /\ UNCHANGED <<reply, pending, wake, lastRecheck, notinvt, budget, disk, starts,
                 asked, unsaved, owed>>

-----------------------------------------------------------------------------
(* search(), with blocking = True. *)

Searches == checker \in {"search", "ask again"} /\ now >= wake

Ready == UpdateTime(Started(budget, now), now)

MayAsk == ~OutOfMinute(Ready) /\ ~OutOfDay(Ready) /\ ~OutOfMonth(Ready)

WaitMinute ==
  /\ Searches /\ OutOfMinute(Ready)
  /\ budget' = Ready
  /\ wake' = Ready.last + Minute
  /\ UNCHANGED <<checker, todo, hash, reply, pending, newHash, lastRecheck, database,
                 notinvt, changed, disk, starts, asked, unsaved, owed>>

(* datetime() is called with strings. *)
WaitDay ==
  /\ Searches /\ ~OutOfMinute(Ready) /\ OutOfDay(Ready)
  /\ Dies

WaitMonth ==
  /\ Searches /\ ~OutOfMinute(Ready) /\ ~OutOfDay(Ready) /\ OutOfMonth(Ready)
  /\ budget' = Ready
  /\ wake' = (MonthOf(now) + 1) * DaysPerMonth * Day
  /\ UNCHANGED <<checker, todo, hash, reply, pending, newHash, lastRecheck, database,
                 notinvt, changed, disk, starts, asked, unsaved, owed>>

Send ==
  /\ Searches /\ MayAsk
  /\ budget' = Ready /\ reply' = None /\ wake' = 0
  /\ checker' = IF checker = "search" THEN "asking" ELSE "asking again"
  /\ UNCHANGED <<todo, hash, pending, newHash, lastRecheck, database, notinvt,
                 changed, disk, starts, asked, unsaved, owed>>

Asking == checker \in {"asking", "asking again"}

Served == {"known", "undated", "unknown", "refused", "malformed"}

(* The service gets the request. *)
Serve(answer) ==
  /\ Asking /\ reply = None
  /\ reply' = answer
  /\ asked' = [day |-> asked.day + 1, month |-> asked.month + 1]
  /\ owed' = owed + 1
  /\ UNCHANGED <<checker, todo, hash, pending, wake, newHash, lastRecheck, database,
                 notinvt, changed, budget, disk, starts, unsaved>>

Answered == checker' = IF checker = "asking" THEN "handle" ELSE "handle again"

Return ==
  /\ Asking /\ reply # None
  /\ budget' = UpdateQuota(budget)
  /\ unsaved' = unsaved + 1 /\ owed' = owed - 1
  /\ Answered
  /\ UNCHANGED <<todo, hash, reply, pending, wake, newHash, lastRecheck, database,
                 notinvt, changed, disk, starts, asked>>

Fail ==
  /\ Asking
  /\ reply' = "failed"
  /\ Answered
  /\ UNCHANGED <<todo, hash, pending, wake, newHash, lastRecheck, database, notinvt,
                 changed, budget, disk, starts, asked, unsaved, owed>>

-----------------------------------------------------------------------------
(* handle_reply() *)

Known(h) ==
  /\ database' = [database EXCEPT ![h].vt = TRUE]
  /\ notinvt' = RemoveFirst(notinvt, h)
  /\ changed' = changed \cup {"database"}
                \cup (IF Contains(notinvt, h) THEN {"notinvt"} ELSE {})

Unknown(h) ==
  /\ notinvt' = IF Contains(notinvt, h) THEN notinvt ELSE Append(notinvt, h)
  /\ changed' = changed \cup {"notinvt"}
  /\ UNCHANGED database

HandleReply(h) ==
  \/ reply = "known" /\ Known(h)
  \/ reply = "unknown" /\ Unknown(h)
  \/ reply = "undated" /\ UNCHANGED <<database, notinvt, changed>>

Handle ==
  /\ checker = "handle"
  /\ \/ HandleReply(hash)
     \/ reply \in {"refused", "failed"} /\ UNCHANGED <<database, notinvt, changed>>
  /\ reply' = None
  /\ checker' = "dump"
  /\ UNCHANGED <<todo, hash, pending, wake, newHash, lastRecheck, budget, disk, starts,
                 asked, unsaved, owed>>

(* What cannot be read raises, in search(), handle_error() or              *)
(* handle_reply().                                                         *)
ReplyRaises ==
  /\ checker \in {"handle", "handle again"} /\ reply = "malformed"
  /\ Dies

(* The files of a dictionary that has not changed are not written. *)
DumpDatabase ==
  /\ checker = "dump"
  /\ disk' = IF "database" \in changed THEN [disk EXCEPT !.database = database] ELSE disk
  /\ checker' = "dump2"
  /\ UNCHANGED <<todo, hash, reply, pending, wake, newHash, lastRecheck, database,
                 notinvt, changed, budget, starts, asked, unsaved, owed>>

(* The flags are reset for the next hash. *)
DumpNotInVt ==
  /\ checker = "dump2"
  /\ disk' = IF "notinvt" \in changed THEN [disk EXCEPT !.notinvt = notinvt] ELSE disk
  /\ hash' = None
  /\ IF hash = None
     THEN /\ checker' = "list"
          /\ wake' = IF newHash THEN now ELSE now + Sleep
          /\ UNCHANGED changed
     ELSE /\ checker' = IF todo = {} THEN "recheck" ELSE "look"
          /\ changed' = IF todo = {} THEN changed ELSE {}
          /\ UNCHANGED wake
  /\ UNCHANGED <<todo, reply, pending, newHash, lastRecheck, database, notinvt, budget,
                 starts, asked, unsaved, owed>>

-----------------------------------------------------------------------------
(* The hashes not found are asked again about once a day. *)

HaventCheckedToday == lastRecheck = None \/ DayOf(now) > lastRecheck

ToUse(tokens) == IF tokens < 10 THEN tokens ELSE (tokens * 4) \div 5

FirstOf(seq, use) == SubSeq(seq, 1, Min({use, Len(seq)}))

Recheck ==
  /\ checker = "recheck"
  /\ hash' = None
  /\ IF CanGoAtFullSpeed(budget, now) /\ HaventCheckedToday
     THEN /\ lastRecheck' = DayOf(now)
          /\ pending' = FirstOf(notinvt, ToUse(RemainingThisDay(budget)))
          /\ checker' = IF pending' = <<>> THEN "dump" ELSE "ask again"
          /\ UNCHANGED wake
     ELSE /\ checker' = "list"
          /\ wake' = IF newHash THEN now ELSE now + Sleep
          /\ UNCHANGED <<lastRecheck, pending>>
  /\ UNCHANGED <<todo, reply, newHash, database, notinvt, changed, budget, disk, starts,
                 asked, unsaved, owed>>

HandleAgain ==
  /\ checker = "handle again"
  /\ HandleReply(Head(pending))
  /\ reply' = None
  /\ pending' = Tail(pending)
  /\ checker' = IF Tail(pending) = <<>> THEN "dump" ELSE "ask again"
  /\ UNCHANGED <<todo, hash, wake, newHash, lastRecheck, budget, disk, starts, asked,
                 unsaved, owed>>

(* This search is not in a try. *)
RefusedAgain ==
  /\ checker = "handle again" /\ reply \in {"refused", "failed"}
  /\ Dies

Check ==
  /\ \/ \E online \in BOOLEAN : Start(online) \/ StartRaises(online)
     \/ Kill \/ Interrupt \/ KillInSave
     \/ ListDirectories
     \/ \E h \in Hashes : UnreadableLog(h) \/ LookAtKnown(h) \/ LookAtNew(h)
     \/ WaitMinute \/ WaitDay \/ WaitMonth
     \/ Send \/ (\E answer \in Served : Serve(answer)) \/ Return \/ Fail
     \/ Handle \/ ReplyRaises \/ DumpDatabase \/ DumpNotInVt
     \/ Recheck \/ HandleAgain \/ RefusedAgain
  /\ UNCHANGED <<shared, hashFiles>>
=============================================================================
