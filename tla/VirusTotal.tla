----------------------------- MODULE VirusTotal -----------------------------
(***************************************************************************)
(* The request budget of the VirusTotal client (database/virustotal.py):   *)
(* requests of the running minute, day and month, and when they are        *)
(* counted anew.  The budget is a record; last, day and month are None     *)
(* until the first query.  The clock ticks at least once a minute.         *)
(***************************************************************************)
EXTENDS Integers

CONSTANTS
  None,
  max_requests_per_minute, max_requests_per_day, max_requests_per_month,
  Minute, Day,   \* their length in ticks
  DaysPerMonth,
  FullSpeed      \* requests a tick that can_go_at_full_speed() counts on

ASSUME BudgetAssumption ==
  /\ {max_requests_per_minute, max_requests_per_day, max_requests_per_month,
      Minute, Day, DaysPerMonth, FullSpeed} \subseteq Nat \ {0}
  /\ None \notin Nat

DayOf(t) == t \div Day
MonthOf(t) == DayOf(t) \div DaysPerMonth

NoBudget ==
  [last |-> None, day |-> None, month |-> None,
   thisMinute |-> 0, thisDay |-> 0, thisMonth |-> 0]

Started(budget, now) ==
  IF budget.last # None THEN budget
  ELSE [budget EXCEPT !.last = now, !.day = DayOf(now), !.month = MonthOf(now)]

(* Mutant: every new minute begins a new day. *)
UpdateTime_Minutely(budget, now) ==
  IF now - budget.last > Minute
  THEN [last |-> now, day |-> DayOf(now), month |-> MonthOf(now),
        thisMinute |-> 0, thisDay |-> 0, thisMonth |-> 0]
  ELSE budget

(* The day is looked at only when a minute is over, the month only when a  *)
(* day is.                                                                 *)
UpdateTime(budget, now) ==
  LET minuteOver == now - budget.last > Minute
      dayOver == minuteOver /\ DayOf(now) > budget.day
      monthOver == dayOver /\ MonthOf(now) > budget.month
  IN  [last |-> IF minuteOver THEN now ELSE budget.last,
       day |-> IF dayOver THEN DayOf(now) ELSE budget.day,
       month |-> IF monthOver THEN MonthOf(now) ELSE budget.month,
       thisMinute |-> IF minuteOver THEN 0 ELSE budget.thisMinute,
       thisDay |-> IF dayOver THEN 0 ELSE budget.thisDay,
       thisMonth |-> IF monthOver THEN 0 ELSE budget.thisMonth]

OutOfMinute(budget) == budget.thisMinute >= max_requests_per_minute
OutOfDay(budget) == budget.thisDay >= max_requests_per_day
OutOfMonth(budget) == budget.thisMonth >= max_requests_per_month

UpdateQuota(budget) ==
  [budget EXCEPT !.thisMinute = @ + 1, !.thisDay = @ + 1, !.thisMonth = @ + 1]

(* The server reports the day and the month; the times stay unknown. *)
OnlineBudget(used) ==
  [NoBudget EXCEPT !.thisDay = used.day, !.thisMonth = used.month]

SavedStats(budget, saved) == IF budget.last = None THEN saved ELSE budget

RemainingThisDay(budget) == max_requests_per_day - budget.thisDay

CanGoAtFullSpeed(budget, now) ==
  (Day - (now % Day)) * FullSpeed <= (RemainingThisDay(budget) * 6) \div 5
=============================================================================
