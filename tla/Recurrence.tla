----------------------------- MODULE Recurrence -----------------------------
(***************************************************************************)
(* Times and recurrence rules as the ICS plugin computes with them: moments*)
(* are half-hours since the epoch, local time is a fixed offset away, and  *)
(* a day of local time has Day half-hours.  The expanders try a limited    *)
(* number of repetitions, counted from DTSTART.                            *)
(*                                                                         *)
(* A set of repetitions keeps the try each came from, so that two copies   *)
(* of one moment remain two.  The loops stop at the first repetition past  *)
(* the end: the repetitions ascend, so that this drops what the filter     *)
(* drops.                                                                  *)
(***************************************************************************)
EXTENDS Integers

CONSTANTS
    Day,            \* half-hours of a day
    Local,          \* offset of the machine's zone; it has no summer time
    Months,         \* after so many months, of CycleDays days, the calendar repeats;
    CycleDays,      \* 4800 and 146097 for the calendar of ISO 8601
    MonthStart,     \* the first day of each of these months
    DailyTries,     \* 365, 520 weeks and 24 months in the code
    WeeklyTries,
    MonthlyTries,
    None

ASSUME TimeAssumption ==
    /\ Day \in Nat \ {0} /\ Local \in Int
    /\ DailyTries \in Nat /\ WeeklyTries \in Nat /\ MonthlyTries \in Nat
    /\ None \notin Int

ASSUME MonthAssumption ==
    /\ Months \in Nat \ {0} /\ CycleDays \in Nat \ {0}
    /\ MonthStart \in [0..(Months - 1) -> Nat] /\ MonthStart[0] = 0

Week == 7

\* Day number and weekday (1 is Monday) of a wall clock that shows w.
DayOf(w)   == w \div Day
Weekday(w) == (DayOf(w) % Week) + 1

\* strftime("%Y%m%dT%H%M%S") of a moment in local time.
FormatLocalDt(t) == [wall |-> t + Local, form |-> "naive"]

-----------------------------------------------------------------------------
(* window.cpp                                                              *)

\* The window begins now, or at the local midnight before.
ComputeWindow(now, horizon, fromDayStart) ==
    [start |-> IF fromDayStart THEN DayOf(now + Local) * Day - Local ELSE now,
     deadline |-> now + horizon]

InWindow(t, win) == t # 0 /\ t >= win.start /\ t <= win.deadline

-----------------------------------------------------------------------------
(* recurrence.cpp                                                          *)

\* parse_rrule_data.  Other frequencies count as DAILY, COUNT is not read, and of
\* UNTIL only the form with a time, in whichever zone, as if it were UTC.
ParseRrule(x) ==
    [freq |-> IF x.freq \in {"YEARLY", "MONTHLY", "WEEKLY"} THEN x.freq ELSE "DAILY",
     interval |-> x.interval,
     until |-> IF x.until = None \/ x.until.form = "date" THEN None ELSE x.until.wall,
     byday |-> x.byday]

IsExcluded(t, exdates) == FormatLocalDt(t) \in exdates

\* No repetition is later than the deadline or UNTIL, or excluded.
Kept(e, t, win) ==
    /\ t <= win.deadline
    /\ e.rule.until = None \/ t <= e.rule.until
    /\ ~IsExcluded(t, e.exdates)

DailyAt(e, i) == e.start + Day * (i * e.rule.interval)

\* Mutant: the window's start ends the loop instead of being skipped.
MutDaily(e, win) ==
    {[try |-> i, start |-> DailyAt(e, i)] :
        i \in {j \in 0..(DailyTries - 1) :
                  e.start >= win.start /\ Kept(e, DailyAt(e, j), win)}}

Daily(e, win) ==
    {[try |-> i, start |-> DailyAt(e, i)] :
        i \in {j \in 0..(DailyTries - 1) :
                  DailyAt(e, j) >= win.start /\ Kept(e, DailyAt(e, j), win)}}

BaseDow(e) == Weekday(e.start + Local)

\* The days of the rule; without BYDAY the weekday of DTSTART.
ByDay(e) == IF e.rule.byday = {} THEN {BaseDow(e)} ELSE e.rule.byday

DaysAhead(e, day) == (day - BaseDow(e) + Week) % Week

WeeklyAt(e, week, day) ==
    e.start + Day * (DaysAhead(e, day) + Week * (week * e.rule.interval))

Weekly(e, win) ==
    {[try |-> p, start |-> WeeklyAt(e, p[1], p[2])] :
        p \in {q \in (0..(WeeklyTries - 1)) \X ByDay(e) :
                  /\ WeeklyAt(e, q[1], q[2]) >= win.start
                  /\ Kept(e, WeeklyAt(e, q[1], q[2]), win)}}

\* The number of the first day of a month, and of the month that has a day.
FirstDay(month) == CycleDays * (month \div Months) + MonthStart[month % Months]

MonthOf(day) ==
    LET begun == {m \in 0..(Months - 1) : MonthStart[m] <= day % CycleDays}
    IN  Months * (day \div CycleDays) + (CHOOSE m \in begun : \A n \in begun : n <= m)

\* mktime() carries a day that the month does not have into the next month.  The
\* time of day is lost, and the window's start is not looked at.
MonthlyAt(e, i) ==
    LET day == DayOf(e.start + Local)
    IN  Day * (FirstDay(MonthOf(day) + i * e.rule.interval) + day - FirstDay(MonthOf(day)))
            - Local

Monthly(e, win) ==
    {[try |-> i, start |-> MonthlyAt(e, i)] :
        i \in {j \in 0..(MonthlyTries - 1) : Kept(e, MonthlyAt(e, j), win)}}

\* recurrence_expander::for_freq; the no-op stands for YEARLY.
Expand(e, win) ==
    CASE e.rule.freq = "DAILY"   -> Daily(e, win)
      [] e.rule.freq = "WEEKLY"  -> Weekly(e, win)
      [] e.rule.freq = "MONTHLY" -> Monthly(e, win)
      [] e.rule.freq = "YEARLY"  -> {}
=============================================================================
