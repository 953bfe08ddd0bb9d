-------------------------- MODULE CalendarPipeline --------------------------
(***************************************************************************)
(* detail::parse_calendar_at and the selection event_manager makes of its  *)
(* result: the lines of a calendar are scanned for VEVENTs one by one, the *)
(* raw events expanded one by one, their overrides put in their place, and *)
(* what is in the window and not over yet is shown.                        *)
(*                                                                         *)
(* A line is a marker (BEGIN:VEVENT and the like) or a property, which     *)
(* gives a field of the event its value.  A date is what is written in the *)
(* file: a wall clock, its form ("naive", with a final "utc" Z, or "date"  *)
(* only) and the TZID.  The lists are kept as sets: they are sorted by     *)
(* start, and nothing depends on the order of equal starts.                *)
(***************************************************************************)
EXTENDS Recurrence, Sequences, FiniteSets, SequencesExt

CONSTANTS
    Calendars,      \* records of VTIMEZONE blocks and lines
    StaticOffset,   \* the table of known zones: offset or None, by TZID
    ZoneOffset,     \* the offset the zones really have at the events' times
    Nows,           \* when the calendar may be read
    Horizon,        \* calendar_settings::horizon
    Bad             \* a value that should be a number and is none

\* A date as it is written, what the parser keeps of one as text, and a rule as it is
\* written and as it is read.
Forms    == {"naive", "utc", "date"}
Dates    == [wall : Int, form : Forms, tzid : DOMAIN StaticOffset \cup {None}]
Texts    == [wall : Int, form : Forms]
Rules    == [freq : STRING, interval : Nat, until : Dates \cup {None},
             byday : SUBSET (1..Week), count : Nat \cup {None}]
RawRules == [freq : {"YEARLY", "MONTHLY", "WEEKLY", "DAILY"}, interval : Nat,
             until : Int \cup {None}, byday : SUBSET (1..Week)]

\* What a property line may give its event; not listed fields may be anything.
IsSet(set) ==
    /\ \A f \in DOMAIN set \cap {"dtstart", "dtend"} : set[f] \in Dates \cup {Bad}
    /\ "rrule" \in DOMAIN set => set.rrule \in Rules \cup {None, Bad}
    /\ "exdate" \in DOMAIN set => set.exdate \subseteq Dates
    /\ "rid" \in DOMAIN set => set.rid \in Dates

IsCalendar(c) ==
    /\ c.zones \in Seq(ToSet(c.zones)) /\ c.lines \in Seq(ToSet(c.lines))
    /\ \A i \in DOMAIN c.zones : c.zones[i].standard \in Int \cup {None}
    /\ \A i \in DOMAIN c.lines : c.lines[i].mark = "property" => IsSet(c.lines[i].set)

ASSUME CalendarAssumption ==
    /\ \A c \in Calendars : IsCalendar(c)
    /\ \A z \in DOMAIN StaticOffset : StaticOffset[z] \in Int \cup {None} /\ ZoneOffset[z] \in Int
    /\ None \notin Texts \cup RawRules

\* The machine's clock is a day or more after the epoch, which stands for no date.
ASSUME ClockAssumption == Horizon \in Int /\ \A t \in Nows : t \in Int /\ t >= Day

VARIABLES
    calendar, now, fromDayStart,    \* the input: fixed
    pos,            \* the next line
    inEvent, inAlarm, eventLines, alarmLines,   \* locals of collect_raw_events
    raws,           \* the raw events so far
    todo,           \* how many of them are not yet expanded
    result,         \* result of parse_calendar_at
    shown,          \* what get_next_events() returns of it
    phase           \* "scan", "expand", "select", "done" or "thrown"

input   == <<calendar, now, fromDayStart>>
scanner == <<pos, inEvent, inAlarm, eventLines, alarmLines, raws>>
vars    == <<input, scanner, todo, result, shown, phase>>

\* Lines are collected only inside an event, and for the alarm only after one began;
\* the list shown is part of the result and comes last.
TypeOK ==
    /\ now \in Nows /\ fromDayStart \in BOOLEAN
    /\ pos \in 1..(Len(calendar.lines) + 1)
    /\ inEvent \in BOOLEAN /\ inAlarm \in BOOLEAN /\ (inAlarm => inEvent)
    /\ eventLines # <<>> \/ alarmLines # <<>> => inEvent
    /\ todo \in 0..Len(raws)
    /\ \A x \in result : x.raw \in 1..(Len(raws) - todo) /\ x.start \in Int /\ x.end \in Int
    /\ shown \subseteq result /\ (shown # {} => phase = "done")
    /\ phase \in {"scan", "expand", "select", "done", "thrown"}

Init ==
    /\ calendar \in Calendars /\ now \in Nows /\ fromDayStart \in BOOLEAN
    /\ pos = 1 /\ inEvent = FALSE /\ inAlarm = FALSE
    /\ eventLines = <<>> /\ alarmLines = <<>> /\ raws = <<>>
    /\ todo = 0 /\ result = {} /\ shown = {} /\ phase = "scan"

-----------------------------------------------------------------------------
(* timezone.cpp, datetime.cpp                                              *)

\* An offset rounded away from UTC to whole hours.
ParseTzOffset(o) == IF o >= 0 THEN 2 * ((o + 1) \div 2) ELSE -2 * ((1 - o) \div 2)

\* The offset of the last block that names the zone and has a STANDARD part comes
\* before the table.  DAYLIGHT parts are ignored.
OffsetHours(tzid) ==
    LET blocks == {i \in DOMAIN calendar.zones : /\ calendar.zones[i].tzid = tzid
                                                 /\ calendar.zones[i].standard # None}
        last   == CHOOSE i \in blocks : \A j \in blocks : j <= i
    IN  IF blocks = {} THEN StaticOffset[tzid] ELSE ParseTzOffset(calendar.zones[last].standard)

\* parse_ics_datetime: without a known zone the machine's is taken.  A date that is
\* not there is the epoch.
Moment(d) ==
    CASE d = None -> 0
      [] d # None /\ d.form = "utc" -> d.wall
      [] d # None /\ d.form = "naive" /\ d.tzid # None ->
            d.wall - (IF OffsetHours(d.tzid) # None THEN OffsetHours(d.tzid) ELSE Local)
      [] OTHER -> d.wall - Local

\* The text of EXDATE and RECURRENCE-ID: their parameters, the TZID, are dropped.
Text(d) == [wall |-> d.wall, form |-> d.form]

-----------------------------------------------------------------------------
(* event_builder.cpp                                                       *)

Blank == [uid |-> None, status |-> "CONFIRMED", dtstart |-> None, dtend |-> None,
          rrule |-> None, exdate |-> {}, rid |-> None, description |-> None]

\* A later line replaces an earlier one; only the EXDATEs add up.
Assign(said, line) ==
    [f \in DOMAIN said |->
        IF f \notin DOMAIN line.set THEN said[f]
        ELSE IF f = "exdate" THEN said[f] \cup line.set[f]
        ELSE line.set[f]]

\* The loop over the lines of an event.
Said(lines) ==
    LET said[n \in 0..Len(lines)] == IF n = 0 THEN Blank ELSE Assign(said[n - 1], lines[n])
    IN  said[Len(lines)]

\* parse_alarm: the last TRIGGER counts; its sign is dropped, and weeks count as
\* minutes.
Triggers(lines) == {i \in DOMAIN lines : "trigger" \in DOMAIN lines[i].set}

LastTrigger(lines) ==
    lines[CHOOSE i \in Triggers(lines) : \A j \in Triggers(lines) : j <= i].set.trigger

Alarms(lines) ==
    LET t == LastTrigger(lines)
    IN  IF Triggers(lines) = {} THEN {}
        ELSE {t.days * 1440 + t.hours * 60 + t.minutes + t.weeks}

\* The raw event of a VEVENT whose lines said s.
Build(s, alarms) ==
    [uid |-> s.uid, canceled |-> s.status = "CANCELED",
     start |-> Moment(s.dtstart), end |-> Moment(s.dtend),
     rule |-> IF s.rrule = None THEN None ELSE ParseRrule(s.rrule),
     exdates |-> {Text(d) : d \in s.exdate},
     rid |-> IF s.rid = None THEN None ELSE Text(s.rid),
     description |-> s.description, alarms |-> alarms, said |-> s]

\* std::stoi on what is no number throws out of the parser.
Throws(lines, alarms) ==
    /\ lines # <<>>
    /\ \/ \E i \in DOMAIN lines : \E f \in {"dtstart", "dtend", "rrule"} \cap DOMAIN lines[i].set :
             lines[i].set[f] = Bad
       \/ Triggers(alarms) # {} /\ LastTrigger(alarms) = Bad

-----------------------------------------------------------------------------
(* collect_raw_events                                                      *)

At(mark) == /\ phase = "scan" /\ pos <= Len(calendar.lines)
            /\ calendar.lines[pos].mark = mark /\ pos' = pos + 1
            /\ UNCHANGED <<input, todo, result, shown>>

Line == calendar.lines[pos]

\* A second BEGIN:VEVENT drops the event whose end is missing.
BeginEvent ==
    /\ At("BEGIN:VEVENT")
    /\ inEvent' = TRUE /\ inAlarm' = FALSE /\ eventLines' = <<>> /\ alarmLines' = <<>>
    /\ UNCHANGED <<raws, phase>>

\* flush(): an event without UID is dropped.
EndEvent ==
    /\ At("END:VEVENT")
    /\ inEvent' = FALSE /\ inAlarm' = FALSE /\ eventLines' = <<>> /\ alarmLines' = <<>>
    /\ IF Throws(eventLines, alarmLines)
       THEN phase' = "thrown" /\ UNCHANGED raws
       ELSE /\ raws' = IF Said(eventLines).uid = None THEN raws
                       ELSE Append(raws, Build(Said(eventLines), Alarms(alarmLines)))
            /\ UNCHANGED phase

\* Mutant: an alarm may begin outside an event.
MutBeginAlarm ==
    /\ At("BEGIN:VALARM")
    /\ inAlarm' = TRUE /\ alarmLines' = <<>>
    /\ UNCHANGED <<inEvent, eventLines, raws, phase>>

BeginAlarm ==
    /\ At("BEGIN:VALARM")
    /\ inAlarm' = (inAlarm \/ inEvent)
    /\ alarmLines' = IF inEvent THEN <<>> ELSE alarmLines
    /\ UNCHANGED <<inEvent, eventLines, raws, phase>>

EndAlarm ==
    /\ At("END:VALARM")
    /\ inAlarm' = (inAlarm /\ ~inEvent)
    /\ UNCHANGED <<inEvent, eventLines, alarmLines, raws, phase>>

\* Mutant: the lines of an alarm are taken for lines of the event.
MutProperty ==
    /\ At("property")
    /\ eventLines' = IF inEvent THEN Append(eventLines, Line) ELSE eventLines
    /\ UNCHANGED <<inEvent, inAlarm, alarmLines, raws, phase>>

Property ==
    /\ At("property")
    /\ eventLines' = IF inEvent /\ ~inAlarm THEN Append(eventLines, Line) ELSE eventLines
    /\ alarmLines' = IF inEvent /\ inAlarm THEN Append(alarmLines, Line) ELSE alarmLines
    /\ UNCHANGED <<inEvent, inAlarm, raws, phase>>

\* What follows the last END:VEVENT is dropped.
EndOfFile ==
    /\ phase = "scan" /\ pos > Len(calendar.lines)
    /\ phase' = "expand" /\ todo' = Len(raws)
    /\ UNCHANGED <<input, scanner, result, shown>>

-----------------------------------------------------------------------------
(* parse_calendar_at, override_applier.cpp                                 *)

Window == ComputeWindow(now, Horizon, fromDayStart)

\* Mutant: a canceled override does not count.
MutIsOverridden(uid, t) ==
    \E i \in DOMAIN raws : /\ raws[i].uid = uid /\ ~raws[i].canceled
                           /\ raws[i].rid # None /\ raws[i].rid = FormatLocalDt(t)

IsOverridden(uid, t) ==
    \E i \in DOMAIN raws : /\ raws[i].uid = uid
                           /\ raws[i].rid # None /\ raws[i].rid = FormatLocalDt(t)

\* The entries of raw event n for the result.
Entries(n, repetitions) ==
    {[raw |-> n, try |-> r.try, start |-> r.start,
      end |-> r.start + (raws[n].end - raws[n].start)] : r \in repetitions}

Once(n) == Entries(n, {[try |-> 0, start |-> raws[n].start]})

\* The raw events are taken from the first on.
Current == Len(raws) - todo + 1

\* What raw event n gives, unless it is an override or canceled.
Expansion(n) ==
    LET e == raws[n]
    IN  IF e.rid # None \/ e.canceled THEN {}
        ELSE IF e.rule # None
        THEN Entries(n, {r \in Expand(e, Window) : ~IsOverridden(e.uid, r.start)})
        ELSE IF InWindow(e.start, Window) THEN Once(n) ELSE {}

ExpandRaw ==
    /\ phase = "expand" /\ todo > 0
    /\ result' = result \cup Expansion(Current)
    /\ todo' = todo - 1
    /\ UNCHANGED <<input, scanner, shown, phase>>

Replacements ==
    UNION {Once(n) : n \in {i \in DOMAIN raws : /\ raws[i].rid # None /\ ~raws[i].canceled
                                                 /\ InWindow(raws[i].start, Window)}}

AddOverrides ==
    /\ phase = "expand" /\ todo = 0
    /\ result' = result \cup Replacements
    /\ phase' = "select"
    /\ UNCHANGED <<input, scanner, todo, shown>>

\* event_manager::get_next_events
Select ==
    /\ phase = "select"
    /\ shown' = {x \in result : InWindow(x.start, Window) /\ x.end > now}
    /\ phase' = "done"
    /\ UNCHANGED <<input, scanner, todo, result>>

-----------------------------------------------------------------------------
Scan == \/ BeginEvent \/ EndEvent \/ BeginAlarm \/ EndAlarm \/ Property \/ EndOfFile

Next == Scan \/ ExpandRaw \/ AddOverrides \/ Select

Spec == Init /\ [][Next]_vars

-----------------------------------------------------------------------------
(* What a calendar means (RFC 5545); Plain are the events that ask for     *)
(* nothing the parser has no notion of.                                    *)

TrueOffset(d) ==
    IF d.form = "utc" THEN 0
    ELSE IF d.form = "date" \/ d.tzid = None THEN Local ELSE ZoneOffset[d.tzid]

TrueMoment(d) == d.wall - TrueOffset(d)

\* Event s, without regard to overrides, takes place at t.
Occurs(s, t) ==
    LET r     == s.rrule
        first == s.dtstart.wall
        wall  == t + TrueOffset(s.dtstart)
        days  == IF r.byday = {} THEN {Weekday(first)} ELSE r.byday
    IN  IF r = None THEN wall = first
        ELSE /\ wall >= first /\ (wall - first) % Day = 0
             /\ r.freq = "DAILY" => ((wall - first) \div Day) % r.interval = 0
             /\ r.freq = "WEEKLY" =>
                  /\ Weekday(wall) \in days
                  /\ (DayOf(wall) \div Week - DayOf(first) \div Week) % r.interval = 0
             /\ r.until # None => t <= TrueMoment(r.until)
             /\ \A d \in s.exdate : TrueMoment(d) # t

Overrides(n) == {i \in DOMAIN raws : raws[i].uid = raws[n].uid /\ raws[i].said.rid # None}

\* The status RFC 5545 knows, and the spelling of it event_manager.h:41 promises.
IsCanceled(n) == raws[n].said.status \in {"CANCELLED", "CANCELED"}

\* When raw event n is to be shown.
Planned(n) ==
    LET s == raws[n].said
    IN  {t \in Window.start..Window.deadline :
            /\ ~IsCanceled(n)
            /\ IF s.rid # None THEN t = TrueMoment(s.dtstart)
               ELSE /\ Occurs(s, t)
                    /\ s.rrule # None =>
                         \A i \in Overrides(n) : TrueMoment(raws[i].said.rid) # t}

\* A date the code compares as text means what it says on this machine.
IsLocal(d) == d.form = "naive" /\ TrueOffset(d) = Local

\* Raw event n keeps to what the parser reads as RFC 5545 does: zones of whole hours
\* it knows, a DTEND, exceptions in local time, DAILY or WEEKLY without COUNT, UNTIL
\* in UTC, in a series of several weeks no BYDAY before the weekday of DTSTART, and
\* not the status CANCELLED: RFC 5545 cancels with it and the parser takes it for
\* CONFIRMED (event_builder.cpp:133-138).
PlainDates(n) ==
    LET s == raws[n].said
    IN  /\ s.dtstart # None /\ s.dtend # None
        /\ raws[n].start = TrueMoment(s.dtstart) /\ raws[n].end = TrueMoment(s.dtend)
        /\ \A d \in s.exdate \cup {raws[i].said.rid : i \in Overrides(n)} : IsLocal(d)

PlainRule(n) ==
    LET s == raws[n].said
        r == s.rrule
        dow == Weekday(s.dtstart.wall)
    IN  r # None =>
          /\ r.freq \in {"DAILY", "WEEKLY"} /\ r.interval > 0 /\ r.count = None
          /\ r.until # None => r.until.form = "utc"
          /\ r.freq = "WEEKLY" => /\ BaseDow(raws[n]) = dow
                                  /\ r.interval = 1 \/ \A d \in r.byday : d >= dow

Plain(n) == PlainDates(n) /\ PlainRule(n) /\ raws[n].said.status # "CANCELLED"

\* The tries reach beyond the window.
InReach(n) ==
    LET e    == raws[n]
        days == IF e.rule.freq = "DAILY" THEN DailyTries ELSE Week * WeeklyTries
    IN  e.rule # None => e.start + Day * days * e.rule.interval > Window.deadline

-----------------------------------------------------------------------------
\* The lines b to e are a VEVENT; line i of it belongs to one of its alarms.
IsEvent(b, e) ==
    LET m(i) == calendar.lines[i].mark
    IN  /\ b < e /\ m(b) = "BEGIN:VEVENT" /\ m(e) = "END:VEVENT"
        /\ \A i \in (b + 1)..(e - 1) : m(i) \notin {"BEGIN:VEVENT", "END:VEVENT"}

OfAlarm(b, i) ==
    \E a \in b..i : /\ calendar.lines[a].mark = "BEGIN:VALARM"
                    /\ \A j \in a..i : calendar.lines[j].mark # "END:VALARM"

\* The values field f is given in the event.
Given(b, e, f) ==
    LET own  == {i \in b..e : /\ calendar.lines[i].mark = "property" /\ ~OfAlarm(b, i)
                              /\ f \in DOMAIN calendar.lines[i].set}
    IN  IF own = {} THEN Blank[f]
        ELSE IF f = "exdate" THEN UNION {calendar.lines[i].set[f] : i \in own}
        ELSE calendar.lines[CHOOSE i \in own : \A j \in own : j <= i].set[f]

Values(b, e) == [f \in DOMAIN Blank |-> Given(b, e, f)]

Written == {be \in (DOMAIN calendar.lines) \X (DOMAIN calendar.lines) :
                IsEvent(be[1], be[2]) /\ Given(be[1], be[2], "uid") # None}

\* How many of them end no later than line e.
Place(e) == Cardinality({be \in Written : be[2] <= e})

\* Whatever lines surround it, a complete VEVENT with a UID is read as it is
\* written, once and in its place, and nothing else is read: no value of an alarm, of
\* an event whose end is missing or of the text between two events gets into it
\* (pipeline.cpp:20-77, event_builder.cpp:101-183).
ReadAsWritten ==
    phase \notin {"scan", "thrown"} =>
        /\ Len(raws) = Cardinality(Written)
        /\ \A be \in Written : raws[Place(be[2])].said = Values(be[1], be[2])

\* The VEVENT that begins at line b is not over before line p.
Open(b, p) ==
    /\ b \in 1..(p - 1) /\ calendar.lines[b].mark = "BEGIN:VEVENT"
    /\ \A i \in (b + 1)..(p - 1) :
          calendar.lines[i].mark \notin {"BEGIN:VEVENT", "END:VEVENT"}

ReadTo(p) == {be \in Written : be[2] < p}

\* What the scanner has of the lines before pos: of an event that is open what it says
\* so far, and every event that is closed.
ScanInv ==
    phase = "scan" =>
        /\ inEvent <=> \E b \in 1..(pos - 1) : Open(b, pos)
        /\ \A b \in 1..(pos - 1) : Open(b, pos) =>
              /\ inAlarm <=> OfAlarm(b, pos - 1)
              /\ Said(eventLines) = Values(b, pos - 1)
        /\ Len(raws) = Cardinality(ReadTo(pos))
        /\ \A be \in ReadTo(pos) : raws[Place(be[2])].said = Values(be[1], be[2])

\* What lines can say that Build does not throw at.
IsSaid(s) ==
    /\ s.dtstart \in Dates \cup {None} /\ s.dtend \in Dates \cup {None}
    /\ s.rrule \in Rules \cup {None} /\ s.exdate \subseteq Dates /\ s.rid \in Dates \cup {None}

LinesInv ==
    /\ IsCalendar(calendar) /\ raws \in Seq(ToSet(raws))
    /\ eventLines \in Seq(ToSet(calendar.lines))
    /\ \A i \in DOMAIN eventLines : eventLines[i].mark = "property"
    /\ \A n \in DOMAIN raws :
          IsSaid(raws[n].said) /\ raws[n] = Build(raws[n].said, raws[n].alarms)

\* What the raw events expanded so far have given.
ExpandInv ==
    /\ phase \in {"scan", "thrown"} => todo = 0 /\ result = {}
    /\ phase = "expand" => result = UNION {Expansion(n) : n \in 1..(Len(raws) - todo)}
    /\ phase \in {"select", "done"} =>
          todo = 0 /\ result = (UNION {Expansion(n) : n \in 1..Len(raws)}) \cup Replacements
    /\ phase = "done" => shown = {x \in result : InWindow(x.start, Window) /\ x.end > now}

\* The inductive invariant the properties follow from.
IInv == TypeOK /\ LinesInv /\ ScanInv /\ ReadAsWritten /\ ExpandInv

\* What is shown of an event that keeps to what the parser reads takes place then,
\* and it is shown once: not as an excluded date, not next to its override, not in
\* the wrong week (recurrence.cpp:126-212, override_applier.cpp:14-23).
ShownIsPlanned ==
    phase = "done" =>
        \A x \in shown : Plain(x.raw) =>
            /\ x.start \in Planned(x.raw)
            /\ \A y \in shown : y.raw = x.raw /\ y.start = x.start => y = x

\* Each time such an event takes place in the window it is shown, until it is over,
\* as long as the tries reach that far (recurrence.cpp:135, :186,
\* event_manager.cpp:105-125).
PlannedIsShown ==
    phase = "done" =>
        \A n \in DOMAIN raws : Plain(n) /\ InReach(n) =>
            \A t \in Planned(n) :
                t + (raws[n].end - raws[n].start) > now =>
                    \E x \in shown : x.raw = n /\ x.start = t

\* override_applier.h:14-15 promises that the occurrences an override replaces leave
\* the series, so that there are no duplicates.
NoDuplicates ==
    phase = "done" =>
        \A x \in shown : \A i \in Overrides(x.raw) :
            raws[x.raw].rid = None => x.start # TrueMoment(raws[i].said.rid)
=============================================================================
