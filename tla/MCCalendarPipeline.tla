------------------------- MODULE MCCalendarPipeline -------------------------
(***************************************************************************)
(* Days of four hours and weeks of seven days; the machine is one hour     *)
(* east of UTC.  Three kinds of calendars: lines in any order, to try the  *)
(* scanner; one event with any rule the bounds below allow; a series with  *)
(* an exception or an override.                                            *)
(***************************************************************************)
EXTENDS CalendarPipeline

MCDay        == 8
MCLocal      == 2
MCMonthStart == [m \in 0..1 |-> 9 * m]      \* months of 9 and 10 days
MCNows       == {15 * MCDay + 3, 17 * MCDay - 1}
MCHorizon    == 5 * MCDay + 1

\* moscow is the machine's zone and samara an hour east of it, both in the table;
\* london is in the table with its summer time; half is defined in the calendar with
\* a half hour; bare is defined without a STANDARD part; nobody knows paris.
Zones          == {"moscow", "samara", "london", "half", "bare", "paris"}
MCStaticOffset == [z \in Zones |-> CASE z = "moscow" -> 2 [] z = "samara" -> 4
                                     [] z = "london" -> 2 [] OTHER -> None]
MCZoneOffset   == [z \in Zones |-> CASE z = "moscow" -> 2 [] z = "samara" -> 4
                                     [] z = "london" -> 0 [] z = "half" -> 3
                                     [] z = "bare" -> 2 [] z = "paris" -> -1]
Blocks == <<[tzid |-> "half", standard |-> 1], [tzid |-> "bare", standard |-> None],
            [tzid |-> "half", standard |-> 3]>>

Mark(m)   == [mark |-> m]
Prop(set) == [mark |-> "property", set |-> set]
File(lines) == [zones |-> Blocks, lines |-> lines]
Event(props) == <<Mark("BEGIN:VEVENT")>> \o props \o <<Mark("END:VEVENT")>>

Naive(w, z) == [wall |-> w, form |-> "naive", tzid |-> z]
Utc(w)      == [wall |-> w, form |-> "utc", tzid |-> None]
Date(d)     == [wall |-> d * MCDay, form |-> "date", tzid |-> None]

Later(d, n) == [d EXCEPT !.wall = @ + n]
Times(d)    == Prop([dtstart |-> d, dtend |-> Later(d, 2)])

\* Lines in any order.
Today == Naive(16 * MCDay, None)
Alphabet == {Mark("BEGIN:VEVENT"), Mark("END:VEVENT"), Mark("BEGIN:VALARM"),
             Mark("END:VALARM"),
             Prop([uid |-> "e", dtstart |-> Today, dtend |-> Later(Today, 2), description |-> "event"]),
             Prop([description |-> "alarm",
                   trigger |-> [days |-> 0, hours |-> 1, minutes |-> 0, weeks |-> 0]])}
Broken == {Prop([dtstart |-> Bad]), Prop([trigger |-> Bad])}
Scanned == {File(s) : s \in UNION {[1..n -> Alphabet] : n \in 0..5}}
           \cup {File(Event(<<Prop([uid |-> "e"])>>) \o s \o Event(<<Prop([uid |-> "f"])>>)) :
                    s \in UNION {[1..n -> Alphabet \cup Broken] : n \in 0..3}}

\* One event.
Rule(f, n, u, b, c) == [freq |-> f, interval |-> n, until |-> u, byday |-> b, count |-> c]
Untils == {None, Utc(17 * MCDay - 2), Date(17), Naive(17 * MCDay, None)}
RuleTexts == {None} \cup {Rule("DAILY", n, u, {}, None) : n \in 0..3, u \in Untils}
          \cup {Rule("WEEKLY", n, None, b, None) :
                   n \in 0..2, b \in {{}, {1}, {3}, {2, 5}, {1, 3, 7}}}
          \cup {Rule("WEEKLY", 1, u, {2, 3, 4}, None) : u \in Untils}
          \cup {Rule(f, n, None, {}, None) : f \in {"MONTHLY", "YEARLY"}, n \in 0..1}
          \cup {Rule("DAILY", 1, None, {}, 3), Rule("HOURLY", 2, None, {}, None)}
Walls  == {d * MCDay + s : d \in {1, 3, 7, 9, 13, 15, 17}, s \in {0, 5}}
Starts == {Naive(w, z) : w \in Walls, z \in Zones \cup {None}}
          \cup {Utc(w) : w \in Walls} \cup {Date(d) : d \in {9, 15, 17}}
Single == {File(Event(<<Prop([uid |-> "e", rrule |-> r]), Times(d)>>)) : r \in RuleTexts, d \in Starts}
          \cup {File(Event(<<Prop([uid |-> "e", status |-> s]), t>>)) :
                   s \in {"CANCELED", "CANCELLED", "CONFIRMED"},
                   t \in {Times(Today), Prop([dtstart |-> Today])}}

\* A series with exceptions: an occurrence excluded, moved, or canceled.
Exceptional == {Naive(w, z) : w \in {15 * MCDay + 4, 16 * MCDay + 4, 17 * MCDay + 4},
                              z \in {None, "moscow", "samara"}}
               \cup {Utc(16 * MCDay + 2), Date(16)}
Series == {Times(Naive(13 * MCDay + 4, z)) : z \in {None, "moscow"}} \cup {Times(Utc(13 * MCDay + 2))}
Daily1 == Prop([uid |-> "e", rrule |-> Rule("DAILY", 1, None, {}, None)])
Moved  == {Prop([uid |-> "e", rid |-> d, status |-> s]) :
              d \in Exceptional, s \in {"CONFIRMED", "CANCELED", "CANCELLED"}}
Excepted ==
    {File(Event(<<Daily1, t, Prop([exdate |-> {d, e}])>>)) : t \in Series, d \in Exceptional, e \in Exceptional}
    \cup {File(Event(<<Daily1, t>>) \o Event(<<o, Times(Naive(16 * MCDay + 6, None))>>)) :
             t \in Series, o \in Moved}

MCCalendars == Scanned \cup Single \cup Excepted
=============================================================================
