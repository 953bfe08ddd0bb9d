----------------------- MODULE CalendarPipeline_proofs -----------------------
(***************************************************************************)
(* Theorems about CalendarPipeline, for any calendars, zones, clocks and   *)
(* numbers of tries.                                                       *)
(***************************************************************************)
EXTENDS CalendarPipeline, Recurrence_proofs, FiniteSetTheorems

\* Appending to a sequence of anything.
LEMMA AppendToSeq ==
  ASSUME NEW s, s \in Seq(ToSet(s)), NEW x
  PROVE  /\ Append(s, x) \in Seq(ToSet(Append(s, x)))
         /\ Len(s) \in Nat /\ DOMAIN s = 1..Len(s)
         /\ Len(Append(s, x)) = Len(s) + 1 /\ DOMAIN Append(s, x) = 1..(Len(s) + 1)
         /\ Append(s, x)[Len(s) + 1] = x
         /\ \A i \in 1..Len(s) : Append(s, x)[i] = s[i]
<1> DEFINE S == ToSet(s) \cup {x}
           t == Append(s, x)
<1>1. s \in Seq(S) /\ x \in S
  OBVIOUS
<1> HIDE DEF S
<1>2. /\ Len(s) \in Nat /\ DOMAIN s = 1..Len(s)
      /\ t \in Seq(S) /\ Len(t) = Len(s) + 1 /\ DOMAIN t = 1..(Len(s) + 1)
      /\ t[Len(s) + 1] = x /\ \A i \in 1..Len(s) : t[i] = s[i]
  BY <1>1
<1> HIDE DEF t
<1>3. t \in Seq(ToSet(t))
  <2>1. t = [i \in 1..Len(t) |-> t[i]] /\ Len(t) \in Nat
    BY <1>2
  <2>2. \A i \in 1..Len(t) : t[i] \in ToSet(t)
    BY <1>2 DEF ToSet
  <2> QED BY <2>1, <2>2
<1> QED BY <1>2, <1>3 DEF t

-----------------------------------------------------------------------------
(* The loop over the lines of an event                                     *)

\* What the lines of s have said by line n.
Saying(s) == CHOOSE said : said =
                [n \in 0..Len(s) |-> IF n = 0 THEN Blank ELSE Assign(said[n - 1], s[n])]

\* The recursion is well-founded: the loop has a value after each line.
LEMMA SayingIs ==
  ASSUME NEW s, Len(s) \in Nat
  PROVE  /\ Said(s) = Saying(s)[Len(s)]
         /\ Saying(s)[0] = Blank
         /\ \A n \in 1..Len(s) : Saying(s)[n] = Assign(Saying(s)[n - 1], s[n])
<1> DEFINE Is(g, N) == g = [n \in 0..N |-> IF n = 0 THEN Blank ELSE Assign(g[n - 1], s[n])]
           Fine == {N \in Nat : \E g : Is(g, N)}
<1>1. 0 \in Fine
  <2>1. Is([n \in 0..0 |-> Blank], 0)
    OBVIOUS
  <2> QED BY <2>1
<1>2. ASSUME NEW N \in Nat, N \in Fine PROVE N + 1 \in Fine
  <2>1. PICK g : Is(g, N)
    BY <1>2
  <2> DEFINE h == [n \in 0..(N + 1) |-> IF n = N + 1 THEN Assign(g[N], s[n]) ELSE g[n]]
  <2>2. ASSUME NEW n \in 0..(N + 1)
        PROVE  h[n] = IF n = 0 THEN Blank ELSE Assign(h[n - 1], s[n])
    <3>1. CASE n = N + 1
      <4>1. N \in 0..(N + 1) /\ N # N + 1 /\ n - 1 = N /\ n # 0
        BY <3>1
      <4>2. h[N] = g[N]
        BY <4>1
      <4> QED BY <3>1, <4>1, <4>2
    <3>2. CASE n # N + 1
      <4>1. n \in 0..N
        BY <3>2
      <4>2. h[n] = g[n]
        BY <3>2
      <4>3. n # 0 => n - 1 \in 0..N /\ n - 1 # N + 1 /\ h[n - 1] = g[n - 1]
        BY <4>1
      <4> HIDE DEF h
      <4>4. g[n] = IF n = 0 THEN Blank ELSE Assign(g[n - 1], s[n])
        BY <2>1, <4>1
      <4> QED BY <4>2, <4>3, <4>4
    <3> QED BY <3>1, <3>2
  <2>3. h = [n \in 0..(N + 1) |-> h[n]]
    OBVIOUS
  <2> HIDE DEF h
  <2>4. Is(h, N + 1)
    BY <2>2, <2>3
  <2> QED BY <2>4
<1>3. Nat \subseteq Fine
  <2> HIDE DEF Fine
  <2> QED BY <1>1, <1>2, SetInduction
<1>4. \E g : Is(g, Len(s))
  BY <1>3
<1>5. Is(Saying(s), Len(s))
  BY <1>4 DEF Saying
<1>6. Said(s) = Saying(s)[Len(s)]
  BY DEF Said, Saying
<1>7. \A n \in 0..Len(s) :
        Saying(s)[n] = IF n = 0 THEN Blank ELSE Assign(Saying(s)[n - 1], s[n])
  <2> DEFINE g == Saying(s)
  <2>1. Is(g, Len(s))
    BY <1>5
  <2> HIDE DEF g
  <2> QED BY <2>1 DEF g
<1>8. 0 \in 0..Len(s) /\ \A n \in 1..Len(s) : n \in 0..Len(s) /\ n # 0
  OBVIOUS
<1> QED BY <1>6, <1>7, <1>8

\* A further line changes what was said by what it assigns.
LEMMA SaidAppend ==
  ASSUME NEW s, s \in Seq(ToSet(s)), NEW x
  PROVE  Said(Append(s, x)) = Assign(Said(s), x)
<1> DEFINE t == Append(s, x)
           Same == {n \in Nat : n <= Len(s) => Saying(t)[n] = Saying(s)[n]}
<1>1. /\ Len(s) \in Nat /\ Len(t) = Len(s) + 1 /\ t[Len(s) + 1] = x
      /\ \A i \in 1..Len(s) : t[i] = s[i]
  BY AppendToSeq
<1> HIDE DEF t
<1>2. /\ Said(s) = Saying(s)[Len(s)] /\ Saying(s)[0] = Blank
      /\ \A n \in 1..Len(s) : Saying(s)[n] = Assign(Saying(s)[n - 1], s[n])
  BY <1>1, SayingIs
<1>3. /\ Said(t) = Saying(t)[Len(t)] /\ Saying(t)[0] = Blank
      /\ \A n \in 1..Len(t) : Saying(t)[n] = Assign(Saying(t)[n - 1], t[n])
  <2>1. Len(t) \in Nat
    BY <1>1
  <2> QED BY <2>1, SayingIs
<1>4. 0 \in Same
  BY <1>2, <1>3
<1>5. ASSUME NEW n \in Nat, n \in Same PROVE n + 1 \in Same
  <2>1. CASE n + 1 <= Len(s)
    <3>1. n + 1 \in 1..Len(s) /\ n + 1 \in 1..Len(t) /\ (n + 1) - 1 = n /\ n <= Len(s)
      BY <1>1, <2>1
    <3>2. Saying(s)[n + 1] = Assign(Saying(s)[n], s[n + 1])
      BY <1>2, <3>1
    <3>3. Saying(t)[n + 1] = Assign(Saying(t)[n], t[n + 1])
      BY <1>3, <3>1
    <3>4. Saying(t)[n] = Saying(s)[n] /\ t[n + 1] = s[n + 1]
      BY <1>1, <1>5, <3>1
    <3> QED BY <3>2, <3>3, <3>4
  <2> QED BY <2>1
<1>6. Saying(t)[Len(s)] = Saying(s)[Len(s)]
  <2> HIDE DEF Same
  <2>1. Nat \subseteq Same
    BY <1>4, <1>5, SetInduction
  <2> QED BY <1>1, <2>1 DEF Same
<1>7. Len(t) \in 1..Len(t) /\ Len(t) - 1 = Len(s)
  BY <1>1
<1>8. Said(t) = Assign(Saying(t)[Len(s)], t[Len(t)])
  BY <1>3, <1>7
<1> QED BY <1>1, <1>2, <1>6, <1>8 DEF t

\* A line changes the fields it gives a value, and no others.
LEMMA AssignField ==
  ASSUME NEW a, NEW line, DOMAIN a = DOMAIN Blank
  PROVE  /\ DOMAIN Assign(a, line) = DOMAIN Blank
         /\ \A f \in DOMAIN Blank :
               Assign(a, line)[f] = IF f \notin DOMAIN line.set THEN a[f]
                                    ELSE IF f = "exdate" THEN a[f] \cup line.set[f]
                                    ELSE line.set[f]
BY DEF Assign

LEMMA BlankFields ==
  DOMAIN Blank = {"uid", "status", "dtstart", "dtend", "rrule", "exdate", "rid", "description"}
BY DEF Blank

\* The lines the parser does not throw at.
Harmless(s) ==
    \A i \in DOMAIN s : \A f \in {"dtstart", "dtend", "rrule"} \cap DOMAIN s[i].set :
        s[i].set[f] # Bad

\* Lines of the right kinds that nothing throws at say what Build can take.
LEMMA SaidType ==
  ASSUME NEW s, s \in Seq(ToSet(s)), Harmless(s), \A i \in DOMAIN s : IsSet(s[i].set)
  PROVE  IsSaid(Said(s)) /\ DOMAIN Said(s) = DOMAIN Blank
<1> DEFINE Good == {n \in Nat : n <= Len(s) => /\ IsSaid(Saying(s)[n])
                                               /\ DOMAIN Saying(s)[n] = DOMAIN Blank}
<1>1. Len(s) \in Nat /\ DOMAIN s = 1..Len(s)
  BY AppendToSeq
<1>2. /\ Said(s) = Saying(s)[Len(s)] /\ Saying(s)[0] = Blank
      /\ \A n \in 1..Len(s) : Saying(s)[n] = Assign(Saying(s)[n - 1], s[n])
  BY <1>1, SayingIs
<1>3. 0 \in Good
  BY <1>2 DEF Blank, IsSaid
<1>4. ASSUME NEW n \in Nat, n \in Good PROVE n + 1 \in Good
  <2>1. SUFFICES ASSUME n + 1 <= Len(s)
                 PROVE  IsSaid(Saying(s)[n + 1]) /\ DOMAIN Saying(s)[n + 1] = DOMAIN Blank
    OBVIOUS
  <2> DEFINE a == Saying(s)[n]
             b == Saying(s)[n + 1]
             set == s[n + 1].set
  <2>2. n + 1 \in 1..Len(s) /\ (n + 1) - 1 = n
    BY <1>1, <2>1
  <2>3. IsSaid(a) /\ DOMAIN a = DOMAIN Blank
    BY <1>1, <1>4, <2>1
  <2>4. b = Assign(a, s[n + 1])
    BY <1>2, <2>2
  <2>5. IsSet(set)
    BY <1>1, <2>2
  <2>6. \A f \in {"dtstart", "dtend", "rrule"} \cap DOMAIN set : set[f] # Bad
    BY <1>1, <2>2 DEF Harmless
  <2> HIDE DEF a, b
  <2>7. /\ DOMAIN b = DOMAIN Blank
        /\ \A f \in DOMAIN Blank :
               b[f] = IF f \notin DOMAIN set THEN a[f]
                      ELSE IF f = "exdate" THEN a[f] \cup set[f] ELSE set[f]
    <3> DEFINE line == s[n + 1]
    <3>1. b = Assign(a, line) /\ set = line.set
      BY <2>4
    <3> HIDE DEF line, set
    <3>2. /\ DOMAIN Assign(a, line) = DOMAIN Blank
          /\ \A f \in DOMAIN Blank :
               Assign(a, line)[f] = IF f \notin DOMAIN line.set THEN a[f]
                                    ELSE IF f = "exdate" THEN a[f] \cup line.set[f]
                                    ELSE line.set[f]
      BY <2>3, AssignField
    <3> QED BY <3>1, <3>2
  <2> HIDE DEF set
  <2>8. /\ b["dtstart"] \in Dates \cup {None} /\ b["dtend"] \in Dates \cup {None}
        /\ b["rrule"] \in Rules \cup {None} /\ b["exdate"] \subseteq Dates
        /\ b["rid"] \in Dates \cup {None}
    <3>1. b["dtstart"] \in Dates \cup {None}
      BY <2>3, <2>5, <2>6, <2>7, BlankFields DEF IsSet, IsSaid
    <3>2. b["dtend"] \in Dates \cup {None}
      BY <2>3, <2>5, <2>6, <2>7, BlankFields DEF IsSet, IsSaid
    <3>3. b["rrule"] \in Rules \cup {None}
      BY <2>3, <2>5, <2>6, <2>7, BlankFields DEF IsSet, IsSaid
    <3>4. b["exdate"] \subseteq Dates
      BY <2>3, <2>5, <2>7, BlankFields DEF IsSet, IsSaid
    <3>5. b["rid"] \in Dates \cup {None}
      BY <2>3, <2>5, <2>7, BlankFields DEF IsSet, IsSaid
    <3> QED BY <3>1, <3>2, <3>3, <3>4, <3>5
  <2>9. IsSaid(b)
    BY <2>8 DEF IsSaid
  <2> QED BY <2>7, <2>9 DEF b
<1>5. Len(s) \in Good
  <2> HIDE DEF Good
  <2>1. Nat \subseteq Good
    BY <1>3, <1>4, SetInduction
  <2> QED BY <1>1, <2>1
<1> QED BY <1>1, <1>2, <1>5

-----------------------------------------------------------------------------
(* What is built of it                                                     *)

\* A date in a zone of the tables is a moment, whatever it is taken to be.
LEMMA MomentType ==
  ASSUME IsCalendar(calendar), NEW d \in Dates \cup {None}
  PROVE  Moment(d) \in Int
<1>1. Local \in Int
  BY TimeAssumption
<1>2. CASE d = None
  BY <1>2 DEF Moment
<1>3. CASE d # None /\ d.form = "utc"
  BY <1>3 DEF Moment, Dates
<1>4. CASE d # None /\ d.form = "naive" /\ d.tzid # None
  <2> DEFINE z == d.tzid
             blocks == {i \in DOMAIN calendar.zones : /\ calendar.zones[i].tzid = z
                                                      /\ calendar.zones[i].standard # None}
             last == CHOOSE i \in blocks : \A j \in blocks : j <= i
  <2>1. z \in DOMAIN StaticOffset /\ d.wall \in Int
    BY <1>4 DEF Dates
  <2>2. CASE blocks = {}
    <3>1. OffsetHours(z) = StaticOffset[z]
      BY <2>2 DEF OffsetHours
    <3>2. OffsetHours(z) \in Int \cup {None}
      BY <2>1, <3>1, CalendarAssumption
    <3> QED BY <1>1, <1>4, <2>1, <3>2 DEF Moment
  <2>3. CASE blocks # {}
    <3>1. OffsetHours(z) = ParseTzOffset(calendar.zones[last].standard)
      BY <2>3 DEF OffsetHours
    <3>2. last \in blocks
      <4>1. calendar.zones \in Seq(ToSet(calendar.zones))
        BY DEF IsCalendar
      <4>2. Len(calendar.zones) \in Nat /\ DOMAIN calendar.zones = 1..Len(calendar.zones)
        BY <4>1
      <4>3. blocks \in SUBSET Int /\ Len(calendar.zones) \in Int
            /\ \A i \in blocks : i <= Len(calendar.zones)
        BY <4>2
      <4> HIDE DEF blocks
      <4>4. \E i \in blocks : \A j \in blocks : j <= i
        BY <2>3, <4>3, Greatest
      <4> QED BY <4>4
    <3> DEFINE o == calendar.zones[last].standard
    <3>3. o \in Int
      BY <3>2 DEF IsCalendar
    <3> HIDE DEF o
    <3>4. ParseTzOffset(o) \in Int
      BY <3>3 DEF ParseTzOffset
    <3>5. OffsetHours(z) \in Int
      BY <3>1, <3>4 DEF o
    <3> QED BY <1>1, <1>4, <2>1, <3>5 DEF Moment
  <2> QED BY <2>2, <2>3
<1>5. CASE d # None /\ d.form # "utc" /\ ~(d.form = "naive" /\ d.tzid # None)
  <2>1. Moment(d) = d.wall - Local
    BY <1>5 DEF Moment
  <2> QED BY <1>1, <1>5, <2>1 DEF Dates
<1> QED BY <1>2, <1>3, <1>4, <1>5

\* A rule that can be read is one the expanders know.
LEMMA RuleType ==
  ASSUME NEW x \in Rules
  PROVE  ParseRrule(x) \in RawRules
<1>1. x.until = None \/ x.until \in Dates
  BY DEF Rules
<1>2. x.interval \in Nat /\ x.byday \in SUBSET (1..Week)
  BY DEF Rules
<1> DEFINE freq == IF x.freq \in {"YEARLY", "MONTHLY", "WEEKLY"} THEN x.freq ELSE "DAILY"
           until == IF x.until = None \/ x.until.form = "date" THEN None ELSE x.until.wall
<1>3. freq \in {"YEARLY", "MONTHLY", "WEEKLY", "DAILY"}
  OBVIOUS
<1>4. until \in Int \cup {None}
  BY <1>1 DEF Dates
<1>5. ParseRrule(x) = [freq |-> freq, interval |-> x.interval, until |-> until, byday |-> x.byday]
  BY DEF ParseRrule
<1> HIDE DEF freq, until
<1> QED BY <1>2, <1>3, <1>4, <1>5 DEF RawRules

\* Raw events as the expanders need them.
LEMMA BuildType ==
  ASSUME IsCalendar(calendar), NEW s, IsSaid(s), NEW a, NEW e, e = Build(s, a)
  PROVE  /\ e.start \in Int /\ e.end \in Int /\ e.said = s /\ e.alarms = a
         /\ e.rule \in RawRules \cup {None}
         /\ e.rule = None <=> s.rrule = None
         /\ e.rid = None <=> s.rid = None
<1>1. /\ e.start = Moment(s.dtstart) /\ e.end = Moment(s.dtend) /\ e.said = s /\ e.alarms = a
      /\ e.rule = IF s.rrule = None THEN None ELSE ParseRrule(s.rrule)
      /\ e.rid = IF s.rid = None THEN None ELSE Text(s.rid)
  BY DEF Build
<1>2. e.start \in Int /\ e.end \in Int
  BY <1>1, MomentType DEF IsSaid
<1>3. s.rrule # None => ParseRrule(s.rrule) \in RawRules
  BY RuleType DEF IsSaid
<1>4. s.rid # None => Text(s.rid) \in Texts
  BY DEF IsSaid, Text, Texts, Dates
<1> QED BY <1>1, <1>2, <1>3, <1>4, CalendarAssumption

-----------------------------------------------------------------------------
(* What one line more means for the events of a file                       *)

MarkOf(i) == calendar.lines[i].mark

\* The lines of a calendar are numbered from one on.
LEMMA LinesAre ==
  ASSUME IsCalendar(calendar)
  PROVE  Len(calendar.lines) \in Nat /\ DOMAIN calendar.lines = 1..Len(calendar.lines)
<1>1. calendar.lines \in Seq(ToSet(calendar.lines))
  BY DEF IsCalendar
<1> QED BY <1>1

\* One event is open at a time, and a marker of events opens one or closes it.
LEMMA OpenUnique ==
  ASSUME NEW p \in Nat, NEW b, NEW c, Open(b, p), Open(c, p)
  PROVE  b = c
BY DEF Open

LEMMA OpenStep ==
  ASSUME NEW p \in Nat \ {0}, NEW b
  PROVE  /\ MarkOf(p) = "BEGIN:VEVENT" => (Open(b, p + 1) <=> b = p)
         /\ MarkOf(p) = "END:VEVENT" => ~Open(b, p + 1)
         /\ MarkOf(p) \notin {"BEGIN:VEVENT", "END:VEVENT"} => (Open(b, p + 1) <=> Open(b, p))
<1>1. CASE MarkOf(p) = "BEGIN:VEVENT"
  <2>1. Open(b, p + 1) => b = p
    BY <1>1 DEF Open, MarkOf
  <2>2. b = p => Open(b, p + 1)
    BY <1>1 DEF Open, MarkOf
  <2> QED BY <1>1, <2>1, <2>2
<1>2. CASE MarkOf(p) = "END:VEVENT"
  BY <1>2 DEF Open, MarkOf
<1>3. CASE MarkOf(p) \notin {"BEGIN:VEVENT", "END:VEVENT"}
  <2>1. Open(b, p + 1) => Open(b, p)
    BY <1>3 DEF Open, MarkOf
  <2>2. Open(b, p) => Open(b, p + 1)
    BY <1>3 DEF Open, MarkOf
  <2> QED BY <1>3, <2>1, <2>2
<1> QED BY <1>1, <1>2, <1>3

\* A VEVENT is a stretch of lines that is open until its END.
LEMMA EventIsClosed ==
  ASSUME NEW b \in Nat \ {0}, NEW e \in Nat \ {0}
  PROVE  IsEvent(b, e) <=> Open(b, e) /\ MarkOf(e) = "END:VEVENT"
BY DEF IsEvent, Open, MarkOf

\* Whether a line is one of an alarm's follows from the line before.
LEMMA OfAlarmStep ==
  ASSUME NEW b \in Nat \ {0}, NEW p \in Nat, b < p
  PROVE  /\ MarkOf(p) = "BEGIN:VALARM" => OfAlarm(b, p)
         /\ MarkOf(p) = "END:VALARM" => ~OfAlarm(b, p)
         /\ MarkOf(p) \notin {"BEGIN:VALARM", "END:VALARM"} =>
               (OfAlarm(b, p) <=> OfAlarm(b, p - 1))
<1>1. MarkOf(p) = "BEGIN:VALARM" => OfAlarm(b, p)
  BY DEF OfAlarm, MarkOf
<1>2. MarkOf(p) = "END:VALARM" => ~OfAlarm(b, p)
  BY DEF OfAlarm, MarkOf
<1>3. ASSUME MarkOf(p) \notin {"BEGIN:VALARM", "END:VALARM"}
      PROVE  OfAlarm(b, p) <=> OfAlarm(b, p - 1)
  <2>1. OfAlarm(b, p) => OfAlarm(b, p - 1)
    BY <1>3 DEF OfAlarm, MarkOf
  <2>2. OfAlarm(b, p - 1) => OfAlarm(b, p)
    BY <1>3 DEF OfAlarm, MarkOf
  <2> QED BY <2>1, <2>2
<1> QED BY <1>1, <1>2, <1>3

\* No alarm is open on the line that begins a VEVENT.
LEMMA OfAlarmStart ==
  ASSUME NEW b \in Nat, MarkOf(b) = "BEGIN:VEVENT"
  PROVE  ~OfAlarm(b, b)
BY DEF OfAlarm, MarkOf

\* The lines that give an event its values.
Own(b, e, f) == {i \in b..e : /\ calendar.lines[i].mark = "property" /\ ~OfAlarm(b, i)
                             /\ f \in DOMAIN calendar.lines[i].set}

\* What a field is given depends on the lines that give it a value only;
\* the same lines give it the same value.
LEMMA GivenIs ==
  ASSUME NEW b, NEW e, NEW f
  PROVE  Given(b, e, f) =
           IF Own(b, e, f) = {} THEN Blank[f]
           ELSE IF f = "exdate" THEN UNION {calendar.lines[i].set[f] : i \in Own(b, e, f)}
           ELSE calendar.lines[CHOOSE i \in Own(b, e, f) : \A j \in Own(b, e, f) : j <= i].set[f]
BY DEF Given, Own

LEMMA GivenKept ==
  ASSUME NEW b, NEW e, NEW g, NEW f, Own(b, e, f) = Own(b, g, f)
  PROVE  Given(b, e, f) = Given(b, g, f)
<1> DEFINE Of(own) ==
             IF own = {} THEN Blank[f]
             ELSE IF f = "exdate" THEN UNION {calendar.lines[i].set[f] : i \in own}
             ELSE calendar.lines[CHOOSE i \in own : \A j \in own : j <= i].set[f]
<1>1. Given(b, e, f) = Of(Own(b, e, f)) /\ Given(b, g, f) = Of(Own(b, g, f))
  BY DEF Given, Own
<1> HIDE DEF Of
<1> QED BY <1>1

\* An event whose first line is just read has no values.
LEMMA ValuesStart ==
  ASSUME NEW b \in Nat, MarkOf(b) = "BEGIN:VEVENT"
  PROVE  Values(b, b) = Blank
<1>1. \A f : Own(b, b, f) = {}
  BY DEF Own, MarkOf
<1>2. \A f : Given(b, b, f) = Blank[f]
  BY <1>1, GivenIs
<1>3. Blank = [f \in DOMAIN Blank |-> Blank[f]]
  BY DEF Blank
<1> QED BY <1>2, <1>3 DEF Values

\* A line that is none of the event's own changes nothing.
LEMMA ValuesKept ==
  ASSUME NEW b \in Nat \ {0}, NEW p \in Nat, b < p,
         MarkOf(p) # "property" \/ OfAlarm(b, p)
  PROVE  Values(b, p) = Values(b, p - 1)
<1>1. \A f : Own(b, p, f) = Own(b, p - 1, f)
  BY DEF Own, MarkOf
<1>2. \A f : Given(b, p, f) = Given(b, p - 1, f)
  BY <1>1, GivenKept
<1> QED BY <1>2 DEF Values

\* A line of its own is assigned.
LEMMA ValuesAssigned ==
  ASSUME NEW b \in Nat \ {0}, NEW p \in Nat, b < p,
         MarkOf(p) = "property", ~OfAlarm(b, p)
  PROVE  Values(b, p) = Assign(Values(b, p - 1), calendar.lines[p])
<1> DEFINE line == calendar.lines[p]
           a == Values(b, p - 1)
<1>1. DOMAIN a = DOMAIN Blank /\ \A f \in DOMAIN Blank : a[f] = Given(b, p - 1, f)
  BY DEF Values
<1>2. DOMAIN Values(b, p) = DOMAIN Blank /\ \A f \in DOMAIN Blank : Values(b, p)[f] = Given(b, p, f)
  BY DEF Values
<1>3. ASSUME NEW f \in DOMAIN Blank
      PROVE  Given(b, p, f) = IF f \notin DOMAIN line.set THEN Given(b, p - 1, f)
                              ELSE IF f = "exdate" THEN Given(b, p - 1, f) \cup line.set[f]
                              ELSE line.set[f]
  <2>1. CASE f \notin DOMAIN line.set
    <3>1. Own(b, p, f) = Own(b, p - 1, f)
      BY <2>1 DEF Own
    <3>2. Given(b, p, f) = Given(b, p - 1, f)
      BY <3>1, GivenKept
    <3> QED BY <2>1, <3>2
  <2>2. CASE f \in DOMAIN line.set
    <3>1. Own(b, p, f) = Own(b, p - 1, f) \cup {p}
      BY <2>2 DEF Own, MarkOf
    <3>2. CASE f = "exdate"
      <4>1. Given(b, p, f) = UNION {calendar.lines[i].set[f] : i \in Own(b, p, f)}
        BY <3>1, <3>2, GivenIs
      <4>2. Given(b, p - 1, f) = UNION {calendar.lines[i].set[f] : i \in Own(b, p - 1, f)}
        <5>1. CASE Own(b, p - 1, f) = {}
          <6>1. Given(b, p - 1, f) = Blank[f]
            BY <5>1, GivenIs
          <6>2. Blank[f] = {}
            BY <3>2 DEF Blank
          <6> QED BY <5>1, <6>1, <6>2
        <5>2. CASE Own(b, p - 1, f) # {}
          BY <3>2, <5>2, GivenIs
        <5> QED BY <5>1, <5>2
      <4>3. Given(b, p, f) = Given(b, p - 1, f) \cup line.set[f]
        BY <3>1, <4>1, <4>2
      <4> QED BY <2>2, <3>2, <4>3
    <3>3. CASE f # "exdate"
      <4> DEFINE last == CHOOSE i \in Own(b, p, f) : \A j \in Own(b, p, f) : j <= i
      <4>1. Given(b, p, f) = calendar.lines[last].set[f]
        BY <3>1, <3>3, GivenIs
      <4>2. \A i \in Own(b, p - 1, f) : i \in Int /\ i < p
        BY DEF Own
      <4>3. p \in Own(b, p, f) /\ \A j \in Own(b, p, f) : j <= p
        BY <3>1, <4>2
      <4>4. last \in Own(b, p, f) /\ \A j \in Own(b, p, f) : j <= last
        BY <4>3
      <4>5. last = p
        <5>1. p <= last
          BY <4>3, <4>4
        <5>2. last = p \/ last < p
          BY <3>1, <4>2, <4>4
        <5> HIDE DEF last
        <5>3. last \in Int
          BY <3>1, <4>2, <4>4
        <5> QED BY <5>1, <5>2, <5>3
      <4> QED BY <2>2, <3>3, <4>1, <4>5
    <3> QED BY <3>2, <3>3
  <2> QED BY <2>1, <2>2
<1>4. /\ DOMAIN Assign(a, line) = DOMAIN Blank
      /\ \A f \in DOMAIN Blank :
            Assign(a, line)[f] = IF f \notin DOMAIN line.set THEN a[f]
                                 ELSE IF f = "exdate" THEN a[f] \cup line.set[f]
                                 ELSE line.set[f]
  <2> HIDE DEF a, line
  <2> QED BY <1>1, AssignField
<1>5. \A f \in DOMAIN Blank : Values(b, p)[f] = Assign(a, line)[f]
  <2> HIDE DEF a, line
  <2> QED BY <1>1, <1>2, <1>3, <1>4
<1>6. Values(b, p) = [f \in DOMAIN Blank |-> Values(b, p)[f]]
  BY DEF Values
<1>7. Assign(a, line) = [f \in DOMAIN Blank |-> Assign(a, line)[f]]
  BY <1>1 DEF Assign
<1> QED BY <1>5, <1>6, <1>7

\* The events read by a line are finitely many; an END:VEVENT may add one.
LEMMA ReadToFinite ==
  ASSUME IsCalendar(calendar), NEW p
  PROVE  IsFiniteSet(ReadTo(p)) /\ ReadTo(p) \subseteq Written
<1> DEFINE L == DOMAIN calendar.lines
<1>1. IsFiniteSet(L)
  <2>1. Len(calendar.lines) \in Int /\ L = 1..Len(calendar.lines)
    BY LinesAre
  <2>2. IsFiniteSet(1..Len(calendar.lines))
    BY <2>1, FS_Interval
  <2> QED BY <2>1, <2>2
<1>2. IsFiniteSet(L \X L)
  BY <1>1, FS_Product
<1>3. ReadTo(p) \subseteq L \X L /\ ReadTo(p) \subseteq Written
  BY DEF ReadTo, Written
<1> QED BY <1>2, <1>3, FS_Subset

\* A line adds an event to those that have ended only if it ends one with a UID.
LEMMA ReadToStep ==
  ASSUME IsCalendar(calendar), NEW p \in DOMAIN calendar.lines
  PROVE  /\ MarkOf(p) # "END:VEVENT" => ReadTo(p + 1) = ReadTo(p)
         /\ \A b : MarkOf(p) = "END:VEVENT" /\ Open(b, p) =>
               ReadTo(p + 1) = IF Values(b, p)["uid"] = None THEN ReadTo(p)
                               ELSE ReadTo(p) \cup {<<b, p>>}
         /\ MarkOf(p) = "END:VEVENT" /\ (\A b \in 1..(p - 1) : ~Open(b, p)) =>
               ReadTo(p + 1) = ReadTo(p)
         /\ Place(p) = Cardinality(ReadTo(p + 1))
<1>1. p \in Nat \ {0} /\ DOMAIN calendar.lines \subseteq Nat \ {0}
  BY LinesAre
<1>2. ASSUME NEW be \in Written
      PROVE  /\ be = <<be[1], be[2]>> /\ be[1] \in Nat \ {0} /\ be[2] \in Nat \ {0}
             /\ Open(be[1], be[2]) /\ MarkOf(be[2]) = "END:VEVENT"
             /\ Values(be[1], be[2])["uid"] # None
  <2>1. be = <<be[1], be[2]>> /\ be[1] \in Nat \ {0} /\ be[2] \in Nat \ {0}
    BY <1>1 DEF Written
  <2>2. IsEvent(be[1], be[2]) /\ Given(be[1], be[2], "uid") # None
    BY DEF Written
  <2>3. Values(be[1], be[2])["uid"] = Given(be[1], be[2], "uid")
    BY BlankFields DEF Values
  <2> QED BY <2>1, <2>2, <2>3, EventIsClosed
<1>3. ReadTo(p + 1) = ReadTo(p) \cup {be \in Written : be[2] = p}
  BY <1>1, <1>2 DEF ReadTo
<1>4. MarkOf(p) # "END:VEVENT" => {be \in Written : be[2] = p} = {}
  BY <1>2
<1>5. ASSUME NEW b, MarkOf(p) = "END:VEVENT", Open(b, p)
      PROVE  {be \in Written : be[2] = p} =
                IF Values(b, p)["uid"] = None THEN {} ELSE {<<b, p>>}
  <2>1. \A be \in Written : be[2] = p => be = <<b, p>>
    BY <1>1, <1>2, <1>5, OpenUnique
  <2>2. <<b, p>> \in Written <=> Values(b, p)["uid"] # None
    <3>1. b \in Nat \ {0} /\ b \in DOMAIN calendar.lines
      BY <1>1, <1>5, LinesAre DEF Open
    <3>2. IsEvent(b, p)
      BY <1>1, <1>5, <3>1, EventIsClosed
    <3>3. Values(b, p)["uid"] = Given(b, p, "uid")
      BY BlankFields DEF Values
    <3> QED BY <3>1, <3>2, <3>3 DEF Written
  <2> QED BY <2>1, <2>2
<1>6. MarkOf(p) = "END:VEVENT" /\ (\A b \in 1..(p - 1) : ~Open(b, p)) =>
        {be \in Written : be[2] = p} = {}
  BY <1>1, <1>2 DEF Open
<1>7. {be \in Written : be[2] <= p} = ReadTo(p + 1)
  BY <1>1, <1>2 DEF ReadTo
<1> QED BY <1>3, <1>4, <1>5, <1>6, <1>7 DEF Place

\* All this depends on the calendar alone, which stays.
LEMMA InputKept ==
  ASSUME UNCHANGED input
  PROVE  /\ calendar' = calendar /\ now' = now /\ fromDayStart' = fromDayStart
         /\ IsCalendar(calendar)' <=> IsCalendar(calendar)
         /\ \A b, p : Open(b, p)' <=> Open(b, p)
         /\ \A b, i : OfAlarm(b, i)' <=> OfAlarm(b, i)
         /\ \A b, e : Values(b, e)' = Values(b, e)
         /\ Written' = Written
         /\ \A p : ReadTo(p)' = ReadTo(p)
         /\ \A e : Place(e)' = Place(e)
         /\ \A s, a : Build(s, a)' = Build(s, a)
         /\ Window' = Window
<1>1. calendar' = calendar /\ now' = now /\ fromDayStart' = fromDayStart
  BY DEF input
<1>2. IsCalendar(calendar)' <=> IsCalendar(calendar)
  BY <1>1
<1>3. \A b, p : Open(b, p)' <=> Open(b, p)
  BY <1>1 DEF Open
<1>4. \A b, i : OfAlarm(b, i)' <=> OfAlarm(b, i)
  BY <1>1 DEF OfAlarm
<1>5. \A b, e : Values(b, e)' = Values(b, e)
  BY <1>1 DEF Values, Given, OfAlarm
<1>6. Written' = Written
  BY <1>1 DEF Written, IsEvent, Given, OfAlarm
<1>7. (\A p : ReadTo(p)' = ReadTo(p)) /\ (\A e : Place(e)' = Place(e))
  BY <1>6 DEF ReadTo, Place
<1>8. \A s, a : Build(s, a)' = Build(s, a)
  BY <1>1 DEF Build, Moment, OffsetHours
<1>9. Window' = Window
  BY <1>1 DEF Window
<1> QED BY <1>1, <1>2, <1>3, <1>4, <1>5, <1>6, <1>7, <1>8, <1>9

-----------------------------------------------------------------------------
(* Types                                                                   *)

\* What a raw event is, by LinesInv.
LEMMA RawType ==
  ASSUME LinesInv, NEW n \in DOMAIN raws
  PROVE  /\ IsSaid(raws[n].said) /\ raws[n] = Build(raws[n].said, raws[n].alarms)
         /\ raws[n].start \in Int /\ raws[n].end \in Int
         /\ raws[n].rule \in RawRules \cup {None}
         /\ raws[n].rule = None <=> raws[n].said.rrule = None
         /\ raws[n].rid = None <=> raws[n].said.rid = None
<1>1. IsSaid(raws[n].said) /\ raws[n] = Build(raws[n].said, raws[n].alarms) /\ IsCalendar(calendar)
  BY DEF LinesInv
<1> QED BY <1>1, BuildType

\* The raw events are numbered from one on.
LEMMA RawsAre ==
  ASSUME LinesInv
  PROVE  Len(raws) \in Nat /\ DOMAIN raws = 1..Len(raws)
<1>1. raws \in Seq(ToSet(raws))
  BY DEF LinesInv
<1> QED BY <1>1

\* A raw event with a rule is what the expanders take.
LEMMA RawIsSeries ==
  ASSUME LinesInv, NEW n \in DOMAIN raws, raws[n].rule # None
  PROVE  /\ IsSeries(raws[n])
         /\ raws[n].rule.freq \in {"DAILY", "WEEKLY", "MONTHLY", "YEARLY"}
<1>1. raws[n].start \in Int /\ raws[n].rule \in RawRules
  BY RawType
<1> QED BY <1>1 DEF IsSeries, RawRules

\* The entries of a raw event.
LEMMA EntryType ==
  ASSUME LinesInv, NEW n \in DOMAIN raws, NEW x \in Expansion(n) \cup Once(n)
  PROVE  x.raw = n /\ x.start \in Int /\ x.end = x.start + (raws[n].end - raws[n].start) /\ x.end \in Int
<1>1. raws[n].start \in Int /\ raws[n].end \in Int
  BY RawType
<1>2. ASSUME NEW R, \A r \in R : r.start \in Int, x \in Entries(n, R)
      PROVE  x.raw = n /\ x.start \in Int /\ x.end = x.start + (raws[n].end - raws[n].start) /\ x.end \in Int
  <2>1. PICK r \in R : x = [raw |-> n, try |-> r.try, start |-> r.start,
                            end |-> r.start + (raws[n].end - raws[n].start)]
    BY <1>2 DEF Entries
  <2>2. x.raw = n /\ x.start = r.start /\ x.end = r.start + (raws[n].end - raws[n].start)
    BY <2>1
  <2> QED BY <1>1, <1>2, <2>2
<1>3. CASE x \in Once(n)
  <2> DEFINE R == {[try |-> 0, start |-> raws[n].start]}
  <2>1. \A r \in R : r.start \in Int
    BY <1>1
  <2>2. x \in Entries(n, R)
    BY <1>3 DEF Once
  <2> HIDE DEF R
  <2> QED BY <1>2, <2>1, <2>2
<1>4. CASE x \notin Once(n)
  <2> DEFINE e == raws[n]
             R == {r \in Expand(e, Window) : ~IsOverridden(e.uid, r.start)}
  <2>1. e.rule # None /\ x \in Entries(n, R)
    BY <1>4 DEF Expansion
  <2>2. \A r \in R : r.start \in Int
    <3>1. IsSeries(e) /\ e.rule.freq \in {"DAILY", "WEEKLY", "MONTHLY", "YEARLY"}
      BY <2>1, RawIsSeries
    <3> HIDE DEF e
    <3> QED BY <3>1, ExpandType
  <2> HIDE DEF R
  <2> QED BY <1>2, <2>1, <2>2
<1> QED BY <1>3, <1>4

\* The initial states satisfy the inductive invariant.
LEMMA InitIInv == Init => IInv
<1> SUFFICES ASSUME Init PROVE IInv
  OBVIOUS
<1>1. IsCalendar(calendar)
  BY CalendarAssumption DEF Init
<1>2. Len(calendar.lines) \in Nat
  BY <1>1, LinesAre
<1>3. TypeOK
  <2>1. inEvent \in BOOLEAN /\ inAlarm \in BOOLEAN /\ (inAlarm => inEvent)
    BY Zenon DEF Init
  <2>2. now \in Nows /\ fromDayStart \in BOOLEAN /\ pos \in 1..(Len(calendar.lines) + 1)
    BY <1>2 DEF Init
  <2>3. todo \in 0..Len(raws) /\ result = {} /\ shown = {} /\ phase = "scan"
    BY DEF Init
  <2>4. ~(eventLines # <<>> \/ alarmLines # <<>>)
    BY DEF Init
  <2> QED BY <2>1, <2>2, <2>3, <2>4, Zenon DEF TypeOK
<1>4. LinesInv
  <2>1. raws \in Seq(ToSet(raws)) /\ eventLines \in Seq(ToSet(calendar.lines))
    BY DEF Init
  <2>2. DOMAIN raws = {} /\ DOMAIN eventLines = {}
    BY DEF Init
  <2> QED BY <1>1, <2>1, <2>2 DEF LinesInv
<1>5. ScanInv
  <2>1. pos = 1 /\ inEvent = FALSE /\ Len(raws) = 0
    BY DEF Init
  <2>2. 1..(pos - 1) = {}
    BY <2>1
  <2>3. ReadTo(pos) = {}
    BY <1>1, <2>1, LinesAre DEF ReadTo, Written
  <2>4. Cardinality(ReadTo(pos)) = 0
    BY <2>3, FS_EmptySet
  <2> QED BY <2>1, <2>2, <2>3, <2>4 DEF ScanInv
<1>6. ReadAsWritten /\ ExpandInv
  BY DEF Init, ReadAsWritten, ExpandInv
<1> QED BY <1>3, <1>4, <1>5, <1>6 DEF IInv

\* Where the scanner is: a line of the calendar.
LEMMA AtLine ==
  ASSUME IsCalendar(calendar), TypeOK, NEW m, At(m)
  PROVE  /\ pos \in DOMAIN calendar.lines /\ MarkOf(pos) = m /\ pos' = pos + 1
         /\ pos' \in 1..(Len(calendar.lines) + 1) /\ pos \in Nat \ {0}
         /\ phase = "scan" /\ UNCHANGED <<input, todo, result, shown>>
BY LinesAre DEF At, TypeOK, MarkOf

\* Every step keeps the types.
LEMMA StepType == IInv /\ [Next]_vars => TypeOK'
<1> SUFFICES ASSUME IInv, [Next]_vars PROVE TypeOK'
  OBVIOUS
<1> USE DEF IInv
<1>1. IsCalendar(calendar)
  BY DEF LinesInv
<1>2. Len(raws) \in Nat /\ DOMAIN raws = 1..Len(raws) /\ Len(calendar.lines) \in Nat
  BY <1>1, RawsAre, LinesAre
<1>3. CASE Scan /\ phase = "scan" /\ ~EndOfFile
  <2>1. PICK m : At(m)
    BY <1>3 DEF Scan, BeginEvent, EndEvent, BeginAlarm, EndAlarm, Property
  <2>2. /\ UNCHANGED <<input, todo, result, shown>> /\ pos' \in 1..(Len(calendar.lines) + 1)
    BY <1>1, <2>1, AtLine
  <2>3. todo = 0 /\ result = {} /\ shown = {}
    BY <1>3 DEF ExpandInv, TypeOK
  <2>4. Len(raws') \in Nat /\ phase' \in {"scan", "thrown"}
    <3>1. CASE EndEvent
      <4>1. Len(Append(raws, Build(Said(eventLines), Alarms(alarmLines)))) = Len(raws) + 1
        BY AppendToSeq DEF LinesInv
      <4> QED BY <1>2, <1>3, <3>1, <4>1 DEF EndEvent
    <3>2. CASE ~EndEvent
      BY <1>2, <1>3, <3>2 DEF Scan, BeginEvent, BeginAlarm, EndAlarm, Property
    <3> QED BY <3>1, <3>2
  <2>5. /\ inEvent' \in BOOLEAN /\ inAlarm' \in BOOLEAN /\ (inAlarm' => inEvent')
        /\ (eventLines' # <<>> \/ alarmLines' # <<>> => inEvent')
    <3>1. CASE BeginEvent
      BY <3>1 DEF BeginEvent
    <3>2. CASE EndEvent
      BY <3>2 DEF EndEvent
    <3>3. CASE BeginAlarm
      BY <3>3, Zenon DEF BeginAlarm, TypeOK
    <3>4. CASE EndAlarm
      BY <3>4, Zenon DEF EndAlarm, TypeOK
    <3>5. CASE Property
      BY <3>5, Zenon DEF Property, TypeOK
    <3> QED BY <1>3, <3>1, <3>2, <3>3, <3>4, <3>5 DEF Scan
  <2>6. now' \in Nows /\ fromDayStart' \in BOOLEAN /\ calendar' = calendar
    BY <2>2, InputKept DEF TypeOK
  <2>7. todo' \in 0..Len(raws') /\ result' = {} /\ shown' = {}
    BY <2>2, <2>3, <2>4
  <2> QED BY <2>2, <2>4, <2>5, <2>6, <2>7 DEF TypeOK
<1>4. CASE EndOfFile
  <2>1. UNCHANGED <<input, scanner, result, shown>> /\ phase = "scan" /\ phase' = "expand" /\ todo' = Len(raws)
    BY <1>4 DEF EndOfFile
  <2>2. result = {} /\ shown = {}
    BY <2>1 DEF ExpandInv, TypeOK
  <2> QED BY <1>2, <2>1, <2>2 DEF TypeOK, input, scanner
<1>5. CASE ExpandRaw
  <2>1. UNCHANGED <<input, scanner, shown, phase>> /\ todo' = todo - 1 /\ todo > 0
        /\ result' = result \cup Expansion(Current) /\ phase = "expand"
    BY <1>5 DEF ExpandRaw
  <2>2. todo \in 0..Len(raws) /\ Current \in DOMAIN raws /\ Current = Len(raws) - todo'
        /\ todo' \in 0..Len(raws)
    BY <1>2, <2>1 DEF TypeOK, Current
  <2>3. \A x \in Expansion(Current) : x.raw = Current /\ x.start \in Int /\ x.end \in Int
    BY <2>2, EntryType
  <2>4. \A x \in result' : x.raw \in 1..(Len(raws) - todo') /\ x.start \in Int /\ x.end \in Int
    BY <1>2, <2>1, <2>2, <2>3 DEF TypeOK
  <2>5. shown' \subseteq result' /\ (shown' # {} => phase' = "done")
    BY <2>1 DEF TypeOK
  <2> QED BY <2>1, <2>2, <2>4, <2>5 DEF TypeOK, input, scanner
<1>6. CASE AddOverrides
  <2>1. UNCHANGED <<input, scanner, todo, shown>> /\ todo = 0 /\ phase' = "select"
        /\ result' = result \cup Replacements /\ phase = "expand"
    BY <1>6 DEF AddOverrides
  <2>2. \A x \in Replacements : x.raw \in DOMAIN raws /\ x.start \in Int /\ x.end \in Int
    BY EntryType DEF Replacements
  <2>3. \A x \in result' : x.raw \in 1..(Len(raws) - todo') /\ x.start \in Int /\ x.end \in Int
    BY <1>2, <2>1, <2>2 DEF TypeOK
  <2>4. shown = {}
    BY <2>1 DEF TypeOK
  <2>5. shown' \subseteq result' /\ (shown' # {} => phase' = "done")
    BY <2>1, <2>4
  <2> QED BY <2>1, <2>3, <2>5 DEF TypeOK, input, scanner
<1>7. CASE Select
  <2>1. UNCHANGED <<input, scanner, todo, result>> /\ phase' = "done" /\ shown' \subseteq result
    BY <1>7 DEF Select
  <2> QED BY <2>1 DEF TypeOK, input, scanner
<1>8. CASE UNCHANGED vars
  BY <1>8 DEF vars, TypeOK, input, scanner
<1>9. Scan => EndOfFile \/ (Scan /\ phase = "scan" /\ ~EndOfFile)
  BY DEF Scan, BeginEvent, EndEvent, BeginAlarm, EndAlarm, Property, At
<1> QED BY <1>3, <1>4, <1>5, <1>6, <1>7, <1>8, <1>9 DEF Next

-----------------------------------------------------------------------------
(* The lines collected and the raw events                                  *)

\* A sequence is a sequence of its own elements.
LEMMA SeqOfOwn ==
  ASSUME NEW S, NEW s \in Seq(S)
  PROVE  s \in Seq(ToSet(s))
<1>1. s = [i \in 1..Len(s) |-> s[i]] /\ Len(s) \in Nat /\ DOMAIN s = 1..Len(s)
  OBVIOUS
<1>2. \A i \in 1..Len(s) : s[i] \in ToSet(s)
  BY <1>1 DEF ToSet
<1> QED BY <1>1, <1>2

\* The lines of an event that the parser does not throw at say what can be built.
LEMMA EventSaid ==
  ASSUME LinesInv, ~Throws(eventLines, alarmLines)
  PROVE  IsSaid(Said(eventLines))
<1>1. eventLines \in Seq(ToSet(eventLines))
  BY SeqOfOwn DEF LinesInv
<1>2. Harmless(eventLines)
  <2>1. CASE eventLines = <<>>
    BY <2>1 DEF Harmless
  <2>2. CASE eventLines # <<>>
    BY <2>2 DEF Throws, Harmless
  <2> QED BY <2>1, <2>2
<1>3. ASSUME NEW i \in DOMAIN eventLines PROVE IsSet(eventLines[i].set)
  <2>1. eventLines[i] \in ToSet(calendar.lines) /\ eventLines[i].mark = "property"
    BY DEF LinesInv
  <2>2. PICK k \in DOMAIN calendar.lines : eventLines[i] = calendar.lines[k]
    BY <2>1 DEF ToSet
  <2> QED BY <2>1, <2>2 DEF LinesInv, IsCalendar
<1> QED BY <1>1, <1>2, <1>3, SaidType

\* Every step keeps the kinds of the lines and of the raw events.
LEMMA StepLines == IInv /\ [Next]_vars => LinesInv'
<1> SUFFICES ASSUME IInv, [Next]_vars PROVE LinesInv'
  OBVIOUS
<1>1. LinesInv /\ TypeOK /\ IsCalendar(calendar)
  BY DEF IInv, LinesInv
<1>2. UNCHANGED input
  BY DEF Next, Scan, BeginEvent, EndEvent, BeginAlarm, EndAlarm, Property, EndOfFile, At,
         ExpandRaw, AddOverrides, Select, vars
<1>3. IsCalendar(calendar)' /\ calendar' = calendar /\ \A s, a : Build(s, a)' = Build(s, a)
  BY <1>1, <1>2, InputKept
<1>4. ASSUME UNCHANGED <<eventLines, raws>> PROVE LinesInv'
  BY <1>1, <1>3, <1>4 DEF LinesInv
<1>5. ASSUME eventLines' = <<>>, UNCHANGED raws PROVE LinesInv'
  <2>1. eventLines' \in Seq(ToSet(calendar.lines)) /\ DOMAIN eventLines' = {}
    BY <1>5
  <2> QED BY <1>1, <1>3, <1>5, <2>1 DEF LinesInv
<1>6. CASE EndEvent
  <2>1. CASE raws' = raws
    BY <1>5, <1>6, <2>1 DEF EndEvent
  <2>2. CASE raws' # raws
    <3> DEFINE e == Build(Said(eventLines), Alarms(alarmLines))
    <3>1. ~Throws(eventLines, alarmLines) /\ raws' = Append(raws, e) /\ eventLines' = <<>>
      BY <1>6, <2>2 DEF EndEvent
    <3>2. IsSaid(Said(eventLines))
      BY <1>1, <3>1, EventSaid
    <3>3. e.said = Said(eventLines) /\ e.alarms = Alarms(alarmLines)
      BY <1>1, <3>2, BuildType
    <3>4. IsSaid(e.said) /\ e = Build(e.said, e.alarms)
      BY <3>2, <3>3
    <3> HIDE DEF e
    <3>5. raws \in Seq(ToSet(raws))
      BY <1>1 DEF LinesInv
    <3>6. /\ raws' \in Seq(ToSet(raws')) /\ DOMAIN raws = 1..Len(raws) /\ Len(raws) \in Nat
          /\ DOMAIN raws' = 1..(Len(raws) + 1) /\ raws'[Len(raws) + 1] = e
          /\ \A i \in 1..Len(raws) : raws'[i] = raws[i]
      BY <3>1, <3>5, AppendToSeq
    <3>7. \A n \in DOMAIN raws' : IsSaid(raws'[n].said) /\ raws'[n] = Build(raws'[n].said, raws'[n].alarms)
      <4>1. SUFFICES ASSUME NEW n \in DOMAIN raws'
                     PROVE  IsSaid(raws'[n].said) /\ raws'[n] = Build(raws'[n].said, raws'[n].alarms)
        OBVIOUS
      <4>2. CASE n = Len(raws) + 1
        BY <3>4, <3>6, <4>2
      <4>3. CASE n # Len(raws) + 1
        <5>1. n \in DOMAIN raws /\ raws'[n] = raws[n]
          BY <3>6, <4>1, <4>3
        <5> QED BY <1>1, <5>1 DEF LinesInv
      <4> QED BY <4>2, <4>3
    <3>8. eventLines' \in Seq(ToSet(calendar.lines)) /\ DOMAIN eventLines' = {}
      BY <3>1
    <3> QED BY <1>3, <3>6, <3>7, <3>8 DEF LinesInv
  <2> QED BY <2>1, <2>2
<1>7. CASE Property
  <2>1. At("property") /\ UNCHANGED raws
    BY <1>7 DEF Property
  <2>2. pos \in DOMAIN calendar.lines /\ Line.mark = "property"
    BY <1>1, <2>1, AtLine DEF MarkOf, Line
  <2>3. Line \in ToSet(calendar.lines)
    BY <2>2 DEF Line, ToSet
  <2>4. CASE eventLines' = eventLines
    BY <1>4, <2>1, <2>4
  <2>5. CASE eventLines' = Append(eventLines, Line)
    <3> DEFINE T == ToSet(calendar.lines)
    <3>1. eventLines \in Seq(T) /\ Line \in T
      BY <1>1, <2>3 DEF LinesInv
    <3> HIDE DEF T
    <3>2. /\ eventLines' \in Seq(T) /\ DOMAIN eventLines' = 1..(Len(eventLines) + 1)
          /\ DOMAIN eventLines = 1..Len(eventLines) /\ Len(eventLines) \in Nat
          /\ eventLines'[Len(eventLines) + 1] = Line
          /\ \A i \in 1..Len(eventLines) : eventLines'[i] = eventLines[i]
      BY <2>5, <3>1
    <3>3. \A i \in DOMAIN eventLines' : eventLines'[i].mark = "property"
      <4>1. SUFFICES ASSUME NEW i \in DOMAIN eventLines' PROVE eventLines'[i].mark = "property"
        OBVIOUS
      <4>2. i = Len(eventLines) + 1 \/ i \in DOMAIN eventLines
        BY <3>2
      <4> QED BY <1>1, <2>2, <3>2, <4>2 DEF LinesInv
    <3> QED BY <1>1, <1>3, <2>1, <3>2, <3>3 DEF LinesInv, T
  <2> QED BY <1>7, <2>4, <2>5 DEF Property
<1>8. CASE BeginEvent
  BY <1>5, <1>8 DEF BeginEvent
<1>9. CASE BeginAlarm \/ EndAlarm \/ EndOfFile \/ ExpandRaw \/ AddOverrides \/ Select \/ UNCHANGED vars
  BY <1>4, <1>9 DEF BeginAlarm, EndAlarm, EndOfFile, ExpandRaw, AddOverrides, Select, vars, scanner
<1> QED BY <1>6, <1>7, <1>8, <1>9 DEF Next, Scan

-----------------------------------------------------------------------------
(* The scanner                                                             *)

\* The lines of an event that ends have been read, and no others of it remain.
LEMMA ScanFrame ==
  ASSUME UNCHANGED input, pos' = pos + 1, pos \in Nat,
         inEvent' <=> \E b \in 1..pos : Open(b, pos + 1),
         \A b \in 1..pos : Open(b, pos + 1) =>
             (inAlarm' <=> OfAlarm(b, pos)) /\ Said(eventLines') = Values(b, pos),
         Len(raws') = Cardinality(ReadTo(pos + 1)),
         \A be \in ReadTo(pos + 1) : raws'[Place(be[2])].said = Values(be[1], be[2])
  PROVE  ScanInv'
<1>1. /\ \A b, p : Open(b, p)' <=> Open(b, p)
      /\ \A b, i : OfAlarm(b, i)' <=> OfAlarm(b, i)
      /\ \A b, e : Values(b, e)' = Values(b, e)
      /\ \A p : ReadTo(p)' = ReadTo(p)
      /\ \A e : Place(e)' = Place(e)
  BY InputKept
<1>2. pos' - 1 = pos
  OBVIOUS
<1>3. (inEvent <=> \E b \in 1..(pos - 1) : Open(b, pos))'
  BY <1>1, <1>2
<1>4. (\A b \in 1..(pos - 1) : Open(b, pos) =>
         /\ inAlarm <=> OfAlarm(b, pos - 1)
         /\ Said(eventLines) = Values(b, pos - 1))'
  BY <1>1, <1>2
<1>5. (Len(raws) = Cardinality(ReadTo(pos)))'
  BY <1>1
<1>6. (\A be \in ReadTo(pos) : raws[Place(be[2])].said = Values(be[1], be[2]))'
  BY <1>1
<1> QED BY <1>3, <1>4, <1>5, <1>6 DEF ScanInv

\* Without lines nothing is said.
LEMMA SaidNothing == Said(<<>>) = Blank
<1>1. Len(<<>>) = 0 /\ Len(<<>>) \in Nat
  OBVIOUS
<1> QED BY <1>1, SayingIs

\* The places of the events that have ended are those of the raw events.
LEMMA PlaceRange ==
  ASSUME IsCalendar(calendar), NEW p \in Nat, NEW be \in ReadTo(p)
  PROVE  Place(be[2]) \in 1..Cardinality(ReadTo(p))
<1> DEFINE S == {x \in Written : x[2] <= be[2]}
<1>1. \A x \in Written : x[2] \in Nat
  BY LinesAre DEF Written
<1>2. be \in Written /\ be[2] < p
  BY DEF ReadTo
<1>3. S \subseteq ReadTo(p) /\ be \in S
  BY <1>1, <1>2 DEF ReadTo
<1>4. IsFiniteSet(ReadTo(p))
  BY ReadToFinite
<1> HIDE DEF S
<1>5. IsFiniteSet(S) /\ Cardinality(S) <= Cardinality(ReadTo(p))
  BY <1>3, <1>4, FS_Subset
<1>6. Cardinality(S) \in Nat /\ Cardinality(S) # 0 /\ Cardinality(ReadTo(p)) \in Nat
  BY <1>3, <1>4, <1>5, FS_CardinalityType, FS_EmptySet
<1> QED BY <1>5, <1>6 DEF Place, S

\* A line that is no END:VEVENT.
LEMMA LineRead ==
  ASSUME IInv, BeginEvent \/ BeginAlarm \/ EndAlarm \/ Property
  PROVE  ScanInv'
<1>1. IsCalendar(calendar) /\ TypeOK /\ ScanInv
  BY DEF IInv, LinesInv
<1>2. PICK m \in {"BEGIN:VEVENT", "BEGIN:VALARM", "END:VALARM", "property"} : At(m)
  BY DEF BeginEvent, BeginAlarm, EndAlarm, Property
<1>3. /\ pos \in DOMAIN calendar.lines /\ MarkOf(pos) = m /\ pos' = pos + 1 /\ pos \in Nat \ {0}
      /\ phase = "scan" /\ UNCHANGED input
  BY <1>1, <1>2, AtLine
<1>4. ReadTo(pos + 1) = ReadTo(pos)
  BY <1>1, <1>2, <1>3, ReadToStep
<1>5. /\ inEvent <=> \E b \in 1..(pos - 1) : Open(b, pos)
      /\ \A b \in 1..(pos - 1) : Open(b, pos) =>
            (inAlarm <=> OfAlarm(b, pos - 1)) /\ Said(eventLines) = Values(b, pos - 1)
      /\ Len(raws) = Cardinality(ReadTo(pos))
      /\ \A be \in ReadTo(pos) : raws[Place(be[2])].said = Values(be[1], be[2])
  BY <1>1, <1>3 DEF ScanInv
<1>6. raws' = raws
  BY DEF BeginEvent, BeginAlarm, EndAlarm, Property
<1>7. CASE BeginEvent
  <2>1. MarkOf(pos) = "BEGIN:VEVENT"
    <3>1. At("BEGIN:VEVENT")
      BY <1>7 DEF BeginEvent
    <3> QED BY <1>1, <3>1, AtLine
  <2>2. inEvent' = TRUE /\ inAlarm' = FALSE /\ eventLines' = <<>>
    BY <1>7 DEF BeginEvent
  <2>3. \A b : Open(b, pos + 1) <=> b = pos
    BY <1>3, <2>1, OpenStep
  <2>4. ~OfAlarm(pos, pos) /\ Values(pos, pos) = Blank
    BY <1>3, <2>1, OfAlarmStart, ValuesStart
  <2>5. inEvent' <=> \E b \in 1..pos : Open(b, pos + 1)
    BY <1>3, <2>2, <2>3
  <2>6. \A b \in 1..pos : Open(b, pos + 1) =>
           (inAlarm' <=> OfAlarm(b, pos)) /\ Said(eventLines') = Values(b, pos)
    BY <2>2, <2>3, <2>4, SaidNothing
  <2> QED BY <1>3, <1>4, <1>5, <1>6, <2>5, <2>6, ScanFrame
<1>8. CASE ~BeginEvent
  <2>1. MarkOf(pos) \in {"BEGIN:VALARM", "END:VALARM", "property"}
    <3>1. At("BEGIN:VALARM") \/ At("END:VALARM") \/ At("property")
      BY <1>8 DEF BeginAlarm, EndAlarm, Property
    <3> QED BY <1>1, <3>1, AtLine
  <2>2. \A b : Open(b, pos + 1) <=> Open(b, pos)
    BY <1>3, <2>1, OpenStep
  <2>3. \A b : Open(b, pos) => b \in 1..(pos - 1) /\ b \in Nat \ {0} /\ b < pos
    BY <1>3 DEF Open
  <2>4. inEvent' = inEvent
    BY <1>8 DEF BeginAlarm, EndAlarm, Property
  <2>5. inEvent' <=> \E b \in 1..pos : Open(b, pos + 1)
    BY <1>3, <1>5, <2>2, <2>3, <2>4
  <2>6. ASSUME NEW b \in 1..pos, Open(b, pos + 1)
        PROVE  (inAlarm' <=> OfAlarm(b, pos)) /\ Said(eventLines') = Values(b, pos)
    <3>1. /\ Open(b, pos) /\ b \in 1..(pos - 1) /\ b \in Nat \ {0} /\ b < pos /\ inEvent
          /\ (inAlarm <=> OfAlarm(b, pos - 1)) /\ Said(eventLines) = Values(b, pos - 1)
      BY <1>5, <2>2, <2>3, <2>6
    <3>2. /\ MarkOf(pos) = "BEGIN:VALARM" => OfAlarm(b, pos)
          /\ MarkOf(pos) = "END:VALARM" => ~OfAlarm(b, pos)
          /\ MarkOf(pos) = "property" => (OfAlarm(b, pos) <=> OfAlarm(b, pos - 1))
      BY <1>3, <2>1, <3>1, OfAlarmStep
    <3>3. CASE BeginAlarm \/ EndAlarm
      <4>1. (inAlarm' <=> BeginAlarm) /\ eventLines' = eventLines
            /\ (BeginAlarm => MarkOf(pos) = "BEGIN:VALARM")
            /\ (EndAlarm => MarkOf(pos) = "END:VALARM")
        BY <3>1, <3>3 DEF BeginAlarm, EndAlarm, At, MarkOf
      <4>2. Values(b, pos) = Values(b, pos - 1)
        <5>1. MarkOf(pos) # "property"
          BY <3>3, <4>1
        <5> QED BY <1>3, <3>1, <5>1, ValuesKept
      <4>3. ~(BeginAlarm /\ EndAlarm)
        BY <4>1
      <4> QED BY <3>1, <3>2, <3>3, <4>1, <4>2, <4>3
    <3>4. CASE Property
      <4>1. MarkOf(pos) = "property" /\ inAlarm' = inAlarm /\ Line = calendar.lines[pos]
        BY <3>4 DEF Property, At, MarkOf, Line
      <4>2. CASE inAlarm
        <5>1. eventLines' = eventLines
          BY <3>4, <4>2 DEF Property
        <5>2. Values(b, pos) = Values(b, pos - 1)
          BY <1>3, <3>1, <3>2, <4>1, <4>2, ValuesKept
        <5> QED BY <3>1, <3>2, <4>1, <5>1, <5>2
      <4>3. CASE ~inAlarm
        <5>1. eventLines' = Append(eventLines, Line)
          BY <3>1, <3>4, <4>3 DEF Property
        <5>2. eventLines \in Seq(ToSet(eventLines))
          BY SeqOfOwn DEF IInv, LinesInv
        <5>3. Said(eventLines') = Assign(Said(eventLines), Line)
          BY <5>1, <5>2, SaidAppend
        <5>4. Values(b, pos) = Assign(Values(b, pos - 1), Line)
          BY <1>3, <3>1, <3>2, <4>1, <4>3, ValuesAssigned
        <5> QED BY <3>1, <3>2, <4>1, <5>3, <5>4
      <4> QED BY <4>2, <4>3
    <3> QED BY <1>8, <3>3, <3>4
  <2> QED BY <1>3, <1>4, <1>5, <1>6, <2>5, <2>6, ScanFrame
<1> QED BY <1>7, <1>8

\* An END:VEVENT, of an event with a UID, without, or of none.
LEMMA EventRead ==
  ASSUME IInv, EndEvent, phase' = "scan"
  PROVE  ScanInv'
<1>1. IsCalendar(calendar) /\ TypeOK /\ ScanInv /\ LinesInv
  BY DEF IInv, LinesInv
<1>2. /\ pos \in DOMAIN calendar.lines /\ MarkOf(pos) = "END:VEVENT" /\ pos' = pos + 1
      /\ pos \in Nat \ {0} /\ phase = "scan" /\ UNCHANGED input
  <2>1. At("END:VEVENT")
    BY DEF EndEvent
  <2> QED BY <1>1, <2>1, AtLine
<1>3. /\ inEvent <=> \E b \in 1..(pos - 1) : Open(b, pos)
      /\ \A b \in 1..(pos - 1) : Open(b, pos) =>
            (inAlarm <=> OfAlarm(b, pos - 1)) /\ Said(eventLines) = Values(b, pos - 1)
      /\ Len(raws) = Cardinality(ReadTo(pos))
      /\ \A be \in ReadTo(pos) : raws[Place(be[2])].said = Values(be[1], be[2])
  BY <1>1, <1>2 DEF ScanInv
<1> DEFINE e == Build(Said(eventLines), Alarms(alarmLines))
<1>4. /\ inEvent' = FALSE /\ ~Throws(eventLines, alarmLines)
      /\ raws' = IF Said(eventLines).uid = None THEN raws ELSE Append(raws, e)
  BY <1>2 DEF EndEvent
<1>5. \A b : ~Open(b, pos + 1)
  BY <1>2, OpenStep
<1>6. CASE \A b \in 1..(pos - 1) : ~Open(b, pos)
  <2>1. ReadTo(pos + 1) = ReadTo(pos)
    BY <1>1, <1>2, <1>6, ReadToStep
  <2>2. ~inEvent
    BY <1>3, <1>6
  <2>3. eventLines = <<>>
    BY <1>1, <2>2 DEF TypeOK
  <2>4. Said(eventLines).uid = None
    BY <2>3, SaidNothing DEF Blank
  <2>5. raws' = raws
    BY <1>4, <2>4
  <2> QED BY <1>2, <1>3, <1>4, <1>5, <2>1, <2>5, ScanFrame
<1>7. ASSUME NEW b \in 1..(pos - 1), Open(b, pos) PROVE ScanInv'
  <2>1. Said(eventLines) = Values(b, pos) /\ b \in Nat \ {0} /\ b < pos
    <3>1. Said(eventLines) = Values(b, pos - 1) /\ b \in Nat \ {0} /\ b < pos
      BY <1>2, <1>3, <1>7
    <3>2. Values(b, pos) = Values(b, pos - 1)
      BY <1>2, <3>1, ValuesKept
    <3> QED BY <3>1, <3>2
  <2>2. ReadTo(pos + 1) = IF Said(eventLines).uid = None THEN ReadTo(pos)
                          ELSE ReadTo(pos) \cup {<<b, pos>>}
    BY <1>1, <1>2, <1>7, <2>1, ReadToStep
  <2>3. CASE Said(eventLines).uid = None
    BY <1>2, <1>3, <1>4, <1>5, <2>2, <2>3, ScanFrame
  <2>4. CASE Said(eventLines).uid # None
    <3>1. raws' = Append(raws, e) /\ ReadTo(pos + 1) = ReadTo(pos) \cup {<<b, pos>>}
      BY <1>4, <2>2, <2>4
    <3>2. e.said = Said(eventLines)
      BY <1>1, <1>4, EventSaid, BuildType
    <3> HIDE DEF e
    <3>3. /\ Len(raws) \in Nat /\ Len(raws') = Len(raws) + 1 /\ raws'[Len(raws) + 1] = e
          /\ \A i \in 1..Len(raws) : raws'[i] = raws[i]
      BY <1>1, <3>1, AppendToSeq DEF LinesInv
    <3>4. Cardinality(ReadTo(pos + 1)) = Len(raws) + 1
      <4>1. <<b, pos>> \notin ReadTo(pos)
        BY <1>2 DEF ReadTo
      <4>2. IsFiniteSet(ReadTo(pos))
        BY <1>1, ReadToFinite
      <4> QED BY <1>3, <3>1, <4>1, <4>2, FS_AddElement
    <3>5. Place(pos) = Len(raws) + 1
      BY <1>1, <1>2, <3>4, ReadToStep
    <3>6. ASSUME NEW be \in ReadTo(pos + 1)
          PROVE  raws'[Place(be[2])].said = Values(be[1], be[2])
      <4>1. CASE be = <<b, pos>>
        BY <2>1, <3>2, <3>3, <3>5, <4>1
      <4>2. CASE be \in ReadTo(pos)
        <5>1. Place(be[2]) \in 1..Len(raws)
          BY <1>1, <1>2, <1>3, <4>2, PlaceRange
        <5> QED BY <1>3, <3>3, <4>2, <5>1
      <4> QED BY <3>1, <4>1, <4>2
    <3> QED BY <1>2, <1>4, <1>5, <3>3, <3>4, <3>6, ScanFrame
  <2> QED BY <2>3, <2>4
<1> QED BY <1>6, <1>7

\* Every step of the scanner keeps what is known of the lines behind it.
LEMMA StepScanInv == IInv /\ [Next]_vars => ScanInv'
<1> SUFFICES ASSUME IInv, [Next]_vars, phase' = "scan" PROVE ScanInv'
  BY DEF ScanInv
<1>1. CASE UNCHANGED vars
  <2>1. UNCHANGED <<input, scanner, phase>> /\ phase = "scan" /\ ScanInv
    BY <1>1 DEF vars, IInv
  <2>2. UNCHANGED <<pos, inEvent, inAlarm, eventLines, raws>>
    BY <2>1 DEF scanner
  <2> QED BY <2>1, <2>2, InputKept DEF ScanInv
<1>2. CASE Next
  <2>1. BeginEvent \/ EndEvent \/ BeginAlarm \/ EndAlarm \/ Property
    BY <1>2 DEF Next, Scan, EndOfFile, ExpandRaw, AddOverrides, Select
  <2> QED BY <2>1, LineRead, EventRead
<1> QED BY <1>1, <1>2

\* When the file has ended the scanner has read all of it.
LEMMA StepRead == IInv /\ [Next]_vars => ReadAsWritten'
<1> SUFFICES ASSUME IInv, [Next]_vars, phase' \notin {"scan", "thrown"} PROVE ReadAsWritten'
  BY DEF ReadAsWritten
<1>1. IsCalendar(calendar) /\ TypeOK /\ ScanInv /\ ReadAsWritten
  BY DEF IInv, LinesInv
<1>2. CASE phase = "scan"
  <2>1. EndOfFile
    BY <1>2 DEF Next, Scan, BeginEvent, EndEvent, BeginAlarm, EndAlarm, Property,
                ExpandRaw, AddOverrides, Select, vars
  <2>2. UNCHANGED input /\ UNCHANGED raws /\ pos > Len(calendar.lines)
    BY <2>1 DEF EndOfFile, scanner
  <2>3. ReadTo(pos) = Written
    <3>1. pos \in Nat
      BY <1>1, LinesAre DEF TypeOK
    <3>2. \A be \in Written : be[2] \in 1..Len(calendar.lines)
      BY <1>1, LinesAre DEF Written
    <3> QED BY <1>1, <2>2, <3>1, <3>2, LinesAre DEF ReadTo
  <2>4. /\ Len(raws) = Cardinality(Written)
        /\ \A be \in Written : raws[Place(be[2])].said = Values(be[1], be[2])
    BY <1>1, <1>2, <2>3 DEF ScanInv
  <2> QED BY <2>2, <2>4, InputKept DEF ReadAsWritten
<1>3. CASE phase # "scan"
  <2>1. UNCHANGED input /\ UNCHANGED raws /\ phase \notin {"scan", "thrown"}
    BY <1>3 DEF Next, Scan, BeginEvent, EndEvent, BeginAlarm, EndAlarm, Property, EndOfFile,
                At, ExpandRaw, AddOverrides, Select, vars, scanner
  <2>2. /\ Len(raws) = Cardinality(Written)
        /\ \A be \in Written : raws[Place(be[2])].said = Values(be[1], be[2])
    BY <1>1, <2>1 DEF ReadAsWritten
  <2> QED BY <2>1, <2>2, InputKept DEF ReadAsWritten
<1> QED BY <1>2, <1>3

-----------------------------------------------------------------------------
(* The expansion                                                           *)

\* What the raw events give depends on them and on the window alone.
LEMMA ExpansionKept ==
  ASSUME UNCHANGED <<input, raws>>
  PROVE  (\A n : Expansion(n)' = Expansion(n)) /\ Replacements' = Replacements
<1>1. raws' = raws /\ Window' = Window
  BY InputKept
<1>2. \A n, R : Entries(n, R)' = Entries(n, R)
  BY <1>1 DEF Entries
<1>3. \A n : Once(n)' = Once(n)
  BY <1>1, <1>2 DEF Once
<1>4. \A uid, t : IsOverridden(uid, t)' <=> IsOverridden(uid, t)
  BY <1>1 DEF IsOverridden
<1>5. \A n : Expansion(n)' = Expansion(n)
  BY <1>1, <1>2, <1>3, <1>4 DEF Expansion
<1>6. Replacements' = Replacements
  BY <1>1, <1>3 DEF Replacements
<1> QED BY <1>5, <1>6

\* Every step keeps the result to what the raw events gave.
LEMMA StepExpand == IInv /\ [Next]_vars => ExpandInv'
<1> SUFFICES ASSUME IInv, [Next]_vars PROVE ExpandInv'
  OBVIOUS
<1>1. TypeOK /\ LinesInv /\ ExpandInv
  BY DEF IInv
<1>2. Len(raws) \in Nat
  BY <1>1, RawsAre
<1>3. CASE Scan /\ ~EndOfFile
  <2>1. phase = "scan" /\ UNCHANGED <<todo, result>> /\ phase' \in {"scan", "thrown"}
    BY <1>3 DEF Scan, BeginEvent, EndEvent, BeginAlarm, EndAlarm, Property, At
  <2> QED BY <1>1, <2>1 DEF ExpandInv
<1>4. CASE EndOfFile
  <2>1. phase = "scan" /\ UNCHANGED <<raws, result>> /\ phase' = "expand" /\ todo' = Len(raws)
    BY <1>4 DEF EndOfFile, scanner
  <2>2. result' = {} /\ 1..(Len(raws') - todo') = {}
    BY <1>1, <1>2, <2>1 DEF ExpandInv
  <2> QED BY <2>1, <2>2 DEF ExpandInv
<1>5. CASE ExpandRaw
  <2>1. /\ UNCHANGED <<input, raws>> /\ UNCHANGED phase /\ phase = "expand" /\ todo' = todo - 1
        /\ result' = result \cup Expansion(Current) /\ todo > 0
    BY <1>5 DEF ExpandRaw, scanner
  <2>2. result = UNION {Expansion(n) : n \in 1..(Len(raws) - todo)}
    BY <1>1, <2>1 DEF ExpandInv
  <2>3. /\ Current = Len(raws') - todo'
        /\ 1..(Len(raws') - todo') = 1..(Len(raws) - todo) \cup {Current}
    BY <1>1, <1>2, <2>1 DEF TypeOK, Current
  <2>4. \A n : Expansion(n)' = Expansion(n)
    BY <2>1, ExpansionKept
  <2>5. result' = UNION {Expansion(n) : n \in 1..(Len(raws') - todo')}
    BY <2>1, <2>2, <2>3
  <2>6. (result = UNION {Expansion(n) : n \in 1..(Len(raws) - todo)})'
    BY <2>4, <2>5
  <2> QED BY <2>1, <2>6 DEF ExpandInv
<1>6. CASE AddOverrides
  <2>1. /\ UNCHANGED <<input, raws>> /\ UNCHANGED todo /\ phase = "expand" /\ todo = 0
        /\ phase' = "select" /\ result' = result \cup Replacements
    BY <1>6 DEF AddOverrides, scanner
  <2>2. result' = (UNION {Expansion(n) : n \in 1..Len(raws)}) \cup Replacements
    <3> DEFINE all(m) == UNION {Expansion(n) : n \in 1..m}
    <3>1. Len(raws) - todo = Len(raws)
      BY <1>2, <2>1
    <3>2. result = all(Len(raws) - todo)
      BY <1>1, <2>1 DEF ExpandInv
    <3> HIDE DEF all
    <3>3. result' = all(Len(raws)) \cup Replacements
      BY <2>1, <3>1, <3>2
    <3> QED BY <3>3 DEF all
  <2>3. (result = (UNION {Expansion(n) : n \in 1..Len(raws)}) \cup Replacements)'
    BY <2>1, <2>2, ExpansionKept
  <2> QED BY <2>1, <2>3 DEF ExpandInv
<1>7. CASE Select
  <2>1. /\ UNCHANGED <<input, raws>> /\ UNCHANGED <<todo, result>> /\ phase = "select"
        /\ phase' = "done" /\ shown' = {x \in result : InWindow(x.start, Window) /\ x.end > now}
    BY <1>7 DEF Select, scanner
  <2>2. todo = 0 /\ result = (UNION {Expansion(n) : n \in 1..Len(raws)}) \cup Replacements
    BY <1>1, <2>1 DEF ExpandInv
  <2>3. (result = (UNION {Expansion(n) : n \in 1..Len(raws)}) \cup Replacements)'
    BY <2>1, <2>2, ExpansionKept
  <2>4. (shown = {x \in result : InWindow(x.start, Window) /\ x.end > now})'
    <3>1. Window' = Window /\ now' = now
      BY <2>1, InputKept
    <3> QED BY <2>1, <3>1
  <2> QED BY <2>1, <2>2, <2>3, <2>4 DEF ExpandInv
<1>8. CASE UNCHANGED vars
  <2>1. UNCHANGED <<input, raws>> /\ UNCHANGED <<todo, result, shown, phase>>
    BY <1>8 DEF vars, scanner
  <2>2. Window' = Window /\ now' = now /\ raws' = raws
    BY <2>1, InputKept
  <2> QED BY <1>1, <2>1, <2>2, ExpansionKept DEF ExpandInv
<1> QED BY <1>3, <1>4, <1>5, <1>6, <1>7, <1>8 DEF Next

-----------------------------------------------------------------------------
\* At each line the scanner has read what is behind it as it is written, and the result
\* is what the raw events expanded so far give (pipeline.cpp:31-124).
THEOREM Invariance == Spec => []IInv
<1>1. IInv /\ [Next]_vars => IInv'
  BY StepType, StepLines, StepScanInv, StepRead, StepExpand DEF IInv
<1> QED BY InitIInv, <1>1, PTL DEF Spec

\* The scanner's flags, its two lists of lines and the sorted list of results fit
\* together at each line (pipeline.cpp:20-77, 101-140).
THEOREM TypeCorrect == Spec => []TypeOK
<1>1. IInv => TypeOK
  BY DEF IInv
<1> QED BY Invariance, <1>1, PTL

\* Whatever lines surround it, in whatever order, a complete VEVENT with a UID is
\* read as it is written, once and in its place, and nothing else is read
\* (pipeline.cpp:20-77, event_builder.cpp:101-183).
THEOREM ReadCorrect == Spec => []ReadAsWritten
<1>1. IInv => ReadAsWritten
  BY DEF IInv
<1> QED BY Invariance, <1>1, PTL

-----------------------------------------------------------------------------
(* What the text of the parser means                                       *)

\* A date has a moment.
LEMMA TrueType ==
  ASSUME NEW d \in Dates
  PROVE  /\ d.wall \in Int /\ d.form \in Forms /\ TrueOffset(d) \in Int
         /\ TrueMoment(d) = d.wall - TrueOffset(d) /\ TrueMoment(d) \in Int
<1>1. d.wall \in Int /\ d.form \in Forms /\ d.tzid \in DOMAIN StaticOffset \cup {None}
  BY DEF Dates
<1>2. TrueOffset(d) \in Int
  <2>1. CASE d.form = "utc"
    BY <2>1 DEF TrueOffset
  <2>2. CASE d.form # "utc" /\ (d.form = "date" \/ d.tzid = None)
    BY <2>2, TimeAssumption DEF TrueOffset
  <2>3. CASE d.form # "utc" /\ d.form # "date" /\ d.tzid # None
    <3>1. TrueOffset(d) = ZoneOffset[d.tzid]
      BY <2>3 DEF TrueOffset
    <3> QED BY <1>1, <2>3, <3>1, CalendarAssumption
  <2> QED BY <2>1, <2>2, <2>3
<1> QED BY <1>1, <1>2 DEF TrueMoment

\* The text of a date in local time is that of the moment it means.
LEMMA LocalText ==
  ASSUME NEW d \in Dates, IsLocal(d), NEW t \in Int
  PROVE  TrueMoment(d) = t <=> Text(d) = FormatLocalDt(t)
<1>1. /\ d.wall \in Int /\ d.form = "naive" /\ TrueMoment(d) = d.wall - Local
      /\ Local \in Int
  BY TrueType, TimeAssumption DEF IsLocal
<1>2. TrueMoment(d) = t <=> d.wall = t + Local
  BY <1>1
<1>3. Text(d) = FormatLocalDt(t) <=> d.wall = t + Local
  BY <1>1 DEF Text, FormatLocalDt
<1> QED BY <1>2, <1>3

\* A raw event has what was said of it.
LEMMA RawIs ==
  ASSUME LinesInv, NEW n \in DOMAIN raws
  PROVE  /\ raws[n].canceled <=> raws[n].said.status = "CANCELED"
         /\ raws[n].rule = IF raws[n].said.rrule = None THEN None ELSE ParseRrule(raws[n].said.rrule)
         /\ raws[n].exdates = {Text(d) : d \in raws[n].said.exdate}
         /\ raws[n].rid = IF raws[n].said.rid = None THEN None ELSE Text(raws[n].said.rid)
<1> DEFINE s == raws[n].said
           a == raws[n].alarms
<1>1. raws[n] = Build(s, a)
  BY RawType
<1> HIDE DEF s, a
<1>2. /\ Build(s, a).canceled = (s.status = "CANCELED")
      /\ Build(s, a).rule = IF s.rrule = None THEN None ELSE ParseRrule(s.rrule)
      /\ Build(s, a).exdates = {Text(d) : d \in s.exdate}
      /\ Build(s, a).rid = IF s.rid = None THEN None ELSE Text(s.rid)
  BY DEF Build
<1> QED BY <1>1, <1>2 DEF s

\* The exceptions of an event that writes them in local time are found by their text.
LEMMA ExceptionsFound ==
  ASSUME LinesInv, NEW n \in DOMAIN raws, PlainDates(n), NEW t \in Int
  PROVE  /\ IsExcluded(t, raws[n].exdates) <=> \E d \in raws[n].said.exdate : TrueMoment(d) = t
         /\ IsOverridden(raws[n].uid, t) <=>
               \E i \in Overrides(n) : TrueMoment(raws[i].said.rid) = t
<1>1. IsExcluded(t, raws[n].exdates) <=> \E d \in raws[n].said.exdate : TrueMoment(d) = t
  <2>1. raws[n].exdates = {Text(d) : d \in raws[n].said.exdate}
    BY RawIs
  <2>2. ASSUME NEW d \in raws[n].said.exdate
        PROVE  TrueMoment(d) = t <=> Text(d) = FormatLocalDt(t)
    <3>1. d \in Dates /\ IsLocal(d)
      BY RawType DEF IsSaid, PlainDates
    <3> QED BY <3>1, LocalText
  <2>3. IsExcluded(t, raws[n].exdates) <=> FormatLocalDt(t) \in raws[n].exdates
    BY DEF IsExcluded
  <2> QED BY <2>1, <2>2, <2>3
<1>2. ASSUME NEW i \in Overrides(n)
      PROVE  /\ i \in DOMAIN raws /\ raws[i].uid = raws[n].uid /\ raws[i].rid # None
             /\ TrueMoment(raws[i].said.rid) = t <=> raws[i].rid = FormatLocalDt(t)
  <2>1. i \in DOMAIN raws /\ raws[i].uid = raws[n].uid /\ raws[i].said.rid # None
    BY DEF Overrides
  <2>2. raws[i].rid # None /\ raws[i].rid = Text(raws[i].said.rid)
    BY <2>1, RawIs, RawType
  <2>3. raws[i].said.rid \in Dates
    BY <2>1, RawType DEF IsSaid
  <2>4. IsLocal(raws[i].said.rid)
    BY DEF PlainDates
  <2> QED BY <2>1, <2>2, <2>3, <2>4, LocalText
<1>3. ASSUME NEW i \in DOMAIN raws, raws[i].uid = raws[n].uid, raws[i].rid # None
      PROVE  i \in Overrides(n)
  BY <1>3, RawType DEF Overrides
<1> QED BY <1>1, <1>2, <1>3 DEF IsOverridden

\* The rule of an event that keeps to DAILY and WEEKLY is read as it is written.
LEMMA RuleIs ==
  ASSUME LinesInv, NEW n \in DOMAIN raws, Plain(n), raws[n].rule # None
  PROVE  /\ raws[n].said.rrule # None
         /\ raws[n].rule.freq = raws[n].said.rrule.freq
         /\ raws[n].rule.freq \in {"DAILY", "WEEKLY"}
         /\ raws[n].rule.interval = raws[n].said.rrule.interval
         /\ raws[n].rule.interval \in Nat \ {0}
         /\ raws[n].rule.byday = raws[n].said.rrule.byday
         /\ \A t \in Int : (raws[n].rule.until = None \/ t <= raws[n].rule.until) <=>
               (raws[n].said.rrule.until # None => t <= TrueMoment(raws[n].said.rrule.until))
<1> DEFINE r == raws[n].said.rrule
<1>1. r # None /\ r \in Rules /\ raws[n].rule = ParseRrule(r)
  BY RawType, RawIs DEF IsSaid
<1>2. /\ r.freq \in {"DAILY", "WEEKLY"} /\ r.interval > 0
      /\ r.until # None => r.until.form = "utc"
  BY <1>1 DEF Plain, PlainRule
<1> HIDE DEF r
<1>3. r.interval \in Nat /\ r.until \in Dates \cup {None}
  BY <1>1 DEF Rules
<1>4. /\ ParseRrule(r).freq = r.freq /\ ParseRrule(r).interval = r.interval
      /\ ParseRrule(r).byday = r.byday
      /\ ParseRrule(r).until = IF r.until = None THEN None ELSE r.until.wall
  BY <1>2 DEF ParseRrule
<1>5. ASSUME r.until # None
      PROVE  r.until.wall \in Int /\ r.until.wall # None /\ TrueMoment(r.until) = r.until.wall
  <2>1. r.until.wall \in Int /\ TrueMoment(r.until) = r.until.wall - TrueOffset(r.until)
    BY <1>3, <1>5, TrueType
  <2>2. TrueOffset(r.until) = 0
    BY <1>2, <1>5 DEF TrueOffset
  <2> QED BY <2>1, <2>2, TimeAssumption
<1> QED BY <1>1, <1>2, <1>3, <1>4, <1>5 DEF r

-----------------------------------------------------------------------------
(* What a series means and what the expanders make of it                   *)

\* Whether raw event n, by its rule, takes place k days after it starts.
OnDay(n, k) ==
    /\ raws[n].rule.freq = "DAILY" => k % raws[n].rule.interval = 0
    /\ raws[n].rule.freq = "WEEKLY" => OnRule(raws[n], DayOf(raws[n].said.dtstart.wall), k)

\* A rule's moments, by the days since DTSTART.
LEMMA OccursIs ==
  ASSUME LinesInv, NEW n \in DOMAIN raws, Plain(n), raws[n].rule # None, NEW t \in Int
  PROVE  Occurs(raws[n].said, t) <=>
           /\ \E k \in Nat : t = raws[n].start + Day * k /\ OnDay(n, k)
           /\ raws[n].rule.until = None \/ t <= raws[n].rule.until
           /\ ~IsExcluded(t, raws[n].exdates)
<1> DEFINE e     == raws[n]
           s     == e.said
           r     == s.rrule
           first == s.dtstart.wall
           off   == TrueOffset(s.dtstart)
           days  == IF r.byday = {} THEN {Weekday(first)} ELSE r.byday
           Late  == r.until # None => t <= TrueMoment(r.until)
           Out   == \A d \in s.exdate : TrueMoment(d) # t
           On(w) == /\ w >= first /\ (w - first) % Day = 0
                    /\ r.freq = "DAILY" => ((w - first) \div Day) % r.interval = 0
                    /\ r.freq = "WEEKLY" =>
                         /\ Weekday(w) \in days
                         /\ (DayOf(w) \div Week - DayOf(first) \div Week) % r.interval = 0
<1>1. /\ r # None /\ e.rule.freq = r.freq /\ e.rule.interval = r.interval
      /\ e.rule.byday = r.byday /\ r.interval \in Nat \ {0} /\ r.freq \in {"DAILY", "WEEKLY"}
  BY RuleIs
<1>2. Late <=> e.rule.until = None \/ t <= e.rule.until
  BY RuleIs
<1>3. Out <=> ~IsExcluded(t, e.exdates)
  BY ExceptionsFound DEF Plain
<1>4. Occurs(s, t) <=> On(t + off) /\ Late /\ Out
  BY <1>1 DEF Occurs
<1>5. first \in Int /\ off \in Int /\ e.start \in Int /\ e.start = first - off /\ Day \in Nat \ {0}
  <2>1. s.dtstart \in Dates /\ e.start = TrueMoment(s.dtstart) /\ e.start \in Int
    BY RawType DEF Plain, PlainDates, IsSaid
  <2> QED BY <2>1, TrueType, TimeAssumption
<1>6. ASSUME NEW k \in Int
      PROVE  OnDay(n, k) <=>
               /\ r.freq = "DAILY" => k % r.interval = 0
               /\ r.freq = "WEEKLY" => /\ ((DayOf(first) + k) % Week) + 1 \in days
                                       /\ ((DayOf(first) + k) \div Week - DayOf(first) \div Week)
                                             % r.interval = 0
  <2>1. r.freq = "WEEKLY" => ByDay(e) = days
    BY <1>1 DEF ByDay, Plain, PlainRule
  <2> QED BY <1>1, <2>1 DEF OnDay, OnRule
<1> HIDE DEF e, s, r, first, off, days, Late, Out, On
<1>7. ASSUME NEW k \in Nat
      PROVE  On(first + Day * k) <=> OnDay(n, k)
  <2> DEFINE w == first + Day * k
  <2>1. Day * k \in Nat /\ w \in Int /\ w - first = Day * k /\ w >= first
    BY <1>5
  <2>2. (Day * k) % Day = 0 /\ (Day * k) \div Day = k
    <3>1. (Day * k + 0) % Day = 0 /\ (Day * k + 0) \div Day = k
      BY <1>5, DivUnique
    <3> QED BY <1>5, <3>1
  <2>3. DayOf(w) = DayOf(first) + k
    BY <1>5, DaysLater
  <2>4. Weekday(w) = ((DayOf(first) + k) % Week) + 1
    BY <2>3 DEF Weekday
  <2> HIDE DEF w
  <2>5. On(w) <=> /\ r.freq = "DAILY" => k % r.interval = 0
                  /\ r.freq = "WEEKLY" =>
                        /\ ((DayOf(first) + k) % Week) + 1 \in days
                        /\ ((DayOf(first) + k) \div Week - DayOf(first) \div Week) % r.interval = 0
    BY <2>1, <2>2, <2>3, <2>4 DEF On
  <2> QED BY <1>6, <2>5 DEF w
<1>8. ASSUME On(t + off)
      PROVE  \E k \in Nat : t + off = first + Day * k
  <2> DEFINE w == t + off - first
             k == w \div Day
  <2>1. w \in Int /\ w >= 0 /\ w % Day = 0
    BY <1>5, <1>8 DEF On
  <2> HIDE DEF w
  <2>2. k \in Int /\ w = Day * k
    <3>1. k \in Int /\ w = Day * k + (w % Day)
      BY <1>5, <2>1, DivType, DivMod
    <3> HIDE DEF k
    <3> QED BY <1>5, <2>1, <3>1
  <2> HIDE DEF k
  <2>3. k >= 0
    <3>1. SUFFICES ASSUME k < 0 PROVE FALSE
      BY <2>2
    <3>2. Day * k < Day * 0
      BY <1>5, <2>2, <3>1, TimesStrict
    <3> QED BY <1>5, <2>1, <2>2, <3>2
  <2>4. t + off = first + w
    BY <1>5 DEF w
  <2> QED BY <2>2, <2>3, <2>4
<1>9. \A k \in Nat : t + off = first + Day * k <=> t = e.start + Day * k
  <2>1. \A k \in Nat : Day * k \in Int
    BY <1>5
  <2> QED BY <1>5, <2>1
<1>10. On(t + off) <=> \E k \in Nat : t = e.start + Day * k /\ OnDay(n, k)
  BY <1>7, <1>8, <1>9
<1> QED BY <1>2, <1>3, <1>4, <1>10 DEF e, s

\* The window is one the theorems about the expanders take; it is after the epoch.
LEMMA WindowType ==
  ASSUME now \in Nows
  PROVE  IsWindow(Window) /\ Window.start > 0
<1>1. now \in Int /\ Horizon \in Int /\ Local \in Int /\ Day \in Nat \ {0} /\ now >= Day
  BY ClockAssumption, TimeAssumption
<1> DEFINE q == (now + Local) \div Day
           r == (now + Local) % Day
<1>2. q \in Int /\ r \in Int /\ r < Day /\ now + Local = Day * q + r
  BY <1>1, DivType, ModRange, DivMod
<1>3. Window.deadline = now + Horizon /\ Window.start = IF fromDayStart THEN q * Day - Local ELSE now
  BY DEF Window, ComputeWindow, DayOf
<1> HIDE DEF q, r
<1>4. q * Day = Day * q /\ Day * q \in Int
  BY <1>1, <1>2
<1>5. q * Day - Local \in Int /\ q * Day - Local > 0
  BY <1>1, <1>2, <1>4
<1> QED BY <1>1, <1>3, <1>5 DEF IsWindow

\* A plain weekly rule has its days in one week of RFC 5545.
LEMMA WeeksAreFit ==
  ASSUME LinesInv, NEW n \in DOMAIN raws, Plain(n), raws[n].rule # None,
         raws[n].rule.freq = "WEEKLY"
  PROVE  /\ WeeksFit(raws[n]) /\ DayOf(raws[n].said.dtstart.wall) \in Int
         /\ BaseDow(raws[n]) = (DayOf(raws[n].said.dtstart.wall) % Week) + 1
<1> DEFINE e == raws[n]
           dow == Weekday(e.said.dtstart.wall)
<1>1. /\ e.said.rrule # None /\ e.said.rrule.freq = "WEEKLY"
      /\ e.rule.byday = e.said.rrule.byday /\ e.rule.interval = e.said.rrule.interval
  BY RuleIs
<1>2. BaseDow(e) = dow /\ (e.rule.interval = 1 \/ \A d \in e.rule.byday : d >= dow)
  BY <1>1 DEF Plain, PlainRule
<1>3. e.said.dtstart.wall \in Int
  BY RawType, TrueType DEF Plain, PlainDates, IsSaid
<1>4. DayOf(e.said.dtstart.wall) \in Int
  BY <1>3, DivType, TimeAssumption DEF DayOf
<1>5. WeeksFit(e)
  <2>1. IsSeries(e)
    BY RawIsSeries
  <2> HIDE DEF e, dow
  <2>2. BaseDow(e) \in 1..7
    BY <2>1, BaseDowType DEF Week
  <2> QED BY <1>2, <2>2 DEF WeeksFit, ByDay
<1> QED BY <1>2, <1>4, <1>5 DEF Weekday

\* The expanders give moments of the series that lie in the window, none of them twice.
LEMMA ExpandSound ==
  ASSUME LinesInv, now \in Nows, NEW n \in DOMAIN raws, Plain(n), raws[n].rule # None,
         NEW r \in Expand(raws[n], Window)
  PROVE  /\ r.start \in Int /\ Occurs(raws[n].said, r.start)
         /\ \A x \in Expand(raws[n], Window) : x.start = r.start => x = r
<1> DEFINE e == raws[n]
           D == DayOf(e.said.dtstart.wall)
<1>1. /\ IsSeries(e) /\ e.rule.freq \in {"DAILY", "WEEKLY"} /\ e.rule.interval \in Nat \ {0}
  BY RawIsSeries, RuleIs
<1>2. r.start \in Int
  BY <1>1, ExpandType
<1>3. CASE e.rule.freq = "DAILY"
  <2>1. Expand(e, Window) = Daily(e, Window)
    BY <1>3 DEF Expand
  <2>2. PICK i \in 0..(DailyTries - 1) : r.start = DailyAt(e, i) /\ Kept(e, r.start, Window)
    BY <2>1 DEF Daily
  <2> DEFINE k == i * e.rule.interval
  <2>3. k \in Nat /\ k % e.rule.interval = 0 /\ r.start = e.start + Day * k
    <3>1. i \in Nat
      BY TimeAssumption
    <3> DEFINE m == e.rule.interval
    <3>2. m \in Nat \ {0}
      BY <1>1
    <3> HIDE DEF e, m
    <3>3. i * m \in Nat /\ (i * m) % m = 0
      BY <3>1, <3>2, MultipleMod
    <3> QED BY <2>2, <3>3 DEF DailyAt, m
  <2>4. OnDay(n, k)
    BY <1>3, <2>3 DEF OnDay
  <2> HIDE DEF k, e
  <2>5. Occurs(raws[n].said, r.start)
    BY <1>2, <2>2, <2>3, <2>4, OccursIs DEF Kept, e
  <2>6. \A x \in Daily(e, Window) : x.start = r.start => x = r
    BY <1>1, <2>1, DailyOnce DEF e
  <2> QED BY <1>2, <2>1, <2>5, <2>6 DEF e
<1>4. CASE e.rule.freq = "WEEKLY"
  <2>1. Expand(e, Window) = Weekly(e, Window)
    BY <1>4 DEF Expand
  <2>2. PICK q \in (0..(WeeklyTries - 1)) \X ByDay(e) :
              r.start = WeeklyAt(e, q[1], q[2]) /\ Kept(e, r.start, Window)
    BY <2>1 DEF Weekly
  <2>3. /\ WeeksFit(e) /\ D \in Int /\ BaseDow(e) = (D % Week) + 1
        /\ q[1] \in Nat /\ q[2] \in ByDay(e)
    BY <1>4, WeeksAreFit, TimeAssumption
  <2>4. PICK k \in Nat : r.start = e.start + Day * k /\ OnRule(e, D, k)
    <3> HIDE DEF e, D
    <3> QED BY <1>1, <2>2, <2>3, WeeklySound
  <2>5. OnDay(n, k)
    BY <1>4, <2>4 DEF OnDay
  <2> HIDE DEF D, e
  <2>6. Occurs(raws[n].said, r.start)
    BY <1>2, <2>2, <2>4, <2>5, OccursIs DEF Kept, e
  <2>7. \A x \in Weekly(e, Window) : x.start = r.start => x = r
    BY <1>1, <2>1, WeeklyOnce DEF e
  <2> QED BY <1>2, <2>1, <2>6, <2>7 DEF e
<1> QED BY <1>1, <1>3, <1>4

\* Given enough tries, they give all of them.
LEMMA ExpandComplete ==
  ASSUME LinesInv, now \in Nows, NEW n \in DOMAIN raws, Plain(n), raws[n].rule # None,
         InReach(n), NEW t \in Int, t >= Window.start, t <= Window.deadline,
         Occurs(raws[n].said, t)
  PROVE  \E r \in Expand(raws[n], Window) : r.start = t
<1> DEFINE e == raws[n]
           D == DayOf(e.said.dtstart.wall)
<1>1. /\ IsSeries(e) /\ e.rule.freq \in {"DAILY", "WEEKLY"} /\ e.rule.interval \in Nat \ {0}
      /\ IsWindow(Window)
  BY RawIsSeries, RuleIs, WindowType
<1>2. PICK k \in Nat : t = e.start + Day * k /\ OnDay(n, k)
  BY OccursIs
<1>3. InSeries(e, t, Window)
  BY OccursIs DEF InSeries, Kept
<1>4. CASE e.rule.freq = "DAILY"
  <2>1. DailyAt(e, DailyTries) > Window.deadline
    <3>1. e.start + Day * DailyTries * e.rule.interval > Window.deadline
      BY <1>4 DEF InReach
    <3>2. Day * DailyTries * e.rule.interval = Day * (DailyTries * e.rule.interval)
      <4>1. Day \in Int /\ DailyTries \in Int /\ e.rule.interval \in Int
        BY <1>1, TimeAssumption
      <4> HIDE DEF e
      <4> QED BY <4>1
    <3> QED BY <3>1, <3>2 DEF DailyAt
  <2>2. PICK w \in Nat : k = w * e.rule.interval
    BY <1>1, <1>2, <1>4, ModMultiple DEF OnDay
  <2>3. t \in {DailyAt(e, j) : j \in Nat}
    BY <1>2, <2>2 DEF DailyAt
  <2> HIDE DEF e
  <2>4. t \in {r.start : r \in Daily(e, Window)}
    BY <1>1, <1>3, <2>1, <2>3, DailyExact
  <2> QED BY <1>4, <2>4 DEF Expand, e
<1>5. CASE e.rule.freq = "WEEKLY"
  <2>1. e.start + Day * (Week * (WeeklyTries * e.rule.interval)) > Window.deadline
    <3>1. e.start + Day * (Week * WeeklyTries) * e.rule.interval > Window.deadline
      BY <1>5 DEF InReach
    <3>2. Day * (Week * WeeklyTries) * e.rule.interval =
          Day * (Week * (WeeklyTries * e.rule.interval))
      <4>1. Day \in Int /\ WeeklyTries \in Int /\ e.rule.interval \in Int /\ Week \in Int
        BY <1>1, TimeAssumption DEF Week
      <4> HIDE DEF e
      <4> QED BY <4>1
    <3> QED BY <3>1, <3>2
  <2>2. WeeksFit(e) /\ D \in Int /\ BaseDow(e) = (D % Week) + 1
    BY <1>5, WeeksAreFit
  <2>3. OnRule(e, D, k)
    BY <1>2, <1>5 DEF OnDay
  <2> HIDE DEF e, D
  <2>4. t \in {e.start + Day * j : j \in {i \in Nat : OnRule(e, D, i)}}
    BY <1>2, <2>3
  <2>5. t \in {r.start : r \in Weekly(e, Window)}
    BY <1>1, <1>3, <2>1, <2>2, <2>4, WeeklyExact
  <2> QED BY <1>5, <2>5 DEF Expand, e
<1> QED BY <1>1, <1>4, <1>5

-----------------------------------------------------------------------------
(* What is shown                                                           *)

\* The entry of raw event n for repetition r.
Entry(n, r) == [raw |-> n, try |-> r.try, start |-> r.start,
                end |-> r.start + (raws[n].end - raws[n].start)]

\* The entries of a raw event, by the repetitions they come from.
LEMMA EntriesAre ==
  ASSUME NEW n, NEW R
  PROVE  Entries(n, R) = {Entry(n, r) : r \in R}
BY DEF Entries, Entry

\* What is shown is the replacement or the single event, or a repetition that is not
\* replaced.
ShownAs(x) ==
    LET e == raws[x.raw]
    IN  /\ x.raw \in DOMAIN raws /\ ~e.canceled
        /\ x.start \in Int /\ InWindow(x.start, Window) /\ x.end > now
        /\ e.rid # None \/ e.rule = None =>
              x = Entry(x.raw, [try |-> 0, start |-> e.start])
        /\ e.rid = None /\ e.rule # None =>
              \E r \in Expand(e, Window) : x = Entry(x.raw, r) /\ ~IsOverridden(e.uid, r.start)

LEMMA OnceIs ==
  ASSUME NEW n
  PROVE  Once(n) = {Entry(n, [try |-> 0, start |-> raws[n].start])}
BY EntriesAre DEF Once

\* Every event shown came into the result in one of these ways.
LEMMA ShownFrom ==
  ASSUME IInv, phase = "done", NEW x \in shown
  PROVE  ShownAs(x)
<1>1. LinesInv /\ ExpandInv
  BY DEF IInv
<1>2. /\ x \in (UNION {Expansion(n) : n \in 1..Len(raws)}) \cup Replacements
      /\ InWindow(x.start, Window) /\ x.end > now
  BY <1>1 DEF ExpandInv
<1>3. DOMAIN raws = 1..Len(raws)
  BY <1>1, RawsAre
<1>4. CASE x \in Replacements
  <2>1. PICK n \in DOMAIN raws : raws[n].rid # None /\ ~raws[n].canceled /\ x \in Once(n)
    BY <1>4 DEF Replacements
  <2>2. x.raw = n /\ x.start \in Int
    BY <1>1, <2>1, EntryType
  <2>3. x = Entry(n, [try |-> 0, start |-> raws[n].start])
    BY <2>1, OnceIs
  <2> QED BY <1>2, <2>1, <2>2, <2>3 DEF ShownAs
<1>5. CASE x \notin Replacements
  <2>1. PICK n \in DOMAIN raws : x \in Expansion(n)
    BY <1>2, <1>3, <1>5
  <2>2. x.raw = n /\ x.start \in Int
    BY <1>1, <2>1, EntryType
  <2>3. raws[n].rid = None /\ ~raws[n].canceled
    BY <2>1 DEF Expansion
  <2>4. CASE raws[n].rule = None
    <3>1. x \in Once(n)
      BY <2>1, <2>3, <2>4 DEF Expansion
    <3>2. x = Entry(n, [try |-> 0, start |-> raws[n].start])
      BY <3>1, OnceIs
    <3> QED BY <1>2, <2>1, <2>2, <2>3, <2>4, <3>2 DEF ShownAs
  <2>5. CASE raws[n].rule # None
    <3> DEFINE R == {r \in Expand(raws[n], Window) : ~IsOverridden(raws[n].uid, r.start)}
    <3>1. x \in Entries(n, R)
      BY <2>1, <2>3, <2>5 DEF Expansion
    <3>2. PICK r \in R : x = Entry(n, r)
      BY <3>1, EntriesAre
    <3> QED BY <1>2, <2>1, <2>2, <2>3, <2>5, <3>2 DEF ShownAs
  <2> QED BY <2>4, <2>5
<1> QED BY <1>4, <1>5

\* A single event or an override, if it is not canceled, is planned when it starts.
LEMMA SinglePlanned ==
  ASSUME LinesInv, now \in Nows, NEW n \in DOMAIN raws, Plain(n),
         raws[n].rid # None \/ raws[n].rule = None, NEW t \in Int
  PROVE  t \in Planned(n) <=>
           /\ t >= Window.start /\ t <= Window.deadline /\ ~raws[n].canceled
           /\ t = raws[n].start
<1> DEFINE s == raws[n].said
<1>1. /\ raws[n].canceled <=> IsCanceled(n)
      /\ raws[n].rid = None <=> s.rid = None
      /\ raws[n].rule = None <=> s.rrule = None
      /\ s.dtstart \in Dates /\ raws[n].start = TrueMoment(s.dtstart)
  BY RawIs, RawType DEF Plain, PlainDates, IsSaid, IsCanceled
<1>2. Window.start \in Int /\ Window.deadline \in Int
  BY WindowType DEF IsWindow
<1>3. s.rrule = None => (Occurs(s, t) <=> t = TrueMoment(s.dtstart))
  <2>1. s.rrule = None => (Occurs(s, t) <=> t + TrueOffset(s.dtstart) = s.dtstart.wall)
    BY DEF Occurs
  <2> HIDE DEF s
  <2> QED BY <1>1, <2>1, TrueType
<1> QED BY <1>1, <1>2, <1>3 DEF Planned

\* A series is planned when its rule says so and it is not replaced.
LEMMA SeriesPlanned ==
  ASSUME LinesInv, now \in Nows, NEW n \in DOMAIN raws, Plain(n),
         raws[n].rid = None, raws[n].rule # None, NEW t \in Int
  PROVE  t \in Planned(n) <=>
           /\ t >= Window.start /\ t <= Window.deadline /\ ~raws[n].canceled
           /\ Occurs(raws[n].said, t) /\ ~IsOverridden(raws[n].uid, t)
<1>1. /\ raws[n].canceled <=> IsCanceled(n)
      /\ raws[n].said.rid = None /\ raws[n].said.rrule # None
  BY RawIs, RawType DEF Plain, IsCanceled
<1>2. Window.start \in Int /\ Window.deadline \in Int
  BY WindowType DEF IsWindow
<1>3. IsOverridden(raws[n].uid, t) <=> \E i \in Overrides(n) : TrueMoment(raws[i].said.rid) = t
  BY ExceptionsFound DEF Plain
<1> QED BY <1>1, <1>2, <1>3 DEF Planned

\* What is shown takes place.
LEMMA PlannedFollows == IInv => ShownIsPlanned
<1> SUFFICES ASSUME IInv, phase = "done", NEW x \in shown, Plain(x.raw)
             PROVE  /\ x.start \in Planned(x.raw)
                    /\ \A y \in shown : y.raw = x.raw /\ y.start = x.start => y = x
  BY DEF ShownIsPlanned
<1> DEFINE n == x.raw
           e == raws[n]
<1>1. LinesInv /\ now \in Nows
  BY DEF IInv, TypeOK
<1>2. ShownAs(x) /\ \A y \in shown : ShownAs(y)
  BY ShownFrom
<1>3. /\ n \in DOMAIN raws /\ ~e.canceled /\ x.start \in Int
      /\ x.start >= Window.start /\ x.start <= Window.deadline
  BY <1>2 DEF ShownAs, InWindow
<1>4. CASE e.rid # None \/ e.rule = None
  <2>1. \A y \in shown : y.raw = n => y = Entry(n, [try |-> 0, start |-> e.start])
    BY <1>2, <1>4 DEF ShownAs
  <2>2. x.start = e.start
    BY <2>1 DEF Entry
  <2>3. x.start \in Planned(n)
    BY <1>1, <1>3, <1>4, <2>2, SinglePlanned
  <2> QED BY <2>1, <2>3
<1>5. CASE e.rid = None /\ e.rule # None
  <2>1. ASSUME NEW y \in shown, y.raw = n
        PROVE  \E r \in Expand(e, Window) :
                  y = Entry(n, r) /\ y.start = r.start /\ ~IsOverridden(e.uid, r.start)
    <3>1. PICK r \in Expand(e, Window) : y = Entry(n, r) /\ ~IsOverridden(e.uid, r.start)
      BY <1>2, <1>5, <2>1 DEF ShownAs
    <3>2. y.start = r.start
      BY <3>1 DEF Entry
    <3> QED BY <3>1, <3>2
  <2>2. PICK r \in Expand(e, Window) :
              x = Entry(n, r) /\ x.start = r.start /\ ~IsOverridden(e.uid, r.start)
    BY <2>1
  <2>3. Occurs(e.said, r.start) /\ \A z \in Expand(e, Window) : z.start = r.start => z = r
    BY <1>1, <1>3, <1>5, ExpandSound
  <2>4. x.start \in Planned(n)
    BY <1>1, <1>3, <1>5, <2>2, <2>3, SeriesPlanned
  <2>5. \A y \in shown : y.raw = n /\ y.start = x.start => y = x
    <3> HIDE DEF n, e
    <3> QED BY <2>1, <2>2, <2>3
  <2> QED BY <2>4, <2>5
<1> QED BY <1>4, <1>5

\* What is shown of an event that keeps to what the parser reads takes place then,
\* and it is shown once: not on an excluded date, not next to its override, not in the
\* wrong week, for calendars, clocks, zones and numbers of tries of any size
\* (recurrence.cpp:126-212, override_applier.cpp:14-23, event_manager.cpp:105-125).
THEOREM ShownCorrect == Spec => []ShownIsPlanned
BY Invariance, PlannedFollows, PTL

\* The properties of what is shown follow from the invariant.
LEMMA ShownFollows == IInv => PlannedIsShown
<1> SUFFICES ASSUME IInv, phase = "done", NEW n \in DOMAIN raws, Plain(n), InReach(n),
                    NEW t \in Planned(n), t + (raws[n].end - raws[n].start) > now
             PROVE  \E x \in shown : x.raw = n /\ x.start = t
  BY DEF PlannedIsShown
<1> DEFINE e == raws[n]
<1>1. LinesInv /\ ExpandInv /\ now \in Nows /\ DOMAIN raws = 1..Len(raws)
  BY RawsAre DEF IInv, TypeOK
<1>2. t \in Int /\ InWindow(t, Window)
  <2>1. Window.start \in Int /\ Window.deadline \in Int /\ Window.start > 0
    BY <1>1, WindowType DEF IsWindow
  <2>2. t \in Window.start..Window.deadline
    BY DEF Planned
  <2> QED BY <2>1, <2>2 DEF InWindow
<1>3. ASSUME NEW r, r.start = t,
             Entry(n, r) \in (UNION {Expansion(i) : i \in 1..Len(raws)}) \cup Replacements
      PROVE  \E x \in shown : x.raw = n /\ x.start = t
  <2>1. Entry(n, r).raw = n /\ Entry(n, r).start = t /\ Entry(n, r).end > now
    BY <1>3 DEF Entry
  <2>2. Entry(n, r) \in shown
    BY <1>1, <1>2, <1>3, <2>1 DEF ExpandInv
  <2> QED BY <2>1, <2>2
<1>4. CASE e.rid # None \/ e.rule = None
  <2> DEFINE r == [try |-> 0, start |-> e.start]
  <2>1. t = e.start /\ ~e.canceled
    BY <1>1, <1>2, <1>4, SinglePlanned
  <2>2. Entry(n, r) \in Once(n) /\ r.start = t
    BY <2>1, OnceIs
  <2> HIDE DEF r
  <2>3. Once(n) \subseteq (UNION {Expansion(i) : i \in 1..Len(raws)}) \cup Replacements
    <3>1. CASE e.rid # None
      <4>1. Once(n) \subseteq Replacements
        BY <1>2, <2>1, <3>1 DEF Replacements
      <4> QED BY <4>1
    <3>2. CASE e.rid = None
      <4>1. Expansion(n) = Once(n)
        BY <1>2, <1>4, <2>1, <3>2 DEF Expansion
      <4> QED BY <1>1, <4>1
    <3> QED BY <3>1, <3>2
  <2> QED BY <1>3, <2>2, <2>3
<1>5. CASE e.rid = None /\ e.rule # None
  <2>1. /\ t >= Window.start /\ t <= Window.deadline /\ ~e.canceled /\ Occurs(e.said, t)
        /\ ~IsOverridden(e.uid, t)
    BY <1>1, <1>2, <1>5, SeriesPlanned
  <2>2. PICK r \in Expand(e, Window) : r.start = t
    BY <1>1, <1>2, <1>5, <2>1, ExpandComplete
  <2> DEFINE R == {z \in Expand(e, Window) : ~IsOverridden(e.uid, z.start)}
  <2>3. r \in R
    BY <2>1, <2>2
  <2>4. Expansion(n) = Entries(n, R)
    BY <1>5, <2>1 DEF Expansion
  <2> HIDE DEF R
  <2>5. Entry(n, r) \in Expansion(n)
    BY <2>3, <2>4, EntriesAre
  <2> QED BY <1>1, <1>3, <2>2, <2>5
<1> QED BY <1>4, <1>5

\* Each time such an event takes place in the window it is shown, until it is over, as
\* long as the tries reach that far: nothing is lost by skipping, by giving up or by
\* the order of expansion and override (recurrence.cpp:135, :186,
\* override_applier.cpp:14-35, event_manager.cpp:105-125).
THEOREM PlannedCorrect == Spec => []PlannedIsShown
BY Invariance, ShownFollows, PTL
=============================================================================
