------------------------- MODULE Recurrence_proofs -------------------------
(***************************************************************************)
(* The expanders for any event, rule and window: a daily series is exactly *)
(* the multiples of its interval that the window admits, as long as the    *)
(* tries reach beyond it; no occurrence comes twice; every weekly one      *)
(* falls on a day of the rule.                                             *)
(***************************************************************************)
EXTENDS Recurrence, WellFoundedInduction, TLAPS

\* What the expanders are given: the interval is read by [0-9]+.
IsSeries(e) ==
    /\ e.start \in Int /\ e.rule.interval \in Nat
    /\ e.rule.until \in Int \cup {None}
    /\ e.rule.byday \subseteq 1..Week

IsWindow(win) == win.start \in Int /\ win.deadline \in Int

-----------------------------------------------------------------------------
(* Numbers: induction over a set of them, products and quotients           *)

\* A set of natural numbers has a least one.
LEMMA Least ==
  ASSUME NEW S \in SUBSET Nat, S # {}
  PROVE  \E m \in S : \A n \in S : m <= n
<1>1. \E x \in S : \A y \in S : ~ (<<y, x>> \in OpToRel(<, Nat))
  BY NatLessThanWellFounded, WFMin
<1>2. PICK x \in S : \A y \in S : ~ (<<y, x>> \in OpToRel(<, Nat))
  BY <1>1
<1>3. \A y \in S : ~(y < x)
  BY <1>2 DEF OpToRel
<1> QED BY <1>3

\* Induction for the numbers that have a property, as the set of them.
LEMMA SetInduction ==
  ASSUME NEW S, 0 \in S, \A n \in Nat : n \in S => n + 1 \in S
  PROVE  Nat \subseteq S
<1>1. SUFFICES ASSUME Nat \ S # {} PROVE FALSE
  OBVIOUS
<1>2. PICK m \in Nat \ S : \A n \in Nat \ S : m <= n
  BY <1>1, Least
<1>3. m - 1 \in Nat /\ m - 1 \in S
  BY <1>2
<1> QED BY <1>2, <1>3

\* A set of integers none of which exceeds b has a greatest one.
LEMMA Greatest ==
  ASSUME NEW S \in SUBSET Int, S # {}, NEW b \in Int, \A s \in S : s <= b
  PROVE  \E m \in S : \A n \in S : n <= m
<1> DEFINE T == {b - s : s \in S}
<1>1. T \in SUBSET Nat /\ T # {}
  <2>1. \A s \in S : b - s \in Nat
    OBVIOUS
  <2> QED BY <2>1
<1>2. PICK m \in T : \A n \in T : m <= n
  BY <1>1, Least
<1>3. PICK s \in S : m = b - s
  BY <1>2
<1>4. \A n \in S : b - s <= b - n
  BY <1>2, <1>3
<1> QED BY <1>4

\* Multiplication by a natural number is monotone.
LEMMA TimesMonotone ==
  ASSUME NEW a \in Int, NEW b \in Int, a <= b, NEW n \in Nat
  PROVE  n * a <= n * b
  OBVIOUS

LEMMA TimesStrict ==
  ASSUME NEW a \in Int, NEW b \in Int, a < b, NEW n \in Nat \ {0}
  PROVE  n * a < n * b
  OBVIOUS

LEMMA DivType ==
  ASSUME NEW w \in Int, NEW n \in Nat \ {0}
  PROVE  w \div n \in Int /\ w % n \in Int
  BY SMTT(20)

LEMMA ModRange ==
  ASSUME NEW w \in Int, NEW n \in Nat \ {0}
  PROVE  0 <= w % n /\ w % n < n
  BY SMTT(20)

LEMMA DivMod ==
  ASSUME NEW w \in Int, NEW n \in Nat \ {0}
  PROVE  w = n * (w \div n) + (w % n)
  BY SMTT(20)

LEMMA DivUnique ==
  ASSUME NEW q \in Int, NEW r \in Int, NEW n \in Nat \ {0}, 0 <= r, r < n
  PROVE  (n * q + r) \div n = q /\ (n * q + r) % n = r
  BY SMTT(20)

-----------------------------------------------------------------------------
(* The tries of the daily expander                                         *)

\* A try is a moment; of two tries the later one is the later moment.
LEMMA DailyAtType ==
  ASSUME NEW e, IsSeries(e), NEW i \in Nat
  PROVE  DailyAt(e, i) \in Int
  BY TimeAssumption DEF IsSeries, DailyAt

LEMMA DailyAscends ==
  ASSUME NEW e, IsSeries(e), e.rule.interval > 0, NEW i \in Nat, NEW j \in Nat, i < j
  PROVE  DailyAt(e, i) < DailyAt(e, j)
<1> DEFINE n == e.rule.interval
<1>1. e.start \in Int /\ n \in Nat \ {0} /\ Day \in Nat \ {0}
  BY TimeAssumption DEF IsSeries
<1>2. n * i < n * j
  BY <1>1, TimesStrict
<1>3. i * n < j * n /\ i * n \in Int /\ j * n \in Int
  BY <1>1, <1>2
<1>4. Day * (i * n) < Day * (j * n) /\ Day * (i * n) \in Int /\ Day * (j * n) \in Int
  BY <1>1, <1>3, TimesStrict
<1> QED
  BY <1>1, <1>4 DEF DailyAt

LEMMA DailyInjective ==
  ASSUME NEW e, IsSeries(e), e.rule.interval > 0,
         NEW i \in Nat, NEW j \in Nat, DailyAt(e, i) = DailyAt(e, j)
  PROVE  i = j
<1>1. DailyAt(e, i) \in Int /\ DailyAt(e, j) \in Int
  BY DailyAtType
<1>2. ~(i < j)
  <2>1. SUFFICES ASSUME i < j PROVE FALSE
    OBVIOUS
  <2>2. DailyAt(e, i) < DailyAt(e, j)
    BY <2>1, DailyAscends
  <2> QED BY <1>1, <2>2
<1>3. ~(j < i)
  <2>1. SUFFICES ASSUME j < i PROVE FALSE
    OBVIOUS
  <2>2. DailyAt(e, j) < DailyAt(e, i)
    BY <2>1, DailyAscends
  <2> QED BY <1>1, <2>2
<1> QED
  BY <1>2, <1>3

\* Whether the expander keeps t: the conditions of its loop.
InSeries(e, t, win) == t >= win.start /\ Kept(e, t, win)

\* As long as its tries reach beyond the window, the daily expander returns exactly
\* the moments a whole number of intervals after DTSTART that the window admits and
\* no EXDATE or UNTIL takes away: giving up, skipping and stopping early lose nothing
\* (recurrence.cpp:126-152).
THEOREM DailyExact ==
  ASSUME NEW e, NEW win, IsSeries(e), IsWindow(win), e.rule.interval > 0,
         DailyAt(e, DailyTries) > win.deadline
  PROVE  {r.start : r \in Daily(e, win)} =
         {t \in {DailyAt(e, k) : k \in Nat} : InSeries(e, t, win)}
<1>1. ASSUME NEW k \in Nat, InSeries(e, DailyAt(e, k), win)
      PROVE  k \in 0..(DailyTries - 1)
  <2>1. DailyTries \in Nat
    BY TimeAssumption
  <2>2. DailyAt(e, k) \in Int /\ DailyAt(e, DailyTries) \in Int /\ win.deadline \in Int
    BY <2>1, DailyAtType DEF IsWindow
  <2>3. DailyAt(e, k) <= win.deadline
    BY <1>1 DEF InSeries, Kept
  <2>4. k # DailyTries
    BY <2>2, <2>3
  <2>5. ~(DailyTries < k)
    <3>1. SUFFICES ASSUME DailyTries < k PROVE FALSE
      OBVIOUS
    <3>2. DailyAt(e, DailyTries) < DailyAt(e, k)
      BY <2>1, <3>1, DailyAscends
    <3> QED BY <2>2, <2>3, <3>2
  <2> QED
    BY <2>1, <2>4, <2>5
<1>2. ASSUME NEW k \in 0..(DailyTries - 1) PROVE k \in Nat
  BY TimeAssumption
<1> DEFINE Tries == {j \in 0..(DailyTries - 1) :
                        DailyAt(e, j) >= win.start /\ Kept(e, DailyAt(e, j), win)}
<1>3. Daily(e, win) = {[try |-> i, start |-> DailyAt(e, i)] : i \in Tries}
  BY DEF Daily
<1>4. {r.start : r \in Daily(e, win)} = {DailyAt(e, i) : i \in Tries}
  <2>1. ASSUME NEW r \in Daily(e, win)
        PROVE  r.start \in {DailyAt(e, i) : i \in Tries}
    <3>1. PICK i \in Tries : r = [try |-> i, start |-> DailyAt(e, i)]
      BY <1>3
    <3>2. r.start = DailyAt(e, i)
      BY <3>1
    <3> QED BY <3>2
  <2>2. ASSUME NEW i \in Tries
        PROVE  DailyAt(e, i) \in {r.start : r \in Daily(e, win)}
    <3>1. [try |-> i, start |-> DailyAt(e, i)] \in Daily(e, win)
      BY <1>3
    <3>2. [try |-> i, start |-> DailyAt(e, i)].start = DailyAt(e, i)
      OBVIOUS
    <3> HIDE DEF Tries
    <3> QED BY <3>1, <3>2
  <2> HIDE DEF Tries
  <2> QED BY <2>1, <2>2
<1>5. {DailyAt(e, i) : i \in Tries} =
      {t \in {DailyAt(e, k) : k \in Nat} : InSeries(e, t, win)}
  BY <1>1, <1>2 DEF InSeries
<1> QED
  BY <1>4, <1>5

\* The daily expander never returns a moment twice (recurrence.cpp:135-150): the
\* repetitions to be shown are as many as their moments.
THEOREM DailyOnce ==
  ASSUME NEW e, NEW win, IsSeries(e), e.rule.interval > 0,
         NEW r \in Daily(e, win), NEW s \in Daily(e, win), r.start = s.start
  PROVE  r = s
<1>1. PICK i \in 0..(DailyTries - 1) : r = [try |-> i, start |-> DailyAt(e, i)]
  BY DEF Daily
<1>2. PICK j \in 0..(DailyTries - 1) : s = [try |-> j, start |-> DailyAt(e, j)]
  BY DEF Daily
<1>3. i \in Nat /\ j \in Nat
  BY TimeAssumption
<1>4. DailyAt(e, i) = DailyAt(e, j)
  BY <1>1, <1>2
<1>5. i = j
  BY <1>3, <1>4, DailyInjective
<1> QED
  BY <1>1, <1>2, <1>5

-----------------------------------------------------------------------------
(* The tries of the weekly expander                                        *)

LEMMA BaseDowType ==
  ASSUME NEW e, IsSeries(e)
  PROVE  BaseDow(e) \in 1..Week /\ ByDay(e) \subseteq 1..Week
<1>1. e.start + Local \in Int /\ Day \in Nat \ {0} /\ Week \in Nat \ {0}
  BY TimeAssumption DEF IsSeries, Week
<1>2. (e.start + Local) \div Day \in Int
  BY <1>1, DivType
<1> DEFINE day == (e.start + Local) \div Day
<1>3. day % 7 \in 0..6
  <2>1. day \in Int /\ 7 \in Nat \ {0}
    BY <1>2
  <2> HIDE DEF day
  <2> QED BY <2>1
<1>4. BaseDow(e) \in 1..Week
  BY <1>3 DEF BaseDow, Weekday, DayOf, Week
<1> QED
  BY <1>4 DEF IsSeries, ByDay

LEMMA DaysAheadRange ==
  ASSUME NEW e, IsSeries(e), NEW d \in ByDay(e)
  PROVE  /\ DaysAhead(e, d) \in 0..6
         /\ DaysAhead(e, d) = d - BaseDow(e) \/ DaysAhead(e, d) = d - BaseDow(e) + Week
<1>1. BaseDow(e) \in 1..7 /\ d \in 1..7
  BY BaseDowType DEF Week
<1> QED
  BY <1>1 DEF DaysAhead, Week

\* A number of whole days later the clock shows the same time of day.
LEMMA DaysLater ==
  ASSUME NEW w \in Int, NEW d \in Int
  PROVE  DayOf(w + Day * d) = DayOf(w) + d /\ (w + Day * d) % Day = w % Day
<1>1. Day \in Nat \ {0}
  BY TimeAssumption
<1>2. /\ w \div Day \in Int /\ w % Day \in Int /\ 0 <= w % Day /\ w % Day < Day
      /\ w = Day * (w \div Day) + (w % Day)
  BY <1>1, DivType, ModRange, DivMod
<1> DEFINE q == w \div Day
           r == w % Day
<1>3. w + Day * d = Day * (q + d) + r
  <2>1. q \in Int /\ r \in Int /\ w = Day * q + r
    BY <1>2
  <2> HIDE DEF q, r
  <2> QED BY <1>1, <2>1
<1>4. (Day * (q + d) + r) \div Day = q + d /\ (Day * (q + d) + r) % Day = r
  <2>1. q \in Int /\ r \in Int /\ 0 <= r /\ r < Day
    BY <1>2
  <2> HIDE DEF q, r
  <2>2. q + d \in Int
    BY <2>1
  <2> QED BY <1>1, <2>1, <2>2, DivUnique
<1> QED
  BY <1>3, <1>4 DEF DayOf

\* Every repetition of a weekly series falls on one of the rule's days, at the time of
\* day of DTSTART, both on the machine's clock (recurrence.cpp:186-195).
THEOREM WeeklyOnItsDays ==
  ASSUME NEW e, NEW win, IsSeries(e), NEW r \in Weekly(e, win)
  PROVE  /\ Weekday(r.start + Local) \in ByDay(e)
         /\ (r.start + Local) % Day = (e.start + Local) % Day
<1>1. PICK w \in 0..(WeeklyTries - 1), d \in ByDay(e) : r.start = WeeklyAt(e, w, d)
  <2>1. PICK p \in (0..(WeeklyTries - 1)) \X ByDay(e) :
              r = [try |-> p, start |-> WeeklyAt(e, p[1], p[2])]
    BY DEF Weekly
  <2> QED BY <2>1
<1> DEFINE n == w * e.rule.interval
           a == DaysAhead(e, d)
           clock == e.start + Local
<1>2. /\ w \in Int /\ n \in Int /\ e.start \in Int /\ Local \in Int /\ clock \in Int
      /\ Day \in Nat \ {0}
  BY TimeAssumption DEF IsSeries
<1>3. a \in 0..6 /\ (a = d - BaseDow(e) \/ a = d - BaseDow(e) + 7)
  BY DaysAheadRange DEF Week
<1>4. r.start + Local = clock + Day * (a + 7 * n)
  <2>1. r.start = e.start + Day * (a + 7 * n)
    BY <1>1 DEF WeeklyAt, Week
  <2>2. Day * (a + 7 * n) \in Int
    BY <1>2, <1>3
  <2> HIDE DEF a, n
  <2> QED BY <1>2, <2>1, <2>2
<1>5. /\ DayOf(r.start + Local) = DayOf(clock) + (a + 7 * n)
      /\ (r.start + Local) % Day = clock % Day
  <2>1. a + 7 * n \in Int
    BY <1>2, <1>3
  <2> HIDE DEF a, n, clock
  <2>2. /\ DayOf(clock + Day * (a + 7 * n)) = DayOf(clock) + (a + 7 * n)
        /\ (clock + Day * (a + 7 * n)) % Day = clock % Day
    BY <1>2, <2>1, DaysLater
  <2> QED BY <1>4, <2>2
<1>6. Weekday(r.start + Local) = d
  <2>1. BaseDow(e) = (DayOf(clock) % 7) + 1 /\ BaseDow(e) \in 1..7 /\ d \in 1..7
    BY BaseDowType DEF BaseDow, Weekday, Week
  <2>2. DayOf(clock) \in Int
    BY <1>2, DivType DEF DayOf
  <2> HIDE DEF a, n, clock
  <2>3. (DayOf(clock) + (a + 7 * n)) % 7 = d - 1
    BY <1>2, <1>3, <2>1, <2>2
  <2> QED BY <1>5, <2>1, <2>3 DEF Weekday, Week
<1> QED
  BY <1>5, <1>6

\* The weekly expander never returns a moment twice, whatever days the rule lists
\* (recurrence.cpp:179-195).
THEOREM WeeklyOnce ==
  ASSUME NEW e, NEW win, IsSeries(e), e.rule.interval > 0,
         NEW r \in Weekly(e, win), NEW s \in Weekly(e, win), r.start = s.start
  PROVE  r = s
<1>1. PICK p \in (0..(WeeklyTries - 1)) \X ByDay(e) :
            r = [try |-> p, start |-> WeeklyAt(e, p[1], p[2])]
  BY DEF Weekly
<1>2. PICK q \in (0..(WeeklyTries - 1)) \X ByDay(e) :
            s = [try |-> q, start |-> WeeklyAt(e, q[1], q[2])]
  BY DEF Weekly
<1> DEFINE n == e.rule.interval
           a == DaysAhead(e, p[2])
           b == DaysAhead(e, q[2])
<1>3. /\ n \in Nat \ {0} /\ p[1] \in Nat /\ q[1] \in Nat /\ p[1] * n \in Int /\ q[1] * n \in Int
      /\ a \in 0..6 /\ b \in 0..6
  <2>1. n \in Nat \ {0} /\ p[1] \in Nat /\ q[1] \in Nat
    BY TimeAssumption DEF IsSeries
  <2>2. a \in 0..6 /\ b \in 0..6
    BY DaysAheadRange
  <2> HIDE DEF n, a, b
  <2> QED BY <2>1, <2>2
<1>4. a + 7 * (p[1] * n) = b + 7 * (q[1] * n)
  <2>1. e.start + Day * (a + 7 * (p[1] * n)) = e.start + Day * (b + 7 * (q[1] * n))
    BY <1>1, <1>2 DEF WeeklyAt, Week
  <2> DEFINE x == a + 7 * (p[1] * n)
             y == b + 7 * (q[1] * n)
  <2>2. e.start \in Int /\ Day \in Nat \ {0}
    BY TimeAssumption DEF IsSeries
  <2> HIDE DEF n, a, b
  <2>3. x \in Int /\ y \in Int
    BY <1>3
  <2>4. e.start + Day * x = e.start + Day * y
    BY <2>1
  <2> HIDE DEF x, y
  <2>5. Day * x \in Int /\ Day * y \in Int
    BY <2>2, <2>3
  <2>6. Day * x = Day * y
    BY <2>2, <2>4, <2>5
  <2>7. ~(x < y) /\ ~(y < x)
    BY <2>2, <2>3, <2>6, TimesStrict
  <2>8. x = y
    BY <2>3, <2>7
  <2> QED BY <2>8 DEF x, y
<1>5. p[1] * n = q[1] * n /\ a = b
  <2> DEFINE x == p[1] * n
             y == q[1] * n
  <2>1. x \in Int /\ y \in Int /\ a \in 0..6 /\ b \in 0..6 /\ a + 7 * x = b + 7 * y
    BY <1>3, <1>4
  <2> HIDE DEF a, b, x, y
  <2>2. x = y /\ a = b
    BY <2>1
  <2> QED BY <2>2 DEF x, y
<1>6. p[1] = q[1]
  <2> HIDE DEF n
  <2>1. ~(p[1] < q[1]) /\ ~(q[1] < p[1])
    <3>1. n * p[1] = n * q[1]
      BY <1>3, <1>5
    <3> QED BY <1>3, <3>1, TimesStrict
  <2> QED BY <1>3, <2>1
<1>7. p[2] = q[2]
  <2>1. BaseDow(e) \in 1..7 /\ p[2] \in 1..7 /\ q[2] \in 1..7
    BY BaseDowType DEF Week
  <2> QED BY <1>5, <2>1 DEF DaysAhead, Week
<1>8. p = q
  BY <1>6, <1>7
<1> QED
  BY <1>1, <1>2, <1>8

-----------------------------------------------------------------------------
(* What a weekly series is                                                 *)

\* Day k of a rule whose weeks are counted from day D.
OnRule(e, D, k) ==
    /\ ((D + k) % Week) + 1 \in ByDay(e)
    /\ ((D + k) \div Week - D \div Week) % e.rule.interval = 0

\* The days between two days, by their weekdays and the weeks between.
LEMMA WeekSplit ==
  ASSUME NEW D \in Int, NEW k \in Int
  PROVE  /\ (D + k) \div 7 - D \div 7 \in Int
         /\ (D % 7) + 1 \in 1..7 /\ ((D + k) % 7) + 1 \in 1..7
         /\ k = ((D + k) % 7) - (D % 7) + 7 * ((D + k) \div 7 - D \div 7)
OBVIOUS

\* A multiple, and nothing else, leaves no remainder.
LEMMA MultipleMod ==
  ASSUME NEW w \in Int, NEW n \in Nat \ {0}
  PROVE  (w * n) % n = 0
<1>1. (n * w + 0) % n = 0
  BY DivUnique
<1> QED BY <1>1

\* A number that leaves no remainder is a multiple.
LEMMA ModMultiple ==
  ASSUME NEW m \in Nat, NEW n \in Nat \ {0}, m % n = 0
  PROVE  \E w \in Nat : m = w * n
<1>1. m \div n \in Int /\ m = n * (m \div n)
  BY DivType, DivMod
<1> DEFINE w == m \div n
<1>2. w \in Int /\ m = n * w
  BY <1>1
<1> HIDE DEF w
<1>3. w >= 0
  <2>1. SUFFICES ASSUME w < 0 PROVE FALSE
    BY <1>2
  <2>2. n * w < n * 0
    BY <1>2, <2>1, TimesStrict
  <2> QED BY <1>2, <2>2
<1> QED BY <1>2, <1>3

\* A rule whose weeks can be counted from any of its days.
WeeksFit(e) == e.rule.interval = 1 \/ \A d \in ByDay(e) : d >= BaseDow(e)

\* A repetition of the weekly expander is a day of the rule.
LEMMA WeeklySound ==
  ASSUME NEW e, IsSeries(e), e.rule.interval > 0, WeeksFit(e),
         NEW D \in Int, BaseDow(e) = (D % Week) + 1,
         NEW w \in Nat, NEW d \in ByDay(e)
  PROVE  \E k \in Nat : WeeklyAt(e, w, d) = e.start + Day * k /\ OnRule(e, D, k)
<1> DEFINE n == e.rule.interval
           a == DaysAhead(e, d)
           m == w * n
           k == a + 7 * m
           b == BaseDow(e)
<1>1. /\ n \in Nat \ {0} /\ m \in Nat /\ b \in 1..7 /\ d \in 1..7 /\ a \in 0..6
      /\ (a = d - b \/ a = d - b + 7) /\ b = (D % 7) + 1
  BY BaseDowType, DaysAheadRange DEF IsSeries, Week
<1>2. WeeklyAt(e, w, d) = e.start + Day * k
  BY DEF WeeklyAt, Week
<1>3. n = 1 \/ d >= b
  BY DEF WeeksFit
<1>4. m % n = 0
  BY <1>1, MultipleMod
<1> HIDE DEF n, a, m, b
<1>5. k \in Nat
  BY <1>1
<1>6. ((D + k) % 7) + 1 = d
  BY <1>1
<1>7. ((D + k) \div 7 - D \div 7) % n = 0
  <2>1. CASE n = 1
    <3>1. (D + k) \div 7 - D \div 7 \in Int
      BY <1>5, WeekSplit
    <3> QED BY <2>1, <3>1
  <2>2. CASE d >= b
    <3>1. (D + k) \div 7 - D \div 7 = m
      BY <1>1, <2>2
    <3> QED BY <1>4, <3>1
  <2> QED BY <1>3, <2>1, <2>2
<1> HIDE DEF k
<1> QED BY <1>2, <1>5, <1>6, <1>7 DEF OnRule, Week, n

\* A day of the rule is a repetition of the weekly expander, given enough tries.
LEMMA WeeklyComplete ==
  ASSUME NEW e, IsSeries(e), e.rule.interval > 0, WeeksFit(e),
         NEW D \in Int, BaseDow(e) = (D % Week) + 1,
         NEW k \in Nat, OnRule(e, D, k)
  PROVE  \E w \in Nat, d \in ByDay(e) :
            DaysAhead(e, d) + Week * (w * e.rule.interval) = k
<1> DEFINE n == e.rule.interval
           d == ((D + k) % 7) + 1
           m == (D + k) \div 7 - D \div 7
           a == DaysAhead(e, d)
           b == BaseDow(e)
<1>1. d \in ByDay(e) /\ m % n = 0 /\ n \in Nat \ {0}
  BY DEF OnRule, IsSeries, Week
<1>2. /\ m \in Int /\ b \in 1..7 /\ d \in 1..7 /\ k = d - b + 7 * m
  <2>1. m \in Int /\ (D % 7) + 1 \in 1..7 /\ d \in 1..7 /\ k = (d - 1) - (D % 7) + 7 * m
    BY WeekSplit
  <2>2. b = (D % 7) + 1
    BY DEF Week
  <2> HIDE DEF d, m, b
  <2> QED BY <2>1, <2>2
<1>3. n = 1 \/ d >= b
  BY <1>1 DEF WeeksFit
<1>4. a \in 0..6 /\ (a = d - b \/ a = d - b + 7)
  BY <1>1, DaysAheadRange DEF Week
<1> HIDE DEF n, d, m, a, b
<1>5. CASE d >= b
  <2>1. a = d - b /\ m \in Nat
    BY <1>2, <1>4, <1>5
  <2>2. PICK w \in Nat : m = w * n
    BY <1>1, <2>1, ModMultiple
  <2>3. a + 7 * (w * n) = k
    BY <1>2, <2>1, <2>2
  <2> QED BY <1>1, <2>3 DEF a, n, Week
<1>6. CASE d < b
  <2>1. a = d - b + 7 /\ n = 1 /\ m - 1 \in Nat
    BY <1>2, <1>3, <1>4, <1>6
  <2>2. a + 7 * ((m - 1) * n) = k
    BY <1>2, <2>1
  <2> QED BY <1>1, <2>1, <2>2 DEF a, n, Week
<1> QED BY <1>2, <1>5, <1>6

\* As long as its tries reach beyond the window, and for a rule of several weeks none
\* of whose days comes before the weekday of DTSTART, the weekly expander returns
\* exactly the days of the rule, in every interval-th week, that the window admits and
\* no EXDATE or UNTIL takes away (recurrence.cpp:163-212).  D is DTSTART's day.
THEOREM WeeklyExact ==
  ASSUME NEW e, NEW win, IsSeries(e), IsWindow(win), e.rule.interval > 0, WeeksFit(e),
         NEW D \in Int, BaseDow(e) = (D % Week) + 1,
         e.start + Day * (Week * (WeeklyTries * e.rule.interval)) > win.deadline
  PROVE  {r.start : r \in Weekly(e, win)} =
         {t \in {e.start + Day * k : k \in {j \in Nat : OnRule(e, D, j)}} : InSeries(e, t, win)}
<1> DEFINE n == e.rule.interval
<1>1. /\ Day \in Nat \ {0} /\ n \in Nat \ {0} /\ WeeklyTries \in Nat /\ e.start \in Int
      /\ win.deadline \in Int
  BY TimeAssumption DEF IsSeries, IsWindow
<1>2. ASSUME NEW r \in Weekly(e, win)
      PROVE  /\ \E k \in {j \in Nat : OnRule(e, D, j)} : r.start = e.start + Day * k
             /\ InSeries(e, r.start, win)
  <2>1. PICK q \in (0..(WeeklyTries - 1)) \X ByDay(e) :
              /\ r = [try |-> q, start |-> WeeklyAt(e, q[1], q[2])]
              /\ WeeklyAt(e, q[1], q[2]) >= win.start
              /\ Kept(e, WeeklyAt(e, q[1], q[2]), win)
    BY DEF Weekly
  <2>2. q[1] \in Nat /\ q[2] \in ByDay(e) /\ r.start = WeeklyAt(e, q[1], q[2])
    BY <1>1, <2>1
  <2>3. \E k \in Nat : WeeklyAt(e, q[1], q[2]) = e.start + Day * k /\ OnRule(e, D, k)
    BY <2>2, WeeklySound
  <2> QED BY <2>1, <2>2, <2>3 DEF InSeries
<1>3. ASSUME NEW k \in Nat, OnRule(e, D, k), InSeries(e, e.start + Day * k, win)
      PROVE  \E r \in Weekly(e, win) : r.start = e.start + Day * k
  <2>1. PICK w \in Nat, d \in ByDay(e) : DaysAhead(e, d) + Week * (w * n) = k
    BY <1>3, WeeklyComplete
  <2>2. WeeklyAt(e, w, d) = e.start + Day * k
    BY <2>1 DEF WeeklyAt
  <2> DEFINE far == Week * (WeeklyTries * n)
  <2>3. k < far
    <3>1. e.start + Day * k <= win.deadline /\ e.start + Day * far > win.deadline
      BY <1>3 DEF InSeries, Kept
    <3>2. far \in Int
      BY <1>1 DEF Week
    <3> HIDE DEF far, n
    <3>3. Day * k \in Int /\ Day * far \in Int
      BY <1>1, <3>2
    <3>4. Day * k < Day * far
      BY <1>1, <3>1, <3>3
    <3>5. ~(far <= k)
      BY <1>1, <3>2, <3>3, <3>4, TimesMonotone
    <3> QED BY <3>2, <3>5
  <2>4. w < WeeklyTries
    <3>1. DaysAhead(e, d) \in 0..6
      BY DaysAheadRange
    <3> HIDE DEF n
    <3> DEFINE x == w * n
               y == WeeklyTries * n
    <3>2. x \in Int /\ y \in Int
      BY <1>1
    <3>3. x < y
      <4>1. DaysAhead(e, d) + 7 * x < 7 * y
        BY <2>1, <2>3 DEF Week
      <4> HIDE DEF x, y
      <4> QED BY <3>1, <3>2, <4>1
    <3>4. ~(WeeklyTries <= w)
      <4>1. SUFFICES ASSUME WeeklyTries <= w PROVE FALSE
        OBVIOUS
      <4>2. n * WeeklyTries <= n * w
        BY <1>1, <4>1, TimesMonotone
      <4>3. n * WeeklyTries = y /\ n * w = x
        BY <1>1
      <4> HIDE DEF x, y
      <4> QED BY <3>2, <3>3, <4>2, <4>3
    <3> QED BY <1>1, <3>4
  <2>5. w \in 0..(WeeklyTries - 1)
    BY <1>1, <2>4
  <2> DEFINE q == <<w, d>>
             r == [try |-> q, start |-> WeeklyAt(e, q[1], q[2])]
  <2>6. /\ q \in (0..(WeeklyTries - 1)) \X ByDay(e)
        /\ WeeklyAt(e, q[1], q[2]) >= win.start /\ Kept(e, WeeklyAt(e, q[1], q[2]), win)
    BY <1>3, <2>2, <2>5 DEF InSeries
  <2>7. r \in Weekly(e, win)
    <3> HIDE DEF q
    <3> QED BY <2>6 DEF Weekly
  <2>8. r.start = e.start + Day * k
    BY <2>2
  <2> HIDE DEF r
  <2> QED BY <2>7, <2>8
<1> DEFINE Moments == {e.start + Day * k : k \in {j \in Nat : OnRule(e, D, j)}}
<1>4. ASSUME NEW t
      PROVE  t \in {r.start : r \in Weekly(e, win)} <=> t \in Moments /\ InSeries(e, t, win)
  BY <1>2, <1>3
<1> HIDE DEF Moments
<1>5. {r.start : r \in Weekly(e, win)} = {t \in Moments : InSeries(e, t, win)}
  BY <1>4
<1> QED BY <1>5 DEF Moments

-----------------------------------------------------------------------------
(* All expanders                                                           *)

\* Months are counted on and on, forward and backward.
LEMMA MonthType ==
  ASSUME NEW m \in Int
  PROVE  FirstDay(m) \in Int /\ MonthOf(m) \in Int
<1>1. Months \in Nat \ {0} /\ CycleDays \in Nat \ {0}
  BY MonthAssumption
<1>2. /\ m \div Months \in Int /\ m % Months \in 0..(Months - 1)
      /\ m \div CycleDays \in Int /\ m % CycleDays \in Int /\ 0 <= m % CycleDays
  <2>1. m \div Months \in Int /\ m % Months \in Int /\ 0 <= m % Months /\ m % Months < Months
    BY <1>1, DivType, ModRange
  <2>2. m \div CycleDays \in Int /\ m % CycleDays \in Int /\ 0 <= m % CycleDays
    BY <1>1, DivType, ModRange
  <2> QED BY <1>1, <2>1, <2>2
<1>3. MonthStart[m % Months] \in Int
  BY <1>2, MonthAssumption
<1>4. CycleDays * (m \div Months) \in Int
  BY <1>1, <1>2
<1> DEFINE begun == {k \in 0..(Months - 1) : MonthStart[k] <= m % CycleDays}
           last == CHOOSE k \in begun : \A n \in begun : n <= k
<1>5. last \in Int
  <2>1. begun \in SUBSET Int /\ \A k \in begun : k <= Months
    BY <1>1
  <2>2. 0 \in begun
    BY <1>1, <1>2, MonthAssumption
  <2>3. Months \in Int
    BY <1>1
  <2> HIDE DEF begun
  <2>4. \E k \in begun : \A n \in begun : n <= k
    BY <2>1, <2>2, <2>3, Greatest
  <2>5. last \in begun
    BY <2>4
  <2> QED BY <2>1, <2>5
<1>6. Months * (m \div CycleDays) \in Int
  BY <1>1, <1>2
<1>7. FirstDay(m) \in Int
  BY <1>3, <1>4 DEF FirstDay
<1>8. MonthOf(m) = Months * (m \div CycleDays) + last
  BY DEF MonthOf
<1> HIDE DEF last
<1> QED BY <1>5, <1>6, <1>7, <1>8

\* Every repetition is a moment.
LEMMA ExpandType ==
  ASSUME NEW e, IsSeries(e), e.rule.freq \in {"DAILY", "WEEKLY", "MONTHLY", "YEARLY"},
         NEW win, NEW r \in Expand(e, win)
  PROVE  r.start \in Int
<1>1. CASE e.rule.freq = "DAILY"
  <2>1. PICK i \in 0..(DailyTries - 1) : r.start = DailyAt(e, i)
    BY <1>1 DEF Expand, Daily
  <2>2. i \in Nat
    BY TimeAssumption
  <2> QED BY <2>1, <2>2, DailyAtType
<1>2. CASE e.rule.freq = "WEEKLY"
  <2>1. PICK p \in (0..(WeeklyTries - 1)) \X ByDay(e) : r.start = WeeklyAt(e, p[1], p[2])
    BY <1>2 DEF Expand, Weekly
  <2>2. p[1] \in Nat /\ p[2] \in ByDay(e)
    BY TimeAssumption
  <2>3. DaysAhead(e, p[2]) \in Int
    BY <2>2, DaysAheadRange
  <2>4. p[1] * e.rule.interval \in Int /\ e.start \in Int /\ Day \in Nat
    BY <2>2, TimeAssumption DEF IsSeries
  <2>5. DaysAhead(e, p[2]) + Week * (p[1] * e.rule.interval) \in Int
    BY <2>3, <2>4 DEF Week
  <2> QED BY <2>1, <2>4, <2>5 DEF WeeklyAt
<1>3. CASE e.rule.freq = "MONTHLY"
  <2>1. PICK i \in 0..(MonthlyTries - 1) : r.start = MonthlyAt(e, i)
    BY <1>3 DEF Expand, Monthly
  <2> DEFINE day == DayOf(e.start + Local)
             month == MonthOf(day)
             k == month + i * e.rule.interval
  <2>2. /\ i \in Nat /\ e.start + Local \in Int /\ e.rule.interval \in Nat
        /\ Day \in Nat \ {0} /\ Local \in Int
    BY TimeAssumption DEF IsSeries
  <2>3. day \in Int
    BY <2>2, DivType DEF DayOf
  <2> HIDE DEF day
  <2>4. month \in Int /\ FirstDay(month) \in Int
    <3>1. month \in Int
      BY <2>3, MonthType
    <3> HIDE DEF month
    <3> QED BY <3>1, MonthType
  <2> HIDE DEF month
  <2>5. k \in Int
    BY <2>2, <2>4
  <2> HIDE DEF k
  <2>6. FirstDay(k) \in Int
    BY <2>5, MonthType
  <2>7. r.start = Day * (FirstDay(k) + day - FirstDay(month)) - Local
    BY <2>1 DEF MonthlyAt, k, month, day
  <2>8. FirstDay(k) + day - FirstDay(month) \in Int
    BY <2>3, <2>4, <2>6
  <2> QED BY <2>2, <2>7, <2>8
<1>4. CASE e.rule.freq = "YEARLY"
  BY <1>4 DEF Expand
<1> QED BY <1>1, <1>2, <1>3, <1>4
=============================================================================
