------------------------- MODULE EventManager_proofs -------------------------
(***************************************************************************)
(* Theorems about EventManager, IcsCache and HttpSource, for any URLs,     *)
(* contents, time limits and numbers of retries.                           *)
(***************************************************************************)
EXTENDS EventManager, WellFoundedInduction, TLAPS

\* The first line of a content is a content, and its own first line.
LEMMA FirstLine ==
  ASSUME NEW c \in Contents
  PROVE  Lines[c][1] \in Contents /\ Lines[Lines[c][1]][1] = Lines[c][1]
<1>1. Lines[c] \in Seq(Contents) /\ Lines[c] # <<>> /\ Lines[Lines[c][1]] = <<Lines[c][1]>>
  BY CacheAssumption
<1>2. 1 \in 1..Len(Lines[c])
  BY <1>1
<1> QED BY <1>1, <1>2

\* An age that is not the oldest may grow.
LEMMA AgeGrows == /\ OldAge \in 0..OldAge
                  /\ \A a \in 0..OldAge : a # OldAge => a + 1 \in 0..OldAge
<1>1. OldAge \in Nat
  BY CacheAssumption DEF OldAge
<1> QED BY <1>1

\* The operations of the cache and of the clock give caches again.
LEMMA PutType ==
  ASSUME store \in Stores, NEW u \in Urls, NEW c \in Contents PROVE Put(u, c) \in Stores
BY CacheAssumption DEF Stores, Entries, Put, OldAge

LEMMA OlderType == ASSUME NEW s \in Stores PROVE Older(s) \in Stores
<1> SUFFICES ASSUME NEW u \in Urls PROVE Older(s)[u] \in Entries \cup {None}
  BY DEF Older, Stores
<1>1. s[u] \in Entries \cup {None}
  BY DEF Stores
<1>2. CASE s[u] = None \/ s[u].age = OldAge
  BY <1>1, <1>2 DEF Older
<1>3. CASE s[u] # None /\ s[u].age # OldAge
  <2>1. s[u].content \in Contents /\ s[u].age + 1 \in 0..OldAge
    <3>1. s[u].content \in Contents /\ s[u].age \in 0..OldAge
      BY <1>1, <1>3 DEF Entries
    <3> QED BY <1>3, <3>1, AgeGrows
  <2>2. Older(s)[u] = [content |-> s[u].content, age |-> s[u].age + 1]
    BY <1>3 DEF Older
  <2> QED BY <2>1, <2>2 DEF Entries
<1> QED BY <1>2, <1>3

\* What load() finds are entries of the file with the first lines of their contents.
LEMMA LoadedType ==
  ASSUME NEW s \in Stores
  PROVE  /\ Loaded(s) \in Stores
         /\ \A u \in Urls : Loaded(s)[u] # None =>
               /\ s[u] \in Entries
               /\ Loaded(s)[u] = [content |-> Lines[s[u].content][1], age |-> s[u].age]
<1>1. ASSUME NEW u \in Urls
      PROVE  Loaded(s)[u] = None \/
                /\ s[u] \in Entries
                /\ Loaded(s)[u] = [content |-> Lines[s[u].content][1], age |-> s[u].age]
                /\ Loaded(s)[u] \in Entries
  <2>1. s[u] \in Entries \cup {None}
    BY DEF Stores
  <2>2. CASE Loaded(s)[u] # None
    <3>1. s[u] # None /\ Loaded(s)[u] = [content |-> Lines[s[u].content][1], age |-> s[u].age]
      BY <2>2 DEF Loaded
    <3>2. s[u].content \in Contents /\ s[u].age \in 0..OldAge
      BY <2>1, <3>1 DEF Entries
    <3>3. Lines[s[u].content][1] \in Contents
      BY <3>2, FirstLine
    <3> QED BY <2>1, <3>1, <3>2, <3>3 DEF Entries
  <2> QED BY <2>2
<1>2. Loaded(s) = [u \in Urls |-> Loaded(s)[u]]
  BY DEF Loaded
<1> QED BY <1>1, <1>2 DEF Stores

-----------------------------------------------------------------------------
(* What load() reads of what save() wrote                                  *)

\* A set of natural numbers has a least one.
LEMMA Least ==
  ASSUME NEW S \in SUBSET Nat, S # {}
  PROVE  \E m \in S : \A n \in S : m <= n
<1>1. \E x \in S : \A y \in S : ~ (<<y, x>> \in OpToRel(<, Nat))
  BY NatLessThanWellFounded, WFMin
<1>2. PICK x \in S : \A y \in S : ~ (<<y, x>> \in OpToRel(<, Nat))
  BY <1>1
<1>3. \A y \in S : ~(y < x)
  BY <1>2 DEF OpToRel
<1> QED BY <1>3

\* Induction for the numbers that have a property, as the set of them.
LEMMA SetInduction ==
  ASSUME NEW S, 0 \in S, \A n \in Nat : n \in S => n + 1 \in S
  PROVE  Nat \subseteq S
<1>1. SUFFICES ASSUME Nat \ S # {} PROVE FALSE
  OBVIOUS
<1>2. PICK m \in Nat \ S : \A n \in Nat \ S : m <= n
  BY <1>1, Least
<1>3. m - 1 \in Nat /\ m - 1 \in S
  BY <1>2
<1> QED BY <1>2, <1>3

\* What the loop of load() has made of the first lines, and the lines written for the
\* first URLs.
ReadFrom(r, lines) == CHOOSE read : read =
    [n \in 0..Len(lines) |-> IF n = 0 THEN r ELSE ReadLine(read[n - 1], lines[n])]

Part(s, n) ==
    IF s[Order[n]] = None THEN <<>> ELSE EntryLines(Order[n], s[Order[n]])

WrittenFor(s) == CHOOSE lines : lines =
    [n \in 0..Len(Order) |-> IF n = 0 THEN <<>> ELSE lines[n - 1] \o Part(s, n)]

\* Both loops have a value after each step.
LEMMA ReadOnIs ==
  ASSUME NEW r, NEW lines, Len(lines) \in Nat
  PROVE  /\ ReadOn(r, lines) = ReadFrom(r, lines)[Len(lines)]
         /\ ReadFrom(r, lines)[0] = r
         /\ \A n \in 1..Len(lines) :
               ReadFrom(r, lines)[n] = ReadLine(ReadFrom(r, lines)[n - 1], lines[n])
<1> DEFINE Is(g, N) == g = [n \in 0..N |-> IF n = 0 THEN r ELSE ReadLine(g[n - 1], lines[n])]
           Fine == {N \in Nat : \E g : Is(g, N)}
<1>1. 0 \in Fine
  <2>1. Is([n \in 0..0 |-> r], 0)
    OBVIOUS
  <2> QED BY <2>1
<1>2. ASSUME NEW N \in Nat, N \in Fine PROVE N + 1 \in Fine
  <2>1. PICK g : Is(g, N)
    BY <1>2
  <2> DEFINE h == [n \in 0..(N + 1) |-> IF n = N + 1 THEN ReadLine(g[N], lines[n]) ELSE g[n]]
  <2>2. ASSUME NEW n \in 0..(N + 1)
        PROVE  h[n] = IF n = 0 THEN r ELSE ReadLine(h[n - 1], lines[n])
    <3>1. CASE n = N + 1
      <4>1. N \in 0..(N + 1) /\ N # N + 1 /\ n - 1 = N /\ n # 0
        BY <3>1
      <4>2. h[N] = g[N]
        BY <4>1
      <4> QED BY <3>1, <4>1, <4>2
    <3>2. CASE n # N + 1
      <4>1. n \in 0..N
        BY <3>2
      <4>2. h[n] = g[n]
        BY <3>2
      <4>3. n # 0 => n - 1 \in 0..N /\ n - 1 # N + 1 /\ h[n - 1] = g[n - 1]
        BY <4>1
      <4> HIDE DEF h
      <4>4. g[n] = IF n = 0 THEN r ELSE ReadLine(g[n - 1], lines[n])
        BY <2>1, <4>1
      <4> QED BY <4>2, <4>3, <4>4
    <3> QED BY <3>1, <3>2
  <2>3. h = [n \in 0..(N + 1) |-> h[n]]
    OBVIOUS
  <2> HIDE DEF h
  <2>4. Is(h, N + 1)
    BY <2>2, <2>3
  <2> QED BY <2>4
<1>3. Nat \subseteq Fine
  <2> HIDE DEF Fine
  <2> QED BY <1>1, <1>2, SetInduction
<1>4. \E g : Is(g, Len(lines))
  BY <1>3
<1> DEFINE g == ReadFrom(r, lines)
<1>5. Is(g, Len(lines))
  BY <1>4 DEF ReadFrom
<1>6. ReadOn(r, lines) = g[Len(lines)]
  BY DEF ReadOn, ReadFrom
<1> HIDE DEF g
<1>7. \A n \in 0..Len(lines) : g[n] = IF n = 0 THEN r ELSE ReadLine(g[n - 1], lines[n])
  BY <1>5
<1>8. 0 \in 0..Len(lines) /\ \A n \in 1..Len(lines) : n \in 0..Len(lines) /\ n # 0
  OBVIOUS
<1> QED BY <1>6, <1>7, <1>8 DEF g

\* save() writes the lines of one URL after those of the URLs before.
LEMMA FileLinesAre ==
  ASSUME NEW s
  PROVE  /\ Len(Order) \in Nat /\ DOMAIN Order = 1..Len(Order)
         /\ FileLines(s) = WrittenFor(s)[Len(Order)]
         /\ WrittenFor(s)[0] = <<>>
         /\ \A n \in 1..Len(Order) : WrittenFor(s)[n] = WrittenFor(s)[n - 1] \o Part(s, n)
<1> DEFINE Is(g, N) == g = [n \in 0..N |-> IF n = 0 THEN <<>> ELSE g[n - 1] \o Part(s, n)]
           Fine == {N \in Nat : \E g : Is(g, N)}
<1>1. 0 \in Fine
  <2>1. Is([n \in 0..0 |-> <<>>], 0)
    OBVIOUS
  <2> QED BY <2>1
<1>2. ASSUME NEW N \in Nat, N \in Fine PROVE N + 1 \in Fine
  <2>1. PICK g : Is(g, N)
    BY <1>2
  <2> DEFINE h == [n \in 0..(N + 1) |-> IF n = N + 1 THEN g[N] \o Part(s, n) ELSE g[n]]
  <2>2. ASSUME NEW n \in 0..(N + 1)
        PROVE  h[n] = IF n = 0 THEN <<>> ELSE h[n - 1] \o Part(s, n)
    <3>1. CASE n = N + 1
      <4>1. N \in 0..(N + 1) /\ N # N + 1 /\ n - 1 = N /\ n # 0
        BY <3>1
      <4>2. h[N] = g[N]
        BY <4>1
      <4> QED BY <3>1, <4>1, <4>2
    <3>2. CASE n # N + 1
      <4>1. n \in 0..N
        BY <3>2
      <4>2. h[n] = g[n]
        BY <3>2
      <4>3. n # 0 => n - 1 \in 0..N /\ n - 1 # N + 1 /\ h[n - 1] = g[n - 1]
        BY <4>1
      <4> HIDE DEF h
      <4>4. g[n] = IF n = 0 THEN <<>> ELSE g[n - 1] \o Part(s, n)
        BY <2>1, <4>1
      <4> QED BY <4>2, <4>3, <4>4
    <3> QED BY <3>1, <3>2
  <2>3. h = [n \in 0..(N + 1) |-> h[n]]
    OBVIOUS
  <2> HIDE DEF h
  <2> DEFINE E(n) == IF n = 0 THEN <<>> ELSE h[n - 1] \o Part(s, n)
  <2>4. Is(h, N + 1)
    <3>1. \A n \in 0..(N + 1) : h[n] = E(n)
      BY <2>2
    <3> HIDE DEF E
    <3>2. h = [n \in 0..(N + 1) |-> E(n)]
      BY <2>3, <3>1
    <3> QED BY <3>2 DEF E
  <2> HIDE DEF Is
  <2>5. \E f : Is(f, N + 1)
    BY <2>4
  <2> QED BY <2>5
<1>3. Nat \subseteq Fine
  <2> HIDE DEF Fine
  <2> QED BY <1>1, <1>2, SetInduction
<1>4. Len(Order) \in Nat /\ DOMAIN Order = 1..Len(Order)
  BY CacheAssumption
<1>5. \E g : Is(g, Len(Order))
  BY <1>3, <1>4
<1> DEFINE g == WrittenFor(s)
<1>6. Is(g, Len(Order))
  BY <1>5 DEF WrittenFor
<1>7. FileLines(s) = g[Len(Order)]
  BY DEF FileLines, WrittenFor, Part
<1> HIDE DEF g
<1>8. \A n \in 0..Len(Order) : g[n] = IF n = 0 THEN <<>> ELSE g[n - 1] \o Part(s, n)
  BY <1>6
<1>9. 0 \in 0..Len(Order) /\ \A n \in 1..Len(Order) : n \in 0..Len(Order) /\ n # 0
  BY <1>4
<1> QED BY <1>4, <1>7, <1>8, <1>9 DEF g

\* One list after another.
LEMMA Joined ==
  ASSUME NEW L, NEW a \in Seq(L), NEW b \in Seq(L)
  PROVE  /\ a \o b \in Seq(L) /\ Len(a) \in Nat /\ Len(b) \in Nat /\ Len(a \o b) = Len(a) + Len(b)
         /\ \A n \in 1..Len(a) : (a \o b)[n] = a[n]
         /\ \A n \in 1..Len(b) : (a \o b)[Len(a) + n] = b[n]
OBVIOUS

\* The lines of two lists are read one list after the other.
LEMMA ReadRest ==
  ASSUME NEW r, NEW L, NEW a \in Seq(L), NEW b \in Seq(L)
  PROVE  ReadOn(r, a \o b) = ReadOn(ReadOn(r, a), b)
<1> DEFINE k == Len(a)
           A == ReadFrom(r, a)
           B == ReadFrom(ReadOn(r, a), b)
           C == ReadFrom(r, a \o b)
<1>1. /\ k \in Nat /\ Len(b) \in Nat /\ Len(a \o b) = k + Len(b)
      /\ \A n \in 1..k : (a \o b)[n] = a[n]
      /\ \A n \in 1..Len(b) : (a \o b)[k + n] = b[n]
  BY Joined
<1>2. ReadOn(r, a) = A[k] /\ A[0] = r /\ \A n \in 1..k : A[n] = ReadLine(A[n - 1], a[n])
  BY <1>1, ReadOnIs
<1>3. /\ ReadOn(ReadOn(r, a), b) = B[Len(b)] /\ B[0] = ReadOn(r, a)
      /\ \A n \in 1..Len(b) : B[n] = ReadLine(B[n - 1], b[n])
  BY <1>1, ReadOnIs
<1>4. /\ ReadOn(r, a \o b) = C[k + Len(b)] /\ C[0] = r
      /\ \A n \in 1..(k + Len(b)) : C[n] = ReadLine(C[n - 1], (a \o b)[n])
  <2> DEFINE ab == a \o b
  <2>1. Len(ab) \in Nat /\ Len(ab) = k + Len(b)
    BY <1>1
  <2> HIDE DEF ab, k
  <2>2. /\ ReadOn(r, ab) = ReadFrom(r, ab)[Len(ab)] /\ ReadFrom(r, ab)[0] = r
        /\ \A n \in 1..Len(ab) : ReadFrom(r, ab)[n] = ReadLine(ReadFrom(r, ab)[n - 1], ab[n])
    BY <2>1, ReadOnIs
  <2> QED BY <2>1, <2>2 DEF ab
<1> HIDE DEF k, A, B, C
<1>5. C[k] = A[k]
  <2> DEFINE S == {n \in Nat : n <= k => C[n] = A[n]}
  <2>1. 0 \in S
    BY <1>2, <1>4
  <2>2. ASSUME NEW n \in Nat, n \in S PROVE n + 1 \in S
    <3> SUFFICES ASSUME n + 1 <= k PROVE C[n + 1] = A[n + 1]
      OBVIOUS
    <3>1. n <= k /\ n + 1 \in 1..k /\ n + 1 \in 1..(k + Len(b)) /\ (n + 1) - 1 = n
      BY <1>1
    <3>2. C[n] = A[n]
      BY <2>2, <3>1
    <3> QED BY <1>1, <1>2, <1>4, <3>1, <3>2
  <2> HIDE DEF S
  <2>3. Nat \subseteq S
    BY <2>1, <2>2, SetInduction
  <2> QED BY <1>1, <2>3 DEF S
<1>6. C[k + Len(b)] = B[Len(b)]
  <2> DEFINE S == {n \in Nat : n <= Len(b) => C[k + n] = B[n]}
  <2>1. 0 \in S
    BY <1>1, <1>2, <1>3, <1>5
  <2>2. ASSUME NEW n \in Nat, n \in S PROVE n + 1 \in S
    <3> SUFFICES ASSUME n + 1 <= Len(b) PROVE C[k + (n + 1)] = B[n + 1]
      OBVIOUS
    <3>1. n <= Len(b) /\ n + 1 \in 1..Len(b) /\ k + (n + 1) \in 1..(k + Len(b))
      BY <1>1
    <3>2. (n + 1) - 1 = n /\ (k + (n + 1)) - 1 = k + n
      BY <1>1
    <3>3. C[k + n] = B[n]
      BY <2>2, <3>1
    <3>4. (a \o b)[k + (n + 1)] = b[n + 1]
      BY <1>1, <3>1
    <3>5. C[k + (n + 1)] = ReadLine(C[k + n], b[n + 1])
      BY <1>4, <3>1, <3>2, <3>4
    <3>6. B[n + 1] = ReadLine(B[n], b[n + 1])
      BY <1>3, <3>1, <3>2
    <3> QED BY <3>3, <3>5, <3>6
  <2> HIDE DEF S
  <2>3. Nat \subseteq S
    BY <2>1, <2>2, SetInduction
  <2> QED BY <1>1, <2>3 DEF S
<1> QED BY <1>3, <1>4, <1>6

\* What the loop keeps between two lines.
Reader(r) == DOMAIN r = {"at", "url", "age", "store", "thrown"}

\* After an exception, and where a hash is read from a line that is none, nothing is
\* stored any more.
LEMMA ReadNothing ==
  ASSUME NEW r, Reader(r), r.thrown = FALSE => r.at = "hash", r.thrown \in BOOLEAN,
         NEW L, NEW x \in Seq(L), x # <<>> => x[1].is # "number"
  PROVE  LET q == ReadOn(r, x)
         IN  /\ Reader(q) /\ q.store = r.store /\ q.thrown \in BOOLEAN
             /\ q.thrown = FALSE => q.at = "hash"
<1> DEFINE R == ReadFrom(r, x)
           Still(q) == /\ Reader(q) /\ q.store = r.store /\ q.thrown \in BOOLEAN
                       /\ q.thrown = FALSE => q.at = "hash"
<1>1. Len(x) \in Nat /\ (Len(x) > 0 => x # <<>>)
  OBVIOUS
<1>2. ReadOn(r, x) = R[Len(x)] /\ R[0] = r /\ \A n \in 1..Len(x) : R[n] = ReadLine(R[n - 1], x[n])
  BY <1>1, ReadOnIs
<1> DEFINE After(n) == Still(R[n]) /\ (n > 0 => R[n].thrown = TRUE)
           S == {n \in Nat : n <= Len(x) => After(n)}
<1> HIDE DEF R
<1>3. 0 \in S
  BY <1>2
<1>4. ASSUME NEW n \in Nat, n \in S PROVE n + 1 \in S
  <2> SUFFICES ASSUME n + 1 <= Len(x) PROVE After(n + 1)
    <3> HIDE DEF After
    <3> QED OBVIOUS
  <2>1. n <= Len(x) /\ n + 1 \in 1..Len(x) /\ (n + 1) - 1 = n
    BY <1>1
  <2>2. R[n + 1] = ReadLine(R[n], x[n + 1])
    BY <1>2, <2>1
  <2>3. Still(R[n]) /\ (n > 0 => R[n].thrown = TRUE)
    BY <1>4, <2>1
  <2>4. CASE R[n].thrown = TRUE
    BY <2>2, <2>3, <2>4 DEF ReadLine
  <2>5. CASE R[n].thrown = FALSE
    <3>1. n = 0 /\ R[n].at = "hash"
      BY <2>3, <2>5
    <3>2. x[n + 1].is # "number"
      BY <1>1, <2>1, <3>1
    <3>3. R[n + 1] = [R[n] EXCEPT !.thrown = TRUE]
      BY <2>2, <2>5, <3>1, <3>2 DEF ReadLine, Unreadable
    <3> QED BY <2>3, <3>3 DEF Reader
  <2> QED BY <2>3, <2>4, <2>5
<1> HIDE DEF S
<1>5. Nat \subseteq S
  BY <1>3, <1>4, SetInduction
<1>6. Still(R[Len(x)])
  <2> HIDE DEF Still
  <2> QED BY <1>1, <1>5 DEF S
<1> QED BY <1>2, <1>6

\* Every line save() can write, and the lines of an entry.
FileLine == {UrlLine(u) : u \in Urls} \cup {NumberLine(n) : n \in 0..OldAge}
               \cup {TextLine(c) : c \in Contents}

\* The lines of an entry by their places.
LEMMA EntryLinesAre ==
  ASSUME NEW u \in Urls, NEW e \in Entries
  PROVE  LET x == EntryLines(u, e)
             text == Lines[e.content]
         IN  /\ x \in Seq(FileLine) /\ Len(text) \in Nat /\ Len(text) > 0 /\ Len(x) = 3 + Len(text)
             /\ x[1] = UrlLine(u) /\ x[2] = NumberLine(0) /\ x[3] = NumberLine(e.age)
             /\ \A n \in 1..Len(text) : text[n] \in Contents /\ x[3 + n] = TextLine(text[n])
<1> DEFINE text == Lines[e.content]
           head == <<UrlLine(u), NumberLine(0), NumberLine(e.age)>>
           tail == [n \in DOMAIN text |-> TextLine(text[n])]
<1>1. e.content \in Contents /\ e.age \in 0..OldAge /\ OldAge \in Nat
  BY CacheAssumption DEF Entries, OldAge
<1>2. text \in Seq(Contents) /\ text # <<>>
  BY <1>1, CacheAssumption
<1>3. /\ Len(text) \in Nat /\ Len(text) > 0 /\ DOMAIN text = 1..Len(text)
      /\ \A n \in 1..Len(text) : text[n] \in Contents
  BY <1>2
<1>4. tail \in Seq(FileLine) /\ Len(tail) = Len(text)
  <2> HIDE DEF text
  <2>1. tail = [n \in 1..Len(text) |-> TextLine(text[n])]
    BY <1>3
  <2>2. \A n \in 1..Len(text) : TextLine(text[n]) \in FileLine
    BY <1>3 DEF FileLine
  <2> QED BY <1>3, <2>1, <2>2
<1>5. head \in Seq(FileLine) /\ Len(head) = 3
  <2>1. /\ UrlLine(u) \in FileLine /\ NumberLine(0) \in FileLine
        /\ NumberLine(e.age) \in FileLine
    BY <1>1 DEF FileLine
  <2> QED BY <2>1
<1>6. EntryLines(u, e) = head \o tail
  BY DEF EntryLines
<1>7. head[1] = UrlLine(u) /\ head[2] = NumberLine(0) /\ head[3] = NumberLine(e.age)
  OBVIOUS
<1>8. \A n \in 1..Len(text) : tail[n] = TextLine(text[n])
  BY <1>3
<1> HIDE DEF text, head, tail
<1>9. /\ head \o tail \in Seq(FileLine) /\ Len(head \o tail) = 3 + Len(text)
      /\ \A n \in 1..Len(head) : (head \o tail)[n] = head[n]
      /\ \A n \in 1..Len(tail) : (head \o tail)[Len(head) + n] = tail[n]
  <2>1. head \in Seq(FileLine) /\ tail \in Seq(FileLine)
    BY <1>4, <1>5
  <2>2. /\ head \o tail \in Seq(FileLine) /\ Len(head \o tail) = Len(head) + Len(tail)
        /\ \A n \in 1..Len(head) : (head \o tail)[n] = head[n]
        /\ \A n \in 1..Len(tail) : (head \o tail)[Len(head) + n] = tail[n]
    <3>1. \A a, b \in Seq(FileLine) :
            /\ a \o b \in Seq(FileLine) /\ Len(a \o b) = Len(a) + Len(b)
            /\ \A n \in 1..Len(a) : (a \o b)[n] = a[n]
            /\ \A n \in 1..Len(b) : (a \o b)[Len(a) + n] = b[n]
      BY Joined
    <3> QED BY <2>1, <3>1
  <2> QED BY <1>4, <1>5, <2>2
<1>10. 1 \in 1..Len(head) /\ 2 \in 1..Len(head) /\ 3 \in 1..Len(head)
  BY <1>5
<1>11. \A n \in 1..Len(text) : (head \o tail)[3 + n] = TextLine(text[n])
  BY <1>4, <1>5, <1>8, <1>9
<1>12. /\ (head \o tail)[1] = UrlLine(u) /\ (head \o tail)[2] = NumberLine(0)
       /\ (head \o tail)[3] = NumberLine(e.age)
  BY <1>7, <1>9, <1>10
<1> QED BY <1>3, <1>6, <1>9, <1>11, <1>12 DEF text

\* An entry whose first line is taken for a URL is stored with its first line; of more
\* lines the second is taken for the next URL, and nothing is stored any more.
AfterEntry(q, r, u, e) ==
    /\ Reader(q) /\ q.thrown \in BOOLEAN
    /\ q.store = [r.store EXCEPT ![u] = [content |-> Lines[e.content][1], age |-> e.age]]
    /\ IF SeveralLines(e) THEN q.thrown = FALSE => q.at = "hash"
                          ELSE q.thrown = FALSE /\ q.at = "url"

LEMMA ReadEntry ==
  ASSUME NEW r, Reader(r), r.at = "url", r.thrown = FALSE, r.store \in Stores,
         NEW u \in Urls, NEW e \in Entries
  PROVE  AfterEntry(ReadOn(r, EntryLines(u, e)), r, u, e)
<1> DEFINE x == EntryLines(u, e)
           text == Lines[e.content]
           R == ReadFrom(r, x)
           stored == [r.store EXCEPT ![u] = [content |-> text[1], age |-> e.age]]
<1>1. /\ Len(text) \in Nat /\ Len(text) > 0 /\ Len(x) = 3 + Len(text)
      /\ x[1] = UrlLine(u) /\ x[2] = NumberLine(0) /\ x[3] = NumberLine(e.age)
      /\ \A n \in 1..Len(text) : text[n] \in Contents /\ x[3 + n] = TextLine(text[n])
  BY EntryLinesAre
<1>2. Len(x) \in Nat
  BY <1>1
<1> HIDE DEF x, text
<1>3. ReadOn(r, x) = R[Len(x)] /\ R[0] = r /\ \A n \in 1..Len(x) : R[n] = ReadLine(R[n - 1], x[n])
  BY <1>2, ReadOnIs
<1> HIDE DEF R
<1>4. /\ R[1] = ReadLine(R[0], x[1]) /\ R[2] = ReadLine(R[1], x[2])
      /\ R[3] = ReadLine(R[2], x[3]) /\ R[4] = ReadLine(R[3], x[4])
      /\ x[4] = TextLine(text[1])
  <2>1. 1 \in 1..Len(x) /\ 2 \in 1..Len(x) /\ 3 \in 1..Len(x) /\ 4 \in 1..Len(x)
        /\ 1 \in 1..Len(text)
    BY <1>1
  <2>2. 1 - 1 = 0 /\ 2 - 1 = 1 /\ 3 - 1 = 2 /\ 4 - 1 = 3 /\ 3 + 1 = 4
    OBVIOUS
  <2> QED BY <1>1, <1>3, <2>1, <2>2
<1>5. /\ Reader(R[1]) /\ R[1].at = "hash" /\ R[1].thrown = FALSE /\ R[1].store = r.store
      /\ R[1].url = UrlLine(u)
  <2>1. R[1] = [r EXCEPT !.at = "hash", !.url = UrlLine(u)]
    BY <1>1, <1>3, <1>4 DEF ReadLine, Unreadable, Field
  <2> QED BY <2>1 DEF Reader
<1>6. /\ Reader(R[2]) /\ R[2].at = "time" /\ R[2].thrown = FALSE /\ R[2].store = r.store
      /\ R[2].url = UrlLine(u)
  <2>1. R[2] = [R[1] EXCEPT !.at = "time"]
    <3>1. x[2].is = "number" /\ R[2] = ReadLine(R[1], x[2])
      BY <1>1, <1>4 DEF NumberLine
    <3> QED BY <1>5, <3>1 DEF ReadLine, Unreadable, Field
  <2> QED BY <1>5, <2>1 DEF Reader
<1>7. /\ Reader(R[3]) /\ R[3].at = "content" /\ R[3].thrown = FALSE /\ R[3].store = r.store
      /\ R[3].url = UrlLine(u) /\ R[3].age = e.age
  <2>1. R[3] = [R[2] EXCEPT !.at = "content", !.age = e.age]
    <3>1. x[3].is = "number" /\ x[3].val = e.age /\ R[3] = ReadLine(R[2], x[3])
      BY <1>1, <1>4 DEF NumberLine
    <3> QED BY <1>6, <3>1 DEF ReadLine, Unreadable, Field
  <2> QED BY <1>6, <2>1 DEF Reader
<1>8. Reader(R[4]) /\ R[4].at = "url" /\ R[4].thrown = FALSE /\ R[4].store = stored
  <2>1. Stored(R[3], x[4]) = stored
    BY <1>4, <1>7 DEF Stored, UrlLine, TextLine
  <2> HIDE DEF stored
  <2> QED BY <1>4, <1>7, <2>1 DEF ReadLine, Unreadable, Field, Reader
<1> HIDE DEF stored
<1>9. CASE ~SeveralLines(e)
  <2>1. Len(x) = 4
    BY <1>1, <1>9 DEF SeveralLines, text
  <2> QED BY <1>3, <1>8, <1>9, <2>1 DEF x, stored, text, AfterEntry
<1>10. CASE SeveralLines(e)
  <2> DEFINE After(n) == /\ Reader(R[n]) /\ R[n].store = stored /\ R[n].thrown \in BOOLEAN
                         /\ R[n].thrown = FALSE => R[n].at = "hash"
             S == {n \in Nat : 5 + n <= Len(x) => After(5 + n)}
  <2>1. 0 \in S
    <3>1. 5 \in 1..Len(x) /\ 5 - 1 = 4
      BY <1>1, <1>10 DEF SeveralLines, text
    <3>2. R[5] = ReadLine(R[4], x[5])
      BY <1>3, <3>1
    <3>3. R[5] = [R[4] EXCEPT !.at = "hash", !.url = x[5]]
      BY <1>8, <3>2 DEF ReadLine, Unreadable, Field
    <3>4. After(5)
      BY <1>8, <3>3 DEF Reader
    <3> HIDE DEF After
    <3> QED BY <3>4
  <2>2. ASSUME NEW n \in Nat, n \in S PROVE n + 1 \in S
    <3> DEFINE m == 5 + n
    <3> SUFFICES ASSUME m + 1 <= Len(x) PROVE After(m + 1)
      <4> HIDE DEF After
      <4> QED OBVIOUS
    <3>1. m <= Len(x) /\ m + 1 \in 1..Len(x) /\ (m + 1) - 1 = m
      BY <1>1
    <3>2. R[m + 1] = ReadLine(R[m], x[m + 1])
      BY <1>3, <3>1
    <3>3. After(m)
      BY <2>2, <3>1
    <3>4. x[m + 1].is = "text"
      <4>1. n + 3 \in 1..Len(text) /\ 3 + (n + 3) = m + 1
        BY <1>1
      <4>2. x[m + 1] = TextLine(text[n + 3])
        <5> HIDE DEF m
        <5> QED BY <1>1, <4>1
      <4> HIDE DEF m
      <4> QED BY <4>2 DEF TextLine
    <3> HIDE DEF m
    <3>5. CASE R[m].thrown = TRUE
      BY <3>2, <3>3, <3>5 DEF ReadLine
    <3>6. CASE R[m].thrown = FALSE
      <4>1. R[m + 1] = [R[m] EXCEPT !.thrown = TRUE]
        BY <3>2, <3>3, <3>4, <3>6 DEF ReadLine, Unreadable
      <4> QED BY <3>3, <4>1 DEF Reader
    <3> QED BY <3>3, <3>5, <3>6
  <2> HIDE DEF After, S
  <2>3. Nat \subseteq S
    BY <2>1, <2>2, SetInduction
  <2>4. Len(x) - 5 \in Nat /\ 5 + (Len(x) - 5) = Len(x)
    BY <1>1, <1>10 DEF SeveralLines, text
  <2>5. After(Len(x))
    BY <2>3, <2>4 DEF S
  <2> QED BY <1>3, <1>10, <2>5 DEF After, x, stored, text, AfterEntry
<1> QED BY <1>9, <1>10

\* After the entries of the first n URLs: what Loaded says of them is stored, and the
\* loop waits for a URL unless one of them has several lines.
Several(s, n) == \E i \in 1..n : s[Order[i]] # None /\ SeveralLines(s[Order[i]])

ReadSoFar(s, n) ==
    LET r == ReadOn(LoadStart, WrittenFor(s)[n])
    IN  /\ WrittenFor(s)[n] \in Seq(FileLine)
        /\ Reader(r) /\ r.thrown \in BOOLEAN
        /\ r.store = [u \in Urls |-> IF \E i \in 1..n : Order[i] = u THEN Loaded(s)[u] ELSE None]
        /\ IF Several(s, n) THEN r.thrown = FALSE => r.at = "hash"
                            ELSE r.thrown = FALSE /\ r.at = "url"

\* Without lines nothing is read.
LEMMA ReadNone == ASSUME NEW r PROVE ReadOn(r, <<>>) = r
<1>1. Len(<<>>) = 0
  OBVIOUS
<1> QED BY <1>1, ReadOnIs

\* Where the loop is after the entries of n URLs tells where it is after one more.
LEMMA ReadNext ==
  ASSUME NEW s \in Stores, NEW n \in Nat, n + 1 <= Len(Order), ReadSoFar(s, n)
  PROVE  ReadSoFar(s, n + 1)
<1> DEFINE m == n + 1
           v == Order[m]
           r == ReadOn(LoadStart, WrittenFor(s)[n])
           q == ReadOn(LoadStart, WrittenFor(s)[m])
           known(i) == [u \in Urls |-> IF \E j \in 1..i : Order[j] = u THEN Loaded(s)[u] ELSE None]
<1>1. /\ Len(Order) \in Nat /\ DOMAIN Order = 1..Len(Order) /\ m \in 1..Len(Order) /\ m - 1 = n
      /\ n <= Len(Order) /\ \A i : i \in 1..m <=> i \in 1..n \/ i = m
  BY FileLinesAre
<1>2. WrittenFor(s)[m] = WrittenFor(s)[n] \o Part(s, m)
  BY <1>1, FileLinesAre
<1>3. v \in Urls /\ s[v] \in Entries \cup {None} /\ \A i \in 1..n : Order[i] # v
  <2>1. v \in Urls
    BY <1>1, CacheAssumption
  <2>2. ASSUME NEW i \in 1..n PROVE Order[i] # v
    <3>1. i \in DOMAIN Order /\ m \in DOMAIN Order /\ i # m
      BY <1>1
    <3> QED BY <3>1, CacheAssumption
  <2> QED BY <2>1, <2>2 DEF Stores
<1>4. /\ WrittenFor(s)[n] \in Seq(FileLine) /\ Reader(r) /\ r.thrown \in BOOLEAN
      /\ r.store = known(n)
      /\ IF Several(s, n) THEN r.thrown = FALSE => r.at = "hash"
                          ELSE r.thrown = FALSE /\ r.at = "url"
  BY DEF ReadSoFar
<1>5. Part(s, m) \in Seq(FileLine) /\ (s[v] = None => Part(s, m) = <<>>)
      /\ (s[v] # None => Part(s, m) = EntryLines(v, s[v]))
  BY <1>3, EntryLinesAre DEF Part
<1> HIDE DEF r, q, known
<1>6. q = ReadOn(r, Part(s, m)) /\ WrittenFor(s)[m] \in Seq(FileLine)
  BY <1>2, <1>4, <1>5, ReadRest DEF q, r
<1>7. /\ known(n) \in Stores /\ known(n)[v] = None
      /\ known(m) = [known(n) EXCEPT ![v] = Loaded(s)[v]]
      /\ Loaded(s)[v] = None => known(m) = known(n)
  <2>1. known(n) \in Stores
    BY LoadedType DEF known, Stores
  <2>2. known(n)[v] = None
    BY <1>3 DEF known
  <2>3. ASSUME NEW u \in Urls
        PROVE  known(m)[u] = IF u = v THEN Loaded(s)[v] ELSE known(n)[u]
    BY <1>1, <1>3 DEF known
  <2>4. known(m) = [u \in Urls |-> known(m)[u]] /\ known(n) = [u \in Urls |-> known(n)[u]]
    BY DEF known
  <2> HIDE DEF v, m, known
  <2>5. known(m) = [known(n) EXCEPT ![v] = Loaded(s)[v]]
    BY <2>3, <2>4
  <2> QED BY <2>1, <2>2, <2>3, <2>4, <2>5
<1>8. Several(s, m) <=> Several(s, n) \/ (s[v] # None /\ SeveralLines(s[v]))
  BY <1>1 DEF Several
<1>9. (\E w \in Urls : Before(w, v) /\ s[w] # None /\ SeveralLines(s[w])) <=> Several(s, n)
  <2>1. ASSUME NEW w \in Urls, Before(w, v), s[w] # None, SeveralLines(s[w]) PROVE Several(s, n)
    <3>1. PICK i, j \in DOMAIN Order : i < j /\ Order[i] = w /\ Order[j] = v
      BY <2>1 DEF Before
    <3>2. j = m /\ i \in 1..n
      BY <1>1, <3>1, CacheAssumption
    <3> QED BY <2>1, <3>1, <3>2 DEF Several
  <2>2. ASSUME NEW i \in 1..n, s[Order[i]] # None, SeveralLines(s[Order[i]])
        PROVE  \E w \in Urls : Before(w, v) /\ s[w] # None /\ SeveralLines(s[w])
    <3>1. i \in DOMAIN Order /\ m \in DOMAIN Order /\ i < m
      BY <1>1
    <3>2. Order[i] \in Urls /\ Before(Order[i], v)
      BY <3>1, CacheAssumption DEF Before
    <3> QED BY <2>2, <3>2
  <2> QED BY <2>1, <2>2 DEF Several
<1>10. Loaded(s)[v] = IF s[v] = None \/ Several(s, n) THEN None
                      ELSE [content |-> Lines[s[v].content][1], age |-> s[v].age]
  BY <1>3, <1>9 DEF Loaded
<1> DEFINE Goal == /\ Reader(q) /\ q.thrown \in BOOLEAN /\ q.store = known(m)
                   /\ IF Several(s, m) THEN q.thrown = FALSE => q.at = "hash"
                                       ELSE q.thrown = FALSE /\ q.at = "url"
<1> SUFFICES Goal
  BY <1>6 DEF ReadSoFar, q, known
<1> HIDE DEF v, m
<1>11. CASE s[v] = None
  <2>1. q = r
    BY <1>5, <1>6, <1>11, ReadNone
  <2>2. known(m) = known(n)
    BY <1>7, <1>10, <1>11
  <2> QED BY <1>4, <1>8, <1>11, <2>1, <2>2
<1>12. CASE s[v] # None /\ Several(s, n)
  <2>1. Part(s, m)[1].is # "number"
    <3>1. EntryLines(v, s[v])[1] = UrlLine(v)
      BY <1>3, <1>12, EntryLinesAre
    <3> QED BY <1>5, <1>12, <3>1 DEF UrlLine
  <2>2. /\ Reader(q) /\ q.store = r.store /\ q.thrown \in BOOLEAN
        /\ q.thrown = FALSE => q.at = "hash"
    BY <1>4, <1>5, <1>6, <1>12, <2>1, ReadNothing
  <2>3. known(m) = known(n)
    BY <1>7, <1>10, <1>12
  <2> QED BY <1>4, <1>8, <1>12, <2>2, <2>3
<1>13. CASE s[v] # None /\ ~Several(s, n)
  <2>1. AfterEntry(q, r, v, s[v])
    <3>1. /\ v \in Urls /\ s[v] \in Entries /\ q = ReadOn(r, EntryLines(v, s[v]))
          /\ Reader(r) /\ r.at = "url" /\ r.thrown = FALSE /\ r.store \in Stores
      BY <1>3, <1>4, <1>5, <1>6, <1>7, <1>13
    <3>2. AfterEntry(ReadOn(r, EntryLines(v, s[v])), r, v, s[v])
      BY <3>1, ReadEntry
    <3> QED BY <3>1, <3>2
  <2> QED BY <1>4, <1>7, <1>8, <1>10, <1>13, <2>1 DEF AfterEntry
<1> QED BY <1>11, <1>12, <1>13

\* After the entries of all URLs everything Loaded says of them is stored.
LEMMA ReadIsLoaded == ASSUME NEW s \in Stores PROVE Read(s).store = Loaded(s)
<1> DEFINE S == {n \in Nat : n <= Len(Order) => ReadSoFar(s, n)}
<1>1. 0 \in S
  <2>1. WrittenFor(s)[0] = <<>> /\ ReadOn(LoadStart, <<>>) = LoadStart
    BY FileLinesAre, ReadNone
  <2>2. /\ Reader(LoadStart) /\ LoadStart.at = "url" /\ LoadStart.thrown = FALSE
        /\ LoadStart.store = [u \in Urls |-> None]
    BY DEF LoadStart, Reader, NoEntry
  <2>3. (\A u : ~(\E i \in 1..0 : Order[i] = u)) /\ ~Several(s, 0)
    BY DEF Several
  <2>4. WrittenFor(s)[0] \in Seq(FileLine)
    BY <2>1
  <2>5. [u \in Urls |-> IF \E i \in 1..0 : Order[i] = u THEN Loaded(s)[u] ELSE None]
           = [u \in Urls |-> None]
    BY <2>3
  <2>6. ReadSoFar(s, 0)
    BY <2>1, <2>2, <2>3, <2>4, <2>5 DEF ReadSoFar
  <2> QED BY <2>6
<1>2. ASSUME NEW n \in Nat, n \in S PROVE n + 1 \in S
  <2> SUFFICES ASSUME n + 1 <= Len(Order) PROVE ReadSoFar(s, n + 1)
    OBVIOUS
  <2>1. n <= Len(Order)
    BY FileLinesAre
  <2> QED BY <1>2, <2>1, ReadNext
<1> HIDE DEF S
<1>3. Nat \subseteq S
  BY <1>1, <1>2, SetInduction
<1>4. Len(Order) \in Nat /\ DOMAIN Order = 1..Len(Order) /\ ReadSoFar(s, Len(Order))
  BY <1>3, FileLinesAre DEF S
<1>5. Read(s) = ReadOn(LoadStart, WrittenFor(s)[Len(Order)])
  BY FileLinesAre DEF Read
<1>6. ASSUME NEW u \in Urls PROVE \E i \in 1..Len(Order) : Order[i] = u
  BY <1>4, <1>6 DEF Urls, ToSet
<1>7. Read(s).store = [u \in Urls |-> Loaded(s)[u]]
  BY <1>4, <1>5, <1>6 DEF ReadSoFar
<1> QED BY <1>7 DEF Loaded

-----------------------------------------------------------------------------
\* The initial states satisfy the inductive invariant.
LEMMA InitIInv == Init => IInv
<1> SUFFICES ASSUME Init PROVE IInv
  OBVIOUS
<1>1. NoEntry \in Stores /\ \A u \in Urls : NoEntry[u] = None
  BY DEF NoEntry, Stores
<1>2. TypeOK
  <2>1. CacheTypeOK /\ fetched \in [Urls -> Contents \cup {None}]
    BY <1>1 DEF Init, CacheInit, CacheTypeOK, Nothing
  <2>2. given \in [Urls -> [Contents -> 0..OldAge]]
    <3>1. [c \in Contents |-> OldAge] \in [Contents -> 0..OldAge]
      BY AgeGrows
    <3> QED BY <3>1 DEF Init
  <2>3. cached \in BOOLEAN /\ calm \in BOOLEAN
    BY Zenon DEF Init
  <2>4. /\ urls \subseteq Urls /\ todo \subseteq urls /\ failed \subseteq urls
        /\ pc = "idle" /\ cur = None /\ attempt \in 0..Retries /\ outcome = "none"
        /\ server \in [Urls -> Contents] /\ \A u \in Urls : server[u] \in Served[u]
    BY ManagerAssumption DEF Init
  <2> QED BY <2>1, <2>2, <2>3, <2>4 DEF TypeOK
<1>3. FailureIsIsolated /\ EntriesBacked
  BY <1>1 DEF Init, CacheInit, FailureIsIsolated, EntriesBacked
<1> QED BY <1>2, <1>3 DEF IInv

-----------------------------------------------------------------------------
\* Every step keeps the types.
LEMMA StepType == IInv /\ [Next]_vars => TypeOK'
<1> SUFFICES ASSUME TypeOK, [Next]_vars PROVE TypeOK'
  BY DEF IInv
<1> USE DEF TypeOK, CacheTypeOK
<1>1. CASE Tick
  <2>1. store' \in Stores /\ (file' = None \/ file' \in Stores)
    BY <1>1, OlderType DEF Tick, TimePasses
  <2>2. given' \in [Urls -> [Contents -> 0..OldAge]]
    <3>1. ASSUME NEW u \in Urls, NEW c \in Contents
          PROVE  (IF given[u][c] = OldAge THEN OldAge ELSE given[u][c] + 1) \in 0..OldAge
      BY AgeGrows
    <3>2. \A u \in Urls :
            [c \in Contents |-> IF given[u][c] = OldAge THEN OldAge ELSE given[u][c] + 1]
               \in [Contents -> 0..OldAge]
      BY <3>1
    <3> QED BY <1>1, <3>2 DEF Tick
  <2> QED BY <1>1, <2>1, <2>2 DEF Tick, call
<1>2. CASE Settle
  BY <1>2, Zenon DEF Settle, cache, call
<1>3. ASSUME NEW u \in Urls, NEW c \in Served[u], Publish(u, c) PROVE TypeOK'
  <2>1. c \in Contents
    BY ManagerAssumption
  <2>2. server' \in [Urls -> Contents] /\ \A v \in Urls : server'[v] \in Served[v]
    BY <1>3, <2>1 DEF Publish
  <2> QED BY <1>3, <2>2 DEF Publish, cache, call
<1>4. CASE UseCache
  <2>1. store' \in Stores /\ (file' = None \/ file' \in Stores)
    BY <1>4, LoadedType
       DEF UseCache, CacheRemove, CacheClear, CacheSave, CacheLoad, NoEntry, Stores
  <2> QED BY <1>4, <2>1 DEF UseCache, call, net
<1>5. ASSUME NEW u \in Urls, AddCalendarUrl(u) PROVE TypeOK'
  BY <1>5 DEF AddCalendarUrl, cache, call, net
<1>6. CASE GetNextEvents
  BY <1>6 DEF GetNextEvents, Nothing, cache, net
<1>7. ASSUME NEW u \in Urls, NEW c \in Contents, Parse(u, c)
      PROVE  /\ fetched' \in [Urls -> Contents \cup {None}]
             /\ pc' \in {"idle", "load"} /\ todo' \subseteq urls /\ cur' = None
             /\ attempt' \in 0..Retries /\ outcome' \in {"none", "events", "thrown"}
  BY <1>7, ManagerAssumption DEF Parse
<1>8. CASE CacheHit
  <2>1. PICK u \in todo : Hit(u) /\ Parse(u, store[u].content)
    BY <1>8 DEF CacheHit
  <2>2. store[u].content \in Contents
    BY <2>1 DEF Hit, Stores, Entries
  <2> QED BY <1>7, <1>8, <2>1, <2>2 DEF CacheHit, cache, net
<1>9. CASE CacheMiss
  BY <1>9, CacheAssumption, ManagerAssumption DEF CacheMiss, cache, net
<1>10. ASSUME NEW r \in Responses, FetchContent(r) PROVE TypeOK'
  <2>1. cur \in Urls /\ server[cur] \in Contents /\ Parse(cur, server[cur])
    BY <1>10 DEF FetchContent
  <2>2. store' \in Stores
    BY <1>10, <2>1, PutType DEF FetchContent
  <2>3. given' \in [Urls -> [Contents -> 0..OldAge]]
    <3>1. 0 \in 0..OldAge
      BY CacheAssumption DEF OldAge
    <3>2. [given[cur] EXCEPT ![server[cur]] = 0] \in [Contents -> 0..OldAge]
      BY <2>1, <3>1
    <3> QED BY <1>10, <2>1, <3>2 DEF FetchContent
  <2> QED BY <1>7, <1>10, <2>1, <2>2, <2>3 DEF FetchContent
<1>11. ASSUME FallBack, pc = "fetch" PROVE TypeOK'
  <2>1. cur \in Urls
    BY <1>11
  <2>2. CASE StaleHit(cur) /\ Parse(cur, store[cur].content)
    <3>1. store[cur].content \in Contents
      BY <2>1, <2>2 DEF StaleHit, Stores, Entries
    <3> QED BY <1>7, <1>11, <2>1, <2>2, <3>1 DEF FallBack, cache, net
  <2>3. CASE Skip
    BY <1>11, <2>3, ManagerAssumption DEF FallBack, Skip, GoOn, cache, net
  <2> QED BY <1>11, <2>2, <2>3 DEF FallBack
<1>12. ASSUME NEW r \in Responses, FetchNothing(r) PROVE TypeOK'
  BY <1>11, <1>12 DEF FetchNothing
<1>13. ASSUME NEW r \in Responses, FetchAgain(r) PROVE TypeOK'
  BY <1>13, ManagerAssumption DEF FetchAgain, MoreAttempts, cache, net
<1>14. CASE Return
  BY <1>14 DEF Return, cache, net
<1>15. CASE UNCHANGED vars
  BY <1>15 DEF vars, cache, call, net
<1> QED
  BY <1>1, <1>2, <1>3, <1>4, <1>5, <1>6, <1>8, <1>9, <1>10, <1>12, <1>13, <1>14, <1>15
     DEF Next, Loading

-----------------------------------------------------------------------------
\* Every step keeps the cache backed by what the servers gave.
LEMMA OlderBacked ==
  ASSUME TypeOK, Tick, NEW s \in Stores, NEW u \in Urls, Older(s)[u] # None, Backed(u, s[u])
  PROVE  \E k \in Contents : /\ given'[u][k] <= Older(s)[u].age
                              /\ Older(s)[u].content \in {k, Lines[k][1]}
<1>1. s[u] \in Entries
  BY DEF Stores, Older
<1>2. s[u].age \in 0..OldAge
  BY <1>1 DEF Entries
<1>3. PICK k \in Contents : given[u][k] <= s[u].age /\ s[u].content \in {k, Lines[k][1]}
  BY DEF Backed
<1>4. /\ Older(s)[u].content = s[u].content
      /\ Older(s)[u].age = IF s[u].age = OldAge THEN OldAge ELSE s[u].age + 1
  BY DEF Older
<1>5. /\ given'[u][k] = IF given[u][k] = OldAge THEN OldAge ELSE given[u][k] + 1
      /\ given[u][k] \in 0..OldAge
  BY DEF Tick, TypeOK
<1>6. OldAge \in Nat
  BY CacheAssumption DEF OldAge
<1>7. given'[u][k] <= Older(s)[u].age
  BY <1>2, <1>3, <1>4, <1>5, <1>6
<1> QED BY <1>3, <1>4, <1>7

\* Every step keeps the entries of the cache backed by an answer of their server.
LEMMA StepBacked == IInv /\ [Next]_vars => EntriesBacked'
<1> SUFFICES ASSUME IInv, [Next]_vars, NEW u \in Urls
             PROVE  (/\ store[u] # None => Backed(u, store[u])
                     /\ file # None => (file[u] # None => Backed(u, file[u])))'
  BY DEF EntriesBacked
<1> DEFINE Goal == (/\ store[u] # None => Backed(u, store[u])
                    /\ file # None => (file[u] # None => Backed(u, file[u])))'
<1>1. TypeOK /\ TypeOK' /\ EntriesBacked
  BY StepType DEF IInv
<1>2. CASE Tick
  <2>1. store \in Stores /\ store' = Older(store)
    BY <1>1, <1>2 DEF Tick, TimePasses, TypeOK, CacheTypeOK
  <2>2. ASSUME store'[u] # None PROVE Backed(u, store[u])'
    <3>1. Older(store)[u] # None /\ Backed(u, store[u])
      BY <1>1, <2>1, <2>2 DEF EntriesBacked, Older
    <3> QED BY <1>1, <1>2, <2>1, <3>1, OlderBacked DEF Backed
  <2>3. ASSUME file' # None, file'[u] # None PROVE Backed(u, file[u])'
    <3>1. file \in Stores /\ file' = Older(file)
      BY <1>1, <1>2, <2>3 DEF Tick, TimePasses, TypeOK, CacheTypeOK
    <3>2. Older(file)[u] # None /\ file # None
      BY <1>2, <2>3, <3>1 DEF Tick, TimePasses
    <3>3. Backed(u, file[u])
      BY <1>1, <3>2 DEF EntriesBacked, Older
    <3> QED BY <1>1, <1>2, <3>1, <3>2, <3>3, OlderBacked DEF Backed
  <2> QED BY <2>2, <2>3
<1>3. CASE UNCHANGED <<cache, given>>
  BY <1>1, <1>3 DEF EntriesBacked, Backed, cache
<1>4. CASE UseCache
  <2>1. given' = given
    BY <1>4 DEF UseCache, net
  <2>2. CASE CacheClear \/ CacheSave \/ \E v \in Urls : CacheRemove(v)
    BY <1>1, <2>1, <2>2
       DEF EntriesBacked, Backed, CacheClear, CacheSave, CacheRemove, NoEntry, TypeOK,
           CacheTypeOK, Stores
  <2>3. CASE CacheLoad
    <3>1. file \in Stores /\ file # None /\ store' = Loaded(file) /\ file' = file
      BY <1>1, <2>3 DEF CacheLoad, TypeOK, CacheTypeOK
    <3>2. ASSUME store'[u] # None PROVE Backed(u, store[u])'
      <4>1. /\ file[u] \in Entries /\ file[u] # None
            /\ store'[u] = [content |-> Lines[file[u].content][1], age |-> file[u].age]
        BY <3>1, <3>2, LoadedType DEF Loaded
      <4>2. PICK k \in Contents :
              given[u][k] <= file[u].age /\ file[u].content \in {k, Lines[k][1]}
        BY <1>1, <3>1, <4>1 DEF EntriesBacked, Backed
      <4>3. Lines[file[u].content][1] \in {k, Lines[k][1]}
        BY <4>2, FirstLine
      <4> QED BY <2>1, <4>1, <4>2, <4>3 DEF Backed
    <3>3. file'[u] # None => Backed(u, file[u])'
      BY <1>1, <2>1, <3>1 DEF EntriesBacked, Backed
    <3> QED BY <3>2, <3>3
  <2> QED BY <1>4, <2>2, <2>3 DEF UseCache
<1>5. ASSUME NEW r \in Responses, FetchContent(r) PROVE Goal
  <2>1. cur \in Urls /\ server[cur] \in Contents
    BY <1>1, <1>5 DEF FetchContent, TypeOK
  <2>2. CASE u = cur
    <3>1. given'[u][server[u]] = 0 /\ \A k \in Contents : given'[u][k] <= given[u][k]
      <4>1. given'[u] = [given[u] EXCEPT ![server[u]] = 0] /\ given[u] \in [Contents -> 0..OldAge]
        BY <1>1, <1>5, <2>1, <2>2 DEF FetchContent, TypeOK
      <4>2. OldAge \in Nat
        BY CacheAssumption DEF OldAge
      <4> QED BY <2>1, <2>2, <4>1, <4>2
    <3>2. \A e \in Entries : Backed(u, e) =>
            \E k \in Contents : given'[u][k] <= e.age /\ e.content \in {k, Lines[k][1]}
      <4> SUFFICES ASSUME NEW e \in Entries, NEW k \in Contents, given[u][k] <= e.age,
                          e.content \in {k, Lines[k][1]}
                   PROVE  given'[u][k] <= e.age
        BY DEF Backed
      <4>1. given'[u][k] \in 0..OldAge /\ given[u][k] \in 0..OldAge /\ e.age \in 0..OldAge
        BY <1>1 DEF TypeOK, Entries
      <4>2. OldAge \in Nat
        BY CacheAssumption DEF OldAge
      <4> QED BY <3>1, <4>1, <4>2
    <3>3. store' = store \/ store'[u] = [content |-> server[u], age |-> 0]
      BY <1>1, <1>5, <2>1, <2>2 DEF FetchContent, Put, TypeOK, CacheTypeOK, Stores
    <3>4. store'[u] # None => Backed(u, store[u])'
      <4>1. CASE store' = store
        BY <1>1, <3>2, <4>1 DEF EntriesBacked, Backed, TypeOK, CacheTypeOK, Stores
      <4>2. CASE store'[u] = [content |-> server[u], age |-> 0]
        BY <2>1, <2>2, <3>1, <4>2 DEF Backed
      <4> QED BY <3>3, <4>1, <4>2
    <3>5. file' = file
      BY <1>5 DEF FetchContent
    <3>6. file' # None /\ file'[u] # None => Backed(u, file[u])'
      BY <1>1, <3>2, <3>5 DEF EntriesBacked, Backed, TypeOK, CacheTypeOK, Stores
    <3> QED BY <3>4, <3>6
  <2>3. CASE u # cur
    <3>1. given'[u] = given[u] /\ store'[u] = store[u] /\ file' = file
      BY <1>5, <2>1, <2>3 DEF FetchContent, Put
    <3> QED BY <1>1, <3>1 DEF EntriesBacked, Backed
  <2> QED BY <2>2, <2>3
<1> QED
  BY <1>2, <1>3, <1>4, <1>5
     DEF Next, Loading, vars, net, Publish, Settle, AddCalendarUrl, GetNextEvents, CacheHit,
         CacheMiss, FetchNothing, FallBack, FetchAgain, Return

-----------------------------------------------------------------------------
\* Every step keeps the calendars that did not fail.
LEMMA StepIsolated == IInv /\ [Next]_vars => FailureIsIsolated'
<1> SUFFICES ASSUME TypeOK, FailureIsIsolated, [Next]_vars PROVE FailureIsIsolated'
  BY DEF IInv
<1> USE DEF FailureIsIsolated
<1>1. CASE UNCHANGED <<urls, call>>
  BY <1>1 DEF call
<1>2. ASSUME pc' = "idle" PROVE FailureIsIsolated'
  BY <1>2
<1>3. CASE GetNextEvents
  BY <1>3 DEF GetNextEvents
<1>4. ASSUME NEW u \in Urls, NEW c \in Contents, Parse(u, c), urls' = urls,
             failed \subseteq failed', pc # "idle", cur \in {None, u}
      PROVE  FailureIsIsolated'
  <2>1. CASE c \in Malformed
    BY <1>4, <2>1 DEF Parse
  <2>2. CASE c \notin Malformed
    <3> SUFFICES ASSUME NEW v \in urls, v \notin todo', v # None
                 PROVE  fetched'[v] # None \/ v \in failed'
      BY <1>4, CacheAssumption DEF TypeOK
    <3>1. fetched'[u] = c /\ \A w \in Urls \ {u} : fetched'[w] = fetched[w]
      BY <1>4, <2>2 DEF Parse, TypeOK
    <3>2. CASE v = u
      BY <3>1, <3>2, CacheAssumption
    <3>3. CASE v # u
      <4>1. v \notin todo \cup {cur}
        BY <1>4, <2>2, <3>3 DEF Parse
      <4> QED BY <1>4, <3>1, <3>3, <4>1 DEF TypeOK
    <3> QED BY <3>2, <3>3
  <2> QED BY <2>1, <2>2
<1>5. CASE CacheHit
  <2>1. PICK u \in todo : Hit(u) /\ Parse(u, store[u].content)
    BY <1>5 DEF CacheHit
  <2>2. u \in Urls /\ store[u].content \in Contents
    BY <2>1 DEF Hit, TypeOK, CacheTypeOK, Stores, Entries
  <2>3. pc = "load" /\ cur = None /\ urls' = urls /\ failed' = failed
    BY <1>5 DEF CacheHit, TypeOK
  <2> QED BY <1>4, <2>1, <2>2, <2>3
<1>6. CASE CacheMiss
  <2>1. PICK u \in todo : cur' = u
    BY <1>6 DEF CacheMiss
  <2> QED BY <1>6, <2>1, CacheAssumption DEF CacheMiss, TypeOK
<1>7. ASSUME NEW r \in Responses, FetchContent(r) PROVE FailureIsIsolated'
  <2>1. cur \in Urls /\ server[cur] \in Contents
    BY <1>7 DEF FetchContent, TypeOK
  <2> QED BY <1>4, <1>7, <2>1 DEF FetchContent
<1>8. ASSUME NEW r \in Responses, FetchNothing(r) PROVE FailureIsIsolated'
  <2>1. cur \in Urls /\ pc = "fetch" /\ urls' = urls /\ failed' = failed \cup {cur}
    BY <1>8 DEF FetchNothing, FallBack, TypeOK
  <2>2. CASE StaleHit(cur) /\ Parse(cur, store[cur].content)
    <3>1. store[cur].content \in Contents
      BY <2>1, <2>2 DEF StaleHit, TypeOK, CacheTypeOK, Stores, Entries
    <3> QED BY <1>4, <2>1, <2>2, <3>1
  <2>3. CASE Skip
    BY <2>1, <2>3 DEF Skip, GoOn
  <2> QED BY <1>8, <2>2, <2>3 DEF FetchNothing, FallBack
<1>9. ASSUME NEW r \in Responses, FetchAgain(r) PROVE FailureIsIsolated'
  BY <1>9 DEF FetchAgain
<1>10. UseCache \/ Return \/ (\E u \in Urls : AddCalendarUrl(u)) => pc' = "idle"
  BY DEF UseCache, AddCalendarUrl, Return, call
<1>11. Tick \/ Settle \/ (\E u \in Urls : \E c \in Served[u] : Publish(u, c))
          \/ UNCHANGED vars => UNCHANGED <<urls, call>>
  BY DEF Tick, Settle, Publish, vars
<1> QED
  BY <1>1, <1>2, <1>3, <1>5, <1>6, <1>7, <1>8, <1>9, <1>10, <1>11 DEF Next, Loading

\* The inductive invariant holds throughout.
LEMMA Invariance == Spec => []IInv
<1>1. IInv /\ [Next]_vars => IInv'
  BY StepType, StepIsolated, StepBacked DEF IInv
<1> QED BY <1>1, InitIInv, PTL DEF Spec

\* Every variable keeps its type, whatever the servers answer and whatever is read
\* from the cache file.
THEOREM TypeCorrect == Spec => []TypeOK
<1>1. IInv => TypeOK
  BY DEF IInv
<1> QED BY <1>1, Invariance, PTL

\* load() finds the entries before the first one of several lines, of that one the
\* first line, and no others: line by line, for any file save() has written
\* (cache.cpp:142-171).
THEOREM LoadCorrect == Spec => []LoadedAsRead
<1>1. TypeOK => LoadedAsRead
  BY ReadIsLoaded DEF TypeOK, CacheTypeOK, LoadedAsRead
<1> QED BY <1>1, TypeCorrect, PTL

\* A calendar that was visited has its events, or its own fetch failed.
THEOREM Isolated == Spec => []FailureIsIsolated
<1>1. IInv => FailureIsIsolated
  BY DEF IInv
<1> QED BY <1>1, Invariance, PTL

-----------------------------------------------------------------------------
\* The step that shows the events of a calendar.
LEMMA StepFresh ==
  IInv /\ [Next]_vars =>
    [\A u \in Urls :
        fetched'[u] # None /\ fetched[u] = None =>
            \/ CameWithin(given'[u], fetched'[u], Ttl)
            \/ u \in failed' /\ CameWithin(given'[u], fetched'[u], Ttl + StaleTtl)]_vars
<1> SUFFICES ASSUME IInv, Next, NEW u \in Urls, fetched'[u] # None, fetched[u] = None
             PROVE  \/ CameWithin(given'[u], fetched'[u], Ttl)
                    \/ u \in failed' /\ CameWithin(given'[u], fetched'[u], Ttl + StaleTtl)
  BY DEF vars
<1>1. TypeOK /\ EntriesBacked
  BY DEF IInv
<1>2. ASSUME NEW v \in Urls, NEW c \in Contents, Parse(v, c) PROVE v = u /\ fetched'[u] = c
  BY <1>1, <1>2 DEF Parse, TypeOK
<1>3. ASSUME NEW limit \in Nat, store[u] # None, store[u].age < limit
      PROVE  CameWithin(given[u], store[u].content, limit)
  <2>1. PICK k \in Contents : given[u][k] <= store[u].age /\ store[u].content \in {k, Lines[k][1]}
    BY <1>1, <1>3 DEF EntriesBacked, Backed
  <2>2. store[u].age \in 0..OldAge /\ given[u][k] \in 0..OldAge
    BY <1>1, <1>3 DEF TypeOK, CacheTypeOK, Stores, Entries
  <2>3. given[u][k] < limit
    <3>1. OldAge \in Nat
      BY CacheAssumption DEF OldAge
    <3> QED BY <1>3, <2>1, <2>2, <3>1
  <2> QED BY <2>1, <2>3 DEF CameWithin
<1>4. Ttl \in Nat /\ Ttl + StaleTtl \in Nat /\ 0 < Ttl
  BY CacheAssumption
<1>5. CASE CacheHit
  <2>1. PICK v \in todo : Hit(v) /\ Parse(v, store[v].content)
    BY <1>5 DEF CacheHit
  <2>2. v \in Urls /\ store[v].content \in Contents
    BY <1>1, <2>1 DEF Hit, TypeOK, CacheTypeOK, Stores, Entries
  <2>3. store[u] # None /\ store[u].age < Ttl /\ fetched'[u] = store[u].content
    BY <1>2, <2>1, <2>2 DEF Hit, IsFresh
  <2> QED BY <1>3, <1>4, <1>5, <2>3 DEF CacheHit, net
<1>6. ASSUME NEW r \in Responses, FetchContent(r) PROVE CameWithin(given'[u], fetched'[u], Ttl)
  <2>1. cur \in Urls /\ server[cur] \in Contents /\ Parse(cur, server[cur])
    BY <1>1, <1>6 DEF FetchContent, TypeOK
  <2>2. cur = u /\ fetched'[u] = server[u]
    BY <1>2, <2>1
  <2>3. given'[u][server[u]] = 0
    BY <1>1, <1>6, <2>1, <2>2 DEF FetchContent, TypeOK
  <2> QED BY <1>4, <2>1, <2>2, <2>3 DEF CameWithin
<1>7. ASSUME NEW r \in Responses, FetchNothing(r)
      PROVE  u \in failed' /\ CameWithin(given'[u], fetched'[u], Ttl + StaleTtl)
  <2>1. cur \in Urls /\ failed' = failed \cup {cur} /\ given' = given
    BY <1>1, <1>7 DEF FetchNothing, FallBack, TypeOK, net
  <2>2. StaleHit(cur) /\ Parse(cur, store[cur].content)
    BY <1>7 DEF FetchNothing, FallBack, Skip, GoOn
  <2>3. store[cur].content \in Contents
    BY <1>1, <2>1, <2>2 DEF StaleHit, TypeOK, CacheTypeOK, Stores, Entries
  <2>4. cur = u /\ fetched'[u] = store[u].content
    BY <1>2, <2>1, <2>2, <2>3
  <2>5. store[u] # None /\ store[u].age < Ttl + StaleTtl
    BY <2>2, <2>4 DEF StaleHit, IsStale
  <2> QED BY <1>3, <1>4, <2>1, <2>4, <2>5
<1> QED
  BY <1>5, <1>6, <1>7
     DEF Next, Loading, call, Tick, Publish, Settle, UseCache, AddCalendarUrl, GetNextEvents,
         Nothing, CacheMiss, FetchAgain, Return

\* No calendar is shown beyond its time limits, with a cache file that is saved and
\* loaded at any time.
THEOREM Fresh == Spec => FreshUnlessFailed
BY Invariance, StepFresh, PTL DEF Spec, FreshUnlessFailed
=============================================================================
