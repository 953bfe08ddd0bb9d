------------------------------- MODULE IcsCache -------------------------------
(***************************************************************************)
(* ics::ics_cache: calendar contents by URL with the time of their fetch,  *)
(* fresh for Ttl and usable after a failure for StaleTtl more, and the     *)
(* file that save() writes and load() reads back.                          *)
(*                                                                         *)
(* An entry holds its age, not its time: the clock only adds to ages, and  *)
(* an age beyond the two limits is not counted further.  The clock is      *)
(* taken to run forward.  A content is known by its lines, a one-line      *)
(* content is its own line; no line of a content reads as a number.        *)
(***************************************************************************)
EXTENDS Naturals, Sequences, SequencesExt

CONSTANTS
    Order,      \* the URLs, as std::map and std::set order them
    Contents,   \* what a calendar can contain
    Lines,      \* the lines of each content
    Ttl, StaleTtl,
    Persistent, \* persist_path_ is not empty
    None        \* no entry, no file

Urls == ToSet(Order)

ASSUME CacheAssumption ==
    /\ Order \in Seq(Urls) /\ \A i, j \in DOMAIN Order : Order[i] = Order[j] => i = j
    /\ Lines \in [Contents -> Seq(Contents)]
    /\ \A c \in Contents : Lines[c] # <<>> /\ Lines[Lines[c][1]] = <<Lines[c][1]>>
    /\ Ttl \in Nat \ {0} /\ StaleTtl \in Nat /\ Persistent \in BOOLEAN
    /\ None \notin Contents \cup Urls

VARIABLES
    store,      \* store_
    file        \* the entries of the file at persist_path_

OldAge  == Ttl + StaleTtl
Entries == [content : Contents, age : 0..OldAge]
Stores  == [Urls -> Entries \cup {None}]
NoEntry == [u \in Urls |-> None]

CacheTypeOK == store \in Stores /\ (file = None \/ file \in Stores)

CacheInit == store = NoEntry /\ file = None

-----------------------------------------------------------------------------
(* Time                                                                    *)

Older(s) == [u \in Urls |-> IF s[u] = None \/ s[u].age = OldAge THEN s[u]
                            ELSE [content |-> s[u].content, age |-> s[u].age + 1]]

TimePasses ==
    /\ store' = Older(store)
    /\ file' = IF file = None THEN None ELSE Older(file)

-----------------------------------------------------------------------------
(* get, get_stale, put, remove, clear                                      *)

\* Mutant of IsFresh: an entry does not expire.
MutIsFresh(e) == e.age <= OldAge

IsFresh(e) == e.age < Ttl
IsStale(e) == e.age < Ttl + StaleTtl

Hit(u)      == store[u] # None /\ IsFresh(store[u])
StaleHit(u) == store[u] # None /\ IsStale(store[u])

Put(u, c) == [store EXCEPT ![u] = [content |-> c, age |-> 0]]

CacheRemove(u) == store' = [store EXCEPT ![u] = None] /\ UNCHANGED file

CacheClear == store' = NoEntry /\ UNCHANGED file

-----------------------------------------------------------------------------
(* save, load                                                              *)

UrlLine(u)    == [is |-> "url", val |-> u]
NumberLine(n) == [is |-> "number", val |-> n]
TextLine(l)   == [is |-> "text", val |-> l]

\* The lines save() writes: URL, hash, time and content of every entry.
EntryLines(u, e) ==
    LET text == Lines[e.content]
    IN  <<UrlLine(u), NumberLine(0), NumberLine(e.age)>>
            \o [n \in DOMAIN text |-> TextLine(text[n])]

FileLines(s) ==
    LET lines[n \in 0..Len(Order)] ==
            IF n = 0 THEN <<>>
            ELSE lines[n - 1] \o (IF s[Order[n]] = None THEN <<>>
                                  ELSE EntryLines(Order[n], s[Order[n]]))
    IN  lines[Len(Order)]

\* The loop of load() before its first line.
LoadStart == [at |-> "url", url |-> None, age |-> 0, store |-> NoEntry, thrown |-> FALSE]

\* A line load() takes for a URL may be any line; the key is lost to every
\* lookup unless it is one of Urls.
Stored(r, line) ==
    IF r.url.is = "url"
    THEN [r.store EXCEPT ![r.url.val] = [content |-> line.val, age |-> r.age]]
    ELSE r.store

\* Whether std::stoull or std::stoll is called on what is no number.
Unreadable(r, line) == r.at \in {"hash", "time"} /\ line.is # "number"

\* A line that can be read.
Field(r, line) ==
    CASE r.at = "url"     -> [r EXCEPT !.at = "hash", !.url = line]
      [] r.at = "hash"    -> [r EXCEPT !.at = "time"]
      [] r.at = "time"    -> [r EXCEPT !.at = "content", !.age = line.val]
      [] r.at = "content" -> [r EXCEPT !.at = "url", !.store = Stored(r, line)]

\* Mutant of ReadLine: after a line that is no number the next entry is read.
MutReadLine(r, line) ==
    IF Unreadable(r, line) THEN [r EXCEPT !.at = "url"] ELSE Field(r, line)

\* One line; nothing is read after an exception.
ReadLine(r, line) ==
    IF r.thrown THEN r
    ELSE IF Unreadable(r, line) THEN [r EXCEPT !.thrown = TRUE] ELSE Field(r, line)

\* What the loop of load() makes of lines, from where r is.
ReadOn(r, lines) ==
    LET read[n \in 0..Len(lines)] ==
            IF n = 0 THEN r ELSE ReadLine(read[n - 1], lines[n])
    IN  read[Len(lines)]

Read(s) == ReadOn(LoadStart, FileLines(s))

Before(v, u) == \E i, j \in DOMAIN Order : i < j /\ Order[i] = v /\ Order[j] = u

\* An entry of several lines: the loop takes its second one for a URL.
SeveralLines(e) == Len(Lines[e.content]) > 1

\* Mutant of Loaded: the entries count as fetched now.
MutLoaded(s) ==
    [u \in Urls |->
        IF s[u] = None \/ (\E v \in Urls : Before(v, u) /\ s[v] # None /\ SeveralLines(s[v]))
        THEN None ELSE [content |-> Lines[s[u].content][1], age |-> 0]]

\* What comes of it: the entries up to the first one of several lines, and of that
\* one its first line (LoadedAsRead).
Loaded(s) ==
    [u \in Urls |->
        IF s[u] = None \/ (\E v \in Urls : Before(v, u) /\ s[v] # None /\ SeveralLines(s[v]))
        THEN None ELSE [content |-> Lines[s[u].content][1], age |-> s[u].age]]

CacheSave == Persistent /\ file' = store /\ UNCHANGED store

\* load() empties the cache before it reads; an exception leaves it as it is.
\* Without a file, or without a path, neither function does anything.
CacheLoad == Persistent /\ file # None /\ store' = Loaded(file) /\ UNCHANGED file

-----------------------------------------------------------------------------
\* load() finds the entries before the first one of several lines, no others, and the
\* lines it takes for another field never end up in an entry (cache.cpp:142-171).
LoadedAsRead == file # None => Read(file).store = Loaded(file)

\* cache.h:13 promises "persistent storage to disk for survival across restarts":
\* load() finds in the file what save() wrote.
SurvivesRestart == file # None => Loaded(file) = file
=============================================================================
