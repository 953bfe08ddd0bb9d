----------------------------- MODULE EventManager -----------------------------
(***************************************************************************)
(* ics::event_manager over its cache and its source: one get_next_events() *)
(* loads every registered URL in turn, from a fresh cache entry, from the  *)
(* network with retries, or from a stale entry.  One action is one URL     *)
(* looked up or one answer to a GET; the calendar servers and the clock    *)
(* act in between.  The events are known by the content they come from:    *)
(* building, expanding and selecting them is not part of this module.      *)
(***************************************************************************)
EXTENDS IcsCache, HttpSource, FiniteSets

CONSTANTS
    Served,     \* contents each server may have
    Malformed,  \* those whose parsing throws
    Retries     \* http_options::retries

ASSUME ManagerAssumption ==
    /\ Served \in [Urls -> SUBSET Contents] /\ Malformed \subseteq Contents
    /\ Retries \in Nat

VARIABLES
    cached,     \* the manager was given a cache
    urls,       \* calendar_urls_
    fetched,    \* fetched_events_: the content they were parsed from, by URL
    pc,         \* "idle", "load" between two URLs, "fetch" inside source_->fetch()
    todo,       \* URLs the loop of load_from_sources() has still to visit
    cur,        \* the URL being fetched, None between two
    attempt,    \* of fetch()
    outcome,    \* of the last get_next_events(): "none" yet, "events" or "thrown"
    server,     \* the calendars on the network
    calm,       \* from now on the network works and the calendars are sound
    failed,     \* ghost: URLs whose fetch() gave nothing in this call
    given       \* ghost: how long ago each server last gave each content

cache == <<store, file>>
call  == <<fetched, pc, todo, cur, attempt, outcome, failed>>
net   == <<server, calm, given>>
vars  == <<cache, cached, urls, call, net>>

TypeOK ==
    /\ CacheTypeOK
    /\ cached \in BOOLEAN /\ calm \in BOOLEAN
    /\ urls \subseteq Urls /\ todo \subseteq urls /\ failed \subseteq urls
    /\ fetched \in [Urls -> Contents \cup {None}]
    /\ pc \in {"idle", "load", "fetch"}
    /\ cur \in urls \cup {None} /\ (cur # None <=> pc = "fetch")
    /\ attempt \in 0..Retries
    /\ outcome \in {"none", "events", "thrown"}
    /\ server \in [Urls -> Contents] /\ \A u \in Urls : server[u] \in Served[u]
    /\ given \in [Urls -> [Contents -> 0..OldAge]]

Nothing == [u \in Urls |-> None]

Init ==
    /\ CacheInit
    /\ cached \in BOOLEAN
    /\ urls = {} /\ fetched = Nothing
    /\ pc = "idle" /\ todo = {} /\ cur = None /\ attempt = 0 /\ outcome = "none"
    /\ failed = {}
    /\ server \in [Urls -> Contents] /\ (\A u \in Urls : server[u] \in Served[u]) /\ calm = FALSE
    /\ given = [u \in Urls |-> [c \in Contents |-> OldAge]]

-----------------------------------------------------------------------------
(* The network and the clock                                               *)

Tick ==
    /\ TimePasses
    /\ given' = [u \in Urls |-> [c \in Contents |->
                    IF given[u][c] = OldAge THEN OldAge ELSE given[u][c] + 1]]
    /\ UNCHANGED <<cached, urls, call, server, calm>>

Publish(u, c) ==
    /\ ~calm /\ c # server[u]
    /\ server' = [server EXCEPT ![u] = c]
    /\ UNCHANGED <<cache, cached, urls, call, calm, given>>

Settle ==
    /\ ~calm /\ \A u \in Urls : server[u] \notin Malformed
    /\ calm' = TRUE
    /\ UNCHANGED <<cache, cached, urls, call, server, given>>

Incoming == IF calm THEN {"ok"} ELSE Responses

-----------------------------------------------------------------------------
(* The cache's other users, between two calls                              *)

UseCache ==
    /\ pc = "idle" /\ cached
    /\ \/ \E u \in Urls : store[u] # None /\ CacheRemove(u)
       \/ CacheClear
       \/ CacheSave
       \/ ~calm /\ CacheLoad
    /\ UNCHANGED <<cached, urls, call, net>>

AddCalendarUrl(u) ==
    /\ pc = "idle" /\ u \notin urls
    /\ urls' = urls \cup {u}
    /\ UNCHANGED <<cache, cached, call, net>>

-----------------------------------------------------------------------------
(* get_next_events, load_from_sources                                      *)

GetNextEvents ==
    /\ pc = "idle" /\ pc' = "load"
    /\ fetched' = Nothing /\ todo' = urls /\ failed' = {}
    /\ UNCHANGED <<cache, cached, urls, cur, attempt, outcome, net>>

\* The loop visits the URLs in their order.
IsNext(u) == /\ u \in todo
             /\ \A i, j \in DOMAIN Order : Order[i] \in todo /\ Order[j] = u => i >= j

\* The parser gets c: its events are added, or its exception leaves the loop and
\* get_next_events() with what was loaded so far.
Parse(u, c) ==
    /\ cur' = None /\ attempt' = 0
    /\ IF c \in Malformed
       THEN /\ pc' = "idle" /\ outcome' = "thrown" /\ todo' = {}
            /\ UNCHANGED fetched
       ELSE /\ fetched' = [fetched EXCEPT ![u] = c]
            /\ pc' = "load" /\ todo' = todo \ {u}
            /\ UNCHANGED outcome

CacheHit ==
    /\ pc = "load"
    /\ \E u \in todo : IsNext(u) /\ cached /\ Hit(u) /\ Parse(u, store[u].content)
    /\ UNCHANGED <<cache, cached, urls, failed, net>>

CacheMiss ==
    /\ pc = "load"
    /\ \E u \in todo : IsNext(u) /\ ~(cached /\ Hit(u)) /\ cur' = u
    /\ pc' = "fetch" /\ attempt' = 0
    /\ UNCHANGED <<cache, cached, urls, fetched, todo, outcome, failed, net>>

\* fetch() returns the calendar, which is cached before it is parsed.
FetchContent(r) ==
    /\ pc = "fetch" /\ r \in Incoming /\ Verdict(r) = "content"
    /\ store' = IF cached THEN Put(cur, server[cur]) ELSE store
    /\ given' = [given EXCEPT ![cur] = [@ EXCEPT ![server[cur]] = 0]]
    /\ Parse(cur, server[cur])
    /\ UNCHANGED <<file, cached, urls, failed, server, calm>>

\* The loop goes on with the URLs in left.
GoOn(left) ==
    /\ todo' = left /\ pc' = "load" /\ cur' = None /\ attempt' = 0
    /\ UNCHANGED <<fetched, outcome>>

\* Mutant of Skip: one calendar without data ends the loop.
MutSkip == GoOn({})

\* Mutant of Skip: a calendar without data is tried again until it has some.
MutSkipNothing == GoOn(todo)

\* No data for this URL: the loop goes on with the next one.
Skip == GoOn(todo \ {cur})

\* fetch() returned nothing: a stale entry takes its place.
FallBack ==
    /\ failed' = failed \cup {cur}
    /\ IF cached /\ StaleHit(cur) THEN Parse(cur, store[cur].content) ELSE Skip
    /\ UNCHANGED <<cache, cached, urls, net>>

\* Mutant of MoreAttempts: the loop counts the retries only.
MutMoreAttempts == attempt <= Retries

MoreAttempts == attempt < Retries

FetchNothing(r) ==
    /\ pc = "fetch" /\ r \in Incoming
    /\ \/ Verdict(r) = "nothing"
       \/ Verdict(r) = "retry" /\ ~MoreAttempts
    /\ FallBack

FetchAgain(r) ==
    /\ pc = "fetch" /\ r \in Incoming /\ Verdict(r) = "retry" /\ MoreAttempts
    /\ attempt' = attempt + 1
    /\ UNCHANGED <<cache, cached, urls, fetched, pc, todo, cur, outcome, failed, net>>

Return ==
    /\ pc = "load" /\ todo = {}
    /\ pc' = "idle" /\ outcome' = "events"
    /\ UNCHANGED <<cache, cached, urls, fetched, todo, cur, attempt, failed, net>>

Loading ==
    \/ CacheHit \/ CacheMiss
    \/ \E r \in Responses : FetchContent(r) \/ FetchNothing(r) \/ FetchAgain(r)
    \/ Return

-----------------------------------------------------------------------------
Next ==
    \/ Tick \/ Settle
    \/ \E u \in Urls : \E c \in Served[u] : Publish(u, c)
    \/ UseCache
    \/ \E u \in Urls : AddCalendarUrl(u)
    \/ GetNextEvents
    \/ Loading

Spec == Init /\ [][Next]_vars

\* Time passes, GETs are answered or time out, and the main loop calls
\* get_next_events() in every cycle (CyclesForEver of ServiceLifecycle).
FairSpec == Spec /\ WF_vars(Tick) /\ WF_vars(Loading) /\ WF_vars(GetNextEvents)

-----------------------------------------------------------------------------
\* A content that c is, or is the first line of, was given by u's server less than
\* limit ago.
CameWithin(g, c, limit) ==
    \E k \in Contents : g[k] < limit /\ c \in {k, Lines[k][1]}

\* Events are shown only if the calendar they come from was fetched in this call or
\* less than Ttl before, and up to StaleTtl longer only if this call's own fetch of
\* that calendar gave nothing (event_manager.cpp:64-80, cache.cpp:43-71).
FreshUnlessFailed ==
    [][\A u \in Urls :
          fetched'[u] # None /\ fetched[u] = None =>
              \/ CameWithin(given'[u], fetched'[u], Ttl)
              \/ u \in failed' /\ CameWithin(given'[u], fetched'[u], Ttl + StaleTtl)]_vars

\* One calendar that cannot be fetched does not cost the events of another
\* (event_manager.cpp:83-86).
FailureIsIsolated ==
    pc # "idle" => \A u \in urls \ (todo \cup {cur}) : fetched[u] # None \/ u \in failed

\* Every entry of the cache and of its file is what the server of its URL gave, or the
\* first line of it, and not longer ago than the entry says.
Backed(u, e) ==
    \E k \in Contents : given[u][k] <= e.age /\ e.content \in {k, Lines[k][1]}

EntriesBacked ==
    /\ \A u \in Urls : store[u] # None => Backed(u, store[u])
    /\ file # None => \A u \in Urls : file[u] # None => Backed(u, file[u])

\* The inductive invariant the safety properties follow from.
IInv == TypeOK /\ FailureIsIsolated /\ EntriesBacked

\* Every call returns, however often the servers fail (http_source.cpp:56-107).
CallsReturn == pc # "idle" ~> pc = "idle"

\* Once the network works and the calendars are sound, a call shows them as they
\* are, whatever was cached, malformed contents included.
SettledIsShown ==
    calm ~> outcome = "events" /\ \A u \in urls : fetched[u] = server[u]
=============================================================================
