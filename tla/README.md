# A TLA+ model of divoom-dev

divoom-dev is a service that shows a person's next meetings, Jira issues and
Jenkins builds on Divoom pixel displays.  Every fifteen minutes (`setup.h`;
`service.h` has a default of five) it reads its settings, loads the calendars,
asks Jira and Jenkins, and sends one text to every device through Divoom's cloud.
It runs as a Windows service (a Linux daemon is begun), as threads that share two
flags, and it talks to four kinds of servers that may answer late, wrongly or not
at all.

This directory holds a specification of it in TLA+: modules translated from the
code, configurations with which TLC checks them on small instances, and theorems
that TLAPS proves for every instance.  Line numbers are those of `src/`.

## The system

| Component | Keeps | Operations | Talks to |
|---|---|---|---|
| Manager and registration, `lifecycle/manager.cpp`, `windows_service.cpp:118-266` | - | choose console or service, register and start the service | the service control manager (SCM) |
| Windows lifecycle, `windows_service.cpp:28-116` | status last reported to the SCM | the control handler, `service_main` | the core, through two atomic flags |
| Service core, `service/src/core/service.cpp` | flags running and paused; storage, updater, calendar | `run`, `pause`, `resume`, `stop`, `get_db_info`, `process_cycle` | everything below |
| Device updater, `device_updater.cpp` | credentials, session, device list, hash of the last text | `update_credentials`, `update` | Divoom client |
| Divoom client, `divoom/src` | nothing between requests | `login`, `get_devices`, `get_clock_config`, `set_clock_config`, display commands | the cloud, over HTTPS |
| Settings storage, `storage/src` | accounts, calendar sources, meta values, in an SQLite database or a JSON file | upserts, deletions, `clear`, lists | the file system; other processes may use the same file |
| Event manager, `plugins/ics/src/event_manager.cpp` | URLs, fetched and manual events | `add_calendar_url`, `get_next_events` | source, cache, parser |
| Calendar cache, `cache.cpp` | contents with their fetch time; a file | `get`, `get_stale`, `put`, `remove`, `clear`, `save`, `load` | the clock, the file system |
| HTTP source, `http_source.cpp` | options | `fetch` with retries | calendar servers |
| ICS parser, `plugins/ics/src/detail` | nothing | parse, time zones, recurrence, overrides, window | - |
| Jira and Jenkins clients | configuration | one GET per query or job | their servers |

What makes each of them correct:

- Start and lifecycle: a launch with the rights to register brings the service up;
  whoever looks at the service's status sees what the loop does; a stop always ends
  the process, and never while a cycle is running; a pause comes to rest; no failure
  of a cycle ends the service.
- Updater: a session belongs to the credentials in force; a text counts as shown
  only after every device had its turn; any answer of the cloud leads back to the
  main loop.
- Storage: a change reaches the disk whole; a crash at any point leaves the last
  whole state; several processes on one database see each other's changes whole.
- Calendar: one failing server does not cost the others; old data is shown only
  when the network fails, and only so old; a call always returns.
- Parser: an event is read as it is written; every occurrence in the window appears
  once, none outside it does.
- Update cycle: it works with the account last found in the storage, what it skips is
  still shown, and it ends.

The hard behaviours are the interleaving of three threads over two flags and of
several processes over one database and one SCM, answers of servers in every form at
every request, file operations and statements that fail or are cut short by a crash,
caches with time limits under a retrying network, and calendar arithmetic with fixed
limits.  `PROJECT.json` lists the hazards line by line.

## The modules

    ServiceStartup  --extends-->  ServiceLifecycle  --implements-->  ServiceContract
    UpdateCycle     --extends-->  DeviceUpdater  --extends-->  DivoomClient
    SqliteBackend   --implements-->  SharedStore
    JsonBackend     --implements-->  SettingsStore
    EventManager    --extends-->  IcsCache, HttpSource
    CalendarPipeline  --extends-->  Recurrence

`ServiceLifecycle` contains a cycle as two steps that return or throw; `UpdateCycle` is
what happens inside, and contains the calendars as what `get_next_events` returns;
`EventManager` is what happens inside that, and knows events by the content they come
from; `CalendarPipeline` is what becomes of one content.

### ServiceLifecycle, ServiceContract, ServiceStartup

`ServiceLifecycle` is the Windows process: dispatcher thread (`service_ctrl_handler`,
28-71), service thread (`service_main`, 73-116), worker thread (`service::run`,
`service.cpp:68-98`).  An action is one access to a flag or one `SetServiceStatus`
call, so the threads meet wherever they can see each other: `HandlePausedFlag`,
`HandleStop`, `HandlePending`, `HandleCore`, `HandleReport` are the statements of the
handler's branches; `LoopRunning` and `LoopPaused` are the two halves of the loop's
condition, `WaitBound`, `WaitRunning`, `WaitPaused` the three parts of the wait's.
The SCM is external: it sends a control when the last reported status and
`dwControlsAccepted` allow it (`Sendable`).  It sends none after `STOPPED`, and the
dispatcher returns when `STOPPED` has been reported and the handler is idle.

`ServiceContract` is what the service promises without threads and statuses: cycles
one at a time, at most one more cycle after a pause or a stop takes effect, an end
between cycles, and no work after it unless the service is started anew.
`KeepsContract` is the refinement: `go` is `running /\ ~paused`, `busy` is a worker
inside a cycle, `ended` is a `service_main` that reported `STOPPED`.  The ghost `late`
counts the cycles begun after the loop was last told to quit; it stops at `LateBound`
= 2, one more than the contract allows.

`ServiceStartup` puts around it how the process comes to be.  Users start the
executable (`Launches`); each launch goes through `manager::run`: `Prepare` opens the
storage, `ChooseMode` takes the console, the registration or, in session 0, the
dispatcher that fails; `CheckAdmin`, `LookUp`, `Create`, `StartService` (or
`AlreadyRunning`, `NothingToStart`) are `auto_register_service`, one action per call
that another launch can come between.  The SCM starts the process of a registered
service, which runs `manager::run` itself (`ServicePrepare`, `RunService`, or
`ServiceGivesUp`) before it becomes the process of `ServiceLifecycle`; after its end it
can be started again with fresh flags.  `meddled` is a ghost: a call failed from
outside or the entry was removed.

### DivoomClient, DeviceUpdater, UpdateCycle

`DivoomClient` says what `client::execute` makes of each class of answer: the
`parse_json` of the handlers, their `handle`, and the catch clauses around them.
`DeviceUpdater` is `device_updater` over it.  `pc` names the request to be sent; an
action is the start of an operation (`UpdateCredentials`, `Update`) or one request
with its answer (`Login`, `GetDevices`, `GetConfig`, `SetConfig`), and `Record` ends
`update`'s loop.  The cloud answers anything, but not OK to a token that is not
valid; a request without an answer may have been carried out.  `Crash` is the null
dereference in the list handlers.  `Restart` starts the process anew at any point.
Hashes are taken to be injective.  The devices of a list are visited in any order.
`retry_with_login` (51-58) has no action because nothing can make it run: theorem
`ExecuteNeverThrows`.

`UpdateCycle` is one cycle of `service::run` after another over the updater: `stage`
says what `get_db_info` and `process_cycle` do next.  Every read of the storage returns
anything (`ListSources`, `ReadAccount` or `NoDivoomAccount`, `NoJira`, `NoJenkins`) or
throws (`Exception`), since other processes change it and may hold its lock; without a
storage `NullStorage` dereferences the null pointer.  Jira and Jenkins answer anything;
`Issues` and `Builds` say what is made of it, job by job, undefined lookups in a constant
JSON document included.  The text is known by its parts (`Draft`), and `Render` makes
one of them.  `CallUpdate` hands it to the updater, whose steps (`UpdaterStep`) are
those of `DeviceUpdater`.  The ghosts `account` and `delivered` remember the account the
storage held when one was last found and the devices the recorded text went to without
a failure.  `NoDivoomAccount` leaves `account` alone: the code goes on with the
credentials it has, and `AccountInUse` is about those cycles too.

### SettingsStore, JsonBackend

`SettingsStore` is `i_settings_storage` for one process: settings in memory, settings on
disk, changes seen at once and persisted together.  `Lose` and `OpenBlank` are the
exceptions a backend owns up to.  `JsonBackend` has the document, the two files and one action per file
operation of `save` and `atomic_replace` (24-34, 67-90), each of which may fail when
`Faults` says so, on either platform; `Crash` may come between any two.  A value that is
not UTF-8 makes `dump()` throw (`DumpThrows`).  Between two lives of the store `Deny` makes
config.json unreadable, by permissions, a lock or a want of descriptors, and readable
again; `LoadDefault` takes a file it is denied for a missing one (49-56).  `KeepsPromise`
is the refinement: a missing file is opened as the default document, `Lossy` says exactly
where the backend is not atomic: in the fallback of `atomic_replace`, which is the only way
outside Windows, and when a short write is installed; and `blind` is `denied`.  Creating the directory, the order of JSON
arrays and the sorting of `list_calendar_sources` are left out.

### SharedStore, SqliteBackend

`SharedStore` is the store the way several processes see it: rows change by whole
operations, the version of the schema never falls.  `SqliteBackend` has any number of
connections to one file: `Open` with its pragmas, `ReadVersion`, the scripts of
`apply_migrations` statement by statement, `Put` for each single-statement change,
`clear()` as `ClearBegin`, `ClearDelete`, `ClearCommit`, and `Down` (closing, or dying
anywhere).  Of SQLite it has what the code depends on: a transaction's snapshot, the one
write lock, a snapshot that was overtaken, and what a COMMIT that failed leaves behind.
The registered migrations are those of the code: none (`Migrations`); the baseline
leads to version 1.

### HttpSource, IcsCache, EventManager

`HttpSource` classifies the answers to a GET: content, nothing, or another attempt.
`IcsCache` holds entries by URL with their age; the clock only adds to ages, which
stop where no limit can tell them apart, so that time is unbounded.  Its file is
modelled by what `save` writes line by line (`EntryLines`, `FileLines`) and by the state
machine with which `load` reads lines (`ReadLine`; `ReadOn` is the loop, a recursive
function over the lines).  What comes of the two together is `Loaded`, in closed form:
nothing but the entries before the first content of several lines, and of that one its
first line.  `LoadedAsRead` says that the closed form is what the lines give.  `EventManager` is `load_from_sources` over
both: `CacheHit`, `CacheMiss`, then one action per answered attempt, `FallBack` to a
stale entry, `Parse`, which may throw.  The servers change their calendars at any time;
after `Settle` they keep sound calendars and answer.  `given` is a ghost: how long ago
each server last gave each content.

### Recurrence, CalendarPipeline

`Recurrence` has the arithmetic of `recurrence.cpp` and `window.cpp` as operators:
moments are numbers of half-hours, and `Daily`, `Weekly`, `Monthly` are the expanders
with their fixed numbers of tries.  The calendar's months repeat after `Months` of them
(`MonthStart`, `CycleDays`): two months of 19 days in the runs, 4800 of 146097 days in
ISO 8601; a day that a month does not have is carried into the next, as `mktime` does it.
`CalendarPipeline` is `parse_calendar_at` and the
selection of `get_next_events`, as steps over one calendar: `Scan` is the scanner's state
machine, one action per kind of line (`BeginEvent`, `EndEvent`, `BeginAlarm`, `EndAlarm`,
`Property`); `Said` is the event builder's loop over the lines of an event, `Build` the rest
of it, with its zones (`timezone.cpp`, `OffsetHours`) and
dates (`datetime.cpp`, `Moment`); `ExpandRaw` expands one event without its overridden
occurrences (`Expansion`), `AddOverrides` puts the overrides in (`Replacements`), `Select` is
the window.  Next to it stands a reference: `Written`, `Given` and `Place` say which events
a file contains and in which order, `Occurs` and `Planned` when RFC 5545 says they take
place.  `Plain` names the events for which the parser keeps to it: DAILY or WEEKLY rules
without COUNT, dates whose zone it knows in whole hours, exceptions in the machine's zone,
no BYDAY before the weekday of DTSTART in a series of several weeks, and any status but
the RFC's CANCELLED.  What it does with the others is modelled like the rest and listed
below; the run `duplicates` shows one of them.  The model's machine has a fixed
offset to UTC and no summer time.  It reads the clock once, where the code reads it in
`get_next_events` (`event_manager.cpp:108`) and again for each content (`parser.cpp:12`):
an event that starts or ends between the two readings, seconds apart while nothing is
fetched and as long as the fetches take otherwise, may be shown or not.

## The runs

| Run | Instance | Shows |
|---|---|---|
| lifecycle | two launches; two slices of waiting; 104,834 states | types, `ReportedMatchesFlag`, `StoppedMeansQuiet`, `RegisteredHasData`, `KeepsContract`; under fairness `StopEnds`, `PauseRests`, `CyclesForEver`, `LaunchServes` |
| resume | one process, two slices | violated: CONTINUE does not bring the cycles back |
| cycle | two accounts, one accepted; one device; one calendar, two jobs, two texts; 35,812 states | types, `SessionOwner`, `AccountInUse`, `SkipIsSound`, `RecordedAsDelivered`, `ProcessEnds`, `CycleEnds` |
| token_retry | updater alone, two devices | violated: a rejected token is not retried |
| list_crash | same | violated: a bad answer to the list request crashes |
| json | one key of each kind, a value that can be written and one that cannot, all faults, both platforms; 27,832 states | types, `SuccessIsDurable`, `KeepsPromise` |
| json_crash | POSIX, no faults | violated: a crash leaves no config.json |
| sqlite | two processes, one row next to the schema's, all faults; 346,651 states up to symmetry | types, `OpenIsCurrent`, `IdleIsCommitted`, `Atomic` |
| calendars | two calendars of one and of several lines, one of which may turn malformed; Ttl 1, StaleTtl 1, one retry; with and without cache and file; 230,832 states | types, `FailureIsIsolated`, `LoadedAsRead`, `FreshUnlessFailed`, `CallsReturn`, `SettledIsShown` |
| cache_restart | one calendar | violated: `load` does not find what `save` wrote |
| parser | every sequence of up to five lines; every rule, zone, exception and override of the lists in `MCCalendarPipeline`; 551,668 states | types, `ReadAsWritten`, `ShownIsPlanned`, `PlannedIsShown` |
| duplicates | same | violated: an overridden occurrence stays in the series |

Why the bounds are enough.  Lifecycle: two launches race for one entry, and more only
repeat the second; the wait does the same in each slice, so two show a flag that changes
before, between and after the checks; controls, starts and lives are not bounded.
Cycle: two accounts show a change with a failing login, one device suffices since the
cycle does not look at the device loop (the updater's theorems hold for any number, and
`token_retry` and `list_crash` have two), two jobs a loop in which one fails, two texts a
change and a way back; cycles, requests, token losses and restarts are not bounded.
Storage: the code never relates two keys of a kind, a crash or a fault can come at any
operation any number of times, and SQLite has one writer, so that two processes show
each conflict.  Calendars: two show that one fails alone; each limit of an entry's age
has a unit before and after it; calls, time and changes are not bounded.  Parser: a day
of four hours and a week of seven days keep every comparison of the expanders; tries of
12, 3 and 3 are passed by the window in both directions; five lines hold two markers out
of order with a property between.  Its calendars are inputs and not a sequence of calls:
nothing is kept from one to the next.

Deadlock is checked but in the runs of the JSON backend and of the parser.  The store
really stops, since an unreadable config.json makes every opening fail
(`storage.cpp:26-29`); the parser is a computation and ends.

### Fairness

- Lifecycle: weak fairness of every launch, of the service process's own steps, of the
  handler, of `service_main` and of the worker: the operating system runs every
  process and thread, and the calls of a cycle return.  The Divoom client sets no
  timeout, so that the last part is an assumption on libcurl and the network; `StopEnds`
  rests on it.  Nothing makes a user launch anything or the SCM send a control.
- Cycle: requests are answered in some way, failure included, and a cycle that has begun
  is executed (`CycleStep`); no cycle has to begin, and restarts and expiring tokens are
  free.
- Calendars: every GET is answered or times out (15 s, `http_source.h:20`), time passes,
  and `get_next_events` is called again and again, which is what `CyclesForEver` shows of
  the main loop.

## The proofs

The modules `*_proofs` hold, for every value of the constants, what the runs show on small
ones.  In each the safety invariants follow from an inductive invariant, named `IInv` in
most:

- `ServiceStartup_proofs`, of one service process: `ReportedMatchesFlag` is not inductive:
  while the handler is between its statements the status lags behind the flag.
  `HandlerInv` says which value the flag has then, `StartInv` that no pause precedes the
  worker's report of RUNNING (that report would otherwise overwrite PAUSED), `MainInv` what
  `service_main`'s place tells about worker and flag, `LateInv` that a late cycle uses up
  its allowance.  From it `TypeCorrect`, `StatusAgrees`, `StoppedIsQuiet`, and `Refinement`:
  the initial states are initial in the contract and each step is a step of it or none.
  Of its lives: each step of the composition is one of the service process, none, or its
  creation anew (`StepOfProcess`), so that this invariant holds in every life;
  `ProcessInv` adds that a process not yet dispatched is fresh and that a launch past its
  start has opened the data.  From it `DataOfRegistered`, `LivesAreSafe` and
  `LivesKeepContract`, for any number of launches.
- `DeviceUpdater_proofs`: `LoopInv` says what the loop has done: every device behind it
  shows the text, has no place for it or failed.  With it and `SessionOwner` the types are
  inductive and `Delivered`, an action property, follows from the step that records.
- `UpdateCycle_proofs`: a step of a cycle is a step of the updater or none (lemma
  `CycleDrives`), so that the updater's invariant holds in the service.  `CycleInv` adds
  `CallsInv`, that the credentials in use are those of the account last found, that before
  one was found no request was made, and that only a new text is being sent; without the
  last part `SkipIsSound` is not inductive.  From it
  `CycleTypeCorrect`, `CycleAccount`, `SkipSound`, `CycleDelivered`.  `EndsOnlySo` goes
  through the steps at which the process can end: of the updater's requests only the list
  crashes (`CrashAtList`).
- `JsonBackend_proofs`: `TmpIsDoc` says what the temporary file holds once it is closed; with
  it an installation is either `Persist` or a loss the backend owns up to.  `Refinement` is for
  any faults: where `Faults` has no "read", `denied` stays FALSE and no opening is blank.
- `SqliteBackend_proofs`: there is one writer at most, and a writer about to commit will
  commit the database as it is, changed by the whole of its own operation (`Local`).  From
  it `TypeCorrect`, `SchemaIsCurrent`, `NothingUncommitted` and `Refinement`, for any
  number of processes.
- `EventManager_proofs`: `EntriesBacked` says that every cache entry, in memory or in the
  file, is no younger than what its server gave; with it `FreshUnlessFailed` follows for
  any limits, contents and cache files, next to `TypeCorrect` and `Isolated`.
  `LoadCorrect` is about any file `save` can write: the lines of two lists are read one
  list after the other (`ReadRest`); the lines of one entry store it and, if they are more
  than four, leave the loop at a hash that is a text (`ReadEntry`); from there nothing is
  stored (`ReadNothing`).  `ReadSoFar`, what is read after the entries of the first URLs, is
  kept from one URL to the next (`ReadNext`).
- `Recurrence_proofs`: about the operators themselves, for any event, rule and window: a
  daily series is exactly the multiples of its interval as long as the tries reach beyond
  the window (`DailyExact`), a weekly one exactly the days of its rule in every
  interval-th week, for a rule with no day before the weekday of DTSTART or of every week
  (`WeeklyExact`; every repetition falls on a day of the rule without that condition,
  `WeeklyOnItsDays`), and with a positive interval neither series shows a moment twice
  (`DailyOnce`, `WeeklyOnce`).  The arithmetic of a product of variables is in lemmas of
  its own (`TimesMonotone`, `DivMod`, `MultipleMod`, ...).
- `CalendarPipeline_proofs`: `ReadAsWritten` speaks of the whole file and says nothing while
  it is scanned.  `ScanInv` says what the scanner has of the lines behind it: the flags tell
  whether a VEVENT is open and an alarm in it, the lines collected say what the file gives
  the open event so far, and each closed event has its raw event in its place.  `LinesInv`
  says that no value the builder would throw at gets into a raw event, `ExpandInv` that the
  result is what the raw events expanded so far give.  With `TypeOK` they are inductive
  (`Invariance`).  From it `TypeCorrect` and `ReadCorrect`; and, since the expanders return
  what `Recurrence_proofs` says and the text compared in the machine's zone names the moment
  RFC 5545 does for an event that is `Plain`, `ShownCorrect` and `PlannedCorrect`, for any
  calendars, zones, windows and numbers of tries.

Induction over the natural numbers is by the set of the numbers that have the property
(`SetInduction`), whose least missing element would be one more than an element.

Assumptions: the named ones in the modules (`SlicesAssumption`, `ConstantsAssumption`,
`CacheAssumption`, `ManagerAssumption`, `CycleAssumption`, `TimeAssumption`,
`MonthAssumption`, `CalendarAssumption`, `ClockAssumption`), which give the constants their
types and say that special values are different from ordinary ones.  Beyond that:
`CacheAssumption` has the URLs in an order without repetitions (the keys of a `std::map`) and
no line of a content that reads as a number; `CalendarAssumption` has lines that give a field
a value of its kind or one the parser throws at (`Bad`); `ClockAssumption` has a clock that
shows a day or more after the epoch, which the parser takes for a date that is missing.

Only model-checked: the liveness properties (`StopEnds`, `PauseRests`, `CyclesForEver`,
`LaunchServes`, `CycleEnds`, `CallsReturn`,
`SettledIsShown`), since fairness and ENABLED are out of the prover's reach.  Every
invariant, action property and refinement a passing run checks has a theorem.  No module
uses a RECURSIVE operator.

## Disagreements between the code and what it says

The runs that end in a violation: a resumed service does not resume (`service.h:37`); a
token error is not retried (`device_updater.cpp:53`); a bad answer to the device list
crashes (`device_updater_test.cpp:40`); writing config.json is not atomic outside Windows
(`json_backend.h:11`); the cache does not survive a restart (`cache.h:13`); an override that
names its occurrence in another zone leaves a duplicate (`override_applier.h:14-15`).

Others that the model has as the code does them, without a run of their own:

- A config.json that is there and cannot be opened counts as missing and is overwritten by
  the default document, where `json_backend.cpp:51` speaks of a missing file and
  `json_backend.h:14-15` promises an exception (`Deny`, `LoadDefault`; an exception of
  `KeepsPromise`, `OpenBlank`).
- A write that is cut short replaces config.json, and a value that is not UTF-8 keeps itself
  and every later change off the disk (`json_backend.h:11`; `Torn`, `DumpThrows`).
- The RFC's STATUS:CANCELLED does not cancel, although "events marked CANCELED are excluded"
  (`event_manager.h:41`, `pipeline.cpp:126`): such events are shown, and `Planned`, which
  takes either spelling, leaves them out.  `ShownIsPlanned` is false of them, so that
  `Plain` excludes them.
- A series of every other week with a BYDAY before the weekday of DTSTART is shown in weeks
  it skips, counted in calendar weeks as RFC 5545 does (`recurrence.cpp:176-178`); again
  `Plain` excludes it.
- An empty device list, or one that could not be had, is no error, although
  `device_updater.h:23` says so: the text counts as written.

## What the code does that a reader may not expect

The model follows the code in these, and the properties are worded around them.

- Parser: EXDATE and RECURRENCE-ID are compared as text in the machine's zone; a rule of
  several weeks with a BYDAY before the weekday of DTSTART lands in a week the rule skips;
  INTERVAL=0 gives copies of one moment; MONTHLY ignores the window's start and loses the
  time of day, YEARLY shows nothing; COUNT and an UNTIL without a time are not read; an
  event without DTEND is never shown; only the spelling CANCELED cancels; the last VALARM
  counts; zone offsets are rounded to whole hours, and summer time is not looked at.
- Updater: a text of which requests failed is recorded all the same and not sent again
  until it changes; after a failed request for a layout an empty one is sent, and what the
  cloud makes of it is not in the repository.
- Core: a calendar that is removed from the storage or disabled there stays in the event
  manager until the process ends; so does a Divoom account that is removed or cannot be read, which
  goes on being used; a malformed calendar costs the whole cycle.
- SQLite: a process that fails to switch the file to WAL goes on in rollback-journal mode,
  where a refused COMMIT of `clear()` leaves its transaction open.
- Registration: `ERROR_SERVICE_ALREADY_RUNNING` is taken for success, also when the process
  the SCM has is paused, stopping or about to give up; `ChangeServiceConfigW` is called on a
  handle opened for queries only, so that "ensuring auto-start" (`windows_service.cpp:192`)
  leaves the start type as it was; of two launches that find no entry the second reports a
  failure although the service comes up; a session that cannot be read counts as a user's,
  whatever the comment at `windows_service.cpp:135` says of the console.  A console run and
  a service may cycle over the same devices at the same time.

## Not modelled

- The Linux daemon (`linux_daemon.cpp`): it includes headers that are not in the
  repository and cannot be built, so there is no program to be faithful to.
- The cache's `set_ttl` and `set_stale_ttl`, which nothing in the service calls, and a clock
  that is set back; the event manager's manual events and the setters of its
  collaborators, likewise without a caller.
- Two processes on one config.json: the service uses SQLite; the JSON backend has the
  example program as its only user.
- Unfolding and unescaping of ICS text and the fields of an event nothing looks at:
  layout.
- The event formatter, the common data types, the example program: no state and no
  choice.  MD5, request building and logging are data; the client's requests that no
  part of the service sends are known by their class of answer only.
- The real passing of time in back-offs and sleeps.
