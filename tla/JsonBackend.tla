----------------------------- MODULE JsonBackend -----------------------------
(***************************************************************************)
(* storage::json_backend: the settings as a JSON document in memory, and   *)
(* two files, config.json and config.json.tmp.  Every mutator changes the  *)
(* document and calls save(), which writes the temporary file and replaces *)
(* config.json by it; the mutators drop save()'s result.  The process can  *)
(* die between any two file operations.  The documents are maps: the order *)
(* of the JSON arrays shows only in list_accounts(), which promises none.  *)
(***************************************************************************)
CONSTANTS
    Services, Urls, MetaKeys,   \* keys of the three parts of the document
    Values, Absent,
    Unwritable,                 \* values that are no UTF-8: dump() throws on them
    Platforms,                  \* builds under consideration
    Faults,                     \* file operations that may fail
    Missing,                    \* no such file
    Torn                        \* a file that holds no whole document

AllFaults == {"read", "open", "write", "move", "remove", "rename"}
Keys      == Services \cup Urls \cup MetaKeys
Docs      == [Keys -> Values \cup {Absent}]
Default   == [k \in Keys |-> Absent]

ASSUME ConstantsAssumption ==
    /\ Platforms \subseteq {"windows", "posix"}
    /\ Faults \subseteq AllFaults
    /\ Absent \notin Values
    /\ Unwritable \subseteq Values
    /\ Missing # Torn
    /\ Missing \notin Docs /\ Torn \notin Docs

VARIABLES
    platform,   \* the build: fixed
    denied,     \* config.json, if it is there, cannot be opened for reading
    doc,        \* doc_
    disk,       \* config.json
    tmp,        \* config.json.tmp
    pc,         \* "down", "idle", or the file operation save() does next
    opening,    \* save() was called by load()
    ok,         \* what the last save() returned
    created     \* a history variable: config.json has been there

env   == <<platform, denied>>
vars  == <<env, doc, disk, tmp, pc, opening, ok, created>>
files == <<disk, tmp>>

Contents == Docs \cup {Missing, Torn}
Saving   == {"tmp", "write", "move", "remove", "rename"}

TypeOK ==
    /\ platform \in Platforms /\ denied \in BOOLEAN
    /\ doc \in Docs
    /\ disk \in {Missing, Torn} \/ disk \in Docs
    /\ tmp \in {Missing, Torn} \/ tmp \in Docs
    /\ pc \in Saving \cup {"down", "idle"}
    /\ opening \in BOOLEAN /\ ok \in BOOLEAN /\ created \in BOOLEAN

Init ==
    /\ platform \in Platforms /\ denied = FALSE
    /\ doc = Default /\ disk = Missing /\ tmp = Missing
    /\ pc = "down" /\ opening = FALSE /\ ok = FALSE /\ created = FALSE

MayFail(op) == op \in Faults

-----------------------------------------------------------------------------
(* load                                                                    *)

\* The file is there: its document, completed by defaults, becomes doc_.
LoadFile ==
    /\ pc = "down" /\ disk \notin {Missing, Torn} /\ ~denied
    /\ doc' = disk /\ pc' = "idle"
    /\ UNCHANGED <<env, files, opening, ok, created>>

\* Permissions, another process's lock or a want of descriptors come and go.
Deny ==
    /\ pc = "down" /\ MayFail("read")
    /\ denied' = ~denied
    /\ UNCHANGED <<platform, doc, files, pc, opening, ok, created>>

\* Mutant of LoadDefault: a file that does not parse is taken for a missing one.
MutLoadDefault ==
    /\ pc = "down" /\ (disk \in {Missing, Torn} \/ denied)
    /\ doc' = Default /\ pc' = "tmp" /\ opening' = TRUE
    /\ UNCHANGED <<env, files, ok, created>>

\* config.json cannot be opened, because it is missing or although it is there: the
\* default document is saved, over the settings if there are any.
LoadDefault ==
    /\ pc = "down" /\ (disk = Missing \/ denied)
    /\ doc' = Default /\ pc' = "tmp" /\ opening' = TRUE
    /\ doc' = Default /\ pc' = "tmp" /\ opening' = TRUE
    /\ UNCHANGED <<env, files, ok, created>>

\* A file that does not parse makes the constructor throw: nothing happens and
\* open_storage() returns nullptr.

-----------------------------------------------------------------------------
(* The mutators: change doc_, then save()                                  *)

Change(d) ==
    /\ pc = "idle"
    /\ doc' = d /\ pc' = "tmp"
    /\ UNCHANGED <<env, files, opening, ok, created>>

Upsert(k, v) == v \in Values /\ Change([doc EXCEPT ![k] = v])

\* delete_account and remove_calendar_source save only if they found the key;
\* delete_meta always does.
Delete(k) ==
    /\ doc[k] # Absent \/ k \in MetaKeys
    /\ Change([doc EXCEPT ![k] = Absent])

\* Mutant: clear() empties the two arrays and drops the meta object.
MutClear == Change([k \in Services \cup Urls |-> Absent])

Clear == Change(Default)

-----------------------------------------------------------------------------
(* save, atomic_replace                                                    *)

\* save() returns r: a mutator ignores it, load() throws if it is FALSE.
SaveReturns(r) ==
    /\ ok' = r
    /\ opening' = FALSE
    /\ pc' = IF opening /\ ~r THEN "down" ELSE "idle"
    /\ doc' = IF opening /\ ~r THEN Default ELSE doc

\* Mutant: the document is written straight into config.json.
MutOpenTmp ==
    /\ pc = "tmp" /\ disk' = Torn /\ tmp' = Torn /\ pc' = "write"
    /\ UNCHANGED <<env, doc, opening, ok, created>>

OpenTmp ==
    /\ pc = "tmp" /\ tmp' = Torn /\ pc' = "write"
    /\ UNCHANGED <<env, doc, disk, opening, ok, created>>

OpenTmpFails ==
    /\ pc = "tmp" /\ MayFail("open")
    /\ SaveReturns(FALSE)
    /\ UNCHANGED <<env, files, created>>

\* What the temporary file holds once closed.  Nobody looks at the stream's
\* state, so a short write goes on to replace the file.
Written == {doc} \cup (IF MayFail("write") THEN {Torn} ELSE {})

Writable(d) == \A k \in Keys : d[k] \notin Unwritable

WriteTmp ==
    /\ pc = "write" /\ Writable(doc) /\ tmp' \in Written
    /\ pc' = IF platform = "windows" THEN "move" ELSE "remove"
    /\ UNCHANGED <<env, doc, disk, opening, ok, created>>

\* dump() throws out of save() and of the mutator: the document keeps the value.
DumpThrows ==
    /\ pc = "write" /\ ~Writable(doc)
    /\ SaveReturns(FALSE)
    /\ UNCHANGED <<env, files, created>>

\* MoveFileExA with MOVEFILE_REPLACE_EXISTING; if it fails, the portable way.
Move ==
    /\ pc = "move" /\ disk' = tmp /\ tmp' = Missing
    /\ SaveReturns(TRUE)
    /\ created' = TRUE
    /\ UNCHANGED env

MoveFails ==
    /\ pc = "move" /\ MayFail("move") /\ pc' = "remove"
    /\ UNCHANGED <<env, doc, files, opening, ok, created>>

\* fs::remove(dest): its error is overwritten by that of the rename.
Remove ==
    /\ pc = "remove" /\ pc' = "rename"
    /\ disk' = Missing
    /\ UNCHANGED <<env, doc, tmp, opening, ok, created>>

RemoveFails ==
    /\ pc = "remove" /\ MayFail("remove") /\ pc' = "rename"
    /\ UNCHANGED <<env, doc, files, opening, ok, created>>

Rename ==
    /\ pc = "rename" /\ disk' = tmp /\ tmp' = Missing
    /\ SaveReturns(TRUE)
    /\ created' = TRUE
    /\ UNCHANGED env

\* Mutant: atomic_replace reports the outcome of the removal.
MutRenameFails ==
    /\ pc = "rename" /\ MayFail("rename")
    /\ SaveReturns(TRUE)
    /\ UNCHANGED <<env, files, created>>

RenameFails ==
    /\ pc = "rename" /\ MayFail("rename")
    /\ SaveReturns(FALSE)
    /\ UNCHANGED <<env, files, created>>

Save == \/ OpenTmp \/ OpenTmpFails \/ WriteTmp \/ DumpThrows \/ Move \/ MoveFails
        \/ Remove \/ RemoveFails \/ Rename \/ RenameFails

\* The process closes the store or dies, wherever it is.
Crash ==
    /\ pc # "down" /\ pc' = "down"
    /\ doc' = Default /\ opening' = FALSE
    /\ UNCHANGED <<env, files, ok, created>>

-----------------------------------------------------------------------------
Next ==
    \/ LoadFile \/ LoadDefault \/ Deny
    \/ \E k \in Keys, v \in Values : Upsert(k, v)
    \/ \E k \in Keys : Delete(k)
    \/ Clear
    \/ Save
    \/ Crash

Spec == Init /\ [][Next]_vars

-----------------------------------------------------------------------------
\* The steps of save() that are not atomic: the fallback of atomic_replace, and
\* the installation of a file that was written short.
Lossy == pc \in {"remove", "rename"} \/ (pc = "move" /\ tmp = Torn)

\* A missing file is opened as the default document.
Durable == IF disk = Missing THEN Default ELSE disk

\* What is on disk changes only to the document in memory, whole, and that document
\* starts as what was on disk.  There are three exceptions: the fallback of
\* atomic_replace, an unnoticed short write, and an opening that takes a config.json
\* it is denied for a missing one (json_backend.cpp:24-34, :49-56, :67-90).
Store == INSTANCE SettingsStore
         WITH mem <- doc, durable <- Durable, up <- pc # "down", lossy <- Lossy,
              blind <- denied
KeepsPromise == Store!Spec

\* save() returned TRUE and nothing happened since: an opening that can read the file
\* finds what the open store shows, unless the write was short.
SuccessIsDurable == pc = "idle" /\ ok => disk \in {doc, Torn}

\* json_backend.h:11 promises that all changes are persisted at once by an atomic
\* write of the file: once there is a config.json, a process that dies leaves one.
ConfigSurvives == pc = "down" /\ created => disk # Missing
=============================================================================
