--------------------------- MODULE SqliteBackend ---------------------------
(***************************************************************************)
(* storage::sqlite_backend: several processes, each with one connection to *)
(* the same database file.  The constructor chooses the journal mode, reads*)
(* user_version and applies the baseline and the migrations, each script   *)
(* in a transaction; a change of one row is one statement on its own; the  *)
(* statements of clear() are a transaction.  A process may die anywhere.   *)
(*                                                                         *)
(* Of SQLite itself the module has the locks: BEGIN takes none and fails   *)
(* inside a transaction, the first statement takes a snapshot, the first   *)
(* change the one write lock, which a connection does not get on a         *)
(* snapshot that others have overtaken.  A COMMIT that fails has rolled    *)
(* back, except in rollback-journal mode one refused because others read.  *)
(***************************************************************************)
EXTENDS Naturals

CONSTANTS
    Conns,
    Keys, Values, Absent,       \* rows of the three tables, by their keys
    SchemaKey, SchemaValue,     \* the schema_version row of table meta
    Faults                      \* what may go wrong outside this code

\* "wal": the file cannot be switched to WAL; "read": a statement that reads
\* fails; "io": a statement that changes, or a COMMIT, fails; "reader": another
\* program reads the file in rollback-journal mode; "resource": db.sql is gone.
AllFaults == {"wal", "read", "io", "reader", "resource"}

ASSUME ConstantsAssumption ==
    /\ Faults \subseteq AllFaults
    /\ SchemaKey \in Keys /\ SchemaValue \in Values /\ Absent \notin Values

VARIABLES
    db,         \* the committed database
    journal,    \* its journal mode: a property of the file
    pc,         \* where connection c is
    tx,         \* its transaction: "none", "begun", "read" or "write"
    view,       \* the database as its transaction sees it
    stale,      \* its snapshot has been overtaken by another commit
    version,    \* the local of apply_migrations()
    script      \* the version of the script being run

conn == <<pc, tx, view, stale, version, script>>
vars == <<db, journal, conn>>

\* Mutant: a first migration is registered next to the baseline.
MutMigrations == {2}

\* The registered migrations, by the version they lead to.
Migrations == {}

Versions == {0, 1} \cup Migrations
Rows     == [Keys -> Values \cup {Absent}]
Empty    == [k \in Keys |-> Absent]
Database == [version : Versions, rows : Rows]

Opening == {"version", "baseline", "ddl", "insert", "commit", "reread", "loop"}
Places  == Opening \cup {"down", "idle", "delete", "clearcommit"}

TypeOK ==
    /\ db \in Database
    /\ journal \in {"delete", "wal"}
    /\ pc \in [Conns -> Places]
    /\ tx \in [Conns -> {"none", "begun", "read", "write"}]
    /\ view \in [Conns -> Database]
    /\ stale \in [Conns -> BOOLEAN]
    /\ version \in [Conns -> Versions]
    /\ script \in [Conns -> Versions]

NewDb == [version |-> 0, rows |-> Empty]

Init ==
    /\ db = NewDb /\ journal = "delete"
    /\ pc = [c \in Conns |-> "down"] /\ tx = [c \in Conns |-> "none"]
    /\ view = [c \in Conns |-> NewDb] /\ stale = [c \in Conns |-> FALSE]
    /\ version = [c \in Conns |-> 0] /\ script = [c \in Conns |-> 0]

MayFail(f) == f \in Faults

-----------------------------------------------------------------------------
(* SQLite                                                                  *)

Others(c) == Conns \ {c}

\* The write lock is free and the snapshot of c, if it has one, is the last.
CanWrite(c) == ~stale[c] /\ \A d \in Others(c) : tx[d] # "write"

\* A COMMIT of c would have to wait for a reader (busy_timeout: 5 s).
Refused(c) ==
    journal = "delete" /\ (MayFail("reader") \/ \E d \in Others(c) : tx[d] = "read")

CanCommit(c) == journal = "wal" \/ \A d \in Others(c) : tx[d] # "read"

\* The new state of the file; what the others have read is overtaken.
Commit(c, new) ==
    /\ db' = new
    /\ stale' = [d \in Conns |-> stale[d] \/ (d # c /\ tx[d] = "read")]
    /\ UNCHANGED journal

\* The transaction of c ends, whichever way, and c goes on at p.
EndAt(c, p) == pc' = [pc EXCEPT ![c] = p] /\ tx' = [tx EXCEPT ![c] = "none"]

\* c rolls back, or dies and is rolled back by the next who opens the file.
RollbackTo(c, p) ==
    /\ EndAt(c, p)
    /\ stale' = [stale EXCEPT ![c] = FALSE]
    /\ UNCHANGED <<db, journal, view, version, script>>

-----------------------------------------------------------------------------
(* open                                                                    *)

\* The pragma that asks for WAL runs before the one that sets busy_timeout: it
\* fails, and is only logged, as soon as another connection has a lock.
JournalModes(c) ==
    {m \in {"wal", "delete"} :
        /\ m = "delete" =>
            /\ journal = "delete"
            /\ MayFail("wal") \/ MayFail("reader") \/ \E d \in Others(c) : pc[d] # "down"
        /\ m = "wal" =>
            journal = "wal" \/ \A d \in Others(c) : tx[d] \notin {"read", "write"}}

Open(c) ==
    /\ pc[c] = "down"
    /\ journal' \in JournalModes(c)
    /\ pc' = [pc EXCEPT ![c] = "version"]
    /\ UNCHANGED <<db, tx, view, stale, version, script>>

\* What current_version() returns: a failing statement counts as version 0.
CurrentVersion == {db.version} \cup (IF MayFail("read") THEN {0} ELSE {})

\* current_version(), before the baseline and, if that was run, after it.
ReadVersion(c) ==
    /\ pc[c] \in {"version", "reread"}
    /\ \E v \in CurrentVersion :
        /\ version' = [version EXCEPT ![c] = v]
        /\ pc' = [pc EXCEPT ![c] = IF @ = "version" /\ v = 0 THEN "baseline" ELSE "loop"]
    /\ UNCHANGED <<db, journal, tx, view, stale, script>>

\* The MSVC build reads db.sql when it runs: an empty text makes it throw.
BaselineThrows(c) ==
    /\ pc[c] = "baseline" /\ MayFail("resource")
    /\ RollbackTo(c, "down")

\* The scripts that c still has to run.
Due(c) ==
    IF pc[c] = "baseline" THEN {1} ELSE {m \in Migrations : m > version[c]}

\* run_in_transaction: BEGIN
Begin(c) ==
    /\ pc[c] \in {"baseline", "loop"}
    /\ \E m \in Due(c) :
        /\ \A n \in Due(c) : m <= n
        /\ script' = [script EXCEPT ![c] = m]
    /\ pc' = [pc EXCEPT ![c] = "ddl"] /\ tx' = [tx EXCEPT ![c] = "begun"]
    /\ UNCHANGED <<db, journal, view, stale, version>>

\* Mutant: the script sets user_version past its own version.
MutAfterScript(m, d) == [version |-> m + 1, rows |-> d.rows]

\* The database d after script m; the baseline also enters schema_version.
AfterScript(m, d) ==
    [version |-> m,
     rows |-> IF m = 1 /\ d.rows[SchemaKey] = Absent
              THEN [d.rows EXCEPT ![SchemaKey] = SchemaValue] ELSE d.rows]

\* From its first change to its end nobody can come in between.
RunScript(c, d) ==
    /\ CanWrite(c)
    /\ pc' = [pc EXCEPT ![c] = "commit"] /\ tx' = [tx EXCEPT ![c] = "write"]
    /\ view' = [view EXCEPT ![c] = AfterScript(script[c], d)]
    /\ UNCHANGED <<db, journal, stale, version, script>>

\* Where the tables are missing, or in a migration, the first statement changes
\* the database.
FirstStatementWrites(c) ==
    /\ pc[c] = "ddl" /\ (db.version = 0 \/ script[c] > 1)
    /\ RunScript(c, db)

\* Where they exist, CREATE TABLE IF NOT EXISTS only reads: c holds a snapshot.
FirstStatementReads(c) ==
    /\ pc[c] = "ddl" /\ db.version > 0 /\ script[c] = 1
    /\ pc' = [pc EXCEPT ![c] = "insert"] /\ tx' = [tx EXCEPT ![c] = "read"]
    /\ view' = [view EXCEPT ![c] = db]
    /\ UNCHANGED <<db, journal, stale, version, script>>

InsertSchemaVersion(c) == pc[c] = "insert" /\ RunScript(c, view[c])

\* A statement of the script fails: ROLLBACK, and the constructor throws.
ScriptFails(c) ==
    /\ pc[c] \in {"ddl", "insert"}
    /\ ~CanWrite(c) \/ MayFail("io")
    /\ RollbackTo(c, "down")

\* After the baseline the version is read again, after a migration it is known.
CommitScript(c) ==
    /\ pc[c] = "commit" /\ CanCommit(c)
    /\ Commit(c, view[c])
    /\ EndAt(c, IF script[c] = 1 THEN "reread" ELSE "loop")
    /\ version' = [version EXCEPT ![c] = IF script[c] = 1 THEN @ ELSE script[c]]
    /\ UNCHANGED <<view, script>>

\* Mutant: run_in_transaction reports success although COMMIT failed.
MutCommitScriptFails(c) ==
    /\ pc[c] = "commit" /\ (Refused(c) \/ MayFail("io"))
    /\ RollbackTo(c, "reread")

CommitScriptFails(c) ==
    /\ pc[c] = "commit" /\ (Refused(c) \/ MayFail("io"))
    /\ RollbackTo(c, "down")

Opened(c) ==
    /\ pc[c] = "loop" /\ Due(c) = {}
    /\ pc' = [pc EXCEPT ![c] = "idle"]
    /\ UNCHANGED <<db, journal, tx, view, stale, version, script>>

-----------------------------------------------------------------------------
(* The operations of an open store                                         *)

With(d, k, v) == [version |-> d.version, rows |-> [d.rows EXCEPT ![k] = v]]
Cleared(d)    == [version |-> d.version, rows |-> Empty]

\* One statement outside any transaction.  If it fails nothing changes, and
\* nobody is told: the result of sqlite3_step is dropped.
Put(c, k, v) ==
    /\ pc[c] = "idle" /\ tx[c] = "none"
    /\ CanWrite(c) /\ CanCommit(c)
    /\ Commit(c, With(db, k, v))
    /\ UNCHANGED <<pc, tx, view, version, script>>

\* The same inside the transaction that a clear() has left open.
PutInside(c, k, v) ==
    /\ pc[c] = "idle" /\ tx[c] = "write"
    /\ view' = [view EXCEPT ![c] = With(@, k, v)]
    /\ UNCHANGED <<db, journal, pc, tx, stale, version, script>>

\* clear(): BEGIN, which fails and ends the call inside a transaction
ClearBegin(c) ==
    /\ pc[c] = "idle" /\ tx[c] = "none"
    /\ pc' = [pc EXCEPT ![c] = "delete"] /\ tx' = [tx EXCEPT ![c] = "begun"]
    /\ UNCHANGED <<db, journal, view, stale, version, script>>

ClearDelete(c) ==
    /\ pc[c] = "delete" /\ CanWrite(c)
    /\ pc' = [pc EXCEPT ![c] = "clearcommit"] /\ tx' = [tx EXCEPT ![c] = "write"]
    /\ view' = [view EXCEPT ![c] = Cleared(db)]
    /\ UNCHANGED <<db, journal, stale, version, script>>

\* Mutant: clear() returns without ROLLBACK once some table is empty.
MutClearFails(c) ==
    /\ pc[c] = "delete" /\ CanWrite(c) /\ MayFail("io")
    /\ pc' = [pc EXCEPT ![c] = "idle"] /\ tx' = [tx EXCEPT ![c] = "write"]
    /\ view' = [view EXCEPT ![c] = With(db, SchemaKey, Absent)]
    /\ UNCHANGED <<db, journal, stale, version, script>>

\* One of the three DELETEs fails: ROLLBACK.
ClearFails(c) ==
    /\ pc[c] = "delete" /\ (~CanWrite(c) \/ MayFail("io"))
    /\ RollbackTo(c, "idle")

ClearCommit(c) ==
    /\ pc[c] = "clearcommit" /\ CanCommit(c)
    /\ Commit(c, view[c])
    /\ EndAt(c, "idle")
    /\ UNCHANGED <<view, version, script>>

\* COMMIT is refused and clear() returns: the transaction stays open.
ClearCommitRefused(c) ==
    /\ pc[c] = "clearcommit" /\ Refused(c)
    /\ pc' = [pc EXCEPT ![c] = "idle"]
    /\ UNCHANGED <<db, journal, tx, view, stale, version, script>>

ClearCommitFails(c) ==
    /\ pc[c] = "clearcommit" /\ MayFail("io")
    /\ RollbackTo(c, "idle")

\* The store is closed, or its process dies, anywhere.
Down(c) == pc[c] # "down" /\ RollbackTo(c, "down")

-----------------------------------------------------------------------------
Construct(c) ==
    \/ Open(c) \/ ReadVersion(c) \/ BaselineThrows(c) \/ Begin(c)
    \/ FirstStatementWrites(c) \/ FirstStatementReads(c) \/ InsertSchemaVersion(c)
    \/ ScriptFails(c) \/ CommitScript(c) \/ CommitScriptFails(c) \/ Opened(c)

ClearStep(c) ==
    \/ ClearBegin(c) \/ ClearDelete(c) \/ ClearFails(c)
    \/ ClearCommit(c) \/ ClearCommitRefused(c) \/ ClearCommitFails(c)

Next ==
    \E c \in Conns :
        \/ Construct(c) \/ ClearStep(c) \/ Down(c)
        \/ \E k \in Keys, v \in Values \cup {Absent} : Put(c, k, v) \/ PutInside(c, k, v)

Spec == Init /\ [][Next]_vars

-----------------------------------------------------------------------------
(* What the queries of c return; one that fails returns nothing.           *)
Shown(c) == IF tx[c] \in {"none", "begun"} THEN db ELSE view[c]

\* Whatever fails and whoever dies, the other processes see the rows change by
\* whole operations only and the schema version never fall: no half of a clear(),
\* no script without its version (sqlite_backend.cpp:108-159, :302-317).
Shared == INSTANCE SharedStore WITH rows <- db.rows, version <- db.version
Atomic == Shared!Spec

\* A store that open_storage() returned has the newest schema on disk, even if
\* several processes opened it at once or the version could not be read
\* (sqlite_backend.cpp:88-95, :119-139).
OpenIsCurrent ==
    \A c \in Conns :
        pc[c] \in {"idle", "delete", "clearcommit"} =>
            \A m \in {1} \cup Migrations : db.version >= m

\* Between two calls a store shows what is on disk, so that nothing of it is lost
\* when it closes and no other process waits for it; only in rollback-journal mode
\* a clear() may have left its transaction open (sqlite_backend.cpp:304-316).
IdleIsCommitted ==
    \A c \in Conns : pc[c] = "idle" /\ journal = "wal" => tx[c] = "none" /\ Shown(c) = db
=============================================================================
