------------------------ MODULE SqliteBackend_proofs ------------------------
(***************************************************************************)
(* For any number of processes, any rows and any faults: the types, what   *)
(* an open store may rely on, and that the backend implements SharedStore. *)
(* The invariant is that there is one writer at most, and that a writer    *)
(* which is about to commit will commit the database as it is, changed by  *)
(* the whole of its own operation.                                         *)
(***************************************************************************)
EXTENDS SqliteBackend, TLAPS

\* What holds of the transaction of c at each place of its program.
Local(c) ==
    /\ pc[c] \in {"down", "version", "baseline", "reread", "loop"} => tx[c] = "none"
    /\ pc[c] \in {"ddl", "delete"} => tx[c] = "begun"
    /\ pc[c] = "insert" => tx[c] = "read"
    /\ pc[c] \in {"commit", "clearcommit"} => tx[c] = "write"
    /\ pc[c] = "idle" => tx[c] = "none" \/ (tx[c] = "write" /\ journal = "delete")
    /\ pc[c] \in {"reread", "loop", "idle", "delete", "clearcommit"} => db.version = 1
    /\ pc[c] \in {"ddl", "insert", "commit"} => script[c] = 1
    /\ pc[c] = "insert" /\ ~stale[c] => view[c] = db
    /\ pc[c] = "commit" => view[c] = AfterScript(1, db)
    /\ pc[c] = "clearcommit" => view[c] = Cleared(db)

OneWriter == \A c, d \in Conns : tx[c] = "write" /\ tx[d] = "write" => c = d

IInv == TypeOK /\ OneWriter /\ \A c \in Conns : Local(c)

-----------------------------------------------------------------------------
LEMMA EmptyIsRows == Empty \in Rows
  BY DEF Empty, Rows

\* The baseline makes a database of version 1 of any database.
LEMMA ScriptType ==
  ASSUME NEW d \in Database
  PROVE  AfterScript(1, d) \in Database /\ AfterScript(1, d).version = 1
  BY ConstantsAssumption DEF AfterScript, Database, Rows, Versions, Migrations

LEMMA WithType ==
  ASSUME NEW d \in Database, NEW k \in Keys, NEW v \in Values \cup {Absent}
  PROVE  /\ With(d, k, v) \in Database
         /\ With(d, k, v).version = d.version
         /\ With(d, k, v).rows = [d.rows EXCEPT ![k] = v]
  BY DEF With, Database, Rows

LEMMA ClearedType ==
  ASSUME NEW d \in Database
  PROVE  /\ Cleared(d) \in Database
         /\ Cleared(d).version = d.version
         /\ Cleared(d).rows = Empty
  BY EmptyIsRows DEF Cleared, Database

-----------------------------------------------------------------------------
LEMMA InitIInv == Init => IInv
  BY EmptyIsRows DEF Init, IInv, TypeOK, OneWriter, Local, NewDb, Database, Places, Opening,
     Versions

\* Rolling back at any place of the constructor, of clear() or of a call.
LEMMA RollbackIInv ==
  ASSUME IInv, NEW c \in Conns, NEW p \in {"down", "idle"}, RollbackTo(c, p),
         p = "idle" => db.version = 1
  PROVE  IInv'
<1>1. TypeOK'
  BY DEF IInv, TypeOK, RollbackTo, EndAt, Places, Opening
<1>2. OneWriter'
  BY DEF IInv, TypeOK, OneWriter, RollbackTo, EndAt
<1>3. ASSUME NEW d \in Conns PROVE Local(d)'
  <2>1. CASE d = c
    BY <2>1 DEF IInv, TypeOK, Local, RollbackTo, EndAt
  <2>2. CASE d # c
    BY <2>2 DEF IInv, TypeOK, Local, RollbackTo, EndAt
  <2> QED
    BY <2>1, <2>2
<1> QED
  BY <1>1, <1>2, <1>3 DEF IInv

\* A step of c that leaves the database and the other connections alone.
LEMMA OwnStep ==
  ASSUME IInv, NEW c \in Conns, UNCHANGED <<db, journal>>, TypeOK', OneWriter', Local(c)',
         \A d \in Conns \ {c} : /\ pc'[d] = pc[d] /\ tx'[d] = tx[d] /\ view'[d] = view[d]
                                /\ stale'[d] = stale[d] /\ script'[d] = script[d]
  PROVE  IInv'
<1>1. ASSUME NEW d \in Conns, d # c PROVE Local(d)'
  BY <1>1 DEF IInv, Local
<1> QED
  BY <1>1 DEF IInv

\* A commit of the only writer: the others hold nothing that depends on the
\* database, except a snapshot, which is overtaken.
LEMMA CommitIInv ==
  ASSUME IInv, NEW c \in Conns, NEW new \in Database, Commit(c, new),
         new.version = 1, \A d \in Others(c) : tx[d] # "write",
         TypeOK', OneWriter', Local(c)',
         \A d \in Conns \ {c} : /\ pc'[d] = pc[d] /\ tx'[d] = tx[d] /\ view'[d] = view[d]
                                /\ script'[d] = script[d]
  PROVE  IInv'
<1>1. ASSUME NEW d \in Conns, d # c PROVE Local(d)'
  BY <1>1 DEF IInv, TypeOK, Local, Commit, Others
<1> QED
  BY <1>1 DEF IInv

-----------------------------------------------------------------------------
\* The steps of the constructor.
LEMMA ConstructIInv ==
  ASSUME IInv, NEW c \in Conns, Construct(c)
  PROVE  IInv'
<1> USE DEF Places, Opening
<1>1. CASE Open(c)
  <2>1. TypeOK'
    BY <1>1 DEF IInv, TypeOK, Open, JournalModes
  <2>2. ASSUME NEW d \in Conns PROVE Local(d)'
    BY <1>1, <2>2 DEF IInv, TypeOK, Local, Open, JournalModes, Others
  <2> QED
    BY <1>1, <2>1, <2>2 DEF IInv, OneWriter, Open
<1>2. CASE ReadVersion(c)
  <2>1. PICK v \in CurrentVersion :
          /\ version' = [version EXCEPT ![c] = v]
          /\ pc' = [pc EXCEPT ![c] = IF @ = "version" /\ v = 0 THEN "baseline" ELSE "loop"]
    BY <1>2 DEF ReadVersion
  <2>2. v \in {0, 1} /\ (v = db.version \/ v = 0) /\ db.version \in {0, 1}
    BY DEF IInv, TypeOK, CurrentVersion, Database, Versions, Migrations
  <2>3. TypeOK' /\ OneWriter'
    BY <1>2, <2>1, <2>2 DEF IInv, TypeOK, OneWriter, ReadVersion, Versions
  <2>4. Local(c)'
    BY <1>2, <2>1, <2>2 DEF IInv, TypeOK, Local, ReadVersion
  <2> QED
    BY <1>2, <2>1, <2>3, <2>4, OwnStep DEF IInv, TypeOK, ReadVersion
<1>3. CASE BaselineThrows(c)
  BY <1>3, RollbackIInv DEF BaselineThrows
<1>4. CASE Begin(c)
  <2>1. script' = [script EXCEPT ![c] = 1]
    BY <1>4 DEF Begin, Due, Migrations
  <2>2. TypeOK' /\ OneWriter'
    BY <1>4, <2>1 DEF IInv, TypeOK, OneWriter, Begin, Versions
  <2>3. Local(c)'
    BY <1>4, <2>1 DEF IInv, TypeOK, Local, Begin
  <2> QED
    BY <1>4, <2>1, <2>2, <2>3, OwnStep DEF IInv, TypeOK, Begin
<1>5. CASE FirstStatementWrites(c)
  <2>1. script[c] = 1 /\ db \in Database /\ RunScript(c, db)
    BY <1>5 DEF IInv, TypeOK, Local, FirstStatementWrites
  <2>2. AfterScript(1, db) \in Database
    BY <2>1, ScriptType
  <2>3. TypeOK' /\ OneWriter'
    BY <2>1, <2>2 DEF IInv, TypeOK, OneWriter, RunScript, CanWrite, Others
  <2>4. Local(c)'
    BY <2>1 DEF IInv, TypeOK, Local, RunScript
  <2> QED
    BY <2>1, <2>3, <2>4, OwnStep DEF IInv, TypeOK, RunScript
<1>6. CASE FirstStatementReads(c)
  <2>1. TypeOK' /\ OneWriter'
    BY <1>6 DEF IInv, TypeOK, OneWriter, FirstStatementReads
  <2>2. Local(c)'
    BY <1>6 DEF IInv, TypeOK, Local, FirstStatementReads
  <2> QED
    BY <1>6, <2>1, <2>2, OwnStep DEF IInv, TypeOK, FirstStatementReads
<1>7. CASE InsertSchemaVersion(c)
  <2>1. script[c] = 1 /\ view[c] = db /\ db \in Database /\ RunScript(c, db)
    BY <1>7 DEF IInv, TypeOK, Local, InsertSchemaVersion, RunScript, CanWrite
  <2>2. AfterScript(1, db) \in Database
    BY <2>1, ScriptType
  <2>3. TypeOK' /\ OneWriter'
    BY <2>1, <2>2 DEF IInv, TypeOK, OneWriter, RunScript, CanWrite, Others
  <2>4. Local(c)'
    BY <2>1 DEF IInv, TypeOK, Local, RunScript
  <2> QED
    BY <2>1, <2>3, <2>4, OwnStep DEF IInv, TypeOK, RunScript
<1>8. CASE ScriptFails(c)
  BY <1>8, RollbackIInv DEF ScriptFails
<1>9. CASE CommitScript(c)
  <2>1. /\ tx[c] = "write" /\ view[c] = AfterScript(1, db) /\ script[c] = 1 /\ db \in Database
    BY <1>9 DEF IInv, TypeOK, Local, CommitScript
  <2>2. view[c] \in Database /\ view[c].version = 1
    BY <2>1, ScriptType
  <2>3. \A d \in Others(c) : tx[d] # "write"
    BY <2>1 DEF IInv, OneWriter, Others
  <2>4. TypeOK' /\ OneWriter'
    BY <1>9, <2>1, <2>2 DEF IInv, TypeOK, OneWriter, CommitScript, Commit, EndAt
  <2>5. Local(c)'
    BY <1>9, <2>1, <2>2 DEF IInv, TypeOK, Local, CommitScript, Commit, EndAt
  <2> QED
    BY <1>9, <2>2, <2>3, <2>4, <2>5, CommitIInv DEF IInv, TypeOK, CommitScript, EndAt
<1>10. CASE CommitScriptFails(c)
  BY <1>10, RollbackIInv DEF CommitScriptFails
<1>11. CASE Opened(c)
  <2>1. TypeOK' /\ OneWriter'
    BY <1>11 DEF IInv, TypeOK, OneWriter, Opened
  <2>2. Local(c)'
    BY <1>11 DEF IInv, TypeOK, Local, Opened
  <2> QED
    BY <1>11, <2>1, <2>2, OwnStep DEF IInv, TypeOK, Opened
<1> QED
  BY <1>1, <1>2, <1>3, <1>4, <1>5, <1>6, <1>7, <1>8, <1>9, <1>10, <1>11 DEF Construct

\* The steps of clear().
LEMMA ClearIInv ==
  ASSUME IInv, NEW c \in Conns, ClearStep(c)
  PROVE  IInv'
<1> USE DEF Places, Opening
<1>1. CASE ClearBegin(c)
  <2>1. TypeOK' /\ OneWriter'
    BY <1>1 DEF IInv, TypeOK, OneWriter, ClearBegin
  <2>2. Local(c)'
    BY <1>1 DEF IInv, TypeOK, Local, ClearBegin
  <2> QED
    BY <1>1, <2>1, <2>2, OwnStep DEF IInv, TypeOK, ClearBegin
<1>2. CASE ClearDelete(c)
  <2>1. Cleared(db) \in Database
    BY ClearedType DEF IInv, TypeOK
  <2>2. TypeOK' /\ OneWriter'
    BY <1>2, <2>1 DEF IInv, TypeOK, OneWriter, ClearDelete, CanWrite, Others
  <2>3. Local(c)'
    BY <1>2 DEF IInv, TypeOK, Local, ClearDelete
  <2> QED
    BY <1>2, <2>2, <2>3, OwnStep DEF IInv, TypeOK, ClearDelete
<1>3. CASE ClearFails(c)
  BY <1>3, RollbackIInv DEF ClearFails, IInv, Local
<1>4. CASE ClearCommit(c)
  <2>1. tx[c] = "write" /\ view[c] = Cleared(db) /\ db.version = 1 /\ db \in Database
    BY <1>4 DEF IInv, TypeOK, Local, ClearCommit
  <2>2. view[c] \in Database /\ view[c].version = 1
    BY <2>1, ClearedType
  <2>3. \A d \in Others(c) : tx[d] # "write"
    BY <2>1 DEF IInv, OneWriter, Others
  <2>4. TypeOK' /\ OneWriter'
    BY <1>4, <2>1, <2>2 DEF IInv, TypeOK, OneWriter, ClearCommit, Commit, EndAt
  <2>5. Local(c)'
    BY <1>4, <2>1, <2>2 DEF IInv, TypeOK, Local, ClearCommit, Commit, EndAt
  <2> QED
    BY <1>4, <2>2, <2>3, <2>4, <2>5, CommitIInv DEF IInv, TypeOK, ClearCommit, EndAt
<1>5. CASE ClearCommitRefused(c)
  <2>1. TypeOK' /\ OneWriter'
    BY <1>5 DEF IInv, TypeOK, OneWriter, ClearCommitRefused
  <2>2. Local(c)'
    BY <1>5 DEF IInv, TypeOK, Local, ClearCommitRefused, Refused
  <2> QED
    BY <1>5, <2>1, <2>2, OwnStep DEF IInv, TypeOK, ClearCommitRefused
<1>6. CASE ClearCommitFails(c)
  BY <1>6, RollbackIInv DEF ClearCommitFails, IInv, Local
<1> QED
  BY <1>1, <1>2, <1>3, <1>4, <1>5, <1>6 DEF ClearStep

\* One statement, outside a transaction or inside the one left open.
LEMMA PutIInv ==
  ASSUME IInv, NEW c \in Conns, NEW k \in Keys, NEW v \in Values \cup {Absent},
         Put(c, k, v) \/ PutInside(c, k, v)
  PROVE  IInv'
<1> USE DEF Places, Opening
<1>1. CASE Put(c, k, v)
  <2>1. db.version = 1 /\ db \in Database
    BY <1>1 DEF IInv, TypeOK, Local, Put
  <2>2. With(db, k, v) \in Database /\ With(db, k, v).version = 1
    BY <2>1, WithType
  <2>3. TypeOK' /\ OneWriter'
    BY <1>1, <2>2 DEF IInv, TypeOK, OneWriter, Put, Commit
  <2>4. Local(c)'
    BY <1>1, <2>2 DEF IInv, TypeOK, Local, Put, Commit
  <2> QED
    BY <1>1, <2>2, <2>3, <2>4, CommitIInv DEF IInv, TypeOK, Put, CanWrite
<1>2. CASE PutInside(c, k, v)
  <2>1. With(view[c], k, v) \in Database
    BY WithType DEF IInv, TypeOK
  <2>2. TypeOK' /\ OneWriter'
    BY <1>2, <2>1 DEF IInv, TypeOK, OneWriter, PutInside
  <2>3. Local(c)'
    BY <1>2 DEF IInv, TypeOK, Local, PutInside
  <2> QED
    BY <1>2, <2>2, <2>3, OwnStep DEF IInv, TypeOK, PutInside
<1> QED
  BY <1>1, <1>2

LEMMA StepIInv == IInv /\ [Next]_vars => IInv'
<1> SUFFICES ASSUME IInv, [Next]_vars PROVE IInv'
  OBVIOUS
<1>1. ASSUME NEW c \in Conns, Down(c) PROVE IInv'
  BY <1>1, RollbackIInv DEF Down
<1>2. CASE UNCHANGED vars
  BY <1>2 DEF vars, conn, IInv, TypeOK, OneWriter, Local
<1> QED
  BY <1>1, <1>2, ConstructIInv, ClearIInv, PutIInv DEF Next

LEMMA Invariance == Spec => []IInv
  BY InitIInv, StepIInv, PTL DEF Spec

-----------------------------------------------------------------------------
\* Every variable keeps its type (sqlite_backend.cpp:62-159, :302-317).
THEOREM TypeCorrect == Spec => []TypeOK
<1>1. IInv => TypeOK
  BY DEF IInv
<1> QED
  BY <1>1, Invariance, PTL

\* An open store has the newest schema on disk, whatever failed while it and
\* other processes opened it (sqlite_backend.cpp:88-95, :119-139).
THEOREM SchemaIsCurrent == Spec => []OpenIsCurrent
<1>1. IInv => OpenIsCurrent
  BY DEF IInv, Local, OpenIsCurrent, Migrations
<1> QED
  BY <1>1, Invariance, PTL

\* In WAL mode an idle store has nothing uncommitted (sqlite_backend.cpp:304-316).
THEOREM NothingUncommitted == Spec => []IdleIsCommitted
<1>1. IInv => IdleIsCommitted
  BY DEF IInv, Local, IdleIsCommitted, Shown
<1> QED
  BY <1>1, Invariance, PTL

-----------------------------------------------------------------------------
(* The backend implements SharedStore.                                     *)

LEMMA InitRefines == Init => Shared!Init
  BY DEF Init, NewDb, Shared!Init, Empty, Shared!Empty

LEMMA StepRefines == IInv /\ [Next]_vars => [Shared!Next]_(Shared!vars)
<1> SUFFICES ASSUME IInv, [Next]_vars PROVE Shared!Next \/ db' = db
  BY DEF Shared!vars
<1>1. ASSUME NEW c \in Conns, Construct(c) PROVE Shared!Next \/ db' = db
  <2>1. CASE CommitScript(c)
    <3>1. db' = AfterScript(1, db) /\ db \in Database
      BY <2>1 DEF IInv, TypeOK, Local, CommitScript, Commit
    <3>2. db'.version = 1 /\ db'.rows \in {db.rows, Shared!WithSchemaRow(db.rows)}
      BY <3>1 DEF AfterScript, Shared!WithSchemaRow
    <3>3. db.version \in {0, 1}
      BY <3>1 DEF Database, Versions, Migrations
    <3> QED
      BY <3>2, <3>3 DEF Shared!Next, Shared!Upgrade
  <2>2. CASE ~CommitScript(c)
    BY <1>1, <2>2 DEF Construct, Open, ReadVersion, BaselineThrows, Begin,
       FirstStatementWrites, FirstStatementReads, InsertSchemaVersion, RunScript,
       ScriptFails, CommitScriptFails, Opened, RollbackTo
  <2> QED
    BY <2>1, <2>2
<1>2. ASSUME NEW c \in Conns, ClearStep(c) PROVE Shared!Next \/ db' = db
  <2>1. CASE ClearCommit(c)
    <3>1. db' = Cleared(db) /\ db.version = 1
      BY <2>1 DEF IInv, Local, ClearCommit, Commit
    <3> QED
      BY <3>1 DEF Shared!Next, Shared!Clear, Cleared, Empty, Shared!Empty
  <2>2. CASE ~ClearCommit(c)
    BY <1>2, <2>2 DEF ClearStep, ClearBegin, ClearDelete, ClearFails,
       ClearCommitRefused, ClearCommitFails, RollbackTo
  <2> QED
    BY <2>1, <2>2
<1>3. ASSUME NEW c \in Conns, NEW k \in Keys, NEW v \in Values \cup {Absent}, Put(c, k, v)
      PROVE  Shared!Next
  <2>1. db' = With(db, k, v) /\ db.version = 1
    BY <1>3 DEF IInv, Local, Put, Commit
  <2>2. Shared!Put(k, v)
    BY <2>1 DEF Shared!Put, With
  <2> QED
    BY <2>2 DEF Shared!Next
<1>4. ASSUME NEW c \in Conns, NEW k \in Keys, NEW v \in Values \cup {Absent},
             PutInside(c, k, v)
      PROVE  db' = db
  BY <1>4 DEF PutInside
<1>5. ASSUME NEW c \in Conns, Down(c) PROVE db' = db
  BY <1>5 DEF Down, RollbackTo
<1>6. CASE UNCHANGED vars
  BY <1>6 DEF vars
<1> QED
  BY <1>1, <1>2, <1>3, <1>4, <1>5, <1>6 DEF Next

\* Rows change by whole operations and the schema version never falls, for all
\* processes together (sqlite_backend.cpp:108-159, :302-317).
THEOREM Refinement == Spec => Atomic
  BY InitRefines, StepRefines, Invariance, PTL DEF Spec, Atomic, Shared!Spec
=============================================================================
