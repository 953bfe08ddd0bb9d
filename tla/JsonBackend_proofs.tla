------------------------- MODULE JsonBackend_proofs -------------------------
(***************************************************************************)
(* For any keys, values, platforms and faults: the type invariant, that a  *)
(* successful save() is durable, and that the backend implements           *)
(* SettingsStore.  The invariant that carries them says what the temporary *)
(* file holds once it is closed: the document, or a short write.           *)
(***************************************************************************)
EXTENDS JsonBackend, TLAPS

TmpIsDoc == pc \in {"move", "remove", "rename"} => tmp \in {doc, Torn}

IInv == TypeOK /\ TmpIsDoc /\ SuccessIsDurable

\* The default document is a document.
LEMMA DefaultIsDoc == Default \in Docs
  BY DEF Default, Docs

\* A new store has nothing in memory and nothing on disk.
LEMMA InitIInv == Init => IInv
  BY DefaultIsDoc DEF Init, IInv, TypeOK, TmpIsDoc, SuccessIsDurable

\* A mutator leaves the document a document and the two files alone
\* (json_backend.cpp:92-202).
LEMMA ChangeIInv ==
    ASSUME IInv, NEW d \in Docs, Change(d)
    PROVE  IInv'
  BY DEF IInv, TypeOK, TmpIsDoc, SuccessIsDurable, Change, env, files, Saving

\* Putting a value into a document, or taking one out, gives a document.
LEMMA DocWith ==
    ASSUME NEW d \in Docs, NEW k \in Keys, NEW v \in Values \cup {Absent}
    PROVE  [d EXCEPT ![k] = v] \in Docs
  BY DEF Docs

\* Every step keeps the invariant.
LEMMA StepIInv == IInv /\ [Next]_vars => IInv'
<1> USE DEF IInv, TypeOK, TmpIsDoc, SuccessIsDurable, env, files, Saving
<1> SUFFICES ASSUME IInv, [Next]_vars PROVE IInv'
  OBVIOUS
<1>1. CASE LoadFile
  BY <1>1 DEF LoadFile
<1>2. CASE LoadDefault
  BY <1>2, DefaultIsDoc DEF LoadDefault
<1>3. ASSUME NEW k \in Keys, NEW v \in Values, Upsert(k, v) PROVE IInv'
  BY <1>3, ChangeIInv, DocWith DEF Upsert
<1>4. ASSUME NEW k \in Keys, Delete(k) PROVE IInv'
  BY <1>4, ChangeIInv, DocWith DEF Delete
<1>5. CASE Clear
  BY <1>5, ChangeIInv, DefaultIsDoc DEF Clear
<1>6. CASE OpenTmp
  BY <1>6 DEF OpenTmp
<1>7. CASE OpenTmpFails
  BY <1>7, DefaultIsDoc DEF OpenTmpFails, SaveReturns
<1>8. CASE WriteTmp
  BY <1>8 DEF WriteTmp, Written
<1>9. CASE DumpThrows
  BY <1>9, DefaultIsDoc DEF DumpThrows, SaveReturns
<1>10. CASE Move
  BY <1>10 DEF Move, SaveReturns
<1>11. CASE MoveFails
  BY <1>11 DEF MoveFails
<1>12. CASE Remove
  BY <1>12 DEF Remove
<1>13. CASE RemoveFails
  BY <1>13 DEF RemoveFails
<1>14. CASE Rename
  BY <1>14 DEF Rename, SaveReturns
<1>15. CASE RenameFails
  BY <1>15, DefaultIsDoc DEF RenameFails, SaveReturns
<1>16. CASE Crash
  BY <1>16, DefaultIsDoc DEF Crash
<1>17. CASE Deny
  BY <1>17 DEF Deny
<1>18. CASE UNCHANGED vars
  BY <1>18 DEF vars
<1> QED
  BY <1>1, <1>2, <1>3, <1>4, <1>5, <1>6, <1>7, <1>8, <1>9, <1>10, <1>11, <1>12,
     <1>13, <1>14, <1>15, <1>16, <1>17, <1>18 DEF Next, Save

\* The invariant holds in every behaviour.
THEOREM Invariance == Spec => []IInv
  BY InitIInv, StepIInv, PTL DEF Spec

\* The document and the two files hold documents, nothing, or a short write
\* (json_backend.cpp:38-90).
THEOREM TypeCorrect == Spec => []TypeOK
<1>1. IInv => TypeOK
  BY DEF IInv
<1> QED
  BY <1>1, Invariance, PTL

\* When save() returned TRUE, config.json holds what the open store shows,
\* unless the write was short and went unnoticed (json_backend.cpp:67-90).
THEOREM SavedIsDurable == Spec => []SuccessIsDurable
<1>1. IInv => SuccessIsDurable
  BY DEF IInv
<1> QED
  BY <1>1, Invariance, PTL

-----------------------------------------------------------------------------
(* The store is implemented                                                *)

\* A new backend is a new store.
LEMMA InitRefines == Init => Store!Init
  BY DEF Init, Store!Init, Durable, Default, Store!Default

\* save()'s end is no step of the store, or closes it when load() gives up.
LEMMA ReturnRefines ==
    ASSUME pc # "down", NEW r \in BOOLEAN, SaveReturns(r), UNCHANGED disk,
           r = FALSE
    PROVE  Store!Down \/ UNCHANGED Store!vars
  BY DEF SaveReturns, Store!Down, Store!vars, Durable, Default, Store!Default

\* The temporary file takes the place of config.json: all changes reach the disk
\* together, or a short write destroys it.
LEMMA InstallRefines ==
    ASSUME IInv, pc \in {"move", "rename"}, disk' = tmp, SaveReturns(TRUE)
    PROVE  Store!Persist \/ Store!Lose
<1>1. doc' = doc /\ pc' = "idle"
  BY DEF SaveReturns
<1>2. CASE tmp = doc
  <2>1. Durable' = doc
    BY <1>2, ConstantsAssumption DEF Durable, IInv, TypeOK
  <2> QED
    BY <1>1, <2>1 DEF Store!Persist
<1>3. CASE tmp = Torn
  <2>1. Durable' = Torn
    BY <1>3, ConstantsAssumption DEF Durable
  <2>2. Lossy
    BY <1>3 DEF Lossy
  <2> QED
    BY <1>1, <2>1, <2>2 DEF Store!Lose
<1> QED
  BY <1>2, <1>3 DEF IInv, TmpIsDoc

\* Every step of the backend is a step of the store or none.
LEMMA StepRefines == IInv /\ [Next]_vars => [Store!Next]_(Store!vars)
<1> SUFFICES ASSUME IInv, [Next]_vars PROVE Store!Next \/ UNCHANGED Store!vars
  OBVIOUS
<1> USE DEF env, files, Store!vars
<1>1. CASE LoadFile
  <2>1. Durable = disk /\ Durable' = disk /\ disk # Torn
    BY <1>1 DEF LoadFile, Durable
  <2> QED
    BY <1>1, <2>1 DEF LoadFile, Store!Next, Store!Open
<1>2. CASE LoadDefault
  <2>1. UNCHANGED Durable /\ doc' = Store!Default /\ pc = "down" /\ pc' = "tmp"
    BY <1>2 DEF LoadDefault, Durable, Default, Store!Default
  <2>2. CASE disk = Missing
    <3>1. Durable = doc' /\ Durable # Torn
      BY <1>2, <2>2, DefaultIsDoc, ConstantsAssumption DEF LoadDefault, Durable
    <3> QED
      BY <2>1, <3>1 DEF Store!Next, Store!Open
  <2>3. CASE denied
    BY <2>1, <2>3 DEF Store!Next, Store!OpenBlank
  <2> QED
    BY <1>2, <2>2, <2>3 DEF LoadDefault
<1>3. ASSUME NEW k \in Keys, NEW v \in Values, Upsert(k, v) PROVE Store!Next
  <2>1. Store!Put(k, v)
    BY <1>3 DEF Upsert, Change, Store!Put, Durable
  <2> QED
    BY <2>1 DEF Store!Next
<1>4. ASSUME NEW k \in Keys, Delete(k) PROVE Store!Next
  <2>1. Store!Put(k, Absent)
    BY <1>4 DEF Delete, Change, Store!Put, Durable
  <2> QED
    BY <2>1 DEF Store!Next
<1>5. CASE Clear
  <2>1. Store!Clear
    BY <1>5 DEF Clear, Change, Store!Clear, Durable, Default, Store!Default
  <2> QED
    BY <2>1 DEF Store!Next
<1>6. CASE OpenTmp
  BY <1>6 DEF OpenTmp, Durable
<1>7. CASE OpenTmpFails
  BY <1>7, ReturnRefines DEF OpenTmpFails, Store!Next
<1>8. CASE WriteTmp
  BY <1>8 DEF WriteTmp, Durable
<1>9. CASE DumpThrows
  BY <1>9, ReturnRefines DEF DumpThrows, Store!Next
<1>10. CASE Move
  BY <1>10, InstallRefines DEF Move, Store!Next
<1>11. CASE MoveFails
  BY <1>11 DEF MoveFails, Durable
<1>12. CASE Remove
  <2>1. Durable' = Default /\ Lossy
    BY <1>12 DEF Remove, Durable, Lossy
  <2>2. Store!Lose
    BY <1>12, <2>1 DEF Remove, Store!Lose, Default, Store!Default
  <2> QED
    BY <2>2 DEF Store!Next
<1>13. CASE RemoveFails
  BY <1>13 DEF RemoveFails, Durable
<1>14. CASE Rename
  BY <1>14, InstallRefines DEF Rename, Store!Next
<1>15. CASE RenameFails
  BY <1>15, ReturnRefines DEF RenameFails, Store!Next
<1>16. CASE Crash
  BY <1>16 DEF Crash, Store!Next, Store!Down, Durable, Default, Store!Default
<1>17. CASE Deny
  BY <1>17 DEF Deny, Durable
<1>18. CASE UNCHANGED vars
  BY <1>18 DEF vars, Durable
<1> QED
  BY <1>1, <1>2, <1>3, <1>4, <1>5, <1>6, <1>7, <1>8, <1>9, <1>10, <1>11, <1>12,
     <1>13, <1>14, <1>15, <1>16, <1>17, <1>18 DEF Next, Save

\* The backend implements the store: outside the fallback of atomic_replace, short writes
\* and openings of a config.json that is denied, changes reach the disk whole and none is
\* lost (json_backend.cpp:24-34, :49-56, :67-90).
THEOREM Refinement == Spec => KeepsPromise
  BY InitRefines, StepRefines, Invariance, PTL DEF Spec, KeepsPromise, Store!Spec
=============================================================================
