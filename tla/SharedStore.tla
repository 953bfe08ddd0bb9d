---------------------------- MODULE SharedStore ----------------------------
(***************************************************************************)
(* What a settings database promises to all the processes that have it     *)
(* open: its rows change by whole operations, one at a time, and the       *)
(* version of its schema never falls.  Raising the version may also enter  *)
(* the schema_version row if it is missing.                                *)
(***************************************************************************)
EXTENDS Naturals

CONSTANTS Keys, Values, Absent,
          SchemaKey, SchemaValue    \* the schema_version row of table meta

VARIABLES
    rows,       \* the committed rows
    version     \* the committed PRAGMA user_version

vars == <<rows, version>>

Empty == [k \in Keys |-> Absent]

\* INSERT ... ON CONFLICT DO NOTHING
WithSchemaRow(r) ==
    [r EXCEPT ![SchemaKey] = IF @ = Absent THEN SchemaValue ELSE @]

Init == rows = Empty /\ version = 0

Upgrade ==
    /\ version' \in Nat \ {0} /\ version' >= version
    /\ rows' \in {rows, WithSchemaRow(rows)}

Put(k, v) == version > 0 /\ rows' = [rows EXCEPT ![k] = v] /\ UNCHANGED version

Clear == version > 0 /\ rows' = Empty /\ UNCHANGED version

Next == Upgrade \/ Clear \/ \E k \in Keys, v \in Values \cup {Absent} : Put(k, v)

Spec == Init /\ [][Next]_vars
=============================================================================
