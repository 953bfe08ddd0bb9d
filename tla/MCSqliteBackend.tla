-------------------------- MODULE MCSqliteBackend --------------------------
(***************************************************************************)
(* Two processes, one account row next to the schema_version row, one      *)
(* value next to that of the baseline.                                     *)
(***************************************************************************)
EXTENDS SqliteBackend, TLC

CONSTANTS c1, c2, login, schema, v1, one

MCConns  == {c1, c2}
MCKeys   == {login, schema}
MCValues == {v1, one}
Symmetry == Permutations(MCConns)
=============================================================================
