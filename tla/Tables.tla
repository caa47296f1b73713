------------------------------- MODULE Tables -------------------------------
(***************************************************************************)
(* Database tables as functions from primary keys to rows, shared by the   *)
(* modules that model code on top of better-sqlite3.  A key outside the    *)
(* domain has no row.                                                      *)
(***************************************************************************)
EXTENDS Naturals

\* INSERT of a row under a fresh key, or replacement of the row with that key.
Put(table, key, row) ==
    [k \in DOMAIN table \cup {key} |-> IF k = key THEN row ELSE table[k]]

\* A table whose keys are drawn from Keys and whose rows are in Rows.
IsTable(table, Keys, Rows) ==
    /\ DOMAIN table \subseteq Keys
    /\ table \in [DOMAIN table -> Rows]

\* The table without a row.
EmptyTable == [k \in {} |-> k]

\* DELETE of the rows with the given keys.
Without(table, keys) == [k \in DOMAIN table \ keys |-> table[k]]
=============================================================================
