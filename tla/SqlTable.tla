------------------------------- MODULE SqlTable -------------------------------
(***************************************************************************)
(* The Hub keeps its durable state in SQLite tables and in one directory   *)
(* of packet files.  A table (or the directory) is modelled as a function  *)
(* from the primary keys that exist to their rows.                         *)
(***************************************************************************)

\* The empty table.
NoRows == [key \in {} |-> {}]

\* INSERT ... ON CONFLICT(id) DO UPDATE: the row of key becomes `row`, every
\* other row stays.
Upsert(table, key, row) ==
  [k \in DOMAIN table \cup {key} |-> IF k = key THEN row ELSE table[k]]
===============================================================================
