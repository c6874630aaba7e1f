---------------------------- MODULE MCPgSession ----------------------------
(***************************************************************************)
(* The SQL texts of the PgSession runs.  name keeps two texts of the same  *)
(* kind apart.                                                             *)
(***************************************************************************)
EXTENDS PgSession

Sql(name, kw, effect, params) ==
  [name |-> name, kw |-> kw, effect |-> effect, params |-> params]

MCEmpty == Sql("", "OTHER", "none", FALSE)

Select   == Sql("SELECT ...", "ROWS", "read", FALSE)
Insert   == Sql("INSERT ...", "OTHER", "write", FALSE)
InsertP  == Sql("INSERT ... $1", "OTHER", "write", TRUE)
Begin    == Sql("BEGIN", "BEGIN", "begin", FALSE)
Commit   == Sql("COMMIT", "END", "commit", FALSE)
Rollback == Sql("ROLLBACK", "END", "rollback", FALSE)

\* Texts whose first keyword does not say what they do.
WithInsert == Sql("WITH ... INSERT", "ROWS", "write", FALSE)
ToSave     == Sql("ROLLBACK TO SAVEPOINT ...", "END", "refused", FALSE)
Script     == Sql("BEGIN; ...; COMMIT", "BEGIN", "script", FALSE)

QPlain    == {MCEmpty, Select, Insert, Begin, Commit}
QLiberal  == {MCEmpty, WithInsert, InsertP, Begin, Rollback, ToSave, Script}
QInsert   == {MCEmpty, Insert}

MCArgs == {"null", "v"}
=============================================================================
