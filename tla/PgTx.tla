-------------------------------- MODULE PgTx --------------------------------
(***************************************************************************)
(* How a Postgres session follows the transaction state of its connection  *)
(* (internal/pg/handler.go): by the first keyword of each text and by      *)
(* whether running it gave an error, never by asking DuckDB.               *)
(***************************************************************************)

\* The answers of firstKeyword that its callers tell apart: BEGIN or START;
\* COMMIT, ROLLBACK or END; a word returnsRows accepts; any other word.
Keywords == {"BEGIN", "END", "ROWS", "OTHER"}

firstKeyword(q) == q.kw

returnsRows(q) == firstKeyword(q) = "ROWS"

\* Mutant of trackTx: a COMMIT or ROLLBACK counts only when it succeeds.
TrackOnSuccess(q, ok, inTx, txFail) ==
  CASE firstKeyword(q) = "BEGIN" -> [in |-> TRUE, fail |-> FALSE]
    [] firstKeyword(q) = "END" /\ ok -> [in |-> FALSE, fail |-> FALSE]
    [] OTHER -> [in |-> inTx, fail |-> txFail \/ (~ok /\ inTx)]

\* trackTx: the new inTx and txFail, from the old ones, the keyword and the error.
trackTx(q, ok, inTx, txFail) ==
  CASE firstKeyword(q) = "BEGIN" -> [in |-> TRUE, fail |-> FALSE]
    [] firstKeyword(q) = "END"   -> [in |-> FALSE, fail |-> FALSE]
    [] OTHER -> [in |-> inTx, fail |-> txFail \/ (~ok /\ inTx)]

Statuses == {"I", "T", "E"}

txStatus(t) == IF t.fail THEN "E" ELSE IF t.in THEN "T" ELSE "I"
=============================================================================
