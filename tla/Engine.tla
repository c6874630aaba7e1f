------------------------------- MODULE Engine -------------------------------
(***************************************************************************)
(* What one statement does to the DuckDB connection it runs on, and what   *)
(* Engine.runOn makes of DuckDB's answer (internal/engine/duckdb.go).      *)
(*                                                                         *)
(* A statement is abstracted to its effect.  A connection is abstracted to *)
(* its transaction state: "idle" (autocommit), "open" (inside BEGIN) or    *)
(* "aborted" (inside a transaction DuckDB has invalidated and only lets    *)
(* end).  DuckDB itself is a library: DuckOutcomes is the contract the     *)
(* callers in internal/ rely on, with every outcome they must be ready for.*)
(***************************************************************************)

CONSTANT Stub    \* Engine.stub: the -stub-missing-schema mode

ASSUME StubAssumption == Stub \in BOOLEAN

TxStates == {"idle", "open", "aborted"}

\* "script" is one text holding a whole BEGIN; ...; COMMIT block, "refused" a
\* text DuckDB's parser does not take (BEGIN ISOLATION LEVEL ..., ROLLBACK TO
\* SAVEPOINT ...), "none" a text without a statement in it.
Effects == {"none", "read", "write", "begin", "commit", "rollback", "script",
            "refused"}

\* The classes of classifyErr, "ok" for a statement DuckDB ran, and "late" for
\* one that fails after QueryContext has returned, while its rows are read.
ErrClasses == {"ok", "app", "missing", "gap", "late"}

Outcome(err, tx) == [err |-> err, tx |-> tx]

\* A statement that fails while a transaction is open may or may not have
\* invalidated it: DuckDB keeps the transaction after some errors.
FailedIn(tx) == IF tx = "idle" THEN {"idle"} ELSE {tx, "aborted"}

(***************************************************************************)
(* The outcomes of running a statement on a connection in state tx.        *)
(*   - BEGIN fails inside a transaction; COMMIT and ROLLBACK fail outside. *)
(*   - COMMIT may fail on a conflict; the transaction is over (and rolled  *)
(*     back).  On an aborted transaction it may fail or be taken for a     *)
(*     ROLLBACK and answered without an error: either way nothing of the   *)
(*     transaction is kept.                                                *)
(*   - A script runs through, or stops at an error with its BEGIN open.    *)
(*   - A refused text never reaches the transaction.                       *)
(*   - Anything else fails on an aborted connection and otherwise runs or  *)
(*     fails with any class of error.                                      *)
(***************************************************************************)
DuckOutcomes(effect, tx) ==
  CASE effect = "begin" ->
         IF tx = "idle" THEN {Outcome("ok", "open")}
                        ELSE {Outcome("app", t) : t \in FailedIn(tx)}
    [] effect = "commit" ->
         {Outcome("app", "idle")}
           \cup (IF tx = "idle" THEN {} ELSE {Outcome("ok", "idle")})
    [] effect = "rollback" ->
         {Outcome(IF tx = "idle" THEN "app" ELSE "ok", "idle")}
    [] effect = "script" ->
         IF tx = "idle"
         THEN {Outcome("ok", "idle"), Outcome("app", "open"), Outcome("app", "aborted")}
         ELSE {Outcome("app", t) : t \in FailedIn(tx)}
    [] effect = "refused" ->
         {Outcome("app", tx)}
    [] OTHER ->
         IF tx = "aborted"
         THEN {Outcome("app", "aborted")}
         ELSE {Outcome("ok", tx)}
                \cup {Outcome(e, t) : e \in ErrClasses \ {"ok"}, t \in FailedIn(tx)}

(***************************************************************************)
(* runOn: a missing relation and a dialect gap become an empty result      *)
(* without error in stub mode; every other error is returned, a late one   *)
(* together with the rows buffered so far.  In the answer                  *)
(*   ok    the error is nil,            buf   the result is not nil,       *)
(*   ran   DuckDB executed the text,    cols  the result has columns.      *)
(***************************************************************************)
Stubbed(err) == Stub /\ err \in {"missing", "gap"}

runOn(effect, tx) ==
  { [ ok   |-> o.err = "ok" \/ Stubbed(o.err),
      buf  |-> o.err \in {"ok", "late"} \/ Stubbed(o.err),
      ran  |-> o.err = "ok",
      cols |-> o.err \in {"ok", "late"},
      tx   |-> o.tx ] : o \in DuckOutcomes(effect, tx) }
=============================================================================
