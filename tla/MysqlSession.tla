---------------------------- MODULE MysqlSession ----------------------------
(***************************************************************************)
(* One MySQL session (internal/mysql/handler.go): the handler behind       *)
(* go-mysql's command loop, which is external.  A command is one action.   *)
(* The only state is the warnings of the last statement that ran.          *)
(***************************************************************************)
EXTENDS Engine, Fidelity, Params

CONSTANT Results      \* what queries may return

VARIABLES
  warnings,   \* handler.warnings
  answer,     \* history: the last command, its answer, the warning count sent
  previous,   \* history: of the last statement given to DuckDB: did it run, what
              \* did it approximate, how many warnings were announced
  ran         \* history: the last prepared text, what was said about it, what ran

mysql == <<warnings, answer, previous, ran>>

\* What exec tells about a text (isShowWarnings, firstWord and isSessionNoop),
\* and what DuckDB makes of it.
Commands == {[kind |-> "empty", effect |-> "none"], [kind |-> "show", effect |-> "none"],
             [kind |-> "noop", effect |-> "refused"], [kind |-> "noop", effect |-> "read"],
             [kind |-> "other", effect |-> "read"], [kind |-> "other", effect |-> "write"]}

NoAnswer == [cmd |-> "none", reply |-> "none", warned |-> 0, lines |-> {}]
NoText == [proto |-> "none", text |-> <<>>, told |-> 0, final |-> <<>>]

MysqlInit ==
  /\ warnings = {}
  /\ answer = NoAnswer
  /\ previous = [ran |-> TRUE, notes |-> {}, warned |-> 0]
  /\ ran = NoText

Answer(cmd, reply, warned, lines) ==
  answer' = [cmd |-> cmd, reply |-> reply, warned |-> warned, lines |-> lines]

\* A statement that did not run, or not to its end.
NotRun == previous' = [previous EXCEPT !.ran = FALSE]

\* Mutant of Ran: the warnings of the statement before are kept.
RanKeepsWarnings(res) ==
  LET notes == Warnings("mysql", res) IN
  /\ warnings' = IF notes = {} THEN warnings ELSE notes
  /\ Answer("statement", "rows", Cardinality(notes), {})
  /\ previous' = [ran |-> TRUE, notes |-> notes, warned |-> Cardinality(notes)]
  /\ sent' = [proto |-> "mysql", formats |-> <<>>, res |-> res, told |-> notes]

\* exec from the reset of the warnings on: a result set, and its report.
Ran(res) ==
  LET notes == Warnings("mysql", res) IN
  /\ warnings' = notes
  /\ Answer("statement", "rows", Cardinality(notes), {})
  /\ previous' = [ran |-> TRUE, notes |-> notes, warned |-> Cardinality(notes)]
  /\ sent' = [proto |-> "mysql", formats |-> <<>>, res |-> res, told |-> notes]

\* exec on a text that is neither blank nor SHOW WARNINGS.
Statement(c, results) ==
  \E r \in runOn(c.effect, "idle") :
    \/ /\ ~r.ok
       /\ Answer("statement", IF c.kind = "noop" THEN "ok" ELSE "err", 0, {})
       /\ NotRun
       /\ sent' = NoResult
       /\ UNCHANGED warnings
    \/ /\ r.ok /\ ~r.cols
       /\ warnings' = {}
       /\ Answer("statement", "ok", 0, {})
       /\ previous' = [ran |-> TRUE, notes |-> {}, warned |-> 0]
       /\ sent' = NoResult
    \/ /\ r.ok /\ r.cols
       /\ \E res \in results : Ran(res)
    \/ /\ r.ok /\ r.cols          \* go-mysql cannot build the result set
       /\ warnings' = {}
       /\ Answer("statement", "err", 0, {})
       /\ NotRun
       /\ sent' = NoResult

exec(c, results) ==
  \/ /\ c.kind = "empty"
     /\ Answer("statement", "ok", 0, {})
     /\ sent' = NoResult /\ UNCHANGED <<warnings, previous>>
  \/ /\ c.kind = "show"
     /\ Answer("SHOW WARNINGS", "rows", 0, warnings)
     /\ sent' = NoResult /\ UNCHANGED <<warnings, previous>>
  \/ /\ c.kind \in {"noop", "other"}
     /\ Statement(c, results)

HandleQuery(c, results) == exec(c, results) /\ ran' = NoText

\* HandleStmtPrepare and HandleStmtExecute: the client binds as many values as it
\* was told there are placeholders; exec rewrites the back quotes and goes on as
\* with any text.
HandleStmt(text, results) ==
  /\ LET told == placeholderCount(text)
         final == backticksToQuotes(substituteArgs(text, SubSeq(Bound, 1, told)))
     IN ran' = [proto |-> "mysql", text |-> text, told |-> told, final |-> final]
  /\ \E c \in Commands : exec(c, results)

\* HandleOtherCommand.  UseDB, HandleFieldList and HandleStmtClose change nothing.
HandleOtherCommand ==
  /\ Answer("other", "err", 0, {})
  /\ sent' = NoResult /\ ran' = NoText /\ UNCHANGED <<warnings, previous>>

MysqlNext(results, texts) ==
  \/ \E c \in Commands : HandleQuery(c, results)
  \/ \E text \in texts : HandleStmt(text, results)
  \/ HandleOtherCommand

-----------------------------------------------------------------------------
(***************************************************************************)
(* SHOW WARNINGS, asked any number of times after a statement that ran,    *)
(* lists just the approximations of that statement, and as many as its     *)
(* answer announced; those of earlier ones are gone (exec, showWarnings).  *)
(* After a statement that failed, or was only accepted, it may list older  *)
(* ones: exec returns before it resets them.                               *)
(***************************************************************************)
ShowsLastWarnings ==
  answer.cmd = "SHOW WARNINGS" /\ previous.ran
    => answer.lines = previous.notes /\ Cardinality(answer.lines) = previous.warned
=============================================================================
