------------------------------ MODULE Replies ------------------------------
(***************************************************************************)
(* What the clients of the three SQL protocols get back: a session of one  *)
(* protocol, and the values, prepared texts or packets it deals with.  The *)
(* sessions do not share any of that, so one of them, with one kind of     *)
(* work, is all there is to a behaviour; the rest stands still.            *)
(***************************************************************************)
EXTENDS MysqlSession, ChSession

CONSTANTS
  MyTexts, PgTexts,   \* the texts clients prepare
  FewResults,         \* the results while texts or packets are what it is about
  Formats             \* the result format codes of Bind

ASSUME TextsAssumption ==
  /\ \A text \in MyTexts : text \in Seq(MyChars) /\ placeholderCount(text) <= Len(Bound)
  /\ \A text \in PgTexts : text \in Seq(PgChars)

ASSUME ResultsAssumption ==
  \A res \in Results \cup FewResults : IsFiniteSet(DOMAIN res.cols) /\ IsFiniteSet(DOMAIN res.rows)

VARIABLES proto, work

vars == <<proto, work, mysql, ch, sent>>

Init ==
  /\ \/ proto \in {"postgres", "mysql"} /\ work \in {"results", "texts"} /\ ChIdle
     \/ proto = "clickhouse" /\ work = "results" /\ ChInit({serverRevision})
     \/ proto = "clickhouse" /\ work = "packets" /\ ChInit(Revisions)
  /\ MysqlInit
  /\ sent = NoResult

-----------------------------------------------------------------------------
\* emitFidelity after the rows of simpleQuery, which are text, or of execute.
PgReply(res, formats) ==
  /\ sent' = [proto |-> "postgres", formats |-> formats, res |-> res,
              told |-> Warnings("postgres", res)]
  /\ UNCHANGED <<mysql, ch>>

\* Describe of a statement tells how many parameters it has, and a client binds
\* that many; execute substitutes them.
PgPrepared(text) ==
  /\ LET told == maxParamIndex(text)
     IN ran' = [proto |-> "postgres", text |-> text, told |-> told,
                final |-> substituteParams(text, SubSeq(Bound, 1, told))]
  /\ UNCHANGED <<warnings, answer, previous, ch, sent>>

\* Neither depends on what came before, so a session does one of them once.
Postgres ==
  /\ proto = "postgres" /\ sent = NoResult /\ ran = NoText
  /\ \/ work = "results" /\ \E res \in Results, formats \in Formats : PgReply(res, formats)
     \/ work = "texts" /\ \E text \in PgTexts : PgPrepared(text)
  /\ UNCHANGED <<proto, work>>

\* Nor does what becomes of a prepared text: there is at most one in a row.
Mysql ==
  /\ proto = "mysql"
  /\ \/ work = "results" /\ MysqlNext(Results, {})
     \/ work = "texts" /\ MysqlNext(FewResults, IF ran = NoText THEN MyTexts ELSE {})
  /\ UNCHANGED <<proto, work, ch>>

\* The ClickHouse server, and what its client owes it.
Serving ==
  /\ proto = "clickhouse"
  /\ ChServerNext(IF work = "results" THEN Results ELSE FewResults)
  /\ UNCHANGED <<proto, work, mysql>>

Reading == proto = "clickhouse" /\ ClientReads /\ UNCHANGED <<proto, work, mysql>>
Ending == proto = "clickhouse" /\ ClientEndsQuery /\ UNCHANGED <<proto, work, mysql>>

\* What its client may do or not.
Asking ==
  /\ proto = "clickhouse"
  /\ \/ work = "results" /\ ClientAsks("Query", 1)
     \/ work = "packets" /\ \E request \in Requests : ClientAsks(request, MaxRequests)
     \/ ClientLeaves
  /\ UNCHANGED <<proto, work, mysql>>

Next == Postgres \/ Mysql \/ Serving \/ Reading \/ Ending \/ Asking

Spec == Init /\ [][Next]_vars /\ WF_vars(Serving) /\ WF_vars(Reading) /\ WF_vars(Ending)

-----------------------------------------------------------------------------
\* The reasons that a report gives, and the columns that it may name.
Reasons == {"shown as float", "shown as signed", "shown as text", "shown as 0/1", "shown as UInt8",
            "exceeds int64", "NULL as zero", "outside DateTime"}
ColumnNames == UNION {{res.cols[c].name : c \in DOMAIN res.cols} : res \in Results \cup FewResults}

TypeOK ==
  /\ proto \in {"postgres", "mysql", "clickhouse"}
  /\ work \in {"results", "texts", "packets"}
  /\ warnings \subseteq [column : ColumnNames, reason : Reasons, count : Nat \ {0}]
  /\ answer.reply \in {"none", "ok", "err", "rows"} /\ answer.warned \in Nat
  /\ previous.ran \in BOOLEAN /\ previous.warned \in Nat
  /\ ran.told \in 0 .. Len(Bound)
  /\ ChTypeOK
  /\ sent.proto \in {"none", proto}

(***************************************************************************)
(* A prepared text runs with every bound value where the client meant it,  *)
(* and with its literals untouched, if the scanners and DuckDB read it the *)
(* same way: no comment holds a quote or a placeholder (scanParams), and   *)
(* for MySQL no backslash occurs and no quote inside another but single    *)
(* ones (substituteArgs, backticksToQuotes).  The count of placeholders of *)
(* a MySQL text is right if no literal holds a question mark.              *)
(***************************************************************************)
ArgsInPlace ==
  /\ ran.proto = "postgres" /\ PlainComments(ran.text, {"sq", "dq"})
       => PgInPlace(ran.text, ran.told, ran.final)
  /\ ran.proto = "mysql" /\ PlainText(ran.text) => MyInPlace(ran.text, ran.told, ran.final)
=============================================================================
