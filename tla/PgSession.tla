----------------------------- MODULE PgSession -----------------------------
(***************************************************************************)
(* One Postgres wire-protocol session (internal/pg/handler.go) on the      *)
(* DuckDB connection pinned to it.                                         *)
(*                                                                         *)
(* A frontend message is one action: handle() runs each message to its end *)
(* before the next is read.  SQL texts are abstracted to records that say  *)
(* what the handler can tell about them (first keyword, placeholders) and, *)
(* separately, what DuckDB does with them (effect): the two may disagree,  *)
(* and most of what can go wrong in this file is such a disagreement.      *)
(***************************************************************************)
EXTENDS Engine, PgTx

CONSTANTS
  StmtNames,     \* names clients give to prepared statements
  PortalNames,   \* names clients give to portals
  Query,         \* the SQL texts clients send
  Empty,         \* the text without a statement; also the Go zero value ""
  Args,          \* lists of bound parameter values
  NullArgs,      \* the list in which every parameter is NULL or absent
  Client         \* the liberties the client takes, a subset of Liberties

(***************************************************************************)
(* What the wire protocol allows and drivers rarely do:                    *)
(*   pipelining  another Execute before the Sync of the first,             *)
(*   mixing      a simple Query inside an extended batch,                  *)
(*   nesting     BEGIN when ReadyForQuery has reported a transaction.      *)
(***************************************************************************)
Liberties == {"pipelining", "mixing", "nesting"}

ASSUME QueryAssumption ==
  /\ \A q \in Query : /\ q.kw \in Keywords
                      /\ q.effect \in Effects
                      /\ q.params \in BOOLEAN
  /\ Empty \in Query
  /\ Empty.kw = "OTHER" /\ Empty.effect = "none" /\ ~Empty.params

ASSUME ClientAssumption == NullArgs \in Args /\ Client \subseteq Liberties

\* "-" stands for no portal.
ASSUME PortalAssumption == "-" \notin PortalNames

VARIABLES
  phase,     \* "startup", "ready" or "closed"
  stmts,     \* session.stmts; an unknown name reads as ""
  portals,   \* session.portals; an unknown name executes as &portal{}
  failed,    \* session.failed
  inTx,      \* session.inTx
  txFail,    \* session.txFail
  memo,      \* session.lastSQL, lastRes, lastErr
  conn,      \* the transaction state of the pinned DuckDB connection
  batch,     \* history: what was sent since the last Sync
  last       \* history: the last message and what it was answered

session == <<stmts, portals, failed, inTx, txFail, memo>>
vars == <<phase, session, conn, batch, last>>

\* A text and the values bound to it: what a portal holds and what run is given.
Text == [sql : Query, args : Args]

\* substituteParams: the values are inlined, so the text DuckDB gets depends
\* on them exactly when the statement has placeholders.
substituteParams(q, args) ==
  [sql |-> q, args |-> IF q.params THEN args ELSE NullArgs]

EmptyText == [sql |-> Empty, args |-> NullArgs]
NoPortal == EmptyText

\* res: lastRes is not nil.  ok: lastErr is nil.
NoMemo == [res |-> FALSE, text |-> EmptyText, ok |-> TRUE, cols |-> FALSE]
Memo == [res : BOOLEAN, text : Text, ok : BOOLEAN, cols : BOOLEAN]

Messages == {"none", "SSLRequest", "Startup", "Query", "Parse", "Bind", "Describe",
             "Execute", "Sync", "Flush", "Close", "Terminate"}
Replies == {"none", "no", "parsed", "bound", "nodata", "rowdesc", "complete", "error",
            "empty", "ready", "closed"}
Batches == {"clean", "open", "executed", "erred"}

(***************************************************************************)
(* last records, for the last message: the portal it named, the text it    *)
(* stands for, whether DuckDB was called (asked) and ran the text (ran),   *)
(* the reply, the status byte of the ReadyForQuery ("-" if none was sent), *)
(* and the batch when the message arrived.                                 *)
(***************************************************************************)
LastMessage ==
  [msg : Messages, portal : PortalNames \cup {"-"}, text : Text, asked : BOOLEAN,
   ran : BOOLEAN, reply : Replies, status : Statuses \cup {"-"}, during : Batches]

\* The transaction the session believes it is in.
Believed == [in |-> inTx, fail |-> txFail]

Heard(msg, portal, text, r, reply, status) ==
  last' = [msg |-> msg, portal |-> portal, text |-> text, asked |-> r.asked,
           ran |-> r.ran, reply |-> reply, status |-> status, during |-> batch]

\* A message DuckDB hears nothing of.
Untouched == [asked |-> FALSE, ran |-> FALSE]

Silent(msg, reply) == Heard(msg, "-", EmptyText, Untouched, reply, "-")

\* Mutant of run: nothing is memoised.
RunAlways(text) ==
  { [ok |-> r.ok, cols |-> r.cols, asked |-> TRUE, ran |-> r.ran, memo |-> NoMemo,
     tx |-> r.tx] : r \in runOn(text.sql.effect, conn) }

(***************************************************************************)
(* run: the memoised result when the text is the memoised one, else        *)
(* DuckDB's answer, which becomes the memo when there is a result.         *)
(***************************************************************************)
run(text) ==
  IF memo.res /\ memo.text = text
  THEN { [ok |-> memo.ok, cols |-> memo.cols, asked |-> FALSE, ran |-> FALSE,
          memo |-> memo, tx |-> conn] }
  ELSE { [ok |-> r.ok, cols |-> r.cols, asked |-> TRUE, ran |-> r.ran,
          memo |-> IF r.buf
                   THEN [res |-> TRUE, text |-> text, ok |-> r.ok, cols |-> r.cols]
                   ELSE NoMemo,
          tx |-> r.tx] : r \in runOn(text.sql.effect, conn) }

Track(t) == inTx' = t.in /\ txFail' = t.fail

\* The batch after an extended-protocol message: an error, and short of that an
\* Execute, is remembered until Sync.
Extended(b) ==
  batch' = IF batch = "erred" \/ (batch = "executed" /\ b = "open") THEN batch ELSE b

MayPipeline == "pipelining" \in Client \/ batch # "executed"
MayMix == "mixing" \in Client \/ batch = "clean"
MayBegin(q) == "nesting" \in Client \/ firstKeyword(q) # "BEGIN" \/ ~inTx

-----------------------------------------------------------------------------
Init ==
  /\ phase = "startup"
  /\ stmts = [n \in StmtNames |-> Empty]
  /\ portals = [n \in PortalNames |-> NoPortal]
  /\ failed = FALSE /\ inTx = FALSE /\ txFail = FALSE
  /\ memo = NoMemo
  /\ conn = "idle"
  /\ batch = "clean"
  /\ last = [msg |-> "none", portal |-> "-", text |-> EmptyText, asked |-> FALSE,
             ran |-> FALSE, reply |-> "none", status |-> "-", during |-> "clean"]

\* startup: SSL and GSS requests are declined, any number of times.
DeclineSSL ==
  /\ phase = "startup"
  /\ Silent("SSLRequest", "no")
  /\ UNCHANGED <<phase, session, conn, batch>>

Startup ==
  /\ phase = "startup"
  /\ phase' = "ready"
  /\ Heard("Startup", "-", EmptyText, Untouched, "ready", "I")
  /\ UNCHANGED <<session, conn, batch>>

\* A failed read, an unexpected startup message and Terminate all end handleConn.
Disconnect ==
  /\ phase \in {"startup", "ready"}
  /\ phase' = "closed"
  /\ Silent("Terminate", "none")
  /\ UNCHANGED <<session, conn, batch>>

\* simpleQuery, the statement-less text included.  It neither reads nor resets
\* the memo or failed.  Clients put placeholders only in Parse.
SimpleQuery(q) ==
  /\ phase = "ready" /\ MayMix /\ MayBegin(q) /\ ~q.params
  /\ \/ /\ q = Empty
        /\ Heard("Query", "-", EmptyText, Untouched, "empty", txStatus(Believed))
        /\ UNCHANGED <<inTx, txFail, conn>>
     \/ /\ q # Empty
        /\ \E r \in runOn(q.effect, conn) :
             LET t == trackTx(q, r.ok, inTx, txFail) IN
             /\ Track(t)
             /\ conn' = r.tx
             /\ Heard("Query", "-", [sql |-> q, args |-> NullArgs],
                      [asked |-> TRUE, ran |-> r.ran],
                      IF r.ok THEN "complete" ELSE "error", txStatus(t))
  /\ UNCHANGED <<phase, stmts, portals, failed, memo, batch>>

Parse(n, q) ==
  /\ phase = "ready" /\ MayPipeline
  /\ IF failed
     THEN Silent("Parse", "none") /\ UNCHANGED stmts
     ELSE /\ stmts' = [stmts EXCEPT ![n] = q]
          /\ Silent("Parse", "parsed")
  /\ Extended("open")
  /\ UNCHANGED <<phase, portals, failed, inTx, txFail, memo, conn>>

\* Mutant of Bind: m.Parameters is not copied.
BindNoParams(p, n, args) ==
  /\ phase = "ready" /\ MayPipeline /\ ~failed
  /\ portals' = [portals EXCEPT ![p] = [sql |-> stmts[n], args |-> "unset"]]
  /\ Silent("Bind", "bound")
  /\ Extended("open")
  /\ UNCHANGED <<phase, stmts, failed, inTx, txFail, memo, conn>>

Bind(p, n, args) ==
  /\ phase = "ready" /\ MayPipeline
  /\ IF failed
     THEN Silent("Bind", "none") /\ UNCHANGED portals
     ELSE /\ portals' = [portals EXCEPT ![p] = [sql |-> stmts[n], args |-> args]]
          /\ Silent("Bind", "bound")
  /\ Extended("open")
  /\ UNCHANGED <<phase, stmts, failed, inTx, txFail, memo, conn>>

\* Mutant of describe: an error does not set failed.
DescribeForgives(p, q) ==
  IF ~returnsRows(q)
  THEN /\ Heard("Describe", p, substituteParams(q, NullArgs), Untouched, "nodata", "-")
       /\ Extended("open")
       /\ UNCHANGED <<failed, memo, conn>>
  ELSE \E r \in run(substituteParams(q, NullArgs)) :
         /\ memo' = r.memo
         /\ conn' = r.tx
         /\ failed' = failed
         /\ Heard("Describe", p, substituteParams(q, NullArgs), r,
                  IF ~r.ok THEN "error" ELSE IF r.cols THEN "rowdesc" ELSE "nodata", "-")
         /\ Extended(IF r.ok THEN "open" ELSE "erred")

\* describe: a row-returning text is run with every parameter NULL; an error
\* sets failed and leaves inTx and txFail alone.
describe(p, q) ==
  IF ~returnsRows(q)
  THEN /\ Heard("Describe", p, substituteParams(q, NullArgs), Untouched, "nodata", "-")
       /\ Extended("open")
       /\ UNCHANGED <<failed, memo, conn>>
  ELSE \E r \in run(substituteParams(q, NullArgs)) :
         /\ memo' = r.memo
         /\ conn' = r.tx
         /\ failed' = ~r.ok
         /\ Heard("Describe", p, substituteParams(q, NullArgs), r,
                  IF ~r.ok THEN "error" ELSE IF r.cols THEN "rowdesc" ELSE "nodata", "-")
         /\ Extended(IF r.ok THEN "open" ELSE "erred")

DescribeMsg(p, q) ==
  /\ phase = "ready" /\ MayPipeline
  /\ IF failed
     THEN Silent("Describe", "none") /\ Extended("open") /\ UNCHANGED <<failed, memo, conn>>
     ELSE describe(p, q)
  /\ UNCHANGED <<phase, stmts, portals, inTx, txFail>>

DescribeStmt(n) == DescribeMsg("-", stmts[n])
DescribePortal(p) == DescribeMsg(p, portals[p].sql)

\* Mutant of execute: an error does not set failed.
ExecuteForgives(p) ==
  LET text == substituteParams(portals[p].sql, portals[p].args) IN
  \E r \in run(text) :
    /\ memo' = r.memo
    /\ conn' = r.tx
    /\ Track(trackTx(text.sql, r.ok, inTx, txFail))
    /\ Heard("Execute", p, text, r, IF r.ok THEN "complete" ELSE "error", "-")
    /\ Extended(IF r.ok THEN "executed" ELSE "erred")
    /\ UNCHANGED failed

execute(p) ==
  LET text == substituteParams(portals[p].sql, portals[p].args) IN
  \E r \in run(text) :
    /\ memo' = r.memo
    /\ conn' = r.tx
    /\ failed' = ~r.ok
    /\ Track(trackTx(text.sql, r.ok, inTx, txFail))
    /\ Heard("Execute", p, text, r, IF r.ok THEN "complete" ELSE "error", "-")
    /\ Extended(IF r.ok THEN "executed" ELSE "erred")

Execute(p) ==
  /\ phase = "ready" /\ MayPipeline /\ MayBegin(portals[p].sql)
  /\ IF failed
     THEN /\ Silent("Execute", "none") /\ Extended("open")
          /\ UNCHANGED <<failed, inTx, txFail, memo, conn>>
     ELSE execute(p)
  /\ UNCHANGED <<phase, stmts, portals>>

\* Mutant of Sync: the memo outlives the batch.
SyncKeepsMemo ==
  /\ phase = "ready"
  /\ failed' = FALSE
  /\ batch' = "clean"
  /\ Heard("Sync", "-", EmptyText, Untouched, "ready", txStatus(Believed))
  /\ UNCHANGED <<phase, stmts, portals, inTx, txFail, memo, conn>>

Sync ==
  /\ phase = "ready"
  /\ failed' = FALSE
  /\ memo' = NoMemo
  /\ batch' = "clean"
  /\ Heard("Sync", "-", EmptyText, Untouched, "ready", txStatus(Believed))
  /\ UNCHANGED <<phase, stmts, portals, inTx, txFail, conn>>

Flush ==
  /\ phase = "ready"
  /\ Silent("Flush", "none")
  /\ UNCHANGED <<phase, session, conn, batch>>

\* Close is answered whether or not the batch has failed.
CloseStmt(n) ==
  /\ phase = "ready"
  /\ stmts' = [stmts EXCEPT ![n] = Empty]
  /\ Silent("Close", "closed")
  /\ Extended("open")
  /\ UNCHANGED <<phase, portals, failed, inTx, txFail, memo, conn>>

ClosePortal(p) ==
  /\ phase = "ready"
  /\ portals' = [portals EXCEPT ![p] = NoPortal]
  /\ Silent("Close", "closed")
  /\ Extended("open")
  /\ UNCHANGED <<phase, stmts, failed, inTx, txFail, memo, conn>>

Next ==
  \/ DeclineSSL \/ Startup \/ Disconnect \/ Sync \/ Flush
  \/ \E q \in Query : SimpleQuery(q)
  \/ \E n \in StmtNames, q \in Query : Parse(n, q)
  \/ \E p \in PortalNames, n \in StmtNames, args \in Args : Bind(p, n, args)
  \/ \E n \in StmtNames : DescribeStmt(n) \/ CloseStmt(n)
  \/ \E p \in PortalNames : DescribePortal(p) \/ Execute(p) \/ ClosePortal(p)

Spec == Init /\ [][Next]_vars

-----------------------------------------------------------------------------
\* Every variable stays in the set of values the code can give it.
TypeOK ==
  /\ phase \in {"startup", "ready", "closed"}
  /\ stmts \in [StmtNames -> Query]
  /\ portals \in [PortalNames -> Text]
  /\ failed \in BOOLEAN /\ inTx \in BOOLEAN /\ txFail \in BOOLEAN
  /\ memo \in Memo
  /\ conn \in TxStates
  /\ batch \in Batches
  /\ last \in LastMessage

(***************************************************************************)
(* The status byte of every ReadyForQuery tells the truth about DuckDB:    *)
(* 'I' exactly when no transaction is open on the pinned connection        *)
(* (txStatus, trackTx).  trackTx only looks at the first keyword, so this  *)
(* can hold only for texts whose keyword says what they do (PlainQueries). *)
(***************************************************************************)
TruthfulStatus == last.status # "-" => (last.status = "I" <=> conn = "idle")

PlainQueries ==
  \A q \in Query : /\ q.kw = "BEGIN" <=> q.effect = "begin"
                   /\ q.kw = "END" <=> q.effect \in {"commit", "rollback"}
                   /\ q.effect # "script"

(***************************************************************************)
(* A write is acknowledged (CommandComplete) exactly when DuckDB ran it    *)
(* for that very message: it is neither skipped nor run by a message that  *)
(* only asks for a shape (run, describe, execute).  That takes a client    *)
(* that syncs between Executes, no stub mode and NoRowWrites.              *)
(***************************************************************************)
AckedIffRun ==
  last.text.sql.effect = "write" => (last.ran <=> last.reply = "complete")

\* No write begins with a keyword that returnsRows takes for a query.
NoRowWrites == \A q \in Query : q.effect = "write" => ~returnsRows(q)

(***************************************************************************)
(* Once an extended-protocol message was answered with an error, Parse,    *)
(* Bind, Describe and Execute are skipped until Sync: no reply, and DuckDB *)
(* hears of none of them (handle, session.failed).                         *)
(***************************************************************************)
ErrorSkipsExtended ==
  last.during = "erred" /\ last.msg \in {"Parse", "Bind", "Describe", "Execute"}
    => last.reply = "none" /\ ~last.asked

(***************************************************************************)
(* An Execute that directly follows the answered Describe of its portal    *)
(* reuses the described result: DuckDB sees the query once per pair (run,  *)
(* describe).  That takes a query without placeholders (NoRowParams):      *)
(* Describe runs the text with NULL in their place, which is not the text  *)
(* of the Execute.                                                         *)
(***************************************************************************)
OneRunPerPair ==
  [][ /\ last.msg = "Describe" /\ last.reply = "rowdesc"
      /\ last'.msg = "Execute" /\ last'.portal = last.portal
      => ~last'.asked ]_vars

\* No text that Describe runs has placeholders.
NoRowParams == \A q \in Query : returnsRows(q) => ~q.params

-----------------------------------------------------------------------------
Contract == INSTANCE PgContract WITH
  busy     <- conn # "idle",
  skipping <- failed,
  told     <- [msg |-> last.msg, reply |-> last.reply, status |-> last.status]

(***************************************************************************)
(* The session keeps its promises to the client (PgContract): transactions *)
(* begin and end only in answered Query and Execute messages, every status *)
(* byte is truthful, and an extended message goes unanswered exactly while *)
(* an error awaits its Sync (handle, session.failed, trackTx).  The same   *)
(* premises as for TruthfulStatus: PlainQueries and no mixing.             *)
(***************************************************************************)
ImplementsContract == Contract!Spec
=============================================================================
