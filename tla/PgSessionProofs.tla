-------------------------- MODULE PgSessionProofs --------------------------
(***************************************************************************)
(* Proofs about PgSession, for every set of names, texts and arguments.    *)
(***************************************************************************)
EXTENDS PgSession, TLAPS

\* What the answers of runOn are made of.
LEMMA RunOnType ==
  ASSUME NEW e \in Effects, NEW tx \in TxStates, NEW r \in runOn(e, tx)
  PROVE  /\ r.ok \in BOOLEAN /\ r.buf \in BOOLEAN
         /\ r.ran \in BOOLEAN /\ r.cols \in BOOLEAN
         /\ r.tx \in TxStates
<1>1. PICK o \in DuckOutcomes(e, tx) :
        r = [ ok   |-> o.err = "ok" \/ Stubbed(o.err),
              buf  |-> o.err \in {"ok", "late"} \/ Stubbed(o.err),
              ran  |-> o.err = "ok",
              cols |-> o.err \in {"ok", "late"},
              tx   |-> o.tx ]
  BY DEF runOn
<1>2. o.tx \in TxStates
  BY DEF DuckOutcomes, Outcome, FailedIn, TxStates, Effects
<1> QED BY <1>1, <1>2, StubAssumption DEF Stubbed

\* The answers of run, whether the memo is hit or DuckDB is asked.
LEMMA RunType ==
  ASSUME TypeOK, NEW text \in Text, NEW r \in run(text)
  PROVE  /\ r.ok \in BOOLEAN /\ r.cols \in BOOLEAN
         /\ r.asked \in BOOLEAN /\ r.ran \in BOOLEAN
         /\ r.memo \in Memo /\ r.tx \in TxStates
<1>0. text.sql \in Query /\ text.sql.effect \in Effects
  BY QueryAssumption DEF Text
<1>1. CASE memo.res /\ memo.text = text
  <2>1. r = [ok |-> memo.ok, cols |-> memo.cols, asked |-> FALSE, ran |-> FALSE,
             memo |-> memo, tx |-> conn]
    BY <1>1 DEF run
  <2>2. memo.ok \in BOOLEAN /\ memo.cols \in BOOLEAN /\ memo \in Memo /\ conn \in TxStates
    BY DEF TypeOK, Memo
  <2> QED BY <2>1, <2>2
<1>2. CASE ~(memo.res /\ memo.text = text)
  <2>1. PICK s \in runOn(text.sql.effect, conn) :
          r = [ok |-> s.ok, cols |-> s.cols, asked |-> TRUE, ran |-> s.ran,
               memo |-> IF s.buf
                        THEN [res |-> TRUE, text |-> text, ok |-> s.ok, cols |-> s.cols]
                        ELSE NoMemo,
               tx |-> s.tx]
    BY <1>2 DEF run
  <2>2. /\ s.ok \in BOOLEAN /\ s.buf \in BOOLEAN
        /\ s.ran \in BOOLEAN /\ s.cols \in BOOLEAN
        /\ s.tx \in TxStates
    BY <1>0, <2>1, RunOnType DEF TypeOK
  <2>3. NoMemo \in Memo
    BY QueryAssumption, ClientAssumption DEF NoMemo, Memo, EmptyText, Text
  <2> QED BY <2>1, <2>2, <2>3 DEF Memo
<1> QED BY <1>1, <1>2

LEMMA TextType ==
  ASSUME NEW q \in Query, NEW args \in Args
  PROVE  substituteParams(q, args) \in Text
BY ClientAssumption DEF substituteParams, Text

LEMMA EmptyTextType == EmptyText \in Text
BY QueryAssumption, ClientAssumption DEF EmptyText, Text

LEMMA StatusType ==
  ASSUME NEW t, t.in \in BOOLEAN, t.fail \in BOOLEAN
  PROVE  txStatus(t) \in Statuses
BY DEF txStatus, Statuses

LEMMA TrackType ==
  ASSUME NEW q, NEW ok \in BOOLEAN, inTx \in BOOLEAN, txFail \in BOOLEAN
  PROVE  /\ trackTx(q, ok, inTx, txFail).in \in BOOLEAN
         /\ trackTx(q, ok, inTx, txFail).fail \in BOOLEAN
BY DEF trackTx

LEMMA BeforeType ==
  ASSUME TypeOK
  PROVE  txStatus(Believed) \in Statuses /\ batch \in Batches
BY StatusType DEF Believed, TypeOK

LEMMA SilentType ==
  ASSUME TypeOK, NEW msg \in Messages, NEW reply \in Replies, Silent(msg, reply)
  PROVE  last' \in LastMessage
BY BeforeType, EmptyTextType DEF Silent, Heard, Untouched, LastMessage

LEMMA InitType ==
  ASSUME Init
  PROVE  TypeOK
<1>1. last \in LastMessage
  BY EmptyTextType DEF Init, LastMessage, Messages, Replies, Statuses, Batches
<1>2. memo \in Memo
  BY EmptyTextType DEF Init, NoMemo, Memo
<1> QED BY <1>1, <1>2, QueryAssumption, EmptyTextType
        DEF Init, TypeOK, NoPortal, TxStates, Batches

LEMMA NextType ==
  ASSUME TypeOK, [Next]_vars
  PROVE  TypeOK'
<1> USE DEF session
<1>0. /\ Batches = {"clean", "open", "executed", "erred"}
      /\ \A b \in Batches : Extended(b) => batch' \in Batches
  BY DEF Batches, Extended, TypeOK
<1>1. CASE DeclineSSL
  <2>1. last' \in LastMessage
    BY <1>1, SilentType DEF DeclineSSL, Messages, Replies
  <2> QED BY <1>1, <2>1 DEF DeclineSSL, TypeOK
<1>2. CASE Startup
  <2>1. last' \in LastMessage
    BY <1>2, BeforeType, EmptyTextType
    DEF Startup, Heard, LastMessage, Messages, Replies, Statuses, Untouched
  <2> QED BY <1>2, <2>1 DEF Startup, TypeOK
<1>3. CASE Disconnect
  <2>1. last' \in LastMessage
    BY <1>3, SilentType DEF Disconnect, Messages, Replies
  <2> QED BY <1>3, <2>1 DEF Disconnect, TypeOK
<1>4. CASE Sync
  <2>1. txStatus(Believed) \in Statuses
    BY StatusType DEF Believed, TypeOK
  <2>2. last' \in LastMessage
    BY <1>4, <2>1, BeforeType, EmptyTextType
    DEF Sync, Heard, LastMessage, Messages, Replies, Untouched
  <2>3. NoMemo \in Memo
    BY EmptyTextType DEF NoMemo, Memo
  <2> QED BY <1>4, <2>2, <2>3 DEF Sync, TypeOK, Batches
<1>5. CASE Flush
  <2>1. last' \in LastMessage
    BY <1>5, SilentType DEF Flush, Messages, Replies
  <2> QED BY <1>5, <2>1 DEF Flush, TypeOK
<1>6. ASSUME NEW q \in Query, SimpleQuery(q) PROVE TypeOK'
  <2>1. txStatus(Believed) \in Statuses
    BY StatusType DEF Believed, TypeOK
  <2>2. CASE q = Empty /\ UNCHANGED <<inTx, txFail, conn>>
             /\ Heard("Query", "-", EmptyText, Untouched, "empty", txStatus(Believed))
    <3>1. last' \in LastMessage
      BY <2>1, <2>2, BeforeType, EmptyTextType
      DEF Heard, LastMessage, Messages, Replies, Untouched
    <3> QED BY <1>6, <2>2, <3>1 DEF SimpleQuery, TypeOK
  <2>3. ASSUME NEW r \in runOn(q.effect, conn),
               Track(trackTx(q, r.ok, inTx, txFail)), conn' = r.tx,
               Heard("Query", "-", [sql |-> q, args |-> NullArgs],
                     [asked |-> TRUE, ran |-> r.ran],
                     IF r.ok THEN "complete" ELSE "error",
                     txStatus(trackTx(q, r.ok, inTx, txFail)))
        PROVE TypeOK'
    <3>1. /\ r.ok \in BOOLEAN /\ r.ran \in BOOLEAN /\ r.tx \in TxStates
      BY <2>3, RunOnType, QueryAssumption DEF TypeOK
    <3>2. /\ trackTx(q, r.ok, inTx, txFail).in \in BOOLEAN
          /\ trackTx(q, r.ok, inTx, txFail).fail \in BOOLEAN
      BY <3>1, TrackType DEF TypeOK
    <3>3. txStatus(trackTx(q, r.ok, inTx, txFail)) \in Statuses
      BY <3>2, StatusType
    <3>4. /\ [sql |-> q, args |-> NullArgs] \in Text
          /\ (IF r.ok THEN "complete" ELSE "error") \in Replies
          /\ "Query" \in Messages
      BY ClientAssumption DEF Text, Replies, Messages
    <3>5. last' \in LastMessage
      BY <2>3, <3>1, <3>3, <3>4, BeforeType DEF Heard, LastMessage
    <3> QED BY <1>6, <2>3, <3>1, <3>2, <3>5 DEF SimpleQuery, TypeOK, Track
  <2> QED BY <1>6, <2>2, <2>3 DEF SimpleQuery
<1>7. ASSUME NEW n \in StmtNames, NEW q \in Query, Parse(n, q) PROVE TypeOK'
  <2>1. last' \in LastMessage
    BY <1>7, SilentType DEF Parse, Messages, Replies
  <2> QED BY <1>7, <1>0, <2>1 DEF Parse, TypeOK
<1>8. ASSUME NEW p \in PortalNames, NEW n \in StmtNames, NEW args \in Args,
             Bind(p, n, args)
      PROVE TypeOK'
  <2>1. last' \in LastMessage
    BY <1>8, SilentType DEF Bind, Messages, Replies
  <2>2. [sql |-> stmts[n], args |-> args] \in Text
    BY DEF TypeOK, Text
  <2> QED BY <1>8, <1>0, <2>1, <2>2 DEF Bind, TypeOK
<1>9. ASSUME NEW p \in PortalNames \cup {"-"}, NEW q \in Query, DescribeMsg(p, q)
      PROVE TypeOK'
  <2>1. CASE failed
    <3>1. last' \in LastMessage
      BY <1>9, <2>1, SilentType DEF DescribeMsg, Messages, Replies
    <3> QED BY <1>9, <1>0, <2>1, <3>1 DEF DescribeMsg, TypeOK
  <2>2. CASE ~failed /\ ~returnsRows(q)
    <3> DEFINE text == substituteParams(q, NullArgs)
    <3>0. /\ text \in Text
          /\ Heard("Describe", p, text, Untouched, "nodata", "-")
      BY <1>9, <2>2, TextType, ClientAssumption DEF DescribeMsg, describe
    <3> HIDE DEF text
    <3>1. last' \in LastMessage
      BY <3>0, BeforeType DEF Heard, LastMessage, Messages, Replies, Untouched
    <3> QED BY <1>9, <1>0, <2>2, <3>1 DEF DescribeMsg, describe, TypeOK
  <2>3. CASE ~failed /\ returnsRows(q)
    <3> DEFINE text == substituteParams(q, NullArgs)
    <3>1. text \in Text
      BY TextType, ClientAssumption
    <3>2. PICK r \in run(text) :
            /\ memo' = r.memo /\ conn' = r.tx /\ failed' = ~r.ok
            /\ Heard("Describe", p, text, r,
                     IF ~r.ok THEN "error" ELSE IF r.cols THEN "rowdesc" ELSE "nodata", "-")
            /\ Extended(IF r.ok THEN "open" ELSE "erred")
      BY <1>9, <2>3 DEF DescribeMsg, describe
    <3> HIDE DEF text
    <3>3. /\ r.ok \in BOOLEAN /\ r.asked \in BOOLEAN /\ r.ran \in BOOLEAN
          /\ r.memo \in Memo /\ r.tx \in TxStates
      BY <3>1, <3>2, RunType
    <3>4. last' \in LastMessage
      BY <3>1, <3>2, <3>3, BeforeType DEF Heard, LastMessage, Messages, Replies
    <3>5. batch' \in Batches
      BY <3>2, <1>0
    <3> QED BY <1>9, <3>2, <3>3, <3>4, <3>5 DEF DescribeMsg, TypeOK
  <2> QED BY <2>1, <2>2, <2>3
<1>10. ASSUME NEW p \in PortalNames, Execute(p) PROVE TypeOK'
  <2>1. CASE failed
    <3>1. last' \in LastMessage
      BY <1>10, <2>1, SilentType DEF Execute, Messages, Replies
    <3> QED BY <1>10, <1>0, <2>1, <3>1 DEF Execute, TypeOK
  <2>2. CASE ~failed
    <3> DEFINE text == substituteParams(portals[p].sql, portals[p].args)
    <3>1. text \in Text
      <4>1. portals[p].sql \in Query /\ portals[p].args \in Args
        BY DEF TypeOK, Text
      <4> QED BY <4>1, TextType
    <3>2. PICK r \in run(text) :
            /\ memo' = r.memo /\ conn' = r.tx /\ failed' = ~r.ok
            /\ Track(trackTx(text.sql, r.ok, inTx, txFail))
            /\ Heard("Execute", p, text, r, IF r.ok THEN "complete" ELSE "error", "-")
            /\ Extended(IF r.ok THEN "executed" ELSE "erred")
      BY <1>10, <2>2 DEF Execute, execute
    <3> HIDE DEF text
    <3>3. /\ r.ok \in BOOLEAN /\ r.asked \in BOOLEAN /\ r.ran \in BOOLEAN
          /\ r.memo \in Memo /\ r.tx \in TxStates
      BY <3>1, <3>2, RunType
    <3>4. last' \in LastMessage
      BY <3>1, <3>2, <3>3, BeforeType DEF Heard, LastMessage, Messages, Replies
    <3>5. batch' \in Batches
      BY <3>2, <1>0
    <3>6. inTx' \in BOOLEAN /\ txFail' \in BOOLEAN
      BY <3>2, <3>3, TrackType DEF Track, TypeOK
    <3> QED BY <1>10, <3>2, <3>3, <3>4, <3>5, <3>6 DEF Execute, TypeOK
  <2> QED BY <2>1, <2>2
<1>11. ASSUME NEW n \in StmtNames, CloseStmt(n) PROVE TypeOK'
  <2>1. last' \in LastMessage
    BY <1>11, SilentType DEF CloseStmt, Messages, Replies
  <2> QED BY <1>11, <1>0, <2>1, QueryAssumption DEF CloseStmt, TypeOK
<1>12. ASSUME NEW p \in PortalNames, ClosePortal(p) PROVE TypeOK'
  <2>1. last' \in LastMessage
    BY <1>12, SilentType DEF ClosePortal, Messages, Replies
  <2> QED BY <1>12, <1>0, <2>1, EmptyTextType DEF ClosePortal, TypeOK, NoPortal
<1>13. CASE UNCHANGED vars
  BY <1>13 DEF vars, TypeOK
<1>14. /\ \A n \in StmtNames : stmts[n] \in Query
       /\ \A p \in PortalNames : portals[p].sql \in Query
  BY DEF TypeOK, Text
<1> QED
  BY <1>1, <1>2, <1>3, <1>4, <1>5, <1>6, <1>7, <1>8, <1>9, <1>10, <1>11, <1>12, <1>13,
     <1>14
  DEF Next, DescribeStmt, DescribePortal

\* No message takes the session out of the values the code can give it.
THEOREM TypeCorrect == Spec => []TypeOK
<1>1. Init => TypeOK
  BY InitType
<1>2. TypeOK /\ [Next]_vars => TypeOK'
  BY NextType
<1> QED BY <1>1, <1>2, PTL DEF Spec

-----------------------------------------------------------------------------
(***************************************************************************)
(* The truth of the status byte.  TruthfulStatus is not inductive: whether *)
(* the next byte is true depends on what the session believes (Agree), on  *)
(* a failed mark never outliving its transaction (FailInTx), on the 'I' of *)
(* the handshake being sent on an idle connection (StartIdle) and on the   *)
(* memo, whose hit makes trackTx record a BEGIN or a COMMIT that DuckDB is *)
(* not asked to run: that is right only while the connection is still as   *)
(* the memoised statement left it (MemoAgree), which a simple Query could  *)
(* spoil if it came between (CleanMemo).                                   *)
(***************************************************************************)
Agree == inTx <=> conn # "idle"
FailInTx == txFail => inTx
StartIdle == phase = "startup" => conn = "idle"
CleanMemo == batch = "clean" => ~memo.res
MemoAgree == memo.res => /\ memo.text.sql.kw = "BEGIN" => conn # "idle"
                         /\ memo.text.sql.kw = "END" => conn = "idle"
StatusInv == /\ TypeOK /\ Agree /\ FailInTx /\ StartIdle
             /\ CleanMemo /\ MemoAgree /\ TruthfulStatus

\* What a plain text does to the connection is what its keyword says.
LEMMA PlainRun ==
  ASSUME PlainQueries, NEW q \in Query, NEW tx \in TxStates, NEW r \in runOn(q.effect, tx)
  PROVE  /\ q.kw = "BEGIN" => r.tx # "idle"
         /\ q.kw = "END" => r.tx = "idle"
         /\ q.kw \notin {"BEGIN", "END"} => (r.tx = "idle" <=> tx = "idle")
<1>1. PICK o \in DuckOutcomes(q.effect, tx) : r.tx = o.tx
  BY DEF runOn
<1>2. /\ q.kw = "BEGIN" <=> q.effect = "begin"
      /\ q.kw = "END" <=> q.effect \in {"commit", "rollback"}
      /\ q.effect # "script"
      /\ q.effect \in Effects
  BY QueryAssumption DEF PlainQueries
<1>3. CASE q.effect = "begin"
  <2>1. o.tx # "idle"
    BY <1>1, <1>3 DEF DuckOutcomes, Outcome, FailedIn, TxStates
  <2> QED BY <1>1, <1>2, <1>3, <2>1
<1>4. CASE q.effect \in {"commit", "rollback"}
  <2>1. o.tx = "idle"
    BY <1>1, <1>4 DEF DuckOutcomes, Outcome
  <2> QED BY <1>1, <1>2, <1>4, <2>1
<1>5. CASE q.effect \notin {"begin", "commit", "rollback", "script"}
  <2>1. o.tx = "idle" <=> tx = "idle"
    BY <1>1, <1>5 DEF DuckOutcomes, Outcome, FailedIn, TxStates
  <2> QED BY <1>1, <1>2, <1>5, <2>1
<1> QED BY <1>2, <1>3, <1>4, <1>5

\* What run leaves in the memo is the result of the text it was given.
LEMMA MemoIsText ==
  ASSUME TypeOK, NEW text \in Text, NEW r \in run(text)
  PROVE  r.memo.res => r.memo.text = text
<1>1. CASE memo.res /\ memo.text = text
  BY <1>1 DEF run
<1>2. CASE ~(memo.res /\ memo.text = text)
  <2>1. PICK s \in runOn(text.sql.effect, conn) :
          r = [ok |-> s.ok, cols |-> s.cols, asked |-> TRUE, ran |-> s.ran,
               memo |-> IF s.buf
                        THEN [res |-> TRUE, text |-> text, ok |-> s.ok, cols |-> s.cols]
                        ELSE NoMemo,
               tx |-> s.tx]
    BY <1>2 DEF run
  <2> QED BY <2>1 DEF NoMemo
<1> QED BY <1>1, <1>2

\* The same for run: a hit of the memo changes nothing and finds the connection
\* as the memoised text left it.
LEMMA PlainMemoRun ==
  ASSUME PlainQueries, TypeOK, MemoAgree, NEW text \in Text, NEW r \in run(text)
  PROVE  /\ text.sql.kw = "BEGIN" => r.tx # "idle"
         /\ text.sql.kw = "END" => r.tx = "idle"
         /\ text.sql.kw \notin {"BEGIN", "END"} => (r.tx = "idle" <=> conn = "idle")
         /\ r.memo.res => r.memo.text = text
<1>1. text.sql \in Query /\ conn \in TxStates
  BY DEF Text, TypeOK
<1>2. CASE memo.res /\ memo.text = text
  <2>1. r.tx = conn /\ r.memo = memo
    BY <1>2 DEF run
  <2> QED BY <1>2, <2>1 DEF MemoAgree
<1>3. CASE ~(memo.res /\ memo.text = text)
  <2>1. PICK s \in runOn(text.sql.effect, conn) : r.tx = s.tx
    BY <1>3 DEF run
  <2> QED BY <1>1, <2>1, PlainRun, MemoIsText
<1> QED BY <1>2, <1>3

\* txStatus says 'I' exactly outside a transaction.
LEMMA StatusIdle ==
  ASSUME NEW t, t.fail => t.in
  PROVE  (txStatus(t) = "I" <=> ~t.in) /\ txStatus(t) # "-"
BY DEF txStatus

\* trackTx keeps the belief in step with the connection.
LEMMA TrackAgree ==
  ASSUME NEW q, NEW ok \in BOOLEAN, NEW tx, TypeOK, Agree, FailInTx,
         q.kw = "BEGIN" => tx # "idle",
         q.kw = "END" => tx = "idle",
         q.kw \notin {"BEGIN", "END"} => (tx = "idle" <=> conn = "idle")
  PROVE  LET t == trackTx(q, ok, inTx, txFail) IN
         /\ t.in <=> tx # "idle"
         /\ t.fail => t.in
<1>1. inTx \in BOOLEAN /\ txFail \in BOOLEAN
  BY DEF TypeOK
<1>2. CASE q.kw = "BEGIN"
  BY <1>2 DEF trackTx, firstKeyword
<1>3. CASE q.kw = "END"
  BY <1>3 DEF trackTx, firstKeyword
<1>4. CASE q.kw \notin {"BEGIN", "END"}
  BY <1>1, <1>4 DEF trackTx, firstKeyword, Agree, FailInTx
<1> QED BY <1>2, <1>3, <1>4

LEMMA StatusInit ==
  ASSUME Init
  PROVE  StatusInv
<1>1. TypeOK
  BY InitType
<1> QED BY <1>1 DEF Init, StatusInv, Agree, FailInTx, StartIdle, CleanMemo, MemoAgree, NoMemo,
                    TruthfulStatus

LEMMA StatusStep ==
  ASSUME PlainQueries, "mixing" \notin Client, StatusInv, [Next]_vars
  PROVE  StatusInv'
<1> USE DEF session
<1>t. TypeOK'
  BY NextType DEF StatusInv
<1>b. TypeOK /\ inTx \in BOOLEAN /\ txFail \in BOOLEAN
  BY DEF StatusInv, TypeOK
<1>s. /\ txStatus(Believed) = "I" <=> conn = "idle"
      /\ txStatus(Believed) # "-"
  BY StatusIdle DEF StatusInv, Agree, FailInTx, Believed
<1>e. \A b \in {"open", "executed", "erred"} : Extended(b) => batch' # "clean"
  BY DEF Extended
<1>1. CASE DeclineSSL \/ Startup \/ Disconnect \/ Flush
  BY <1>t, <1>1 DEF DeclineSSL, Startup, Disconnect, Flush, Silent, Heard, StatusInv,
                    Agree, FailInTx, StartIdle, CleanMemo, MemoAgree, TruthfulStatus
<1>2. CASE Sync
  BY <1>t, <1>s, <1>2 DEF Sync, Heard, NoMemo, StatusInv,
                    Agree, FailInTx, StartIdle, CleanMemo, MemoAgree, TruthfulStatus
<1>3. ASSUME NEW q \in Query, SimpleQuery(q) PROVE StatusInv'
  <2>1. /\ batch = "clean" /\ batch' = batch
        /\ memo' = memo /\ ~memo.res
        /\ phase' = "ready"
    BY <1>3 DEF SimpleQuery, MayMix, StatusInv, CleanMemo
  <2>2. Agree' /\ FailInTx' /\ TruthfulStatus'
    <3>1. CASE q = Empty /\ UNCHANGED <<inTx, txFail, conn>>
               /\ Heard("Query", "-", EmptyText, Untouched, "empty", txStatus(Believed))
      BY <1>s, <3>1 DEF Heard, StatusInv, Agree, FailInTx, TruthfulStatus
    <3>2. ASSUME NEW r \in runOn(q.effect, conn),
                 Track(trackTx(q, r.ok, inTx, txFail)), conn' = r.tx,
                 Heard("Query", "-", [sql |-> q, args |-> NullArgs],
                       [asked |-> TRUE, ran |-> r.ran],
                       IF r.ok THEN "complete" ELSE "error",
                       txStatus(trackTx(q, r.ok, inTx, txFail)))
          PROVE  Agree' /\ FailInTx' /\ TruthfulStatus'
      <4> DEFINE t == trackTx(q, r.ok, inTx, txFail)
      <4>1. r.ok \in BOOLEAN /\ conn \in TxStates
        BY <1>b, <3>2, RunOnType, QueryAssumption DEF TypeOK
      <4>2. (t.in <=> r.tx # "idle") /\ (t.fail => t.in)
        BY <1>b, <4>1, <3>2, PlainRun, TrackAgree DEF StatusInv
      <4>3. inTx' = t.in /\ txFail' = t.fail /\ last'.status = txStatus(t)
        BY <3>2 DEF Track, Heard
      <4> HIDE DEF t
      <4>4. txStatus(t) = "I" <=> ~t.in
        BY <4>2, StatusIdle
      <4> QED BY <3>2, <4>2, <4>3, <4>4 DEF Agree, FailInTx, TruthfulStatus
    <3> QED BY <1>3, <3>1, <3>2 DEF SimpleQuery
  <2> QED BY <1>t, <2>1, <2>2 DEF StatusInv, StartIdle, CleanMemo, MemoAgree
<1>4. ASSUME NEW n \in StmtNames, NEW q \in Query, Parse(n, q) PROVE StatusInv'
  BY <1>t, <1>e, <1>4 DEF Parse, Silent, Heard, StatusInv,
                    Agree, FailInTx, StartIdle, CleanMemo, MemoAgree, TruthfulStatus
<1>5. ASSUME NEW p \in PortalNames, NEW n \in StmtNames, NEW args \in Args,
             Bind(p, n, args)
      PROVE StatusInv'
  BY <1>t, <1>e, <1>5 DEF Bind, Silent, Heard, StatusInv,
                    Agree, FailInTx, StartIdle, CleanMemo, MemoAgree, TruthfulStatus
<1>6. ASSUME NEW p, NEW q \in Query, DescribeMsg(p, q) PROVE StatusInv'
  <2>1. CASE failed
    BY <1>t, <1>e, <1>6, <2>1 DEF DescribeMsg, Silent, Heard, StatusInv,
                    Agree, FailInTx, StartIdle, CleanMemo, MemoAgree, TruthfulStatus
  <2>2. CASE ~failed /\ ~returnsRows(q)
    BY <1>t, <1>e, <1>6, <2>2 DEF DescribeMsg, describe, Heard, StatusInv,
                    Agree, FailInTx, StartIdle, CleanMemo, MemoAgree, TruthfulStatus
  <2>3. CASE ~failed /\ returnsRows(q)
    <3> DEFINE text == substituteParams(q, NullArgs)
    <3>1. text \in Text /\ text.sql.kw = "ROWS"
      BY <2>3, TextType, ClientAssumption DEF substituteParams, returnsRows, firstKeyword
    <3>2. PICK r \in run(text) :
            /\ memo' = r.memo /\ conn' = r.tx
            /\ Heard("Describe", p, text, r,
                     IF ~r.ok THEN "error" ELSE IF r.cols THEN "rowdesc" ELSE "nodata", "-")
            /\ Extended(IF r.ok THEN "open" ELSE "erred")
      BY <1>6, <2>3 DEF DescribeMsg, describe
    <3> HIDE DEF text
    <3>3. (r.tx = "idle" <=> conn = "idle") /\ (r.memo.res => r.memo.text = text)
      BY <1>b, <3>1, <3>2, PlainMemoRun DEF StatusInv
    <3>4. batch' # "clean" /\ last'.status = "-"
      BY <1>e, <3>2 DEF Heard
    <3>5. phase' = phase /\ inTx' = inTx /\ txFail' = txFail
      BY <1>6 DEF DescribeMsg
    <3> QED BY <1>t, <3>1, <3>2, <3>3, <3>4, <3>5
            DEF StatusInv, Agree, FailInTx, StartIdle, CleanMemo, MemoAgree, TruthfulStatus
  <2> QED BY <2>1, <2>2, <2>3
<1>7. ASSUME NEW p \in PortalNames, Execute(p) PROVE StatusInv'
  <2>1. CASE failed
    BY <1>t, <1>e, <1>7, <2>1 DEF Execute, Silent, Heard, StatusInv,
                    Agree, FailInTx, StartIdle, CleanMemo, MemoAgree, TruthfulStatus
  <2>2. CASE ~failed
    <3> DEFINE text == substituteParams(portals[p].sql, portals[p].args)
    <3>1. text \in Text
      <4>1. portals[p].sql \in Query /\ portals[p].args \in Args
        BY <1>b DEF TypeOK, Text
      <4> QED BY <4>1, TextType
    <3>2. PICK r \in run(text) :
            /\ memo' = r.memo /\ conn' = r.tx
            /\ Track(trackTx(text.sql, r.ok, inTx, txFail))
            /\ Heard("Execute", p, text, r, IF r.ok THEN "complete" ELSE "error", "-")
            /\ Extended(IF r.ok THEN "executed" ELSE "erred")
      BY <1>7, <2>2 DEF Execute, execute
    <3>3. /\ text.sql.kw = "BEGIN" => r.tx # "idle"
          /\ text.sql.kw = "END" => r.tx = "idle"
          /\ text.sql.kw \notin {"BEGIN", "END"} => (r.tx = "idle" <=> conn = "idle")
          /\ r.memo.res => r.memo.text = text
          /\ r.ok \in BOOLEAN
      <4> HIDE DEF text
      <4> QED BY <1>b, <3>1, <3>2, PlainMemoRun, RunType DEF StatusInv
    <3> HIDE DEF text
    <3> DEFINE t == trackTx(text.sql, r.ok, inTx, txFail)
    <3>4. (t.in <=> r.tx # "idle") /\ (t.fail => t.in)
      <4>1. PICK q : q = text.sql
        OBVIOUS
      <4> QED BY <1>b, <3>3, <4>1, TrackAgree DEF StatusInv
    <3>5. batch' # "clean" /\ last'.status = "-" /\ phase' = "ready"
      BY <1>e, <1>7, <3>2 DEF Heard, Execute
    <3> QED BY <1>t, <3>2, <3>3, <3>4, <3>5
            DEF Track, StatusInv, Agree, FailInTx, StartIdle, CleanMemo, MemoAgree,
                TruthfulStatus
  <2> QED BY <2>1, <2>2
<1>8. ASSUME NEW n \in StmtNames, CloseStmt(n) PROVE StatusInv'
  BY <1>t, <1>e, <1>8 DEF CloseStmt, Silent, Heard, StatusInv,
                    Agree, FailInTx, StartIdle, CleanMemo, MemoAgree, TruthfulStatus
<1>9. ASSUME NEW p \in PortalNames, ClosePortal(p) PROVE StatusInv'
  BY <1>t, <1>e, <1>9 DEF ClosePortal, Silent, Heard, StatusInv,
                    Agree, FailInTx, StartIdle, CleanMemo, MemoAgree, TruthfulStatus
<1>10. CASE UNCHANGED vars
  BY <1>t, <1>10 DEF vars, StatusInv,
                    Agree, FailInTx, StartIdle, CleanMemo, MemoAgree, TruthfulStatus
<1>11. /\ \A n \in StmtNames : stmts[n] \in Query
       /\ \A p \in PortalNames : portals[p].sql \in Query
  BY <1>b DEF TypeOK, Text
<1> QED
  BY <1>1, <1>2, <1>3, <1>4, <1>5, <1>6, <1>7, <1>8, <1>9, <1>10, <1>11
  DEF Next, DescribeStmt, DescribePortal

(***************************************************************************)
(* Every ReadyForQuery tells the truth about the transaction on the pinned *)
(* connection, provided the first keyword of each text says what the text  *)
(* does and simple queries stay out of unsynced extended batches; in stub  *)
(* mode and with pipelined Executes too.                                   *)
(***************************************************************************)
THEOREM StatusIsTruthful ==
  ASSUME PlainQueries, "mixing" \notin Client
  PROVE  Spec => []TruthfulStatus
<1>1. Init => StatusInv
  BY StatusInit
<1>2. StatusInv /\ [Next]_vars => StatusInv'
  BY StatusStep
<1> QED BY <1>1, <1>2, PTL DEF Spec, StatusInv

-----------------------------------------------------------------------------
(***************************************************************************)
(* Skipping until Sync.  The batch remembers the error that was sent; the  *)
(* session must not have forgotten it (ErredFails).                        *)
(***************************************************************************)
ErredFails == batch = "erred" => failed
SkipInv == TypeOK /\ ErredFails /\ ErrorSkipsExtended

LEMMA SkipStep ==
  ASSUME SkipInv, [Next]_vars
  PROVE  SkipInv'
<1> USE DEF session
<1>t. TypeOK'
  BY NextType DEF SkipInv
<1>b. TypeOK /\ failed \in BOOLEAN
  BY DEF SkipInv, TypeOK
<1>1. CASE DeclineSSL \/ Startup \/ Disconnect \/ Flush \/ Sync
  BY <1>t, <1>1 DEF DeclineSSL, Startup, Disconnect, Flush, Sync, Silent, Heard, Untouched,
                    SkipInv, ErredFails, ErrorSkipsExtended
<1>2. ASSUME NEW q \in Query, SimpleQuery(q) PROVE SkipInv'
  BY <1>t, <1>2 DEF SimpleQuery, Heard, Untouched, SkipInv, ErredFails, ErrorSkipsExtended
<1>3. ASSUME NEW n \in StmtNames, NEW q \in Query, Parse(n, q) PROVE SkipInv'
  BY <1>t, <1>3 DEF Parse, Silent, Heard, Untouched, Extended, SkipInv, ErredFails,
                    ErrorSkipsExtended
<1>4. ASSUME NEW p \in PortalNames, NEW n \in StmtNames, NEW args \in Args, Bind(p, n, args)
      PROVE  SkipInv'
  BY <1>t, <1>4 DEF Bind, Silent, Heard, Untouched, Extended, SkipInv, ErredFails,
                    ErrorSkipsExtended
<1>5. ASSUME NEW p, NEW q \in Query, DescribeMsg(p, q) PROVE SkipInv'
  <2>1. CASE failed
    BY <1>t, <1>5, <2>1 DEF DescribeMsg, Silent, Heard, Untouched, Extended, SkipInv,
                    ErredFails, ErrorSkipsExtended
  <2>2. CASE ~failed
    <3>1. last'.during # "erred"
      BY <1>5, <2>2 DEF DescribeMsg, describe, Heard, SkipInv, ErredFails
    <3>2. batch' = "erred" => failed'
      BY <1>5, <2>2 DEF DescribeMsg, describe, Extended, SkipInv, ErredFails
    <3> QED BY <1>t, <3>1, <3>2 DEF SkipInv, ErredFails, ErrorSkipsExtended
  <2> QED BY <2>1, <2>2
<1>6. ASSUME NEW p \in PortalNames, Execute(p) PROVE SkipInv'
  <2>1. CASE failed
    BY <1>t, <1>6, <2>1 DEF Execute, Silent, Heard, Untouched, Extended, SkipInv,
                    ErredFails, ErrorSkipsExtended
  <2>2. CASE ~failed
    <3>1. last'.during # "erred"
      BY <1>6, <2>2 DEF Execute, execute, Heard, SkipInv, ErredFails
    <3>2. batch' = "erred" => failed'
      BY <1>6, <2>2 DEF Execute, execute, Extended, SkipInv, ErredFails
    <3> QED BY <1>t, <3>1, <3>2 DEF SkipInv, ErredFails, ErrorSkipsExtended
  <2> QED BY <2>1, <2>2
<1>7. ASSUME NEW n \in StmtNames, CloseStmt(n) PROVE SkipInv'
  BY <1>t, <1>7 DEF CloseStmt, Silent, Heard, Untouched, Extended, SkipInv, ErredFails,
                    ErrorSkipsExtended
<1>8. ASSUME NEW p \in PortalNames, ClosePortal(p) PROVE SkipInv'
  BY <1>t, <1>8 DEF ClosePortal, Silent, Heard, Untouched, Extended, SkipInv, ErredFails,
                    ErrorSkipsExtended
<1>9. CASE UNCHANGED vars
  BY <1>t, <1>9 DEF vars, SkipInv, ErredFails, ErrorSkipsExtended
<1>10. /\ \A n \in StmtNames : stmts[n] \in Query
       /\ \A p \in PortalNames : portals[p].sql \in Query
  BY <1>b DEF TypeOK, Text
<1> QED
  BY <1>1, <1>2, <1>3, <1>4, <1>5, <1>6, <1>7, <1>8, <1>9, <1>10
  DEF Next, DescribeStmt, DescribePortal

(***************************************************************************)
(* After an error in an extended batch DuckDB hears of no Parse, Bind,     *)
(* Describe or Execute until Sync, whatever the client sends in between.   *)
(***************************************************************************)
THEOREM ErrorSkips == Spec => []ErrorSkipsExtended
<1>1. Init => SkipInv
  <2> SUFFICES ASSUME Init PROVE SkipInv
    OBVIOUS
  <2>1. TypeOK
    BY InitType
  <2> QED BY <2>1 DEF Init, SkipInv, ErredFails, ErrorSkipsExtended
<1>2. SkipInv /\ [Next]_vars => SkipInv'
  BY SkipStep
<1> QED BY <1>1, <1>2, PTL DEF Spec, SkipInv

-----------------------------------------------------------------------------
(***************************************************************************)
(* Acknowledged exactly when run.  The only way to acknowledge a write     *)
(* without running it is a hit of the memo, so a memoised write must keep  *)
(* the session out of Execute until Sync (WriteMemo): by the client's own  *)
(* discipline after a success, by failed after an error.                   *)
(***************************************************************************)
WriteMemo == memo.res /\ memo.text.sql.effect = "write" => batch \in {"executed", "erred"}
AckInv == SkipInv /\ WriteMemo /\ AckedIffRun

\* Outside stub mode runOn returns no error exactly when DuckDB ran the text.
LEMMA HonestRun ==
  ASSUME ~Stub, NEW e, NEW tx, NEW r \in runOn(e, tx)
  PROVE  r.ran <=> r.ok
<1>1. PICK o \in DuckOutcomes(e, tx) :
        r = [ ok   |-> o.err = "ok" \/ Stubbed(o.err),
              buf  |-> o.err \in {"ok", "late"} \/ Stubbed(o.err),
              ran  |-> o.err = "ok",
              cols |-> o.err \in {"ok", "late"},
              tx   |-> o.tx ]
  BY DEF runOn
<1> QED BY <1>1 DEF Stubbed

(***************************************************************************)
(* No write is acknowledged without running, and none runs without being   *)
(* acknowledged by the message that ran it, for clients that sync between  *)
(* Executes; simple queries may be mixed in freely.                        *)
(***************************************************************************)
THEOREM WritesAcknowledged ==
  ASSUME ~Stub, NoRowWrites, "pipelining" \notin Client
  PROVE  Spec => []AckedIffRun
<1>1. Init => AckInv
  <2> SUFFICES ASSUME Init PROVE AckInv
    OBVIOUS
  <2>1. TypeOK
    BY InitType
  <2> QED BY <2>1, QueryAssumption
          DEF Init, AckInv, SkipInv, ErredFails, ErrorSkipsExtended, WriteMemo, NoMemo,
              AckedIffRun, EmptyText
<1>2. AckInv /\ [Next]_vars => AckInv'
  <2> SUFFICES ASSUME AckInv, [Next]_vars PROVE AckInv'
    OBVIOUS
  <2> USE DEF session
  <2>k. SkipInv'
    BY SkipStep DEF AckInv
  <2>b. TypeOK /\ failed \in BOOLEAN /\ ErredFails
    BY DEF AckInv, SkipInv, TypeOK
  <2>q. Empty.effect = "none" /\ EmptyText.sql = Empty
    BY QueryAssumption DEF EmptyText
  <2>1. CASE DeclineSSL \/ Startup \/ Disconnect \/ Flush
    BY <2>k, <2>q, <2>1 DEF DeclineSSL, Startup, Disconnect, Flush, Silent, Heard,
                            AckInv, WriteMemo, AckedIffRun
  <2>2. CASE Sync
    BY <2>k, <2>q, <2>2 DEF Sync, NoMemo, Heard, AckInv, WriteMemo, AckedIffRun
  <2>3. ASSUME NEW q \in Query, SimpleQuery(q) PROVE AckInv'
    <3>1. WriteMemo'
      BY <2>3 DEF SimpleQuery, AckInv, WriteMemo
    <3>2. CASE Heard("Query", "-", EmptyText, Untouched, "empty", txStatus(Believed))
      BY <2>k, <2>q, <3>1, <3>2 DEF Heard, AckInv, AckedIffRun
    <3>3. ASSUME NEW r \in runOn(q.effect, conn),
                 Heard("Query", "-", [sql |-> q, args |-> NullArgs],
                       [asked |-> TRUE, ran |-> r.ran],
                       IF r.ok THEN "complete" ELSE "error",
                       txStatus(trackTx(q, r.ok, inTx, txFail)))
          PROVE  AckInv'
      <4>1. r.ran <=> r.ok
        BY <3>3, HonestRun
      <4> QED BY <2>k, <3>1, <3>3, <4>1 DEF Heard, AckInv, AckedIffRun
    <3> QED BY <2>3, <3>2, <3>3 DEF SimpleQuery
  <2>4. ASSUME NEW n \in StmtNames, NEW q \in Query, Parse(n, q) PROVE AckInv'
    BY <2>k, <2>q, <2>4 DEF Parse, Silent, Heard, Extended, AckInv, WriteMemo, AckedIffRun
  <2>5. ASSUME NEW p \in PortalNames, NEW n \in StmtNames, NEW args \in Args,
               Bind(p, n, args)
        PROVE AckInv'
    BY <2>k, <2>q, <2>5 DEF Bind, Silent, Heard, Extended, AckInv, WriteMemo, AckedIffRun
  <2>6. ASSUME NEW p, NEW q \in Query, DescribeMsg(p, q) PROVE AckInv'
    <3>1. CASE failed
      BY <2>k, <2>q, <2>6, <3>1
      DEF DescribeMsg, Silent, Heard, Extended, AckInv, WriteMemo, AckedIffRun
    <3>2. CASE ~failed /\ ~returnsRows(q)
      BY <2>k, <2>6, <3>2
      DEF DescribeMsg, describe, Heard, Untouched, Extended, AckInv, WriteMemo, AckedIffRun
    <3>3. CASE ~failed /\ returnsRows(q)
      <4> DEFINE text == substituteParams(q, NullArgs)
      <4>1. text \in Text /\ text.sql.effect # "write"
        BY <3>3, TextType, ClientAssumption DEF substituteParams, NoRowWrites
      <4>2. PICK r \in run(text) :
              /\ memo' = r.memo
              /\ Heard("Describe", p, text, r,
                       IF ~r.ok THEN "error" ELSE IF r.cols THEN "rowdesc" ELSE "nodata", "-")
        BY <2>6, <3>3 DEF DescribeMsg, describe
      <4> HIDE DEF text
      <4>3. r.memo.res => r.memo.text = text
        BY <2>b, <4>1, <4>2, MemoIsText
      <4> QED BY <2>k, <4>1, <4>2, <4>3 DEF Heard, AckInv, WriteMemo, AckedIffRun
    <3> QED BY <3>1, <3>2, <3>3
  <2>7. ASSUME NEW p \in PortalNames, Execute(p) PROVE AckInv'
    <3>1. CASE failed
      BY <2>k, <2>q, <2>7, <3>1
      DEF Execute, Silent, Heard, Extended, AckInv, WriteMemo, AckedIffRun
    <3>2. CASE ~failed
      <4> DEFINE text == substituteParams(portals[p].sql, portals[p].args)
      <4>1. text \in Text
        <5>1. portals[p].sql \in Query /\ portals[p].args \in Args
          BY <2>b DEF TypeOK, Text
        <5> QED BY <5>1, TextType
      <4>2. PICK r \in run(text) :
              /\ memo' = r.memo
              /\ Heard("Execute", p, text, r, IF r.ok THEN "complete" ELSE "error", "-")
              /\ Extended(IF r.ok THEN "executed" ELSE "erred")
        BY <2>7, <3>2 DEF Execute, execute
      <4> HIDE DEF text
      <4>3. batch \notin {"executed", "erred"} /\ batch' \in {"executed", "erred"}
        BY <2>b, <2>7, <3>2, <4>2 DEF Execute, MayPipeline, ErredFails, Extended
      <4>4. text.sql.effect = "write" => (r.ran <=> r.ok)
        <5> SUFFICES ASSUME text.sql.effect = "write" PROVE r.ran <=> r.ok
          OBVIOUS
        <5>1. ~(memo.res /\ memo.text = text)
          BY <4>3 DEF AckInv, WriteMemo
        <5>2. PICK s \in runOn(text.sql.effect, conn) : r.ran = s.ran /\ r.ok = s.ok
          BY <4>2, <5>1 DEF run
        <5> QED BY <5>2, HonestRun
      <4> QED BY <2>k, <4>2, <4>3, <4>4 DEF Heard, AckInv, WriteMemo, AckedIffRun
    <3> QED BY <3>1, <3>2
  <2>8. ASSUME NEW n \in StmtNames, CloseStmt(n) PROVE AckInv'
    BY <2>k, <2>q, <2>8 DEF CloseStmt, Silent, Heard, Extended, AckInv, WriteMemo, AckedIffRun
  <2>9. ASSUME NEW p \in PortalNames, ClosePortal(p) PROVE AckInv'
    BY <2>k, <2>q, <2>9 DEF ClosePortal, Silent, Heard, Extended, AckInv, WriteMemo, AckedIffRun
  <2>10. CASE UNCHANGED vars
    BY <2>k, <2>10 DEF vars, AckInv, WriteMemo, AckedIffRun
  <2>11. /\ \A n \in StmtNames : stmts[n] \in Query
         /\ \A p \in PortalNames : portals[p].sql \in Query
    BY <2>b DEF TypeOK, Text
  <2> QED
    BY <2>1, <2>2, <2>3, <2>4, <2>5, <2>6, <2>7, <2>8, <2>9, <2>10, <2>11
    DEF Next, DescribeStmt, DescribePortal
<1> QED BY <1>1, <1>2, PTL DEF Spec, AckInv

-----------------------------------------------------------------------------
(***************************************************************************)
(* One run per pair.  From an answered Describe until the next message the *)
(* memo holds the described text, which is the one its portal stands for,  *)
(* and the session is not skipping (Described).                            *)
(***************************************************************************)
Described ==
  last.msg = "Describe" /\ last.reply = "rowdesc" =>
    /\ memo.res /\ memo.text = last.text /\ ~failed
    /\ returnsRows(last.text.sql)
    /\ last.portal \in PortalNames =>
         last.text = substituteParams(portals[last.portal].sql, NullArgs)
PairInv == TypeOK /\ Described

\* A run that gives columns is memoised.
LEMMA ColumnsMemoised ==
  ASSUME NEW text, NEW r \in run(text), r.cols
  PROVE  r.memo.res /\ r.memo.text = text
<1>1. CASE memo.res /\ memo.text = text
  BY <1>1 DEF run
<1>2. CASE ~(memo.res /\ memo.text = text)
  <2>1. PICK s \in runOn(text.sql.effect, conn) :
          r = [ok |-> s.ok, cols |-> s.cols, asked |-> TRUE, ran |-> s.ran,
               memo |-> IF s.buf
                        THEN [res |-> TRUE, text |-> text, ok |-> s.ok, cols |-> s.cols]
                        ELSE NoMemo,
               tx |-> s.tx]
    BY <1>2 DEF run
  <2>2. s.cols => s.buf
    <3>1. PICK o \in DuckOutcomes(text.sql.effect, conn) :
            /\ s.buf = (o.err \in {"ok", "late"} \/ Stubbed(o.err))
            /\ s.cols = (o.err \in {"ok", "late"})
      BY <2>1 DEF runOn
    <3> QED BY <3>1
  <2> QED BY <2>1, <2>2
<1> QED BY <1>1, <1>2

LEMMA PairStep ==
  ASSUME PairInv, [Next]_vars
  PROVE  PairInv'
<1> USE DEF session
<1>t. TypeOK'
  BY NextType DEF PairInv
<1>b. TypeOK
  BY DEF PairInv
<1>1. CASE DeclineSSL \/ Startup \/ Disconnect \/ Flush \/ Sync
  BY <1>t, <1>1 DEF DeclineSSL, Startup, Disconnect, Flush, Sync, Silent, Heard,
                    PairInv, Described
<1>2. ASSUME NEW q \in Query, SimpleQuery(q) PROVE PairInv'
  BY <1>t, <1>2 DEF SimpleQuery, Heard, PairInv, Described
<1>3. ASSUME NEW n \in StmtNames, NEW q \in Query, Parse(n, q) PROVE PairInv'
  BY <1>t, <1>3 DEF Parse, Silent, Heard, PairInv, Described
<1>4. ASSUME NEW p \in PortalNames, NEW n \in StmtNames, NEW args \in Args, Bind(p, n, args)
      PROVE  PairInv'
  BY <1>t, <1>4 DEF Bind, Silent, Heard, PairInv, Described
<1>5. ASSUME NEW p, NEW q \in Query, DescribeMsg(p, q),
             p \in PortalNames => q = portals[p].sql
      PROVE  PairInv'
  <2>1. CASE failed
    BY <1>t, <1>5, <2>1 DEF DescribeMsg, Silent, Heard, PairInv, Described
  <2>2. CASE ~failed /\ ~returnsRows(q)
    BY <1>t, <1>5, <2>2 DEF DescribeMsg, describe, Heard, PairInv, Described
  <2>3. CASE ~failed /\ returnsRows(q)
    <3> DEFINE text == substituteParams(q, NullArgs)
    <3>1. text.sql = q /\ (p \in PortalNames => text = substituteParams(portals'[p].sql, NullArgs))
      BY <1>5 DEF substituteParams, DescribeMsg
    <3>2. PICK r \in run(text) :
            /\ memo' = r.memo /\ failed' = ~r.ok
            /\ Heard("Describe", p, text, r,
                     IF ~r.ok THEN "error" ELSE IF r.cols THEN "rowdesc" ELSE "nodata", "-")
      BY <1>5, <2>3 DEF DescribeMsg, describe
    <3> HIDE DEF text
    <3>3. last'.text = text /\ last'.portal = p
      BY <3>2 DEF Heard
    <3>4. last'.reply = "rowdesc" => r.ok /\ r.cols
      BY <3>2 DEF Heard
    <3>5. last'.reply = "rowdesc" => memo'.res /\ memo'.text = text /\ ~failed'
      BY <3>2, <3>4, ColumnsMemoised
    <3> QED BY <1>t, <2>3, <3>1, <3>3, <3>5 DEF PairInv, Described
  <2> QED BY <2>1, <2>2, <2>3 DEF PairInv, TypeOK
<1>6. ASSUME NEW p \in PortalNames, Execute(p) PROVE PairInv'
  BY <1>t, <1>6 DEF Execute, execute, Silent, Heard, PairInv, Described
<1>7. ASSUME NEW n \in StmtNames, CloseStmt(n) PROVE PairInv'
  BY <1>t, <1>7 DEF CloseStmt, Silent, Heard, PairInv, Described
<1>8. ASSUME NEW p \in PortalNames, ClosePortal(p) PROVE PairInv'
  BY <1>t, <1>8 DEF ClosePortal, Silent, Heard, PairInv, Described
<1>9. CASE UNCHANGED vars
  BY <1>t, <1>9 DEF vars, PairInv, Described
<1>10. /\ \A n \in StmtNames : stmts[n] \in Query
       /\ \A p \in PortalNames : portals[p].sql \in Query
  BY <1>b DEF TypeOK, Text
<1>11. ASSUME NEW n \in StmtNames, DescribeStmt(n) PROVE PairInv'
  BY <1>5, <1>10, <1>11, PortalAssumption DEF DescribeStmt
<1>12. ASSUME NEW p \in PortalNames, DescribePortal(p) PROVE PairInv'
  BY <1>5, <1>10, <1>12 DEF DescribePortal
<1> QED
  BY <1>1, <1>2, <1>3, <1>4, <1>6, <1>7, <1>8, <1>9, <1>11, <1>12 DEF Next

(***************************************************************************)
(* The Execute after the answered Describe of its portal never asks DuckDB *)
(* again, for texts without placeholders and every client, the mixing and  *)
(* the pipelining one too, in stub mode and outside it.                    *)
(***************************************************************************)
THEOREM PairsRunOnce ==
  ASSUME NoRowParams
  PROVE  Spec => OneRunPerPair
<1>1. Init => PairInv
  <2> SUFFICES ASSUME Init PROVE PairInv
    OBVIOUS
  <2>1. TypeOK
    BY InitType
  <2> QED BY <2>1 DEF Init, PairInv, Described
<1>2. PairInv /\ [Next]_vars => PairInv'
  BY PairStep
<1> DEFINE Reused == /\ last.msg = "Describe" /\ last.reply = "rowdesc"
                     /\ last'.msg = "Execute" /\ last'.portal = last.portal
                     => ~last'.asked
<1>3. PairInv /\ [Next]_vars => [Reused]_vars
  <2> SUFFICES ASSUME PairInv, Next, last.msg = "Describe", last.reply = "rowdesc",
                      last'.msg = "Execute", last'.portal = last.portal
               PROVE  ~last'.asked
    OBVIOUS
  <2>1. PICK p \in PortalNames : Execute(p)
    BY DEF Next, DeclineSSL, Startup, Disconnect, Sync, Flush, SimpleQuery, Parse, Bind,
           DescribeStmt, DescribePortal, DescribeMsg, describe, CloseStmt, ClosePortal,
           Silent, Heard
  <2>2. ~failed /\ memo.res /\ memo.text = last.text /\ returnsRows(last.text.sql)
    BY DEF PairInv, Described
  <2> DEFINE text == substituteParams(portals[p].sql, portals[p].args)
  <2>3. PICK r \in run(text) : Heard("Execute", p, text, r, IF r.ok THEN "complete" ELSE "error", "-")
    BY <2>1, <2>2 DEF Execute, execute
  <2>4. last.portal = p
    BY <2>3 DEF Heard
  <2>5. portals[p].sql \in Query
    BY DEF PairInv, TypeOK, Text
  <2>6. last.text = substituteParams(portals[p].sql, NullArgs)
    BY <2>4 DEF PairInv, Described
  <2>7. text = last.text
    BY <2>2, <2>5, <2>6 DEF NoRowParams, substituteParams
  <2>8. ~r.asked
    BY <2>2, <2>3, <2>7 DEF run
  <2> QED BY <2>3, <2>8 DEF Heard
<1> QED BY <1>1, <1>2, <1>3, PTL DEF Spec, OneRunPerPair

-----------------------------------------------------------------------------
(***************************************************************************)
(* PgSession implements PgContract: the initial states map to initial      *)
(* states, and every step to a step of the contract or to a stutter.       *)
(***************************************************************************)

\* A message that is answered without a status byte, or not at all.
LEMMA SilentTells ==
  ASSUME NEW msg, NEW reply, Silent(msg, reply)
  PROVE  Contract!Tell(msg, reply, "-")
BY DEF Silent, Heard, Contract!Tell

\* A status byte that was sent is one of the three, and true.
LEMMA StatusTold ==
  ASSUME StatusInv', NEW msg, NEW reply, last'.msg = msg, last'.reply = reply,
         last'.status # "-"
  PROVE  Contract!TellStatus(msg, reply)
<1>1. last'.status \in Statuses
  BY DEF StatusInv, TypeOK, LastMessage
<1>2. last'.status = "I" <=> ~(conn # "idle")'
  BY DEF StatusInv, TruthfulStatus
<1>3. Contract!Tell(msg, reply, last'.status)
  BY DEF Contract!Tell
<1> QED BY <1>1, <1>2, <1>3 DEF Contract!TellStatus, Contract!Statuses, Statuses

LEMMA ContractInit ==
  ASSUME Init
  PROVE  Contract!Init
BY DEF Init, Contract!Init

LEMMA DescribeImplements ==
  ASSUME PlainQueries, StatusInv, NEW p, NEW q \in Query, DescribeMsg(p, q)
  PROVE  Contract!Prepare("Describe", {"nodata", "rowdesc", "error"})
<1>b. TypeOK /\ failed \in BOOLEAN
  BY DEF StatusInv, TypeOK
<1>0. phase = "ready" /\ phase' = phase
  BY DEF DescribeMsg
<1>1. CASE failed
  BY <1>0, <1>1, SilentTells DEF DescribeMsg, Contract!Prepare
<1>2. CASE ~failed /\ ~returnsRows(q)
  <2>1. Contract!Tell("Describe", "nodata", "-") /\ failed' = FALSE /\ conn' = conn
    BY <1>b, <1>2 DEF DescribeMsg, describe, Heard, Contract!Tell
  <2> QED BY <1>0, <1>2, <2>1 DEF Contract!Prepare
<1>3. CASE ~failed /\ returnsRows(q)
  <2> DEFINE text == substituteParams(q, NullArgs)
  <2>1. text \in Text /\ text.sql.kw = "ROWS"
    BY <1>3, TextType, ClientAssumption DEF substituteParams, returnsRows, firstKeyword
  <2>2. PICK r \in run(text) :
          /\ conn' = r.tx /\ failed' = ~r.ok
          /\ Heard("Describe", p, text, r,
                   IF ~r.ok THEN "error" ELSE IF r.cols THEN "rowdesc" ELSE "nodata", "-")
    BY <1>3 DEF DescribeMsg, describe
  <2> HIDE DEF text
  <2>3. (r.tx = "idle" <=> conn = "idle") /\ r.ok \in BOOLEAN
    BY <1>b, <2>1, <2>2, PlainMemoRun, RunType DEF StatusInv
  <2> DEFINE reply == IF ~r.ok THEN "error" ELSE IF r.cols THEN "rowdesc" ELSE "nodata"
  <2>4. Contract!Tell("Describe", reply, "-")
    BY <2>2 DEF Heard, Contract!Tell
  <2>5. reply \in {"nodata", "rowdesc", "error"} /\ failed' = (reply = "error")
    BY <2>2, <2>3
  <2>6. UNCHANGED (conn # "idle")
    BY <2>2, <2>3
  <2> HIDE DEF reply
  <2> QED BY <1>0, <1>3, <2>4, <2>5, <2>6 DEF Contract!Prepare
<1> QED BY <1>1, <1>2, <1>3

LEMMA ExecuteImplements ==
  ASSUME StatusInv, NEW p \in PortalNames, Execute(p)
  PROVE  Contract!Execute
<1>b. TypeOK /\ failed \in BOOLEAN
  BY DEF StatusInv, TypeOK
<1>0. phase = "ready" /\ phase' = phase
  BY DEF Execute
<1>1. CASE failed
  BY <1>0, <1>1, SilentTells DEF Execute, Contract!Execute
<1>2. CASE ~failed
  <2> DEFINE text == substituteParams(portals[p].sql, portals[p].args)
  <2>1. text \in Text
    <3>1. portals[p].sql \in Query /\ portals[p].args \in Args
      BY <1>b DEF TypeOK, Text
    <3> QED BY <3>1, TextType
  <2>2. PICK r \in run(text) :
          /\ failed' = ~r.ok
          /\ Heard("Execute", p, text, r, IF r.ok THEN "complete" ELSE "error", "-")
    BY <1>2 DEF Execute, execute
  <2> HIDE DEF text
  <2>3. r.ok \in BOOLEAN
    BY <1>b, <2>1, <2>2, RunType
  <2> DEFINE reply == IF r.ok THEN "complete" ELSE "error"
  <2>4. Contract!Tell("Execute", reply, "-")
    BY <2>2 DEF Heard, Contract!Tell
  <2>5. reply \in {"complete", "error"} /\ failed' = (reply = "error")
    BY <2>2, <2>3
  <2>6. (conn # "idle")' \in BOOLEAN
    OBVIOUS
  <2> HIDE DEF reply
  <2> QED BY <1>0, <1>2, <2>4, <2>5, <2>6 DEF Contract!Execute
<1> QED BY <1>1, <1>2

LEMMA StepImplements ==
  ASSUME PlainQueries, StatusInv, StatusInv', [Next]_vars
  PROVE  [Contract!Next]_(Contract!vars)
<1> USE DEF session
<1>b. TypeOK /\ failed \in BOOLEAN
  BY DEF StatusInv, TypeOK
<1>s. txStatus(Believed) # "-"
  BY StatusIdle DEF StatusInv, Agree, FailInTx, Believed
<1>1. CASE DeclineSSL
  <2>1. Contract!Greet
    BY <1>1, SilentTells DEF DeclineSSL, Contract!Greet
  <2> QED BY <2>1 DEF Contract!Next
<1>2. CASE Startup
  <2>1. Contract!TellStatus("Startup", "ready")
    BY <1>2, StatusTold DEF Startup, Heard
  <2>2. Contract!Greet
    BY <1>2, <2>1 DEF Startup, Contract!Greet
  <2> QED BY <2>2 DEF Contract!Next
<1>3. CASE Disconnect
  <2>1. Contract!Leave
    BY <1>3, SilentTells DEF Disconnect, Contract!Leave
  <2> QED BY <2>1 DEF Contract!Next
<1>4. CASE Sync
  <2>1. Contract!TellStatus("Sync", "ready")
    BY <1>4, <1>s, StatusTold DEF Sync, Heard
  <2>2. Contract!Sync
    BY <1>4, <2>1 DEF Sync, Contract!Sync
  <2> QED BY <2>2 DEF Contract!Next
<1>5. CASE Flush
  <2>1. Contract!Flush
    BY <1>5, SilentTells DEF Flush, Contract!Flush
  <2> QED BY <2>1 DEF Contract!Next
<1>6. ASSUME NEW q \in Query, SimpleQuery(q) PROVE Contract!Next
  <2>1. \E r \in {"empty", "complete", "error"} : Contract!TellStatus("Query", r)
    <3>1. CASE Heard("Query", "-", EmptyText, Untouched, "empty", txStatus(Believed))
      BY <1>s, <3>1, StatusTold DEF Heard
    <3>2. ASSUME NEW r \in runOn(q.effect, conn),
                 Heard("Query", "-", [sql |-> q, args |-> NullArgs],
                       [asked |-> TRUE, ran |-> r.ran],
                       IF r.ok THEN "complete" ELSE "error",
                       txStatus(trackTx(q, r.ok, inTx, txFail)))
          PROVE  \E a \in {"empty", "complete", "error"} : Contract!TellStatus("Query", a)
      <4>1. last'.status # "-"
        BY <3>2 DEF Heard, txStatus
      <4>2. last'.msg = "Query" /\ last'.reply \in {"complete", "error"}
        BY <3>2 DEF Heard
      <4> QED BY <4>1, <4>2, StatusTold
    <3> QED BY <1>6, <3>1, <3>2 DEF SimpleQuery
  <2>2. Contract!SimpleQuery
    BY <1>6, <2>1 DEF SimpleQuery, Contract!SimpleQuery
  <2> QED BY <2>2 DEF Contract!Next
<1>7. ASSUME NEW n \in StmtNames, NEW q \in Query, Parse(n, q) PROVE Contract!Next
  <2>1. Contract!Prepare("Parse", {"parsed"})
    BY <1>b, <1>7, SilentTells DEF Parse, Contract!Prepare
  <2> QED BY <2>1 DEF Contract!Next
<1>8. ASSUME NEW p \in PortalNames, NEW n \in StmtNames, NEW args \in Args, Bind(p, n, args)
      PROVE  Contract!Next
  <2>1. Contract!Prepare("Bind", {"bound"})
    BY <1>b, <1>8, SilentTells DEF Bind, Contract!Prepare
  <2> QED BY <2>1 DEF Contract!Next
<1>9. ASSUME NEW p, NEW q \in Query, DescribeMsg(p, q) PROVE Contract!Next
  BY <1>9, DescribeImplements DEF Contract!Next
<1>10. ASSUME NEW p \in PortalNames, Execute(p) PROVE Contract!Next
  BY <1>10, ExecuteImplements DEF Contract!Next
<1>11. ASSUME NEW n \in StmtNames, CloseStmt(n) PROVE Contract!Next
  <2>1. Contract!Close
    BY <1>11, SilentTells DEF CloseStmt, Contract!Close
  <2> QED BY <2>1 DEF Contract!Next
<1>12. ASSUME NEW p \in PortalNames, ClosePortal(p) PROVE Contract!Next
  <2>1. Contract!Close
    BY <1>12, SilentTells DEF ClosePortal, Contract!Close
  <2> QED BY <2>1 DEF Contract!Next
<1>13. CASE UNCHANGED vars
  BY <1>13 DEF vars, Contract!vars
<1>14. /\ \A n \in StmtNames : stmts[n] \in Query
       /\ \A p \in PortalNames : portals[p].sql \in Query
  BY <1>b DEF TypeOK, Text
<1> QED
  BY <1>1, <1>2, <1>3, <1>4, <1>5, <1>6, <1>7, <1>8, <1>9, <1>10, <1>11, <1>12, <1>13, <1>14
  DEF Next, DescribeStmt, DescribePortal

(***************************************************************************)
(* The session keeps its contract with the client: with texts whose first  *)
(* keyword says what they do, and simple queries kept out of unsynced      *)
(* batches, every behaviour of the session is one of the contract.         *)
(***************************************************************************)
THEOREM KeepsContract ==
  ASSUME PlainQueries, "mixing" \notin Client
  PROVE  Spec => ImplementsContract
<1>1. Init => StatusInv /\ Contract!Init
  BY StatusInit, ContractInit
<1>2. StatusInv /\ [Next]_vars => StatusInv'
  BY StatusStep
<1>3. StatusInv /\ StatusInv' /\ [Next]_vars => [Contract!Next]_(Contract!vars)
  BY StepImplements
<1> QED BY <1>1, <1>2, <1>3, PTL DEF Spec, ImplementsContract, Contract!Spec
=============================================================================
