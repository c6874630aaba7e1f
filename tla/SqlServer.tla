----------------------------- MODULE SqlServer -----------------------------
(***************************************************************************)
(* The three SQL front ends over one engine.  A Postgres session pins a    *)
(* DuckDB connection for its lifetime (pg.handleConn, Engine.Conn); MySQL  *)
(* and ClickHouse sessions borrow one per statement (Engine.Run).  All of  *)
(* them draw on the one database/sql pool of the engine, and a connection  *)
(* goes back to it with whatever transaction is open on it.                *)
(*                                                                         *)
(* Data is abstracted to a set of distinct writes, each issued once.       *)
(***************************************************************************)
EXTENDS Engine, PgTx, Naturals, FiniteSets

CONSTANTS
  PgClients, MyClients, ChClients,   \* sessions by protocol
  Conns,       \* DuckDB connections; the pool has no upper limit, so at least
               \* as many as there are sessions
  NoConn,
  Writes,      \* the writes clients may issue
  MaxIdle,     \* connections database/sql keeps idle
  PoolTx,      \* MySQL clients use BEGIN, COMMIT and ROLLBACK
  Abrupt       \* Postgres clients may disconnect inside a transaction

ASSUME SessionAssumption ==
  /\ PgClients \cap (MyClients \cup ChClients) = {}
  /\ MyClients \cap ChClients = {}
  /\ NoConn \notin Conns

ASSUME ServerAssumption ==
  PoolTx \in BOOLEAN /\ Abrupt \in BOOLEAN /\ MaxIdle \in Nat

Pooled == MyClients \cup ChClients
Clients == PgClients \cup Pooled

VARIABLES
  free,        \* the idle connections in the pool
  held,        \* the connection each session holds, or NoConn
  tx,          \* the transaction state of each connection
  pending,     \* what is written in the transaction of each connection
  snap,        \* what was committed when that transaction began
  committed,   \* what every new transaction sees
  job,         \* the statement a pooled session has in flight
  believes,    \* session.inTx and session.txFail of each Postgres session
  told,        \* the last transaction status each client was told
  owed,        \* history: writes acknowledged in the client's own transaction
  hurt,        \* history: a statement of that transaction was answered with an error
  promised,    \* history: writes acknowledged for good
  doubtful,    \* history: for each transaction that was hurt but whose COMMIT was
               \* acknowledged, the writes acknowledged in it
  retracted,   \* history: writes the client knows to be undone or refused
  issued,      \* history: writes issued so far
  read         \* history: what the last read saw, and what it was due

pool == <<free, held>>
duck == <<tx, pending, snap, committed>>
history == <<owed, hurt, promised, doubtful, retracted, issued>>
vars == <<pool, duck, job, believes, told, history, read>>

Statements == {"read", "write", "begin", "commit", "rollback"}
NoJob == [effect |-> "none", w |-> {}]

\* A statement with the writes it makes: one that was not issued before, or none.
Issue == {[effect |-> "write", w |-> {x}] : x \in Writes \ issued}
           \cup {[effect |-> e, w |-> {}] : e \in Statements \ {"write"}}

\* The first keyword of the text of a statement.
Keyword(e) == CASE e = "begin" -> "BEGIN"
                [] e \in {"commit", "rollback"} -> "END"
                [] e = "read" -> "ROWS"
                [] OTHER -> "OTHER"

Outside == [in |-> FALSE, fail |-> FALSE]

-----------------------------------------------------------------------------
\* database/sql: a connection is taken from the idle ones, and opened anew only
\* when there is none.
Takeable ==
  IF free # {} THEN free ELSE {c \in Conns : \A x \in Clients : held[x] # c}

Take(x, c) ==
  /\ c \in Takeable
  /\ held' = [held EXCEPT ![x] = c]
  /\ free' = free \ {c}

\* database/sql: a returned connection is kept as it is, or closed when enough
\* are idle already.  Closing it rolls its transaction back.
Kept == Cardinality(free) < MaxIdle

Return(x, c) ==
  /\ held' = [held EXCEPT ![x] = NoConn]
  /\ free' = IF Kept THEN free \cup {c} ELSE free

Left(t) == IF Kept THEN t ELSE "idle"
LeftOf(ws) == IF Kept THEN ws ELSE {}

(***************************************************************************)
(* What a statement does to the data: c the connection, s the statement,   *)
(* r the answer of runOn.                                                  *)
(***************************************************************************)
Pending(c, s, r) ==
  IF r.tx = "idle" THEN {} ELSE IF r.ran THEN pending[c] \cup s.w ELSE pending[c]

Committed(c, s, r) ==
  IF ~r.ran THEN committed
  ELSE CASE s.effect = "commit" /\ tx[c] = "open" -> committed \cup pending[c]
         [] s.effect = "write" /\ tx[c] = "idle" -> committed \cup s.w
         [] OTHER -> committed

Snap(c, s, r) == IF r.tx = "idle" THEN {}
                 ELSE IF s.effect = "begin" /\ r.ran THEN committed ELSE snap[c]

Visible(c) == IF tx[c] = "idle" THEN committed ELSE snap[c] \cup pending[c]

(***************************************************************************)
(* What the client may conclude from the answer ok to statement s, given   *)
(* whether it was told to be in a transaction (in).  A COMMIT that is      *)
(* acknowledged promises the writes of the transaction, unless one of its  *)
(* statements was answered with an error: DuckDB may have rolled all of it *)
(* back, and the client had better not rely on it.                         *)
(***************************************************************************)
Conclude(x, s, ok, in) ==
  LET ends == s.effect \in {"commit", "rollback"}
      done == IF ok /\ s.effect = "commit" THEN owed[x] ELSE {} IN
  /\ issued' = issued \cup s.w
  /\ owed' = [owed EXCEPT ![x] = IF ends THEN {}
                                 ELSE IF ok /\ in THEN @ \cup s.w ELSE @]
  /\ hurt' = [hurt EXCEPT ![x] = ~ends /\ (@ \/ (in /\ ~ok))]
  /\ promised' = promised \cup (IF ok /\ ~in THEN s.w ELSE {})
                          \cup (IF hurt[x] THEN {} ELSE done)
  /\ doubtful' = doubtful \cup (IF hurt[x] /\ done # {} THEN {done} ELSE {})
  /\ retracted' = retracted \cup (IF ok THEN {} ELSE s.w)
                            \cup (IF s.effect = "rollback" \/ (ends /\ ~ok)
                                  THEN owed[x] ELSE {})

\* A read outside a transaction is due everything promised by then.
Look(c, s, r, in) ==
  read' = IF s.effect = "read" /\ r.ran
          THEN [saw |-> Visible(c), due |-> IF in THEN {} ELSE promised]
          ELSE read

-----------------------------------------------------------------------------
Init ==
  /\ free = {}
  /\ held = [x \in Clients |-> NoConn]
  /\ tx = [c \in Conns |-> "idle"]
  /\ pending = [c \in Conns |-> {}]
  /\ snap = [c \in Conns |-> {}]
  /\ committed = {}
  /\ job = [x \in Pooled |-> NoJob]
  /\ believes = [p \in PgClients |-> Outside]
  /\ told = [x \in Clients |-> "I"]
  /\ owed = [x \in Clients |-> {}]
  /\ hurt = [x \in Clients |-> FALSE]
  /\ promised = {} /\ doubtful = {} /\ retracted = {} /\ issued = {}
  /\ read = [saw |-> {}, due |-> {}]

\* pg.handleConn up to the message loop: pin a connection, and tell the client
\* that it is idle.
PgConnect(p) ==
  /\ held[p] = NoConn
  /\ \E c \in Conns : Take(p, c)
  /\ believes' = [believes EXCEPT ![p] = Outside]
  /\ told' = [told EXCEPT ![p] = "I"]
  /\ UNCHANGED <<duck, job, history, read>>

\* pg.simpleQuery, run on connection c.
PgRun(p, s, c) ==
  /\ \E r \in runOn(s.effect, tx[c]) :
       LET b == trackTx([kw |-> Keyword(s.effect)], r.ok, believes[p].in, believes[p].fail) IN
       /\ tx' = [tx EXCEPT ![c] = r.tx]
       /\ pending' = [pending EXCEPT ![c] = Pending(c, s, r)]
       /\ snap' = [snap EXCEPT ![c] = Snap(c, s, r)]
       /\ committed' = Committed(c, s, r)
       /\ believes' = [believes EXCEPT ![p] = b]
       /\ told' = [told EXCEPT ![p] = txStatus(b)]
       /\ Conclude(p, s, r.ok, told[p] # "I")
       /\ Look(c, s, r, told[p] # "I")
  /\ UNCHANGED <<pool, job>>

\* Mutant of PgStatement: Run instead of RunConn.
PgStatementPooled(p, s) == held[p] # NoConn /\ \E c \in Takeable : PgRun(p, s, c)

\* RunConn: the statements of a session run on the connection pinned to it.
PgStatement(p, s) == held[p] # NoConn /\ PgRun(p, s, held[p])

\* The deferred dbConn.Close() of pg.handleConn: the connection goes back to the
\* pool, and the client takes what it had not committed to be undone.
PgDisconnect(p) ==
  LET c == held[p] IN
  /\ c # NoConn
  /\ Abrupt \/ told[p] = "I"
  /\ Return(p, c)
  /\ tx' = [tx EXCEPT ![c] = Left(@)]
  /\ pending' = [pending EXCEPT ![c] = LeftOf(@)]
  /\ snap' = [snap EXCEPT ![c] = LeftOf(@)]
  /\ told' = [told EXCEPT ![p] = "I"]
  /\ owed' = [owed EXCEPT ![p] = {}]
  /\ hurt' = [hurt EXCEPT ![p] = FALSE]
  /\ retracted' = retracted \cup owed[p]
  /\ UNCHANGED <<committed, job, believes, promised, doubtful, issued, read>>

\* mysql.exec and clickhouse.handleQuery: Engine.Run takes a connection ...
PoolStart(x, s) ==
  /\ job[x] = NoJob
  /\ s.effect \in {"read", "write"} \/ (x \in MyClients /\ PoolTx)
  /\ \E c \in Conns : Take(x, c)
  /\ job' = [job EXCEPT ![x] = s]
  /\ issued' = issued \cup s.w
  /\ UNCHANGED <<duck, believes, told, owed, hurt, promised, doubtful, retracted, read>>

\* isSessionNoop: MySQL answers OK to a transaction statement that failed.
Accepted(x, s, r) ==
  r.ok \/ (x \in MyClients /\ s.effect \in {"begin", "commit", "rollback"})

\* Mutant of MyTold: the status is lost after any other statement.
MyToldNothing(x, s) == CASE s.effect = "begin" -> "T"
                         [] s.effect \in {"commit", "rollback"} -> "I"
                         [] OTHER -> "?"

MyTold(x, s) == CASE s.effect = "begin" -> "T"
                  [] s.effect \in {"commit", "rollback"} -> "I"
                  [] OTHER -> told[x]

\* ... runs the statement on it, gives it back and answers.
PoolFinish(x) ==
  LET c == held[x]
      s == job[x] IN
  /\ s # NoJob
  /\ \E r \in runOn(s.effect, tx[c]) :
       LET ok == Accepted(x, s, r) IN
       /\ tx' = [tx EXCEPT ![c] = Left(r.tx)]
       /\ pending' = [pending EXCEPT ![c] = LeftOf(Pending(c, s, r))]
       /\ snap' = [snap EXCEPT ![c] = LeftOf(Snap(c, s, r))]
       /\ committed' = Committed(c, s, r)
       /\ told' = [told EXCEPT ![x] = IF ok THEN MyTold(x, s) ELSE @]
       /\ Conclude(x, s, ok, told[x] # "I")
       /\ Look(c, s, r, told[x] # "I")
  /\ Return(x, c)
  /\ job' = [job EXCEPT ![x] = NoJob]
  /\ UNCHANGED believes

Next ==
  \/ \E p \in PgClients : PgConnect(p) \/ PgDisconnect(p)
  \/ \E p \in PgClients, s \in Issue : PgStatement(p, s)
  \/ \E x \in Pooled, s \in Issue : PoolStart(x, s)
  \/ \E x \in Pooled : PoolFinish(x)

Spec == Init /\ [][Next]_vars

-----------------------------------------------------------------------------
\* Every variable stays in the set of values the code can give it.
TypeOK ==
  /\ free \subseteq Conns
  /\ held \in [Clients -> Conns \cup {NoConn}]
  /\ tx \in [Conns -> TxStates]
  /\ pending \in [Conns -> SUBSET Writes]
  /\ snap \in [Conns -> SUBSET Writes]
  /\ committed \subseteq Writes
  /\ job \in [Pooled -> [effect : Statements \cup {"none"}, w : SUBSET Writes]]
  /\ believes \in [PgClients -> [in : BOOLEAN, fail : BOOLEAN]]
  /\ told \in [Clients -> Statuses]
  /\ owed \in [Clients -> SUBSET Writes]
  /\ hurt \in [Clients -> BOOLEAN]
  /\ promised \subseteq Writes /\ doubtful \subseteq SUBSET Writes
  /\ retracted \subseteq Writes /\ issued \subseteq Writes
  /\ read \in [saw : SUBSET Writes, due : SUBSET Writes]

(***************************************************************************)
(* What a client was told is committed (a write acknowledged outside a     *)
(* transaction, or acknowledged inside one where no statement was answered *)
(* with an error and whose COMMIT was acknowledged) is in the database     *)
(* every other session reads, whichever connections of the pool it went    *)
(* through.                                                                *)
(***************************************************************************)
PromisesKept == promised \subseteq committed

(***************************************************************************)
(* A COMMIT that is acknowledged after an error in its transaction is not  *)
(* rejected, whatever trackTx says of failed transactions: DuckDB decides  *)
(* whether it commits or rolls back, and the client is told COMMIT either  *)
(* way.  But it is one or the other for the whole transaction, for good.   *)
(***************************************************************************)
CommitsWhole ==
  \A ws \in doubtful : ws \subseteq committed \/ ws \cap committed = {}

\* What a client was told is undone or refused never gets into the database.
RetractedStaysOut == retracted \cap committed = {}

\* The status a Postgres client was last told is that of its connection.
StatusTruthful ==
  \A p \in PgClients : held[p] # NoConn => (told[p] = "I" <=> tx[held[p]] = "idle")

\* A read outside a transaction sees every write promised before it, over
\* whichever protocol that was.
ReadsSeePromises == read.due \subseteq read.saw
=============================================================================
