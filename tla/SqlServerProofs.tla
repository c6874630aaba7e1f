-------------------------- MODULE SqlServerProofs --------------------------
(***************************************************************************)
(* Proofs about SqlServer, for any number of sessions and connections and  *)
(* any pool limit: when only Postgres clients use transactions, and end    *)
(* them before they disconnect, what clients are told holds for all of     *)
(* them.  The runs sql_leaked_tx and sql_mysql_rollback show what happens  *)
(* without these two premises.                                             *)
(***************************************************************************)
EXTENDS SqlServer, TLAPS

\* No stub mode, no transactions on pooled connections, no disconnect in one.
Disciplined == ~Stub /\ ~PoolTx /\ ~Abrupt

-----------------------------------------------------------------------------
(* The inductive invariant. *)

\* A connection is held by one session at most, and not idle in the pool.
Exclusive ==
  \A x \in Clients : held[x] # NoConn =>
    /\ held[x] \notin free
    /\ \A y \in Clients : held[y] = held[x] => y = x

\* A transaction is open only on a connection that a Postgres session holds.
OpenIsPinned ==
  \A c \in Conns : tx[c] # "idle" => \E p \in PgClients : held[p] = c

IdleIsEmpty == \A c \in Conns : tx[c] = "idle" => pending[c] = {}

\* A Postgres session believes what is true of its connection, has told its
\* client so, and owes what is pending on it; DuckDB has not invalidated the
\* transaction unless the client was told of an error in it.
PgAgrees ==
  \A p \in PgClients :
    /\ told[p] = txStatus(believes[p])
    /\ believes[p].fail => believes[p].in
    /\ held[p] # NoConn => /\ believes[p].in <=> tx[held[p]] # "idle"
                           /\ owed[p] = pending[held[p]]
                           /\ tx[held[p]] = "aborted" => hurt[p]
    /\ held[p] = NoConn => ~believes[p].in /\ owed[p] = {}

\* A pooled session holds a connection just while its statement is in flight,
\* and its client is never in a transaction.
PoolAgrees ==
  \A x \in Pooled :
    /\ job[x] # NoJob => held[x] # NoConn
    /\ job[x].effect \in {"read", "write", "none"}
    /\ job[x].effect # "write" => job[x].w = {}
    /\ told[x] = "I"
    /\ owed[x] = {} /\ ~hurt[x]

\* A write is in one place only: in flight, pending on one connection, committed
\* or retracted.
OnePlace ==
  /\ \A c, d \in Conns : c # d => pending[c] \cap pending[d] = {}
  /\ \A x, y \in Pooled : x # y => job[x].w \cap job[y].w = {}
  /\ \A c \in Conns : pending[c] \cap (committed \cup retracted) = {}
  /\ \A x \in Pooled : job[x].w \cap (committed \cup retracted) = {}
  /\ \A x \in Pooled, c \in Conns : job[x].w \cap pending[c] = {}
  /\ committed \cap retracted = {}

AllIssued ==
  /\ committed \cup retracted \subseteq issued
  /\ \A c \in Conns : pending[c] \subseteq issued
  /\ \A x \in Pooled : job[x].w \subseteq issued

\* A transaction whose COMMIT was acknowledged after an error in it is committed,
\* or its writes are nowhere from where they could still be.
DoubtSettled ==
  \A ws \in doubtful :
    \/ ws \subseteq committed
    \/ /\ ws \subseteq issued /\ ws \cap committed = {}
       /\ \A c \in Conns : ws \cap pending[c] = {}
       /\ \A x \in Pooled : ws \cap job[x].w = {}

ServerInv ==
  /\ TypeOK /\ Exclusive /\ OpenIsPinned /\ IdleIsEmpty /\ PgAgrees /\ PoolAgrees
  /\ OnePlace /\ AllIssued /\ DoubtSettled /\ PromisesKept /\ ReadsSeePromises

-----------------------------------------------------------------------------
(* What the operators of the model return. *)

\* The answers of runOn without stub mode: what each statement needs to succeed,
\* and the transaction state it leaves.
LEMMA RunOnPlain ==
  ASSUME ~Stub, NEW e \in Statements \cup {"none"}, NEW t \in TxStates,
         NEW r \in runOn(e, t)
  PROVE  /\ r.ok \in BOOLEAN /\ r.ok = r.ran /\ r.tx \in TxStates
         /\ e = "begin" => r.tx # "idle" /\ (r.ok <=> t = "idle")
         /\ e \in {"commit", "rollback"} => r.tx = "idle"
         /\ e = "commit" /\ r.ok => t # "idle"
         /\ r.ok /\ t # "aborted" => r.tx # "aborted"
         /\ e \in {"read", "write", "none"} => (r.tx = "idle" <=> t = "idle")
<1>1. PICK o \in DuckOutcomes(e, t) :
        r = [ ok   |-> o.err = "ok" \/ Stubbed(o.err),
              buf  |-> o.err \in {"ok", "late"} \/ Stubbed(o.err),
              ran  |-> o.err = "ok",
              cols |-> o.err \in {"ok", "late"},
              tx   |-> o.tx ]
  BY DEF runOn
<1>2. r.ok = (o.err = "ok") /\ r.ran = (o.err = "ok") /\ r.tx = o.tx
  BY <1>1 DEF Stubbed
<1>3. /\ o.tx \in TxStates
      /\ e = "begin" => o.tx # "idle" /\ (o.err = "ok" <=> t = "idle")
      /\ e \in {"commit", "rollback"} => o.tx = "idle"
      /\ e = "commit" /\ o.err = "ok" => t # "idle"
      /\ o.err = "ok" /\ t # "aborted" => o.tx # "aborted"
      /\ e \in {"read", "write", "none"} => (o.tx = "idle" <=> t = "idle")
  BY DEF DuckOutcomes, Outcome, FailedIn, TxStates, Statements
<1> QED BY <1>2, <1>3

\* What a session believes after a statement, from what it believed before.
LEMMA TrackPlain ==
  ASSUME NEW e \in Statements, NEW ok \in BOOLEAN,
         NEW in \in BOOLEAN, NEW fail \in BOOLEAN, fail => in
  PROVE  LET b == trackTx([kw |-> Keyword(e)], ok, in, fail) IN
         /\ b \in [in : BOOLEAN, fail : BOOLEAN]
         /\ b.fail => b.in
         /\ e = "begin" => b.in
         /\ e \in {"commit", "rollback"} => ~b.in
         /\ e \in {"read", "write"} => b.in = in
BY DEF trackTx, firstKeyword, Keyword, Statements

LEMMA StatusPlain ==
  ASSUME NEW b \in [in : BOOLEAN, fail : BOOLEAN], b.fail => b.in
  PROVE  txStatus(b) \in Statuses /\ (txStatus(b) = "I" <=> ~b.in)
BY DEF txStatus, Statuses

\* The statements a client may issue: at most one write, never issued before.
LEMMA IssuePlain ==
  ASSUME NEW s \in Issue
  PROVE  /\ s.effect \in Statements
         /\ s.w \subseteq Writes /\ s.w \cap issued = {}
         /\ s.effect # "write" => s.w = {}
         /\ s = [effect |-> s.effect, w |-> s.w]
BY DEF Issue, Statements

\* A connection the pool gives out is held by no session and has no transaction.
LEMMA TakeableIdle ==
  ASSUME ServerInv, NEW c \in Conns, c \in Takeable
  PROVE  /\ \A x \in Clients : held[x] # c
         /\ tx[c] = "idle" /\ pending[c] = {}
<1>1. \A x \in Clients : held[x] # c
  BY SessionAssumption DEF ServerInv, Exclusive, Takeable
<1>2. tx[c] = "idle"
  BY <1>1 DEF ServerInv, OpenIsPinned, Clients
<1> QED BY <1>1, <1>2 DEF ServerInv, IdleIsEmpty

\* What a client concludes stays among the writes.
LEMMA ConcludeType ==
  ASSUME TypeOK, NEW x \in Clients, NEW s, s.w \subseteq Writes, NEW ok, NEW in,
         Conclude(x, s, ok, in)
  PROVE  /\ owed' \in [Clients -> SUBSET Writes] /\ hurt' \in [Clients -> BOOLEAN]
         /\ doubtful' \subseteq SUBSET Writes
         /\ promised' \subseteq Writes /\ retracted' \subseteq Writes /\ issued' \subseteq Writes
<1>1. owed[x] \in SUBSET Writes
  BY DEF TypeOK
<1>2. /\ promised' \subseteq Writes /\ retracted' \subseteq Writes /\ issued' \subseteq Writes
      /\ doubtful' \subseteq SUBSET Writes
  BY <1>1 DEF Conclude, TypeOK
<1>3. PICK ws \in SUBSET Writes : owed' = [owed EXCEPT ![x] = ws]
  BY <1>1 DEF Conclude
<1>4. hurt' \in [Clients -> BOOLEAN]
  <2>1. PICK h \in BOOLEAN : hurt' = [hurt EXCEPT ![x] = h]
    BY DEF Conclude
  <2> QED BY <2>1 DEF TypeOK
<1> QED BY <1>2, <1>3, <1>4 DEF TypeOK

LEMMA InitInv ==
  ASSUME Init
  PROVE  ServerInv
<1> USE DEF Init
<1>1. TypeOK
  BY DEF TypeOK, TxStates, Statuses, NoJob, Outside
<1>2. Exclusive /\ OpenIsPinned /\ IdleIsEmpty
  BY DEF Exclusive, OpenIsPinned, IdleIsEmpty
<1>3. PgAgrees
  BY DEF PgAgrees, txStatus, Outside, Clients
<1>4. PoolAgrees
  BY DEF PoolAgrees, NoJob, Clients
<1>5. OnePlace /\ AllIssued /\ DoubtSettled /\ PromisesKept /\ ReadsSeePromises
  BY DEF OnePlace, AllIssued, DoubtSettled, PromisesKept, ReadsSeePromises, NoJob
<1> QED BY <1>1, <1>2, <1>3, <1>4, <1>5 DEF ServerInv

-----------------------------------------------------------------------------
(* Every action preserves the invariant. *)

LEMMA PgConnectStep ==
  ASSUME ServerInv, NEW p \in PgClients, PgConnect(p)
  PROVE  ServerInv'
<1> USE DEF duck, history
<1>1. PICK c \in Conns : Take(p, c)
  BY DEF PgConnect
<1>2. /\ \A x \in Clients : held[x] # c
      /\ tx[c] = "idle" /\ pending[c] = {}
  BY <1>1, TakeableIdle DEF Take
<1>3. /\ p \in Clients /\ c # NoConn /\ held[p] = NoConn
      /\ held' = [held EXCEPT ![p] = c] /\ free' = free \ {c}
      /\ believes' = [believes EXCEPT ![p] = Outside]
      /\ told' = [told EXCEPT ![p] = "I"]
      /\ UNCHANGED <<tx, pending, snap, committed, job, owed, hurt, promised, doubtful, retracted,
                     issued, read>>
  BY <1>1, SessionAssumption DEF PgConnect, Take, Clients
<1>4. TypeOK'
  BY <1>3 DEF ServerInv, TypeOK, Statuses, Outside
<1>5. Exclusive'
  BY <1>2, <1>3 DEF ServerInv, TypeOK, Exclusive
<1>6. OpenIsPinned' /\ IdleIsEmpty'
  <2>1. \A q \in PgClients : held[q] # NoConn => held'[q] = held[q]
    BY <1>3 DEF ServerInv, TypeOK, Clients
  <2>2. \A d \in Conns : tx'[d] # "idle" => \E q \in PgClients : held'[q] = d
    BY <1>3, <2>1, SessionAssumption DEF ServerInv, OpenIsPinned
  <2> QED BY <1>3, <2>2 DEF ServerInv, OpenIsPinned, IdleIsEmpty
<1>7. PgAgrees'
  BY <1>2, <1>3 DEF ServerInv, TypeOK, PgAgrees, Outside, txStatus, Clients
<1>8. PoolAgrees'
  BY <1>3, SessionAssumption DEF ServerInv, TypeOK, PoolAgrees, Clients, Pooled
<1>9. OnePlace' /\ AllIssued' /\ DoubtSettled' /\ PromisesKept' /\ ReadsSeePromises'
  BY <1>3 DEF ServerInv, OnePlace, AllIssued, DoubtSettled, PromisesKept, ReadsSeePromises
<1> QED BY <1>4, <1>5, <1>6, <1>7, <1>8, <1>9 DEF ServerInv

LEMMA PgDisconnectStep ==
  ASSUME Disciplined, ServerInv, NEW p \in PgClients, PgDisconnect(p)
  PROVE  ServerInv'
<1> DEFINE c == held[p]
<1>1. /\ p \in Clients /\ c \in Conns /\ c # NoConn /\ told[p] = "I"
      /\ believes[p] \in [in : BOOLEAN, fail : BOOLEAN]
  BY DEF PgDisconnect, Disciplined, ServerInv, TypeOK, Clients
<1>2. ~believes[p].in /\ tx[c] = "idle" /\ pending[c] = {} /\ owed[p] = {}
  <2>1. ~believes[p].in
    BY <1>1, StatusPlain DEF ServerInv, PgAgrees
  <2> QED BY <1>1, <2>1 DEF ServerInv, PgAgrees, IdleIsEmpty
<1>3. /\ held' = [held EXCEPT ![p] = NoConn]
      /\ free' \subseteq free \cup {c}
      /\ tx' = tx /\ pending' = pending /\ owed' = owed /\ told' = told
      /\ retracted' = retracted
      /\ snap' \in [Conns -> SUBSET Writes]
      /\ hurt' = [hurt EXCEPT ![p] = FALSE]
      /\ UNCHANGED <<committed, job, believes, promised, doubtful, issued, read>>
  BY <1>1, <1>2 DEF PgDisconnect, Return, Left, LeftOf, ServerInv, TypeOK
<1>4. TypeOK'
  BY <1>1, <1>3 DEF ServerInv, TypeOK
<1>5. Exclusive'
  BY <1>1, <1>3 DEF ServerInv, TypeOK, Exclusive
<1>6. OpenIsPinned' /\ IdleIsEmpty'
  BY <1>1, <1>2, <1>3 DEF ServerInv, TypeOK, OpenIsPinned, IdleIsEmpty, Clients
<1>7. PgAgrees'
  BY <1>1, <1>2, <1>3 DEF ServerInv, TypeOK, PgAgrees, Clients
<1>8. PoolAgrees'
  BY <1>1, <1>3, SessionAssumption DEF ServerInv, TypeOK, PoolAgrees, Clients, Pooled
<1>9. OnePlace' /\ AllIssued' /\ DoubtSettled' /\ PromisesKept' /\ ReadsSeePromises'
  BY <1>3 DEF ServerInv, OnePlace, AllIssued, DoubtSettled, PromisesKept, ReadsSeePromises
<1> QED BY <1>4, <1>5, <1>6, <1>7, <1>8, <1>9 DEF ServerInv

LEMMA PoolStartStep ==
  ASSUME Disciplined, ServerInv, NEW x \in Pooled, NEW s \in Issue, PoolStart(x, s)
  PROVE  ServerInv'
<1> USE DEF duck
<1>1. PICK c \in Conns : Take(x, c)
  BY DEF PoolStart
<1>2. /\ \A y \in Clients : held[y] # c
      /\ tx[c] = "idle" /\ pending[c] = {}
  BY <1>1, TakeableIdle DEF Take
<1>3. /\ x \in Clients /\ x \notin PgClients /\ c # NoConn
      /\ held' = [held EXCEPT ![x] = c] /\ free' = free \ {c}
      /\ job' = [job EXCEPT ![x] = s] /\ issued' = issued \cup s.w
      /\ s.effect \in {"read", "write"} /\ job[x] = NoJob
      /\ UNCHANGED <<tx, pending, snap, committed, believes, told, owed, hurt, promised, doubtful,
                     retracted, read>>
  BY <1>1, SessionAssumption DEF PoolStart, Disciplined, Take, Clients, Pooled
<1>4. /\ s \in [effect : Statements \cup {"none"}, w : SUBSET Writes]
      /\ s.w \cap issued = {} /\ (s.effect # "write" => s.w = {})
  BY IssuePlain
<1>5. TypeOK'
  BY <1>3, <1>4 DEF ServerInv, TypeOK
<1>6. Exclusive'
  BY <1>2, <1>3 DEF ServerInv, TypeOK, Exclusive
<1>7. OpenIsPinned' /\ IdleIsEmpty' /\ PgAgrees'
  <2>1. \A p \in PgClients : held'[p] = held[p]
    BY <1>3 DEF ServerInv, TypeOK, Clients
  <2> QED BY <1>3, <2>1 DEF ServerInv, OpenIsPinned, IdleIsEmpty, PgAgrees
<1>8. PoolAgrees'
  BY <1>3, <1>4 DEF ServerInv, TypeOK, PoolAgrees, Clients
<1>9. \A y \in Pooled : job'[y] = IF y = x THEN s ELSE job[y]
  BY <1>3 DEF ServerInv, TypeOK
<1>10. OnePlace' /\ AllIssued'
  <2>1. /\ s.w \cap (committed \cup retracted) = {}
        /\ \A d \in Conns : s.w \cap pending[d] = {}
        /\ \A y \in Pooled : s.w \cap job[y].w = {} /\ job[y].w \cap s.w = {}
    BY <1>4 DEF ServerInv, AllIssued
  <2> QED BY <1>3, <1>9, <2>1 DEF ServerInv, OnePlace, AllIssued
<1>11. DoubtSettled'
  BY <1>3, <1>4, <1>9 DEF ServerInv, DoubtSettled
<1>12. PromisesKept' /\ ReadsSeePromises'
  BY <1>3 DEF ServerInv, PromisesKept, ReadsSeePromises
<1> QED BY <1>5, <1>6, <1>7, <1>8, <1>10, <1>11, <1>12 DEF ServerInv

LEMMA PoolFinishStep ==
  ASSUME Disciplined, ServerInv, NEW x \in Pooled, PoolFinish(x)
  PROVE  ServerInv'
<1> DEFINE c == held[x]
           s == job[x]
<1>1. /\ x \in Clients /\ x \notin PgClients /\ c \in Conns /\ c # NoConn
      /\ told[x] = "I" /\ owed[x] = {} /\ ~hurt[x]
  BY SessionAssumption DEF PoolFinish, ServerInv, TypeOK, PoolAgrees, Clients, Pooled
<1>2. tx[c] = "idle" /\ pending[c] = {}
  <2>1. tx[c] = "idle"
    BY <1>1 DEF ServerInv, Exclusive, OpenIsPinned, Clients
  <2> QED BY <1>1, <2>1 DEF ServerInv, IdleIsEmpty
<1>3. /\ s \in [effect : Statements \cup {"none"}, w : SUBSET Writes]
      /\ s.effect \in {"read", "write"}
      /\ s.effect # "write" => s.w = {}
  BY DEF PoolFinish, ServerInv, TypeOK, PoolAgrees, NoJob
<1>4. PICK r \in runOn(s.effect, tx[c]) :
        LET ok == Accepted(x, s, r) IN
        /\ tx' = [tx EXCEPT ![c] = Left(r.tx)]
        /\ pending' = [pending EXCEPT ![c] = LeftOf(Pending(c, s, r))]
        /\ snap' = [snap EXCEPT ![c] = LeftOf(Snap(c, s, r))]
        /\ committed' = Committed(c, s, r)
        /\ told' = [told EXCEPT ![x] = IF ok THEN MyTold(x, s) ELSE @]
        /\ Conclude(x, s, ok, told[x] # "I")
        /\ Look(c, s, r, told[x] # "I")
  BY DEF PoolFinish
<1>5. r.ok \in BOOLEAN /\ r.ran = r.ok /\ r.tx = "idle"
  BY <1>1, <1>2, <1>3, <1>4, RunOnPlain DEF Disciplined, ServerInv, TypeOK
<1>6. Accepted(x, s, r) = r.ok
  BY <1>3, <1>5 DEF Accepted
<1>7. /\ tx' = tx /\ pending' = pending /\ told' = told /\ owed' = owed
      /\ hurt' = hurt /\ doubtful' = doubtful
      /\ snap' \in [Conns -> SUBSET Writes]
  BY <1>1, <1>2, <1>3, <1>4, <1>5, <1>6
  DEF Left, LeftOf, Pending, Snap, MyTold, Conclude, ServerInv, TypeOK
<1>8. /\ committed' = IF r.ok THEN committed \cup s.w ELSE committed
      /\ promised' = IF r.ok THEN promised \cup s.w ELSE promised
      /\ retracted' = IF r.ok THEN retracted ELSE retracted \cup s.w
      /\ issued' = issued \cup s.w
      /\ read' = read \/ read' = [saw |-> committed, due |-> promised]
  BY <1>1, <1>2, <1>3, <1>4, <1>5, <1>6 DEF Committed, Conclude, Look, Visible
<1>9. /\ held' = [held EXCEPT ![x] = NoConn] /\ free' \subseteq free \cup {c}
      /\ job' = [job EXCEPT ![x] = NoJob] /\ believes' = believes
  BY DEF PoolFinish, Return
<1>10. TypeOK'
  BY <1>1, <1>3, <1>7, <1>8, <1>9 DEF ServerInv, TypeOK, NoJob
<1>11. Exclusive'
  BY <1>1, <1>9 DEF ServerInv, TypeOK, Exclusive
<1>12. OpenIsPinned' /\ IdleIsEmpty' /\ PgAgrees'
  <2>1. \A p \in PgClients : held'[p] = held[p]
    BY <1>1, <1>9 DEF ServerInv, TypeOK, Clients
  <2> QED BY <1>7, <1>9, <2>1 DEF ServerInv, OpenIsPinned, IdleIsEmpty, PgAgrees
<1>13. \A y \in Pooled : job'[y] = IF y = x THEN NoJob ELSE job[y]
  BY <1>9 DEF ServerInv, TypeOK
<1>14. PoolAgrees'
  BY <1>1, <1>7, <1>9, <1>13 DEF ServerInv, TypeOK, PoolAgrees, NoJob, Clients
<1>15. OnePlace' /\ AllIssued'
  BY <1>7, <1>8, <1>13 DEF ServerInv, OnePlace, AllIssued, NoJob
<1>16. DoubtSettled'
  BY <1>7, <1>8, <1>13 DEF ServerInv, DoubtSettled, NoJob
<1>17. PromisesKept' /\ ReadsSeePromises'
  BY <1>8 DEF ServerInv, PromisesKept, ReadsSeePromises
<1> QED BY <1>10, <1>11, <1>12, <1>14, <1>15, <1>16, <1>17 DEF ServerInv

(***************************************************************************)
(* What a statement of a Postgres session moves: a commit or rollback      *)
(* empties the transaction into committed or retracted, or, after an       *)
(* error, leaves it in doubt which; a write goes to one of three places;   *)
(* anything else moves nothing.                                            *)
(***************************************************************************)
PgMoves(p, s) ==
  LET c == held[p]
      Keep == pending' = pending /\ owed' = owed
      Empty == /\ pending' = [pending EXCEPT ![c] = {}]
               /\ owed' = [owed EXCEPT ![p] = {}]
      Add == /\ pending' = [pending EXCEPT ![c] = @ \cup s.w]
             /\ owed' = [owed EXCEPT ![p] = @ \cup s.w]
      Promise(ws) == /\ committed' = committed \cup ws
                     /\ promised' = promised \cup ws
                     /\ UNCHANGED <<retracted, doubtful>>
      Retract(ws) == /\ retracted' = retracted \cup ws
                     /\ UNCHANGED <<committed, promised, doubtful>>
      Doubt(ws) == /\ committed' \in {committed, committed \cup ws}
                   /\ doubtful' \subseteq doubtful \cup {ws}
                   /\ UNCHANGED <<promised, retracted>> IN
  /\ issued' = issued \cup s.w
  /\ \/ Empty /\ (Promise(owed[p]) \/ Retract(owed[p]) \/ Doubt(owed[p])) /\ s.w = {}
     \/ Keep /\ (Promise(s.w) \/ Retract(s.w))
     \/ Add /\ UNCHANGED <<committed, promised, retracted, doubtful>> /\ tx[c] # "idle"

LEMMA PgStatementStep ==
  ASSUME Disciplined, ServerInv, NEW p \in PgClients, NEW s \in Issue, PgStatement(p, s)
  PROVE  ServerInv'
<1> DEFINE c == held[p]
           b(r) == trackTx([kw |-> Keyword(s.effect)], r.ok, believes[p].in, believes[p].fail)
<1>1. /\ p \in Clients /\ p \notin Pooled /\ c \in Conns /\ c # NoConn /\ tx[c] \in TxStates
      /\ believes[p] \in [in : BOOLEAN, fail : BOOLEAN]
      /\ believes[p].fail => believes[p].in
      /\ believes[p].in <=> tx[c] # "idle"
      /\ owed[p] = pending[c]
      /\ tx[c] = "aborted" => hurt[p]
      /\ hurt \in [Clients -> BOOLEAN]
  BY SessionAssumption DEF PgStatement, ServerInv, TypeOK, PgAgrees, Clients, Pooled
<1>2. told[p] = "I" <=> tx[c] = "idle"
  BY <1>1, StatusPlain DEF ServerInv, PgAgrees
<1>3. /\ s.effect \in Statements /\ s.w \subseteq Writes /\ s.w \cap issued = {}
      /\ s.effect # "write" => s.w = {}
  BY IssuePlain
<1>4. PICK r \in runOn(s.effect, tx[c]) :
        /\ tx' = [tx EXCEPT ![c] = r.tx]
        /\ pending' = [pending EXCEPT ![c] = Pending(c, s, r)]
        /\ snap' = [snap EXCEPT ![c] = Snap(c, s, r)]
        /\ committed' = Committed(c, s, r)
        /\ believes' = [believes EXCEPT ![p] = b(r)]
        /\ told' = [told EXCEPT ![p] = txStatus(b(r))]
        /\ Conclude(p, s, r.ok, told[p] # "I")
        /\ Look(c, s, r, told[p] # "I")
  BY DEF PgStatement, PgRun
<1>5. UNCHANGED <<free, held, job>>
  BY DEF PgStatement, PgRun, pool
<1>6. /\ r.ok \in BOOLEAN /\ r.ok = r.ran /\ r.tx \in TxStates
      /\ s.effect = "begin" => r.tx # "idle" /\ (r.ok <=> tx[c] = "idle")
      /\ s.effect \in {"commit", "rollback"} => r.tx = "idle"
      /\ s.effect = "commit" /\ r.ok => tx[c] # "idle"
      /\ r.ok /\ tx[c] # "aborted" => r.tx # "aborted"
      /\ s.effect \in {"read", "write"} => (r.tx = "idle" <=> tx[c] = "idle")
  BY <1>1, <1>3, <1>4, RunOnPlain DEF Disciplined
<1>7. /\ b(r) \in [in : BOOLEAN, fail : BOOLEAN] /\ (b(r).fail => b(r).in)
      /\ txStatus(b(r)) \in Statuses
      /\ b(r).in <=> r.tx # "idle"
  <2>1. /\ b(r) \in [in : BOOLEAN, fail : BOOLEAN] /\ (b(r).fail => b(r).in)
        /\ s.effect = "begin" => b(r).in
        /\ s.effect \in {"commit", "rollback"} => ~b(r).in
        /\ s.effect \in {"read", "write"} => b(r).in = believes[p].in
    BY <1>1, <1>3, <1>6, TrackPlain
  <2>2. txStatus(b(r)) \in Statuses
    BY <2>1, StatusPlain
  <2> HIDE DEF b
  <2> QED BY <1>1, <1>3, <1>6, <2>1, <2>2 DEF Statements
<1> HIDE DEF b
<1>8. PgMoves(p, s)
  <2> USE DEF Pending, Committed, Conclude, PgMoves
  <2>0. pending[c] \subseteq Writes /\ (tx[c] = "idle" => pending[c] = {})
        /\ pending \in [Conns -> SUBSET Writes] /\ owed \in [Clients -> SUBSET Writes]
    BY <1>1 DEF ServerInv, TypeOK, IdleIsEmpty
  <2>1. CASE s.effect \in {"begin", "read"}
    BY <1>1, <1>3, <1>4, <1>6, <2>0, <2>1
  <2>2. CASE s.effect = "commit"
    <3>1. /\ s.w = {} /\ r.tx = "idle" /\ (r.ok => told[p] # "I")
          /\ pending' = [pending EXCEPT ![c] = {}] /\ owed' = [owed EXCEPT ![p] = {}]
          /\ issued' = issued \cup s.w
      BY <1>1, <1>2, <1>3, <1>4, <1>6, <2>2
    <3>2. CASE ~r.ok
      BY <1>1, <1>4, <1>6, <2>2, <3>1, <3>2
    <3>3. CASE r.ok /\ ~hurt[p]
      <4>1. tx[c] = "open"
        BY <1>1, <1>6, <2>2, <3>3 DEF TxStates
      <4> QED BY <1>1, <1>4, <1>6, <2>2, <3>1, <3>3, <4>1
    <3>4. CASE r.ok /\ hurt[p]
      BY <1>1, <1>4, <1>6, <2>2, <3>1, <3>4
    <3> QED BY <3>2, <3>3, <3>4
  <2>3. CASE s.effect = "rollback"
    BY <1>1, <1>2, <1>3, <1>4, <1>6, <2>0, <2>3
  <2>4. CASE s.effect = "write" /\ tx[c] = "idle"
    BY <1>1, <1>2, <1>3, <1>4, <1>6, <2>0, <2>4
  <2>5. CASE s.effect = "write" /\ tx[c] # "idle"
    BY <1>1, <1>2, <1>3, <1>4, <1>6, <2>0, <2>5
  <2> QED BY <1>3, <2>1, <2>2, <2>3, <2>4, <2>5 DEF Statements
<1>9. TypeOK'
  <2>0. /\ hurt' \in [Clients -> BOOLEAN] /\ doubtful' \subseteq SUBSET Writes
    BY <1>1, <1>3, <1>4, ConcludeType DEF ServerInv
  <2>1. /\ tx' \in [Conns -> TxStates] /\ snap' \in [Conns -> SUBSET Writes]
        /\ believes' \in [PgClients -> [in : BOOLEAN, fail : BOOLEAN]]
        /\ told' \in [Clients -> Statuses]
    BY <1>1, <1>4, <1>6, <1>7 DEF ServerInv, TypeOK, Snap
  <2>2. /\ pending' \in [Conns -> SUBSET Writes] /\ owed' \in [Clients -> SUBSET Writes]
        /\ committed' \subseteq Writes /\ promised' \subseteq Writes
        /\ retracted' \subseteq Writes /\ issued' \subseteq Writes
    BY <1>1, <1>3, <1>8 DEF PgMoves, ServerInv, TypeOK
  <2>3. read' \in [saw : SUBSET Writes, due : SUBSET Writes]
    BY <1>1, <1>4 DEF Look, Visible, ServerInv, TypeOK
  <2> QED BY <1>5, <2>0, <2>1, <2>2, <2>3 DEF ServerInv, TypeOK
<1>10. Exclusive'
  BY <1>5 DEF ServerInv, Exclusive
<1>11. OpenIsPinned'
  BY <1>1, <1>4, <1>5 DEF ServerInv, TypeOK, OpenIsPinned
<1>12. IdleIsEmpty'
  BY <1>1, <1>4 DEF ServerInv, TypeOK, IdleIsEmpty, Pending
<1>13. /\ owed'[p] = pending'[c]
       /\ \A q \in Clients : q # p => owed'[q] = owed[q]
       /\ \A d \in Conns : d # c => pending'[d] = pending[d] /\ tx'[d] = tx[d]
       /\ \A q \in Clients : q # p => hurt'[q] = hurt[q]
       /\ r.tx = "aborted" => hurt'[p]
  <2>1. /\ pending \in [Conns -> SUBSET Writes] /\ owed \in [Clients -> SUBSET Writes]
        /\ \A d \in Conns : d # c => tx'[d] = tx[d]
    BY <1>1, <1>4 DEF ServerInv, TypeOK
  <2>2. \/ pending' = pending /\ owed' = owed
        \/ \E ws : /\ pending' = [pending EXCEPT ![c] = ws]
                   /\ owed' = [owed EXCEPT ![p] = ws]
    BY <1>1, <1>8 DEF PgMoves
  <2>3. PICK h \in BOOLEAN : /\ hurt' = [hurt EXCEPT ![p] = h]
                             /\ h = (/\ s.effect \notin {"commit", "rollback"}
                                     /\ hurt[p] \/ (told[p] # "I" /\ ~r.ok))
    BY <1>1, <1>4 DEF Conclude
  <2>4. r.tx = "aborted" => h
    BY <1>1, <1>2, <1>3, <1>6, <2>3 DEF Statements, TxStates
  <2> QED BY <1>1, <2>1, <2>2, <2>3, <2>4
<1>14. PgAgrees'
  <2> SUFFICES ASSUME NEW q \in PgClients
               PROVE  /\ told'[q] = txStatus(believes'[q])
                      /\ believes'[q].fail => believes'[q].in
                      /\ held'[q] # NoConn => /\ believes'[q].in <=> tx'[held'[q]] # "idle"
                                              /\ owed'[q] = pending'[held'[q]]
                                              /\ tx'[held'[q]] = "aborted" => hurt'[q]
                      /\ held'[q] = NoConn => ~believes'[q].in /\ owed'[q] = {}
    BY DEF PgAgrees, txStatus
  <2>1. CASE q = p
    <3>1. believes'[p] = b(r) /\ told'[p] = txStatus(b(r)) /\ tx'[c] = r.tx
      BY <1>1, <1>4 DEF ServerInv, TypeOK
    <3> QED BY <1>1, <1>5, <1>7, <1>13, <2>1, <3>1
  <2>2. CASE q # p
    <3>1. /\ believes'[q] = believes[q] /\ told'[q] = told[q] /\ owed'[q] = owed[q]
          /\ held'[q] = held[q] /\ hurt'[q] = hurt[q]
      BY <1>1, <1>4, <1>5, <1>13, <2>2 DEF ServerInv, TypeOK, Clients
    <3>2. held[q] # NoConn => held[q] \in Conns /\ held[q] # c
      BY <1>1, <2>2 DEF ServerInv, TypeOK, Exclusive, Clients
    <3> QED BY <1>13, <3>1, <3>2 DEF ServerInv, PgAgrees
  <2> QED BY <2>1, <2>2
<1>15. PoolAgrees'
  BY <1>1, <1>4, <1>5, <1>13 DEF ServerInv, TypeOK, PoolAgrees, Clients
<1>16. OnePlace' /\ AllIssued'
  <2>1. /\ s.w \cap (committed \cup retracted) = {}
        /\ \A d \in Conns : s.w \cap pending[d] = {}
        /\ \A y \in Pooled : s.w \cap job[y].w = {}
    BY <1>3 DEF ServerInv, AllIssued
  <2>2. /\ pending'[c] = pending[c] \/ pending'[c] = {} \/ pending'[c] = pending[c] \cup s.w
        /\ issued' = issued \cup s.w
    BY <1>1, <1>8 DEF PgMoves, ServerInv, TypeOK
  <2>3. CASE pending'[c] = {} /\ s.w = {}
             /\ \/ committed' = committed \cup pending[c] /\ retracted' = retracted
                \/ retracted' = retracted \cup pending[c] /\ committed' = committed
                \/ retracted' = retracted /\ committed' = committed
    BY <1>1, <1>5, <1>13, <2>1, <2>2, <2>3 DEF ServerInv, OnePlace, AllIssued
  <2>4. CASE pending'[c] = pending[c]
             /\ \/ committed' = committed \cup s.w /\ retracted' = retracted
                \/ retracted' = retracted \cup s.w /\ committed' = committed
    BY <1>1, <1>5, <1>13, <2>1, <2>2, <2>4 DEF ServerInv, OnePlace, AllIssued
  <2>5. CASE pending'[c] = pending[c] \cup s.w /\ committed' = committed /\ retracted' = retracted
    BY <1>1, <1>5, <1>13, <2>1, <2>2, <2>5 DEF ServerInv, OnePlace, AllIssued
  <2> QED BY <1>1, <1>8, <2>3, <2>4, <2>5 DEF PgMoves, ServerInv, TypeOK
<1>17. DoubtSettled'
  <2>1. \A ws \in doubtful : ws \cap s.w = {} \/ ws \subseteq committed
    BY <1>3 DEF ServerInv, DoubtSettled
  <2>2. /\ pending'[c] \in {pending[c], {}, pending[c] \cup s.w}
        /\ issued' = issued \cup s.w
    BY <1>1, <1>8 DEF PgMoves, ServerInv, TypeOK
  <2>3. CASE pending'[c] = {}
             /\ \/ doubtful' = doubtful
                \/ doubtful' \subseteq doubtful \cup {pending[c]}
             /\ committed' \in {committed, committed \cup pending[c]}
    BY <1>1, <1>5, <1>13, <2>2, <2>3 DEF ServerInv, DoubtSettled, OnePlace, AllIssued
  <2>4. CASE /\ pending'[c] = pending[c] /\ doubtful' = doubtful
             /\ committed' \in {committed, committed \cup s.w}
    BY <1>1, <1>5, <1>13, <2>1, <2>2, <2>4 DEF ServerInv, DoubtSettled
  <2>5. CASE /\ pending'[c] = pending[c] \cup s.w /\ doubtful' = doubtful
             /\ committed' = committed
    BY <1>1, <1>5, <1>13, <2>1, <2>2, <2>5 DEF ServerInv, DoubtSettled
  <2> QED BY <1>1, <1>8, <2>3, <2>4, <2>5 DEF PgMoves, ServerInv, TypeOK
<1>18. PromisesKept'
  BY <1>8 DEF PgMoves, ServerInv, PromisesKept
<1>19. ReadsSeePromises'
  BY <1>2, <1>4 DEF Look, Visible, ServerInv, PromisesKept, ReadsSeePromises
<1> QED BY <1>9, <1>10, <1>11, <1>12, <1>14, <1>15, <1>16, <1>17, <1>18, <1>19 DEF ServerInv

LEMMA NextInv ==
  ASSUME Disciplined, ServerInv, [Next]_vars
  PROVE  ServerInv'
<1>1. CASE UNCHANGED vars
  BY <1>1 DEF vars, pool, duck, history, ServerInv, TypeOK, Exclusive, OpenIsPinned, IdleIsEmpty,
              PgAgrees, PoolAgrees, OnePlace, AllIssued, DoubtSettled, PromisesKept,
              ReadsSeePromises
<1>2. CASE Next
  BY <1>2, PgConnectStep, PgDisconnectStep, PgStatementStep, PoolStartStep, PoolFinishStep DEF Next
<1> QED BY <1>1, <1>2

-----------------------------------------------------------------------------
\* ServerInv holds of every reachable state.
LEMMA Invariance ==
  ASSUME Disciplined
  PROVE  Spec => []ServerInv
<1>1. Init => ServerInv
  BY InitInv
<1>2. ServerInv /\ [Next]_vars => ServerInv'
  BY NextInv
<1> QED BY <1>1, <1>2, PTL DEF Spec

(***************************************************************************)
(* What a client is told is committed is in the database, over all three   *)
(* protocols: the writes of pooled statements, which Engine.Run runs on    *)
(* any connection of the pool, never end up in someone's transaction.      *)
(***************************************************************************)
THEOREM PromisesAreKept ==
  ASSUME Disciplined
  PROVE  Spec => []PromisesKept
<1>1. ServerInv => PromisesKept
  BY DEF ServerInv
<1> QED BY <1>1, Invariance, PTL

(***************************************************************************)
(* A COMMIT acknowledged after an error in its transaction has committed   *)
(* every write that was acknowledged in it, or none, and none will be:     *)
(* DuckDB may take it for a ROLLBACK, but all statements of the            *)
(* transaction ran on the one connection that handleConn pinned.           *)
(***************************************************************************)
THEOREM CommitsAreWhole ==
  ASSUME Disciplined
  PROVE  Spec => []CommitsWhole
<1>1. ServerInv => CommitsWhole
  BY DEF ServerInv, DoubtSettled, CommitsWhole
<1> QED BY <1>1, Invariance, PTL

(***************************************************************************)
(* A write whose statement failed, or whose transaction was rolled back or *)
(* failed to commit, is never committed, by this or any other session.     *)
(***************************************************************************)
THEOREM RetractedIsOut ==
  ASSUME Disciplined
  PROVE  Spec => []RetractedStaysOut
<1>1. ServerInv => RetractedStaysOut
  BY DEF ServerInv, OnePlace, RetractedStaysOut
<1> QED BY <1>1, Invariance, PTL

(***************************************************************************)
(* A Postgres client is told "I" just when no transaction is open on the   *)
(* connection handleConn pinned for it, whatever the other sessions do.    *)
(***************************************************************************)
THEOREM StatusIsTrue ==
  ASSUME Disciplined
  PROVE  Spec => []StatusTruthful
<1>1. ServerInv => StatusTruthful
  BY StatusPlain DEF ServerInv, TypeOK, PgAgrees, StatusTruthful
<1> QED BY <1>1, Invariance, PTL

(***************************************************************************)
(* A read outside a transaction sees every write any client was promised   *)
(* before it, whichever pooled or pinned connection it runs on.            *)
(***************************************************************************)
THEOREM ReadsSeeAll ==
  ASSUME Disciplined
  PROVE  Spec => []ReadsSeePromises
<1>1. ServerInv => ReadsSeePromises
  BY DEF ServerInv
<1> QED BY <1>1, Invariance, PTL

-----------------------------------------------------------------------------
(***************************************************************************)
(* What holds whatever the clients do and in stub mode too: the types, and *)
(* that a connection belongs to one session at a time.  The types need the *)
(* latter's companion, that a session with a statement in flight holds a   *)
(* connection (JobHolds).                                                  *)
(***************************************************************************)
JobHolds == \A x \in Pooled : job[x] # NoJob => held[x] # NoConn
PoolInv == TypeOK /\ Exclusive /\ JobHolds

\* The answers of runOn, in stub mode too.
LEMMA RunOnAny ==
  ASSUME NEW e \in Statements \cup {"none"}, NEW t \in TxStates, NEW r \in runOn(e, t)
  PROVE  r.ok \in BOOLEAN /\ r.ran \in BOOLEAN /\ r.tx \in TxStates
<1>1. PICK o \in DuckOutcomes(e, t) :
        /\ r.ok = (o.err = "ok" \/ Stubbed(o.err))
        /\ r.ran = (o.err = "ok")
        /\ r.tx = o.tx
  BY DEF runOn
<1>2. o.tx \in TxStates
  BY DEF DuckOutcomes, Outcome, FailedIn, TxStates, Statements
<1> QED BY <1>1, <1>2, StubAssumption DEF Stubbed

LEMMA TrackAny ==
  ASSUME NEW q, NEW ok \in BOOLEAN, NEW in \in BOOLEAN, NEW fail \in BOOLEAN
  PROVE  /\ trackTx(q, ok, in, fail) \in [in : BOOLEAN, fail : BOOLEAN]
         /\ txStatus(trackTx(q, ok, in, fail)) \in Statuses
BY DEF trackTx, txStatus, Statuses

\* What a statement writes stays among the writes.
LEMMA DataType ==
  ASSUME TypeOK, NEW c \in Conns, NEW s, s.w \subseteq Writes, NEW r
  PROVE  /\ Pending(c, s, r) \in SUBSET Writes
         /\ Snap(c, s, r) \in SUBSET Writes
         /\ Committed(c, s, r) \subseteq Writes
         /\ LeftOf(Pending(c, s, r)) \in SUBSET Writes
         /\ LeftOf(Snap(c, s, r)) \in SUBSET Writes
<1>1. pending[c] \in SUBSET Writes /\ snap[c] \in SUBSET Writes /\ committed \in SUBSET Writes
  BY DEF TypeOK
<1>2. /\ Pending(c, s, r) \in SUBSET Writes
      /\ Snap(c, s, r) \in SUBSET Writes
      /\ Committed(c, s, r) \subseteq Writes
  BY <1>1 DEF Pending, Snap, Committed
<1> QED BY <1>2 DEF LeftOf

LEMMA LookType ==
  ASSUME TypeOK, NEW c \in Conns, NEW s, NEW r, NEW in, Look(c, s, r, in)
  PROVE  read' \in [saw : SUBSET Writes, due : SUBSET Writes]
<1>1. Visible(c) \in SUBSET Writes /\ promised \in SUBSET Writes
  BY DEF Visible, TypeOK
<1> HIDE DEF Visible
<1> QED BY <1>1 DEF Look, TypeOK

LEMMA ReturnPool ==
  ASSUME PoolInv, NEW x \in Clients, held[x] # NoConn, Return(x, held[x])
  PROVE  /\ free' \subseteq Conns /\ held' \in [Clients -> Conns \cup {NoConn}]
         /\ Exclusive'
BY SessionAssumption DEF PoolInv, TypeOK, Exclusive, Return

LEMMA TakePool ==
  ASSUME PoolInv, NEW x \in Clients, NEW c \in Conns, Take(x, c)
  PROVE  /\ free' \subseteq Conns /\ held' \in [Clients -> Conns \cup {NoConn}]
         /\ Exclusive' /\ held'[x] # NoConn
<1>1. \A y \in Clients : held[y] # c
  BY SessionAssumption DEF PoolInv, TypeOK, Exclusive, Take, Takeable
<1> QED BY <1>1, SessionAssumption DEF PoolInv, TypeOK, Exclusive, Take

LEMMA PoolStep ==
  ASSUME PoolInv, [Next]_vars
  PROVE  PoolInv'
<1> USE DEF duck, history, pool
<1>b. TypeOK /\ PgClients \subseteq Clients /\ Pooled \subseteq Clients
  BY DEF PoolInv, Clients
<1>1. ASSUME NEW p \in PgClients, PgConnect(p) PROVE PoolInv'
  <2>1. PICK c \in Conns : Take(p, c)
    BY <1>1 DEF PgConnect
  <2>2. /\ free' \subseteq Conns /\ held' \in [Clients -> Conns \cup {NoConn}]
        /\ Exclusive'
    BY <1>b, <2>1, TakePool
  <2>3. \A x \in Pooled : held'[x] = held[x]
    BY <1>b, <2>1, SessionAssumption DEF Take, TypeOK, Pooled
  <2>4. TypeOK'
    BY <1>1, <1>b, <2>2 DEF PgConnect, TypeOK, Outside, Statuses
  <2> QED BY <1>1, <2>2, <2>3, <2>4 DEF PgConnect, PoolInv, JobHolds
<1>2. ASSUME NEW p \in PgClients, PgDisconnect(p) PROVE PoolInv'
  <2>1. /\ held[p] # NoConn /\ held[p] \in Conns
        /\ Return(p, held[p])
        /\ tx' = [tx EXCEPT ![held[p]] = Left(@)]
        /\ pending' = [pending EXCEPT ![held[p]] = LeftOf(@)]
        /\ snap' = [snap EXCEPT ![held[p]] = LeftOf(@)]
        /\ told' = [told EXCEPT ![p] = "I"]
        /\ owed' = [owed EXCEPT ![p] = {}]
        /\ hurt' = [hurt EXCEPT ![p] = FALSE]
        /\ retracted' = retracted \cup owed[p]
        /\ UNCHANGED <<committed, job, believes, promised, doubtful, issued, read>>
    BY <1>2, <1>b DEF PgDisconnect, TypeOK
  <2>2. /\ free' \subseteq Conns /\ held' \in [Clients -> Conns \cup {NoConn}]
        /\ Exclusive'
    BY <1>b, <2>1, ReturnPool
  <2>3. \A x \in Pooled : held'[x] = held[x]
    BY <1>b, <2>1, SessionAssumption DEF Return, TypeOK, Pooled
  <2>4. TypeOK'
    BY <1>b, <2>1, <2>2 DEF TypeOK, Left, LeftOf, TxStates, Statuses
  <2> QED BY <2>1, <2>2, <2>3, <2>4 DEF PoolInv, JobHolds
<1>3. ASSUME NEW p \in PgClients, NEW s \in Issue, PgStatement(p, s) PROVE PoolInv'
  <2> DEFINE c == held[p]
  <2>1. c \in Conns /\ p \in Clients
    BY <1>3, <1>b DEF PgStatement, TypeOK
  <2>2. s.effect \in Statements /\ s.w \subseteq Writes
    BY IssuePlain
  <2>3. PICK r \in runOn(s.effect, tx[c]) :
          LET b == trackTx([kw |-> Keyword(s.effect)], r.ok, believes[p].in, believes[p].fail) IN
          /\ tx' = [tx EXCEPT ![c] = r.tx]
          /\ pending' = [pending EXCEPT ![c] = Pending(c, s, r)]
          /\ snap' = [snap EXCEPT ![c] = Snap(c, s, r)]
          /\ committed' = Committed(c, s, r)
          /\ believes' = [believes EXCEPT ![p] = b]
          /\ told' = [told EXCEPT ![p] = txStatus(b)]
          /\ Conclude(p, s, r.ok, told[p] # "I")
          /\ Look(c, s, r, told[p] # "I")
    BY <1>3 DEF PgStatement, PgRun
  <2>4. UNCHANGED <<free, held, job>>
    BY <1>3 DEF PgStatement, PgRun
  <2> HIDE DEF c
  <2>5. r.ok \in BOOLEAN /\ r.tx \in TxStates
    BY <1>b, <2>1, <2>2, <2>3, RunOnAny DEF TypeOK
  <2> DEFINE b == trackTx([kw |-> Keyword(s.effect)], r.ok, believes[p].in, believes[p].fail)
  <2>6. b \in [in : BOOLEAN, fail : BOOLEAN] /\ txStatus(b) \in Statuses
    BY <1>b, <2>5, TrackAny DEF TypeOK
  <2>7. /\ believes' = [believes EXCEPT ![p] = b] /\ told' = [told EXCEPT ![p] = txStatus(b)]
        /\ tx' = [tx EXCEPT ![c] = r.tx]
    BY <2>3
  <2> HIDE DEF b
  <2>8. /\ owed' \in [Clients -> SUBSET Writes] /\ hurt' \in [Clients -> BOOLEAN]
        /\ doubtful' \subseteq SUBSET Writes
        /\ promised' \subseteq Writes /\ retracted' \subseteq Writes /\ issued' \subseteq Writes
    BY <1>b, <2>1, <2>2, <2>3, ConcludeType
  <2>9. read' \in [saw : SUBSET Writes, due : SUBSET Writes]
    BY <1>b, <2>1, <2>3, LookType
  <2>10. /\ pending' \in [Conns -> SUBSET Writes] /\ snap' \in [Conns -> SUBSET Writes]
         /\ committed' \subseteq Writes
    BY <1>b, <2>1, <2>2, <2>3, DataType DEF TypeOK
  <2>11. /\ tx' \in [Conns -> TxStates]
         /\ believes' \in [PgClients -> [in : BOOLEAN, fail : BOOLEAN]]
         /\ told' \in [Clients -> Statuses]
    BY <1>b, <2>5, <2>6, <2>7 DEF TypeOK
  <2>12. TypeOK'
    BY <1>b, <2>4, <2>8, <2>9, <2>10, <2>11 DEF TypeOK
  <2> QED BY <2>4, <2>12 DEF PoolInv, Exclusive, JobHolds
<1>4. ASSUME NEW x \in Pooled, NEW s \in Issue, PoolStart(x, s) PROVE PoolInv'
  <2>1. PICK c \in Conns : Take(x, c)
    BY <1>4 DEF PoolStart
  <2>2. /\ free' \subseteq Conns /\ held' \in [Clients -> Conns \cup {NoConn}]
        /\ Exclusive' /\ held'[x] # NoConn
    BY <1>b, <2>1, TakePool
  <2>3. \A y \in Pooled : y # x => held'[y] = held[y]
    BY <1>b, <2>1 DEF Take, TypeOK
  <2>4. s \in [effect : Statements \cup {"none"}, w : SUBSET Writes]
    <3>1. /\ s.effect \in Statements /\ s.w \in SUBSET Writes
          /\ s = [effect |-> s.effect, w |-> s.w]
      BY IssuePlain
    <3> QED BY <3>1
  <2>5. TypeOK'
    BY <1>4, <1>b, <2>2, <2>4 DEF PoolStart, TypeOK
  <2>6. JobHolds'
    BY <1>4, <1>b, <2>2, <2>3 DEF PoolStart, PoolInv, JobHolds, TypeOK
  <2> QED BY <2>2, <2>5, <2>6 DEF PoolInv
<1>5. ASSUME NEW x \in Pooled, PoolFinish(x) PROVE PoolInv'
  <2> DEFINE c == held[x]
             s == job[x]
  <2>1. c \in Conns /\ c # NoConn /\ x \in Clients
    BY <1>5, <1>b DEF PoolFinish, TypeOK, PoolInv, JobHolds
  <2>2. s.effect \in Statements \cup {"none"} /\ s.w \subseteq Writes
    BY <1>b DEF TypeOK
  <2>3. PICK r \in runOn(s.effect, tx[c]) :
          /\ tx' = [tx EXCEPT ![c] = Left(r.tx)]
          /\ pending' = [pending EXCEPT ![c] = LeftOf(Pending(c, s, r))]
          /\ snap' = [snap EXCEPT ![c] = LeftOf(Snap(c, s, r))]
          /\ committed' = Committed(c, s, r)
          /\ told' = [told EXCEPT ![x] = IF Accepted(x, s, r) THEN MyTold(x, s) ELSE @]
          /\ Conclude(x, s, Accepted(x, s, r), told[x] # "I")
          /\ Look(c, s, r, told[x] # "I")
    BY <1>5 DEF PoolFinish
  <2>4. Return(x, c) /\ job' = [job EXCEPT ![x] = NoJob] /\ believes' = believes
    BY <1>5 DEF PoolFinish
  <2>5. /\ free' \subseteq Conns /\ held' \in [Clients -> Conns \cup {NoConn}]
        /\ Exclusive'
    BY <2>1, <2>4, ReturnPool
  <2>6. \A y \in Pooled : y # x => held'[y] = held[y]
    BY <1>b, <2>4 DEF Return, TypeOK
  <2> HIDE DEF c, s
  <2>7. Left(r.tx) \in TxStates
    BY <1>b, <2>1, <2>2, <2>3, RunOnAny DEF TypeOK, Left, TxStates
  <2>8. (IF Accepted(x, s, r) THEN MyTold(x, s) ELSE told[x]) \in Statuses
    BY <1>b, <2>1 DEF MyTold, TypeOK, Statuses
  <2>9. /\ owed' \in [Clients -> SUBSET Writes] /\ hurt' \in [Clients -> BOOLEAN]
        /\ doubtful' \subseteq SUBSET Writes
        /\ promised' \subseteq Writes /\ retracted' \subseteq Writes /\ issued' \subseteq Writes
    BY <1>b, <2>1, <2>2, <2>3, ConcludeType
  <2>10. read' \in [saw : SUBSET Writes, due : SUBSET Writes]
    BY <1>b, <2>1, <2>3, LookType
  <2>11. /\ pending' \in [Conns -> SUBSET Writes] /\ snap' \in [Conns -> SUBSET Writes]
         /\ committed' \subseteq Writes
    BY <1>b, <2>1, <2>2, <2>3, DataType DEF TypeOK
  <2>12. NoJob \in [effect : Statements \cup {"none"}, w : SUBSET Writes]
    BY DEF NoJob
  <2>13. /\ tx' \in [Conns -> TxStates] /\ told' \in [Clients -> Statuses]
         /\ job' \in [Pooled -> [effect : Statements \cup {"none"}, w : SUBSET Writes]]
    BY <1>b, <2>3, <2>4, <2>7, <2>8, <2>12 DEF TypeOK
  <2>14. TypeOK'
    BY <1>b, <2>4, <2>5, <2>9, <2>10, <2>11, <2>13 DEF TypeOK
  <2>15. JobHolds'
    BY <1>b, <2>4, <2>6 DEF PoolInv, JobHolds, TypeOK
  <2> QED BY <2>5, <2>14, <2>15 DEF PoolInv
<1>6. CASE UNCHANGED vars
  BY <1>6 DEF vars, PoolInv, TypeOK, Exclusive, JobHolds
<1> QED BY <1>1, <1>2, <1>3, <1>4, <1>5, <1>6 DEF Next

LEMMA PoolInit ==
  ASSUME Init
  PROVE  PoolInv
<1>1. TypeOK /\ Exclusive
  BY InitInv DEF ServerInv
<1> QED BY <1>1 DEF Init, PoolInv, JobHolds

(***************************************************************************)
(* Every variable of the server keeps its type, for clients of any kind    *)
(* and in stub mode too.                                                   *)
(***************************************************************************)
THEOREM ServerTypeCorrect == Spec => []TypeOK
<1>1. Init => PoolInv
  BY PoolInit
<1>2. PoolInv /\ [Next]_vars => PoolInv'
  BY PoolStep
<1> QED BY <1>1, <1>2, PTL DEF Spec, PoolInv

(***************************************************************************)
(* No connection is ever held by two sessions, or held and idle in the     *)
(* pool: also when clients leave inside transactions and MySQL clients     *)
(* open them.  What such clients see of each other's transactions, they    *)
(* see one after the other.                                                *)
(***************************************************************************)
THEOREM ConnectionsExclusive == Spec => []Exclusive
<1>1. Init => PoolInv
  BY PoolInit
<1>2. PoolInv /\ [Next]_vars => PoolInv'
  BY PoolStep
<1> QED BY <1>1, <1>2, PTL DEF Spec, PoolInv
=============================================================================
