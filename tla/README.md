# A TLA+ model of spoofdb

spoofdb answers Postgres, MySQL, ClickHouse and Redis clients from one process:
the SQL protocols are translators in front of an embedded DuckDB, Redis is an
embedded miniredis. The modules here model the parts of it that carry state, the
TLC configurations check them on small instances, and the theorems of the modules
whose names end in `Proofs` hold for every instance. Source paths are relative to the
repository; `PROJECT.json` maps each definition to the lines it models.

## The system

| Part | State | Operations | Works with |
|---|---|---|---|
| Postgres session (`internal/pg/handler.go`) | prepared statements, portals, `failed`, `inTx`, `txFail`, the memo of the last result | one handler per frontend message | a DuckDB connection pinned to it |
| Statement execution (`internal/engine/duckdb.go`, `runOn`) | none | classifies DuckDB's errors, serves some of them as empty in stub mode | every session |
| Engine connections (`Engine.Conn`, `Run`, `RunConn`) | a `database/sql` pool; each connection may have a transaction open | pin, borrow, give back | all sessions of an engine |
| MySQL session (`internal/mysql`) | warnings of the last statement | query, prepare, execute, SHOW WARNINGS | borrows a connection per statement |
| ClickHouse session (`internal/clickhouse`) | protocol revision | handshake, query, ping | borrows a connection per statement |
| One-time logging (`logOnce`) | a map of keys, without a lock | check, set, log | called by every session that meets a missing relation or a dialect gap |
| Process (`cmd/spoofdb/main.go`, `internal/config`) | engines by source-set, bound instances, the `-data` file | load, bind, serve, stop, restart | engines, listeners |
| Loaders (`register`, `attachSnapshot`, `clickhousePull`) | `Engine.seen`, the catalog | a view per file, a table per snapshot | DuckDB, clients of instances already served |
| Redis instances (`internal/redis`) | keyspace | start, replay the dump | their own clients |
| Fidelity reports and encoders | none | type and value conversions | the three SQL sessions |

What is hard in it:

- the Postgres session *infers* the transaction state from keywords and errors
  and reports it to clients, and it answers some messages from a memo;
- pinned and pooled sessions share connections, and a connection keeps its
  transaction when it is given back;
- instances are served while the engines of later instances still load, with
  `-persist` into the same database file;
- the process may fail or be stopped anywhere and starts again over that file;
- the sessions' goroutines share one unlocked map;
- Redis instances accept clients before their dumps are replayed;
- three encoders and three reports are written apart and have to agree on what is
  lost;
- prepared texts are read by a scanner for placeholders, one for back quotes and
  DuckDB's own lexer, which have to agree on where literals are;
- ClickHouse packets have no length, so both ends have to agree on every field.

## Modules

`Engine` - DuckDB as the callers see it. A statement is its *effect* (read,
write, begin, commit, rollback, a whole script, a text the parser refuses,
nothing), a connection its transaction state (`idle`, `open`, `aborted`).
`DuckOutcomes` is external: every outcome the callers must be ready for,
including errors that keep the transaction, errors that abort it, and a COMMIT of an
aborted transaction that is taken for a ROLLBACK and answered without an error. `runOn` is
the code: which errors stub mode swallows, and which answers carry a result.

`PgTx` - `firstKeyword`, `returnsRows`, `trackTx`, `txStatus`.

`PgSession` - one Postgres session on its connection, one action per frontend
message. A SQL text is a record of what the handler can tell about it (first
keyword, whether it has placeholders) and, separately, what DuckDB does with it;
the two may disagree. Inlining parameters (`substituteParams`) yields a text that
depends on the values exactly when there are placeholders, which is all the memo
compares. `phase`, `stmts`, `portals`, `failed`, `inTx`, `txFail` and `memo` are
the session's fields; `conn` is DuckDB's state; `batch` and `last` are history:
what the client has sent since Sync, and the last message with its answer. The
constant `Client` says which liberties of the protocol the client takes:
`pipelining` (another Execute before Sync), `mixing` (a simple query inside a
batch), `nesting` (BEGIN inside a transaction).

`PgContract` - what the session promises a client that knows nothing of memo,
portals or DuckDB: it is busy with a transaction or not, it skips a batch or not,
and every message is answered with what that allows. `PgSession` implements it
(`ImplementsContract`, with `busy` mapped to DuckDB's own state of the connection,
`skipping` to `failed`, and the answer to the one recorded in `last`).

`SqlServer` - Postgres sessions that pin a connection and MySQL and ClickHouse
sessions that borrow one per statement, over one pool. The pool (`Take`,
`Return`: any idle connection is reused as it is, a new one is opened only when
none is idle, at most `MaxIdle` stay idle) and DuckDB's snapshots are external.
A write is a value issued once. History variables record what each client may
conclude from its answers: `owed` (acknowledged in its transaction), `promised`
(acknowledged for good), `doubtful` (acknowledged in a transaction that was `hurt`: one of
its statements was answered with an error, but its COMMIT was acknowledged) and
`retracted` (refused or rolled back). A pooled
statement takes two steps, so statements of different sessions overlap.
`PoolTx` lets MySQL clients use transactions, `Abrupt` lets Postgres clients
disconnect inside one.

`Cli` - `configFromFlags` and its helpers, as operators: the flags are split
(`stringSlice`), specs parsed, sources and shards numbered, named and put in the
order of the names as strings, dumps paired with Redis targets. A loop that picks or
sorts is said by positions (`ItemsAt`, `Ordered`): the n-th item is the one with n
items up to it.

`Redis` - `redis.Start` over the instances in any order (a Go map), and the replay
of a dump, one step per object: which objects are passed over, what a write does
to what is there, when a TTL is set and when an object is counted. Clients write
from `StartAddr` on. miniredis is external (`Refused`, `Put`).

`Startup` - the life of the process: the configuration from the flags (`Cli`) or
the file, Redis (`Redis`), then each instance in turn (select
its sources, reuse or load the engine, bind, serve), running, stop, start again.
An engine's sources are loaded in the order of their names: `left` are those it is not
done with, `todo` the tables of the first of them that are still to be gone through.
Loading takes a step per table, a ClickHouse copy two (created, filled). A source's
list of tables filters what a database has, and is taken as it is for ClickHouse. Any
loader, port or dump may fail, a stop may come anywhere, and clients of bound
instances create, fill and drop tables at any time, as Redis clients do with keys. A port
is taken by whoever binds it first. A listener whose Accept fails ends alone (`AcceptFails`;
it is then `deaf`), and `-reset` may fail on either of its files (`ResetFails`). An engine
goes by the names its sources are listed under, repetitions included (`again`). `made` is
history: what clients created and filled, and which tables they dropped since the engine
that serves them loaded. The variable `setup` is the command line and
the file, one of the constant `Setups`. DuckDB's rule that a
view does not replace a table, nor a table a view, decides `Conflict`.

`LogOnce` - goroutines in `logOnce`; each access to the map has a start and an end
(`lookup`, `store`), between the two the goroutine accesses nothing (`gap`), and an
access that overlaps a write is a data race: the runtime may stop the process
(`Fatal`), a read may miss the key, a write may be lost. `late` is history: the calls
that began after their key had been logged.

`Fidelity` - values, what each encoder makes of them (`encodeValue`, `coerce`,
`ChValue`), what each report says (`Warnings`), and columns as they come out of a
ClickHouse source (`chToDuckType`). A value is a number and whether there is more to
it (a fraction, digits a double does not hold). Widths are scaled: `Half[w]` stands
for 2^(w-1), any growing sequence will do. Conversions wrap and parsing saturates
as in Go. A DateTime64 may have digits beyond the microseconds of a TIMESTAMP, which are
dropped when it is copied (`inserted`); go-mysql drops the fraction of a time (`coerce`).
Both are external.

`Params` - the scanners of prepared texts, over classes of characters, and what the
client meant by the text: DuckDB's lexer of literals and line comments (`Lexed`,
external) and the n-th value for the n-th placeholder outside them (`Meant`). The
scanners know no comments. `PlainComments` and `PlainText` say which texts they read as
DuckDB does. A loop over a text is a recursive
function, the scanner's state after so many characters. The constant `Bound` holds
the values clients bind.

`MysqlSession` - the handlers of a MySQL session and its `warnings`. `exec` is the same for
queries and for prepared statements, whatever kind of text they hold.

`ChSession` - both ends of a ClickHouse connection, packet by packet. The fields of
a packet that depend on the revision are the revisions that brought them, and a
reader that expects others has misread it. The client keeps to the protocol and
is external; it pipelines, pings, cancels, sends stray blocks and leaves at will.

`Replies` - composes these: a session of one protocol with one kind of work
(results, prepared texts or packets), chosen at the start. The kinds do not share
state, so their state spaces add up instead of multiplying.

`MCPgSession`, `MCSqlServer`, `MCStartup`, `MCLogOnce`, `MCReplies` hold the constants of the
runs. `PgSessionProofs` (with the refinement of `PgContract`), `SqlServerProofs`,
`LogOnceProofs`, `StartupProofs` (with `Cli`), `RedisProofs` and `ParamsProofs` hold the
theorems about the modules they are named after. `ChSessionProofs` has the one about
`ChSession` and `RepliesProofs` those about `Fidelity`, `MysqlSession` and the texts, all
as parts of `Replies`.

## Runs

Passing:

| Run | Question | Bounds and why they suffice |
|---|---|---|
| `pg_session` | Does a well-behaved client get truthful status bytes (`TruthfulStatus`), acknowledgements of exactly what ran (`AckedIffRun`), a skipped batch after an error (`ErrorSkipsExtended`) and one run per Describe/Execute pair (`OneRunPerPair`)? Does the session implement its contract (`ImplementsContract`)? | One statement name, two portals (so that the memo can be hit by another portal), five texts, two parameter lists; message sequences are unbounded. |
| `pg_liberties` | Which of these survive a client that takes every liberty, with misleading texts and stub mode? (`ErrorSkipsExtended`, `OneRunPerPair`) | One portal, seven texts, of each kind one. |
| `sql_server` | Do promises hold across protocols when transactions stay on Postgres and end before a disconnect? A COMMIT acknowledged promises the writes of a transaction in which no statement was answered with an error; after an error it has committed all of them or none (`CommitsWhole`). (`PromisesKept`, `RetractedStaysOut`, `StatusTruthful`, `ReadsSeePromises`) | Two Postgres sessions, one of each other kind, a connection for each, two idle at most (the default), two writes: enough for a write to be pending in one transaction while another is committed elsewhere. Sessions, connections and writes are symmetric. |
| `startup` | Do served instances always serve their own complete data (`ServesItsSources`), do clients' tables and rows survive (`RuntimeSurvives`), do Redis keys no client wrote hold what the dump says (`SeededUnlessTouched`), are flags honoured (`FlagsHonoured`), is a start all or nothing (`AllStartOrNone`), does every start come to an end (`StartsDecide`)? | Setups for each concern (in memory, on a file, clashing names, names of a source's tables that clients drop and create themselves before a restart, a list with a table that is not there, a source listed twice, Redis with every kind of object, one port for two, an unreadable file, flags of every kind, eleven sources, refused flags), up to three starts: a crash, a start over what it left, and one more over what that made of it. |
| `log_once` | As long as no access overlaps a write, is a call silent that begins after its key was logged, and does no session log a key twice (`RepeatsAreSilent`)? Is everything logged in the end (`EverythingLogged`)? | Two goroutines, two keys, three calls each, so that a key comes up again. |
| `replies` | Is no approximation silent (`LossReported`)? Is SHOW WARNINGS about the last statement (`ShowsLastWarnings`)? Do bound values land where they were meant (`ArgsInPlace`)? Do both ends of a ClickHouse connection stay in step (`InStep`), and is every request answered (`Answered`)? | Widths of 1 to 5 bits, so that every value of every type is tried, alone and in results with two rows and two columns, of one name too; times are whole seconds within the span of a Duration. All Postgres texts of up to five characters of seven classes, all MySQL texts of up to four of eight and of five without double quotes, backslashes and comments: a literal with a doubled quote and a placeholder on either side, a comment with one before and one after it. A revision below, at and above every feature; three packets after the handshake, so that a query, a ping and a third meet in the pipeline. |

Deadlock checking is off where the modelled thing may end: a session closes, a
ClickHouse client has sent `MaxRequests` packets and left, the process uses up `MaxStarts`, goroutines use up `Calls`.

Violations, each with a finding in `PROJECT.json`:

| Run | What TLC shows |
|---|---|
| `pg_pipelined_write` | Parse, Bind, Execute, Execute of one INSERT: the second Execute is answered from the memo; the client is told that two rows were inserted and one was. |
| `sql_leaked_tx` | A Postgres client leaves inside a transaction; the connection goes back to the pool with it, a MySQL client's write lands in it, is acknowledged, and nobody else sees it. |
| `sql_mysql_rollback` | A MySQL client's BEGIN, INSERT and ROLLBACK run on different connections; the ROLLBACK is answered OK and the row stays. |
| `startup_shards` | With `-persist` (the default) two shards with a source each and a common table name: the first serves the second's rows. |
| `replies_silent_loss` | A DATE in binary format further than 292 years from 2000 reaches a Postgres client as another one, unreported. (So does such a TIMESTAMP.) |
| `log_crash` | Two sessions meet a missing relation at the same time and the process is stopped. |

Fairness is assumed in three places. `Startup`: main takes its next step whenever it has one
(it waits for nothing between its start and the signal; its calls return or
fail). `LogOnce`: a goroutine that can run is scheduled. `Replies`: a ClickHouse session's
goroutine is scheduled, and its client reads what it is sent and ends a query it
has begun, without which the server rightly waits in `drainClientData`. Nothing
else is assumed about clients, and nothing about failures or signals.

## Proofs

`PgSessionProofs` proves, for every set of texts, names and parameter lists, for
both stub modes and for clients of any kind unless stated:

- `TypeCorrect`: `Spec => []TypeOK`.
- `StatusIsTruthful`: `TruthfulStatus`, if keywords say what texts do
  (`PlainQueries`) and the client does not mix sub-protocols. `TruthfulStatus`
  speaks of the last message only. The inductive `StatusInv` adds: `inTx` agrees
  with DuckDB (`Agree`), a transaction is marked failed only while one is open
  (`FailInTx`), nothing happens before startup is over (`StartIdle`), the memo is
  empty between batches (`CleanMemo`), and a memoised BEGIN or COMMIT was the last
  thing that changed the transaction (`MemoAgree`) - without which a memo hit
  would move `inTx` and not DuckDB.
- `ErrorSkips`: `ErrorSkipsExtended`, for every client; the strengthening is that
  an erred batch has `failed` set (`ErredFails`).
- `WritesAcknowledged`: `AckedIffRun`, without stub mode, if no write starts like
  a query (`NoRowWrites`) and the client does not pipeline; the strengthening is
  that a write in the memo means its Execute was already in this batch
  (`WriteMemo`).
- `PairsRunOnce`: the action property `OneRunPerPair`, for every client, if no text
  that returns rows has placeholders (`NoRowParams`; with them the code does run it
  twice, see below). The strengthening `Described` ties the answer last given to what
  the memo holds: after a Describe that was answered with rows, the memo has their
  text and the batch is not being skipped.

It also proves the refinement, `KeepsContract`: `Spec =>
ImplementsContract`, if keywords say what texts do and the client does not mix
sub-protocols. The initial states map to initial states, and each handler maps to
the contract's step of its message or to a stutter (`StepImplements`, with the cases
of Describe and Execute as lemmas of their own); the invariant it needs is
`StatusInv`, since the contract's `busy` is DuckDB's state and the session answers
with `inTx`.

`SqlServerProofs` proves, for any sessions, connections and writes and any limit on
idle connections, whatever the clients do:

- `ServerTypeCorrect`: `TypeOK`, and `ConnectionsExclusive`: no connection is held by
  two sessions. Both from `PoolInv`, which adds that a session with a pooled
  statement under way holds the connection it borrowed (`JobHolds`);

and under `Disciplined` (no stub mode, no transactions over MySQL, no
disconnect inside a transaction):

- `PromisesAreKept`: `PromisesKept`; `RetractedIsOut`: `RetractedStaysOut`;
  `StatusIsTrue`: `StatusTruthful`; `ReadsSeeAll`: `ReadsSeePromises`. What is promised
  leaves out the transactions that were `hurt`, of which DuckDB may have rolled back
  what the client is told is committed (see the deviations).
- `CommitsAreWhole`: `CommitsWhole`, which is what such a client still has: its COMMIT
  did all of the transaction or nothing. The invariant keeps that nothing of it is
  pending or in flight any more (`DoubtSettled`).

Their common inductive invariant is `ServerInv`. A connection is held by one session
at most (`Exclusive`) and has a transaction open only while a Postgres session holds
it (`OpenIsPinned`), so that what the pool hands out is idle and holds nothing
(`IdleIsEmpty`); that is what a pooled write needs to be committed when it is
acknowledged (`PoolAgrees`). A Postgres client is owed exactly what is pending on its
connection (`PgAgrees`), so that a COMMIT keeps and a ROLLBACK drops just that. And a
write is in flight, pending on one connection, committed or retracted, never two of
these (`OnePlace`, `AllIssued`), so that nobody else can commit what was retracted.
Two of the premises are shown necessary by the runs `sql_leaked_tx` (disconnects)
and `sql_mysql_rollback` (transactions over MySQL); in stub mode a write to a missing
table is acknowledged and dropped by design.

`LogOnceProofs` proves, for any goroutines, keys and number of calls:

- `LogTypeCorrect`: `TypeOK`.
- `SilentOnceLogged`: `RepeatsAreSilent`. As long as nothing has raced, what is
  printed or about to be is in the map (`LoggedIsSet`), so that a call that begins
  afterwards finds it (`LateStops`), and a goroutine on any other call has not printed its
  key before (`FirstTime`). That two goroutines never print one key
  is false: both may have read the map before either writes to it.

`RepliesProofs` proves about a session of any protocol with any results, in both stub
modes:

- `NoSilentLoss`: `LossReported`, for integer types of any growing widths, if the
  values of a result fit its columns (`SoundResults`) and times are whole seconds
  within a Duration of 2000 (`PlainInstants`; for the second see the run
  `replies_silent_loss`, for the first the deviations). The steps follow the code: the
  values of each type fall into classes (`ValueClasses`), for each protocol a value that its encoder changes is one
  its report notes (`PgNoted`, `MyNoted`, `ChNoted`), a noted value puts its column in
  the report (`NotesReported`), and what is sent goes with its own report
  (`ReportSent`, the invariant).
- `CopiedColumnsFit`: what becomes of a value of a copied ClickHouse column fits the DuckDB
  column `chToDuckType` makes for it, for the types of `ChBases`, wrapped or not, and is
  the same value except for the digits of a DateTime64 beyond the microseconds. It is a
  fact about the operators, and what makes `SoundResults` true of columns copied from ClickHouse.
- `WarningsShown`: `ShowsLastWarnings`; the strengthening `KeepsWarnings` is that the
  session still has the notes of the last statement that ran.
- `ValuesInPlace`: `ArgsInPlace`, for prepared texts of any length and number (Postgres
  texts that are `PlainComments`, MySQL texts that are `PlainText`), from the
  theorems of `ParamsProofs`: what ran is what the scanners made of one of the texts
  and of as many values as the client was told to bind (`TextRan`).
- `ReplyTypes`: `TypeOK`, the whole of it, the packets on their way included. The
  inductive `ReplyInv` has the types of each part; that a count of warnings is a number
  needs that the report of a result is a finite set of lines (`WarningLines`).

`ParamsProofs` proves about the scanners, for texts of any length over the classes of
characters of `Params` (no block comments, no dollar quotes):

- `PgTextsInPlace`: what `substituteParams` makes of a text, with the values bound that
  `maxParamIndex` asks for, has each value where the client meant it and the rest as it
  was (`PgInPlace`), if no line comment holds a quote or a placeholder (`PlainComments`,
  without which it is false).
- `MyTextsInPlace`: so has what `substituteArgs` and `backticksToQuotes` make of one,
  and DuckDB then finds the literals where the client had them (`MyInPlace`). Its premise
  is `PlainText` (`PlainComments`, no backslash, and other quotes only inside single
  ones), without which it is false, and
  that the client has as many values as `HandleStmtPrepare` asks for. That these are as
  many as there are placeholders it says only of texts without a question mark in a
  literal.

The argument is that after k characters a scanner's state is what the first k
characters say: its quote is DuckDB's, except halfway through a doubled quote, which
for DuckDB ends a literal and begins another, and inside a comment, where the scanner has
none (`ParamsMatch`, `ArgsMatch`, `BackticksMatch`), the count is that of the placeholders
outside literals, and each character of the output is the one meant. This is induction
over the positions of a text, made once from the fact that the naturals are well-founded
(`UpTo`), with the set of positions up to which the claim holds as a set and not an
operator; `RunExists` shows in the same way that the recursive functions exist. A quoted
value that is inlined does not move what DuckDB reads after it (`Relexed`).

`ChSessionProofs` proves `KeepsInStep`: `InStep`, for every revision of the client, any
number of requests on the way and queues of any length. That no packet is misread needs
to know what is in both queues. The inductive `StepInv` says that the handshake's
packets come first and with the fields of the agreed revision (`HelloFirst`,
`AddendumFirst`), and that the packets to the client answer, in order, the oldest
requests it waits for, and those to the server are the rest of them (`InOrder`).
"In order" is a walk along a queue, a function from the places in it to the number of the
request they are about (`Answering`, `Awaiting`), so that reading and writing a packet
change it at one end; the lemmas (`AnswerRead`, `AnswerWritten`, `AwaitRead`,
`AwaitSent` and others) say how.

`StartupProofs` proves, for every set of configurations that `ConfigOK` admits, any
number of instances, sources, tables and starts, with failures and stops anywhere:

- `StartupTypeCorrect`: `TypeOK`; `StartsAllOrNone`: `AllStartOrNone`. The inductive
  `StartInv` says what each phase implies: nothing is left to load outside loading, and
  what is listed is the source's (`LoadingState`); the instances before `at` that have a
  port are exactly those bound, all of Redis is up from the first of them on, and
  `engines` has an engine for each (`ShardState`); the objects to replay are objects of
  a dump (`ReplayState`).
- `ClientsKeepTables`: `RuntimeSurvives`. `MadeInv` adds that what clients made is as
  they left it under names no source offers, also when they filled what they did not
  create, and on the file if there is one, which is what `End` keeps.
- `ServesOwnTables`: `OwnTables => ServesItsSources`. `OwnTables` says that source-sets
  that share a file offer no table twice; without it the
  code does not keep the property (run `startup_shards`). `LoadedInv` adds that every
  loaded engine is complete, not only those of bound instances (`Complete`), and that
  loading is in order (`InOrder`): the sources done come before those left, what they
  offer is seen, and what is seen is there. With that the source being loaded is the
  first that offers the table (`FirstClaims`), and it writes into no loaded engine's
  tables (`LoadsOwn`). A copy that finishes finds the table it created
  (`OnlyClientsDrop`).

- `FlagsServed`: `FlagsHonoured`, for any flags of which there are at most 100 of a
  kind. A process that is up has read a configuration (`RunsConfigured`), and `StartInv`
  and `LoadedInv` then give the rest once it is known what `configFromFlags` makes of the
  flags (`FlagsMade`): each SQL source once, an instance for each SQL target, the n-th
  dump for the n-th Redis target. That picking and sorting lose and double nothing is
  that the places of the elements of a finite set in an order are the numbers from one
  to their count; with at most ten sources the order of the names is that of the flags.
  `OwnTables` is not a premise here: all instances made from flags serve the same sources
  and share one engine (`TablesOfFlags`).

`RedisProofs` proves `SeededAsDumped`: `KeysOnce => SeededUnlessTouched`, for any
instances, dumps of any length and any clients. `KeysOnce` says that a dump has no key
twice, as the dump of a keyspace has not. `SeedInv` follows the replay: what is left of
a dump is its end (`RestState`), an untouched key holds what the dump says if its object
has been replayed and nothing otherwise (`KeysState`), and the counts of an untouched
instance are those of the keys replayed so far (`CountState`).

TLC finds the invariants of `ChSessionProofs`, `StartupProofs` and `RedisProofs` true on
the instances of the runs `replies` and `startup`, and the premises `OwnTables` and
`KeysOnce` hold in every setup of the run `startup`.

The assumptions on the constants are `StubAssumption`, `QueryAssumption`,
`ClientAssumption`, `PortalAssumption` (no portal has the name that stands for none),
`SessionAssumption`, `ServerAssumption`, `LogAssumption`, `FidelityAssumption` (each
width is at least twice the one before), `RevisionAssumption` (the features' revisions
grow, and a client may send something), `BoundAssumption` (a bound value is a single
item that is not a character), `TextsAssumption` (no text has more placeholders than
there are values), `ResultsAssumption` (a result has finitely many columns and rows) and
`StartupAssumption` (what a setup stands for is a configuration, and there are at most
100 flags of a kind, so that the names made from them have at most two digits). TLC
evaluates them in the runs of the modules that declare them.

Only model-checked:

- `EverythingLogged`, `Answered`, `StartsDecide`: liveness under fairness, which is out
  of the provers' reach. Every safety property of a passing run has its theorem.

## Deviations met while modelling

The premises of the properties and theorems mark where the code does less than
its comments say. Besides the violations above:

- `returnsRows` takes WITH, EXPLAIN, CALL and PRAGMA texts for queries, so
  Describe of `WITH ... INSERT` runs the insert (premise `NoRowWrites`).
- Describe of a portal with bound parameters runs the text with NULLs, Execute
  the text with the values: two runs (`handler.go:231` says one).
- `trackTx` ignores the error of a BEGIN or ROLLBACK, so a BEGIN or ROLLBACK TO
  SAVEPOINT that DuckDB refuses changes the status; and it sees the first keyword
  of a script only (premise `PlainQueries`).
- A simple query inside a batch leaves the memo alone, so an Execute after it may
  repeat the answer to a BEGIN whose transaction is over (premise: no mixing).
- Close and simple queries are not skipped after an error (`handler.go:38` says
  messages are).
- An error met by Describe does not mark the transaction failed; and in a
  transaction marked failed it is up to DuckDB whether statements run.
- Two engines that copy the same ClickHouse source into the persisted file: the
  second empties the table under an instance already served.
- A snapshot source replaces its tables on every start, with the rows clients put
  in them; a client's table in the place of a file's view makes every later
  start fail (the exception in `RuntimeSurvives`).
- SHOW WARNINGS after a statement that failed or was accepted as a no-op lists the
  warnings of an earlier one; hence `previous.ran` in `ShowsLastWarnings`.
- The comment of `substituteArgs` says that literals are not special-cased; they are,
  and `HandleStmtPrepare` counts the question marks in them all the same: of `'?'`
  and one value asked for, none is used. It takes a backslash for an escape, which
  `backticksToQuotes` and DuckDB do not, so that the value for the placeholder in
  `'\' ?` is not inlined, and the two disagree about quotes inside other quotes (premise
  `PlainText`).
- No scanner knows comments: of `-- '`, the end of the line and `$1`, the quote hides the
  placeholder, the client is told that there is none, and DuckDB gets a text with a
  parameter (premise `PlainComments`).
- A TIMESTAMP reaches MySQL and ClickHouse clients without its fraction of a second
  (`coerce` and go-mysql; `newColBuilder`), which neither report says (premise
  `PlainInstants`).
- A negative number is inlined bare: right after a minus sign it begins a comment (not
  modelled).
- SHOW WARNINGS as a prepared statement is answered with a text result set (`showWarnings`
  does not know it was prepared; the layout of rows is not modelled).
- The Postgres report says a value beyond int64 "is sent as 0": in text format it
  is sent as it is, in binary a UBIGINT wraps and a HUGEINT saturates. The value is
  reported all the same, which is what `LossReported` asks.
- A ClickHouse client older than `FeatureServerLogs` gets no report; it is only in
  the process's own log.
- A ClickHouse client that sends values gets out of step: `readClientBlock` reads
  the counts of a block and not its columns (documented as unsupported). A client
  of revision 0 is taken for one of the server's own revision.
- A Redis object whose expiration has passed is loaded without a TTL, so it is
  back for good. The replay stores strings over whatever clients have written since the
  listener was bound, and what it cannot store is logged only: a collection that meets a
  client's key of another type is counted, and its TTL goes to the client's key.
- From the eleventh source on, `src10` is loaded before `src2`: an earlier flag
  does not win any more (the bound in `FlagsHonoured`). An `.rdb` source without a
  Redis target is ignored without a word.
- Two sessions that both look a key up before either has set it both log it, also when
  none of their accesses overlap; `logOnce` says "at most once per distinct key".
- `trackTx` says that in a transaction marked failed statements are rejected until the
  rollback. A COMMIT is not: where DuckDB has given the transaction up it takes it for a
  ROLLBACK, the client is answered COMMIT and status `I`, and its acknowledged writes are
  gone. That DuckDB does so is not in this repository, and an outcome of `DuckOutcomes`.
- A listener whose Accept fails stops alone, and what it held is not bound again before the
  next start; the process stays up (documented, `main.go:115`).

## Not modelled, and what is left

Left to the model checker: liveness (see the end of Proofs), and what the theorems
exclude by a premise, which the violation runs show to be needed or the list above
explains.

Left out for good: TLS and authentication (declined or
always accepted), the wire formats of pgproto3, go-mysql, ch-go and miniredis,
parsing of HUML, RDB and SQL (libraries), `CommandComplete` tags, the arithmetic
of floats and the layout of texts (no state, and nothing a bounded model adds to
unit tests), block comments and dollar quotes in prepared texts (no scanner knows them,
as with line comments, which are modelled), blocks with values from ClickHouse clients (not supported by the server).
