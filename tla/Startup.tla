------------------------------ MODULE Startup ------------------------------
(***************************************************************************)
(* The life of the spoofdb process (cmd/spoofdb/main.go): start Redis, go  *)
(* through the SQL instances one by one (load the engine of its source-set *)
(* unless it is loaded, bind the port, serve it), run until stopped, start *)
(* again over the persisted file.  Loading is engine.NewFromSourcesAt and  *)
(* the loaders of internal/engine, one table at a time.                    *)
(*                                                                         *)
(* Instances are served as soon as they are bound, so clients of the first *)
(* ones already work while the engines of later ones load.                 *)
(***************************************************************************)
EXTENDS Redis, Cli

CONSTANTS
  Setups,       \* the configurations and flags to start with
  Tables,       \* all table names
  MaxStarts     \* bound on the number of starts

(***************************************************************************)
(* A setup is the command line and the configuration file of main:         *)
(*   flags      the occurrences of -source and -spoof,                     *)
(*   file       the configuration of the file, used without these flags:   *)
(*     sources    source name (a number; names sort as numbers) ->         *)
(*                [type, tables, allow]: what it has, in loading order,    *)
(*                and Source.Tables,                                       *)
(*     instances  the SQL instances in starting order,                     *)
(*                [proto, port, sources, again]: the names it lists, and   *)
(*                which ones once more, with how many times,               *)
(*     redis      the Redis instances, [port, dump],                       *)
(*     ok         the file can be read,                                    *)
(*   persist    -persist,      reset  -reset may be given to a start,      *)
(* and what happens around it: failures of sources, ports and dumps, the   *)
(* table names that clients create, fill and drop, and the Redis keys they *)
(* write.                                                                  *)
(***************************************************************************)
SourceTypes == {"file", "database", "clickhouse"}

ConfigOK(c) ==
  /\ c.ok \in BOOLEAN
  /\ \A n \in DOMAIN c.sources : /\ n \in Nat \ {0}
                                 /\ c.sources[n].type \in SourceTypes
                                 /\ {c.sources[n].tables, c.sources[n].allow} \subseteq Seq(Tables)
  /\ c.instances \in Seq([proto : STRING, port : Nat, sources : SUBSET Nat, again : SUBSET (Nat \X Nat)])
  /\ c.redis \in Seq([port : Nat, dump : Seq(Objects)])
  /\ \A i \in DOMAIN c.redis : \A k \in DOMAIN c.redis[i].dump : Slot(c.redis[i].dump[k]) \in Slots

\* main: the flags of a setup, if any are given, else its file.
FlagsOf(s) == [sources |-> stringSlice(s.flags.sources), spoofs |-> stringSlice(s.flags.spoofs)]
Given(flags) == flags.sources # <<>> \/ flags.spoofs # <<>>
ConfigOf(s) == IF Given(FlagsOf(s)) THEN configFromFlags(FlagsOf(s)) ELSE s.file

\* At most a hundred of each, so that no name has more than two digits.
FlagsOK(flags) ==
  /\ flags.sources \in Seq([kind : STRING, tables : Seq(Tables), dump : Seq(Objects)])
  /\ flags.spoofs \in Seq([kind : STRING, form : {"omitted", "number", "bad"}, port : Nat])
  /\ Len(flags.sources) <= 100 /\ Len(flags.spoofs) <= 100

ASSUME StartupAssumption ==
  /\ MaxStarts \in Nat
  /\ \A s \in Setups : /\ ConfigOK(ConfigOf(s)) /\ FlagsOK(FlagsOf(s))
                       /\ s.clients \subseteq Tables /\ s.redisClients \subseteq Slots
                       /\ {s.persist, s.reset, s.failures} \subseteq BOOLEAN

VARIABLES
  setup,     \* the setup the process is started with, the same each time
  phase,     \* "down", "redis", "shards", "load", "bind" or "running"
  at,        \* the instance being started
  left,      \* the sources its engine has not finished loading
  todo,      \* the tables of the first of them still to be gone through
  seen,      \* Engine.seen of that engine
  copying,   \* copyClickhouseTable has created the table and inserts its rows
  engines,   \* the lists of sources with an engine, by engineKey
  bound,     \* the instances whose listener was bound and is served
  deaf,      \* those of them whose listener has stopped accepting
  db,        \* the catalog of every DuckDB database
  made,      \* history: the tables clients created, those they put rows in, and,
             \* for each engine, those they dropped since it loaded them
  starts,    \* history: how many times the process was started
  why        \* history: why the process last ended

sql == <<at, left, todo, seen, copying, engines, bound, deaf, db, made>>
vars == <<setup, phase, sql, starts, why, redis>>

\* Every start reads the same.
Flags == FlagsOf(setup)
FlagsGiven == Given(Flags)
Load == ConfigOf(setup)

Config == cfg.sources
Instances == cfg.instances
Persist == setup.persist
SourceNames == DOMAIN Config

\* selectSources: the named sources, or all of them.  engineKey joins the names,
\* each as often as it is listed; a loader finds nothing left to claim in a source
\* it goes through again.
selectSources(i) ==
  IF Instances[i].sources = {} THEN SourceNames ELSE Instances[i].sources

engineKey(i) == <<selectSources(i), Instances[i].again>>

\* The -data file behind every engine, or a database in memory for each.
FileDb == <<{0}, {}>>
DbOf(i) == IF Persist THEN FileDb ELSE engineKey(i)
DbNames == {FileDb} \cup {engineKey(i) : i \in DOMAIN Instances}

Absent == [kind |-> "none", from |-> 0, full |-> TRUE, rows |-> FALSE]
Client == 0     \* the "source" of what clients create
Entries == [kind : {"none", "view", "table"}, from : SourceNames \cup {Client},
            full : BOOLEAN, rows : BOOLEAN]
NoTables == [t \in Tables |-> Absent]
NothingMade == [tables |-> {}, filled |-> {}, dropped |-> {}]

\* The tables a loader goes through, in order: clickhouseTables takes the list
\* of Source.Tables as it is, the others start from what is there.
Listed(n) ==
  LET src == Config[n] IN
  IF src.type = "clickhouse" /\ src.allow # <<>> THEN src.allow ELSE src.tables

\* attachedTables leaves out the tables that are not on the list, if there is one.
OffList(n, t) ==
  LET src == Config[n] IN src.type = "database" /\ src.allow # <<>> /\ t \notin Range(src.allow)

Selected(n) == {t \in Range(Listed(n)) : ~OffList(n, t)}

\* NewFromSourcesAt loads the sources by name: the first of ns, and what is listed
\* for it.
FirstListed(ns) == IF ns = {} THEN <<>> ELSE Listed(Min(ns))

Loading == phase = "load" /\ ~copying /\ todo # <<>>
Source == Min(left)
Table == Head(todo)
Passed == Table \in seen \/ OffList(Source, Table)
Exists == Table \in Range(Config[Source].tables)
Here == db[DbOf(at)]

SetTable(t, entry) == db' = [db EXCEPT ![DbOf(at)][t] = entry]

\* History: whatever clients did to the table before, this engine has it now.
TakenBack(t) == made' = [made EXCEPT !.dropped = @ \ {<<engineKey(at), t>>}]
Dropped(i, t) == <<engineKey(i), t>> \in made.dropped

\* Mutant of End: the file goes the way of the databases in memory.
EndLosesFile(reason) ==
  /\ phase' = "down"
  /\ why' = reason
  /\ bound' = {} /\ deaf' = {} /\ engines' = {} /\ seen' = {} /\ left' = {} /\ todo' = <<>> /\ copying' = FALSE
  /\ at' = 1
  /\ db' = [d \in DbNames |-> NoTables]
  /\ CloseAll
  /\ UNCHANGED <<made, starts, setup>>

\* log.Fatal, a signal or a crash: nothing is served any more, databases in
\* memory are gone, and the file keeps what was in it.
End(reason) ==
  /\ phase' = "down"
  /\ why' = reason
  /\ bound' = {} /\ deaf' = {} /\ engines' = {} /\ seen' = {} /\ left' = {} /\ todo' = <<>> /\ copying' = FALSE
  /\ at' = 1
  /\ db' = [d \in DbNames |-> IF d = FileDb THEN db[d] ELSE NoTables]
  /\ made' = IF Persist THEN [made EXCEPT !.dropped = {}] ELSE NothingMade
  /\ CloseAll
  /\ UNCHANGED <<starts, setup>>

-----------------------------------------------------------------------------
Init ==
  /\ setup \in Setups
  /\ cfg = Load
  /\ phase = "down"
  /\ at = 1 /\ left = {} /\ todo = <<>> /\ seen = {} /\ copying = FALSE
  /\ engines = {} /\ bound = {} /\ deaf = {}
  /\ db = [d \in DbNames |-> NoTables]
  /\ made = NothingMade
  /\ starts = 0
  /\ why = "none"
  /\ NothingStarted

\* main up to redis.Start: with -reset the file is removed.
Start ==
  /\ phase = "down" /\ starts < MaxStarts
  /\ cfg.ok
  /\ phase' = "redis"
  /\ starts' = starts + 1
  /\ \/ UNCHANGED <<db, made>>
     \/ /\ setup.reset /\ Persist
        /\ db' = [db EXCEPT ![FileDb] = NoTables]
        /\ made' = NothingMade
  /\ UNCHANGED <<at, left, todo, seen, copying, engines, bound, deaf, why, setup, redis>>

\* A file that cannot be removed ends main: the data file, which keeps what it
\* holds, or its .wal when the data file is gone already.
ResetFails ==
  /\ phase = "down" /\ starts < MaxStarts
  /\ cfg.ok /\ setup.reset /\ Persist /\ setup.failures
  /\ starts' = starts + 1
  /\ why' = "fatal"
  /\ \/ UNCHANGED <<db, made>>
     \/ /\ db' = [db EXCEPT ![FileDb] = NoTables]
        /\ made' = NothingMade
  /\ UNCHANGED <<phase, at, left, todo, seen, copying, engines, bound, deaf, setup, redis>>

\* Flags that make no configuration, or a file that does not, end main before
\* anything else happens.
ConfigFails ==
  /\ phase = "down" /\ starts < MaxStarts
  /\ ~cfg.ok
  /\ starts' = starts + 1
  /\ why' = "fatal"
  /\ UNCHANGED <<phase, sql, setup, redis>>

\* redis.Start.
StartRedis ==
  /\ phase = "redis"
  /\ (\E i \in DOMAIN redisCfg : StartAddr(i)) \/ Replay \/ Seeded
  /\ UNCHANGED <<phase, sql, starts, why, setup>>

\* redis.Start returns, and something is configured at all.
RedisStarted ==
  /\ phase = "redis" /\ AllStarted
  /\ Len(Instances) + Len(redisCfg) > 0
  /\ phase' = "shards"
  /\ UNCHANGED <<sql, starts, why, setup, redis>>

\* A port that is taken or a dump that cannot be read: the instances are closed.
RedisFails ==
  /\ phase = "redis"
  /\ \/ setup.failures /\ ~AllStarted
     \/ starting = 0 /\ \E i \in DOMAIN redisCfg \ started : Taken(redisCfg[i].port)
     \/ Len(Instances) + Len(redisCfg) = 0
  /\ End("fatal")

\* Mutant of NextShard: the loop does not get past an instance without a port.
NextShardStays ==
  /\ phase = "shards" /\ at <= Len(Instances)
  /\ Instances[at].port # 0 /\ selectSources(at) \subseteq SourceNames
  /\ IF engineKey(at) \in engines
     THEN phase' = "bind" /\ UNCHANGED <<left, todo, seen>>
     ELSE phase' = "load" /\ left' = selectSources(at) /\ todo' = FirstListed(left') /\ seen' = {}
  /\ UNCHANGED <<at, why, bound, deaf, engines, copying, db, made, starts, setup, redis>>

\* startShards: an instance without a port is passed over; selectSources refuses
\* a source that is not configured; an engine loaded before is shared.
NextShard ==
  /\ phase = "shards" /\ at <= Len(Instances)
  /\ \/ /\ Instances[at].port = 0
        /\ at' = at + 1
        /\ UNCHANGED <<phase, left, todo, seen, why, bound, deaf, engines, copying, db, made, starts, setup, redis>>
     \/ /\ Instances[at].port # 0 /\ selectSources(at) \subseteq SourceNames
        /\ IF engineKey(at) \in engines
           THEN phase' = "bind" /\ UNCHANGED <<left, todo, seen>>
           ELSE phase' = "load" /\ left' = selectSources(at) /\ todo' = FirstListed(left') /\ seen' = {}
        /\ UNCHANGED <<at, why, bound, deaf, engines, copying, db, made, starts, setup, redis>>

UnknownSource ==
  /\ phase = "shards" /\ at <= Len(Instances)
  /\ Instances[at].port # 0 /\ ~(selectSources(at) \subseteq SourceNames)
  /\ End("fatal")

\* NewFromSourcesAt: the next source.
NextSource ==
  /\ phase = "load" /\ ~copying /\ todo = <<>> /\ left # {}
  /\ left' = left \ {Source}
  /\ todo' = FirstListed(left')
  /\ UNCHANGED <<phase, at, seen, copying, engines, bound, deaf, db, made, starts, why, setup, redis>>

\* A name already claimed in this engine is skipped, by every loader.
SkipTable ==
  /\ Loading
  /\ Passed
  /\ todo' = Tail(todo)
  /\ UNCHANGED <<phase, at, left, seen, copying, engines, bound, deaf, db, made, starts, why, setup, redis>>

\* register: CREATE OR REPLACE VIEW.
\* attachSnapshot: CREATE OR REPLACE TABLE ... AS SELECT.
LoadWhole ==
  /\ Loading
  /\ ~Passed
  /\ \/ Config[Source].type = "file" /\ Here[Table].kind # "table"
     \/ Config[Source].type = "database" /\ Here[Table].kind # "view"
  /\ SetTable(Table,
       [kind |-> IF Config[Source].type = "file" THEN "view" ELSE "table",
        from |-> Source, full |-> TRUE, rows |-> FALSE])
  /\ TakenBack(Table)
  /\ seen' = seen \cup {Table}
  /\ todo' = Tail(todo)
  /\ UNCHANGED <<phase, at, left, copying, engines, bound, deaf, starts, why, setup, redis>>

\* copyClickhouseTable: the table is created empty ...
CreateCopy ==
  /\ Loading
  /\ ~Passed
  /\ Config[Source].type = "clickhouse" /\ Exists /\ Here[Table].kind # "view"
  /\ SetTable(Table, [kind |-> "table", from |-> Source, full |-> FALSE, rows |-> FALSE])
  /\ TakenBack(Table)
  /\ copying' = TRUE
  /\ UNCHANGED <<phase, at, left, todo, seen, engines, bound, deaf, starts, why, setup, redis>>

\* ... and filled with one INSERT per row; clickhousePull claims it afterwards.
FinishCopy ==
  /\ phase = "load" /\ copying
  /\ Here[Table].from = Source
  /\ SetTable(Table, [Here[Table] EXCEPT !.full = TRUE])
  /\ copying' = FALSE
  /\ seen' = seen \cup {Table}
  /\ todo' = Tail(todo)
  /\ UNCHANGED <<phase, at, left, engines, bound, deaf, made, starts, why, setup, redis>>

\* The INSERTs fail when a client has dropped the table meanwhile.
CopyLost ==
  /\ phase = "load" /\ copying
  /\ Here[Table].from # Source
  /\ End("fatal")

\* copyClickhouseTable cannot read a table that is on the list and not there.
MissingTable ==
  /\ Loading
  /\ ~Passed
  /\ ~Exists
  /\ End("fatal")

\* DuckDB refuses to replace a table by a view or a view by a table.
Conflict ==
  /\ Loading /\ Exists
  /\ ~Passed
  /\ Here[Table].kind = IF Config[Source].type = "file" THEN "table" ELSE "view"
  /\ End("conflict")

\* Any loader may fail at any point: NewFromSourcesAt gives up, main ends.
LoadFails ==
  /\ setup.failures
  /\ phase = "load"
  /\ End("fatal")

\* Mutant of EngineLoaded: the instance is bound before its tables are loaded.
EngineLoadedEarly ==
  /\ phase = "load"
  /\ engines' = engines \cup {engineKey(at)}
  /\ phase' = "bind"
  /\ UNCHANGED <<at, left, todo, seen, copying, bound, deaf, db, made, starts, why, setup, redis>>

\* Mutant of EngineLoaded: the engine is filed under the instance, not its sources.
EngineLoadedMisfiled ==
  /\ phase = "load" /\ left = {}
  /\ engines' = engines \cup {<<{at}, {}>>}
  /\ phase' = "bind"
  /\ UNCHANGED <<at, left, todo, seen, copying, bound, deaf, db, made, starts, why, setup, redis>>

EngineLoaded ==
  /\ phase = "load" /\ left = {}
  /\ engines' = engines \cup {engineKey(at)}
  /\ phase' = "bind"
  /\ UNCHANGED <<at, left, todo, seen, copying, bound, deaf, db, made, starts, why, setup, redis>>

\* A listener that has stopped accepting may still hold its port.
PortTaken ==
  Taken(Instances[at].port) \/ \E i \in bound \ deaf : Instances[i].port = Instances[at].port

Bind ==
  /\ phase = "bind" /\ ~PortTaken
  /\ bound' = bound \cup {at}
  /\ at' = at + 1
  /\ phase' = "shards"
  /\ UNCHANGED <<left, todo, seen, copying, engines, deaf, db, made, starts, why, setup, redis>>

\* Mutant of BindFails: the failure is logged and the next instance started.
BindFailsQuietly ==
  /\ phase = "bind"
  /\ setup.failures \/ PortTaken
  /\ at' = at + 1
  /\ phase' = "shards"
  /\ UNCHANGED <<left, todo, seen, copying, engines, bound, deaf, db, made, starts, why, setup, redis>>

BindFails ==
  /\ phase = "bind"
  /\ setup.failures \/ PortTaken
  /\ End("fatal")

Run ==
  /\ phase = "shards" /\ at > Len(Instances)
  /\ phase' = "running"
  /\ UNCHANGED <<at, left, todo, seen, copying, engines, bound, deaf, db, made, starts, why, setup, redis>>

\* Serve returns when Accept fails: its goroutine logs the error and ends.  That
\* listener takes no further connection; those it accepted go on, and so does
\* everything else.
AcceptFails(i) ==
  /\ setup.failures
  /\ i \in bound \ deaf
  /\ deaf' = deaf \cup {i}
  /\ UNCHANGED <<phase, at, left, todo, seen, copying, engines, bound, db, made, starts, why, setup, redis>>

\* A signal or a crash.  Before main waits for signals, one ends it anywhere.
Stop ==
  /\ phase # "down"
  /\ End("stopped")

-----------------------------------------------------------------------------
\* A client of a served instance creates, fills and drops tables.
ClientCreate(i, t) ==
  /\ i \in bound
  /\ db[DbOf(i)][t].kind = "none"
  /\ db' = [db EXCEPT ![DbOf(i)][t] = [kind |-> "table", from |-> Client, full |-> TRUE, rows |-> FALSE]]
  /\ made' = [made EXCEPT !.tables = @ \cup {<<DbOf(i), t>>}]
  /\ UNCHANGED <<phase, at, left, todo, seen, copying, engines, bound, deaf, starts, why, setup, redis>>

ClientInsert(i, t) ==
  /\ i \in bound
  /\ db[DbOf(i)][t].kind = "table" /\ ~db[DbOf(i)][t].rows
  /\ db' = [db EXCEPT ![DbOf(i)][t].rows = TRUE]
  /\ made' = [made EXCEPT !.filled = @ \cup {<<DbOf(i), t>>}]
  /\ UNCHANGED <<phase, at, left, todo, seen, copying, engines, bound, deaf, starts, why, setup, redis>>

ClientDrop(i, t) ==
  /\ i \in bound
  /\ db[DbOf(i)][t].kind # "none"
  /\ db' = [db EXCEPT ![DbOf(i)][t] = Absent]
  /\ made' = [tables  |-> made.tables \ {<<DbOf(i), t>>},
              filled  |-> made.filled \ {<<DbOf(i), t>>},
              dropped |-> made.dropped \cup
                            {<<engineKey(j), t>> : j \in {j \in DOMAIN Instances : DbOf(j) = DbOf(i)}}]
  /\ UNCHANGED <<phase, at, left, todo, seen, copying, engines, bound, deaf, starts, why, setup, redis>>

Progress ==
  \/ StartRedis \/ RedisStarted \/ RedisFails \/ NextShard \/ UnknownSource
  \/ NextSource \/ SkipTable \/ LoadWhole \/ CreateCopy \/ FinishCopy \/ CopyLost
  \/ MissingTable \/ Conflict \/ LoadFails \/ EngineLoaded \/ Bind \/ BindFails \/ Run

Clients ==
  \E i \in DOMAIN Instances, t \in setup.clients :
    ClientCreate(i, t) \/ ClientInsert(i, t) \/ ClientDrop(i, t)

RedisClients ==
  /\ \E i \in DOMAIN redisCfg, s \in setup.redisClients : ClientCommand(i, s)
  /\ UNCHANGED <<phase, sql, starts, why, setup>>

Next ==
  \/ Start \/ ResetFails \/ ConfigFails \/ Progress \/ Stop
  \/ \E i \in DOMAIN Instances : AcceptFails(i)
  \/ Clients \/ RedisClients

\* main never waits between its start and the signal: its own steps are fair.
Spec == Init /\ [][Next]_vars /\ WF_vars(Progress)

-----------------------------------------------------------------------------
\* Every variable stays in the set of values the code can give it.
TypeOK ==
  /\ setup \in Setups
  /\ phase \in {"down", "redis", "shards", "load", "bind", "running"}
  /\ at \in 1 .. Len(Instances) + 1
  /\ left \subseteq SourceNames
  /\ todo \in Seq(Tables)
  /\ seen \subseteq Tables
  /\ copying \in BOOLEAN
  /\ engines \subseteq DbNames
  /\ bound \subseteq DOMAIN Instances /\ deaf \subseteq bound
  /\ db \in [DbNames -> [Tables -> Entries]]
  /\ made \in [tables : SUBSET (DbNames \X Tables), filled : SUBSET (DbNames \X Tables),
              dropped : SUBSET (DbNames \X Tables)]
  /\ starts \in 0 .. MaxStarts
  /\ why \in {"none", "fatal", "conflict", "stopped"}
  /\ RedisTypeOK

Offered(i) == UNION {Selected(n) : n \in selectSources(i)}

\* The first source, by name, of the instance's sources that offers the table.
Claim(i, t) == Min({n \in selectSources(i) : t \in Selected(n)})

(***************************************************************************)
(* A served instance serves its own data: every table its sources offer    *)
(* that no client has dropped since the instance loaded it is there,       *)
(* complete, and from the source that claims it first: at any time, after  *)
(* any crash in the middle of an earlier start, and whatever clients did   *)
(* to a table of that name before, in this run or an earlier one over the  *)
(* same file (startShards, engineFor, register, attachSnapshot,            *)
(* clickhousePull).                                                        *)
(***************************************************************************)
ServesItsSources ==
  \A i \in bound : \A t \in Offered(i) :
    ~Dropped(i, t) =>
      LET e == db[DbOf(i)][t] IN e.kind # "none" /\ e.full /\ e.from = Claim(i, t)

(***************************************************************************)
(* A table that clients create at runtime is there, with the rows they put *)
(* in it, until they drop it or start with -reset; restarts, failed starts *)
(* and crashes included (NewFromSourcesAt over the persisted file).  Names *)
(* that a source offers are the source's: it takes them back on each start.*)
(***************************************************************************)
RuntimeSurvives ==
  \A m \in made.tables :
    (\A n \in SourceNames : m[2] \notin Selected(n))
      => LET e == db[m[1]][m[2]] IN
         e.kind = "table" /\ e.from = Client /\ (m \in made.filled => e.rows)

(***************************************************************************)
(* A start is all or nothing: the process reaches its running state only   *)
(* with a listener bound for every SQL instance that has a port and with   *)
(* every Redis instance started, and when one of them cannot be had the    *)
(* ones started before are closed with it (redis.Start, startShards, main).*)
(* A listener that stops accepting later ends alone, and is not replaced   *)
(* before the next start.                                                  *)
(***************************************************************************)
AllStartOrNone ==
  /\ phase = "running" => /\ bound = {i \in DOMAIN Instances : Instances[i].port # 0}
                          /\ Open = DOMAIN redisCfg
  /\ phase = "down" => bound = {} /\ Open = {}

(***************************************************************************)
(* A process started from flags serves what the flags say.  Each -spoof    *)
(* target with a port has had a listener bound there: a Redis target with  *)
(* the .rdb source in its turn, an SQL target with every table of every    *)
(* other source, and up to ten of these a name that two of them offer is   *)
(* the one of the earlier flag (configFromFlags, parseSpoof, selectSources,*)
(* startShards, redis.Start).                                              *)
(***************************************************************************)
FlagsHonoured ==
  phase = "running" /\ FlagsGiven =>
    LET dumps == {k \in DOMAIN Flags.sources : Flags.sources[k].kind = "rdb"}
        sqls == DOMAIN Flags.sources \ dumps
        redises == {k \in DOMAIN Flags.spoofs : Flags.spoofs[k].kind = "redis"}
        number(K, k) == Cardinality({j \in K : j <= k})
        offers(k, t) == t \in Range(Flags.sources[k].tables)
        fromFirst(t, n) == \E k \in sqls : /\ offers(k, t) /\ n = number(sqls, k)
                                           /\ \A j \in sqls : offers(j, t) => k <= j
        serves(i) == \A k \in sqls : \A t \in Range(Flags.sources[k].tables) :
                       LET e == db[DbOf(i)][t] IN
                       \/ Dropped(i, t)
                       \/ e.kind # "none" /\ (Cardinality(sqls) <= 10 => fromFirst(t, e.from))
    IN \A k \in DOMAIN Flags.spoofs :
         LET t == parseSpoof(Flags.spoofs[k]) IN
         t.port # 0 =>
           IF t.proto = "redis"
           THEN \E i \in started, j \in dumps :
                  /\ redisCfg[i].port = t.port
                  /\ redisCfg[i].dump = Flags.sources[j].dump
                  /\ number(dumps, j) = number(redises, k)
           ELSE \E i \in bound : /\ Instances[i].proto = t.proto
                                 /\ Instances[i].port = t.port
                                 /\ serves(i)

\* A start ends with the process running or ended, never stuck in between.
StartsDecide == phase = "redis" ~> phase \in {"running", "down"}
=============================================================================
