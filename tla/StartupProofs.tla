--------------------------- MODULE StartupProofs ---------------------------
(***************************************************************************)
(* Startup with any configuration, any number of instances, sources and    *)
(* tables, and any number of starts.                                       *)
(***************************************************************************)
EXTENDS Startup, FiniteSetTheorems, WellFoundedInduction, TLAPS

\* The instances startShards gets to bind: they have a port and configured sources.
Known == {i \in DOMAIN Instances : Instances[i].port # 0 /\ selectSources(i) \subseteq SourceNames}

Configured == cfg = Load /\ ConfigOK(cfg)

\* Nothing is left to load outside loading, and no table is copied without a
\* source being loaded.
LoadingState ==
  /\ phase # "load" => left = {}
  /\ left = {} => todo = <<>>
  /\ todo = <<>> => ~copying
  /\ todo # <<>> => Range(todo) \subseteq Range(Listed(Source))
  /\ copying => ~Passed

\* Which instance is being started, and what has become of the others.
ShardState ==
  /\ phase \in {"load", "bind"} => at \in Known
  /\ phase = "load" => left \subseteq selectSources(at) /\ engineKey(at) \notin engines
  /\ phase = "bind" => engineKey(at) \in engines
  /\ phase \in {"down", "redis"} => bound = {} /\ at = 1 /\ engines = {}
  /\ phase = "down" => started = {} /\ starting = 0
  /\ phase \notin {"down", "redis"} =>
       /\ AllStarted
       /\ bound = {i \in 1 .. at - 1 : Instances[i].port # 0}
  /\ phase = "running" => at = Len(Instances) + 1
  /\ bound \subseteq Known
  /\ \A i \in bound : engineKey(i) \in engines

\* The objects still to be replayed are those of a dump.
ReplayState ==
  /\ rest \in Seq({o \in Objects : Slot(o) \in Slots})
  /\ starting = 0 => rest = <<>>

StartInv == TypeOK /\ Configured /\ LoadingState /\ ShardState /\ ReplayState

-----------------------------------------------------------------------------
\* A set of numbers that is not empty has a least one, and Min is it.
LEMMA MinIsLeast ==
  ASSUME NEW T, T \subseteq Nat, T # {}
  PROVE  Min(T) \in T /\ \A y \in T : Min(T) <= y
<1> DEFINE R == OpToRel(<, Nat)
<1>1. IsWellFoundedOn(R, Nat)
  BY NatLessThanWellFounded
<1>2. \A x, y \in Nat : <<x, y>> \in R <=> x < y
  BY DEF OpToRel
<1> HIDE DEF R
<1>3. PICK x \in T : \A y \in T : ~ (<<y, x>> \in R)
  BY <1>1, WFMin
<1>4. \A y \in T : ~(y < x)
  BY <1>2, <1>3
<1>5. \E z \in T : \A y \in T : z <= y
  BY <1>3, <1>4
<1> QED BY <1>5 DEF Min

\* What a sequence over S holds is in S.
LEMMA ItemOfSeq ==
  ASSUME NEW S, NEW q \in Seq(S), NEW i \in DOMAIN q
  PROVE  q[i] \in S /\ i \in 1 .. Len(q)
  OBVIOUS

\* What a configuration that passes ConfigOK says, part by part.
LEMMA ConfigFacts ==
  ASSUME Configured
  PROVE  /\ SourceNames \subseteq Nat \ {0}
         /\ \A n \in SourceNames : Config[n].type \in SourceTypes /\ Listed(n) \in Seq(Tables)
         /\ Instances \in Seq([proto : STRING, port : Nat, sources : SUBSET Nat, again : SUBSET (Nat \X Nat)])
         /\ redisCfg \in Seq([port : Nat, dump : Seq(Objects)])
         /\ \A i \in DOMAIN redisCfg : redisCfg[i].dump \in Seq({o \in Objects : Slot(o) \in Slots})
<1>1. ConfigOK(cfg)
  BY DEF Configured
<1>2. SourceNames \subseteq Nat \ {0}
  BY <1>1 DEF ConfigOK, SourceNames, Config
<1>3. \A n \in SourceNames : Config[n].type \in SourceTypes /\ Listed(n) \in Seq(Tables)
  BY <1>1 DEF ConfigOK, SourceNames, Config, Listed
<1>4. /\ Instances \in Seq([proto : STRING, port : Nat, sources : SUBSET Nat, again : SUBSET (Nat \X Nat)])
      /\ redisCfg \in Seq([port : Nat, dump : Seq(Objects)])
  BY <1>1 DEF ConfigOK, Instances, redisCfg
<1>5. ASSUME NEW i \in DOMAIN redisCfg
      PROVE  redisCfg[i].dump \in Seq({o \in Objects : Slot(o) \in Slots})
  <2>1. redisCfg[i].dump \in Seq(Objects)
    <3>1. redisCfg[i] \in [port : Nat, dump : Seq(Objects)]
      BY <1>4, ItemOfSeq
    <3> QED BY <3>1
  <2>2. \A k \in DOMAIN redisCfg[i].dump : Slot(redisCfg[i].dump[k]) \in Slots
    BY <1>1 DEF ConfigOK, redisCfg
  <2>3. \A k \in 1 .. Len(redisCfg[i].dump) : redisCfg[i].dump[k] \in {o \in Objects : Slot(o) \in Slots}
    BY <2>1, <2>2
  <2> QED BY <2>1, <2>3
<1> QED BY <1>2, <1>3, <1>4, <1>5

\* The configuration and the setup are fixed, and with them what is derived from
\* them alone.
LEMMA Rigid ==
  ASSUME cfg' = cfg, setup' = setup
  PROVE  /\ Instances' = Instances /\ SourceNames' = SourceNames /\ Config' = Config
         /\ redisCfg' = redisCfg /\ DbNames' = DbNames /\ Persist' = Persist /\ Entries' = Entries
         /\ \A i : selectSources(i)' = selectSources(i)
         /\ \A i : engineKey(i)' = engineKey(i)
         /\ \A i : DbOf(i)' = DbOf(i)
         /\ \A n : Listed(n)' = Listed(n)
         /\ \A n : Selected(n)' = Selected(n)
         /\ \A n, t : OffList(n, t)' = OffList(n, t)
         /\ Known' = Known /\ Configured' = Configured
  BY DEF Instances, SourceNames, Config, redisCfg, DbNames, Persist, Entries, selectSources,
         engineKey, DbOf, Listed, Selected, OffList, Known, Configured, Load, ConfigOK

\* No step changes the configuration or the setup.
LEMMA StepsAreRigid ==
  ASSUME [Next]_vars
  PROVE  cfg' = cfg /\ setup' = setup
  BY DEF Next, Start, ResetFails, AcceptFails, ConfigFails, Progress, Stop, Clients, RedisClients, StartRedis, RedisStarted,
         RedisFails, NextShard, UnknownSource, NextSource, SkipTable, LoadWhole, CreateCopy, FinishCopy,
         CopyLost, MissingTable, Conflict, LoadFails, EngineLoaded, Bind, BindFails, Run, End, CloseAll,
         ClientCreate, ClientInsert, ClientDrop, ClientCommand, ClientWrites, StartAddr, Replay, Seeded,
         vars, redis, sql

\* While there is something to load, the source it is loaded from and the table
\* that comes next are what they should be.
LEMMA LoadingFacts ==
  ASSUME StartInv, left # {}
  PROVE  /\ phase = "load"
         /\ Source \in left /\ Source \in SourceNames /\ Source \in selectSources(at)
         /\ \A n \in left : Source <= n
         /\ Config[Source].type \in SourceTypes
         /\ todo # <<>> => /\ Table \in Tables /\ Table \in Range(Listed(Source))
                           /\ Tail(todo) \in Seq(Tables)
                           /\ Range(todo) = {Table} \cup Range(Tail(todo))
<1>1. phase = "load" /\ left \subseteq SourceNames /\ left \subseteq selectSources(at) /\ todo \in Seq(Tables)
  BY DEF StartInv, LoadingState, ShardState, TypeOK
<1>2. SourceNames \subseteq Nat \ {0} /\ \A n \in SourceNames : Config[n].type \in SourceTypes
  BY ConfigFacts DEF StartInv
<1>3. Source \in left /\ \A n \in left : Source <= n
  BY <1>1, <1>2, MinIsLeast DEF Source
<1>4. ASSUME todo # <<>>
      PROVE  /\ Table \in Tables /\ Table \in Range(Listed(Source))
             /\ Tail(todo) \in Seq(Tables)
             /\ Range(todo) = {Table} \cup Range(Tail(todo))
  <2>1. Table = todo[1] /\ Table \in Tables /\ 1 \in DOMAIN todo /\ Tail(todo) \in Seq(Tables)
    BY <1>1, <1>4 DEF Table
  <2>2. Range(todo) \subseteq Range(Listed(Source))
    BY <1>4 DEF StartInv, LoadingState
  <2>3. Table \in Range(todo)
    BY <2>1 DEF Range
  <2>4. /\ DOMAIN todo = 1 .. Len(todo) /\ Len(todo) \in Nat /\ Len(todo) >= 1
        /\ DOMAIN Tail(todo) = 1 .. Len(todo) - 1
        /\ \A k \in 1 .. Len(todo) - 1 : Tail(todo)[k] = todo[k + 1]
    BY <1>1, <1>4
  <2>5. Range(todo) = {Table} \cup Range(Tail(todo))
    <3>1. ASSUME NEW k \in 1 .. Len(todo) PROVE todo[k] \in {Table} \cup Range(Tail(todo))
      <4>1. CASE k = 1
        BY <4>1, <2>1
      <4>2. CASE k # 1
        <5>1. k - 1 \in 1 .. Len(todo) - 1 /\ Tail(todo)[k - 1] = todo[k]
          BY <4>2, <2>4
        <5> QED BY <5>1, <2>4 DEF Range
      <4> QED BY <4>1, <4>2
    <3>2. ASSUME NEW k \in 1 .. Len(todo) - 1 PROVE Tail(todo)[k] \in Range(todo)
      <4>1. k + 1 \in DOMAIN todo /\ Tail(todo)[k] = todo[k + 1]
        BY <2>4
      <4> QED BY <4>1 DEF Range
    <3> QED BY <3>1, <3>2, <2>3, <2>4 DEF Range
  <2> QED BY <2>1, <2>2, <2>3, <2>5
<1> QED BY <1>1, <1>2, <1>3, <1>4

\* The next source to load is listed as the configuration says.
LEMMA FirstListedFacts ==
  ASSUME Configured, NEW ns, ns \subseteq SourceNames
  PROVE  /\ FirstListed(ns) \in Seq(Tables)
         /\ ns = {} => FirstListed(ns) = <<>>
         /\ ns # {} => FirstListed(ns) = Listed(Min(ns))
<1>1. ns # {} => Min(ns) \in SourceNames
  BY ConfigFacts, MinIsLeast
<1> QED BY <1>1, ConfigFacts DEF FirstListed

\* What is loaded next only depends on these variables.
LEMMA RigidLoading ==
  ASSUME cfg' = cfg, setup' = setup, left' = left, todo' = todo, seen' = seen
  PROVE  Source' = Source /\ Table' = Table /\ Passed' = Passed
  BY DEF Source, Table, Passed, OffList, Config

-----------------------------------------------------------------------------
\* However the process ends, it is down and what is left is in order.
LEMMA EndKeepsInv ==
  ASSUME StartInv, cfg' = cfg, setup' = setup,
         NEW reason \in {"fatal", "conflict", "stopped"}, End(reason)
  PROVE  StartInv'
<1> USE Rigid
<1>1. TypeOK'
  <2>0. at' \in 1 .. Len(Instances') + 1
    <3>1. Len(Instances) \in Nat
      BY ConfigFacts DEF StartInv
    <3> QED BY <3>1 DEF End
  <2>1. /\ setup' \in Setups /\ phase' \in {"down", "redis", "shards", "load", "bind", "running"}
        /\ left' \subseteq SourceNames' /\ todo' \in Seq(Tables)
        /\ seen' \subseteq Tables /\ engines' \subseteq DbNames' /\ bound' \subseteq DOMAIN Instances' /\ deaf' \subseteq bound'
        /\ starts' \in 0 .. MaxStarts
        /\ why' \in {"none", "fatal", "conflict", "stopped"}
    BY DEF End, StartInv, TypeOK
  <2>5. copying' \in BOOLEAN
    BY DEF End
  <2>2. db' \in [DbNames' -> [Tables -> Entries']]
    BY DEF End, StartInv, TypeOK, NoTables, Absent, Entries, Client
  <2>3. made' \in [tables : SUBSET (DbNames' \X Tables), filled : SUBSET (DbNames' \X Tables),
                      dropped : SUBSET (DbNames' \X Tables)]
    BY DEF End, StartInv, TypeOK, NothingMade
  <2>4. RedisTypeOK'
    <3>1. redisCfg' = redisCfg /\ Len(redisCfg) \in Nat
      BY ConfigFacts DEF StartInv
    <3>2. NoKey \in Values
      BY DEF NoKey, Values
    <3> QED BY <3>1, <3>2 DEF End, CloseAll, RedisTypeOK
  <2> QED BY <2>0, <2>1, <2>2, <2>3, <2>4, <2>5 DEF TypeOK
<1>2. Configured' /\ LoadingState' /\ ReplayState'
  BY DEF StartInv, LoadingState, ReplayState, End, CloseAll
<1>3. ShardState'
  BY DEF StartInv, ShardState, End, CloseAll
<1> QED BY <1>1, <1>2, <1>3 DEF StartInv

\* Steps that leave Redis alone keep what is said about it.
LEMMA RedisUnchanged ==
  ASSUME UNCHANGED redis
  PROVE  /\ RedisTypeOK' = RedisTypeOK /\ ReplayState' = ReplayState /\ AllStarted' = AllStarted
         /\ starting' = starting /\ started' = started
  BY DEF redis, RedisTypeOK, redisCfg, ReplayState, AllStarted

\* A listener stops accepting.
Deafens == \E i \in DOMAIN Instances : AcceptFails(i)

\* The steps of main and startShards that load nothing and end nothing.
LEMMA BetweenInstances ==
  ASSUME StartInv,
         Start \/ ResetFails \/ ConfigFails \/ RedisStarted \/ NextShard \/ EngineLoaded \/ Bind \/ Run \/ Deafens
  PROVE  StartInv'
<1>0. UNCHANGED redis /\ cfg' = cfg /\ setup' = setup
  BY DEF Start, ResetFails, ConfigFails, RedisStarted, NextShard, EngineLoaded, Bind, Run, Deafens, AcceptFails,
         redis
<1>1. /\ Instances' = Instances /\ SourceNames' = SourceNames /\ Config' = Config
      /\ redisCfg' = redisCfg /\ DbNames' = DbNames /\ Entries' = Entries
      /\ Known' = Known /\ Configured' = Configured
  BY <1>0, Rigid
<1>2. /\ \A i : selectSources(i)' = selectSources(i)
      /\ \A i : engineKey(i)' = engineKey(i)
      /\ \A n : Listed(n)' = Listed(n)
  BY <1>0, Rigid
<1>3. /\ RedisTypeOK' /\ ReplayState' /\ Configured' /\ AllStarted' = AllStarted
      /\ starting' = starting /\ started' = started
  BY <1>0, <1>1, RedisUnchanged DEF StartInv, TypeOK
<1>4. Instances \in Seq([proto : STRING, port : Nat, sources : SUBSET Nat, again : SUBSET (Nat \X Nat)]) /\ Len(Instances) \in Nat
      /\ DOMAIN Instances = 1 .. Len(Instances)
  BY ConfigFacts DEF StartInv
<1>5. CASE Start
  <2>1. TypeOK'
    <3>1. db' \in [DbNames' -> [Tables -> Entries']]
      <4>1. NoTables \in [Tables -> Entries]
        BY DEF NoTables, Absent, Entries, Client
      <4> QED BY <1>1, <1>5, <4>1 DEF Start, StartInv, TypeOK
    <3>2. made' \in [tables : SUBSET (DbNames' \X Tables), filled : SUBSET (DbNames' \X Tables),
                      dropped : SUBSET (DbNames' \X Tables)]
      BY <1>1, <1>5 DEF Start, NothingMade, StartInv, TypeOK
    <3>3. starts' \in 0 .. MaxStarts
      BY <1>5, StartupAssumption DEF Start, StartInv, TypeOK
    <3> QED BY <1>0, <1>1, <1>3, <1>5, <3>1, <3>2, <3>3 DEF Start, StartInv, TypeOK
  <2>2. LoadingState'
    BY <1>0, <1>5 DEF Start, StartInv, LoadingState
  <2>3. ShardState'
    BY <1>1, <1>2, <1>3, <1>5 DEF Start, StartInv, ShardState
  <2> QED BY <1>3, <2>1, <2>2, <2>3 DEF StartInv
<1>6. CASE ConfigFails
  <2>1. TypeOK'
    <3>3. starts' \in 0 .. MaxStarts
      BY <1>6, StartupAssumption DEF ConfigFails, StartInv, TypeOK
    <3> QED BY <1>0, <1>1, <1>3, <1>6, <3>3 DEF ConfigFails, sql, StartInv, TypeOK
  <2>2. LoadingState'
    BY <1>0, <1>6, RigidLoading DEF ConfigFails, sql, StartInv, LoadingState, Listed, Config
  <2>3. ShardState'
    BY <1>1, <1>2, <1>3, <1>6 DEF ConfigFails, sql, StartInv, ShardState
  <2> QED BY <1>3, <2>1, <2>2, <2>3 DEF StartInv
<1>7. CASE RedisStarted
  <2>1. TypeOK'
    BY <1>0, <1>1, <1>3, <1>7 DEF RedisStarted, sql, StartInv, TypeOK
  <2>2. LoadingState'
    BY <1>0, <1>7 DEF RedisStarted, sql, StartInv, LoadingState
  <2>3. ShardState'
    BY <1>1, <1>2, <1>3, <1>7 DEF RedisStarted, sql, StartInv, ShardState
  <2> QED BY <1>3, <2>1, <2>2, <2>3 DEF StartInv
<1>8. CASE NextShard
  <2>0. selectSources(at) \subseteq SourceNames =>
          /\ FirstListed(selectSources(at)) \in Seq(Tables)
          /\ selectSources(at) = {} => FirstListed(selectSources(at)) = <<>>
          /\ selectSources(at) # {} => FirstListed(selectSources(at)) = Listed(Min(selectSources(at)))
    BY FirstListedFacts DEF StartInv
  <2>1. TypeOK'
    BY <1>0, <1>1, <1>2, <1>3, <1>4, <1>8, <2>0 DEF NextShard, StartInv, TypeOK
  <2>2. LoadingState'
    BY <1>0, <1>1, <1>2, <1>8, <2>0 DEF NextShard, StartInv, LoadingState, Source
  <2>3. ShardState'
    BY <1>1, <1>2, <1>3, <1>4, <1>8 DEF NextShard, StartInv, ShardState, Known, TypeOK
  <2> QED BY <1>3, <2>1, <2>2, <2>3 DEF StartInv
<1>9. CASE EngineLoaded
  <2>0. engineKey(at) \in DbNames
    BY <1>9 DEF EngineLoaded, StartInv, ShardState, Known, DbNames
  <2>1. TypeOK'
    BY <1>0, <1>1, <1>3, <1>9, <2>0 DEF EngineLoaded, StartInv, TypeOK
  <2>2. LoadingState'
    BY <1>0, <1>9 DEF EngineLoaded, StartInv, LoadingState
  <2>3. ShardState'
    BY <1>1, <1>2, <1>3, <1>9 DEF EngineLoaded, StartInv, ShardState
  <2> QED BY <1>3, <2>1, <2>2, <2>3 DEF StartInv
<1>10. CASE Bind
  <2>1. TypeOK'
    BY <1>0, <1>1, <1>3, <1>4, <1>10 DEF Bind, StartInv, TypeOK, ShardState, Known
  <2>2. LoadingState'
    BY <1>0, <1>10 DEF Bind, StartInv, LoadingState
  <2>3. ShardState'
    BY <1>1, <1>2, <1>3, <1>4, <1>10 DEF Bind, StartInv, ShardState, Known
  <2> QED BY <1>3, <2>1, <2>2, <2>3 DEF StartInv
<1>11. CASE Run
  <2>1. TypeOK'
    BY <1>0, <1>1, <1>3, <1>11 DEF Run, StartInv, TypeOK
  <2>2. LoadingState'
    BY <1>0, <1>11 DEF Run, StartInv, LoadingState
  <2>3. ShardState'
    BY <1>1, <1>2, <1>3, <1>4, <1>11 DEF Run, StartInv, ShardState, TypeOK
  <2> QED BY <1>3, <2>1, <2>2, <2>3 DEF StartInv
<1>12. CASE ResetFails
  <2>0. UNCHANGED <<phase, at, left, todo, seen, copying, engines, bound, deaf, setup>>
    BY <1>12 DEF ResetFails
  <2>1. TypeOK'
    <3>1. db' \in [DbNames' -> [Tables -> Entries']]
      <4>1. NoTables \in [Tables -> Entries]
        BY DEF NoTables, Absent, Entries, Client
      <4> QED BY <1>1, <1>12, <4>1 DEF ResetFails, StartInv, TypeOK
    <3>2. made' \in [tables : SUBSET (DbNames' \X Tables), filled : SUBSET (DbNames' \X Tables),
                      dropped : SUBSET (DbNames' \X Tables)]
      BY <1>1, <1>12 DEF ResetFails, NothingMade, StartInv, TypeOK
    <3>3. starts' \in 0 .. MaxStarts /\ why' = "fatal"
      BY <1>12, StartupAssumption DEF ResetFails, StartInv, TypeOK
    <3> QED BY <1>0, <1>1, <1>3, <2>0, <3>1, <3>2, <3>3 DEF StartInv, TypeOK
  <2>2. LoadingState'
    BY <1>0, <2>0, RigidLoading DEF StartInv, LoadingState, Listed, Config
  <2>3. ShardState'
    BY <1>1, <1>2, <1>3, <2>0 DEF StartInv, ShardState
  <2> QED BY <1>3, <2>1, <2>2, <2>3 DEF StartInv
<1>13. CASE Deafens
  <2>0. /\ UNCHANGED <<phase, at, left, todo, seen, copying, engines, bound, db, made, starts, why, setup>>
        /\ deaf' \subseteq bound'
    BY <1>13 DEF Deafens, AcceptFails, StartInv, TypeOK
  <2>1. TypeOK'
    BY <1>0, <1>1, <1>3, <2>0 DEF StartInv, TypeOK
  <2>2. LoadingState'
    BY <1>0, <2>0, RigidLoading DEF StartInv, LoadingState, Listed, Config
  <2>3. ShardState'
    BY <1>1, <1>2, <1>3, <2>0 DEF StartInv, ShardState
  <2> QED BY <1>3, <2>1, <2>2, <2>3 DEF StartInv
<1> QED BY <1>5, <1>6, <1>7, <1>8, <1>9, <1>10, <1>11, <1>12, <1>13

\* One entry of the catalogs changes.
LEMMA EntrySet ==
  ASSUME NEW D, NEW T, NEW E, NEW f \in [D -> [T -> E]], NEW d \in D, NEW t \in T, NEW e \in E
  PROVE  [f EXCEPT ![d][t] = e] \in [D -> [T -> E]]
  OBVIOUS

\* What FinishCopy and ClientInsert make of an entry is an entry.
LEMMA EntryChanged ==
  ASSUME NEW e \in Entries
  PROVE  [e EXCEPT !.full = TRUE] \in Entries /\ [e EXCEPT !.rows = TRUE] \in Entries
  BY DEF Entries

\* The steps of a loader.
LEMMA WhileLoading ==
  ASSUME StartInv, NextSource \/ SkipTable \/ LoadWhole \/ CreateCopy \/ FinishCopy
  PROVE  StartInv'
<1>0. UNCHANGED redis /\ cfg' = cfg /\ setup' = setup /\ phase = "load" /\ phase' = "load"
  BY DEF NextSource, SkipTable, LoadWhole, CreateCopy, FinishCopy, Loading, redis
<1>1. /\ Instances' = Instances /\ SourceNames' = SourceNames /\ Config' = Config
      /\ redisCfg' = redisCfg /\ DbNames' = DbNames /\ Entries' = Entries
      /\ Known' = Known /\ Configured' = Configured
  BY <1>0, Rigid
<1>2. /\ \A i : selectSources(i)' = selectSources(i)
      /\ \A i : engineKey(i)' = engineKey(i)
      /\ \A n : Listed(n)' = Listed(n)
  BY <1>0, Rigid
<1>3. /\ RedisTypeOK' /\ ReplayState' /\ Configured' /\ AllStarted' = AllStarted
      /\ starting' = starting /\ started' = started
  BY <1>0, <1>1, RedisUnchanged DEF StartInv, TypeOK
<1>4. left # {}
  BY DEF NextSource, SkipTable, LoadWhole, CreateCopy, FinishCopy, Loading, StartInv, LoadingState
<1>5. /\ Source \in left /\ Source \in SourceNames /\ DbOf(at) \in DbNames
      /\ todo # <<>> => /\ Table \in Tables /\ Tail(todo) \in Seq(Tables)
                        /\ Range(todo) = {Table} \cup Range(Tail(todo))
  <2>1. DbOf(at) \in DbNames
    BY <1>0 DEF DbOf, DbNames, StartInv, ShardState, Known
  <2> QED BY <1>4, <2>1, LoadingFacts
<1>6. ShardState'
  <2>1. left' \subseteq left /\ UNCHANGED <<at, engines, bound>>
    BY DEF NextSource, SkipTable, LoadWhole, CreateCopy, FinishCopy
  <2> QED BY <1>0, <1>1, <1>2, <1>3, <2>1 DEF StartInv, ShardState
<1>7. CASE NextSource
  <2>0. /\ FirstListed(left') \in Seq(Tables)
        /\ left' = {} => FirstListed(left') = <<>>
        /\ left' # {} => FirstListed(left') = Listed(Min(left'))
    BY <1>7, FirstListedFacts DEF NextSource, StartInv, TypeOK
  <2>1. TypeOK'
    BY <1>0, <1>1, <1>3, <1>7, <2>0 DEF NextSource, StartInv, TypeOK
  <2>2. LoadingState'
    BY <1>0, <1>1, <1>2, <1>7, <2>0 DEF NextSource, StartInv, LoadingState, Source
  <2> QED BY <1>3, <1>6, <2>1, <2>2 DEF StartInv
<1>8. CASE SkipTable \/ LoadWhole \/ FinishCopy
  <2>0. todo # <<>> /\ todo' = Tail(todo) /\ left' = left /\ copying' = FALSE
    BY <1>8 DEF SkipTable, LoadWhole, FinishCopy, Loading, StartInv, LoadingState, TypeOK
  <2>1. LoadingState'
    <3>1. Range(todo') \subseteq Range(Listed(Source))
      BY <1>5, <2>0 DEF StartInv, LoadingState
    <3>2. Source' = Source
      BY <2>0 DEF Source
    <3> QED BY <1>0, <1>2, <1>4, <2>0, <3>1, <3>2 DEF LoadingState
  <2>2. db' \in [DbNames' -> [Tables -> Entries']]
    <3>1. CASE SkipTable
      BY <1>1, <3>1 DEF SkipTable, StartInv, TypeOK
    <3>2. CASE LoadWhole
      BY <1>1, <1>5, <2>0, <3>2 DEF LoadWhole, SetTable, StartInv, TypeOK, Entries
    <3>3. CASE FinishCopy
      <4>1. Here[Table] \in Entries /\ db \in [DbNames -> [Tables -> Entries]]
        BY <1>5, <2>0 DEF Here, StartInv, TypeOK
      <4>2. [Here[Table] EXCEPT !.full = TRUE] \in Entries
        BY <4>1, EntryChanged
      <4>3. db' = [db EXCEPT ![DbOf(at)][Table] = [Here[Table] EXCEPT !.full = TRUE]]
        BY <3>3 DEF FinishCopy, SetTable
      <4> QED BY <1>1, <1>5, <2>0, <4>1, <4>2, <4>3, EntrySet
    <3> QED BY <1>8, <3>1, <3>2, <3>3
  <2>3. seen' \subseteq Tables
    BY <1>5, <1>8, <2>0 DEF SkipTable, LoadWhole, FinishCopy, StartInv, TypeOK
  <2>4. UNCHANGED <<at, engines, bound, deaf, starts, why>>
    BY <1>8 DEF SkipTable, LoadWhole, FinishCopy
  <2>6. made' \in [tables : SUBSET (DbNames' \X Tables), filled : SUBSET (DbNames' \X Tables),
                   dropped : SUBSET (DbNames' \X Tables)]
    BY <1>1, <1>8 DEF SkipTable, LoadWhole, FinishCopy, TakenBack, StartInv, TypeOK
  <2>5. TypeOK'
    BY <1>0, <1>1, <1>3, <1>5, <2>0, <2>2, <2>3, <2>4, <2>6 DEF StartInv, TypeOK
  <2> QED BY <1>3, <1>6, <2>1, <2>5 DEF StartInv
<1>9. CASE CreateCopy
  <2>1. LoadingState'
    <3>1. Source' = Source /\ Passed' = Passed
      BY <1>0, <1>9, RigidLoading DEF CreateCopy
    <3> QED BY <1>0, <1>2, <1>4, <1>9, <3>1 DEF CreateCopy, Loading, StartInv, LoadingState
  <2>2. db' \in [DbNames' -> [Tables -> Entries']]
    BY <1>1, <1>5, <1>9 DEF CreateCopy, Loading, SetTable, StartInv, TypeOK, Entries
  <2>3. made' \in [tables : SUBSET (DbNames' \X Tables), filled : SUBSET (DbNames' \X Tables),
                   dropped : SUBSET (DbNames' \X Tables)]
    BY <1>1, <1>9 DEF CreateCopy, TakenBack, StartInv, TypeOK
  <2>4. TypeOK'
    BY <1>0, <1>1, <1>3, <1>9, <2>2, <2>3 DEF CreateCopy, StartInv, TypeOK
  <2> QED BY <1>3, <1>6, <2>1, <2>4 DEF StartInv
<1> QED BY <1>7, <1>8, <1>9

\* The steps of clients, and of Redis instances that start.
LEMMA Aside ==
  ASSUME StartInv, Clients \/ StartRedis \/ RedisClients
  PROVE  StartInv'
<1>0. /\ cfg' = cfg /\ setup' = setup
      /\ UNCHANGED <<phase, at, left, todo, seen, copying, engines, bound, deaf, starts, why>>
  BY DEF Clients, ClientCreate, ClientInsert, ClientDrop, StartRedis, RedisClients, ClientCommand,
         ClientWrites, StartAddr, Replay, Seeded, redis, sql
<1>1. /\ Instances' = Instances /\ SourceNames' = SourceNames /\ Config' = Config
      /\ redisCfg' = redisCfg /\ DbNames' = DbNames /\ Entries' = Entries
      /\ Known' = Known /\ Configured' = Configured
  BY <1>0, Rigid
<1>2. /\ \A i : selectSources(i)' = selectSources(i)
      /\ \A i : engineKey(i)' = engineKey(i)
      /\ \A n : Listed(n)' = Listed(n)
  BY <1>0, Rigid
<1>3. LoadingState'
  <2>1. Source' = Source /\ Passed' = Passed
    BY <1>0, RigidLoading
  <2> QED BY <1>0, <1>2, <2>1 DEF StartInv, LoadingState
<1>4. Configured'
  BY <1>1 DEF StartInv
<1>5. CASE Clients
  <2>0. UNCHANGED redis
    BY <1>5 DEF Clients, ClientCreate, ClientInsert, ClientDrop
  <2>1. PICK i \in DOMAIN Instances, t \in setup.clients :
          ClientCreate(i, t) \/ ClientInsert(i, t) \/ ClientDrop(i, t)
    BY <1>5 DEF Clients
  <2>2. DbOf(i) \in DbNames /\ t \in Tables
    BY StartupAssumption DEF DbOf, DbNames, StartInv, TypeOK
  <2>3. db' \in [DbNames' -> [Tables -> Entries']]
    <3>1. db[DbOf(i)][t] \in Entries /\ db \in [DbNames -> [Tables -> Entries]]
      BY <2>2 DEF StartInv, TypeOK
    <3>2. CASE ClientCreate(i, t)
      BY <1>1, <2>2, <3>1, <3>2 DEF ClientCreate, Entries, Client
    <3>3. CASE ClientInsert(i, t)
      <4>1. db' = [db EXCEPT ![DbOf(i)][t] = [db[DbOf(i)][t] EXCEPT !.rows = TRUE]]
        BY <3>3 DEF ClientInsert
      <4> QED BY <1>1, <2>2, <3>1, <4>1, EntryChanged, EntrySet
    <3>4. CASE ClientDrop(i, t)
      BY <1>1, <2>2, <3>1, <3>4 DEF ClientDrop, Entries, Client, Absent
    <3> QED BY <2>1, <3>2, <3>3, <3>4
  <2>4. made' \in [tables : SUBSET (DbNames' \X Tables), filled : SUBSET (DbNames' \X Tables),
                      dropped : SUBSET (DbNames' \X Tables)]
    <3>1. made \in [tables : SUBSET (DbNames \X Tables), filled : SUBSET (DbNames \X Tables),
                   dropped : SUBSET (DbNames \X Tables)]
      BY DEF StartInv, TypeOK
    <3>2. \A j \in DOMAIN Instances : DbOf(j) = DbOf(i) => <<engineKey(j), t>> \in DbNames \X Tables
      BY <2>2 DEF DbNames
    <3>3. CASE ClientCreate(i, t)
      BY <1>1, <2>2, <3>1, <3>3 DEF ClientCreate
    <3>4. CASE ClientInsert(i, t)
      BY <1>1, <2>2, <3>1, <3>4 DEF ClientInsert
    <3>5. CASE ClientDrop(i, t)
      BY <1>1, <3>1, <3>2, <3>5 DEF ClientDrop
    <3> QED BY <2>1, <3>3, <3>4, <3>5
  <2>5. RedisTypeOK' /\ ReplayState' /\ AllStarted' = AllStarted /\ starting' = starting /\ started' = started
    BY <2>0, RedisUnchanged DEF StartInv, TypeOK
  <2>6. TypeOK'
    BY <1>0, <1>1, <2>3, <2>4, <2>5 DEF StartInv, TypeOK
  <2>7. ShardState'
    BY <1>0, <1>1, <1>2, <2>5 DEF StartInv, ShardState
  <2> QED BY <1>3, <1>4, <2>5, <2>6, <2>7 DEF StartInv
<1>6. CASE StartRedis \/ RedisClients
  <2>0. UNCHANGED <<db, made>>
    BY <1>6 DEF StartRedis, RedisClients, sql
  <2>1. redisCfg \in Seq([port : Nat, dump : Seq(Objects)]) /\ Len(redisCfg) \in Nat
        /\ DOMAIN redisCfg = 1 .. Len(redisCfg)
    BY ConfigFacts DEF StartInv
  <2>2. RedisTypeOK /\ ReplayState
    BY DEF StartInv, TypeOK
  <2>3. RedisTypeOK' /\ ReplayState'
    <3>1. ASSUME NEW i \in DOMAIN redisCfg, StartAddr(i)
          PROVE  RedisTypeOK' /\ ReplayState'
      <4>1. redisCfg[i].dump \in Seq({o \in Objects : Slot(o) \in Slots})
        BY ConfigFacts DEF StartInv
      <4> QED BY <1>1, <2>1, <2>2, <3>1, <4>1 DEF StartAddr, RedisTypeOK, ReplayState
    <3>2. CASE Replay
      <4>1. Head(rest) \in Objects /\ Slot(Head(rest)) \in Slots
            /\ Tail(rest) \in Seq({o \in Objects : Slot(o) \in Slots})
        BY <2>2, <3>2 DEF Replay, ReplayState
      <4>2. \A v \in Values : Replayed(Head(rest), v) \in Values
        BY <4>1 DEF Replayed, Put, Values, Objects
      <4>3. starting \in DOMAIN redisCfg
        BY <2>1, <2>2, <3>2 DEF Replay, RedisTypeOK
      <4>4. keyspace' \in [DOMAIN redisCfg -> [Slots -> Values]]
        BY <2>2, <3>2, <4>1, <4>2, <4>3 DEF Replay, RedisTypeOK
      <4> QED BY <1>1, <2>1, <2>2, <3>2, <4>1, <4>4 DEF Replay, RedisTypeOK, ReplayState
    <3>3. CASE Seeded
      BY <1>1, <2>1, <2>2, <3>3 DEF Seeded, RedisTypeOK, ReplayState
    <3>4. CASE RedisClients
      <4>1. PICK i \in DOMAIN redisCfg, s \in setup.redisClients : ClientCommand(i, s)
        BY <3>4 DEF RedisClients
      <4>2. s \in Slots
        BY StartupAssumption DEF StartInv, TypeOK
      <4>3. \A v \in Values : Put("list", "client", v) \in Values
        BY DEF Put, Values, ObjectTypes
      <4>4. NoKey \in Values /\ [type |-> "string", from |-> {"client"}, ttl |-> FALSE] \in Values
        BY DEF NoKey, Values, ObjectTypes
      <4>5. keyspace[i][s] \in Values
        BY <4>2, <2>2 DEF RedisTypeOK
      <4>6. PICK v \in Values : ClientWrites(i, s, v)
        BY <4>1, <4>3, <4>4, <4>5 DEF ClientCommand
      <4> QED BY <1>1, <2>2, <4>2, <4>6 DEF ClientWrites, RedisTypeOK, ReplayState
    <3> QED BY <1>6, <3>1, <3>2, <3>3, <3>4 DEF StartRedis
  <2>4. TypeOK'
    BY <1>0, <1>1, <2>0, <2>3 DEF StartInv, TypeOK
  <2>5. ShardState'
    <3>1. CASE StartRedis
      BY <1>0, <1>1, <1>2, <3>1 DEF StartRedis, StartInv, ShardState
    <3>2. CASE RedisClients
      <4>1. UNCHANGED <<starting, started>>
        BY <3>2 DEF RedisClients, ClientCommand, ClientWrites
      <4>2. AllStarted' = AllStarted
        BY <1>1, <4>1 DEF AllStarted
      <4> QED BY <1>0, <1>1, <1>2, <4>1, <4>2 DEF StartInv, ShardState
    <3> QED BY <1>6, <3>1, <3>2
  <2> QED BY <1>3, <1>4, <2>3, <2>4, <2>5 DEF StartInv
<1> QED BY <1>5, <1>6

\* What ends the process.
Ends == RedisFails \/ UnknownSource \/ CopyLost \/ MissingTable \/ Conflict \/ LoadFails \/ BindFails \/ Stop

\* Every step is one of those above.
LEMMA StepsByKind ==
  ASSUME Next
  PROVE  \/ Start \/ ResetFails \/ ConfigFails \/ Deafens \/ RedisStarted \/ NextShard \/ EngineLoaded \/ Bind \/ Run
         \/ NextSource \/ SkipTable \/ LoadWhole \/ CreateCopy \/ FinishCopy
         \/ Clients \/ StartRedis \/ RedisClients
         \/ \E reason \in {"fatal", "conflict", "stopped"} : End(reason)
<1>1. ASSUME Ends
      PROVE  \E reason \in {"fatal", "conflict", "stopped"} : End(reason)
  <2> SUFFICES End("fatal") \/ End("conflict") \/ End("stopped")
    OBVIOUS
  <2> QED BY <1>1 DEF Ends, RedisFails, UnknownSource, CopyLost, MissingTable, Conflict, LoadFails, BindFails, Stop
<1> QED BY <1>1 DEF Next, Progress, Ends, Deafens

\* The process is down, and no start has been made.
LEMMA StartInvInitially ==
  ASSUME Init
  PROVE  StartInv
<1>1. Configured
  BY StartupAssumption DEF Init, Configured, Load
<1>2. Len(Instances) \in Nat /\ Len(redisCfg) \in Nat
  BY <1>1, ConfigFacts
<1>3. db \in [DbNames -> [Tables -> Entries]]
  BY DEF Init, NoTables, Absent, Entries, Client
<1>4. RedisTypeOK
  <2>1. NoKey \in Values
    BY DEF NoKey, Values
  <2> QED BY <1>2, <2>1 DEF Init, NothingStarted, RedisTypeOK
<1>5. TypeOK
  <2>1. starts \in 0 .. MaxStarts /\ at \in 1 .. Len(Instances) + 1
    BY <1>2, StartupAssumption DEF Init
  <2>2. made \in [tables : SUBSET (DbNames \X Tables), filled : SUBSET (DbNames \X Tables),
                  dropped : SUBSET (DbNames \X Tables)]
    BY DEF Init, NothingMade
  <2>3. copying \in BOOLEAN
    BY DEF Init
  <2> QED BY <1>3, <1>4, <2>1, <2>2, <2>3 DEF Init, TypeOK
<1>6. LoadingState /\ ShardState /\ ReplayState
  BY DEF Init, NothingStarted, LoadingState, ShardState, ReplayState
<1> QED BY <1>1, <1>5, <1>6 DEF StartInv

\* Every step keeps the invariant, whichever kind it is of.
LEMMA StartInvStep ==
  ASSUME StartInv, [Next]_vars
  PROVE  StartInv'
<1>0. cfg' = cfg /\ setup' = setup
  BY StepsAreRigid
<1>1. CASE Next
  <2>1. CASE \E reason \in {"fatal", "conflict", "stopped"} : End(reason)
    BY <1>0, <2>1, EndKeepsInv
  <2> QED BY <1>1, <2>1, StepsByKind, BetweenInstances, WhileLoading, Aside
<1>2. CASE UNCHANGED vars
  <2>0. /\ UNCHANGED redis
        /\ UNCHANGED <<setup, phase, at, left, todo, seen, copying, engines, bound, deaf, db, made, starts, why>>
    BY <1>2 DEF vars, sql
  <2>1. TypeOK' /\ ReplayState'
    BY <1>0, <2>0, RedisUnchanged, Rigid DEF StartInv, TypeOK
  <2>2. LoadingState'
    BY <1>0, <2>0, RigidLoading, Rigid DEF StartInv, LoadingState
  <2>3. ShardState' /\ Configured'
    BY <1>0, <2>0, RedisUnchanged, Rigid DEF StartInv, ShardState
  <2> QED BY <2>1, <2>2, <2>3 DEF StartInv
<1> QED BY <1>1, <1>2

\* StartInv is inductive.
LEMMA StartInvAlways == Spec => []StartInv
<1>1. Init => StartInv
  BY StartInvInitially
<1>2. StartInv /\ [Next]_vars => StartInv'
  BY StartInvStep
<1> QED BY <1>1, <1>2, PTL DEF Spec

(***************************************************************************)
(* Every variable stays in its set, whatever the configuration, the flags, *)
(* the failures and the clients (main, startShards, redis.Start and the    *)
(* loaders of internal/engine).                                            *)
(***************************************************************************)
THEOREM StartupTypeCorrect == Spec => []TypeOK
<1>1. StartInv => TypeOK
  BY DEF StartInv
<1> QED BY <1>1, StartInvAlways, PTL

(***************************************************************************)
(* With any number of instances of either kind: a process reaches its      *)
(* running state only with a listener bound for every SQL instance that    *)
(* has a port and every Redis instance started, and one that has ended     *)
(* holds none of them (startShards, redis.Start, the fatal errors of main).*)
(* A listener bound may have stopped accepting since (deaf).               *)
(***************************************************************************)
THEOREM StartsAllOrNone == Spec => []AllStartOrNone
<1>1. StartInv => AllStartOrNone
  <2> SUFFICES ASSUME StartInv PROVE AllStartOrNone
    OBVIOUS
  <2>1. Len(Instances) \in Nat /\ DOMAIN Instances = 1 .. Len(Instances)
    BY ConfigFacts DEF StartInv
  <2>2. 0 \notin DOMAIN redisCfg
    BY ConfigFacts DEF StartInv
  <2>3. phase = "running" => Open = DOMAIN redisCfg
    BY <2>2 DEF StartInv, ShardState, AllStarted, Open
  <2>4. phase = "running" => bound = {i \in DOMAIN Instances : Instances[i].port # 0}
    BY <2>1 DEF StartInv, ShardState
  <2>5. phase = "down" => bound = {} /\ Open = {}
    BY DEF StartInv, ShardState, Open
  <2> QED BY <2>3, <2>4, <2>5 DEF AllStartOrNone
<1> QED BY <1>1, StartInvAlways, PTL

-----------------------------------------------------------------------------
\* No source offers the table.
Unoffered(t) == \A n \in SourceNames : t \notin Selected(n)

(***************************************************************************)
(* What clients created and filled under a name of their own is as they    *)
(* left it, and on a file if there is one: it is the file that End keeps.  *)
(***************************************************************************)
MadeInv ==
  /\ Persist => \A m \in made.tables \cup made.filled : m[1] = FileDb
  /\ \A d \in DbNames, t \in Tables : Unoffered(t) =>
       /\ <<d, t>> \in made.tables => db[d][t].kind = "table" /\ db[d][t].from = Client
       /\ <<d, t>> \in made.filled => db[d][t].kind = "table" /\ db[d][t].rows

\* A loader only writes names that its source offers.
LEMMA LoadsOffered ==
  ASSUME StartInv, left # {}, todo # <<>>, ~Passed
  PROVE  Table \in Selected(Source) /\ ~Unoffered(Table)
<1>1. Table \in Range(Listed(Source)) /\ Source \in SourceNames
  BY LoadingFacts
<1>2. Table \in Selected(Source)
  BY <1>1 DEF Selected, Passed
<1> QED BY <1>1, <1>2 DEF Unoffered

\* No step but those of clients and -reset takes from clients what they made.
LEMMA MadeStep ==
  ASSUME StartInv, MadeInv, [Next]_vars
  PROVE  MadeInv'
<1>0. cfg' = cfg /\ setup' = setup
  BY StepsAreRigid
<1>1. DbNames' = DbNames /\ Persist' = Persist /\ \A i : DbOf(i)' = DbOf(i)
  BY <1>0, Rigid
<1>2. \A t : Unoffered(t)' = Unoffered(t)
  BY <1>0 DEF Unoffered, Selected, SourceNames, Config, Listed, OffList
<1>3. /\ db \in [DbNames -> [Tables -> Entries]]
      /\ made \in [tables : SUBSET (DbNames \X Tables), filled : SUBSET (DbNames \X Tables),
                  dropped : SUBSET (DbNames \X Tables)]
  BY DEF StartInv, TypeOK
<1>4. CASE UNCHANGED <<db, made>>
  BY <1>1, <1>2, <1>4 DEF MadeInv
<1>5. CASE Start \/ ResetFails
  BY <1>1, <1>2, <1>4, <1>5 DEF Start, ResetFails, NothingMade, MadeInv
<1>6. ASSUME NEW reason, End(reason) PROVE MadeInv'
  BY <1>1, <1>2, <1>3, <1>6 DEF End, NothingMade, MadeInv
<1>7. ASSUME NEW i \in DOMAIN Instances, NEW t \in setup.clients,
             ClientCreate(i, t) \/ ClientInsert(i, t) \/ ClientDrop(i, t)
      PROVE  MadeInv'
  <2>1. DbOf(i) \in DbNames /\ t \in Tables /\ (Persist => DbOf(i) = FileDb)
    BY StartupAssumption DEF DbOf, DbNames, StartInv, TypeOK
  <2>2. CASE ClientCreate(i, t)
    BY <1>1, <1>2, <1>3, <2>1, <2>2 DEF ClientCreate, MadeInv
  <2>3. CASE ClientInsert(i, t)
    BY <1>1, <1>2, <1>3, <2>1, <2>3 DEF ClientInsert, MadeInv, Entries
  <2>4. CASE ClientDrop(i, t)
    BY <1>1, <1>2, <1>3, <2>1, <2>4 DEF ClientDrop, MadeInv
  <2> QED BY <1>7, <2>2, <2>3, <2>4
<1>8. CASE LoadWhole \/ CreateCopy \/ FinishCopy
  <2>1. left # {} /\ todo # <<>> /\ ~Passed
    BY <1>8 DEF LoadWhole, CreateCopy, FinishCopy, Loading, StartInv, LoadingState
  <2>2. ~Unoffered(Table) /\ Table \in Tables
    BY <2>1, LoadsOffered, LoadingFacts
  <2>3. made'.tables = made.tables /\ made'.filled = made.filled
    BY <1>3, <1>8 DEF LoadWhole, CreateCopy, FinishCopy, TakenBack
  <2>4. \A d \in DbNames, t \in Tables : t # Table => db'[d][t] = db[d][t]
    BY <1>3, <1>8 DEF LoadWhole, CreateCopy, FinishCopy, SetTable
  <2> QED BY <1>1, <1>2, <2>2, <2>3, <2>4 DEF MadeInv
<1>9. ASSUME ConfigFails \/ RedisStarted \/ NextShard \/ EngineLoaded \/ Bind \/ Run \/ NextSource \/ SkipTable
             \/ Deafens \/ StartRedis \/ RedisClients \/ UNCHANGED vars
      PROVE  UNCHANGED <<db, made>>
  BY <1>9 DEF Deafens, AcceptFails, ConfigFails, RedisStarted, NextShard, EngineLoaded, Bind, Run, NextSource, SkipTable,
              StartRedis, RedisClients, vars, sql
<1>10. CASE Clients
  BY <1>7, <1>10 DEF Clients
<1> QED BY <1>4, <1>5, <1>6, <1>8, <1>9, <1>10, StepsByKind

(***************************************************************************)
(* What clients create and fill at runtime under a name that no source     *)
(* offers survives restarts, failed starts and crashes, for every          *)
(* configuration (NewFromSourcesAt over the persisted file, main).         *)
(***************************************************************************)
THEOREM ClientsKeepTables == Spec => []RuntimeSurvives
<1>1. Init => MadeInv
  BY DEF Init, MadeInv, NothingMade
<1>2. StartInv /\ MadeInv /\ [Next]_vars => MadeInv'
  BY MadeStep
<1>3. StartInv /\ MadeInv => RuntimeSurvives
  <2> SUFFICES ASSUME StartInv, MadeInv, NEW m \in made.tables,
                      \A n \in SourceNames : m[2] \notin Selected(n)
               PROVE  /\ db[m[1]][m[2]].kind = "table" /\ db[m[1]][m[2]].from = Client
                      /\ m \in made.filled => db[m[1]][m[2]].rows
    BY DEF RuntimeSurvives
  <2>1. PICK d \in DbNames, t \in Tables : m = <<d, t>>
    BY DEF StartInv, TypeOK
  <2> QED BY <2>1 DEF MadeInv, Unoffered
<1> QED BY <1>1, <1>2, <1>3, StartInvAlways, PTL DEF Spec

-----------------------------------------------------------------------------
(***************************************************************************)
(* On one file, no two source-sets offer the same table.  In memory every  *)
(* source-set has a database of its own.                                   *)
(***************************************************************************)
OwnTables ==
  Persist => \A i, j \in Known :
    engineKey(i) # engineKey(j) => Offered(i) \cap Offered(j) = {}

\* The table is there for the instance, complete and from the source that claims it.
Good(i, t) ==
  /\ db[DbOf(i)][t].kind # "none"
  /\ db[DbOf(i)][t].full
  /\ db[DbOf(i)][t].from = Claim(i, t)

(***************************************************************************)
(* An engine that is loaded has every table of its sources that clients    *)
(* did not drop, and the one being loaded every such table of seen; the sources that are done come before *)
(* those that are left, all of theirs is seen, and what the first of those *)
(* left offers is seen or still listed.                                    *)
(***************************************************************************)
Complete ==
  \A i \in Known : engineKey(i) \in engines => \A t \in Offered(i) : Dropped(i, t) \/ Good(i, t)

InOrder ==
  phase = "load" =>
    /\ \A t \in seen : Dropped(at, t) \/ Good(at, t)
    /\ \A n \in selectSources(at) \ left : Selected(n) \subseteq seen /\ \A m \in left : n < m
    /\ left # {} => Selected(Source) \subseteq seen \cup Range(todo)

OnlyClientsDrop == \A d \in DbNames, t \in Tables : db[d][t].kind = "none" => db[d][t].from = Client

LoadedInv == OnlyClientsDrop /\ (OwnTables => Complete /\ InOrder)

\* What sources offer and claim is fixed with the configuration.
LEMMA RigidTables ==
  ASSUME cfg' = cfg, setup' = setup
  PROVE  /\ OwnTables' = OwnTables
         /\ \A i : Offered(i)' = Offered(i)
         /\ \A i, t : Claim(i, t)' = Claim(i, t)
  BY DEF OwnTables, Offered, Claim, Persist, Known, engineKey, selectSources, Selected, Listed, OffList,
         SourceNames, Config, Instances

\* What the sources of an instance offer is in Tables.
LEMMA OfferedAreTables ==
  ASSUME Configured, NEW i \in Known
  PROVE  Offered(i) \subseteq Tables
<1> SUFFICES ASSUME NEW t \in Offered(i) PROVE t \in Tables
  OBVIOUS
<1>1. PICK n \in SourceNames : t \in Range(Listed(n))
  BY DEF Offered, Selected, Known
<1>2. Listed(n) \in Seq(Tables)
  BY ConfigFacts
<1> QED BY <1>1, <1>2 DEF Range

\* A table that is loaded is claimed by the source it is loaded from.
LEMMA FirstClaims ==
  ASSUME StartInv, InOrder, left # {}, todo # <<>>, ~Passed
  PROVE  /\ Table \notin seen /\ Table \in Offered(at)
         /\ Claim(at, Table) = Source
<1> DEFINE ns == {n \in selectSources(at) : Table \in Selected(n)}
<1>1. /\ Source \in left /\ Source \in selectSources(at) /\ \A n \in left : Source <= n
      /\ phase = "load"
  BY LoadingFacts
<1>2. Table \in Selected(Source)
  BY LoadsOffered
<1>3. Table \notin seen
  BY DEF Passed
<1>4. ns \subseteq left
  BY <1>1, <1>3 DEF InOrder
<1>5. ns \subseteq Nat
  BY <1>4, ConfigFacts DEF StartInv, TypeOK
<1>6. Source \in ns
  BY <1>1, <1>2
<1>7. Min(ns) \in ns /\ Min(ns) <= Source
  BY <1>5, <1>6, MinIsLeast
<1>8. Min(ns) = Source
  BY <1>1, <1>4, <1>5, <1>6, <1>7
<1> QED BY <1>1, <1>2, <1>3, <1>8 DEF Claim, Offered

\* A loader touches no table of an engine that is loaded, nor one it has seen.
LEMMA LoadsOwn ==
  ASSUME StartInv, InOrder, OwnTables, left # {}, todo # <<>>, ~Passed,
         db' \in [DbNames -> [Tables -> Entries]],
         \A d \in DbNames, t \in Tables : <<d, t>> # <<DbOf(at), Table>> => db'[d][t] = db[d][t]
  PROVE  /\ \A i \in Known : engineKey(i) \in engines =>
              \A t \in Offered(i) : db'[DbOf(i)][t] = db[DbOf(i)][t]
         /\ \A t \in seen : db'[DbOf(at)][t] = db[DbOf(at)][t]
<1>1. Table \notin seen /\ Table \in Offered(at) /\ seen \subseteq Tables
  BY FirstClaims DEF StartInv, TypeOK
<1>2. at \in Known /\ engineKey(at) \notin engines
  BY LoadingFacts DEF StartInv, ShardState
<1>3. DbOf(at) \in DbNames
  BY <1>2 DEF DbOf, DbNames, Known
<1>4. ASSUME NEW i \in Known, engineKey(i) \in engines, NEW t \in Offered(i)
      PROVE  db'[DbOf(i)][t] = db[DbOf(i)][t]
  <2>1. DbOf(i) \in DbNames /\ engineKey(i) # engineKey(at)
    BY <1>2, <1>4 DEF DbOf, DbNames, Known
  <2>2. t \in Tables
    BY OfferedAreTables DEF StartInv
  <2>3. <<DbOf(i), t>> # <<DbOf(at), Table>>
    BY <1>1, <1>2, <2>1 DEF OwnTables, DbOf
  <2> QED BY <2>1, <2>2, <2>3
<1> QED BY <1>1, <1>3, <1>4

\* The entries that are not there have no source.
LEMMA DropStep ==
  ASSUME StartInv, OnlyClientsDrop, [Next]_vars
  PROVE  OnlyClientsDrop'
<1>0. cfg' = cfg /\ setup' = setup
  BY StepsAreRigid
<1>1. DbNames' = DbNames /\ db \in [DbNames -> [Tables -> Entries]]
  BY <1>0, Rigid DEF StartInv, TypeOK
<1>2. \A t \in Tables : NoTables[t].from = Client
  BY DEF NoTables, Absent, Client
<1>3. ASSUME NEW reason, End(reason) PROVE OnlyClientsDrop'
  BY <1>1, <1>2, <1>3 DEF End, OnlyClientsDrop
<1>4. CASE Start \/ ResetFails
  BY <1>1, <1>2, <1>4 DEF Start, ResetFails, OnlyClientsDrop
<1>5. CASE Clients
  <2>1. PICK i \in DOMAIN Instances, t \in setup.clients :
          ClientCreate(i, t) \/ ClientInsert(i, t) \/ ClientDrop(i, t)
    BY <1>5 DEF Clients
  <2>2. CASE ClientInsert(i, t)
    BY <1>1, <2>2 DEF ClientInsert, OnlyClientsDrop, Entries
  <2>3. CASE ClientCreate(i, t) \/ ClientDrop(i, t)
    BY <1>1, <2>3 DEF ClientCreate, ClientDrop, OnlyClientsDrop, Absent, Client
  <2> QED BY <2>1, <2>2, <2>3
<1>6. CASE LoadWhole \/ CreateCopy
  <2>1. PICK e \in [kind : {"view", "table"}, from : {Source}, full : BOOLEAN, rows : {FALSE}] : SetTable(Table, e)
    BY <1>6 DEF LoadWhole, CreateCopy
  <2>2. e.kind # "none" /\ db' = [db EXCEPT ![DbOf(at)][Table] = e]
    BY <2>1 DEF SetTable
  <2> QED BY <1>1, <2>2 DEF OnlyClientsDrop
<1>7. CASE FinishCopy
  <2>1. left # {} /\ todo # <<>> /\ phase = "load"
    BY <1>7 DEF FinishCopy, StartInv, LoadingState
  <2>2. Here[Table] \in Entries
    BY <1>1, <2>1, LoadingFacts DEF Here, DbOf, DbNames, StartInv, ShardState, Known
  <2>3. [Here[Table] EXCEPT !.full = TRUE].kind = Here[Table].kind
        /\ [Here[Table] EXCEPT !.full = TRUE].from = Here[Table].from
    BY <2>2 DEF Entries
  <2> DEFINE e == [Here[Table] EXCEPT !.full = TRUE]
  <2>4. db' = [db EXCEPT ![DbOf(at)][Table] = e]
    BY <1>7 DEF FinishCopy, SetTable
  <2> HIDE DEF e
  <2>5. e.kind = Here[Table].kind /\ e.from = Here[Table].from
    BY <2>3 DEF e
  <2> QED BY <1>1, <2>4, <2>5 DEF OnlyClientsDrop, Here
<1>8. CASE db' = db
  BY <1>1, <1>8 DEF OnlyClientsDrop
<1>9. ASSUME ConfigFails \/ RedisStarted \/ NextShard \/ EngineLoaded \/ Bind \/ Run \/ NextSource \/ SkipTable
             \/ Deafens \/ StartRedis \/ RedisClients \/ UNCHANGED vars
      PROVE  db' = db
  BY <1>9 DEF Deafens, AcceptFails, ConfigFails, RedisStarted, NextShard, EngineLoaded, Bind, Run, NextSource, SkipTable,
              StartRedis, RedisClients, vars, sql
<1> QED BY <1>3, <1>4, <1>5, <1>6, <1>7, <1>8, <1>9, StepsByKind

\* Every step keeps what is loaded.
LEMMA LoadedStep ==
  ASSUME StartInv, OnlyClientsDrop, OwnTables, Complete, InOrder, [Next]_vars
  PROVE  Complete' /\ InOrder'
<1>0. cfg' = cfg /\ setup' = setup
  BY StepsAreRigid
<1>1. /\ Known' = Known /\ SourceNames' = SourceNames /\ DbNames' = DbNames
      /\ \A i : engineKey(i)' = engineKey(i) /\ DbOf(i)' = DbOf(i) /\ selectSources(i)' = selectSources(i)
      /\ \A i : Offered(i)' = Offered(i)
      /\ \A i, t : Claim(i, t)' = Claim(i, t)
      /\ \A n : Selected(n)' = Selected(n) /\ Listed(n)' = Listed(n)
  BY <1>0, Rigid, RigidTables
<1>2. /\ db \in [DbNames -> [Tables -> Entries]] /\ seen \subseteq Tables
      /\ \A i \in Known : DbOf(i) \in DbNames
  BY DEF StartInv, TypeOK, DbOf, DbNames, Known
<1>12. made \in [tables : SUBSET (DbNames \X Tables), filled : SUBSET (DbNames \X Tables),
                 dropped : SUBSET (DbNames \X Tables)]
  BY DEF StartInv, TypeOK
<1>3. \A n : Selected(n) \subseteq Range(Listed(n))
  BY DEF Selected
<1>4. ASSUME NEW reason, End(reason) PROVE Complete' /\ InOrder'
  BY <1>4 DEF End, Complete, InOrder
<1>5. CASE Start \/ ResetFails
  BY <1>1, <1>5 DEF Start, ResetFails, Complete, InOrder, StartInv, ShardState
<1>6. CASE Clients
  <2>1. PICK i \in DOMAIN Instances, t \in setup.clients :
          ClientCreate(i, t) \/ ClientInsert(i, t) \/ ClientDrop(i, t)
    BY <1>6 DEF Clients
  <2>2. UNCHANGED <<phase, at, left, todo, seen, engines>>
    BY <2>1 DEF ClientCreate, ClientInsert, ClientDrop
  <2>3. ASSUME NEW j \in Known, NEW u \in Tables, Dropped(j, u) \/ Good(j, u)
        PROVE  Dropped(j, u)' \/ Good(j, u)'
    <3>1. /\ DbOf(j)' = DbOf(j) /\ engineKey(j)' = engineKey(j) /\ Claim(j, u)' = Claim(j, u)
          /\ DbOf(j) \in DbNames /\ db[DbOf(j)][u] \in Entries
      BY <1>1, <1>2
    <3>2. made.dropped \subseteq made'.dropped
      BY <1>12, <2>1 DEF ClientCreate, ClientInsert, ClientDrop
    <3>3. CASE Dropped(j, u)
      BY <3>1, <3>2, <3>3 DEF Dropped
    <3>4. CASE Good(j, u) /\ ClientCreate(i, t)
      <4>1. <<DbOf(j), u>> # <<DbOf(i), t>>
        BY <3>4 DEF ClientCreate, Good
      <4>2. db'[DbOf(j)][u] = db[DbOf(j)][u]
        BY <1>2, <3>1, <3>4, <4>1 DEF ClientCreate
      <4> QED BY <3>1, <3>4, <4>2 DEF Good
    <3>5. CASE Good(j, u) /\ ClientInsert(i, t)
      <4>1. db'[DbOf(j)][u] \in {db[DbOf(j)][u], [db[DbOf(j)][u] EXCEPT !.rows = TRUE]}
        BY <1>2, <3>1, <3>5 DEF ClientInsert
      <4>2. /\ db'[DbOf(j)][u].kind = db[DbOf(j)][u].kind
            /\ db'[DbOf(j)][u].full = db[DbOf(j)][u].full
            /\ db'[DbOf(j)][u].from = db[DbOf(j)][u].from
        BY <3>1, <4>1 DEF Entries
      <4> QED BY <3>1, <3>5, <4>2 DEF Good
    <3>6. CASE Good(j, u) /\ ClientDrop(i, t) /\ DbOf(j) = DbOf(i) /\ u = t
      BY <1>12, <3>1, <3>6 DEF ClientDrop, Dropped, Known
    <3>7. CASE Good(j, u) /\ ClientDrop(i, t) /\ ~(DbOf(j) = DbOf(i) /\ u = t)
      <4>1. db'[DbOf(j)][u] = db[DbOf(j)][u]
        BY <1>2, <3>1, <3>7 DEF ClientDrop
      <4> QED BY <3>1, <3>7, <4>1 DEF Good
    <3> QED BY <2>1, <2>3, <3>3, <3>4, <3>5, <3>6, <3>7
  <2>4. Complete'
    <3>1. \A j \in Known : Offered(j) \subseteq Tables
      BY OfferedAreTables DEF StartInv
    <3> QED BY <1>1, <2>2, <2>3, <3>1 DEF Complete
  <2>5. InOrder'
    <3>1. Source' = Source /\ (phase = "load" => at \in Known)
      BY <2>2 DEF Source, StartInv, ShardState
    <3>2. phase = "load" => \A u \in seen : (Dropped(at, u) \/ Good(at, u))'
      BY <1>2, <2>2, <2>3, <3>1 DEF InOrder
    <3> QED BY <1>0, <1>1, <2>2, <3>1, <3>2 DEF InOrder
  <2> QED BY <2>4, <2>5
<1>7. CASE NextShard
  <2>1. Complete'
    BY <1>0, <1>1, <1>7 DEF NextShard, Complete, Dropped, Good
  <2>2. InOrder'
    <3>1. ASSUME phase' = "load" PROVE InOrder'
      <4>1. left' = selectSources(at) /\ todo' = FirstListed(left') /\ seen' = {} /\ at' = at
            /\ selectSources(at) \subseteq SourceNames
        BY <1>7, <3>1 DEF NextShard
      <4>2. left' # {} => todo' = Listed(Min(left'))
        BY <4>1, FirstListedFacts DEF StartInv
      <4> QED BY <1>1, <1>3, <4>1, <4>2 DEF InOrder, Source
    <3> QED BY <3>1 DEF InOrder
  <2> QED BY <2>1, <2>2
<1>8. CASE NextSource
  <2>1. Complete'
    BY <1>0, <1>1, <1>8 DEF NextSource, Complete, Dropped, Good
  <2>2. /\ left # {} /\ Source \in left /\ \A n \in left : Source <= n
        /\ left \subseteq Nat /\ left' = left \ {Source} /\ phase = "load" /\ seen' = seen /\ at' = at
        /\ todo = <<>> /\ at \in Known
    BY <1>8, LoadingFacts, ConfigFacts DEF NextSource, StartInv, TypeOK, ShardState
  <2>3. left' # {} => todo' = Listed(Min(left'))
    BY <1>8, FirstListedFacts DEF NextSource, StartInv, TypeOK
  <2>4. Selected(Source) \subseteq seen
    BY <2>2 DEF InOrder, Range
  <2>5. \A n \in selectSources(at) \ left' : Selected(n) \subseteq seen /\ \A m \in left' : n < m
    BY <2>2, <2>4 DEF InOrder
  <2>6. \A t \in seen : (Dropped(at, t) \/ Good(at, t))'
    BY <1>0, <1>1, <1>8, <2>2 DEF NextSource, InOrder, Dropped, Good
  <2> QED BY <1>0, <1>1, <1>3, <2>1, <2>2, <2>3, <2>5, <2>6 DEF InOrder, Source
<1>9. CASE SkipTable
  <2>1. Complete'
    BY <1>0, <1>1, <1>9 DEF SkipTable, Complete, Dropped, Good
  <2>2. /\ left # {} /\ todo # <<>> /\ Range(todo) = {Table} \cup Range(Tail(todo))
        /\ todo' = Tail(todo) /\ UNCHANGED <<phase, left, seen, at, db, made>> /\ phase = "load"
    BY <1>9, LoadingFacts DEF SkipTable, Loading, StartInv, LoadingState
  <2>3. Selected(Source) \subseteq seen \cup Range(todo')
    BY <1>9, <2>2 DEF SkipTable, Passed, Selected, InOrder
  <2>4. Source' = Source
    BY <2>2 DEF Source
  <2> QED BY <1>0, <1>1, <2>1, <2>2, <2>3, <2>4 DEF InOrder, Dropped, Good
<1>10. CASE LoadWhole \/ CreateCopy \/ FinishCopy
  <2>1. /\ left # {} /\ todo # <<>> /\ ~Passed /\ phase = "load" /\ phase' = "load"
        /\ UNCHANGED <<left, at, engines>>
    BY <1>10 DEF LoadWhole, CreateCopy, FinishCopy, Loading, StartInv, LoadingState
  <2>2. /\ at \in Known /\ DbOf(at) \in DbNames /\ Source' = Source /\ Source \in SourceNames /\ Table \in Tables
        /\ Range(todo) = {Table} \cup Range(Tail(todo))
    BY <1>2, <2>1, LoadingFacts DEF Source, StartInv, ShardState
  <2>3. \A d \in DbNames, t \in Tables : <<d, t>> # <<DbOf(at), Table>> => db'[d][t] = db[d][t]
    BY <1>2, <1>10 DEF LoadWhole, CreateCopy, FinishCopy, SetTable
  <2>4. db' \in [DbNames -> [Tables -> Entries]]
    BY <1>0, <1>1, StartInvStep, Rigid DEF StartInv, TypeOK
  <2>5. /\ \A i \in Known : engineKey(i) \in engines =>
             \A t \in Offered(i) : db'[DbOf(i)][t] = db[DbOf(i)][t]
        /\ \A t \in seen : db'[DbOf(at)][t] = db[DbOf(at)][t]
    BY <2>1, <2>3, <2>4, LoadsOwn
  <2>10. \A k, t : <<k, t>> # <<engineKey(at), Table>> => (<<k, t>> \in made.dropped <=> <<k, t>> \in made'.dropped)
    BY <1>12, <1>10 DEF LoadWhole, CreateCopy, FinishCopy, TakenBack
  <2>11. engineKey(at) \notin engines /\ Table \notin seen
    BY <2>1, FirstClaims DEF StartInv, ShardState
  <2>6. Complete'
    <3>1. ASSUME NEW i \in Known, engineKey(i) \in engines, NEW t \in Offered(i)
          PROVE  (Dropped(i, t) \/ Good(i, t))'
      <4>1. db'[DbOf(i)][t] = db[DbOf(i)][t]
        BY <2>5, <3>1
      <4>2. Dropped(i, t)' <=> Dropped(i, t)
        BY <1>1, <2>10, <2>11, <3>1 DEF Dropped
      <4>3. Good(i, t)' <=> Good(i, t)
        BY <1>1, <4>1 DEF Good
      <4> QED BY <3>1, <4>2, <4>3 DEF Complete
    <3> QED BY <1>1, <2>1, <3>1 DEF Complete
  <2>7. \A t \in seen : (Dropped(at, t) \/ Good(at, t))'
    <3>1. ASSUME NEW t \in seen PROVE (Dropped(at, t) \/ Good(at, t))'
      <4>1. db'[DbOf(at)][t] = db[DbOf(at)][t]
        BY <2>5
      <4>2. Dropped(at, t)' <=> Dropped(at, t)
        BY <1>1, <2>1, <2>10, <2>11 DEF Dropped
      <4>3. Good(at, t)' <=> Good(at, t)
        BY <1>1, <2>1, <4>1 DEF Good
      <4> QED BY <2>1, <4>2, <4>3 DEF InOrder
    <3> QED BY <3>1
  <2>8. CASE CreateCopy
    <3>1. seen' = seen /\ todo' = todo
      BY <2>8 DEF CreateCopy
    <3> QED BY <1>0, <1>1, <2>1, <2>2, <2>6, <2>7, <3>1 DEF InOrder
  <2>9. CASE LoadWhole \/ FinishCopy
    <3>1. seen' = seen \cup {Table} /\ todo' = Tail(todo)
      BY <2>9 DEF LoadWhole, FinishCopy
    <3>2. Claim(at, Table) = Source
      BY <2>1, FirstClaims
    <3>3. ASSUME NEW t, t = Table PROVE Good(at, t)'
      <4>1. CASE LoadWhole
        BY <1>1, <1>2, <2>1, <2>2, <3>2, <3>3, <4>1 DEF LoadWhole, SetTable, Dropped, Good
      <4>2. CASE FinishCopy
        <5> DEFINE e == [Here[Table] EXCEPT !.full = TRUE]
        <5>1. Here[Table] \in Entries /\ Here[Table].from = Source
          BY <1>2, <2>2, <4>2 DEF FinishCopy, Here
        <5>2. Here[Table].kind # "none"
          BY <2>2, <5>1, ConfigFacts DEF OnlyClientsDrop, Here, Client, StartInv
        <5>3. e.kind = Here[Table].kind /\ e.from = Source /\ e.full = TRUE
          BY <5>1 DEF Entries
        <5>4. db' = [db EXCEPT ![DbOf(at)][Table] = e]
          BY <4>2 DEF FinishCopy, SetTable
        <5> HIDE DEF e
        <5> QED BY <1>1, <1>2, <2>1, <2>2, <3>2, <3>3, <5>2, <5>3, <5>4 DEF Good, Here
      <4> QED BY <2>9, <4>1, <4>2
    <3>4. Selected(Source) \subseteq seen' \cup Range(todo')
      BY <2>1, <2>2, <3>1 DEF InOrder
    <3>5. InOrder'
      BY <1>0, <1>1, <2>1, <2>2, <2>7, <3>1, <3>3, <3>4 DEF InOrder
    <3> QED BY <2>6, <3>5
  <2> QED BY <1>10, <2>8, <2>9
<1>11. CASE EngineLoaded
  <2>1. InOrder'
    BY <1>11 DEF EngineLoaded, InOrder
  <2>2. at \in Known /\ left = {} /\ db' = db /\ made' = made /\ engines' = engines \cup {engineKey(at)} /\ phase = "load"
    BY <1>11 DEF EngineLoaded, StartInv, ShardState
  <2>3. \A t \in Offered(at) : Dropped(at, t) \/ Good(at, t)
    BY <2>2 DEF InOrder, Offered
  <2>4. \A i \in Known : engineKey(i) = engineKey(at) =>
          Offered(i) = Offered(at) /\ DbOf(i) = DbOf(at) /\ \A t : Claim(i, t) = Claim(at, t)
    <3>1. \A i \in Known : engineKey(i) = engineKey(at) => selectSources(i) = selectSources(at)
      BY DEF engineKey
    <3> QED BY <3>1 DEF Offered, Claim, DbOf
  <2>5. Complete'
    BY <1>0, <1>1, <2>2, <2>3, <2>4 DEF Complete, Dropped, Good
  <2> QED BY <2>1, <2>5
<1>13. CASE ConfigFails \/ RedisStarted \/ Bind \/ Run \/ Deafens \/ StartRedis \/ RedisClients \/ UNCHANGED vars
  <2>1. UNCHANGED <<db, made, engines>> /\ (phase' = "load" => phase = "load" /\ UNCHANGED <<left, todo, seen, at>>)
    BY <1>13 DEF Deafens, AcceptFails, ConfigFails, RedisStarted, Bind, Run, StartRedis, RedisClients, vars, sql
  <2>2. Complete'
    BY <1>0, <1>1, <2>1 DEF Complete, Dropped, Good
  <2>3. InOrder'
    BY <1>0, <1>1, <2>1 DEF InOrder, Dropped, Good, Source
  <2> QED BY <2>2, <2>3
<1> QED BY <1>4, <1>5, <1>6, <1>7, <1>8, <1>9, <1>10, <1>11, <1>13, StepsByKind

\* LoadedInv is inductive relative to StartInv.
LEMMA LoadedInvAlways == Spec => []LoadedInv
<1>1. Init => LoadedInv
  BY DEF Init, LoadedInv, OnlyClientsDrop, Complete, InOrder, NoTables, Absent, Client
<1>2. StartInv /\ LoadedInv /\ [Next]_vars => LoadedInv'
  <2> SUFFICES ASSUME StartInv, LoadedInv, [Next]_vars PROVE LoadedInv'
    OBVIOUS
  <2>1. OwnTables' = OwnTables
    BY StepsAreRigid, RigidTables
  <2>2. OnlyClientsDrop'
    BY DropStep DEF LoadedInv
  <2>3. OwnTables => Complete' /\ InOrder'
    BY LoadedStep DEF LoadedInv
  <2> QED BY <2>1, <2>2, <2>3 DEF LoadedInv
<1> QED BY <1>1, <1>2, StartInvAlways, PTL DEF Spec

(***************************************************************************)
(* Every served instance serves its own data: each table its sources offer *)
(* is there unless a client has dropped it since, complete and from the    *)
(* source that claims it first, whenever the process was stopped before    *)
(* and whatever clients left behind, for every configuration in which the  *)
(* source-sets that share a file offer no table twice (startShards,        *)
(* engineFor, NewFromSourcesAt, register, attachSnapshot, clickhousePull). *)
(* Without that premise the code does not keep it: run startup_shards.     *)
(***************************************************************************)
THEOREM ServesOwnTables == Spec => [](OwnTables => ServesItsSources)
<1>1. StartInv /\ LoadedInv => (OwnTables => ServesItsSources)
  BY DEF StartInv, ShardState, LoadedInv, Complete, Good, Dropped, ServesItsSources
<1> QED BY <1>1, LoadedInvAlways, StartInvAlways, PTL

-----------------------------------------------------------------------------
(***************************************************************************)
(* The flags.  The elements of a finite set have places in the order of    *)
(* their ranks, each one of its own.                                       *)
(***************************************************************************)
Place(K, rank, k) == Cardinality({j \in K : rank[j] <= rank[k]})

\* A later element has a greater place.
LEMMA PlaceGrows ==
  ASSUME NEW K, IsFiniteSet(K), NEW rank \in [K -> Nat], NEW h \in K, NEW k \in K, rank[h] < rank[k]
  PROVE  Place(K, rank, h) < Place(K, rank, k)
<1> DEFINE A == {j \in K : rank[j] <= rank[h]}
           B == {j \in K : rank[j] <= rank[k]}
<1>1. A \subseteq B /\ k \in B /\ k \notin A
  <2>1. \A x, y, z \in Nat : x <= y /\ y < z => x <= z
    OBVIOUS
  <2>2. \A x, y \in Nat : x < y => ~(y <= x) /\ y <= y
    OBVIOUS
  <2>3. \A j \in K : rank[j] \in Nat
    OBVIOUS
  <2> QED BY <2>1, <2>2, <2>3
<1>2. IsFiniteSet(B)
  <2>1. B \subseteq K
    OBVIOUS
  <2> HIDE DEF B
  <2> QED BY <2>1, FS_Subset
<1> HIDE DEF A, B
<1>3. Cardinality(A) < Cardinality(B)
  <2>1. IsFiniteSet(A) /\ Cardinality(A) <= Cardinality(B) /\ Cardinality(A) # Cardinality(B)
    BY <1>1, <1>2, FS_Subset
  <2>2. Cardinality(A) \in Nat /\ Cardinality(B) \in Nat
    BY <1>2, <2>1, FS_CardinalityType
  <2> QED BY <2>1, <2>2
<1> QED BY <1>3 DEF A, B, Place

\* Ordered has every element at its place, and at every place the element whose
\* place it is.
LEMMA OrderedFacts ==
  ASSUME NEW K, IsFiniteSet(K), NEW rank \in [K -> Nat], \A h, k \in K : rank[h] = rank[k] => h = k
  PROVE  /\ Cardinality(K) \in Nat
         /\ \A k \in K : Place(K, rank, k) \in 1 .. Cardinality(K) /\ Ordered(K, rank)[Place(K, rank, k)] = k
         /\ \A n \in 1 .. Cardinality(K) : Ordered(K, rank)[n] \in K /\ Place(K, rank, Ordered(K, rank)[n]) = n
<1> DEFINE N == Cardinality(K)
           pl == [k \in K |-> Place(K, rank, k)]
<1>1. N \in Nat
  BY FS_CardinalityType
<1>2. ASSUME NEW k \in K PROVE Place(K, rank, k) \in 1 .. N
  <2> DEFINE A == {j \in K : rank[j] <= rank[k]}
  <2>1. A \subseteq K /\ k \in A
    <3>1. rank[k] \in Nat
      OBVIOUS
    <3> QED BY <3>1
  <2> HIDE DEF A
  <2>2. IsFiniteSet(A) /\ Cardinality(A) <= N
    BY <2>1, FS_Subset
  <2>3. Cardinality(A) \in Nat
    BY <2>2, FS_CardinalityType
  <2>4. Cardinality(A) # 0
    BY <2>1, <2>2, FS_EmptySet
  <2>5. Cardinality(A) \in 1 .. N
    <3> HIDE DEF N
    <3> QED BY <1>1, <2>2, <2>3, <2>4
  <2> QED BY <2>5 DEF A, Place
<1>3. \A h, k \in K : Place(K, rank, h) = Place(K, rank, k) => h = k
  <2> SUFFICES ASSUME NEW h \in K, NEW k \in K, h # k PROVE Place(K, rank, h) # Place(K, rank, k)
    OBVIOUS
  <2>1. rank[h] \in Nat /\ rank[k] \in Nat /\ rank[h] # rank[k]
    OBVIOUS
  <2>2. rank[h] < rank[k] \/ rank[k] < rank[h]
    BY <2>1
  <2>3. Place(K, rank, h) \in Nat /\ Place(K, rank, k) \in Nat
    BY <1>1, <1>2
  <2>4. Place(K, rank, h) < Place(K, rank, k) \/ Place(K, rank, k) < Place(K, rank, h)
    BY <2>2, PlaceGrows
  <2> QED BY <2>3, <2>4
<1> HIDE DEF N
<1>4. \A n \in 1 .. N : \E k \in K : Place(K, rank, k) = n
  <2>1. pl \in [K -> 1 .. N] /\ \A k \in K : pl[k] = Place(K, rank, k)
    BY <1>2
  <2> HIDE DEF pl
  <2>2. pl \in Injection(K, 1 .. N)
    BY <1>3, <2>1 DEF Injection, IsInjective
  <2>3. IsFiniteSet(1 .. N) /\ Cardinality(1 .. N) = N
    <3>1. IsFiniteSet(1 .. N) /\ Cardinality(1 .. N) = IF 1 > N THEN 0 ELSE N - 1 + 1
      BY <1>1, FS_Interval
    <3> QED BY <1>1, <3>1
  <2>4. pl \in Surjection(K, 1 .. N)
    BY <2>2, <2>3, FS_Injection DEF N
  <2> QED BY <2>1, <2>4 DEF Surjection
<1>5. \A n \in 1 .. N : Ordered(K, rank)[n] = CHOOSE k \in K : Place(K, rank, k) = n
  BY DEF Ordered, N, Place
<1>6. \A n \in 1 .. N : Ordered(K, rank)[n] \in K /\ Place(K, rank, Ordered(K, rank)[n]) = n
  BY <1>4, <1>5
<1>7. \A k \in K : Ordered(K, rank)[Place(K, rank, k)] = k
  BY <1>2, <1>3, <1>6
<1> QED BY <1>1, <1>2, <1>6, <1>7 DEF N

\* The number of a position among those of K.
Number(K, k) == Cardinality({j \in K : j <= k})

\* The items of s at the positions of K, each under its number.
Lists(items, K, s) ==
  /\ DOMAIN items = 1 .. Cardinality(K)
  /\ \A k \in K : Number(K, k) \in 1 .. Cardinality(K) /\ items[Number(K, k)] = s[k]
  /\ \A n \in 1 .. Cardinality(K) : \E k \in K : Number(K, k) = n /\ items[n] = s[k]

\* ItemsAt has the items at the positions of K, each under its number.
LEMMA ItemsAtFacts ==
  ASSUME NEW s, NEW K, K \subseteq Nat, IsFiniteSet(K)
  PROVE  Lists(ItemsAt(s, K), K, s) /\ \A h, k \in K : h < k => Number(K, h) < Number(K, k)
<1> DEFINE rank == [k \in K |-> k]
<1>1. rank \in [K -> Nat] /\ \A h, k \in K : rank[h] = rank[k] => h = k
  OBVIOUS
<1>2. \A k \in K : Place(K, rank, k) = Number(K, k)
  <2>1. \A k \in K : {j \in K : rank[j] <= rank[k]} = {j \in K : j <= k}
    OBVIOUS
  <2> QED BY <2>1 DEF Place, Number
<1> HIDE DEF rank
<1>3. /\ Cardinality(K) \in Nat
      /\ \A k \in K : Place(K, rank, k) \in 1 .. Cardinality(K) /\ Ordered(K, rank)[Place(K, rank, k)] = k
      /\ \A n \in 1 .. Cardinality(K) : Ordered(K, rank)[n] \in K /\ Place(K, rank, Ordered(K, rank)[n]) = n
  BY <1>1, OrderedFacts
<1>4. ItemsAt(s, K) = [n \in 1 .. Cardinality(K) |-> s[Ordered(K, rank)[n]]]
  BY Zenon DEF ItemsAt, Positions, rank
<1>5. \A h, k \in K : h < k => Number(K, h) < Number(K, k)
  <2>1. \A k \in K : rank[k] = k
    BY DEF rank
  <2> SUFFICES ASSUME NEW h \in K, NEW k \in K, h < k PROVE Number(K, h) < Number(K, k)
    OBVIOUS
  <2>2. rank[h] < rank[k]
    BY <2>1
  <2>3. Place(K, rank, h) < Place(K, rank, k)
    BY <1>1, <2>2, PlaceGrows
  <2> QED BY <1>2, <2>3
<1>6. DOMAIN ItemsAt(s, K) = 1 .. Cardinality(K)
  BY <1>4
<1>7. ASSUME NEW n \in 1 .. Cardinality(K) PROVE ItemsAt(s, K)[n] = s[Ordered(K, rank)[n]]
  BY <1>4
<1> HIDE DEF ItemsAt
<1>8. ASSUME NEW k \in K PROVE Number(K, k) \in 1 .. Cardinality(K) /\ ItemsAt(s, K)[Number(K, k)] = s[k]
  BY <1>2, <1>3, <1>7
<1>9. ASSUME NEW n \in 1 .. Cardinality(K) PROVE \E k \in K : Number(K, k) = n /\ ItemsAt(s, K)[n] = s[k]
  BY <1>2, <1>3, <1>7
<1> QED BY <1>5, <1>6, <1>8, <1>9 DEF Lists

\* There are as many of them as positions.
LEMMA ItemsAtLen ==
  ASSUME NEW s, NEW K, Cardinality(K) \in Nat
  PROVE  Len(ItemsAt(s, K)) = Cardinality(K)
<1> DEFINE N == Cardinality(K)
           g(n) == s[Positions(K)[n]]
<1>1. N \in Nat
  OBVIOUS
<1>2. ItemsAt(s, K) = [n \in 1 .. N |-> g(n)]
  BY DEF ItemsAt
<1> HIDE DEF N, g
<1>3. Len([n \in 1 .. N |-> g(n)]) = N
  BY <1>1
<1> QED BY <1>2, <1>3 DEF N

\* Up to a hundred names have ranks of their own,
LEMMA RankIsOne ==
  ASSUME NEW a \in 0 .. 99, NEW b \in 0 .. 99, StringRank(a) = StringRank(b)
  PROVE  a = b
BY DEF StringRank

\* and ByName of as many items has them all; up to ten stay where they were.
LEMMA ByNameFacts ==
  ASSUME NEW L \in Nat, L <= 100, NEW s, DOMAIN s = 1 .. L
  PROVE  /\ DOMAIN ByName(s) = 1 .. L
         /\ \A k \in 1 .. L : \E p \in 1 .. L : ByName(s)[p] = s[k]
         /\ \A p \in 1 .. L : \E k \in 1 .. L : ByName(s)[p] = s[k]
         /\ L <= 10 => \A k \in 1 .. L : ByName(s)[k] = s[k]
<1> DEFINE K == 1 .. L
           rank == [k \in K |-> StringRank(k - 1)]
<1>1. IsFiniteSet(K) /\ Cardinality(K) = L
  <2>1. IsFiniteSet(1 .. L) /\ Cardinality(1 .. L) = IF 1 > L THEN 0 ELSE L - 1 + 1
    BY FS_Interval
  <2> QED BY <2>1
<1>2. rank \in [K -> Nat]
  <2>1. \A n \in 0 .. 99 : StringRank(n) \in Nat
    BY DEF StringRank
  <2>2. \A k \in K : k - 1 \in 0 .. 99
    OBVIOUS
  <2> QED BY <2>1, <2>2
<1>3. \A h, k \in K : rank[h] = rank[k] => h = k
  <2> SUFFICES ASSUME NEW h \in K, NEW k \in K, rank[h] = rank[k] PROVE h = k
    OBVIOUS
  <2>1. h - 1 \in 0 .. 99 /\ k - 1 \in 0 .. 99 /\ StringRank(h - 1) = StringRank(k - 1)
    OBVIOUS
  <2>2. h - 1 = k - 1
    BY <2>1, RankIsOne
  <2> QED BY <2>2
<1>4. ByName(s) = [p \in K |-> s[Ordered(K, rank)[p]]]
  BY Zenon DEF ByName
<1>5. L <= 10 => \A k \in K : Place(K, rank, k) = k
  <2> SUFFICES ASSUME L <= 10, NEW k \in K PROVE Place(K, rank, k) = k
    OBVIOUS
  <2>1. \A j \in K : rank[j] = 11 * (j - 1)
    BY DEF StringRank
  <2>2. {j \in K : rank[j] <= rank[k]} = 1 .. k
    <3> HIDE DEF rank
    <3> QED BY <2>1
  <2>3. Cardinality(1 .. k) = k
    <3>1. Cardinality(1 .. k) = IF 1 > k THEN 0 ELSE k - 1 + 1
      BY FS_Interval
    <3> QED BY <3>1
  <2> QED BY <2>2, <2>3 DEF Place
<1> HIDE DEF rank
<1>6. /\ \A k \in K : Place(K, rank, k) \in K /\ Ordered(K, rank)[Place(K, rank, k)] = k
      /\ \A n \in K : Ordered(K, rank)[n] \in K /\ Place(K, rank, Ordered(K, rank)[n]) = n
  <2> HIDE DEF K
  <2>1. /\ \A k \in K : Place(K, rank, k) \in 1 .. Cardinality(K) /\ Ordered(K, rank)[Place(K, rank, k)] = k
        /\ \A n \in 1 .. Cardinality(K) : Ordered(K, rank)[n] \in K /\ Place(K, rank, Ordered(K, rank)[n]) = n
    BY <1>1, <1>2, <1>3, OrderedFacts
  <2> QED BY <1>1, <2>1 DEF K
<1> HIDE DEF K
<1>7. /\ DOMAIN ByName(s) = K
      /\ \A p \in K : ByName(s)[p] = s[Ordered(K, rank)[p]]
  BY <1>4
<1>8. L <= 10 => \A k \in K : ByName(s)[k] = s[k]
  BY <1>5, <1>6, <1>7
<1>9. (\A k \in K : \E p \in K : ByName(s)[p] = s[k]) /\ (\A p \in K : \E k \in K : ByName(s)[p] = s[k])
  <2>1. ASSUME NEW k \in K PROVE \E p \in K : ByName(s)[p] = s[k]
    <3>1. Place(K, rank, k) \in K /\ Ordered(K, rank)[Place(K, rank, k)] = k
      BY <1>6
    <3>2. ByName(s)[Place(K, rank, k)] = s[Ordered(K, rank)[Place(K, rank, k)]]
      BY <1>7, <3>1
    <3> QED BY <3>1, <3>2
  <2>2. ASSUME NEW p \in K PROVE \E k \in K : ByName(s)[p] = s[k]
    BY <1>6, <1>7
  <2> QED BY <2>1, <2>2
<1> QED BY <1>7, <1>8, <1>9 DEF K

-----------------------------------------------------------------------------
\* The parts of the configuration that flags stand for.
SourcesFor(items) ==
  ByName([k \in DOMAIN items |->
            [type |-> LoaderOf(items[k].kind), tables |-> items[k].tables, allow |-> <<>>]])

FlagSources(f) == SourcesFor(ItemsAt(f.sources, SqlFlags(f.sources)))

ShardsFor(ts, proto) ==
  [k \in DOMAIN ByName(ts) |-> [proto |-> proto, port |-> ByName(ts)[k].port, sources |-> {}, again |-> {}]]

FlagShards(f, proto) == ShardsFor(TargetsOf(f.spoofs, proto), proto)

FlagDumps(f) == ItemsAt(f.sources, DumpFlags(f.sources))

RedisFor(ts, dumps) == [k \in DOMAIN ts |-> [port |-> ts[k].port, dump |-> dumps[k].dump]]

FlagRedis(f) == RedisFor(TargetsOf(f.spoofs, "redis"), FlagDumps(f))

\* Flags that make a configuration make these parts of it.
LEMMA ConfigParts ==
  ASSUME NEW f, configFromFlags(f).ok
  PROVE  /\ configFromFlags(f).sources = FlagSources(f)
         /\ configFromFlags(f).instances =
              FlagShards(f, "postgres") \o FlagShards(f, "mysql") \o FlagShards(f, "clickhouse")
         /\ configFromFlags(f).redis = FlagRedis(f)
         /\ \A k \in DOMAIN f.spoofs : parseSpoof(f.spoofs[k]).ok
         /\ ~(Len(TargetsOf(f.spoofs, "redis")) > Len(FlagDumps(f)))
<1> DEFINE sh == FlagShards(f, "postgres") \o FlagShards(f, "mysql") \o FlagShards(f, "clickhouse")
           bad == \/ f.sources = <<>> \/ f.spoofs = <<>>
                  \/ \E k \in DOMAIN f.sources : ~parseSource(f.sources[k]).ok
                  \/ \E k \in DOMAIN f.spoofs : ~parseSpoof(f.spoofs[k]).ok
                  \/ Len(TargetsOf(f.spoofs, "redis")) > Len(FlagDumps(f))
                  \/ ItemsAt(f.sources, SqlFlags(f.sources)) = <<>> /\ TargetsOf(f.spoofs, "redis") = <<>>
           good == [ok |-> TRUE, sources |-> FlagSources(f), instances |-> sh, redis |-> FlagRedis(f)]
<1>1. configFromFlags(f) = IF bad THEN NoConfig ELSE good
  BY Zenon DEF configFromFlags, FlagSources, SourcesFor, FlagShards, ShardsFor, FlagDumps, FlagRedis, RedisFor
<1>2. good.sources = FlagSources(f) /\ good.instances = sh /\ good.redis = FlagRedis(f)
  OBVIOUS
<1> HIDE DEF good, bad, sh
<1>3. ~NoConfig.ok
  BY DEF NoConfig
<1>4. configFromFlags(f) = good /\ ~bad
  BY <1>1, <1>3
<1> QED BY <1>2, <1>4 DEF bad, sh

\* Some of at most a hundred positions.
Few(K) == K \subseteq Nat /\ IsFiniteSet(K) /\ Cardinality(K) \in Nat /\ Cardinality(K) <= 100

\* Positions in a sequence of at most a hundred items are few.
LEMMA FewPositions ==
  ASSUME NEW L \in Nat, L <= 100, NEW K, K \subseteq 1 .. L
  PROVE  Few(K)
<1>1. IsFiniteSet(1 .. L) /\ Cardinality(1 .. L) = IF 1 > L THEN 0 ELSE L - 1 + 1
  BY FS_Interval
<1>2. Cardinality(1 .. L) = L
  BY <1>1
<1>3. IsFiniteSet(K) /\ Cardinality(K) <= L
  BY <1>1, <1>2, FS_Subset
<1>4. Cardinality(K) \in Nat
  BY <1>3, FS_CardinalityType
<1>5. \A x \in Nat : x <= L => x <= 100
  OBVIOUS
<1>6. K \subseteq Nat
  OBVIOUS
<1> QED BY <1>3, <1>4, <1>5, <1>6 DEF Few

\* The items at them are listed under their numbers.
LEMMA FewItems ==
  ASSUME NEW s, NEW K, Few(K)
  PROVE  Lists(ItemsAt(s, K), K, s) /\ Len(ItemsAt(s, K)) = Cardinality(K)
<1>1. K \subseteq Nat /\ IsFiniteSet(K) /\ Cardinality(K) \in Nat
  BY DEF Few
<1>2. Len(ItemsAt(s, K)) = Cardinality(K)
  BY <1>1, ItemsAtLen
<1> QED BY <1>1, <1>2, ItemsAtFacts

\* The sources made of items: each is one of them, up to ten under the number of
\* its item, and none lists tables.
HaveSources(K, s, c) ==
  /\ DOMAIN c = 1 .. Cardinality(K)
  /\ \A n \in 1 .. Cardinality(K) : c[n].allow = <<>>
  /\ \A k \in K : \E n \in 1 .. Cardinality(K) : c[n].tables = s[k].tables
  /\ Cardinality(K) <= 10 =>
       \A n \in 1 .. Cardinality(K) : \E k \in K : Number(K, k) = n /\ c[n].tables = s[k].tables
  /\ Cardinality(K) <= 10 =>
       \A k \in K : Number(K, k) \in 1 .. Cardinality(K) /\ c[Number(K, k)].tables = s[k].tables

LEMMA SourcesOfItems ==
  ASSUME NEW s, NEW K, Few(K), NEW items, Lists(items, K, s)
  PROVE  HaveSources(K, s, SourcesFor(items))
<1> DEFINE src == [k \in DOMAIN items |->
                     [type |-> LoaderOf(items[k].kind), tables |-> items[k].tables, allow |-> <<>>]]
           N == Cardinality(K)
<1>1. N \in Nat /\ N <= 100
  BY DEF Few
<1>2. SourcesFor(items) = ByName(src)
  BY Zenon DEF SourcesFor
<1>3. /\ DOMAIN items = 1 .. N
      /\ \A k \in K : Number(K, k) \in 1 .. N /\ items[Number(K, k)] = s[k]
      /\ \A n \in 1 .. N : \E k \in K : Number(K, k) = n /\ items[n] = s[k]
  BY DEF Lists
<1> HIDE DEF N
<1>4. DOMAIN src = 1 .. N /\ \A n \in 1 .. N : src[n].tables = items[n].tables /\ src[n].allow = <<>>
  BY <1>3
<1> HIDE DEF src
<1>5. /\ DOMAIN ByName(src) = 1 .. N
      /\ \A k \in 1 .. N : \E p \in 1 .. N : ByName(src)[p] = src[k]
      /\ \A p \in 1 .. N : \E k \in 1 .. N : ByName(src)[p] = src[k]
      /\ N <= 10 => \A k \in 1 .. N : ByName(src)[k] = src[k]
  BY <1>1, <1>4, ByNameFacts
<1>6. ASSUME NEW n \in 1 .. N PROVE ByName(src)[n].allow = <<>>
  <2>1. PICK k \in 1 .. N : ByName(src)[n] = src[k]
    BY <1>5
  <2> QED BY <1>4, <2>1
<1>7. ASSUME NEW k \in K PROVE \E n \in 1 .. N : ByName(src)[n].tables = s[k].tables
  <2>1. Number(K, k) \in 1 .. N /\ src[Number(K, k)].tables = s[k].tables
    BY <1>3, <1>4
  <2>2. PICK p \in 1 .. N : ByName(src)[p] = src[Number(K, k)]
    BY <1>5, <2>1
  <2> QED BY <2>1, <2>2
<1>8. ASSUME N <= 10, NEW n \in 1 .. N PROVE \E k \in K : Number(K, k) = n /\ ByName(src)[n].tables = s[k].tables
  <2>1. ByName(src)[n].tables = items[n].tables
    BY <1>4, <1>5, <1>8
  <2> QED BY <1>3, <2>1
<1>9. ASSUME N <= 10, NEW k \in K PROVE Number(K, k) \in 1 .. N /\ ByName(src)[Number(K, k)].tables = s[k].tables
  <2>1. Number(K, k) \in 1 .. N /\ items[Number(K, k)] = s[k]
    BY <1>3
  <2>2. ByName(src)[Number(K, k)].tables = items[Number(K, k)].tables
    BY <1>4, <1>5, <1>9, <2>1
  <2> QED BY <2>1, <2>2
<1> QED BY <1>2, <1>5, <1>6, <1>7, <1>8, <1>9 DEF N, HaveSources

\* A sequence has the items of another; two put together have those of both.
HasItems(t, s) == \A k \in DOMAIN s : \E i \in DOMAIN t : t[i] = s[k]

LEMMA HasItemsChain ==
  ASSUME NEW s, NEW t, NEW u, HasItems(t, s), HasItems(u, t)
  PROVE  HasItems(u, s)
<1> SUFFICES ASSUME NEW k \in DOMAIN s PROVE \E i \in DOMAIN u : u[i] = s[k]
  BY DEF HasItems
<1>1. PICK j \in DOMAIN t : t[j] = s[k]
  BY DEF HasItems
<1>2. PICK i \in DOMAIN u : u[i] = t[j]
  BY DEF HasItems
<1> QED BY <1>1, <1>2

LEMMA ConcatItems ==
  ASSUME NEW S, NEW A \in Seq(S), NEW B \in Seq(S)
  PROVE  A \o B \in Seq(S) /\ HasItems(A \o B, A) /\ HasItems(A \o B, B)
<1> DEFINE D == A \o B
<1>1. /\ D \in Seq(S) /\ DOMAIN D = 1 .. Len(A) + Len(B)
      /\ \A k \in 1 .. Len(A) : D[k] = A[k]
      /\ \A k \in 1 .. Len(B) : D[Len(A) + k] = B[k]
  OBVIOUS
<1>2. Len(A) \in Nat /\ DOMAIN A = 1 .. Len(A) /\ Len(B) \in Nat /\ DOMAIN B = 1 .. Len(B)
  OBVIOUS
<1> HIDE DEF D
<1>3. ASSUME NEW k \in DOMAIN A PROVE \E i \in DOMAIN D : D[i] = A[k]
  <2>1. k \in DOMAIN D
    BY <1>1, <1>2
  <2> QED BY <1>1, <1>2, <2>1
<1>4. ASSUME NEW k \in DOMAIN B PROVE \E i \in DOMAIN D : D[i] = B[k]
  <2>1. Len(A) + k \in DOMAIN D
    BY <1>1, <1>2
  <2> QED BY <1>1, <1>2, <2>1
<1> QED BY <1>1, <1>3, <1>4 DEF D, HasItems

\* What a shard of flags is like.
ShardsLike(spoofs) ==
  [proto : {"postgres", "mysql", "clickhouse"},
   port : {parseSpoof(spoofs[k]).port : k \in DOMAIN spoofs}, sources : {{}}, again : {{}}]

\* Every target of a protocol has a shard.
HaveShards(K, s, p, sh) ==
  /\ sh \in Seq(ShardsLike(s))
  /\ \A k \in K : \E n \in DOMAIN sh : sh[n].proto = p /\ sh[n].port = parseSpoof(s[k]).port

LEMMA ShardsOfTargets ==
  ASSUME NEW s, NEW p \in {"postgres", "mysql", "clickhouse"}, NEW K, K \subseteq DOMAIN s, Few(K),
         NEW ps, \A k \in K : ps[k] = parseSpoof(s[k]), NEW ts, Lists(ts, K, ps)
  PROVE  HaveShards(K, s, p, ShardsFor(ts, p))
<1> DEFINE ports == {parseSpoof(s[k]).port : k \in DOMAIN s}
           sh == ShardsFor(ts, p)
           N == Cardinality(K)
<1>1. N \in Nat /\ N <= 100
  BY DEF Few
<1>2. /\ DOMAIN ts = 1 .. N
      /\ \A k \in K : Number(K, k) \in 1 .. N /\ ts[Number(K, k)] = parseSpoof(s[k])
      /\ \A n \in 1 .. N : \E k \in K : ts[n] = parseSpoof(s[k])
  BY DEF Lists
<1> HIDE DEF N
<1>4. /\ DOMAIN ByName(ts) = 1 .. N
      /\ \A k \in 1 .. N : \E q \in 1 .. N : ByName(ts)[q] = ts[k]
      /\ \A q \in 1 .. N : \E k \in 1 .. N : ByName(ts)[q] = ts[k]
  BY <1>1, <1>2, ByNameFacts
<1>5. ASSUME NEW q \in 1 .. N PROVE ByName(ts)[q].port \in ports
  <2>1. PICK k \in 1 .. N : ByName(ts)[q] = ts[k]
    BY <1>4
  <2>2. PICK j \in K : ts[k] = parseSpoof(s[j])
    BY <1>2
  <2> QED BY <2>1, <2>2
<1> HIDE DEF ports
<1>6. /\ DOMAIN sh = 1 .. N /\ \A q \in 1 .. N : sh[q].proto = p /\ sh[q].port = ByName(ts)[q].port
      /\ sh \in [1 .. N -> [proto : {"postgres", "mysql", "clickhouse"}, port : ports, sources : {{}}, again : {{}}]]
  BY <1>4, <1>5 DEF ShardsFor
<1> HIDE DEF sh
<1>7. sh \in Seq(ShardsLike(s))
  <2> DEFINE S == [proto : {"postgres", "mysql", "clickhouse"}, port : ports, sources : {{}}, again : {{}}]
  <2>1. sh \in [1 .. N -> S]
    BY <1>6
  <2>2. S = ShardsLike(s)
    BY DEF ShardsLike, ports
  <2> HIDE DEF S
  <2> QED BY <1>1, <2>1, <2>2
<1>8. ASSUME NEW k \in K PROVE \E n \in DOMAIN sh : sh[n].proto = p /\ sh[n].port = parseSpoof(s[k]).port
  <2>1. Number(K, k) \in 1 .. N /\ ts[Number(K, k)] = parseSpoof(s[k])
    BY <1>2
  <2>2. PICK q \in 1 .. N : ByName(ts)[q] = ts[Number(K, k)]
    BY <1>4, <2>1
  <2> QED BY <1>6, <2>1, <2>2
<1> QED BY <1>7, <1>8 DEF sh, HaveShards

\* The targets of a protocol are listed in the order of their flags.
LEMMA TargetsListed ==
  ASSUME NEW s, NEW L \in Nat, L <= 100, DOMAIN s = 1 .. L, NEW p
  PROVE  \E ps : /\ \A k \in DOMAIN s : ps[k] = parseSpoof(s[k])
                 /\ TargetsOf(s, p) = ItemsAt(ps, TargetFlags(s, p))
                 /\ Few(TargetFlags(s, p)) /\ TargetFlags(s, p) \subseteq DOMAIN s
                 /\ Lists(TargetsOf(s, p), TargetFlags(s, p), ps)
                 /\ Len(TargetsOf(s, p)) = Cardinality(TargetFlags(s, p))
<1> DEFINE ps == [k \in DOMAIN s |-> parseSpoof(s[k])]
           flags == TargetFlags(s, p)
<1>1. flags \subseteq DOMAIN s
  BY DEF TargetFlags
<1>2. TargetsOf(s, p) = ItemsAt(ps, flags)
  BY Zenon DEF TargetsOf
<1>3. \A k \in DOMAIN s : ps[k] = parseSpoof(s[k])
  OBVIOUS
<1> HIDE DEF ps, flags
<1>4. flags \subseteq 1 .. L
  BY <1>1
<1>5. Few(flags)
  BY <1>4, FewPositions
<1>6. Lists(ItemsAt(ps, flags), flags, ps) /\ Len(ItemsAt(ps, flags)) = Cardinality(flags)
  BY <1>5, FewItems
<1>7. /\ \A k \in DOMAIN s : ps[k] = parseSpoof(s[k])
      /\ TargetsOf(s, p) = ItemsAt(ps, flags)
      /\ Few(flags) /\ flags \subseteq DOMAIN s
      /\ Lists(TargetsOf(s, p), flags, ps)
      /\ Len(TargetsOf(s, p)) = Cardinality(flags)
  BY <1>1, <1>2, <1>3, <1>5, <1>6, Zenon
<1> QED BY <1>7, Zenon DEF flags

\* So it is with the flags.
LEMMA ShardsOfFlags ==
  ASSUME NEW f, NEW L \in Nat, L <= 100, DOMAIN f.spoofs = 1 .. L, NEW p \in {"postgres", "mysql", "clickhouse"}
  PROVE  HaveShards(TargetFlags(f.spoofs, p), f.spoofs, p, FlagShards(f, p))
<1> DEFINE s == f.spoofs
           flags == TargetFlags(s, p)
           ts == TargetsOf(s, p)
<1>0. DOMAIN s = 1 .. L
  OBVIOUS
<1> HIDE DEF s
<1>1. PICK ps : /\ \A k \in DOMAIN s : ps[k] = parseSpoof(s[k])
                /\ Few(flags) /\ flags \subseteq DOMAIN s /\ Lists(ts, flags, ps)
  BY <1>0, TargetsListed
<1> HIDE DEF flags, ts
<1>2. \A k \in flags : ps[k] = parseSpoof(s[k])
  BY <1>1
<1>3. HaveShards(flags, s, p, ShardsFor(ts, p))
  BY <1>1, <1>2, ShardsOfTargets
<1>4. FlagShards(f, p) = ShardsFor(ts, p)
  BY Zenon DEF FlagShards, ts, s
<1> QED BY <1>3, <1>4, Zenon DEF flags, s

\* The SQL targets of every protocol are among the instances, and all of these serve
\* every source.
LEMMA InstancesOfFlags ==
  ASSUME NEW f, NEW L \in Nat, L <= 100, DOMAIN f.spoofs = 1 .. L
  PROVE  LET all == FlagShards(f, "postgres") \o FlagShards(f, "mysql") \o FlagShards(f, "clickhouse")
         IN \A p \in {"postgres", "mysql", "clickhouse"} :
              HaveShards(TargetFlags(f.spoofs, p), f.spoofs, p, all)
<1> DEFINE A == FlagShards(f, "postgres")
           B == FlagShards(f, "mysql")
           C == FlagShards(f, "clickhouse")
           D == A \o B
           E == D \o C
           S == ShardsLike(f.spoofs)
<1>1. /\ HaveShards(TargetFlags(f.spoofs, "postgres"), f.spoofs, "postgres", A)
      /\ HaveShards(TargetFlags(f.spoofs, "mysql"), f.spoofs, "mysql", B)
      /\ HaveShards(TargetFlags(f.spoofs, "clickhouse"), f.spoofs, "clickhouse", C)
  BY ShardsOfFlags
<1> HIDE DEF A, B, C
<1>2. A \in Seq(S) /\ B \in Seq(S) /\ C \in Seq(S)
  <2>1. \A K, p, sh : HaveShards(K, f.spoofs, p, sh) => sh \in Seq(S)
    BY Zenon DEF HaveShards
  <2> HIDE DEF S
  <2> QED BY <1>1, <2>1, Zenon
<1> HIDE DEF S
<1>3. D \in Seq(S) /\ HasItems(D, A) /\ HasItems(D, B)
  BY <1>2, ConcatItems
<1> HIDE DEF D
<1>4. E \in Seq(S) /\ HasItems(E, D) /\ HasItems(E, C)
  BY <1>2, <1>3, ConcatItems
<1> HIDE DEF E
<1>5. HasItems(E, A) /\ HasItems(E, B)
  BY <1>3, <1>4, HasItemsChain
<1>6. ASSUME NEW flags, NEW p, NEW sh, HaveShards(flags, f.spoofs, p, sh),
             HasItems(E, sh)
      PROVE  HaveShards(flags, f.spoofs, p, E)
  <2>1. E \in Seq(ShardsLike(f.spoofs))
    BY <1>4 DEF S
  <2>2. ASSUME NEW k \in flags
        PROVE  \E n \in DOMAIN E : E[n].proto = p /\ E[n].port = parseSpoof(f.spoofs[k]).port
    <3>1. PICK n \in DOMAIN sh : sh[n].proto = p /\ sh[n].port = parseSpoof(f.spoofs[k]).port
      BY <1>6 DEF HaveShards
    <3>2. PICK i \in DOMAIN E : E[i] = sh[n]
      BY <1>6, <3>1 DEF HasItems
    <3> QED BY <3>1, <3>2
  <2> QED BY <2>1, <2>2 DEF HaveShards
<1>7. /\ HaveShards(TargetFlags(f.spoofs, "postgres"), f.spoofs, "postgres", E)
      /\ HaveShards(TargetFlags(f.spoofs, "mysql"), f.spoofs, "mysql", E)
      /\ HaveShards(TargetFlags(f.spoofs, "clickhouse"), f.spoofs, "clickhouse", E)
  BY <1>1, <1>4, <1>5, <1>6
<1>8. \A p \in {"postgres", "mysql", "clickhouse"} : HaveShards(TargetFlags(f.spoofs, p), f.spoofs, p, E)
  BY <1>7
<1> QED BY <1>8 DEF A, B, C, D, E

\* A Redis target gets the dump in its turn.
GetsDump(r, K, k, s, D, src) ==
  \E i \in DOMAIN r, j \in D :
    r[i].port = parseSpoof(s[k]).port /\ r[i].dump = src[j].dump /\ Number(D, j) = Number(K, k)

LEMMA RedisOfTargets ==
  ASSUME NEW s, NEW K, K \subseteq DOMAIN s, Few(K), NEW ps, \A k \in K : ps[k] = parseSpoof(s[k]),
         NEW ts, Lists(ts, K, ps), NEW src, NEW D, Few(D), NEW ds, Lists(ds, D, src),
         Cardinality(K) <= Cardinality(D), NEW k \in K
  PROVE  GetsDump(RedisFor(ts, ds), K, k, s, D, src)
<1> DEFINE i == Number(K, k)
<1>1. i \in 1 .. Cardinality(K) /\ ts[i] = parseSpoof(s[k]) /\ DOMAIN ts = 1 .. Cardinality(K)
  BY DEF Lists
<1>2. i \in 1 .. Cardinality(D)
  <2>1. Cardinality(K) \in Nat /\ Cardinality(D) \in Nat
    BY DEF Few
  <2>2. \A x, y \in Nat : x <= y => \A z \in 1 .. x : z \in 1 .. y
    OBVIOUS
  <2> QED BY <1>1, <2>1, <2>2
<1> HIDE DEF i
<1>3. PICK j \in D : Number(D, j) = i /\ ds[i] = src[j]
  BY <1>2 DEF Lists
<1>4. i \in DOMAIN RedisFor(ts, ds) /\ RedisFor(ts, ds)[i].port = ts[i].port /\ RedisFor(ts, ds)[i].dump = ds[i].dump
  BY <1>1 DEF RedisFor
<1> QED BY <1>1, <1>3, <1>4 DEF i, GetsDump

\* So it is with the flags, which have as many dumps as Redis targets.
LEMMA RedisOfFlags ==
  ASSUME NEW f, NEW L \in Nat, L <= 100, DOMAIN f.spoofs = 1 .. L,
         NEW M \in Nat, M <= 100, DOMAIN f.sources = 1 .. M,
         ~(Len(TargetsOf(f.spoofs, "redis")) > Len(FlagDumps(f))), NEW k \in TargetFlags(f.spoofs, "redis")
  PROVE  GetsDump(FlagRedis(f), TargetFlags(f.spoofs, "redis"), k, f.spoofs, DumpFlags(f.sources), f.sources)
<1> DEFINE s == f.spoofs
           src == f.sources
           flags == TargetFlags(s, "redis")
           ts == TargetsOf(s, "redis")
           D == DumpFlags(src)
           ds == ItemsAt(src, D)
<1>0. DOMAIN s = 1 .. L /\ D \subseteq 1 .. M
  BY DEF DumpFlags
<1>1. ds = FlagDumps(f) /\ FlagRedis(f) = RedisFor(ts, ds)
  BY Zenon DEF FlagDumps, FlagRedis
<1>2. k \in flags /\ ~(Len(ts) > Len(ds))
  BY <1>1
<1> HIDE DEF s, src
<1>3. PICK ps : /\ \A j \in DOMAIN s : ps[j] = parseSpoof(s[j])
                /\ Few(flags) /\ flags \subseteq DOMAIN s /\ Lists(ts, flags, ps) /\ Len(ts) = Cardinality(flags)
  BY <1>0, TargetsListed
<1> HIDE DEF flags, ts, D
<1>4. Few(D)
  BY <1>0, FewPositions
<1>5. Lists(ds, D, src) /\ Len(ds) = Cardinality(D)
  BY <1>4, FewItems
<1> HIDE DEF ds
<1>6. Cardinality(flags) <= Cardinality(D)
  <2>1. Cardinality(flags) \in Nat /\ Cardinality(D) \in Nat
    BY <1>3, <1>4 DEF Few
  <2> QED BY <1>2, <1>3, <1>5, <2>1
<1>7. \A j \in flags : ps[j] = parseSpoof(s[j])
  BY <1>3
<1>8. GetsDump(RedisFor(ts, ds), flags, k, s, D, src)
  BY <1>2, <1>3, <1>4, <1>5, <1>6, <1>7, RedisOfTargets
<1> QED BY <1>1, <1>8 DEF s, src, flags, D

-----------------------------------------------------------------------------
\* What holds of a process started from flags, once its configuration is made.
FlagsMade ==
  /\ Few(SqlFlags(Flags.sources)) /\ HaveSources(SqlFlags(Flags.sources), Flags.sources, Config)
  /\ \A i \in DOMAIN Instances : Instances[i].sources = {} /\ Instances[i].again = {}
  /\ \A p \in {"postgres", "mysql", "clickhouse"} :
       HaveShards(TargetFlags(Flags.spoofs, p), Flags.spoofs, p, Instances)
  /\ \A k \in TargetFlags(Flags.spoofs, "redis") :
       GetsDump(redisCfg, TargetFlags(Flags.spoofs, "redis"), k, Flags.spoofs, DumpFlags(Flags.sources), Flags.sources)
  /\ \A k \in DOMAIN Flags.spoofs : parseSpoof(Flags.spoofs[k]).ok

\* The configuration of flags, whatever process runs with it.
LEMMA FlagsConfigured ==
  ASSUME NEW f, FlagsOK(f), configFromFlags(f).ok, NEW c, NEW insts, NEW r,
         c = configFromFlags(f).sources, insts = configFromFlags(f).instances, r = configFromFlags(f).redis
  PROVE  /\ Few(SqlFlags(f.sources)) /\ HaveSources(SqlFlags(f.sources), f.sources, c)
         /\ \A p \in {"postgres", "mysql", "clickhouse"} : HaveShards(TargetFlags(f.spoofs, p), f.spoofs, p, insts)
         /\ \A k \in TargetFlags(f.spoofs, "redis") :
              GetsDump(r, TargetFlags(f.spoofs, "redis"), k, f.spoofs, DumpFlags(f.sources), f.sources)
         /\ \A k \in DOMAIN f.spoofs : parseSpoof(f.spoofs[k]).ok
<1> DEFINE K == SqlFlags(f.sources)
           L == Len(f.spoofs)
           M == Len(f.sources)
<1>1. /\ L \in Nat /\ L <= 100 /\ DOMAIN f.spoofs = 1 .. L
      /\ M \in Nat /\ M <= 100 /\ DOMAIN f.sources = 1 .. M
  BY DEF FlagsOK
<1>2. /\ c = FlagSources(f) /\ r = FlagRedis(f)
      /\ insts = FlagShards(f, "postgres") \o FlagShards(f, "mysql") \o FlagShards(f, "clickhouse")
      /\ \A k \in DOMAIN f.spoofs : parseSpoof(f.spoofs[k]).ok
      /\ ~(Len(TargetsOf(f.spoofs, "redis")) > Len(FlagDumps(f)))
  BY ConfigParts, Zenon
<1> HIDE DEF L, M
<1>3. K \subseteq 1 .. M
  BY <1>1 DEF SqlFlags
<1> HIDE DEF K
<1>4. Few(K)
  BY <1>1, <1>3, FewPositions
<1>5. HaveSources(K, f.sources, SourcesFor(ItemsAt(f.sources, K)))
  BY <1>4, FewItems, SourcesOfItems
<1>6. HaveSources(K, f.sources, c)
  BY <1>2, <1>5, Zenon DEF FlagSources, K
<1>7. \A p \in {"postgres", "mysql", "clickhouse"} : HaveShards(TargetFlags(f.spoofs, p), f.spoofs, p, insts)
  <2>1. LET all == FlagShards(f, "postgres") \o FlagShards(f, "mysql") \o FlagShards(f, "clickhouse")
        IN \A p \in {"postgres", "mysql", "clickhouse"} :
             HaveShards(TargetFlags(f.spoofs, p), f.spoofs, p, all)
    BY <1>1, InstancesOfFlags
  <2> QED BY <1>2, <2>1, Zenon
<1>8. ASSUME NEW k \in TargetFlags(f.spoofs, "redis")
      PROVE  GetsDump(r, TargetFlags(f.spoofs, "redis"), k, f.spoofs, DumpFlags(f.sources), f.sources)
  <2>1. GetsDump(FlagRedis(f), TargetFlags(f.spoofs, "redis"), k, f.spoofs, DumpFlags(f.sources), f.sources)
    BY <1>1, <1>2, RedisOfFlags
  <2> QED BY <1>2, <2>1, Zenon
<1> QED BY <1>2, <1>4, <1>6, <1>7, <1>8 DEF K

\* A process with flags and a configuration has the configuration of its flags.
LEMMA FlagsAreMade ==
  ASSUME StartInv, cfg.ok, FlagsGiven
  PROVE  FlagsMade
<1>1. FlagsOK(Flags) /\ cfg = configFromFlags(Flags)
  BY StartupAssumption DEF StartInv, TypeOK, Configured, Load, ConfigOf, Flags, FlagsGiven
<1>2. configFromFlags(Flags).ok
  BY <1>1
<1>3. /\ Config = configFromFlags(Flags).sources /\ Instances = configFromFlags(Flags).instances
      /\ redisCfg = configFromFlags(Flags).redis
  BY <1>1, Zenon DEF Config, Instances, redisCfg
<1>4. /\ Few(SqlFlags(Flags.sources)) /\ HaveSources(SqlFlags(Flags.sources), Flags.sources, Config)
      /\ \A p \in {"postgres", "mysql", "clickhouse"} :
           HaveShards(TargetFlags(Flags.spoofs, p), Flags.spoofs, p, Instances)
      /\ \A k \in TargetFlags(Flags.spoofs, "redis") :
           GetsDump(redisCfg, TargetFlags(Flags.spoofs, "redis"), k, Flags.spoofs, DumpFlags(Flags.sources),
                    Flags.sources)
      /\ \A k \in DOMAIN Flags.spoofs : parseSpoof(Flags.spoofs[k]).ok
  BY <1>1, <1>2, <1>3, FlagsConfigured, Zenon
<1>5. \A i \in DOMAIN Instances : Instances[i].sources = {} /\ Instances[i].again = {}
  <2>1. Instances \in Seq(ShardsLike(Flags.spoofs))
    BY <1>4 DEF HaveShards
  <2>2. \A x \in ShardsLike(Flags.spoofs) : x.sources = {} /\ x.again = {}
    BY DEF ShardsLike
  <2> QED BY <2>1, <2>2, ItemOfSeq
<1> QED BY <1>4, <1>5 DEF FlagsMade

\* Every table of a flag is served, up to ten sources from the first that has it.
LEMMA TablesOfFlags ==
  ASSUME StartInv, LoadedInv, FlagsMade, NEW i \in bound, NEW sqls, sqls = SqlFlags(Flags.sources), NEW k \in sqls,
         NEW t, t \in Range(Flags.sources[k].tables), ~Dropped(i, t)
  PROVE  /\ db[DbOf(i)][t].kind # "none"
         /\ Cardinality(sqls) <= 10 =>
              \E h \in sqls : /\ t \in Range(Flags.sources[h].tables)
                              /\ db[DbOf(i)][t].from = Number(sqls, h)
                              /\ \A j \in sqls : t \in Range(Flags.sources[j].tables) => h <= j
<1>1. \A j \in DOMAIN Instances : selectSources(j) = SourceNames /\ engineKey(j) = <<SourceNames, {}>>
  BY DEF FlagsMade, selectSources, engineKey
<1>2. OwnTables
  BY <1>1 DEF OwnTables, Known
<1>3. i \in Known /\ i \in DOMAIN Instances /\ engineKey(i) \in engines
  BY DEF StartInv, ShardState, Known
<1>4. \A n \in SourceNames : Selected(n) = Range(Config[n].tables)
  BY DEF FlagsMade, HaveSources, SourceNames, Selected, Listed, OffList
<1>5. /\ SourceNames = 1 .. Cardinality(sqls)
      /\ \E n \in SourceNames : Config[n].tables = Flags.sources[k].tables
  BY DEF FlagsMade, HaveSources, SourceNames
<1>6. t \in Offered(i)
  BY <1>1, <1>3, <1>4, <1>5 DEF Offered
<1>7. Good(i, t)
  BY <1>2, <1>3, <1>6 DEF LoadedInv, Complete
<1>8. ASSUME Cardinality(sqls) <= 10
      PROVE  \E h \in sqls : /\ t \in Range(Flags.sources[h].tables)
                             /\ db[DbOf(i)][t].from = Number(sqls, h)
                             /\ \A j \in sqls : t \in Range(Flags.sources[j].tables) => h <= j
  <2> DEFINE ns == {n \in SourceNames : t \in Selected(n)}
             m == Min(ns)
  <2>1. db[DbOf(i)][t].from = m
    BY <1>1, <1>3, <1>7 DEF Good, Claim
  <2>2. ns \subseteq Nat /\ ns # {}
    <3>1. SourceNames \subseteq Nat
      BY ConfigFacts DEF StartInv
    <3> QED BY <1>4, <1>5, <3>1
  <2>3. /\ \A n \in ns : n \in SourceNames /\ t \in Selected(n)
        /\ \A n \in SourceNames : t \in Selected(n) => n \in ns
    OBVIOUS
  <2> HIDE DEF ns
  <2>4. m \in ns /\ \A y \in ns : m <= y
    BY <2>2, MinIsLeast
  <2> HIDE DEF m
  <2>5. PICK h \in sqls : Number(sqls, h) = m /\ Config[m].tables = Flags.sources[h].tables
    BY <1>5, <1>8, <2>3, <2>4 DEF FlagsMade, HaveSources
  <2>6. t \in Range(Flags.sources[h].tables)
    BY <1>4, <2>3, <2>4, <2>5
  <2>7. ASSUME NEW j \in sqls, t \in Range(Flags.sources[j].tables) PROVE h <= j
    <3>1. Number(sqls, j) \in SourceNames /\ Config[Number(sqls, j)].tables = Flags.sources[j].tables
      BY <1>5, <1>8 DEF FlagsMade, HaveSources
    <3>2. Number(sqls, j) \in ns
      BY <1>4, <2>3, <2>7, <3>1
    <3>3. m \in Nat /\ Number(sqls, j) \in Nat /\ m <= Number(sqls, j)
      BY <2>2, <2>4, <3>2
    <3>4. sqls \subseteq Nat /\ IsFiniteSet(sqls)
      BY DEF FlagsMade, Few
    <3>5. j < h => Number(sqls, j) < Number(sqls, h)
      BY <3>4, ItemsAtFacts
    <3>6. ~(j < h)
      <4>1. \A x, y \in Nat : x <= y => ~(y < x)
        OBVIOUS
      <4> QED BY <2>5, <3>3, <3>5, <4>1
    <3>7. j \in Nat /\ h \in Nat
      BY <3>4
    <3> QED BY <3>6, <3>7
  <2> QED BY <2>1, <2>5, <2>6, <2>7
<1> QED BY <1>7, <1>8 DEF Good

\* A process that is up has a configuration.
RunsConfigured == phase # "down" => cfg.ok

\* It is Start that asks for one, and no step changes it.
LEMMA RunsConfiguredStep ==
  ASSUME RunsConfigured, [Next]_vars
  PROVE  RunsConfigured'
<1>0. cfg' = cfg
  BY StepsAreRigid
<1>1. ASSUME NEW reason, End(reason) PROVE phase' = "down"
  BY <1>1 DEF End
<1>2. ASSUME RedisStarted \/ NextShard \/ EngineLoaded \/ Bind \/ Run \/ NextSource \/ SkipTable \/ LoadWhole
             \/ CreateCopy \/ FinishCopy
      PROVE  phase # "down"
  BY <1>2 DEF RedisStarted, NextShard, EngineLoaded, Bind, Run, NextSource, SkipTable, LoadWhole, CreateCopy,
              FinishCopy, Loading
<1>3. ASSUME ResetFails \/ ConfigFails \/ Deafens \/ Clients \/ StartRedis \/ RedisClients \/ UNCHANGED vars
      PROVE  phase' = phase
  BY <1>3 DEF ResetFails, ConfigFails, Deafens, AcceptFails, Clients, ClientCreate, ClientInsert, ClientDrop, StartRedis, RedisClients, vars
<1>4. CASE Start
  BY <1>0, <1>4 DEF Start, RunsConfigured
<1> QED BY <1>0, <1>1, <1>2, <1>3, <1>4, StepsByKind DEF RunsConfigured

\* What the flags say is what runs.
LEMMA FlagsRun ==
  ASSUME StartInv, LoadedInv, RunsConfigured
  PROVE  FlagsHonoured
<1> SUFFICES ASSUME phase = "running", FlagsGiven PROVE FlagsHonoured
  BY DEF FlagsHonoured
<1> DEFINE dumps == {k \in DOMAIN Flags.sources : Flags.sources[k].kind = "rdb"}
           sqls == DOMAIN Flags.sources \ dumps
           redises == {k \in DOMAIN Flags.spoofs : Flags.spoofs[k].kind = "redis"}
           number(K, k) == Cardinality({j \in K : j <= k})
           spoof(k) == parseSpoof(Flags.spoofs[k])
           offers(k, t) == t \in Range(Flags.sources[k].tables)
           fromFirst(t, n) == \E k \in sqls : /\ offers(k, t) /\ n = number(sqls, k)
                                              /\ \A j \in sqls : offers(j, t) => k <= j
           found(e, t) == e.kind # "none" /\ (Cardinality(sqls) <= 10 => fromFirst(t, e.from))
           serves(i) == \A k \in sqls : \A t \in Range(Flags.sources[k].tables) :
                          Dropped(i, t) \/ found(db[DbOf(i)][t], t)
           redisServed(k) == \E i \in started, j \in dumps :
                               /\ redisCfg[i].port = spoof(k).port
                               /\ redisCfg[i].dump = Flags.sources[j].dump
                               /\ number(dumps, j) = number(redises, k)
           sqlServed(k) == \E i \in bound : /\ Instances[i].proto = spoof(k).proto
                                            /\ Instances[i].port = spoof(k).port
                                            /\ serves(i)
<1>1. FlagsMade
  BY FlagsAreMade DEF RunsConfigured
<1>2. dumps = DumpFlags(Flags.sources) /\ sqls = SqlFlags(Flags.sources)
  BY DEF DumpFlags, SqlFlags, parseSource
<1>3. redises = TargetFlags(Flags.spoofs, "redis")
  BY DEF TargetFlags, parseSpoof, protocolOf
<1>4. /\ bound = {i \in DOMAIN Instances : Instances[i].port # 0}
      /\ started = DOMAIN redisCfg
  <2>1. Len(Instances) \in Nat /\ DOMAIN Instances = 1 .. Len(Instances)
    BY ConfigFacts DEF StartInv
  <2>2. started = DOMAIN redisCfg
    BY DEF StartInv, ShardState, AllStarted
  <2> QED BY <2>1, <2>2 DEF StartInv, ShardState
<1>5. \A K, k : number(K, k) = Number(K, k)
  BY DEF Number
<1> HIDE DEF dumps, sqls, redises, number
<1>6. ASSUME NEW k \in DOMAIN Flags.spoofs, spoof(k).proto = "redis"
      PROVE  redisServed(k)
  <2>1. k \in TargetFlags(Flags.spoofs, "redis")
    BY <1>6 DEF TargetFlags
  <2>2. GetsDump(redisCfg, redises, k, Flags.spoofs, dumps, Flags.sources)
    BY <1>1, <1>2, <1>3, <2>1 DEF FlagsMade
  <2> QED BY <1>4, <1>5, <2>2 DEF GetsDump
<1>7. ASSUME NEW i \in bound PROVE serves(i)
  <2>1. ASSUME NEW k \in sqls, NEW t \in Range(Flags.sources[k].tables), ~Dropped(i, t)
        PROVE  found(db[DbOf(i)][t], t)
    <3>1. /\ db[DbOf(i)][t].kind # "none"
          /\ Cardinality(sqls) <= 10 =>
               \E h \in sqls : /\ offers(h, t) /\ db[DbOf(i)][t].from = Number(sqls, h)
                               /\ \A j \in sqls : offers(j, t) => h <= j
      BY <1>1, <1>2, <2>1, TablesOfFlags
    <3> QED BY <1>5, <3>1
  <2> QED BY <2>1
<1> HIDE DEF serves
<1>8. ASSUME NEW k \in DOMAIN Flags.spoofs, spoof(k).proto # "redis", spoof(k).port # 0
      PROVE  sqlServed(k)
  <2>1. spoof(k).proto \in {"postgres", "mysql", "clickhouse"}
    <3>1. spoof(k).ok
      BY <1>1 DEF FlagsMade
    <3> QED BY <1>8, <3>1 DEF parseSpoof, protocolOf
  <2>2. k \in TargetFlags(Flags.spoofs, spoof(k).proto)
    BY DEF TargetFlags
  <2>3. PICK i \in DOMAIN Instances : Instances[i].proto = spoof(k).proto /\ Instances[i].port = spoof(k).port
    BY <1>1, <2>1, <2>2 DEF FlagsMade, HaveShards
  <2>4. i \in bound
    BY <1>4, <1>8, <2>3
  <2> QED BY <1>7, <2>3, <2>4
<1> HIDE DEF redisServed, sqlServed
<1>9. \A k \in DOMAIN Flags.spoofs :
        spoof(k).port # 0 => IF spoof(k).proto = "redis" THEN redisServed(k) ELSE sqlServed(k)
  BY <1>6, <1>8
<1> QED BY <1>9, Zenon DEF FlagsHonoured, redisServed, sqlServed, serves, number, dumps, sqls, redises

(***************************************************************************)
(* A process started from flags serves what the flags say, for any flags   *)
(* of up to a hundred sources and as many targets (configFromFlags,        *)
(* parseSpoof, selectSources, startShards, redis.Start).                   *)
(***************************************************************************)
THEOREM FlagsServed == Spec => []FlagsHonoured
<1>1. Init => RunsConfigured
  BY DEF Init, RunsConfigured
<1>2. RunsConfigured /\ [Next]_vars => RunsConfigured'
  BY RunsConfiguredStep
<1>3. Spec => []LoadedInv
  BY LoadedInvAlways
<1>4. StartInv /\ LoadedInv /\ RunsConfigured => FlagsHonoured
  BY FlagsRun
<1> QED BY <1>1, <1>2, <1>3, <1>4, StartInvAlways, PTL DEF Spec
=============================================================================
