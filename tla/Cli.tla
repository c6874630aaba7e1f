-------------------------------- MODULE Cli --------------------------------
(***************************************************************************)
(* The configuration that -source and -spoof flags stand for               *)
(* (cmd/spoofdb/cli.go).  A source spec is abstracted to its kind and what *)
(* it holds (tables, or the objects of a dump), a spoof spec to the name   *)
(* of a protocol and the way its port is given.                            *)
(***************************************************************************)
EXTENDS Naturals, Sequences, SequencesExt

\* The elements of K in the order of their ranks, and the items of a sequence that
\* are at the positions of K.
Ordered(K, rank) ==
  [p \in 1 .. Cardinality(K) |->
     CHOOSE k \in K : Cardinality({j \in K : rank[j] <= rank[k]}) = p]
Positions(K) == Ordered(K, [k \in K |-> k])
ItemsAt(s, K) == [n \in 1 .. Cardinality(K) |-> s[Positions(K)[n]]]

\* stringSlice.Set: every occurrence of a flag is a list, blank items dropped.
stringSlice(occurrences) ==
  LET items == FlattenSeq(occurrences)
  IN ItemsAt(items, {k \in DOMAIN items : items[k].kind # "blank"})

\* parseSource, for the kinds of spec it tells apart; "bad" is an unknown scheme
\* or extension, or a path that is not there.
LoaderOf(kind) ==
  CASE kind \in {"dir", "csv", "parquet"} -> "file"
    [] kind \in {"postgres", "mysql"} -> "database"
    [] kind = "clickhouse" -> "clickhouse"

parseSource(spec) ==
  [ok |-> spec.kind # "bad", isRedis |-> spec.kind = "rdb"]

\* parseSpoof and defaultPort.  A port is "omitted", a "number" or "bad".
protocolOf(name) ==
  CASE name \in {"postgres", "postgresql", "pg"} -> "postgres"
    [] name \in {"mysql", "my"} -> "mysql"
    [] name \in {"clickhouse", "ch"} -> "clickhouse"
    [] name = "redis" -> "redis"
    [] OTHER -> "unknown"

defaultPort(proto) ==
  CASE proto = "postgres" -> 5432 [] proto = "mysql" -> 3306
    [] proto = "clickhouse" -> 9000 [] proto = "redis" -> 6379 [] OTHER -> 0

parseSpoof(spec) ==
  LET proto == protocolOf(spec.kind) IN
  [ok    |-> proto # "unknown" /\ spec.form # "bad",
   proto |-> proto,
   port  |-> IF spec.form = "omitted" THEN defaultPort(proto) ELSE spec.port]

(***************************************************************************)
(* Sources are named src0, src1, ... and instances shard0, shard1, ..., in *)
(* the order of the flags, and are gone through in the order of the names  *)
(* as strings, where src10 comes before src2.  Names have at most two      *)
(* digits.                                                                 *)
(***************************************************************************)
StringRank(n) == IF n < 10 THEN 11 * n ELSE 11 * (n \div 10) + 1 + (n % 10)

\* A sequence whose k-th item is named k - 1, in the order of the names.
ByName(s) ==
  LET names == Ordered(DOMAIN s, [k \in DOMAIN s |-> StringRank(k - 1)])
  IN [p \in DOMAIN s |-> s[names[p]]]

\* The targets of a protocol are numbered in the order of their flags.
TargetFlags(spoofs, proto) == {k \in DOMAIN spoofs : parseSpoof(spoofs[k]).proto = proto}

\* Mutant of TargetsOf: the counter behind the shard names is not advanced, so a
\* later target of a protocol takes the place of an earlier one.
TargetsOverwritten(spoofs, proto) ==
  LET ts == ItemsAt([k \in DOMAIN spoofs |-> parseSpoof(spoofs[k])], TargetFlags(spoofs, proto))
  IN IF ts = <<>> THEN ts ELSE <<Last(ts)>>

TargetsOf(spoofs, proto) ==
  ItemsAt([k \in DOMAIN spoofs |-> parseSpoof(spoofs[k])], TargetFlags(spoofs, proto))

\* The sources for SQL and the dumps, each numbered on their own.
SqlFlags(sources) == {k \in DOMAIN sources : ~parseSource(sources[k]).isRedis}
DumpFlags(sources) == {k \in DOMAIN sources : parseSource(sources[k]).isRedis}

NoConfig == [ok |-> FALSE, sources |-> <<>>, instances |-> <<>>, redis |-> <<>>]

(***************************************************************************)
(* configFromFlags: every SQL target serves all the SQL sources (an empty  *)
(* list of sources); the n-th Redis target gets the n-th .rdb source.      *)
(***************************************************************************)
configFromFlags(flags) ==
  LET sql == ItemsAt(flags.sources, SqlFlags(flags.sources))
      dumps == ItemsAt(flags.sources, DumpFlags(flags.sources))
      redisTargets == TargetsOf(flags.spoofs, "redis")
      shards(proto) ==
        LET ts == ByName(TargetsOf(flags.spoofs, proto))
        IN [k \in DOMAIN ts |-> [proto |-> proto, port |-> ts[k].port, sources |-> {}, again |-> {}]]
  IN IF \/ flags.sources = <<>> \/ flags.spoofs = <<>>
        \/ \E k \in DOMAIN flags.sources : ~parseSource(flags.sources[k]).ok
        \/ \E k \in DOMAIN flags.spoofs : ~parseSpoof(flags.spoofs[k]).ok
        \/ Len(redisTargets) > Len(dumps)
        \/ sql = <<>> /\ redisTargets = <<>>
     THEN NoConfig
     ELSE [ok |-> TRUE,
           sources |-> ByName([k \in DOMAIN sql |-> [type |-> LoaderOf(sql[k].kind),
                                                     tables |-> sql[k].tables, allow |-> <<>>]]),
           instances |-> shards("postgres") \o shards("mysql") \o shards("clickhouse"),
           redis |-> [k \in DOMAIN redisTargets |->
                        [port |-> redisTargets[k].port, dump |-> dumps[k].dump]]]
=============================================================================
