----------------------------- MODULE MCStartup -----------------------------
(***************************************************************************)
(* Setups for Startup.                                                     *)
(***************************************************************************)
EXTENDS Startup

Plain(type, tables) == [type |-> type, tables |-> tables, allow |-> <<>>]
SourceOf(type, tables, allow) == [type |-> type, tables |-> tables, allow |-> allow]
Listing(port, sources, again) ==
  [proto |-> "postgres", port |-> port, sources |-> sources, again |-> again]
Instance(port, sources) == Listing(port, sources, {})
Object(index, key, type, empty, exp) ==
  [db |-> index, key |-> key, type |-> type, empty |-> empty, exp |-> exp]

MCTables == {"a", "b", "c"}
MCSlots == {<<0, "k">>, <<0, "l">>, <<1, "k">>}

NoFlags == [sources |-> <<>>, spoofs |-> <<>>]
NoFile == NoConfig

Setup(flags, file, persist, reset, failures, clients, redisClients) ==
  [flags |-> flags, file |-> file, persist |-> persist, reset |-> reset,
   failures |-> failures, clients |-> clients, redisClients |-> redisClients]

File(sources, instances, redises) ==
  [ok |-> TRUE, sources |-> sources, instances |-> instances, redis |-> redises]

\* In memory: three sources that offer the same tables in part; two instances
\* with sets of their own, one that is off, one that shares an engine, one with
\* all sources; and a Redis instance with an empty dump.
InMemory ==
  Setup(NoFlags,
    File(<<SourceOf("database", <<"c", "a", "b">>, <<"b", "a">>), Plain("clickhouse", <<"b">>),
           Plain("file", <<"a">>)>>,
         <<Instance(1, {1, 2}), Instance(2, {2, 3}), Instance(0, {3}),
           Instance(3, {1, 2}), Instance(4, {})>>,
         <<[port |-> 5, dump |-> <<>>]>>),
    FALSE, FALSE, TRUE, {"c"}, {})

\* On a file: no table is offered twice, and clients have a table of their own.
OnFile ==
  Setup(NoFlags,
    File(<<Plain("file", <<"a">>), SourceOf("clickhouse", <<"b", "c">>, <<"b">>)>>,
         <<Instance(1, {1}), Instance(2, {2}), Instance(3, {1})>>, <<>>),
    TRUE, TRUE, TRUE, {"c"}, {})

\* On a file: a name that two kinds of source offer and clients use as well, and
\* an instance with a source that is not configured.
Clashing ==
  Setup(NoFlags,
    File(<<Plain("file", <<"b">>), Plain("file", <<"a">>), Plain("clickhouse", <<"a">>)>>,
         <<Instance(1, {1}), Instance(2, {2}), Instance(3, {3}), Instance(4, {7})>>, <<>>),
    TRUE, TRUE, FALSE, {"a"}, {})

\* On a file: clients drop the tables of the sources, create their own under the
\* same names and fill them, before, between and after the loads of every start.
Retaken ==
  Setup(NoFlags,
    File(<<Plain("database", <<"a">>), Plain("clickhouse", <<"b">>)>>,
         <<Instance(1, {1}), Instance(2, {2})>>, <<>>),
    TRUE, FALSE, FALSE, {"a", "b"}, {})

\* On a file: the list of a ClickHouse source names a table it does not have.
Misnamed ==
  Setup(NoFlags,
    File(<<Plain("file", <<"a">>), SourceOf("clickhouse", <<"b">>, <<"b", "c">>)>>,
         <<Instance(1, {1}), Instance(2, {2})>>, <<>>),
    TRUE, FALSE, FALSE, {}, {})

\* In memory: an instance that lists a source twice has an engine of its own.
Repeated ==
  Setup(NoFlags,
    File(<<Plain("file", <<"a">>), Plain("database", <<"a", "b">>)>>,
         <<Instance(1, {1, 2}), Listing(2, {1, 2}, {<<2, 1>>}), Instance(3, {})>>, <<>>),
    FALSE, FALSE, FALSE, {"c"}, {})

\* Redis only: two instances with two databases each, keys of every kind in them,
\* clients that write two of them, failures.
Redises ==
  Setup(NoFlags,
    File(<<>>, <<>>,
         <<[port |-> 1, dump |-> <<Object(0, "k", "string", FALSE, "past"),
                                   Object(0, "l", "list", FALSE, "future"),
                                   Object(1, "k", "zset", TRUE, "none")>>],
           [port |-> 2, dump |-> <<Object(0, "l", "hash", FALSE, "none"),
                                   Object(1, "k", "stream", FALSE, "future")>>]>>),
    FALSE, FALSE, TRUE, {}, {<<0, "k">>, <<0, "l">>})

\* Two Redis instances on one port.
SamePort ==
  Setup(NoFlags, File(<<>>, <<>>, <<[port |-> 1, dump |-> <<>>], [port |-> 1, dump |-> <<>>]>>),
        FALSE, FALSE, FALSE, {}, {})

Unreadable == Setup(NoFlags, NoFile, TRUE, FALSE, FALSE, {}, {})

Src(kind, tables, dump) == [kind |-> kind, tables |-> tables, dump |-> dump]
Spoof(name, form, port) == [kind |-> name, form |-> form, port |-> port]
Dump(key) == <<Object(0, key, "set", FALSE, "none")>>

FromFlags(sources, spoofs, clients) ==
  Setup([sources |-> sources, spoofs |-> spoofs], NoFile, FALSE, FALSE, FALSE, clients, {})

\* Flags: two dumps among three sources, two targets of a kind, ports given,
\* left out and 0.
Flagged ==
  FromFlags(<<<<Src("csv", <<"a">>, <<>>), Src("rdb", <<>>, Dump("k"))>>,
              <<Src("blank", <<>>, <<>>), Src("postgres", <<"b", "a">>, <<>>)>>,
              <<Src("rdb", <<>>, Dump("l")), Src("clickhouse", <<"b">>, <<>>)>>>>,
            <<<<Spoof("redis", "omitted", 0), Spoof("pg", "number", 1)>>,
              <<Spoof("mysql", "omitted", 0), Spoof("redis", "number", 2)>>,
              <<Spoof("postgresql", "omitted", 0), Spoof("ch", "number", 0)>>>>, {"b"})

\* Flags with eleven sources: src10 comes before src2.
Eleven ==
  FromFlags(<<[k \in 1 .. 11 |-> Src("csv", IF k \in {3, 11} THEN <<"a">> ELSE <<"b">>, <<>>)]>>,
            <<<<Spoof("pg", "omitted", 0)>>>>, {})

\* Flags that are refused, and targets that want the same port.
Refusals ==
  {FromFlags(<<<<Src("csv", <<"a">>, <<>>)>>>>, spoofs, {}) :
     spoofs \in {<<>>, <<<<Spoof("oracle", "omitted", 0)>>>>, <<<<Spoof("pg", "bad", 0)>>>>,
                 <<<<Spoof("redis", "omitted", 0)>>>>,
                 <<<<Spoof("pg", "number", 1), Spoof("my", "number", 1)>>>>}}
  \cup {FromFlags(<<<<Src(kind, <<>>, <<>>)>>>>, <<<<Spoof("pg", "omitted", 0)>>>>, {}) :
          kind \in {"bad", "rdb"}}

Sound ==
  {InMemory, OnFile, Clashing, Retaken, Misnamed, Repeated, Redises, SamePort, Unreadable,
   Flagged, Eleven} \cup Refusals

\* On a file: the same name from two sources, one for each shard.
Twins ==
  Setup(NoFlags,
    File(<<Plain("file", <<"a">>), Plain("file", <<"a">>)>>,
         <<Instance(1, {1}), Instance(2, {2})>>, <<>>),
    TRUE, FALSE, FALSE, {"c"}, {})

Sharded == {Twins}
=============================================================================
