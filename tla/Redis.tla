------------------------------- MODULE Redis -------------------------------
(***************************************************************************)
(* The Redis instances (internal/redis): redis.Start launches them one     *)
(* after the other in the order of a map, which is any order.  An instance *)
(* is served from StartAddr on, and only then is its dump replayed, object *)
(* by object, so clients work on it in between.                            *)
(*                                                                         *)
(* A dump is a sequence of objects [db, key, type, empty, exp]; exp says   *)
(* whether the object expires, in the future or in the past of the load.   *)
(* A value is abstracted to its type, who put something into it and        *)
(* whether it has a TTL.  miniredis is a library (marked external).        *)
(***************************************************************************)
EXTENDS Naturals, Sequences, FiniteSets

CONSTANT Slots      \* the keys of all logical databases, as pairs <<db, key>>

VARIABLES
  cfg,        \* config.Config; its redis are the instances, [port, dump]
  starting,   \* the instance whose dump is being replayed, 0 if none
  rest,       \* the objects of that dump still to be replayed
  started,    \* the instances startInstance has returned
  keyspace,   \* what every instance holds
  stats,      \* seedStats of every instance, dbs as the set seenDB
  touched     \* history: what clients have written since the instance is up

redis == <<cfg, starting, rest, started, keyspace, stats, touched>>

redisCfg == cfg.redis

ObjectTypes == {"string", "list", "set", "hash", "zset", "stream", "aux"}
Objects == [db : Nat, key : STRING, type : ObjectTypes, empty : BOOLEAN, exp : {"none", "past", "future"}]

NoKey == [type |-> "none", from |-> {}, ttl |-> FALSE]
Values == [type : ObjectTypes \cup {"none"}, from : SUBSET {"dump", "client"}, ttl : BOOLEAN]

\* miniredis DB.Set, Push, SetAdd, HSet, ZAdd on a slot that holds v: Set and
\* HSet replace, the others add, and all but HSet refuse a value of another type.
Refused(type, v) == type # "hash" /\ v.type \notin {"none", type}
Put(type, who, v) ==
  IF type = "string" \/ (type = "hash" /\ v.type # "hash")
  THEN [type |-> type, from |-> {who}, ttl |-> FALSE]
  ELSE [type |-> type, from |-> v.from \cup {who}, ttl |-> v.ttl]

Slot(o) == <<o.db, o.key>>

\* Whether the callback of seedFromRDB gets past its switch: not for streams and
\* metadata, not for an empty collection, not for a string that was refused.
Wrote(o, v) ==
  /\ o.type \notin {"stream", "aux"}
  /\ o.type # "string" => ~o.empty
  /\ ~(o.type = "string" /\ Refused("string", v))

\* Mutant of Replayed: an expiration in the past sets a TTL as well.
ReplayedAnyExpiry(o, v) ==
  IF ~Wrote(o, v) THEN v
  ELSE LET w == IF Refused(o.type, v) THEN v ELSE Put(o.type, "dump", v)
       IN [w EXCEPT !.ttl = @ \/ o.exp # "none"]

\* The value of its slot after the callback.  A refused collection is logged and
\* goes on to the TTL; an expiration in the past sets none.
Replayed(o, v) ==
  IF ~Wrote(o, v) THEN v
  ELSE LET w == IF Refused(o.type, v) THEN v ELSE Put(o.type, "dump", v)
       IN [w EXCEPT !.ttl = @ \/ o.exp = "future"]

NothingStarted ==
  /\ starting = 0 /\ rest = <<>> /\ started = {} /\ touched = {}
  /\ keyspace = [i \in DOMAIN redisCfg |-> [s \in Slots |-> NoKey]]
  /\ stats = [i \in DOMAIN redisCfg |-> [keys |-> 0, dbs |-> {}]]

\* Close of all instances, the one being started included.
CloseAll ==
  /\ starting' = 0 /\ rest' = <<>> /\ started' = {} /\ touched' = {}
  /\ keyspace' = [i \in DOMAIN redisCfg |-> [s \in Slots |-> NoKey]]
  /\ stats' = [i \in DOMAIN redisCfg |-> [keys |-> 0, dbs |-> {}]]
  /\ UNCHANGED cfg

Open == started \cup ({starting} \ {0})

\* A Redis instance listens on the port; port 0 is a free one.
Taken(port) == port # 0 /\ \E i \in Open : redisCfg[i].port = port

-----------------------------------------------------------------------------
\* startInstance: StartAddr has bound the port, clients may connect.
StartAddr(i) ==
  /\ starting = 0 /\ i \in DOMAIN redisCfg \ started
  /\ ~Taken(redisCfg[i].port)
  /\ starting' = i
  /\ rest' = redisCfg[i].dump
  /\ UNCHANGED <<cfg, started, keyspace, stats, touched>>

\* seedFromRDB: the parser calls back with the next object.
Replay ==
  /\ starting # 0 /\ rest # <<>>
  /\ LET o == Head(rest)
         v == keyspace[starting][Slot(o)]
     IN /\ keyspace' = [keyspace EXCEPT ![starting][Slot(o)] = Replayed(o, v)]
        /\ stats' = IF Wrote(o, v)
                    THEN [stats EXCEPT ![starting] = [keys |-> @.keys + 1, dbs |-> @.dbs \cup {o.db}]]
                    ELSE stats
  /\ rest' = Tail(rest)
  /\ UNCHANGED <<cfg, starting, started, touched>>

Seeded ==
  /\ starting # 0 /\ rest = <<>>
  /\ started' = started \cup {starting}
  /\ starting' = 0
  /\ UNCHANGED <<cfg, rest, keyspace, stats, touched>>

AllStarted == starting = 0 /\ started = DOMAIN redisCfg

ClientWrites(i, s, v) ==
  /\ keyspace' = [keyspace EXCEPT ![i][s] = v]
  /\ touched' = touched \cup {<<i, s>>}
  /\ UNCHANGED <<cfg, starting, rest, started, stats>>

\* What clients do: SET and DEL whatever is there, RPUSH on a list or nothing.
ClientCommand(i, s) ==
  /\ i \in Open
  /\ \/ ClientWrites(i, s, [type |-> "string", from |-> {"client"}, ttl |-> FALSE])
     \/ ClientWrites(i, s, NoKey)
     \/ /\ ~Refused("list", keyspace[i][s])
        /\ ClientWrites(i, s, Put("list", "client", keyspace[i][s]))

-----------------------------------------------------------------------------
RedisTypeOK ==
  /\ starting \in 0 .. Len(redisCfg)
  /\ started \subseteq DOMAIN redisCfg
  /\ keyspace \in [DOMAIN redisCfg -> [Slots -> Values]]
  /\ touched \subseteq (DOMAIN redisCfg) \X Slots

\* What the dump of an instance says about a slot: its object, unless it is a
\* stream, metadata or an empty collection; its TTL, unless that has run out.
Dumped(i, s) ==
  LET os == {o \in {redisCfg[i].dump[k] : k \in DOMAIN redisCfg[i].dump} :
               /\ Slot(o) = s
               /\ o.type = "string" \/ (~o.empty /\ o.type \notin {"stream", "aux"})}
  IN IF os = {} THEN NoKey
     ELSE LET o == CHOOSE o \in os : TRUE
          IN [type |-> o.type, from |-> {"dump"}, ttl |-> o.exp = "future"]

(***************************************************************************)
(* Once an instance is started, every key no client has written holds what *)
(* the dump says, whatever clients did to the others during the replay; if *)
(* they wrote none, the counts it logs are those of its keyspace           *)
(* (startInstance, seedFromRDB).                                           *)
(***************************************************************************)
SeededUnlessTouched ==
  \A i \in started :
    /\ \A s \in Slots : <<i, s>> \notin touched => keyspace[i][s] = Dumped(i, s)
    /\ (\A s \in Slots : <<i, s>> \notin touched)
         => LET held == {s \in Slots : Dumped(i, s) # NoKey}
            IN /\ stats[i].keys = Cardinality(held)
               /\ stats[i].dbs = {s[1] : s \in held}
=============================================================================
