---------------------------- MODULE RedisProofs ----------------------------
(***************************************************************************)
(* The Redis instances of Startup with any number of instances, dumps of   *)
(* any length and any keys: clients that work on an instance while its     *)
(* dump is replayed leave the other keys as the dump has them.             *)
(***************************************************************************)
EXTENDS StartupProofs

DumpOf(i) == redisCfg[i].dump

\* The objects a dump gives a key for.
Live(o) == o.type = "string" \/ (~o.empty /\ o.type \notin {"stream", "aux"})

\* A dump is that of a keyspace: it has no key twice.
KeysOnce ==
  \A i \in DOMAIN redisCfg : \A j, k \in DOMAIN DumpOf(i) :
    Live(DumpOf(i)[j]) /\ Live(DumpOf(i)[k]) /\ Slot(DumpOf(i)[j]) = Slot(DumpOf(i)[k]) => j = k

\* How many objects of its dump an instance has replayed, and the keys in them.
Done(i) ==
  IF i \in started THEN Len(DumpOf(i))
  ELSE IF i = starting THEN Len(DumpOf(i)) - Len(rest) ELSE 0

HeldAfter(i, n) ==
  {s \in Slots : \E j \in 1 .. n : Live(DumpOf(i)[j]) /\ Slot(DumpOf(i)[j]) = s}

Held(i) == HeldAfter(i, Done(i))

\* What is still to be replayed is the end of the dump.
RestState ==
  starting # 0 => /\ starting \notin started
                  /\ Len(rest) <= Len(DumpOf(starting))
                  /\ \A j \in 1 .. Len(rest) : rest[j] = DumpOf(starting)[Done(starting) + j]

(***************************************************************************)
(* A key no client has written holds what the dump says as soon as its     *)
(* object is replayed, and nothing before; if clients have written none,   *)
(* the counts are those of the keys replayed so far.                       *)
(***************************************************************************)
KeysState ==
  \A i \in DOMAIN redisCfg : \A s \in Slots :
    <<i, s>> \notin touched => keyspace[i][s] = IF s \in Held(i) THEN Dumped(i, s) ELSE NoKey

CountState ==
  /\ stats \in [DOMAIN redisCfg -> [keys : Nat, dbs : SUBSET Nat]]
  /\ \A i \in DOMAIN redisCfg :
       /\ IsFiniteSet(Held(i))
       /\ (\A s \in Slots : <<i, s>> \notin touched)
            => stats[i].keys = Cardinality(Held(i)) /\ stats[i].dbs = {s[1] : s \in Held(i)}

SeedInv == KeysOnce => RestState /\ KeysState /\ CountState

-----------------------------------------------------------------------------
\* A dump of the configuration is a sequence of objects whose slots are known.
LEMMA DumpFacts ==
  ASSUME Configured, NEW i \in DOMAIN redisCfg
  PROVE  /\ DumpOf(i) \in Seq({o \in Objects : Slot(o) \in Slots})
         /\ Len(DumpOf(i)) \in Nat /\ DOMAIN DumpOf(i) = 1 .. Len(DumpOf(i))
         /\ \A j \in 1 .. Len(DumpOf(i)) : DumpOf(i)[j] \in Objects /\ Slot(DumpOf(i)[j]) \in Slots
<1>1. DumpOf(i) \in Seq({o \in Objects : Slot(o) \in Slots})
  BY ConfigFacts DEF DumpOf
<1> QED BY <1>1

\* One more object: a key of its own, or none.
LEMMA HeldGrows ==
  ASSUME Configured, KeysOnce, NEW i \in DOMAIN redisCfg, NEW n \in Nat, n < Len(DumpOf(i))
  PROVE  /\ Live(DumpOf(i)[n + 1]) => /\ HeldAfter(i, n + 1) = HeldAfter(i, n) \cup {Slot(DumpOf(i)[n + 1])}
                                      /\ Slot(DumpOf(i)[n + 1]) \notin HeldAfter(i, n)
         /\ ~Live(DumpOf(i)[n + 1]) => HeldAfter(i, n + 1) = HeldAfter(i, n)
<1>0. Len(DumpOf(i)) \in Nat /\ DOMAIN DumpOf(i) = 1 .. Len(DumpOf(i))
  BY DumpFacts
<1>1. /\ n + 1 \in DOMAIN DumpOf(i) /\ Slot(DumpOf(i)[n + 1]) \in Slots
      /\ 1 .. n + 1 = (1 .. n) \cup {n + 1} /\ 1 .. n \subseteq DOMAIN DumpOf(i) /\ n + 1 \notin 1 .. n
  <2>1. n + 1 \in 1 .. Len(DumpOf(i)) /\ 1 .. n + 1 = (1 .. n) \cup {n + 1}
        /\ 1 .. n \subseteq 1 .. Len(DumpOf(i)) /\ n + 1 \notin 1 .. n
    BY <1>0
  <2> QED BY <1>0, <2>1, DumpFacts
<1>2. ASSUME Live(DumpOf(i)[n + 1]) PROVE Slot(DumpOf(i)[n + 1]) \notin HeldAfter(i, n)
  BY <1>1, <1>2 DEF KeysOnce, HeldAfter
<1>3. ASSUME Live(DumpOf(i)[n + 1])
      PROVE  HeldAfter(i, n + 1) = HeldAfter(i, n) \cup {Slot(DumpOf(i)[n + 1])}
  BY <1>1, <1>3 DEF HeldAfter
<1>4. ASSUME ~Live(DumpOf(i)[n + 1]) PROVE HeldAfter(i, n + 1) = HeldAfter(i, n)
  BY <1>1, <1>4 DEF HeldAfter
<1> QED BY <1>2, <1>3, <1>4

\* What the dump says about the key of one of its objects, and about the others.
LEMMA DumpedFacts ==
  ASSUME Configured, KeysOnce, NEW i \in DOMAIN redisCfg
  PROVE  /\ \A j \in DOMAIN DumpOf(i) : LET o == DumpOf(i)[j] IN Live(o) =>
              Dumped(i, Slot(o)) = [type |-> o.type, from |-> {"dump"}, ttl |-> o.exp = "future"]
         /\ \A s \in Slots : Dumped(i, s) # NoKey <=> s \in HeldAfter(i, Len(DumpOf(i)))
<1> DEFINE os(s) == {o \in {redisCfg[i].dump[k] : k \in DOMAIN redisCfg[i].dump} :
               /\ Slot(o) = s
               /\ o.type = "string" \/ (~o.empty /\ o.type \notin {"stream", "aux"})}
<1>1. \A s : os(s) = {o \in {DumpOf(i)[k] : k \in DOMAIN DumpOf(i)} : Slot(o) = s /\ Live(o)}
  BY DEF DumpOf, Live
<1>2. ASSUME NEW j \in DOMAIN DumpOf(i), Live(DumpOf(i)[j])
      PROVE  Dumped(i, Slot(DumpOf(i)[j])) =
               [type |-> DumpOf(i)[j].type, from |-> {"dump"}, ttl |-> DumpOf(i)[j].exp = "future"]
  <2>1. os(Slot(DumpOf(i)[j])) = {DumpOf(i)[j]}
    BY <1>1, <1>2 DEF KeysOnce
  <2>2. (CHOOSE o \in os(Slot(DumpOf(i)[j])) : TRUE) = DumpOf(i)[j]
    BY <2>1
  <2> QED BY <2>1, <2>2 DEF Dumped
<1>3. ASSUME NEW s \in Slots
      PROVE  Dumped(i, s) # NoKey <=> s \in HeldAfter(i, Len(DumpOf(i)))
  <2>1. CASE s \in HeldAfter(i, Len(DumpOf(i)))
    <3>1. PICK j \in DOMAIN DumpOf(i) : Live(DumpOf(i)[j]) /\ Slot(DumpOf(i)[j]) = s
      BY <2>1, DumpFacts DEF HeldAfter
    <3>2. DumpOf(i)[j].type \in ObjectTypes
      <4>1. DumpOf(i)[j] \in Objects
        BY DumpFacts
      <4> QED BY <4>1 DEF Objects
    <3>3. Dumped(i, s).type # "none"
      BY <1>2, <3>1, <3>2 DEF ObjectTypes
    <3> QED BY <2>1, <3>3 DEF NoKey
  <2>2. CASE s \notin HeldAfter(i, Len(DumpOf(i)))
    <3>1. os(s) = {}
      <4>1. \A k \in DOMAIN DumpOf(i) : ~(Slot(DumpOf(i)[k]) = s /\ Live(DumpOf(i)[k]))
        BY <2>2, DumpFacts DEF HeldAfter
      <4> QED BY <1>1, <4>1
    <3> QED BY <2>2, <3>1 DEF Dumped
  <2> QED BY <2>1, <2>2
<1> QED BY <1>2, <1>3

\* An object on a key that is not there, and an object that gives none.
LEMMA ReplayedFacts ==
  ASSUME NEW o \in Objects
  PROVE  /\ Live(o) => /\ Wrote(o, NoKey)
                       /\ Replayed(o, NoKey) = [type |-> o.type, from |-> {"dump"}, ttl |-> o.exp = "future"]
         /\ ~Live(o) => \A v : ~Wrote(o, v) /\ Replayed(o, v) = v
<1>1. o.type \in ObjectTypes
  BY DEF Objects
<1>2. Live(o) => Wrote(o, NoKey) /\ ~Refused(o.type, NoKey)
  BY <1>1 DEF Live, Wrote, Refused, NoKey
<1>3. Live(o) => Put(o.type, "dump", NoKey) = [type |-> o.type, from |-> {"dump"}, ttl |-> FALSE]
  BY DEF Put, NoKey
<1>4. Live(o) => Replayed(o, NoKey) = [type |-> o.type, from |-> {"dump"}, ttl |-> o.exp = "future"]
  BY <1>2, <1>3 DEF Replayed
<1>5. ~Live(o) => \A v : ~Wrote(o, v)
  BY DEF Live, Wrote
<1> QED BY <1>2, <1>4, <1>5 DEF Replayed

-----------------------------------------------------------------------------
\* What dumps say is fixed with the configuration.
LEMMA RigidDumps ==
  ASSUME cfg' = cfg
  PROVE  /\ redisCfg' = redisCfg /\ KeysOnce' = KeysOnce
         /\ \A i : DumpOf(i)' = DumpOf(i)
         /\ \A i, s : Dumped(i, s)' = Dumped(i, s)
         /\ \A i, n : HeldAfter(i, n)' = HeldAfter(i, n)
  BY DEF redisCfg, KeysOnce, DumpOf, Dumped, HeldAfter, Live

\* Before the first object no key is held.
LEMMA SeedEmpty ==
  ASSUME NEW i
  PROVE  HeldAfter(i, 0) = {}
  BY DEF HeldAfter

\* Steps that leave Redis alone keep what is seeded.
LEMMA SeedUnchanged ==
  ASSUME UNCHANGED redis, KeysOnce, RestState, KeysState, CountState
  PROVE  RestState' /\ KeysState' /\ CountState'
<1>1. cfg' = cfg /\ UNCHANGED <<starting, rest, started, keyspace, stats, touched>>
  BY DEF redis
<1>2. \A i : Done(i)' = Done(i) /\ Held(i)' = Held(i)
  BY <1>1 DEF Done, Held, HeldAfter, DumpOf, redisCfg
<1>3. RestState'
  BY <1>1, <1>2, RigidDumps DEF RestState
<1>4. KeysState' /\ CountState'
  BY <1>1, <1>2, RigidDumps DEF KeysState, CountState
<1> QED BY <1>3, <1>4

\* Close of all instances empties them.
LEMMA SeedClosed ==
  ASSUME Configured, CloseAll
  PROVE  RestState' /\ KeysState' /\ CountState'
<1>1. cfg' = cfg
  BY DEF CloseAll
<1>2. \A i \in DOMAIN redisCfg : Done(i)' = 0
  <2>1. 0 \notin DOMAIN redisCfg
    BY ConfigFacts
  <2> QED BY <1>1, <2>1, RigidDumps DEF CloseAll, Done
<1>3. \A i \in DOMAIN redisCfg : Held(i)' = {}
  BY <1>1, <1>2, RigidDumps, SeedEmpty DEF Held
<1>4. RestState'
  BY DEF CloseAll, RestState
<1>5. KeysState'
  BY <1>1, <1>3, RigidDumps DEF CloseAll, KeysState
<1>6. CountState'
  BY <1>1, <1>3, RigidDumps, FS_EmptySet DEF CloseAll, CountState
<1> QED BY <1>4, <1>5, <1>6

\* The instance at starting replays the next object of its dump.
LEMMA SeedReplays ==
  ASSUME StartInv, KeysOnce, RestState, KeysState, CountState, Replay
  PROVE  RestState' /\ KeysState' /\ CountState'
<1> SUFFICES ASSUME NEW i, i = starting, NEW n, n = Done(starting), NEW o, o = DumpOf(starting)[n + 1]
             PROVE  RestState' /\ KeysState' /\ CountState'
  OBVIOUS
<1>1. Configured /\ cfg' = cfg
  BY DEF StartInv, Replay
<1>2. i \in DOMAIN redisCfg /\ starting # 0 /\ starting \notin started /\ UNCHANGED <<starting, started, touched>>
  <2>1. DOMAIN redisCfg = 1 .. Len(redisCfg) /\ Len(redisCfg) \in Nat
    BY <1>1, ConfigFacts
  <2> QED BY <2>1 DEF StartInv, TypeOK, RedisTypeOK, Replay, RestState
<1>3. rest \in Seq({q \in Objects : Slot(q) \in Slots}) /\ rest # <<>> /\ rest' = Tail(rest)
  BY DEF StartInv, ReplayState, Replay
<1>4. Len(DumpOf(i)) \in Nat /\ Len(rest) \in Nat \ {0} /\ Len(rest) <= Len(DumpOf(i)) /\ Len(rest') = Len(rest) - 1
      /\ Head(rest) = rest[1] /\ \A j \in 1 .. Len(rest) - 1 : rest'[j] = rest[j + 1]
  BY <1>1, <1>2, <1>3, DumpFacts DEF RestState
<1>5. n = Len(DumpOf(i)) - Len(rest) /\ n \in Nat /\ n < Len(DumpOf(i))
  BY <1>2, <1>4 DEF Done
<1>6. Done(i)' = n + 1
  <2>1. DumpOf(i)' = DumpOf(i)
    BY <1>1, RigidDumps
  <2>2. Done(i)' = Len(DumpOf(i)) - Len(rest')
    BY <1>2, <2>1 DEF Done
  <2> QED BY <1>4, <1>5, <2>2
<1>7. Head(rest) = o /\ o \in Objects /\ Slot(o) \in Slots
  BY <1>2, <1>3, <1>4, <1>5 DEF RestState
<1>8. RestState'
  <2>1. DumpOf(i)' = DumpOf(i) /\ Done(starting)' = n + 1 /\ DumpOf(starting)' = DumpOf(i)
    <3>1. starting' = i
      BY <1>2
    <3>2. DumpOf(i)' = DumpOf(i)
      BY <1>1, RigidDumps
    <3> QED BY <1>6, <3>1, <3>2 DEF Done, DumpOf
  <2>2. ASSUME NEW j \in 1 .. Len(rest')
        PROVE  rest'[j] = DumpOf(i)[n + 1 + j]
    <3>0. j \in 1 .. Len(rest) - 1 /\ j \in Nat
      BY <1>4
    <3>1. /\ j + 1 \in 1 .. Len(rest)
          /\ rest'[j] = rest[j + 1]
          /\ n + (j + 1) = n + 1 + j
      <4>1. rest'[j] = rest[j + 1]
        BY <1>4, <3>0
      <4>2. j + 1 \in 1 .. Len(rest)
        BY <1>4, <3>0
      <4>3. n + (j + 1) = n + 1 + j
        BY <1>5, <3>0
      <4> QED BY <4>1, <4>2, <4>3
    <3>2. rest[j + 1] = DumpOf(i)[n + (j + 1)]
      BY <1>2, <3>1 DEF RestState
    <3> QED BY <3>1, <3>2
  <2> QED BY <1>2, <1>4, <2>1, <2>2 DEF RestState
<1>9. \A j \in DOMAIN redisCfg : j # i => Done(j)' = Done(j)
  BY <1>1, <1>2, RigidDumps DEF Done
<1>10. /\ \A j \in DOMAIN redisCfg : j # i => Held(j)' = Held(j)
       /\ Held(i)' = HeldAfter(i, n + 1) /\ Held(i) = HeldAfter(i, n)
  BY <1>1, <1>2, <1>6, <1>9, RigidDumps DEF Held
<1>11. /\ Live(o) => Held(i)' = Held(i) \cup {Slot(o)} /\ Slot(o) \notin Held(i)
       /\ ~Live(o) => Held(i)' = Held(i)
  BY <1>1, <1>2, <1>5, <1>10, HeldGrows
<1>12. /\ keyspace \in [DOMAIN redisCfg -> [Slots -> Values]]
       /\ keyspace' = [keyspace EXCEPT ![i][Slot(o)] = Replayed(o, keyspace[i][Slot(o)])]
       /\ stats' = IF Wrote(o, keyspace[i][Slot(o)])
                   THEN [stats EXCEPT ![i] = [keys |-> @.keys + 1, dbs |-> @.dbs \cup {o.db}]]
                   ELSE stats
  BY <1>2, <1>7 DEF Replay, StartInv, TypeOK, RedisTypeOK
<1>13. Live(o) => Dumped(i, Slot(o)) = Replayed(o, NoKey)
  <2>1. n + 1 \in DOMAIN DumpOf(i)
    BY <1>1, <1>2, <1>5, DumpFacts
  <2> QED BY <1>1, <1>2, <1>7, <2>1, DumpedFacts, ReplayedFacts
<1>14. <<i, Slot(o)>> \notin touched /\ Live(o) => keyspace[i][Slot(o)] = NoKey
  BY <1>2, <1>7, <1>11 DEF KeysState
<1>15. KeysState'
  <2> SUFFICES ASSUME NEW j \in DOMAIN redisCfg, NEW s \in Slots, <<j, s>> \notin touched
               PROVE  keyspace'[j][s] = IF s \in Held(j)' THEN Dumped(j, s) ELSE NoKey
    BY <1>1, <1>2, RigidDumps DEF KeysState
  <2>1. keyspace[j][s] = IF s \in Held(j) THEN Dumped(j, s) ELSE NoKey
    BY DEF KeysState
  <2>2. CASE j # i \/ s # Slot(o)
    <3>1. keyspace'[j][s] = keyspace[j][s]
      BY <1>2, <1>7, <1>12, <2>2
    <3> QED BY <1>10, <1>11, <2>1, <2>2, <3>1
  <2>3. CASE j = i /\ s = Slot(o) /\ Live(o)
    BY <1>2, <1>7, <1>11, <1>12, <1>13, <1>14, <2>3
  <2>4. CASE j = i /\ s = Slot(o) /\ ~Live(o)
    <3>1. keyspace'[j][s] = keyspace[j][s]
      BY <1>2, <1>7, <1>12, <2>4, ReplayedFacts
    <3> QED BY <1>11, <2>1, <2>4, <3>1
  <2> QED BY <2>2, <2>3, <2>4
<1>16. CountState'
  <2>0. stats \in [DOMAIN redisCfg -> [keys : Nat, dbs : SUBSET Nat]] /\ o.db \in Nat
    BY <1>7 DEF CountState, Objects
  <2>1. stats' \in [DOMAIN redisCfg -> [keys : Nat, dbs : SUBSET Nat]]
    <3> DEFINE r == [keys |-> stats[i].keys + 1, dbs |-> stats[i].dbs \cup {o.db}]
    <3>1. stats[i] \in [keys : Nat, dbs : SUBSET Nat]
      BY <1>2, <2>0
    <3>2. r \in [keys : Nat, dbs : SUBSET Nat]
      BY <2>0, <3>1
    <3>3. stats' = [stats EXCEPT ![i] = r] \/ stats' = stats
      BY <1>12
    <3> HIDE DEF r
    <3> QED BY <2>0, <3>2, <3>3
  <2>2. \A j \in DOMAIN redisCfg : IsFiniteSet(Held(j)')
    <3>1. \A j \in DOMAIN redisCfg : IsFiniteSet(Held(j))
      BY DEF CountState
    <3>2. IsFiniteSet(Held(i)')
      BY <1>2, <1>11, <3>1, FS_AddElement
    <3> QED BY <1>10, <3>1, <3>2
  <2>3. ASSUME NEW j \in DOMAIN redisCfg, \A s \in Slots : <<j, s>> \notin touched
        PROVE  stats'[j].keys = Cardinality(Held(j)') /\ stats'[j].dbs = {s[1] : s \in Held(j)'}
    <3>1. stats[j].keys = Cardinality(Held(j)) /\ stats[j].dbs = {s[1] : s \in Held(j)} /\ IsFiniteSet(Held(j))
      BY <2>3 DEF CountState
    <3>2. CASE j # i
      BY <1>2, <1>10, <1>12, <2>0, <3>1, <3>2
    <3>3. CASE j = i /\ ~Live(o)
      <4>1. stats' = stats
        BY <1>7, <1>12, <3>3, ReplayedFacts
      <4> QED BY <1>11, <3>1, <3>3, <4>1
    <3>4. CASE j = i /\ Live(o)
      <4>1. Wrote(o, keyspace[i][Slot(o)])
        BY <1>7, <1>14, <2>3, <3>4, ReplayedFacts
      <4>2. stats'[i].keys = stats[i].keys + 1 /\ stats'[i].dbs = stats[i].dbs \cup {o.db}
        BY <1>2, <1>12, <2>0, <4>1
      <4>3. Cardinality(Held(i)') = Cardinality(Held(i)) + 1
        BY <1>11, <3>1, <3>4, FS_AddElement
      <4>4. {s[1] : s \in Held(i)'} = {s[1] : s \in Held(i)} \cup {o.db}
        <5>1. Slot(o)[1] = o.db
          BY DEF Slot
        <5> QED BY <1>11, <3>4, <5>1
      <4> QED BY <3>1, <3>4, <4>2, <4>3, <4>4
    <3> QED BY <3>2, <3>3, <3>4
  <2> QED BY <1>1, <1>2, <2>1, <2>2, <2>3, RigidDumps DEF CountState
<1> QED BY <1>8, <1>15, <1>16

\* An instance is launched or has its dump, or a client writes a key.
LEMMA SeedOthers ==
  ASSUME StartInv, KeysOnce, RestState, KeysState, CountState,
         (\E i \in DOMAIN redisCfg : StartAddr(i)) \/ Seeded \/ RedisClients
  PROVE  RestState' /\ KeysState' /\ CountState'
<1>0. Configured /\ cfg' = cfg
  BY DEF StartInv, StartAddr, Seeded, RedisClients, ClientCommand, ClientWrites
<1>1. DOMAIN redisCfg = 1 .. Len(redisCfg) /\ Len(redisCfg) \in Nat /\ 0 \notin DOMAIN redisCfg
      /\ keyspace \in [DOMAIN redisCfg -> [Slots -> Values]]
      /\ (starting # 0 => starting \in DOMAIN redisCfg)
      /\ \A i \in DOMAIN redisCfg : Len(DumpOf(i)) \in Nat
  <2>1. DOMAIN redisCfg = 1 .. Len(redisCfg) /\ Len(redisCfg) \in Nat
    BY <1>0, ConfigFacts
  <2> QED BY <1>0, <2>1, DumpFacts DEF StartInv, TypeOK, RedisTypeOK
<1>2. ASSUME \A i \in DOMAIN redisCfg : Done(i)' = Done(i), UNCHANGED <<keyspace, stats, touched>>
      PROVE  KeysState' /\ CountState'
  <2>1. \A i \in DOMAIN redisCfg : Held(i)' = Held(i)
    BY <1>0, <1>2, RigidDumps DEF Held
  <2> QED BY <1>0, <1>2, <2>1, RigidDumps DEF KeysState, CountState
<1>3. ASSUME NEW i \in DOMAIN redisCfg, StartAddr(i)
      PROVE  RestState' /\ KeysState' /\ CountState'
  <2>1. starting = 0 /\ i \notin started /\ starting' = i /\ rest' = DumpOf(i) /\ started' = started
        /\ UNCHANGED <<keyspace, stats, touched>>
    BY <1>3 DEF StartAddr, DumpOf
  <2>2. \A j : DumpOf(j)' = DumpOf(j)
    BY <1>0, RigidDumps
  <2>3. Done(i)' = 0 /\ Done(i) = 0
    BY <1>1, <2>1, <2>2 DEF Done
  <2>4. \A j \in DOMAIN redisCfg : Done(j)' = Done(j)
    BY <1>1, <2>1, <2>2, <2>3 DEF Done
  <2>5. RestState'
    <3>1. DumpOf(starting)' = DumpOf(i) /\ Done(starting)' = 0
      BY <2>1, <2>2, <2>3 DEF DumpOf, Done
    <3> QED BY <1>1, <2>1, <3>1 DEF RestState
  <2> QED BY <1>2, <2>1, <2>4, <2>5
<1>4. CASE Seeded
  <2>1. starting # 0 /\ rest = <<>> /\ started' = started \cup {starting} /\ starting' = 0
        /\ UNCHANGED <<keyspace, stats, touched>>
    BY <1>4 DEF Seeded
  <2>2. \A j : DumpOf(j)' = DumpOf(j)
    BY <1>0, RigidDumps
  <2>3. \A j \in DOMAIN redisCfg : Done(j)' = Done(j)
    BY <1>1, <2>1, <2>2 DEF Done
  <2>4. RestState'
    BY <2>1 DEF RestState
  <2> QED BY <1>2, <2>1, <2>3, <2>4
<1>5. CASE RedisClients
  <2>1. PICK i \in DOMAIN redisCfg, s \in setup.redisClients : ClientCommand(i, s)
    BY <1>5 DEF RedisClients
  <2>2. s \in Slots
    BY StartupAssumption DEF StartInv, TypeOK
  <2>3. PICK v : ClientWrites(i, s, v)
    BY <2>1 DEF ClientCommand
  <2>4. keyspace' = [keyspace EXCEPT ![i][s] = v] /\ touched' = touched \cup {<<i, s>>}
        /\ UNCHANGED <<starting, rest, started, stats>>
    BY <2>3 DEF ClientWrites
  <2>5. \A j : Done(j)' = Done(j) /\ Held(j)' = Held(j)
    BY <1>0, <2>4 DEF Done, Held, HeldAfter, DumpOf, redisCfg
  <2>6. RestState'
    BY <1>0, <2>4, <2>5, RigidDumps DEF RestState
  <2>7. KeysState'
    BY <1>0, <1>1, <2>2, <2>4, <2>5, RigidDumps DEF KeysState
  <2>8. CountState'
    BY <1>0, <2>4, <2>5, RigidDumps DEF CountState
  <2> QED BY <2>6, <2>7, <2>8
<1> QED BY <1>3, <1>4, <1>5

\* Every step of the process keeps what is seeded.
LEMMA SeedStep ==
  ASSUME StartInv, SeedInv, [Next]_vars
  PROVE  SeedInv'
<1>0. cfg' = cfg /\ KeysOnce' = KeysOnce
  BY StepsAreRigid, RigidDumps
<1> SUFFICES ASSUME KeysOnce, RestState, KeysState, CountState
             PROVE  RestState' /\ KeysState' /\ CountState'
  BY <1>0 DEF SeedInv
<1>1. CASE StartRedis \/ RedisClients
  BY <1>1, SeedReplays, SeedOthers DEF StartRedis
<1>2. ASSUME NEW reason, End(reason) PROVE RestState' /\ KeysState' /\ CountState'
  BY <1>2, SeedClosed DEF End, StartInv
<1>3. CASE UNCHANGED redis
  BY <1>3, SeedUnchanged
<1>4. ASSUME \/ Start \/ ResetFails \/ ConfigFails \/ Deafens \/ RedisStarted \/ NextShard \/ EngineLoaded \/ Bind \/ Run
             \/ NextSource \/ SkipTable \/ LoadWhole \/ CreateCopy \/ FinishCopy \/ Clients \/ UNCHANGED vars
      PROVE  UNCHANGED redis
  BY <1>4 DEF Start, ResetFails, ConfigFails, Deafens, AcceptFails, RedisStarted, NextShard, EngineLoaded, Bind, Run, NextSource, SkipTable,
              LoadWhole, CreateCopy, FinishCopy, Clients, ClientCreate, ClientInsert, ClientDrop, vars
<1> QED BY <1>1, <1>2, <1>3, <1>4, StepsByKind

(***************************************************************************)
(* Every started Redis instance holds, under each key no client has        *)
(* written, what its dump says, and logs the right counts if clients wrote *)
(* none: for dumps of any length and whatever clients do to the other keys *)
(* while they are replayed, as long as no dump has a key twice             *)
(* (startInstance, seedFromRDB, redis.Start, Close).                       *)
(***************************************************************************)
THEOREM SeededAsDumped == Spec => [](KeysOnce => SeededUnlessTouched)
<1>1. Init => SeedInv
  <2> SUFFICES ASSUME Init PROVE RestState /\ KeysState /\ CountState
    BY DEF SeedInv
  <2>0. 0 \notin DOMAIN redisCfg
    BY StartInvInitially, ConfigFacts DEF StartInv
  <2>1. \A i \in DOMAIN redisCfg : Held(i) = {}
    BY <2>0, SeedEmpty DEF Init, NothingStarted, Held, Done
  <2> QED BY <2>1, FS_EmptySet DEF Init, NothingStarted, RestState, KeysState, CountState
<1>2. StartInv /\ SeedInv /\ [Next]_vars => SeedInv'
  BY SeedStep
<1>3. StartInv /\ SeedInv => (KeysOnce => SeededUnlessTouched)
  <2> SUFFICES ASSUME StartInv, KeysOnce, KeysState, CountState, NEW i \in started
               PROVE  /\ \A s \in Slots : <<i, s>> \notin touched => keyspace[i][s] = Dumped(i, s)
                      /\ (\A s \in Slots : <<i, s>> \notin touched)
                           => LET held == {s \in Slots : Dumped(i, s) # NoKey}
                              IN /\ stats[i].keys = Cardinality(held)
                                 /\ stats[i].dbs = {s[1] : s \in held}
    BY DEF SeedInv, SeededUnlessTouched
  <2>1. i \in DOMAIN redisCfg /\ Configured
    BY DEF StartInv, TypeOK, RedisTypeOK
  <2>2. Held(i) = HeldAfter(i, Len(DumpOf(i)))
    BY DEF Held, Done
  <2>3. \A s \in Slots : Dumped(i, s) # NoKey <=> s \in Held(i)
    BY <2>1, <2>2, DumpedFacts
  <2>4. {s \in Slots : Dumped(i, s) # NoKey} = Held(i)
    BY <2>3 DEF Held, HeldAfter
  <2>5. \A s \in Slots : <<i, s>> \notin touched => keyspace[i][s] = Dumped(i, s)
    BY <2>1, <2>3 DEF KeysState
  <2> QED BY <2>1, <2>4, <2>5 DEF CountState
<1> QED BY <1>1, <1>2, <1>3, StartInvAlways, PTL DEF Spec
=============================================================================
