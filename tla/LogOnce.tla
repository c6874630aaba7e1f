------------------------------ MODULE LogOnce ------------------------------
(***************************************************************************)
(* Engine.logOnce (internal/engine/duckdb.go), called by runOn from the    *)
(* goroutines of all sessions of an engine, without a lock.  The read of   *)
(* the map and the write to it take two steps each, a start and an end,    *)
(* and between the two the call accesses nothing.  A write that overlaps   *)
(* another access is a data race: the Go runtime stops the whole process   *)
(* when it notices (recover() does not help), and when it does not the     *)
(* overlapping read may miss a key and the overlapping write be lost.      *)
(***************************************************************************)
EXTENDS Naturals, FiniteSets

CONSTANTS
  Goroutines,   \* the sessions that run statements on the engine
  Keys,         \* the relations and dialect gaps they run into
  Calls         \* bound on the number of calls each of them makes

ASSUME LogAssumption == IsFiniteSet(Goroutines) /\ Keys # {} /\ Calls \in Nat

VARIABLES
  logged,    \* the keys set in Engine.logged
  pc,        \* where each goroutine is
  key,       \* the key it is called with
  calls,     \* how many calls it has made
  dirty,     \* the goroutines whose access under way has overlapped a write, or
             \* is a write and has overlapped any access
  crashed,   \* the runtime has stopped the process
  printed,   \* history: how often each goroutine has logged each key
  late,      \* history: the goroutines whose last call began after its key had
             \* been logged
  raced      \* history: some access has overlapped a write

map == <<logged, dirty, crashed, raced>>
vars == <<map, pc, key, calls, printed, late>>

\* "lookup" and "store" are the two accesses, under way; "gap" is between them.
Places == {"idle", "lookup", "gap", "store", "print"}

\* The accesses under way that one of g would conflict with.
Reading(g) == {h \in Goroutines \ {g} : pc[h] = "lookup"}
Writing(g) == {h \in Goroutines \ {g} : pc[h] = "store"}

\* g starts an access while the goroutines of others have conflicting ones.
Starts(g, others) ==
  /\ dirty' = IF others = {} THEN dirty ELSE dirty \cup others \cup {g}
  /\ raced' = (raced \/ others # {})

Ends(g) == dirty' = dirty \ {g} /\ raced' = raced

LoggedBefore(k) == \E h \in Goroutines : printed[h][k] > 0

\* SetStubMissing has made the map before the engine serves anyone.
Init ==
  /\ logged = {}
  /\ pc = [g \in Goroutines |-> "idle"]
  /\ key = [g \in Goroutines |-> CHOOSE k \in Keys : TRUE]
  /\ calls = [g \in Goroutines |-> 0]
  /\ dirty = {}
  /\ crashed = FALSE
  /\ printed = [g \in Goroutines |-> [k \in Keys |-> 0]]
  /\ late = {}
  /\ raced = FALSE

CallAs(g, k, name) ==
  /\ ~crashed /\ pc[g] = "idle" /\ calls[g] < Calls
  /\ pc' = [pc EXCEPT ![g] = "lookup"]
  /\ key' = [key EXCEPT ![g] = name]
  /\ calls' = [calls EXCEPT ![g] = @ + 1]
  /\ Starts(g, Writing(g))
  /\ late' = IF LoggedBefore(k) THEN late \cup {g} ELSE late \ {g}
  /\ UNCHANGED <<crashed, printed>>

\* Mutants of Call: the relation is not found in the error text; the key is set
\* before it is looked up.
CallUnnamed(g, k) == CallAs(g, k, "?") /\ UNCHANGED logged
CallStoresFirst(g, k) == CallAs(g, k, k) /\ logged' = logged \cup {k}

\* runOn meets an error it logs and starts to read e.logged[key].
Call(g, k) == CallAs(g, k, k) /\ UNCHANGED logged

\* The read ends: return, or go on to the write.
Lookup(g) ==
  /\ ~crashed /\ pc[g] = "lookup"
  /\ \E found \in {key[g] \in logged} \cup (IF g \in dirty THEN {FALSE} ELSE {}) :
       pc' = [pc EXCEPT ![g] = IF found THEN "idle" ELSE "gap"]
  /\ Ends(g)
  /\ UNCHANGED <<logged, crashed, key, calls, printed, late>>

\* The write e.logged[key] = true starts.
StartStore(g) ==
  /\ ~crashed /\ pc[g] = "gap"
  /\ pc' = [pc EXCEPT ![g] = "store"]
  /\ Starts(g, Reading(g) \cup Writing(g))
  /\ UNCHANGED <<logged, crashed, key, calls, printed, late>>

\* Mutant of Store: the key is not set.
StoreNothing(g) ==
  /\ ~crashed /\ pc[g] = "store"
  /\ pc' = [pc EXCEPT ![g] = "print"]
  /\ Ends(g)
  /\ UNCHANGED <<logged, crashed, key, calls, printed, late>>

\* It ends.
Store(g) ==
  /\ ~crashed /\ pc[g] = "store"
  /\ \/ logged' = logged \cup {key[g]}
     \/ g \in dirty /\ logged' = logged
  /\ pc' = [pc EXCEPT ![g] = "print"]
  /\ Ends(g)
  /\ UNCHANGED <<crashed, key, calls, printed, late>>

\* log.Printf, which has a lock of its own.
Printf(g) ==
  /\ ~crashed /\ pc[g] = "print"
  /\ printed' = [printed EXCEPT ![g][key[g]] = @ + 1]
  /\ pc' = [pc EXCEPT ![g] = "idle"]
  /\ UNCHANGED <<map, key, calls, late>>

\* An access has overlapped a write, and the runtime notices.
Fatal ==
  /\ ~crashed /\ dirty # {}
  /\ crashed' = TRUE
  /\ UNCHANGED <<logged, dirty, raced, pc, key, calls, printed, late>>

Step(g) == Lookup(g) \/ StartStore(g) \/ Store(g) \/ Printf(g)

Next == Fatal \/ \E g \in Goroutines : Step(g) \/ \E k \in Keys : Call(g, k)

\* A goroutine that can run is scheduled in the end.
Spec == Init /\ [][Next]_vars /\ \A g \in Goroutines : WF_vars(Step(g))

-----------------------------------------------------------------------------
\* Every variable stays in the set of values the code can give it.
TypeOK ==
  /\ logged \subseteq Keys
  /\ pc \in [Goroutines -> Places]
  /\ key \in [Goroutines -> Keys]
  /\ calls \in [Goroutines -> 0 .. Calls]
  /\ dirty \subseteq Goroutines
  /\ printed \in [Goroutines -> [Keys -> Nat]]
  /\ late \subseteq Goroutines
  /\ crashed \in BOOLEAN /\ raced \in BOOLEAN

(***************************************************************************)
(* A repeated query does not spam the log: as long as no access to the map *)
(* has overlapped a write, a call that begins after its key was logged, by *)
(* whichever session, does not log it, and no session logs a key twice     *)
(* (logOnce).  Two sessions that have both read the map before either      *)
(* writes to it both log the key, even if no two accesses overlap.         *)
(***************************************************************************)
RepeatsAreSilent ==
  ~raced => /\ \A g \in late : pc[g] \in {"idle", "lookup"}
            /\ \A g \in Goroutines, k \in Keys : printed[g][k] <= 1

\* What some call met is logged by someone in the end, unless the process dies:
\* no interleaving makes two callers each leave the line to the other.
EverythingLogged ==
  \A k \in Keys : (\E g \in Goroutines : pc[g] # "idle" /\ key[g] = k)
                    ~> (crashed \/ \E g \in Goroutines : printed[g][k] > 0)

\* No statement of a client takes the process down with it (handleConn).
NeverCrashes == ~crashed
=============================================================================
