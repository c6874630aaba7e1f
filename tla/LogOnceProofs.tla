--------------------------- MODULE LogOnceProofs ---------------------------
(***************************************************************************)
(* Proofs about LogOnce, for every set of goroutines and of keys and every *)
(* number of calls.                                                        *)
(***************************************************************************)
EXTENDS LogOnce, TLAPS

LEMMA InitType ==
  ASSUME Init
  PROVE  TypeOK
<1> DEFINE k0 == CHOOSE k \in Keys : TRUE
<1>1. k0 \in Keys
  BY LogAssumption
<1>2. key = [g \in Goroutines |-> k0]
  BY DEF Init
<1> HIDE DEF k0
<1>3. key \in [Goroutines -> Keys]
  BY <1>1, <1>2
<1>4. /\ logged = {} /\ crashed = FALSE /\ raced = FALSE /\ dirty = {} /\ late = {}
      /\ pc = [g \in Goroutines |-> "idle"]
      /\ calls = [g \in Goroutines |-> 0]
      /\ printed = [g \in Goroutines |-> [k \in Keys |-> 0]]
  BY DEF Init
<1>5. calls \in [Goroutines -> 0 .. Calls]
  BY <1>4, LogAssumption
<1>6. printed \in [Goroutines -> [Keys -> Nat]]
  BY <1>4
<1> QED BY <1>3, <1>4, <1>5, <1>6 DEF TypeOK, Places

LEMMA NextType ==
  ASSUME TypeOK, [Next]_vars
  PROVE  TypeOK'
<1> USE DEF Starts, Ends, Reading, Writing, Places
<1>1. CASE Fatal
  BY <1>1 DEF Fatal, TypeOK
<1>2. ASSUME NEW g \in Goroutines, Lookup(g) PROVE TypeOK'
  <2>1. PICK found \in BOOLEAN : pc' = [pc EXCEPT ![g] = IF found THEN "idle" ELSE "gap"]
    BY <1>2 DEF Lookup
  <2> QED BY <1>2, <2>1 DEF Lookup, TypeOK
<1>3. ASSUME NEW g \in Goroutines, StartStore(g) PROVE TypeOK'
  BY <1>3 DEF StartStore, TypeOK
<1>4. ASSUME NEW g \in Goroutines, Store(g) PROVE TypeOK'
  BY <1>4 DEF Store, TypeOK
<1>5. ASSUME NEW g \in Goroutines, Printf(g) PROVE TypeOK'
  BY <1>5 DEF Printf, map, TypeOK
<1>6. ASSUME NEW g \in Goroutines, NEW k \in Keys, Call(g, k) PROVE TypeOK'
  BY <1>6, LogAssumption DEF Call, CallAs, TypeOK
<1>7. CASE UNCHANGED vars
  BY <1>7 DEF vars, map, TypeOK
<1> QED BY <1>1, <1>2, <1>3, <1>4, <1>5, <1>6, <1>7 DEF Next, Step

(***************************************************************************)
(* Every variable of the log keeps its type.                               *)
(***************************************************************************)
THEOREM LogTypeCorrect == Spec => []TypeOK
<1>1. Init => TypeOK
  BY InitType
<1>2. TypeOK /\ [Next]_vars => TypeOK'
  BY NextType
<1> QED BY <1>1, <1>2, PTL DEF Spec

-----------------------------------------------------------------------------
(***************************************************************************)
(* A repeated key is not logged again.  As long as nothing has raced, no   *)
(* access under way is dirty, so reads find what is set and writes set it; *)
(* a key that was logged, or is about to be, is set (LoggedIsSet); a late  *)
(* call finds its key and stops (LateStops); and a goroutine past the read *)
(* has not logged its key before (FirstTime).                              *)
(***************************************************************************)
LoggedIsSet ==
  /\ \A g \in Goroutines, k \in Keys : printed[g][k] > 0 => k \in logged
  /\ \A g \in Goroutines : pc[g] = "print" => key[g] \in logged
LateStops ==
  \A g \in late : pc[g] \in {"idle", "lookup"} /\ (pc[g] = "lookup" => key[g] \in logged)
FirstTime ==
  \A g \in Goroutines : pc[g] # "idle" /\ g \notin late => printed[g][key[g]] = 0
OncePerSession == \A g \in Goroutines, k \in Keys : printed[g][k] <= 1

SilentInv ==
  /\ TypeOK
  /\ ~raced => dirty = {} /\ LoggedIsSet /\ LateStops /\ FirstTime /\ OncePerSession

LEMMA SilentInit ==
  ASSUME Init
  PROVE  SilentInv
<1>1. TypeOK
  BY InitType
<1> QED BY <1>1 DEF Init, SilentInv, LoggedIsSet, LateStops, FirstTime, OncePerSession

LEMMA SilentNext ==
  ASSUME SilentInv, [Next]_vars
  PROVE  SilentInv'
<1>t. TypeOK /\ TypeOK'
  BY NextType DEF SilentInv
<1>n. \A h \in Goroutines, k \in Keys : printed[h][k] \in Nat
  BY <1>t DEF TypeOK
<1>r. raced => raced'
  BY DEF Next, Step, Fatal, Call, CallAs, Lookup, StartStore, Store, Printf, Starts, Ends, vars, map
<1> SUFFICES ASSUME ~raced'
             PROVE  dirty' = {} /\ LoggedIsSet' /\ LateStops' /\ FirstTime' /\ OncePerSession'
  BY <1>t DEF SilentInv
<1>s. ~raced /\ dirty = {} /\ LoggedIsSet /\ LateStops /\ FirstTime /\ OncePerSession
  BY <1>r DEF SilentInv
<1> USE DEF LoggedIsSet, LateStops, FirstTime, OncePerSession
<1>1. CASE Fatal
  BY <1>t, <1>s, <1>1 DEF Fatal
<1>2. ASSUME NEW g \in Goroutines, NEW k \in Keys, Call(g, k)
      PROVE  dirty' = {} /\ LoggedIsSet' /\ LateStops' /\ FirstTime' /\ OncePerSession'
  <2>1. /\ dirty' = {} /\ logged' = logged /\ printed' = printed
        /\ pc' = [pc EXCEPT ![g] = "lookup"] /\ key' = [key EXCEPT ![g] = k]
        /\ late' = IF LoggedBefore(k) THEN late \cup {g} ELSE late \ {g}
    BY <1>s, <1>2 DEF Call, CallAs, Starts
  <2>2. LoggedBefore(k) => k \in logged
    BY <1>s DEF LoggedBefore
  <2>3. ~LoggedBefore(k) => printed[g][k] = 0
    BY <1>n DEF LoggedBefore
  <2>4. CASE LoggedBefore(k)
    BY <1>t, <1>s, <2>1, <2>2, <2>4 DEF TypeOK
  <2>5. CASE ~LoggedBefore(k)
    BY <1>t, <1>s, <2>1, <2>3, <2>5 DEF TypeOK
  <2> QED BY <2>4, <2>5
<1>3. ASSUME NEW g \in Goroutines, Lookup(g)
      PROVE  dirty' = {} /\ LoggedIsSet' /\ LateStops' /\ FirstTime' /\ OncePerSession'
  <2>1. /\ pc[g] = "lookup"
        /\ pc' = [pc EXCEPT ![g] = IF key[g] \in logged THEN "idle" ELSE "gap"]
        /\ dirty' = {} /\ UNCHANGED <<logged, key, printed, late>>
    BY <1>s, <1>3 DEF Lookup, Ends
  <2> QED BY <1>t, <1>s, <2>1 DEF TypeOK
<1>4. ASSUME NEW g \in Goroutines, StartStore(g)
      PROVE  dirty' = {} /\ LoggedIsSet' /\ LateStops' /\ FirstTime' /\ OncePerSession'
  <2>1. /\ pc[g] = "gap" /\ pc' = [pc EXCEPT ![g] = "store"]
        /\ dirty' = {} /\ UNCHANGED <<logged, key, printed, late>>
    BY <1>s, <1>4 DEF StartStore, Starts
  <2> QED BY <1>t, <1>s, <2>1 DEF TypeOK
<1>5. ASSUME NEW g \in Goroutines, Store(g)
      PROVE  dirty' = {} /\ LoggedIsSet' /\ LateStops' /\ FirstTime' /\ OncePerSession'
  <2>1. /\ pc[g] = "store" /\ pc' = [pc EXCEPT ![g] = "print"]
        /\ logged' = logged \cup {key[g]}
        /\ dirty' = {} /\ UNCHANGED <<key, printed, late>>
    BY <1>s, <1>5 DEF Store, Ends
  <2> QED BY <1>t, <1>s, <2>1 DEF TypeOK
<1>6. ASSUME NEW g \in Goroutines, Printf(g)
      PROVE  dirty' = {} /\ LoggedIsSet' /\ LateStops' /\ FirstTime' /\ OncePerSession'
  <2>1. /\ pc[g] = "print" /\ pc' = [pc EXCEPT ![g] = "idle"]
        /\ printed' = [printed EXCEPT ![g][key[g]] = @ + 1]
        /\ UNCHANGED <<logged, dirty, key, late>>
    BY <1>6 DEF Printf, map
  <2>2. g \notin late /\ printed[g][key[g]] = 0 /\ key[g] \in logged /\ key[g] \in Keys
    BY <1>t, <1>s, <2>1 DEF TypeOK
  <2>3. \A h \in Goroutines, k \in Keys :
          printed'[h][k] = IF h = g /\ k = key[g] THEN 1 ELSE printed[h][k]
    BY <1>t, <2>1, <2>2 DEF TypeOK
  <2>4. \A h \in Goroutines : h # g => pc'[h] = pc[h]
    BY <1>t, <2>1 DEF TypeOK
  <2> QED BY <1>t, <1>n, <1>s, <2>1, <2>2, <2>3, <2>4 DEF TypeOK
<1>7. CASE UNCHANGED vars
  BY <1>t, <1>s, <1>7 DEF vars, map
<1> QED BY <1>1, <1>2, <1>3, <1>4, <1>5, <1>6, <1>7 DEF Next, Step

(***************************************************************************)
(* Without overlapping accesses, a call that begins after its key has been *)
(* logged never logs it again, and no session logs a key twice, however    *)
(* many sessions call logOnce however often.                               *)
(***************************************************************************)
THEOREM SilentOnceLogged == Spec => []RepeatsAreSilent
<1>1. Init => SilentInv
  BY SilentInit
<1>2. SilentInv /\ [Next]_vars => SilentInv'
  BY SilentNext
<1>3. SilentInv => RepeatsAreSilent
  BY DEF SilentInv, LateStops, OncePerSession, RepeatsAreSilent
<1> QED BY <1>1, <1>2, <1>3, PTL DEF Spec
=============================================================================
