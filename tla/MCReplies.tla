---------------------------- MODULE MCReplies ----------------------------
(***************************************************************************)
(* Values for Replies.  Integer types have 1 to 5 bits instead of 8 to     *)
(* 128, so that every value of every type is tried.                        *)
(***************************************************************************)
EXTENDS Replies, TLC

MCHalf == (8 :> 1) @@ (16 :> 2) @@ (32 :> 4) @@ (64 :> 8) @@ (128 :> 16)

\* Before 1970, in DateTime's range, and after it: whole seconds near 2000, whole
\* seconds far from it as well.
MCInstants == {-1, 0, 3, 6} \X {FALSE}
MCFarInstants == {-9, -1, 3, 6, 12} \X {FALSE}

One(t, v) == [cols |-> <<[name |-> "a", type |-> t]>>, rows |-> <<<<v>>>>]

ChTypes == [wrappers : {{}, {"Nullable"}, {"Nullable", "LowCardinality"}}, base : ChBases]

\* Every type with every value, columns as they come from a ClickHouse source,
\* and results with no row, with rows that differ, and with columns of one name.
MCResults ==
  UNION {{One(t, v) : v \in ValuesOf(t)} : t \in Types}
    \cup UNION {{One(chToDuckType(t), inserted(v)) : v \in ChSourceValues(t)} : t \in ChTypes}
    \cup {[cols |-> <<[name |-> "a", type |-> t]>>, rows |-> <<>>] : t \in {"BOOLEAN", "BIGINT"}}
    \cup {[cols |-> <<[name |-> "a", type |-> "UBIGINT"], [name |-> other, type |-> t]>>,
           rows |-> <<<<Val(2 * Half[64] - 1, FALSE), Val(1, FALSE)>>, <<Val(0, FALSE), Null>>>>] :
             other \in {"a", "b"}, t \in {"BOOLEAN", "HUGEINT", "VARCHAR"}}

MCFewResults ==
  {[cols |-> <<[name |-> "a", type |-> "BOOLEAN"]>>, rows |-> <<>>],
   One("BOOLEAN", Null), One("BIGINT", Val(1, FALSE))}

MCFormats == {<<>>, <<0>>, <<1>>, <<1, 0>>, <<0, 1>>}

TextsOver(chars, n) == UNION {[1 .. m -> chars] : m \in 1 .. n}
MCMyTexts == TextsOver(MyChars, 4) \cup TextsOver({"sq", "bt", "?", "x"}, 5)
MCPgTexts == TextsOver(PgChars, 5)
MCNoTexts == {}
MCBound == <<"arg1", "arg2", "arg3", "arg4", "arg5">>

MCRevisions == 1 .. 7
=============================================================================
