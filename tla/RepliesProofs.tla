--------------------------- MODULE RepliesProofs ---------------------------
(***************************************************************************)
(* Proofs about what the clients of the three SQL protocols get back, for  *)
(* integer types of any growing widths, any spans of time, any results     *)
(* whose values fit the types of their columns, and any texts.             *)
(***************************************************************************)
EXTENDS ChSessionProofs, ParamsProofs

-----------------------------------------------------------------------------
(***************************************************************************)
(* No approximation is silent.                                             *)
(***************************************************************************)

\* A dated value is a whole second, within a Duration of 2000-01-01.
PlainInstants ==
  \A i \in Instants : ~i[2] /\ i[1] - PgEpoch \in (-MaxSpan) .. MaxSpan

\* What a column of DuckDB type t may hold; a text holds anything.
Storable(t) ==
  IF t = "VARCHAR" THEN {Null} \cup {Val(n, fine) : n \in Int, fine \in BOOLEAN}
  ELSE ValuesOf(t)

StorableResult(res) ==
  \A c \in DOMAIN res.cols :
    /\ res.cols[c].type \in Types
    /\ \A r \in DOMAIN res.rows : res.rows[r][c] \in Storable(res.cols[c].type)

SoundResults == \A res \in Results \cup FewResults : StorableResult(res)

LEMMA ModSmall ==
  ASSUME NEW a \in Nat, NEW b \in Nat, a < b
  PROVE  a % b = a
BY SMT

\* The conversion to an integer of width w leaves alone what fits.
LEMMA WrapFits ==
  ASSUME NEW n \in Int, NEW w \in Widths, -Half[w] <= n, n < Half[w]
  PROVE  Wrap(n, w) = n
<1> DEFINE h == Half[w]
<1>1. h \in Nat /\ h > 0
  BY FidelityAssumption
<1>2. Wrap(n, w) = ((n + h) % (2 * h)) - h
  BY DEF Wrap
<1> HIDE DEF h
<1>3. n + h \in Nat /\ 2 * h \in Nat /\ n + h < 2 * h
  BY <1>1 DEF h
<1>4. (n + h) % (2 * h) = n + h
  BY <1>3, ModSmall
<1> QED BY <1>1, <1>2, <1>4

LEMMA HalfGrows ==
  /\ \A w \in Widths : Half[w] \in Nat /\ Half[w] > 0
  /\ Half[8] <= Half[16] /\ Half[16] <= Half[32] /\ Half[32] <= Half[64] /\ Half[64] <= Half[128]
BY FidelityAssumption DEF Widths

LEMMA IntegerTypes ==
  /\ DOMAIN Signed = {"TINYINT", "SMALLINT", "INTEGER", "BIGINT", "HUGEINT"}
  /\ DOMAIN Unsigned = {"UTINYINT", "USMALLINT", "UINTEGER", "UBIGINT", "UHUGEINT"}
  /\ \A t \in DOMAIN Signed : Signed[t] \in Widths
  /\ \A t \in DOMAIN Unsigned : Unsigned[t] \in Widths
  /\ Signed["TINYINT"] = 8 /\ Signed["SMALLINT"] = 16 /\ Signed["INTEGER"] = 32
BY DEF Signed, Unsigned, Widths

\* ValuesOf, one class of types at a time.
LEMMA ValueClasses ==
  /\ \A t \in DOMAIN Signed :
       ValuesOf(t) = {Null} \cup Whole((-Half[Signed[t]]) .. (Half[Signed[t]] - 1))
  /\ \A t \in DOMAIN Unsigned :
       ValuesOf(t) = {Null} \cup Whole(0 .. (2 * Half[Unsigned[t]] - 1))
  /\ \A t \in {"BOOLEAN", "FLOAT", "DOUBLE", "VARCHAR", "UUID"} : ValuesOf(t) = {Null} \cup Whole(0 .. 1)
  /\ ValuesOf("DATE") = {Null} \cup {Val(i[1], FALSE) : i \in Instants}
  /\ \A t \in {"TIMESTAMP", "TIMESTAMPTZ"} :
       ValuesOf(t) = {Null} \cup {Val(i[1], i[2]) : i \in Instants}
<1> DEFINE Plain == {"BOOLEAN", "FLOAT", "DOUBLE", "VARCHAR", "UUID"}
<1>1. ASSUME NEW t \in DOMAIN Signed
      PROVE  ValuesOf(t) = {Null} \cup Whole((-Half[Signed[t]]) .. (Half[Signed[t]] - 1))
  <2>1. t \notin DOMAIN Unsigned /\ t \notin Plain /\ t # "DECIMAL" /\ t # "DATE"
    BY IntegerTypes
  <2> QED BY <2>1, Zenon DEF ValuesOf
<1>2. ASSUME NEW t \in DOMAIN Unsigned
      PROVE  ValuesOf(t) = {Null} \cup Whole(0 .. (2 * Half[Unsigned[t]] - 1))
  <2>1. t \notin DOMAIN Signed /\ t \notin Plain /\ t # "DECIMAL" /\ t # "DATE"
    BY IntegerTypes
  <2> QED BY <2>1, Zenon DEF ValuesOf
<1>3. ASSUME NEW t \in Plain PROVE ValuesOf(t) = {Null} \cup Whole(0 .. 1)
  <2>1. t \notin DOMAIN Signed /\ t \notin DOMAIN Unsigned
    BY IntegerTypes
  <2> QED BY <2>1, Zenon DEF ValuesOf
<1>4. ValuesOf("DATE") = {Null} \cup {Val(i[1], FALSE) : i \in Instants}
  <2>1. PICK t : t = "DATE"
    OBVIOUS
  <2>2. t \notin DOMAIN Signed /\ t \notin DOMAIN Unsigned /\ t \notin Plain /\ t # "DECIMAL"
    BY <2>1, IntegerTypes
  <2> QED BY <2>1, <2>2, Zenon DEF ValuesOf
<1>5. ASSUME NEW t \in {"TIMESTAMP", "TIMESTAMPTZ"}
      PROVE  ValuesOf(t) = {Null} \cup {Val(i[1], i[2]) : i \in Instants}
  <2>1. /\ t \notin DOMAIN Signed /\ t \notin DOMAIN Unsigned /\ t \notin Plain
        /\ t # "DECIMAL" /\ t # "DATE"
    BY IntegerTypes
  <2> QED BY <2>1, Zenon DEF ValuesOf
<1> QED BY <1>1, <1>2, <1>3, <1>4, <1>5

\* The values of a column, by the class of its type.
LEMMA ValueShape ==
  ASSUME PlainInstants, NEW t \in Types, NEW v \in Storable(t), v # Null
  PROVE  /\ v.k = "val" /\ v.n \in Int /\ v.fine \in BOOLEAN /\ v = Val(v.n, v.fine)
         /\ t \notin {"VARCHAR", "DECIMAL"} => v.fine = FALSE
         /\ t = "TINYINT" => -Half[8] <= v.n /\ v.n < Half[8]
         /\ t = "SMALLINT" => -Half[16] <= v.n /\ v.n < Half[16]
         /\ t = "INTEGER" => -Half[32] <= v.n /\ v.n < Half[32]
         /\ t = "BOOLEAN" => v.n \in 0 .. 1
         /\ t \in {"DATE", "TIMESTAMP", "TIMESTAMPTZ"} => v.n - PgEpoch \in (-MaxSpan) .. MaxSpan
<1>1. CASE t \in DOMAIN Signed
  <2>1. v \in Whole((-Half[Signed[t]]) .. (Half[Signed[t]] - 1))
    BY <1>1, IntegerTypes, ValueClasses DEF Storable
  <2>2. PICK n \in (-Half[Signed[t]]) .. (Half[Signed[t]] - 1) : v = Val(n, FALSE)
    BY <2>1 DEF Whole
  <2>3. n \in Int /\ -Half[Signed[t]] <= n /\ n < Half[Signed[t]]
    BY <1>1, IntegerTypes, HalfGrows
  <2>4. v.k = "val" /\ v.n = n /\ v.fine = FALSE
    BY <2>2 DEF Val
  <2> QED BY <1>1, <2>2, <2>3, <2>4, IntegerTypes
<1>2. CASE t \in DOMAIN Unsigned
  <2>1. v \in Whole(0 .. (2 * Half[Unsigned[t]] - 1))
    BY <1>2, IntegerTypes, ValueClasses DEF Storable
  <2>2. PICK n \in 0 .. (2 * Half[Unsigned[t]] - 1) : v = Val(n, FALSE)
    BY <2>1 DEF Whole
  <2>3. v.k = "val" /\ v.n = n /\ v.fine = FALSE /\ n \in Int
    BY <2>2 DEF Val
  <2> QED BY <1>2, <2>2, <2>3, IntegerTypes
<1>3. CASE t \in {"BOOLEAN", "FLOAT", "DOUBLE", "UUID"}
  <2>0. v \in Whole(0 .. 1)
    BY <1>3, ValueClasses DEF Storable
  <2>1. PICK n \in 0 .. 1 : v = Val(n, FALSE)
    BY <2>0 DEF Whole
  <2>2. v.k = "val" /\ v.n = n /\ v.fine = FALSE /\ n \in Int
    BY <2>1 DEF Val
  <2> QED BY <1>3, <2>1, <2>2
<1>4. CASE t = "VARCHAR"
  <2>1. PICK n \in Int, fine \in BOOLEAN : v = Val(n, fine)
    BY <1>4 DEF Storable
  <2>2. v.k = "val" /\ v.n = n /\ v.fine = fine
    BY <2>1 DEF Val
  <2> QED BY <1>4, <2>1, <2>2
<1>5. CASE t = "DECIMAL"
  <2>1. PICK fine \in BOOLEAN : v = Val(1, fine)
    BY <1>5, IntegerTypes DEF Storable, ValuesOf
  <2>2. v.k = "val" /\ v.n = 1 /\ v.fine = fine
    BY <2>1 DEF Val
  <2> QED BY <1>5, <2>1, <2>2
<1>6. CASE t \in {"DATE", "TIMESTAMP", "TIMESTAMPTZ"}
  <2>1. PICK i \in Instants : v = Val(i[1], FALSE) \/ v = Val(i[1], i[2])
    <3>0. t # "VARCHAR"
      BY <1>6
    <3>1. v \in ValuesOf(t)
      BY <3>0 DEF Storable
    <3>2. CASE t = "DATE"
      <4>1. ValuesOf(t) = {Null} \cup {Val(i[1], FALSE) : i \in Instants}
        BY <3>2, ValueClasses, Zenon
      <4>2. v \in {Val(i[1], FALSE) : i \in Instants}
        BY <3>1, <4>1, Zenon
      <4> QED BY <4>2
    <3>3. CASE t \in {"TIMESTAMP", "TIMESTAMPTZ"}
      <4>1. ValuesOf(t) = {Null} \cup {Val(i[1], i[2]) : i \in Instants}
        BY <3>3, ValueClasses, Zenon
      <4>2. v \in {Val(i[1], i[2]) : i \in Instants}
        BY <3>1, <4>1, Zenon
      <4> QED BY <4>2
    <3> QED BY <1>6, <3>2, <3>3
  <2>2. i[1] \in Int /\ i[2] = FALSE /\ i[1] - PgEpoch \in (-MaxSpan) .. MaxSpan
    BY FidelityAssumption DEF PlainInstants
  <2>3. v.k = "val" /\ v.n = i[1] /\ v.fine = FALSE
    BY <2>1, <2>2 DEF Val
  <2> QED BY <1>6, <2>1, <2>2, <2>3
<1> QED BY <1>1, <1>2, <1>3, <1>4, <1>5, <1>6 DEF Types

\* What the Postgres encoders change is noted, in text and in binary.
LEMMA PgNoted ==
  ASSUME PlainInstants, NEW t \in Types, NEW v \in Storable(t), NEW format,
         PgTypeNote(t) = "none", PgValueNote(t, v) = "none"
  PROVE  encodeValue(t, v, format) = v
<1>1. CASE v = Null \/ format # 1
  BY <1>1 DEF encodeValue, encodeText
<1>2. CASE v # Null /\ format = 1
  <2>0. encodeValue(t, v, format) = encodeBinary(t, v)
    BY <1>2 DEF encodeValue
  <2>1. /\ v.n \in Int /\ v = Val(v.n, v.fine)
        /\ t \notin {"VARCHAR", "DECIMAL"} => v.fine = FALSE
        /\ t = "TINYINT" => -Half[8] <= v.n /\ v.n < Half[8]
        /\ t = "SMALLINT" => -Half[16] <= v.n /\ v.n < Half[16]
        /\ t = "INTEGER" => -Half[32] <= v.n /\ v.n < Half[32]
        /\ t \in {"DATE", "TIMESTAMP", "TIMESTAMPTZ"} => v.n - PgEpoch \in (-MaxSpan) .. MaxSpan
    BY <1>2, ValueShape
  <2>2. t \notin DOMAIN Unsigned \cup {"DECIMAL", "UUID"}
    BY DEF PgTypeNote, Unsigned
  <2>3. CASE t \in {"TINYINT", "SMALLINT"}
    <3>1. encodeBinary(t, v) = Val(Wrap(v.n, 16), FALSE)
      BY <2>3 DEF encodeBinary, oidForType, toInt
    <3>2. Wrap(v.n, 16) = v.n
      BY <2>1, <2>3, HalfGrows, WrapFits DEF Widths
    <3> QED BY <2>0, <2>1, <2>3, <3>1, <3>2
  <2>4. CASE t = "INTEGER"
    <3>1. encodeBinary(t, v) = Val(Wrap(v.n, 32), FALSE)
      BY <2>4 DEF encodeBinary, oidForType, toInt
    <3>2. Wrap(v.n, 32) = v.n
      BY <2>1, <2>4, WrapFits DEF Widths
    <3> QED BY <2>0, <2>1, <2>4, <3>1, <3>2
  <2>5. CASE t = "BIGINT"
    <3>1. encodeBinary(t, v) = Val(v.n, FALSE)
      BY <2>5 DEF encodeBinary, oidForType, toInt
    <3> QED BY <2>0, <2>1, <2>5, <3>1
  <2>6. CASE t = "HUGEINT"
    <3>1. encodeBinary(t, v) = Val(Clamp(v.n, -Half[64], Half[64] - 1), FALSE)
      BY <2>6 DEF encodeBinary, oidForType, toInt
    <3>2. ~ExceedsInt64(v)
      BY <2>6 DEF PgValueNote, Wide
    <3>3. Clamp(v.n, -Half[64], Half[64] - 1) = v.n
      BY <2>1, <3>2, HalfGrows DEF Clamp, ExceedsInt64, Widths
    <3> QED BY <2>0, <2>1, <2>6, <3>1, <3>3
  <2>7. CASE t \in {"FLOAT", "DOUBLE"}
    <3>1. encodeBinary(t, v) = Val(v.n, FALSE)
      BY <2>7 DEF encodeBinary, oidForType
    <3> QED BY <2>0, <2>1, <2>7, <3>1
  <2>8. CASE t \in {"DATE", "TIMESTAMP"}
    <3>1. encodeBinary(t, v) = Val(PgEpoch + SincePgEpoch(v.n), v.fine)
      BY <2>8 DEF encodeBinary, oidForType
    <3>2. PgEpoch + SincePgEpoch(v.n) = v.n
      BY <2>1, <2>8, FidelityAssumption DEF SincePgEpoch, Clamp
    <3> QED BY <2>0, <2>1, <3>1, <3>2
  <2>9. CASE t \in {"BOOLEAN", "VARCHAR", "TIMESTAMPTZ"}
    BY <2>0, <2>9 DEF encodeBinary, oidForType, encodeText
  <2> QED BY <2>2, <2>3, <2>4, <2>5, <2>6, <2>7, <2>8, <2>9 DEF Types, Signed
<1> QED BY <1>1, <1>2

\* MySQL changes nothing but fractions: its notes are about the look of a value.
LEMMA MyNoted ==
  ASSUME PlainInstants, NEW t \in Types, NEW v \in Storable(t)
  PROVE  coerce(t, v) = v
<1>1. CASE v = Null \/ t \notin {"BOOLEAN", "DATE", "TIMESTAMP", "TIMESTAMPTZ"}
  BY <1>1 DEF coerce
<1>2. CASE v # Null /\ t = "BOOLEAN"
  <2>1. v.n \in 0 .. 1 /\ v.fine = FALSE /\ v = Val(v.n, v.fine)
    BY <1>2, ValueShape
  <2>2. (IF v.n # 0 THEN 1 ELSE 0) = v.n
    BY <2>1
  <2> QED BY <1>2, <2>1, <2>2 DEF coerce
<1>3. CASE v # Null /\ t \in {"DATE", "TIMESTAMP", "TIMESTAMPTZ"}
  <2>1. v.fine = FALSE /\ v = Val(v.n, v.fine)
    BY <1>3, ValueShape
  <2> QED BY <1>3, <2>1 DEF coerce
<1> QED BY <1>1, <1>2, <1>3

\* What the ClickHouse columns change is noted.
LEMMA ChNoted ==
  ASSUME PlainInstants, NEW t \in Types, NEW v \in Storable(t),
         ChTypeNote(t) = "none", ChValueNote(t, v) = "none"
  PROVE  ChValue(t, v) = v
<1>0. v # Null
  BY DEF ChValueNote
<1>1. /\ v.n \in Int /\ v.fine \in BOOLEAN /\ v = Val(v.n, v.fine)
      /\ t \notin {"VARCHAR", "DECIMAL"} => v.fine = FALSE
      /\ t = "TINYINT" => -Half[8] <= v.n /\ v.n < Half[8]
      /\ t = "SMALLINT" => -Half[16] <= v.n /\ v.n < Half[16]
      /\ t = "INTEGER" => -Half[32] <= v.n /\ v.n < Half[32]
  BY <1>0, ValueShape
<1>2. t \notin DOMAIN Unsigned \cup {"DECIMAL", "BOOLEAN", "DATE", "UUID"}
  BY DEF ChTypeNote, Unsigned
<1>3. CASE t \in {"TINYINT", "SMALLINT", "INTEGER"}
  <2>1. ChValue(t, v) = Val(Wrap(v.n, 32), FALSE)
    BY <1>3 DEF ChValue, newColBuilder, toInt
  <2>2. Wrap(v.n, 32) = v.n
    BY <1>1, <1>3, HalfGrows, WrapFits DEF Widths
  <2> QED BY <1>1, <1>3, <2>1, <2>2
<1>4. CASE t = "BIGINT"
  <2>1. ChValue(t, v) = Val(v.n, FALSE)
    BY <1>4 DEF ChValue, newColBuilder, toInt
  <2> QED BY <1>1, <1>4, <2>1
<1>5. CASE t = "HUGEINT"
  <2>1. ChValue(t, v) = Val(Clamp(v.n, -Half[64], Half[64] - 1), FALSE)
    BY <1>5 DEF ChValue, newColBuilder, toInt
  <2>2. ~ExceedsInt64(v)
    BY <1>0, <1>5 DEF ChValueNote, Wide
  <2>3. Clamp(v.n, -Half[64], Half[64] - 1) = v.n
    BY <1>1, <2>2, HalfGrows DEF Clamp, ExceedsInt64, Widths
  <2> QED BY <1>1, <1>5, <2>1, <2>3
<1>6. CASE t \in {"FLOAT", "DOUBLE"}
  <2>1. ChValue(t, v) = Val(v.n, FALSE)
    BY <1>6 DEF ChValue, newColBuilder
  <2> QED BY <1>1, <1>6, <2>1
<1>7. CASE t = "TIMESTAMP"
  <2>1. ChValue(t, v) = Val(v.n % (DateTimeEnd + 1), FALSE)
    BY <1>7 DEF ChValue, newColBuilder
  <2>2. ~(v.n < 0 \/ v.n > DateTimeEnd)
    BY <1>0, <1>7 DEF ChValueNote, Wide
  <2>3. v.n \in Nat /\ DateTimeEnd + 1 \in Nat /\ v.n < DateTimeEnd + 1
    BY <1>1, <2>2, FidelityAssumption
  <2>4. v.n % (DateTimeEnd + 1) = v.n
    BY <2>3, ModSmall
  <2> QED BY <1>1, <1>7, <2>1, <2>4
<1>8. CASE t \in {"VARCHAR", "TIMESTAMPTZ"}
  <2>1. ChValue(t, v) = Val(v.n, v.fine /\ t # "TIMESTAMPTZ")
    BY <1>8 DEF ChValue, newColBuilder
  <2>2. (v.fine /\ t # "TIMESTAMPTZ") = v.fine
    BY <1>1, <1>8
  <2> QED BY <1>1, <2>1, <2>2
<1> QED BY <1>2, <1>3, <1>4, <1>5, <1>6, <1>7, <1>8 DEF Types, Signed

\* A note on the type of a column, or on one of its values, makes a line of the
\* report that names the column.
LEMMA NotesReported ==
  ASSUME NEW p, NEW res, NEW c \in DOMAIN res.cols, NEW r \in DOMAIN res.rows,
         \/ TypeNote(p, res.cols[c].type) # "none"
         \/ ValueNote(p, res.cols[c].type, res.rows[r][c]) # "none"
  PROVE  \E w \in Warnings(p, res) : w.column = res.cols[c].name
<1>1. \E a \in Adds(p, res) : a.column = res.cols[c].name
  <2>1. CASE TypeNote(p, res.cols[c].type) # "none"
    <3> DEFINE a == Add(res, c, 0, TypeNote(p, res.cols[c].type))
    <3>1. a.column = res.cols[c].name /\ a.reason # "none"
      BY <2>1 DEF Add
    <3>2. a \in Adds(p, res)
      BY <3>1 DEF Adds
    <3> QED BY <3>1, <3>2
  <2>2. CASE ValueNote(p, res.cols[c].type, res.rows[r][c]) # "none"
    <3> DEFINE a == Add(res, c, r, ValueNote(p, res.cols[c].type, res.rows[r][c]))
    <3>1. a.column = res.cols[c].name /\ a.reason # "none"
      BY <2>2 DEF Add
    <3>2. <<c, r>> \in (DOMAIN res.cols) \X (DOMAIN res.rows) /\ <<c, r>>[1] = c /\ <<c, r>>[2] = r
      OBVIOUS
    <3>3. a \in Adds(p, res)
      BY <3>1, <3>2 DEF Adds
    <3> QED BY <3>1, <3>3
  <2> QED BY <2>1, <2>2
<1>2. PICK a \in Adds(p, res) : a.column = res.cols[c].name
  BY <1>1
<1> DEFINE n == Cardinality({b \in Adds(p, res) : b.column = a.column /\ b.reason = a.reason})
           w == [column |-> a.column, reason |-> a.reason, count |-> n]
<1>3. w \in Warnings(p, res)
  BY Zenon DEF Warnings
<1>4. w.column = res.cols[c].name
  BY <1>2
<1> QED BY <1>3, <1>4

Protocols == {"postgres", "mysql", "clickhouse"}
AllResults == Results \cup FewResults \cup {NoResult.res}

\* Whatever was sent last went with the report of its own values.
ReportSent ==
  \/ sent = NoResult
  \/ /\ sent.proto \in Protocols /\ sent.res \in AllResults
     /\ sent.told = Warnings(sent.proto, sent.res)

LEMMA ReportedLoss ==
  ASSUME PlainInstants, SoundResults, ReportSent
  PROVE  LossReported
<1> SUFFICES ASSUME NEW c \in DOMAIN sent.res.cols, NEW r \in DOMAIN sent.res.rows,
                    Received(c, r) # sent.res.rows[r][c]
             PROVE  \E w \in sent.told : w.column = sent.res.cols[c].name
  BY DEF LossReported
<1> DEFINE t == sent.res.cols[c].type
           v == sent.res.rows[r][c]
<1>0. Received(c, r) # v
  OBVIOUS
<1>1. sent # NoResult /\ sent.res # NoResult.res
  BY DEF NoResult
<1>2. /\ sent.proto \in Protocols /\ sent.res \in Results \cup FewResults
      /\ sent.told = Warnings(sent.proto, sent.res)
  BY <1>1 DEF ReportSent, AllResults
<1>3. t \in Types /\ v \in Storable(t)
  BY <1>2 DEF SoundResults, StorableResult
<1>4. CASE sent.proto = "postgres"
  <2>1. Received(c, r) = encodeValue(t, v, resolveFormat(sent.formats, c))
    BY <1>4 DEF Received
  <2>2. PgTypeNote(t) # "none" \/ PgValueNote(t, v) # "none"
    <3> HIDE DEF t, v
    <3> QED BY <1>0, <1>3, <2>1, PgNoted
  <2>3. TypeNote("postgres", t) # "none" \/ ValueNote("postgres", t, v) # "none"
    BY <2>2 DEF TypeNote, ValueNote
  <2>4. \E w \in Warnings("postgres", sent.res) : w.column = sent.res.cols[c].name
    BY <2>3, NotesReported, Zenon
  <2> QED BY <1>2, <1>4, <2>4
<1>5. CASE sent.proto = "mysql"
  <2>1. Received(c, r) = coerce(t, v)
    BY <1>5 DEF Received
  <2> QED BY <1>3, <2>1, MyNoted
<1>6. CASE sent.proto = "clickhouse"
  <2>1. Received(c, r) = ChValue(t, v)
    BY <1>6 DEF Received
  <2>2. ChTypeNote(t) # "none" \/ ChValueNote(t, v) # "none"
    <3> HIDE DEF t, v
    <3> QED BY <1>0, <1>3, <2>1, ChNoted
  <2>3. TypeNote("clickhouse", t) # "none" \/ ValueNote("clickhouse", t, v) # "none"
    BY <2>2 DEF TypeNote, ValueNote
  <2>4. \E w \in Warnings("clickhouse", sent.res) : w.column = sent.res.cols[c].name
    BY <2>3, NotesReported, Zenon
  <2> QED BY <1>2, <1>6, <2>4
<1> QED BY <1>2, <1>4, <1>5, <1>6 DEF Protocols

\* A result that goes out, over any protocol, goes with its own report.
LEMMA SendsReport ==
  ASSUME NEW p \in Protocols, NEW formats, NEW res \in AllResults,
         sent' = [proto |-> p, formats |-> formats, res |-> res, told |-> Warnings(p, res)]
  PROVE  ReportSent'
BY DEF ReportSent

LEMMA StatementReports ==
  ASSUME ReportSent, NEW c, NEW results, results \subseteq Results \cup FewResults,
         Statement(c, results)
  PROVE  ReportSent'
<1>1. CASE sent' = NoResult
  BY <1>1 DEF ReportSent
<1>2. ASSUME NEW res \in results, Ran(res) PROVE ReportSent'
  <2>1. res \in AllResults /\ "mysql" \in Protocols
    BY DEF AllResults, Protocols
  <2>2. sent' = [proto |-> "mysql", formats |-> <<>>, res |-> res, told |-> Warnings("mysql", res)]
    BY <1>2 DEF Ran
  <2> QED BY <2>1, <2>2, SendsReport
<1> QED BY <1>1, <1>2 DEF Statement

LEMMA ReportStep ==
  ASSUME ReportSent, [Next]_vars
  PROVE  ReportSent'
<1>0. ASSUME sent' = sent PROVE ReportSent'
  BY <1>0 DEF ReportSent
<1>1. CASE Postgres
  <2>1. ASSUME NEW res \in Results, NEW formats \in Formats, PgReply(res, formats)
        PROVE  ReportSent'
    <3>1. res \in AllResults /\ "postgres" \in Protocols
      BY DEF AllResults, Protocols
    <3>2. sent' = [proto |-> "postgres", formats |-> formats, res |-> res,
                   told |-> Warnings("postgres", res)]
      BY <2>1 DEF PgReply
    <3> QED BY <3>1, <3>2, SendsReport
  <2>2. ASSUME NEW text \in PgTexts, PgPrepared(text) PROVE ReportSent'
    BY <1>0, <2>2 DEF PgPrepared
  <2> QED BY <1>1, <2>1, <2>2 DEF Postgres
<1>2. CASE Mysql
  <2>1. ASSUME NEW results, results \subseteq Results \cup FewResults, NEW texts,
               MysqlNext(results, texts)
        PROVE  ReportSent'
    <3>1. ASSUME NEW c \in Commands, exec(c, results) PROVE ReportSent'
      <4>1. CASE sent' = NoResult
        BY <4>1 DEF ReportSent
      <4>2. CASE Statement(c, results)
        BY <2>1, <4>2, StatementReports
      <4> QED BY <3>1, <4>1, <4>2 DEF exec
    <3>2. CASE HandleOtherCommand
      BY <3>2 DEF HandleOtherCommand, ReportSent
    <3> QED BY <2>1, <3>1, <3>2 DEF MysqlNext, HandleQuery, HandleStmt
  <2>2. PICK results \in {Results, FewResults}, texts \in {{}, MyTexts} : MysqlNext(results, texts)
    BY <1>2 DEF Mysql
  <2> QED BY <2>1, <2>2
<1>3. CASE Serving
  <2> DEFINE results == IF work = "results" THEN Results ELSE FewResults
  <2>1. CASE handshake \/ readAddendum \/ handlePacket \/ readEnds
    BY <1>0, <2>1 DEF handshake, readAddendum, handlePacket, readEnds
  <2>2. CASE drainAndRun(results)
    <3>1. CASE sent' = sent \/ sent' = NoResult
      BY <3>1 DEF ReportSent
    <3>2. ASSUME NEW res \in results \cup {NoResult.res},
                 sent' = [proto |-> "clickhouse", formats |-> <<>>, res |-> res,
                          told |-> Warnings("clickhouse", res)]
          PROVE  ReportSent'
      <4>1. res \in AllResults /\ "clickhouse" \in Protocols
        BY DEF AllResults, Protocols
      <4> QED BY <3>2, <4>1, SendsReport
    <3> QED BY <2>2, <3>1, <3>2 DEF drainAndRun
  <2> QED BY <1>3, <2>1, <2>2 DEF Serving, ChServerNext
<1>4. CASE Reading \/ Ending \/ Asking
  BY <1>0, <1>4 DEF Reading, Ending, Asking, ClientReads, ClientEndsQuery, ClientAsks, ClientLeaves
<1>5. CASE UNCHANGED vars
  BY <1>0, <1>5 DEF vars
<1> QED BY <1>1, <1>2, <1>3, <1>4, <1>5 DEF Next

(***************************************************************************)
(* A value that reaches a client changed is in a column its report names:  *)
(* for all three protocols, integer types of any growing widths and every  *)
(* value that fits its column, as long as times are whole seconds within a *)
(* Duration of 2000-01-01 (the encoders against report and Report.Add).    *)
(***************************************************************************)
THEOREM NoSilentLoss ==
  ASSUME PlainInstants, SoundResults
  PROVE  Spec => []LossReported
<1>1. Init => ReportSent
  BY DEF Init, ReportSent
<1>2. ReportSent /\ [Next]_vars => ReportSent'
  BY ReportStep
<1>3. ReportSent => LossReported
  BY ReportedLoss
<1> QED BY <1>1, <1>2, <1>3, PTL DEF Spec

-----------------------------------------------------------------------------
\* The integer types of ClickHouse, and the DuckDB types of the same width.
LEMMA CopiedIntegers ==
  /\ DOMAIN ChSigned = {"Int8", "Int16", "Int32", "Int64", "Int128"}
  /\ DOMAIN ChUnsigned = {"UInt8", "UInt16", "UInt32", "UInt64", "UInt128"}
  /\ \A b \in DOMAIN ChSigned : ChSigned[b] \in Widths
  /\ \A b \in DOMAIN ChUnsigned : ChUnsigned[b] \in Widths
BY DEF ChSigned, ChUnsigned, Widths

LEMMA SignedCopies ==
  ASSUME NEW t, t.base \in DOMAIN ChSigned \ {"Int128"}
  PROVE  /\ chToDuckType(t) \in DOMAIN Signed
         /\ Signed[chToDuckType(t)] = ChSigned[t.base]
<1>1. t.base \in {"Int8", "Int16", "Int32", "Int64"}
  BY CopiedIntegers
<1> DEFINE d == chToDuckType(t)
<1>2. CASE t.base = "Int8"
  <2>1. d = "TINYINT"
    BY <1>2 DEF chToDuckType
  <2> QED BY <1>2, <2>1 DEF Signed, ChSigned
<1>3. CASE t.base = "Int16"
  <2>1. d = "SMALLINT"
    BY <1>3 DEF chToDuckType
  <2> QED BY <1>3, <2>1 DEF Signed, ChSigned
<1>4. CASE t.base = "Int32"
  <2>1. d = "INTEGER"
    BY <1>4 DEF chToDuckType
  <2> QED BY <1>4, <2>1 DEF Signed, ChSigned
<1>5. CASE t.base = "Int64"
  <2>1. d = "BIGINT"
    BY <1>5 DEF chToDuckType
  <2> QED BY <1>5, <2>1 DEF Signed, ChSigned
<1> QED BY <1>1, <1>2, <1>3, <1>4, <1>5

LEMMA UnsignedCopies ==
  ASSUME NEW t, t.base \in DOMAIN ChUnsigned \ {"UInt128"}
  PROVE  /\ chToDuckType(t) \in DOMAIN Unsigned
         /\ Unsigned[chToDuckType(t)] = ChUnsigned[t.base]
<1>1. t.base \in {"UInt8", "UInt16", "UInt32", "UInt64"}
  BY CopiedIntegers
<1> DEFINE d == chToDuckType(t)
<1>2. CASE t.base = "UInt8"
  <2>1. d = "UTINYINT"
    BY <1>2 DEF chToDuckType
  <2> QED BY <1>2, <2>1 DEF Unsigned, ChUnsigned
<1>3. CASE t.base = "UInt16"
  <2>1. d = "USMALLINT"
    BY <1>3 DEF chToDuckType
  <2> QED BY <1>3, <2>1 DEF Unsigned, ChUnsigned
<1>4. CASE t.base = "UInt32"
  <2>1. d = "UINTEGER"
    BY <1>4 DEF chToDuckType
  <2> QED BY <1>4, <2>1 DEF Unsigned, ChUnsigned
<1>5. CASE t.base = "UInt64"
  <2>1. d = "UBIGINT"
    BY <1>5 DEF chToDuckType
  <2> QED BY <1>5, <2>1 DEF Unsigned, ChUnsigned
<1> QED BY <1>1, <1>2, <1>3, <1>4, <1>5

\* ChSourceValues, one class of types at a time.
Small == {"Bool", "Float32", "Float64"}
Dates == {"Date", "Date32"}
Others == Small \cup Dates \cup {"Decimal", "DateTime", "DateTime64"}

LEMMA SourceClasses ==
  ASSUME NEW t, t.base \in ChBases, NEW v \in ChSourceValues(t), v # Null
  PROVE  /\ t.base \in DOMAIN ChSigned =>
              v \in Whole((-Half[ChSigned[t.base]]) .. (Half[ChSigned[t.base]] - 1))
         /\ t.base \in DOMAIN ChUnsigned => v \in Whole(0 .. (2 * Half[ChUnsigned[t.base]] - 1))
         /\ t.base \in Small => v \in Whole(0 .. 1)
         /\ t.base \in Dates => v \in {Val(i[1], FALSE) : i \in Instants}
         /\ t.base = "Decimal" => v \in {Val(1, fine) : fine \in BOOLEAN}
         /\ t.base = "DateTime" => v \in {Val(i[1], i[2]) : i \in Instants}
         /\ t.base = "DateTime64" =>
              v \in {Val(i[1], i[2]) : i \in Instants} \cup {Nano(i[1], i[2]) : i \in Instants}
<1> DEFINE nulls == IF "Nullable" \in t.wrappers THEN {Null} ELSE {}
<1>0. v \notin nulls
  OBVIOUS
<1>d. DOMAIN ChSigned \cap DOMAIN ChUnsigned = {} /\ Others \cap (DOMAIN ChSigned \cup DOMAIN ChUnsigned) = {}
  BY CopiedIntegers DEF Others, Small, Dates
<1> HIDE DEF nulls
<1>1. CASE t.base \in DOMAIN ChSigned
  <2>1. /\ t.base \notin DOMAIN ChUnsigned /\ t.base \notin Small /\ t.base \notin Dates
        /\ t.base # "Decimal" /\ t.base # "DateTime" /\ t.base # "DateTime64"
    BY <1>1, <1>d DEF Others, Small, Dates
  <2>2. ChSourceValues(t) = nulls \cup Whole((-Half[ChSigned[t.base]]) .. (Half[ChSigned[t.base]] - 1))
    BY <1>1, <2>1, Zenon DEF ChSourceValues, nulls, Small, Dates
  <2>3. v \in Whole((-Half[ChSigned[t.base]]) .. (Half[ChSigned[t.base]] - 1))
    BY <1>0, <2>2, Zenon
  <2> QED BY <1>1, <2>1, <2>3, Zenon
<1>2. CASE t.base \in DOMAIN ChUnsigned
  <2>1. /\ t.base \notin DOMAIN ChSigned /\ t.base \notin Small /\ t.base \notin Dates
        /\ t.base # "Decimal" /\ t.base # "DateTime" /\ t.base # "DateTime64"
    BY <1>2, <1>d DEF Others, Small, Dates
  <2>2. ChSourceValues(t) = nulls \cup Whole(0 .. (2 * Half[ChUnsigned[t.base]] - 1))
    BY <1>2, <2>1, Zenon DEF ChSourceValues, nulls, Small, Dates
  <2>3. v \in Whole(0 .. (2 * Half[ChUnsigned[t.base]] - 1))
    BY <1>0, <2>2, Zenon
  <2> QED BY <1>2, <2>1, <2>3, Zenon
<1>3. CASE t.base \in Small
  <2>1. /\ t.base \notin DOMAIN ChSigned /\ t.base \notin DOMAIN ChUnsigned /\ t.base \notin Dates
        /\ t.base # "Decimal" /\ t.base # "DateTime" /\ t.base # "DateTime64"
    BY <1>3, <1>d DEF Others, Small, Dates
  <2>2. ChSourceValues(t) = nulls \cup Whole(0 .. 1)
    BY <1>3, <2>1, Zenon DEF ChSourceValues, nulls, Small, Dates
  <2>3. v \in Whole(0 .. 1)
    BY <1>0, <2>2, Zenon
  <2> QED BY <1>3, <2>1, <2>3, Zenon
<1>4. CASE t.base \in Dates
  <2>1. /\ t.base \notin DOMAIN ChSigned /\ t.base \notin DOMAIN ChUnsigned /\ t.base \notin Small
        /\ t.base # "Decimal" /\ t.base # "DateTime" /\ t.base # "DateTime64"
    BY <1>4, <1>d DEF Others, Small, Dates
  <2>2. ChSourceValues(t) = nulls \cup {Val(i[1], FALSE) : i \in Instants}
    BY <1>4, <2>1, Zenon DEF ChSourceValues, nulls, Small, Dates
  <2>3. v \in {Val(i[1], FALSE) : i \in Instants}
    BY <1>0, <2>2, Zenon
  <2> QED BY <1>4, <2>1, <2>3, Zenon
<1>5. CASE t.base = "Decimal"
  <2>1. /\ t.base \notin DOMAIN ChSigned /\ t.base \notin DOMAIN ChUnsigned /\ t.base \notin Small
        /\ t.base \notin Dates /\ t.base # "DateTime" /\ t.base # "DateTime64"
    BY <1>5, <1>d DEF Others, Small, Dates
  <2>2. ChSourceValues(t) = nulls \cup {Val(1, fine) : fine \in BOOLEAN}
    BY <1>5, <2>1, Zenon DEF ChSourceValues, nulls, Small, Dates
  <2>3. v \in {Val(1, fine) : fine \in BOOLEAN}
    BY <1>0, <2>2, Zenon
  <2> QED BY <1>5, <2>1, <2>3, Zenon
<1>6. CASE t.base = "DateTime"
  <2>1. /\ t.base \notin DOMAIN ChSigned /\ t.base \notin DOMAIN ChUnsigned /\ t.base \notin Small
        /\ t.base \notin Dates /\ t.base # "Decimal" /\ t.base # "DateTime64"
    BY <1>6, <1>d DEF Others, Small, Dates
  <2>2. ChSourceValues(t) = nulls \cup {Val(i[1], i[2]) : i \in {j \in Instants : j[1] \in 0 .. DateTimeEnd /\ ~j[2]}}
    BY <1>6, <2>1, Zenon DEF ChSourceValues, nulls, Small, Dates
  <2>3. v \in {Val(i[1], i[2]) : i \in {j \in Instants : j[1] \in 0 .. DateTimeEnd /\ ~j[2]}}
    BY <1>0, <2>2, Zenon
  <2>4. v \in {Val(i[1], i[2]) : i \in Instants}
    BY <2>3
  <2> QED BY <1>6, <2>1, <2>4, Zenon
<1>7. CASE t.base = "DateTime64"
  <2>1. /\ t.base \notin DOMAIN ChSigned /\ t.base \notin DOMAIN ChUnsigned /\ t.base \notin Small
        /\ t.base \notin Dates /\ t.base # "Decimal" /\ t.base # "DateTime"
    BY <1>7, <1>d DEF Others, Small, Dates
  <2>2. ChSourceValues(t) = nulls \cup ({Val(i[1], i[2]) : i \in Instants} \cup {Nano(i[1], i[2]) : i \in Instants})
    BY <1>7, <2>1, Zenon DEF ChSourceValues, nulls, Small, Dates
  <2>3. v \in {Val(i[1], i[2]) : i \in Instants} \cup {Nano(i[1], i[2]) : i \in Instants}
    BY <1>0, <2>2, Zenon
  <2> QED BY <1>7, <2>1, <2>3, Zenon
<1> QED BY <1>1, <1>2, <1>3, <1>4, <1>5, <1>6, <1>7 DEF ChBases, Small, Dates

(***************************************************************************)
(* What becomes of a value of a copied ClickHouse column fits the DuckDB   *)
(* column chToDuckType makes for it, whatever the type and however it is   *)
(* wrapped: no type is mapped to a narrower one or to one of the other     *)
(* sign.  It is the same value, except for the digits of a DateTime64      *)
(* beyond the microseconds (chToDuckType, normalizeForDuck).               *)
(***************************************************************************)
THEOREM CopiedColumnsFit ==
  ASSUME NEW t, t.base \in ChBases, NEW v \in ChSourceValues(t)
  PROVE  /\ inserted(v) \in Storable(chToDuckType(t))
         /\ v.k = "nano" => t.base = "DateTime64"
         /\ v.k # "nano" => inserted(v) = v
<1> DEFINE d == chToDuckType(t)
<1>0. v.k # "nano" => inserted(v) = v
  BY DEF inserted
<1>1. CASE v = Null
  <2>1. Null \in Storable(d)
    BY DEF Storable, ValuesOf
  <2>2. v.k # "nano"
    BY <1>1 DEF Null
  <2> QED BY <1>0, <1>1, <2>1, <2>2
<1>2. CASE v # Null /\ t.base \in DOMAIN ChSigned \ {"Int128"}
  <2>1. d \in DOMAIN Signed /\ Signed[d] = ChSigned[t.base] /\ d # "VARCHAR"
    BY <1>2, SignedCopies, IntegerTypes
  <2>2. v \in Whole((-Half[Signed[d]]) .. (Half[Signed[d]] - 1))
    BY <1>2, <2>1, SourceClasses
  <2> HIDE DEF d
  <2>3. v \in ValuesOf(d)
    BY <2>1, <2>2, ValueClasses, Zenon
  <2>4. v \in Storable(d)
    BY <2>1, <2>3 DEF Storable
  <2>5. v.k # "nano"
    BY <2>2 DEF Whole, Val
  <2> QED BY <1>0, <2>4, <2>5 DEF d
<1>3. CASE v # Null /\ t.base \in DOMAIN ChUnsigned \ {"UInt128"}
  <2>1. d \in DOMAIN Unsigned /\ Unsigned[d] = ChUnsigned[t.base] /\ d # "VARCHAR"
    BY <1>3, UnsignedCopies, IntegerTypes
  <2>2. v \in Whole(0 .. (2 * Half[Unsigned[d]] - 1))
    BY <1>3, <2>1, SourceClasses
  <2> HIDE DEF d
  <2>3. v \in ValuesOf(d)
    BY <2>1, <2>2, ValueClasses, Zenon
  <2>4. v \in Storable(d)
    BY <2>1, <2>3 DEF Storable
  <2>5. v.k # "nano"
    BY <2>2 DEF Whole, Val
  <2> QED BY <1>0, <2>4, <2>5 DEF d
<1>4. CASE v # Null /\ t.base \in {"Int128", "UInt128", "Decimal"}
  <2>1. d = "VARCHAR"
    BY <1>4 DEF chToDuckType
  <2>2. \E n \in Int, fine \in BOOLEAN : v = Val(n, fine)
    <3>1. CASE t.base = "Int128"
      <4>1. v \in Whole((-Half[ChSigned[t.base]]) .. (Half[ChSigned[t.base]] - 1))
        BY <1>4, <3>1, SourceClasses, CopiedIntegers
      <4>2. PICK n \in (-Half[ChSigned[t.base]]) .. (Half[ChSigned[t.base]] - 1) : v = Val(n, FALSE)
        BY <4>1, Zenon DEF Whole
      <4>3. Half[ChSigned[t.base]] \in Nat
        BY <3>1, CopiedIntegers, FidelityAssumption
      <4>4. n \in Int
        BY <4>2, <4>3
      <4> QED BY <4>2, <4>4
    <3>2. CASE t.base = "UInt128"
      <4>1. v \in Whole(0 .. (2 * Half[ChUnsigned[t.base]] - 1))
        BY <1>4, <3>2, SourceClasses, CopiedIntegers
      <4>2. PICK n \in 0 .. (2 * Half[ChUnsigned[t.base]] - 1) : v = Val(n, FALSE)
        BY <4>1, Zenon DEF Whole
      <4>3. Half[ChUnsigned[t.base]] \in Nat
        BY <3>2, CopiedIntegers, FidelityAssumption
      <4>4. n \in Int
        BY <4>2, <4>3
      <4> QED BY <4>2, <4>4
    <3>3. CASE t.base = "Decimal"
      <4>1. v \in {Val(1, fine) : fine \in BOOLEAN}
        BY <1>4, <3>3, SourceClasses
      <4> QED BY <4>1
    <3> QED BY <1>4, <3>1, <3>2, <3>3
  <2>3. v \in {Val(n, fine) : n \in Int, fine \in BOOLEAN}
    BY <2>2 DEF Val
  <2> HIDE DEF d
  <2>4. v \in Storable(d)
    BY <2>1, <2>3 DEF Storable
  <2>5. v.k # "nano"
    BY <2>2 DEF Whole, Val
  <2> QED BY <1>0, <2>4, <2>5 DEF d
<1>5. CASE v # Null /\ t.base \in Small
  <2>1. d \in {"BOOLEAN", "FLOAT", "DOUBLE"} /\ d # "VARCHAR"
    BY <1>5 DEF chToDuckType, Small
  <2>2. v \in Whole(0 .. 1)
    BY <1>5, SourceClasses
  <2> HIDE DEF d
  <2>3. v \in ValuesOf(d)
    BY <2>1, <2>2, ValueClasses, Zenon
  <2>4. v \in Storable(d)
    BY <2>1, <2>3 DEF Storable
  <2>5. v.k # "nano"
    BY <2>2 DEF Whole, Val
  <2> QED BY <1>0, <2>4, <2>5 DEF d
<1>6. CASE v # Null /\ t.base \in Dates
  <2>1. d = "DATE" /\ d # "VARCHAR"
    BY <1>6 DEF chToDuckType, Dates
  <2>2. v \in {Val(i[1], FALSE) : i \in Instants}
    BY <1>6, SourceClasses
  <2> HIDE DEF d
  <2>3. v \in ValuesOf(d)
    BY <2>1, <2>2, ValueClasses, Zenon
  <2>4. v \in Storable(d)
    BY <2>1, <2>3 DEF Storable
  <2>5. v.k # "nano"
    BY <2>2 DEF Whole, Val
  <2> QED BY <1>0, <2>4, <2>5 DEF d
<1>7. CASE v # Null /\ t.base = "DateTime"
  <2>1. d = "TIMESTAMP" /\ d # "VARCHAR"
    BY <1>7 DEF chToDuckType
  <2>2. v \in {Val(i[1], i[2]) : i \in Instants}
    BY <1>7, SourceClasses
  <2> HIDE DEF d
  <2>3. v \in ValuesOf(d)
    BY <2>1, <2>2, ValueClasses, Zenon
  <2>4. v \in Storable(d)
    BY <2>1, <2>3 DEF Storable
  <2>5. v.k # "nano"
    BY <2>2 DEF Whole, Val
  <2> QED BY <1>0, <2>4, <2>5 DEF d
<1>8. CASE v # Null /\ t.base = "DateTime64"
  <2>1. d = "TIMESTAMP" /\ d # "VARCHAR"
    BY <1>8 DEF chToDuckType
  <2>2. PICK i \in Instants : v = Val(i[1], i[2]) \/ v = Nano(i[1], i[2])
    BY <1>8, SourceClasses
  <2>3. inserted(v) = Val(i[1], i[2])
    BY <2>2 DEF inserted, Val, Nano
  <2>4. inserted(v) \in {Val(j[1], j[2]) : j \in Instants}
    BY <2>3
  <2> HIDE DEF d
  <2>5. inserted(v) \in ValuesOf(d)
    BY <2>1, <2>4, ValueClasses, Zenon
  <2>6. inserted(v) \in Storable(d)
    BY <2>1, <2>5 DEF Storable
  <2> QED BY <1>0, <1>8, <2>6 DEF d
<1>9. t.base \in DOMAIN ChSigned \cup DOMAIN ChUnsigned \cup Small \cup Dates
                  \cup {"Decimal", "DateTime", "DateTime64"}
  BY DEF ChBases, Small, Dates
<1> QED BY <1>1, <1>2, <1>3, <1>4, <1>5, <1>6, <1>7, <1>8, <1>9

-----------------------------------------------------------------------------
(***************************************************************************)
(* SHOW WARNINGS.  Between a statement that ran and the next one, the      *)
(* session keeps that statement's warnings, as many as it has announced    *)
(* (KeepsWarnings); what SHOW WARNINGS lists follows from it.              *)
(***************************************************************************)
PreviousType ==
  /\ previous.ran \in BOOLEAN
  /\ previous = [ran |-> previous.ran, notes |-> previous.notes, warned |-> previous.warned]
KeepsWarnings ==
  previous.ran => warnings = previous.notes /\ previous.warned = Cardinality(previous.notes)
WarnInv == PreviousType /\ KeepsWarnings /\ ShowsLastWarnings

LEMMA StillWarns ==
  ASSUME WarnInv, UNCHANGED <<warnings, previous>>, NEW reply,
         Answer("statement", reply, 0, {}) \/ Answer("other", reply, 0, {})
  PROVE  WarnInv'
<1>1. answer'.cmd # "SHOW WARNINGS"
  <2>1. CASE Answer("statement", reply, 0, {})
    BY <2>1 DEF Answer
  <2>2. CASE Answer("other", reply, 0, {})
    BY <2>2 DEF Answer
  <2> QED BY <2>1, <2>2
<1> QED BY <1>1 DEF WarnInv, PreviousType, KeepsWarnings, ShowsLastWarnings

LEMMA NotRunWarns ==
  ASSUME WarnInv, NotRun, NEW reply, Answer("statement", reply, 0, {})
  PROVE  WarnInv'
<1>1. previous' = [ran |-> FALSE, notes |-> previous.notes, warned |-> previous.warned]
  BY DEF NotRun, WarnInv, PreviousType
<1> QED BY <1>1 DEF Answer, WarnInv, PreviousType, KeepsWarnings, ShowsLastWarnings

LEMMA StatementWarns ==
  ASSUME WarnInv, NEW c, NEW results, Statement(c, results)
  PROVE  WarnInv'
<1>0. Cardinality({}) = 0
  BY FS_EmptySet
<1>1. ASSUME NotRun, NEW reply, Answer("statement", reply, 0, {}) PROVE WarnInv'
  BY <1>1, NotRunWarns
<1>2. CASE /\ warnings' = {}
           /\ Answer("statement", "ok", 0, {})
           /\ previous' = [ran |-> TRUE, notes |-> {}, warned |-> 0]
  BY <1>0, <1>2 DEF Answer, WarnInv, PreviousType, KeepsWarnings, ShowsLastWarnings
<1>3. ASSUME NEW res \in results, Ran(res) PROVE WarnInv'
  <2> DEFINE notes == Warnings("mysql", res)
  <2>1. /\ warnings' = notes
        /\ Answer("statement", "rows", Cardinality(notes), {})
        /\ previous' = [ran |-> TRUE, notes |-> notes, warned |-> Cardinality(notes)]
    BY <1>3 DEF Ran
  <2> HIDE DEF notes
  <2> QED BY <2>1 DEF Answer, WarnInv, PreviousType, KeepsWarnings, ShowsLastWarnings
<1> QED BY <1>1, <1>2, <1>3 DEF Statement

LEMMA WarnStep ==
  ASSUME WarnInv, [Next]_vars
  PROVE  WarnInv'
<1>0. ASSUME UNCHANGED <<warnings, answer, previous>> PROVE WarnInv'
  BY <1>0 DEF WarnInv, PreviousType, KeepsWarnings, ShowsLastWarnings
<1>1. CASE Postgres
  BY <1>0, <1>1 DEF Postgres, PgReply, PgPrepared, mysql
<1>2. CASE Mysql
  <2>1. ASSUME NEW results, NEW texts, MysqlNext(results, texts) PROVE WarnInv'
    <3>1. ASSUME NEW c \in Commands, exec(c, results) PROVE WarnInv'
      <4>1. CASE UNCHANGED <<warnings, previous>> /\ Answer("statement", "ok", 0, {})
        BY <4>1, StillWarns
      <4>2. CASE UNCHANGED <<warnings, previous>> /\ Answer("SHOW WARNINGS", "rows", 0, warnings)
        BY <4>2 DEF Answer, WarnInv, PreviousType, KeepsWarnings, ShowsLastWarnings
      <4>3. CASE Statement(c, results)
        BY <4>3, StatementWarns
      <4> QED BY <3>1, <4>1, <4>2, <4>3 DEF exec
    <3>2. CASE HandleOtherCommand
      BY <3>2, StillWarns DEF HandleOtherCommand
    <3> QED BY <2>1, <3>1, <3>2 DEF MysqlNext, HandleQuery, HandleStmt
  <2>2. PICK results \in {Results, FewResults}, texts \in {{}, MyTexts} : MysqlNext(results, texts)
    BY <1>2 DEF Mysql
  <2> QED BY <2>1, <2>2
<1>3. CASE Serving \/ Reading \/ Ending \/ Asking
  BY <1>0, <1>3 DEF Serving, Reading, Ending, Asking, mysql
<1>4. CASE UNCHANGED vars
  BY <1>0, <1>4 DEF vars, mysql
<1> QED BY <1>1, <1>2, <1>3, <1>4 DEF Next

(***************************************************************************)
(* After a statement that ran, SHOW WARNINGS lists its approximations, all *)
(* of them and no others, however often it is asked and whatever came      *)
(* before, for any results and in both stub modes (exec, showWarnings).    *)
(***************************************************************************)
THEOREM WarningsShown == Spec => []ShowsLastWarnings
<1>1. Init => WarnInv
  BY FS_EmptySet DEF Init, MysqlInit, NoAnswer, WarnInv, PreviousType, KeepsWarnings, ShowsLastWarnings
<1>2. WarnInv /\ [Next]_vars => WarnInv'
  BY WarnStep
<1> QED BY <1>1, <1>2, PTL DEF Spec, WarnInv

-----------------------------------------------------------------------------
(***************************************************************************)
(* Bound values.  A prepared text that has run is one of the client's, and *)
(* ran as the session's scanners made it (TextRan); what they make of a    *)
(* text is ParamsProofs' matter.                                           *)
(***************************************************************************)
PgTextRan(text) ==
  /\ ran.proto = "postgres" /\ ran.text = text /\ ran.told = maxParamIndex(text)
  /\ ran.final = substituteParams(text, SubSeq(Bound, 1, maxParamIndex(text)))

MyTextRan(text) ==
  /\ ran.proto = "mysql" /\ ran.text = text /\ ran.told = placeholderCount(text)
  /\ ran.final = backticksToQuotes(substituteArgs(text, SubSeq(Bound, 1, placeholderCount(text))))

TextRan ==
  \/ ran = NoText
  \/ \E text \in PgTexts : PgTextRan(text)
  \/ \E text \in MyTexts : MyTextRan(text)

\* Such a text has its values in place, and was announced with no more than there
\* are.
LEMMA RanInPlace ==
  ASSUME TextRan
  PROVE  ArgsInPlace /\ ran.told \in 0 .. Len(Bound)
<1>1. Len(Bound) \in Nat /\ Len(Bound) >= 2
  BY BoundAssumption
<1>2. CASE ran = NoText
  <2>1. ran.proto = "none" /\ ran.told = 0
    BY <1>2 DEF NoText
  <2> QED BY <1>1, <2>1 DEF ArgsInPlace
<1>3. ASSUME NEW text \in PgTexts, PgTextRan(text) PROVE ArgsInPlace /\ ran.told \in 0 .. Len(Bound)
  <2>1. text \in Seq(PgChars)
    BY TextsAssumption
  <2>2. /\ maxParamIndex(text) \in 0 .. 2
        /\ PlainComments(text, {"sq", "dq"})
             => PgInPlace(text, maxParamIndex(text),
                          substituteParams(text, SubSeq(Bound, 1, maxParamIndex(text))))
    BY <2>1, ParamsTold, PgTextsInPlace
  <2>3. /\ ran.told \in 0 .. 2 /\ ran.proto # "mysql"
        /\ PlainComments(ran.text, {"sq", "dq"}) => PgInPlace(ran.text, ran.told, ran.final)
    BY <1>3, <2>2 DEF PgTextRan
  <2> QED BY <1>1, <2>3 DEF ArgsInPlace
<1>4. ASSUME NEW text \in MyTexts, MyTextRan(text) PROVE ArgsInPlace /\ ran.told \in 0 .. Len(Bound)
  <2>1. text \in Seq(MyChars) /\ placeholderCount(text) <= Len(Bound)
    BY TextsAssumption
  <2>2. placeholderCount(text) \in 0 .. Len(Bound)
    BY <2>1, CountTold
  <2>3. PlainText(text)
          => MyInPlace(text, placeholderCount(text),
                       backticksToQuotes(substituteArgs(text, SubSeq(Bound, 1, placeholderCount(text)))))
    BY <2>1, MyTextsInPlace
  <2>4. /\ ran.told \in 0 .. Len(Bound) /\ ran.proto # "postgres"
        /\ PlainText(ran.text) => MyInPlace(ran.text, ran.told, ran.final)
    BY <1>4, <2>2, <2>3 DEF MyTextRan
  <2> QED BY <2>4 DEF ArgsInPlace
<1> QED BY <1>2, <1>3, <1>4 DEF TextRan

\* Every step keeps it.
LEMMA TextStep ==
  ASSUME TextRan, [Next]_vars
  PROVE  TextRan'
<1>0. ASSUME ran' = ran PROVE TextRan'
  BY <1>0 DEF TextRan, PgTextRan, MyTextRan
<1>1. ASSUME ran' = NoText PROVE TextRan'
  BY <1>1 DEF TextRan
<1>2. CASE Postgres
  <2>1. ASSUME NEW text \in PgTexts, PgPrepared(text) PROVE TextRan'
    <3>1. PgTextRan(text)'
      BY <2>1 DEF PgPrepared, PgTextRan
    <3> QED BY <3>1 DEF TextRan
  <2>2. ASSUME NEW res, NEW formats, PgReply(res, formats) PROVE TextRan'
    BY <1>0, <2>2 DEF PgReply, mysql
  <2> QED BY <1>2, <2>1, <2>2 DEF Postgres
<1>3. CASE Mysql
  <2>1. ASSUME NEW text \in MyTexts, NEW results, HandleStmt(text, results) PROVE TextRan'
    <3>1. MyTextRan(text)'
      BY <2>1 DEF HandleStmt, MyTextRan
    <3> QED BY <3>1 DEF TextRan
  <2>2. PICK results \in {Results, FewResults}, texts \in {{}, MyTexts} : MysqlNext(results, texts)
    BY <1>3 DEF Mysql
  <2>3. CASE ran' = NoText
    BY <1>1, <2>3
  <2>4. CASE \E text \in texts : HandleStmt(text, results)
    BY <2>1, <2>2, <2>4
  <2> QED BY <2>2, <2>3, <2>4 DEF MysqlNext, HandleQuery, HandleOtherCommand
<1>4. CASE Serving \/ Reading \/ Ending \/ Asking
  BY <1>0, <1>4 DEF Serving, Reading, Ending, Asking, mysql
<1>5. CASE UNCHANGED vars
  BY <1>0, <1>5 DEF vars, mysql
<1> QED BY <1>2, <1>3, <1>4, <1>5 DEF Next

(***************************************************************************)
(* A prepared text of any length runs with every bound value where the     *)
(* client meant it and its literals untouched: every Postgres text with no *)
(* quote and no placeholder in a line comment, and every MySQL text of     *)
(* which that is true, without backslashes, whose quotes of one kind hold  *)
(* no other, except that single quotes may (scanParams, substituteParams,  *)
(* maxParamIndex, substituteArgs, backticksToQuotes).                      *)
(***************************************************************************)
THEOREM ValuesInPlace == Spec => []ArgsInPlace
<1>1. Init => TextRan
  BY DEF Init, MysqlInit, TextRan
<1>2. TextRan /\ [Next]_vars => TextRan'
  BY TextStep
<1>3. TextRan => ArgsInPlace
  BY RanInPlace
<1> QED BY <1>1, <1>2, <1>3, PTL DEF Spec

-----------------------------------------------------------------------------
(***************************************************************************)
(* Types.  A report counts, so its calls of Add are finitely many.         *)
(***************************************************************************)
Lines == [column : ColumnNames, reason : Reasons, count : Nat \ {0}]

SizedResult(res) ==
  /\ IsFiniteSet(DOMAIN res.cols) /\ IsFiniteSet(DOMAIN res.rows)
  /\ \A c \in DOMAIN res.cols : res.cols[c].name \in ColumnNames

\* A result that is sent is of finite size and its columns have names.
LEMMA SizedResults ==
  ASSUME NEW res \in AllResults
  PROVE  SizedResult(res)
<1>1. CASE res \in Results \cup FewResults
  BY <1>1, ResultsAssumption DEF SizedResult, ColumnNames
<1>2. CASE res = NoResult.res
  <2>1. res.cols = <<>> /\ res.rows = <<>>
    BY <1>2 DEF NoResult
  <2>2. DOMAIN <<>> = {}
    OBVIOUS
  <2>3. IsFiniteSet({})
    BY FS_EmptySet
  <2> QED BY <2>1, <2>2, <2>3 DEF SizedResult
<1> QED BY <1>1, <1>2 DEF AllResults

\* A note is one of the reasons, or none.
LEMMA NotesKnown ==
  ASSUME NEW p \in Protocols, NEW t, NEW v
  PROVE  TypeNote(p, t) \in Reasons \cup {"none"} /\ ValueNote(p, t, v) \in Reasons \cup {"none"}
<1> USE DEF Reasons
<1>1. PgTypeNote(t) \in Reasons \cup {"none"} /\ PgValueNote(t, v) \in Reasons \cup {"none"}
  BY DEF PgTypeNote, PgValueNote
<1>2. MyTypeNote(t) \in Reasons \cup {"none"} /\ "none" \in Reasons \cup {"none"}
  BY DEF MyTypeNote
<1>3. ChTypeNote(t) \in Reasons \cup {"none"} /\ ChValueNote(t, v) \in Reasons \cup {"none"}
  BY DEF ChTypeNote, ChValueNote
<1>4. p \in {"postgres", "mysql", "clickhouse"}
  BY DEF Protocols
<1> HIDE DEF Reasons
<1>5. TypeNote(p, t) \in Reasons \cup {"none"}
  BY <1>1, <1>2, <1>3, <1>4 DEF TypeNote
<1>6. ValueNote(p, t, v) \in Reasons \cup {"none"}
  BY <1>1, <1>2, <1>3, <1>4 DEF ValueNote
<1> QED BY <1>5, <1>6

\* The image of a finite set.
LEMMA FiniteImage ==
  ASSUME NEW S, IsFiniteSet(S), NEW f, NEW T, f = [x \in S |-> f[x]], T = {f[x] : x \in S}
  PROVE  IsFiniteSet(T)
<1>1. f \in Surjection(S, T)
  BY DEF Surjection
<1> QED BY <1>1, FS_Surjection

\* The report of a result has finitely many lines, each with a column, a reason
\* and a count.
LEMMA WarningLines ==
  ASSUME NEW p \in Protocols, NEW res \in AllResults
  PROVE  Warnings(p, res) \subseteq Lines /\ Cardinality(Warnings(p, res)) \in Nat
<1> DEFINE adds == Adds(p, res)
           cols == DOMAIN res.cols
           cells == cols \X (DOMAIN res.rows)
           typeAdd == [c \in cols |-> Add(res, c, 0, TypeNote(p, res.cols[c].type))]
           valueAdd == [q \in cells |-> Add(res, q[1], q[2], ValueNote(p, res.cols[q[1]].type, res.rows[q[2]][q[1]]))]
           typed == {typeAdd[c] : c \in cols}
           valued == {valueAdd[q] : q \in cells}
           same(a) == {b \in adds : b.column = a.column /\ b.reason = a.reason}
           line == [a \in adds |-> [column |-> a.column, reason |-> a.reason, count |-> Cardinality(same(a))]]
<1>1. SizedResult(res)
  BY SizedResults
<1>2. IsFiniteSet(cols) /\ IsFiniteSet(cells)
  <2>1. IsFiniteSet(cols) /\ IsFiniteSet(DOMAIN res.rows)
    BY <1>1 DEF SizedResult
  <2> QED BY <2>1, FS_Product
<1>3. adds \subseteq typed \cup valued /\ \A a \in adds : a.reason # "none"
  BY DEF Adds
<1>4. IsFiniteSet(typed) /\ IsFiniteSet(valued)
  <2>1. typeAdd = [c \in cols |-> typeAdd[c]] /\ valueAdd = [q \in cells |-> valueAdd[q]]
    OBVIOUS
  <2> HIDE DEF cells, cols, typeAdd, valueAdd
  <2> QED BY <1>2, <2>1, FiniteImage
<1>5. \A a \in adds : a.column \in ColumnNames /\ a.reason \in Reasons
  <2>1. ASSUME NEW c \in cols, NEW r, NEW reason
        PROVE  Add(res, c, r, reason).column \in ColumnNames /\ Add(res, c, r, reason).reason = reason
    BY <1>1 DEF Add, SizedResult
  <2>2. \A c \in cols : TypeNote(p, res.cols[c].type) \in Reasons \cup {"none"}
    BY NotesKnown
  <2>3. \A q \in cells : /\ ValueNote(p, res.cols[q[1]].type, res.rows[q[2]][q[1]]) \in Reasons \cup {"none"}
                         /\ q[1] \in cols
    BY NotesKnown
  <2>4. \A c \in cols : typeAdd[c].column \in ColumnNames /\ typeAdd[c].reason \in Reasons \cup {"none"}
    BY <2>1, <2>2
  <2>5. \A q \in cells : valueAdd[q].column \in ColumnNames /\ valueAdd[q].reason \in Reasons \cup {"none"}
    BY <2>1, <2>3
  <2> HIDE DEF adds, typeAdd, valueAdd, cols, cells
  <2> QED BY <1>3, <2>4, <2>5
<1> HIDE DEF typed, valued
<1>6. IsFiniteSet(adds)
  <2>1. IsFiniteSet(typed \cup valued)
    BY <1>4, FS_Union
  <2> HIDE DEF adds
  <2> QED BY <1>3, <2>1, FS_Subset
<1>7. Warnings(p, res) = {line[a] : a \in adds}
  <2>1. \A a \in adds : line[a] = [column |-> a.column, reason |-> a.reason, count |-> Cardinality(same(a))]
    BY Zenon
  <2> HIDE DEF line
  <2> QED BY <2>1 DEF Warnings
<1> HIDE DEF adds
<1>8. \A a \in adds : Cardinality(same(a)) \in Nat \ {0}
  <2> SUFFICES ASSUME NEW a \in adds PROVE Cardinality(same(a)) \in Nat \ {0}
    OBVIOUS
  <2>1. same(a) \subseteq adds /\ a \in same(a)
    OBVIOUS
  <2> HIDE DEF same
  <2>2. IsFiniteSet(same(a))
    BY <1>6, <2>1, FS_Subset
  <2> QED BY <2>1, <2>2, FS_CardinalityType, FS_EmptySet
<1> HIDE DEF same
<1>9. \A a \in adds : line[a] \in Lines
  BY <1>5, <1>8 DEF Lines
<1>10. line = [a \in adds |-> line[a]]
  OBVIOUS
<1> HIDE DEF line
<1>11. IsFiniteSet({line[a] : a \in adds})
  BY <1>6, <1>10, FiniteImage
<1>12. Cardinality({line[a] : a \in adds}) \in Nat
  BY <1>11, FS_CardinalityType
<1> QED BY <1>7, <1>9, <1>12

-----------------------------------------------------------------------------
\* The packets each side sends.
InPackets == {Packet(code, v) : code \in Requests \cup {"Hello", "quota"}, v \in Nat}
OutPackets == {Packet(code, v) : code \in LastOnes \cup {"ServerHello", "Data", "Log"}, v \in Nat}

ChType ==
  /\ revision \in Nat \ {0} /\ version \in 0 .. serverRevision
  /\ chClient \in {"hello", "ready", "query", "gone"}
  /\ chServer \in {"hello", "addendum", "ready", "drain", "over"}
  /\ in \in Seq(InPackets) /\ out \in Seq(OutPackets) /\ owed \in Seq({"Query", "Ping"})
  /\ asked \in 0 .. MaxRequests
  /\ misread \in BOOLEAN

MyType ==
  /\ warnings \subseteq Lines
  /\ answer.reply \in {"none", "ok", "err", "rows"} /\ answer.warned \in Nat
  /\ PreviousType /\ previous.warned \in Nat

ProtoType ==
  /\ proto \in {"postgres", "mysql", "clickhouse"}
  /\ work \in {"results", "texts", "packets"}
  /\ sent.proto \in {"none", proto}

ReplyInv == ChType /\ MyType /\ ProtoType /\ TextRan

\* The type invariant says no more than that of the packets.
LEMMA ChTypeImplies == ChType => ChTypeOK
<1> SUFFICES ASSUME ChType PROVE ChTypeOK
  OBVIOUS
<1>1. \A i \in DOMAIN in : in[i] \in InPackets
  BY DEF ChType
<1>2. \A i \in DOMAIN in : in[i].code \in Requests \cup {"Hello", "quota"}
  BY <1>1, PacketCode DEF InPackets
<1>3. \A i \in DOMAIN out : out[i] \in OutPackets
  BY DEF ChType
<1>4. \A i \in DOMAIN out : out[i].code \in LastOnes \cup {"ServerHello", "Data", "Log"}
  BY <1>3, PacketCode DEF OutPackets
<1>5. \A i \in DOMAIN owed : owed[i] \in {"Query", "Ping"}
  BY DEF ChType
<1> QED BY <1>2, <1>4, <1>5 DEF ChType, ChTypeOK

\* A packet the server may send, and one the client may.
LEMMA PacketTypes ==
  ASSUME NEW v \in Nat
  PROVE  /\ \A code \in LastOnes \cup {"ServerHello", "Data", "Log"} : Packet(code, v) \in OutPackets
         /\ \A code \in Requests \cup {"Hello", "quota"} : Packet(code, v) \in InPackets
BY DEF InPackets, OutPackets

\* What the server writes are packets of its own.
LEMMA WriteType ==
  ASSUME ChType, NEW packets \in Seq(OutPackets),
         NEW next \in {"hello", "addendum", "ready", "drain", "over"}, Write(packets, next)
  PROVE  out' \in Seq(OutPackets) /\ chServer' \in {"hello", "addendum", "ready", "drain", "over"}
<1>1. out \in Seq(OutPackets)
  BY DEF ChType
<1>2. out \o packets \in Seq(OutPackets)
  BY <1>1
<1> QED BY <1>1, <1>2 DEF Write

\* The packets of sendResult.
LEMMA ResultType ==
  ASSUME ChType, NEW res, NEW notes, sendResult(res, notes)
  PROVE  out' \in Seq(OutPackets) /\ chServer' \in {"hello", "addendum", "ready", "drain", "over"}
<1> DEFINE a == <<Packet("Data", version)>>
           b == IF res.rows # <<>> THEN <<Packet("Data", version)>> ELSE <<>>
           c == IF notes # {} /\ version >= ServerLogs THEN <<Packet("Log", version)>> ELSE <<>>
           d == <<Packet("EndOfStream", version)>>
<1>1. version \in Nat
  BY RevisionAssumption DEF ChType
<1>2. /\ Packet("Data", version) \in OutPackets /\ Packet("Log", version) \in OutPackets
      /\ Packet("EndOfStream", version) \in OutPackets
  BY <1>1, PacketTypes DEF LastOnes
<1>3. a \in Seq(OutPackets) /\ b \in Seq(OutPackets) /\ c \in Seq(OutPackets) /\ d \in Seq(OutPackets)
  BY <1>2
<1>4. Write(((a \o b) \o c) \o d, "ready")
  BY DEF sendResult
<1> HIDE DEF a, b, c, d
<1>5. ((a \o b) \o c) \o d \in Seq(OutPackets)
  <2>1. a \o b \in Seq(OutPackets)
    BY <1>3
  <2>2. (a \o b) \o c \in Seq(OutPackets)
    BY <1>3, <2>1
  <2> QED BY <1>3, <2>2
<1> QED BY <1>4, <1>5, WriteType

\* The steps of the ClickHouse server keep the types,
LEMMA ServerType ==
  ASSUME ChType, NEW results, ChServerNext(results)
  PROVE  ChType'
<1> DEFINE Servers == {"hello", "addendum", "ready", "drain", "over"}
<1>1. revision' = revision /\ chClient' = chClient /\ asked' = asked /\ owed' = owed
  BY DEF ChServerNext
<1>2. version \in Nat /\ serverRevision \in Nat /\ in \in Seq(InPackets) /\ out \in Seq(OutPackets) /\ chServer \in Servers
  BY RevisionAssumption DEF ChType
<1>3. SUFFICES /\ version' \in 0 .. serverRevision /\ chServer' \in Servers
               /\ in' \in Seq(InPackets) /\ out' \in Seq(OutPackets) /\ misread' \in BOOLEAN
  BY <1>1 DEF ChType
<1>4. ASSUME NEW right, Take(right) PROVE in' \in Seq(InPackets) /\ misread' \in BOOLEAN
  BY <1>2, <1>4 DEF Take
<1>5. CASE handshake
  <2>1. in' \in Seq(InPackets) /\ misread' \in BOOLEAN
    BY <1>4, <1>5 DEF handshake
  <2>2. CASE version' = version /\ chServer' = "over" /\ out' = out
    BY <1>2, <2>1, <2>2 DEF ChType
  <2>3. CASE /\ version' = Capped(revision)
             /\ Write(<<Packet("ServerHello", version')>>,
                      IF version' >= AddendumRevision THEN "addendum" ELSE "ready")
    <3>1. version' \in 0 .. serverRevision
      BY <2>3, RevisionAssumption DEF Capped, ChType
    <3>2. version' \in Nat
      BY <1>2, <3>1
    <3>3. Packet("ServerHello", version') \in OutPackets
      BY <3>2, PacketTypes
    <3>4. <<Packet("ServerHello", version')>> \in Seq(OutPackets)
      BY <3>3
    <3>5. out' \in Seq(OutPackets) /\ chServer' \in Servers
      <4>1. (IF version' >= AddendumRevision THEN "addendum" ELSE "ready") \in Servers
        OBVIOUS
      <4> QED BY <2>3, <3>4, <4>1, WriteType
    <3> QED BY <2>1, <3>1, <3>5
  <2> QED BY <1>5, <2>2, <2>3 DEF handshake
<1>6. CASE readAddendum
  BY <1>2, <1>4, <1>6 DEF readAddendum, ChType
<1>7. CASE handlePacket
  <2>1. in' \in Seq(InPackets) /\ misread' \in BOOLEAN /\ version' = version
    BY <1>4, <1>7 DEF handlePacket
  <2>2. CASE out' = out /\ chServer' \in Servers
    BY <1>2, <2>1, <2>2 DEF ChType
  <2>3. CASE Write(<<Packet("Pong", version)>>, "ready")
    <3>1. Packet("Pong", version) \in OutPackets
      BY <1>2, PacketTypes DEF LastOnes
    <3>2. <<Packet("Pong", version)>> \in Seq(OutPackets)
      BY <3>1
    <3>3. out' \in Seq(OutPackets) /\ chServer' \in Servers
      BY <2>3, <3>2, WriteType
    <3> QED BY <2>1, <3>3 DEF ChType
  <2>4. (out' = out /\ chServer' \in Servers) \/ Write(<<Packet("Pong", version)>>, "ready")
    BY <1>2, <1>7 DEF handlePacket
  <2> QED BY <2>2, <2>3, <2>4
<1>8. CASE drainAndRun(results)
  <2>1. in' \in Seq(InPackets) /\ misread' \in BOOLEAN /\ version' = version
    BY <1>4, <1>8 DEF drainAndRun
  <2>2. out' \in Seq(OutPackets) /\ chServer' \in Servers
    <3>1. CASE out' = out /\ chServer' \in Servers
      BY <1>2, <3>1
    <3>2. CASE Write(<<Packet("Exception", version)>>, "ready")
      <4>1. Packet("Exception", version) \in OutPackets
        BY <1>2, PacketTypes DEF LastOnes
      <4>2. <<Packet("Exception", version)>> \in Seq(OutPackets)
        BY <4>1
      <4> QED BY <3>2, <4>2, WriteType
    <3>3. ASSUME NEW res, NEW notes, sendResult(res, notes)
          PROVE  out' \in Seq(OutPackets) /\ chServer' \in Servers
      BY <3>3, ResultType
    <3>4. \/ out' = out /\ chServer' \in Servers
          \/ Write(<<Packet("Exception", version)>>, "ready")
          \/ \E res, notes : sendResult(res, notes)
      BY <1>2, <1>8 DEF drainAndRun
    <3> QED BY <3>1, <3>2, <3>3, <3>4
  <2> QED BY <2>1, <2>2 DEF ChType
<1>9. CASE readEnds
  BY <1>2, <1>9 DEF readEnds, ChType
<1> QED BY <1>5, <1>6, <1>7, <1>8, <1>9 DEF ChServerNext

\* and so do those of its client.
LEMMA ClientType ==
  ASSUME ChType,
         \/ ClientReads \/ ClientEndsQuery \/ ClientLeaves
         \/ ClientAsks("Query", 1)
         \/ \E request \in Requests : ClientAsks(request, MaxRequests)
  PROVE  ChType'
<1>1. /\ in \in Seq(InPackets) /\ out \in Seq(OutPackets) /\ owed \in Seq({"Query", "Ping"})
      /\ Spoken \in Nat /\ MaxRequests \in Nat /\ MaxRequests >= 1 /\ asked \in 0 .. MaxRequests
  BY RevisionAssumption DEF ChType, Spoken
<1>2. \A code \in Requests \cup {"quota"} : Append(in, Packet(code, Spoken)) \in Seq(InPackets)
  <2>1. \A code \in Requests \cup {"quota"} : Packet(code, Spoken) \in InPackets
    BY <1>1, PacketTypes
  <2> QED BY <1>1, <2>1
<1>3. CASE ClientReads
  <2>1. out' \in Seq(OutPackets) /\ owed' \in Seq({"Query", "Ping"})
    BY <1>1, <1>3 DEF ClientReads
  <2>2. in' \in Seq(InPackets)
    BY <1>1, <1>2, <1>3 DEF ClientReads
  <2>3. misread' \in BOOLEAN
    BY <1>3 DEF ClientReads
  <2>4. chClient' \in {"hello", "ready", "query", "gone"}
    BY <1>3 DEF ClientReads, ChType
  <2>5. UNCHANGED <<revision, chServer, version, asked>>
    BY <1>3 DEF ClientReads
  <2> QED BY <2>1, <2>2, <2>3, <2>4, <2>5 DEF ChType
<1>4. CASE ClientEndsQuery
  <2>1. "Data" \in Requests
    BY DEF Requests
  <2>2. in' \in Seq(InPackets)
    BY <1>2, <1>4, <2>1 DEF ClientEndsQuery
  <2> QED BY <1>4, <2>2 DEF ClientEndsQuery, ChType
<1>5. CASE ClientLeaves
  BY <1>5 DEF ClientLeaves, ChType
<1>6. ASSUME NEW request \in Requests, NEW bound \in Nat, bound <= MaxRequests, ClientAsks(request, bound)
      PROVE  ChType'
  <2>1. in' \in Seq(InPackets)
    BY <1>2, <1>6 DEF ClientAsks
  <2>2. owed' \in Seq({"Query", "Ping"})
    BY <1>1, <1>6 DEF ClientAsks
  <2>3. asked' \in 0 .. MaxRequests
    BY <1>1, <1>6 DEF ClientAsks
  <2>4. chClient' \in {"hello", "ready", "query", "gone"}
    BY <1>6 DEF ClientAsks, ChType
  <2>5. UNCHANGED <<revision, chServer, version, out, misread>>
    BY <1>6 DEF ClientAsks
  <2> QED BY <2>1, <2>2, <2>3, <2>4, <2>5 DEF ChType
<1>7. "Query" \in Requests /\ 1 \in Nat /\ 1 <= MaxRequests /\ MaxRequests <= MaxRequests
  BY <1>1 DEF Requests
<1> QED BY <1>1, <1>3, <1>4, <1>5, <1>6, <1>7

-----------------------------------------------------------------------------
\* The commands of a MySQL session keep the types of what it remembers.
LEMMA MysqlType ==
  ASSUME MyType, NEW results, results \subseteq Results \cup FewResults, NEW texts, MysqlNext(results, texts)
  PROVE  MyType' /\ sent'.proto \in {"none", "mysql"}
<1> DEFINE Goal == MyType' /\ sent'.proto \in {"none", "mysql"}
<1>0. NoResult.proto = "none" /\ 0 \in Nat
  BY DEF NoResult
<1>1. ASSUME NotRun, warnings' = warnings \/ warnings' = {}, sent' = NoResult,
             NEW cmd, NEW reply \in {"ok", "err"}, Answer(cmd, reply, 0, {})
      PROVE  Goal
  <2>1. previous' = [ran |-> FALSE, notes |-> previous.notes, warned |-> previous.warned]
    BY <1>1 DEF NotRun, MyType, PreviousType
  <2>2. PreviousType' /\ previous'.warned = previous.warned
    BY <2>1 DEF PreviousType
  <2>3. answer'.reply = reply /\ answer'.warned = 0
    BY <1>1 DEF Answer
  <2> QED BY <1>0, <1>1, <2>2, <2>3 DEF MyType
<1>2. ASSUME NEW c, Statement(c, results) PROVE Goal
  <2>1. CASE /\ warnings' = {} /\ Answer("statement", "ok", 0, {})
             /\ previous' = [ran |-> TRUE, notes |-> {}, warned |-> 0] /\ sent' = NoResult
    BY <1>0, <2>1 DEF MyType, Answer, PreviousType
  <2>2. ASSUME NEW res \in results, Ran(res) PROVE Goal
    <3> DEFINE notes == Warnings("mysql", res)
    <3>1. "mysql" \in Protocols /\ res \in AllResults
      BY DEF Protocols, AllResults
    <3>2. notes \subseteq Lines /\ Cardinality(notes) \in Nat
      BY <3>1, WarningLines
    <3>3. /\ warnings' = notes /\ Answer("statement", "rows", Cardinality(notes), {})
          /\ previous' = [ran |-> TRUE, notes |-> notes, warned |-> Cardinality(notes)]
          /\ sent'.proto = "mysql"
      BY <2>2 DEF Ran
    <3> HIDE DEF notes
    <3> QED BY <3>2, <3>3 DEF MyType, Answer, PreviousType
  <2>3. CASE /\ NotRun /\ (warnings' = warnings \/ warnings' = {}) /\ sent' = NoResult
             /\ \E reply \in {"ok", "err"} : Answer("statement", reply, 0, {})
    BY <1>1, <2>3
  <2> QED BY <1>2, <2>1, <2>2, <2>3 DEF Statement
<1>3. ASSUME NEW c \in Commands, exec(c, results) PROVE Goal
  <2>1. CASE /\ Answer("statement", "ok", 0, {}) \/ Answer("SHOW WARNINGS", "rows", 0, warnings)
             /\ sent' = NoResult /\ UNCHANGED <<warnings, previous>>
    <3>1. answer'.warned = 0 /\ answer'.reply \in {"ok", "rows"}
      <4>1. CASE Answer("statement", "ok", 0, {})
        BY <4>1 DEF Answer
      <4>2. CASE Answer("SHOW WARNINGS", "rows", 0, warnings)
        BY <4>2 DEF Answer
      <4> QED BY <2>1, <4>1, <4>2
    <3>2. warnings' = warnings /\ previous' = previous
      BY <2>1
    <3> QED BY <1>0, <2>1, <3>1, <3>2 DEF MyType, PreviousType
  <2>2. CASE Statement(c, results)
    BY <1>2, <2>2
  <2> QED BY <1>3, <2>1, <2>2 DEF exec
<1>4. CASE HandleOtherCommand
  <2>1. answer'.warned = 0 /\ answer'.reply = "err" /\ sent' = NoResult
        /\ warnings' = warnings /\ previous' = previous
    BY <1>4 DEF HandleOtherCommand, Answer
  <2> QED BY <1>0, <2>1 DEF MyType, PreviousType
<1> QED BY <1>3, <1>4 DEF MysqlNext, HandleQuery, HandleStmt

\* Every step keeps all of it,
LEMMA ReplyStep ==
  ASSUME ReplyInv, [Next]_vars
  PROVE  ReplyInv'
<1>1. TextRan'
  BY TextStep DEF ReplyInv
<1>2. ASSUME UNCHANGED mysql PROVE MyType'
  BY <1>2 DEF mysql, MyType, PreviousType, ReplyInv
<1>3. ASSUME UNCHANGED ch PROVE ChType'
  BY <1>3 DEF ch, ChType, ReplyInv
<1>4. ASSUME proto' = proto, work' = work, sent'.proto \in {"none", proto} PROVE ProtoType'
  BY <1>4 DEF ProtoType, ReplyInv
<1>5. NoResult.proto = "none" /\ sent.proto \in {"none", proto}
  BY DEF NoResult, ProtoType, ReplyInv
<1>6. CASE Postgres
  <2>1. proto' = proto /\ work' = work /\ proto = "postgres" /\ UNCHANGED ch
    BY <1>6 DEF Postgres, PgReply, PgPrepared
  <2>2. UNCHANGED <<warnings, answer, previous>>
    BY <1>6 DEF Postgres, PgReply, PgPrepared, mysql
  <2>3. MyType'
    BY <2>2 DEF MyType, PreviousType, ReplyInv
  <2>4. sent'.proto \in {"none", proto}
    BY <1>5, <1>6 DEF Postgres, PgReply, PgPrepared
  <2> QED BY <1>1, <1>3, <1>4, <2>1, <2>3, <2>4 DEF ReplyInv
<1>7. CASE Mysql
  <2>1. PICK results \in {Results, FewResults}, texts \in {{}, MyTexts} : MysqlNext(results, texts)
    BY <1>7 DEF Mysql
  <2>2. MyType' /\ sent'.proto \in {"none", "mysql"}
    BY <2>1, MysqlType DEF ReplyInv
  <2>3. proto' = proto /\ work' = work /\ proto = "mysql" /\ UNCHANGED ch
    BY <1>7 DEF Mysql
  <2> QED BY <1>1, <1>3, <1>4, <2>2, <2>3 DEF ReplyInv
<1>8. CASE Serving
  <2> DEFINE results == IF work = "results" THEN Results ELSE FewResults
  <2>1. proto' = proto /\ work' = work /\ proto = "clickhouse" /\ UNCHANGED mysql /\ ChServerNext(results)
    BY <1>8 DEF Serving
  <2>2. ChType'
    BY <2>1, ServerType DEF ReplyInv
  <2>3. sent'.proto \in {"none", proto}
    <3>1. sent' = sent \/ sent' = NoResult \/ sent'.proto = "clickhouse"
      <4>1. ASSUME drainAndRun(results)
            PROVE  sent' = sent \/ sent' = NoResult \/ sent'.proto = "clickhouse"
        BY <4>1 DEF drainAndRun
      <4>2. CASE handshake \/ readAddendum \/ handlePacket \/ readEnds
        BY <4>2 DEF handshake, readAddendum, handlePacket, readEnds
      <4> QED BY <2>1, <4>1, <4>2 DEF ChServerNext
    <3> QED BY <1>5, <2>1, <3>1
  <2> QED BY <1>1, <1>2, <1>4, <2>1, <2>2, <2>3 DEF ReplyInv
<1>9. CASE Reading \/ Ending \/ Asking
  <2>1. proto' = proto /\ work' = work /\ UNCHANGED mysql /\ sent' = sent
    BY <1>9 DEF Reading, Ending, Asking, ClientReads, ClientEndsQuery, ClientAsks, ClientLeaves
  <2>2. ChType'
    BY <1>9, ClientType DEF Reading, Ending, Asking, ReplyInv
  <2> QED BY <1>1, <1>2, <1>4, <1>5, <2>1, <2>2 DEF ReplyInv
<1>10. CASE UNCHANGED vars
  BY <1>1, <1>2, <1>3, <1>4, <1>5, <1>10 DEF vars, ReplyInv
<1> QED BY <1>6, <1>7, <1>8, <1>9, <1>10 DEF Next

\* and it holds at the start.
LEMMA ReplyInit ==
  ASSUME Init
  PROVE  ReplyInv
<1>1. ChType
  <2>1. serverRevision \in Nat \ {0} /\ Revisions \subseteq Nat \ {0} /\ MaxRequests \in Nat
    BY RevisionAssumption
  <2>2. /\ <<>> \in Seq(InPackets) /\ <<>> \in Seq(OutPackets) /\ <<>> \in Seq({"Query", "Ping"})
        /\ \A p \in InPackets : <<p>> \in Seq(InPackets)
    OBVIOUS
  <2>a. 0 \in 0 .. serverRevision /\ 0 \in 0 .. MaxRequests /\ 1 \in Nat \ {0}
    BY <2>1
  <2>3. CASE ChIdle
    BY <2>2, <2>3, <2>a DEF ChIdle, ChType
  <2>4. ASSUME NEW revisions \in SUBSET (Nat \ {0}), ChInit(revisions) PROVE ChType
    <3>1. PICK first \in {"Hello", "Other"} : in = <<Packet(first, 0)>>
      BY <2>4, Zenon DEF ChInit
    <3>2. Packet(first, 0) \in InPackets
      BY PacketTypes DEF Requests
    <3>3. in \in Seq(InPackets)
      BY <2>2, <3>1, <3>2
    <3> QED BY <2>2, <2>4, <2>a, <3>3 DEF ChInit, ChType
  <2> QED BY <2>1, <2>3, <2>4 DEF Init
<1>2. MyType
  BY DEF Init, MysqlInit, NoAnswer, MyType, PreviousType
<1>3. ProtoType
  BY DEF Init, ProtoType, NoResult
<1> QED BY <1>1, <1>2, <1>3 DEF Init, MysqlInit, TextRan, ReplyInv

(***************************************************************************)
(* Type correctness of the three sessions, whatever results they return    *)
(* and texts they are given: the warnings of MySQL are lines with a count, *)
(* as many as announced; no session announces more parameters than there   *)
(* are values; a ClickHouse session never speaks a newer revision than the *)
(* server's, and each side sends only packets of its own.                  *)
(***************************************************************************)
THEOREM ReplyTypes == Spec => []TypeOK
<1>1. Init => ReplyInv
  BY ReplyInit
<1>2. ReplyInv /\ [Next]_vars => ReplyInv'
  BY ReplyStep
<1>3. ReplyInv => TypeOK
  BY RanInPlace, ChTypeImplies DEF ReplyInv, MyType, ProtoType, PreviousType, Lines, TypeOK
<1> QED BY <1>1, <1>2, <1>3, PTL DEF Spec
=============================================================================
