------------------------------ MODULE Fidelity ------------------------------
(***************************************************************************)
(* What becomes of a DuckDB value on the wire of each SQL protocol, and    *)
(* which approximations the report of that protocol names (internal/       *)
(* fidelity; pg, mysql and clickhouse fidelity.go and their encoders).     *)
(*                                                                         *)
(* A value is [k, n, fine]: n is the number, the truth value, the second   *)
(* or (for a text) which text it is, fine says that there is more to it    *)
(* than a double or a whole second holds.  What a client gets is a value   *)
(* again; the encoding is exact when it is the same.  Integer widths and   *)
(* spans of time are scaled down by the constants.                         *)
(***************************************************************************)
EXTENDS Integers, Sequences, FiniteSets

CONSTANTS
  Half,          \* Half[w] stands for 2^(w-1), w the width of an integer type
  DateTimeEnd,   \* the last second of ClickHouse's DateTime, which starts at 0
  PgEpoch,       \* 2000-01-01, and
  MaxSpan,       \* the longest time.Duration, in seconds
  Instants       \* the dates and timestamps in the data, as pairs <<n, fine>>

Widths == {8, 16, 32, 64, 128}

ASSUME FidelityAssumption ==
  /\ Half \in [Widths -> Nat \ {0}]
  /\ 2 * Half[8] <= Half[16] /\ 2 * Half[16] <= Half[32]
  /\ 2 * Half[32] <= Half[64] /\ 2 * Half[64] <= Half[128]
  /\ DateTimeEnd \in Nat /\ PgEpoch \in Nat /\ MaxSpan \in Nat
  /\ Instants \subseteq Int \X BOOLEAN

Signed == [TINYINT |-> 8, SMALLINT |-> 16, INTEGER |-> 32, BIGINT |-> 64, HUGEINT |-> 128]
Unsigned == [UTINYINT |-> 8, USMALLINT |-> 16, UINTEGER |-> 32, UBIGINT |-> 64, UHUGEINT |-> 128]

\* UUID stands for TIME, INTERVAL, BLOB and BIT as well, TIMESTAMPTZ for all the
\* timestamp types the switches do not name.
Types == (DOMAIN Signed) \cup (DOMAIN Unsigned)
           \cup {"BOOLEAN", "FLOAT", "DOUBLE", "DECIMAL", "VARCHAR", "UUID", "DATE", "TIMESTAMP", "TIMESTAMPTZ"}

Null == [k |-> "null", n |-> 0, fine |-> FALSE]
Val(n, fine) == [k |-> "val", n |-> n, fine |-> fine]
Whole(N) == {Val(n, FALSE) : n \in N}

ValuesOf(t) ==
  {Null} \cup
  CASE t \in DOMAIN Signed -> Whole((-Half[Signed[t]]) .. (Half[Signed[t]] - 1))
    [] t \in DOMAIN Unsigned -> Whole(0 .. (2 * Half[Unsigned[t]] - 1))
    [] t \in {"BOOLEAN", "FLOAT", "DOUBLE", "VARCHAR", "UUID"} -> Whole(0 .. 1)
    [] t = "DECIMAL" -> {Val(1, fine) : fine \in BOOLEAN}
    [] t = "DATE" -> {Val(i[1], FALSE) : i \in Instants}
    [] OTHER -> {Val(i[1], i[2]) : i \in Instants}

(***************************************************************************)
(* A column copied from a ClickHouse source: its type is a base type in    *)
(* Nullable() and LowCardinality() wrappers, which chToDuckType takes off. *)
(* Whole numbers, times and truth values are inserted as they are,         *)
(* everything else as its text (normalizeForDuck).  A DateTime64 may have  *)
(* digits beyond the microseconds of a TIMESTAMP ("nano"), which an INSERT *)
(* drops.                                                                  *)
(***************************************************************************)
ChSigned == [Int8 |-> 8, Int16 |-> 16, Int32 |-> 32, Int64 |-> 64, Int128 |-> 128]
ChUnsigned == [UInt8 |-> 8, UInt16 |-> 16, UInt32 |-> 32, UInt64 |-> 64, UInt128 |-> 128]
ChBases ==
  (DOMAIN ChSigned) \cup (DOMAIN ChUnsigned)
    \cup {"Bool", "Float32", "Float64", "Decimal", "Date", "Date32", "DateTime", "DateTime64"}

Nano(n, fine) == [k |-> "nano", n |-> n, fine |-> fine]
inserted(v) == IF v.k = "nano" THEN Val(v.n, v.fine) ELSE v

ChSourceValues(t) ==
  (IF "Nullable" \in t.wrappers THEN {Null} ELSE {}) \cup
  CASE t.base \in DOMAIN ChSigned -> Whole((-Half[ChSigned[t.base]]) .. (Half[ChSigned[t.base]] - 1))
    [] t.base \in DOMAIN ChUnsigned -> Whole(0 .. (2 * Half[ChUnsigned[t.base]] - 1))
    [] t.base \in {"Bool", "Float32", "Float64"} -> Whole(0 .. 1)
    [] t.base \in {"Date", "Date32"} -> {Val(i[1], FALSE) : i \in Instants}
    [] t.base = "Decimal" -> {Val(1, fine) : fine \in BOOLEAN}
    [] t.base = "DateTime" ->
         {Val(i[1], i[2]) : i \in {j \in Instants : j[1] \in 0 .. DateTimeEnd /\ ~j[2]}}
    [] t.base = "DateTime64" -> {Val(i[1], i[2]) : i \in Instants} \cup {Nano(i[1], i[2]) : i \in Instants}

chToDuckType(t) ==
  CASE t.base = "UInt8" -> "UTINYINT"   [] t.base = "Int8" -> "TINYINT"
    [] t.base = "UInt16" -> "USMALLINT" [] t.base = "Int16" -> "SMALLINT"
    [] t.base = "UInt32" -> "UINTEGER"  [] t.base = "Int32" -> "INTEGER"
    [] t.base = "UInt64" -> "UBIGINT"   [] t.base = "Int64" -> "BIGINT"
    [] t.base = "Bool" -> "BOOLEAN"     [] t.base = "Float32" -> "FLOAT"
    [] t.base = "Float64" -> "DOUBLE"   [] t.base \in {"Date", "Date32"} -> "DATE"
    [] t.base \in {"DateTime", "DateTime64"} -> "TIMESTAMP"
    [] OTHER -> "VARCHAR"

-----------------------------------------------------------------------------
\* The conversions int16(x), int32(x), int64(x), and strconv.ParseInt, which
\* stops at the ends of its range.
Wrap(n, w) == ((n + Half[w]) % (2 * Half[w])) - Half[w]
Clamp(n, lo, hi) == IF n < lo THEN lo ELSE IF n > hi THEN hi ELSE n

\* toInt: a UBIGINT is a uint64 and is converted, a HUGEINT or UHUGEINT a
\* *big.Int and is parsed; NULL is not a number and yields 0.
toInt(t, v) ==
  CASE t = "UBIGINT" -> Wrap(v.n, 64)
    [] t \in {"HUGEINT", "UHUGEINT"} -> Clamp(v.n, -Half[64], Half[64] - 1)
    [] OTHER -> v.n

ExceedsInt64(v) == v.n < -Half[64] \/ v.n >= Half[64]

\* time.Time.Sub: the distance to 2000-01-01, as far as a Duration goes.
SincePgEpoch(n) == Clamp(n - PgEpoch, -MaxSpan, MaxSpan)

\* Mutant of oidForType: an unsigned type gets the OID of its own width, HUGEINT
\* that of INTEGER.
oidNarrow(t) ==
  CASE t = "BOOLEAN" -> "bool"
    [] t \in {"TINYINT", "SMALLINT", "UTINYINT"} -> "int2"
    [] t \in {"INTEGER", "UINTEGER", "USMALLINT", "HUGEINT"} -> "int4"
    [] t \in {"BIGINT", "UBIGINT", "UHUGEINT"} -> "int8"
    [] t = "FLOAT" -> "float4"
    [] t \in {"DOUBLE", "DECIMAL"} -> "float8"
    [] t \in {"DATE", "TIMESTAMP"} -> "time"
    [] OTHER -> "text"

oidForType(t) ==
  CASE t = "BOOLEAN" -> "bool"
    [] t \in {"TINYINT", "SMALLINT", "UTINYINT"} -> "int2"
    [] t \in {"INTEGER", "USMALLINT"} -> "int4"
    [] t \in {"BIGINT", "UINTEGER", "HUGEINT", "UBIGINT", "UHUGEINT"} -> "int8"
    [] t = "FLOAT" -> "float4"
    [] t \in {"DOUBLE", "DECIMAL"} -> "float8"
    [] t \in {"DATE", "TIMESTAMP"} -> "time"
    [] OTHER -> "text"

\* The text formats give every digit, and of a time the microseconds, which is
\* all that DuckDB's TIMESTAMP has.
encodeText(v) == v

\* encodeBinary; the types without an OID of their own are sent as text.
encodeBinary(t, v) ==
  LET oid == oidForType(t) IN
  CASE oid = "int2" -> Val(Wrap(toInt(t, v), 16), FALSE)
    [] oid = "int4" -> Val(Wrap(toInt(t, v), 32), FALSE)
    [] oid = "int8" -> Val(toInt(t, v), FALSE)
    [] oid \in {"float4", "float8"} -> Val(v.n, FALSE)
    [] oid = "time" -> Val(PgEpoch + SincePgEpoch(v.n), v.fine)
    [] OTHER -> encodeText(v)

\* resolveFormat: no code, one for all, or one per column; 1 is binary.
resolveFormat(formats, col) ==
  CASE Len(formats) = 0 -> 0
    [] Len(formats) = 1 -> formats[1]
    [] OTHER -> IF col <= Len(formats) THEN formats[col] ELSE 0

encodeValue(t, v, format) ==
  CASE v = Null -> Null
    [] v # Null /\ format = 1 -> encodeBinary(t, v)
    [] OTHER -> encodeText(v)

\* coerce: a boolean becomes 0 or 1; what go-mysql takes goes as it is, the rest as
\* text with every digit.  go-mysql writes a time without its fraction.
coerce(t, v) ==
  CASE v # Null /\ t = "BOOLEAN" -> Val(IF v.n # 0 THEN 1 ELSE 0, FALSE)
    [] v # Null /\ t \in {"DATE", "TIMESTAMP", "TIMESTAMPTZ"} -> Val(v.n, FALSE)
    [] OTHER -> v

(***************************************************************************)
(* newColBuilder: the ClickHouse column for a type and what Append makes   *)
(* of a value: toInt, toFloat, toBool, toTime and whole seconds, toStr and *)
(* of a time whole seconds.  No column is Nullable: NULL is converted like *)
(* the rest and comes out as the zero value.                               *)
(***************************************************************************)
newColBuilder(t) ==
  CASE t \in {"TINYINT", "SMALLINT", "INTEGER", "UTINYINT", "USMALLINT", "UINTEGER"} -> "Int32"
    [] t \in {"BIGINT", "HUGEINT", "UBIGINT", "UHUGEINT"} -> "Int64"
    [] t \in {"FLOAT", "DOUBLE", "DECIMAL"} -> "Float64"
    [] t = "BOOLEAN" -> "UInt8"
    [] t = "TIMESTAMP" -> "DateTime"
    [] OTHER -> "String"

ChValue(t, v) ==
  LET col == newColBuilder(t) IN
  CASE col = "Int32" -> Val(Wrap(toInt(t, v), 32), FALSE)
    [] col = "Int64" -> Val(toInt(t, v), FALSE)
    [] col \in {"Float64", "UInt8"} -> Val(v.n, FALSE)
    [] col = "DateTime" -> Val(v.n % (DateTimeEnd + 1), FALSE)
    [] col = "String" -> Val(v.n, v.fine /\ t # "TIMESTAMPTZ")

-----------------------------------------------------------------------------
(***************************************************************************)
(* The reports.  A result is [cols, rows], a column [name, type].  Adds is *)
(* the calls of Report.Add, each with its column and row (0 for a note on  *)
(* the type); Warnings is what they amount to.                             *)
(***************************************************************************)
Add(res, col, row, reason) ==
  [col |-> col, row |-> row, column |-> res.cols[col].name, reason |-> reason]

Wide == {"HUGEINT", "UHUGEINT", "UBIGINT"}

PgTypeNote(t) ==
  CASE t = "DECIMAL" -> "shown as float"
    [] t \in DOMAIN Unsigned -> "shown as signed"
    [] t = "UUID" -> "shown as text"
    [] OTHER -> "none"

PgValueNote(t, v) == IF t \in Wide /\ ExceedsInt64(v) THEN "exceeds int64" ELSE "none"

MyTypeNote(t) ==
  CASE t = "BOOLEAN" -> "shown as 0/1"
    [] t \in {"DECIMAL", "HUGEINT", "UHUGEINT"} -> "shown as text"
    [] OTHER -> "none"

ChTypeNote(t) ==
  CASE t = "DECIMAL" -> "shown as float"
    [] t = "BOOLEAN" -> "shown as UInt8"
    [] t \in DOMAIN Unsigned -> "shown as signed"
    [] t \in {"DATE", "UUID"} -> "shown as text"
    [] OTHER -> "none"

ChValueNote(t, v) ==
  CASE v = Null -> "NULL as zero"
    [] v # Null /\ t \in Wide /\ ExceedsInt64(v) -> "exceeds int64"
    [] v # Null /\ t = "TIMESTAMP" /\ (v.n < 0 \/ v.n > DateTimeEnd) -> "outside DateTime"
    [] OTHER -> "none"

TypeNote(proto, t) ==
  CASE proto = "postgres" -> PgTypeNote(t)
    [] proto = "mysql" -> MyTypeNote(t)
    [] proto = "clickhouse" -> ChTypeNote(t)

ValueNote(proto, t, v) ==
  CASE proto = "postgres" -> PgValueNote(t, v)
    [] proto = "mysql" -> "none"
    [] proto = "clickhouse" -> ChValueNote(t, v)

Adds(proto, res) ==
  {a \in {Add(res, c, 0, TypeNote(proto, res.cols[c].type)) : c \in DOMAIN res.cols}
         \cup {Add(res, p[1], p[2], ValueNote(proto, res.cols[p[1]].type, res.rows[p[2]][p[1]])) :
                 p \in (DOMAIN res.cols) \X (DOMAIN res.rows)} : a.reason # "none"}

\* Report.Warnings: one line for each column and reason, with the count.
Warnings(proto, res) ==
  LET adds == Adds(proto, res) IN
  {[column |-> a.column, reason |-> a.reason,
    count |-> Cardinality({b \in adds : b.column = a.column /\ b.reason = a.reason})] : a \in adds}

-----------------------------------------------------------------------------
VARIABLE sent      \* history: the last result sent, its formats, what was reported

NoResult == [proto |-> "none", formats |-> <<>>, res |-> [cols |-> <<>>, rows |-> <<>>],
             told |-> {}]

\* What the client gets for a value of the result sent.
Received(col, row) ==
  LET t == sent.res.cols[col].type
      v == sent.res.rows[row][col]
  IN CASE sent.proto = "postgres" -> encodeValue(t, v, resolveFormat(sent.formats, col))
       [] sent.proto = "mysql" -> coerce(t, v)
       [] sent.proto = "clickhouse" -> ChValue(t, v)

(***************************************************************************)
(* No approximation is silent: a value that reaches the client changed is  *)
(* in a column the report names (the encoders against report, for each     *)
(* protocol).  That holds for dates and timestamps only as long as they    *)
(* are whole seconds and within MaxSpan of 2000-01-01.                     *)
(***************************************************************************)
LossReported ==
  \A p \in (DOMAIN sent.res.cols) \X (DOMAIN sent.res.rows) :
    Received(p[1], p[2]) # sent.res.rows[p[2]][p[1]]
      => \E w \in sent.told : w.column = sent.res.cols[p[1]].name
=============================================================================
