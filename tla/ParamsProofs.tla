---------------------------- MODULE ParamsProofs ----------------------------
(***************************************************************************)
(* What the scanners of the sessions do to a text of any length, with any  *)
(* number of bound values.  A recursive function is unfolded by showing    *)
(* that a function with its equations exists, and what holds after every   *)
(* character is shown by looking at the least number after which it does   *)
(* not (UpTo).                                                             *)
(***************************************************************************)
EXTENDS Params, FiniteSetTheorems, WellFoundedInduction, TLAPS

\* A set of numbers that holds 0, and with every number below L the next one,
\* holds 0 .. L: else there would be a least one that it does not hold.
LEMMA UpTo ==
  ASSUME NEW L \in Nat, NEW T, 0 \in T, \A k \in 0 .. L - 1 : k \in T => k + 1 \in T
  PROVE  \A k \in 0 .. L : k \in T
<1> DEFINE out == {k \in 0 .. L : k \notin T}
           R == OpToRel(<, Nat)
<1>1. SUFFICES ASSUME out # {} PROVE FALSE
  OBVIOUS
<1>2. IsWellFoundedOn(R, Nat)
  BY NatLessThanWellFounded
<1>3. \A x, y \in Nat : <<x, y>> \in R <=> x < y
  BY DEF OpToRel
<1>4. out \subseteq Nat
  OBVIOUS
<1> HIDE DEF R
<1>5. PICK x \in out : \A y \in out : ~ (<<y, x>> \in R)
  <2> HIDE DEF out
  <2> QED BY <1>1, <1>2, <1>4, WFMin
<1>6. x \in 1 .. L /\ x - 1 \in 0 .. L - 1
  OBVIOUS
<1>7. x - 1 \notin out
  <2>1. x \in Nat /\ x - 1 \in Nat /\ x - 1 < x
    BY <1>6
  <2>2. <<x - 1, x>> \in R
    BY <1>3, <2>1
  <2> HIDE DEF out
  <2> QED BY <1>5, <2>2
<1> QED BY <1>6, <1>7

\* f holds the states of a loop that starts in a, after 0 to L steps of delta.
IsRun(f, S, a, L, delta) ==
  f \in [0 .. L -> S] /\ f[0] = a /\ \A k \in 1 .. L : f[k] = delta[<<f[k - 1], k>>]

\* There is such an f.
LEMMA RunExists ==
  ASSUME NEW S, NEW a \in S, NEW L \in Nat, NEW delta \in [S \X (1 .. L) -> S]
  PROVE  \E f : IsRun(f, S, a, L, delta)
<1> DEFINE Run(n, f) == f \in [0 .. n -> S] /\ f[0] = a /\ \A k \in 1 .. n : f[k] = delta[<<f[k - 1], k>>]
           T == {n \in 0 .. L : \E f : Run(n, f)}
<1>1. 0 \in T
  <2>1. Run(0, [k \in 0 .. 0 |-> a])
    OBVIOUS
  <2>2. 0 \in 0 .. L
    OBVIOUS
  <2> HIDE DEF Run
  <2> QED BY <2>1, <2>2
<1>2. ASSUME NEW n \in 0 .. L - 1, n \in T PROVE n + 1 \in T
  <2>1. PICK f : Run(n, f)
    BY <1>2
  <2> DEFINE g == [k \in 0 .. n + 1 |-> IF k = n + 1 THEN delta[<<f[n], n + 1>>] ELSE f[k]]
  <2>2. delta[<<f[n], n + 1>>] \in S
    BY <2>1
  <2>3. g \in [0 .. n + 1 -> S] /\ g[0] = a
    BY <2>1, <2>2
  <2>4. ASSUME NEW k \in 1 .. n + 1 PROVE g[k] = delta[<<g[k - 1], k>>]
    <3>1. CASE k = n + 1
      <4>1. k - 1 = n /\ n \in 0 .. n + 1
        BY <3>1
      <4>2. g[k - 1] = f[n]
        BY <4>1
      <4>3. g[k] = delta[<<f[n], n + 1>>]
        BY <3>1
      <4> QED BY <3>1, <4>2, <4>3
    <3>2. CASE k # n + 1
      <4>1. k \in 1 .. n /\ k - 1 \in 0 .. n
        BY <3>2
      <4>2. g[k - 1] = f[k - 1] /\ g[k] = f[k]
        BY <4>1, <3>2
      <4> QED BY <2>1, <4>1, <4>2
    <3> QED BY <3>1, <3>2
  <2>5. Run(n + 1, g)
    BY <2>3, <2>4
  <2>6. n + 1 \in 0 .. L
    OBVIOUS
  <2> HIDE DEF Run, g
  <2> QED BY <2>5, <2>6
<1>3. L \in T
  <2> HIDE DEF T
  <2> QED BY <1>1, <1>2, UpTo
<1> QED BY <1>3 DEF IsRun

\* Whatever the steps of a loop preserve holds of all of its states.
LEMMA RunWithin ==
  ASSUME NEW S, NEW L \in Nat, NEW f, f[0] \in S, \A k \in 1 .. L : f[k - 1] \in S => f[k] \in S
  PROVE  \A k \in 0 .. L : f[k] \in S
<1> DEFINE T == {k \in 0 .. L : f[k] \in S}
<1>1. 0 \in T
  OBVIOUS
<1>2. ASSUME NEW k \in 0 .. L - 1, k \in T PROVE k + 1 \in T
  <2>1. k + 1 \in 1 .. L /\ (k + 1) - 1 = k
    OBVIOUS
  <2>2. f[(k + 1) - 1] \in S
    BY <1>2, <2>1
  <2> QED BY <2>1, <2>2
<1>3. \A k \in 0 .. L : k \in T
  <2> HIDE DEF T
  <2> QED BY <1>1, <1>2, UpTo
<1> QED BY <1>3

-----------------------------------------------------------------------------
\* f holds the states of the lexer's loop, up to L.
IsLexScan(f, L, text, quotes) ==
  f = [k \in 0 .. L |-> IF k = 0 THEN "" ELSE lex(quotes, f[k - 1], text[k])]

\* There is such an f.
LEMMA LexExists ==
  ASSUME NEW quotes, NEW L \in Nat, NEW text
  PROVE  \E f : IsLexScan(f, L, text, quotes)
<1> DEFINE S == quotes \cup {"", "--"}
           start == ""
           delta == [p \in S \X (1 .. L) |-> lex(quotes, p[1], text[p[2]])]
<1>1. start \in S
  OBVIOUS
<1>2. \A st \in S, k \in 1 .. L : lex(quotes, st, text[k]) \in S
  BY DEF lex
<1> HIDE DEF S, start
<1>3. delta \in [S \X (1 .. L) -> S]
  BY <1>2
<1>4. \A st \in S, k \in 1 .. L : delta[<<st, k>>] = lex(quotes, st, text[k])
  OBVIOUS
<1> HIDE DEF delta
<1>5. PICK f : IsRun(f, S, start, L, delta)
  BY <1>1, <1>3, RunExists
<1>6. f \in [0 .. L -> S] /\ f[0] = start /\ \A k \in 1 .. L : f[k] = delta[<<f[k - 1], k>>]
  BY <1>5 DEF IsRun
<1>7. \A k \in 1 .. L : f[k] = lex(quotes, f[k - 1], text[k])
  <2>1. \A k \in 1 .. L : k - 1 \in 0 .. L
    OBVIOUS
  <2> QED BY <1>4, <1>6, <2>1
<1>8. \A k \in 0 .. L : f[k] = IF k = 0 THEN start ELSE lex(quotes, f[k - 1], text[k])
  <2>1. \A k \in 0 .. L : k = 0 \/ k \in 1 .. L
    OBVIOUS
  <2> QED BY <1>6, <1>7, <2>1
<1>9. f = [k \in 0 .. L |-> f[k]]
  BY <1>6
<1>10. IsLexScan(f, L, text, quotes)
  BY <1>8, <1>9, Zenon DEF IsLexScan, start
<1> QED BY <1>10

\* The lexer is in one of the quotes, in a comment or in neither, and goes from one
\* character to the next by lex.
LEMMA LexRun ==
  ASSUME NEW Item, NEW text \in Seq(Item), NEW quotes
  PROVE  LET l == LexScan(text, quotes) IN
         /\ \A k \in 0 .. Len(text) : l[k] \in quotes \cup {"", "--"}
         /\ l[0] = ""
         /\ \A k \in 1 .. Len(text) : l[k] = lex(quotes, l[k - 1], text[k])
<1> DEFINE l == LexScan(text, quotes)
<1>1. Len(text) \in Nat
  OBVIOUS
<1>2. \A k \in 0 .. Len(text) : l[k] = IF k = 0 THEN "" ELSE lex(quotes, l[k - 1], text[k])
  <2>1. \E f : IsLexScan(f, Len(text), text, quotes)
    BY <1>1, LexExists
  <2>2. IsLexScan(l, Len(text), text, quotes)
    BY <2>1, Zenon DEF LexScan, IsLexScan
  <2> HIDE DEF l
  <2> QED BY <2>2, Zenon DEF IsLexScan
<1> HIDE DEF l
<1>3. l[0] = "" /\ \A k \in 1 .. Len(text) : l[k] = lex(quotes, l[k - 1], text[k])
  <2>1. 0 \in 0 .. Len(text) /\ \A k \in 1 .. Len(text) : k \in 0 .. Len(text) /\ k # 0
    BY <1>1
  <2> QED BY <1>2, <2>1
<1>4. \A s \in quotes \cup {"", "--"} : \A c : lex(quotes, s, c) \in quotes \cup {"", "--"}
  BY DEF lex
<1>5. \A k \in 0 .. Len(text) : l[k] \in quotes \cup {"", "--"}
  <2> DEFINE S == quotes \cup {"", "--"}
  <2>1. l[0] \in S /\ \A k \in 1 .. Len(text) : l[k - 1] \in S => l[k] \in S
    BY <1>3, <1>4
  <2> HIDE DEF S
  <2>2. \A k \in 0 .. Len(text) : l[k] \in S
    BY <1>1, <2>1, RunWithin, Zenon
  <2> QED BY <2>2 DEF S
<1> QED BY <1>3, <1>5 DEF l

\* What the lexer says of the positions of a text.
LEMMA LexedAt ==
  ASSUME NEW Item, NEW text \in Seq(Item), NEW quotes
  PROVE  /\ \A i \in 1 .. Len(text) : Lexed(text, quotes)[i] = LexScan(text, quotes)[i - 1]
         /\ \A i : i \in Literal(text, quotes) <=> i \in 1 .. Len(text) /\ LexScan(text, quotes)[i - 1] # ""
         /\ DOMAIN text = 1 .. Len(text)
<1>1. DOMAIN text = 1 .. Len(text)
  OBVIOUS
<1>2. \A i \in 1 .. Len(text) : Lexed(text, quotes)[i] = LexScan(text, quotes)[i - 1]
  BY <1>1, Zenon DEF Lexed
<1> QED BY <1>1, <1>2 DEF Literal

\* What PlainComments says of the single characters.
LEMMA CommentChars ==
  ASSUME NEW Item, NEW text \in Seq(Item), NEW quotes, PlainComments(text, quotes)
  PROVE  \A i \in 1 .. Len(text) :
           LexScan(text, quotes)[i - 1] = "--" => text[i] \notin {"sq", "dq", "bt", "?", "$1", "$2"}
<1>1. \A i \in DOMAIN text :
        Lexed(text, quotes)[i] = "--" => text[i] \notin {"sq", "dq", "bt", "?", "$1", "$2"}
  BY DEF PlainComments, Quotes
<1>2. /\ \A i \in 1 .. Len(text) : Lexed(text, quotes)[i] = LexScan(text, quotes)[i - 1]
      /\ DOMAIN text = 1 .. Len(text)
  BY LexedAt, Zenon
<1> QED BY <1>1, <1>2

\* A scanner takes a comment for text like any other.
Seen(quote) == IF quote = "--" THEN "" ELSE quote

-----------------------------------------------------------------------------
\* The states of scanParams; what it writes are items.
ParamsState(Item) == [quote : {"", "sq", "dq"}, skip : BOOLEAN, max : 0 .. 2, out : Seq(Item)]

\* The placeholders that scanParams replaces in a state.
Replaces(st, c) == ~st.skip /\ st.quote = "" /\ c \in {"$1", "$2"}

\* What it puts there.
Inlined(args, n) == IF n <= Len(args) THEN args[n] ELSE "NULL"

\* Append adds one item at the end.
LEMMA Appended ==
  ASSUME NEW S, NEW q \in Seq(S), NEW e \in S
  PROVE  /\ Append(q, e) \in Seq(S) /\ Len(Append(q, e)) = Len(q) + 1
         /\ Append(q, e)[Len(q) + 1] = e
         /\ \A j \in 1 .. Len(q) : Append(q, e)[j] = q[j]
  OBVIOUS

\* What IndexOf says of the two placeholders.
LEMMA Indices ==
  /\ DOMAIN IndexOf = {"$1", "$2"} /\ IndexOf["$1"] = 1 /\ IndexOf["$2"] = 2
  /\ \A c \in {"$1", "$2"} : IndexOf[c] \in 1 .. 2
<1>1. DOMAIN IndexOf = {"$1", "$2"} /\ IndexOf["$1"] = 1 /\ IndexOf["$2"] = 2
  BY DEF IndexOf
<1> QED BY <1>1

\* The state n after the character c in the state st; doubled says that the next
\* character is the same.
ParamsAfter(args, st, c, doubled, n) ==
  /\ n.out = Append(st.out, IF Replaces(st, c) THEN Inlined(args, IndexOf[c]) ELSE c)
  /\ n.max = IF Replaces(st, c) /\ IndexOf[c] > st.max THEN IndexOf[c] ELSE st.max
  /\ n.skip <=> ~st.skip /\ st.quote # "" /\ c = st.quote /\ doubled
  /\ n.quote = IF st.skip THEN st.quote
               ELSE IF st.quote # "" THEN IF c = st.quote /\ ~doubled THEN "" ELSE st.quote
               ELSE IF c \in {"sq", "dq"} THEN c ELSE ""

\* The loop body of scanParams, case by case, goes to that state.
LEMMA ParamsStep ==
  ASSUME NEW Item, PgChars \cup {"NULL"} \subseteq Item, NEW args \in Seq(Item),
         NEW text, NEW i \in Nat, text[i] \in PgChars, NEW st \in ParamsState(Item)
  PROVE  /\ scanParams(text, args, st, i) \in ParamsState(Item)
         /\ ParamsAfter(args, st, text[i], i < Len(text) /\ text[i + 1] = text[i],
                        scanParams(text, args, st, i))
<1> DEFINE n == scanParams(text, args, st, i)
           c == text[i]
           doubled == i < Len(text) /\ text[i + 1] = c
           copied == [st EXCEPT !.out = Append(@, c), !.skip = FALSE]
           Goal == n \in ParamsState(Item) /\ ParamsAfter(args, st, c, doubled, n)
<1> SUFFICES Goal
  OBVIOUS
<1>0. c \in PgChars
  OBVIOUS
<1>1. st.quote \in {"", "sq", "dq"} /\ st.skip \in BOOLEAN /\ st.max \in 0 .. 2 /\ st.out \in Seq(Item)
  BY DEF ParamsState
<1>2. c \in Item /\ Append(st.out, c) \in Seq(Item)
  BY <1>1, Appended DEF PgChars
<1>3. /\ copied \in ParamsState(Item)
      /\ copied.quote = st.quote /\ copied.skip = FALSE /\ copied.max = st.max
      /\ copied.out = Append(st.out, c)
  BY <1>2 DEF ParamsState
<1>4. CASE st.skip
  <2>1. n = copied
    BY <1>4 DEF scanParams
  <2> HIDE DEF n, copied, c
  <2> QED BY <1>1, <1>3, <1>4, <2>1 DEF Replaces, ParamsAfter
<1>5. CASE ~st.skip /\ st.quote # "" /\ c # st.quote
  <2>1. n = copied
    BY <1>5 DEF scanParams
  <2> HIDE DEF n, copied, c
  <2> QED BY <1>1, <1>3, <1>5, <2>1 DEF Replaces, ParamsAfter
<1>6. CASE ~st.skip /\ st.quote # "" /\ c = st.quote /\ doubled
  <2>1. n = [copied EXCEPT !.skip = TRUE]
    BY <1>6 DEF scanParams
  <2> HIDE DEF n, copied, c, doubled
  <2>2. /\ n \in ParamsState(Item)
        /\ n.quote = st.quote /\ n.skip = TRUE /\ n.max = st.max /\ n.out = Append(st.out, c)
    BY <1>3, <2>1 DEF ParamsState
  <2> QED BY <1>1, <1>6, <2>2 DEF Replaces, ParamsAfter
<1>7. CASE ~st.skip /\ st.quote # "" /\ c = st.quote /\ ~doubled
  <2>1. n = [copied EXCEPT !.quote = ""]
    BY <1>7 DEF scanParams
  <2> HIDE DEF n, copied, c, doubled
  <2>2. /\ n \in ParamsState(Item)
        /\ n.quote = "" /\ n.skip = FALSE /\ n.max = st.max /\ n.out = Append(st.out, c)
    BY <1>3, <2>1 DEF ParamsState
  <2> QED BY <1>1, <1>7, <2>2 DEF Replaces, ParamsAfter
<1>8. CASE ~st.skip /\ st.quote = "" /\ c \in {"sq", "dq"}
  <2>0. c \notin DOMAIN IndexOf
    BY <1>8 DEF IndexOf
  <2>1. n = [copied EXCEPT !.quote = c]
    <3> HIDE DEF copied
    <3> QED BY <1>8, <2>0 DEF scanParams, copied
  <2> HIDE DEF n, copied, c, doubled
  <2>2. /\ n \in ParamsState(Item)
        /\ n.quote = c /\ n.skip = FALSE /\ n.max = st.max /\ n.out = Append(st.out, c)
    BY <1>3, <1>8, <2>1 DEF ParamsState
  <2>3. ~Replaces(st, c)
    BY <1>8 DEF Replaces
  <2> QED BY <1>1, <1>8, <2>2, <2>3 DEF ParamsAfter
<1>9. CASE ~st.skip /\ st.quote = "" /\ c \in {"$1", "$2"}
  <2> DEFINE item == Inlined(args, IndexOf[c])
             max == IF IndexOf[c] > st.max THEN IndexOf[c] ELSE st.max
  <2>1. IndexOf[c] \in 1 .. 2 /\ c \in DOMAIN IndexOf /\ c \notin {"sq", "dq"} /\ Replaces(st, c)
    <3> HIDE DEF c
    <3> QED BY <1>9, Indices DEF Replaces
  <2>2. item \in Item
    <3>1. IndexOf[c] <= Len(args) => args[IndexOf[c]] \in Item
      BY <2>1
    <3> QED BY <3>1 DEF Inlined
  <2>3. n = [st EXCEPT !.out = Append(@, item), !.max = max]
    BY <1>9, <2>1 DEF scanParams, Inlined
  <2>4. Append(st.out, item) \in Seq(Item)
    BY <1>1, <2>2, Appended
  <2>5. max \in 0 .. 2
    <3>1. \A a \in 0 .. 2, b \in 1 .. 2 : (IF b > a THEN b ELSE a) \in 0 .. 2
      OBVIOUS
    <3> HIDE DEF c
    <3> QED BY <1>1, <2>1, <3>1
  <2> HIDE DEF n, max, item, c, doubled
  <2>6. /\ n \in ParamsState(Item)
        /\ n.quote = st.quote /\ n.skip = st.skip /\ n.max = max /\ n.out = Append(st.out, item)
    BY <2>3, <2>4, <2>5 DEF ParamsState
  <2>7. n.max = IF IndexOf[c] > st.max THEN IndexOf[c] ELSE st.max
    BY <2>6 DEF max
  <2>8. n.out = Append(st.out, Inlined(args, IndexOf[c]))
    BY <2>6 DEF item
  <2> QED BY <1>1, <1>9, <2>1, <2>6, <2>7, <2>8 DEF ParamsAfter
<1>10. CASE ~st.skip /\ st.quote = "" /\ c \in {"x", "--", "nl"}
  <2>1. n = copied
    BY <1>10 DEF scanParams, IndexOf
  <2>2. ~Replaces(st, c)
    BY <1>10 DEF Replaces
  <2> HIDE DEF n, copied, c
  <2> QED BY <1>1, <1>3, <1>10, <2>1, <2>2 DEF ParamsAfter
<1> HIDE DEF Goal, c
<1> QED BY <1>0, <1>1, <1>4, <1>5, <1>6, <1>7, <1>8, <1>9, <1>10 DEF PgChars

\* f holds the states of the loop of scanParams, up to L.
IsParamsScan(f, L, text, args) ==
  f = [k \in 0 .. L |-> IF k = 0 THEN [quote |-> "", skip |-> FALSE, max |-> 0, out |-> <<>>]
                       ELSE scanParams(text, args, f[k - 1], k)]

\* There is such an f.
LEMMA ParamsExists ==
  ASSUME NEW Item, PgChars \cup {"NULL"} \subseteq Item, NEW args \in Seq(Item),
         NEW L \in Nat, NEW text, \A k \in 1 .. L : text[k] \in PgChars
  PROVE  \E f : IsParamsScan(f, L, text, args)
<1> DEFINE S == ParamsState(Item)
           start == [quote |-> "", skip |-> FALSE, max |-> 0, out |-> <<>>]
           delta == [p \in S \X (1 .. L) |-> scanParams(text, args, p[1], p[2])]
<1>1. start \in S
  BY DEF ParamsState
<1>2. \A st \in S, k \in 1 .. L : scanParams(text, args, st, k) \in S
  BY ParamsStep
<1> HIDE DEF S, start
<1>3. delta \in [S \X (1 .. L) -> S]
  BY <1>2
<1>4. \A st \in S, k \in 1 .. L : delta[<<st, k>>] = scanParams(text, args, st, k)
  OBVIOUS
<1> HIDE DEF delta
<1>5. PICK f : IsRun(f, S, start, L, delta)
  BY <1>1, <1>3, RunExists
<1>6. f \in [0 .. L -> S] /\ f[0] = start /\ \A k \in 1 .. L : f[k] = delta[<<f[k - 1], k>>]
  BY <1>5 DEF IsRun
<1>7. \A k \in 1 .. L : f[k] = scanParams(text, args, f[k - 1], k)
  <2>1. \A k \in 1 .. L : k - 1 \in 0 .. L
    OBVIOUS
  <2> QED BY <1>4, <1>6, <2>1
<1>8. \A k \in 0 .. L : f[k] = IF k = 0 THEN start ELSE scanParams(text, args, f[k - 1], k)
  <2>1. \A k \in 0 .. L : k = 0 \/ k \in 1 .. L
    OBVIOUS
  <2> QED BY <1>6, <1>7, <2>1
<1>9. f = [k \in 0 .. L |-> f[k]]
  BY <1>6
<1>10. IsParamsScan(f, L, text, args)
  BY <1>8, <1>9, Zenon DEF IsParamsScan, start
<1> QED BY <1>10

\* The states of scanParams go from one character to the next by its loop body.
LEMMA ParamsRun ==
  ASSUME NEW Item, PgChars \cup {"NULL"} \subseteq Item, NEW args \in Seq(Item),
         NEW text \in Seq(PgChars)
  PROVE  LET s == ParamsScan(text, args) IN
         /\ \A k \in 0 .. Len(text) : s[k] \in ParamsState(Item)
         /\ s[0] = [quote |-> "", skip |-> FALSE, max |-> 0, out |-> <<>>]
         /\ \A k \in 1 .. Len(text) : s[k] = scanParams(text, args, s[k - 1], k)
<1> DEFINE s == ParamsScan(text, args)
           S == ParamsState(Item)
           start == [quote |-> "", skip |-> FALSE, max |-> 0, out |-> <<>>]
<1>1. Len(text) \in Nat /\ \A k \in 1 .. Len(text) : text[k] \in PgChars
  OBVIOUS
<1>2. \A k \in 0 .. Len(text) : s[k] = IF k = 0 THEN start ELSE scanParams(text, args, s[k - 1], k)
  <2>1. \E f : IsParamsScan(f, Len(text), text, args)
    BY <1>1, ParamsExists
  <2>2. IsParamsScan(s, Len(text), text, args)
    BY <2>1, Zenon DEF ParamsScan, IsParamsScan
  <2> HIDE DEF s
  <2> QED BY <2>2, Zenon DEF IsParamsScan
<1>3. start \in S
  BY DEF ParamsState
<1>4. \A st \in S, k \in 1 .. Len(text) : scanParams(text, args, st, k) \in S
  BY <1>1, ParamsStep
<1> HIDE DEF s, start, S
<1>5. s[0] = start /\ \A k \in 1 .. Len(text) : s[k] = scanParams(text, args, s[k - 1], k)
  <2>1. 0 \in 0 .. Len(text) /\ \A k \in 1 .. Len(text) : k \in 0 .. Len(text) /\ k # 0
    BY <1>1
  <2> QED BY <1>2, <2>1
<1>6. s[0] \in S /\ \A k \in 1 .. Len(text) : s[k - 1] \in S => s[k] \in S
  BY <1>3, <1>4, <1>5
<1>7. \A k \in 0 .. Len(text) : s[k] \in S
  BY <1>1, <1>6, RunWithin, Zenon
<1> QED BY <1>5, <1>7 DEF s, start, S

\* The placeholders, for DuckDB.
Placeholder(text, j) == LexScan(text, {"sq", "dq"})[j - 1] = "" /\ text[j] \in {"$1", "$2"}

\* scanParams is inside the literal that the lexer is inside of, except halfway
\* through a doubled quote, which for the lexer ends a literal and begins another.
SameLiteral(text, k, st) ==
  LET quote == LexScan(text, {"sq", "dq"})[k] IN
  /\ st.skip => quote = "" /\ k < Len(text) /\ st.quote # "" /\ text[k + 1] = st.quote
  /\ ~st.skip => st.quote = Seen(quote)

\* It has replaced the placeholders among the first k characters,
Replaced(text, args, k, st) ==
  /\ Len(st.out) = k
  /\ \A j \in 1 .. k :
       st.out[j] = IF Placeholder(text, j) THEN Inlined(args, IndexOf[text[j]]) ELSE text[j]

\* and max is the greatest index among them.
Greatest(text, k, st) ==
  /\ \A j \in 1 .. k : Placeholder(text, j) => IndexOf[text[j]] <= st.max
  /\ st.max > 0 => \E j \in 1 .. k : Placeholder(text, j) /\ IndexOf[text[j]] = st.max

\* All three hold after every character.
LEMMA ParamsMatch ==
  ASSUME NEW Item, PgChars \cup {"NULL"} \subseteq Item, NEW args \in Seq(Item),
         NEW text \in Seq(PgChars), PlainComments(text, {"sq", "dq"}), NEW k \in 0 .. Len(text)
  PROVE  LET st == ParamsScan(text, args)[k] IN
         SameLiteral(text, k, st) /\ Replaced(text, args, k, st) /\ Greatest(text, k, st)
<1> DEFINE s == ParamsScan(text, args)
           l == LexScan(text, {"sq", "dq"})
           Good(j) == SameLiteral(text, j, s[j]) /\ Replaced(text, args, j, s[j]) /\ Greatest(text, j, s[j])
           T == {j \in 0 .. Len(text) : Good(j)}
<1>1. Len(text) \in Nat /\ \A j \in 1 .. Len(text) : text[j] \in PgChars
  OBVIOUS
<1>2. /\ \A j \in 0 .. Len(text) : s[j] \in ParamsState(Item)
      /\ s[0] = [quote |-> "", skip |-> FALSE, max |-> 0, out |-> <<>>]
      /\ \A j \in 1 .. Len(text) : s[j] = scanParams(text, args, s[j - 1], j)
  BY ParamsRun
<1>3. /\ \A j \in 0 .. Len(text) : l[j] \in {"sq", "dq", "", "--"}
      /\ l[0] = ""
      /\ \A j \in 1 .. Len(text) : /\ l[j] = lex({"sq", "dq"}, l[j - 1], text[j])
                                   /\ l[j - 1] = "--" => text[j] \notin {"sq", "dq", "$1", "$2"}
  <2>1. /\ \A j \in 0 .. Len(text) : l[j] \in {"sq", "dq"} \cup {"", "--"}
        /\ l[0] = ""
        /\ \A j \in 1 .. Len(text) : l[j] = lex({"sq", "dq"}, l[j - 1], text[j])
    BY LexRun, Zenon
  <2>2. \A j \in 1 .. Len(text) : l[j - 1] = "--" => text[j] \notin {"sq", "dq", "bt", "?", "$1", "$2"}
    BY CommentChars, Zenon
  <2> HIDE DEF l
  <2> QED BY <2>1, <2>2
<1> HIDE DEF s
<1>4. 0 \in T
  <2> DEFINE start == [quote |-> "", skip |-> FALSE, max |-> 0, out |-> <<>>]
  <2>0. start.quote = "" /\ start.skip = FALSE /\ start.max = 0 /\ start.out = <<>>
    OBVIOUS
  <2>1. s[0].quote = "" /\ s[0].skip = FALSE /\ s[0].max = 0 /\ s[0].out = <<>>
    <3>1. s[0] = start
      BY <1>2
    <3> HIDE DEF start
    <3> QED BY <2>0, <3>1
  <2>2. SameLiteral(text, 0, s[0])
    BY <1>3, <2>1 DEF SameLiteral, Seen
  <2>3. Replaced(text, args, 0, s[0]) /\ Greatest(text, 0, s[0])
    <3>1. Len(s[0].out) = 0 /\ ~(s[0].max > 0) /\ \A j : j \notin 1 .. 0
      <4>1. Len(<<>>) = 0 /\ ~(0 > 0) /\ \A j : j \notin 1 .. 0
        OBVIOUS
      <4> QED BY <2>1, <4>1
    <3> QED BY <3>1 DEF Replaced, Greatest
  <2>4. 0 \in 0 .. Len(text)
    BY <1>1
  <2> QED BY <2>2, <2>3, <2>4
<1>5. ASSUME NEW j \in 0 .. Len(text) - 1, j \in T PROVE j + 1 \in T
  <2> DEFINE c == text[j + 1]
             doubled == j + 1 < Len(text) /\ text[(j + 1) + 1] = c
             st == s[j]
             n == s[j + 1]
  <2>1. j \in Nat /\ j + 1 \in 1 .. Len(text) /\ (j + 1) - 1 = j /\ j \in 0 .. Len(text) /\ j + 1 \in 0 .. Len(text)
    BY <1>1
  <2>2. c \in PgChars /\ st \in ParamsState(Item) /\ n \in ParamsState(Item)
    BY <1>1, <1>2, <2>1
  <2>3. ParamsAfter(args, st, c, doubled, n)
    <3>1. n = scanParams(text, args, st, j + 1)
      BY <1>2, <2>1
    <3> QED BY <2>1, <2>2, <3>1, ParamsStep
  <2>4. /\ l[j] \in {"sq", "dq", "", "--"} /\ l[j + 1] = lex({"sq", "dq"}, l[j], c)
        /\ l[j] = "--" => c \notin {"sq", "dq", "$1", "$2"}
    BY <1>3, <2>1
  <2>5. /\ st.skip \in BOOLEAN /\ st.quote \in {"", "sq", "dq"} /\ st.max \in 0 .. 2 /\ st.out \in Seq(Item)
        /\ n.skip \in BOOLEAN /\ n.out \in Seq(Item)
    BY <2>2 DEF ParamsState
  <2>6. SameLiteral(text, j, st) /\ Replaced(text, args, j, st) /\ Greatest(text, j, st)
    BY <1>5
  <2>7. Replaces(st, c) <=> Placeholder(text, j + 1)
    <3>1. Placeholder(text, j + 1) <=> l[j] = "" /\ c \in {"$1", "$2"}
      BY <2>1 DEF Placeholder
    <3>2. (st.skip => l[j] = "" /\ st.quote # "" /\ c = st.quote) /\ (~st.skip => st.quote = Seen(l[j]))
      BY <2>6 DEF SameLiteral
    <3> HIDE DEF l, c, st
    <3> QED BY <2>4, <2>5, <3>1, <3>2 DEF Replaces, Seen
  <2>8. SameLiteral(text, j + 1, n)
    <3>1. (st.skip => l[j] = "" /\ st.quote # "" /\ c = st.quote) /\ (~st.skip => st.quote = Seen(l[j]))
      BY <2>6 DEF SameLiteral
    <3>2. /\ n.skip <=> ~st.skip /\ st.quote # "" /\ c = st.quote /\ doubled
          /\ n.quote = IF st.skip THEN st.quote
                       ELSE IF st.quote # "" THEN IF c = st.quote /\ ~doubled THEN "" ELSE st.quote
                       ELSE IF c \in {"sq", "dq"} THEN c ELSE ""
      BY <2>3 DEF ParamsAfter
    <3>3. /\ n.skip => l[j + 1] = "" /\ doubled /\ n.quote # "" /\ c = n.quote
          /\ ~n.skip => n.quote = Seen(l[j + 1])
      <4> HIDE DEF l, c, st, doubled, n
      <4> QED BY <2>4, <2>5, <3>1, <3>2 DEF lex, Closing, Seen
    <3> QED BY <3>3 DEF SameLiteral
  <2>9. Replaced(text, args, j + 1, n)
    <3> DEFINE item == IF Replaces(st, c) THEN Inlined(args, IndexOf[c]) ELSE c
    <3>1. n.out = Append(st.out, item) /\ Len(st.out) = j
      BY <2>3, <2>6 DEF ParamsAfter, Replaced
    <3>2. item \in Item
      <4>1. c \in Item
        BY <2>2
      <4>2. Replaces(st, c) => IndexOf[c] \in 1 .. 2
        BY Indices DEF Replaces
      <4>3. Replaces(st, c) => Inlined(args, IndexOf[c]) \in Item
        BY <4>2 DEF Inlined
      <4> QED BY <4>1, <4>3
    <3>3. Len(n.out) = j + 1 /\ n.out[j + 1] = item /\ \A i \in 1 .. j : n.out[i] = st.out[i]
      <4> HIDE DEF item, n, st
      <4>1. st.out \in Seq(Item)
        BY <2>5
      <4>2. /\ Len(Append(st.out, item)) = Len(st.out) + 1
            /\ Append(st.out, item)[Len(st.out) + 1] = item
            /\ \A i \in 1 .. Len(st.out) : Append(st.out, item)[i] = st.out[i]
        BY <4>1, <3>2, Appended
      <4> QED BY <3>1, <4>2
    <3>4. \A i \in 1 .. j + 1 : i \in 1 .. j \/ i = j + 1
      BY <2>1
    <3> QED BY <2>6, <2>7, <3>3, <3>4 DEF Replaced
  <2>10. Greatest(text, j + 1, n)
    <3>1. n.max = IF Replaces(st, c) /\ IndexOf[c] > st.max THEN IndexOf[c] ELSE st.max
      BY <2>3 DEF ParamsAfter
    <3>2. \A i \in 1 .. j + 1 : i \in 1 .. j \/ i = j + 1
      BY <2>1
    <3>3. Replaces(st, c) => IndexOf[c] \in 1 .. 2
      BY Indices DEF Replaces
    <3>4. st.max <= n.max /\ (Replaces(st, c) => IndexOf[c] <= n.max)
      <4> HIDE DEF c, st, n
      <4>1. \A a \in 0 .. 2 : a <= a
        OBVIOUS
      <4>2. \A a \in 0 .. 2, b \in 1 .. 2 : b <= b /\ (b > a => a <= b) /\ (~(b > a) => b <= a)
        OBVIOUS
      <4>3. CASE Replaces(st, c) /\ IndexOf[c] > st.max
        <5>1. n.max = IndexOf[c]
          BY <3>1, <4>3
        <5> QED BY <2>5, <3>3, <4>2, <4>3, <5>1
      <4>4. CASE ~(Replaces(st, c) /\ IndexOf[c] > st.max)
        <5>1. n.max = st.max
          BY <3>1, <4>4
        <5> QED BY <2>5, <3>3, <4>1, <4>2, <4>4, <5>1
      <4> QED BY <4>3, <4>4
    <3>5. \A i \in 1 .. j + 1 : Placeholder(text, i) => IndexOf[text[i]] <= n.max
      <4> SUFFICES ASSUME NEW i \in 1 .. j + 1, Placeholder(text, i) PROVE IndexOf[text[i]] <= n.max
        OBVIOUS
      <4>1. CASE i = j + 1
        BY <2>7, <3>4, <4>1
      <4>2. CASE i \in 1 .. j
        <5>1. IndexOf[text[i]] \in Nat /\ st.max \in Nat /\ n.max \in Nat
          <6>1. text[i] \in {"$1", "$2"}
            BY DEF Placeholder
          <6>2. IndexOf[text[i]] \in 1 .. 2 /\ st.max \in 0 .. 2 /\ n.max \in 0 .. 2
            BY <2>2, <6>1, Indices DEF ParamsState
          <6>3. \A a \in 0 .. 2 : a \in Nat
            OBVIOUS
          <6>4. \A a \in 1 .. 2 : a \in Nat
            OBVIOUS
          <6> QED BY <6>2, <6>3, <6>4
        <5>2. IndexOf[text[i]] <= st.max
          BY <2>6, <4>2 DEF Greatest
        <5>3. \A a, b, m \in Nat : a <= b /\ b <= m => a <= m
          OBVIOUS
        <5> HIDE DEF st, n
        <5> QED BY <3>4, <5>1, <5>2, <5>3
      <4> QED BY <3>2, <4>1, <4>2
    <3>6. n.max > 0 => \E i \in 1 .. j + 1 : Placeholder(text, i) /\ IndexOf[text[i]] = n.max
      <4>1. CASE Replaces(st, c) /\ IndexOf[c] > st.max
        <5>1. j + 1 \in 1 .. j + 1
          BY <2>1
        <5> QED BY <2>7, <3>1, <4>1, <5>1
      <4>2. CASE ~(Replaces(st, c) /\ IndexOf[c] > st.max)
        <5>1. n.max = st.max
          BY <3>1, <4>2
        <5>2. \A i \in 1 .. j : i \in 1 .. j + 1
          BY <2>1
        <5> QED BY <2>6, <5>1, <5>2 DEF Greatest
      <4> QED BY <4>1, <4>2
    <3> QED BY <3>5, <3>6 DEF Greatest
  <2> QED BY <2>1, <2>8, <2>9, <2>10
<1>6. \A j \in 0 .. Len(text) : j \in T
  <2> HIDE DEF T
  <2> QED BY <1>1, <1>4, <1>5, UpTo
<1> QED BY <1>6 DEF s

-----------------------------------------------------------------------------
\* A prefix of a sequence.
LEMMA Prefix ==
  ASSUME NEW S, NEW q \in Seq(S), NEW n \in 0 .. Len(q)
  PROVE  /\ SubSeq(q, 1, n) \in Seq(S) /\ Len(SubSeq(q, 1, n)) = n
         /\ \A i \in 1 .. n : SubSeq(q, 1, n)[i] = q[i]
  OBVIOUS

\* A sequence is the function of its positions with the same values.
LEMMA SameItems ==
  ASSUME NEW S, NEW q \in Seq(S), NEW f, f = [i \in 1 .. Len(q) |-> f[i]],
         \A i \in 1 .. Len(q) : q[i] = f[i]
  PROVE  q = f
<1>1. q = [i \in 1 .. Len(q) |-> q[i]]
  OBVIOUS
<1>2. [i \in 1 .. Len(q) |-> q[i]] = [i \in 1 .. Len(q) |-> f[i]]
  OBVIOUS
<1> QED BY <1>1, <1>2, Zenon

\* What a Postgres client means, item by item.
LEMMA MeantPg ==
  ASSUME NEW text \in Seq(PgChars)
  PROVE  LET m == Meant(text, {"sq", "dq"}) IN
         /\ m = [i \in 1 .. Len(text) |-> m[i]]
         /\ \A i \in 1 .. Len(text) :
              m[i] = IF Placeholder(text, i) THEN Bound[IndexOf[text[i]]] ELSE text[i]
<1> DEFINE m == Meant(text, {"sq", "dq"})
           at == Lexed(text, {"sq", "dq"})
           nth(i) == Cardinality({j \in 1 .. i : at[j] = "" /\ text[j] = "?"})
           item(i) == CASE at[i] = "" /\ text[i] = "?" -> Bound[nth(i)]
                        [] at[i] = "" /\ text[i] \in DOMAIN IndexOf -> Bound[IndexOf[text[i]]]
                        [] at[i] # "sq" /\ text[i] = "bt" -> "dq"
                        [] OTHER -> text[i]
<1>1. DOMAIN text = 1 .. Len(text) /\ \A i \in 1 .. Len(text) : text[i] \in PgChars
  OBVIOUS
<1>2. m = [i \in 1 .. Len(text) |-> item(i)]
  BY <1>1, Zenon DEF Meant
<1>3. ASSUME NEW i \in 1 .. Len(text)
      PROVE  item(i) = IF Placeholder(text, i) THEN Bound[IndexOf[text[i]]] ELSE text[i]
  <2>1. text[i] # "?" /\ text[i] # "bt"
    BY <1>1 DEF PgChars
  <2>2. Placeholder(text, i) <=> at[i] = "" /\ text[i] \in DOMAIN IndexOf
    <3>1. at[i] = LexScan(text, {"sq", "dq"})[i - 1]
      BY LexedAt
    <3> HIDE DEF at
    <3> QED BY <3>1, Indices DEF Placeholder
  <2> HIDE DEF nth, at
  <2> QED BY <2>1, <2>2
<1>4. \A i \in 1 .. Len(text) : m[i] = item(i)
  <2> HIDE DEF m, item
  <2> QED BY <1>2
<1>5. m = [i \in 1 .. Len(text) |-> m[i]]
  <2> HIDE DEF m, item
  <2> QED BY <1>2, <1>4
<1> HIDE DEF item, m
<1> QED BY <1>3, <1>4, <1>5 DEF m

\* maxParamIndex finds no more placeholders than there are.
LEMMA ParamsTold ==
  ASSUME NEW text \in Seq(PgChars)
  PROVE  maxParamIndex(text) \in 0 .. 2
<1> DEFINE Item == PgChars \cup {"NULL"}
<1>1. Len(text) \in 0 .. Len(text) /\ <<>> \in Seq(Item) /\ PgChars \cup {"NULL"} \subseteq Item
  OBVIOUS
<1> HIDE DEF Item
<1>2. ParamsScan(text, <<>>)[Len(text)] \in ParamsState(Item)
  BY <1>1, ParamsRun
<1> QED BY <1>2 DEF ParamsState, maxParamIndex

\* substituteParams and maxParamIndex on a text of any length whose comments hold
\* no quote and no placeholder: with as many values bound as the text is said to
\* need, each ends up where the client meant it, and none in a literal.
THEOREM PgTextsInPlace ==
  ASSUME NEW text \in Seq(PgChars), PlainComments(text, {"sq", "dq"})
  PROVE  LET told == maxParamIndex(text)
             final == substituteParams(text, SubSeq(Bound, 1, told))
         IN told \in 0 .. 2 /\ PgInPlace(text, told, final)
<1> DEFINE told == maxParamIndex(text)
           args == SubSeq(Bound, 1, told)
           final == substituteParams(text, args)
           Item == PgChars \cup {"NULL"} \cup {Bound[i] : i \in DOMAIN Bound}
           L == Len(text)
<1>1. L \in 0 .. L /\ <<>> \in Seq(Item) /\ PgChars \cup {"NULL"} \subseteq Item /\ Bound \in Seq(Item)
  BY BoundAssumption
<1>2. told \in 0 .. 2 /\ Greatest(text, L, ParamsScan(text, <<>>)[L])
  <2> HIDE DEF Item
  <2>1. ParamsScan(text, <<>>)[L] \in ParamsState(Item)
    BY <1>1, ParamsRun
  <2> QED BY <1>1, <2>1, ParamsMatch DEF ParamsState, maxParamIndex
<1>3. args \in Seq(Item) /\ Len(args) = told /\ \A i \in 1 .. told : args[i] = Bound[i]
  <2>1. told \in 0 .. Len(Bound)
    BY <1>2, BoundAssumption
  <2> HIDE DEF Item, told
  <2> QED BY <1>1, <2>1, Prefix
<1>4. final \in Seq(Item) /\ Replaced(text, args, L, ParamsScan(text, args)[L])
  <2> HIDE DEF Item, args
  <2>1. ParamsScan(text, args)[L] \in ParamsState(Item)
    BY <1>1, <1>3, ParamsRun
  <2> QED BY <1>1, <1>3, <2>1, ParamsMatch DEF ParamsState, substituteParams
<1>5. /\ \A i \in 1 .. L : Placeholder(text, i) => IndexOf[text[i]] <= told
      /\ told > 0 => \E i \in 1 .. L : Placeholder(text, i) /\ IndexOf[text[i]] = told
  BY <1>2 DEF Greatest, maxParamIndex
<1>6. /\ Len(final) = L
      /\ \A i \in 1 .. L :
           final[i] = IF Placeholder(text, i) THEN Inlined(args, IndexOf[text[i]]) ELSE text[i]
  BY <1>4 DEF Replaced, substituteParams
<1>7. \A i \in 1 .. L : Placeholder(text, i) => Inlined(args, IndexOf[text[i]]) = Bound[IndexOf[text[i]]]
  <2> SUFFICES ASSUME NEW i \in 1 .. L, Placeholder(text, i)
               PROVE  Inlined(args, IndexOf[text[i]]) = Bound[IndexOf[text[i]]]
    OBVIOUS
  <2>1. IndexOf[text[i]] \in 1 .. 2 /\ IndexOf[text[i]] <= told
    BY <1>5, Indices DEF Placeholder
  <2>2. \A n \in 1 .. 2, t \in 0 .. 2 : n <= t => n \in 1 .. t
    OBVIOUS
  <2>3. IndexOf[text[i]] \in 1 .. told
    <3> HIDE DEF told
    <3> QED BY <1>2, <2>1, <2>2
  <2> HIDE DEF told, args
  <2> QED BY <1>3, <2>1, <2>3 DEF Inlined
<1>8. final = Meant(text, {"sq", "dq"})
  <2> HIDE DEF final, Item, told, args
  <2>1. \A i \in 1 .. Len(final) : final[i] = Meant(text, {"sq", "dq"})[i]
    BY <1>6, <1>7, MeantPg
  <2>2. Meant(text, {"sq", "dq"}) = [i \in 1 .. Len(final) |-> Meant(text, {"sq", "dq"})[i]]
    BY <1>6, MeantPg, Zenon
  <2> QED BY <1>4, <2>1, <2>2, SameItems, Zenon
<1>9. \A i : i \in Open(text, {"sq", "dq"}) /\ text[i] \in {"$1", "$2"}
              <=> i \in 1 .. L /\ Placeholder(text, i)
  <2>1. /\ DOMAIN text = 1 .. L
        /\ \A i : i \in Literal(text, {"sq", "dq"}) <=> i \in 1 .. L /\ LexScan(text, {"sq", "dq"})[i - 1] # ""
    BY LexedAt, Zenon
  <2> QED BY <2>1 DEF Placeholder, Open
<1>10. \A n \in {"$1", "$2"} :
         (\E i \in Open(text, {"sq", "dq"}) : text[i] = n) => told >= IndexOf[n]
  <2> SUFFICES ASSUME NEW n \in {"$1", "$2"}, NEW i \in Open(text, {"sq", "dq"}), text[i] = n
               PROVE  told >= IndexOf[n]
    OBVIOUS
  <2>1. IndexOf[n] <= told /\ IndexOf[n] \in 1 .. 2
    BY <1>5, <1>9, Indices
  <2>2. \A a \in 1 .. 2, b \in 0 .. 2 : a <= b => b >= a
    OBVIOUS
  <2> HIDE DEF told
  <2> QED BY <1>2, <2>1, <2>2
<1>11. told > 0 => \E i \in Open(text, {"sq", "dq"}) :
                    text[i] \in DOMAIN IndexOf /\ IndexOf[text[i]] = told
  <2> SUFFICES ASSUME told > 0
               PROVE  \E i \in Open(text, {"sq", "dq"}) :
                        text[i] \in DOMAIN IndexOf /\ IndexOf[text[i]] = told
    OBVIOUS
  <2> HIDE DEF told
  <2>1. PICK i \in 1 .. L : Placeholder(text, i) /\ IndexOf[text[i]] = told
    BY <1>5
  <2>2. i \in Open(text, {"sq", "dq"}) /\ text[i] \in {"$1", "$2"}
    BY <1>9, <2>1
  <2> QED BY <2>1, <2>2, Indices
<1> HIDE DEF told, final
<1>12. told \in 0 .. 2 /\ PgInPlace(text, told, final)
  BY <1>2, <1>8, <1>10, <1>11 DEF PgInPlace
<1> QED BY <1>12 DEF told, final

-----------------------------------------------------------------------------
\* The states of substituteArgs.
ArgsState(Item) == [quote : Quotes \cup {""}, esc : BOOLEAN, ai : Nat, out : Seq(Item)]

\* Whether it takes the next value in a state.
Takes(args, st, c) == ~st.esc /\ st.quote = "" /\ c = "?" /\ st.ai < Len(args)

\* The state n after the character c in the state st.
ArgsAfter(args, st, c, n) ==
  /\ n.out = Append(st.out, IF Takes(args, st, c) THEN args[st.ai + 1] ELSE c)
  /\ n.ai = IF Takes(args, st, c) THEN st.ai + 1 ELSE st.ai
  /\ n.esc <=> ~st.esc /\ st.quote # "" /\ c = "bs"
  /\ n.quote = IF st.esc THEN st.quote
               ELSE IF st.quote # "" THEN IF c = st.quote THEN "" ELSE st.quote
               ELSE IF c \in Quotes THEN c ELSE ""

\* The loop body of substituteArgs, case by case, goes to that state.
LEMMA ArgsStep ==
  ASSUME NEW Item, MyChars \subseteq Item, NEW args \in Seq(Item),
         NEW c \in MyChars, NEW st \in ArgsState(Item)
  PROVE  scanArgs(args, st, c) \in ArgsState(Item) /\ ArgsAfter(args, st, c, scanArgs(args, st, c))
<1> DEFINE n == scanArgs(args, st, c)
           copied == [st EXCEPT !.out = Append(@, c), !.esc = FALSE]
           Goal == n \in ArgsState(Item) /\ ArgsAfter(args, st, c, n)
<1> SUFFICES Goal
  OBVIOUS
<1>1. st.quote \in Quotes \cup {""} /\ st.esc \in BOOLEAN /\ st.ai \in Nat /\ st.out \in Seq(Item)
  BY DEF ArgsState
<1>2. c \in Item /\ Append(st.out, c) \in Seq(Item)
  BY <1>1, Appended
<1>3. /\ copied \in ArgsState(Item)
      /\ copied.quote = st.quote /\ copied.esc = FALSE /\ copied.ai = st.ai
      /\ copied.out = Append(st.out, c)
  BY <1>2 DEF ArgsState
<1>4. CASE st.esc
  <2>1. n = copied
    BY <1>4 DEF scanArgs
  <2> HIDE DEF n, copied
  <2> QED BY <1>1, <1>3, <1>4, <2>1 DEF Takes, ArgsAfter
<1>5. CASE ~st.esc /\ st.quote # ""
  <2> DEFINE quote == IF c = st.quote THEN "" ELSE st.quote
             esc == (c = "bs")
  <2>1. n = [copied EXCEPT !.esc = esc, !.quote = IF c = st.quote THEN "" ELSE @]
    BY <1>5 DEF scanArgs
  <2>2. quote \in Quotes \cup {""} /\ esc \in BOOLEAN
    BY <1>1
  <2>3. ~Takes(args, st, c)
    BY <1>5 DEF Takes
  <2> HIDE DEF n, copied, esc
  <2>4. /\ n \in ArgsState(Item)
        /\ n.quote = quote /\ n.esc = esc /\ n.ai = st.ai /\ n.out = Append(st.out, c)
    BY <1>3, <2>1, <2>2 DEF ArgsState
  <2> QED BY <1>1, <1>5, <2>3, <2>4 DEF ArgsAfter, esc
<1>6. CASE ~st.esc /\ st.quote = "" /\ c \in Quotes
  <2>0. c # "?" /\ c # "bs"
    BY <1>6 DEF Quotes
  <2>1. n = [copied EXCEPT !.quote = c]
    BY <1>6, <2>0 DEF scanArgs, Quotes
  <2>2. ~Takes(args, st, c)
    BY <1>6 DEF Takes, Quotes
  <2> HIDE DEF n, copied
  <2>3. /\ n \in ArgsState(Item)
        /\ n.quote = c /\ n.esc = FALSE /\ n.ai = st.ai /\ n.out = Append(st.out, c)
    BY <1>3, <1>6, <2>1 DEF ArgsState
  <2> QED BY <1>1, <1>6, <2>2, <2>3 DEF ArgsAfter
<1>7. CASE ~st.esc /\ st.quote = "" /\ c = "?" /\ st.ai < Len(args)
  <2>1. n = [st EXCEPT !.out = Append(@, args[st.ai + 1]), !.ai = @ + 1]
    BY <1>7 DEF scanArgs, Quotes
  <2>2. args[st.ai + 1] \in Item /\ st.ai + 1 \in Nat
    <3>1. \A a, b \in Nat : a < b => a + 1 \in 1 .. b
      OBVIOUS
    <3>2. Len(args) \in Nat /\ \A a \in 1 .. Len(args) : args[a] \in Item
      OBVIOUS
    <3>3. \A a \in Nat : a + 1 \in Nat
      OBVIOUS
    <3>4. st.ai \in Nat /\ st.ai < Len(args)
      BY <1>1, <1>7
    <3> QED BY <3>1, <3>2, <3>3, <3>4
  <2>3. Append(st.out, args[st.ai + 1]) \in Seq(Item)
    BY <1>1, <2>2, Appended
  <2>4. Takes(args, st, c) /\ c \notin Quotes
    BY <1>7 DEF Takes, Quotes
  <2> HIDE DEF n
  <2>5. /\ n \in ArgsState(Item)
        /\ n.quote = st.quote /\ n.esc = st.esc /\ n.ai = st.ai + 1 /\ n.out = Append(st.out, args[st.ai + 1])
    BY <1>1, <2>1, <2>2, <2>3 DEF ArgsState
  <2> QED BY <1>1, <1>7, <2>4, <2>5 DEF ArgsAfter
<1>8. CASE ~st.esc /\ st.quote = "" /\ c \notin Quotes /\ ~(c = "?" /\ st.ai < Len(args))
  <2>1. n = copied
    BY <1>8 DEF scanArgs
  <2>2. ~Takes(args, st, c)
    BY <1>8 DEF Takes
  <2> HIDE DEF n, copied
  <2> QED BY <1>1, <1>3, <1>8, <2>1, <2>2 DEF ArgsAfter
<1> HIDE DEF Goal
<1>9. c \in Quotes => c # "?"
  BY DEF Quotes
<1> QED BY <1>1, <1>4, <1>5, <1>6, <1>7, <1>8, <1>9

\* f holds the states of the loop of substituteArgs, up to L.
IsArgsScan(f, L, text, args) ==
  f = [k \in 0 .. L |-> IF k = 0 THEN [quote |-> "", esc |-> FALSE, ai |-> 0, out |-> <<>>]
                       ELSE scanArgs(args, f[k - 1], text[k])]

\* There is such an f.
LEMMA ArgsExists ==
  ASSUME NEW Item, MyChars \subseteq Item, NEW args \in Seq(Item),
         NEW L \in Nat, NEW text, \A k \in 1 .. L : text[k] \in MyChars
  PROVE  \E f : IsArgsScan(f, L, text, args)
<1> DEFINE S == ArgsState(Item)
           start == [quote |-> "", esc |-> FALSE, ai |-> 0, out |-> <<>>]
           delta == [p \in S \X (1 .. L) |-> scanArgs(args, p[1], text[p[2]])]
<1>1. start \in S
  BY DEF ArgsState
<1>2. \A st \in S, k \in 1 .. L : scanArgs(args, st, text[k]) \in S
  BY ArgsStep
<1> HIDE DEF S, start
<1>3. delta \in [S \X (1 .. L) -> S]
  BY <1>2
<1>4. \A st \in S, k \in 1 .. L : delta[<<st, k>>] = scanArgs(args, st, text[k])
  OBVIOUS
<1> HIDE DEF delta
<1>5. PICK f : IsRun(f, S, start, L, delta)
  BY <1>1, <1>3, RunExists
<1>6. f \in [0 .. L -> S] /\ f[0] = start /\ \A k \in 1 .. L : f[k] = delta[<<f[k - 1], k>>]
  BY <1>5 DEF IsRun
<1>7. \A k \in 1 .. L : f[k] = scanArgs(args, f[k - 1], text[k])
  <2>1. \A k \in 1 .. L : k - 1 \in 0 .. L
    OBVIOUS
  <2> QED BY <1>4, <1>6, <2>1
<1>8. \A k \in 0 .. L : f[k] = IF k = 0 THEN start ELSE scanArgs(args, f[k - 1], text[k])
  <2>1. \A k \in 0 .. L : k = 0 \/ k \in 1 .. L
    OBVIOUS
  <2> QED BY <1>6, <1>7, <2>1
<1>9. f = [k \in 0 .. L |-> f[k]]
  BY <1>6
<1>10. IsArgsScan(f, L, text, args)
  BY <1>8, <1>9, Zenon DEF IsArgsScan, start
<1> QED BY <1>10

\* The states of substituteArgs go from one character to the next by its loop body.
LEMMA ArgsRun ==
  ASSUME NEW Item, MyChars \subseteq Item, NEW args \in Seq(Item), NEW text \in Seq(MyChars)
  PROVE  LET s == ArgsScan(text, args) IN
         /\ \A k \in 0 .. Len(text) : s[k] \in ArgsState(Item)
         /\ s[0] = [quote |-> "", esc |-> FALSE, ai |-> 0, out |-> <<>>]
         /\ \A k \in 1 .. Len(text) : s[k] = scanArgs(args, s[k - 1], text[k])
<1> DEFINE s == ArgsScan(text, args)
           S == ArgsState(Item)
           start == [quote |-> "", esc |-> FALSE, ai |-> 0, out |-> <<>>]
<1>1. Len(text) \in Nat /\ \A k \in 1 .. Len(text) : text[k] \in MyChars
  OBVIOUS
<1>2. \A k \in 0 .. Len(text) : s[k] = IF k = 0 THEN start ELSE scanArgs(args, s[k - 1], text[k])
  <2>1. \E f : IsArgsScan(f, Len(text), text, args)
    BY <1>1, ArgsExists
  <2>2. IsArgsScan(s, Len(text), text, args)
    BY <2>1, Zenon DEF ArgsScan, IsArgsScan
  <2> HIDE DEF s
  <2> QED BY <2>2, Zenon DEF IsArgsScan
<1>3. start \in S
  BY DEF ArgsState
<1>4. \A st \in S, k \in 1 .. Len(text) : scanArgs(args, st, text[k]) \in S
  BY <1>1, ArgsStep
<1> HIDE DEF s, start, S
<1>5. s[0] = start /\ \A k \in 1 .. Len(text) : s[k] = scanArgs(args, s[k - 1], text[k])
  <2>1. 0 \in 0 .. Len(text) /\ \A k \in 1 .. Len(text) : k \in 0 .. Len(text) /\ k # 0
    BY <1>1
  <2> QED BY <1>2, <2>1
<1>6. s[0] \in S /\ \A k \in 1 .. Len(text) : s[k - 1] \in S => s[k] \in S
  BY <1>3, <1>4, <1>5
<1>7. \A k \in 0 .. Len(text) : s[k] \in S
  BY <1>1, <1>6, RunWithin, Zenon
<1> QED BY <1>5, <1>7 DEF s, start, S

-----------------------------------------------------------------------------
\* The states of backticksToQuotes.
BackticksState(Item) == [inStr : BOOLEAN, out : Seq(Item)]

\* One step of its loop body.
LEMMA BackticksStep ==
  ASSUME NEW Item, "dq" \in Item, NEW c \in Item, NEW st \in BackticksState(Item)
  PROVE  /\ scanBackticks(st, c) \in BackticksState(Item)
         /\ scanBackticks(st, c).inStr <=> IF c = "sq" THEN ~st.inStr ELSE st.inStr
         /\ scanBackticks(st, c).out = Append(st.out, IF c = "bt" /\ ~st.inStr THEN "dq" ELSE c)
<1> DEFINE inStr == IF c = "sq" THEN ~st.inStr ELSE st.inStr
           item == IF c = "bt" /\ ~st.inStr THEN "dq" ELSE c
<1>1. st.inStr \in BOOLEAN /\ st.out \in Seq(Item)
  BY DEF BackticksState
<1>2. inStr \in BOOLEAN
  BY <1>1
<1>3. Append(st.out, item) \in Seq(Item)
  BY <1>1, Appended
<1> HIDE DEF inStr, item
<1>4. scanBackticks(st, c) = [inStr |-> inStr, out |-> Append(st.out, item)]
  BY Zenon DEF scanBackticks, inStr, item
<1>5. /\ scanBackticks(st, c) \in BackticksState(Item)
      /\ scanBackticks(st, c).inStr = inStr /\ scanBackticks(st, c).out = Append(st.out, item)
  BY <1>2, <1>3, <1>4 DEF BackticksState
<1> QED BY <1>5 DEF inStr, item

\* f holds the states of the loop of backticksToQuotes, up to L.
IsBackticksScan(f, L, text) ==
  f = [k \in 0 .. L |-> IF k = 0 THEN [inStr |-> FALSE, out |-> <<>>] ELSE scanBackticks(f[k - 1], text[k])]

\* There is such an f.
LEMMA BackticksExists ==
  ASSUME NEW Item, "dq" \in Item, NEW L \in Nat, NEW text, \A k \in 1 .. L : text[k] \in Item
  PROVE  \E f : IsBackticksScan(f, L, text)
<1> DEFINE S == BackticksState(Item)
           start == [inStr |-> FALSE, out |-> <<>>]
           delta == [p \in S \X (1 .. L) |-> scanBackticks(p[1], text[p[2]])]
<1>1. start \in S
  BY DEF BackticksState
<1>2. \A st \in S, k \in 1 .. L : scanBackticks(st, text[k]) \in S
  BY BackticksStep
<1> HIDE DEF S, start
<1>3. delta \in [S \X (1 .. L) -> S]
  BY <1>2
<1>4. \A st \in S, k \in 1 .. L : delta[<<st, k>>] = scanBackticks(st, text[k])
  OBVIOUS
<1> HIDE DEF delta
<1>5. PICK f : IsRun(f, S, start, L, delta)
  BY <1>1, <1>3, RunExists
<1>6. f \in [0 .. L -> S] /\ f[0] = start /\ \A k \in 1 .. L : f[k] = delta[<<f[k - 1], k>>]
  BY <1>5 DEF IsRun
<1>7. \A k \in 1 .. L : f[k] = scanBackticks(f[k - 1], text[k])
  <2>1. \A k \in 1 .. L : k - 1 \in 0 .. L
    OBVIOUS
  <2> QED BY <1>4, <1>6, <2>1
<1>8. \A k \in 0 .. L : f[k] = IF k = 0 THEN start ELSE scanBackticks(f[k - 1], text[k])
  <2>1. \A k \in 0 .. L : k = 0 \/ k \in 1 .. L
    OBVIOUS
  <2> QED BY <1>6, <1>7, <2>1
<1>9. f = [k \in 0 .. L |-> f[k]]
  BY <1>6
<1>10. IsBackticksScan(f, L, text)
  BY <1>8, <1>9, Zenon DEF IsBackticksScan, start
<1> QED BY <1>10

\* The states of backticksToQuotes go from one character to the next by its loop body.
LEMMA BackticksRun ==
  ASSUME NEW Item, "dq" \in Item, NEW text \in Seq(Item)
  PROVE  LET s == BackticksScan(text) IN
         /\ \A k \in 0 .. Len(text) : s[k] \in BackticksState(Item)
         /\ s[0] = [inStr |-> FALSE, out |-> <<>>]
         /\ \A k \in 1 .. Len(text) : s[k] = scanBackticks(s[k - 1], text[k])
<1> DEFINE s == BackticksScan(text)
           S == BackticksState(Item)
           start == [inStr |-> FALSE, out |-> <<>>]
<1>1. Len(text) \in Nat /\ \A k \in 1 .. Len(text) : text[k] \in Item
  OBVIOUS
<1>2. \A k \in 0 .. Len(text) : s[k] = IF k = 0 THEN start ELSE scanBackticks(s[k - 1], text[k])
  <2>1. \E f : IsBackticksScan(f, Len(text), text)
    BY <1>1, BackticksExists
  <2>2. IsBackticksScan(s, Len(text), text)
    BY <2>1, Zenon DEF BackticksScan, IsBackticksScan
  <2> HIDE DEF s
  <2> QED BY <2>2, Zenon DEF IsBackticksScan
<1>3. start \in S
  BY DEF BackticksState
<1>4. \A st \in S, k \in 1 .. Len(text) : scanBackticks(st, text[k]) \in S
  BY <1>1, BackticksStep
<1> HIDE DEF s, start, S
<1>5. s[0] = start /\ \A k \in 1 .. Len(text) : s[k] = scanBackticks(s[k - 1], text[k])
  <2>1. 0 \in 0 .. Len(text) /\ \A k \in 1 .. Len(text) : k \in 0 .. Len(text) /\ k # 0
    BY <1>1
  <2> QED BY <1>2, <2>1
<1>6. s[0] \in S /\ \A k \in 1 .. Len(text) : s[k - 1] \in S => s[k] \in S
  BY <1>3, <1>4, <1>5
<1>7. \A k \in 0 .. Len(text) : s[k] \in S
  BY <1>1, <1>6, RunWithin, Zenon
<1> QED BY <1>5, <1>7 DEF s, start, S

-----------------------------------------------------------------------------
\* The placeholders of a MySQL text, for a lexer that knows all three quotes.
Mark(text, j) == LexScan(text, Quotes)[j - 1] = "" /\ text[j] = "?"
Marks(text, k) == {j \in 1 .. k : Mark(text, j)}

\* How many there are among the first k characters, one by one.
LEMMA MarksCount ==
  ASSUME NEW text \in Seq(MyChars)
  PROVE  /\ CountOf(text, "?") \in Nat
         /\ \A k \in 0 .. Len(text) :
              Cardinality(Marks(text, k)) \in Nat /\ Cardinality(Marks(text, k)) <= CountOf(text, "?")
         /\ Cardinality(Marks(text, 0)) = 0
         /\ \A k \in 0 .. Len(text) - 1 :
              Cardinality(Marks(text, k + 1)) =
                IF Mark(text, k + 1) THEN Cardinality(Marks(text, k)) + 1 ELSE Cardinality(Marks(text, k))
<1> DEFINE all == {i \in DOMAIN text : text[i] = "?"}
<1>1. Len(text) \in Nat /\ DOMAIN text = 1 .. Len(text)
  OBVIOUS
<1>2. IsFiniteSet(all) /\ Cardinality(all) \in Nat
  <2>1. IsFiniteSet(1 .. Len(text))
    BY <1>1, FS_Interval
  <2>2. all \subseteq 1 .. Len(text)
    BY <1>1
  <2> HIDE DEF all
  <2>3. IsFiniteSet(all)
    BY <2>1, <2>2, FS_Subset
  <2> QED BY <2>3, FS_CardinalityType
<1>3. ASSUME NEW k \in 0 .. Len(text)
      PROVE  /\ IsFiniteSet(Marks(text, k)) /\ Cardinality(Marks(text, k)) \in Nat
             /\ Cardinality(Marks(text, k)) <= Cardinality(all)
  <2>1. Marks(text, k) \subseteq all
    <3>1. \A j \in 1 .. k : j \in 1 .. Len(text)
      BY <1>1
    <3> QED BY <1>1, <3>1 DEF Marks, Mark
  <2> HIDE DEF all
  <2>2. IsFiniteSet(Marks(text, k)) /\ Cardinality(Marks(text, k)) <= Cardinality(all)
    BY <1>2, <2>1, FS_Subset
  <2> QED BY <2>2, FS_CardinalityType
<1>4. Cardinality(Marks(text, 0)) = 0
  <2>1. Marks(text, 0) = {}
    BY DEF Marks
  <2> QED BY <2>1, FS_EmptySet
<1>5. ASSUME NEW k \in 0 .. Len(text) - 1
      PROVE  Cardinality(Marks(text, k + 1)) =
               IF Mark(text, k + 1) THEN Cardinality(Marks(text, k)) + 1 ELSE Cardinality(Marks(text, k))
  <2>1. k \in 0 .. Len(text) /\ k + 1 \notin 1 .. k /\ \A j : j \in 1 .. k + 1 <=> j \in 1 .. k \/ j = k + 1
    BY <1>1
  <2>2. IsFiniteSet(Marks(text, k))
    BY <1>3, <2>1
  <2>3. CASE Mark(text, k + 1)
    <3>1. Marks(text, k + 1) = Marks(text, k) \cup {k + 1} /\ k + 1 \notin Marks(text, k)
      BY <2>1, <2>3 DEF Marks
    <3>2. Cardinality(Marks(text, k) \cup {k + 1}) = Cardinality(Marks(text, k)) + 1
      BY <2>2, <3>1, FS_AddElement
    <3> QED BY <2>3, <3>1, <3>2
  <2>4. CASE ~Mark(text, k + 1)
    <3>1. Marks(text, k + 1) = Marks(text, k)
      BY <2>1, <2>4 DEF Marks
    <3> QED BY <2>4, <3>1
  <2> QED BY <2>3, <2>4
<1> QED BY <1>2, <1>3, <1>4, <1>5 DEF CountOf

\* What the lexer says of a MySQL text.
LEMMA MyLexRun ==
  ASSUME NEW text \in Seq(MyChars)
  PROVE  LET l == LexScan(text, Quotes) IN
         /\ \A j \in 0 .. Len(text) : l[j] \in {"sq", "dq", "bt", "", "--"}
         /\ l[0] = ""
         /\ \A j \in 1 .. Len(text) : l[j] = lex(Quotes, l[j - 1], text[j])
<1> DEFINE l == LexScan(text, Quotes)
<1>1. /\ \A j \in 0 .. Len(text) : l[j] \in Quotes \cup {"", "--"}
      /\ l[0] = ""
      /\ \A j \in 1 .. Len(text) : l[j] = lex(Quotes, l[j - 1], text[j])
  BY LexRun, Zenon
<1> HIDE DEF l
<1>2. \A q \in Quotes \cup {"", "--"} : q \in {"sq", "dq", "bt", "", "--"}
  BY DEF Quotes
<1> QED BY <1>1, <1>2 DEF l

\* Without backslashes, and with plain comments, substituteArgs is inside the
\* literal that the lexer is inside of, and has replaced the placeholders among the first k characters, each
\* by the value of its number.
Substituted(text, args, k, st) ==
  /\ ~st.esc /\ st.quote = Seen(LexScan(text, Quotes)[k])
  /\ st.ai = Cardinality(Marks(text, k))
  /\ Len(st.out) = k
  /\ \A j \in 1 .. k :
       st.out[j] = IF Mark(text, j) THEN args[Cardinality(Marks(text, j))] ELSE text[j]

\* It holds after every character.
LEMMA ArgsMatch ==
  ASSUME NEW Item, MyChars \subseteq Item, NEW args \in Seq(Item), NEW text \in Seq(MyChars),
         \A i \in 1 .. Len(text) : text[i] # "bs", PlainComments(text, Quotes),
         CountOf(text, "?") <= Len(args), NEW k \in 0 .. Len(text)
  PROVE  Substituted(text, args, k, ArgsScan(text, args)[k])
<1> DEFINE s == ArgsScan(text, args)
           l == LexScan(text, Quotes)
           T == {j \in 0 .. Len(text) : Substituted(text, args, j, s[j])}
<1>1. Len(text) \in Nat /\ \A j \in 1 .. Len(text) : text[j] \in MyChars
  OBVIOUS
<1>2. /\ \A j \in 0 .. Len(text) : s[j] \in ArgsState(Item)
      /\ s[0] = [quote |-> "", esc |-> FALSE, ai |-> 0, out |-> <<>>]
      /\ \A j \in 1 .. Len(text) : s[j] = scanArgs(args, s[j - 1], text[j])
  BY ArgsRun
<1>3. /\ \A j \in 0 .. Len(text) : l[j] \in {"sq", "dq", "bt", "", "--"}
      /\ l[0] = ""
      /\ \A j \in 1 .. Len(text) : l[j] = lex(Quotes, l[j - 1], text[j])
  BY MyLexRun
<1>comments. \A j \in 1 .. Len(text) : l[j - 1] = "--" => text[j] \notin {"sq", "dq", "bt", "?", "$1", "$2"}
  BY CommentChars, Zenon
<1> HIDE DEF s
<1>4. 0 \in T
  <2> DEFINE start == [quote |-> "", esc |-> FALSE, ai |-> 0, out |-> <<>>]
  <2>1. start.quote = "" /\ start.esc = FALSE /\ start.ai = 0 /\ start.out = <<>>
    OBVIOUS
  <2>2. s[0].quote = "" /\ s[0].esc = FALSE /\ s[0].ai = 0 /\ s[0].out = <<>>
    <3>1. s[0] = start
      BY <1>2
    <3> HIDE DEF start
    <3> QED BY <2>1, <3>1
  <2>3. Len(<<>>) = 0 /\ \A j : j \notin 1 .. 0
    OBVIOUS
  <2>4. Substituted(text, args, 0, s[0])
    BY <1>3, <2>2, <2>3, MarksCount DEF Substituted, Seen
  <2>5. 0 \in 0 .. Len(text)
    BY <1>1
  <2> QED BY <2>4, <2>5
<1>5. ASSUME NEW j \in 0 .. Len(text) - 1, j \in T PROVE j + 1 \in T
  <2> DEFINE c == text[j + 1]
             st == s[j]
             n == s[j + 1]
  <2>1. j \in Nat /\ j + 1 \in 1 .. Len(text) /\ (j + 1) - 1 = j /\ j \in 0 .. Len(text) /\ j + 1 \in 0 .. Len(text)
    BY <1>1
  <2>2. c \in MyChars /\ c # "bs" /\ st \in ArgsState(Item) /\ n \in ArgsState(Item)
    BY <1>1, <1>2, <2>1
  <2>3. ArgsAfter(args, st, c, n)
    <3>1. n = scanArgs(args, st, c)
      BY <1>2, <2>1
    <3> QED BY <2>2, <3>1, ArgsStep
  <2>4. /\ l[j] \in {"sq", "dq", "bt", "", "--"} /\ l[j + 1] = lex(Quotes, l[j], c)
        /\ l[j] = "--" => c \notin {"sq", "dq", "bt", "?", "$1", "$2"}
    BY <1>3, <1>comments, <2>1
  <2>5. /\ st.esc \in BOOLEAN /\ st.quote \in Quotes \cup {""} /\ st.ai \in Nat /\ st.out \in Seq(Item)
        /\ n.esc \in BOOLEAN /\ n.out \in Seq(Item)
    BY <2>2 DEF ArgsState
  <2>6. Substituted(text, args, j, st)
    BY <1>5
  <2>7. /\ Cardinality(Marks(text, j)) \in Nat
        /\ Cardinality(Marks(text, j + 1)) \in Nat
        /\ Cardinality(Marks(text, j + 1)) <= Len(args)
        /\ Cardinality(Marks(text, j + 1)) =
             IF Mark(text, j + 1) THEN Cardinality(Marks(text, j)) + 1 ELSE Cardinality(Marks(text, j))
    <3>1. /\ CountOf(text, "?") \in Nat /\ CountOf(text, "?") <= Len(args) /\ Len(args) \in Nat
          /\ Cardinality(Marks(text, j)) \in Nat
          /\ Cardinality(Marks(text, j + 1)) \in Nat
          /\ Cardinality(Marks(text, j + 1)) <= CountOf(text, "?")
      BY <2>1, MarksCount
    <3>2. \A a, b, d \in Nat : a <= b /\ b <= d => a <= d
      OBVIOUS
    <3>3. Cardinality(Marks(text, j + 1)) =
             IF Mark(text, j + 1) THEN Cardinality(Marks(text, j)) + 1 ELSE Cardinality(Marks(text, j))
      BY MarksCount
    <3> QED BY <3>1, <3>2, <3>3
  <2>8. Takes(args, st, c) <=> Mark(text, j + 1)
    <3>1. Mark(text, j + 1) <=> l[j] = "" /\ c = "?"
      BY <2>1 DEF Mark
    <3>2. ~st.esc /\ st.quote = Seen(l[j]) /\ st.ai = Cardinality(Marks(text, j))
      BY <2>6 DEF Substituted
    <3>3. \A a, b \in Nat : a + 1 <= b => a < b
      OBVIOUS
    <3>4. Len(args) \in Nat
      OBVIOUS
    <3>5. Mark(text, j + 1) => st.ai < Len(args)
      BY <2>7, <3>2, <3>3, <3>4
    <3> HIDE DEF l, c, st
    <3> QED BY <2>4, <3>1, <3>2, <3>5 DEF Takes, Seen
  <2>9. ~n.esc /\ n.quote = Seen(l[j + 1])
    <3>1. ~st.esc /\ st.quote = Seen(l[j])
      BY <2>6 DEF Substituted
    <3>2. /\ n.esc <=> ~st.esc /\ st.quote # "" /\ c = "bs"
          /\ n.quote = IF st.esc THEN st.quote
                       ELSE IF st.quote # "" THEN IF c = st.quote THEN "" ELSE st.quote
                       ELSE IF c \in Quotes THEN c ELSE ""
      BY <2>3 DEF ArgsAfter
    <3>3. c # ""
      BY <2>2 DEF MyChars, Quotes
    <3> HIDE DEF l, c, st, n
    <3> QED BY <2>2, <2>4, <3>1, <3>2, <3>3 DEF lex, Closing, Seen, Quotes
  <2>10. n.ai = Cardinality(Marks(text, j + 1))
    BY <2>3, <2>6, <2>7, <2>8 DEF ArgsAfter, Substituted
  <2> DEFINE item == IF Takes(args, st, c) THEN args[st.ai + 1] ELSE c
  <2>11. item \in Item
    <3>1. c \in Item
      BY <2>2
    <3>2. \A a, b \in Nat : a < b => a + 1 \in 1 .. b
      OBVIOUS
    <3>3. Len(args) \in Nat /\ \A a \in 1 .. Len(args) : args[a] \in Item
      OBVIOUS
    <3>4. Takes(args, st, c) => args[st.ai + 1] \in Item
      BY <2>5, <3>2, <3>3 DEF Takes
    <3> QED BY <3>1, <3>4
  <2>12. Len(n.out) = j + 1 /\ n.out[j + 1] = item /\ \A i \in 1 .. j : n.out[i] = st.out[i]
    <3>1. n.out = Append(st.out, item) /\ Len(st.out) = j
      BY <2>3, <2>6 DEF ArgsAfter, Substituted
    <3> HIDE DEF item, n, st
    <3>2. st.out \in Seq(Item)
      BY <2>5
    <3>3. /\ Len(Append(st.out, item)) = Len(st.out) + 1
          /\ Append(st.out, item)[Len(st.out) + 1] = item
          /\ \A i \in 1 .. Len(st.out) : Append(st.out, item)[i] = st.out[i]
      BY <3>2, <2>11, Appended
    <3> QED BY <3>1, <3>3
  <2>13. item = IF Mark(text, j + 1) THEN args[Cardinality(Marks(text, j + 1))] ELSE c
    <3>1. Mark(text, j + 1) => st.ai + 1 = Cardinality(Marks(text, j + 1))
      BY <2>6, <2>7 DEF Substituted
    <3> HIDE DEF c, st
    <3> QED BY <2>8, <3>1
  <2>14. \A i \in 1 .. j + 1 :
           n.out[i] = IF Mark(text, i) THEN args[Cardinality(Marks(text, i))] ELSE text[i]
    <3>1. \A i \in 1 .. j + 1 : i \in 1 .. j \/ i = j + 1
      BY <2>1
    <3> HIDE DEF item
    <3> QED BY <2>6, <2>12, <2>13, <3>1 DEF Substituted
  <2>15. Substituted(text, args, j + 1, n)
    BY <2>9, <2>10, <2>12, <2>14 DEF Substituted
  <2> QED BY <2>1, <2>15
<1>6. \A j \in 0 .. Len(text) : j \in T
  <2> HIDE DEF T
  <2> QED BY <1>1, <1>4, <1>5, UpTo
<1> QED BY <1>6 DEF s

\* A placeholder has a number.
LEMMA MarkNumber ==
  ASSUME NEW text \in Seq(MyChars), NEW j \in 1 .. Len(text), Mark(text, j)
  PROVE  Cardinality(Marks(text, j)) \in 1 .. CountOf(text, "?")
<1> DEFINE k == j - 1
<1>1. k \in 0 .. Len(text) - 1 /\ k + 1 = j /\ k \in 0 .. Len(text) /\ j \in 0 .. Len(text)
  <2>1. Len(text) \in Nat
    OBVIOUS
  <2> QED BY <2>1
<1>2. /\ CountOf(text, "?") \in Nat /\ Cardinality(Marks(text, k)) \in Nat
      /\ Cardinality(Marks(text, j)) \in Nat /\ Cardinality(Marks(text, j)) <= CountOf(text, "?")
  BY <1>1, MarksCount
<1>3. Cardinality(Marks(text, k + 1)) = Cardinality(Marks(text, k)) + 1
  <2> HIDE DEF k
  <2> QED BY <1>1, MarksCount
<1>4. \A a, b, d \in Nat : b = a + 1 /\ b <= d => b \in 1 .. d
  OBVIOUS
<1> QED BY <1>1, <1>2, <1>3, <1>4

\* HandleStmtPrepare counts no more than the values that are bound.
LEMMA CountTold ==
  ASSUME NEW text \in Seq(MyChars), placeholderCount(text) <= Len(Bound)
  PROVE  placeholderCount(text) \in 0 .. Len(Bound)
<1>1. placeholderCount(text) \in Nat
  BY MarksCount DEF placeholderCount
<1>2. Len(Bound) \in Nat
  BY BoundAssumption
<1> QED BY <1>1, <1>2

\* What substituteArgs makes of a text without backslashes when as many values are
\* bound as HandleStmtPrepare said.
LEMMA ArgsResult ==
  ASSUME NEW text \in Seq(MyChars), \A i \in 1 .. Len(text) : text[i] # "bs",
         PlainComments(text, Quotes), placeholderCount(text) <= Len(Bound)
  PROVE  LET mid == substituteArgs(text, SubSeq(Bound, 1, placeholderCount(text))) IN
         /\ mid \in Seq(MyChars \cup {Bound[i] : i \in DOMAIN Bound})
         /\ Len(mid) = Len(text)
         /\ \A j \in 1 .. Len(text) :
              mid[j] = IF Mark(text, j) THEN Bound[Cardinality(Marks(text, j))] ELSE text[j]
<1> DEFINE told == placeholderCount(text)
           args == SubSeq(Bound, 1, told)
           mid == substituteArgs(text, args)
           Item == MyChars \cup {Bound[i] : i \in DOMAIN Bound}
           L == Len(text)
           Result(q) == /\ q \in Seq(Item) /\ Len(q) = L
                        /\ \A j \in 1 .. L :
                             q[j] = IF Mark(text, j) THEN Bound[Cardinality(Marks(text, j))] ELSE text[j]
<1>1. L \in 0 .. L /\ MyChars \subseteq Item /\ Bound \in Seq(Item) /\ text \in Seq(Item)
  BY BoundAssumption
<1>2. told \in 0 .. Len(Bound) /\ told = CountOf(text, "?")
  <2>1. told \in Nat /\ told = CountOf(text, "?")
    BY MarksCount DEF placeholderCount
  <2>2. told <= Len(Bound) /\ Len(Bound) \in Nat
    BY BoundAssumption
  <2>3. \A a, b \in Nat : a <= b => a \in 0 .. b
    OBVIOUS
  <2> HIDE DEF told
  <2> QED BY <2>1, <2>2, <2>3
<1> HIDE DEF told, Item
<1>3. args \in Seq(Item) /\ Len(args) = told /\ \A i \in 1 .. told : args[i] = Bound[i]
  BY <1>1, <1>2, Prefix
<1>4. CASE args = <<>>
  <2>1. told = 0
    BY <1>3, <1>4
  <2>2. \A j \in 1 .. L : ~Mark(text, j)
    <3>1. \A a : a \notin 1 .. 0
      OBVIOUS
    <3> QED BY <1>2, <2>1, <3>1, MarkNumber
  <2>3. mid = text
    BY <1>4 DEF substituteArgs
  <2>4. Result(text)
    BY <1>1, <2>2
  <2> QED BY <2>3, <2>4 DEF told, Item
<1>5. CASE args # <<>>
  <2> DEFINE out == ArgsScan(text, args)[L].out
  <2>1. mid = out
    BY <1>5 DEF substituteArgs
  <2> HIDE DEF args
  <2>2. CountOf(text, "?") <= Len(args)
    <3>1. \A a \in Nat : a <= a
      OBVIOUS
    <3> QED BY <1>2, <1>3, <3>1
  <2>3. Substituted(text, args, L, ArgsScan(text, args)[L])
    BY <1>1, <1>3, <2>2, ArgsMatch
  <2>4. out \in Seq(Item)
    <3>1. ArgsScan(text, args)[L] \in ArgsState(Item)
      BY <1>1, <1>3, ArgsRun
    <3> QED BY <3>1 DEF ArgsState
  <2>5. Len(out) = L /\ \A j \in 1 .. L : out[j] = IF Mark(text, j) THEN args[Cardinality(Marks(text, j))] ELSE text[j]
    BY <2>3 DEF Substituted
  <2>6. \A j \in 1 .. L : Mark(text, j) => args[Cardinality(Marks(text, j))] = Bound[Cardinality(Marks(text, j))]
    BY <1>2, <1>3, MarkNumber
  <2> HIDE DEF out
  <2>7. Result(out)
    BY <2>4, <2>5, <2>6
  <2> QED BY <2>1, <2>7 DEF told, Item, args
<1> QED BY <1>4, <1>5

-----------------------------------------------------------------------------
\* What substituteArgs leaves for backticksToQuotes: only placeholders have been
\* replaced, by items that are no characters.
SameQuotes(text, mid) ==
  /\ Len(mid) = Len(text)
  /\ \A j \in 1 .. Len(text) : mid[j] = text[j] \/ (mid[j] \notin MyChars /\ text[j] = "?")

\* Other quotes only inside single quotes, and none in a comment.
PlainQuotes(text) ==
  \A i \in 1 .. Len(text) :
    LET quote == LexScan(text, Quotes)[i - 1] IN
    /\ quote \in {"dq", "bt"} => text[i] \notin Quotes \ {quote}
    /\ quote = "--" => text[i] \notin {"sq", "dq", "bt"}

\* backticksToQuotes is inside single quotes when the lexer is, and has rewritten
\* the back quotes outside of them among the first k characters.
Rewritten(text, mid, k, st) ==
  /\ st.inStr <=> LexScan(text, Quotes)[k] = "sq"
  /\ Len(st.out) = k
  /\ \A j \in 1 .. k :
       st.out[j] = IF mid[j] = "bt" /\ LexScan(text, Quotes)[j - 1] # "sq" THEN "dq" ELSE mid[j]

\* It holds after every character.
LEMMA BackticksMatch ==
  ASSUME NEW Item, "dq" \in Item, NEW text \in Seq(MyChars), NEW mid \in Seq(Item),
         SameQuotes(text, mid), PlainQuotes(text), NEW k \in 0 .. Len(text)
  PROVE  Rewritten(text, mid, k, BackticksScan(mid)[k])
<1> DEFINE s == BackticksScan(mid)
           l == LexScan(text, Quotes)
           T == {j \in 0 .. Len(text) : Rewritten(text, mid, j, s[j])}
<1>1. /\ Len(text) \in Nat /\ Len(mid) = Len(text)
      /\ \A j \in 1 .. Len(text) : text[j] \in MyChars /\ mid[j] \in Item
  <2>1. Len(text) \in Nat /\ \A j \in 1 .. Len(text) : text[j] \in MyChars
    OBVIOUS
  <2>2. Len(mid) = Len(text) /\ \A j \in 1 .. Len(mid) : mid[j] \in Item
    BY DEF SameQuotes
  <2> QED BY <2>1, <2>2
<1>2. /\ \A j \in 0 .. Len(text) : s[j] \in BackticksState(Item)
      /\ s[0] = [inStr |-> FALSE, out |-> <<>>]
      /\ \A j \in 1 .. Len(text) : s[j] = scanBackticks(s[j - 1], mid[j])
  <2>1. /\ \A j \in 0 .. Len(mid) : s[j] \in BackticksState(Item)
        /\ s[0] = [inStr |-> FALSE, out |-> <<>>]
        /\ \A j \in 1 .. Len(mid) : s[j] = scanBackticks(s[j - 1], mid[j])
    BY BackticksRun
  <2> HIDE DEF s
  <2> QED BY <1>1, <2>1
<1>3. /\ \A j \in 0 .. Len(text) : l[j] \in {"sq", "dq", "bt", "", "--"}
      /\ l[0] = ""
      /\ \A j \in 1 .. Len(text) : l[j] = lex(Quotes, l[j - 1], text[j])
  BY MyLexRun
<1> HIDE DEF s
<1>4. 0 \in T
  <2> DEFINE start == [inStr |-> FALSE, out |-> <<>>]
  <2>1. start.inStr = FALSE /\ start.out = <<>>
    OBVIOUS
  <2>2. s[0].inStr = FALSE /\ s[0].out = <<>>
    <3>1. s[0] = start
      BY <1>2
    <3> HIDE DEF start
    <3> QED BY <2>1, <3>1
  <2>3. Len(<<>>) = 0 /\ \A j : j \notin 1 .. 0
    OBVIOUS
  <2>4. Rewritten(text, mid, 0, s[0])
    BY <1>3, <2>2, <2>3 DEF Rewritten
  <2>5. 0 \in 0 .. Len(text)
    BY <1>1
  <2> QED BY <2>4, <2>5
<1>5. ASSUME NEW j \in 0 .. Len(text) - 1, j \in T PROVE j + 1 \in T
  <2> DEFINE c == text[j + 1]
             d == mid[j + 1]
             st == s[j]
             n == s[j + 1]
  <2>1. j \in Nat /\ j + 1 \in 1 .. Len(text) /\ (j + 1) - 1 = j /\ j \in 0 .. Len(text) /\ j + 1 \in 0 .. Len(text)
    BY <1>1
  <2>2. c \in MyChars /\ d \in Item /\ st \in BackticksState(Item) /\ n \in BackticksState(Item)
    BY <1>1, <1>2, <2>1
  <2>3. d = c \/ (d \notin MyChars /\ c = "?")
    BY <2>1 DEF SameQuotes
  <2>4. /\ l[j] \in {"dq", "bt"} => c \notin Quotes \ {l[j]}
        /\ l[j] = "--" => c \notin {"sq", "dq", "bt"}
    BY <2>1 DEF PlainQuotes
  <2>5. l[j] \in {"sq", "dq", "bt", "", "--"} /\ l[j + 1] = lex(Quotes, l[j], c)
    BY <1>3, <2>1
  <2>6. /\ n.inStr <=> IF d = "sq" THEN ~st.inStr ELSE st.inStr
        /\ n.out = Append(st.out, IF d = "bt" /\ ~st.inStr THEN "dq" ELSE d)
    <3>1. n = scanBackticks(st, d)
      BY <1>2, <2>1
    <3> HIDE DEF l, c, d, st, n, T
    <3>2. /\ scanBackticks(st, d).inStr <=> IF d = "sq" THEN ~st.inStr ELSE st.inStr
          /\ scanBackticks(st, d).out = Append(st.out, IF d = "bt" /\ ~st.inStr THEN "dq" ELSE d)
      BY <2>2, BackticksStep, Zenon
    <3> QED BY <3>1, <3>2, Zenon
  <2>7. st.inStr \in BOOLEAN /\ n.inStr \in BOOLEAN /\ st.out \in Seq(Item)
    BY <2>2 DEF BackticksState
  <2>8. Rewritten(text, mid, j, st)
    BY <1>5
  <2>9. st.inStr <=> l[j] = "sq"
    BY <2>8 DEF Rewritten
  <2>10. n.inStr <=> l[j + 1] = "sq"
    <3>1. d = "sq" <=> c = "sq"
      BY <2>3 DEF MyChars, Quotes
    <3> HIDE DEF l, c, d, st, n
    <3> QED BY <2>4, <2>5, <2>6, <2>7, <2>9, <3>1 DEF lex, Closing, Quotes
  <2> DEFINE item == IF d = "bt" /\ l[j] # "sq" THEN "dq" ELSE d
  <2>11. item \in Item /\ n.out = Append(st.out, item) /\ Len(st.out) = j
    <3>1. Len(st.out) = j
      BY <2>8 DEF Rewritten
    <3> HIDE DEF l, d, st, n
    <3> QED BY <2>2, <2>6, <2>9, <3>1
  <2>12. Len(n.out) = j + 1 /\ n.out[j + 1] = item /\ \A i \in 1 .. j : n.out[i] = st.out[i]
    <3> HIDE DEF item, n, st
    <3>1. /\ Len(Append(st.out, item)) = Len(st.out) + 1
          /\ Append(st.out, item)[Len(st.out) + 1] = item
          /\ \A i \in 1 .. Len(st.out) : Append(st.out, item)[i] = st.out[i]
      BY <2>7, <2>11, Appended
    <3> QED BY <2>11, <3>1
  <2>13. \A i \in 1 .. j + 1 : n.out[i] = IF mid[i] = "bt" /\ l[i - 1] # "sq" THEN "dq" ELSE mid[i]
    <3>1. \A i \in 1 .. j + 1 : i \in 1 .. j \/ i = j + 1
      BY <2>1
    <3>2. \A i \in 1 .. j : st.out[i] = IF mid[i] = "bt" /\ l[i - 1] # "sq" THEN "dq" ELSE mid[i]
      BY <2>8 DEF Rewritten
    <3> HIDE DEF l, n, st
    <3> QED BY <2>1, <2>12, <3>1, <3>2
  <2>14. Rewritten(text, mid, j + 1, n)
    BY <2>10, <2>12, <2>13 DEF Rewritten
  <2> QED BY <2>1, <2>14
<1>6. \A j \in 0 .. Len(text) : j \in T
  <2> HIDE DEF T
  <2> QED BY <1>1, <1>4, <1>5, UpTo
<1> QED BY <1>6 DEF s

\* What PlainText says of the single characters.
LEMMA PlainChars ==
  ASSUME NEW text \in Seq(MyChars), PlainText(text)
  PROVE  (\A i \in 1 .. Len(text) : text[i] # "bs") /\ PlainQuotes(text)
<1> DEFINE slashes == {i \in DOMAIN text : text[i] = "bs"}
<1>1. Len(text) \in Nat /\ DOMAIN text = 1 .. Len(text)
  OBVIOUS
<1>2. Cardinality(slashes) = 0
  BY DEF PlainText, CountOf
<1>3. slashes = {}
  <2>1. IsFiniteSet(1 .. Len(text)) /\ slashes \subseteq 1 .. Len(text)
    BY <1>1, FS_Interval
  <2> HIDE DEF slashes
  <2>2. IsFiniteSet(slashes)
    BY <2>1, FS_Subset
  <2> QED BY <1>2, <2>2, FS_EmptySet
<1>4. \A i \in 1 .. Len(text) : text[i] # "bs"
  BY <1>1, <1>3
<1>5. \A i \in DOMAIN text : Lexed(text, Quotes)[i] \in {"dq", "bt"} => text[i] \notin Quotes \ {Lexed(text, Quotes)[i]}
  BY Zenon DEF PlainText, PlainLiterals
<1>6. \A i \in 1 .. Len(text) : Lexed(text, Quotes)[i] = LexScan(text, Quotes)[i - 1]
  BY LexedAt
<1>7. \A i \in 1 .. Len(text) :
        LexScan(text, Quotes)[i - 1] = "--" => text[i] \notin {"sq", "dq", "bt", "?", "$1", "$2"}
  BY CommentChars DEF PlainText
<1>8. PlainQuotes(text)
  BY <1>1, <1>5, <1>6, <1>7 DEF PlainQuotes
<1> QED BY <1>4, <1>8

\* What backticksToQuotes leaves of a text: the back quotes outside of single
\* quotes are double quotes, and no item but a placeholder has changed otherwise.
Requoted(text, final) ==
  /\ Len(final) = Len(text)
  /\ \A j \in 1 .. Len(text) :
       \/ text[j] = "bt" /\ LexScan(text, Quotes)[j - 1] # "sq" /\ final[j] = "dq"
       \/ ~(text[j] = "bt" /\ LexScan(text, Quotes)[j - 1] # "sq") /\ final[j] = text[j]
       \/ text[j] = "?" /\ final[j] \notin MyChars

\* DuckDB is inside the same quotes, a double one where there was a back quote.
LEMMA Relexed ==
  ASSUME NEW Item, NEW text \in Seq(MyChars), NEW final \in Seq(Item),
         Requoted(text, final), PlainQuotes(text), NEW k \in 0 .. Len(text)
  PROVE  LexScan(final, {"sq", "dq"})[k]
           = IF LexScan(text, Quotes)[k] = "bt" THEN "dq" ELSE LexScan(text, Quotes)[k]
<1> DEFINE l == LexScan(text, Quotes)
           r == LexScan(final, {"sq", "dq"})
           Same(j) == r[j] = IF l[j] = "bt" THEN "dq" ELSE l[j]
           T == {j \in 0 .. Len(text) : Same(j)}
<1>1. Len(text) \in Nat /\ \A j \in 1 .. Len(text) : text[j] \in MyChars
  OBVIOUS
<1>2. /\ \A j \in 0 .. Len(text) : l[j] \in {"sq", "dq", "bt", "", "--"}
      /\ l[0] = ""
      /\ \A j \in 1 .. Len(text) : l[j] = lex(Quotes, l[j - 1], text[j])
  BY MyLexRun
<1>3. r[0] = "" /\ \A j \in 1 .. Len(text) : r[j] = lex({"sq", "dq"}, r[j - 1], final[j])
  <2>1. r[0] = "" /\ \A j \in 1 .. Len(final) : r[j] = lex({"sq", "dq"}, r[j - 1], final[j])
    BY LexRun, Zenon
  <2>2. Len(final) = Len(text)
    BY DEF Requoted
  <2> HIDE DEF r
  <2> QED BY <2>1, <2>2
<1> HIDE DEF r
<1>4. 0 \in T
  <2>1. 0 \in 0 .. Len(text)
    BY <1>1
  <2>2. Same(0)
    <3> HIDE DEF l
    <3> QED BY <1>2, <1>3
  <2> HIDE DEF Same
  <2> QED BY <2>1, <2>2
<1>5. ASSUME NEW j \in 0 .. Len(text) - 1, j \in T PROVE j + 1 \in T
  <2> DEFINE c == text[j + 1]
             d == final[j + 1]
  <2>1. j + 1 \in 1 .. Len(text) /\ (j + 1) - 1 = j /\ j \in 0 .. Len(text) /\ j + 1 \in 0 .. Len(text)
    BY <1>1
  <2>2. c \in MyChars
    BY <1>1, <2>1
  <2>3. \/ c = "bt" /\ l[j] # "sq" /\ d = "dq"
        \/ ~(c = "bt" /\ l[j] # "sq") /\ d = c
        \/ c = "?" /\ d \notin MyChars
    BY <2>1 DEF Requoted
  <2>4. /\ l[j] \in {"dq", "bt"} => c \notin Quotes \ {l[j]}
        /\ l[j] = "--" => c \notin {"sq", "dq", "bt"}
    BY <2>1 DEF PlainQuotes
  <2>5. l[j] \in {"sq", "dq", "bt", "", "--"} /\ l[j + 1] = lex(Quotes, l[j], c)
    BY <1>2, <2>1
  <2>6. r[j + 1] = lex({"sq", "dq"}, r[j], d) /\ Same(j)
    BY <1>3, <1>5, <2>1
  <2>7. Same(j + 1)
    <3>1. c = "?" => l[j + 1] = l[j]
      <4> HIDE DEF l, c
      <4> QED BY <2>5 DEF lex, Closing, Quotes
    <3>2. CASE c = "?" /\ d \notin MyChars
      <4>1. d # Closing(r[j]) \/ r[j] = ""
        <5> HIDE DEF l, c, d
        <5> QED BY <2>5, <2>6, <3>2 DEF MyChars, Quotes, Closing
      <4>2. r[j + 1] = r[j]
        <5>1. d \notin {"sq", "dq", "--"}
          BY <3>2 DEF MyChars, Quotes
        <5> HIDE DEF l, c, d
        <5> QED BY <2>6, <4>1, <5>1 DEF lex, Closing
      <4> HIDE DEF l, c, d
      <4> QED BY <2>6, <3>1, <3>2, <4>2
    <3>3. CASE c = "bt" /\ l[j] # "sq" /\ d = "dq"
      <4> HIDE DEF l, c, d
      <4> QED BY <2>4, <2>5, <2>6, <3>3 DEF lex, Closing, Quotes
    <3>4. CASE ~(c = "bt" /\ l[j] # "sq") /\ d = c
      <4> HIDE DEF l, c, d
      <4> QED BY <2>2, <2>4, <2>5, <2>6, <3>4 DEF lex, Closing, Quotes, MyChars
    <3> QED BY <2>3, <3>2, <3>3, <3>4
  <2> QED BY <2>1, <2>7
<1>6. \A j \in 0 .. Len(text) : j \in T
  <2> HIDE DEF T
  <2> QED BY <1>1, <1>4, <1>5, UpTo
<1> QED BY <1>6 DEF r

\* So it finds the literals where they were.
LEMMA SameLiterals ==
  ASSUME NEW Item, NEW text \in Seq(MyChars), NEW final \in Seq(Item),
         Requoted(text, final), PlainQuotes(text)
  PROVE  Literal(final, {"sq", "dq"}) = Literal(text, Quotes)
<1>1. \A i : i \in Literal(text, Quotes) <=> i \in 1 .. Len(text) /\ LexScan(text, Quotes)[i - 1] # ""
  BY LexedAt, Zenon
<1>2. \A i : i \in Literal(final, {"sq", "dq"}) <=> i \in 1 .. Len(final) /\ LexScan(final, {"sq", "dq"})[i - 1] # ""
  BY LexedAt, Zenon
<1>3. Len(final) = Len(text) /\ Len(text) \in Nat
  BY DEF Requoted
<1>4. ASSUME NEW i \in 1 .. Len(text)
      PROVE  LexScan(final, {"sq", "dq"})[i - 1] # "" <=> LexScan(text, Quotes)[i - 1] # ""
  <2>1. i - 1 \in 0 .. Len(text)
    BY <1>3
  <2>2. LexScan(final, {"sq", "dq"})[i - 1]
           = IF LexScan(text, Quotes)[i - 1] = "bt" THEN "dq" ELSE LexScan(text, Quotes)[i - 1]
    BY <2>1, Relexed
  <2> QED BY <2>2
<1>5. \A i : i \in Literal(final, {"sq", "dq"}) <=> i \in Literal(text, Quotes)
  BY <1>1, <1>2, <1>3, <1>4
<1>6. \A A, B : (\A i : i \in A <=> i \in B) => A = B
  OBVIOUS
<1> QED BY <1>5, <1>6, Zenon

\* What a MySQL client means, item by item.
LEMMA MeantMy ==
  ASSUME NEW text \in Seq(MyChars)
  PROVE  LET m == Meant(text, Quotes) IN
         /\ m = [i \in 1 .. Len(text) |-> m[i]]
         /\ \A i \in 1 .. Len(text) :
              m[i] = IF Mark(text, i) THEN Bound[Cardinality(Marks(text, i))]
                     ELSE IF text[i] = "bt" /\ LexScan(text, Quotes)[i - 1] # "sq" THEN "dq" ELSE text[i]
<1> DEFINE m == Meant(text, Quotes)
           at == Lexed(text, Quotes)
           nth(i) == Cardinality({j \in 1 .. i : at[j] = "" /\ text[j] = "?"})
           item(i) == CASE at[i] = "" /\ text[i] = "?" -> Bound[nth(i)]
                        [] at[i] = "" /\ text[i] \in DOMAIN IndexOf -> Bound[IndexOf[text[i]]]
                        [] at[i] # "sq" /\ text[i] = "bt" -> "dq"
                        [] OTHER -> text[i]
<1>1. Len(text) \in Nat /\ DOMAIN text = 1 .. Len(text) /\ \A i \in 1 .. Len(text) : text[i] \in MyChars
  OBVIOUS
<1>2. m = [i \in 1 .. Len(text) |-> item(i)]
  BY <1>1, Zenon DEF Meant
<1>3. ASSUME NEW i \in 1 .. Len(text)
      PROVE  item(i) = IF Mark(text, i) THEN Bound[Cardinality(Marks(text, i))]
                       ELSE IF text[i] = "bt" /\ LexScan(text, Quotes)[i - 1] # "sq" THEN "dq" ELSE text[i]
  <2>1. text[i] \notin {"$1", "$2"}
    BY <1>1 DEF MyChars, Quotes
  <2>2. text[i] \notin DOMAIN IndexOf
    BY <2>1, Indices
  <2>3. \A j \in 1 .. Len(text) : at[j] = LexScan(text, Quotes)[j - 1]
    BY LexedAt
  <2> HIDE DEF at
  <2>4. nth(i) = Cardinality(Marks(text, i))
    <3>1. \A j \in 1 .. i : j \in 1 .. Len(text)
      BY <1>1
    <3>2. {j \in 1 .. i : at[j] = "" /\ text[j] = "?"} = Marks(text, i)
      BY <2>3, <3>1 DEF Marks, Mark
    <3> QED BY <3>2
  <2>5. Mark(text, i) <=> at[i] = "" /\ text[i] = "?"
    BY <2>3 DEF Mark
  <2> HIDE DEF nth
  <2> QED BY <2>2, <2>3, <2>4, <2>5
<1>4. \A i \in 1 .. Len(text) : m[i] = item(i)
  <2> HIDE DEF m, item
  <2> QED BY <1>2
<1>5. m = [i \in 1 .. Len(text) |-> m[i]]
  <2> HIDE DEF m, item
  <2> QED BY <1>2, <1>4
<1> HIDE DEF item, m
<1> QED BY <1>3, <1>4, <1>5 DEF m

\* substituteArgs and backticksToQuotes on a text of any length without backslashes,
\* with no quote and no placeholder in a comment and no quote inside another but
\* single ones: with as many values bound as HandleStmtPrepare said, each
\* ends up where the client meant it and the literals stay what they were; the
\* number is that of the placeholders unless a literal holds a question mark.
THEOREM MyTextsInPlace ==
  ASSUME NEW text \in Seq(MyChars), placeholderCount(text) <= Len(Bound), PlainText(text)
  PROVE  LET told == placeholderCount(text)
             final == backticksToQuotes(substituteArgs(text, SubSeq(Bound, 1, told)))
         IN MyInPlace(text, told, final)
<1> DEFINE told == placeholderCount(text)
           mid == substituteArgs(text, SubSeq(Bound, 1, told))
           final == backticksToQuotes(mid)
           Item == MyChars \cup {Bound[i] : i \in DOMAIN Bound}
           l == LexScan(text, Quotes)
<1>1. (\A i \in 1 .. Len(text) : text[i] # "bs") /\ PlainQuotes(text) /\ PlainComments(text, Quotes)
  BY PlainChars DEF PlainText
<1>2. /\ mid \in Seq(Item) /\ Len(mid) = Len(text)
      /\ \A j \in 1 .. Len(text) :
           mid[j] = IF Mark(text, j) THEN Bound[Cardinality(Marks(text, j))] ELSE text[j]
  BY <1>1, ArgsResult
<1> HIDE DEF mid
<1>3. \A j \in 1 .. Len(text) : Mark(text, j) => mid[j] \notin MyChars /\ text[j] = "?"
  <2> SUFFICES ASSUME NEW j \in 1 .. Len(text), Mark(text, j) PROVE mid[j] \notin MyChars /\ text[j] = "?"
    OBVIOUS
  <2>1. Cardinality(Marks(text, j)) \in 1 .. CountOf(text, "?")
    BY MarkNumber
  <2>2. CountOf(text, "?") \in Nat /\ CountOf(text, "?") <= Len(Bound)
    BY MarksCount DEF placeholderCount
  <2>3. DOMAIN Bound = 1 .. Len(Bound) /\ Len(Bound) \in Nat /\ \A i \in DOMAIN Bound : Bound[i] \notin MyChars
    BY BoundAssumption
  <2>4. \A n, a, b \in Nat : a <= b => \A i \in 1 .. a : i \in 1 .. b
    OBVIOUS
  <2>5. Bound[Cardinality(Marks(text, j))] \notin MyChars
    BY <2>1, <2>2, <2>3, <2>4
  <2> QED BY <1>2, <2>5 DEF Mark
<1>4. SameQuotes(text, mid)
  BY <1>2, <1>3 DEF SameQuotes
<1>5. /\ final \in Seq(Item) /\ Len(final) = Len(text)
      /\ \A j \in 1 .. Len(text) : final[j] = IF mid[j] = "bt" /\ l[j - 1] # "sq" THEN "dq" ELSE mid[j]
  <2>1. "dq" \in Item /\ Len(text) \in 0 .. Len(text) /\ Len(mid) \in 0 .. Len(mid)
    BY <1>2 DEF MyChars, Quotes
  <2> HIDE DEF Item
  <2>2. Rewritten(text, mid, Len(text), BackticksScan(mid)[Len(text)])
    BY <1>1, <1>2, <1>4, <2>1, BackticksMatch
  <2>3. BackticksScan(mid)[Len(mid)] \in BackticksState(Item)
    BY <1>2, <2>1, BackticksRun
  <2>4. final = BackticksScan(mid)[Len(text)].out
    BY <1>2 DEF backticksToQuotes
  <2>5. BackticksScan(mid)[Len(text)].out \in Seq(Item)
    BY <1>2, <2>3 DEF BackticksState
  <2> QED BY <2>2, <2>4, <2>5 DEF Rewritten
<1> HIDE DEF final
<1>6. "bt" \in MyChars
  BY DEF MyChars, Quotes
<1>7. \A j \in 1 .. Len(text) :
        final[j] = IF Mark(text, j) THEN Bound[Cardinality(Marks(text, j))]
                   ELSE IF text[j] = "bt" /\ l[j - 1] # "sq" THEN "dq" ELSE text[j]
  <2> HIDE DEF l
  <2> QED BY <1>2, <1>3, <1>5, <1>6
<1>8. final = Meant(text, Quotes)
  <2> HIDE DEF Item
  <2>1. \A i \in 1 .. Len(final) : final[i] = Meant(text, Quotes)[i]
    BY <1>5, <1>7, MeantMy
  <2>2. Meant(text, Quotes) = [i \in 1 .. Len(final) |-> Meant(text, Quotes)[i]]
    BY <1>5, MeantMy, Zenon
  <2>3. final \in Seq(Item)
    BY <1>5
  <2> HIDE DEF l, told
  <2> QED BY <2>1, <2>2, <2>3, SameItems, Zenon
<1>9. Literal(final, {"sq", "dq"}) = Literal(text, Quotes)
  <2>1. Requoted(text, final)
    <3> HIDE DEF l
    <3>1. \A j \in 1 .. Len(text) : Mark(text, j) => text[j] = "?" /\ final[j] \notin MyChars
      BY <1>2, <1>3, <1>7
    <3> QED BY <1>5, <1>7, <3>1 DEF Requoted, l
  <2> HIDE DEF Item
  <2> QED BY <1>1, <1>5, <2>1, SameLiterals
<1>10. (\A i \in DOMAIN text \ (Open(text, Quotes)) : text[i] # "?")
         => told = Cardinality({i \in Open(text, Quotes) : text[i] = "?"})
  <2> SUFFICES ASSUME \A i \in DOMAIN text \ (Open(text, Quotes)) : text[i] # "?"
               PROVE  told = Cardinality({i \in Open(text, Quotes) : text[i] = "?"})
    OBVIOUS
  <2>1. {i \in Open(text, Quotes) : text[i] = "?"} = {i \in DOMAIN text : text[i] = "?"}
    BY DEF Open
  <2> QED BY <2>1 DEF placeholderCount, CountOf
<1> HIDE DEF told
<1>11. MyInPlace(text, told, final)
  BY <1>8, <1>9, <1>10 DEF MyInPlace
<1> QED BY <1>11 DEF told, final, mid
=============================================================================
