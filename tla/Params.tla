------------------------------- MODULE Params -------------------------------
(***************************************************************************)
(* How the sessions put bound values into a prepared text: substituteArgs  *)
(* and backticksToQuotes (internal/mysql/handler.go), scanParams and       *)
(* substituteParams (internal/pg/handler.go).  A text is a sequence of     *)
(* character classes: single, double and back quote, backslash, the        *)
(* placeholders ("?"; "$1", "$2"), the two dashes of a line comment, the   *)
(* end of a line, and "x" for any other character.  An inlined value is a  *)
(* single item: its own quotes are doubled (quoteArg, escapeSQL), so that  *)
(* no scanner and no lexer sees an end of the literal inside it.  (A       *)
(* negative number, which quoteArg leaves bare, would make a comment of a  *)
(* minus sign right before it: left out.)  No scanner knows comments.      *)
(* Block comments and dollar quotes, which they do not know either, are    *)
(* left out.  A loop over a text is a recursive function: its state after  *)
(* so many characters.                                                     *)
(***************************************************************************)
EXTENDS Naturals, Sequences, FiniteSets

CONSTANT Bound      \* the values a client binds, in order, as they are inlined

Quotes == {"sq", "dq", "bt"}
MyChars == Quotes \cup {"bs", "?", "--", "nl", "x"}
PgChars == {"sq", "dq", "$1", "$2", "--", "nl", "x"}

ASSUME BoundAssumption ==
  /\ Bound \in Seq(STRING) /\ Len(Bound) >= 2
  /\ \A i \in DOMAIN Bound : Bound[i] \notin MyChars \cup PgChars

CountOf(text, c) == Cardinality({i \in DOMAIN text : text[i] = c})

-----------------------------------------------------------------------------
\* Mutant of scanArgs: literals are not special-cased.
scanArgsBlind(args, st, c) ==
  IF c = "?" /\ st.ai < Len(args)
  THEN [st EXCEPT !.out = Append(@, args[st.ai + 1]), !.ai = @ + 1]
  ELSE [st EXCEPT !.out = Append(@, c)]

\* The loop body of substituteArgs, for one character; esc says that the last
\* one was a backslash inside a literal.
scanArgs(args, st, c) ==
  LET copied == [st EXCEPT !.out = Append(@, c), !.esc = FALSE] IN
  CASE st.esc -> copied
    [] ~st.esc /\ st.quote # "" ->
         [copied EXCEPT !.esc = (c = "bs"), !.quote = IF c = st.quote THEN "" ELSE @]
    [] ~st.esc /\ st.quote = "" /\ c \in Quotes -> [copied EXCEPT !.quote = c]
    [] ~st.esc /\ st.quote = "" /\ c = "?" /\ st.ai < Len(args) ->
         [st EXCEPT !.out = Append(@, args[st.ai + 1]), !.ai = @ + 1]
    [] OTHER -> copied

ArgsScan(text, args) ==
  LET after[k \in 0 .. Len(text)] ==
        IF k = 0 THEN [quote |-> "", esc |-> FALSE, ai |-> 0, out |-> <<>>]
        ELSE scanArgs(args, after[k - 1], text[k])
  IN after

substituteArgs(text, args) ==
  IF args = <<>> THEN text ELSE ArgsScan(text, args)[Len(text)].out

\* The loop body of backticksToQuotes; inStr says that it is in single quotes.
scanBackticks(st, c) ==
  [inStr |-> IF c = "sq" THEN ~st.inStr ELSE st.inStr,
   out |-> Append(st.out, IF c = "bt" /\ ~st.inStr THEN "dq" ELSE c)]

BackticksScan(text) ==
  LET after[k \in 0 .. Len(text)] ==
        IF k = 0 THEN [inStr |-> FALSE, out |-> <<>>] ELSE scanBackticks(after[k - 1], text[k])
  IN after

backticksToQuotes(text) == BackticksScan(text)[Len(text)].out

\* HandleStmtPrepare.
placeholderCount(text) == CountOf(text, "?")

-----------------------------------------------------------------------------
IndexOf == [c \in {"$1", "$2"} |-> IF c = "$1" THEN 1 ELSE 2]

\* The loop body of scanParams at position i; a doubled quote inside a literal is
\* taken in one step, skip passes over its second half.
scanParams(text, args, st, i) ==
  LET c == text[i]
      copied == [st EXCEPT !.out = Append(@, c), !.skip = FALSE]
      doubled == i < Len(text) /\ text[i + 1] = c
  IN CASE st.skip -> copied
       [] ~st.skip /\ st.quote # "" ->
            IF c # st.quote THEN copied
            ELSE IF doubled THEN [copied EXCEPT !.skip = TRUE] ELSE [copied EXCEPT !.quote = ""]
       [] ~st.skip /\ st.quote = "" /\ c \in {"sq", "dq"} -> [copied EXCEPT !.quote = c]
       [] ~st.skip /\ st.quote = "" /\ c \in DOMAIN IndexOf ->
            [st EXCEPT !.out = Append(@, IF IndexOf[c] <= Len(args) THEN args[IndexOf[c]] ELSE "NULL"),
                       !.max = IF IndexOf[c] > @ THEN IndexOf[c] ELSE @]
       [] OTHER -> copied

ParamsScan(text, args) ==
  LET after[k \in 0 .. Len(text)] ==
        IF k = 0 THEN [quote |-> "", skip |-> FALSE, max |-> 0, out |-> <<>>]
        ELSE scanParams(text, args, after[k - 1], k)
  IN after

substituteParams(text, args) == ParamsScan(text, args)[Len(text)].out
maxParamIndex(text) == ParamsScan(text, <<>>)[Len(text)].max

-----------------------------------------------------------------------------
(***************************************************************************)
(* DuckDB's lexer: what has begun the literal or the comment it is inside  *)
(* of after so many characters of a text, "" if none.  A quote ends what   *)
(* the same quote has begun; a doubled one ends and begins it again.  The  *)
(* end of the line ends a comment.  A backslash means nothing.             *)
(***************************************************************************)
Closing(quote) == IF quote = "--" THEN "nl" ELSE quote

lex(quotes, quote, c) ==
  IF quote = "" /\ c \in quotes \cup {"--"} THEN c ELSE IF c = Closing(quote) THEN "" ELSE quote

LexScan(text, quotes) ==
  LET after[k \in 0 .. Len(text)] ==
        IF k = 0 THEN "" ELSE lex(quotes, after[k - 1], text[k])
  IN after

\* For every position of a text what it is inside of.
Lexed(text, quotes) == [i \in DOMAIN text |-> LexScan(text, quotes)[i - 1]]

\* What the client means: outside literals and comments the n-th "?" is the n-th
\* value, "$n" is the n-th value; a back quote outside strings is a double quote.
Meant(text, quotes) ==
  LET at == Lexed(text, quotes)
      nth(i) == Cardinality({j \in 1 .. i : at[j] = "" /\ text[j] = "?"})
  IN [i \in DOMAIN text |->
        CASE at[i] = "" /\ text[i] = "?" -> Bound[nth(i)]
          [] at[i] = "" /\ text[i] \in DOMAIN IndexOf -> Bound[IndexOf[text[i]]]
          [] at[i] # "sq" /\ text[i] = "bt" -> "dq"
          [] OTHER -> text[i]]

\* The positions inside literals and comments, and the others.
Literal(text, quotes) ==
  LET at == Lexed(text, quotes) IN {i \in DOMAIN text : at[i] # ""}
Open(text, quotes) == DOMAIN text \ Literal(text, quotes)

\* A text with no quote and no placeholder in a comment,
PlainComments(text, quotes) ==
  \A i \in DOMAIN text :
    Lexed(text, quotes)[i] = "--" => text[i] \notin Quotes \cup {"?", "$1", "$2"}

\* and one for MySQL that has other quotes only inside single quotes,
PlainLiterals(text) ==
  LET at == Lexed(text, Quotes) IN
  \A i \in DOMAIN text : at[i] \in {"dq", "bt"} => text[i] \notin Quotes \ {at[i]}

\* and no backslash: the scanners read it as DuckDB does.
PlainText(text) ==
  /\ CountOf(text, "bs") = 0
  /\ PlainComments(text, Quotes)
  /\ PlainLiterals(text)

\* A text that ran as final with as many values as told: every value is where the
\* client meant it, and no more and no fewer were asked for than there is room for.
PgInPlace(text, told, final) ==
  LET open == Open(text, {"sq", "dq"}) IN
  /\ final = Meant(text, {"sq", "dq"})
  /\ \A n \in {"$1", "$2"} : (\E i \in open : text[i] = n) => told >= IndexOf[n]
  /\ told > 0 => \E i \in open : text[i] \in DOMAIN IndexOf /\ IndexOf[text[i]] = told

\* For MySQL DuckDB also finds the literals where they were.
MyInPlace(text, told, final) ==
  LET open == Open(text, Quotes) IN
  /\ final = Meant(text, Quotes)
  /\ Literal(final, {"sq", "dq"}) = Literal(text, Quotes)
  /\ (\A i \in DOMAIN text \ open : text[i] # "?") => told = Cardinality({i \in open : text[i] = "?"})
=============================================================================
