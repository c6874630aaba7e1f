----------------------------- MODULE PgContract -----------------------------
(***************************************************************************)
(* What a Postgres session promises its client, whatever the texts: when a *)
(* transaction may begin or end, what the client is told of it, and which  *)
(* messages go unanswered.  PgSession is shown to implement it.            *)
(***************************************************************************)

VARIABLES
  phase,      \* "startup", "ready" or "closed"
  busy,       \* a transaction is open in DuckDB
  skipping,   \* an error has been sent and Sync has not come yet
  told        \* the last message, its answer and the status byte sent with it

vars == <<phase, busy, skipping, told>>

Statuses == {"I", "T", "E"}

Tell(msg, reply, status) == told' = [msg |-> msg, reply |-> reply, status |-> status]

\* A status byte that tells the truth about the state after the message.
TellStatus(msg, reply) ==
  \E s \in Statuses : (s = "I" <=> ~busy') /\ Tell(msg, reply, s)

Init ==
  /\ phase = "startup"
  /\ busy = FALSE /\ skipping = FALSE
  /\ told = [msg |-> "none", reply |-> "none", status |-> "-"]

Greet ==
  /\ phase = "startup"
  /\ \/ phase' = phase /\ Tell("SSLRequest", "no", "-")
     \/ phase' = "ready" /\ TellStatus("Startup", "ready")
  /\ UNCHANGED <<busy, skipping>>

\* A simple query may begin or end a transaction and is always answered.
SimpleQuery ==
  /\ phase = "ready"
  /\ busy' \in BOOLEAN
  /\ \E r \in {"empty", "complete", "error"} : TellStatus("Query", r)
  /\ UNCHANGED <<phase, skipping>>

\* Parse, Bind and Describe leave the transaction alone.  The client is told
\* nothing exactly while the batch is skipped, and an error starts the skipping.
Prepare(msg, replies) ==
  /\ phase = "ready"
  /\ IF skipping
     THEN Tell(msg, "none", "-") /\ UNCHANGED skipping
     ELSE \E r \in replies : Tell(msg, r, "-") /\ skipping' = (r = "error")
  /\ UNCHANGED <<phase, busy>>

\* Execute may begin or end a transaction unless it is skipped.
Execute ==
  /\ phase = "ready"
  /\ IF skipping
     THEN Tell("Execute", "none", "-") /\ UNCHANGED <<busy, skipping>>
     ELSE \E r \in {"complete", "error"} :
            /\ Tell("Execute", r, "-")
            /\ skipping' = (r = "error")
            /\ busy' \in BOOLEAN
  /\ UNCHANGED phase

\* Sync ends the skipping, never the transaction.
Sync ==
  /\ phase = "ready"
  /\ skipping' = FALSE
  /\ UNCHANGED <<phase, busy>>
  /\ TellStatus("Sync", "ready")

\* Close is answered even while the batch is skipped.
Close ==
  /\ phase = "ready"
  /\ Tell("Close", "closed", "-")
  /\ UNCHANGED <<phase, busy, skipping>>

Flush ==
  /\ phase = "ready"
  /\ Tell("Flush", "none", "-")
  /\ UNCHANGED <<phase, busy, skipping>>

Leave ==
  /\ phase # "closed"
  /\ phase' = "closed"
  /\ Tell("Terminate", "none", "-")
  /\ UNCHANGED <<busy, skipping>>

Next ==
  \/ Greet \/ SimpleQuery \/ Execute \/ Sync \/ Close \/ Flush \/ Leave
  \/ Prepare("Parse", {"parsed"})
  \/ Prepare("Bind", {"bound"})
  \/ Prepare("Describe", {"nodata", "rowdesc", "error"})

Spec == Init /\ [][Next]_vars
=============================================================================
