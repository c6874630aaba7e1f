------------------------------ MODULE ChSession ------------------------------
(***************************************************************************)
(* One ClickHouse session (internal/clickhouse/handler.go) and the client  *)
(* it talks to.  The native protocol has no lengths: each side knows from  *)
(* the revision both speak which fields a packet has, and reads the next   *)
(* one from wherever it stopped.  A packet is [code, fields]; its fields   *)
(* that depend on the revision are named by the revision that brought them.*)
(* The bare string of the addendum is a packet with the code "quota".      *)
(*                                                                         *)
(* The client is external: it keeps to the protocol, sends no values (the  *)
(* server does not read any, readClientBlock) and has a revision other     *)
(* than 0, which the server takes for its own.                             *)
(***************************************************************************)
EXTENDS Engine, Fidelity

CONSTANTS
  TempTables, BlockInfo, ServerLogs, AddendumRevision,   \* proto.Feature...
  serverRevision,                                        \* proto.Version
  Revisions,                                             \* of the clients
  MaxRequests                                            \* bound on a client's packets

ASSUME RevisionAssumption ==
  /\ {TempTables, BlockInfo, ServerLogs, AddendumRevision, serverRevision, MaxRequests} \subseteq Nat
  /\ TempTables < BlockInfo /\ BlockInfo < ServerLogs /\ ServerLogs < AddendumRevision
  /\ AddendumRevision <= serverRevision /\ MaxRequests >= 1
  /\ Revisions \subseteq Nat \ {0}

VARIABLES
  revision,   \* the client's revision
  chClient,   \* the client: "hello" (sent), "ready", "query" (end of it to be sent), "gone"
  chServer,   \* handleConn: "hello", "addendum", "ready", "drain", or "over"
  version,    \* chSession.version
  in, out,    \* the packets on the way to the server, and to the client
  asked,      \* how many packets the client has sent since the handshake
  owed,       \* the requests that have no complete answer yet, oldest first
  misread     \* history: a packet was read as something it is not

ch == <<revision, chClient, chServer, version, in, out, asked, owed, misread>>

Features == {TempTables, BlockInfo, ServerLogs, AddendumRevision, serverRevision}

\* A block has a table name and an info; a hello and a query gain fields with
\* every revision; the other packets never change.
Packet(code, v) ==
  [code |-> code,
   fields |-> CASE code \in {"Data", "Log"} -> {f \in {TempTables, BlockInfo} : f <= v}
                [] code \in {"ServerHello", "Query"} -> {f \in Features : f <= v}
                [] OTHER -> {}]

\* Mutant of Capped: a newer client's revision is taken as it is.
Uncapped(r) == r

\* handshake: the client's revision, capped at the server's.
Capped(r) == IF r = 0 \/ r > serverRevision THEN serverRevision ELSE r

\* The revision the client speaks once it knows the server's.
Spoken == IF revision < serverRevision THEN revision ELSE serverRevision

Requests == {"Query", "Ping", "Data", "Cancel", "Other"}

ChInit(revisions) ==
  /\ revision \in revisions
  /\ chClient = "hello" /\ chServer = "hello" /\ version = 0
  /\ in \in {<<Packet(first, 0)>> : first \in {"Hello", "Other"}}
  /\ out = <<>> /\ asked = 0 /\ owed = <<>> /\ misread = FALSE

\* The session when there is no ClickHouse client.
ChIdle ==
  /\ revision = 1 /\ chClient = "gone" /\ chServer = "over" /\ version = 0
  /\ in = <<>> /\ out = <<>> /\ asked = 0 /\ owed = <<>> /\ misread = FALSE

-----------------------------------------------------------------------------
\* Read the next packet; if it is not what the reader takes it for, what it makes
\* of it is anybody's guess, and the session is not followed any further.
Take(isRight) ==
  /\ in # <<>>
  /\ in' = Tail(in)
  /\ misread' = ~isRight

\* session.write: it may fail once the client has gone, and ends the session then.
Write(packets, next) ==
  \/ out' = out \o packets /\ chServer' = next
  \/ chClient = "gone" /\ chServer' = "over" /\ out' = out

handshake ==
  /\ chServer = "hello"
  /\ Take(TRUE)
  /\ IF Head(in).code # "Hello"
     THEN chServer' = "over" /\ UNCHANGED <<version, out>>
     ELSE /\ version' = Capped(revision)
          /\ Write(<<Packet("ServerHello", version')>>,
                   IF version' >= AddendumRevision THEN "addendum" ELSE "ready")
  /\ UNCHANGED sent

readAddendum ==
  /\ chServer = "addendum"
  /\ Take(Head(in).code = "quota")
  /\ chServer' = "ready"
  /\ UNCHANGED <<version, out, sent>>

\* The loop of handleConn: a query is decoded, a ping answered, a stray block and
\* a cancellation ignored; anything else ends the session.
handlePacket ==
  /\ chServer = "ready"
  /\ LET p == Head(in) IN
     /\ Take(/\ p.code # "quota"
             /\ p.code \in {"Query", "Data"} => p = Packet(p.code, version))
     /\ CASE p.code = "Query" -> chServer' = "drain" /\ out' = out
          [] p.code = "Ping" -> Write(<<Packet("Pong", version)>>, "ready")
          [] p.code \in {"Data", "Cancel"} -> UNCHANGED <<chServer, out>>
          [] OTHER -> chServer' = "over" /\ out' = out
  /\ UNCHANGED <<version, sent>>

\* Mutant of sendResult: the report goes to clients of every revision.
sendResultUngated(res, notes) ==
  Write(<<Packet("Data", version)>>
          \o (IF res.rows # <<>> THEN <<Packet("Data", version)>> ELSE <<>>)
          \o (IF notes # {} THEN <<Packet("Log", version)>> ELSE <<>>)
          \o <<Packet("EndOfStream", version)>>, "ready")

\* sendResult: a header block, the rows, the report, the end.
sendResult(res, notes) ==
  Write(<<Packet("Data", version)>>
          \o (IF res.rows # <<>> THEN <<Packet("Data", version)>> ELSE <<>>)
          \o (IF notes # {} /\ version >= ServerLogs THEN <<Packet("Log", version)>> ELSE <<>>)
          \o <<Packet("EndOfStream", version)>>, "ready")

\* Mutant of readClientBlock: the empty block is taken for one with columns.
readClientBlockInverted(p) == FALSE

\* Whether a block is the empty one that ends a query; a client without values to
\* send has no other.
readClientBlock(p) == p.code = "Data"

\* drainClientData, up to the empty block, and the rest of handleQuery.
drainAndRun(results) ==
  /\ chServer = "drain"
  /\ LET p == Head(in) IN
     /\ Take(p.code = "Data" => p = Packet("Data", version))
     /\ IF p.code # "Data" THEN chServer' = "over" /\ UNCHANGED <<out, sent>>
        ELSE IF ~readClientBlock(p) THEN UNCHANGED <<chServer, out, sent>>
        ELSE \E r \in runOn("read", "idle") :
               \/ /\ ~r.ok
                  /\ Write(<<Packet("Exception", version)>>, "ready")
                  /\ sent' = NoResult
               \/ /\ r.ok
                  /\ \E res \in IF r.cols THEN results ELSE {NoResult.res} :
                       LET notes == Warnings("clickhouse", res) IN
                       /\ sendResult(res, notes)
                       /\ sent' = [proto |-> "clickhouse", formats |-> <<>>, res |-> res, told |-> notes]
  /\ UNCHANGED version

\* A read that fails: the client has gone, and everything it sent has been read.
readEnds ==
  /\ chServer # "over" /\ chClient = "gone" /\ in = <<>>
  /\ chServer' = "over"
  /\ UNCHANGED <<version, in, out, misread, sent>>

ChServerNext(results) ==
  /\ ~misread
  /\ handshake \/ readAddendum \/ handlePacket \/ drainAndRun(results) \/ readEnds
  /\ UNCHANGED <<revision, chClient, asked, owed>>

-----------------------------------------------------------------------------
\* The packets that may come in answer to a request, and the ones that end it.
AnswersTo(request) ==
  IF request = "Ping" THEN {"Pong"}
  ELSE {"Data", "EndOfStream", "Exception"} \cup (IF Spoken >= ServerLogs THEN {"Log"} ELSE {})
LastOnes == {"Pong", "EndOfStream", "Exception"}

\* The client reads a packet: the server's hello, which it answers with the
\* addendum, or a part of the answer to its oldest request.
ClientReads ==
  /\ chClient # "gone" /\ out # <<>> /\ ~misread
  /\ out' = Tail(out)
  /\ LET p == Head(out)
         hello == chClient = "hello"
         expected == IF hello THEN {"ServerHello"}
                     ELSE IF owed = <<>> THEN {} ELSE AnswersTo(Head(owed))
     IN /\ misread' = (p.code \notin expected \/ p # Packet(p.code, Spoken))
        /\ chClient' = IF hello THEN "ready" ELSE chClient
        /\ in' = IF hello /\ Spoken >= AddendumRevision THEN Append(in, Packet("quota", Spoken)) ELSE in
        /\ owed' = IF owed # <<>> /\ p.code \in LastOnes THEN Tail(owed) ELSE owed
  /\ UNCHANGED <<revision, chServer, version, asked, sent>>

\* It sends a request without waiting for the answers to earlier ones; between a
\* query and the empty block that ends it, it may only cancel.
ClientAsks(request, bound) ==
  /\ chClient = "ready" \/ (chClient = "query" /\ request = "Cancel")
  /\ asked < bound
  /\ asked' = asked + 1
  /\ in' = Append(in, Packet(request, Spoken))
  /\ owed' = IF request \in {"Query", "Ping"} THEN Append(owed, request) ELSE owed
  /\ chClient' = IF request = "Query" THEN "query" ELSE chClient
  /\ UNCHANGED <<revision, chServer, version, out, misread, sent>>

ClientEndsQuery ==
  /\ chClient = "query"
  /\ chClient' = "ready"
  /\ in' = Append(in, Packet("Data", Spoken))
  /\ UNCHANGED <<revision, chServer, version, out, asked, owed, misread, sent>>

ClientLeaves ==
  /\ chClient # "gone"
  /\ chClient' = "gone"
  /\ UNCHANGED <<revision, chServer, version, in, out, asked, owed, misread, sent>>

ChTypeOK ==
  /\ revision \in Nat /\ version \in 0 .. serverRevision
  /\ chClient \in {"hello", "ready", "query", "gone"}
  /\ chServer \in {"hello", "addendum", "ready", "drain", "over"}
  /\ {in[i].code : i \in DOMAIN in} \subseteq Requests \cup {"Hello", "quota"}
  /\ {out[i].code : i \in DOMAIN out} \subseteq LastOnes \cup {"ServerHello", "Data", "Log"}
  /\ asked \in 0 .. MaxRequests
  /\ {owed[i] : i \in DOMAIN owed} \subseteq {"Query", "Ping"}
  /\ misread \in BOOLEAN

-----------------------------------------------------------------------------
(***************************************************************************)
(* The two sides stay in step: whatever revision the client has, and       *)
(* however it pipelines requests, cancels and stray blocks, every packet   *)
(* is read as what it was sent as, and every answer belongs to the oldest  *)
(* request that has none (handshake, readClientBlock, writeBlockPacket,    *)
(* the gate on ServerLogs in sendResult).                                  *)
(***************************************************************************)
InStep == ~misread

(***************************************************************************)
(* Every request is answered, unless the connection ends first.  It needs  *)
(* the server to run, and the client to end the queries it began and to    *)
(* read (handleConn, drainClientData).                                     *)
(***************************************************************************)
Answered == (owed # <<>>) ~> (owed = <<>> \/ chServer = "over")
=============================================================================
