---------------------------- MODULE MCSqlServer ----------------------------
(***************************************************************************)
(* Model values for SqlServer.  Connections and writes are interchangeable,*)
(* and so are the sessions of one protocol.                                *)
(***************************************************************************)
EXTENDS SqlServer, TLC

CONSTANTS p1, p2, m1, c1, k1, k2, k3, k4, w1, w2

MCPg == {p1, p2}
MCPgOne == {p1}
MCMy == {m1}
MCCh == {c1}
MCConns == {k1, k2, k3, k4}
MCConnsTwo == {k1, k2}
MCWrites == {w1, w2}
MCNone == {}

Symm == Permutations(MCPg) \cup Permutations(MCConns) \cup Permutations(MCWrites)
=============================================================================
