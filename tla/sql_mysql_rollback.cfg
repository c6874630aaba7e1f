SPECIFICATION Spec
CONSTANTS
  Stub = FALSE
  p1 = p1  p2 = p2  m1 = m1  c1 = c1
  k1 = k1  k2 = k2  k3 = k3  k4 = k4
  w1 = w1  w2 = w2
  PgClients <- MCNone
  MyClients <- MCMy
  ChClients <- MCCh
  Conns <- MCConnsTwo
  NoConn = NoConn
  Writes <- MCWrites
  MaxIdle = 2
  PoolTx = TRUE
  Abrupt = FALSE
INVARIANT RetractedStaysOut
