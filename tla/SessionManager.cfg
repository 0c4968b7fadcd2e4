SPECIFICATION SessionsSpec
CONSTANTS
  Tenants = {t1, t2}
  MaxSessions = 1
  MaxRows = 2
  NoTenant = NoTenant
  StoreFails = TRUE
  u1 = u1
  u2 = u2
  Turns = {u1, u2}
  Agents = {a1, a2}
  Speakers = {s1}
  ReplayKey = ReplayKey
  NoTurn = NoTurn
  NoAgent = NoAgent
INVARIANTS MgrInv 
PROPERTIES ImplementsPool  ReservationSettles TurnsSettle
CHECK_DEADLOCK FALSE
