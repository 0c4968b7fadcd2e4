SPECIFICATION Spec
CONSTANTS
  w1 = w1
  w2 = w2
  t1 = t1
  t2 = t2
  c1 = c1
  c2 = c2
  Intents <- TwoIntents
  Workers = {w1}
  Campaigns = {c1}
  Tenants = {t1}
  TenantOf <- OneTenant
  NoWorker = NoWorker
  NoIntent = NoIntent
  MaxSessions = 1
  StoreFails = FALSE
INVARIANTS StopsOwnSession
CHECK_DEADLOCK FALSE
