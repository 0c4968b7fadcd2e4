SPECIFICATION Spec
CONSTANTS
  w1 = w1
  w2 = w2
  t1 = t1
  t2 = t2
  c1 = c1
  c2 = c2
  Intents <- TwoIntents
  Workers = {w1}
  Campaigns = {c1, c2}
  Tenants = {t1, t2}
  TenantOf <- TwoTenants
  NoWorker = NoWorker
  NoIntent = NoIntent
  MaxSessions = 1
  StoreFails = TRUE
INVARIANTS ClaimInv WithinCapacity
CHECK_DEADLOCK FALSE
