SPECIFICATION EdgesSpec
CONSTANTS
  w1 = w1
  t1 = t1
  c1 = c1
  r1 = r1
  r2 = r2
  g1 = g1
  g2 = g2
  Intents <- OneIntent
  Workers = {w1}
  Campaigns = {c1}
  Tenants = {t1}
  TenantOf <- OneTenant
  NoWorker = NoWorker
  NoIntent = NoIntent
  MaxSessions = 1
  StoreFails = TRUE
  Bots = {k1, k2}
  EnvBot = k1
  Renters = {r1, r2}
  Guilds = {g1, g2}
  NoBot = NoBot
  NoGuild = NoGuild
  HomeOf <- Homes
  Gateways = {d1, d2, d3}
  NoGateway = NoGateway
  MaxUpsets = 2
INVARIANTS WebInv ClientsInv
PROPERTIES GivenUpEnds  StopHonoured ZombieEnds DiscordSettles
CHECK_DEADLOCK FALSE
