CONSTANTS
  Campaigns = {c1}
  Ids = {i1}
  None = None
  Lag = FALSE
  Contents <- Hoards
  Bodies <- RealBodies
  Gappy <- RealGappy
  Loot <- RealLoot
  Workers = {w1}
  Users = {u1}
  Sent <- Requests
  Malformed = Malformed
  PushConfigured = TRUE
  MaxAttempts = 2
  Word = 16
  Disturbances = {"crash", "store", "push"}
SPECIFICATION Spec
INVARIANTS
  PartyMatchesRecord
  PartyGetsWholeReleases
PROPERTY RefinesLifecycle
CHECK_DEADLOCK FALSE
