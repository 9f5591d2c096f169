CONSTANTS
  Campaigns = {c1, c2}
  Ids = {i1}
  None = None
  Lag = FALSE
  full = full
  sparse = sparse
  Bodies <- MCBodies
  Gappy <- MCGappy
  Loot <- MCLoot
  Workers = {w1}
  Users = {u1, u2}
  Sent <- SentTenants
  Malformed = Malformed
  PushConfigured = FALSE
  MaxAttempts = 1
  Disturbances = {"letsroll", "roles"}
SPECIFICATION Spec
SYMMETRY Callers
INVARIANTS
  Sound
  AuthorsWereGMs
  WritesGoToTheURL
CHECK_DEADLOCK FALSE
