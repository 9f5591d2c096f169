CONSTANTS
  Campaigns = {c1}
  Ids = {i1}
  None = None
  Lag = FALSE
  full = full
  sparse = sparse
  Bodies <- MCBodies
  Gappy <- MCGappy
  Loot <- MCLoot
  Workers = {w1, w2}
  Users = {u1}
  Sent <- SentBodies
  Malformed = Malformed
  PushConfigured = TRUE
  MaxAttempts = 2
  Disturbances = {}
SPECIFICATION FairSpec
PROPERTY DeletedStaysDeleted
CHECK_DEADLOCK FALSE
