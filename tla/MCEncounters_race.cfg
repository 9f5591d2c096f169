CONSTANTS
  Campaigns = {c1}
  Ids = {i1}
  None = None
  Lag = TRUE
  full = full
  sparse = sparse
  Bodies <- MCBodies
  Gappy <- MCGappy
  Loot <- MCLoot
  Workers = {w1, w2}
  Users = {u1}
  Sent <- SentBodies
  Malformed = Malformed
  PushConfigured = TRUE
  MaxAttempts = 2
  Disturbances = {"crash", "store", "push"}
SPECIFICATION Spec
SYMMETRY Slots
INVARIANTS
  TypeOK
  StampIffReleased
  ReleasedIsComplete
  AnswersAreHonest
  PushAfterCommit
  DescentOK
PROPERTY RefinesLineage
CHECK_DEADLOCK FALSE
