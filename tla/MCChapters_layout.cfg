CONSTANTS
  Campaigns = {c1}
  Ids = {i1}
  None = None
  Lag = FALSE
  Workers = {w1, w2}
  MaxAttempts = 2
  Disturbances = {}
  n1 = n1
  n2 = n2
  p1 = p1
  m1 = m1
  m2 = m2
  Names = {n1, n2}
  Orders = {0, 7}
  Parties = {p1}
  Maps = {m1, m2}
  Omitted = Omitted
  NoOrder = 0
  Malformed = Malformed
  Bodies <- MCMoves
SPECIFICATION FairSpec
PROPERTY LayoutOnlyMovesBySave
CHECK_DEADLOCK FALSE
