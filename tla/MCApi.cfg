CONSTANTS
  Campaigns = {c1, c2}
  Ids = {settings}
  SettingsId = settings
  None = None
  Lag = FALSE
  c1 = c1
  c2 = c2
  k1 = k1
  k2 = k2
  forged = forged
  gm = gm
  player = player
  Workers = {w1}
  MaxAttempts = 2
  Disturbances = {"crash", "store", "letsroll", "issuer"}
  IssuerKeys = {k1, k2}
  FirstKey = k1
  Tokens <- MCTokens
  AudienceRequired = TRUE
  Skew = 1
  Horizon = 2
  Freezes = TRUE
  PartyInputs <- MCInputs
  Malformed = Malformed
  GMs <- MCGMs
  Sent <- MCSent
SPECIFICATION FairSpec
INVARIANTS
  TypeOK
  AnswersAreHonest
  StoredAsSent
PROPERTIES
  NobodyWritesUnvetted
  OutageTolerated
  RotationPickedUp
CHECK_DEADLOCK FALSE
