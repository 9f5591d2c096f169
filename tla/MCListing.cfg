CONSTANTS
  Campaigns = {c1}
  Ids = {1, 2, 3}
  None = None
  Lag = TRUE
  Camp = c1
  KindOf <- MCKindOf
  va = va
  vb = vb
  bad = bad
  ValuesOf <- MCValues
  Undecodable = {bad}
  OrderOf <- MCOrder
  NameOf <- MCName
  StoreFails = TRUE
SPECIFICATION FairSpec
INVARIANTS
  ListTypeOK
  ListedOnce
  RegularListing
  AnswerInOrder
PROPERTY ListingEnds
