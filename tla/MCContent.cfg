CONSTANTS
  None = None
  Heads <- MCHeads
  PlainHead <- MCPlain
  Rows <- AllRows
  Mixed <- LootRows
  MaxRows = 3
  Word = 8
SPECIFICATION Spec
INVARIANTS
  ContentTypeOK
  SavedIsStable
  SaveKeepsGaps
  PayloadAcceptable
  GapsAreRowwise
  GateProtectsLoot
  CoinsAddUp
  MigrationKeepsLoot
  FinishedIsStrict
CHECK_DEADLOCK FALSE
