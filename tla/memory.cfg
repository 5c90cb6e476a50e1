SPECIFICATION Spec
CONSTANTS
  Messages <- MC_Messages
  Slug <- MC_Slug
  AutoWriteMode = "aggressive"
  ConversationLimit = 1
  UserLimit = 1
  MaxTurns = 2
  Consumers = {c1, c2}
  SummarizeEvery = 2
  HotCap = 2
  ContextLimit = 2
  MaxDisturbances = 1
INVARIANTS
  PreviousExchangeIsSeen
  OneMemoryIsActive
  LastWordWins
  HotSummaryIsStored
  TurnsAreStoredOnce
PROPERTIES
  RetrievalIsSound
SYMMETRY MC_Symmetry
