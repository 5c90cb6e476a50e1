SPECIFICATION FairSpec
CONSTANTS
  c1 = c1
  c2 = c2
  Conversation = {c1}
  ConversationOf <- OneConversation
  MaxEvents = 2
  MaxHandlers = 2
  QueueCapacity = 1
  MaxDeliveries = 1
  MaxDisturbances = 1
  MaxParallel = 2
  MaxChunks = 2
  HotTurnCap = 3
  KillSwitch = FALSE
CHECK_DEADLOCK TRUE
INVARIANTS
  ConfirmedIsPersisted
  QueuedOnce
  RepliesAreWhole
  HotTurnsAlternate
  ProcessedIsAnswered
  PermitsAreReturned
PROPERTIES
  EventsPass
