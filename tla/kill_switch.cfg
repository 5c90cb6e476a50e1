SPECIFICATION Spec
CONSTANTS
  c1 = c1
  c2 = c2
  Conversation = {c1}
  ConversationOf <- OneConversation
  MaxEvents = 2
  MaxHandlers = 2
  QueueCapacity = 1
  MaxDeliveries = 1
  MaxDisturbances = 0
  MaxParallel = 2
  MaxChunks = 2
  HotTurnCap = 3
  KillSwitch = TRUE
CHECK_DEADLOCK TRUE
INVARIANTS
  KillSwitchHolds
