\* Safety: two events, the second poisoned; two consumers; two disturbances; a flush.
SPECIFICATION Spec
CONSTANTS
  NEvents = 2
  Consumers = {c1, c2}
  Poisoned <- LastPoisoned
  MaxRetries = 2
  PublishBatch = 2
  ReadCount = 2
  MaxDisturbances = 2
  MayFlush = TRUE
SYMMETRY Interchangeable
INVARIANTS
  NothingIsLost
  OnceWhenCalm
  DeadLettersAreEarned
