\* Refinement and liveness: two events, the second poisoned; two consumers;
\* one disturbance; no flush.
SPECIFICATION FairSpec
CONSTANTS
  NEvents = 2
  Consumers = {c1, c2}
  Poisoned <- LastPoisoned
  MaxRetries = 2
  PublishBatch = 2
  ReadCount = 2
  MaxDisturbances = 1
  MayFlush = FALSE
PROPERTIES
  DeliversAtLeastOnce
  EverythingSettles
