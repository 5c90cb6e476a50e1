\* One event, one consumer, and an operator who flushes Redis.
SPECIFICATION Spec
CONSTANTS
  NEvents = 1
  Consumers = {c1}
  Poisoned = {}
  MaxRetries = 2
  PublishBatch = 2
  ReadCount = 2
  MaxDisturbances = 0
  MayFlush = TRUE
INVARIANTS
  RedisIsDisposable
