SPECIFICATION Spec
CONSTANTS
  LimitPerMin = 2
  DefaultLimit = 3
  Window = 2
  MaxRetries = 1
  Horizon = 3
  MaxPipelines = 6
INVARIANTS
  RedisKeepsLimit
  MinuteBound
PROPERTIES
  RefusedOnlyWhenBusy
