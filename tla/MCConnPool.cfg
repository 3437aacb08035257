SPECIFICATION PoolFairSpec
CONSTANTS
  a = a
  b = b
  c = c
  d = d
  e = e
  Requests = {a, b, c, d, e}
  Conns = 3
  Script <- MCScript
\* An exhausted pool is the end, and so is a run whose requests are all answered.
CHECK_DEADLOCK FALSE
INVARIANTS
  NoneLost
PROPERTIES
  FrozenOnceExhausted
  AnsweredUnlessExhausted
