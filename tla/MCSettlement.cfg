SPECIFICATION FairSpec
CONSTANTS
  u1 = u1
  u2 = u2
  g1 = g1
  g2 = g2
  s1 = s1
  s2 = s2
  Users = {u1, u2}
  Owner = u1
  Requests = {g1, g2, s1, s2}
  Op <- MCOp
  Callers <- MCCallers
  Books <- OneBook
INVARIANTS
  Inductive
  PaidOnce
PROPERTIES
  SweptIsGone
  IsSuggestionList
  EveryRequestAnswered
