SPECIFICATION FairSpec
CONSTANTS
  u1 = u1
  u2 = u2
  u3 = u3
  u4 = u4
  MaxCents = 4
  Users = {u1, u2, u3, u4}
  Inputs <- Spread
INVARIANTS
  EveryCentCounted
  OneSideCleared
  PlanIsPromised
  Clears
  Inductive
PROPERTIES
  IsClearing
  Returns
