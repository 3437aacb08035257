SPECIFICATION Spec
CONSTANTS
  u1 = u1
  u2 = u2
  r1 = r1
  r2 = r2
  r3 = r3
  Users = {u1, u2}
  Owner = u1
  Requests = {r1, r2, r3}
  Bills <- MCBills
  Script <- MCScript
PROPERTIES
  RefundIsFinal
