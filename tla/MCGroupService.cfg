SPECIFICATION Spec
CONSTANTS
  u1 = u1
  u2 = u2
  u3 = u3
  c1 = c1
  r1 = r1
  r2 = r2
  r3 = r3
  trip = trip
  flat = flat
  Users = {u1, u2, u3}
  Owner = u1
  Requests = {c1, r1, r2, r3}
  Creator = c1
  Admins = {u3}
  Names = {trip, flat}
  Script <- MCScript
INVARIANTS
  Inductive
  OwnerMissingOnlyAfterFailure
PROPERTIES
  IsGroupTable
  ReopenedOnlyByStaleEdit
  EditsStay
