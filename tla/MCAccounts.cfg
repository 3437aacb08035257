SPECIFICATION Spec
CONSTANTS
  root = root
  ann = ann
  bob = bob
  admin = admin
  annie = annie
  bobby = bobby
  atRoot = atRoot
  atAnn = atAnn
  none = none
  p1 = p1
  p2 = p2
  r1 = r1
  r2 = r2
  r3 = r3
  Ids = {root, ann, bob}
  Root = root
  Names = {admin, annie, bobby}
  RootName = admin
  Emails = {atRoot, atAnn}
  RootEmail = atRoot
  NoEmail = none
  Passwords = {p1, p2}
  RootPassword = p1
  Requests = {r1, r2}
  Script <- MCScript
INVARIANTS
  Inductive
  OneAccountEach
  AdminsAreMade
PROPERTIES
  WrittenByOwnerOrAdmin
  PasswordStaysAsTold
