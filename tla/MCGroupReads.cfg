SPECIFICATION Spec
CONSTANTS
  ann = ann
  bob = bob
  e1 = e1
  e2 = e2
  food = food
  rent = rent
  Ids = {e1, e2}
  Users = {ann, bob}
  Bills <- MCBills
  Categories = {food, rent}
  CategoryOf <- MCCategoryOf
  Recent = {e2}
  MaxCommits = 1
INVARIANTS
  FiguresAgree
