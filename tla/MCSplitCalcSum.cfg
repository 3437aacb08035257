SPECIFICATION SplitSpec
CONSTANTS
  Grain = 2
  MaxInt = 25
  MaxTotal = 4
  MaxPeople = 4
  Ratios = {0, 1, 3}
  Amounts = {0, 1, 2, 5}
  Shares = {1}
  Calls <- MCCalls
INVARIANTS
  SumIsTotal
