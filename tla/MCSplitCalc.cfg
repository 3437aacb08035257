SPECIFICATION SplitSpec
CONSTANTS
  Grain = 2
  MaxInt = 25
  MaxTotal = 12
  MaxPeople = 4
  Ratios = {0, 1, 3}
  Amounts = {0, 1, 2, 5}
  Shares = {0, 1, 2, 5}
  Calls <- MCCalls
INVARIANTS
  ShareIsExact
  ShareIsFair
  SumIsClose
  ErrorIsBounded
