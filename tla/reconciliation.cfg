SPECIFICATION CountSpec
CONSTANTS
  Accounts <- StockAccounts
  Clerks = {w1}
  Options = {cup, slice}
  BaseOptions = {slice}
  Orders = {o1, o2, o3}
  MaxUnits = 2
  MaxCount = 2
  MaxRows = 3
  CountPractices = {}
INVARIANTS
  CountTypeOK
  CostExplainsStock
PROPERTIES
  CountStands
  FoundIsNetted
