SPECIFICATION CountSpec
CONSTANTS
  Accounts <- StockAccounts
  Clerks = {w1}
  Options = {cup, slice}
  BaseOptions = {}
  Orders = {o1, o2}
  MaxUnits = 2
  MaxCount = 2
  MaxRows = 5
  CountPractices = {}
PROPERTY ClearedIsZero
