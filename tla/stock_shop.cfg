SPECIFICATION Spec
CONSTANTS
  cake = cake
  Options = {cake}
  BaseOptions = {}
  Orders = {o1, o2}
  Workers = {w1}
  Forms <- StockedForms
  LineLists <- StockedLineLists
  Targets = {"confirmed", "cancelled"}
  MaxQty = 1
  MaxMovements = 5
  Practices = {}
SYMMETRY OrderSymmetry
INVARIANTS
  OrdersHoldTheirLines
  BalanceIsOwedByOrders
  StockIsConserved
PROPERTIES
  ImplementsStockPosition
