SPECIFICATION Spec
CONSTANTS
  cake = cake
  Options = {cake}
  BaseOptions = {}
  Orders = {o1}
  Workers = {w1}
  Forms <- UnstockedForms
  LineLists <- NoLineLists
  Targets = {"confirmed", "cancelled"}
  MaxQty = 1
  MaxMovements = 6
  Practices = {}
INVARIANT StockIsConserved
