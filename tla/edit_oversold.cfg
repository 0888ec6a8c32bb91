SPECIFICATION Spec
CONSTANTS
  cake = cake
  Options = {cake}
  BaseOptions = {}
  Orders = {o1}
  Workers = {w1}
  Forms <- CounterForms
  LineLists <- OneLineLists
  Targets = {"confirmed"}
  MaxQty = 1
  MaxMovements = 6
  Practices = {"edit_oversold"}
INVARIANT EditGivesBackTheBalance
