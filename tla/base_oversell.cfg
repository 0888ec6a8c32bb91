SPECIFICATION Spec
CONSTANTS
  cake = cake
  Options = {cake}
  BaseOptions = {cake}
  Orders = {o1, o2}
  Workers = {w1}
  Forms <- CounterForms
  LineLists <- NoLineLists
  Targets = {"confirmed"}
  MaxQty = 1
  MaxMovements = 6
  Practices = {}
INVARIANT OneBalancePerOption
