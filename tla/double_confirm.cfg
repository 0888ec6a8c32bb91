SPECIFICATION Spec
CONSTANTS
  cake = cake
  Options = {cake}
  BaseOptions = {}
  Orders = {o1}
  Workers = {w1, w2}
  Forms <- CounterForms
  LineLists <- NoLineLists
  Targets = {"confirmed"}
  MaxQty = 1
  MaxMovements = 6
  Practices = {}
INVARIANT DeductedOnce
