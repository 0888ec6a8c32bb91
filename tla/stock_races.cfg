SPECIFICATION Spec
CONSTANTS
  cake = cake
  bread = bread
  Options = {cake, bread}
  BaseOptions = {cake}
  Orders = {o1}
  Workers = {w1, w2}
  Forms <- AnyForms
  LineLists <- AnyLineLists
  Targets = {"confirmed", "cancelled"}
  MaxQty = 1
  MaxMovements = 3
  Practices = {"reopen", "step_back", "skip_confirm", "short_stock", "edit_oversold"}
SYMMETRY WorkerSymmetry
INVARIANTS
  TypeOK
  LotCountsMatch
  ConsumptionIsRecorded
