SPECIFICATION Spec
CONSTANTS
  Workers = {w1, w2}
  Staff = {an, binh}
  NoStaff = nobody
  Admins = {}
  Blanks = {base}
  ItemForms <- TwoForms
  Lists <- TwoLists
  Patches <- DeskPatches
  Same = same
  Fees = {0}
  ItemTargets = {"delivered", "cancelled"}
  OrderTargets = {"confirmed", "completed", "cancelled"}
  MaxItems = 2
  MaxQty = 1
  Practices = {}
SYMMETRY WorkerSymmetry
INVARIANTS
  TypeOK
  ListAgrees
  FinishedWithItsItems
PROPERTY ImplementsOrderClaim
