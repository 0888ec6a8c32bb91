SPECIFICATION Spec
CONSTANTS
  Workers = {w1, w2}
  Staff = {an, binh}
  NoStaff = nobody
  Admins = {}
  Blanks = {}
  ItemForms <- NoForms
  Lists <- EmptyList
  Patches <- NoPatches
  Same = same
  Fees = {0}
  ItemTargets = {}
  OrderTargets = {}
  MaxItems = 0
  MaxQty = 1
  Practices = {}
PROPERTY GivenUpByRight
