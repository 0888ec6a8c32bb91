SPECIFICATION Spec
CONSTANTS
  Accounts <- ExpenseAccounts
  Workers = {w1, w2}
  Events = {flour, eggs}
  Vendors = {miller, farmer}
  Amounts = {1, 2}
  MaxEntries = 4
  Practices = {"second_debt"}
SYMMETRY Symmetries
INVARIANT SettledIsCleared
