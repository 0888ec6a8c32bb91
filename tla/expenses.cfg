SPECIFICATION RepairSpec
CONSTANTS
  Accounts <- ExpenseAccounts
  Workers = {w1}
  Events = {flour, eggs}
  Vendors = {miller}
  Amounts = {1, 2}
  MaxEntries = 4
  Practices = {}
SYMMETRY Symmetries
INVARIANTS
  ExpensesAreBooked
  VendorOwed
  AuditTells
