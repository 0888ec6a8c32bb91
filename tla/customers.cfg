SPECIFICATION Spec
CONSTANTS
  Workers = {w1, w2}
  Names = {an}
  Phones = {p1, p2}
  Addresses = {home}
  Links = {pin}
  Totals = {1, 2}
  NewTotals = {1}
  MaxCustomers = 2
  MaxOrders = 2
  MaxRequests = 3
  MaxYear = 2
  Practices = {}
SYMMETRY Symmetry
INVARIANTS
  TypeOK
  SummaryIsCurrent
PROPERTIES
  MergeKeepsPhones
  UsedPairsStay
CHECK_DEADLOCK FALSE
