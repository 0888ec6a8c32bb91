SPECIFICATION RepairSpec
CONSTANTS
  Accounts <- OrderAccounts
  Workers = {w1, w2}
  Amounts = {1}
  Patches <- RacePatches
  FirstOrder <- BusOrder
  Targets = {"delivered", "cancelled"}
  MaxTxns = 1
  MaxEntries = 2
  Practices = {"unbooked", "touch_void", "unpay", "over_refund", "late_payment",
               "step_back", "by_items", "switch", "close_books", "unbook"}
  Commands = {"payments", "receivable", "deposits", "cancelled", "release", "tien_rut"}
SYMMETRY WorkerSymmetry
INVARIANT TypeOK
PROPERTY ClosedBooksStand
