SPECIFICATION RepairSpec
CONSTANTS
  Accounts <- OrderAccounts
  Workers = {w1}
  Amounts = {1}
  Patches <- FeePatches
  FirstOrder <- PickupOrder
  Targets = {"delivered", "completed"}
  MaxTxns = 2
  MaxEntries = 5
  Practices = {"late_payment", "close_books"}
  Commands = {"revenue"}
PROPERTY ClosedBooksStand
