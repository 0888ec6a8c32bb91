SPECIFICATION RepairSpec
CONSTANTS
  Accounts <- OrderAccounts
  Workers = {w1}
  Amounts = {1, 2}
  Patches <- FeePatches
  FirstOrder <- BusOrder
  Targets = {"delivered", "completed", "cancelled"}
  MaxTxns = 3
  MaxEntries = 4
  Practices = {"late_payment"}
  Commands <- AllCommands
INVARIANTS
  PaymentsAreBooked
  HeldWithinFee
  CancelledOwesNothing
  RevenueRecognisedOnce
  AuditFindsNothing
  RepairsSettle
PROPERTIES
  HandOverSettles
