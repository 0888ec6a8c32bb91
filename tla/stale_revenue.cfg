SPECIFICATION Spec
CONSTANTS
  Accounts <- OrderAccounts
  Workers = {w1}
  Amounts = {1, 2}
  Patches <- FeePatches
  FirstOrder <- PickupOrder
  Targets = {"confirmed", "delivered", "cancelled"}
  MaxTxns = 2
  MaxEntries = 5
  Practices = {"step_back"}
  Commands = {}
INVARIANT RevenueRecognisedOnce
