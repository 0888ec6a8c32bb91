SPECIFICATION Spec
CONSTANTS
  Workers = {w1, w2}
  Counts = {2}
  Amounts = {1}
  MaxDrawers = 2
  MaxEntries = 3
  MaxDay = 2
  Practices = {}
SYMMETRY WorkerSymmetry
INVARIANTS
  BooksMatchDrawer
  SnapshotExplainsClosing
PROPERTIES
  CountsAreBooked
  ClosedStands
