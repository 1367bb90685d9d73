SPECIFICATION FairSpec
CONSTANTS
  MaxFailures = 5
  Window = 10
  Block = 2
  Requests = {r1, r2, r3}
INVARIANTS BlockJustified GuessBudget
PROPERTIES BlockedKeyFreed
