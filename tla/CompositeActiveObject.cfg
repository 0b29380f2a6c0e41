SPECIFICATION FairSpec
CONSTANTS
  Child = {x, y}
  Controller = {p}
  Waiter = {q}
  Stopper = {p}
  Clearer = {p}
  Modes = {TRUE, FALSE}
  DeactivateFails = TRUE
  MaxChildren = 3
INVARIANTS TypeOK ConsistentState RunsWithThoseBefore WaitsOnlyForStopped
PROPERTIES DeactivationReachesWaiters
