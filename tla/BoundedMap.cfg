SPECIFICATION Spec
CONSTANTS
  Key = {k1, k2, k3}
  Client = {a, b}
  Size = {1, 2}
  Bounds = {2, 3}
  Timeouts = {1, 2}
  Resets = TRUE
  MaxTime = 2
  MaxInserts = 2
SYMMETRY Symmetry
INVARIANTS TypeOK QueueIndexesContainer SizeIsSum QueueInTimeOrder StatRelation
PROPERTIES GrowsWithinBound FreshStays LeastRecentGoes
