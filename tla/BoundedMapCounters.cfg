SPECIFICATION Spec
CONSTANTS
  Key = {k1, k2}
  Client = {a}
  Size = {1, 2}
  Bounds = {2}
  Timeouts = {1}
  Resets = FALSE
  MaxTime = 1
  MaxInserts = 2
INVARIANT OutdatedBelowNew
