SPECIFICATION Spec
CONSTANTS
  Child = {x}
  Controller = {q}
  Waiter = {p}
  Stopper = {q}
  Clearer = {q}
  Modes = {FALSE}
  DeactivateFails = FALSE
  MaxChildren = 1
PROPERTY ClearedMeansStopped
