SPECIFICATION FairSpec
CONSTANTS
  Child = {x}
  Controller = {q}
  Waiter = {p}
  Stopper = {}
  Clearer = {q}
  Modes = {FALSE}
  DeactivateFails = FALSE
  MaxChildren = 1
PROPERTY WaitersReturn
