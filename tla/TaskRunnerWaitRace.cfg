CONSTANTS
  NumberOfJobs = 1
  Thread = {t1}
  Client = {p, q}
  Producer = {}
  Controller = {p, q}
  Stopper = {p, q}
  Task = {a}
  StartThreads = 0
  CreateMayFail = FALSE
  MaxPending = 0
  UnusedModulus = 8
  MaxTokens = 1
SPECIFICATION Spec
INVARIANT StoppedMeansJoined
