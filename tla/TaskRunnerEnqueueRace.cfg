CONSTANTS
  NumberOfJobs = 2
  Thread = {t1, t2}
  Client = {p, q}
  Producer = {p}
  Controller = {q}
  Stopper = {p, q}
  Task = {a, b}
  StartThreads = 1
  CreateMayFail = TRUE
  MaxPending = 2
  UnusedModulus = 8
  MaxTokens = 1
SPECIFICATION Spec
INVARIANT StoppedMeansJoined
