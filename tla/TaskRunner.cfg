CONSTANTS
  NumberOfJobs = 2
  Thread = {t1, t2}
  Client = {p, q}
  Producer = {p}
  Controller = {q}
  Stopper = {p, q}
  Task = {a, b}
  StartThreads = 0
  CreateMayFail = TRUE
  MaxPending = 1
  UnusedModulus = 8
  MaxTokens = 1
SPECIFICATION FairSpec
INVARIANTS TypeOK PlacesConserved QueueBounded WakeupsCoverTasks StoppedMeansJoined
PROPERTIES TasksAreTaken DeactivationCompletes
