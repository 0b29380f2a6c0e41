CONSTANTS
  NumberOfJobs = 1
  Thread = {t1}
  Client = {p, q}
  Scheduler = {p}
  Controller = {q}
  Stopper = {p, q}
  StartThreads = 0
  CreateMayFail = FALSE
  Goal = {g}
  DeliveryTimeAdjustment = TRUE
  MaxTime = 3
  MaxMessages = 2
SPECIFICATION FairSpec
INVARIANTS TypeOK Sorted SleepCoversSchedule NotEarly NoneLostAtEnd
PROPERTIES DueIsDelivered PendingIsDelivered DeactivationCompletes
