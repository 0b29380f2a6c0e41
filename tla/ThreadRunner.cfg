CONSTANTS
  NumberOfJobs = 3
  Thread = {t1, t2, t3}
  FirstCreateMayFail = FALSE
SPECIFICATION FairSpec
INVARIANTS TypeOK NoJobUnlessAllCreated IdleRunnerIsFresh EveryThreadWillBeJoined
PROPERTIES CallsReturn ImplementsJobGroup
