CONSTANTS
  NumberOfJobs = 2
  Thread = {t1, t2}
  FirstCreateMayFail = TRUE
SPECIFICATION Spec
INVARIANT NoJobUnlessAllCreated
