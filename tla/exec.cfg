SPECIFICATION FairSpec
CONSTANTS
  Thread = {t1, t2}
  MaxJobs = 4
  RingSize = 3
  MaxBatch = 4
INVARIANTS OneRunner InOnePlace ResumedInOrder
PROPERTIES EveryJobRuns
