SPECIFICATION Spec
CONSTANTS
  Thread = {t1, t2}
  MaxJobs = 5
  RingSize = 2
  MaxBatch = 3
INVARIANTS TypeOK NoneStranded JobsKept
