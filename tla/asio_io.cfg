SPECIFICATION FairSpec
CONSTANT MaxAwaits = 3
INVARIANTS LastOneResumes OutcomeKnown LifetimesOutlast
PROPERTY StopOrCloseEnds
CHECK_DEADLOCK FALSE
