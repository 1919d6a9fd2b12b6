SPECIFICATION FairSpec
CONSTANTS
    NumBots = 3
    ChanCap = 2
    RingCap = 1
    MaxSeq = 6
INVARIANTS
    OneOutstanding
PROPERTY WorkerTerminates
CHECK_DEADLOCK FALSE
