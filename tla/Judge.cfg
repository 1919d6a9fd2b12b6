SPECIFICATION FairSpec
CONSTANTS
    Teams = {t1, t2}
    Requests = {r1, r2}
    Jobs = {j1, j2}
    Scores = {0, 1}
    MaxQueueDepth = 1
    Testers = {s1, s2}
    MaxFaults = 2
INVARIANTS
    JobAccounted
    ActiveCounted
    BoardIsBest
PROPERTY EveryJobJudged
