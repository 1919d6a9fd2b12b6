SPECIFICATION FairSpec
CONSTANTS
    Teams = {t1}
    Requests = {r1, r2}
    Viewers = {v1}
    Second = 2
    Cooldown = 2
    Durations = {2}
    Extensions = {1}
    MaxTime = 4
    MaxEnd = 3
    MaxCommands = 2
    MaxRestarts = 1
INVARIANTS
    CooldownUnlessRaced
PROPERTIES
    NotClosedEarly
    EventuallyCloses
CHECK_DEADLOCK FALSE
