SPECIFICATION FairSpec
CONSTANTS
    Producers = {g1, g2}
    RingSize = 2
    MaxSeq = 5
INVARIANTS
    SlotExclusive
    NoTornRecord
    NoSilentLoss
    InOrderUnlessLapped
PROPERTY EveryStampDelivered
CHECK_DEADLOCK FALSE
