SPECIFICATION Spec
CONSTANTS
    Values = {a, b}
    Zero = zero
    Capacity = 2
    MaxBatch = 3
    MaxPush = 4
INVARIANTS
    NoDataRace
PROPERTIES
    ImplementsFIFO
