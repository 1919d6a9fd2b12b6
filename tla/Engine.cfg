SPECIFICATION Spec
CONSTANTS
    c1 = c1
    c2 = c2
    Contestants = {c1, c2}
    MaxPrice = 2
    NumSlots = 2
    NumLevels = 2
    MaxOrderSize = 2
    MaxPosition = 3
    MaxFills = 2
    QueueSize = 5
    MaxOrders = 3
INVARIANTS
    BookSound
    QuantityConserved
    BestUnlessHoled
    NotCrossed
    
SYMMETRY Symmetry
