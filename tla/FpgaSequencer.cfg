SPECIFICATION FairSpec
CONSTANTS
    NUM_PORTS = 3
    PORT_W = 2
    DEPTH = 4
    Bus <- MCBus
    ReadAddrs = {0, 4}
    MaxOrders <- MCMaxOrders
    None = None
INVARIANTS
    UnreadInOrder
    OrdersAccounted
    BoundedBypass
PROPERTY
    EveryOrderNumbered
