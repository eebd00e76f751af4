SPECIFICATION Spec
CONSTANTS
    Auctions = {a1}
    Generals = {g1, g2}
    NoOne = NoOne
    Amounts = {1, 2}
    FinishBid = 2
    Duration = 1
    Turn = 1
    BidExtension = 1
    CapMargin = 1
    Shifts = {1}
    MaxTick = 2
    MaxFaults = 1
    MaxHints = 1
INVARIANTS Settled NotExhausted OnlyOrphansWait
PROPERTIES NeverEarly DueIsDecided ImplementsAuctionHouse
CHECK_DEADLOCK FALSE
