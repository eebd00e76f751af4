SPECIFICATION Spec
CONSTANTS
    Auctions = {a1}
    Generals = {g1, g2}
    NoOne = NoOne
    Amounts = {1, 2}
    FinishBid = 3
    Duration = 1
    Turn = 2
    BidExtension = 1
    CapMargin = 1
    Shifts = {2}
    MaxTick = 2
    MaxFaults = 1
    MaxHints = 1
PROPERTY BidsOnlyExtend
CHECK_DEADLOCK FALSE
