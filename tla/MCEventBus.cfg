CONSTANTS
    sa = sa
    sb = sb
    sc = sc
    TRACKING = TRACKING
    NETWORK = NETWORK
    ALL = ALL
    Categories = {TRACKING, NETWORK}
    Subscribers = {sa, sb, sc}
    Wanted <- MCWanted
    AllCats = ALL
    Tracking = TRACKING
    IdMod = 16
    MaxEvents = 3
SPECIFICATION BusSpec
INVARIANT DeliveryExact
CHECK_DEADLOCK FALSE
