SPECIFICATION FairSpec
CONSTANTS
    Orders = {o1, o2}
    Main = o1
    SamePackage = {o1, o2}
    Limit = 1
    Requests = {1, 2}
    Crons = {c1}
    MaxInFlight = 2
    MaxTroubles = 1
CHECK_DEADLOCK FALSE
INVARIANTS
    TypeOK
    OneRecord
    
    
PROPERTIES
    NeverBackwards
    ExhaustionIsSeen
