SPECIFICATION Spec
CONSTANTS
    Subtotals = {1005}
    Percents = {1000, 5000}
    Amounts = {0, 1005}
    Wallet = 700
    Starts = {0, 2}
    Ends = {1, 3}
    MaxTime = 2
    Requests = {1, 2, 3}
    MaxInFlight = 2
CHECK_DEADLOCK FALSE
INVARIANTS
    TypeOK
    
    
    
    DiscountWasOffered
    WindowIsOrdered
PROPERTIES
    DeactivationHolds
