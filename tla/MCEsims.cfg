SPECIFICATION FairSpec
CONSTANTS
    Sims = {s1, s2}
    ToppedUp = {s1}
    Requests = {1, 2, 3}
    Null = Null
    MaxInFlight = 2
    MaxTroubles = 1
CHECK_DEADLOCK FALSE
INVARIANTS
    TypeOK
    
    LeaksAreFaults
    
PROPERTIES
    ImplementsStock
    TakenIsSettled
