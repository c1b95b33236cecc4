SPECIFICATION FairSpec
CONSTANTS
    Orders = {o1}
    Kinds = {"one_time", "topup"}
    Reservations = {r1, r2}
    Intents = {p1}
    Keys = {k1}
    Null = Null
    Requests = {q1, q2, q3}
    MaxInFlight = 1
    MaxFaults = 0
    MaxCrashes = 0
CHECK_DEADLOCK FALSE
INVARIANTS
    ProcessingIsOwned
    
PROPERTIES
    PaymentIsAnswered
