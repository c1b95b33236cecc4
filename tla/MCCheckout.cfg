SPECIFICATION Spec
CONSTANTS
    Orders = {o1}
    Kinds = {"one_time"}
    Reservations = {r1, r2}
    Intents = {p1}
    Keys = {}
    Null = Null
    Requests = {q1, q2, q3}
    MaxInFlight = 2
    MaxFaults = 1
    MaxCrashes = 1
SYMMETRY Symmetry
CHECK_DEADLOCK FALSE
INVARIANTS
    TypeOK
    
    CompletedForSomething
    CompleteLeavesNoHold
