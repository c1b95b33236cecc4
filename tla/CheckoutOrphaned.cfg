SPECIFICATION Spec
CONSTANTS
    Orders = {o1}
    Kinds = {"one_time"}
    Reservations = {r1, r2}
    Intents = {p1}
    Keys = {}
    Null = Null
    Requests = {q1, q2}
    MaxInFlight = 2
    MaxFaults = 0
    MaxCrashes = 0
SYMMETRY Symmetry
CHECK_DEADLOCK FALSE
INVARIANTS
    ProcessingIsOwned
