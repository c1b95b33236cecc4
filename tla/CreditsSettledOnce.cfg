SPECIFICATION Spec
CONSTANTS
    Users = {u1, u2}
    Reservations = {r1}
    Keys = {k1, k2}
    Null = Null
    Requests = {q1, q2}
    Amounts = {1, 2}
    Gate = 2
    MaxDecimal = 3
SYMMETRY Symmetry
CHECK_DEADLOCK FALSE
INVARIANTS
    SettledOnce
