SPECIFICATION Spec
CONSTANTS
    Users = {u1}
    Reservations = {r1, r2}
    Keys = {k1, k2}
    Null = Null
    Requests = {q1, q2}
    Amounts = {1, 2}
    Gate = 2
    MaxDecimal = 3
SYMMETRY Symmetry
CHECK_DEADLOCK FALSE
INVARIANTS
    TypeOK
    LedgerBalances
    SpendingGate
    ActiveIsUnsettled
    KeyedReleaseOnce
    SettledWithinRace
PROPERTIES
    ImplementsWallet
