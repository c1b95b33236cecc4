SPECIFICATION Spec
CONSTANTS
    Emails = {m1, m2}
    FirstEmail = m1
    FirstCode = r1
    ReferralCodes = {r1, r2, r3}
    Requests = {1, 2, 3}
    MaxInFlight = 2
    MaxTroubles = 1
    Orders = {o1, o2, o3}
    Free = {o3}
SYMMETRY Symmetry
CHECK_DEADLOCK FALSE
INVARIANTS
    TypeOK
    AccountsDiffer
    SignUpLeavesCode
    RewardsAreRight
    RewardsAreMissedOnlyByOverlap
PROPERTIES
    PasswordsSurvive
    UpdatesAreLostOnlyByOverlap
