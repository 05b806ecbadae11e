SPECIFICATION Spec
CONSTANTS
    a1 = a1
    a2 = a2
    r1 = r1
    r2 = r2
    r3 = r3
    r4 = r4
    Addresses <- MCAddresses
    Requests <- MCRequests
    Price = 2
    Full = 4
    Keep = 5
    Slack = 1
    MaxTime = 8
SYMMETRY LimiterSymmetry
INVARIANTS
    LimiterTypeOK
    WithinRate
PROPERTIES
    ImplementsContract
