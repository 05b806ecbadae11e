SPECIFICATION Spec
CONSTANTS
    g1 = g1
    g2 = g2
    h1 = h1
    h2 = h2
    Guests <- MCGuests
    Handlers <- OneHandler
    Offers <- TwoTypes
    Events <- OneEvent
    TTL = 1
    Window = 3
    MaxTime = 2
    MaxFaults = 0
    MaxCrashes = 0
SYMMETRY GuestSymmetry
INVARIANTS
    TypeOK
    OverlapOnlyByRevival
    NeverCancelledEarly
PROPERTIES
    BookedOnFreeSlot
    ImplementsLifecycle
