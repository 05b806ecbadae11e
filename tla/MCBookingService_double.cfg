SPECIFICATION Spec
CONSTANTS
    g1 = g1
    g2 = g2
    h1 = h1
    h2 = h2
    Guests <- MCGuests
    Handlers <- OneHandler
    Offers <- OneSlot
    Events <- NoEvents
    TTL = 1
    Window = 3
    MaxTime = 1
    MaxFaults = 0
    MaxCrashes = 0
INVARIANTS
    NoDoubleBooking
