SPECIFICATION Spec
CONSTANTS
    DayLen = 6
    WeekLen = 2
    Zones <- MCZones
    Windows = {1, 3}
    Horizon = 10
    Durations = {0, 1, 2}
    Rules <- MCRules
    Busy <- MCBusy
    Bookings <- MCBookings
    Now <- MCNow
    Requested <- MCRequested
    Offsets <- MCOffsets
INVARIANTS
    SlotsAreDescribed
    OfferedIsFree
    OfferedAreDisjoint
    AcceptedByWallClock
    RefusedOnOtherDates
    
PROPERTIES
    RequestsEnd
