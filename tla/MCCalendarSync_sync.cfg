SPECIFICATION FairSpec
CONSTANTS
    MaxId = 1
    Sources <- MCSources
    Homes <- MCHomes
    Uids <- MCUids
    Source <- MCSource
    Collection <- MCCollection
    Recurring <- MCRecurring
    Length <- MCLength
    Times <- MCTimes
    AtFirst <- MCAtFirst
    Horizon = 1
    ForeignKeys <- Either
    Clock <- MCClock
    MaxTrouble = 1
INVARIANTS
    CacheTypeOK
    SuccessMeansCached
PROPERTIES
    BusyStaysBusy
    CacheConverges
