SPECIFICATION Spec
CONSTANTS
    g1 = g1
    g2 = g2
    h1 = h1
    h2 = h2
    Guests <- OneGuest
    Handlers <- MCHandlers
    Offers <- TwoTypes
    Events <- OneEvent
    TTL = 1
    Window = 3
    MaxTime = 2
    MaxFaults = 1
    MaxCrashes = 1
SYMMETRY HandlerSymmetry
INVARIANTS
    MailsAreTrue
    CalendarHoldsConfirmed
    ConfirmReplyIsTrue
    AnswerMatchesTable
