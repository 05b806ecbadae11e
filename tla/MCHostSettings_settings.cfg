SPECIFICATION FairSpec
CONSTANTS
    None = None
    Hosts = {ann}
    Tabs = {t1, t2}
    Guests = {g1}
    MaxTypes = 2
    Slugs = {intro}
    Durations = {0, 2}
    Starts = {0}
    Days <- MCDays
    Weeks <- MCWeeks
    MaxPosts = 4
    MaxTrouble = 1
INVARIANTS
    SettingsTypeOK
    WholeWeeks
    SwitchFollowsClicks
    BookedByTheForm
PROPERTIES
    PageRoundTrip
    TabsAreServed
