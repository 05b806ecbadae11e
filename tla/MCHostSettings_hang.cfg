SPECIFICATION FairSpec
CONSTANTS
    None = None
    Hosts = {ann}
    Tabs = {t1}
    Guests = {g1}
    MaxTypes = 1
    Slugs = {intro}
    Durations = {0, 1, 2}
    Starts = {0}
    Days <- MCDays
    Weeks <- MCWeeks
    MaxPosts = 3
    MaxTrouble = 0
PROPERTIES
    PagesReturn
