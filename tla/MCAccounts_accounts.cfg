SPECIFICATION FairSpec
CONSTANTS
    Subs <- MCSubs
    Words <- MCWords
    Preferred <- MCPreferred
    Forms <- MCForms
    Tabs <- MCTabs
    Browser <- OneBrowser
    MaxLogins = 3
    MaxFaults = 1
INVARIANTS
    AccountsTypeOK
    LoneLoginSucceeds
PROPERTIES
    OnlyOwnersWrite
    CallersAreAnswered
