SPECIFICATION PageFairSpec
CONSTANTS
    tab1 = tab1
    tab2 = tab2
    other = other
    person = person
    stranger = stranger
    watch = watch
    Tabs <- MCTabs
    Browsers <- MCBrowsers
    Of <- MCOf
    Asks <- MCAsks
    MaxWaiting = 1
    FreeTries = 1
    Watch = watch
    MaxSessions = 3
    MaxTabSaves = 1
INVARIANTS
    NoSaveLost
    WaitsForActions
PROPERTIES
    SignedInStays
    AccountOfThisKey
    RightCodeAnswered
    PageEnds
CHECK_DEADLOCK FALSE
