CONSTANTS
    Searches = {"", "s"}
    NoSearch = ""
    Matching <- MCMatching
    PageSize = 1
    InitialRows = 3
    MaxId = 4
    Loads = {l1, l2}
    Deletes = {d1}
    MaxChanges = 3
    MaxCopies = 3
    MaxTries = 2
    Tabs = {a, b}
    MaxWrites = 4
    Interval = 3
    RequestTime = 4
    MaxLinks = 5
    MaxClicks = 2
    LinkLimit = 4
    MaxPie = 2
    MaxBar = 3
    Colours = 3
    ShellPages = {dashboard, insights, settings}
    MenuPages = {settings}
SPECIFICATION WebSpec
INVARIANTS
    WebTypeOK
    PagesInOrder
    NothingSkipped
    OrderlyListIsCurrent
    BusyMeansRequest
    ErrorsAreAboutInput
    MomentsEnd
    ShownIsResolved
    TabsAgree
    HealthIsFresh
    SpinningEnds
    BannerMatchesCards
    PieIsWhole
    ColoursAgree
PROPERTY TogglesWhatIsShown
CHECK_DEADLOCK FALSE
