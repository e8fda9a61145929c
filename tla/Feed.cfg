\* Two posts, one title, two refreshes, an edit, a restart.
CONSTANTS
    PostIds = {1, 2}
    Users = {"alice", "bob"}
    NoUser = "none"
    Owner <- MCOwner
    Titles = {"swift"}
    LastDate = 1
    MaxEdits = 1
    MaxObserve = 3
    MaxRelaunch = 1
SPECIFICATION Spec
INVARIANTS
    TypeOK
    RenderedIsCurrent
    NothingLost
    NewestRefreshWins
    SortedUntilRefreshed
PROPERTIES
    OpensWhatIsShown
    EventuallyListed
    RefreshDropsDeleted
