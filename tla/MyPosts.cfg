\* A post of Alice and one of Bob, a refresh, two changes of user, or one and an
\* edit.
CONSTANTS
    PostIds = {1, 2}
    Users = {"alice", "bob"}
    NoUser = "none"
    Never = "never"
    Owner <- MCOwner
    Titles = {"swift"}
    LastDate = 1
    MaxEdits = 1
    MaxListeners = 2
    MaxAuth = 2
    MaxChanges = 2
SPECIFICATION MCSpec
INVARIANTS
    TypeOK
    DeletesTheRowItShows
    OwnPostsListed
    ListedOnce
    NobodysPostsHaveNoRow
CHECK_DEADLOCK FALSE
