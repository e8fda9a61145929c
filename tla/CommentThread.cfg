\* Three comments, two threads, two dates.
CONSTANTS
    CommentIds = {1, 2, 3}
    Threads = {"swift", "objc"}
    LastDate = 2
SPECIFICATION Spec
INVARIANTS
    TypeOK
    ThreadIsExact
PROPERTIES
    ImplementsBoard
    EventuallyShown
