\* A post is delivered while the delete dialog is open.
CONSTANTS
    PostIds = {1, 3}
    Users = {"alice"}
    NoUser = "none"
    Never = "never"
    Owner <- MCOwner
    Titles = {"swift"}
    LastDate = 1
    MaxEdits = 0
    MaxListeners = 1
    MaxAuth = 0
    MaxChanges = 0
SPECIFICATION MCSpec
INVARIANTS
    DeletesWhatWasAsked
CHECK_DEADLOCK FALSE
