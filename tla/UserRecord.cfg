\* A password user and a Google user, two record values, a profile and a form
\* or two forms, a change of user, a change of a record.
CONSTANTS
    Users = {"alice", "gina"}
    NoUser = "none"
    Never = "never"
    GoogleUsers = {"gina"}
    Infos = {"al", "gi"}
    NoInfo = "norecord"
    Unknown = "unknown"
    FirstRecords <- MCFirstRecords
    MaxListeners = 3
    MaxUpdates = 1
    MaxAuth = 1
SPECIFICATION Spec
INVARIANTS
    ShowsOwnRecord
    FormHasOwnName
PROPERTIES
    NameArrives
CHECK_DEADLOCK FALSE
