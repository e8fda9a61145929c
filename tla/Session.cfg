\* A password user and a Google user, unreliable network, a deletion, a restart.
CONSTANTS
    Users = {"alice", "gina"}
    NoUser = "none"
    GoogleUsers = {"gina"}
    NetworkFails = TRUE
    MaxLogins = 3
    MaxAttempts = 2
    MaxUpdates = 1
    MaxDeletes = 1
    MaxRelaunch = 1
SPECIFICATION Spec
INVARIANTS
    TypeOK
    SignedOutMeansLogin
PROPERTIES
    SignInFindsRecord
    LateAnswersKeepTheScreen
CHECK_DEADLOCK FALSE
