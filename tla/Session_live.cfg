\* A network that works.
CONSTANTS
    Users = {"alice", "bob"}
    NoUser = "none"
    GoogleUsers = {}
    NetworkFails = FALSE
    MaxLogins = 2
    MaxAttempts = 3
    MaxUpdates = 1
    MaxDeletes = 0
    MaxRelaunch = 0
SPECIFICATION Spec
PROPERTIES
    LoginSucceeds
CHECK_DEADLOCK FALSE
