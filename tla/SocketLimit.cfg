SPECIFICATION Spec
CONSTANTS
    user = user
    admin = admin
    Actors <- OnlyUser
    Administrators <- Nobody
    MaxSessions = 1
    Requests = {}
    NoActor = NoActor
    UserLifetime = 2
    AdminLifetime = 2
    Idle = 2
    Refresh = 1
    MaxClock = 1
    MaxConnections = 4
    MaxSockets = 1
INVARIANTS
    SocketLimit
CHECK_DEADLOCK FALSE
