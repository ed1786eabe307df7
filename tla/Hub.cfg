SPECIFICATION ApartSpec
CONSTANTS
    user = user
    admin = admin
    Actors <- MCActors
    Administrators <- MCAdministrators
    MaxSessions = 2
    Requests = {q1, q2}
    NoActor = NoActor
    UserLifetime = 2
    AdminLifetime = 2
    Idle = 2
    Refresh = 1
    MaxClock = 2
    MaxConnections = 2
    MaxSockets = 1
INVARIANTS
    InactivityDecides
    ActiveSessionsLive
PROPERTIES
    RevokedIsFinal
    InvalidSocketsClose
CHECK_DEADLOCK FALSE
