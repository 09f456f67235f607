SPECIFICATION Spec
CONSTANTS
    Subjects = {alice}
    Sessions = {1, 2, 3}
    Keys = {1}
    LockKey <- MCCollidingKeys
    MaximumActiveSessions = 2
    Lifetime = 2
    PoolSize = 2
    MaxTime = 3
    Replacements = {}
INVARIANTS CapInvariant SessionCap
PROPERTIES ImplementsCappedSessions
