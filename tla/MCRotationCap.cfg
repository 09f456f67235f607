SPECIFICATION Spec
CONSTANTS
    Subjects = {alice}
    Sessions = {1, 2, 3}
    Keys = {1}
    LockKey <- MCCollidingKeys
    MaximumActiveSessions = 1
    Lifetime = 2
    PoolSize = 2
    MaxTime = 3
    Replacements = {3}
INVARIANTS SessionCap
