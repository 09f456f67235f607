SPECIFICATION FairSpec
CONSTANTS
    Subjects = {alice, bob}
    Sessions = {1, 2, 3}
    Keys = {1}
    LockKey <- MCCollidingKeys
    MaximumActiveSessions = 1
    Lifetime = 1
    PoolSize = 2
    MaxTime = 1
    Replacements = {3}
PROPERTIES SignInReturns
