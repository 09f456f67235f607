SPECIFICATION GuardSpec
CONSTANTS
    proxy = proxy
    ip1 = ip1
    ip2 = ip2
    email = email
    i1 = i1
    a1 = a1
    a2 = a2
    a3 = a3
    NoIdentity = NoIdentity
    Identities = {proxy, ip1, ip2, email}
    Attempts = {a1, a2, a3}
    Instances = {i1}
    Immediate <- MCImmediate
    RestoreOver <- MCRestoreOver
    Maximum <- MCMaximum
    Window <- MCWindow
    Grain = 1
    Error = 0
    Rounded <- MCRounded
    Waited <- MCWaited
    Offsets <- MCPrompt
    RequestKey <- MCRequestKey
    SourceKey <- MCSourceKey
    IdentityKey <- MCIdentityKey
    Second = 1
    Resends = FALSE
    Unsent = Unsent
    MaxRepeats = 1
    MaxTime = 2
    RedisFails = TRUE
INVARIANTS GuardTypeOK GuessBudget BlockedSourceSparesIdentity RefusedOnlyWhenSpent
SYMMETRY MCSymmetry
