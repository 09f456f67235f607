SPECIFICATION LimiterSpec
CONSTANTS
    Identities = {k1}
    Instances = {i1}
    Immediate <- MCImmediate
    RestoreOver <- MCRestoreOver
    Maximum <- MCHigherMaximum
    Window <- MCWindow
    Grain = 16
    Error = 3
    Rounded <- MCRounded
    Waited <- MCWaited
    Offsets <- MCLate
    Second = 2
    Resends = TRUE
    MaxTime = 4
INVARIANTS BurstBound
