SPECIFICATION LimiterSpec
CONSTANTS
    Identities = {k1}
    Instances = {i1}
    Immediate <- MCImmediate
    RestoreOver <- MCRestoreOver
    Maximum <- MCMaximum
    Window <- MCWindow
    Grain = 16
    Error = 3
    Rounded <- MCRounded
    Waited <- MCWaited
    Offsets <- MCPrompt
    Second = 2
    Resends = TRUE
    MaxTime = 17
INVARIANTS LimiterTypeOK BurstBound HardLimit RetryAfterClose
PROPERTIES ImplementsHybridLimit
