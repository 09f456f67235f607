SPECIFICATION FairSpec
CONSTANTS
    Requests = {r1, r2}
    MaxConnections = 1
    Layers <- OneAmiss
INVARIANTS TypeOK TelemetryAccounts AnswersAreDocumented DependenciesOutliveRequests ClosedInReverse ExitTellsFailure
PROPERTIES ShutdownEnds ReadinessAnswers
CHECK_DEADLOCK FALSE
