SPECIFICATION Spec
CONSTANTS
    minimumPasswordLength = 3
    maximumPasswordLength = 4
INVARIANTS PublishedPolicy
CHECK_DEADLOCK FALSE
