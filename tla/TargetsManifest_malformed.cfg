SPECIFICATION Spec
CONSTANTS
    Targets <- MalformedTargets
    MaxTargets = 2
    hwid <- Device
    tag <- Tag
    JSON_ARRAY_LIMIT_COUNT = 2
INVARIANTS
    NoNewerMatch
CHECK_DEADLOCK FALSE
