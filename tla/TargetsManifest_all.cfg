SPECIFICATION Spec
CONSTANTS
    Targets <- VariedTargets
    MaxTargets = 2
    hwid <- Device
    tag <- Tag
    JSON_ARRAY_LIMIT_COUNT = 2
INVARIANTS
    TypeOK
    NewestVisited
    CleanManifestSelectsNewest
CHECK_DEADLOCK FALSE
