SPECIFICATION Spec
CONSTANTS
    Versions = {1, 2, 3}
    Factory = 1
    Broken = {3}
    Faults = {}
    OfflineLimit = 1
INVARIANTS
    RollbackIsCorrelated
