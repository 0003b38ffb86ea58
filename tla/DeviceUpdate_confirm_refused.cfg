SPECIFICATION Spec
CONSTANTS
    Versions = {1, 2}
    Factory = 1
    Broken = {}
    Faults = {"confirm"}
    OfflineLimit = 1
INVARIANTS
    CompletedMeansPermanent
