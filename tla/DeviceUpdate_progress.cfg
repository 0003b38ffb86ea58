SPECIFICATION RunningSpec
CONSTANTS
    Versions = {1, 2, 3}
    Factory = 1
    Broken = {3}
    Faults = {"ready", "event_loss", "state_read"}
    OfflineLimit = 1
INVARIANTS
    SuccessIsCorrelated
PROPERTIES
    NoRetryOfFailedVersion
    ImplementsTrialUpdate
    UpdateSettles
    RollbackIsReported
