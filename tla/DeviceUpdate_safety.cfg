SPECIFICATION Spec
CONSTANTS
    Versions = {1, 2, 3}
    Factory = 1
    Broken = {3}
    Faults = {"ready", "state_read", "event_loss", "flash_write", "torn_settings", "unsaved_apply"}
    OfflineLimit = 1
INVARIANTS
    TypeOK
    KnownGoodBaseline
    CompletedMeansPermanent
PROPERTIES
    NoDowngrade
