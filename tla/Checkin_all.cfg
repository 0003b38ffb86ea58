SPECIFICATION FairSpec
CONSTANTS
    Tags = {"devel", "main"}
    AKNANO_DEFAULT_TAG = "devel"
    Intervals <- MCIntervals
    AKNANO_EVENT_SENDING_RETRIES = 2
    MaxTargets = 2
INVARIANTS
    TypeOK
    SelectsVerified
    OneTagPerCheckin
    ConnectionsPaired
PROPERTIES
    ImplementsAtomicCheckin
    KeepsPolling
    ConfigurationArrives
