SPECIFICATION FairSpec
INVARIANTS
    OneSession
    StartsWithCertificate
PROPERTIES
    DeviceStarts
