SPECIFICATION FairSpec
CONSTANTS
    Ids = {i1, i2, i3, i4}
    AKNANO_FLASH_SECTORS_COUNT = 2
INVARIANTS
    TypeOK
    IdentityMatchesCertificate
    NothingInherited
PROPERTIES
    ProvisionedForGood
    ProvisioningIsRepaired
