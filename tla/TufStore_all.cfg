SPECIFICATION FairSpec
CONSTANTS
    Length <- Lengths
    Sector = 2
    Region = 4
    UserBuffer = 5
INVARIANTS
    TypeOK
    OtherRolesUntouched
    StoredRootIsRefreshedRoot
PROPERTIES
    AnchorKept
    RootNeverOlder
    ImplementsRootChain
    CheckinEnds
    RefreshRecovers
