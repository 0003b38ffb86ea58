SPECIFICATION Spec
CONSTANTS
    Length <- Lengths
    Sector = 2
    Region = 4
    UserBuffer = 5
INVARIANTS
    ProvisionedIsComplete
