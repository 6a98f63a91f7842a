SPECIFICATION FairSpec
CONSTANTS
    Entries <- MCEntries
    MaxVersions = 4
    MaxChanges = 2
    PageSize = 2
    BadFileNames = {}
    writeCertAndKeyInSeparateFiles = FALSE
INVARIANT TypeOK
PROPERTIES
    ImplementsSelection
    CallEnds
CHECK_DEADLOCK FALSE
