SPECIFICATION Spec
CONSTANTS
    Requests = {r1}
    Attribs <- HistoryAttribs
    KnownClouds <- MCKnownClouds
    Names <- MCNames
    Identities <- MCIdentities
    BadFileNames <- MCBadFileNames
    Files <- MCFiles
    ReadableFiles <- MCReadableFiles
    VaultObjects <- OneSecret
    Bundle <- OneText
    MaxVersions = 3
    writeCertAndKeyInSeparateFiles = FALSE
INVARIANTS
    HistoryBound
