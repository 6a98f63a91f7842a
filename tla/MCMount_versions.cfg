SPECIFICATION Spec
CONSTANTS
    Requests = {r1}
    Attribs <- VersionAttribs
    KnownClouds <- MCKnownClouds
    Names <- MCNames
    Identities <- MCIdentities
    BadFileNames <- MCBadFileNames
    Files <- MCFiles
    ReadableFiles <- MCReadableFiles
    VaultObjects <- OneSecret
    Bundle <- OneText
    MaxVersions = 4
    writeCertAndKeyInSeparateFiles = FALSE
INVARIANTS
    TypeOK
    CompleteResponse
    NoVersionSkipped
