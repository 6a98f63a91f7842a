SPECIFICATION Spec
CONSTANTS
    Requests = {r1}
    Attribs <- PermissionAttribs
    KnownClouds <- MCKnownClouds
    Names <- MCNames
    Identities <- MCIdentities
    BadFileNames <- MCBadFileNames
    Files <- MCFiles
    ReadableFiles <- MCReadableFiles
    VaultObjects <- OneSecret
    Bundle <- OneText
    MaxVersions = 1
    writeCertAndKeyInSeparateFiles = FALSE
INVARIANTS
    FilePermissionChecked
