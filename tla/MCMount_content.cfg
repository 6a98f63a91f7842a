SPECIFICATION FairSpec
CONSTANTS
    Requests = {r1}
    Attribs <- ContentAttribs
    KnownClouds <- MCKnownClouds
    Names <- MCNames
    Identities <- MCIdentities
    BadFileNames <- MCBadFileNames
    Files <- MCFiles
    ReadableFiles <- MCReadableFiles
    VaultObjects <- ContentObjects
    Bundle <- ContentBundle
    MaxVersions = 2
    writeCertAndKeyInSeparateFiles = TRUE
INVARIANTS
    CertAndKeyBesideSecret
PROPERTY MountReplies
