SPECIFICATION Spec
CONSTANTS
    Requests = {r1, r2}
    Attribs <- IdentityAttribs
    KnownClouds <- MCKnownClouds
    Names <- MCNames
    Identities <- MCIdentities
    BadFileNames <- MCBadFileNames
    Files <- MCFiles
    ReadableFiles <- MCReadableFiles
    VaultObjects <- NoVaultObjects
    Bundle <- NoBundle
    MaxVersions = 1
    writeCertAndKeyInSeparateFiles = FALSE
INVARIANTS
    CredentialMatchesRequest
    EnvironmentFromOverlap
SYMMETRY RequestSymmetry
