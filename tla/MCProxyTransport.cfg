SPECIFICATION FairSpec
CONSTANTS
    URLs = {"https://proxy"}
    SNINames = {"sni.example"}
    CAs = {"ca1", "ca2"}
    ClusterIDs = {"c1", "c2"}
    Leaves <- MCLeaves
    ServerNames <- MCServerNames
    Inherited = {"", "stale"}
INVARIANTS
    TypeOK
    Hermetic
    TransportAsConfigured
    ComputedNamePinsCA
PROPERTY CallReturns
