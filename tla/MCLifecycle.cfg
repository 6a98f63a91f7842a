SPECIFICATION FairSpec
CONSTANTS
    Procs = {p1, p2}
    Mounts = {m1}
    Endpoints = {"unix", "UNIX", "tcp", "invalid"}
    MaxFaults = 2
INVARIANTS
    TypeOK
    SocketPrivate
    InitializedBeforeServing
    ServingIsReachable
PROPERTIES
    MountsDrained
    SignalEndsProcess
    SelfHeals
