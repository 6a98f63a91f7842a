SPECIFICATION Spec
CONSTANTS
    Procs = {p1, p2}
    Mounts = {m1}
    Endpoints = {"unix"}
    MaxFaults = 0
INVARIANT HealthFailureIsFatal
