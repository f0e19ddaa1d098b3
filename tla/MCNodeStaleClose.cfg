SPECIFICATION Spec
CONSTANTS
    None = None
    Addrs = {s1, s2}
    Configs <- StaleCloseConfigs
    ClientSupported = TRUE
    ServerSupported = TRUE
    MaxCloses = 0
    MaxAccepts = 0
    MaxBrowse = 1
CHECK_DEADLOCK FALSE
INVARIANTS CloseHitsItsConnection
