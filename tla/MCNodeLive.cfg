SPECIFICATION LiveSpec
CONSTANTS
    None = None
    Addrs = {s1, s2}
    Configs <- LiveConfigs
    ClientSupported = TRUE
    ServerSupported = TRUE
    MaxCloses = 1
    MaxAccepts = 1
    MaxBrowse = 1
CHECK_DEADLOCK FALSE
INVARIANTS ConnectionIsCurrent
PROPERTIES NodeSettles
