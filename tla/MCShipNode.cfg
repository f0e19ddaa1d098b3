SPECIFICATION Spec
CONSTANTS
    None = None
    Addrs = {s1, s2}
    Configs <- SafetyConfigs
    ClientSupported = TRUE
    ServerSupported = TRUE
    MaxCloses = 1
    MaxAccepts = 1
    MaxBrowse = 1
CHECK_DEADLOCK FALSE
SYMMETRY Addresses
INVARIANTS ConnectionsOwned RevokedIsDisconnected OneCurrentPairing PeersTracked
PROPERTIES ApprovalTargetsConnection
