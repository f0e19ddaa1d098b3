CONSTANTS
    NULL = NULL
    MaxResponseDelay = 1
    Calls = {1, 2}
    Updaters = {}
    FeatureOf <- UseCaseFeatureOf
    OnApprove <- UseCaseOnApprove
    OnExpired <- UseCaseOnExpired
    OnWrite <- UseCaseOnWrite
    OnBind <- UseCaseOnBind
    OnData <- UseCaseOnData
    OnRemoved <- UseCaseOnRemoved
    LimitConfigs <- MCReconnectConfigs
    MonitorConfigs = {}
    OhpcfConfigs = {}
SPECIFICATION LimitSpec
INVARIANT AppliedAsShown
CONSTRAINT PendingAtReconnect
CHECK_DEADLOCK FALSE
