CONSTANTS
    NULL = NULL
    MaxResponseDelay = 1
    Calls = {1, 2}
    Updaters = {u}
    FeatureOf <- UseCaseFeatureOf
    OnApprove <- UseCaseOnApprove
    OnExpired <- UseCaseOnExpired
    OnWrite <- UseCaseOnWrite
    OnBind <- UseCaseOnBind
    OnData <- UseCaseOnData
    OnRemoved <- UseCaseOnRemoved
    LimitConfigs <- MCLimitConfigs
    MonitorConfigs <- MCMonitorConfigs
    OhpcfConfigs <- MCOhpcfConfigs
SPECIFICATION UseCaseSpec
INVARIANTS  EntryHasPending OutcomeIsOwn CacheAgrees ListenersToldState StateIsKept
CHECK_DEADLOCK FALSE
