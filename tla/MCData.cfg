CONSTANTS
    NULL = NULL
    ParseError = ParseError
    MallocZeroIsNull = FALSE
    NoDigits = NoDigits
    NoText = NoText
    NoClock = NoClock
    NoMessage = NoMessage
    NoNumber = NoNumber
    NoSchema = NoSchema
    NoString = NoString
    NoRecord = NoRecord
    NoValue = NoValue
    NoEntry = NoEntry
    NoAssign = NoAssign
    Malformed = Malformed
    MaxAlterations = 2
    TooLong = "too long"
    v1 = v1
    v2 = v2
    start = start
    end = end
    MaxWire = 2
    MaxTicks = 4
    DataCfg <- MCDataCfg
    SelectorsCfg <- MCSelectorsCfg
    ElementsCfg <- MCElementsCfg
    Updates <- MCUpdates
    Writes <- MCWrites
SPECIFICATION MCSpec
INVARIANTS CopyAgrees ListsAreMaps HeartbeatWindowExact ReadBack FiltersHitTheirField
CHECK_DEADLOCK FALSE
