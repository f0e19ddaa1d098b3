--------------------------- MODULE Specialization ---------------------------
(***************************************************************************)
(* The specialisations that use cases are built from: what a server        *)
(* feature's owner adds and updates, how data is found through its         *)
(* description, and what a client requests and writes.  A description or   *)
(* an item is known by its identifier, a number that the server gave it; a *)
(* filter is a record of the fields that must be equal, `id' among them.   *)
(* A lookup works on the functions of one feature: a server's own data     *)
(* (x.data) or the client's copy of the remote feature (x.cache).          *)
(***************************************************************************)
EXTENDS SpineFeature, FiniteSetsExt

ListMatch(items, filter) ==
    {id \in DOMAIN items :
        \A a \in DOMAIN filter : filter[a] = IF a = "id" THEN id ELSE items[id][a]}

(* The lists are in the order of their identifiers.                        *)
HelperListMatchFirst(items, filter) ==
    LET s == ListMatch(items, filter) IN IF s = {} THEN NULL ELSE Min(s)

HelperGetListUniqueMatch(items, filter) ==
    LET s == ListMatch(items, filter) IN IF Cardinality(s) = 1 THEN Min(s) ELSE NULL

NextId(ids) == IF ids = {} THEN 0 ELSE Max(ids) + 1

One(id, item) == [i \in {id} |-> item]

(* FeatureInfoClientConstruct: the remote entity must be known.            *)
FeatureInfoClientConstruct(x) == x.peer

-----------------------------------------------------------------------------
(* LoadControl.                                                            *)
LoadControlCommonCheckLimitWithFilter(v, items, filter) ==
    \E id \in ListMatch(v.limitDesc, filter) : id \in DOMAIN items /\ items[id].value # NULL

LoadControlCommonGetLimitDescriptionWithFilter(v, filter) ==
    HelperGetListUniqueMatch(v.limitDesc, filter)

LoadControlCommonGetLimitWithFilter(v, filter) ==
    LET id == LoadControlCommonGetLimitDescriptionWithFilter(v, filter)
    IN  IF id = NULL THEN NULL ELSE HelperGetListUniqueMatch(v.limit, [id |-> id])

LoadControlServerGetNextLimitId(x) == NextId(DOMAIN x.data.limitDesc)

LoadControlServerAddLimitDescription(x, desc) ==
    FeatureUpdateData(x, "limitDesc",
                      PartialUpdate(One(LoadControlServerGetNextLimitId(x), desc), NULL))

LoadControlServerUpdateLimitWithFilter(x, item, filter, del) ==
    LET id == LoadControlCommonGetLimitDescriptionWithFilter(x.data, filter)
    IN  IF id = NULL THEN x
        ELSE FeatureUpdateData(x, "limit", PartialUpdate(One(id, item), del))

LoadControlServerUpdateLimitWithId(x, item, id) ==
    LoadControlServerUpdateLimitWithFilter(x, item, [id |-> id], NULL)

LoadControlClientRequestLimitDescriptions(x) == ReadFromRemote(x, "limitDesc", NULL)

LoadControlClientReadLimit(x, filter, call) ==
    IF LoadControlCommonGetLimitDescriptionWithFilter(x.cache, filter) = NULL THEN x
    ELSE ReadFromRemote(x, "limit", call)

LoadControlClientWriteLimitList(x, items, del, call) ==
    WriteToRemote(x, "limit", PartialUpdate(items, del), call)

-----------------------------------------------------------------------------
(* DeviceConfiguration.  The value of a key is found through the first     *)
(* description that matches, its description only if it is the only one.   *)
DeviceConfigurationCommonCheckKeyValueWithFilter(v, items, filter) ==
    \E id \in ListMatch(v.keyDesc, filter) : id \in DOMAIN items /\ items[id].value # NULL

DeviceConfigurationCommonKeyValueDescriptionMatchFirst(v, filter) ==
    HelperListMatchFirst(v.keyDesc, filter)

DeviceConfigurationCommonGetKeyValueDescriptionWithFilter(v, filter) ==
    HelperGetListUniqueMatch(v.keyDesc, filter)

DeviceConfigurationCommonGetKeyValueWithFilter(v, filter) ==
    LET id == DeviceConfigurationCommonKeyValueDescriptionMatchFirst(v, filter)
    IN  IF id \in DOMAIN v.key THEN id ELSE NULL

GetNextDeviceConfigurationKeyId(x) == NextId(DOMAIN x.data.keyDesc)

DeviceConfigurationServerAddKeyValueDescription(x, desc) ==
    FeatureUpdateData(x, "keyDesc",
                      PartialUpdate(One(GetNextDeviceConfigurationKeyId(x), desc), NULL))

GetKeyIdWithDescription(x, filter) == HelperGetListUniqueMatch(x.data.keyDesc, filter)

DeviceConfigurationServerUpdateKeyValueWithFilter(x, item, filter) ==
    LET id == GetKeyIdWithDescription(x, filter)
    IN  IF id = NULL THEN x ELSE FeatureUpdateData(x, "key", PartialUpdate(One(id, item), NULL))

DeviceConfigurationClientRequestKeyValueDescription(x) == ReadFromRemote(x, "keyDesc", NULL)
DeviceConfigurationClientRequestKeyValue(x, call) == ReadFromRemote(x, "key", call)

DeviceConfigurationClientWriteKeyValueList(x, items, call) ==
    WriteToRemote(x, "key", PartialUpdate(items, NULL), call)

-----------------------------------------------------------------------------
(* ElectricalConnection: characteristics.                                  *)
ElectricalConnectionCommonGetCharacteristicWithFilter(v, filter) ==
    HelperGetListUniqueMatch(v.characteristic, filter)

ElectricalConnectionCommonCheckCharacteristicWithFilter(items, filter) ==
    ListMatch(items, filter) # {}

GetNextCharacteristicId(x) == NextId(DOMAIN x.data.characteristic)

ElectricalConnectionServerAddCharacteristic(x, item) ==
    FeatureUpdateData(x, "characteristic",
                      PartialUpdate(One(GetNextCharacteristicId(x), item), NULL))

ElectricalConnectionServerUpdateCharacteristic(x, id, item) ==
    IF ElectricalConnectionCommonGetCharacteristicWithFilter(x.data, [id |-> id]) = NULL THEN x
    ELSE FeatureUpdateData(x, "characteristic", PartialUpdate(One(id, item), NULL))

ElectricalConnectionClientRequestCharacteristics(x, call) == ReadFromRemote(x, "characteristic", call)

(* ElectricalConnection: the description of a connection and of the        *)
(* parameters that are measured on it.                                     *)
ElectricalConnectionServerAddDescriptionWithId(x, desc, id) ==
    FeatureUpdateData(x, "ecDesc", PartialUpdate(One(id, desc), NULL))

(* The parameters of the one connection that an entity has.                *)
GetNextParameterId(x) == NextId(DOMAIN x.data.ecParam)

ElectricalConnectionServerAddParameterDescription(x, desc) ==
    FeatureUpdateData(x, "ecParam", PartialUpdate(One(GetNextParameterId(x), desc), NULL))

ElectricalConnectionCommonGetParameterDescriptionWithFilter(v, filter) ==
    HelperGetListUniqueMatch(v.ecParam, filter)

ElectricalConnectionCommonGetDescriptionWithId(v, id) == HelperGetListUniqueMatch(v.ecDesc, [id |-> id])

ElectricalConnectionCommonGetDescriptionWithParameterDescriptionFilter(v, filter) ==
    LET p == HelperGetListUniqueMatch(v.ecParam, filter)
    IN  IF p = NULL THEN NULL ELSE HelperGetListUniqueMatch(v.ecDesc, [id |-> v.ecParam[p].ec])

ElectricalConnectionClientRequestDescriptions(x) == ReadFromRemote(x, "ecDesc", NULL)
ElectricalConnectionClientRequestParameterDescriptions(x) == ReadFromRemote(x, "ecParam", NULL)

-----------------------------------------------------------------------------
(* Measurement.                                                            *)
GetNextMeasurementId(x) == NextId(DOMAIN x.data.measDesc)

MeasurementServerAddDescription(x, desc) ==
    FeatureUpdateData(x, "measDesc", PartialUpdate(One(GetNextMeasurementId(x), desc), NULL))

MeasurementServerUpdateMeasurements(x, items, del) ==
    FeatureUpdateData(x, "meas", PartialUpdate(items, del))

MeasurementServerUpdateMeasurementConstraints(x, items) ==
    FeatureUpdateData(x, "measConstraints", PartialUpdate(items, NULL))

MeasurementCommonGetMeasurementDescriptionWithFilter(v, filter) ==
    HelperGetListUniqueMatch(v.measDesc, filter)

MeasurementCommonGetMeasurementDescriptionWithId(v, id) ==
    MeasurementCommonGetMeasurementDescriptionWithFilter(v, [id |-> id])

(* The description must be there: the code follows the pointer.            *)
MeasurementCommonGetMeasurementWithFilter(v, filter) ==
    HelperGetListUniqueMatch(v.meas, [id |-> MeasurementCommonGetMeasurementDescriptionWithFilter(v, filter)])

MeasurementClientRequestDescriptions(x) == ReadFromRemote(x, "measDesc", NULL)
MeasurementClientRequestConstraints(x) == ReadFromRemote(x, "measConstraints", NULL)
MeasurementClientRequestData(x) == ReadFromRemote(x, "meas", NULL)

-----------------------------------------------------------------------------
(* DeviceDiagnosis.                                                        *)
DeviceDiagnosisClientRequestHeartbeat(x) == ReadFromRemote(x, "heartbeat", NULL)
=============================================================================
