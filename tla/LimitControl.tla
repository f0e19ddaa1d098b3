---------------------------- MODULE LimitControl ----------------------------
(***************************************************************************)
(* The limitation of power consumption and production (LPC, LPP): a        *)
(* controllable system (cs_lp*.c) on the server device, an energy guard    *)
(* (eg_lp*.c) on the client device.  The energy guard writes limits and    *)
(* failsafe values.  The controllable system's application, if it set an   *)
(* approver, is shown each write and approves or denies it later; until    *)
(* then the write is pending.  Both use cases may run on the same entity   *)
(* and then share their features.                                          *)
(*                                                                         *)
(* A call of the energy guard writes its own number as the value, so that  *)
(* a value tells which call wrote it; other values come from the           *)
(* controllable system.  Whether a limit is active travels with its value. *)
(***************************************************************************)
EXTENDS UseCaseLink, Functions

CONSTANTS LimitConfigs, \* what behaviours may start with: records of
                        \*   ucs      the use cases of the entity, in the order of construction
                        \*   csEntity the type of the controllable system's entity
                        \*   approver the use cases whose application set an approver
                        \*   diag     compatible entities of the energy guard with a diagnosis server
                        \*   period   of the heartbeat, 0 for none
                        \*   hems     the controllable system is an energy management system
                        \*   foreign  the energy guard is another implementation
                        \*   maxLinks, maxCalls, maxSets, maxBeats  bounds
          Calls         \* numbers of the calls of the energy guard

UseCases == {"LPC", "LPP"}
Duration == "duration"  \* the key name of the failsafe duration
OwnValue == 0           \* a value that the controllable system set
SomePeriod == "period"

LimitFeatureOf ==
    [limitDesc |-> "LoadControl", limit |-> "LoadControl",
     keyDesc |-> "DeviceConfiguration", key |-> "DeviceConfiguration",
     heartbeat |-> "DeviceDiagnosis", characteristic |-> "ElectricalConnection"]

LimitOperationsOf ==
    [fn \in DOMAIN LimitFeatureOf |-> Operations(TRUE, fn \in {"limit", "key"})]

(* A limit, or a key value; `type' is set for characteristics only,        *)
(* `other' for key values only: a member of another kind than the key's,   *)
(* such as a duration where a number of watts belongs.                     *)
Item(value, period, changeable) ==
    [value |-> value, period |-> period, changeable |-> changeable, type |-> NULL, other |-> NULL]

Characteristic(value, type) == [Item(value, NULL, NULL) EXCEPT !.type = type]

Ucs == Range(scenario.ucs)

CsInfo(uc) == IF uc = "LPC" THEN CsLpcInfo ELSE CsLppInfo
EgInfo(uc) == IF uc = "LPC" THEN EgLpcInfo ELSE EgLppInfo

(* Events of an entity that does not fit the use case are ignored, calls   *)
(* about it refused.                                                       *)
EgFits(x, uc) == UseCaseGetRemoteEntityWithAddress(x, CsInfo(uc))
CsFits(x, uc) ==
    UseCaseGetRemoteEntityWithAddress(x, EgInfo(uc)) /\ FeatureInfoClientConstruct(x)

(* LPC limits what is consumed, LPP what is produced.  The key of the      *)
(* failsafe limit is named for its use case too.                           *)
LimitFilter(uc) == [direction |-> uc]
KeyFilter(name) == [name |-> name]

(* LoadLimitInitWithLoadControlLimitData, ScaledValueInitWithScaledNumber: *)
(* a limit without a value is an error.                                    *)
LoadLimitInit(items, id) == IF id = NULL \/ items[id].value = NULL THEN NULL ELSE items[id]

-----------------------------------------------------------------------------
(* The controllable system (cs_lp.c): features with one limit per use case, *)
(* its failsafe value and one failsafe duration for both.                  *)
AddLoadControlFeature(x, uc) ==
    LET y == LoadControlServerAddLimitDescription(x, LimitFilter(uc))
    IN  LoadControlServerUpdateLimitWithId(y, Item(NULL, NULL, TRUE),
                                           LoadControlServerGetNextLimitId(x))

AddDeviceConfigurationFeature(x, uc) ==
    LET y == DeviceConfigurationServerAddKeyValueDescription(x, KeyFilter(uc))
        z == IF DeviceConfigurationCommonKeyValueDescriptionMatchFirst(y.data, KeyFilter(Duration))
                = NULL
             THEN DeviceConfigurationServerAddKeyValueDescription(y, KeyFilter(Duration)) ELSE y
        Zero(w, name) == DeviceConfigurationServerUpdateKeyValueWithFilter(
                            w, Item(OwnValue, NULL, TRUE), KeyFilter(name))
    IN  Zero(Zero(z, uc), Duration)

AddDeviceDiagnosisFeature(x) == [x EXCEPT !.data.heartbeat = One(1, [beat |-> 0])]

(* The nominal maximum of an energy management system is contractual.      *)
NominalMaxCharacteristic(c, uc) == <<IF c.hems THEN "contractual" ELSE "power", uc>>

AddElectricalConnection(x, c, uc) ==
    ElectricalConnectionServerAddCharacteristic(
        x, Characteristic(NULL, NominalMaxCharacteristic(c, uc)))

AddFeatures(x, c, uc) ==
    AddElectricalConnection(AddDeviceDiagnosisFeature(
        AddDeviceConfigurationFeature(AddLoadControlFeature(x, uc), uc)), c, uc)

(* One callback on the limits and two on the keys for each use case; the   *)
(* expiry callback of a feature is the one set last.                       *)
WriteApprovalCallbacks(ucs) ==
    [LoadControl |-> [k \in DOMAIN ucs |-> [uc |-> ucs[k], name |-> ucs[k]]],
     DeviceConfiguration |->
        FlattenSeq([k \in DOMAIN ucs |-> <<[uc |-> ucs[k], name |-> ucs[k]],
                                           [uc |-> ucs[k], name |-> Duration]>>])]

CsLpUseCaseConstruct(c) ==
    LET ucs == Range(c.ucs)
        x == [NewDevice(DOMAIN LimitFeatureOf, WriteApprovalCallbacks(c.ucs), {},
                        LimitOperationsOf) EXCEPT !.ticks = c.period]
        y == FoldLeft(LAMBDA z, uc : AddFeatures(z, c, uc), x, c.ucs)
    IN  UseCaseConstruct(y, c.csEntity, [k \in DOMAIN c.ucs |-> CsInfo(c.ucs[k])])
          @@ [entries |-> [uc \in ucs |-> None],  \* CsLpWriteApprovalContainer
              asked |-> [uc \in ucs |-> None],    \* what the approver was shown and keeps
              remote |-> [uc \in ucs |-> FALSE],  \* remote_eg_entity_addr, heartbeat_diag_client
              keo |-> [uc \in ucs |-> FALSE],     \* heartbeat_keo_workaround
              told |-> None,                      \* what the listener was told
              heard |-> 0,                        \* the last heartbeat it was told
              sets |-> 0,
              approved |-> {}, applied |-> {}]    \* history: answers, what writes did

(* cs_lp_public.c: the limit of a use case and what it may be asked for.   *)
CsLpGetLimitId(x, uc) == LoadControlCommonGetLimitDescriptionWithFilter(x.data, LimitFilter(uc))

CsLpGetActivePowerLimit(x, uc) ==
    LET id == CsLpGetLimitId(x, uc)
    IN  IF id = NULL THEN NULL
        ELSE LoadLimitInit(x.data.limit, LoadControlCommonGetLimitWithFilter(x.data, [id |-> id]))

CsLpGetFailsafeActivePowerLimit(x, uc) ==
    LoadLimitInit(x.data.key, DeviceConfigurationCommonGetKeyValueWithFilter(x.data, KeyFilter(uc)))

CsLpGetFailsafeDurationMinimum(x) ==
    LoadLimitInit(x.data.key, DeviceConfigurationCommonGetKeyValueWithFilter(x.data, KeyFilter(Duration)))

(* A listener is told of a limit by the name `what'; errors are not told.  *)
Told(x, what, value) ==
    IF value = NULL THEN x
    ELSE [x EXCEPT !.told = [w \in DOMAIN @ \cup {what} |-> IF w = what THEN value ELSE @[w]]]

(* The event of an applied write: what came with an identifier and a value *)
(* is told, as it is stored now.                                           *)
OnLoadControlLimitDataUpdate(x, uc, u) ==
    IF ~LoadControlCommonCheckLimitWithFilter(x.data, u.items, LimitFilter(uc)) THEN x
    ELSE Told(x, <<"limit", uc>>, CsLpGetActivePowerLimit(x, uc))

OnConfigurationDataUpdate(x, uc, u) ==
    LET Has(name) == DeviceConfigurationCommonCheckKeyValueWithFilter(x.data, u.items, KeyFilter(name))
        y == IF Has(uc) THEN Told(x, <<"key", uc>>, CsLpGetFailsafeActivePowerLimit(x, uc)) ELSE x
    IN  IF Has(Duration) THEN Told(y, <<"key", Duration>>, CsLpGetFailsafeDurationMinimum(y)) ELSE y

(* What an identifier of a write is about, for the history.                *)
About(x, fn, id) ==
    CASE fn = "limit" -> IF id \in DOMAIN x.data.limitDesc THEN x.data.limitDesc[id].direction ELSE NULL
      [] OTHER        -> IF id \in DOMAIN x.data.keyDesc THEN x.data.keyDesc[id].name ELSE NULL

(* What a write deletes: the item its delete filter selects, or parts of   *)
(* it; a full write takes every item away that it does not bring.          *)
DeletedBy(x, fn, u) ==
    IF u.full THEN DOMAIN x.data[IF fn = "limit" THEN "limitDesc" ELSE "keyDesc"] \ DOMAIN u.items
    ELSE IF u.del = NULL THEN {} ELSE {u.del.id}

(* The history tells what a write brought and, without a value, what it    *)
(* deleted.                                                                *)
CsOnWrite(x, fn, cnt, u) ==
    LET did(id, value) == [cnt |-> cnt, about |-> About(x, fn, id), value |-> value]
        y == [x EXCEPT !.applied = @ \cup {did(id, u.items[id].value) : id \in DOMAIN u.items}
                                     \cup {did(id, NULL) : id \in DeletedBy(x, fn, u)}]
        Event(z, uc) == IF ~EgFits(z, uc) THEN z
                        ELSE IF fn = "limit" THEN OnLoadControlLimitDataUpdate(z, uc, u)
                        ELSE OnConfigurationDataUpdate(z, uc, u)
    IN  FoldLeft(Event, y, scenario.ucs)

CsTryApprove(x, f, cnt) == TryApproveWrite(x, f, cnt)

EntryFind(x, uc, cnt) == SelectInSeq(x.entries[uc], LAMBDA e : e.cnt = cnt)

EntryAdd(x, uc, cnt, f) == [x EXCEPT !.entries[uc] = Append(@, [cnt |-> cnt, f |-> f])]

EntryRemove(x, uc, cnt) ==
    LET k == EntryFind(x, uc, cnt)
    IN  IF k = 0 THEN x ELSE [x EXCEPT !.entries[uc] = RemoveAt(@, k)]

Ask(x, uc, cnt, about, item) ==
    [x EXCEPT !.asked[uc] = Append(@, [cnt |-> cnt, about |-> about, value |-> item.value])]

EntriesOf(u) == Cardinality(DOMAIN u.items) + IF u.any = NULL THEN 0 ELSE 1

(* CsLpLoadControlCallback.  An empty list is approved whatever the write  *)
(* deletes.  A write that is not exactly one known limit is denied; one    *)
(* that is another use case's, or has no value, is approved.               *)
CsLpLoadControlCallback(x, uc, m) ==
    LET id == CHOOSE i \in DOMAIN m.upd.items : TRUE
        known == CsLpGetLimitId(x, uc)
        approved == CsTryApprove(x, "LoadControl", m.cnt).x
        denied == DenyWrite(x, "LoadControl", m.cnt).x
    IN  IF uc \notin scenario.approver \/ m.fn # "limit" \/ EntriesOf(m.upd) = 0 THEN approved
        ELSE IF EntriesOf(m.upd) > 1 \/ m.upd.any # NULL \/ known = NULL THEN denied
        ELSE IF id # known
             THEN IF LoadControlCommonGetLimitDescriptionWithFilter(x.data, [id |-> id]) # NULL
                  THEN approved ELSE denied
        ELSE IF LoadLimitInit(m.upd.items, id) = NULL THEN approved
        ELSE Ask(EntryAdd(x, uc, m.cnt, "LoadControl"), uc, m.cnt, uc, m.upd.items[id])

(* CsLpFindKeyValue: the item of the write, with a value of whatever kind, *)
(* of a key name.                                                          *)
CsLpFindKeyValue(x, u, name) ==
    LET HasValue(item) == item.value # NULL \/ item.other # NULL
    IN  HelperListMatchFirst([i \in {j \in DOMAIN u.items : HasValue(u.items[j])} |->
                            [name |-> About(x, "key", i)]], KeyFilter(name))

(* CsLpDeviceConfigParseMessage: there is an approver and the write is one *)
(* of key values.                                                          *)
CsLpDeviceConfigParseMessage(uc, m) == uc \in scenario.approver /\ m.fn = "key"

(* CsLpcFailsafeValueCallback and CsLpcFailsafeDurationCallback: one entry *)
(* for both questions about a write.  A write that does not have the key,  *)
(* or has it with a value of another kind, is approved.                    *)
CsLpcFailsafeCallback(x, uc, name, m) ==
    LET id == CsLpFindKeyValue(x, m.upd, name)
        y == IF EntryFind(x, uc, m.cnt) = 0
             THEN EntryAdd(x, uc, m.cnt, "DeviceConfiguration") ELSE x
    IN  IF CsLpDeviceConfigParseMessage(uc, m) /\ LoadLimitInit(m.upd.items, id) # NULL
        THEN Ask(y, uc, m.cnt, name, m.upd.items[id])
        ELSE CsTryApprove(x, "DeviceConfiguration", m.cnt).x

CsOnApprove(x, cb, m) ==
    IF FeatureOf[m.fn] = "LoadControl" THEN CsLpLoadControlCallback(x, cb.uc, m)
    ELSE CsLpcFailsafeCallback(x, cb.uc, cb.name, m)

(* Mutant: the entry of an expired write stays.                            *)
CsLpWriteExpiryKeepsEntry(x, f, cnt) ==
    LET uc == Last(scenario.ucs)
    IN  [x EXCEPT !.asked[uc] = SelectSeq(@, LAMBDA a : a.cnt # cnt)]

(* CsLpWriteExpiryCallback of the use case constructed last.               *)
CsLpWriteExpiryCallback(x, f, cnt) ==
    LET uc == Last(scenario.ucs)
        y == [x EXCEPT !.asked[uc] = SelectSeq(@, LAMBDA a : a.cnt # cnt)]
    IN  IF f \notin {"LoadControl", "DeviceConfiguration"} \/ EntryFind(x, uc, cnt) = 0 THEN x
        ELSE EntryRemove(y, uc, cnt)

(* AddDeviceDiagnosisClient, OnRemoteEgAdded.                              *)
AddDeviceDiagnosisClient(x) ==
    DeviceDiagnosisClientRequestHeartbeat(EnsureSubscribed(x, "DeviceDiagnosis"))

OnRemoteEgAdded(x, uc) == [AddDeviceDiagnosisClient(x) EXCEPT !.remote[uc] = TRUE]

(* OnUseCaseDataUpdate: scenario.diag compatible entities of the energy    *)
(* guard have a diagnosis server.                                          *)
OnUseCaseDataUpdate(x, uc) ==
    CASE scenario.diag = 0 \/ ~EgFits(x, uc) -> x
      [] scenario.diag = 1 -> OnRemoteEgAdded(x, uc)
      [] OTHER             -> [x EXCEPT !.keo[uc] = TRUE]

OnBindingAdded(x, f) ==
    FoldLeft(LAMBDA y, uc : IF f = "LoadControl" /\ y.keo[uc] /\ EgFits(y, uc) THEN OnRemoteEgAdded(y, uc) ELSE y,
             x, scenario.ucs)

(* OnRemoteEgRemoved, when the remote device goes.                         *)
OnRemoteEgRemoved(x) ==
    [x EXCEPT !.keo = [uc \in Ucs |-> @[uc] /\ ~x.remote[uc]],
              !.remote = [uc \in Ucs |-> FALSE]]

(* OnHeartbeat: only notifications, and only with a diagnosis client.      *)
CsOnHeartbeat(x, m) ==
    IF m.class = "notify" /\ \E uc \in Ucs : x.remote[uc]
    THEN [x EXCEPT !.heard = m.upd.items[1].beat] ELSE x

CsOnData(x, m) == IF m.fn = "heartbeat" THEN CsOnHeartbeat(x, m) ELSE x

CsHandle(x, m) ==
    IF m.class = "usecase"
    THEN FoldLeft(OnUseCaseDataUpdate, Met(x, m), scenario.ucs)
    ELSE HandleMessage(x, m)

-----------------------------------------------------------------------------
(* The controllable system's application (cs_lp_public.c).                 *)
LimitScenario == scenario.name = "limit"

(* CsLpSetActivePowerLimit deletes the limit, with its period, and adds it. *)
CsLpSetActivePowerLimit(x, uc, changeable) ==
    LET id == CsLpGetLimitId(x, uc)
    IN  IF id = NULL THEN x
        ELSE LoadControlServerUpdateLimitWithFilter(x, Item(OwnValue, NULL, changeable), [id |-> id],
                                                    [id |-> id, fields |-> {}])

CsLpSetFailsafeActivePowerLimit(x, uc, changeable) ==
    DeviceConfigurationServerUpdateKeyValueWithFilter(x, Item(OwnValue, NULL, changeable), KeyFilter(uc))

CsLpSetFailsafeDurationMinimum(x, changeable) ==
    DeviceConfigurationServerUpdateKeyValueWithFilter(x, Item(OwnValue, NULL, changeable),
                                                      KeyFilter(Duration))

CsLpGetElectricalConnectionCharacteristics(x, uc) ==
    ElectricalConnectionCommonGetCharacteristicWithFilter(
        x.data, [type |-> NominalMaxCharacteristic(scenario, uc)])

(* The new value comes without the type of the characteristic.             *)
CsLpSetNominalMax(x, uc) ==
    LET id == CsLpGetElectricalConnectionCharacteristics(x, uc)
    IN  IF id = NULL THEN x
        ELSE ElectricalConnectionServerUpdateCharacteristic(x, id, Characteristic(OwnValue, NULL))

CsSets ==
    /\ srv.sets < scenario.maxSets
    /\ LET x == [srv EXCEPT !.sets = @ + 1]
       IN  \E uc \in Ucs :
             \/ \E b \in BOOLEAN : ServerDoes(CsLpSetActivePowerLimit(x, uc, b))
             \/ ServerDoes(CsLpSetFailsafeActivePowerLimit(x, uc, TRUE))
             \/ ServerDoes(CsLpSetFailsafeDurationMinimum(x, TRUE))
             \/ ServerDoes(CsLpSetNominalMax(x, uc))

(* CsLpApproveWrite: the entry goes unless votes are missing.              *)
CsLpApproveWrite(x, uc, cnt) ==
    LET k == EntryFind(x, uc, cnt)
        r == CsTryApprove(x, x.entries[uc][k].f, cnt)
    IN  IF k = 0 THEN x
        ELSE IF r.status = "Pending" THEN r.x ELSE EntryRemove(r.x, uc, cnt)

CsLpDenyWrite(x, uc, cnt) ==
    LET k == EntryFind(x, uc, cnt)
    IN  IF k = 0 THEN x ELSE EntryRemove(DenyWrite(x, x.entries[uc][k].f, cnt).x, uc, cnt)

(* The approver answers each question once.                                *)
Answered(x, uc, k) == [x EXCEPT !.asked[uc] = RemoveAt(@, k)]

ApproverApproves ==
    /\ \E uc \in Ucs : \E k \in DOMAIN srv.asked[uc] :
         LET a == srv.asked[uc][k]
             x == [Answered(srv, uc, k) EXCEPT !.approved = @ \cup {[uc |-> uc] @@ a}]
         IN  ServerDoes(CsLpApproveWrite(x, uc, a.cnt))

ApproverDenies ==
    /\ \E uc \in Ucs : \E k \in DOMAIN srv.asked[uc] :
         ServerDoes(CsLpDenyWrite(Answered(srv, uc, k), uc, srv.asked[uc][k].cnt))

(* The device ticks once a second: heartbeat, then every feature.          *)
CsTick ==
    /\ ServerDoes(LET x == HeartbeatTick(srv, "heartbeat", scenario.period, scenario.maxBeats)
                  IN  FoldLeft(FeatureTick, x, <<"LoadControl", "DeviceConfiguration">>))

CsHeartbeat ==
    /\ scenario.period # 0
    /\ ServerDoes(HeartbeatStart(srv)) \/ ServerDoes(HeartbeatStop(srv))

-----------------------------------------------------------------------------
(* The energy guard (eg_lp.c).                                             *)
EgLpUseCaseConstruct(c) ==
    UseCaseConstruct(
        [AddDeviceDiagnosisFeature(NewDevice(DOMAIN LimitFeatureOf, None, Calls, LimitOperationsOf))
            EXCEPT !.ticks = c.period], "CEM", [k \in DOMAIN c.ucs |-> EgInfo(c.ucs[k])])
      @@ [told |-> None, heard |-> 0, next |-> 1]

EgLpActivePowerLimitFilter(uc) == LimitFilter(uc)
EgLpNominalMaxPrimaryFilter(uc) == [type |-> <<"power", uc>>]
EgLpNominalMaxContractualFilter(uc) == [type |-> <<"contractual", uc>>]

(* What the energy guard knows of the controllable system (eg_lp_public.c). *)
EgLpGetActivePowerLimit(x, uc) ==
    LET id == LoadControlCommonGetLimitDescriptionWithFilter(x.cache, EgLpActivePowerLimitFilter(uc))
    IN  IF ~CsFits(x, uc) \/ id = NULL THEN NULL
        ELSE LoadLimitInit(x.cache.limit, LoadControlCommonGetLimitWithFilter(x.cache, [id |-> id]))

EgLpGetFailsafeActivePowerLimit(x, uc) ==
    IF ~CsFits(x, uc) THEN NULL
    ELSE LoadLimitInit(x.cache.key, DeviceConfigurationCommonGetKeyValueWithFilter(x.cache, KeyFilter(uc)))

EgLpGetFailsafeDurationMinimum(x, uc) ==
    IF ~CsFits(x, uc) THEN NULL
    ELSE LoadLimitInit(x.cache.key,
                       DeviceConfigurationCommonGetKeyValueWithFilter(x.cache, KeyFilter(Duration)))

EgLpGetPowerNominalMax(x, uc) ==
    LET Find(filter) == ElectricalConnectionCommonGetCharacteristicWithFilter(x.cache, filter)
        first == Find(EgLpNominalMaxPrimaryFilter(uc))
    IN  IF ~CsFits(x, uc) THEN NULL
        ELSE LoadLimitInit(x.cache.characteristic,
                           IF first # NULL THEN first ELSE Find(EgLpNominalMaxContractualFilter(uc)))

(* eg_lp_events.c: the controllable system is there.                       *)
OnRemoteCsAddedHandleLoadControl(x) ==
    LoadControlClientRequestLimitDescriptions(
        EnsureBound(EnsureSubscribed(x, "LoadControl"), "LoadControl"))

OnRemoteCsAddedHandleDeviceConfiguration(x) ==
    DeviceConfigurationClientRequestKeyValueDescription(
        EnsureBound(EnsureSubscribed(x, "DeviceConfiguration"), "DeviceConfiguration"))

OnRemoteCsAddedHandleDeviceDiagnosis(x) ==
    DeviceDiagnosisClientRequestHeartbeat(EnsureSubscribed(x, "DeviceDiagnosis"))

OnRemoteCsAddedHandleElectricalConnection(x) ==
    ElectricalConnectionClientRequestCharacteristics(EnsureSubscribed(x, "ElectricalConnection"), NULL)

OnRemoteCsChange(x, uc) ==
    IF ~CsFits(x, uc) THEN x
    ELSE OnRemoteCsAddedHandleElectricalConnection(OnRemoteCsAddedHandleDeviceDiagnosis(
        OnRemoteCsAddedHandleDeviceConfiguration(OnRemoteCsAddedHandleLoadControl(x))))

(* EgLpReadLoadControlLimit: needs the description of the limit.           *)
EgLpReadLoadControlLimit(x, uc, call) ==
    LoadControlClientReadLimit(x, EgLpActivePowerLimitFilter(uc), call)

(* Mutant: the listener is told what was received, not what results.       *)
EgOnLimitDataReceived(x, uc, u) ==
    LET id == LoadControlCommonGetLimitDescriptionWithFilter(x.cache, EgLpActivePowerLimitFilter(uc))
    IN  IF id \in DOMAIN u.items THEN Told(x, <<"limit", uc>>, LoadLimitInit(u.items, id)) ELSE x

EgOnLimitData(x, uc, u) ==
    IF ~LoadControlCommonCheckLimitWithFilter(x.cache, u.items, EgLpActivePowerLimitFilter(uc)) THEN x
    ELSE Told(x, <<"limit", uc>>, EgLpGetActivePowerLimit(x, uc))

EgOnConfigurationData(x, uc, u) ==
    LET Has(name) == DeviceConfigurationCommonCheckKeyValueWithFilter(x.cache, u.items, KeyFilter(name))
        y == IF Has(uc) THEN Told(x, <<"key", uc>>, EgLpGetFailsafeActivePowerLimit(x, uc)) ELSE x
    IN  IF Has(Duration) THEN Told(y, <<"key", Duration>>, EgLpGetFailsafeDurationMinimum(y, uc)) ELSE y

(* The type is looked for in what was received.                            *)
OnElectricalConnectionCharacteristicDataUpdate(x, uc, u) ==
    IF \E filter \in {EgLpNominalMaxPrimaryFilter(uc), EgLpNominalMaxContractualFilter(uc)} :
          ElectricalConnectionCommonCheckCharacteristicWithFilter(u.items, filter)
    THEN Told(x, <<"characteristic", uc>>, EgLpGetPowerNominalMax(x, uc)) ELSE x

EgOnHeartbeat(x, m) ==
    IF m.class = "notify" THEN [x EXCEPT !.heard = m.upd.items[1].beat] ELSE x

(* OnDataChange of each use case: descriptions make it read the data.      *)
EgOnDataChange(x, uc, m) ==
    CASE ~CsFits(x, uc)     -> x
      [] m.fn = "limitDesc" -> EgLpReadLoadControlLimit(x, uc, NULL)
      [] m.fn = "limit"     -> EgOnLimitData(x, uc, m.upd)
      [] m.fn = "keyDesc"   -> DeviceConfigurationClientRequestKeyValue(x, NULL)
      [] m.fn = "key"       -> EgOnConfigurationData(x, uc, m.upd)
      [] m.fn = "heartbeat" -> EgOnHeartbeat(x, m)
      [] m.fn = "characteristic" -> OnElectricalConnectionCharacteristicDataUpdate(x, uc, m.upd)

EgOnData(x, m) == FoldLeft(LAMBDA y, uc : EgOnDataChange(y, uc, m), x, scenario.ucs)

EgHandle(x, m) ==
    IF m.class = "usecase"
    THEN FoldLeft(OnRemoteCsChange, Met(x, m), scenario.ucs)
    ELSE HandleMessage(x, m)

(* The energy guard's application (eg_lp_public.c).                        *)
(* EgLpWriteLoadControlLimit needs the limit in the cache and obeys        *)
(* isLimitChangeable.                                                      *)
EgLpWriteLoadControlLimit(x, uc, call, period, del) ==
    LET id == LoadControlCommonGetLimitWithFilter(x.cache, EgLpActivePowerLimitFilter(uc))
    IN  IF id = NULL \/ x.cache.limit[id].changeable = FALSE THEN x
        ELSE LoadControlClientWriteLimitList(x, One(id, Item(call, period, NULL)),
                                             IF del THEN [id |-> id, fields |-> {"period"}] ELSE NULL,
                                             call)

EgLpSetActivePowerLimit(x, uc, call, period, del) ==
    IF ~CsFits(x, uc) THEN x ELSE EgLpWriteLoadControlLimit(x, uc, call, period, del)

EgLpSetKeyValue(x, uc, name, call) ==
    LET id == DeviceConfigurationCommonGetKeyValueDescriptionWithFilter(x.cache, KeyFilter(name))
    IN  IF ~CsFits(x, uc) \/ id = NULL THEN x
        ELSE DeviceConfigurationClientWriteKeyValueList(x, One(id, Item(call, NULL, NULL)), call)

EgLpSetFailsafeActivePowerLimit(x, uc, call) == EgLpSetKeyValue(x, uc, uc, call)

(* A duration of less than two or more than 24 hours is refused.           *)
EgLpSetFailsafeDurationMinimum(x, uc, call, hours) ==
    IF hours \notin 2..24 THEN x ELSE EgLpSetKeyValue(x, uc, Duration, call)

EgLpReadActivePowerLimit(x, uc, call) ==
    IF ~CsFits(x, uc) THEN x ELSE EgLpReadLoadControlLimit(x, uc, call)

EgLpReadDeviceConfigurationWithKeyName(x, uc, name, call) ==
    IF ~CsFits(x, uc)
         \/ DeviceConfigurationCommonGetKeyValueDescriptionWithFilter(x.cache, KeyFilter(name)) = NULL
    THEN x ELSE DeviceConfigurationClientRequestKeyValue(x, call)

EgLpReadFailsafeActivePowerLimit(x, uc, call) ==
    EgLpReadDeviceConfigurationWithKeyName(x, uc, uc, call)
EgLpReadFailsafeDurationMinimum(x, uc, call) ==
    EgLpReadDeviceConfigurationWithKeyName(x, uc, Duration, call)

EgLpReadPowerNominalMax(x, uc, call) ==
    IF ~CsFits(x, uc) THEN x
    ELSE ElectricalConnectionClientRequestCharacteristics(x, call)

(* Writes of limits that this code's energy guard would not send: several  *)
(* limits, one without identifier, an unknown one, none, only a period; a  *)
(* delete filter with an empty list or with a value for another limit; and *)
(* full writes, which replace the list.                                    *)
OtherWrites(call) ==
    LET i(v) == Item(v, NULL, NULL)
        period == Item(NULL, SomePeriod, NULL)
        whole(id) == [id |-> id, fields |-> {}]
    IN  {PartialUpdate(None, NULL), [PartialUpdate(None, NULL) EXCEPT !.any = i(call)],
         PartialUpdate(One(9, i(call)), NULL), PartialUpdate([id \in {0, 1} |-> i(call)], NULL),
         PartialUpdate(One(0, period), NULL), PartialUpdate(None, whole(0)),
         PartialUpdate(One(0, i(call)), whole(0)), PartialUpdate(One(1, i(call)), whole(0)),
         FullUpdate(None), FullUpdate(One(0, i(call))), FullUpdate(One(0, period))}

(* The same of key values: of another kind, for both keys at once, none    *)
(* with a delete filter, and a full write of one key.                      *)
OtherKeyWrites(call) ==
    LET i(v, o) == [Item(v, NULL, NULL) EXCEPT !.other = o]
    IN  {PartialUpdate(One(0, i(NULL, call)), NULL),
         PartialUpdate([id \in {0, 1} |-> IF id = 0 THEN i(NULL, call) ELSE i(call, NULL)], NULL),
         PartialUpdate([id \in {0, 1} |-> i(call, NULL)], NULL),
         PartialUpdate(None, [id |-> 0, fields |-> {}]), FullUpdate(One(0, i(call, NULL)))}

NextCall(x) == [x EXCEPT !.next = @ + 1]

(* A call that returns an error sends nothing and is left out.             *)
EgCalls(x) ==
    /\ cli.next <= scenario.maxCalls
    /\ x # cli
    /\ ClientDoes(NextCall(x))

EgWrites ==
    LET call == cli.next
    IN  \/ \E uc \in Ucs :
             \/ \E p \in {<<NULL, FALSE>>, <<SomePeriod, FALSE>>, <<NULL, TRUE>>} :
                  EgCalls(EgLpSetActivePowerLimit(cli, uc, call, p[1], p[2]))
             \/ EgCalls(EgLpSetFailsafeActivePowerLimit(cli, uc, call))
             \/ \E hours \in {1, 2} : EgCalls(EgLpSetFailsafeDurationMinimum(cli, uc, call, hours))

EgWritesOther ==
    /\ scenario.foreign /\ cli.binds # {} /\ cli.next <= scenario.maxCalls
    /\ \/ \E u \in OtherWrites(cli.next) : EgCalls(WriteToRemote(cli, "limit", u, cli.next))
       \/ \E u \in OtherKeyWrites(cli.next) : EgCalls(WriteToRemote(cli, "key", u, cli.next))

EgReads ==
    LET call == cli.next
    IN  \/ \E uc \in Ucs : \/ EgCalls(EgLpReadActivePowerLimit(cli, uc, call))
                           \/ EgCalls(EgLpReadFailsafeActivePowerLimit(cli, uc, call))
                           \/ EgCalls(EgLpReadFailsafeDurationMinimum(cli, uc, call))
                           \/ EgCalls(EgLpReadPowerNominalMax(cli, uc, call))

EgTick ==
    /\ ClientDoes(LET x == HeartbeatTick(cli, "heartbeat", scenario.period, scenario.maxBeats)
                  IN  FoldLeft(FeatureTick, x,
                               <<"LoadControl", "DeviceConfiguration", "ElectricalConnection">>))

EgHeartbeat ==
    /\ scenario.period # 0
    /\ ClientDoes(HeartbeatStart(cli)) \/ ClientDoes(HeartbeatStop(cli))

-----------------------------------------------------------------------------
LimitInit ==
    /\ scenario \in LimitConfigs
    /\ srv = CsLpUseCaseConstruct(scenario) /\ cli = EgLpUseCaseConstruct(scenario)
    /\ up = FALSE /\ links = 0

CsReceives == ServerReceives(CsHandle(srv, Head(cli.out)))
EgReceives == ClientReceives(EgHandle(cli, Head(srv.out)))

LimitNext ==
    /\ LimitScenario
    /\ \/ Connect \/ Disconnect
       \/ CsReceives \/ EgReceives
       \/ CsSets \/ ApproverApproves \/ ApproverDenies \/ CsTick \/ CsHeartbeat
       \/ EgWrites \/ EgWritesOther \/ EgReads \/ EgTick \/ EgHeartbeat

LimitSpec == LimitInit /\ [][LimitNext]_linkVars

-----------------------------------------------------------------------------
Owners(about) == {uc \in Ucs : about \in {uc, Duration}}


(* The same without the exemption: nothing that a write does goes past the *)
(* approver.  The code does not keep this.                                 *)
NothingUnasked ==
    LimitScenario /\ links <= 1 => \A w \in srv.applied : \A uc \in Owners(w.about) :
        uc \in scenario.approver => \E a \in srv.approved : a.uc = uc /\ a.cnt = w.cnt

(* What is stored is what the approver was shown and approved              *)
(* (CsLpLoadControlCallback shows the one entry of a write).               *)
AppliedAsShown ==
    LimitScenario => \A w \in srv.applied : \A uc \in Owners(w.about) :
        uc \in scenario.approver /\ w.value # NULL
          => \E a \in srv.approved : a.uc = uc /\ a.about = w.about /\ a.value = w.value

(* On one connection, and with one use case on the entity, what the        *)
(* approver can still answer is a pending write, and no entry outlives its *)
(* write (approval, denial and expiry all remove both).                    *)
EntryHasPending ==
    LimitScenario /\ links <= 1 /\ Len(scenario.ucs) = 1 =>
        \A uc \in Ucs : \A k \in DOMAIN srv.entries[uc] :
            LET e == srv.entries[uc][k] IN PendingFind(srv.pend[e.f], e.cnt) # 0

PendingCalls(x) == {p.call : p \in UNION {Range(x.results[f]) \cup Range(x.replies[f]) : f \in DOMAIN x.results}}

(* A call ends once and is pending until then: by its result, its reply or *)
(* the timeout, though the approver may never answer.  Only the end of a   *)
(* connection drops reads without a word.  On one connection an error      *)
(* means that the write was not applied.                                   *)
OutcomeIsOwn ==
    LimitScenario => \A c \in Calls :
        /\ Len(cli.done[c]) <= 1
        /\ links <= 1 /\ up /\ c < cli.next => cli.done[c] # None \/ c \in PendingCalls(cli)
        /\ links <= 1 /\ cli.done[c] = <<"error">> => \A w \in srv.applied : w.value # c

(* When nothing is under way the energy guard's copies are the             *)
(* controllable system's data, through every mix of replies,               *)
(* notifications, deletions of a period and reconnections.                 *)
CacheAgrees ==
    LimitScenario /\ Quiet /\ (\E uc \in Ucs : CsFits(cli, uc)) => \A fn \in {"limit", "key", "characteristic"} :
        cli.cache[fn] = srv.data[fn]

(* When nothing is under way the energy guard's listener was last told     *)
(* what the controllable system has, if it was told at all: the limits and *)
(* the failsafe values that have a value.  Two things are left aside: what *)
(* others than this code's energy guard write (a write without an          *)
(* identifier, of a period alone or that deletes is applied and not told), *)
(* and the nominal maximum, of which the listener is told only by the      *)
(* reply to a read and never of a change: CsLpSetNominalMax sends the      *)
(* value without its type (cs_lp_public.c:469-481) and the energy guard    *)
(* looks for the type in what it received (eg_lp_events.c:239-240), though *)
(* its copy of the data is right (CacheAgrees).                            *)
ListenerUpToDate ==
    LimitScenario /\ Quiet /\ ~scenario.foreign => \A uc \in {c \in Ucs : CsFits(cli, c)} :
        /\ CsLpGetActivePowerLimit(srv, uc) # NULL
             => cli.told[<<"limit", uc>>] = CsLpGetActivePowerLimit(srv, uc)
        /\ cli.told[<<"key", uc>>] = CsLpGetFailsafeActivePowerLimit(srv, uc)
        /\ cli.told[<<"key", Duration>>] = CsLpGetFailsafeDurationMinimum(srv)

(* The same for the nominal maximum, which the code does not keep.         *)
NominalMaxTold ==
    LimitScenario /\ Quiet => \A uc \in {c \in Ucs : CsFits(cli, c)} :
        LET id == CsLpGetElectricalConnectionCharacteristics(srv, uc)
            max == srv.data.characteristic[id].value
            what == <<"characteristic", uc>>
        IN  max # NULL => what \in DOMAIN cli.told /\ cli.told[what].value = max

(* The heartbeat client of the controllable system never outlives the      *)
(* remote entity it points to.                                             *)
DiagnosisClientLive ==
    LimitScenario => \A uc \in Ucs : srv.remote[uc] => srv.peer /\ "DeviceDiagnosis" \in srv.subs

=============================================================================
