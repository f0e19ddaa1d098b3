----------------------------- MODULE Monitoring -----------------------------
(***************************************************************************)
(* The monitoring of power consumption (MPC) and of a grid connection      *)
(* point (MGCP): a monitored unit (mu_mpc*.c) or a grid connection point   *)
(* (gcp_mgcp*.c) on the server device, the monitoring appliance (ma_*.c) on *)
(* the client device.  The application of the server sets values into a    *)
(* cache, from any thread, and publishes the cache with an update, which   *)
(* first takes the cached values and then stores them: other threads and   *)
(* the device's own may run in between.                                    *)
(*                                                                         *)
(* The name of a measurement is a pair of its monitor and a part.          *)
(***************************************************************************)
EXTENDS UseCaseLink, Functions

CONSTANTS MonitorConfigs, \* what behaviours may start with: records of
                          \*   uc       "MPC" or "MGCP"
                          \*   entity   the type of the server's entity
                          \*   names    the measurements that are configured, in order
                          \*   phases   of the total power of a grid connection point
                          \*   limited  the measurements that have constraints
                          \*   curtails the grid connection point has a curtailment factor
                          \*   maxLinks, maxSets  bounds
          Updaters        \* threads of the application that publish

Values == {1, 2}            \* measured values; a later call may bring an earlier one again
States == {NULL, "normal", "error"}
EcId == 0                   \* the electrical connection id that the application chose
Curtailment == [name |-> "pvCurtailmentLimitFactor"]

MonitorFeatureOf ==
    [measDesc |-> "Measurement", meas |-> "Measurement", measConstraints |-> "Measurement",
     ecDesc |-> "ElectricalConnection", ecParam |-> "ElectricalConnection",
     keyDesc |-> "DeviceConfiguration", key |-> "DeviceConfiguration"]

(* Constraints can be read only if there are any.                          *)
MonitorOperationsOf(c) ==
    [fn \in DOMAIN MonitorFeatureOf |->
        Operations(CASE fn = "measConstraints" -> c.limited # {}
                     [] fn \in {"keyDesc", "key"} -> c.curtails
                     [] OTHER -> TRUE, FALSE)]

MonitorScenario == scenario.name = "monitor"

-----------------------------------------------------------------------------
(* The server: what a measurement is created and described with            *)
(* (mu_mpc_measurement.c, gcp_mgcp_measurement.c, eebus_measurement_base.c). *)
Phases == {"A", "B", "C"}
GetCurrentPhase(name) == IF name[2] \in Phases THEN name[2] ELSE "None"
GetVoltagePhase(name) == IF name[2] \in Phases \cup {"AB", "BC", "AC"} THEN name[2] ELSE "None"

Created(scope, phases) == [scope |-> scope, phases |-> phases]

(* MPC: the phases of the total power are those that are configured.       *)
GetConnectedPhases(names) == {n[2] : n \in {m \in Range(names) : m[1] = "Power"}} \ {"Total"}

MuMpcGetEnergyScopeType(name) == IF name[2] = "Consumed" THEN "ACEnergyConsumed" ELSE "ACEnergyProduced"

MuMpcMonitorPowerCreate(c, name) ==
    IF name[2] = "Total" THEN Created("ACPowerTotal", GetConnectedPhases(c.names))
    ELSE Created("ACPower", GetCurrentPhase(name))

MuMpcMeasurementCreate(c, name) ==
    CASE name[1] = "Power"     -> MuMpcMonitorPowerCreate(c, name)
      [] name[1] = "Energy"    -> Created(MuMpcGetEnergyScopeType(name), "None")
      [] name[1] = "Current"   -> Created("ACCurrent", GetCurrentPhase(name))
      [] name[1] = "Voltage"   -> Created("ACVoltage", GetVoltagePhase(name))
      [] name[1] = "Frequency" -> Created("ACFrequency", "None")

(* MGCP: only the total power, of the phases that the application names.   *)
GcpMgcpGetEnergyScopeType(name) == IF name[2] = "FeedIn" THEN "GridFeedIn" ELSE "GridConsumption"

GcpMgcpMonitorPowerCreate(c) == Created("ACPowerTotal", c.phases)

GcpMgcpMeasurementCreate(c, name) ==
    CASE name[1] = "Power"     -> GcpMgcpMonitorPowerCreate(c)
      [] name[1] = "Energy"    -> Created(GcpMgcpGetEnergyScopeType(name), "None")
      [] name[1] = "Current"   -> Created("ACCurrent", GetCurrentPhase(name))
      [] name[1] = "Voltage"   -> Created("ACVoltage", GetVoltagePhase(name))
      [] name[1] = "Frequency" -> Created("ACFrequency", "None")

MeasurementCreate(c, name) ==
    IF c.uc = "MPC" THEN MuMpcMeasurementCreate(c, name) ELSE GcpMgcpMeasurementCreate(c, name)

VoltagePhaseFrom(phase) ==
    CASE phase = "AB" -> "A" [] phase = "BC" -> "B" [] phase = "AC" -> "C" [] OTHER -> phase

VoltagePhaseTo(phase) ==
    CASE phase = "AB" -> "B" [] phase = "BC" -> "C" [] phase = "AC" -> "A" [] OTHER -> "Neutral"

(* The five configure strategies: the phases of the parameter description. *)
Parameter(phases, ref) == [phases |-> phases, ref |-> ref]

ConfigurePower(phases) == Parameter(phases, "Neutral")
ConfigureEnergy == Parameter(NULL, NULL)
ConfigureCurrent(phases) == Parameter(phases, NULL)
ConfigureVoltage(phases) == Parameter(VoltagePhaseFrom(phases), VoltagePhaseTo(phases))
ConfigureFrequency == Parameter(NULL, NULL)

ConfigureStrategy(group, phases) ==
    CASE group = "Power"     -> ConfigurePower(phases)
      [] group = "Energy"    -> ConfigureEnergy
      [] group = "Current"   -> ConfigureCurrent(phases)
      [] group = "Voltage"   -> ConfigureVoltage(phases)
      [] group = "Frequency" -> ConfigureFrequency

(* Configure: a description, whose identifier the measurement keeps, a     *)
(* parameter description, and the constraints.                             *)
Configure(x, c, name) ==
    LET id == GetNextMeasurementId(x)
        created == MeasurementCreate(c, name)
        p == ConfigureStrategy(name[1], created.phases)
        y == MeasurementServerAddDescription(x, [type |-> name[1], scope |-> created.scope])
        z == ElectricalConnectionServerAddParameterDescription(
                y, [ec |-> EcId, meas |-> id, phases |-> p.phases, ref |-> p.ref])
    IN  [z EXCEPT !.ids = @ @@ (name :> id)]

EebusMonitorFeaturesSetup(x, c) ==
    LET y == IF ElectricalConnectionCommonGetDescriptionWithId(x.data, EcId) # NULL THEN x
             ELSE ElectricalConnectionServerAddDescriptionWithId(x, [direction |-> "consume"], EcId)
        z == FoldLeft(LAMBDA w, name : Configure(w, c, name), y, c.names)
        limits == [id \in {z.ids[n] : n \in c.limited} |-> [limited |-> TRUE]]
    IN  IF c.limited = {} THEN z ELSE MeasurementServerUpdateMeasurementConstraints(z, limits)

AddCurtailmentFeature(x) == DeviceConfigurationServerAddKeyValueDescription(x, Curtailment)

(* What a use case refuses to be created with: a voltage between phases    *)
(* that are not both measured, a monitor without measurements.             *)
VoltagesOk(c) ==
    \A p \in {<<"AB", "A", "B">>, <<"BC", "B", "C">>, <<"AC", "A", "C">>} :
        <<"Voltage", p[1]>> \in Range(c.names)
          => {<<"Voltage", p[2]>>, <<"Voltage", p[3]>>} \subseteq Range(c.names)

MuMpcMonitorsOk(c) ==
    /\ VoltagesOk(c)
    /\ \A n \in Range(c.names) : n[1] = "Energy" => n[2] \in {"Consumed", "Produced"}

GcpMgcpMonitorsOk(c) ==
    /\ VoltagesOk(c)
    /\ \A n \in Range(c.names) : /\ n[1] = "Power" => n[2] = "Total"
                                 /\ n[1] = "Energy" => n[2] \in {"FeedIn", "Consumed"}

MonitorCreateOk(c) ==
    /\ <<"Power", "Total">> \in Range(c.names)
    /\ IF c.uc = "MPC" THEN MuMpcMonitorsOk(c) ELSE GcpMgcpMonitorsOk(c)

MonitoredUnitConstruct(c) ==
    LET x == NewDevice(DOMAIN MonitorFeatureOf, None, {}, MonitorOperationsOf(c))
               @@ [ids |-> None,                               \* the identifier of a measurement
                   values |-> [n \in Range(c.names) |-> NULL], \* measurement_data of each
                   taken |-> [t \in Updaters |-> NULL],        \* the list of an update
                   told |-> None, sets |-> 0,
                   last |-> [n \in Range(c.names) |-> NULL]]   \* history: what was set last
        y == EebusMonitorFeaturesSetup(x, c)
        info == IF c.uc = "MPC" THEN MuMpcInfo(c) ELSE GcpMgcpInfo(c)
    IN  UseCaseConstruct(IF c.curtails THEN AddCurtailmentFeature(y) ELSE y, c.entity, <<info>>)

-----------------------------------------------------------------------------
(* The values (eebus_monitor_container.c).                                 *)
SetDataCache(x, name, value, state) ==
    [x EXCEPT !.values[name] = [value |-> value, state |-> state],
              !.last[name] = value, !.sets = @ + 1]

(* FlushMeasurementCache of every monitor, under the container's mutex.    *)
FlushMeasurementCache(x, t) ==
    LET set == {n \in DOMAIN x.values : x.values[n] # NULL}
    IN  [x EXCEPT !.taken[t] = [id \in {x.ids[n] : n \in set} |->
                                   x.values[CHOOSE n \in set : x.ids[n] = id]],
                  !.values = [n \in DOMAIN @ |-> NULL]]

(* Mutant: the cache is cleared after the values were stored.              *)
StoreThenClear(x, t) ==
    [MeasurementServerUpdateMeasurements(x, x.taken[t], NULL)
       EXCEPT !.taken[t] = NULL, !.values = [n \in DOMAIN @ |-> NULL]]

(* The second half of an update, under the device's lock.                  *)
StoreTaken(x, t) ==
    [IF x.taken[t] = None THEN x ELSE MeasurementServerUpdateMeasurements(x, x.taken[t], NULL)
       EXCEPT !.taken[t] = NULL]

GcpMgcpSetPvCurtailmentLimitFactor(x, value) ==
    IF ~scenario.curtails THEN x
    ELSE [DeviceConfigurationServerUpdateKeyValueWithFilter(x, [value |-> value], Curtailment)
            EXCEPT !.sets = @ + 1]

MuSets ==
    /\ srv.sets < scenario.maxSets
    /\ \E value \in Values :
         \/ \E name \in DOMAIN srv.values, state \in States :
              ServerDoes(SetDataCache(srv, name, value, state))
         \/ ServerDoes(GcpMgcpSetPvCurtailmentLimitFactor(srv, value))

MuUpdateTakes(t) ==
    /\ srv.taken[t] = NULL /\ \E n \in DOMAIN srv.values : srv.values[n] # NULL
    /\ ServerDoes(FlushMeasurementCache(srv, t))

MuUpdateStores(t) ==
    /\ srv.taken[t] # NULL
    /\ ServerDoes(StoreTaken(srv, t))

(* The server handles reads and subscriptions; it is told that a           *)
(* monitoring appliance came (mu_mpc_events.c).                            *)
OnRemoteMaAdded(x, m) == Met(x, m)

MuHandle(x, m) ==
    IF m.class = "usecase" THEN OnRemoteMaAdded(x, m)
    ELSE HandleMessage(x, m)

-----------------------------------------------------------------------------
(* The client: the measurements it knows (the tables of                    *)
(* ma_mpc_measurement.c and ma_mgcp_measurement.c).                        *)
Known(group, part, scope, phases, ref) ==
    [name |-> <<group, part>>, type |-> group, scope |-> scope, phases |-> phases, ref |-> ref]

PerPhase(group, scope, ref) == [k \in 1..3 |-> LET p == <<"A", "B", "C">>[k] IN Known(group, p, scope, p, ref)]

Voltages ==
    PerPhase("Voltage", "ACVoltage", "Neutral")
      \o <<Known("Voltage", "AB", "ACVoltage", "A", "B"), Known("Voltage", "BC", "ACVoltage", "B", "C"),
           Known("Voltage", "AC", "ACVoltage", "C", "A")>>

PowerTotal == Known("Power", "Total", "ACPowerTotal", NULL, NULL)
Frequency == Known("Frequency", "All", "ACFrequency", NULL, NULL)

MaMpcTable ==
    <<PowerTotal>> \o PerPhase("Power", "ACPower", NULL)
      \o <<Known("Energy", "Consumed", "ACEnergyConsumed", NULL, NULL),
           Known("Energy", "Produced", "ACEnergyProduced", NULL, NULL)>>
      \o PerPhase("Current", "ACCurrent", NULL) \o Voltages \o <<Frequency>>

MaMgcpTable ==
    <<PowerTotal, Known("Energy", "FeedIn", "GridFeedIn", NULL, NULL),
      Known("Energy", "Consumed", "GridConsumption", NULL, NULL)>>
      \o PerPhase("Current", "ACCurrent", NULL) \o Voltages \o <<Frequency>>

Table == IF scenario.uc = "MPC" THEN MaMpcTable ELSE MaMgcpTable

(* How a measurement that was received is recognised and read              *)
(* (ma_measurement_base.c); v is the cache of the remote features.         *)
PhasesMatch(k, phases, ref) == k.phases \in {NULL, phases} /\ k.ref \in {NULL, ref}

MatchesTypeAndScopeAndPhases(k, type, scope, phases, ref) ==
    k.type = type /\ k.scope = scope /\ PhasesMatch(k, phases, ref)

GetPhasesWithMeasurementId(v, id) ==
    LET p == ElectricalConnectionCommonGetParameterDescriptionWithFilter(v, [meas |-> id])
    IN  IF p = NULL THEN NULL ELSE v.ecParam[p]

MaMeasurementGetInstance(v, id) ==
    LET d == MeasurementCommonGetMeasurementDescriptionWithId(v, id)
        p == GetPhasesWithMeasurementId(v, id)
        k == SelectInSeq(Table, LAMBDA e : MatchesTypeAndScopeAndPhases(
                e, v.measDesc[d].type, v.measDesc[d].scope, p.phases, p.ref))
    IN  IF d = NULL \/ p = NULL THEN NULL ELSE IF k = 0 THEN NULL ELSE Table[k]

StateIsNormal(item) == item.state \in {NULL, "normal"}

CheckPhaseSpecificData(k, v, direction, id) ==
    LET p == GetPhasesWithMeasurementId(v, id)
        d == ElectricalConnectionCommonGetDescriptionWithParameterDescriptionFilter(v, [meas |-> id])
    IN  /\ v.meas[id].value # NULL
        /\ k.phases # NULL => p # NULL /\ PhasesMatch(k, p.phases, p.ref)
        /\ direction # NULL => d # NULL /\ v.ecDesc[d].direction = direction
        /\ StateIsNormal(v.meas[id])

(* The first value, in the order of the descriptions, that passes.         *)
GetPhaseSpecificData(k, v, direction) ==
    LET ids == {id \in ListMatch(v.measDesc, [type |-> k.type, scope |-> k.scope]) :
                   id \in DOMAIN v.meas /\ CheckPhaseSpecificData(k, v, direction, id)}
    IN  IF ids = {} THEN NULL ELSE v.meas[Min(ids)].value

GetDescribedData(k, v) ==
    LET id == MeasurementCommonGetMeasurementWithFilter(v, [type |-> k.type, scope |-> k.scope])
    IN  IF id = NULL THEN NULL ELSE IF StateIsNormal(v.meas[id]) THEN v.meas[id].value ELSE NULL

MaMeasurementGetData(k, v) ==
    CASE k.type \in {"Power", "Current"} -> GetPhaseSpecificData(k, v, "consume")
      [] k.type = "Voltage"              -> GetPhaseSpecificData(k, v, NULL)
      [] OTHER                           -> GetDescribedData(k, v)

MaInfo(uc) == IF uc = "MPC" THEN MaMpcInfo ELSE MaMgcpInfo
MuFits(x) == UseCaseGetRemoteEntityWithAddress(x, MaInfo(scenario.uc))

(* What the client does when the use case is announced (ma_events.c,       *)
(* ma_mpc_events.c, ma_mgcp_events.c).                                     *)
MaOnEntityAddedHandleElectricalConnection(x) ==
    ElectricalConnectionClientRequestParameterDescriptions(
        ElectricalConnectionClientRequestDescriptions(EnsureSubscribed(x, "ElectricalConnection")))

MaOnEntityAddedHandleMeasurement(x) ==
    MeasurementClientRequestConstraints(
        MeasurementClientRequestDescriptions(EnsureSubscribed(x, "Measurement")))

(* The grid connection point has this feature only with scenario 1.        *)
OnEntityAddedHandleDeviceConfiguration(x) ==
    IF ~scenario.curtails THEN x
    ELSE DeviceConfigurationClientRequestKeyValueDescription(EnsureSubscribed(x, "DeviceConfiguration"))

MaOnEntityAdded(x) ==
    LET y == MaOnEntityAddedHandleMeasurement(
                MaOnEntityAddedHandleElectricalConnection(x))
    IN  IF ~MuFits(x) THEN x
        ELSE IF scenario.uc = "MGCP" THEN OnEntityAddedHandleDeviceConfiguration(y) ELSE y

(* Each item of the message, in order: the listener is told the value that *)
(* the cache then has for its name.                                        *)
OnMeasurementDataUpdate(x, items) ==
    LET Tell(y, id) ==
            LET k == MaMeasurementGetInstance(x.cache, id)
                value == MaMeasurementGetData(k, x.cache)
            IN  IF k = NULL THEN y
                ELSE IF value = NULL THEN y ELSE [y EXCEPT !.told = (k.name :> value) @@ @]
    IN  FoldLeft(Tell, x, SetToSortSeq(DOMAIN items, LAMBDA a, b : a < b))

OnDeviceConfigurationDataUpdate(x, items) ==
    LET id == DeviceConfigurationCommonGetKeyValueWithFilter(x.cache, Curtailment)
    IN  IF ~DeviceConfigurationCommonCheckKeyValueWithFilter(x.cache, items, Curtailment) \/ id = NULL
        THEN x ELSE [x EXCEPT !.told = (<<"curtailment">> :> x.cache.key[id].value) @@ @]

MaOnDataChange(x, m) ==
    CASE ~MuFits(x)        -> x
      [] m.fn = "measDesc" -> MeasurementClientRequestData(x)
      [] m.fn = "meas"     -> OnMeasurementDataUpdate(x, m.upd.items)
      [] m.fn = "keyDesc"  -> DeviceConfigurationClientRequestKeyValue(x, NULL)
      [] m.fn = "key"      -> OnDeviceConfigurationDataUpdate(x, m.upd.items)
      [] OTHER             -> x

MaHandle(x, m) ==
    IF m.class = "usecase" THEN MaOnEntityAdded(Met(x, m))
    ELSE HandleMessage(x, m)

MonitoringApplianceConstruct(c) ==
    UseCaseConstruct(NewDevice(DOMAIN MonitorFeatureOf, None, {}, MonitorOperationsOf(c)), "CEM",
                     <<MaInfo(c.uc)>>) @@ [told |-> None]

(* The listener is told that the entity went; it forgets what it knew.     *)
MaOnEntityRemoved(x) == [x EXCEPT !.told = None]

-----------------------------------------------------------------------------
MonitorInit ==
    /\ scenario \in MonitorConfigs /\ MonitorCreateOk(scenario)
    /\ srv = MonitoredUnitConstruct(scenario) /\ cli = MonitoringApplianceConstruct(scenario)
    /\ up = FALSE /\ links = 0

MuReceives == ServerReceives(MuHandle(srv, Head(cli.out)))
MaReceives == ClientReceives(MaHandle(cli, Head(srv.out)))

MonitorNext ==
    /\ MonitorScenario
    /\ \/ Connect \/ Disconnect
       \/ MuReceives \/ MaReceives \/ MuSets
       \/ \E t \in Updaters : MuUpdateTakes(t) \/ MuUpdateStores(t)

-----------------------------------------------------------------------------
(* When nothing is under way the monitoring appliance's listener was last  *)
(* told, under the same name, the value that the monitored unit has, for   *)
(* every measurement whose state is normal: the descriptions that          *)
(* eebus_measurement_base.c makes and the table and lookups of             *)
(* ma_measurement_base.c agree, and no value is missed while both sides    *)
(* discover each other.                                                    *)
MonitorListenerUpToDate ==
    MonitorScenario /\ Quiet /\ MuFits(cli) =>
        /\ \A n \in DOMAIN srv.ids :
             LET id == srv.ids[n]
             IN  id \in DOMAIN srv.data.meas /\ StateIsNormal(srv.data.meas[id])
                   => n \in DOMAIN cli.told /\ cli.told[n] = srv.data.meas[id].value
        /\ \A id \in DOMAIN srv.data.key : cli.told[<<"curtailment">>] = srv.data.key[id].value

(* With one thread that publishes, a value that was set is waiting in the  *)
(* cache, taken by an update under way, or stored, and what was set last   *)
(* is what is stored last (EebusMonitorContainerUpdate takes the cache and *)
(* stores it under two different locks).                                   *)
SetIsPublished ==
    MonitorScenario /\ Cardinality(Updaters) = 1 =>
        \A n \in DOMAIN srv.ids :
            LET id == srv.ids[n]
                waiting == [t \in Updaters |-> IF srv.taken[t] = NULL THEN None ELSE srv.taken[t]]
                latest == IF srv.values[n] # NULL THEN srv.values[n].value
                          ELSE IF \E t \in Updaters : id \in DOMAIN waiting[t]
                          THEN waiting[CHOOSE t \in Updaters : TRUE][id].value
                          ELSE IF id \in DOMAIN srv.data.meas THEN srv.data.meas[id].value ELSE NULL
            IN  srv.last[n] = latest
=============================================================================
