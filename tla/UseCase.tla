------------------------------ MODULE UseCase ------------------------------
(***************************************************************************)
(* What a use case announces of itself and whom it accepts as its partner  *)
(* (use_case.c, the UseCaseInfo of each actor), and the list in which a    *)
(* device announces the use cases of its entities                          *)
(* (node_management_types.c, usecase_information_types.c): a sequence of   *)
(* [entity, actor, supports], one for each entity and actor, whose         *)
(* supports are records [name, scenarios, available].                      *)
(***************************************************************************)
EXTENDS Naturals, Sequences, FiniteSets, SequencesExt

LOCAL INSTANCE Functions

UseCaseInfo(actor, name, actors, entities, scenarios) ==
    [actor |-> actor, name |-> name, actors |-> actors, entities |-> entities,
     scenarios |-> scenarios]

(* The limits: LPC and LPP.  The energy guard accepts a heat pump for its  *)
(* consumption only.                                                       *)
CsLpcInfo == UseCaseInfo("ControllableSystem", "LPC", {"EnergyGuard"}, {"GridGuard", "CEM"}, 1..4)
CsLppInfo == UseCaseInfo("ControllableSystem", "LPP", {"EnergyGuard"}, {"GridGuard", "CEM"}, 1..4)

EgLpcInfo ==
    UseCaseInfo("EnergyGuard", "LPC", {"ControllableSystem"},
                {"CEM", "Compressor", "EVSE", "HeatPumpAppliance", "Inverter", "SmartEnergyAppliance",
                 "SubMeterElectricity"}, 1..4)

EgLppInfo ==
    UseCaseInfo("EnergyGuard", "LPP", {"ControllableSystem"},
                {"CEM", "EVSE", "Inverter", "SmartEnergyAppliance", "SubMeterElectricity"}, 1..4)

(* Monitoring: the scenarios follow from the measurements that are         *)
(* configured (AddMuMpcScenario1..5, AddGcpMgcpScenario1..7).  The         *)
(* monitored side accepts every entity.                                    *)
HasMonitor(c, group) == \E n \in Range(c.names) : n[1] = group

MuMpcScenarios(c) ==
    {1} \cup {s \in 2..5 : HasMonitor(c, <<"Power", "Energy", "Current", "Voltage", "Frequency">>[s])}

MuMpcInfo(c) == UseCaseInfo("MonitoredUnit", "MPC", {"MonitoringAppliance"}, {}, MuMpcScenarios(c))

GcpMgcpScenarios(c) ==
    (IF c.curtails THEN {1} ELSE {}) \cup {2}
      \cup {s \in {3, 4} : <<"Energy", [k \in {3, 4} |-> IF k = 3 THEN "FeedIn" ELSE "Consumed"][s]>>
                             \in Range(c.names)}
      \cup {s \in 5..7 : HasMonitor(c, <<"Current", "Voltage", "Frequency">>[s - 4])}

GcpMgcpInfo(c) ==
    UseCaseInfo("GridConnectionPoint", "MGCP", {"MonitoringAppliance"}, {}, GcpMgcpScenarios(c))

MaMpcInfo ==
    UseCaseInfo("MonitoringAppliance", "MPC", {"MonitoredUnit"},
                {"Compressor", "ElectricalImmersionHeater", "EVSE", "HeatPumpAppliance", "Inverter",
                 "SmartEnergyAppliance", "SubMeterElectricity"}, 1..5)

MaMgcpInfo ==
    UseCaseInfo("MonitoringAppliance", "MGCP", {"GridConnectionPoint"},
                {"GridConnectionPointOfPremises", "CEM"}, 1..7)

(* The flexibility of a compressor.                                        *)
CompressorOhpcfInfo == UseCaseInfo("Compressor", "OHPCF", {"CEM"}, {"CEM"}, {1, 2})
CemOhpcfInfo == UseCaseInfo("CEM", "OHPCF", {"Compressor"}, {"Compressor"}, {1, 2})

-----------------------------------------------------------------------------
(* The list.  UseCaseInformationMatch compares the entity, the actor and,  *)
(* if there is one, the name.                                              *)
UseCaseInformationMatch(info, entity, actor, name) ==
    /\ info.entity = entity /\ info.actor = actor
    /\ \E k \in DOMAIN info.supports : info.supports[k].name = name

NodeManagementUseCaseDataFindInfo(data, entity, actor, name) ==
    SelectInSeq(data, LAMBDA info : UseCaseInformationMatch(info, entity, actor, name))

FindEntityAndActor(data, entity, actor) ==
    SelectInSeq(data, LAMBDA info : info.entity = entity /\ info.actor = actor)

UseCaseInformationDataCreate(entity, actor, support) ==
    [entity |-> entity, actor |-> actor, supports |-> <<support>>]

UseCaseInformationAdd(info, support) == [info EXCEPT !.supports = Append(@, support)]

(* A use case that is added twice is in the list twice.                    *)
NodeManagementUseCaseDataAddUseCaseSupport(data, entity, actor, support) ==
    LET k == FindEntityAndActor(data, entity, actor)
    IN  IF k # 0 THEN [data EXCEPT ![k] = UseCaseInformationAdd(@, support)]
        ELSE Append(data, UseCaseInformationDataCreate(entity, actor, support))

NodeManagementUseCaseDataHasUseCaseSupport(data, entity, actor, name) ==
    NodeManagementUseCaseDataFindInfo(data, entity, actor, name) # 0

NodeManagementUseCaseDataSetAvailability(data, entity, actor, name, available) ==
    LET k == NodeManagementUseCaseDataFindInfo(data, entity, actor, name)
        j == SelectInSeq(data[k].supports, LAMBDA s : s.name = name)
    IN  IF k = 0 THEN data ELSE [data EXCEPT ![k].supports[j].available = available]

NodeManagementUseCaseDataRemoveWithAddress(data, entity) ==
    SelectSeq(data, LAMBDA info : info.entity # entity)

(* NodeManagementUseCaseDataRemoveWithFilters.  An entry goes with all its *)
(* supports.  The size n of the new list counts an entry that stays once   *)
(* for each filter: with several filters nothing may be removed, or the    *)
(* tail of the new list is uninitialised, here `Uninitialised'.            *)
Uninitialised == [entity |-> "uninitialised", actor |-> "uninitialised", supports |-> <<>>]

NodeManagementUseCaseDataRemoveWithFilters(data, entity, filters) ==
    LET hit(info, f) == UseCaseInformationMatch(info, entity, f.actor, f.name)
        kept == SelectSeq(data, LAMBDA info : \A k \in DOMAIN filters : ~hit(info, filters[k]))
        n == Len(kept) * Len(filters)
    IN  IF n = Len(data) THEN data
        ELSE kept \o [k \in 1..(n - Len(kept)) |-> Uninitialised]

-----------------------------------------------------------------------------
(* use_case.c.  UseCaseEntityAddUseCaseInfo announces the use case of an   *)
(* entity; every one is created as available.                              *)
UseCaseEntityAddUseCaseInfo(data, entity, info) ==
    NodeManagementUseCaseDataAddUseCaseSupport(
        data, entity, info.actor, [name |-> info.name, scenarios |-> info.scenarios, available |-> TRUE])

(* The entity type fits and one of the actors is announced for it; data is *)
(* what the remote device announced.                                       *)
UseCaseIsEntityCompatible(info, data, entity) ==
    /\ entity \in info.entities
    /\ \E a \in info.actors : NodeManagementUseCaseDataHasUseCaseSupport(data, entity, a, info.name)
=============================================================================
