----------------------------- MODULE SpineModel -----------------------------
(***************************************************************************)
(* The functions of the SPINE data model by their name (model.c, the three *)
(* tables of command_frame_types.inc, indexed by FunctionType) and the     *)
(* functions of each type of feature (feature_functions.c), and what the   *)
(* generic filters of EebusData do with these tables.                      *)
(***************************************************************************)
EXTENDS SpineEnergyTypes, FiniteSets

Functions ==
    VersionTypes @@ ResultTypes @@ BindingManagementTypes @@ SubscriptionManagementTypes
      @@ NetworkManagementCallTypes @@ NetworkManagementDescriptionTypes
      @@ NodeManagementDiscoveryTypes @@ NodeManagementLinkTypes @@ UseCaseInformationTypes
      @@ ActuatorLevelTypes @@ ActuatorSwitchTypes @@ AlarmTypes @@ DataTunnelingTypes
      @@ DeviceClassificationTypes @@ DeviceConfigurationTypes @@ DeviceDiagnosisTypes
      @@ DirectControlTypes @@ HvacSystemFunctionTypes @@ HvacModeTypes @@ IdentificationTypes
      @@ MessagingTypes @@ SensingTypes @@ SetpointTypes @@ StateInformationTypes
      @@ TaskManagementJobTypes @@ TaskManagementOverviewTypes @@ ThresholdTypes
      @@ TimeInformationTypes @@ TimeTableTypes @@ BillTypes @@ BillDescriptionTypes
      @@ ElectricalConnectionParameterTypes @@ ElectricalConnectionTypes @@ MeasurementTypes
      @@ MeasurementDescriptionTypes @@ LoadControlEventTypes @@ LoadControlLimitTypes
      @@ TimeSeriesTypes @@ TierTypes @@ TariffBoundaryTypes @@ IncentiveTypes @@ TariffTypes
      @@ IncentiveTableTypes @@ IncentiveTableDescriptionTypes @@ OperatingConstraintsTypes
      @@ OperatingConstraintsLevelTypes @@ PowerTimeSlotTypes @@ PowerSequenceTypes
      @@ PowerSequenceRequestTypes @@ SupplyConditionsTypes @@ SmartEnergyManagementPsTypes
      @@ [NetworkManagementAbortCall |-> Call,
         TimeDistributorEnquiryCall |-> Call]

FunctionTypes == DOMAIN Functions

(* The tables of one function, as ModelGetDataCfg, ModelGetDataElementsCfg *)
(* and ModelGetDataSelectorsCfg look them up.                              *)
Schema(f) == [name |-> f] @@ Functions[f]

-----------------------------------------------------------------------------
(* The functions of the types of features. *)

DeviceFeatures ==
    [ActuatorLevel |-> {"ActuatorLevelData", "ActuatorLevelDescriptionData"},
     ActuatorSwitch |-> {"ActuatorSwitchData", "ActuatorSwitchDescriptionData"},
     Alarm |-> {"AlarmListData"},
     DataTunneling |-> {"DataTunnelingCall"},
     DeviceClassification |-> {"DeviceClassificationManufacturerData",
         "DeviceClassificationUserData"},
     DeviceDiagnosis |-> {"DeviceDiagnosisStateData", "DeviceDiagnosisHeartbeatData",
         "DeviceDiagnosisServiceData"},
     DirectControl |-> {"DirectControlActivityListData", "DirectControlDescriptionData"},
     ElectricalConnection |-> {"ElectricalConnectionDescriptionListData",
         "ElectricalConnectionParameterDescriptionListData",
         "ElectricalConnectionPermittedValueSetListData", "ElectricalConnectionStateListData",
         "ElectricalConnectionCharacteristicData", "ElectricalConnectionCharacteristicListData"}]

OperationFeatures ==
    [Hvac |-> {"HvacOperationModeDescriptionListData", "HvacOverrunDescriptionListData",
         "HvacOverrunListData", "HvacSystemFunctionDescriptionListData",
         "HvacSystemFunctionListData", "HvacSystemFunctionOperationModeRelationListData",
         "HvacSystemFunctionPowerSequenceRelationListData",
         "HvacSystemFunctionSetpointRelationListData"},
     LoadControl |-> {"LoadControlEventListData", "LoadControlLimitConstraintsListData",
         "LoadControlLimitDescriptionListData", "LoadControlLimitListData",
         "LoadControlNodeData", "LoadControlStateListData"},
     Measurement |-> {"MeasurementListData", "MeasurementDescriptionListData",
         "MeasurementConstraintsListData", "MeasurementThresholdRelationListData",
         "MeasurementSeriesListData"},
     Messaging |-> {"MessagingListData"},
     NetworkManagement |-> {"NetworkManagementAbortCall", "NetworkManagementAddNodeCall",
         "NetworkManagementDeviceDescriptionListData", "NetworkManagementDiscoverCall",
         "NetworkManagementEntityDescriptionListData",
         "NetworkManagementFeatureDescriptionListData", "NetworkManagementJoiningModeData",
         "NetworkManagementModifyNodeCall", "NetworkManagementProcessStateData",
         "NetworkManagementRemoveNodeCall", "NetworkManagementReportCandidateData",
         "NetworkManagementScanNetworkCall"},
     NodeManagement |-> {"NodeManagementBindingData", "NodeManagementBindingDeleteCall",
         "NodeManagementBindingRequestCall", "NodeManagementDestinationListData",
         "NodeManagementDetailedDiscoveryData", "NodeManagementSubscriptionData",
         "NodeManagementSubscriptionDeleteCall", "NodeManagementSubscriptionRequestCall",
         "NodeManagementUseCaseData"},
     OperatingConstraints |-> {"OperatingConstraintsDurationListData",
         "OperatingConstraintsInterruptListData", "OperatingConstraintsPowerDescriptionListData",
         "OperatingConstraintsPowerLevelListData", "OperatingConstraintsPowerRangeListData",
         "OperatingConstraintsResumeImplicationListData"},
     PowerSequences |-> {"PowerSequenceAlternativesRelationListData",
         "PowerSequenceDescriptionListData", "PowerSequenceNodeScheduleInformationData",
         "PowerSequencePriceCalculationRequestCall", "PowerSequencePriceListData",
         "PowerSequenceScheduleConfigurationRequestCall",
         "PowerSequenceScheduleConstraintsListData", "PowerSequenceScheduleListData",
         "PowerSequenceSchedulePreferenceListData", "PowerSequenceStateListData",
         "PowerTimeSlotScheduleConstraintsListData", "PowerTimeSlotScheduleListData",
         "PowerTimeSlotValueListData"},
     Sensing |-> {"SensingDescriptionData", "SensingListData"},
     Setpoint |-> {"SetpointConstraintsListData", "SetpointDescriptionListData",
         "SetpointListData"},
     SmartEnergyManagementPs |-> {"SmartEnergyManagementPsConfigurationRequestCall",
         "SmartEnergyManagementPsData", "SmartEnergyManagementPsPriceCalculationRequestCall",
         "SmartEnergyManagementPsPriceData"},
     TaskManagement |-> {"TaskManagementJobDescriptionListData", "TaskManagementJobListData",
         "TaskManagementJobRelationListData", "TaskManagementOverviewData"},
     Threshold |-> {"ThresholdConstraintsListData", "ThresholdDescriptionListData",
         "ThresholdListData"},
     TimeInformation |-> {"TimeDistributorData", "TimeDistributorEnquiryCall",
         "TimeInformationData", "TimePrecisionData"},
     TimeTable |-> {"TimeTableConstraintsListData", "TimeTableDescriptionListData",
         "TimeTableListData"},
     DeviceConfiguration |-> {"DeviceConfigurationKeyValueConstraintsListData",
         "DeviceConfigurationKeyValueDescriptionListData", "DeviceConfigurationKeyValueListData"},
     SupplyCondition |-> {"SupplyConditionDescriptionListData", "SupplyConditionListData",
         "SupplyConditionThresholdRelationListData"}]

TariffFeatures ==
    [TimeSeries |-> {"TimeSeriesDescriptionListData", "TimeSeriesConstraintsListData",
         "TimeSeriesListData"},
     TariffInformation |-> {"IncentiveDescriptionListData", "IncentiveListData",
         "TariffBoundaryRelationListData", "TariffDescriptionListData", "TariffListData",
         "TariffOverallConstraintsData", "TariffTierRelationListData",
         "TierBoundaryDescriptionListData", "TierBoundaryListData", "TierDescriptionListData",
         "TierIncentiveRelationListData", "TierListData"},
     IncentiveTable |-> {"IncentiveTableDescriptionData", "IncentiveTableConstraintsData",
         "IncentiveTableData"},
     Bill |-> {"BillDescriptionListData", "BillConstraintsListData", "BillListData"},
     Identification |-> {"IdentificationListData", "SessionIdentificationListData",
         "SessionMeasurementRelationListData"},
     StateInformation |-> {"StateInformationListData"}]

FeatureFunctionsTable == DeviceFeatures @@ OperationFeatures @@ TariffFeatures

(* A generic feature has the functions of all others but node management.  *)
GenericFunctions == UNION {FeatureFunctionsTable[t] : t \in DOMAIN FeatureFunctionsTable \ {"NodeManagement"}}

FeatureTypes == DOMAIN FeatureFunctionsTable \cup {"Generic"}

GetFeatureFunctions(type) ==
    IF type = "Generic" THEN GenericFunctions ELSE FeatureFunctionsTable[type]

-----------------------------------------------------------------------------
(* What filters must do with a table, whatever the layer does to get there. *)

RECURSIVE Sample(_, _), Paths(_), Named(_, _), Without(_, _, _)

(* Complete data, every leaf with value x. *)
Sample(cfg, x) ==
    CASE IsSequence(cfg)   -> [i \in 1..Len(cfg.fields) |-> Sample(cfg.fields[i].cfg, x)]
      [] IsList(cfg)       -> <<Sample(cfg.of, x)>>
      [] cfg.kind = "tag"  -> "set"
      [] OTHER             -> x

IsListed(F) == F.data.kind = "container"

StoredData(F) ==
    IF IsListed(F) THEN <<<<Sample(F.item, "a"), Sample(F.item, "b")>>>> ELSE Sample(F.data, "a")

(* The fields, at any depth, that elements can name, and the element that  *)
(* names one: a whole sequence is named by its empty element.              *)
Paths(ecfg) ==
    {<<>>} \cup IF ~IsSequence(ecfg) THEN {}
                ELSE UNION {{<<e.name>> \o p : p \in Paths(e.cfg)} : e \in ToSet(ecfg.fields)}

Named(ecfg, path) ==
    IF path = <<>> THEN IF IsSequence(ecfg) THEN EmptyOf(ecfg) ELSE "set"
    ELSE LET i == SequenceGetFieldCfg(ecfg, Head(path))
         IN  [EmptyOf(ecfg) EXCEPT ![i] = Named(ecfg.fields[i].cfg, Tail(path))]

(* Data without the field that a path names, found by name. *)
Without(cfg, v, path) ==
    CASE path = <<>> -> NULL
      [] path # <<>> /\ IsList(cfg) -> [i \in 1..Len(v) |-> Without(cfg.of, v[i], path)]
      [] OTHER -> LET i == SequenceGetFieldCfg(cfg, Head(path))
                  IN  [v EXCEPT ![i] = Without(cfg.fields[i].cfg, @, Tail(path))]

DeleteHits(F, path) ==
    LET v == StoredData(F)
    IN  DeletePartial(F.data, v, F.selectors, NULL, F.elements, Named(F.elements, path))
          = IF IsListed(F) THEN <<[i \in 1..2 |-> Without(F.item, v[1][i], path)]>>
            ELSE Without(F.item, v, path)

(* A selector with a value of the first item selects that item alone. *)
SelectHits(F, i) ==
    LET v == StoredData(F)
        sel == [EmptyOf(F.selectors) EXCEPT ![i] = Sample(F.selectors.fields[i].cfg, "a")]
    IN  DeletePartial(F.data, v, F.selectors, sel, F.elements, NULL) = <<<<v[1][2]>>>>

(* A list would be compared with what is not a list. *)
Misread(F, i) ==
    LET k == SequenceGetFieldCfg(F.item, F.selectors.fields[i].name)
    IN  k # 0 /\ IsList(F.item.fields[k].cfg) /\ ~IsList(F.selectors.fields[i].cfg)

(* A partial write with the identifiers of the first item leaves the other *)
(* one alone.                                                              *)
MergeHits(F) ==
    /\ IsSequence(F.item)
    /\ LET v == StoredData(F)
           w == [i \in 1..Len(F.item.fields) |->
                    LET c == F.item.fields[i].cfg
                    IN  IF ~IsList(c) /\ c.id THEN v[1][1][i] ELSE Sample(c, "c")]
           r == WritePartial(F.data, v, <<<<w>>>>, StubCfg, NULL)
       IN  Len(r[1]) = 2 /\ r[1][2] = v[1][2] /\ r[1][1] # v[1][1]

(* Complete data is read back from its JSON. *)
JsonKept(F) ==
    FromJsonObjectItem(F.data, ToJsonObjectItem(F.data, StoredData(F))) = StoredData(F)

(* Functions of which a filter misses some field that its elements name:   *)
(* the element of a sequence is a mere tag, which deletes nothing, or it   *)
(* is inside a list, which is deleted as a whole; the data of smart energy *)
(* management ignores filters that delete.                                 *)
Mispaired ==
    {"BillListData", "BindingManagementDeleteCall", "BindingManagementEntryListData",
     "BindingManagementRequestCall", "IncentiveTableConstraintsData", "IncentiveTableData",
     "IncentiveTableDescriptionData", "MeasurementListData", "MeasurementSeriesListData",
     "NetworkManagementDeviceDescriptionListData", "NetworkManagementEntityDescriptionListData",
     "NetworkManagementFeatureDescriptionListData", "NodeManagementBindingData",
     "NodeManagementBindingDeleteCall", "NodeManagementBindingRequestCall",
     "NodeManagementDestinationListData", "NodeManagementDetailedDiscoveryData",
     "NodeManagementSubscriptionData", "NodeManagementUseCaseData",
     "OperatingConstraintsPowerLevelListData", "OperatingConstraintsPowerRangeListData",
     "PowerSequencePriceListData", "PowerTimeSlotScheduleListData", "SetpointDescriptionListData",
     "SmartEnergyManagementPsData", "SmartEnergyManagementPsPriceData", "TierListData",
     "TimeSeriesConstraintsListData", "TimeSeriesListData", "TimeTableListData",
     "UseCaseInformationListData"}

(* Selectors that match every item, because they name no field of it, or   *)
(* none, because they are of another kind; and those that compare the list *)
(* of an item with a single value as if it were a list.                    *)
Skipped ==
    {<<f, "timestampInterval">> :
        f \in {"DirectControlActivityListData", "IncentiveListData", "LoadControlEventListData",
               "LoadControlStateListData", "MeasurementListData", "MeasurementSeriesListData",
               "MessagingListData", "SensingListData", "SupplyConditionListData"}}
      \cup {<<"PowerSequencePriceListData", "potentialStartTimeInterval">>,
            <<"TimeSeriesListData", "timeSeriesSlotId">>}
OtherKind ==
    {<<"HvacSystemFunctionListData", "systemFunctionId">>,
     <<"HvacSystemFunctionOperationModeRelationListData", "systemFunctionId">>,
     <<"NodeManagementDestinationListData", "deviceDescription">>,
     <<"PowerSequenceDescriptionListData", "sequenceId">>,
     <<"SetpointDescriptionListData", "setpointType">>}
AgainstList ==
    {<<"MeasurementThresholdRelationListData", "thresholdId">>,
     <<"SessionMeasurementRelationListData", "measurementId">>,
     <<"SupplyConditionThresholdRelationListData", "thresholdId">>,
     <<"TariffBoundaryRelationListData", "boundaryId">>, <<"TariffListData", "activeTierId">>,
     <<"TariffTierRelationListData", "tierId">>, <<"TierIncentiveRelationListData", "incentiveId">>,
     <<"TierListData", "activeIncentiveId">>, <<"UseCaseInformationListData", "useCaseSupport">>}

(* Lists whose items have no identifier: a partial write changes all.      *)
Unidentified ==
    {"DirectControlActivityListData", "NodeManagementDestinationListData", "SensingListData",
     "SpecificationVersionListData", "UseCaseInformationListData"}

(* Functions that no type of feature has, so that none stores them.        *)
OfNoFeature ==
    {"BindingManagementDeleteCall", "BindingManagementEntryListData",
     "BindingManagementRequestCall", "CommodityListData", "ResultData",
     "SpecificationVersionListData", "SubscriptionManagementDeleteCall",
     "SubscriptionManagementEntryListData", "SubscriptionManagementRequestCall",
     "UseCaseInformationListData"}
=============================================================================
