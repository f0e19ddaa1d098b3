-------------------------- MODULE SpineEnergyTypes --------------------------
(***************************************************************************)
(* The functions of the SPINE data model about energy: bills, electrical   *)
(* connections, measurements, load control, time series, tariffs,          *)
(* incentives, power sequences and supply conditions.                      *)
(***************************************************************************)
EXTENDS SpineDeviceTypes

-----------------------------------------------------------------------------
(* bill_types.h *)

BillTypes ==
    LET BillValueType ==
            Type(<<Number("valueId"), Enum("unit"), Sub("value", ScaledNumberType),
                   Sub("valuePercentage", ScaledNumberType)>>)
        BillValueElementsType ==
            Type(<<Tag("valueId"), Tag("unit"), Tag("value"), Tag("valuePercentage")>>)
        BillCostType ==
            Type(<<Number("costId"), Enum("costType"), Number("valueId"), Enum("unit"),
                   Enum("currency"),
                   Sub("cost", ScaledNumberType), Sub("costPercentage", ScaledNumberType)>>)
        BillCostElementsType ==
            Type(<<Tag("costId"), Tag("costType"), Tag("valueId"), Tag("unit"), Tag("currency"),
                   Sub("cost", ElementsOf(ScaledNumberType)),
                   Sub("costPercentage", ElementsOf(ScaledNumberType))>>)
        BillPositionType ==
            Type(<<Number("positionId"), Enum("positionType"), Sub("timePeriod", TimePeriodType),
                   Sub("value", BillValueType), Sub("cost", BillCostType), String("label"),
                   String("description")>>)
        BillPositionElementsType ==
            Type(<<Tag("positionId"), Tag("positionType"),
                   Sub("timePeriod", ElementsOf(TimePeriodType)),
                   Sub("value", BillValueElementsType), Sub("cost", BillCostElementsType),
                   Tag("label"),
                   Tag("description")>>)
    IN  [BillListData |-> Listed("billData",
            <<Identifier("billId"), Enum("billType"), Enum("scopeType"),
              Sub("total", BillPositionType),
              ListOf("position", BillPositionType)>>,
            <<Tag("billId"), Tag("billType"), Tag("scopeType"),
              Sub("total", BillPositionElementsType),
              Sub("position", BillPositionElementsType)>>,
            <<Number("billId"), Enum("scopeType")>>)]

BillDescriptionTypes ==
    [BillConstraintsListData |-> Listed("billConstraintsData",
        <<Identifier("billId"), Number("positionCountMin"), Number("positionCountMax")>>,
        <<Tag("billId"), Tag("positionCountMin"), Tag("positionCountMax")>>,
        <<Number("billId")>>),
     BillDescriptionListData |-> Listed("billDescriptionData",
        <<Identifier("billId"), Flag("billWriteable"), Flag("updateRequired"),
          ListOf("supportedBillType", EnumCfg), Number("sessionId")>>,
        <<Tag("billId"), Tag("billWriteable"), Tag("updateRequired"), Tag("supportedBillType"),
          Tag("sessionId")>>,
        <<Number("billId")>>)]

-----------------------------------------------------------------------------
(* electrical_connection_types.h *)

ElectricalConnectionParameterTypes ==
    [ElectricalConnectionParameterDescriptionListData |-> Listed(
            "electricalConnectionParameterDescriptionData",
        <<Identifier("electricalConnectionId"), Identifier("parameterId"), Number("measurementId"),
          Enum("voltageType"), Enum("acMeasuredPhases"), Enum("acMeasuredInReferenceTo"),
          Enum("acMeasurementType"), Enum("acMeasurementVariant"), Number("acMeasuredHarmonic"),
          Enum("scopeType"), String("label"), String("description")>>,
        <<Tag("electricalConnectionId"), Tag("parameterId"), Tag("measurementId"),
          Tag("voltageType"),
          Tag("acMeasuredPhases"), Tag("acMeasuredInReferenceTo"), Tag("acMeasurementType"),
          Tag("acMeasurementVariant"), Tag("acMeasuredHarmonic"), Tag("scopeType"), Tag("label"),
          Tag("description")>>,
        <<Number("electricalConnectionId"), Number("parameterId"), Number("measurementId"),
          Enum("scopeType")>>),
     ElectricalConnectionPermittedValueSetListData |-> Listed(
            "electricalConnectionPermittedValueSetData",
        <<Identifier("electricalConnectionId"), Identifier("parameterId"),
          ListOf("permittedValueSet", ScaledNumberSetType)>>,
        <<Tag("electricalConnectionId"), Tag("parameterId"), Tag("permittedValueSet")>>,
        <<Number("electricalConnectionId"), Number("parameterId")>>),
     ElectricalConnectionStateListData |-> Listed("electricalConnectionStateData",
        <<Identifier("electricalConnectionId"), Time("timestamp"), Enum("currentEnergyMode"),
          Time("consumptionTime"), Time("productionTime"), Time("totalConsumptionTime"),
          Time("totalProductionTime")>>,
        <<Tag("electricalConnectionId"), Tag("timestamp"), Tag("currentEnergyMode"),
          Tag("consumptionTime"), Tag("productionTime"), Tag("totalConsumptionTime"),
          Tag("totalProductionTime")>>,
        <<Number("electricalConnectionId")>>)]

ElectricalConnectionTypes ==
    [ElectricalConnectionDescriptionListData |-> Listed("electricalConnectionDescriptionData",
        <<Identifier("electricalConnectionId"), Enum("powerSupplyType"),
          Number("acConnectedPhases"),
          Time("acRmsPeriodDuration"), Enum("positiveEnergyDirection"), Enum("scopeType"),
          String("label"), String("description")>>,
        <<Tag("electricalConnectionId"), Tag("powerSupplyType"), Tag("acConnectedPhases"),
          Tag("acRmsPeriodDuration"), Tag("positiveEnergyDirection"), Tag("scopeType"),
          Tag("label"),
          Tag("description")>>,
        <<Number("electricalConnectionId"), Enum("scopeType")>>),
     ElectricalConnectionCharacteristicData |-> Single(
        <<Identifier("electricalConnectionId"), Identifier("parameterId"),
          Identifier("characteristicId"), Enum("characteristicContext"), Enum("characteristicType"),
          Sub("value", ScaledNumberType), Enum("unit")>>,
        <<Tag("electricalConnectionId"), Tag("parameterId"), Tag("characteristicId"),
          Tag("characteristicContext"), Tag("characteristicType"),
          Sub("value", ElementsOf(ScaledNumberType)), Tag("unit")>>,
        <<>>),
     ElectricalConnectionCharacteristicListData |-> Listed("electricalConnectionCharacteristicData",
        <<Identifier("electricalConnectionId"), Identifier("parameterId"),
          Identifier("characteristicId"), Enum("characteristicContext"), Enum("characteristicType"),
          Sub("value", ScaledNumberType), Enum("unit")>>,
        <<Tag("electricalConnectionId"), Tag("parameterId"), Tag("characteristicId"),
          Tag("characteristicContext"), Tag("characteristicType"),
          Sub("value", ElementsOf(ScaledNumberType)), Tag("unit")>>,
        <<Number("electricalConnectionId"), Number("parameterId"), Number("characteristicId"),
          Enum("characteristicContext"), Enum("characteristicType")>>)]

-----------------------------------------------------------------------------
(* measurement_types.h *)

MeasurementTypes ==
    [MeasurementListData |-> Listed("measurementData",
        <<Identifier("measurementId"), EnumIdentifier("valueType"), Time("timestamp"),
          Sub("value", ScaledNumberType), Sub("evaluationPeriod", TimePeriodType),
          Enum("valueSource"), Enum("valueTendency"), Enum("valueState")>>,
        <<Tag("measurementId"), Tag("valueType"), Tag("timestamp"), Tag("value"),
          Tag("evaluationPeriod"), Tag("valueSource"), Tag("valueTendency"), Tag("valueState")>>,
        <<Number("measurementId"), Enum("valueType"),
          Sub("timestampInterval", TimestampIntervalType)>>),
     MeasurementSeriesListData |-> Listed("measurementSeriesData",
        <<Identifier("measurementId"), EnumIdentifier("valueType"), Time("timestamp"),
          Sub("value", ScaledNumberType), Sub("evaluationPeriod", TimePeriodType),
          Enum("valueSource"), Enum("valueTendency"), Enum("valueState")>>,
        <<Tag("measurementId"), Tag("valueType"), Tag("timestamp"), Tag("value"),
          Tag("evaluationPeriod"), Tag("valueSource"), Tag("valueTendency"), Tag("valueState")>>,
        <<Number("measurementId"), Enum("valueType"),
          Sub("timestampInterval", TimestampIntervalType)>>)]

MeasurementDescriptionTypes ==
    [MeasurementConstraintsListData |-> Listed("measurementConstraintsData",
        <<Identifier("measurementId"), Sub("valueRangeMin", ScaledNumberType),
          Sub("valueRangeMax", ScaledNumberType), Sub("valueStepSize", ScaledNumberType)>>,
        <<Tag("measurementId"), Sub("valueRangeMin", ElementsOf(ScaledNumberType)),
          Sub("valueRangeMax", ElementsOf(ScaledNumberType)),
          Sub("valueStepSize", ElementsOf(ScaledNumberType))>>,
        <<Number("measurementId")>>),
     MeasurementDescriptionListData |-> Listed("measurementDescriptionData",
        <<Identifier("measurementId"), Enum("measurementType"), Enum("commodityType"), Enum("unit"),
          Sub("calibrationValue", ScaledNumberType), Enum("scopeType"), String("label"),
          String("description")>>,
        <<Tag("measurementId"), Tag("measurementType"), Tag("commodityType"), Tag("unit"),
          Sub("calibrationValue", ElementsOf(ScaledNumberType)), Tag("scopeType"), Tag("label"),
          Tag("description")>>,
        <<Number("measurementId"), Enum("measurementType"), Enum("commodityType"),
          Enum("scopeType")>>),
     MeasurementThresholdRelationListData |-> Listed("measurementThresholdRelationData",
        <<Identifier("measurementId"), ListOf("thresholdId", NumericCfg)>>,
        <<Tag("measurementId"), Tag("thresholdId")>>,
        <<Number("measurementId"), Number("thresholdId")>>)]

-----------------------------------------------------------------------------
(* loadcontrol_types.h *)

LoadControlEventTypes ==
    [LoadControlNodeData |-> Single(
        <<Flag("isNodeRemoteControllable")>>,
        <<Tag("isNodeRemoteControllable")>>,
        <<>>),
     LoadControlEventListData |-> Listed("loadControlEventData",
        <<Time("timestamp"), Identifier("eventId"), Enum("eventActionConsume"),
          Enum("eventActionProduce"), Sub("timePeriod", TimePeriodType)>>,
        <<Tag("timestamp"), Tag("eventId"), Tag("eventActionConsume"), Tag("eventActionProduce"),
          Sub("timePeriod", ElementsOf(TimePeriodType))>>,
        <<Sub("timestampInterval", TimestampIntervalType), Number("eventId")>>),
     LoadControlStateListData |-> Listed("loadControlStateData",
        <<Time("timestamp"), Identifier("eventId"), Enum("eventStateConsume"),
          Enum("appliedEventActionConsume"), Enum("eventStateProduce"),
          Enum("appliedEventActionProduce")>>,
        <<Tag("timestamp"), Tag("eventId"), Tag("eventStateConsume"),
          Tag("appliedEventActionConsume"), Tag("eventStateProduce"),
          Tag("appliedEventActionProduce")>>,
        <<Sub("timestampInterval", TimestampIntervalType), Number("eventId")>>)]

(* Mutant: two elements in another order than the data.                    *)
LoadControlLimitListDataReordered == Listed("loadControlLimitData",
    <<Identifier("limitId"), Flag("isLimitChangeable"), Flag("isLimitActive"),
      Sub("timePeriod", TimePeriodType), Sub("value", ScaledNumberType)>>,
    <<Tag("limitId"), Tag("isLimitActive"), Tag("isLimitChangeable"),
      Sub("timePeriod", ElementsOf(TimePeriodType)), Sub("value", ElementsOf(ScaledNumberType))>>,
    <<Number("limitId")>>)

LoadControlLimitListData == Listed("loadControlLimitData",
    <<Identifier("limitId"), Flag("isLimitChangeable"), Flag("isLimitActive"),
      Sub("timePeriod", TimePeriodType), Sub("value", ScaledNumberType)>>,
    <<Tag("limitId"), Tag("isLimitChangeable"), Tag("isLimitActive"),
      Sub("timePeriod", ElementsOf(TimePeriodType)), Sub("value", ElementsOf(ScaledNumberType))>>,
    <<Number("limitId")>>)

LoadControlLimitTypes ==
    [LoadControlLimitListData |-> LoadControlLimitListData,
     LoadControlLimitConstraintsListData |-> Listed("loadControlLimitConstraintsData",
        <<Identifier("limitId"), Sub("valueRangeMin", ScaledNumberType),
          Sub("valueRangeMax", ScaledNumberType), Sub("valueStepSize", ScaledNumberType)>>,
        <<Tag("limitId"), Sub("valueRangeMin", ElementsOf(ScaledNumberType)),
          Sub("valueRangeMax", ElementsOf(ScaledNumberType)),
          Sub("valueStepSize", ElementsOf(ScaledNumberType))>>,
        <<Number("limitId")>>),
     LoadControlLimitDescriptionListData |-> Listed("loadControlLimitDescriptionData",
        <<Identifier("limitId"), Enum("limitType"), Enum("limitCategory"), Enum("limitDirection"),
          Number("measurementId"), Enum("unit"), Enum("scopeType"), String("label"),
          String("description")>>,
        <<Tag("limitId"), Tag("limitType"), Tag("limitCategory"), Tag("limitDirection"),
          Tag("measurementId"), Tag("unit"), Tag("scopeType"), Tag("label"), Tag("description")>>,
        <<Number("limitId"), Enum("limitType"), Enum("limitDirection"), Number("measurementId"),
          Enum("scopeType")>>)]

-----------------------------------------------------------------------------
(* time_series_types.h *)

TimeSeriesTypes ==
    LET TimeSeriesSlotType ==
            Type(<<Number("timeSeriesSlotId"), Sub("timePeriod", TimePeriodType), Time("duration"),
                   Sub("recurrenceInformation", AbsoluteOrRecurringTimeType),
                   Sub("value", ScaledNumberType), Sub("minValue", ScaledNumberType),
                   Sub("maxValue", ScaledNumberType)>>)
        TimeSeriesSlotElementsType ==
            Type(<<Tag("timeSeriesSlotId"), Tag("timePeriod"), Tag("duration"),
                   Sub("recurrenceInformation", ElementsOf(AbsoluteOrRecurringTimeType)),
                   Sub("value", ElementsOf(ScaledNumberType)),
                   Sub("minValue", ElementsOf(ScaledNumberType)),
                   Sub("maxValue", ElementsOf(ScaledNumberType))>>)
    IN  [TimeSeriesListData |-> Listed("timeSeriesData",
            <<Identifier("timeSeriesId"), Sub("timePeriod", TimePeriodType),
              ListOf("timeSeriesSlot", TimeSeriesSlotType)>>,
            <<Tag("timeSeriesId"), Sub("timePeriod", ElementsOf(TimePeriodType)),
              Sub("timeSeriesSlot", TimeSeriesSlotElementsType)>>,
            <<Number("timeSeriesId"), Number("timeSeriesSlotId")>>),
         TimeSeriesDescriptionListData |-> Listed("timeSeriesDescriptionData",
            <<Identifier("timeSeriesId"), Enum("timeSeriesType"), Flag("timeSeriesWriteable"),
              Flag("updateRequired"), Number("measurementId"), Enum("currency"), Enum("unit"),
              String("label"), String("description"), Enum("scopeType")>>,
            <<Tag("timeSeriesId"), Tag("timeSeriesType"), Tag("timeSeriesWriteable"),
              Tag("updateRequired"), Tag("measurementId"), Tag("currency"), Tag("unit"),
              Tag("label"),
              Tag("description"), Tag("scopeType")>>,
            <<Number("timeSeriesId"), Enum("timeSeriesType"), Number("measurementId"),
              Enum("scopeType")>>),
         TimeSeriesConstraintsListData |-> Listed("timeSeriesConstraintsData",
            <<Identifier("timeSeriesId"), Number("slotCountMin"), Number("slotCountMax"),
              Time("slotDurationMin"), Time("slotDurationMax"), Time("slotDurationStepSize"),
              Time("earliestTimeSeriesStartTime"), Time("latestTimeSeriesEndTime"),
              Sub("slotValueMin", ScaledNumberType), Sub("slotValueMax", ScaledNumberType),
              Sub("slotValueStepSize", ScaledNumberType)>>,
            <<Tag("timeSeriesId"), Tag("slotCountMin"), Tag("slotCountMax"), Tag("slotDurationMin"),
              Tag("slotDurationMax"), Tag("slotDurationStepSize"),
              Tag("earliestTimeSeriesStartTime"),
              Tag("latestTimeSeriesEndTime"), Tag("slotValueMin"), Tag("slotValueMax"),
              Tag("slotValueStepSize")>>,
            <<Number("timeSeriesId")>>)]

-----------------------------------------------------------------------------
(* tariff_information_types.h *)

TierTypes ==
    [TierListData |-> Listed("tierData",
        <<Identifier("tierId"), Sub("timePeriod", TimePeriodType), Number("timeTableId"),
          ListOf("activeIncentiveId", NumericCfg)>>,
        <<Tag("tierId"), Tag("timePeriod"), Tag("timeTableId"), Tag("activeIncentiveId")>>,
        <<Number("tierId"), Number("activeIncentiveId")>>),
     TierDescriptionListData |-> Listed("tierDescriptionData",
        <<Identifier("tierId"), Enum("tierType"), String("label"), String("description")>>,
        <<Tag("tierId"), Tag("tierType"), Tag("label"), Tag("description")>>,
        <<Number("tierId"), Enum("tierType")>>),
     TierIncentiveRelationListData |-> Listed("tierIncentiveRelationData",
        <<Identifier("tierId"), ListOf("incentiveId", NumericCfg)>>,
        <<Tag("tierId"), Tag("incentiveId")>>,
        <<Number("tierId"), Number("incentiveId")>>)]

TariffBoundaryTypes ==
    [TierBoundaryListData |-> Listed("tierBoundaryData",
        <<Identifier("boundaryId"), Sub("timePeriod", TimePeriodType), Number("timeTableId"),
          Sub("lowerBoundaryValue", ScaledNumberType),
          Sub("upperBoundaryValue", ScaledNumberType)>>,
        <<Tag("boundaryId"), Sub("timePeriod", ElementsOf(TimePeriodType)), Tag("timeTableId"),
          Sub("lowerBoundaryValue", ElementsOf(ScaledNumberType)),
          Sub("upperBoundaryValue", ElementsOf(ScaledNumberType))>>,
        <<Number("boundaryId")>>),
     TierBoundaryDescriptionListData |-> Listed("tierBoundaryDescriptionData",
        <<Identifier("boundaryId"), Enum("boundaryType"), Number("validForTierId"),
          Number("switchToTierIdWhenLower"), Number("switchToTierIdWhenHigher"),
          Enum("boundaryUnit"),
          String("label"), String("description")>>,
        <<Tag("boundaryId"), Tag("boundaryType"), Tag("validForTierId"),
          Tag("switchToTierIdWhenLower"), Tag("switchToTierIdWhenHigher"), Tag("boundaryUnit"),
          Tag("label"), Tag("description")>>,
        <<Number("boundaryId"), Enum("boundaryType")>>),
     TariffDescriptionListData |-> Listed("tariffDescriptionData",
        <<Identifier("tariffId"), Number("commodityId"), Number("measurementId"),
          Flag("tariffWriteable"), Flag("updateRequired"), Enum("scopeType"), String("label"),
          String("description"), Flag("slotIdSupport")>>,
        <<Tag("tariffId"), Tag("commodityId"), Tag("measurementId"), Tag("tariffWriteable"),
          Tag("updateRequired"), Tag("scopeType"), Tag("label"), Tag("description"),
          Tag("slotIdSupport")>>,
        <<Number("tariffId"), Number("commodityId"), Number("measurementId"), Enum("scopeType")>>),
     CommodityListData |-> Listed("commodityData",
        <<Identifier("commodityId"), Enum("commodityType"), Enum("positiveEnergyDirection"),
          String("label"), String("description")>>,
        <<Tag("commodityId"), Tag("commodityType"), Tag("positiveEnergyDirection"), Tag("label"),
          Tag("description")>>,
        <<Number("commodityId"), Enum("commodityType")>>)]

IncentiveTypes ==
    [IncentiveListData |-> Listed("incentiveData",
        <<Identifier("incentiveId"), Enum("valueType"), Time("timestamp"),
          Sub("timePeriod", TimePeriodType), Number("timeTableId"),
          Sub("value", ScaledNumberType)>>,
        <<Tag("incentiveId"), Tag("valueType"), Tag("timestamp"),
          Sub("timePeriod", ElementsOf(TimePeriodType)), Tag("timeTableId"),
          Sub("value", ElementsOf(ScaledNumberType))>>,
        <<Number("incentiveId"), Enum("valueType"),
          Sub("timestampInterval", TimestampIntervalType)>>),
     IncentiveDescriptionListData |-> Listed("incentiveDescriptionData",
        <<Identifier("incentiveId"), Enum("incentiveType"), Number("incentivePriority"),
          Enum("currency"), Enum("unit"), String("label"), String("description")>>,
        <<Tag("incentiveId"), Tag("incentiveType"), Tag("incentivePriority"), Tag("currency"),
          Tag("unit"), Tag("label"), Tag("description")>>,
        <<Number("incentiveId"), Enum("incentiveType")>>)]

TariffTypes ==
    [TariffListData |-> Listed("tariffData",
        <<Identifier("tariffId"), ListOf("activeTierId", NumericCfg)>>,
        <<Tag("tariffId"), Tag("activeTierId")>>,
        <<Number("tariffId"), Number("activeTierId")>>),
     TariffOverallConstraintsData |-> Single(
        <<Number("maxTariffCount"), Number("maxBoundaryCount"), Number("maxTierCount"),
          Number("maxIncentiveCount"), Number("maxBoundariesPerTariff"),
          Number("maxTiersPerTariff"),
          Number("maxBoundariesPerTier"), Number("maxIncentivesPerTier")>>,
        <<Tag("maxTariffCount"), Tag("maxBoundaryCount"), Tag("maxTierCount"),
          Tag("maxIncentiveCount"), Tag("maxBoundariesPerTariff"), Tag("maxTiersPerTariff"),
          Tag("maxBoundariesPerTier"), Tag("maxIncentivesPerTier")>>,
        <<>>),
     TariffTierRelationListData |-> Listed("tariffTierRelationData",
        <<Identifier("tariffId"), ListOf("tierId", NumericCfg)>>,
        <<Tag("tariffId"), Tag("tierId")>>,
        <<Number("tariffId"), Number("tierId")>>),
     TariffBoundaryRelationListData |-> Listed("tariffBoundaryRelationData",
        <<Identifier("tariffId"), ListOf("boundaryId", NumericCfg)>>,
        <<Tag("tariffId"), Tag("boundaryId")>>,
        <<Number("tariffId"), Number("boundaryId")>>)]

-----------------------------------------------------------------------------
(* incentive_table_types.h *)

IncentiveTableTierType ==
    Type(<<Sub("tier", TierTypes.TierListData.item),
           ListOf("boundary", TariffBoundaryTypes.TierBoundaryListData.item),
           ListOf("incentive", IncentiveTypes.IncentiveListData.item)>>)

IncentiveTableTypes ==
    LET TimeTableListData == TimeTableTypes.TimeTableListData
        TariffListData == TariffTypes.TariffListData
        TierListData == TierTypes.TierListData
        TierBoundaryListData == TariffBoundaryTypes.TierBoundaryListData
        IncentiveListData == IncentiveTypes.IncentiveListData
        IncentiveTableIncentiveSlotType ==
            Type(<<Sub("timeInterval", TimeTableListData.item),
                   ListOf("tier", IncentiveTableTierType)>>)
        IncentiveTableType ==
            Type(<<Sub("tariff", TariffListData.item),
                   ListOf("incentiveSlot", IncentiveTableIncentiveSlotType)>>)
        IncentiveTableTierElementsType ==
            Type(<<Sub("tier", TierListData.elements),
                   Sub("boundary", TierBoundaryListData.elements),
                   Sub("incentive", IncentiveListData.elements)>>)
        IncentiveTableIncentiveSlotElementsType ==
            Type(<<Sub("timeInterval", TimeTableListData.elements),
                   Sub("tier", IncentiveTableTierElementsType)>>)
        IncentiveTableElementsType ==
            Type(<<Sub("tariff", TariffListData.elements),
                   Sub("incentiveSlot", IncentiveTableIncentiveSlotElementsType)>>)
    IN  [IncentiveTableData |-> Single(
            <<ListOf("incentiveTable", IncentiveTableType)>>,
            <<Sub("incentiveTable", IncentiveTableElementsType)>>,
            <<Sub("tariff", TariffListData.selectors)>>)]

IncentiveTableDescriptionTypes ==
    LET TierDescriptionListData == TierTypes.TierDescriptionListData
        TierBoundaryDescriptionListData == TariffBoundaryTypes.TierBoundaryDescriptionListData
        IncentiveDescriptionListData == IncentiveTypes.IncentiveDescriptionListData
        TariffDescriptionListData == TariffBoundaryTypes.TariffDescriptionListData
        TariffListData == TariffTypes.TariffListData
        TariffOverallConstraintsData == TariffTypes.TariffOverallConstraintsData
        TimeTableConstraintsListData == TimeTableTypes.TimeTableConstraintsListData
        IncentiveTableDescriptionTierType ==
            Type(<<Sub("tierDescription", TierDescriptionListData.item),
                   ListOf("boundaryDescription", TierBoundaryDescriptionListData.item),
                   ListOf("incentiveDescription", IncentiveDescriptionListData.item)>>)
        IncentiveTableDescriptionType ==
            Type(<<Sub("tariffDescription", TariffDescriptionListData.item),
                   ListOf("tier", IncentiveTableTierType)>>)
        IncentiveTableDescriptionElementsType ==
            Type(<<Sub("tariffDescription", TariffDescriptionListData.elements),
                   Sub("tier", IncentiveTableDescriptionTierType)>>)
        IncentiveTableConstraintsType ==
            Type(<<Sub("tariff", TariffListData.item),
                   Sub("tariffConstraints", TariffOverallConstraintsData.item),
                   Sub("incentiveSlotConstraints", TimeTableConstraintsListData.item)>>)
        IncentiveTableConstraintsElementsType ==
            Type(<<Sub("tariff", TariffListData.elements),
                   Sub("tariffConstraints", TariffOverallConstraintsData.elements),
                   Sub("incentiveSlotConstraints", TimeTableConstraintsListData.elements)>>)
    IN  [IncentiveTableDescriptionData |-> Single(
            <<ListOf("incentiveTableDescription", IncentiveTableDescriptionType)>>,
            <<Sub("incentiveTableDescription", IncentiveTableDescriptionElementsType)>>,
            <<Sub("tariffDescription", TariffDescriptionListData.selectors)>>),
         IncentiveTableConstraintsData |-> Single(
            <<ListOf("incentiveTableConstraints", IncentiveTableConstraintsType)>>,
            <<Sub("incentiveTableConstraints", IncentiveTableConstraintsElementsType)>>,
            <<Sub("tariff", TariffListData.selectors)>>)]

-----------------------------------------------------------------------------
(* operating_constraints_types.h *)

OperatingConstraintsTypes ==
    [OperatingConstraintsInterruptListData |-> Listed("operatingConstraintsInterruptData",
        <<Identifier("sequenceId"), Flag("isPausable"), Flag("isStoppable"),
          Flag("notInterruptibleAtHighPower"), Number("maxCyclesPerDay")>>,
        <<Tag("sequenceId"), Tag("isPausable"), Tag("isStoppable"),
          Tag("notInterruptibleAtHighPower"), Tag("maxCyclesPerDay")>>,
        <<Number("sequenceId")>>),
     OperatingConstraintsDurationListData |-> Listed("operatingConstraintsDurationData",
        <<Identifier("sequenceId"), Time("activeDurationMin"), Time("activeDurationMax"),
          Time("pauseDurationMin"), Time("pauseDurationMax"), Time("activeDurationSumMin"),
          Time("activeDurationSumMax")>>,
        <<Tag("sequenceId"), Tag("activeDurationMin"), Tag("activeDurationMax"),
          Tag("pauseDurationMin"), Tag("pauseDurationMax"), Tag("activeDurationSumMin"),
          Tag("activeDurationSumMax")>>,
        <<Number("sequenceId")>>),
     OperatingConstraintsPowerDescriptionListData |-> Listed(
            "operatingConstraintsPowerDescriptionData",
        <<Identifier("sequenceId"), Enum("positiveEnergyDirection"), Enum("powerUnit"),
          Enum("energyUnit"), String("description")>>,
        <<Tag("sequenceId"), Tag("positiveEnergyDirection"), Tag("powerUnit"), Tag("energyUnit"),
          Tag("description")>>,
        <<Number("sequenceId")>>),
     OperatingConstraintsPowerRangeListData |-> Listed("operatingConstraintsPowerRangeData",
        <<Identifier("sequenceId"), Sub("powerMin", ScaledNumberType),
          Sub("powerMax", ScaledNumberType), Sub("energyMin", ScaledNumberType),
          Sub("energyMax", ScaledNumberType)>>,
        <<Tag("sequenceId"), Tag("powerMin"), Tag("powerMax"), Tag("energyMin"), Tag("energyMax")>>,
        <<Number("sequenceId")>>)]

OperatingConstraintsLevelTypes ==
    [OperatingConstraintsPowerLevelListData |-> Listed("operatingConstraintsPowerLevelData",
        <<Identifier("sequenceId"), Sub("power", ScaledNumberType)>>,
        <<Tag("sequenceId"), Tag("power")>>,
        <<Number("sequenceId")>>),
     OperatingConstraintsResumeImplicationListData |-> Listed(
            "operatingConstraintsResumeImplicationData",
        <<Identifier("sequenceId"), Sub("resumeEnergyEstimated", ScaledNumberType),
          Enum("energyUnit"), Sub("resumeCostEstimated", ScaledNumberType), Enum("currency")>>,
        <<Tag("sequenceId"), Sub("resumeEnergyEstimated", ElementsOf(ScaledNumberType)),
          Tag("energyUnit"), Sub("resumeCostEstimated", ElementsOf(ScaledNumberType)),
          Tag("currency")>>,
        <<Number("sequenceId")>>)]

-----------------------------------------------------------------------------
(* power_sequences_types.h *)

PowerTimeSlotTypes ==
    [PowerTimeSlotScheduleListData |-> Listed("powerTimeSlotScheduleData",
        <<Identifier("sequenceId"), Identifier("slotNumber"), Sub("timePeriod", TimePeriodType),
          Time("defaultDuration"), Time("durationUncertainty"), Flag("slotActivated"),
          String("description")>>,
        <<Tag("sequenceId"), Tag("slotNumber"), Tag("timePeriod"), Tag("defaultDuration"),
          Tag("durationUncertainty"), Tag("slotActivated"), Tag("description")>>,
        <<Number("sequenceId"), Number("slotNumber")>>),
     PowerTimeSlotValueListData |-> Listed("powerTimeSlotValueListData",
        <<Identifier("sequenceId"), Number("slotNumber"), Enum("valueType"),
          Sub("value", ScaledNumberType)>>,
        <<Tag("sequenceId"), Tag("slotNumber"), Tag("valueType"),
          Sub("value", ElementsOf(ScaledNumberType))>>,
        <<Number("sequenceId"), Number("slotNumber"), Enum("valueType")>>),
     PowerTimeSlotScheduleConstraintsListData |-> Listed("powerTimeSlotScheduleConstraintsData",
        <<Identifier("sequenceId"), Number("slotNumber"), Time("earliestStartTime"),
          Time("latestEndTime"), Time("minDuration"), Time("maxDuration"), Flag("optionalSlot")>>,
        <<Tag("sequenceId"), Tag("slotNumber"), Tag("earliestStartTime"), Tag("latestEndTime"),
          Tag("minDuration"), Tag("maxDuration"), Tag("optionalSlot")>>,
        <<Number("sequenceId"), Number("slotNumber")>>),
     PowerSequenceAlternativesRelationListData |-> Listed("powerSequenceAlternativesRelationData",
        <<Identifier("alternativesId"), ListOf("sequenceId", NumericCfg)>>,
        <<Tag("alternativesId"), Tag("sequenceId")>>,
        <<Number("alternativesId"), ListOf("sequenceId", NumericCfg)>>)]

PowerSequenceTypes ==
    [PowerSequenceDescriptionListData |-> Listed("powerSequenceDescriptionData",
        <<Identifier("sequenceId"), String("description"), Enum("positiveEnergyDirection"),
          Enum("powerUnit"), Enum("energyUnit"), Enum("valueSource"), Enum("scope"),
          Number("taskIdentifier"), Number("repetitionsTotal")>>,
        <<Tag("sequenceId"), Tag("description"), Tag("positiveEnergyDirection"), Tag("powerUnit"),
          Tag("energyUnit"), Tag("valueSource"), Tag("scope"), Tag("taskIdentifier"),
          Tag("repetitionsTotal")>>,
        <<ListOf("sequenceId", NumericCfg)>>),
     PowerSequenceStateListData |-> Listed("powerSequenceStateData",
        <<Identifier("sequenceId"), Enum("state"), Number("activeSlotNumber"),
          Time("elapsedSlotTime"), Time("remainingSlotTime"), Flag("sequenceRemoteControllable"),
          Number("activeRepetitionNumber"), Time("remainingPauseTime")>>,
        <<Tag("sequenceId"), Tag("state"), Tag("activeSlotNumber"), Tag("elapsedSlotTime"),
          Tag("remainingSlotTime"), Tag("sequenceRemoteControllable"),
          Tag("activeRepetitionNumber"),
          Tag("remainingPauseTime")>>,
        <<Number("sequenceId")>>),
     PowerSequenceScheduleListData |-> Listed("powerSequenceScheduleData",
        <<Identifier("sequenceId"), Time("startTime"), Time("endTime")>>,
        <<Tag("sequenceId"), Tag("startTime"), Tag("endTime")>>,
        <<Number("sequenceId")>>),
     PowerSequenceScheduleConstraintsListData |-> Listed("powerSequenceScheduleConstraintsData",
        <<Identifier("sequenceId"), Time("earliestStartTime"), Time("latestStartTime"),
          Time("earliestEndTime"), Time("latestEndTime"), Flag("optionalSequence")>>,
        <<Tag("sequenceId"), Tag("earliestStartTime"), Tag("latestStartTime"),
          Tag("earliestEndTime"),
          Tag("latestEndTime"), Tag("optionalSequence")>>,
        <<Number("sequenceId")>>)]

PowerSequenceRequestTypes ==
    [PowerSequencePriceListData |-> Listed("powerSequencePriceData",
        <<Identifier("sequenceId"), Time("potentialStartTime"), Sub("price", ScaledNumberType),
          Enum("currency")>>,
        <<Tag("sequenceId"), Tag("potentialStartTime"), Tag("price"), Tag("currency")>>,
        <<Number("sequenceId"), Sub("potentialStartTimeInterval", TimestampIntervalType)>>),
     PowerSequenceSchedulePreferenceListData |-> Listed("powerSequenceSchedulePreferenceData",
        <<Identifier("sequenceId"), Flag("greenest"), Flag("cheapest")>>,
        <<Tag("sequenceId"), Tag("greenest"), Tag("cheapest")>>,
        <<Number("sequenceId")>>),
     PowerSequenceNodeScheduleInformationData |-> Single(
        <<Flag("nodeRemoteControllable"), Flag("supportsSingleSlotSchedulingOnly"),
          Number("alternativesCount"), Number("totalSequencesCountMax"),
          Flag("supportsReselection")>>,
        <<Tag("nodeRemoteControllable"), Tag("supportsSingleSlotSchedulingOnly"),
          Tag("alternativesCount"), Tag("totalSequencesCountMax"), Tag("supportsReselection")>>,
        <<>>),
     PowerSequenceScheduleConfigurationRequestCall |-> Single(
        <<Number("sequenceId")>>,
        <<Tag("sequenceId")>>,
        <<>>),
     PowerSequencePriceCalculationRequestCall |-> Single(
        <<Number("sequenceId"), Time("potentialStartTime")>>,
        <<Tag("sequenceId"), Tag("potentialStartTime")>>,
        <<>>)]

-----------------------------------------------------------------------------
(* supply_conditions_types.h *)

SupplyConditionsTypes ==
    [SupplyConditionListData |-> Listed("supplyConditionData",
        <<Identifier("conditionId"), Time("timestamp"), Enum("eventType"), Enum("originator"),
          Number("thresholdId"), Sub("thresholdPercentage", ScaledNumberType),
          Sub("relevantPeriod", TimePeriodType), String("description"), Enum("gridCondition")>>,
        <<Tag("conditionId"), Tag("timestamp"), Tag("eventType"), Tag("originator"),
          Tag("thresholdId"), Sub("thresholdPercentage", ElementsOf(ScaledNumberType)),
          Sub("relevantPeriod", ElementsOf(TimePeriodType)), Tag("description"), Tag("gridCondition")>>,
        <<Number("conditionId"), Sub("timestampInterval", TimestampIntervalType), Enum("eventType"),
          Enum("originator")>>),
     SupplyConditionDescriptionListData |-> Listed("supplyConditionDescriptionData",
        <<Identifier("conditionId"), Enum("commodityType"), Enum("positiveEnergyDirection"),
          String("label"), String("description")>>,
        <<Tag("conditionId"), Tag("commodityType"), Tag("positiveEnergyDirection"), Tag("label"),
          Tag("description")>>,
        <<Number("conditionId")>>),
     SupplyConditionThresholdRelationListData |-> Listed("SupplyConditionThresholdRelationDataType",
        <<Identifier("conditionId"), ListOf("thresholdId", NumericCfg)>>,
        <<Tag("conditionId"), Tag("thresholdId")>>,
        <<Number("conditionId"), Number("thresholdId")>>)]

-----------------------------------------------------------------------------
(* smart_energy_management_ps_types.h *)

SmartEnergy(f) == [f EXCEPT !.data.kind = "smartEnergy"]

SmartEnergyManagementPsTypes ==
    LET PowerTimeSlotValueListData == PowerTimeSlotTypes.PowerTimeSlotValueListData
        PowerTimeSlotScheduleListData == PowerTimeSlotTypes.PowerTimeSlotScheduleListData
        PowerTimeSlotScheduleConstraintsListData ==
            PowerTimeSlotTypes.PowerTimeSlotScheduleConstraintsListData
        PowerSequenceDescriptionListData == PowerSequenceTypes.PowerSequenceDescriptionListData
        PowerSequenceStateListData == PowerSequenceTypes.PowerSequenceStateListData
        PowerSequenceScheduleListData == PowerSequenceTypes.PowerSequenceScheduleListData
        PowerSequenceScheduleConstraintsListData ==
            PowerSequenceTypes.PowerSequenceScheduleConstraintsListData
        PowerSequenceSchedulePreferenceListData ==
            PowerSequenceRequestTypes.PowerSequenceSchedulePreferenceListData
        OperatingConstraintsInterruptListData ==
            OperatingConstraintsTypes.OperatingConstraintsInterruptListData
        OperatingConstraintsDurationListData ==
            OperatingConstraintsTypes.OperatingConstraintsDurationListData
        OperatingConstraintsResumeImplicationListData ==
            OperatingConstraintsLevelTypes.OperatingConstraintsResumeImplicationListData
        PowerSequenceAlternativesRelationListData ==
            PowerTimeSlotTypes.PowerSequenceAlternativesRelationListData
        PowerSequenceNodeScheduleInformationData ==
            PowerSequenceRequestTypes.PowerSequenceNodeScheduleInformationData
        PowerSequencePriceListData == PowerSequenceRequestTypes.PowerSequencePriceListData
        PowerSequenceScheduleConfigurationRequestCall ==
            PowerSequenceRequestTypes.PowerSequenceScheduleConfigurationRequestCall
        PowerSequencePriceCalculationRequestCall ==
            PowerSequenceRequestTypes.PowerSequencePriceCalculationRequestCall
        SmartEnergyManagementPsPowerTimeSlotValueListType ==
            Type(<<SimpleList("value", PowerTimeSlotValueListData.item)>>)
        SmartEnergyManagementPsPowerTimeSlotType ==
            Type(<<Sub("schedule", PowerTimeSlotScheduleListData.item),
                   Sub("valueList", SmartEnergyManagementPsPowerTimeSlotValueListType),
                   Sub("scheduleConstraints", PowerTimeSlotScheduleConstraintsListData.item)>>)
        SmartEnergyManagementPsPowerSequenceType ==
            Type(<<Sub("description", PowerSequenceDescriptionListData.item),
                   Sub("state", PowerSequenceStateListData.item),
                   Sub("schedule", PowerSequenceScheduleListData.item),
                   Sub("scheduleConstraints", PowerSequenceScheduleConstraintsListData.item),
                   Sub("schedulePreference", PowerSequenceSchedulePreferenceListData.item),
                   Sub("operatingConstraintsInterrupt", OperatingConstraintsInterruptListData.item),
                   Sub("operatingConstraintsDuration", OperatingConstraintsDurationListData.item),
                   Sub("operatingConstraintsResumeImplication",
                   OperatingConstraintsResumeImplicationListData.item),
                   ListOf("powerTimeSlot", SmartEnergyManagementPsPowerTimeSlotType)>>)
        SmartEnergyManagementPsAlternativesType ==
            Type(<<Sub("relation", PowerSequenceAlternativesRelationListData.item),
                   ListOf("powerSequence", SmartEnergyManagementPsPowerSequenceType)>>)
        SmartEnergyManagementPsPowerTimeSlotValueListElementsType ==
            Type(<<Sub("value", PowerTimeSlotValueListData.elements)>>)
        SmartEnergyManagementPsPowerTimeSlotElementsType ==
            Type(<<Sub("schedule", PowerTimeSlotScheduleListData.elements),
                   Sub("valueList", SmartEnergyManagementPsPowerTimeSlotValueListElementsType),
                   Sub("scheduleConstraints", PowerTimeSlotScheduleConstraintsListData.elements)>>)
        SmartEnergyManagementPsPowerSequenceElementsType ==
            Type(<<Sub("description", PowerSequenceDescriptionListData.elements),
                   Sub("state", PowerSequenceStateListData.elements),
                   Sub("schedule", PowerSequenceScheduleListData.elements),
                   Sub("scheduleConstraints", PowerSequenceScheduleConstraintsListData.elements),
                   Sub("schedulePreference", PowerSequenceSchedulePreferenceListData.elements),
                   Sub("operatingConstraintsInterrupt",
                   OperatingConstraintsInterruptListData.elements),
                   Sub("operatingConstraintsDuration",
                   OperatingConstraintsDurationListData.elements),
                   Sub("operatingConstraintsResumeImplication",
                   OperatingConstraintsResumeImplicationListData.elements),
                   Sub("powerTimeSlot", SmartEnergyManagementPsPowerTimeSlotElementsType)>>)
        SmartEnergyManagementPsAlternativesElementsType ==
            Type(<<Sub("relation", PowerSequenceAlternativesRelationListData.elements),
                   Sub("powerSequence", SmartEnergyManagementPsPowerSequenceElementsType)>>)
    IN  [SmartEnergyManagementPsData |-> SmartEnergy(Single(
            <<Sub("nodeScheduleInformation", PowerSequenceNodeScheduleInformationData.item),
              ListOf("alternatives", SmartEnergyManagementPsAlternativesType)>>,
            <<Sub("nodeScheduleInformation", PowerSequenceNodeScheduleInformationData.elements),
              Sub("alternatives", SmartEnergyManagementPsAlternativesElementsType)>>,
            <<Sub("alternativesRelation", PowerSequenceAlternativesRelationListData.selectors),
              Sub("powerSequenceDescription", PowerSequenceDescriptionListData.selectors),
              Sub("powerTimeSlotSchedule", PowerTimeSlotScheduleListData.selectors),
              Sub("powerTimeSlotValue", PowerTimeSlotValueListData.selectors)>>)),
         SmartEnergyManagementPsPriceData |-> Single(
            <<Sub("price", PowerSequencePriceListData.item)>>,
            <<Sub("price", PowerSequencePriceListData.elements)>>,
            <<Sub("price", PowerSequencePriceListData.selectors)>>),
         SmartEnergyManagementPsConfigurationRequestCall |-> Single(
            <<Sub("scheduleConfigurationRequest",
              PowerSequenceScheduleConfigurationRequestCall.item)>>,
            <<Sub("scheduleConfigurationRequest",
              PowerSequenceScheduleConfigurationRequestCall.elements)>>,
            <<>>),
         SmartEnergyManagementPsPriceCalculationRequestCall |-> Single(
            <<Sub("priceCalculationRequest", PowerSequencePriceCalculationRequestCall.item)>>,
            <<Sub("priceCalculationRequest", PowerSequencePriceCalculationRequestCall.elements)>>,
            <<>>)]

=============================================================================
