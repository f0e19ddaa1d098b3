-------------------------- MODULE SpineDeviceTypes --------------------------
(***************************************************************************)
(* The functions of the SPINE data model that describe and operate         *)
(* devices: actuators, configuration, diagnosis, HVAC, setpoints, tasks,   *)
(* thresholds and time tables.                                             *)
(***************************************************************************)
EXTENDS SpineTypes

-----------------------------------------------------------------------------
(* actuator_level_types.h *)

ActuatorLevelTypes ==
    [ActuatorLevelData |-> Single(
        <<Enum("function"), Sub("value", ScaledNumberType)>>,
        <<Tag("function"), Sub("value", ElementsOf(ScaledNumberType))>>,
        <<>>),
     ActuatorLevelDescriptionData |-> Single(
        <<String("label"), String("description"), Enum("levelDefaultUnit")>>,
        <<Tag("label"), Tag("description"), Tag("levelDefaultUnit")>>,
        <<>>)]

-----------------------------------------------------------------------------
(* actuator_switch_types.h *)

ActuatorSwitchTypes ==
    [ActuatorSwitchData |-> Single(
        <<Enum("function")>>,
        <<Tag("function")>>,
        <<>>),
     ActuatorSwitchDescriptionData |-> Single(
        <<String("label"), String("description")>>,
        <<Tag("label"), Tag("description")>>,
        <<>>)]

-----------------------------------------------------------------------------
(* alarm_types.h *)

AlarmTypes ==
    [AlarmListData |-> Listed("alarmListData",
        <<Identifier("alarmId"), Number("thresholdId"), Time("timestamp"), Enum("alarmType"),
          Sub("measuredValue", ScaledNumberType), Sub("evaluationPeriod", TimePeriodType),
          Enum("scopeType"), String("label"), String("description")>>,
        <<Tag("alarmId"), Tag("thresholdId"), Tag("timestamp"), Tag("alarmType"),
          Sub("measuredValue", ElementsOf(ScaledNumberType)),
          Sub("evaluationPeriod", ElementsOf(TimePeriodType)), Tag("scopeType"), Tag("label"),
          Tag("description")>>,
        <<Number("alarmId"), Enum("scopeType")>>)]

-----------------------------------------------------------------------------
(* data_tunneling_types.h *)

DataTunnelingTypes ==
    LET DataTunnelingHeaderType ==
            Type(<<String("purposeId"), Number("channelId"), Number("sequenceId")>>)
        DataTunnelingHeaderElementsType ==
            Type(<<Tag("purposeId"), Tag("channelId"), Tag("sequenceId")>>)
    IN  [DataTunnelingCall |-> Single(
            <<Sub("header", DataTunnelingHeaderType), String("payload")>>,
            <<Sub("header", DataTunnelingHeaderElementsType), Tag("payload")>>,
            <<>>)]

-----------------------------------------------------------------------------
(* device_classification_types.h *)

DeviceClassificationTypes ==
    [DeviceClassificationManufacturerData |-> Single(
        <<String("deviceName"), String("deviceCode"), String("serialNumber"),
          String("softwareRevision"),
          String("hardwareRevision"), String("vendorName"), String("vendorCode"),
          String("brandName"),
          Enum("powerSource"), String("manufacturerNodeIdentification"),
          String("manufacturerLabel"),
          String("manufacturerDescription")>>,
        <<Tag("deviceName"), Tag("deviceCode"), Tag("serialNumber"), Tag("softwareRevision"),
          Tag("hardwareRevision"), Tag("vendorName"), Tag("vendorCode"), Tag("brandName"),
          Tag("powerSource"), Tag("manufacturerNodeIdentification"), Tag("manufacturerLabel"),
          Tag("manufacturerDescription")>>,
        <<>>),
     DeviceClassificationUserData |-> Single(
        <<String("userNodeIdentification"), String("userLabel"), String("userDescription")>>,
        <<Tag("userNodeIdentification"), Tag("userLabel"), Tag("userDescription")>>,
        <<>>)]

-----------------------------------------------------------------------------
(* device_configuration_types.h *)

DeviceConfigurationTypes ==
    LET DeviceConfigurationKeyValueValueType ==
            Type(<<Flag("boolean"), Time("date"), Time("dateTime"), Time("duration"),
                   Enum("string"),
                   Time("time"), Sub("scaledNumber", ScaledNumberType), Number("integer")>>)
        DeviceConfigurationKeyValueValueElementsType ==
            Type(<<Tag("boolean"), Tag("date"), Tag("dateTime"), Tag("duration"), Tag("string"),
                   Tag("time"),
                   Sub("scaledNumber", ElementsOf(ScaledNumberType))>>)
    IN  [DeviceConfigurationKeyValueListData |-> Listed("deviceConfigurationKeyValueData",
            <<Identifier("keyId"), Sub("value", DeviceConfigurationKeyValueValueType),
              Flag("isValueChangeable")>>,
            <<Tag("keyId"), Sub("value", DeviceConfigurationKeyValueValueElementsType),
              Tag("isValueChangeable")>>,
            <<Number("keyId")>>),
         DeviceConfigurationKeyValueDescriptionListData |-> Listed(
            "deviceConfigurationKeyValueDescriptionData",
            <<Identifier("keyId"), Enum("keyName"), Enum("valueType"), Enum("unit"),
              String("label"),
              String("description")>>,
            <<Tag("keyId"), Tag("keyName"), Tag("valueType"), Tag("unit"), Tag("label"),
              Tag("description")>>,
            <<Number("keyId"), Enum("keyName")>>),
         DeviceConfigurationKeyValueConstraintsListData |-> Listed(
            "deviceConfigurationKeyValueConstraintsData",
            <<Identifier("keyId"), Sub("valueRangeMin", DeviceConfigurationKeyValueValueType),
              Sub("valueRangeMax", DeviceConfigurationKeyValueValueType),
              Sub("valueStepSize", DeviceConfigurationKeyValueValueType)>>,
            <<Tag("keyId"), Sub("valueRangeMin", DeviceConfigurationKeyValueValueElementsType),
              Sub("valueRangeMax", DeviceConfigurationKeyValueValueElementsType),
              Sub("valueStepSize", DeviceConfigurationKeyValueValueElementsType)>>,
            <<Number("keyId")>>)]

-----------------------------------------------------------------------------
(* device_diagnosis_types.h *)

DeviceDiagnosisTypes ==
    [DeviceDiagnosisStateData |-> Single(
        <<Time("timestamp"), Enum("operatingState"), String("vendorStateCode"),
          String("lastErrorCode"),
          Time("upTime"), Time("totalUpTime"), Enum("powerSupplyCondition")>>,
        <<Tag("timestamp"), Tag("operatingState"), Tag("vendorStateCode"), Tag("lastErrorCode"),
          Tag("upTime"), Tag("totalUpTime"), Tag("powerSupplyCondition")>>,
        <<>>),
     DeviceDiagnosisHeartbeatData |-> Single(
        <<Time("timestamp"), Number("heartbeatCounter"), Time("heartbeatTimeout")>>,
        <<Tag("timestamp"), Tag("heartbeatCounter"), Tag("heartbeatTimeout")>>,
        <<>>),
     DeviceDiagnosisServiceData |-> Single(
        <<Time("timestamp"), Time("installationTime"), Number("bootCounter"),
          String("nextService")>>,
        <<Tag("timestamp"), Tag("installationTime"), Tag("bootCounter"), Tag("nextService")>>,
        <<>>)]

-----------------------------------------------------------------------------
(* direct_control_types.h *)

DirectControlTypes ==
    [DirectControlActivityListData |-> Listed("directControlActivityDataElements",
        <<Time("timestamp"), String("activityState"), Flag("isActivityStateChangeable"),
          Enum("energyMode"), Flag("isEnergyModeChangeable"), Sub("power", ScaledNumberType),
          Flag("isPowerChangeable"), Sub("energy", ScaledNumberType), Flag("isEnergyChangeable"),
          Number("sequence_id")>>,
        <<Tag("timestamp"), Tag("activityState"), Tag("isActivityStateChangeable"),
          Tag("energyMode"),
          Tag("isEnergyModeChangeable"), Sub("power", ElementsOf(ScaledNumberType)),
          Tag("isPowerChangeable"), Sub("energy", ElementsOf(ScaledNumberType)),
          Tag("isEnergyChangeable"), Tag("sequence_id")>>,
        <<Sub("timestampInterval", TimestampIntervalType)>>),
     DirectControlDescriptionData |-> Single(
        <<Enum("positiveEnergyDirection"), Enum("powerUnit"), Enum("energyUnit")>>,
        <<Tag("positiveEnergyDirection"), Tag("powerUnit"), Tag("energyUnit")>>,
        <<>>)]

-----------------------------------------------------------------------------
(* hvac_types.h *)

HvacSystemFunctionTypes ==
    [HvacSystemFunctionListData |-> Listed("hvacSystemFunctionData",
        <<Identifier("systemFunctionId"), Number("currentOperationModeId"),
          Flag("isOperationModeIdChangeable"), Number("currentSetpointId"),
          Flag("isSetpointIdChangeable"), Flag("isOverrunActive")>>,
        <<Tag("systemFunctionId"), Tag("currentOperationModeId"),
          Tag("isOperationModeIdChangeable"),
          Tag("currentSetpointId"), Tag("isSetpointIdChangeable"), Tag("isOverrunActive")>>,
        <<ListOf("systemFunctionId", NumericCfg)>>),
     HvacSystemFunctionOperationModeRelationListData |-> Listed(
            "hvacSystemFunctionOperationModeRelationData",
        <<Identifier("systemFunctionId"), Number("operationModeId")>>,
        <<Tag("systemFunctionId"), Tag("operationModeId")>>,
        <<ListOf("systemFunctionId", NumericCfg)>>),
     HvacSystemFunctionSetpointRelationListData |-> Listed("hvacSystemFunctionSetpointRelationData",
        <<Identifier("systemFunctionId"), Number("operationModeId"), Number("setpointId")>>,
        <<Tag("systemFunctionId"), Tag("operationModeId"), Tag("setpointId")>>,
        <<Number("systemFunctionId"), Number("operationModeId")>>),
     HvacSystemFunctionPowerSequenceRelationListData |-> Listed(
            "hvacSystemFunctionPowerSequenceRelationData",
        <<Identifier("systemFunctionId"), ListOf("sequenceId", NumericCfg)>>,
        <<Tag("systemFunctionId"), Tag("sequenceId")>>,
        <<Number("systemFunctionId")>>)]

HvacModeTypes ==
    [HvacSystemFunctionDescriptionListData |-> Listed("hvacSystemFunctionDescriptionData",
        <<Identifier("systemFunctionId"), Enum("systemFunctionType"), String("label"),
          String("description")>>,
        <<Tag("systemFunctionId"), Tag("systemFunctionType"), Tag("label"), Tag("description")>>,
        <<Number("systemFunctionId")>>),
     HvacOperationModeDescriptionListData |-> Listed("hvacOperationModeDescriptionData",
        <<Identifier("operationModeId"), Enum("operationModeType"), String("label"),
          String("description")>>,
        <<Tag("operationModeId"), Tag("operationModeType"), Tag("label"), Tag("description")>>,
        <<Number("operationModeId")>>),
     HvacOverrunListData |-> Listed("hvacOverrunData",
        <<Identifier("overrunId"), Enum("overrunStatus"), Number("timeTableId"),
          Flag("isOverrunStatusChangeable")>>,
        <<Tag("overrunId"), Tag("overrunStatus"), Tag("timeTableId"),
          Tag("isOverrunStatusChangeable")>>,
        <<Number("overrunId")>>),
     HvacOverrunDescriptionListData |-> Listed("hvacOverrunDescriptionData",
        <<Identifier("overrunId"), Enum("overrunType"),
          ListOf("affectedSystemFunctionId", NumericCfg), String("label"), String("description")>>,
        <<Tag("overrunId"), Tag("overrunType"), Tag("affectedSystemFunctionId"), Tag("label"),
          Tag("description")>>,
        <<Number("overrunId")>>)]

-----------------------------------------------------------------------------
(* identification_types.h *)

IdentificationTypes ==
    [IdentificationListData |-> Listed("identificationData",
        <<Identifier("identificationId"), Enum("identificationType"), String("identificationValue"),
          Flag("authorized")>>,
        <<Tag("identificationId"), Tag("identificationType"), Tag("identificationValue"),
          Tag("authorized")>>,
        <<Number("identificationId"), Enum("identificationType")>>),
     SessionIdentificationListData |-> Listed("sessionIdentificationData",
        <<Identifier("sessionId"), Number("identificationId"), Flag("isLatestSession"),
          Sub("timePeriod", TimePeriodType)>>,
        <<Tag("sessionId"), Tag("identificationId"), Tag("isLatestSession"),
          Sub("timePeriod", ElementsOf(TimePeriodType))>>,
        <<Number("sessionId"), Number("identificationId"), Flag("isLatestSession"),
          Sub("timePeriod", TimePeriodType)>>),
     SessionMeasurementRelationListData |-> Listed("sessionMeasurementRelationData",
        <<Identifier("sessionId"), ListOf("measurementId", NumericCfg)>>,
        <<Tag("sessionId"), Tag("measurementId")>>,
        <<Number("sessionId"), Number("measurementId")>>)]

-----------------------------------------------------------------------------
(* messaging_types.h *)

MessagingTypes ==
    [MessagingListData |-> Listed("messagingData",
        <<Time("timestamp"), Identifier("messagingNumber"), Enum("type"), String("text")>>,
        <<Tag("timestamp"), Tag("messagingNumber"), Tag("type"), Tag("text")>>,
        <<Sub("timestampInterval", TimestampIntervalType), Number("messagingNumber")>>)]

-----------------------------------------------------------------------------
(* sensing_types.h *)

SensingTypes ==
    [SensingListData |-> Listed("sensingData",
        <<Time("timestamp"), Enum("state"), Sub("value", ScaledNumberType)>>,
        <<Tag("timestamp"), Tag("state"), Sub("value", ElementsOf(ScaledNumberType))>>,
        <<Sub("timestampInterval", TimestampIntervalType)>>),
     SensingDescriptionData |-> Single(
        <<Enum("sensingType"), Enum("unit"), Enum("scopeType"), String("label"),
          String("description")>>,
        <<Tag("sensingType"), Tag("unit"), Tag("scopeType"), Tag("label"), Tag("description")>>,
        <<>>)]

-----------------------------------------------------------------------------
(* setpoint_types.h *)

SetpointTypes ==
    [SetpointListData |-> Listed("setpointData",
        <<Identifier("setpointId"), Sub("value", ScaledNumberType),
          Sub("valueMin", ScaledNumberType),
          Sub("valueMax", ScaledNumberType), Sub("valueToleranceAbsolute", ScaledNumberType),
          Sub("valueTolerancePercentage", ScaledNumberType), Flag("isSetpointChangeable"),
          Flag("isSetpointActive"), Sub("timePeriod", TimePeriodType)>>,
        <<Tag("setpointId"), Sub("value", ElementsOf(ScaledNumberType)),
          Sub("valueMin", ElementsOf(ScaledNumberType)), Sub("valueMax", ElementsOf(ScaledNumberType)),
          Sub("valueToleranceAbsolute", ElementsOf(ScaledNumberType)),
          Sub("valueTolerancePercentage", ElementsOf(ScaledNumberType)), Tag("isSetpointChangeable"),
          Tag("isSetpointActive"), Sub("timePeriod", ElementsOf(TimePeriodType))>>,
        <<Number("setpointId")>>),
     SetpointConstraintsListData |-> Listed("setpointConstraintsData",
        <<Identifier("setpointId"), Sub("setpointRangeMin", ScaledNumberType),
          Sub("setpointRangeMax", ScaledNumberType), Sub("setpointStepSize", ScaledNumberType)>>,
        <<Tag("setpointId"), Sub("setpointRangeMin", ElementsOf(ScaledNumberType)),
          Sub("setpointRangeMax", ElementsOf(ScaledNumberType)),
          Sub("setpointStepSize", ElementsOf(ScaledNumberType))>>,
        <<Number("setpointId")>>),
     SetpointDescriptionListData |-> Listed("setpointDescriptionData",
        <<Identifier("setpointId"), Identifier("measurementId"), Identifier("timeTableId"),
          Enum("setpointType"), Sub("unit", ScaledNumberType), Sub("scopeType", ScaledNumberType),
          String("label"), String("description")>>,
        <<Tag("setpointId"), Tag("measurementId"), Tag("timeTableId"), Tag("setpointType"),
          Tag("unit"), Tag("scopeType"), Tag("label"), Tag("description")>>,
        <<Number("setpointId"), Number("measurementId"), Number("timeTableId"),
          Number("setpointType"), Sub("scopeType", ScaledNumberType)>>)]

-----------------------------------------------------------------------------
(* state_information_types.h *)

StateInformationTypes ==
    [StateInformationListData |-> Listed("stateInformationData",
        <<Identifier("stateInformationId"), Enum("stateInformation"), Flag("isActive"),
          Enum("category"), Time("timeOfLastChange")>>,
        <<Tag("stateInformationId"), Tag("stateInformation"), Tag("isActive"), Tag("category"),
          Tag("timeOfLastChange")>>,
        <<Number("stateInformationId"), Enum("stateInformation"), Flag("isActive"),
          Enum("category")>>)]

-----------------------------------------------------------------------------
(* task_management_types.h *)

TaskManagementJobTypes ==
    LET TaskManagementHvacRelatedType == Type(<<Number("overrunId")>>)
        TaskManagementHvacRelatedElementsType == Type(<<Tag("overrunId")>>)
        TaskManagementLoadControlReleatedType == Type(<<Number("eventId")>>)
        TaskManagementLoadControlReleatedElementsType == Type(<<Tag("eventId")>>)
        TaskManagementPowerSequencesRelatedType == Type(<<Number("sequenceId")>>)
        TaskManagementPowerSequencesRelatedElementsType == Type(<<Tag("sequenceId")>>)
        TaskManagementSmartEnergyManagementPsRelatedType == Type(<<Number("sequenceId")>>)
        TaskManagementSmartEnergyManagementPsRelatedElementsType == Type(<<Tag("sequenceId")>>)
    IN  [TaskManagementJobListData |-> Listed("taskManagementJobData",
            <<Identifier("jobId"), Time("timestamp"), Enum("jobState"), Time("elapsedTime"),
              Time("remainingTime")>>,
            <<Tag("jobId"), Tag("timestamp"), Tag("jobState"), Tag("elapsedTime"),
              Tag("remainingTime")>>,
            <<Number("jobId"), Enum("jobState")>>),
         TaskManagementJobRelationListData |-> Listed("taskManagementJobRelationData",
            <<Identifier("jobId"), Tag("directControlRelated"),
              Sub("hvacRelated", TaskManagementHvacRelatedType),
              Sub("loadControlReleated", TaskManagementLoadControlReleatedType),
              Sub("powerSequencesRelated", TaskManagementPowerSequencesRelatedType),
              Sub("smartEnergyManagementPsRelated",
              TaskManagementSmartEnergyManagementPsRelatedType)>>,
            <<Tag("jobId"), Tag("directControlRelated"),
              Sub("hvacRelated", TaskManagementHvacRelatedElementsType),
              Sub("loadControlReleated", TaskManagementLoadControlReleatedElementsType),
              Sub("powerSequencesRelated", TaskManagementPowerSequencesRelatedElementsType),
              Sub("smartEnergyManagementPsRelated",
              TaskManagementSmartEnergyManagementPsRelatedElementsType)>>,
            <<Number("jobId")>>)]

TaskManagementOverviewTypes ==
    [TaskManagementJobDescriptionListData |-> Listed("taskManagementJobDescriptionData",
        <<Identifier("jobId"), Enum("jobSource"), String("label"), String("description")>>,
        <<Tag("jobId"), Tag("jobSource"), Tag("label"), Tag("description")>>,
        <<Number("jobId"), Enum("jobSource")>>),
     TaskManagementOverviewData |-> Single(
        <<Flag("remoteControllable"), Flag("jobsActive")>>,
        <<Tag("remoteControllable"), Tag("jobsActive")>>,
        <<>>)]

-----------------------------------------------------------------------------
(* threshold_types.h *)

ThresholdTypes ==
    [ThresholdListData |-> Listed("thresholdData",
        <<Identifier("thresholdId"), Sub("thresholdValue", ScaledNumberType)>>,
        <<Tag("thresholdId"), Sub("thresholdValue", ElementsOf(ScaledNumberType))>>,
        <<Number("thresholdId")>>),
     ThresholdConstraintsListData |-> Listed("thresholdConstraintsData",
        <<Identifier("thresholdId"), Sub("thresholdRangeMin", ScaledNumberType),
          Sub("thresholdRangeMax", ScaledNumberType), Sub("thresholdStepSize", ScaledNumberType)>>,
        <<Tag("thresholdId"), Sub("thresholdRangeMin", ElementsOf(ScaledNumberType)),
          Sub("thresholdRangeMax", ElementsOf(ScaledNumberType)),
          Sub("thresholdStepSize", ElementsOf(ScaledNumberType))>>,
        <<Number("thresholdId")>>),
     ThresholdDescriptionListData |-> Listed("thresholdDescriptionData",
        <<Identifier("thresholdId"), Enum("thresholdType"), Enum("unit"), Enum("scopeType"),
          String("label"), String("description")>>,
        <<Tag("thresholdId"), Tag("thresholdType"), Tag("unit"), Tag("scopeType"), Tag("label"),
          Tag("description")>>,
        <<Number("thresholdId"), Enum("scopeType")>>)]

-----------------------------------------------------------------------------
(* time_information_types.h *)

TimeInformationTypes ==
    [TimeInformationData |-> Single(
        <<Time("utc"), Time("utcOffset"), Enum("dayOfWeek"), Number("calendarWeek")>>,
        <<Tag("utc"), Tag("utcOffset"), Tag("dayOfWeek"), Tag("calendarWeek")>>,
        <<>>),
     TimeDistributorData |-> Single(
        <<Flag("isTimeDistributor"), Number("distributorPriority")>>,
        <<Tag("isTimeDistributor"), Tag("distributorPriority")>>,
        <<>>),
     TimePrecisionData |-> Single(
        <<Flag("isSynchronised"), Time("lastSyncAt"), Number("clockDrift")>>,
        <<Tag("isSynchronised"), Tag("lastSyncAt"), Tag("clockDrift")>>,
        <<>>)]

-----------------------------------------------------------------------------
(* timetable_types.h *)

TimeTableTypes ==
    [TimeTableListData |-> Listed("timeTableData",
        <<Identifier("timeTableId"), Number("timeSlotId"),
          Sub("recurrenceInformation", RecurrenceInformationType),
          Sub("startTime", AbsoluteOrRecurringTimeType),
          Sub("endTime", AbsoluteOrRecurringTimeType)>>,
        <<Tag("timeTableId"), Tag("timeSlotId"),
          Sub("recurrenceInformation", ElementsOf(RecurrenceInformationType)),
          Sub("startTime", ElementsOf(AbsoluteOrRecurringTimeType)),
          Sub("endTime", ElementsOf(AbsoluteOrRecurringTimeType))>>,
        <<Number("timeTableId"), Number("timeSlotId")>>),
     TimeTableConstraintsListData |-> Listed("timeTableConstraintsData",
        <<Identifier("timeTableId"), Number("slotCountMin"), Number("slotCountMax"),
          Time("slotDurationMin"), Time("slotDurationMax"), Time("slotDurationStepSize"),
          Time("slotShiftStepSize"), Time("firstSlotBeginsAt")>>,
        <<Tag("timeTableId"), Tag("slotCountMin"), Tag("slotCountMax"), Tag("slotDurationMin"),
          Tag("slotDurationMax"), Tag("slotDurationStepSize"), Tag("slotShiftStepSize"),
          Tag("firstSlotBeginsAt")>>,
        <<Number("timeTableId")>>),
     TimeTableDescriptionListData |-> Listed("timeTableDescriptionData",
        <<Identifier("timeTableId"), Flag("timeSlotCountChangeable"),
          Flag("timeSlotTimesChangeable"),
          Enum("timeSlotTimeMode"), String("label"), String("description")>>,
        <<Tag("timeTableId"), Tag("timeSlotCountChangeable"), Tag("timeSlotTimesChangeable"),
          Tag("timeSlotTimeMode"), Tag("label"), Tag("description")>>,
        <<Number("timeTableId")>>)]

=============================================================================
