----------------------------- MODULE SpineTypes -----------------------------
(***************************************************************************)
(* The tables of the SPINE data model (src/src/spine/model) that the       *)
(* generic data layer interprets: how a type is written down here, the     *)
(* types that others share, and the functions of node management.          *)
(*                                                                         *)
(* A type lists its fields in the order of the table in the .inc file,     *)
(* which is the order of the struct in the header, each by its name in     *)
(* JSON and by the interface that handles it: identifiers are those with   *)
(* kEebusDataFlagIsIdentifier or kEebusDataFlagIsSubIdentifier.  Widths of *)
(* numbers and the names of enumerated values are left out: no filter      *)
(* depends on them.  A function has its data, and the elements and the     *)
(* selectors that filters name its fields and items with.                  *)
(***************************************************************************)
EXTENDS EebusData

NumericCfg == [kind |-> "numeric", id |-> FALSE]
StringCfg == [kind |-> "string", id |-> FALSE]
EnumCfg == [kind |-> "enumeration", id |-> FALSE]
StubCfg == [kind |-> "stub", id |-> FALSE]

Number(n) == Field(n, NumericCfg)
String(n) == Field(n, StringCfg)
Enum(n) == Field(n, EnumCfg)
Flag(n) == Field(n, [kind |-> "bool", id |-> FALSE])
Time(n) == Field(n, [kind |-> "dateTime", id |-> FALSE])
Tag(n) == Field(n, TagCfg)
Sub(n, type) == Field(n, type)
ListOf(n, type) == Field(n, [kind |-> "list", of |-> type])
SimpleList(n, type) == Field(n, [kind |-> "simplelist", of |-> type])
Identifier(n) == Field(n, [NumericCfg EXCEPT !.id = TRUE])
EnumIdentifier(n) == Field(n, [EnumCfg EXCEPT !.id = TRUE])
SubIdentifier(n, type) == Field(n, [type EXCEPT !.id = TRUE])

Type(fields) == [kind |-> "sequence", id |-> FALSE, fields |-> fields]

(* The elements that name every field of a type by a tag. *)
ElementsOf(type) == Type([i \in 1..Len(type.fields) |-> Tag(type.fields[i].name)])

ContainerOf(list, type) == [kind |-> "container", id |-> FALSE, fields |-> <<ListOf(list, type)>>]

(* A function that stores a list of items, and one that stores one record. *)
Listed(list, item, elements, selectors) ==
    [item |-> Type(item), data |-> ContainerOf(list, Type(item)), elements |-> Type(elements),
     selectors |-> IF selectors = <<>> THEN StubCfg ELSE Type(selectors)]
Single(fields, elements, selectors) ==
    [item |-> Type(fields), data |-> Type(fields), elements |-> Type(elements),
     selectors |-> IF selectors = <<>> THEN StubCfg ELSE Type(selectors)]
(* A call without data. *)
Call == [item |-> TagCfg, data |-> TagCfg, elements |-> TagCfg, selectors |-> StubCfg]

-----------------------------------------------------------------------------
(* common_data_types.h *)

ScaledNumberType == Type(<<Number("number"), Number("scale")>>)
TimePeriodType == Type(<<Time("startTime"), Time("endTime")>>)
TimestampIntervalType == Type(<<Time("startTime"), Time("endTime")>>)

AbsoluteOrRecurringTimeType ==
    LET DaysOfWeekType ==
            Type(<<Tag("monday"), Tag("tuesday"), Tag("wednesday"), Tag("thursday"),
                   Tag("friday"), Tag("saturday"), Tag("sunday")>>)
    IN  Type(<<Time("dateTime"), Enum("month"), Number("dayOfMonth"), Number("calendarWeek"),
               Enum("dayOfWeekOccurrence"), Sub("daysOfWeek", DaysOfWeekType), Time("time"),
               Time("relative")>>)

RecurrenceInformationType ==
    Type(<<Enum("recurringInterval"), Number("recurringIntervalStep"), Time("firstExecution"),
           Number("executionCount"), Time("lastExecution")>>)

ScaledNumberSetType ==
    LET ScaledNumberRangeType ==
            Type(<<Sub("min", ScaledNumberType), Sub("max", ScaledNumberType)>>)
    IN  Type(<<ListOf("value", ScaledNumberType), ListOf("range", ScaledNumberRangeType)>>)

-----------------------------------------------------------------------------
(* possible_operations_types.h *)

PossibleOperationsType ==
    LET PossibleOperationsReadType == Type(<<Tag("partial")>>)
        PossibleOperationsWriteType == Type(<<Tag("partial")>>)
    IN  Type(<<Sub("read", PossibleOperationsReadType), Sub("write", PossibleOperationsWriteType)>>)

-----------------------------------------------------------------------------
(* function_types.h *)

FunctionPropertyType ==
    Type(<<Enum("function"), Sub("possibleOperations", PossibleOperationsType)>>)

-----------------------------------------------------------------------------
(* feature_types.h *)

FeatureAddressType == Type(<<String("device"), ListOf("entity", NumericCfg), Number("feature")>>)
-----------------------------------------------------------------------------
(* device_types.h *)

DeviceAddressType == Type(<<String("device")>>)
-----------------------------------------------------------------------------
(* entity_types.h *)

EntityAddressType == Type(<<String("device"), ListOf("entity", NumericCfg)>>)
-----------------------------------------------------------------------------
(* version_types.h *)

VersionTypes ==
    [SpecificationVersionListData |-> [item |-> StringCfg,
    data |-> ContainerOf("specificationVersionData", StringCfg),
         elements |-> TagCfg, selectors |-> TagCfg]]

-----------------------------------------------------------------------------
(* result_types.h *)

ResultTypes ==
    [ResultData |-> Single(
        <<Number("errorNumber"), String("description")>>,
        <<>>,
        <<>>)]

-----------------------------------------------------------------------------
(* binding_management_types.h *)

BindingManagementTypes ==
    [BindingManagementEntryListData |-> Listed("bindingManagementEntryData",
        <<Identifier("bindingId"), Sub("clientAddress", FeatureAddressType),
          Sub("serverAddress", FeatureAddressType), String("label"), String("description")>>,
        <<Tag("bindingId"), Tag("clientAddress"), Tag("serverAddress"), Tag("label"),
          Tag("description")>>,
        <<Number("bindingId"), Sub("clientAddress", FeatureAddressType),
          Sub("serverAddress", FeatureAddressType)>>),
     BindingManagementRequestCall |-> Single(
        <<Sub("clientAddress", FeatureAddressType), Sub("serverAddress", FeatureAddressType),
          Enum("serverFeatureType")>>,
        <<Tag("clientAddress"), Tag("serverAddress"), Tag("serverFeatureType")>>,
        <<>>),
     BindingManagementDeleteCall |-> Single(
        <<Number("bindingId"), Sub("clientAddress", FeatureAddressType),
          Sub("serverAddress", FeatureAddressType)>>,
        <<Tag("bindingId"), Tag("clientAddress"), Tag("serverAddress")>>,
        <<>>)]

-----------------------------------------------------------------------------
(* subscription_management_types.h *)

SubscriptionManagementTypes ==
    [SubscriptionManagementEntryListData |-> Listed("subscriptionManagementEntryData",
        <<Identifier("subscriptionId"), Sub("clientAddress", FeatureAddressType),
          Sub("serverAddress", FeatureAddressType), String("label"), String("description")>>,
        <<Tag("subscriptionId"), Sub("clientAddress", ElementsOf(FeatureAddressType)),
          Sub("serverAddress", ElementsOf(FeatureAddressType)), Tag("label"), Tag("description")>>,
        <<Number("subscriptionId"), Sub("clientAddress", FeatureAddressType),
          Sub("serverAddress", FeatureAddressType)>>),
     SubscriptionManagementRequestCall |-> Single(
        <<Sub("clientAddress", FeatureAddressType), Sub("serverAddress", FeatureAddressType),
          Enum("serverFeatureType")>>,
        <<Sub("clientAddress", ElementsOf(FeatureAddressType)),
          Sub("serverAddress", ElementsOf(FeatureAddressType)), Tag("serverFeatureType")>>,
        <<>>),
     SubscriptionManagementDeleteCall |-> Single(
        <<Number("subscriptionId"), Sub("clientAddress", FeatureAddressType),
          Sub("serverAddress", FeatureAddressType)>>,
        <<Tag("subscriptionId"), Sub("clientAddress", ElementsOf(FeatureAddressType)),
          Sub("serverAddress", ElementsOf(FeatureAddressType))>>,
        <<>>)]

-----------------------------------------------------------------------------
(* network_management_types.h *)

NetworkManagementCallTypes ==
    [NetworkManagementAddNodeCall |-> Single(
        <<Sub("nodeAddress", FeatureAddressType), String("nativeSetup"), Time("timeout"),
          String("label"),
          String("description")>>,
        <<Sub("nodeAddress", ElementsOf(FeatureAddressType)), Tag("nativeSetup"), Tag("timeout"),
          Tag("label"), Tag("description")>>,
        <<>>),
     NetworkManagementRemoveNodeCall |-> Single(
        <<Sub("nodeAddress", FeatureAddressType), Time("timeout")>>,
        <<Sub("nodeAddress", ElementsOf(FeatureAddressType)), Tag("timeout")>>,
        <<>>),
     NetworkManagementModifyNodeCall |-> Single(
        <<Sub("nodeAddress", FeatureAddressType), String("nativeSetup"), Time("timeout"),
          String("label"),
          String("description")>>,
        <<Sub("nodeAddress", ElementsOf(FeatureAddressType)), Tag("nativeSetup"), Tag("timeout"),
          Tag("label"), Tag("description")>>,
        <<>>),
     NetworkManagementScanNetworkCall |-> Single(
        <<String("scanSetup"), Time("timeout")>>,
        <<Tag("scanSetup"), Tag("timeout")>>,
        <<>>),
     NetworkManagementDiscoverCall |-> Single(
        <<Sub("discoverAddress", FeatureAddressType)>>,
        <<Sub("discoverAddress", ElementsOf(FeatureAddressType))>>,
        <<>>),
     NetworkManagementProcessStateData |-> Single(
        <<Enum("state"), String("description")>>,
        <<Tag("state"), Tag("description")>>,
        <<>>),
     NetworkManagementJoiningModeData |-> Single(
        <<String("setup")>>,
        <<Tag("setup")>>,
        <<>>),
     NetworkManagementReportCandidateData |-> Single(
        <<String("candidateSetup"), Flag("setupUsableForAdd"), String("label"),
          String("description")>>,
        <<Tag("candidateSetup"), Tag("setupUsableForAdd"), Tag("label"), Tag("description")>>,
        <<>>)]

NetworkManagementDescriptionTypes ==
    [NetworkManagementDeviceDescriptionListData |-> Listed("networkManagementDeviceDescriptionData",
        <<SubIdentifier("deviceAddress", DeviceAddressType), Enum("deviceType"),
          Sub("networkManagementResponsibleAddress", FeatureAddressType), String("nativeSetup"),
          String("technologyAddress"), String("communicationsTechnologyInformation"),
          Enum("networkFeatureSet"), Enum("lastStateChange"), String("minimumTrustLevel"),
          String("label"), String("description")>>,
        <<Tag("deviceAddress"), Tag("deviceType"), Tag("networkManagementResponsibleAddress"),
          Tag("nativeSetup"), Tag("technologyAddress"), Tag("communicationsTechnologyInformation"),
          Tag("networkFeatureSet"), Tag("lastStateChange"), Tag("minimumTrustLevel"), Tag("label"),
          Tag("description")>>,
        <<Sub("deviceAddress", DeviceAddressType), Enum("deviceType")>>),
     NetworkManagementEntityDescriptionListData |-> Listed("networkManagementEntityDescriptionData",
        <<SubIdentifier("entityAddress", EntityAddressType), Enum("entityType"),
          Enum("lastStateChange"), String("minimumTrustLevel"), String("label"),
          String("description")>>,
        <<Tag("entityAddress"), Tag("entityType"), Tag("lastStateChange"), Tag("minimumTrustLevel"),
          Tag("label"), Tag("description")>>,
        <<Sub("entityAddress", EntityAddressType), Enum("entityType")>>),
     NetworkManagementFeatureDescriptionListData |-> Listed(
            "networkManagementFeatureDescriptionData",
        <<SubIdentifier("featureAddress", FeatureAddressType), Enum("featureType"),
          ListOf("specificUsage", EnumCfg), String("featureGroup"), Enum("role"),
          ListOf("supportedFunction", FunctionPropertyType), Enum("lastStateChange"),
          String("minimumTrustLevel"), String("label"), String("description"),
          Time("maxResponseDelay")>>,
        <<Sub("featureAddress", ElementsOf(FeatureAddressType)), Tag("featureType"),
          Tag("specificUsage"),
          Tag("featureGroup"), Tag("role"), Sub("supportedFunction", ElementsOf(FunctionPropertyType)),
          Tag("lastStateChange"), Tag("minimumTrustLevel"), Tag("label"), Tag("description"),
          Tag("maxResponseDelay")>>,
        <<Sub("featureAddress", FeatureAddressType), Enum("featureType")>>)]

-----------------------------------------------------------------------------
(* usecase_information_types.h *)

UseCaseInformationTypes ==
    LET UseCaseSupportType ==
            Type(<<Enum("useCaseName"), String("useCaseVersion"), Flag("useCaseAvailable"),
                   ListOf("scenarioSupport", NumericCfg), String("useCaseDocumentSubRevision")>>)
        UseCaseSupportSelectorsType ==
            Type(<<Enum("useCaseName"), String("useCaseVersion"), Number("scenarioSupport")>>)
    IN  [UseCaseInformationListData |-> Listed("useCaseInformationData",
            <<Sub("address", FeatureAddressType), Enum("actor"),
              ListOf("useCaseSupport", UseCaseSupportType)>>,
            <<Tag("address"), Tag("actor"), Tag("useCaseSupport")>>,
            <<Sub("address", FeatureAddressType), Enum("actor"),
              Sub("useCaseSupport", UseCaseSupportSelectorsType)>>)]

-----------------------------------------------------------------------------
(* node_management_types.h *)

NodeManagementDiscoveryTypes ==
    LET NetworkManagementDeviceDescriptionListData ==
            NetworkManagementDescriptionTypes.NetworkManagementDeviceDescriptionListData
        NetworkManagementEntityDescriptionListData ==
            NetworkManagementDescriptionTypes.NetworkManagementEntityDescriptionListData
        NetworkManagementFeatureDescriptionListData ==
            NetworkManagementDescriptionTypes.NetworkManagementFeatureDescriptionListData
        NodeManagementSpecificationVersionListType ==
            Type(<<ListOf("specificationVersion", StringCfg)>>)
        NodeManagementSpecificationVersionListElementsType == Type(<<Tag("specificationVersion")>>)
        NodeManagementDetailedDiscoveryDeviceInformationType ==
            Type(<<Sub("description", NetworkManagementDeviceDescriptionListData.item)>>)
        NodeManagementDetailedDiscoveryDeviceInformationElementsType ==
            Type(<<Sub("description", NetworkManagementDeviceDescriptionListData.elements)>>)
        NodeManagementDetailedDiscoveryEntityInformationType ==
            Type(<<Sub("description", NetworkManagementEntityDescriptionListData.item)>>)
        NodeManagementDetailedDiscoveryEntityInformationElementsType ==
            Type(<<Sub("description", NetworkManagementEntityDescriptionListData.elements)>>)
        NodeManagementDetailedDiscoveryFeatureInformationType ==
            Type(<<Sub("description", NetworkManagementFeatureDescriptionListData.item)>>)
        NodeManagementDetailedDiscoveryFeatureInformationElementsType ==
            Type(<<Sub("description", NetworkManagementFeatureDescriptionListData.elements)>>)
    IN  [NodeManagementDetailedDiscoveryData |-> Single(
            <<Sub("specificationVersionList", NodeManagementSpecificationVersionListType),
              Sub("deviceInformation", NodeManagementDetailedDiscoveryDeviceInformationType),
              ListOf("entityInformation", NodeManagementDetailedDiscoveryEntityInformationType),
              ListOf("featureInformation", NodeManagementDetailedDiscoveryFeatureInformationType)>>,
            <<Sub("specificationVersionList", NodeManagementSpecificationVersionListElementsType),
              Sub("deviceInformation",
              NodeManagementDetailedDiscoveryDeviceInformationElementsType),
              Sub("entityInformation",
              NodeManagementDetailedDiscoveryEntityInformationElementsType),
              Sub("featureInformation",
              NodeManagementDetailedDiscoveryFeatureInformationElementsType)>>,
            <<Sub("deviceInformation", NetworkManagementDeviceDescriptionListData.selectors),
              Sub("entityInformation", NetworkManagementEntityDescriptionListData.selectors),
              Sub("featureInformation", NetworkManagementFeatureDescriptionListData.selectors)>>)]

NodeManagementLinkTypes ==
    LET BindingManagementEntryListData == BindingManagementTypes.BindingManagementEntryListData
        BindingManagementRequestCall == BindingManagementTypes.BindingManagementRequestCall
        BindingManagementDeleteCall == BindingManagementTypes.BindingManagementDeleteCall
        SubscriptionManagementEntryListData ==
            SubscriptionManagementTypes.SubscriptionManagementEntryListData
        SubscriptionManagementRequestCall ==
            SubscriptionManagementTypes.SubscriptionManagementRequestCall
        SubscriptionManagementDeleteCall ==
            SubscriptionManagementTypes.SubscriptionManagementDeleteCall
        NetworkManagementDeviceDescriptionListData ==
            NetworkManagementDescriptionTypes.NetworkManagementDeviceDescriptionListData
        UseCaseInformationListData == UseCaseInformationTypes.UseCaseInformationListData
    IN  [NodeManagementBindingData |-> Single(
            <<ListOf("bindingEntry", BindingManagementEntryListData.item)>>,
            <<Sub("bindingEntry", BindingManagementEntryListData.elements)>>,
            <<Sub("bindingEntry", BindingManagementEntryListData.selectors)>>),
         NodeManagementBindingRequestCall |-> Single(
            <<Sub("bindingRequest", BindingManagementRequestCall.item)>>,
            <<Sub("bindingRequest", BindingManagementRequestCall.elements)>>,
            <<>>),
         NodeManagementBindingDeleteCall |-> Single(
            <<Sub("bindingDelete", BindingManagementDeleteCall.item)>>,
            <<Sub("bindingDelete", BindingManagementDeleteCall.elements)>>,
            <<>>),
         NodeManagementSubscriptionData |-> Single(
            <<ListOf("subscriptionEntry", SubscriptionManagementEntryListData.item)>>,
            <<Sub("subscriptionEntry", SubscriptionManagementEntryListData.elements)>>,
            <<Sub("subscriptionEntry", SubscriptionManagementEntryListData.selectors)>>),
         NodeManagementSubscriptionRequestCall |-> Single(
            <<Sub("subscriptionRequest", SubscriptionManagementRequestCall.item)>>,
            <<Sub("subscriptionRequest", SubscriptionManagementRequestCall.elements)>>,
            <<>>),
         NodeManagementSubscriptionDeleteCall |-> Single(
            <<Sub("subscriptionDelete", SubscriptionManagementDeleteCall.item)>>,
            <<Sub("subscriptionDelete", SubscriptionManagementDeleteCall.elements)>>,
            <<>>),
         NodeManagementDestinationListData |-> Listed("nodeManagementDestinationData",
            <<Sub("deviceDescription", NetworkManagementDeviceDescriptionListData.item)>>,
            <<Sub("deviceDescription", NetworkManagementDeviceDescriptionListData.elements)>>,
            <<Sub("deviceDescription", NetworkManagementDeviceDescriptionListData.selectors)>>),
         NodeManagementUseCaseData |-> Single(
            <<ListOf("useCaseInformation", UseCaseInformationListData.item)>>,
            <<Sub("useCaseInformation", UseCaseInformationListData.elements)>>,
            <<Sub("useCaseInformation", UseCaseInformationListData.selectors)>>)]

=============================================================================
