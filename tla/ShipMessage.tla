---------------------------- MODULE ShipMessage ----------------------------
(***************************************************************************)
(* The messages of a SHIP connection and their JSON form                   *)
(* (ship_message_serialize.c, ship_message_deserialize.c, ship/model).     *)
(*                                                                         *)
(* A JSON value is a pair of its kind and its content: a number, a string, *)
(* a Boolean, raw text, or an array.  SHIP writes a structure as an array  *)
(* of objects with one field each, <<name, value>>; an array that lists    *)
(* plain values (the formats) holds the values themselves.  A message on   *)
(* the wire has the type byte, the name of the root and its value.  An     *)
(* optional member is a sequence of at most one element.  A PIN is its     *)
(* hexadecimal digits, the first not 0, since it does not fit TLC's        *)
(* integers; BadDigit is any character that is no such digit.              *)
(***************************************************************************)
EXTENDS Integers, Sequences

CONSTANT TooLong   \* a protocol identifier that does not fit ShipHeaderType

kMsgTypeInit    == 0
kMsgTypeControl == 1
kMsgTypeData    == 2
kMsgTypeEnd     == 3

kValueUndefined == [type |-> "undefined"]

HelloPhases    == {"pending", "ready", "aborted"}
HandshakeTypes == {"announceMax", "select"}
Formats        == {"JSON-UTF8", "JSON-UTF16"}
HandshakeErrorMax == 3  \* kMessageProtocolHandshakeErrorTypeSelectionMismatch
PinStates      == {"required", "optional", "pinOk", "none"}
Permissions    == {"busy", "ok"}
WrongPin       == 1     \* kConnectionPinErrorTypeWrongPin
ClosePhases    == {"announce", "confirm"}
MaxFormats     == 2     \* the size of MessageProtocolFormats.format
BadDigit       == 16

-----------------------------------------------------------------------------
(* JSON and the part of cJSON that is used.                                *)

Num(n)  == <<"num", n>>
Str(s)  == <<"str", s>>
Bool(b) == <<"bool", b>>
Raw(p)  == <<"raw", p>>
Arr(s)  == <<"arr", s>>
Null    == <<"null">>
Absent  == <<"absent">>

IsNumber(v) == v[1] = "num"

Elements(v) == IF v[1] = "arr" THEN v[2] ELSE <<>>

GetArraySize(v) == Len(Elements(v))

(* cJSON_GetArrayItem, counted from 0; no item stands for NULL.            *)
GetArrayItem(v, i) == IF i < GetArraySize(v) THEN Elements(v)[i + 1] ELSE <<>>

(* cJSON_GetObjectItem of an object with one field.                        *)
GetObjectItem(item, name) == IF item # <<>> /\ item[1] = name THEN item[2] ELSE Absent

Only(v, name) == GetObjectItem(GetArrayItem(v, 0), name)

-----------------------------------------------------------------------------
(* Writing.  An optional member that is not there adds no object.          *)

Each(opt, F(_)) == IF opt = <<>> THEN <<>> ELSE <<F(opt[1])>>

SmeHelloSerialize(v) ==
    Arr(<<<<"phase", Str(v.phase)>>>>
          \o Each(v.waiting, LAMBDA n : <<"waiting", Num(n)>>)
          \o Each(v.prolongation, LAMBDA b : <<"prolongationRequest", Bool(b)>>))

SmeProtocolHandshakeSerialize(v) ==
    Arr(<<<<"handshakeType", Str(v.handshake)>>,
          <<"version", Arr(<<<<"major", Num(v.major)>>, <<"minor", Num(v.minor)>>>>)>>,
          <<"formats", Arr(<<<<"format",
               IF v.formats = <<>> THEN Null
               ELSE Arr([i \in DOMAIN v.formats |-> Str(v.formats[i])])>>>>)>>>>)

SmeErrorSerialize(v) == Arr(<<<<"error", Num(v.error)>>>>)

SmeConnectionPinStateSerialize(v) ==
    Arr(<<<<"pinState", Str(v.pinState)>>>>
          \o Each(v.permission, LAMBDA p : <<"inputPermission", Str(p)>>))

SmeConnectionPinInputSerialize(v) == Arr(<<<<"pin", Str(v.pin)>>>>)

DataSerialize(v) ==
    Arr(<<<<"header", Arr(<<<<"protocolId", Str(v.protocolId)>>>>)>>, <<"payload", Raw(v.payload)>>>>)

SmeConnectionAccessMethodsSerialize(v) ==
    Arr(<<<<"id", Str(v.id)>>>>
          \o (IF v.dnsSdMdns THEN <<<<"dnsSd_mDns", Arr(<<>>)>>>> ELSE <<>>)
          \o Each(v.uri, LAMBDA u : <<"dns", Arr(<<<<"uri", Str(u)>>>>)>>))

(* Mutant: the reason is written before the time.                          *)
SmeCloseSerializeSwapped(v) ==
    Arr(<<<<"phase", Str(v.phase)>>>>
          \o Each(v.reason, LAMBDA r : <<"reason", Str(r)>>)
          \o Each(v.maxTime, LAMBDA n : <<"maxTime", Num(n)>>))

SmeCloseSerialize(v) ==
    Arr(<<<<"phase", Str(v.phase)>>>>
          \o Each(v.maxTime, LAMBDA n : <<"maxTime", Num(n)>>)
          \o Each(v.reason, LAMBDA r : <<"reason", Str(r)>>))

Message(type, root, value) == [type |-> type, root |-> root, value |-> value]

Serialize(v) ==
    CASE v.type = "hello"          -> Message(kMsgTypeControl, "connectionHello", SmeHelloSerialize(v))
      [] v.type = "handshake"      ->
           Message(kMsgTypeControl, "messageProtocolHandshake", SmeProtocolHandshakeSerialize(v))
      [] v.type = "handshakeError" ->
           Message(kMsgTypeControl, "messageProtocolHandshakeError", SmeErrorSerialize(v))
      [] v.type = "pinState"       ->
           Message(kMsgTypeControl, "connectionPinState", SmeConnectionPinStateSerialize(v))
      [] v.type = "pinInput"       ->
           Message(kMsgTypeControl, "connectionPinInput", SmeConnectionPinInputSerialize(v))
      [] v.type = "pinError"       -> Message(kMsgTypeControl, "connectionPinError", SmeErrorSerialize(v))
      [] v.type = "data"           -> Message(kMsgTypeData, "data", DataSerialize(v))
      [] v.type = "methodsRequest" -> Message(kMsgTypeControl, "accessMethodsRequest", Arr(<<>>))
      [] v.type = "methods"        ->
           Message(kMsgTypeControl, "accessMethods", SmeConnectionAccessMethodsSerialize(v))
      [] v.type = "close"          -> Message(kMsgTypeEnd, "connectionClose", SmeCloseSerialize(v))

-----------------------------------------------------------------------------
(* Reading.  Each operator is given the array of the root and answers the  *)
(* message or kValueUndefined.                                             *)

IsStringOf(v, set) == v[1] = "str" /\ v[2] \in set

(* The second item is the waiting time if it can be read as one, otherwise *)
(* it must be a prolongation request; later items are not looked at.       *)
SmeHelloDeserialize(a) ==
    LET phase   == GetObjectItem(GetArrayItem(a, 0), "phase")
        item    == GetArrayItem(a, 1)
        waiting == GetObjectItem(item, "waiting")
        prolong == GetObjectItem(item, "prolongationRequest")
    IN  IF /\ IsStringOf(phase, HelloPhases)
           /\ item = <<>> \/ IsNumber(waiting) \/ prolong[1] = "bool"
        THEN [type |-> "hello", phase |-> phase[2],
              waiting |-> IF IsNumber(waiting) THEN <<waiting[2]>> ELSE <<>>,
              prolongation |-> IF ~IsNumber(waiting) /\ item # <<>> THEN <<prolong[2]>> ELSE <<>>]
        ELSE kValueUndefined

(* The version numbers are cast to uint8_t.                                *)
SmeProtocolHandshakeDeserialize(a) ==
    LET handshake == GetObjectItem(GetArrayItem(a, 0), "handshakeType")
        version   == GetObjectItem(GetArrayItem(a, 1), "version")
        major     == GetObjectItem(GetArrayItem(version, 0), "major")
        minor     == GetObjectItem(GetArrayItem(version, 1), "minor")
        format    == Only(GetObjectItem(GetArrayItem(a, 2), "formats"), "format")
        formats   == Elements(format)
    IN  IF /\ IsStringOf(handshake, HandshakeTypes)
           /\ IsNumber(major) /\ IsNumber(minor)
           /\ format # Absent /\ Len(formats) <= MaxFormats
           /\ \A i \in DOMAIN formats : IsStringOf(formats[i], Formats)
        THEN [type |-> "handshake", handshake |-> handshake[2],
              major |-> major[2] % 256, minor |-> minor[2] % 256,
              formats |-> [i \in DOMAIN formats |-> formats[i][2]]]
        ELSE kValueUndefined

SmeProtocolHandshakeErrorDeserialize(a) ==
    LET error == Only(a, "error")
    IN  IF IsNumber(error) /\ error[2] \in 0..HandshakeErrorMax
        THEN [type |-> "handshakeError", error |-> error[2]] ELSE kValueUndefined

SmeConnectionPinStateDeserialize(a) ==
    LET pinState   == GetObjectItem(GetArrayItem(a, 0), "pinState")
        permission == GetObjectItem(GetArrayItem(a, 1), "inputPermission")
    IN  IF /\ IsStringOf(pinState, PinStates)
           /\ GetArrayItem(a, 1) # <<>> => IsStringOf(permission, Permissions)
        THEN [type |-> "pinState", pinState |-> pinState[2],
              permission |-> IF GetArrayItem(a, 1) # <<>> THEN <<permission[2]>> ELSE <<>>]
        ELSE kValueUndefined

SmeConnectionPinInputDeserialize(a) ==
    LET pin == Only(a, "pin")
    IN  IF /\ pin[1] = "str"
           /\ Len(pin[2]) \in 8..16
           /\ Head(pin[2]) # 0
           /\ \A i \in DOMAIN pin[2] : pin[2][i] # BadDigit
        THEN [type |-> "pinInput", pin |-> pin[2]] ELSE kValueUndefined

(* Only the error for a wrong PIN is accepted.                             *)
SmeConnectionPinErrorDeserialize(a) ==
    LET error == Only(a, "error")
    IN  IF IsNumber(error) /\ error[2] = WrongPin
        THEN [type |-> "pinError", error |-> error[2]] ELSE kValueUndefined

(* Any JSON may be the payload.                                            *)
DataDeserialize(a) ==
    LET id      == Only(GetObjectItem(GetArrayItem(a, 0), "header"), "protocolId")
        payload == GetObjectItem(GetArrayItem(a, 1), "payload")
    IN  IF id[1] = "str" /\ id[2] # TooLong /\ payload # Absent
        THEN [type |-> "data", protocolId |-> id[2], payload |-> payload[2]]
        ELSE kValueUndefined

SmeConnectionAccessMethodsRequestDeserialize(a) ==
    IF GetArraySize(a) = 0 THEN [type |-> "methodsRequest"] ELSE kValueUndefined

(* With the name of the service first, a DNS entry may only be the last of *)
(* two items; otherwise it may follow the (empty) entry for mDNS.          *)
SmeConnectionAccessMethodsDeserialize(a) ==
    LET id    == GetObjectItem(GetArrayItem(a, 0), "id")
        item  == GetArrayItem(a, 1)
        third == GetArrayItem(a, 2)
        mdns  == GetObjectItem(item, "dnsSd_mDns")
        uri   == Only(GetObjectItem(IF third # <<>> THEN third ELSE item, "dns"), "uri")
        hasUri == third # <<>> \/ (item # <<>> /\ mdns = Absent)
    IN  IF /\ id[1] = "str"
           /\ mdns # Absent => GetArraySize(mdns) = 0
           /\ item # <<>> /\ mdns = Absent =>
                 GetObjectItem(item, "dns") # Absent /\ GetArraySize(a) = 2
           /\ hasUri => uri[1] = "str"
        THEN [type |-> "methods", id |-> id[2], dnsSdMdns |-> mdns # Absent,
              uri |-> IF hasUri THEN <<uri[2]>> ELSE <<>>]
        ELSE kValueUndefined

(* A reason may follow the time or stand alone as the last of two items.   *)
SmeCloseDeserialize(a) ==
    LET phase  == GetObjectItem(GetArrayItem(a, 0), "phase")
        item   == GetArrayItem(a, 1)
        third  == GetArrayItem(a, 2)
        time   == GetObjectItem(item, "maxTime")
        reason == GetObjectItem(IF third # <<>> THEN third ELSE item, "reason")
        hasReason == third # <<>> \/ (item # <<>> /\ time = Absent)
    IN  IF /\ IsStringOf(phase, ClosePhases)
           /\ time # Absent => IsNumber(time)
           /\ item # <<>> /\ time = Absent =>
                 GetObjectItem(item, "reason") # Absent /\ GetArraySize(a) = 2
           /\ hasReason => reason[1] = "str"
        THEN [type |-> "close", phase |-> phase[2],
              maxTime |-> IF time # Absent THEN <<time[2]>> ELSE <<>>,
              reason |-> IF hasReason THEN <<reason[2]>> ELSE <<>>]
        ELSE kValueUndefined

DeserializeControlMessage(root, a) ==
    CASE root = "connectionHello"               -> SmeHelloDeserialize(a)
      [] root = "messageProtocolHandshake"      -> SmeProtocolHandshakeDeserialize(a)
      [] root = "messageProtocolHandshakeError" -> SmeProtocolHandshakeErrorDeserialize(a)
      [] root = "connectionPinState"            -> SmeConnectionPinStateDeserialize(a)
      [] root = "connectionPinInput"            -> SmeConnectionPinInputDeserialize(a)
      [] root = "connectionPinError"            -> SmeConnectionPinErrorDeserialize(a)
      [] root = "accessMethodsRequest"          -> SmeConnectionAccessMethodsRequestDeserialize(a)
      [] root = "accessMethods"                 -> SmeConnectionAccessMethodsDeserialize(a)
      [] OTHER                                  -> kValueUndefined

(* A message of another type, and the init message, is not read.           *)
Deserialize(msg) ==
    CASE msg.type = kMsgTypeControl -> DeserializeControlMessage(msg.root, msg.value)
      [] msg.type = kMsgTypeData /\ msg.root = "data" -> DataDeserialize(msg.value)
      [] msg.type = kMsgTypeEnd /\ msg.root = "connectionClose" -> SmeCloseDeserialize(msg.value)
      [] OTHER -> kValueUndefined
=============================================================================
