------------------------------- MODULE MCData -------------------------------
(***************************************************************************)
(* The data that devices store and exchange, one part in each behaviour:   *)
(* the function of SpineFunction, here a limit list of an identifier, a    *)
(* value and a time period; a clock of EebusDateTime that moves in steps   *)
(* and is read by a sender and a receiver of heartbeats in their zones;    *)
(* a SHIP message that is read and sent on; a scaled number; or the tables *)
(* of one function of the data model.                                      *)
(***************************************************************************)
EXTENDS SpineFunction, SpineModel, EebusDateTime, ShipMessage, ScaledValue, ShipPairingEntry

CONSTANTS v1, v2, start, end, NoClock, MaxTicks, NoMessage, NoNumber, NoSchema, NoRecord, MaxAlterations

VARIABLES clock, frame, number, schema, record

probes == <<clock, frame, number, schema, record>>

ValueCfg(id) == [kind |-> "value", id |-> id]
SeqCfg(fields) == [kind |-> "sequence", id |-> FALSE, fields |-> fields]

PeriodCfg(c) == SeqCfg(<<Field("startTime", c), Field("endTime", c)>>)
ItemCfg == SeqCfg(<<Field("limitId", ValueCfg(TRUE)), Field("value", ValueCfg(FALSE)),
                    Field("timePeriod", PeriodCfg(ValueCfg(FALSE)))>>)
MCDataCfg == [kind |-> "container", id |-> FALSE,
              fields |-> <<Field("limitData", [kind |-> "list", of |-> ItemCfg])>>]
MCSelectorsCfg == SeqCfg(<<Field("limitId", ValueCfg(FALSE))>>)
MCElementsCfg == SeqCfg(<<Field("limitId", TagCfg), Field("value", TagCfg),
                          Field("timePeriod", PeriodCfg(TagCfg))>>)

All == [sel |-> NULL, el |-> NULL]
Limit(id) == [sel |-> <<id>>, el |-> NULL]
Period(id) == [sel |-> <<id>>, el |-> <<NULL, NULL, <<NULL, NULL>>>>]
Update(items, partial, del) == [data |-> <<items>>, partial |-> partial, del |-> del]

MCWrites == {Update(<<<<1, NULL, <<NULL, start>>>>, <<2, v1, NULL>>>>, All, NULL),
             Update(<<<<1, v1, NULL>>>>, All, Limit(1))}

MCUpdates == MCWrites \cup {Update(<<<<1, v2, <<start, end>>>>>>, All, Period(1)),
                            Update(<<<<NULL, v2, NULL>>>>, All, NULL),
                            Update(<<<<2, v2, NULL>>>>, NULL, NULL),
                            Update(<<<<NULL, v1, NULL>>>>, Limit(2), Limit(1))}

-----------------------------------------------------------------------------
Dur(d, h, m, s) ==
    [ZeroDuration EXCEPT !.days = d, !.hours = h, !.minutes = m, !.seconds = s]

Steps == {Dur(0, 0, 0, 59), Dur(0, 0, 61, 0), Dur(0, 23, 0, 1), Dur(27, 0, 0, 0), Dur(0, 1, 59, 60)}

Starts == {[year |-> y, month |-> mo, day |-> d, hour |-> h, min |-> 59, sec |-> 30] :
             y \in {2023, 2024}, mo \in {1, 2, 12}, d \in {1, 28}, h \in {23}}

(* Hours ahead of UTC: winter and summer time, or two places.              *)
Zones == {0, 1}

(* Seconds since 2023-01-01, the reference for the arithmetic on dates.    *)
RECURSIVE DaysBefore(_, _)
DaysBefore(y, m) ==
    IF y = 2023 /\ m = 1 THEN 0
    ELSE IF m = 1 THEN DaysBefore(y - 1, 12) + 31
    ELSE DaysBefore(y, m - 1) + GetDaysInMonthNum([year |-> y, month |-> m - 1])

Elapsed(dt) ==
    ((DaysBefore(dt.year, dt.month) + dt.day) * 24 + dt.hour) * 3600 + dt.min * 60 + dt.sec

-----------------------------------------------------------------------------
(* Messages as a peer may send them: for each root up to three items in    *)
(* any order, with values of the wrong kind among them.                    *)
Junk == {<<"other", Num(1)>>}
Pins == {[i \in 1..n |-> d] : n \in {7, 8, 16, 17}, d \in {1, 15}}
          \cup {[[i \in 1..8 |-> 0] EXCEPT ![i1] = d] : i1 \in {1, 2}, d \in {10, BadDigit}}

ItemsOf(root) == Junk \cup
    CASE root = "connectionHello" ->
           {<<"phase", Str(x)>> : x \in HelloPhases \cup {"x"}}
             \cup {<<"waiting", x>> : x \in {Num(60), Str("x")}}
             \cup {<<"prolongationRequest", x>> : x \in {Bool(TRUE), Bool(FALSE), Num(1)}}
      [] root = "messageProtocolHandshake" ->
           {<<"handshakeType", Str(x)>> : x \in HandshakeTypes \cup {"x"}}
             \cup {<<"version", Arr(<<<<"major", x>>, <<"minor", Num(0)>>>>)>> :
                      x \in {Num(1), Num(257), Str("1")}}
             \cup {<<"version", Arr(<<<<"major", Num(1)>>>>)>>}
             \cup {<<"formats", Arr(<<<<"format", x>>>>)>> :
                      x \in {Null, Arr(<<>>), Arr(<<Str("JSON-UTF8")>>), Arr(<<Str("x")>>),
                             Arr(<<Str("JSON-UTF8"), Str("JSON-UTF16")>>),
                             Arr(<<Str("JSON-UTF8"), Str("JSON-UTF16"), Str("JSON-UTF8")>>)}}
      [] root = "connectionPinState" ->
           {<<"pinState", Str(x)>> : x \in PinStates \cup {"x"}}
             \cup {<<"inputPermission", Str(x)>> : x \in Permissions \cup {"x"}}
      [] root = "connectionPinInput" -> {<<"pin", Str(x)>> : x \in Pins} \cup {<<"pin", Num(1)>>}
      [] root \in {"messageProtocolHandshakeError", "connectionPinError"} ->
           {<<"error", Num(n)>> : n \in 0..4} \cup {<<"error", Str("1")>>}
      [] root = "accessMethods" ->
           {<<"id", Str("me")>>, <<"id", Num(1)>>, <<"dnsSd_mDns", Arr(<<>>)>>,
            <<"dnsSd_mDns", Arr(<<<<"other", Num(1)>>>>)>>, <<"dns", Str("x")>>, <<"dns", Arr(<<<<"uri", Str("u")>>>>)>>}
      [] root = "connectionClose" ->
           {<<"phase", Str(x)>> : x \in ClosePhases \cup {"x"}}
             \cup {<<"maxTime", x>> : x \in {Num(500), Str("x")}}
             \cup {<<"reason", x>> : x \in {Str("unspecific"), Num(1)}}
      [] root = "data" ->
           {<<"header", Arr(<<<<"protocolId", x>>>>)>> : x \in {Str("ee1.0"), Str(TooLong), Num(1)}}
             \cup {<<"payload", Raw(v1)>>}
      [] OTHER -> {}

Roots == {"connectionHello", "messageProtocolHandshake", "messageProtocolHandshakeError",
          "connectionPinState", "connectionPinInput", "connectionPinError", "accessMethodsRequest",
          "accessMethods", "connectionClose", "data"}

TypeOf(root) == CASE root = "data" -> kMsgTypeData
                  [] root = "connectionClose" -> kMsgTypeEnd
                  [] OTHER -> kMsgTypeControl

Wires == UNION {{Message(TypeOf(root), root, Arr(items)) : items \in BoundedSeq(ItemsOf(root), 3)} :
                  root \in Roots}
           \cup [type : 0..4, root : Roots \cup {"other"}, value : {Arr(<<>>)}]

Hellos == [type : {"hello"}, phase : HelloPhases, waiting : {<<>>, <<60>>},
           prolongation : {<<>>, <<TRUE>>, <<FALSE>>}]
PinInputs == [type : {"pinInput"}, pin : {p \in Pins : p[1] # 0 /\ \A i \in DOMAIN p : p[i] # BadDigit}]
Closes == [type : {"close"}, phase : ClosePhases, maxTime : {<<>>, <<500>>},
           reason : {<<>>, <<"unspecific">>}]
Others == [type : {"handshake"}, handshake : HandshakeTypes, major : {0, 1, 255}, minor : {0, 7},
           formats : BoundedSeq(Formats, 2)]
            \cup [type : {"handshakeError"}, error : 0..HandshakeErrorMax]
            \cup [type : {"pinState"}, pinState : PinStates, permission : {<<>>, <<"busy">>, <<"ok">>}]
            \cup [type : {"methods"}, id : {"me"}, dnsSdMdns : BOOLEAN, uri : {<<>>, <<"u">>}]
            \cup [type : {"data"}, protocolId : {"ee1.0"}, payload : {v1, v2}]
            \cup {[type |-> "methodsRequest"], [type |-> "pinError", error |-> WrongPin]}

Numbers == [value : {-1250, -1200, -999, -105, -100, -5, -1, 0, 1, 7, 40, 100, 1001}, scale : -5..2]

-----------------------------------------------------------------------------
(* Pairing requests for either of two nodes, made with either secret.      *)
Par(n) == Hex(<<n>>, 64)
Node(n) == [id |-> Plain(n), par |-> Par(n), secret |-> n, curves |-> {Plain("secp256r1")}]
Nodes == {Node("A"), Node("B")}

RequestConfigs ==
    [for_id : {Plain("A"), Plain("B")}, for_par : {Par("A"), Par("B"), Hex(<<"A">>, 0)}, secret : {"A", "B"},
     trust_id : {Plain("Z")}, own_par : {Par("Z")}, nonce : {Hex(<<"n">>, 32)},
     curve : PermittedCurves \cup {NoValue}]

OtherItems == {[key |-> k, value |-> v] : k \in {"txtvers", "forId", "trustPar", "digest", "other", NoAssign, Malformed},
                                      v \in {Plain("1"), Plain("B"), Par("B")}}

-----------------------------------------------------------------------------
Idle == [clock |-> NoClock, frame |-> NoMessage, number |-> NoNumber, schema |-> NoSchema,
          record |-> NoRecord]

Probing(p) ==
    /\ clock = p.clock /\ frame = p.frame /\ number = p.number
    /\ schema = p.schema /\ record = p.record

NoProbe == Probing(Idle)

(* The timestamp of a heartbeat (HeartbeatManagerSetData) as the receiver  *)
(* reads it.                                                               *)
Heartbeat(utc, zone) ==
    ParseAbsoluteOrRelativeTime(DateTimeToString(DateTimeNow(utc, zone["sender"])))

MCInit ==
    \/ Init /\ NoProbe
    \/ /\ Init /\ ops
       /\ \/ \E t \in Starts : \E zs \in [{"sender", "receiver"} -> Zones] :
                Probing([Idle EXCEPT !.clock = [now |-> t, zone |-> zs, ticks |-> 0,
                                                beat |-> Heartbeat(t, zs), sent |-> t, from |-> zs["sender"]]])
          \/ \E w \in Wires : Probing([Idle EXCEPT !.frame = w])
          \/ \E n \in Numbers : Probing([Idle EXCEPT !.number = n])
          \/ \E f \in FunctionTypes : Probing([Idle EXCEPT !.schema = Schema(f)])
          \/ \E c \in RequestConfigs :
                /\ RequestCreate(c) # NoEntry
                /\ Probing([Idle EXCEPT !.record = [config |-> c, changes |-> 0,
                                                     items |-> EntryTxtPairs(RequestCreate(c))]])

(* Time passes.                                                            *)
Advance ==
    /\ clock # NoClock /\ clock.ticks < MaxTicks
    /\ \E d \in Steps : clock' = [clock EXCEPT !.now = DateTimeAddDuration(@, d), !.ticks = @ + 1]
    /\ UNCHANGED <<vars, frame, number, schema, record>>

(* The zone of an end changes: summer time begins or ends.                 *)
ChangeZone ==
    /\ clock # NoClock
    /\ \E e \in DOMAIN clock.zone : \E z \in Zones : clock' = [clock EXCEPT !.zone[e] = z]
    /\ UNCHANGED <<vars, frame, number, schema, record>>

(* A heartbeat with the present time arrives as text; sent and from are    *)
(* the history of when it was sent and in which zone.                      *)
Beat ==
    /\ clock # NoClock
    /\ clock' = [clock EXCEPT !.beat = Heartbeat(clock.now, clock.zone),
                              !.sent = clock.now, !.from = clock.zone["sender"]]
    /\ UNCHANGED <<vars, frame, number, schema, record>>

(* A message is read and what was read is sent.                            *)
Relay ==
    /\ frame # NoMessage /\ Deserialize(frame) # kValueUndefined
    /\ frame' = Serialize(Deserialize(frame))
    /\ UNCHANGED <<vars, clock, number, schema, record>>

(* A TXT record that is not quite what the request announced: an item is   *)
(* missing, moved to the front or repeated, or another one is added.       *)
Alter ==
    /\ record # NoRecord /\ record.changes < MaxAlterations
    /\ LET s == record.items
       IN  \E t \in {RemoveAt(s, i) : i \in DOMAIN s}
                    \cup {<<s[i]>> \o s : i \in DOMAIN s} \cup {<<s[i]>> \o RemoveAt(s, i) : i \in DOMAIN s}
                    \cup UNION {{<<x>> \o s, s \o <<x>>} : x \in OtherItems} :
              record' = [record EXCEPT !.items = t, !.changes = @ + 1]
    /\ UNCHANGED <<vars, clock, frame, number, schema>>

MCNext == (NoProbe /\ Next /\ UNCHANGED probes) \/ Advance \/ ChangeZone \/ Beat \/ Relay \/ Alter

MCSpec == MCInit /\ [][MCNext]_<<vars, probes>>

Periods == {Dur(0, 0, 2, 0), Dur(0, 2, 0, 0), Dur(1, 0, 0, 0), Dur(60, 0, 0, 0)}

(* A heartbeat counts as received within a duration exactly when the       *)
(* seconds that passed since it, across the ends of hours, days, months,   *)
(* leap years and years, are at most that many (EebusDateTimeAddDuration   *)
(* backwards, EebusDateTimeCompare).  Both ends count in their local time  *)
(* (eebus_date_time.c:187), so the window is off, by no more and no less   *)
(* than the hours between the sender's zone when it sent and the           *)
(* receiver's zone now: it is exact when these are the same, and with the  *)
(* receiver an hour ahead every heartbeat is too old for the two minutes   *)
(* that CsLpIsHeartbeatWithinDuration and EgLpIsHeartbeatWithinDuration    *)
(* ask for, and so is, once summer time begins, the last one before it.    *)
HeartbeatWindowExact ==
    clock # NoClock => \A d \in Periods :
        LET passed  == Elapsed(clock.now) - Elapsed(clock.sent)
            between == 3600 * (clock.zone["receiver"] - clock.from)
        IN  IsHeartbeatWithinDuration(clock.beat, DateTimeNow(clock.now, clock.zone["receiver"]), d)
              <=> passed + between <= DurationToSeconds(d)

(* Durations with the numbers of the clock, of either sign.                *)
Spans ==
    LET d(mo, ms) == [Dur(clock.now.day, clock.now.hour, clock.now.min, clock.now.sec)
                        EXCEPT !.months = mo, !.milliseconds = ms]
    IN  UNION {{d(mo, ms), InvertSign(d(mo, ms))} : mo \in {0, 5}, ms \in {0, 500}}

(* The text of a duration is read back as the same duration: its sign,     *)
(* months against minutes, fractions.  The exception is a fraction of a    *)
(* second alone, whose text (PT.500S) EebusDurationParse refuses.  Two     *)
(* normalised durations compare as their lengths do.                       *)
DurationTextKept ==
    clock # NoClock => \A d \in Spans :
        /\ DurationParse(DurationToString(d)) =
              IF d.seconds = 0 /\ d.milliseconds # 0 THEN NoText ELSE d
        /\ \A e \in Periods : LET diff == DurationToSeconds(d) - DurationToSeconds(e)
                               IN  d.months = 0 /\ diff # 0 =>
                                     (DurationCompare(d, e) = 1 <=> diff > 0)

(* What a connection writes is read back as the same message, whatever     *)
(* optional members it has, and a message that was accepted from a peer    *)
(* means the same when it is written again.  The two exceptions: of a      *)
(* hello with both a waiting time and a prolongation request the request   *)
(* is not read, and a PIN of fewer than 8 digits, which the writer allows, *)
(* is refused by the reader (SmeHelloDeserialize,                          *)
(* ConnectionPinInputParsePin).                                            *)
MessageReadBack ==
    /\ frame \notin {NoMessage} => LET v == Deserialize(frame)
                                 IN  v # kValueUndefined => Deserialize(Serialize(v)) = v
    /\ (frame # NoMessage /\ frame.root = "accessMethodsRequest") =>
          /\ \A v \in Others \cup Closes : Deserialize(Serialize(v)) = v
          /\ \A v \in Hellos : Deserialize(Serialize(v)) =
                IF v.waiting # <<>> THEN [v EXCEPT !.prolongation = <<>>] ELSE v
          /\ \A v \in PinInputs : Deserialize(Serialize(v)) =
                IF Len(v.pin) \in 8..16 THEN v ELSE kValueUndefined

(* The text of a scaled number denotes the number it is the text of, its   *)
(* sign included when the whole part is 0, and a number of at most four    *)
(* decimals survives the double that applications use (scaled_value.c).    *)
ScaledNumberKept ==
    number # NoNumber =>
        /\ SameNumber(ScaledValueParse(ScaledValueToString(number)), number)
        /\ number.scale >= kMaxNegativeScale =>
              SameNumber(ScaledValueWithDouble(ScaledValueToDouble(number)), number)

(* A node finds a pairing request authentic exactly when what it read from *)
(* the TXT record is, key by key, a request that was made for it with its  *)
(* secret and a curve it supports; and a request's own record is read back *)
(* as the request whatever well-formed items follow it, repeated keys      *)
(* among them (ShipPairingEntryParseTxtRecord, ShipPairingVerifyDigest).   *)
PairingRecordKept ==
    record # NoRecord =>
        LET e == EntryParseTxtRecord(record.items)
            c == record.config
        IN  /\ /\ IsPrefix(EntryTxtPairs(RequestCreate(c)), record.items)
               /\ \A i \in DOMAIN record.items : record.items[i].key # Malformed
               => e = RequestCreate(c)
            /\ \A n \in Nodes : EvaluateAuthentic(n, e) <=>
                  /\ e = RequestCreate(c)
                  /\ c.for_id = n.id /\ c.for_par = n.par /\ c.secret = n.secret /\ c.curve \in n.curves

(* What is written is read back as it was: messages, durations, numbers,   *)
(* pairing requests.                                                       *)
ReadBack == MessageReadBack /\ DurationTextKept /\ ScaledNumberKept /\ PairingRecordKept

(* The filters of a write or a read hit what they name, for every function *)
(* of the data model: a delete filter with one element removes that field  *)
(* alone though it finds it by position (EebusDataSequenceDeleteElements), *)
(* a selector with the value of an item's field selects that item alone    *)
(* though it finds the field by name and kind                              *)
(* (EebusDataSequenceSelectorsMatch), a partial write with the identifiers *)
(* of an item changes that item alone, and complete data survives JSON.    *)
(* Some type of feature stores it.  The exceptions are the functions and   *)
(* the selectors that SpineModel lists.                                    *)
FiltersHitTheirField ==
    schema # NoSchema =>
        LET f == schema.name
            selectors == schema.selectors.fields
            missed == {i \in 1..Len(selectors) : Misread(schema, i) \/ ~SelectHits(schema, i)}
        IN  /\ f \in Mispaired <=>
                  \E p \in Paths(schema.elements) \ {<<>>} : ~DeleteHits(schema, p)
            /\ IsListed(schema) => (f \in Unidentified <=> ~MergeHits(schema))
            /\ IsListed(schema) /\ IsSequence(schema.selectors) =>
                  {<<f, selectors[i].name>> : i \in missed}
                    = {e \in Skipped \cup OtherKind \cup AgainstList : e[1] = f}
            /\ JsonKept(schema)
            /\ f \in OfNoFeature <=> \A t \in FeatureTypes : f \notin GetFeatureFunctions(t)
=============================================================================
