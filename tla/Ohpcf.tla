------------------------------- MODULE Ohpcf -------------------------------
(***************************************************************************)
(* The flexibility of a heat pump's compressor (OHPCF): the compressor     *)
(* (compressor_ohpcf*.c) on the server device offers an optional power     *)
(* consumption, the energy manager (cem_ohpcf*.c) on the client device     *)
(* schedules, pauses, resumes or stops it by writing into the server's     *)
(* data.  Such a write is stored and notified first; the compressor then   *)
(* looks whether its state allows it.                                      *)
(*                                                                         *)
(* The data has at most one alternative, with one power sequence: an item  *)
(* with the fields of Blank, known by the alternative's identifier.        *)
(***************************************************************************)
EXTENDS UseCaseLink

CONSTANTS OhpcfConfigs \* what behaviours may start with: records of
                       \*   entity   the type of the server's entity
                       \*   partial  the server takes partial writes
                       \*   listens  the compressor has a listener
                       \*   foreign  the energy manager may be of another make: it writes
                       \*            an absolute start time
                       \*   maxLinks, maxCalls, maxSets  bounds

OhpcfFeatureOf == [semPs |-> "SmartEnergyManagementPs"]

kOhpcfAlternativeId == 0
Starts == {<<"relative", 1>>, <<"relative", 2>>}
AbsoluteStart == <<"absolute", 1>>

(* An offer: its power is the maximum or an approximation.                 *)
Offer(type, power) ==
    [type |-> type, power |-> power, earliest |-> 0, latest |-> 3, activeMin |-> 1,
     pausable |-> TRUE, stoppable |-> TRUE]

Offers == {Offer("powerMax", 1), Offer("power", 2)}

Blank == [state |-> NULL, start |-> NULL, powerMax |-> NULL, power |-> NULL, earliest |-> NULL,
          latest |-> NULL, activeMin |-> NULL, pausable |-> NULL, stoppable |-> NULL]

OhpcfScenario == scenario.name = "ohpcf"

-----------------------------------------------------------------------------
(* ohpcf_types.c: states and what is sent for them.  Undefined and stopped *)
(* share "invalid"; the first entry of the table wins.                     *)
ohpcf_state_lut ==
    <<<<"announced", "inactive">>, <<"scheduled", "scheduled">>, <<"running", "running">>,
      <<"paused", "paused">>, <<"stopped", "invalid">>, <<"completed", "completed">>,
      <<"undefined", "invalid">>>>

CompressorStates == {ohpcf_state_lut[k][1] : k \in DOMAIN ohpcf_state_lut}

CompressorOhpcfStateGetPowerSequenceState(state) ==
    ohpcf_state_lut[SelectInSeq(ohpcf_state_lut, LAMBDA e : e[1] = state)][2]

CompressorOhpcfStateGetStateWithPowerSequenceState(ps) ==
    LET k == SelectInSeq(ohpcf_state_lut, LAMBDA e : e[2] = ps)
    IN  IF k = 0 THEN "undefined" ELSE ohpcf_state_lut[k][1]

(* ohpcf.c and smart_energy_management_ps_types.c: the first power         *)
(* sequence of the first alternative, and its parts.                       *)
OhpcfSmartEnergyManagementPsGetAlternativeId(items) ==
    IF DOMAIN items = {} THEN NULL ELSE Min(DOMAIN items)

OhpcfSmartEnergyManagementPsGetPowerSequence(items) ==
    LET id == OhpcfSmartEnergyManagementPsGetAlternativeId(items)
    IN  IF id = NULL THEN NULL ELSE items[id]

SmartEnergyManagementPsPowerSequenceGetState(seq) == IF seq = NULL THEN NULL ELSE seq.state
SmartEnergyManagementPsPowerSequenceGetStartTime(seq) == IF seq = NULL THEN NULL ELSE seq.start

IsRelative(time) == IF time = NULL THEN FALSE ELSE time[1] = "relative"

(* The sequence of an update that was received, of whichever alternative.  *)
SmartEnergyManagementPsGetPowerSequenceWithId(u) ==
    IF u.any # NULL THEN u.any ELSE OhpcfSmartEnergyManagementPsGetPowerSequence(u.items)

-----------------------------------------------------------------------------
(* The specialisation.                                                     *)
SmartEnergyManagementPsServerUpdate(x, items) == FeatureUpdateData(x, "semPs", FullUpdate(items))

SmartEnergyManagementPsServerUpdatePartial(x, id, seq) ==
    FeatureUpdateData(x, "semPs", PartialUpdate(One(id, seq), NULL))

SmartEnergyManagementPsClientRequestData(x, call) == ReadFromRemote(x, "semPs", call)

(* Without the identifier of an alternative the sequence is merged into    *)
(* every one.                                                              *)
SmartEnergyManagementPsClientWritePartial(x, id, seq, call) ==
    LET u == IF id = NULL THEN [PartialUpdate(None, NULL) EXCEPT !.any = seq]
             ELSE PartialUpdate(One(id, seq), NULL)
    IN  IF ~SetOperations(x.ops.semPs).writePartial THEN x ELSE WriteToRemote(x, "semPs", u, call)

-----------------------------------------------------------------------------
(* The compressor.  Fields: state; asked, what its listener was asked for  *)
(* last; ignored, history: a command was stored that the state did not     *)
(* allow; sets, the calls of the application so far.                       *)
AskListener(x, what) == [x EXCEPT !.asked = what]

OnSchedule(x, start) ==
    IF x.state # "announced" \/ ~IsRelative(start) THEN x ELSE AskListener(x, <<"schedule", start>>)

OnCompressorStop(x) == AskListener([x EXCEPT !.state = "stopped"], <<"stop">>)

OnCompressorPause(x) ==
    IF x.state # "running" THEN [x EXCEPT !.ignored = TRUE]
    ELSE AskListener([x EXCEPT !.state = "paused"], <<"pause">>)

OnCompressorResume(x) ==
    IF x.state # "paused" THEN [x EXCEPT !.ignored = TRUE]
    ELSE AskListener([x EXCEPT !.state = "running"], <<"resume">>)

OnControlConsumptionProcess(x, ps) ==
    CASE ps = "invalid" -> OnCompressorStop(x)
      [] ps = "paused"  -> OnCompressorPause(x)
      [] ps = "running" -> OnCompressorResume(x)
      [] OTHER          -> [x EXCEPT !.ignored = TRUE]

CemFits(x) == UseCaseGetRemoteEntityWithAddress(x, CompressorOhpcfInfo)

CompressorOnDataUpdate(x, fn, cnt, u) ==
    LET seq == SmartEnergyManagementPsGetPowerSequenceWithId(u)
    IN  IF ~scenario.listens \/ ~CemFits(x) \/ seq = NULL THEN [x EXCEPT !.ignored = TRUE]
        ELSE IF seq.state # NULL THEN OnControlConsumptionProcess(x, seq.state)
        ELSE IF seq.start # NULL THEN OnSchedule(x, seq.start) ELSE x

AnnouncedSequence(offer) ==
    [Blank EXCEPT !.state = "inactive", !.earliest = offer.earliest, !.latest = offer.latest,
                  !.activeMin = offer.activeMin, !.pausable = offer.pausable, !.stoppable = offer.stoppable,
                  ![offer.type] = offer.power]

CompressorOhpcfAnnounce(x, offer) ==
    [SmartEnergyManagementPsServerUpdate(x, One(kOhpcfAlternativeId, AnnouncedSequence(offer)))
       EXCEPT !.state = "announced", !.ignored = FALSE]

CompressorOhpcfReportState(x, state, start) ==
    [SmartEnergyManagementPsServerUpdatePartial(
        x, kOhpcfAlternativeId,
        [Blank EXCEPT !.state = CompressorOhpcfStateGetPowerSequenceState(state), !.start = start])
       EXCEPT !.state = state, !.ignored = FALSE]

CompressorOhpcfClearProcess(x) ==
    [SmartEnergyManagementPsServerUpdate(x, None) EXCEPT !.state = "undefined", !.ignored = FALSE]

OhpcfOperationsOf(c) ==
    [semPs |-> [Operations(TRUE, TRUE) EXCEPT !.writePartial = c.partial]]

CompressorOhpcfUseCaseConstruct(c) ==
    CompressorOhpcfClearProcess(
        UseCaseConstruct(NewDevice(DOMAIN OhpcfFeatureOf, None, {}, OhpcfOperationsOf(c)),
                         c.entity, <<CompressorOhpcfInfo>>)
          @@ [state |-> "undefined", asked |-> None, ignored |-> FALSE, sets |-> 0])

(* One call of the application; it reports any state, with or without a    *)
(* start time.                                                             *)
CompressorReports ==
    /\ srv.sets < scenario.maxSets
    /\ LET x == [srv EXCEPT !.sets = @ + 1]
       IN  \/ \E offer \in Offers : ServerDoes(CompressorOhpcfAnnounce(x, offer))
           \/ \E state \in CompressorStates, start \in {NULL} \cup Starts :
                ServerDoes(CompressorOhpcfReportState(x, state, start))
           \/ ServerDoes(CompressorOhpcfClearProcess(x))

CompressorHandle(x, m) ==
    IF m.class = "usecase" THEN Met(x, m)
    ELSE HandleMessage(x, m)

-----------------------------------------------------------------------------
(* The energy manager.  Fields: told, the state and the offer that its     *)
(* listener was told last; next, the number of its next call.              *)
CompressorFits(x) == UseCaseGetRemoteEntityWithAddress(x, CemOhpcfInfo)

CemOhpcfGetPowerSequence(x) ==
    IF ~CompressorFits(x) THEN NULL ELSE OhpcfSmartEnergyManagementPsGetPowerSequence(x.cache.semPs)

(* What the state of the compressor is, going by a power sequence.         *)
StateOfSequence(seq) ==
    LET ps == SmartEnergyManagementPsPowerSequenceGetState(seq)
    IN  IF ps = NULL THEN "undefined" ELSE CompressorOhpcfStateGetStateWithPowerSequenceState(ps)

CemOhpcfGetCompressorState(x) == StateOfSequence(CemOhpcfGetPowerSequence(x))

(* The parts of an offer: the maximum power of the time slot, else the     *)
(* approximated one; the window; how the consumption may be interrupted.   *)
PowerOfSequence(seq) ==
    IF seq.powerMax # NULL THEN <<"powerMax", seq.powerMax>>
    ELSE IF seq.power # NULL THEN <<"power", seq.power>> ELSE NULL

WindowOfSequence(seq) ==
    IF NULL \in {seq.earliest, seq.latest} THEN NULL ELSE <<seq.earliest, seq.latest>>

IsPausable(seq) == seq.pausable = TRUE
IsStoppable(seq) == seq.stoppable = TRUE
ActiveDurationMin(seq) == IF seq.activeMin = NULL THEN 0 ELSE seq.activeMin

(* CemOhpcfGetAnnouncedOptionalPowerConsumption, NULL if it is incomplete. *)
OfferOfSequence(seq) ==
    LET power == PowerOfSequence(seq)
        window == WindowOfSequence(seq)
    IN  IF seq = NULL THEN NULL
        ELSE IF NULL \in {power, window} THEN NULL
        ELSE [type |-> power[1], power |-> power[2], earliest |-> window[1], latest |-> window[2],
              activeMin |-> ActiveDurationMin(seq), pausable |-> IsPausable(seq),
              stoppable |-> IsStoppable(seq)]

OnRemoteCompressorAddedHandleSmartEnergyManagementPs(x) ==
    SmartEnergyManagementPsClientRequestData(
        EnsureBound(EnsureSubscribed(x, "SmartEnergyManagementPs"), "SmartEnergyManagementPs"), NULL)

OnClearProcess(x) == [x EXCEPT !.told.state = "undefined"]

OnOptionalPowerConsumptionReceive(x) ==
    LET offer == OfferOfSequence(CemOhpcfGetPowerSequence(x))
    IN  IF offer = NULL THEN x ELSE [x EXCEPT !.told.offer = offer]

OnCompressorStateReport(x, state) ==
    LET start == SmartEnergyManagementPsPowerSequenceGetStartTime(CemOhpcfGetPowerSequence(x))
    IN  IF state = "scheduled" /\ ~IsRelative(start) THEN x ELSE [x EXCEPT !.told.state = state]

CemOnDataUpdate(x, m) ==
    LET state == CemOhpcfGetCompressorState(x)
    IN  IF ~CompressorFits(x) THEN x
        ELSE IF state = "undefined" THEN OnClearProcess(x)
        ELSE OnCompressorStateReport(OnOptionalPowerConsumptionReceive(x), state)

OnRemoteCompressorAdded(x) ==
    IF CompressorFits(x) THEN OnRemoteCompressorAddedHandleSmartEnergyManagementPs(x) ELSE x

CemHandle(x, m) ==
    IF m.class = "usecase" THEN OnRemoteCompressorAdded(Met(x, m))
    ELSE HandleMessage(x, m)

CemNothingTold == [state |-> "undefined", offer |-> NULL]

OnRemoteCompressorRemoved(x) == [x EXCEPT !.told = CemNothingTold]

CemOhpcfReadSmartData(x, call) ==
    IF ~CompressorFits(x) THEN x ELSE SmartEnergyManagementPsClientRequestData(x, call)

CemOhpcfScheduleOptionalPowerConsumption(x, start, call) ==
    IF CemOhpcfGetPowerSequence(x) = NULL THEN x
    ELSE SmartEnergyManagementPsClientWritePartial(x, NULL, [Blank EXCEPT !.start = start], call)

CemOhpcfWriteState(x, ps, call) ==
    LET id == OhpcfSmartEnergyManagementPsGetAlternativeId(x.cache.semPs)
    IN  IF ~CompressorFits(x) \/ id = NULL THEN x
        ELSE SmartEnergyManagementPsClientWritePartial(x, id, [Blank EXCEPT !.state = ps], call)

CemOhpcfWriteStopCommand(x, call) ==
    IF CemOhpcfGetCompressorState(x) = "undefined" THEN x ELSE CemOhpcfWriteState(x, "invalid", call)

CemOhpcfWritePauseCommand(x, call) ==
    IF CemOhpcfGetCompressorState(x) # "running" THEN x ELSE CemOhpcfWriteState(x, "paused", call)

CemOhpcfWriteResumeCommand(x, call) ==
    IF CemOhpcfGetCompressorState(x) # "paused" THEN x ELSE CemOhpcfWriteState(x, "running", call)

CemOhpcfUseCaseConstruct(c) ==
    UseCaseConstruct(NewDevice(DOMAIN OhpcfFeatureOf, None, {1}, OhpcfOperationsOf(c)),
                     "CEM", <<CemOhpcfInfo>>) @@ [told |-> CemNothingTold, next |-> 1]

(* A call that changes nothing is left out.                                *)
CemCalls ==
    /\ cli.next <= scenario.maxCalls
    /\ \E y \in {CemOhpcfReadSmartData(cli, NULL), CemOhpcfWriteStopCommand(cli, NULL),
                 CemOhpcfWritePauseCommand(cli, NULL), CemOhpcfWriteResumeCommand(cli, NULL)}
                \cup {CemOhpcfScheduleOptionalPowerConsumption(cli, start, NULL) :
                          start \in Starts \cup IF scenario.foreign THEN {AbsoluteStart} ELSE {}} :
         y # cli /\ ClientDoes([y EXCEPT !.next = @ + 1])

-----------------------------------------------------------------------------
OhpcfInit ==
    /\ scenario \in OhpcfConfigs
    /\ srv = CompressorOhpcfUseCaseConstruct(scenario) /\ cli = CemOhpcfUseCaseConstruct(scenario)
    /\ up = FALSE /\ links = 0

CompressorReceives == ServerReceives(CompressorHandle(srv, Head(cli.out)))
CemReceives == ClientReceives(CemHandle(cli, Head(srv.out)))

OhpcfNext ==
    /\ OhpcfScenario
    /\ \/ Connect \/ Disconnect
       \/ CompressorReceives \/ CemReceives \/ CompressorReports \/ CemCalls

-----------------------------------------------------------------------------
(* When nothing is under way the energy manager's listener was last told   *)
(* the state and the offer that the compressor's data shows, however       *)
(* partial the notifications were (cem_ohpcf_events.c takes both from the  *)
(* merged copy); a schedule without start time is never told.              *)
CemToldState ==
    OhpcfScenario /\ Quiet /\ CompressorFits(cli) =>
        LET seq == OhpcfSmartEnergyManagementPsGetPowerSequence(srv.data.semPs)
            state == StateOfSequence(seq)
        IN  /\ (state = "scheduled" => IsRelative(seq.start)) => cli.told.state = state
            /\ state # "undefined" /\ OfferOfSequence(seq) # NULL => cli.told.offer = OfferOfSequence(seq)

(* The data shows the state that the compressor's use case is in, as long  *)
(* as no command was stored that this state did not allow since the        *)
(* application last reported (compressor_ohpcf_events.c checks a command   *)
(* only after it was stored).                                              *)
StateIsPublished ==
    OhpcfScenario /\ ~srv.ignored =>
        LET ps == SmartEnergyManagementPsPowerSequenceGetState(
                     OhpcfSmartEnergyManagementPsGetPowerSequence(srv.data.semPs))
        IN  IF ps = NULL THEN srv.state = "undefined"
            ELSE ps = CompressorOhpcfStateGetPowerSequenceState(srv.state)
=============================================================================
