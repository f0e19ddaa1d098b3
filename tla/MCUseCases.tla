----------------------------- MODULE MCUseCases -----------------------------
EXTENDS LimitControl, Monitoring, Ohpcf

Config(ucs, approver, conns, calls, sets) ==
    [name |-> "limit", ucs |-> ucs, approver |-> approver,
     csEntity |-> "HeatPumpAppliance", diag |-> 1, period |-> 0, hems |-> FALSE, foreign |-> FALSE,
     maxLinks |-> conns, maxCalls |-> calls, maxSets |-> sets, maxBeats |-> 0]

MCLimitConfigs ==
    {Config(<<"LPC">>, {"LPC"}, 2, 1, 0),
     [Config(<<"LPC">>, {"LPC"}, 1, 1, 1) EXCEPT !.foreign = TRUE],
     [Config(<<"LPC">>, {"LPC"}, 1, 2, 0) EXCEPT !.diag = 0],
     [Config(<<"LPC">>, {}, 2, 1, 1) EXCEPT !.diag = 2, !.hems = TRUE],
     [Config(<<"LPC", "LPP">>, {"LPC", "LPP"}, 1, 1, 0) EXCEPT !.csEntity = "Inverter"],
     Config(<<"LPC", "LPP">>, {}, 1, 1, 0),
     [Config(<<"LPC">>, {}, 1, 0, 0) EXCEPT !.diag = 2, !.period = 1, !.maxBeats = 1]}

MonitorConfig(uc, names, limited, curtails, conns, sets) ==
    [name |-> "monitor", uc |-> uc,
     entity |-> IF uc = "MPC" THEN "HeatPumpAppliance" ELSE "GridConnectionPointOfPremises", names |-> names, phases |-> {"A", "B", "C"}, limited |-> limited, curtails |-> curtails,
     maxLinks |-> conns, maxSets |-> sets]

MCMonitorConfigs ==
    {MonitorConfig("MPC", <<<<"Power", "Total">>, <<"Power", "A">>, <<"Power", "B">>>>,
                   {<<"Power", "A">>}, FALSE, 1, 2),
     MonitorConfig("MPC", <<<<"Power", "Total">>, <<"Energy", "Consumed">>, <<"Current", "C">>,
                            <<"Frequency", "All">>>>, {}, FALSE, 1, 1),
     MonitorConfig("MPC", <<<<"Power", "Total">>, <<"Voltage", "A">>, <<"Voltage", "B">>, <<"Voltage", "C">>,
                            <<"Voltage", "AB">>, <<"Voltage", "BC">>, <<"Voltage", "AC">>>>, {}, FALSE, 1, 1),
     MonitorConfig("MGCP", <<<<"Power", "Total">>, <<"Energy", "FeedIn">>>>, {}, TRUE, 2, 1),
     MonitorConfig("MGCP", <<<<"Power", "Total">>, <<"Current", "A">>, <<"Current", "B">>>>, {}, FALSE, 1, 2)}

OhpcfConfig(entity, partial, listens, conns, calls, sets) ==
    [name |-> "ohpcf", entity |-> entity, partial |-> partial, listens |-> listens, foreign |-> FALSE,
     maxLinks |-> conns, maxCalls |-> calls, maxSets |-> sets]

MCOhpcfConfigs ==
    {[OhpcfConfig("Compressor", TRUE, TRUE, 1, 2, 2) EXCEPT !.foreign = TRUE], OhpcfConfig("Compressor", TRUE, TRUE, 2, 1, 2),
     OhpcfConfig("Compressor", FALSE, TRUE, 1, 1, 1), OhpcfConfig("Compressor", TRUE, FALSE, 1, 1, 1),
     OhpcfConfig("HeatPumpAppliance", TRUE, TRUE, 1, 1, 1)}

(* What the use case of a device registered, by its actor.                 *)
Actor(x) == Head(x.useCases).actor

UseCaseOnApprove(x, cb, msg) == CsOnApprove(x, cb, msg)
UseCaseOnExpired(x, f, cnt) == CsLpWriteExpiryCallback(x, f, cnt)

UseCaseOnWrite(x, fn, cnt, u) ==
    CASE Actor(x) = "ControllableSystem" -> CsOnWrite(x, fn, cnt, u)
      [] Actor(x) = "Compressor"         -> CompressorOnDataUpdate(x, fn, cnt, u)

UseCaseOnBind(x, f) == IF Actor(x) = "ControllableSystem" THEN OnBindingAdded(x, f) ELSE x

UseCaseOnData(x, msg) ==
    CASE Actor(x) = "ControllableSystem"  -> CsOnData(x, msg)
      [] Actor(x) = "EnergyGuard"         -> EgOnData(x, msg)
      [] Actor(x) = "MonitoringAppliance" -> MaOnDataChange(x, msg)
      [] Actor(x) = "CEM"                 -> CemOnDataUpdate(x, msg)

UseCaseOnRemoved(x) ==
    CASE Actor(x) = "ControllableSystem"  -> OnRemoteEgRemoved(x)
      [] Actor(x) = "MonitoringAppliance" -> MaOnEntityRemoved(x)
      [] Actor(x) = "CEM"                 -> OnRemoteCompressorRemoved(x)
      [] OTHER                            -> x

UseCaseFeatureOf == LimitFeatureOf @@ MonitorFeatureOf @@ OhpcfFeatureOf

UseCaseInit == LimitInit \/ MonitorInit \/ OhpcfInit
UseCaseNext == LimitNext \/ MonitorNext \/ OhpcfNext
UseCaseSpec == UseCaseInit /\ [][UseCaseNext]_linkVars

(* When nothing is under way every listener, to limits, measurements or a  *)
(* compressor, was last told what the other side's data shows.  The        *)
(* exceptions are the nominal maximum of a limit, whose change is never    *)
(* told (eg_lp_events.c:239-240), and what others than this code's energy  *)
(* guard write without a value for the limit (ListenerUpToDate).           *)
ListenersToldState == ListenerUpToDate /\ MonitorListenerUpToDate /\ CemToldState

(* What an application set is what its device publishes: measured values   *)
(* in the order in which they were set, the state of the compressor; and   *)
(* the heartbeat client never outlives the remote entity it points to.     *)
StateIsKept == SetIsPublished /\ StateIsPublished /\ DiagnosisClientLive

(* For the run about a reconnection with a pending write.                  *)
MCReconnectConfigs == {[Config(<<"LPC">>, {"LPC"}, 2, 2, 0) EXCEPT !.diag = 0]}
PendingAtReconnect == links = 2 => \E f \in DOMAIN srv.pend : srv.pend[f] # None
=============================================================================
