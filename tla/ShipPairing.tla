---------------------------- MODULE ShipPairing ----------------------------
(***************************************************************************)
(* The evaluator of shippairing requests (ship_pairing.c): which requests  *)
(* are accepted, when addCu-requests are processed at all, the timer that  *)
(* makes them processed again, and the reports to the node that starts and *)
(* stops browsing for requests. The threads that call it:                  *)
(*                                                                         *)
(*   - "browser", which evaluates the requests it has found;               *)
(*   - "node", a connection's thread that tells that the trusted peer has  *)
(*     connected or is closing its connection;                             *)
(*   - "app", the integrator;                                              *)
(*   - "timer", the callback of the reactivation timer.                    *)
(*                                                                         *)
(* A section under the state mutex is one step. timer_mutex is held over   *)
(* several of them, by the thread that restarts the timer.                 *)
(***************************************************************************)
EXTENDS Naturals, Sequences, SequencesExt

CONSTANTS
    Digests,      \* digests of requests
    Secrets,      \* secrets of the node
    MadeWith,     \* the secret a digest was calculated with
    CurveOf,      \* the curve its request names
    Curves,
    None,
    RingSize,     \* SHIP_PAIRING_RING_BUFFER_SIZE
    Calls,        \* the integrator's operations that this instance uses
    Prompts,      \* whether the timer is slower than the calls: TRUE, FALSE or both
    MaxCalls      \* bound: calls of all threads

ASSUME RingAssumption == RingSize \in Nat \ {0}
ASSUME PairingAssumption ==
    /\ None \notin Digests \cup Secrets \cup {"browser", "node", "app", "timer"}
    /\ MadeWith \in [Digests -> Secrets] /\ CurveOf \in [Digests -> Curves]
    /\ Prompts \subseteq BOOLEAN /\ MaxCalls \in Nat

VARIABLES
    ring,                  \* ring_buffer: entries and next
    secret,
    supported_curves,
    add_cu_activated,
    activation_revision,
    timer_restart_in_progress,
    timer_mutex,           \* the thread that holds it
    timer,                 \* reactivation_timer: "off", "armed" or "expired"
    reporting_enabled,
    reported_enabled,
    at,                    \* where each thread is
    local,                 \* the timer callback's snapshot, the reporter's argument
    browsing,              \* the node: whether it browses for requests
    registered,            \* the node: whether it has a current devZ (remote_fingerprint)
    connection,            \* the node: the connection to the current devZ
    saved,                 \* the integrator's copy of the ring buffer
    accepted,              \* history: digests accepted or restored, the oldest first
    asked,                 \* history: what the integrator asked for, if that still holds
    prompt,                \* whether the timer is slower than the calls (never changes)
    count                  \* calls so far

state == <<ring, secret, supported_curves, add_cu_activated, activation_revision,
           timer_restart_in_progress>>
node == <<registered, connection>>
report == <<reporting_enabled, reported_enabled, browsing>>
vars == <<state, report, timer_mutex, timer, at, local, node, saved, accepted, asked, prompt, count>>

Threads == {"browser", "node", "app", "timer"}
Callers == Threads \ {"timer"}
Places == {"idle", "stop", "start", "finish", "report", "call", "recheck", "register",
           "notify", "begin", "ask", "decide"}

Ring == [entries : [1..RingSize -> Digests \cup {None}], next : 0..RingSize]
NoRing == [entries |-> [i \in 1..RingSize |-> None], next |-> 0]

\* The place a new digest goes to, and the place of the last one, counted from one.
NextIndex(r) == IF r.next = 0 THEN 1 ELSE r.next
CurrentIndex(r) == IF NextIndex(r) = 1 THEN RingSize ELSE NextIndex(r) - 1

HasTrustedPeer(r) == r.next # 0 /\ r.entries[CurrentIndex(r)] # None

IsKnownDigest(r, d) == \E i \in 1..RingSize : r.entries[i] = d

\* Mutant: the last place is used again and again.
AddDigestNoWrap(r, d) ==
    [entries |-> [r.entries EXCEPT ![NextIndex(r)] = d],
     next |-> IF NextIndex(r) >= RingSize THEN RingSize ELSE NextIndex(r) + 1]
AddDigest(r, d) ==
    [entries |-> [r.entries EXCEPT ![NextIndex(r)] = d],
     next |-> IF NextIndex(r) >= RingSize THEN 1 ELSE NextIndex(r) + 1]

IsEnabled == secret # None /\ add_cu_activated

Init ==
    /\ ring = NoRing
    /\ secret = None
    /\ supported_curves = Curves
    /\ add_cu_activated = TRUE
    /\ activation_revision = 0
    /\ timer_restart_in_progress = FALSE
    /\ timer_mutex = None
    /\ timer = "off"
    /\ reporting_enabled = FALSE /\ reported_enabled = FALSE
    /\ at = [t \in Threads |-> "idle"]
    /\ local = [revision |-> 0, available |-> FALSE, enabled |-> FALSE]
    /\ browsing = FALSE
    /\ registered = FALSE /\ connection = "no"
    /\ saved = [ring |-> NoRing, accepted |-> <<>>]
    /\ accepted = <<>>
    /\ asked = "none"
    /\ prompt \in Prompts
    /\ count = 0

-----------------------------------------------------------------------------
Goto(t, place) == at' = [at EXCEPT ![t] = place]

\* A thread begins a call.
Called(t) == at[t] = "idle" /\ count < MaxCalls /\ count' = count + 1

\* The change of the activation that every operation makes, asked for by the integrator or not.
Activation(on, by_integrator) ==
    /\ add_cu_activated' = on
    /\ activation_revision' = activation_revision + 1
    /\ asked' = IF by_integrator THEN (IF on THEN "on" ELSE "off")
                ELSE IF on /\ asked = "on" THEN "on" ELSE "none"

-----------------------------------------------------------------------------
(* Evaluate.                                                               *)

\* A digest passes steps 1 to 3: relevance, novelty and authenticity.
Acceptable(d) ==
    /\ CurveOf[d] \in supported_curves /\ add_cu_activated /\ secret # None
    /\ ~IsKnownDigest(ring, d)
    /\ MadeWith[d] = secret

EvaluateAccepts(d) ==
    /\ Called("browser") /\ timer_mutex = None
    /\ Acceptable(d)
    /\ ring' = AddDigest(ring, d)
    /\ accepted' = Append(accepted, d)
    /\ Activation(FALSE, FALSE)
    /\ timer_restart_in_progress' = TRUE
    /\ timer_mutex' = "browser"
    /\ Goto("browser", "stop")
    /\ UNCHANGED <<secret, supported_curves, report, timer, local, node, saved, prompt>>

EvaluateRejects(d) ==
    /\ Called("browser") /\ timer_mutex = None
    /\ ~Acceptable(d)
    /\ UNCHANGED <<state, report, timer_mutex, timer, at, local, node, saved, accepted, asked, prompt>>

\* The node registers the fingerprint of an accepted request: the current devZ is another one
\* and has no connection yet, or it has asked again.
NodeRegisters ==
    /\ at["browser"] = "register"
    /\ registered' = TRUE /\ connection' \in {"no", connection}
    /\ Goto("browser", "idle")
    /\ UNCHANGED <<state, report, timer_mutex, timer, local, saved, accepted, asked, prompt, count>>

-----------------------------------------------------------------------------
(* ShipPairingRestartReactivationTimer, by the thread that holds           *)
(* timer_mutex.                                                            *)

\* EEBUS_TIMER_STOP waits for the callback.
RestartStops(t) ==
    /\ at[t] = "stop" /\ at["timer"] = "idle"
    /\ timer' = "off"
    /\ Goto(t, "start")
    /\ UNCHANGED <<state, report, timer_mutex, local, node, saved, accepted, asked, prompt, count>>

RestartStarts(t) ==
    /\ at[t] = "start"
    /\ timer' = IF HasTrustedPeer(ring) THEN "armed" ELSE timer
    /\ Goto(t, "finish")
    /\ UNCHANGED <<state, report, timer_mutex, local, node, saved, accepted, asked, prompt, count>>

RestartFinishes(t) ==
    /\ at[t] = "finish"
    /\ timer_restart_in_progress' = FALSE
    /\ timer_mutex' = None
    /\ Goto(t, "report")
    /\ UNCHANGED <<ring, secret, supported_curves, add_cu_activated, activation_revision,
                   report, timer, local, node, saved, accepted, asked, prompt, count>>

-----------------------------------------------------------------------------
(* ShipPairingReportEnabled: one reporter at a time, who also delivers     *)
(* what changes meanwhile.                                                 *)

AfterReport(t) == IF t = "browser" THEN "register" ELSE "idle"

\* One round of the reporter's loop: deliver the change, or stop being the reporter.
Round(t) ==
    IF IsEnabled = reported_enabled
    THEN /\ reporting_enabled' = FALSE
         /\ Goto(t, AfterReport(t))
         /\ UNCHANGED <<reported_enabled, local>>
    ELSE /\ reporting_enabled' = TRUE
         /\ reported_enabled' = IsEnabled
         /\ local' = [local EXCEPT !.enabled = IsEnabled]
         /\ Goto(t, "call")

ReportBegins(t) ==
    /\ at[t] = "report"
    /\ IF reporting_enabled
       THEN Goto(t, AfterReport(t)) /\ UNCHANGED <<reporting_enabled, reported_enabled, local>>
       ELSE Round(t)
    /\ UNCHANGED <<state, browsing, timer_mutex, timer, node, saved, accepted, asked, prompt, count>>

\* ShipNodeOnPairingEnabledCallback, without the mutex.
ReportCalls(t) ==
    /\ at[t] = "call"
    /\ browsing' = local.enabled
    /\ Goto(t, "recheck")
    /\ UNCHANGED <<state, reporting_enabled, reported_enabled, timer_mutex, timer, local,
                   node, saved, accepted, asked, prompt, count>>

\* Mutant: the reporter leaves after one call.
ReportEndsAtOnce(t) ==
    /\ at[t] = "recheck"
    /\ reporting_enabled' = FALSE
    /\ Goto(t, AfterReport(t))
    /\ UNCHANGED <<state, reported_enabled, browsing, timer_mutex, timer, local, node,
                   saved, accepted, asked, prompt, count>>

ReportRechecks(t) ==
    /\ at[t] = "recheck"
    /\ Round(t)
    /\ UNCHANGED <<state, browsing, timer_mutex, timer, node, saved, accepted, asked, prompt, count>>

-----------------------------------------------------------------------------
(* The reactivation timer. pthread_cond_timedwait may return early, so it  *)
(* fires at any time unless prompt: then not before the call that has      *)
(* started it has returned, nor before the node has registered the request *)
(* or released the connection that the call was about.                     *)

TimerFires ==
    /\ timer = "armed" /\ at["timer"] = "idle"
    /\ prompt => /\ \A t \in Callers : at[t] # "finish"
                 /\ at["browser"] \in {"idle", "stop"}
                 /\ connection = "closing" => at["node"] \in {"notify", "stop"}
    /\ timer' = "expired"
    /\ Goto("timer", "begin")
    /\ UNCHANGED <<state, report, timer_mutex, local, node, saved, accepted, asked, prompt, count>>

TimeoutBegins ==
    /\ at["timer"] = "begin"
    /\ IF timer_restart_in_progress
       THEN Goto("timer", "idle") /\ UNCHANGED local
       ELSE /\ Goto("timer", "ask")
            /\ local' = [local EXCEPT !.revision = activation_revision]
    /\ UNCHANGED <<state, report, timer_mutex, timer, node, saved, accepted, asked, prompt, count>>

\* ShipNodeIsPairingMessageExchangeAvailable: a connection counts until the loop has released it.
TimeoutAsks ==
    /\ at["timer"] = "ask"
    /\ local' = [local EXCEPT !.available = connection # "no"]
    /\ Goto("timer", "decide")
    /\ UNCHANGED <<state, report, timer_mutex, timer, node, saved, accepted, asked, prompt, count>>

\* Mutant: the snapshot is trusted.
TimeoutDecidesStale ==
    /\ at["timer"] = "decide"
    /\ Activation(~local.available, FALSE)
    /\ Goto("timer", "report")
    /\ UNCHANGED <<ring, secret, supported_curves, timer_restart_in_progress, report, timer_mutex,
                   timer, local, node, saved, accepted, count, prompt>>

TimeoutDecides ==
    /\ at["timer"] = "decide"
    /\ IF local.revision # activation_revision \/ timer_restart_in_progress
       THEN /\ Goto("timer", "idle")
            /\ UNCHANGED <<add_cu_activated, activation_revision, asked>>
       ELSE /\ Activation(~local.available, FALSE)
            /\ Goto("timer", "report")
    /\ UNCHANGED <<ring, secret, supported_curves, timer_restart_in_progress, report, timer_mutex,
                   timer, local, node, saved, accepted, count, prompt>>

-----------------------------------------------------------------------------
(* The node tells of message exchange with the current devZ: when its      *)
(* connection is established, and when it is about to close.               *)

NodeConnects ==
    /\ Called("node") /\ registered /\ connection = "no"
    /\ connection' = "yes"
    /\ Goto("node", "notify")
    /\ UNCHANGED <<registered, state, report, timer_mutex, timer, local, saved, accepted, asked, prompt>>

NodeCloses ==
    /\ Called("node") /\ connection = "yes"
    /\ connection' = "closing"
    /\ Goto("node", "notify")
    /\ UNCHANGED <<registered, state, report, timer_mutex, timer, local, saved, accepted, asked, prompt>>

\* The node's loop releases the connection; the close is posted after the notification.
NodeReleases ==
    /\ connection = "closing" /\ at["node"] = "idle"
    /\ connection' = "no"
    /\ UNCHANGED <<registered, state, report, timer_mutex, timer, at, local, saved, accepted, asked, prompt, count>>

\* Mutant: the timer goes on as it was.
NotifyMessageExchangeOnly ==
    /\ at["node"] = "notify" /\ timer_mutex = None
    /\ Activation(~HasTrustedPeer(ring) /\ add_cu_activated, FALSE)
    /\ Goto("node", "report")
    /\ UNCHANGED <<ring, secret, supported_curves, timer_restart_in_progress, timer_mutex,
                   report, timer, local, node, saved, accepted, count, prompt>>

NotifyMessageExchange ==
    /\ at["node"] = "notify" /\ timer_mutex = None
    /\ Activation(~HasTrustedPeer(ring) /\ add_cu_activated, FALSE)
    /\ timer_restart_in_progress' = TRUE
    /\ timer_mutex' = "node"
    /\ Goto("node", "stop")
    /\ UNCHANGED <<ring, secret, supported_curves, report, timer, local, node, saved, accepted, count, prompt>>

-----------------------------------------------------------------------------
(* The integrator.                                                         *)

Call(name) == name \in Calls /\ Called("app")

ActivateAddCu ==
    /\ Call("activate")
    /\ Activation(TRUE, TRUE)
    /\ Goto("app", "report")
    /\ UNCHANGED <<ring, secret, supported_curves, timer_restart_in_progress, report, timer_mutex,
                   timer, local, node, saved, accepted, prompt>>

DeactivateAddCu ==
    /\ Call("deactivate")
    /\ Activation(FALSE, TRUE)
    /\ Goto("app", "report")
    /\ UNCHANGED <<ring, secret, supported_curves, timer_restart_in_progress, report, timer_mutex,
                   timer, local, node, saved, accepted, prompt>>

SetSecret(s) ==
    /\ Call("secret")
    /\ secret' = s
    /\ Goto("app", "report")
    /\ UNCHANGED <<ring, supported_curves, add_cu_activated, activation_revision,
                   timer_restart_in_progress, report, timer_mutex, timer, local, node,
                   saved, accepted, asked, prompt>>

SetSupportedCurves(cs) ==
    /\ Call("curves")
    /\ supported_curves' = cs
    /\ UNCHANGED <<ring, secret, add_cu_activated, activation_revision, timer_restart_in_progress,
                   report, timer_mutex, timer, at, local, node, saved, accepted, asked, prompt>>

GetRingBuffer ==
    /\ Call("ring")
    /\ saved' = [ring |-> ring, accepted |-> accepted]
    /\ UNCHANGED <<state, report, timer_mutex, timer, at, local, node, accepted, asked, prompt>>

\* A ring buffer that is not valid is replaced by an empty one.
SetRingBuffer(valid) ==
    LET r == IF valid THEN saved.ring ELSE NoRing
    IN  /\ Call("ring") /\ timer_mutex = None
        /\ ring' = r
        /\ accepted' = IF valid THEN saved.accepted ELSE <<>>
        /\ Activation(~HasTrustedPeer(r), FALSE)
        /\ timer_restart_in_progress' = TRUE
        /\ timer_mutex' = "app"
        /\ Goto("app", "stop")
        /\ UNCHANGED <<secret, supported_curves, report, timer, local, node, saved, prompt>>

-----------------------------------------------------------------------------
Restart(t) == RestartStops(t) \/ RestartStarts(t) \/ RestartFinishes(t)
ReportEnabled(t) == ReportBegins(t) \/ ReportCalls(t) \/ ReportRechecks(t)
Timeout == TimeoutBegins \/ TimeoutAsks \/ TimeoutDecides

Browser == (\E d \in Digests : EvaluateAccepts(d) \/ EvaluateRejects(d)) \/ NodeRegisters
Node == NodeConnects \/ NodeCloses \/ NodeReleases \/ NotifyMessageExchange
Integrator ==
    \/ ActivateAddCu \/ DeactivateAddCu \/ GetRingBuffer
    \/ \E s \in Secrets \cup {None} : SetSecret(s)
    \/ \E cs \in SUBSET Curves : SetSupportedCurves(cs)
    \/ \E valid \in BOOLEAN : SetRingBuffer(valid)

Next ==
    \/ Browser \/ Node \/ Integrator \/ TimerFires \/ Timeout
    \/ \E t \in Callers : Restart(t)
    \/ \E t \in Threads : ReportEnabled(t)

Spec == Init /\ [][Next]_vars

\* Every thread goes on with the call it is in, the loop releases what is closed and the timer
\* fires. Nobody has to make a call.
Fairness ==
    /\ \A t \in Callers : WF_vars(Restart(t))
    /\ \A t \in Threads : WF_vars(ReportEnabled(t))
    /\ WF_vars(NodeRegisters) /\ WF_vars(NodeReleases) /\ WF_vars(NotifyMessageExchange)
    /\ WF_vars(TimerFires) /\ WF_vars(Timeout)

LiveSpec == Spec /\ Fairness

-----------------------------------------------------------------------------
(* Properties.                                                             *)

TypeOK ==
    /\ ring \in Ring
    /\ secret \in Secrets \cup {None} /\ supported_curves \subseteq Curves
    /\ {add_cu_activated, timer_restart_in_progress, reporting_enabled, reported_enabled,
        browsing, registered, prompt} \subseteq BOOLEAN
    /\ activation_revision \in Nat
    /\ timer_mutex \in Callers \cup {None}
    /\ timer \in {"off", "armed", "expired"}
    /\ at \in [Threads -> Places]
    /\ local \in [revision : Nat, available : BOOLEAN, enabled : BOOLEAN]
    /\ connection \in {"no", "yes", "closing"}
    /\ asked \in {"none", "on", "off"}
    /\ saved \in [ring : Ring, accepted : Seq(Digests)] /\ accepted \in Seq(Digests)

\* Threads that have changed the state and are yet to report it.
Changing == {t \in Threads : at[t] \in {"stop", "start", "finish", "report"}}

\* "reports only transitions, so that a caller can act on it by starting and stopping work"
\* (ShipPairingReportEnabled): whatever threads change and report at once, once they are done
\* the node browses if and only if a request could be accepted.
BrowsesIffEnabled ==
    Changing = {} /\ ~reporting_enabled => browsing = IsEnabled

\* "A digest already in the ring buffer is a replay" (EvaluateLocked): none of the last
\* RingSize digests that were accepted or restored is accepted again.
LastAccepted == {accepted[i] : i \in {j \in DOMAIN accepted : j + RingSize > Len(accepted)}}
NoReplay ==
    [][\A d \in Digests : accepted' = Append(accepted, d) => d \notin LastAccepted]_vars

\* "Index of the entry of the currently trusted node" (ShipPairingCurrentIndex): it is the one
\* of the last request that was accepted, also where the buffer wraps.
CurrentIsLast ==
    IF accepted = <<>> THEN ~HasTrustedPeer(ring)
    ELSE HasTrustedPeer(ring) /\ ring.entries[CurrentIndex(ring)] = Last(accepted)

\* "the trusted node is reachable after all, so the pairing stands and no replacement is
\* accepted" (NotifyMessageExchange): while the trusted peer is connected, and its connection
\* has been told of, addCu-requests are processed only if the integrator asked for it. The
\* timer's stale decision must not undo that.
PairingStands ==
    connection = "yes" /\ HasTrustedPeer(ring) /\ at["node"] # "notify" /\ add_cu_activated => asked = "on"

\* "no message exchange for 15 minutes, processing addCu-requests again": a node that is paired
\* and has no connection does not stay deaf, the timer is running or its callback decides,
\* unless the integrator has switched processing off.
WillReactivate ==
    /\ HasTrustedPeer(ring) /\ connection = "no" /\ ~add_cu_activated
    /\ timer_mutex = None /\ at["node"] # "notify" /\ asked # "off" /\ prompt
    => timer = "armed" \/ at["timer"] \in {"begin", "ask", "decide"}

\* The pairing that stands is the last that was accepted, no stale timeout undoes it, and when
\* its peer is lost the evaluator is going to process requests again.
PairingKept == PairingStands /\ CurrentIsLast /\ WillReactivate

\* And it becomes so in the end: lost for good is the peer, not the node.
Reactivated ==
    HasTrustedPeer(ring) /\ ~add_cu_activated /\ prompt ~>
        add_cu_activated \/ connection = "yes" \/ asked = "off" \/ ~HasTrustedPeer(ring)
=============================================================================
