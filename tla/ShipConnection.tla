--------------------------- MODULE ShipConnection ---------------------------
(***************************************************************************)
(* One end of a SHIP connection (src/ship/ship_connection/ship_connection.c,*)
(* client.c and server.c): the connection thread with its state machine,   *)
(* the message queue it sleeps on, the three timers that post into that    *)
(* queue, the callers that do so from other threads (the websocket's       *)
(* callback, an application's trust decision, a SPINE write) and the       *)
(* Stop/Destruct sequence of the ship node.                                *)
(*                                                                         *)
(* A handler of the C code is an operator from a connection (a record) to  *)
(* the connection it leaves behind; an action is one run of a handler by   *)
(* the thread that calls it.  A handler that waits for messages is two     *)
(* steps, the way in and the way out of EEBUS_QUEUE_RECEIVE, so that every *)
(* other thread can run while it sleeps.  A handler that would block (a    *)
(* timer whose callback is stuck on a full queue cannot be stopped) is an  *)
(* action that is not enabled.                                             *)
(***************************************************************************)
EXTENDS Naturals, Sequences, FiniteSets

CONSTANTS
  Roles,       \* the roles to start from, a subset of {"client", "server"}
  Frames,      \* what a peer may send
  Capacity,    \* kQueueMaxMsg, 60 in the code
  InputRoom,   \* bound: a caller posts only if fewer messages than this are in the queue
               \* or on their way into it (above Capacity, so that callers sleep in a
               \* full queue; below it, so that no timer ever does)
  MaxInputs,   \* bound: how many inputs from outside the run allows ...
  InputCost,   \* ... and whether an input counts (1) or not (0)
  WriteResults, \* whether WEBSOCKET_WRITE takes a frame: TRUE, FALSE or both
  KeepOutput   \* whether out records the frames written (to compose two ends)

\* A frame, abstracted to what the handlers look at: val and sub are the
\* phase and "waiting" or "prolongationRequest" of a hello, the type and the
\* version of a protocol handshake, the state and permission of a PIN frame.
Frame(kind, val, sub) == [kind |-> kind, val |-> val, sub |-> sub]

Kinds ==
  {"none", "init", "hello", "prot", "protErr", "pin", "accessReq", "access", "data",
   "close"}
Vals ==
  {"none", "ok", "bad", "ready", "pending", "aborted", "announceMax", "select", "pinOk",
   "required", "optional", "local", "A", "B", "announce", "confirm"}
Subs ==
  {"none", "zero", "short", "long", "prolong", "max", "lower", "higher", "busy", "ok"}

FrameType == [kind : Kinds, val : Vals, sub : Subs]

ASSUME ConnectionAssumption ==
  /\ Roles \subseteq {"client", "server"}
  /\ Frames \subseteq FrameType
  /\ Capacity \in Nat \ {0}
  /\ InputRoom \in Nat \ {0}
  /\ MaxInputs \in Nat
  /\ InputCost \in {0, 1}
  /\ WriteResults \subseteq BOOLEAN
  /\ KeepOutput \in BOOLEAN

VARIABLES
  sc,          \* the connection
  budget       \* inputs that are left (bound)

vars == <<sc, budget>>

NoFrame == Frame("none", "none", "none")
Msg(type, frame) == [type |-> type, frame |-> frame]
NoMsg == Msg("None", NoFrame)
Post(type) == Msg(type, NoFrame)
Data(frame) == Msg("DataReceived", frame)

TrustTypes == {"TrustGranted", "TrustDenied"}
MsgTypes ==
  {"DataReceived", "SpineDataToSend", "Timeout", "WebsocketError",
   "WebsocketClose", "Cancel"} \cup TrustTypes

Timers == {"wait_for_ready", "send_prolongation_request", "prolongation_request_reply"}

\* idle, running; firing: the callback is stuck on a full queue and the timer's
\* mutex is held; fired: the callback is done, its thread not; expired: the
\* thread is done but not joined, so Start does nothing; joined: Stop came later.
TimerStates == {"idle", "running", "firing", "fired", "expired", "joined"}
Expired(s) == s \in {"expired", "joined"}

\* The classes of a waiting duration that the code tells apart: "short" is
\* under tHelloProlongThrInc.
Waitings == {"zero", "short", "long"}

PendingStates == {"SmeHelloStatePendingListen", "SmeHelloStatePendingTimeout"}
AbortStates ==
  {"SmeHelloStateAbort", "SmeHelloStateAbortDone", "SmeHelloStateRemoteAbortDone",
   "SmeHelloStateRejected", "SmeHelloStateReadyTimeout"}
HelloOkStates ==
  {"SmeHelloStateOk", "SmeProtHStateClientInit", "SmeProtHStateClientListenChoice",
   "SmeProtHStateServerInit", "SmeProtHStateServerListenProposal",
   "SmeProtHStateServerListenConfirm"}
ProtOkStates ==
  {"SmeProtHStateClientOk", "SmeProtHStateServerOk", "SmePinStateCheckInit",
   "SmePinStateCheckListen", "SmePinStateCheckBusyWait"}
PinOkStates == {"SmePinStateCheckOk", "SmeStateApproved", "DataExchange"}
ReadyStates == {"SmeHelloStateReadyInit", "SmeHelloStateReadyListen"}
CmiStates ==
  {"CmiStateClientSend", "CmiStateClientWait", "CmiStateClientEvaluate",
   "CmiStateServerWait", "CmiStateServerEvaluate"}
SmeStates ==
  CmiStates \cup {"SmeHelloState", "SmeHelloStatePendingInit", "SmeStateError"}
    \cup PendingStates \cup AbortStates \cup ReadyStates \cup HelloOkStates
    \cup ProtOkStates \cup PinOkStates

\* The states whose handler starts in ShipConnectionReceive.
ListenStates ==
  {"CmiStateClientWait", "CmiStateServerWait", "SmeHelloStateReadyListen",
   "SmeHelloStatePendingListen", "SmeProtHStateClientListenChoice",
   "SmeProtHStateServerListenProposal", "SmeProtHStateServerListenConfirm",
   "SmePinStateCheckListen"}

Milestones == {"init", "ready", "announceMax", "select", "pin"}

\* What a frame contributes to a handshake (ghost).
Milestone(f) ==
  CASE f.kind = "init" /\ f.val = "ok" -> {"init"}
    [] f.kind = "hello" /\ f.val = "ready" -> {"ready"}
    [] f.kind = "prot" /\ f.val = "announceMax" -> {"announceMax"}
    [] f.kind = "prot" /\ f.val = "select" -> {"select"}
    [] f.kind = "pin" /\ f.val \in {"none", "pinOk"} -> {"pin"}
    [] OTHER -> {}

Connection ==
  [role : {"client", "server"},
   sme_state : SmeStates,
   pc : {"idle", "run", "wait", "got", "exited"},   \* the connection thread
   cur : [type : MsgTypes \cup {"None"}, frame : FrameType],  \* message in hand
   queue : Seq([type : MsgTypes, frame : FrameType]),
   timer : [Timers -> TimerStates],
   reply_timeout : Waitings,        \* timeout_ms of the reply timer
   last_received_waiting_value : Waitings,
   remote_hello_ready : BOOLEAN,
   is_access_methods_req_sent : BOOLEAN,
   remote_ship_id : Vals \cup {""}, \* "" until the peer has told it
   cancel : BOOLEAN,
   shutdown_once : BOOLEAN,
   snd : [{"websocket", "app", "spine"} ->     \* callers stuck in a full queue
            [type : MsgTypes, frame : FrameType] \cup {NoMsg}],
   stop_pc : {"none", "send", "join", "done", "destructed"},  \* Stop's caller
   blocked : BOOLEAN,               \* a handler cannot get past TIMER_STOP
   out : Seq(FrameType),            \* frames written, if KeepOutput
   trusted : BOOLEAN,               \* ghost: the peer was found to be trusted
   said : SUBSET Milestones,        \* ghost: milestones written
   heard : SUBSET Milestones,       \* ghost: milestones read from the queue
   closed_reports : Nat]            \* ghost: HandleConnectionClosed calls

\* ShipConnectionConstruct.
Construct(role) ==
  [role |-> role,
   sme_state |-> IF role = "server" THEN "CmiStateServerWait" ELSE "CmiStateClientSend",
   pc |-> "idle", cur |-> NoMsg, queue |-> <<>>,
   timer |-> [t \in Timers |-> "idle"], reply_timeout |-> "zero",
   last_received_waiting_value |-> "zero",
   remote_hello_ready |-> FALSE, is_access_methods_req_sent |-> FALSE,
   remote_ship_id |-> "", cancel |-> FALSE, shutdown_once |-> FALSE,
   snd |-> [s \in {"websocket", "app", "spine"} |-> NoMsg],
   stop_pc |-> "none", blocked |-> FALSE, out |-> <<>>,
   trusted |-> FALSE, said |-> {}, heard |-> {}, closed_reports |-> 0]

Init ==
  /\ \E role \in Roles : sc = Construct(role)
  /\ budget = MaxInputs
-----------------------------------------------------------------------------
(* Timers (eebus_timer_linux.c)                                            *)

\* Start does nothing while a thread of an earlier Start is not joined, and
\* only clears the state when the timeout is zero.
TimerStart(c, t, timeout) ==
  IF c.timer[t] \in {"idle", "joined"}
  THEN [c EXCEPT !.timer[t] = IF timeout = "zero" THEN "idle" ELSE "running"]
  ELSE c

\* Stop waits for the callback of a timer that fires, and joins the thread.
TimerStop(c, t) ==
  [c EXCEPT !.timer[t] = CASE @ = "running" -> "idle"
                           [] @ \in {"fired", "expired"} -> "joined"
                           [] OTHER -> @,
            !.blocked = @ \/ c.timer[t] = "firing"]

StopPairTimers(c) ==
  TimerStop(TimerStop(c, "send_prolongation_request"), "prolongation_request_reply")

\* The remaining time of a timer that has at some time been started with timeout.
Remaining(timeout) == IF timeout = "zero" THEN {"zero"} ELSE Waitings
-----------------------------------------------------------------------------
(* What the handlers of the states share                                   *)

SetSmeState(c, state) == [c EXCEPT !.sme_state = state]

\* ShipConnectionSend, when the websocket takes the frame.
Sent(c, f) ==
  [c EXCEPT !.said = @ \cup Milestone(f),
            !.out = IF KeepOutput THEN Append(@, f) ELSE @]

\* The hello that reports the time left, from a timer that runs.
Hello(phase, sub) == Frame("hello", phase, sub)

\* Variant: the timers are left to the destructor.
CloseConnectionKeepsTimers(c, safe) ==
  IF c.shutdown_once THEN c
  ELSE [c EXCEPT !.cancel = TRUE, !.shutdown_once = TRUE, !.closed_reports = @ + 1]

\* Closes the websocket and reports the connection closed, once.  Only a safe
\* close in data exchange announces itself to the peer.
CloseConnection(c, safe) ==
  LET d == TimerStop(StopPairTimers(c), "wait_for_ready")
      e == IF safe /\ c.sme_state = "DataExchange"
           THEN Sent(d, Frame("close", "announce", "none")) ELSE d
  IN  IF c.shutdown_once THEN c
      ELSE [e EXCEPT !.cancel = TRUE, !.shutdown_once = TRUE,
                     !.closed_reports = @ + 1]

CloseWithError(c) == CloseConnection(SetSmeState(c, "SmeStateError"), TRUE)

\* SmeHelloStateAbort: the "aborted" hello may fail to go out, the close comes anyway.
HelloAbort(c, ok) ==
  CloseWithError(IF ok THEN Sent(c, Hello("aborted", "none")) ELSE c)

\* SmeProtHandshakeStateAbort.
ProtAbort(c, ok) ==
  LET d == TimerStop(c, "wait_for_ready")
  IN  CloseWithError(IF ok THEN Sent(d, Frame("protErr", "none", "none")) ELSE d)

\* Sends f and goes to the state next, or takes the way out when that fails.
SendThen(c, f, next, ok, failed) == IF ok THEN SetSmeState(Sent(c, f), next) ELSE failed
-----------------------------------------------------------------------------
(* The connection thread.  Advance is the end of every handler.            *)

Advance(d) == ~d.blocked /\ sc' = d /\ UNCHANGED budget

\* The loop runs the handler of the state it is in ...
In(state) ==
  /\ sc.pc = "run" /\ ~sc.cancel /\ ~sc.shutdown_once
  /\ sc.sme_state = state

\* ... until the connection is cancelled or shut down.
LoopExit ==
  /\ sc.pc = "run" /\ (sc.cancel \/ sc.shutdown_once)
  /\ Advance([sc EXCEPT !.pc = "exited"])

TryStart == sc.pc = "idle" /\ Advance([sc EXCEPT !.pc = "run"])

CmiStateClientSend ==
  /\ In("CmiStateClientSend")
  /\ \E ok \in WriteResults :
       Advance(SendThen(sc, Frame("init", "ok", "none"), "CmiStateClientWait", ok,
                        CloseWithError(sc)))

\* Variant: the receive relies on a timer that an earlier state has started.
BeginWaitNoTimer ==
  /\ \E st \in ListenStates : In(st)
  /\ Advance([sc EXCEPT !.pc = "wait"])

\* The way into ShipConnectionWaitForMessage: the timer bounds the whole wait.
BeginWait ==
  /\ \E st \in ListenStates : In(st)
  /\ Advance(TimerStart([sc EXCEPT !.pc = "wait"], "wait_for_ready", "long"))

\* A trust decision that raced the handshake is dropped by the wait, which
\* data exchange does not use.
DropsDecision(c) ==
  /\ Head(c.queue).type \in TrustTypes
  /\ c.sme_state \notin {"SmeHelloStatePendingListen", "DataExchange", "SmeStateError"}

\* EEBUS_QUEUE_RECEIVE.
Receive ==
  /\ sc.pc = "wait" /\ sc.queue # <<>>
  /\ LET m == Head(sc.queue)
         c == [sc EXCEPT !.queue = Tail(@)]
     IN  Advance(IF DropsDecision(sc) THEN c
                 ELSE [c EXCEPT !.pc = "got", !.cur = m,
                                !.heard = @ \cup Milestone(m.frame)])

\* The way out of ShipConnectionReceive with a message for the state's handler.
Got(state) == sc.pc = "got" /\ sc.sme_state = state
Taken == TimerStop([sc EXCEPT !.pc = "run", !.cur = NoMsg], "wait_for_ready")
HasFrame == sc.cur.type = "DataReceived"
IsTimeout == sc.cur.type = "Timeout"
-----------------------------------------------------------------------------
(* Connection mode initialisation                                          *)

CmiWait(state, next) ==
  /\ Got(state)
  /\ Advance(IF HasFrame THEN SetSmeState([Taken EXCEPT !.cur = sc.cur], next)
             ELSE CloseWithError(Taken))

CmiStateClientWait == CmiWait("CmiStateClientWait", "CmiStateClientEvaluate")
CmiStateServerWait == CmiWait("CmiStateServerWait", "CmiStateServerEvaluate")

IsInit(f) == f.kind = "init" /\ f.val = "ok"

CmiStateClientEvaluate ==
  /\ In("CmiStateClientEvaluate")
  /\ LET c == [sc EXCEPT !.cur = NoMsg]
     IN  Advance(IF IsInit(sc.cur.frame) THEN SetSmeState(c, "SmeHelloState")
                 ELSE CloseWithError(c))

CmiStateServerEvaluate ==
  /\ In("CmiStateServerEvaluate")
  /\ \E ok \in WriteResults :
       LET c == [sc EXCEPT !.cur = NoMsg]
       IN  Advance(IF IsInit(sc.cur.frame)
                   THEN SendThen(c, Frame("init", "ok", "none"), "SmeHelloState", ok,
                                 CloseWithError(c))
                   ELSE CloseWithError(c))
-----------------------------------------------------------------------------
(* Hello                                                                   *)

\* Variant: the peer's trust is not asked for.
SmeHelloStateUnchecked ==
  In("SmeHelloState") /\ Advance(SetSmeState(sc, "SmeHelloStateReadyInit"))

\* Whether the peer is paired is the ship node's answer at this moment.
SmeHelloState ==
  /\ In("SmeHelloState")
  /\ \E paired \in BOOLEAN :
       Advance(IF paired
               THEN SetSmeState([sc EXCEPT !.trusted = TRUE], "SmeHelloStateReadyInit")
               ELSE SetSmeState(sc, "SmeHelloStatePendingInit"))

\* Variant: the peer's own "ready" is not waited for.
SmeHelloStateReadyInitAlone ==
  /\ In("SmeHelloStateReadyInit")
  /\ \E ok \in WriteResults :
       LET c == StopPairTimers(sc)
       IN  Advance(SendThen(c, Hello("ready", "long"), "SmeHelloStateOk", ok,
                            SetSmeState(c, "SmeHelloStateAbort")))

SmeHelloStateReadyInit ==
  /\ In("SmeHelloStateReadyInit")
  /\ \E ok \in WriteResults :
       LET c == StopPairTimers(sc)
           next == IF sc.remote_hello_ready THEN "SmeHelloStateOk"
                   ELSE "SmeHelloStateReadyListen"
       IN  Advance(SendThen(c, Hello("ready", "long"), next, ok,
                            SetSmeState(c, "SmeHelloStateAbort")))

SmeHelloStatePendingInit ==
  /\ In("SmeHelloStatePendingInit")
  /\ \E ok \in WriteResults :
       LET c == StopPairTimers(sc)
       IN  Advance(SendThen(c, Hello("pending", "long"), "SmeHelloStatePendingListen", ok,
                            SetSmeState(c, "SmeHelloStateAbort")))

\* The reply to a prolongation request: the wait is extended, and the request's
\* own phase goes back with the time left.  Any other pending hello is ignored.
ProlongationReply(c, f, ok) ==
  LET d == TimerStart(c, "wait_for_ready", "long")
  IN  IF f.sub # "prolong" THEN c
      ELSE IF ok THEN Sent(d, Hello(f.val, "long"))
      ELSE SetSmeState(d, "SmeHelloStateAbort")

ReadyEvaluate(c, f, ok) ==
  CASE f.kind # "hello" -> SetSmeState(c, "SmeHelloStateAbort")
    [] f.kind = "hello" /\ f.val = "bad" -> HelloAbort(c, ok)
    [] f.kind = "hello" /\ f.val = "ready" -> SetSmeState(c, "SmeHelloStateOk")
    [] f.kind = "hello" /\ f.val = "pending" -> ProlongationReply(c, f, ok)
    [] OTHER -> SetSmeState(c, "SmeHelloStateAbort")

SmeHelloStateReadyListen ==
  /\ Got("SmeHelloStateReadyListen")
  /\ \E ok \in WriteResults :
       Advance(IF HasFrame THEN ReadyEvaluate(Taken, sc.cur.frame, ok)
               ELSE SetSmeState(Taken, IF IsTimeout THEN "SmeHelloStateReadyTimeout"
                                       ELSE "SmeHelloStateAbort"))

\* SmeHelloCalculateNewWaitValueAndSetTimer: a prolongation is asked for shortly
\* before a long waiting time is over.
NewWaitValue(c, waiting) ==
  LET d == [c EXCEPT !.last_received_waiting_value = waiting]
  IN  IF waiting = "long" THEN TimerStart(d, "send_prolongation_request", "long")
      ELSE TimerStop(d, "send_prolongation_request")

\* A ready hello has to say how long the peer waits.
PendingHeardReady(c, f) ==
  LET d == [c EXCEPT !.remote_hello_ready = TRUE]
  IN  IF f.sub \in Waitings
      THEN NewWaitValue(TimerStop(TimerStop(d, "wait_for_ready"),
                                  "prolongation_request_reply"), f.sub)
      ELSE SetSmeState(d, "SmeHelloStateAbort")

PendingHeardPending(c, f, ok) ==
  IF f.sub \in Waitings
  THEN NewWaitValue(TimerStop(c, "prolongation_request_reply"), f.sub)
  ELSE ProlongationReply(c, f, ok)

PendingEvaluate(c, f, ok) ==
  CASE f.kind # "hello" -> SetSmeState(c, "SmeHelloStateAbort")
    [] f.kind = "hello" /\ f.val = "bad" -> HelloAbort(c, ok)
    [] f.kind = "hello" /\ f.val = "ready" -> PendingHeardReady(c, f)
    [] f.kind = "hello" /\ f.val = "pending" -> PendingHeardPending(c, f, ok)
    [] OTHER -> SetSmeState(c, "SmeHelloStateAbort")

\* The application has decided; the acceptance callback has the last word on a
\* decision that came with a token.
PendingDecided(c, granted, accepted) ==
  IF granted /\ accepted
  THEN SetSmeState([StopPairTimers(c) EXCEPT !.trusted = TRUE], "SmeHelloStateReadyInit")
  ELSE SetSmeState(c, "SmeHelloStateAbort")

SmeHelloStatePendingListen ==
  /\ Got("SmeHelloStatePendingListen")
  /\ \E ok \in WriteResults, accepted \in BOOLEAN :
       Advance(CASE HasFrame -> PendingEvaluate(Taken, sc.cur.frame, ok)
                 [] sc.cur.type \in TrustTypes ->
                      PendingDecided(Taken, sc.cur.type = "TrustGranted", accepted)
                 [] IsTimeout -> SetSmeState(Taken, "SmeHelloStatePendingTimeout")
                 [] OTHER -> SetSmeState(Taken, "SmeHelloStateAbort"))

\* The prolongation request, and the timer that bounds its reply.
RequestProlongation(c, remaining) ==
  LET d == Sent(c, Hello("pending", "prolong"))
      waiting == IF c.last_received_waiting_value = "zero" THEN remaining
                 ELSE c.last_received_waiting_value
      e == [d EXCEPT !.last_received_waiting_value = waiting,
                     !.reply_timeout =
                       IF c.timer["prolongation_request_reply"] \in {"idle", "joined"}
                       THEN waiting ELSE @]
  IN  SetSmeState(TimerStart(e, "prolongation_request_reply", waiting),
                  "SmeHelloStatePendingListen")

\* Which timer was it?  When none has expired the handler changes nothing and
\* the loop calls it again.
SmeHelloStatePendingTimeout ==
  /\ In("SmeHelloStatePendingTimeout")
  /\ \E ok \in WriteResults, remaining \in Remaining(sc.reply_timeout) :
       Advance(CASE \/ Expired(sc.timer["wait_for_ready"])
                    \/ Expired(sc.timer["prolongation_request_reply"]) ->
                      SetSmeState(sc, "SmeHelloStateAbort")
                 [] /\ ~Expired(sc.timer["wait_for_ready"])
                    /\ ~Expired(sc.timer["prolongation_request_reply"])
                    /\ Expired(sc.timer["send_prolongation_request"]) ->
                      IF ok THEN RequestProlongation(sc, remaining) ELSE CloseWithError(sc)
                 [] OTHER -> sc)

SmeHelloStateOk ==
  /\ In("SmeHelloStateOk")
  /\ Advance(SetSmeState(sc, IF sc.role = "client" THEN "SmeProtHStateClientInit"
                             ELSE "SmeProtHStateServerInit"))

SmeHelloStateAbort ==
  /\ \E st \in AbortStates : In(st)
  /\ \E ok \in WriteResults : Advance(HelloAbort(sc, ok))
-----------------------------------------------------------------------------
(* Protocol handshake                                                      *)

SmeProtHandshakeStateClientInit ==
  /\ In("SmeProtHStateClientInit")
  /\ \E ok \in WriteResults :
       LET c == TimerStop(sc, "wait_for_ready")
       IN  Advance(SendThen(c, Frame("prot", "announceMax", "max"),
                            "SmeProtHStateClientListenChoice", ok, CloseWithError(c)))

\* The choice has to be a selection of the version that was announced.
IsChoice(f) == f.kind = "prot" /\ f.val = "select" /\ f.sub = "max"

SmeProtHandshakeStateClientListenChoice ==
  /\ Got("SmeProtHStateClientListenChoice")
  /\ \E ok \in WriteResults :
       LET c == TimerStop(Taken, "wait_for_ready")
       IN  Advance(IF HasFrame /\ IsChoice(sc.cur.frame)
                   THEN SendThen(c, Frame("prot", "select", "max"),
                                 "SmeProtHStateClientOk", ok, CloseWithError(c))
                   ELSE ProtAbort(Taken, ok))

SmeProtHandshakeStateServerInit ==
  /\ In("SmeProtHStateServerInit")
  /\ Advance(SetSmeState(TimerStop(sc, "wait_for_ready"),
                         "SmeProtHStateServerListenProposal"))

\* A version is agreed on when neither of its parts is above the supported one.
IsProposal(f) == f.kind = "prot" /\ f.val = "announceMax" /\ f.sub \in {"max", "lower"}

SmeProtHandshakeStateServerListenProposal ==
  /\ Got("SmeProtHStateServerListenProposal")
  /\ \E ok \in WriteResults :
       LET c == TimerStop(Taken, "wait_for_ready")
       IN  Advance(IF HasFrame /\ IsProposal(sc.cur.frame)
                   THEN SendThen(c, Frame("prot", "select", sc.cur.frame.sub),
                                 "SmeProtHStateServerListenConfirm", ok, CloseWithError(c))
                   ELSE ProtAbort(Taken, ok))

IsConfirm(f) == f.kind = "prot" /\ f.val = "select"

SmeProtHandshakeStateServerListenConfirm ==
  /\ Got("SmeProtHStateServerListenConfirm")
  /\ \E ok \in WriteResults :
       Advance(IF HasFrame /\ IsConfirm(sc.cur.frame)
               THEN SetSmeState(Taken, "SmeProtHStateServerOk")
               ELSE ProtAbort(Taken, ok))

SmeProtHStateOk ==
  /\ \E st \in {"SmeProtHStateClientOk", "SmeProtHStateServerOk"} : In(st)
  /\ Advance(SetSmeState(sc, "SmePinStateCheckInit"))
-----------------------------------------------------------------------------
(* PIN check                                                               *)

\* Variant: the wait for the peer's PIN state is not bounded.
SmePinStateCheckInitNoTimer ==
  /\ In("SmePinStateCheckInit")
  /\ \E ok \in WriteResults :
       Advance(IF ok THEN [Sent(sc, Frame("pin", "none", "none")) EXCEPT !.pc = "wait"]
               ELSE CloseWithError(sc))

\* The way into SmePinStateCheckInit: our own state first, then the wait.
SmePinStateCheckInitSend ==
  /\ In("SmePinStateCheckInit")
  /\ \E ok \in WriteResults :
       Advance(IF ok
               THEN TimerStart([Sent(sc, Frame("pin", "none", "none")) EXCEPT !.pc = "wait"],
                               "wait_for_ready", "long")
               ELSE CloseWithError(sc))

\* SmePinStateCheckPinStateAndRequirement.
PinRequirement(c, f) ==
  CASE f.val \in {"none", "pinOk"} -> SetSmeState(c, "SmePinStateCheckOk")
    [] f.val \in {"required", "optional"} /\ f.sub = "busy" ->
         SetSmeState(c, "SmePinStateCheckBusyWait")
    [] f.val \in {"required", "optional"} /\ f.sub = "ok" ->
         SetSmeState(c, "SmePinStateCheckListen")
    [] f.val \in {"required", "optional"} /\ f.sub \notin {"busy", "ok"} ->
         CloseWithError(c)
    [] OTHER -> SetSmeState(c, "SmeHelloStateAbort")

SmePinStateCheckInit ==
  /\ Got("SmePinStateCheckInit")
  /\ Advance(CASE ~HasFrame -> CloseWithError(Taken)
               [] HasFrame /\ sc.cur.frame.kind = "pin" -> PinRequirement(Taken, sc.cur.frame)
               [] OTHER -> SetSmeState(Taken, "SmeHelloStateAbort"))

SmePinStateCheckListen ==
  /\ Got("SmePinStateCheckListen")
  /\ Advance(IF HasFrame /\ sc.cur.frame.kind = "pin" /\ sc.cur.frame.val = "none"
             THEN SetSmeState(Taken, "SmePinStateCheckOk")
             ELSE CloseWithError(Taken))

SmePinStateCheckBusyWait ==
  In("SmePinStateCheckBusyWait") /\ Advance(SetSmeState(sc, "SmePinStateCheckListen"))

SmePinStateCheckOk ==
  In("SmePinStateCheckOk") /\ Advance(SetSmeState(sc, "SmeStateApproved"))
-----------------------------------------------------------------------------
(* Data exchange                                                           *)

SmeStateApproved ==
  /\ In("SmeStateApproved")
  /\ Advance(SetSmeState(TimerStop(sc, "wait_for_ready"), "DataExchange"))

\* The first time round the peer is asked for its access methods.  If that
\* fails the connection is closed, and the queue is read all the same.
DataExchangeBegin ==
  /\ In("DataExchange")
  /\ \E ok \in WriteResults :
       LET c == [sc EXCEPT !.pc = "wait", !.is_access_methods_req_sent = TRUE]
       IN  Advance(IF sc.is_access_methods_req_sent THEN c
                   ELSE IF ok
                   THEN TimerStart(Sent(c, Frame("accessReq", "none", "none")),
                                   "wait_for_ready", "long")
                   ELSE CloseWithError(c))

\* SmeHandshakeAccessMethodsHandle: the first id is kept, a later one has to match.
AccessMethods(c, f) ==
  LET d == TimerStop(c, "wait_for_ready")
  IN  IF f.val # "none" /\ c.remote_ship_id \in {"", f.val}
      THEN [d EXCEPT !.remote_ship_id = f.val] ELSE CloseWithError(d)

\* Variant: the second report that the comment in DataExchangeHandleClose warns of.
HandleCloseNotOnce(c, f) ==
  [TimerStop(StopPairTimers(c), "wait_for_ready") EXCEPT !.cancel = TRUE,
                                                         !.closed_reports = @ + 1]

\* DataExchangeHandleClose: an announcement is confirmed; both phases close.
HandleClose(c, f) ==
  LET d == IF f.val = "announce" THEN Sent(c, Frame("close", "confirm", "none")) ELSE c
  IN  [TimerStop(StopPairTimers(d), "wait_for_ready")
         EXCEPT !.cancel = TRUE, !.shutdown_once = TRUE, !.closed_reports = @ + 1]

\* DataExchangeHandleReceive.
HandleReceive(c, f, ok) ==
  CASE f.kind = "data" /\ f.val = "ok" -> c
    [] f.kind = "accessReq" /\ ok -> Sent(c, Frame("access", "local", "none"))
    [] f.kind = "access" -> AccessMethods(c, f)
    [] f.kind = "close" /\ f.val \in {"announce", "confirm"} -> HandleClose(c, f)
    [] OTHER -> CloseWithError(c)

\* DataExchangeHandle.  The state is Error when the access methods request could
\* not be sent: the connection is closed by then, and the message handled still.
DataExchange ==
  /\ \E st \in {"DataExchange", "SmeStateError"} : Got(st)
  /\ \E ok \in WriteResults :
       LET c == [sc EXCEPT !.pc = "run", !.cur = NoMsg]
       IN  Advance(CASE HasFrame -> HandleReceive(c, sc.cur.frame, ok)
                     [] sc.cur.type = "SpineDataToSend" /\ ok ->
                          Sent(c, Frame("data", "ok", "none"))
                     [] sc.cur.type = "WebsocketClose" ->
                          CloseWithError(CloseConnection(c, TRUE))
                     [] OTHER -> CloseWithError(c))
-----------------------------------------------------------------------------
(* The other threads.  A caller looks at what it checks, and sends later   *)
(* (SendResumes): EEBUS_QUEUE_SEND takes a mutex, and a caller that finds  *)
(* the queue full sleeps in it, with an infinite timeout.                  *)

Room == Len(sc.queue) < Capacity

SendToQueue(who, m) ==
  /\ sc.snd[who] = NoMsg
  /\ Len(sc.queue) + Cardinality({s \in DOMAIN sc.snd : sc.snd[s] # NoMsg}) < InputRoom
  /\ sc' = [sc EXCEPT !.snd[who] = m]

Input == budget > 0 /\ budget' = budget - InputCost

\* ShipConnectionWebsocketCallback.
WebsocketCallback(m) ==
  /\ sc.pc # "idle" /\ ~sc.cancel /\ ~sc.shutdown_once
  /\ SendToQueue("websocket", m)

Websocket ==
  /\ Input
  /\ \/ \E f \in Frames : WebsocketCallback(Data(f))
     \/ WebsocketCallback(Post("WebsocketError"))
     \/ WebsocketCallback(Post("WebsocketClose"))

\* ShipConnectionPostTrustDecision: it checks nothing, and the ship node calls it until
\* it stops the connection, whether that is closed or not.
PostTrustDecision ==
  /\ Input
  /\ sc.pc # "idle" /\ sc.stop_pc = "none"
  /\ \E type \in TrustTypes : SendToQueue("app", Post(type))

\* WriteMessage: it checks nothing, and the SPINE device writes from the time it was set
\* up with this connection (SmeStateApproved), also while the connection closes.
WriteMessage ==
  /\ Input
  /\ sc.sme_state = "DataExchange" /\ sc.stop_pc = "none"
  /\ SendToQueue("spine", Post("SpineDataToSend"))

\* A caller gets its message in, perhaps after it slept in a full queue.
SendResumes(who) ==
  /\ sc.snd[who] # NoMsg /\ Room
  /\ sc' = [sc EXCEPT !.queue = Append(@, sc.snd[who]), !.snd[who] = NoMsg]
  /\ UNCHANGED budget

\* TimerLoop: the callback ShipConnectionTimeoutCallback runs under the timer's
\* mutex, and posts the same message whichever timer it is.
TimerFires(t) ==
  /\ sc.timer[t] = "running"
  /\ sc' = IF Room THEN [sc EXCEPT !.queue = Append(@, Post("Timeout")),
                                   !.timer[t] = "fired"]
           ELSE [sc EXCEPT !.timer[t] = "firing"]
  /\ UNCHANGED budget

TimeoutCallbackResumes(t) ==
  /\ sc.timer[t] = "firing" /\ Room
  /\ sc' = [sc EXCEPT !.queue = Append(@, Post("Timeout")), !.timer[t] = "fired"]
  /\ UNCHANGED budget

TimerExpires(t) ==
  /\ sc.timer[t] = "fired"
  /\ sc' = [sc EXCEPT !.timer[t] = "expired"]
  /\ UNCHANGED budget

\* Stop, called by the ship node: after cancel is set, the Cancel message wakes the
\* connection thread, which is joined before the connection is closed.
Stop ==
  /\ sc.pc # "idle" /\ sc.stop_pc = "none"
  /\ sc' = [sc EXCEPT !.cancel = TRUE, !.stop_pc = "send"]
  /\ UNCHANGED budget

StopResumes ==
  /\ sc.stop_pc = "send" /\ Room
  /\ sc' = [sc EXCEPT !.queue = Append(@, Post("Cancel")), !.stop_pc = "join"]
  /\ UNCHANGED budget

StopJoined ==
  /\ sc.stop_pc = "join" /\ sc.pc = "exited"
  /\ Advance(CloseConnection([sc EXCEPT !.stop_pc = "done"], FALSE))

\* Destruct: WebsocketDelete waits for the websocket's thread; then the timers
\* and the queue go, and with the queue whoever sleeps in it.
Destruct ==
  /\ sc.stop_pc = "done" /\ sc.snd["websocket"] = NoMsg
  /\ sc' = [sc EXCEPT !.stop_pc = "destructed", !.queue = <<>>, !.cur = NoMsg,
                      !.timer = [t \in Timers |-> "idle"],
                      !.snd = [s \in DOMAIN @ |-> NoMsg]]
  /\ UNCHANGED budget
-----------------------------------------------------------------------------
HelloPhase ==
  \/ SmeHelloState \/ SmeHelloStateReadyInit \/ SmeHelloStateReadyListen
  \/ SmeHelloStatePendingInit \/ SmeHelloStatePendingListen
  \/ SmeHelloStatePendingTimeout \/ SmeHelloStateOk \/ SmeHelloStateAbort

ProtocolPhase ==
  \/ SmeProtHandshakeStateClientInit \/ SmeProtHandshakeStateClientListenChoice
  \/ SmeProtHandshakeStateServerInit \/ SmeProtHandshakeStateServerListenProposal
  \/ SmeProtHandshakeStateServerListenConfirm \/ SmeProtHStateOk

\* ShipConnectionLoop and what it calls.
Thread ==
  \/ LoopExit \/ TryStart \/ BeginWait \/ Receive
  \/ CmiStateClientSend \/ CmiStateClientWait \/ CmiStateServerWait
  \/ CmiStateClientEvaluate \/ CmiStateServerEvaluate
  \/ HelloPhase \/ ProtocolPhase
  \/ SmePinStateCheckInitSend \/ SmePinStateCheckInit \/ SmePinStateCheckListen
  \/ SmePinStateCheckBusyWait \/ SmePinStateCheckOk
  \/ SmeStateApproved \/ DataExchangeBegin \/ DataExchange

TimerThread(t) == TimerFires(t) \/ TimeoutCallbackResumes(t) \/ TimerExpires(t)

StopThread == StopResumes \/ StopJoined \/ Destruct

Next ==
  \/ Thread
  \/ \E t \in Timers : TimerThread(t)
  \/ Websocket \/ PostTrustDecision \/ WriteMessage
  \/ \E who \in {"websocket", "app", "spine"} : SendResumes(who)
  \/ Stop \/ StopThread

Spec == Init /\ [][Next]_vars

\* Every thread that can run runs: the connection thread, a timer whose time
\* comes, the caller of Stop once it is in it, a sender that finds room.
Fairness ==
  /\ WF_vars(Thread)
  /\ \A t \in Timers : WF_vars(TimerThread(t))
  /\ \A who \in {"websocket", "app", "spine"} : WF_vars(SendResumes(who))
  /\ WF_vars(StopThread)

FairSpec == Spec /\ Fairness
-----------------------------------------------------------------------------
\* The state of a connection is well formed, the queue never holds more than it
\* was created for, and no step is taken by a handler that would block.
TypeOK ==
  /\ sc \in Connection /\ ~sc.blocked
  /\ Len(sc.queue) <= Capacity
  /\ budget \in 0 .. MaxInputs

\* READY is entered only with a trusted peer (SHIP 13.4.4.1.2, quoted at the
\* kSmeHelloState case of ClientHandleState and ServerHandleState): whatever the
\* order of frames, timeouts and decisions, a connection in READY or any later
\* state of the handshake has a peer that the node had paired or an application
\* had accepted.
TrustedBeforeReady ==
  sc.sme_state \in ReadyStates \cup HelloOkStates \cup ProtOkStates \cup PinOkStates
    => sc.trusted

\* What a side must have written and read when hello, protocol handshake and PIN
\* check are behind it.
Owed(role, state, mine) ==
  (IF state \in HelloOkStates \cup ProtOkStates \cup PinOkStates
   THEN {"init", "ready"} ELSE {})
  \cup (IF state \in ProtOkStates \cup PinOkStates
        THEN {"select"} \cup (IF mine = (role = "client") THEN {"announceMax"} ELSE {})
        ELSE {})
  \cup (IF state \in PinOkStates THEN {"pin"} ELSE {})

\* No phase of the handshake is left before both sides have had their say: a
\* connection past hello has written and read "ready", past the protocol
\* handshake the announcement and the selections, in data exchange the PIN states.
MilestonesMet ==
  /\ Owed(sc.role, sc.sme_state, TRUE) \subseteq sc.said
  /\ Owed(sc.role, sc.sme_state, FALSE) \subseteq sc.heard

\* The ship node is told of the close of a connection when and only when the
\* connection has shut down, and no connection is given back by Stop without it.
ClosedIffReported ==
  /\ sc.shutdown_once <=> sc.closed_reports > 0
  /\ sc.stop_pc \in {"done", "destructed"} => sc.shutdown_once

\* Once a connection has shut down no timer of it runs any more, so none can
\* post into the queue that Destruct deletes.
TimersQuietAfterClose ==
  sc.shutdown_once => \A t \in Timers : sc.timer[t] \notin {"running", "firing", "fired"}

\* The timer bounds the whole wait (ShipConnectionWaitForMessage): a thread that
\* sleeps for a handshake message has a wait-for-ready timer that will wake it, or
\* a timeout already in its queue, although Start does nothing for a timer whose
\* earlier thread was not joined.
WaitIsBounded ==
  sc.pc = "wait" /\ sc.sme_state \notin {"DataExchange", "SmeStateError"}
    => \/ sc.timer["wait_for_ready"] \in {"running", "firing"}
       \/ \E i \in 1 .. Len(sc.queue) : sc.queue[i].type = "Timeout"

\* A handshake that is not pending ends: in data exchange, in a close, or in the
\* wait for the application's decision.
HandshakeEnds ==
  sc.pc # "idle" ~> \/ sc.sme_state \in PendingStates \cup {"DataExchange"}
                    \/ sc.shutdown_once

\* A peer that was found to be trusted is not kept waiting: the handshake with it
\* completes or the connection closes.
TrustedHandshakeEnds == sc.trusted ~> sc.sme_state = "DataExchange" \/ sc.shutdown_once

\* Stop returns: the Cancel message or the flag gets the thread out of whatever
\* it does, and the connection can be deleted.
StopReturns == sc.stop_pc # "none" ~> sc.stop_pc = "destructed"

\* A handshake ends, that with a trusted peer in data exchange or a close, and Stop returns,
\* whatever the timers, the peer and the application do meanwhile.
ConnectionSettles == HandshakeEnds /\ TrustedHandshakeEnds /\ StopReturns
-----------------------------------------------------------------------------
(* What comments, tests and documents say of the connection, and the code   *)
(* does not keep.                                                          *)

\* docs/post_trust.md: "If nobody answers, the window expires and the handshake
\* aborts".
PendingExpires ==
  sc.sme_state \in PendingStates ~> sc.sme_state \notin PendingStates \/ sc.shutdown_once

\* docs/post_trust.md: "while PENDING it sends prolongation requests".  While the
\* thread waits on a peer that has granted a long time, either a request is due, or
\* its reply is, or a timeout is on its way.
ProlongationsGoOn ==
  /\ sc.sme_state = "SmeHelloStatePendingListen" /\ sc.pc = "wait"
  /\ sc.last_received_waiting_value = "long"
  => \/ \E t \in {"send_prolongation_request", "prolongation_request_reply"} :
          sc.timer[t] \in {"running", "firing"}
     \/ \E i \in 1 .. Len(sc.queue) : sc.queue[i].type = "Timeout"

\* The test TrustDecisionOutsidePendingIsIgnored: "Acting on it outside PENDING
\* would tear down a healthy connection, so it is dropped".
DecisionNeverClosesData ==
  [][sc.cur.type \in TrustTypes /\ sc.sme_state = "DataExchange"
       => ~sc'.shutdown_once]_vars

\* docs/post_trust.md: "neither blocks the caller".  A caller that posts a decision
\* is not stuck in the queue for ever.
DecisionReturns == sc.snd["app"] # NoMsg ~> sc.snd["app"] = NoMsg

\* The comment in DataExchangeHandleClose: the node gets no "duplicate
\* kShipConnectionClosed message with a dangling sc pointer".
ClosedReportedOnce == sc.closed_reports <= 1
=============================================================================
