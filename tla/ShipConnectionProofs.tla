------------------------ MODULE ShipConnectionProofs ------------------------
(***************************************************************************)
(* Proofs about ShipConnection for every queue capacity, alphabet of       *)
(* frames and bound: type correctness, trust before READY, the close that  *)
(* is always reported, timers that end with the connection, and waits that *)
(* are always bounded, and the milestones that both sides have passed      *)
(* before a phase of the handshake is left.                                *)
(*                                                                         *)
(* Half is what holds of the record that a handler works on, between any   *)
(* two of its calls; Whole is what holds of sc between the steps.  Every   *)
(* helper is shown once to keep Half (the lemmas on TimerStop, Sent,       *)
(* CloseConnection ...), every action to turn Whole into Whole.            *)
(***************************************************************************)
EXTENDS ShipConnection, SequenceTheorems, TLAPS

Trusting == ReadyStates \cup HelloOkStates \cup ProtOkStates \cup PinOkStates

\* The states that nothing but an error leads out of; they do not use the wait
\* of the handshake.
Over == {"DataExchange", "SmeStateError"}

TimeoutQueued(q) == \E i \in 1 .. Len(q) : q[i].type = "Timeout"

Quiet(c) == \A t \in Timers : c.timer[t] \notin {"running", "firing", "fired"}

\* Of a record inside a handler.
Half(c) ==
  /\ c \in Connection
  /\ c.sme_state \in Trusting => c.trusted
  /\ c.shutdown_once <=> c.closed_reports > 0
  /\ c.shutdown_once /\ ~c.blocked => Quiet(c)
  /\ c.sme_state \notin Over /\ c.timer["wait_for_ready"] \in {"fired", "expired"}
       => TimeoutQueued(c.queue)

\* Of the connection between two steps.
Whole(c) ==
  /\ c \in Connection /\ ~c.blocked
  /\ Len(c.queue) <= Capacity
  /\ c.sme_state \in Trusting => c.trusted
  /\ c.shutdown_once <=> c.closed_reports > 0
  /\ c.stop_pc \in {"done", "destructed"} => c.shutdown_once /\ c.pc = "exited"
  /\ c.shutdown_once => Quiet(c)
  /\ c.shutdown_once /\ c.pc \in {"wait", "got"} => c.sme_state = "SmeStateError"
  /\ c.sme_state \notin Over /\ c.pc = "wait"
       => c.timer["wait_for_ready"] \notin {"idle", "joined"}
  /\ c.sme_state \notin Over /\ c.pc # "got"
       /\ c.timer["wait_for_ready"] \in {"fired", "expired"}
       => TimeoutQueued(c.queue)

\* What no handler touches, and the shutdown that none takes back.
Kept(d, c) ==
  /\ d.pc = c.pc /\ d.queue = c.queue /\ d.stop_pc = c.stop_pc
  /\ c.shutdown_once => d.shutdown_once

\* What a helper leaves behind when it changes neither the state nor the shutdown.
Same(d, c) ==
  /\ Half(d) /\ Kept(d, c)
  /\ d.sme_state = c.sme_state /\ d.trusted = c.trusted
  /\ d.shutdown_once = c.shutdown_once

\* What a handler leaves behind.
Done(d, c) == Half(d) /\ Kept(d, c)
-----------------------------------------------------------------------------
(* The helpers                                                             *)

\* A frame contributes milestones.
LEMMA MilestoneType ==
  ASSUME NEW f \in FrameType
  PROVE  Milestone(f) \in SUBSET Milestones
  BY DEF Milestone, Milestones, FrameType

\* The fields of a connection that the proofs look at.
LEMMA Fields ==
  ASSUME NEW c \in Connection
  PROVE  /\ c.role \in {"client", "server"}
         /\ c.queue \in Seq([type : MsgTypes, frame : FrameType])
         /\ c.cur \in [type : MsgTypes \cup {"None"}, frame : FrameType]
         /\ c.cur.frame \in FrameType
         /\ c.out \in Seq(FrameType)
         /\ c.said \in SUBSET Milestones /\ c.heard \in SUBSET Milestones
         /\ c.closed_reports \in Nat
         /\ c.timer \in [Timers -> TimerStates]
         /\ c.snd \in [{"websocket", "app", "spine"} ->
                         [type : MsgTypes, frame : FrameType] \cup {NoMsg}]
         /\ c.last_received_waiting_value \in Waitings
         /\ c.reply_timeout \in Waitings
  BY DEF Connection

\* A state change keeps Half unless it enters READY untrusted or leaves Over.
LEMMA SetSmeStateHalf ==
  ASSUME NEW c, Half(c), NEW st \in SmeStates,
         st \in Trusting => c.trusted,
         c.sme_state \in Over => st \in Over
  PROVE  /\ Done(SetSmeState(c, st), c)
         /\ SetSmeState(c, st).sme_state = st
         /\ SetSmeState(c, st).trusted = c.trusted
         /\ SetSmeState(c, st).shutdown_once = c.shutdown_once
  <1> DEFINE d == SetSmeState(c, st)
  <1>1. d \in Connection
    BY DEF SetSmeState, Connection, Half
  <1>2. /\ d.sme_state = st /\ d.trusted = c.trusted /\ d.shutdown_once = c.shutdown_once
        /\ d.closed_reports = c.closed_reports /\ d.timer = c.timer /\ d.blocked = c.blocked
        /\ d.queue = c.queue /\ d.pc = c.pc /\ d.stop_pc = c.stop_pc
    BY DEF SetSmeState, Connection, Half
  <1> HIDE DEF d
  <1>3. Done(d, c)
    BY <1>1, <1>2 DEF Half, Done, Kept, Quiet
  <1> QED BY <1>2, <1>3 DEF d

\* EEBUS_TIMER_STOP changes nothing but the timer, and takes it out of the states
\* in which its thread can still act.
LEMMA TimerStopSame ==
  ASSUME NEW c, Half(c), NEW t \in Timers
  PROVE  Same(TimerStop(c, t), c)
  <1> DEFINE d == TimerStop(c, t)
  <1>1. d \in Connection
    BY ZenonT(30) DEF TimerStop, Connection, TimerStates, Half
  <1>2. /\ d.sme_state = c.sme_state /\ d.trusted = c.trusted
        /\ d.shutdown_once = c.shutdown_once /\ d.closed_reports = c.closed_reports
        /\ d.queue = c.queue /\ d.pc = c.pc /\ d.stop_pc = c.stop_pc
        /\ d.blocked = (c.blocked \/ c.timer[t] = "firing")
    BY DEF TimerStop, Connection, Half
  <1>3. \A u \in Timers :
          \/ d.timer[u] = c.timer[u]
          \/ d.timer[u] \in {"idle", "joined"}
    BY DEF TimerStop, Connection, TimerStates, Half
  <1> HIDE DEF d
  <1>4. "wait_for_ready" \in Timers
    BY DEF Timers
  <1>5. Same(d, c)
    BY <1>1, <1>2, <1>3, <1>4 DEF Half, Same, Kept, Quiet
  <1> QED BY <1>5 DEF d

\* A timer that was stopped without blocking is quiet.
LEMMA TimerStopQuiet ==
  ASSUME NEW c \in Connection, NEW t \in Timers
  PROVE  /\ ~TimerStop(c, t).blocked => TimerStop(c, t).timer[t] \in {"idle", "joined"}
         /\ TimerStop(c, t).timer[t] \notin {"running", "fired", "expired"}
         /\ \A u \in Timers \ {t} : TimerStop(c, t).timer[u] = c.timer[u]
         /\ c.blocked => TimerStop(c, t).blocked
         /\ TimerStop(c, t) \in Connection
  BY ZenonT(30) DEF TimerStop, Connection, TimerStates

\* EEBUS_TIMER_START on an open connection.
LEMMA TimerStartSame ==
  ASSUME NEW c, Half(c), NEW t \in Timers, NEW w, ~c.shutdown_once
  PROVE  Same(TimerStart(c, t, w), c)
  <1> DEFINE d == TimerStart(c, t, w)
  <1>1. d \in Connection
    <2> DEFINE r == IF w = "zero" THEN "idle" ELSE "running"
    <2>1. r \in TimerStates
      BY DEF TimerStates
    <2>2. d = IF c.timer[t] \in {"idle", "joined"} THEN [c EXCEPT !.timer[t] = r] ELSE c
      BY DEF TimerStart
    <2> HIDE DEF r, d
    <2> QED BY <2>1, <2>2 DEF Connection, Half
  <1>2. /\ d.sme_state = c.sme_state /\ d.trusted = c.trusted
        /\ d.shutdown_once = c.shutdown_once /\ d.closed_reports = c.closed_reports
        /\ d.queue = c.queue /\ d.pc = c.pc /\ d.stop_pc = c.stop_pc
        /\ d.blocked = c.blocked
    BY DEF TimerStart, Connection, Half
  <1>3. \A u \in Timers :
          \/ d.timer[u] = c.timer[u]
          \/ d.timer[u] \in {"idle", "running"}
    <2>1. CASE c.timer[t] \in {"idle", "joined"}
      BY <2>1 DEF TimerStart, Connection, Half
    <2>2. CASE c.timer[t] \notin {"idle", "joined"}
      BY <2>2 DEF TimerStart
    <2> QED BY <2>1, <2>2
  <1> HIDE DEF d
  <1>4. "wait_for_ready" \in Timers
    BY DEF Timers
  <1>5. Same(d, c)
    BY <1>1, <1>2, <1>3, <1>4 DEF Half, Same, Kept, Quiet
  <1> QED BY <1>5 DEF d

\* Writing a frame.
LEMMA SentSame ==
  ASSUME NEW c, Half(c), NEW f \in FrameType
  PROVE  Same(Sent(c, f), c)
  <1> DEFINE o == IF KeepOutput THEN Append(c.out, f) ELSE c.out
             s == c.said \cup Milestone(f)
             d == Sent(c, f)
  <1>1. o \in Seq(FrameType)
    BY Fields DEF Half
  <1>2. s \in SUBSET Milestones
    BY MilestoneType, Fields DEF Half
  <1>3. d = [c EXCEPT !.said = s, !.out = o]
    BY DEF Sent
  <1> HIDE DEF o, s, d
  <1>4. d \in Connection
    BY <1>1, <1>2, <1>3 DEF Connection, Half
  <1>5. /\ d.sme_state = c.sme_state /\ d.trusted = c.trusted
        /\ d.shutdown_once = c.shutdown_once /\ d.closed_reports = c.closed_reports
        /\ d.queue = c.queue /\ d.pc = c.pc /\ d.stop_pc = c.stop_pc
        /\ d.blocked = c.blocked /\ d.timer = c.timer
    BY <1>3 DEF Connection, Half
  <1>6. Same(d, c)
    BY <1>4, <1>5 DEF Half, Same, Kept, Quiet
  <1> QED BY <1>6 DEF d

\* Helpers in a row.
LEMMA SameTrans ==
  ASSUME NEW c, NEW d, NEW e, Same(d, c), Same(e, d)
  PROVE  Same(e, c)
  BY DEF Same, Kept

\* A helper, then a handler.
LEMMA SameDone ==
  ASSUME NEW c, NEW d, NEW e, Same(d, c), Done(e, d)
  PROVE  Done(e, c)
  BY DEF Same, Done, Kept

\* Handlers in a row (DataExchangeHandle calls CloseConnection and CloseWithError).
LEMMA DoneTrans ==
  ASSUME NEW c, NEW d, NEW e, Done(d, c), Done(e, d)
  PROVE  Done(e, c)
  BY DEF Done, Kept

\* A helper alone is a handler that changes little.
LEMMA SameIsDone ==
  ASSUME NEW c, NEW d, Same(d, c)
  PROVE  Done(d, c) /\ Half(d)
  BY DEF Same, Done

\* The frames that the handlers write.
LEMMA WrittenFrames ==
  /\ Frame("init", "ok", "none") \in FrameType
  /\ Hello("ready", "long") \in FrameType
  /\ Hello("pending", "long") \in FrameType
  /\ Hello("pending", "prolong") \in FrameType
  /\ Hello("aborted", "none") \in FrameType
  /\ Frame("prot", "announceMax", "max") \in FrameType
  /\ Frame("prot", "select", "max") \in FrameType
  /\ Frame("protErr", "none", "none") \in FrameType
  /\ Frame("pin", "none", "none") \in FrameType
  /\ Frame("accessReq", "none", "none") \in FrameType
  /\ Frame("access", "local", "none") \in FrameType
  /\ Frame("data", "ok", "none") \in FrameType
  /\ Frame("close", "announce", "none") \in FrameType
  /\ Frame("close", "confirm", "none") \in FrameType
  BY DEF Frame, Hello, FrameType, Kinds, Vals, Subs

\* Stopping both prolongation timers changes only them.
LEMMA StopPairSame ==
  ASSUME NEW c, Half(c)
  PROVE  Same(StopPairTimers(c), c)
  <1>1. Same(TimerStop(c, "send_prolongation_request"), c)
    BY TimerStopSame DEF Timers
  <1>2. Same(StopPairTimers(c), TimerStop(c, "send_prolongation_request"))
    BY <1>1, TimerStopSame DEF Timers, StopPairTimers, Same
  <1> QED BY <1>1, <1>2, SameTrans

\* All three timers stopped: the helper of both ways to close.
LEMMA AllStopped ==
  ASSUME NEW c, Half(c)
  PROVE  LET d == TimerStop(StopPairTimers(c), "wait_for_ready")
         IN  Same(d, c) /\ (~d.blocked => Quiet(d))
  <1> DEFINE c1 == TimerStop(c, "send_prolongation_request")
             c2 == TimerStop(c1, "prolongation_request_reply")
             d == TimerStop(c2, "wait_for_ready")
  <1>1. StopPairTimers(c) = c2
    BY DEF StopPairTimers
  <1>2. Same(c2, c)
    BY <1>1, StopPairSame
  <1>3. Same(d, c2)
    BY <1>2, TimerStopSame DEF Timers, Same
  <1>4. Same(d, c)
    BY <1>2, <1>3, SameTrans
  <1>5. c \in Connection
    BY DEF Half
  <1>6. /\ ~c1.blocked => c1.timer["send_prolongation_request"] \in {"idle", "joined"}
        /\ c1 \in Connection
    BY <1>5, TimerStopQuiet DEF Timers
  <1> HIDE DEF c1
  <1>7. /\ ~c2.blocked => c2.timer["prolongation_request_reply"] \in {"idle", "joined"}
        /\ c2.timer["send_prolongation_request"] = c1.timer["send_prolongation_request"]
        /\ c1.blocked => c2.blocked
        /\ c2 \in Connection
    BY <1>6, TimerStopQuiet DEF Timers
  <1> HIDE DEF c2
  <1>8. /\ ~d.blocked => d.timer["wait_for_ready"] \in {"idle", "joined"}
        /\ d.timer["send_prolongation_request"] = c2.timer["send_prolongation_request"]
        /\ d.timer["prolongation_request_reply"] = c2.timer["prolongation_request_reply"]
        /\ c2.blocked => d.blocked
    BY <1>7, TimerStopQuiet DEF Timers
  <1> HIDE DEF d
  <1>9. ~d.blocked => Quiet(d)
    BY <1>6, <1>7, <1>8 DEF Quiet, Timers
  <1> QED BY <1>1, <1>4, <1>9 DEF d

\* The end that both ways to close have in common.
LEMMA ShutHalf ==
  ASSUME NEW d, Half(d), ~d.blocked => Quiet(d)
  PROVE  LET e == [d EXCEPT !.cancel = TRUE, !.shutdown_once = TRUE,
                            !.closed_reports = @ + 1]
         IN  /\ Done(e, d) /\ e.shutdown_once
             /\ e.sme_state = d.sme_state /\ e.trusted = d.trusted
  <1> DEFINE e == [d EXCEPT !.cancel = TRUE, !.shutdown_once = TRUE,
                            !.closed_reports = @ + 1]
  <1>0. d.closed_reports \in Nat /\ d.closed_reports + 1 \in Nat
    BY Fields DEF Half
  <1>1. e \in Connection
    BY <1>0 DEF Connection, Half
  <1>2. /\ e.sme_state = d.sme_state /\ e.trusted = d.trusted
        /\ e.shutdown_once = TRUE /\ e.closed_reports = d.closed_reports + 1
        /\ e.queue = d.queue /\ e.pc = d.pc /\ e.stop_pc = d.stop_pc
        /\ e.blocked = d.blocked /\ e.timer = d.timer
    BY DEF Connection, Half
  <1> HIDE DEF e
  <1>3. e.closed_reports > 0
    BY <1>0, <1>2
  <1>4. Done(e, d) /\ e.shutdown_once
    BY <1>1, <1>2, <1>3 DEF Half, Done, Kept, Quiet
  <1> QED BY <1>2, <1>4 DEF e

\* CloseConnection leaves a connection that is shut, in the state it was in.
LEMMA CloseConnectionDone ==
  ASSUME NEW c, Half(c), NEW safe \in BOOLEAN
  PROVE  /\ Done(CloseConnection(c, safe), c)
         /\ CloseConnection(c, safe).shutdown_once
         /\ CloseConnection(c, safe).sme_state = c.sme_state
  <1>1. CASE c.shutdown_once
    BY <1>1 DEF CloseConnection, Done, Kept
  <1>2. CASE ~c.shutdown_once
    <2> DEFINE d == TimerStop(StopPairTimers(c), "wait_for_ready")
               f == Frame("close", "announce", "none")
               e == IF safe /\ c.sme_state = "DataExchange" THEN Sent(d, f) ELSE d
    <2>1. Same(d, c) /\ (~d.blocked => Quiet(d))
      BY AllStopped
    <2>2. f \in FrameType
      BY WrittenFrames
    <2>3. CloseConnection(c, safe)
            = [e EXCEPT !.cancel = TRUE, !.shutdown_once = TRUE, !.closed_reports = @ + 1]
      BY <1>2 DEF CloseConnection
    <2>4. Same(Sent(d, f), d) /\ Sent(d, f).timer = d.timer /\ Sent(d, f).blocked = d.blocked
      <3> HIDE DEF d, f
      <3>1. Half(d) /\ d \in Connection
        BY <2>1 DEF Same, Half
      <3>2. Same(Sent(d, f), d)
        BY <3>1, <2>2, SentSame
      <3>3. Sent(d, f).timer = d.timer /\ Sent(d, f).blocked = d.blocked
        BY <3>1 DEF Connection, Sent
      <3> QED BY <3>2, <3>3
    <2> HIDE DEF d, f
    <2>5. Same(e, c) /\ (~e.blocked => Quiet(e))
      BY <2>1, <2>4, SameTrans DEF Quiet
    <2> HIDE DEF e
    <2> QED BY <2>3, <2>5, ShutHalf, ZenonT(30) DEF Same, Done, Kept
  <1> QED BY <1>1, <1>2

\* CloseWithError leaves a connection that is shut, in the error state.
LEMMA CloseWithErrorDone ==
  ASSUME NEW c, Half(c)
  PROVE  /\ Done(CloseWithError(c), c)
         /\ CloseWithError(c).shutdown_once
         /\ CloseWithError(c).sme_state = "SmeStateError"
  <1> DEFINE d == SetSmeState(c, "SmeStateError")
  <1>1. Done(d, c) /\ d.sme_state = "SmeStateError"
    <2>1. "SmeStateError" \in SmeStates /\ "SmeStateError" \in Over
      BY DEF SmeStates, Over
    <2>2. "SmeStateError" \notin Trusting
      BY DEF Trusting, ReadyStates, HelloOkStates, ProtOkStates, PinOkStates
    <2> QED BY <2>1, <2>2, SetSmeStateHalf
  <1>2. /\ Done(CloseConnection(d, TRUE), d) /\ CloseConnection(d, TRUE).shutdown_once
        /\ CloseConnection(d, TRUE).sme_state = d.sme_state
    BY <1>1, CloseConnectionDone DEF Done
  <1> QED BY <1>1, <1>2, DoneTrans DEF CloseWithError
-----------------------------------------------------------------------------
(* The handlers                                                            *)

\* A connection that is in its handshake.
Open(c) == Half(c) /\ ~c.shutdown_once /\ c.sme_state \notin Over

\* A helper does not end the handshake.
LEMMA SameOpen ==
  ASSUME NEW c, NEW d, Open(c), Same(d, c)
  PROVE  Open(d) /\ d.trusted = c.trusted
  BY DEF Open, Same

\* A change of the fields that the invariant does not speak of.
LEMMA OtherFields ==
  ASSUME NEW c, Half(c), NEW d \in Connection,
         d.sme_state = c.sme_state, d.trusted = c.trusted, d.pc = c.pc,
         d.shutdown_once = c.shutdown_once, d.closed_reports = c.closed_reports,
         d.queue = c.queue, d.stop_pc = c.stop_pc,
         d.blocked = c.blocked, d.timer = c.timer
  PROVE  Same(d, c)
  BY DEF Half, Same, Kept, Quiet

\* From one state of the handshake to another.
LEMMA Goes ==
  ASSUME NEW c, Open(c), NEW st \in SmeStates, st \in Trusting => c.trusted
  PROVE  Done(SetSmeState(c, st), c)
  BY SetSmeStateHalf DEF Open

\* SmeHelloStateAbort: with or without its frame, the close follows.
LEMMA HelloAbortDone ==
  ASSUME NEW c, Half(c), NEW ok \in BOOLEAN
  PROVE  Done(HelloAbort(c, ok), c)
  <1> DEFINE d == IF ok THEN Sent(c, Hello("aborted", "none")) ELSE c
  <1>1. Same(d, c)
    <2>1. CASE ok
      BY <2>1, SentSame, WrittenFrames
    <2>2. CASE ~ok
      BY <2>2 DEF Same, Kept
    <2> QED BY <2>1, <2>2
  <1>2. HelloAbort(c, ok) = CloseWithError(d)
    BY DEF HelloAbort
  <1> HIDE DEF d
  <1>3. Done(CloseWithError(d), d)
    BY <1>1, CloseWithErrorDone DEF Same
  <1> QED BY <1>1, <1>2, <1>3, SameDone

\* SmeProtHandshakeStateAbort: the same, after the wait timer is stopped.
LEMMA ProtAbortDone ==
  ASSUME NEW c, Half(c), NEW ok \in BOOLEAN
  PROVE  Done(ProtAbort(c, ok), c)
  <1> DEFINE e == TimerStop(c, "wait_for_ready")
             d == IF ok THEN Sent(e, Frame("protErr", "none", "none")) ELSE e
  <1>1. Same(e, c)
    BY TimerStopSame DEF Timers
  <1>2. ProtAbort(c, ok) = CloseWithError(d)
    BY DEF ProtAbort
  <1> HIDE DEF e
  <1>3. Same(d, e)
    <2>1. CASE ok
      BY <1>1, <2>1, SentSame, WrittenFrames DEF Same
    <2>2. CASE ~ok
      BY <1>1, <2>2 DEF Same, Kept
    <2> QED BY <2>1, <2>2
  <1> HIDE DEF d
  <1>4. Same(d, c)
    BY <1>1, <1>3, SameTrans
  <1>5. Done(CloseWithError(d), d)
    BY <1>4, CloseWithErrorDone DEF Same
  <1> QED BY <1>2, <1>4, <1>5, SameDone

\* Sending a frame and going on, or the way out when the write fails.
LEMMA SendThenDone ==
  ASSUME NEW c, Open(c), NEW f \in FrameType, NEW next \in SmeStates,
         next \in Trusting => c.trusted, NEW ok \in BOOLEAN,
         NEW failed, Done(failed, c)
  PROVE  Done(SendThen(c, f, next, ok, failed), c)
  <1>1. CASE ok
    <2>1. Same(Sent(c, f), c)
      BY SentSame DEF Open
    <2>2. Done(SetSmeState(Sent(c, f), next), Sent(c, f))
      BY <2>1, SameOpen, Goes
    <2> QED BY <1>1, <2>1, <2>2, SameDone DEF SendThen
  <1>2. CASE ~ok
    BY <1>2 DEF SendThen
  <1> QED BY <1>1, <1>2

\* The states that need no trust.
LEMMA UntrustedStates ==
  /\ \A st \in {"SmeHelloState", "SmeHelloStatePendingInit", "SmeHelloStatePendingListen",
                "SmeHelloStatePendingTimeout", "CmiStateClientWait", "CmiStateClientEvaluate",
                "CmiStateServerEvaluate", "SmeStateError"} \cup AbortStates :
       st \in SmeStates /\ st \notin Trusting
  /\ Trusting \subseteq SmeStates
  /\ "DataExchange" \in Trusting
  BY DEF SmeStates, Trusting, ReadyStates, HelloOkStates, ProtOkStates, PinOkStates,
         AbortStates, PendingStates, CmiStates

\* The two ways into an abort that the handlers name.
LEMMA AbortStatesIn ==
  "SmeHelloStateAbort" \in AbortStates /\ "SmeHelloStateReadyTimeout" \in AbortStates
  BY DEF AbortStates

\* From a state of the handshake to one that needs no trust.
LEMMA GoesUntrusted ==
  ASSUME NEW c, Open(c),
         NEW st \in {"SmeHelloState", "SmeHelloStatePendingInit",
                     "SmeHelloStatePendingListen", "SmeHelloStatePendingTimeout",
                     "CmiStateClientWait", "CmiStateClientEvaluate",
                     "CmiStateServerEvaluate", "SmeHelloStateAbort",
                     "SmeHelloStateReadyTimeout"}
  PROVE  Done(SetSmeState(c, st), c)
  BY Goes, UntrustedStates, AbortStatesIn

\* The answer to a prolongation request restarts the wait timer of an open connection.
LEMMA ProlongationReplyDone ==
  ASSUME NEW c, Open(c), NEW f \in FrameType, f.val = "pending", NEW ok \in BOOLEAN
  PROVE  Done(ProlongationReply(c, f, ok), c)
  <1> DEFINE d == TimerStart(c, "wait_for_ready", "long")
  <1>1. Same(d, c) /\ Open(d)
    BY TimerStartSame, SameOpen DEF Timers, Open
  <1>2. Same(Sent(d, Hello("pending", "long")), d)
    BY <1>1, SentSame, WrittenFrames DEF Open
  <1>3. Done(SetSmeState(d, "SmeHelloStateAbort"), d)
    BY <1>1, GoesUntrusted
  <1>4. CASE f.sub # "prolong"
    BY <1>4 DEF ProlongationReply, Done, Kept, Open
  <1>5. CASE f.sub = "prolong" /\ ok
    BY <1>1, <1>2, <1>5, SameTrans, SameIsDone DEF ProlongationReply
  <1>6. CASE f.sub = "prolong" /\ ~ok
    BY <1>1, <1>3, <1>6, SameDone DEF ProlongationReply
  <1> QED BY <1>4, <1>5, <1>6

\* SmeHelloCalculateNewWaitValueAndSetTimer touches only the request timer.
LEMMA NewWaitValueSame ==
  ASSUME NEW c, Open(c), NEW w \in Waitings
  PROVE  Same(NewWaitValue(c, w), c)
  <1> DEFINE d == [c EXCEPT !.last_received_waiting_value = w]
  <1>1. d \in Connection
    BY DEF Open, Half, Connection
  <1>2. Same(d, c)
    <2>1. /\ d.sme_state = c.sme_state /\ d.trusted = c.trusted
          /\ d.shutdown_once = c.shutdown_once /\ d.closed_reports = c.closed_reports
          /\ d.queue = c.queue /\ d.pc = c.pc /\ d.stop_pc = c.stop_pc
          /\ d.blocked = c.blocked /\ d.timer = c.timer
      BY DEF Open, Half, Connection
    <2> HIDE DEF d
    <2> QED BY <1>1, <2>1, OtherFields DEF Open
  <1>3. NewWaitValue(c, w) = IF w = "long" THEN TimerStart(d, "send_prolongation_request", "long")
                             ELSE TimerStop(d, "send_prolongation_request")
    BY DEF NewWaitValue
  <1> HIDE DEF d
  <1>4. Half(d) /\ ~d.shutdown_once
    BY <1>2 DEF Open, Same
  <1>5. /\ Same(TimerStart(d, "send_prolongation_request", "long"), d)
        /\ Same(TimerStop(d, "send_prolongation_request"), d)
    BY <1>4, TimerStartSame, TimerStopSame DEF Timers
  <1> QED BY <1>2, <1>3, <1>5, SameTrans

\* The peer is ready while we are pending: no trust follows from that.
LEMMA PendingHeardReadyDone ==
  ASSUME NEW c, Open(c), NEW f \in FrameType
  PROVE  Done(PendingHeardReady(c, f), c)
  <1> DEFINE d == [c EXCEPT !.remote_hello_ready = TRUE]
             e == TimerStop(d, "wait_for_ready")
             g == TimerStop(e, "prolongation_request_reply")
  <1>1. Same(d, c)
    <2>1. d \in Connection
      BY DEF Open, Half, Connection
    <2>2. /\ d.sme_state = c.sme_state /\ d.trusted = c.trusted
          /\ d.shutdown_once = c.shutdown_once /\ d.closed_reports = c.closed_reports
          /\ d.queue = c.queue /\ d.pc = c.pc /\ d.stop_pc = c.stop_pc
          /\ d.blocked = c.blocked /\ d.timer = c.timer
      BY DEF Open, Half, Connection
    <2> HIDE DEF d
    <2> QED BY <2>1, <2>2, OtherFields DEF Open
  <1>2. PendingHeardReady(c, f) = IF f.sub \in Waitings THEN NewWaitValue(g, f.sub)
                                  ELSE SetSmeState(d, "SmeHelloStateAbort")
    BY DEF PendingHeardReady
  <1> HIDE DEF d
  <1>3. Open(d)
    BY <1>1, SameOpen
  <1>4. Same(e, d)
    BY <1>3, TimerStopSame DEF Timers, Open
  <1>5. Open(e)
    BY <1>3, <1>4, SameOpen
  <1> HIDE DEF e
  <1>6. Same(g, e)
    BY <1>5, TimerStopSame DEF Timers, Open
  <1>7. Open(g) /\ Same(g, c)
    BY <1>1, <1>4, <1>5, <1>6, SameOpen, SameTrans
  <1> HIDE DEF g
  <1>8. CASE f.sub \in Waitings
    <2>1. Same(NewWaitValue(g, f.sub), c)
      BY <1>7, <1>8, NewWaitValueSame, SameTrans
    <2> QED BY <1>2, <1>8, <2>1, SameIsDone
  <1>9. CASE f.sub \notin Waitings
    <2>1. Done(SetSmeState(d, "SmeHelloStateAbort"), d)
      BY <1>3, GoesUntrusted
    <2> QED BY <1>1, <1>2, <1>9, <2>1, SameDone
  <1> QED BY <1>8, <1>9

\* Both ends are pending.
LEMMA PendingHeardPendingDone ==
  ASSUME NEW c, Open(c), NEW f \in FrameType, f.val = "pending", NEW ok \in BOOLEAN
  PROVE  Done(PendingHeardPending(c, f, ok), c)
  <1>1. CASE f.sub \in Waitings
    <2> DEFINE d == TimerStop(c, "prolongation_request_reply")
    <2>1. Same(d, c) /\ Open(d)
      BY TimerStopSame, SameOpen DEF Timers, Open
    <2>2. Same(NewWaitValue(d, f.sub), d)
      BY <1>1, <2>1, NewWaitValueSame
    <2>3. PendingHeardPending(c, f, ok) = NewWaitValue(d, f.sub)
      BY <1>1 DEF PendingHeardPending
    <2> HIDE DEF d
    <2> QED BY <2>1, <2>2, <2>3, SameTrans, SameIsDone
  <1>2. CASE f.sub \notin Waitings
    BY <1>2, ProlongationReplyDone DEF PendingHeardPending
  <1> QED BY <1>1, <1>2

\* A hello in READY, where the peer is trusted already.
LEMMA ReadyEvaluateDone ==
  ASSUME NEW c, Open(c), c.trusted, NEW f \in FrameType, NEW ok \in BOOLEAN
  PROVE  Done(ReadyEvaluate(c, f, ok), c)
  <1>1. Done(SetSmeState(c, "SmeHelloStateAbort"), c)
    BY GoesUntrusted
  <1>2. Done(HelloAbort(c, ok), c)
    BY HelloAbortDone DEF Open
  <1>3. Done(SetSmeState(c, "SmeHelloStateOk"), c)
    BY Goes, UntrustedStates DEF Trusting, HelloOkStates
  <1>4. f.val = "pending" => Done(ProlongationReply(c, f, ok), c)
    BY ProlongationReplyDone
  <1> QED BY <1>1, <1>2, <1>3, <1>4 DEF ReadyEvaluate

\* A hello in PENDING never leads to READY.
LEMMA PendingEvaluateDone ==
  ASSUME NEW c, Open(c), NEW f \in FrameType, NEW ok \in BOOLEAN
  PROVE  Done(PendingEvaluate(c, f, ok), c)
  <1>1. Done(SetSmeState(c, "SmeHelloStateAbort"), c)
    BY GoesUntrusted
  <1>2. Done(HelloAbort(c, ok), c)
    BY HelloAbortDone DEF Open
  <1>3. Done(PendingHeardReady(c, f), c)
    BY PendingHeardReadyDone
  <1>4. f.val = "pending" => Done(PendingHeardPending(c, f, ok), c)
    BY PendingHeardPendingDone
  <1> QED BY <1>1, <1>2, <1>3, <1>4 DEF PendingEvaluate

\* The peer is found to be trusted.
LEMMA TrustedDone ==
  ASSUME NEW c, Open(c)
  PROVE  Done(SetSmeState([c EXCEPT !.trusted = TRUE], "SmeHelloStateReadyInit"), c)
  <1> DEFINE d == [c EXCEPT !.trusted = TRUE]
  <1>1. d \in Connection
    BY DEF Open, Half, Connection
  <1>2. /\ d.sme_state = c.sme_state /\ d.trusted = TRUE
        /\ d.shutdown_once = c.shutdown_once /\ d.closed_reports = c.closed_reports
        /\ d.queue = c.queue /\ d.pc = c.pc /\ d.stop_pc = c.stop_pc
        /\ d.blocked = c.blocked /\ d.timer = c.timer
    BY DEF Open, Half, Connection
  <1> HIDE DEF d
  <1>3. Open(d) /\ Done(d, c)
    BY <1>1, <1>2 DEF Half, Open, Done, Kept, Quiet
  <1>4. Done(SetSmeState(d, "SmeHelloStateReadyInit"), d)
    BY <1>2, <1>3, Goes, UntrustedStates DEF Trusting, ReadyStates
  <1>5. Done(SetSmeState(d, "SmeHelloStateReadyInit"), c)
    BY <1>3, <1>4, DoneTrans
  <1> QED BY <1>5 DEF d

\* Only the decision of the application leads from PENDING to READY.
LEMMA PendingDecidedDone ==
  ASSUME NEW c, Open(c), NEW granted \in BOOLEAN, NEW accepted \in BOOLEAN
  PROVE  Done(PendingDecided(c, granted, accepted), c)
  <1>1. CASE granted /\ accepted
    <2> DEFINE d == StopPairTimers(c)
    <2>1. Same(d, c) /\ Open(d)
      BY StopPairSame, SameOpen DEF Open
    <2>2. PendingDecided(c, granted, accepted)
            = SetSmeState([d EXCEPT !.trusted = TRUE], "SmeHelloStateReadyInit")
      BY <1>1 DEF PendingDecided
    <2> HIDE DEF d
    <2> QED BY <2>1, <2>2, TrustedDone, SameDone
  <1>2. CASE ~(granted /\ accepted)
    BY <1>2, GoesUntrusted DEF PendingDecided
  <1> QED BY <1>1, <1>2

\* A prolongation request starts the reply timer of an open connection.
LEMMA RequestProlongationDone ==
  ASSUME NEW c, Open(c), NEW remaining \in Waitings
  PROVE  Done(RequestProlongation(c, remaining), c)
  <1> DEFINE d == Sent(c, Hello("pending", "prolong"))
             w == IF c.last_received_waiting_value = "zero" THEN remaining
                  ELSE c.last_received_waiting_value
             r == IF c.timer["prolongation_request_reply"] \in {"idle", "joined"}
                  THEN w ELSE d.reply_timeout
             e == [d EXCEPT !.last_received_waiting_value = w, !.reply_timeout = r]
             g == TimerStart(e, "prolongation_request_reply", w)
  <1>1. Same(d, c) /\ Open(d)
    BY SentSame, SameOpen, WrittenFrames DEF Open
  <1>2. RequestProlongation(c, remaining) = SetSmeState(g, "SmeHelloStatePendingListen")
    BY DEF RequestProlongation
  <1> HIDE DEF d
  <1>3. w \in Waitings /\ r \in Waitings
    BY <1>1, Fields DEF Open, Half
  <1> HIDE DEF w, r
  <1>4. Same(e, d)
    <2>1. e \in Connection
      BY <1>1, <1>3 DEF Open, Half, Connection
    <2>2. /\ e.sme_state = d.sme_state /\ e.trusted = d.trusted
          /\ e.shutdown_once = d.shutdown_once /\ e.closed_reports = d.closed_reports
          /\ e.queue = d.queue /\ e.pc = d.pc /\ e.stop_pc = d.stop_pc
          /\ e.blocked = d.blocked /\ e.timer = d.timer
      BY <1>1 DEF Open, Half, Connection
    <2> HIDE DEF e
    <2> QED BY <1>1, <2>1, <2>2, OtherFields DEF Open
  <1> HIDE DEF e
  <1>5. Open(e) /\ Same(e, c)
    BY <1>1, <1>4, SameOpen, SameTrans
  <1>6. Same(g, e)
    BY <1>5, TimerStartSame DEF Open, Timers
  <1> HIDE DEF g
  <1>7. Open(g) /\ Same(g, c)
    BY <1>5, <1>6, SameOpen, SameTrans
  <1>8. Done(SetSmeState(g, "SmeHelloStatePendingListen"), g)
    BY <1>7, GoesUntrusted
  <1> QED BY <1>2, <1>7, <1>8, SameDone

\* The PIN requirement of a trusted peer.
LEMMA PinRequirementDone ==
  ASSUME NEW c, Open(c), c.trusted, NEW f \in FrameType
  PROVE  Done(PinRequirement(c, f), c)
  <1>1. Done(SetSmeState(c, "SmeHelloStateAbort"), c)
    BY GoesUntrusted
  <1>2. Done(CloseWithError(c), c)
    BY CloseWithErrorDone DEF Open
  <1>3. \A st \in {"SmePinStateCheckOk", "SmePinStateCheckBusyWait",
                   "SmePinStateCheckListen"} : Done(SetSmeState(c, st), c)
    BY Goes, UntrustedStates DEF Trusting, ProtOkStates, PinOkStates
  <1> QED BY <1>1, <1>2, <1>3 DEF PinRequirement

\* In data exchange (or after a failed start of it).
LEMMA AccessMethodsDone ==
  ASSUME NEW c, Half(c), NEW f \in FrameType
  PROVE  Done(AccessMethods(c, f), c)
  <1> DEFINE d == TimerStop(c, "wait_for_ready")
             e == [d EXCEPT !.remote_ship_id = f.val]
  <1>1. Same(d, c)
    BY TimerStopSame DEF Timers
  <1>2. \/ AccessMethods(c, f) = e
        \/ AccessMethods(c, f) = CloseWithError(d)
    BY DEF AccessMethods
  <1> HIDE DEF d
  <1>3. Done(CloseWithError(d), d)
    BY <1>1, CloseWithErrorDone DEF Same
  <1>4. Same(e, d)
    <2>1. f.val \in Vals
      BY DEF FrameType
    <2>2. e \in Connection
      BY <1>1, <2>1 DEF Same, Half, Connection
    <2>3. /\ e.sme_state = d.sme_state /\ e.trusted = d.trusted
          /\ e.shutdown_once = d.shutdown_once /\ e.closed_reports = d.closed_reports
          /\ e.queue = d.queue /\ e.pc = d.pc /\ e.stop_pc = d.stop_pc
          /\ e.blocked = d.blocked /\ e.timer = d.timer
      BY <1>1 DEF Same, Half, Connection
    <2> HIDE DEF e
    <2> QED BY <1>1, <2>2, <2>3, OtherFields DEF Same
  <1> HIDE DEF e
  <1> QED BY <1>1, <1>2, <1>3, <1>4, SameTrans, SameIsDone, SameDone

\* DataExchangeHandleClose shuts the connection whatever its phase, and stops the timers first.
LEMMA HandleCloseDone ==
  ASSUME NEW c, Half(c), NEW f \in FrameType
  PROVE  Done(HandleClose(c, f), c)
  <1> DEFINE d == IF f.val = "announce" THEN Sent(c, Frame("close", "confirm", "none")) ELSE c
             e == TimerStop(StopPairTimers(d), "wait_for_ready")
             g == [e EXCEPT !.cancel = TRUE, !.shutdown_once = TRUE, !.closed_reports = @ + 1]
  <1>1. Same(d, c)
    <2>1. Same(Sent(c, Frame("close", "confirm", "none")), c)
      BY SentSame, WrittenFrames
    <2>2. Same(c, c)
      BY DEF Same, Kept
    <2> QED BY <2>1, <2>2
  <1>2. HandleClose(c, f) = g
    BY DEF HandleClose
  <1> HIDE DEF d
  <1>3. Same(e, d) /\ (~e.blocked => Quiet(e))
    BY <1>1, AllStopped DEF Same
  <1> HIDE DEF e
  <1>4. Done(g, e)
    BY <1>3, ShutHalf DEF Same
  <1> HIDE DEF g
  <1> QED BY <1>1, <1>2, <1>3, <1>4, SameTrans, SameDone

\* A frame in data exchange.
LEMMA HandleReceiveDone ==
  ASSUME NEW c, Half(c), NEW f \in FrameType, NEW ok \in BOOLEAN
  PROVE  Done(HandleReceive(c, f, ok), c)
  <1>1. Done(c, c)
    BY DEF Done, Kept
  <1>2. Done(Sent(c, Frame("access", "local", "none")), c)
    BY SentSame, WrittenFrames, SameIsDone
  <1>3. Done(AccessMethods(c, f), c)
    BY AccessMethodsDone
  <1>4. Done(HandleClose(c, f), c)
    BY HandleCloseDone
  <1>5. Done(CloseWithError(c), c)
    BY CloseWithErrorDone
  <1> QED BY <1>1, <1>2, <1>3, <1>4, <1>5 DEF HandleReceive
-----------------------------------------------------------------------------
(* From a handler back to the loop                                         *)

\* A handler that the loop calls finds Half.
LEMMA WholeHalf ==
  ASSUME NEW c, Whole(c), c.pc # "got"
  PROVE  Half(c)
  BY DEF Whole, Half

\* A handler that returns to the loop without blocking has restored Whole.
LEMMA Landing ==
  ASSUME NEW c, c.pc = "run", Len(c.queue) <= Capacity,
         c.stop_pc \notin {"done", "destructed"},
         NEW d, Done(d, c), ~d.blocked
  PROVE  Whole(d)
  BY DEF Whole, Half, Done, Kept

\* A handler that the loop calls and that does not wait.
LEMMA RunLands ==
  ASSUME Whole(sc), sc.pc = "run", NEW d, Done(d, sc), Advance(d)
  PROVE  Whole(sc')
  <1>1. sc.stop_pc \notin {"done", "destructed"} /\ Len(sc.queue) <= Capacity
    BY DEF Whole
  <1>2. Whole(d)
    BY <1>1, Landing DEF Advance
  <1> QED BY <1>2 DEF Advance

\* The loop runs the handlers of the handshake only on an open connection.
LEMMA InOpen ==
  ASSUME Whole(sc), NEW st, In(st), st \notin Over
  PROVE  Open(sc) /\ sc.pc = "run" /\ sc.sme_state = st
  BY WholeHalf DEF In, Open

\* The connection after the receive.
LEMMA TakenKept ==
  ASSUME Whole(sc), sc.pc = "got"
  PROVE  /\ Half(Taken) /\ Taken.pc = "run" /\ Taken.queue = sc.queue
         /\ Taken.stop_pc = sc.stop_pc /\ Taken.shutdown_once = sc.shutdown_once
         /\ Taken.sme_state = sc.sme_state /\ Taken.trusted = sc.trusted
  <1> DEFINE c == [sc EXCEPT !.pc = "run", !.cur = NoMsg]
             d == TimerStop(c, "wait_for_ready")
  <1>1. NoMsg \in [type : MsgTypes \cup {"None"}, frame : FrameType]
    BY DEF NoMsg, Msg, NoFrame, Frame, FrameType, Kinds, Vals, Subs
  <1>2. c \in Connection
    BY <1>1 DEF Whole, Connection
  <1>3. /\ c.sme_state = sc.sme_state /\ c.trusted = sc.trusted
        /\ c.shutdown_once = sc.shutdown_once /\ c.closed_reports = sc.closed_reports
        /\ c.queue = sc.queue /\ c.pc = "run" /\ c.stop_pc = sc.stop_pc
        /\ c.blocked = sc.blocked /\ c.timer = sc.timer
    BY DEF Whole, Connection
  <1>4. Taken = d
    BY DEF Taken
  <1> HIDE DEF c
  <1>5. /\ d \in Connection
        /\ d.timer["wait_for_ready"] \notin {"running", "fired", "expired"}
        /\ \A u \in Timers \ {"wait_for_ready"} : d.timer[u] = c.timer[u]
        /\ ~d.blocked => d.timer["wait_for_ready"] \in {"idle", "joined"}
    BY <1>2, TimerStopQuiet DEF Timers
  <1>6. /\ d.sme_state = c.sme_state /\ d.trusted = c.trusted
        /\ d.shutdown_once = c.shutdown_once /\ d.closed_reports = c.closed_reports
        /\ d.queue = c.queue /\ d.pc = c.pc /\ d.stop_pc = c.stop_pc
    BY <1>2 DEF TimerStop, Connection
  <1> HIDE DEF d
  <1>7. Half(d)
    <2>1. d.shutdown_once /\ ~d.blocked => Quiet(d)
      BY <1>3, <1>5, <1>6 DEF Whole, Quiet
    <2> QED BY <1>3, <1>5, <1>6, <2>1 DEF Whole, Half
  <1> QED BY <1>3, <1>4, <1>6, <1>7

\* A handler that a message woke, and that does not wait again.
LEMMA GotLands ==
  ASSUME Whole(sc), sc.pc = "got", NEW d, Done(d, Taken), Advance(d)
  PROVE  Whole(sc')
  <1>1. /\ Taken.pc = "run" /\ Taken.stop_pc \notin {"done", "destructed"}
        /\ Len(Taken.queue) <= Capacity
    BY TakenKept DEF Whole
  <1> HIDE DEF Taken
  <1>2. Whole(d)
    BY <1>1, Landing DEF Advance
  <1> QED BY <1>2 DEF Advance

\* A message of the handshake finds an open connection.
LEMMA GotOpen ==
  ASSUME Whole(sc), NEW st, Got(st), st \notin Over
  PROVE  /\ Open(Taken) /\ sc.pc = "got" /\ Taken.sme_state = st
         /\ st \in Trusting => Taken.trusted
         /\ sc.cur.frame \in FrameType
  <1>1. sc.pc = "got" /\ sc.sme_state = st
    BY DEF Got
  <1>2. ~sc.shutdown_once
    BY <1>1 DEF Whole, Over
  <1>3. sc.cur.frame \in FrameType
    BY Fields DEF Whole
  <1>4. st \in Trusting => sc.trusted
    BY <1>1 DEF Whole
  <1> QED BY <1>1, <1>2, <1>3, <1>4, TakenKept DEF Open

\* A handler that is going to wait: the timer runs, or it has fired and its
\* message is in the queue.
LEMMA WaitLands ==
  ASSUME NEW c, Half(c), c.pc = "wait", ~c.shutdown_once,
         Len(c.queue) <= Capacity, c.stop_pc \notin {"done", "destructed"},
         ~TimerStart(c, "wait_for_ready", "long").blocked
  PROVE  Whole(TimerStart(c, "wait_for_ready", "long"))
  <1> DEFINE d == TimerStart(c, "wait_for_ready", "long")
  <1>1. Same(d, c)
    BY TimerStartSame DEF Timers
  <1>2. d.timer["wait_for_ready"] \notin {"idle", "joined"}
    BY DEF TimerStart, Half, Connection, Timers
  <1> HIDE DEF d
  <1>3. Whole(d)
    BY <1>1, <1>2 DEF Whole, Same, Half, Kept, d
  <1> QED BY <1>3 DEF d
-----------------------------------------------------------------------------
(* The actions of the connection thread                                    *)

\* The thread begins and ends.
LEMMA LoopStep ==
  ASSUME Whole(sc), LoopExit \/ TryStart
  PROVE  Whole(sc')
  <1>1. ASSUME NEW p \in {"run", "exited"}, sc.pc \in {"idle", "run"},
               sc' = [sc EXCEPT !.pc = p]
        PROVE  Whole(sc')
    <2>1. sc' \in Connection
      BY <1>1 DEF Whole, Connection
    <2>2. /\ sc'.sme_state = sc.sme_state /\ sc'.trusted = sc.trusted
          /\ sc'.shutdown_once = sc.shutdown_once /\ sc'.closed_reports = sc.closed_reports
          /\ sc'.queue = sc.queue /\ sc'.pc = p /\ sc'.stop_pc = sc.stop_pc
          /\ sc'.blocked = sc.blocked /\ sc'.timer = sc.timer
      BY <1>1 DEF Whole, Connection
    <2> QED BY <1>1, <2>1, <2>2 DEF Whole, Quiet
  <1>2. CASE LoopExit
    BY <1>1, <1>2 DEF LoopExit, Advance
  <1>3. CASE TryStart
    BY <1>1, <1>3 DEF TryStart, Advance
  <1> QED BY <1>2, <1>3

\* The record with which a wait begins.
LEMMA GoesToWait ==
  ASSUME NEW c, Half(c)
  PROVE  LET d == [c EXCEPT !.pc = "wait"]
         IN  /\ Half(d) /\ d.pc = "wait" /\ d.queue = c.queue /\ d.stop_pc = c.stop_pc
             /\ d.shutdown_once = c.shutdown_once /\ d.sme_state = c.sme_state
             /\ d.trusted = c.trusted
  <1> DEFINE d == [c EXCEPT !.pc = "wait"]
  <1>1. d \in Connection
    BY DEF Half, Connection
  <1>2. /\ d.sme_state = c.sme_state /\ d.trusted = c.trusted
        /\ d.shutdown_once = c.shutdown_once /\ d.closed_reports = c.closed_reports
        /\ d.queue = c.queue /\ d.pc = "wait" /\ d.stop_pc = c.stop_pc
        /\ d.blocked = c.blocked /\ d.timer = c.timer
    BY DEF Half, Connection
  <1> HIDE DEF d
  <1>3. Half(d)
    BY <1>1, <1>2 DEF Half, Quiet
  <1>4. /\ Half(d) /\ d.pc = "wait" /\ d.queue = c.queue /\ d.stop_pc = c.stop_pc
        /\ d.shutdown_once = c.shutdown_once /\ d.sme_state = c.sme_state
        /\ d.trusted = c.trusted
    BY <1>2, <1>3
  <1> QED BY <1>4 DEF d

\* The wait of a listen state.
LEMMA BeginWaitStep ==
  ASSUME Whole(sc), BeginWait
  PROVE  Whole(sc')
  <1> DEFINE c == [sc EXCEPT !.pc = "wait"]
  <1>1. Half(sc) /\ ~sc.shutdown_once /\ Len(sc.queue) <= Capacity
        /\ sc.stop_pc \notin {"done", "destructed"}
    BY WholeHalf DEF BeginWait, In, Whole
  <1>2. /\ Half(c) /\ c.pc = "wait" /\ ~c.shutdown_once
        /\ Len(c.queue) <= Capacity /\ c.stop_pc \notin {"done", "destructed"}
    BY <1>1, GoesToWait
  <1>3. Advance(TimerStart(c, "wait_for_ready", "long"))
    BY DEF BeginWait
  <1> HIDE DEF c
  <1> QED BY <1>2, <1>3, WaitLands DEF Advance

\* The outcome of a write is a Boolean.
LEMMA WriteResultsType == WriteResults \subseteq BOOLEAN
  BY ConnectionAssumption

\* Connection mode initialisation keeps the invariant.
LEMMA CmiStep ==
  ASSUME Whole(sc),
         \/ CmiStateClientSend \/ CmiStateClientWait \/ CmiStateServerWait
         \/ CmiStateClientEvaluate \/ CmiStateServerEvaluate
  PROVE  Whole(sc')
  <1>1. CASE CmiStateClientSend
    <2>1. Open(sc) /\ sc.pc = "run"
      BY <1>1, InOpen DEF CmiStateClientSend, Over
    <2>2. PICK ok \in WriteResults :
            Advance(SendThen(sc, Frame("init", "ok", "none"), "CmiStateClientWait", ok,
                             CloseWithError(sc)))
      BY <1>1 DEF CmiStateClientSend
    <2>3. Done(CloseWithError(sc), sc)
      BY <2>1, CloseWithErrorDone DEF Open
    <2>4. Done(SendThen(sc, Frame("init", "ok", "none"), "CmiStateClientWait", ok,
                        CloseWithError(sc)), sc)
      BY <2>1, <2>3, SendThenDone, WrittenFrames, UntrustedStates, WriteResultsType
    <2> QED BY <2>1, <2>2, <2>4, RunLands
  <1>2. ASSUME NEW st \in {"CmiStateClientWait", "CmiStateServerWait"},
               NEW next \in {"CmiStateClientEvaluate", "CmiStateServerEvaluate"},
               CmiWait(st, next)
        PROVE  Whole(sc')
    <2> DEFINE c == [Taken EXCEPT !.cur = sc.cur]
    <2>1. Open(Taken) /\ sc.pc = "got"
      BY <1>2, GotOpen DEF CmiWait, Over
    <2>2. Same(c, Taken)
      <3>1. sc.cur \in [type : MsgTypes \cup {"None"}, frame : FrameType]
        BY Fields DEF Whole
      <3> HIDE DEF Taken
      <3>2. c \in Connection
        BY <2>1, <3>1 DEF Open, Half, Connection
      <3>3. /\ c.sme_state = Taken.sme_state /\ c.trusted = Taken.trusted
            /\ c.shutdown_once = Taken.shutdown_once
            /\ c.closed_reports = Taken.closed_reports
            /\ c.queue = Taken.queue /\ c.pc = Taken.pc /\ c.stop_pc = Taken.stop_pc
            /\ c.blocked = Taken.blocked /\ c.timer = Taken.timer
        BY <2>1 DEF Open, Half, Connection
      <3> HIDE DEF c
      <3> QED BY <2>1, <3>2, <3>3, OtherFields DEF Open
    <2>3. Advance(IF HasFrame THEN SetSmeState(c, next) ELSE CloseWithError(Taken))
      BY <1>2 DEF CmiWait
    <2> HIDE DEF c
    <2>4. Done(SetSmeState(c, next), Taken)
      BY <2>1, <2>2, SameOpen, GoesUntrusted, SameDone
    <2>5. Done(CloseWithError(Taken), Taken)
      BY <2>1, CloseWithErrorDone DEF Open
    <2> QED BY <2>1, <2>3, <2>4, <2>5, GotLands
  <1>3. ASSUME NEW st \in {"CmiStateClientEvaluate", "CmiStateServerEvaluate"}, In(st)
        PROVE  /\ Open(sc) /\ sc.pc = "run"
               /\ Same([sc EXCEPT !.cur = NoMsg], sc)
    <2> DEFINE c == [sc EXCEPT !.cur = NoMsg]
    <2>1. Open(sc) /\ sc.pc = "run"
      BY <1>3, InOpen DEF Over
    <2>2. NoMsg \in [type : MsgTypes \cup {"None"}, frame : FrameType]
      BY DEF NoMsg, Msg, NoFrame, Frame, FrameType, Kinds, Vals, Subs
    <2>3. c \in Connection
      BY <2>2 DEF Whole, Connection
    <2>4. /\ c.sme_state = sc.sme_state /\ c.trusted = sc.trusted
          /\ c.shutdown_once = sc.shutdown_once /\ c.closed_reports = sc.closed_reports
          /\ c.queue = sc.queue /\ c.pc = sc.pc /\ c.stop_pc = sc.stop_pc
          /\ c.blocked = sc.blocked /\ c.timer = sc.timer
      BY DEF Whole, Connection
    <2> HIDE DEF c
    <2>5. Same(c, sc)
      BY <2>1, <2>3, <2>4, OtherFields DEF Open
    <2> QED BY <2>1, <2>5 DEF c
  <1>4. CASE CmiStateClientEvaluate \/ CmiStateServerEvaluate
    <2> DEFINE c == [sc EXCEPT !.cur = NoMsg]
               g == SetSmeState(c, "SmeHelloState")
    <2>1. Open(sc) /\ sc.pc = "run" /\ Same(c, sc)
      BY <1>3, <1>4 DEF CmiStateClientEvaluate, CmiStateServerEvaluate
    <2>2. CASE CmiStateClientEvaluate
      <3>1. Advance(IF IsInit(sc.cur.frame) THEN g ELSE CloseWithError(c))
        BY <2>2 DEF CmiStateClientEvaluate
      <3> HIDE DEF c
      <3>2. Done(g, sc)
        BY <2>1, SameOpen, GoesUntrusted, SameDone
      <3>3. Done(CloseWithError(c), sc)
        BY <2>1, SameOpen, CloseWithErrorDone, SameDone DEF Open
      <3> QED BY <2>1, <3>1, <3>2, <3>3, RunLands
    <2>3. CASE CmiStateServerEvaluate
      <3>1. PICK ok \in WriteResults :
              Advance(IF IsInit(sc.cur.frame)
                      THEN SendThen(c, Frame("init", "ok", "none"), "SmeHelloState", ok,
                                    CloseWithError(c))
                      ELSE CloseWithError(c))
        BY <2>3 DEF CmiStateServerEvaluate
      <3> HIDE DEF c
      <3>2. Open(c)
        BY <2>1, SameOpen
      <3>3. Done(CloseWithError(c), c)
        BY <3>2, CloseWithErrorDone DEF Open
      <3>4. Done(SendThen(c, Frame("init", "ok", "none"), "SmeHelloState", ok,
                          CloseWithError(c)), c)
        BY <3>2, <3>3, SendThenDone, WrittenFrames, UntrustedStates, WriteResultsType
      <3>5. Done(CloseWithError(c), sc)
            /\ Done(SendThen(c, Frame("init", "ok", "none"), "SmeHelloState", ok,
                             CloseWithError(c)), sc)
        BY <2>1, <3>3, <3>4, SameDone
      <3> QED BY <2>1, <3>1, <3>5, RunLands
    <2> QED BY <1>4, <2>2, <2>3
  <1> QED BY <1>1, <1>2, <1>4 DEF CmiStateClientWait, CmiStateServerWait

\* The trust that a state stands for.
LEMMA TrustOf ==
  ASSUME Whole(sc), sc.sme_state \in Trusting
  PROVE  sc.trusted
  BY DEF Whole

\* The hello phase keeps the invariant: its two ways into READY set trusted.
LEMMA HelloStep ==
  ASSUME Whole(sc), HelloPhase
  PROVE  Whole(sc')
  <1>1. CASE SmeHelloState
    <2>1. Open(sc) /\ sc.pc = "run"
      BY <1>1, InOpen DEF SmeHelloState, Over
    <2>2. /\ Done(SetSmeState([sc EXCEPT !.trusted = TRUE], "SmeHelloStateReadyInit"), sc)
          /\ Done(SetSmeState(sc, "SmeHelloStatePendingInit"), sc)
      BY <2>1, TrustedDone, GoesUntrusted
    <2>3. \/ Advance(SetSmeState([sc EXCEPT !.trusted = TRUE], "SmeHelloStateReadyInit"))
          \/ Advance(SetSmeState(sc, "SmeHelloStatePendingInit"))
      BY <1>1 DEF SmeHelloState
    <2> QED BY <2>1, <2>2, <2>3, RunLands
  <1>2. CASE SmeHelloStateReadyInit
    <2> DEFINE c == StopPairTimers(sc)
               next == IF sc.remote_hello_ready THEN "SmeHelloStateOk"
                       ELSE "SmeHelloStateReadyListen"
    <2>1. Open(sc) /\ sc.pc = "run" /\ sc.trusted
      BY <1>2, InOpen, TrustOf DEF SmeHelloStateReadyInit, Over, Trusting, ReadyStates
    <2>2. Same(c, sc) /\ Open(c) /\ c.trusted
      BY <2>1, StopPairSame, SameOpen DEF Open
    <2>3. PICK ok \in WriteResults :
            Advance(SendThen(c, Hello("ready", "long"), next, ok,
                             SetSmeState(c, "SmeHelloStateAbort")))
      BY <1>2 DEF SmeHelloStateReadyInit
    <2>4. next \in SmeStates
      BY UntrustedStates DEF Trusting, HelloOkStates, ReadyStates
    <2> HIDE DEF c, next
    <2>5. Done(SetSmeState(c, "SmeHelloStateAbort"), c)
      BY <2>2, GoesUntrusted
    <2>6. Done(SendThen(c, Hello("ready", "long"), next, ok,
                        SetSmeState(c, "SmeHelloStateAbort")), c)
      BY <2>2, <2>4, <2>5, SendThenDone, WrittenFrames, WriteResultsType
    <2> QED BY <2>1, <2>2, <2>3, <2>6, SameDone, RunLands
  <1>3. CASE SmeHelloStatePendingInit
    <2> DEFINE c == StopPairTimers(sc)
    <2>1. Open(sc) /\ sc.pc = "run"
      BY <1>3, InOpen DEF SmeHelloStatePendingInit, Over
    <2>2. Same(c, sc) /\ Open(c)
      BY <2>1, StopPairSame, SameOpen DEF Open
    <2>3. PICK ok \in WriteResults :
            Advance(SendThen(c, Hello("pending", "long"), "SmeHelloStatePendingListen", ok,
                             SetSmeState(c, "SmeHelloStateAbort")))
      BY <1>3 DEF SmeHelloStatePendingInit
    <2> HIDE DEF c
    <2>5. Done(SetSmeState(c, "SmeHelloStateAbort"), c)
      BY <2>2, GoesUntrusted
    <2>6. Done(SendThen(c, Hello("pending", "long"), "SmeHelloStatePendingListen", ok,
                        SetSmeState(c, "SmeHelloStateAbort")), c)
      BY <2>2, <2>5, SendThenDone, WrittenFrames, WriteResultsType, UntrustedStates
    <2> QED BY <2>1, <2>2, <2>3, <2>6, SameDone, RunLands
  <1>4. CASE SmeHelloStateReadyListen
    <2>1. /\ Open(Taken) /\ Taken.trusted /\ sc.pc = "got"
          /\ sc.cur.frame \in FrameType
      BY <1>4, GotOpen DEF SmeHelloStateReadyListen, Over, Trusting, ReadyStates
    <2>2. PICK ok \in WriteResults :
            Advance(IF HasFrame THEN ReadyEvaluate(Taken, sc.cur.frame, ok)
                    ELSE SetSmeState(Taken, IF IsTimeout THEN "SmeHelloStateReadyTimeout"
                                            ELSE "SmeHelloStateAbort"))
      BY <1>4 DEF SmeHelloStateReadyListen
    <2>3. Done(ReadyEvaluate(Taken, sc.cur.frame, ok), Taken)
      BY <2>1, ReadyEvaluateDone, WriteResultsType
    <2>4. /\ Done(SetSmeState(Taken, "SmeHelloStateReadyTimeout"), Taken)
          /\ Done(SetSmeState(Taken, "SmeHelloStateAbort"), Taken)
      BY <2>1, GoesUntrusted
    <2> QED BY <2>1, <2>2, <2>3, <2>4, GotLands
  <1>5. CASE SmeHelloStatePendingListen
    <2>1. Open(Taken) /\ sc.pc = "got" /\ sc.cur.frame \in FrameType
      BY <1>5, GotOpen DEF SmeHelloStatePendingListen, Over
    <2>2. PICK ok \in WriteResults, accepted \in BOOLEAN :
            Advance(CASE HasFrame -> PendingEvaluate(Taken, sc.cur.frame, ok)
                      [] sc.cur.type \in TrustTypes ->
                           PendingDecided(Taken, sc.cur.type = "TrustGranted", accepted)
                      [] IsTimeout -> SetSmeState(Taken, "SmeHelloStatePendingTimeout")
                      [] OTHER -> SetSmeState(Taken, "SmeHelloStateAbort"))
      BY <1>5 DEF SmeHelloStatePendingListen
    <2>3. Done(PendingEvaluate(Taken, sc.cur.frame, ok), Taken)
      BY <2>1, PendingEvaluateDone, WriteResultsType
    <2>4. Done(PendingDecided(Taken, sc.cur.type = "TrustGranted", accepted), Taken)
      BY <2>1, PendingDecidedDone
    <2>5. /\ Done(SetSmeState(Taken, "SmeHelloStatePendingTimeout"), Taken)
          /\ Done(SetSmeState(Taken, "SmeHelloStateAbort"), Taken)
      BY <2>1, GoesUntrusted
    <2> QED BY <2>1, <2>2, <2>3, <2>4, <2>5, GotLands DEF HasFrame, TrustTypes, IsTimeout
  <1>6. CASE SmeHelloStatePendingTimeout
    <2>1. Open(sc) /\ sc.pc = "run"
      BY <1>6, InOpen DEF SmeHelloStatePendingTimeout, Over
    <2>2. \A remaining \in Waitings : Done(RequestProlongation(sc, remaining), sc)
      BY <2>1, RequestProlongationDone
    <2>3. /\ Done(SetSmeState(sc, "SmeHelloStateAbort"), sc)
          /\ Done(CloseWithError(sc), sc) /\ Done(sc, sc)
      BY <2>1, GoesUntrusted, CloseWithErrorDone DEF Open, Done, Kept
    <2>4. Remaining(sc.reply_timeout) \subseteq Waitings
      BY DEF Remaining, Waitings
    <2>5. \/ Advance(SetSmeState(sc, "SmeHelloStateAbort"))
          \/ \E remaining \in Waitings : Advance(RequestProlongation(sc, remaining))
          \/ Advance(CloseWithError(sc)) \/ Advance(sc)
      BY <1>6, <2>4 DEF SmeHelloStatePendingTimeout
    <2> QED BY <2>1, <2>2, <2>3, <2>5, RunLands
  <1>7. CASE SmeHelloStateOk
    <2>1. Open(sc) /\ sc.pc = "run" /\ sc.trusted
      BY <1>7, InOpen, TrustOf DEF SmeHelloStateOk, Over, Trusting, HelloOkStates
    <2>2. /\ Done(SetSmeState(sc, "SmeProtHStateClientInit"), sc)
          /\ Done(SetSmeState(sc, "SmeProtHStateServerInit"), sc)
      BY <2>1, Goes, UntrustedStates DEF Trusting, HelloOkStates
    <2> QED BY <1>7, <2>1, <2>2, RunLands DEF SmeHelloStateOk
  <1>8. CASE SmeHelloStateAbort
    <2>1. Half(sc) /\ sc.pc = "run"
      BY <1>8, WholeHalf DEF SmeHelloStateAbort, In
    <2>2. PICK ok \in WriteResults : Advance(HelloAbort(sc, ok))
      BY <1>8 DEF SmeHelloStateAbort
    <2> QED BY <2>1, <2>2, HelloAbortDone, RunLands, WriteResultsType
  <1> QED BY <1>1, <1>2, <1>3, <1>4, <1>5, <1>6, <1>7, <1>8 DEF HelloPhase

\* The protocol handshake keeps the invariant.
LEMMA ProtocolStep ==
  ASSUME Whole(sc), ProtocolPhase
  PROVE  Whole(sc')
  <1>0. \A st \in HelloOkStates \cup ProtOkStates : st \in SmeStates /\ st \in Trusting
    BY UntrustedStates DEF Trusting
  <1>1. CASE SmeProtHandshakeStateClientInit
    <2> DEFINE c == TimerStop(sc, "wait_for_ready")
    <2>1. Open(sc) /\ sc.pc = "run" /\ sc.trusted
      BY <1>1, InOpen, TrustOf
         DEF SmeProtHandshakeStateClientInit, Over, Trusting, HelloOkStates
    <2>2. Same(c, sc) /\ Open(c) /\ c.trusted
      BY <2>1, TimerStopSame, SameOpen DEF Open, Timers
    <2>3. PICK ok \in WriteResults :
            Advance(SendThen(c, Frame("prot", "announceMax", "max"),
                             "SmeProtHStateClientListenChoice", ok, CloseWithError(c)))
      BY <1>1 DEF SmeProtHandshakeStateClientInit
    <2> HIDE DEF c
    <2>4. Done(CloseWithError(c), c)
      BY <2>2, CloseWithErrorDone DEF Open
    <2>5. Done(SendThen(c, Frame("prot", "announceMax", "max"),
                        "SmeProtHStateClientListenChoice", ok, CloseWithError(c)), c)
      <3>1. "SmeProtHStateClientListenChoice" \in SmeStates
        BY <1>0 DEF HelloOkStates
      <3> QED BY <2>2, <2>4, <3>1, SendThenDone, WrittenFrames, WriteResultsType
    <2> QED BY <2>1, <2>2, <2>3, <2>5, SameDone, RunLands
  <1>2. CASE SmeProtHandshakeStateClientListenChoice
    <2> DEFINE c == TimerStop(Taken, "wait_for_ready")
    <2>1. Open(Taken) /\ sc.pc = "got" /\ Taken.trusted
      BY <1>2, GotOpen
         DEF SmeProtHandshakeStateClientListenChoice, Over, Trusting, HelloOkStates
    <2>2. Same(c, Taken) /\ Open(c) /\ c.trusted
      BY <2>1, TimerStopSame, SameOpen DEF Open, Timers
    <2>3. PICK ok \in WriteResults :
            \/ Advance(SendThen(c, Frame("prot", "select", "max"),
                                "SmeProtHStateClientOk", ok, CloseWithError(c)))
            \/ Advance(ProtAbort(Taken, ok))
      BY <1>2 DEF SmeProtHandshakeStateClientListenChoice
    <2> HIDE DEF c
    <2>4. Done(CloseWithError(c), c)
      BY <2>2, CloseWithErrorDone DEF Open
    <2>5. Done(SendThen(c, Frame("prot", "select", "max"), "SmeProtHStateClientOk", ok,
                        CloseWithError(c)), c)
      <3>1. "SmeProtHStateClientOk" \in SmeStates
        BY <1>0 DEF ProtOkStates
      <3> QED BY <2>2, <2>4, <3>1, SendThenDone, WrittenFrames, WriteResultsType
    <2>6. Done(ProtAbort(Taken, ok), Taken)
      BY <2>1, ProtAbortDone, WriteResultsType DEF Open
    <2> QED BY <2>1, <2>2, <2>3, <2>5, <2>6, SameDone, GotLands
  <1>3. CASE SmeProtHandshakeStateServerInit
    <2> DEFINE c == TimerStop(sc, "wait_for_ready")
    <2>1. Open(sc) /\ sc.pc = "run" /\ sc.trusted
      BY <1>3, InOpen, TrustOf
         DEF SmeProtHandshakeStateServerInit, Over, Trusting, HelloOkStates
    <2>2. Same(c, sc) /\ Open(c) /\ c.trusted
      BY <2>1, TimerStopSame, SameOpen DEF Open, Timers
    <2>3. Advance(SetSmeState(c, "SmeProtHStateServerListenProposal"))
      BY <1>3 DEF SmeProtHandshakeStateServerInit
    <2> HIDE DEF c
    <2>4. Done(SetSmeState(c, "SmeProtHStateServerListenProposal"), c)
      BY <1>0, <2>2, Goes DEF HelloOkStates
    <2> QED BY <2>1, <2>2, <2>3, <2>4, SameDone, RunLands
  <1>4. CASE SmeProtHandshakeStateServerListenProposal
    <2> DEFINE c == TimerStop(Taken, "wait_for_ready")
               f == Frame("prot", "select", sc.cur.frame.sub)
    <2>1. /\ Open(Taken) /\ sc.pc = "got" /\ Taken.trusted
          /\ sc.cur.frame \in FrameType
      BY <1>4, GotOpen
         DEF SmeProtHandshakeStateServerListenProposal, Over, Trusting, HelloOkStates
    <2>2. Same(c, Taken) /\ Open(c) /\ c.trusted
      BY <2>1, TimerStopSame, SameOpen DEF Open, Timers
    <2>3. PICK ok \in WriteResults :
            \/ Advance(SendThen(c, f, "SmeProtHStateServerListenConfirm", ok,
                                CloseWithError(c)))
            \/ Advance(ProtAbort(Taken, ok))
      BY <1>4 DEF SmeProtHandshakeStateServerListenProposal
    <2>4. f \in FrameType
      BY <2>1 DEF Frame, FrameType, Kinds, Vals
    <2> HIDE DEF c, f
    <2>5. Done(CloseWithError(c), c)
      BY <2>2, CloseWithErrorDone DEF Open
    <2>6. Done(SendThen(c, f, "SmeProtHStateServerListenConfirm", ok, CloseWithError(c)), c)
      <3>1. "SmeProtHStateServerListenConfirm" \in SmeStates
        BY <1>0 DEF HelloOkStates
      <3> QED BY <2>2, <2>4, <2>5, <3>1, SendThenDone, WriteResultsType
    <2>7. Done(ProtAbort(Taken, ok), Taken)
      BY <2>1, ProtAbortDone, WriteResultsType DEF Open
    <2> QED BY <2>1, <2>2, <2>3, <2>6, <2>7, SameDone, GotLands
  <1>5. CASE SmeProtHandshakeStateServerListenConfirm
    <2>1. Open(Taken) /\ sc.pc = "got" /\ Taken.trusted
      BY <1>5, GotOpen
         DEF SmeProtHandshakeStateServerListenConfirm, Over, Trusting, HelloOkStates
    <2>2. PICK ok \in WriteResults :
            \/ Advance(SetSmeState(Taken, "SmeProtHStateServerOk"))
            \/ Advance(ProtAbort(Taken, ok))
      BY <1>5 DEF SmeProtHandshakeStateServerListenConfirm
    <2>3. Done(SetSmeState(Taken, "SmeProtHStateServerOk"), Taken)
      BY <1>0, <2>1, Goes DEF ProtOkStates
    <2>4. Done(ProtAbort(Taken, ok), Taken)
      BY <2>1, ProtAbortDone, WriteResultsType DEF Open
    <2> QED BY <2>1, <2>2, <2>3, <2>4, GotLands
  <1>6. CASE SmeProtHStateOk
    <2>1. Open(sc) /\ sc.pc = "run" /\ sc.trusted
      BY <1>6, InOpen, TrustOf DEF SmeProtHStateOk, Over, Trusting, ProtOkStates
    <2>2. Done(SetSmeState(sc, "SmePinStateCheckInit"), sc)
      BY <1>0, <2>1, Goes DEF ProtOkStates
    <2> QED BY <1>6, <2>1, <2>2, RunLands DEF SmeProtHStateOk
  <1> QED BY <1>1, <1>2, <1>3, <1>4, <1>5, <1>6 DEF ProtocolPhase

\* The PIN check keeps the invariant, the wait inside SmePinStateCheckInit included.
LEMMA PinStep ==
  ASSUME Whole(sc),
         \/ SmePinStateCheckInitSend \/ SmePinStateCheckInit \/ SmePinStateCheckListen
         \/ SmePinStateCheckBusyWait \/ SmePinStateCheckOk \/ SmeStateApproved
  PROVE  Whole(sc')
  <1>0. \A st \in ProtOkStates \cup PinOkStates : st \in SmeStates /\ st \in Trusting
    BY UntrustedStates DEF Trusting
  <1>1. CASE SmePinStateCheckInitSend
    <2> DEFINE c == Sent(sc, Frame("pin", "none", "none"))
               d == [c EXCEPT !.pc = "wait"]
    <2>1. Open(sc) /\ sc.pc = "run"
      BY <1>1, InOpen DEF SmePinStateCheckInitSend, Over
    <2>2. Same(c, sc)
      BY <2>1, SentSame, WrittenFrames DEF Open
    <2>3. \/ Advance(TimerStart(d, "wait_for_ready", "long"))
          \/ Advance(CloseWithError(sc))
      BY <1>1 DEF SmePinStateCheckInitSend
    <2> HIDE DEF c
    <2>4. CASE Advance(TimerStart(d, "wait_for_ready", "long"))
      <3>1. /\ Half(d) /\ d.pc = "wait" /\ d.queue = c.queue /\ d.stop_pc = c.stop_pc
            /\ d.shutdown_once = c.shutdown_once
        BY <2>2, GoesToWait DEF Same
      <3> HIDE DEF d
      <3>2. /\ ~d.shutdown_once /\ Len(d.queue) <= Capacity
            /\ d.stop_pc \notin {"done", "destructed"}
        BY <2>1, <2>2, <3>1 DEF Same, Kept, Open, Whole
      <3> QED BY <2>4, <3>1, <3>2, WaitLands DEF Advance
    <2>5. CASE Advance(CloseWithError(sc))
      BY <2>1, <2>5, CloseWithErrorDone, RunLands DEF Open
    <2> QED BY <2>3, <2>4, <2>5
  <1>2. CASE SmePinStateCheckInit
    <2>1. /\ Open(Taken) /\ sc.pc = "got" /\ Taken.trusted /\ sc.cur.frame \in FrameType
      BY <1>2, GotOpen DEF SmePinStateCheckInit, Over, Trusting, ProtOkStates
    <2>2. \/ Advance(CloseWithError(Taken))
          \/ Advance(PinRequirement(Taken, sc.cur.frame))
          \/ Advance(SetSmeState(Taken, "SmeHelloStateAbort"))
      BY <1>2 DEF SmePinStateCheckInit
    <2>3. /\ Done(CloseWithError(Taken), Taken)
          /\ Done(PinRequirement(Taken, sc.cur.frame), Taken)
          /\ Done(SetSmeState(Taken, "SmeHelloStateAbort"), Taken)
      BY <2>1, CloseWithErrorDone, PinRequirementDone, GoesUntrusted DEF Open
    <2> QED BY <2>1, <2>2, <2>3, GotLands
  <1>3. CASE SmePinStateCheckListen
    <2>1. Open(Taken) /\ sc.pc = "got" /\ Taken.trusted
      BY <1>3, GotOpen DEF SmePinStateCheckListen, Over, Trusting, ProtOkStates
    <2>2. /\ Done(CloseWithError(Taken), Taken)
          /\ Done(SetSmeState(Taken, "SmePinStateCheckOk"), Taken)
      BY <1>0, <2>1, CloseWithErrorDone, Goes DEF Open, PinOkStates
    <2> QED BY <1>3, <2>1, <2>2, GotLands DEF SmePinStateCheckListen
  <1>4. CASE SmePinStateCheckBusyWait
    <2>1. Open(sc) /\ sc.pc = "run" /\ sc.trusted
      BY <1>4, InOpen, TrustOf DEF SmePinStateCheckBusyWait, Over, Trusting, ProtOkStates
    <2>2. Done(SetSmeState(sc, "SmePinStateCheckListen"), sc)
      BY <1>0, <2>1, Goes DEF ProtOkStates
    <2> QED BY <1>4, <2>1, <2>2, RunLands DEF SmePinStateCheckBusyWait
  <1>5. CASE SmePinStateCheckOk
    <2>1. Open(sc) /\ sc.pc = "run" /\ sc.trusted
      BY <1>5, InOpen, TrustOf DEF SmePinStateCheckOk, Over, Trusting, PinOkStates
    <2>2. Done(SetSmeState(sc, "SmeStateApproved"), sc)
      BY <1>0, <2>1, Goes DEF PinOkStates
    <2> QED BY <1>5, <2>1, <2>2, RunLands DEF SmePinStateCheckOk
  <1>6. CASE SmeStateApproved
    <2> DEFINE c == TimerStop(sc, "wait_for_ready")
    <2>1. Open(sc) /\ sc.pc = "run" /\ sc.trusted
      BY <1>6, InOpen, TrustOf DEF SmeStateApproved, Over, Trusting, PinOkStates
    <2>2. Same(c, sc) /\ Open(c) /\ c.trusted
      BY <2>1, TimerStopSame, SameOpen DEF Open, Timers
    <2>3. Advance(SetSmeState(c, "DataExchange"))
      BY <1>6 DEF SmeStateApproved
    <2> HIDE DEF c
    <2>4. Done(SetSmeState(c, "DataExchange"), c)
      BY <1>0, <2>2, Goes DEF PinOkStates
    <2> QED BY <2>1, <2>2, <2>3, <2>4, SameDone, RunLands
  <1> QED BY <1>1, <1>2, <1>3, <1>4, <1>5, <1>6

\* Data exchange does not use the handshake's wait.
LEMMA DataWaits ==
  ASSUME NEW c, Half(c), c.pc = "wait", ~c.blocked, c.sme_state \in Over,
         c.shutdown_once => c.sme_state = "SmeStateError",
         Len(c.queue) <= Capacity, c.stop_pc \notin {"done", "destructed"}
  PROVE  Whole(c)
  BY DEF Half, Whole

\* The way into the receive of data exchange, shut or not.
LEMMA DataExchangeBeginStep ==
  ASSUME Whole(sc), DataExchangeBegin
  PROVE  Whole(sc')
  <1> DEFINE c == [sc EXCEPT !.pc = "wait", !.is_access_methods_req_sent = TRUE]
             f == Frame("accessReq", "none", "none")
             d == Sent(c, f)
             e == TimerStart(d, "wait_for_ready", "long")
  <1>1. /\ Half(sc) /\ sc.sme_state = "DataExchange" /\ ~sc.shutdown_once
        /\ Len(sc.queue) <= Capacity /\ sc.stop_pc \notin {"done", "destructed"}
    BY WholeHalf DEF DataExchangeBegin, In, Whole
  <1>2. c \in Connection
    BY <1>1 DEF Half, Connection
  <1>3. /\ c.sme_state = sc.sme_state /\ c.trusted = sc.trusted
        /\ c.shutdown_once = sc.shutdown_once /\ c.closed_reports = sc.closed_reports
        /\ c.queue = sc.queue /\ c.pc = "wait" /\ c.stop_pc = sc.stop_pc
        /\ c.blocked = sc.blocked /\ c.timer = sc.timer
    BY <1>1 DEF Half, Connection
  <1>4. Advance(c) \/ Advance(e) \/ Advance(CloseWithError(c))
    BY DEF DataExchangeBegin
  <1> HIDE DEF c
  <1>5. Half(c) /\ c.sme_state \in Over
    BY <1>1, <1>2, <1>3 DEF Half, Quiet, Over
  <1>6. CASE Advance(c)
    BY <1>1, <1>3, <1>5, <1>6, DataWaits DEF Advance
  <1>7. CASE Advance(e)
    <2>1. Same(d, c)
      BY <1>5, SentSame, WrittenFrames
    <2> HIDE DEF d
    <2>2. Same(e, d)
      BY <1>1, <1>3, <2>1, TimerStartSame DEF Same, Timers
    <2> HIDE DEF e
    <2>3. Whole(e)
      BY <1>1, <1>3, <1>5, <1>7, <2>1, <2>2, DataWaits DEF Same, Kept, Advance
    <2> QED BY <1>7, <2>3 DEF Advance
  <1>8. CASE Advance(CloseWithError(c))
    <2> DEFINE g == CloseWithError(c)
    <2>1. Done(g, c) /\ g.sme_state = "SmeStateError"
      BY <1>5, CloseWithErrorDone
    <2> HIDE DEF g
    <2>2. ~g.blocked => Whole(g)
      BY <1>1, <1>3, <2>1, DataWaits DEF Done, Kept, Over
    <2> QED BY <1>8, <2>2 DEF Advance, g
  <1> QED BY <1>4, <1>6, <1>7, <1>8

\* A message in data exchange keeps the invariant.
LEMMA DataExchangeStep ==
  ASSUME Whole(sc), DataExchange
  PROVE  Whole(sc')
  <1> DEFINE c == [sc EXCEPT !.pc = "run", !.cur = NoMsg]
  <1>1. sc.pc = "got" /\ sc.sme_state \in Over
    BY DEF DataExchange, Got, Over
  <1>2. NoMsg \in [type : MsgTypes \cup {"None"}, frame : FrameType]
    BY DEF NoMsg, Msg, NoFrame, Frame, FrameType, Kinds, Vals, Subs
  <1>3. c \in Connection
    BY <1>2 DEF Whole, Connection
  <1>4. /\ c.sme_state = sc.sme_state /\ c.trusted = sc.trusted
        /\ c.shutdown_once = sc.shutdown_once /\ c.closed_reports = sc.closed_reports
        /\ c.queue = sc.queue /\ c.pc = "run" /\ c.stop_pc = sc.stop_pc
        /\ c.blocked = sc.blocked /\ c.timer = sc.timer
    BY DEF Whole, Connection
  <1>5. PICK ok \in WriteResults :
          \/ Advance(HandleReceive(c, sc.cur.frame, ok))
          \/ Advance(Sent(c, Frame("data", "ok", "none")))
          \/ Advance(CloseWithError(CloseConnection(c, TRUE)))
          \/ Advance(CloseWithError(c))
    BY DEF DataExchange
  <1> HIDE DEF c
  <1>6. Half(c)
    BY <1>1, <1>3, <1>4 DEF Half, Whole, Quiet
  <1>7. sc.cur.frame \in FrameType
    BY Fields DEF Whole
  <1>8. /\ Done(HandleReceive(c, sc.cur.frame, ok), c)
        /\ Done(CloseWithError(c), c)
    BY <1>6, <1>7, HandleReceiveDone, CloseWithErrorDone, WriteResultsType
  <1>9. Done(Sent(c, Frame("data", "ok", "none")), c)
    BY <1>6, SentSame, SameIsDone, WrittenFrames
  <1>10. Done(CloseWithError(CloseConnection(c, TRUE)), c)
    <2>1. Done(CloseConnection(c, TRUE), c)
      BY <1>6, CloseConnectionDone
    <2>2. Done(CloseWithError(CloseConnection(c, TRUE)), CloseConnection(c, TRUE))
      BY <2>1, CloseWithErrorDone DEF Done
    <2> QED BY <2>1, <2>2, DoneTrans
  <1>11. ASSUME NEW d, Done(d, c), Advance(d)
         PROVE  Whole(sc')
    <2>1. c.stop_pc \notin {"done", "destructed"} /\ Len(c.queue) <= Capacity
      BY <1>1, <1>4 DEF Whole
    <2>2. Whole(d)
      BY <1>4, <1>11, <2>1, Landing DEF Advance
    <2> QED BY <1>11, <2>2 DEF Advance
  <1> QED BY <1>5, <1>8, <1>9, <1>10, <1>11

\* A queue that loses its first message, or gets another, and its timeouts.
LEMMA TimeoutTail ==
  ASSUME NEW S, NEW q \in Seq(S), q # <<>>, Head(q).type # "Timeout", TimeoutQueued(q)
  PROVE  TimeoutQueued(Tail(q))
  <1>1. PICK i \in 1 .. Len(q) : q[i].type = "Timeout"
    BY DEF TimeoutQueued
  <1>2. i - 1 \in 1 .. Len(Tail(q)) /\ Tail(q)[i - 1] = q[i]
    BY <1>1
  <1> QED BY <1>1, <1>2 DEF TimeoutQueued

\* A queue that gets another message keeps its timeouts.
LEMMA TimeoutAppend ==
  ASSUME NEW S, NEW q \in Seq(S), NEW m \in S,
         TimeoutQueued(q) \/ m.type = "Timeout"
  PROVE  TimeoutQueued(Append(q, m))
  <1>1. CASE TimeoutQueued(q)
    <2>1. PICK i \in 1 .. Len(q) : q[i].type = "Timeout"
      BY <1>1 DEF TimeoutQueued
    <2>2. i \in 1 .. Len(Append(q, m)) /\ Append(q, m)[i] = q[i]
      BY <2>1
    <2> QED BY <2>1, <2>2 DEF TimeoutQueued
  <1>2. CASE m.type = "Timeout"
    <2>1. Len(q) + 1 \in 1 .. Len(Append(q, m)) /\ Append(q, m)[Len(q) + 1] = m
      OBVIOUS
    <2> QED BY <1>2, <2>1 DEF TimeoutQueued
  <1> QED BY <1>1, <1>2

\* A message more in a queue.
LEMMA Posted ==
  ASSUME NEW S, NEW q \in Seq(S), NEW m \in S
  PROVE  Append(q, m) \in Seq(S) /\ Len(Append(q, m)) = Len(q) + 1 /\ Len(q) \in Nat
  OBVIOUS

\* A receive may take the timeout only out of the wait that it ends.
LEMMA ReceiveStep ==
  ASSUME Whole(sc), Receive
  PROVE  Whole(sc')
  <1> DEFINE MT == [type : MsgTypes, frame : FrameType]
             m == Head(sc.queue)
             q == Tail(sc.queue)
  <1>1. sc.queue \in Seq(MT) /\ sc.queue # <<>> /\ sc.pc = "wait"
    BY Fields DEF Whole, Receive
  <1>2. m \in MT /\ q \in Seq(MT) /\ Len(q) <= Capacity
    <2>1. Len(sc.queue) \in Nat /\ Len(q) = Len(sc.queue) - 1 /\ Len(sc.queue) <= Capacity
      BY <1>1 DEF Whole
    <2>2. Len(q) <= Capacity
      BY <2>1, ConnectionAssumption
    <2> HIDE DEF MT
    <2>3. m \in MT /\ q \in Seq(MT)
      BY <1>1
    <2> QED BY <2>2, <2>3
  <1>3. m \in [type : MsgTypes \cup {"None"}, frame : FrameType] /\ m.frame \in FrameType
    BY <1>2
  <1>4. DropsDecision(sc) => m.type # "Timeout"
    BY DEF DropsDecision, TrustTypes
  <1>5. DropsDecision(sc) => (TimeoutQueued(sc.queue) => TimeoutQueued(q))
    BY <1>1, <1>4, TimeoutTail
  <1>6. sc' = IF DropsDecision(sc) THEN [sc EXCEPT !.queue = q]
              ELSE [sc EXCEPT !.queue = q, !.pc = "got", !.cur = m,
                              !.heard = @ \cup Milestone(m.frame)]
    BY DEF Receive, Advance
  <1> HIDE DEF m, q, MT
  <1>7. CASE DropsDecision(sc)
    <2>1. sc' \in Connection
      BY <1>2, <1>6, <1>7, ZenonT(30) DEF Whole, Connection, MT
    <2>2. /\ sc'.sme_state = sc.sme_state /\ sc'.trusted = sc.trusted
          /\ sc'.shutdown_once = sc.shutdown_once /\ sc'.closed_reports = sc.closed_reports
          /\ sc'.queue = q /\ sc'.pc = sc.pc /\ sc'.stop_pc = sc.stop_pc
          /\ sc'.blocked = sc.blocked /\ sc'.timer = sc.timer
      BY <1>6, <1>7 DEF Whole, Connection
    <2> QED BY <1>1, <1>2, <1>5, <1>7, <2>1, <2>2 DEF Whole, Quiet
  <1>8. CASE ~DropsDecision(sc)
    <2> DEFINE h == sc.heard \cup Milestone(m.frame)
    <2>1. h \in SUBSET Milestones
      BY <1>3, MilestoneType, Fields DEF Whole
    <2>2. sc' = [sc EXCEPT !.queue = q, !.pc = "got", !.cur = m, !.heard = h]
      BY <1>6, <1>8
    <2> HIDE DEF h
    <2>3. sc' \in Connection
      BY <1>2, <1>3, <2>1, <2>2 DEF Whole, Connection, MT
    <2>4. /\ sc'.sme_state = sc.sme_state /\ sc'.trusted = sc.trusted
          /\ sc'.shutdown_once = sc.shutdown_once /\ sc'.closed_reports = sc.closed_reports
          /\ sc'.queue = q /\ sc'.pc = "got" /\ sc'.stop_pc = sc.stop_pc
          /\ sc'.blocked = sc.blocked /\ sc'.timer = sc.timer
      BY <2>2 DEF Whole, Connection
    <2> QED BY <1>1, <1>2, <2>3, <2>4 DEF Whole, Quiet
  <1> QED BY <1>7, <1>8

\* The connection thread keeps the invariant.
LEMMA ThreadStep ==
  ASSUME Whole(sc), Thread
  PROVE  Whole(sc')
  BY LoopStep, BeginWaitStep, ReceiveStep, CmiStep, HelloStep, ProtocolStep, PinStep,
     DataExchangeBeginStep, DataExchangeStep DEF Thread
-----------------------------------------------------------------------------
(* The other threads                                                       *)

\* A message more in the queue.
LEMMA QueueGrows ==
  ASSUME NEW c, Whole(c), Len(c.queue) < Capacity,
         NEW m \in [type : MsgTypes, frame : FrameType],
         NEW d \in Connection,
         d.sme_state = c.sme_state, d.trusted = c.trusted, d.pc = c.pc,
         d.shutdown_once = c.shutdown_once, d.closed_reports = c.closed_reports,
         d.queue = Append(c.queue, m), d.stop_pc = c.stop_pc \/ d.stop_pc = "join",
         d.blocked = c.blocked, d.timer = c.timer
  PROVE  Whole(d)
  <1> DEFINE MT == [type : MsgTypes, frame : FrameType]
  <1>1. c.queue \in Seq(MT)
    BY Fields DEF Whole
  <1>2. TimeoutQueued(c.queue) => TimeoutQueued(d.queue)
    BY <1>1, TimeoutAppend, ZenonT(30)
  <1>3. Len(d.queue) <= Capacity
    <2> HIDE DEF MT
    <2>1. Len(c.queue) \in Nat /\ Len(d.queue) = Len(c.queue) + 1
      BY <1>1 DEF MT
    <2> QED BY <2>1, ConnectionAssumption
  <1> QED BY <1>2, <1>3 DEF Whole, Quiet

\* Only fields that the invariant does not speak of, and Stop on its way.
LEMMA Aside ==
  ASSUME NEW c, Whole(c), NEW d \in Connection,
         d.sme_state = c.sme_state, d.trusted = c.trusted, d.pc = c.pc,
         d.shutdown_once = c.shutdown_once, d.closed_reports = c.closed_reports,
         d.queue = c.queue, d.stop_pc = c.stop_pc \/ d.stop_pc = "send",
         d.blocked = c.blocked, d.timer = c.timer
  PROVE  Whole(d)
  BY DEF Whole, Quiet

\* What the callers post are messages.
LEMMA PostedType ==
  /\ \A f \in FrameType : Data(f) \in [type : MsgTypes, frame : FrameType]
  /\ \A type \in MsgTypes : Post(type) \in [type : MsgTypes, frame : FrameType]
  /\ \A type \in MsgTypes : Post(type).type = type
  /\ NoMsg \in [type : MsgTypes \cup {"None"}, frame : FrameType]
  <1>1. NoFrame \in FrameType
    BY DEF NoFrame, Frame, FrameType, Kinds, Vals, Subs
  <1> QED BY <1>1 DEF Data, Post, Msg, NoMsg, MsgTypes

\* A caller is on its way to the queue.
LEMMA SendStep ==
  ASSUME Whole(sc), NEW who \in {"websocket", "app", "spine"},
         NEW m \in [type : MsgTypes, frame : FrameType], SendToQueue(who, m)
  PROVE  Whole(sc')
  <1>1. m \in [type : MsgTypes \cup {"None"}, frame : FrameType]
    OBVIOUS
  <1>2. sc' = [sc EXCEPT !.snd[who] = m]
    BY DEF SendToQueue
  <1>3. sc' \in Connection
    BY <1>1, <1>2 DEF Whole, Connection
  <1>4. /\ sc'.sme_state = sc.sme_state /\ sc'.trusted = sc.trusted
        /\ sc'.shutdown_once = sc.shutdown_once /\ sc'.closed_reports = sc.closed_reports
        /\ sc'.queue = sc.queue /\ sc'.pc = sc.pc /\ sc'.stop_pc = sc.stop_pc
        /\ sc'.blocked = sc.blocked /\ sc'.timer = sc.timer
    BY <1>2 DEF Whole, Connection
  <1> QED BY <1>3, <1>4, Aside

\* The inputs from outside keep the invariant.
LEMMA InputStep ==
  ASSUME Whole(sc), Websocket \/ PostTrustDecision \/ WriteMessage
  PROVE  Whole(sc')
  <1>1. CASE Websocket
    <2>1. \A f \in Frames : Data(f) \in [type : MsgTypes, frame : FrameType]
      BY PostedType, ConnectionAssumption
    <2>2. /\ Post("WebsocketError") \in [type : MsgTypes, frame : FrameType]
          /\ Post("WebsocketClose") \in [type : MsgTypes, frame : FrameType]
      BY PostedType DEF MsgTypes
    <2> QED BY <1>1, <2>1, <2>2, SendStep DEF Websocket, WebsocketCallback
  <1>2. CASE PostTrustDecision
    <2>1. \A type \in TrustTypes : Post(type) \in [type : MsgTypes, frame : FrameType]
      BY PostedType DEF MsgTypes
    <2> QED BY <1>2, <2>1, SendStep DEF PostTrustDecision
  <1>3. CASE WriteMessage
    <2>1. Post("SpineDataToSend") \in [type : MsgTypes, frame : FrameType]
      BY PostedType DEF MsgTypes
    <2> QED BY <1>3, <2>1, SendStep DEF WriteMessage
  <1> QED BY <1>1, <1>2, <1>3

\* A sleeping caller gets its message in.
LEMMA SendResumesStep ==
  ASSUME Whole(sc), NEW who \in {"websocket", "app", "spine"}, SendResumes(who)
  PROVE  Whole(sc')
  <1> DEFINE MT == [type : MsgTypes, frame : FrameType]
             m == sc.snd[who]
             q == Append(sc.queue, m)
  <1>1. m \in MT /\ sc.snd \in [{"websocket", "app", "spine"} -> MT \cup {NoMsg}]
    BY Fields DEF Whole, SendResumes
  <1>2. q \in Seq(MT)
    <2>1. sc.queue \in Seq(MT)
      BY Fields DEF Whole
    <2> HIDE DEF MT
    <2> QED BY <1>1, <2>1, Posted
  <1>3. sc' = [sc EXCEPT !.queue = q, !.snd[who] = NoMsg]
    BY DEF SendResumes
  <1> HIDE DEF m, q
  <1>4. sc' \in Connection
    BY <1>2, <1>3 DEF Whole, Connection
  <1>5. /\ sc'.sme_state = sc.sme_state /\ sc'.trusted = sc.trusted
        /\ sc'.shutdown_once = sc.shutdown_once /\ sc'.closed_reports = sc.closed_reports
        /\ sc'.queue = q /\ sc'.pc = sc.pc /\ sc'.stop_pc = sc.stop_pc
        /\ sc'.blocked = sc.blocked /\ sc'.timer = sc.timer
    BY <1>3 DEF Whole, Connection
  <1> QED BY <1>1, <1>4, <1>5, QueueGrows DEF SendResumes, Room, q

\* A timer fires, its callback gets past the full queue, its thread ends.
LEMMA TimerStep ==
  ASSUME Whole(sc), NEW t \in Timers, TimerThread(t)
  PROVE  Whole(sc')
  <1> DEFINE MT == [type : MsgTypes, frame : FrameType]
             m == Post("Timeout")
             q == Append(sc.queue, m)
  <1>1. m \in MT /\ m.type = "Timeout"
    BY PostedType DEF MsgTypes
  <1>2. sc.queue \in Seq(MT) /\ sc.timer \in [Timers -> TimerStates]
    BY Fields DEF Whole
  <1>3. sc.timer[t] \in {"running", "firing", "fired"} /\ ~sc.shutdown_once
    BY DEF TimerThread, TimerFires, TimeoutCallbackResumes, TimerExpires, Whole, Quiet
  <1>4. CASE Room /\ sc' = [sc EXCEPT !.queue = q, !.timer[t] = "fired"]
    <2>1. q \in Seq(MT) /\ TimeoutQueued(q)
      <3> HIDE DEF MT, m
      <3> QED BY <1>1, <1>2, TimeoutAppend, Posted
    <2>2. Len(q) <= Capacity
      <3>1. Len(sc.queue) \in Nat /\ Len(q) = Len(sc.queue) + 1
        BY <1>1, <1>2
      <3> HIDE DEF q
      <3> QED BY <1>4, <3>1, ConnectionAssumption DEF Room
    <2> HIDE DEF q
    <2>3. sc' \in Connection
      BY <1>4, <2>1 DEF Whole, Connection, TimerStates
    <2>4. /\ sc'.sme_state = sc.sme_state /\ sc'.trusted = sc.trusted
          /\ sc'.shutdown_once = sc.shutdown_once /\ sc'.closed_reports = sc.closed_reports
          /\ sc'.queue = q /\ sc'.pc = sc.pc /\ sc'.stop_pc = sc.stop_pc
          /\ sc'.blocked = sc.blocked
      BY <1>4 DEF Whole, Connection
    <2>5. sc'.timer["wait_for_ready"] \in {sc.timer["wait_for_ready"], "fired"}
      BY <1>4 DEF Whole, Connection, Timers
    <2> QED BY <1>3, <2>1, <2>2, <2>3, <2>4, <2>5 DEF Whole
  <1>5. ASSUME NEW s \in {"firing", "expired"},
               s = "expired" => sc.timer[t] = "fired",
               sc' = [sc EXCEPT !.timer[t] = s]
        PROVE  Whole(sc')
    <2>1. sc' \in Connection
      BY <1>5 DEF Whole, Connection, TimerStates
    <2>2. /\ sc'.sme_state = sc.sme_state /\ sc'.trusted = sc.trusted
          /\ sc'.shutdown_once = sc.shutdown_once /\ sc'.closed_reports = sc.closed_reports
          /\ sc'.queue = sc.queue /\ sc'.pc = sc.pc /\ sc'.stop_pc = sc.stop_pc
          /\ sc'.blocked = sc.blocked
      BY <1>5 DEF Whole, Connection
    <2>3. \/ sc'.timer["wait_for_ready"] = sc.timer["wait_for_ready"]
          \/ t = "wait_for_ready" /\ sc'.timer["wait_for_ready"] = s
      BY <1>5 DEF Whole, Connection, Timers
    <2> QED BY <1>3, <1>5, <2>1, <2>2, <2>3 DEF Whole
  <1>6. \/ Room /\ sc' = [sc EXCEPT !.queue = q, !.timer[t] = "fired"]
        \/ sc' = [sc EXCEPT !.timer[t] = "firing"]
        \/ sc.timer[t] = "fired" /\ sc' = [sc EXCEPT !.timer[t] = "expired"]
    BY DEF TimerThread, TimerFires, TimeoutCallbackResumes, TimerExpires
  <1> QED BY <1>4, <1>5, <1>6

\* Stop and Destruct keep the invariant.
LEMMA StopStep ==
  ASSUME Whole(sc), Stop \/ StopThread
  PROVE  Whole(sc')
  <1> DEFINE MT == [type : MsgTypes, frame : FrameType]
             m == Post("Cancel")
             q == Append(sc.queue, m)
  <1>1. m \in MT /\ q \in Seq(MT)
    <2>1. m \in MT
      BY PostedType DEF MsgTypes
    <2>2. sc.queue \in Seq(MT)
      BY Fields DEF Whole
    <2> HIDE DEF MT, m
    <2> QED BY <2>1, <2>2, Posted
  <1>2. CASE Stop
    <2>1. sc' = [sc EXCEPT !.cancel = TRUE, !.stop_pc = "send"]
      BY <1>2 DEF Stop
    <2>2. sc' \in Connection
      BY <2>1 DEF Whole, Connection
    <2>3. /\ sc'.sme_state = sc.sme_state /\ sc'.trusted = sc.trusted
          /\ sc'.shutdown_once = sc.shutdown_once /\ sc'.closed_reports = sc.closed_reports
          /\ sc'.queue = sc.queue /\ sc'.pc = sc.pc /\ sc'.stop_pc = "send"
          /\ sc'.blocked = sc.blocked /\ sc'.timer = sc.timer
      BY <2>1 DEF Whole, Connection
    <2> QED BY <2>2, <2>3, Aside
  <1>3. CASE StopResumes
    <2>1. sc' = [sc EXCEPT !.queue = q, !.stop_pc = "join"] /\ Room
      BY <1>3 DEF StopResumes
    <2> HIDE DEF q
    <2>2. sc' \in Connection
      BY <1>1, <2>1 DEF Whole, Connection
    <2>3. /\ sc'.sme_state = sc.sme_state /\ sc'.trusted = sc.trusted
          /\ sc'.shutdown_once = sc.shutdown_once /\ sc'.closed_reports = sc.closed_reports
          /\ sc'.queue = q /\ sc'.pc = sc.pc /\ sc'.stop_pc = "join"
          /\ sc'.blocked = sc.blocked /\ sc'.timer = sc.timer
      BY <2>1 DEF Whole, Connection
    <2> QED BY <1>1, <2>1, <2>2, <2>3, QueueGrows DEF Room, q
  <1>4. CASE StopJoined
    <2> DEFINE c == [sc EXCEPT !.stop_pc = "done"]
               d == CloseConnection(c, FALSE)
    <2>1. sc.pc = "exited" /\ Half(sc)
      BY <1>4, WholeHalf DEF StopJoined
    <2>2. c \in Connection
      BY DEF Whole, Connection
    <2>3. /\ c.sme_state = sc.sme_state /\ c.trusted = sc.trusted
          /\ c.shutdown_once = sc.shutdown_once /\ c.closed_reports = sc.closed_reports
          /\ c.queue = sc.queue /\ c.pc = sc.pc /\ c.stop_pc = "done"
          /\ c.blocked = sc.blocked /\ c.timer = sc.timer
      BY DEF Whole, Connection
    <2>4. ~d.blocked /\ sc' = d
      BY <1>4 DEF StopJoined, Advance
    <2> HIDE DEF c
    <2>5. Half(c)
      BY <2>1, <2>2, <2>3 DEF Half, Quiet
    <2>6. Done(d, c) /\ d.shutdown_once
      BY <2>5, CloseConnectionDone
    <2> HIDE DEF d
    <2>7. Whole(d)
      BY <2>1, <2>3, <2>4, <2>6 DEF Whole, Half, Done, Kept
    <2> QED BY <2>4, <2>7
  <1>5. CASE Destruct
    <2> DEFINE tm == [t \in Timers |-> "idle"]
               sn == [s \in DOMAIN sc.snd |-> NoMsg]
    <2>1. tm \in [Timers -> TimerStates] /\ Quiet([timer |-> tm])
          /\ tm["wait_for_ready"] = "idle" /\ \A u \in Timers : tm[u] = "idle"
      BY DEF TimerStates, Quiet, Timers
    <2>2. sn \in [{"websocket", "app", "spine"} -> MT \cup {NoMsg}]
      BY Fields DEF Whole
    <2>3. <<>> \in Seq(MT) /\ Len(<<>>) = 0
      OBVIOUS
    <2>4. sc' = [sc EXCEPT !.stop_pc = "destructed", !.queue = <<>>, !.cur = NoMsg,
                           !.timer = tm, !.snd = sn] /\ sc.stop_pc = "done"
      BY <1>5 DEF Destruct
    <2>5. NoMsg \in [type : MsgTypes \cup {"None"}, frame : FrameType]
      BY PostedType
    <2> HIDE DEF tm, sn, m, q
    <2>6. sc' \in Connection
      BY <2>1, <2>2, <2>3, <2>4, <2>5 DEF Whole, Connection
    <2>7. /\ sc'.sme_state = sc.sme_state /\ sc'.trusted = sc.trusted
          /\ sc'.shutdown_once = sc.shutdown_once /\ sc'.closed_reports = sc.closed_reports
          /\ sc'.queue = <<>> /\ sc'.pc = sc.pc /\ sc'.stop_pc = "destructed"
          /\ sc'.blocked = sc.blocked /\ sc'.timer = tm
      BY <2>4 DEF Whole, Connection
    <2>8. Quiet(sc')
      BY <2>1, <2>7 DEF Quiet
    <2>9. Len(sc'.queue) <= Capacity
      BY <2>3, <2>7, ConnectionAssumption
    <2>10. sc.shutdown_once /\ sc.pc = "exited"
      BY <2>4 DEF Whole
    <2> QED BY <2>1, <2>6, <2>7, <2>8, <2>9, <2>10 DEF Whole
  <1> QED BY <1>2, <1>3, <1>4, <1>5 DEF StopThread
-----------------------------------------------------------------------------
(* The theorems                                                            *)

\* The inductive invariant.
ConnInv == Whole(sc) /\ budget \in 0 .. MaxInputs

\* A connection that has just been constructed.
LEMMA InitWhole ==
  ASSUME Init
  PROVE  ConnInv
  <1>1. PICK role \in {"client", "server"} : sc = Construct(role)
    BY ConnectionAssumption DEF Init
  <1> DEFINE st == IF role = "server" THEN "CmiStateServerWait" ELSE "CmiStateClientSend"
             tm == [t \in Timers |-> "idle"]
             sn == [s \in {"websocket", "app", "spine"} |-> NoMsg]
  <1>2. st \in SmeStates /\ st \notin Trusting
    BY DEF SmeStates, CmiStates, Trusting, ReadyStates, HelloOkStates, ProtOkStates,
           PinOkStates
  <1>3. tm \in [Timers -> TimerStates] /\ tm["wait_for_ready"] = "idle"
    BY DEF Timers, TimerStates
  <1>4. sn \in [{"websocket", "app", "spine"} ->
                  [type : MsgTypes, frame : FrameType] \cup {NoMsg}]
    OBVIOUS
  <1>5. NoMsg \in [type : MsgTypes \cup {"None"}, frame : FrameType] /\ "zero" \in Waitings
    BY PostedType DEF Waitings
  <1>6. sc = [role |-> role, sme_state |-> st, pc |-> "idle", cur |-> NoMsg, queue |-> <<>>,
              timer |-> tm, reply_timeout |-> "zero",
              last_received_waiting_value |-> "zero",
              remote_hello_ready |-> FALSE, is_access_methods_req_sent |-> FALSE,
              remote_ship_id |-> "", cancel |-> FALSE, shutdown_once |-> FALSE,
              snd |-> sn, stop_pc |-> "none", blocked |-> FALSE, out |-> <<>>,
              trusted |-> FALSE, said |-> {}, heard |-> {}, closed_reports |-> 0]
    BY <1>1 DEF Construct
  <1>7. /\ <<>> \in Seq([type : MsgTypes, frame : FrameType])
        /\ <<>> \in Seq(FrameType) /\ Len(<<>>) = 0
    OBVIOUS
  <1> HIDE DEF st, tm, sn
  <1>8. sc \in Connection
    BY <1>2, <1>3, <1>4, <1>5, <1>6, <1>7 DEF Connection
  <1>9. /\ sc.sme_state = st /\ ~sc.trusted /\ ~sc.shutdown_once /\ sc.closed_reports = 0
        /\ sc.queue = <<>> /\ sc.pc = "idle" /\ sc.stop_pc = "none" /\ ~sc.blocked
        /\ sc.timer = tm
    BY <1>6
  <1>10. Len(sc.queue) <= Capacity
    BY <1>7, <1>9, ConnectionAssumption
  <1>11. Whole(sc)
    BY <1>2, <1>3, <1>8, <1>9, <1>10 DEF Whole
  <1>12. budget \in 0 .. MaxInputs
    BY ConnectionAssumption DEF Init
  <1> QED BY <1>11, <1>12 DEF ConnInv

\* The bound on the inputs is kept.
LEMMA BudgetStep ==
  ASSUME budget \in 0 .. MaxInputs, Next
  PROVE  budget' \in 0 .. MaxInputs
  <1>1. Input => budget' \in 0 .. MaxInputs
    BY ConnectionAssumption DEF Input
  <1>2. Input \/ budget' = budget
    BY DEF Next, Thread, HelloPhase, ProtocolPhase, Advance, LoopExit, TryStart, BeginWait,
           Receive, CmiStateClientSend, CmiStateClientWait, CmiStateServerWait, CmiWait,
           CmiStateClientEvaluate, CmiStateServerEvaluate, SmeHelloState,
           SmeHelloStateReadyInit, SmeHelloStateReadyListen, SmeHelloStatePendingInit,
           SmeHelloStatePendingListen, SmeHelloStatePendingTimeout, SmeHelloStateOk,
           SmeHelloStateAbort, SmeProtHandshakeStateClientInit,
           SmeProtHandshakeStateClientListenChoice, SmeProtHandshakeStateServerInit,
           SmeProtHandshakeStateServerListenProposal,
           SmeProtHandshakeStateServerListenConfirm, SmeProtHStateOk,
           SmePinStateCheckInitSend, SmePinStateCheckInit, SmePinStateCheckListen,
           SmePinStateCheckBusyWait, SmePinStateCheckOk, SmeStateApproved,
           DataExchangeBegin, DataExchange, TimerThread, TimerFires,
           TimeoutCallbackResumes, TimerExpires, Websocket, PostTrustDecision,
           WriteMessage, SendResumes, Stop, StopThread, StopResumes, StopJoined, Destruct
  <1> QED BY <1>1, <1>2

\* Every step keeps the inductive invariant.
LEMMA NextWhole ==
  ASSUME ConnInv, [Next]_vars
  PROVE  ConnInv'
  <1>1. CASE Next
    <2>1. Whole(sc')
      BY <1>1, ThreadStep, TimerStep, InputStep, SendResumesStep, StopStep
         DEF ConnInv, Next
    <2>2. budget' \in 0 .. MaxInputs
      BY <1>1, BudgetStep DEF ConnInv
    <2> QED BY <2>1, <2>2 DEF ConnInv
  <1>2. CASE UNCHANGED vars
    BY <1>2 DEF ConnInv, vars
  <1> QED BY <1>1, <1>2

\* The inductive invariant holds of every reachable state.
THEOREM ConnectionInvariant == Spec => []ConnInv
  <1>1. Init => ConnInv
    BY InitWhole
  <1>2. ConnInv /\ [Next]_vars => ConnInv'
    BY NextWhole
  <1> QED BY <1>1, <1>2, PTL DEF Spec

\* Whatever the peer sends and whenever the threads run, the state is well formed
\* and ShipConnection's queue never overflows.
THEOREM ConnectionTypeCorrect == Spec => []TypeOK
  <1>1. ConnInv => TypeOK
    BY DEF ConnInv, Whole, TypeOK
  <1> QED BY <1>1, ConnectionInvariant, PTL

\* READY, and everything after it, is reached only with a trusted peer, for every
\* alphabet of frames and every capacity of the queue.
THEOREM ConnectionTrusted == Spec => []TrustedBeforeReady
  <1>1. ConnInv => TrustedBeforeReady
    BY DEF ConnInv, Whole, TrustedBeforeReady, Trusting
  <1> QED BY <1>1, ConnectionInvariant, PTL

\* A shut connection has been reported, a reported one is shut, and Stop gives none
\* back that was not.
THEOREM ConnectionClosedReported == Spec => []ClosedIffReported
  <1>1. ConnInv => ClosedIffReported
    BY DEF ConnInv, Whole, ClosedIffReported
  <1> QED BY <1>1, ConnectionInvariant, PTL

\* The timers end with the connection, however the close and the timers' threads
\* interleave.
THEOREM ConnectionTimersQuiet == Spec => []TimersQuietAfterClose
  <1>1. ConnInv => TimersQuietAfterClose
    BY DEF ConnInv, Whole, TimersQuietAfterClose, Quiet
  <1> QED BY <1>1, ConnectionInvariant, PTL

\* No handshake wait is left without a timer that runs or a timeout in the queue,
\* although the timers are shared by all the states and Start may do nothing.
THEOREM ConnectionWaitBounded == Spec => []WaitIsBounded
  <1>1. ConnInv => WaitIsBounded
    <2> SUFFICES ASSUME Whole(sc), sc.pc = "wait", sc.sme_state \notin Over
                 PROVE  \/ sc.timer["wait_for_ready"] \in {"running", "firing"}
                        \/ TimeoutQueued(sc.queue)
      BY DEF ConnInv, WaitIsBounded, Over, TimeoutQueued
    <2>1. sc.timer["wait_for_ready"] \in TimerStates
      BY Fields DEF Whole, Timers
    <2>2. sc.timer["wait_for_ready"] \notin {"idle", "joined"}
      BY DEF Whole
    <2>3. sc.timer["wait_for_ready"] \in {"fired", "expired"} => TimeoutQueued(sc.queue)
      BY DEF Whole
    <2> QED BY <2>1, <2>2, <2>3 DEF TimerStates
  <1> QED BY <1>1, ConnectionInvariant, PTL

-----------------------------------------------------------------------------
(***************************************************************************)
(* The milestones of the handshake.                                        *)
(*                                                                         *)
(* MilestonesMet speaks of the phases that are over.  The invariant needs  *)
(* the phases in the middle too: which of the milestones a state stands    *)
(* for already (Progress), that a handshake in the states of one role is   *)
(* of that role, and that the message in hand has been heard (Heard).      *)
(***************************************************************************)

Closing == AbortStates \cup {"SmeStateError"}
PastHello == HelloOkStates \cup ProtOkStates \cup PinOkStates
PastProtocol == ProtOkStates \cup PinOkStates

\* The message in hand has been counted, and the flag that lets SmeHelloStateReadyInit
\* skip its wait stands for a "ready" that was heard.
Heard(c) ==
  /\ Milestone(c.cur.frame) \subseteq c.heard
  /\ c.remote_hello_ready => "ready" \in c.heard

\* What has been written and heard by the time a state is entered.  The protocol
\* handshake of each role has states of its own.
Progress(role, state, pc, said, heard) ==
  /\ state \notin Closing \cup {"CmiStateClientSend", "CmiStateServerWait",
                                "CmiStateServerEvaluate"} => "init" \in said
  /\ state \notin Closing \cup CmiStates => "init" \in heard
  /\ state \in PastHello \cup {"SmeHelloStateReadyListen"} => "ready" \in said
  /\ state \in PastHello => "ready" \in heard
  /\ \/ state = "SmeProtHStateClientListenChoice"
     \/ state \in PastProtocol /\ role = "client"
     => "announceMax" \in said
  /\ \/ state = "SmeProtHStateServerListenConfirm"
     \/ state \in PastProtocol /\ role = "server"
     => "announceMax" \in heard
  /\ state \in PastProtocol \cup {"SmeProtHStateServerListenConfirm"} => "select" \in said
  /\ state \in PastProtocol => "select" \in heard
  /\ \/ state \in PinOkStates \cup {"SmePinStateCheckListen", "SmePinStateCheckBusyWait"}
     \/ state = "SmePinStateCheckInit" /\ pc \in {"wait", "got"}
     => "pin" \in said
  /\ state \in PinOkStates => "pin" \in heard
  /\ state \in {"SmeProtHStateClientInit", "SmeProtHStateClientListenChoice",
                "SmeProtHStateClientOk"} => role = "client"
  /\ state \in {"SmeProtHStateServerInit", "SmeProtHStateServerListenProposal",
                "SmeProtHStateServerListenConfirm", "SmeProtHStateServerOk"}
       => role = "server"

\* The inductive invariant of the milestones.
Led(c) == Heard(c) /\ Progress(c.role, c.sme_state, c.pc, c.said, c.heard)
-----------------------------------------------------------------------------
(* The helpers                                                             *)

\* What a helper leaves behind when it does not move the handshake: it may have
\* written something.
Still(d, c) ==
  /\ d \in Connection
  /\ d.role = c.role /\ d.sme_state = c.sme_state /\ d.pc = c.pc /\ d.cur = c.cur
  /\ d.heard = c.heard /\ d.remote_hello_ready = c.remote_hello_ready
  /\ c.said \subseteq d.said

\* A connection that the handshake has led here.
Fine(c) == c \in Connection /\ Led(c)

\* The milestones of the frames that the proofs meet.
LEMMA MilestoneOf ==
  ASSUME NEW f \in FrameType
  PROVE  /\ f.kind = "init" /\ f.val = "ok" => "init" \in Milestone(f)
         /\ f.kind = "hello" /\ f.val = "ready" => "ready" \in Milestone(f)
         /\ f.kind = "prot" /\ f.val = "announceMax" => "announceMax" \in Milestone(f)
         /\ f.kind = "prot" /\ f.val = "select" => "select" \in Milestone(f)
         /\ f.kind = "pin" /\ f.val \in {"none", "pinOk"} => "pin" \in Milestone(f)
  BY DEF Milestone

\* No message in hand contributes nothing.
LEMMA NothingHeard ==
  /\ Milestone(NoMsg.frame) = {}
  /\ NoMsg \in [type : MsgTypes \cup {"None"}, frame : FrameType]
  BY DEF NoMsg, Msg, NoFrame, Frame, Milestone, FrameType, Kinds, Vals, Subs

\* A helper that stays in the state keeps the invariant.
LEMMA StillFine ==
  ASSUME NEW c, Led(c), NEW d, Still(d, c)
  PROVE  Fine(d)
  BY DEF Fine, Led, Still, Heard, Progress

\* Helpers in a row.
LEMMA StillTrans ==
  ASSUME NEW c, NEW d, NEW e, Still(d, c), Still(e, d)
  PROVE  Still(e, c)
  BY DEF Still

\* EEBUS_TIMER_STOP writes nothing and moves nothing.
LEMMA TimerStopStill ==
  ASSUME NEW c \in Connection, NEW t \in Timers
  PROVE  Still(TimerStop(c, t), c)
  <1>1. TimerStop(c, t) \in Connection
    BY TimerStopQuiet
  <1> QED BY <1>1 DEF Still, TimerStop, Connection

\* Neither does EEBUS_TIMER_START.
LEMMA TimerStartStill ==
  ASSUME NEW c \in Connection, NEW t \in Timers, NEW w
  PROVE  Still(TimerStart(c, t, w), c)
  <1> DEFINE r == IF w = "zero" THEN "idle" ELSE "running"
             d == [c EXCEPT !.timer[t] = r]
  <1>1. r \in TimerStates
    BY DEF TimerStates
  <1>2. TimerStart(c, t, w) = IF c.timer[t] \in {"idle", "joined"} THEN d ELSE c
    BY DEF TimerStart
  <1> HIDE DEF r
  <1>3. Still(d, c) /\ Still(c, c)
    BY <1>1 DEF Still, Connection
  <1> HIDE DEF d
  <1> QED BY <1>2, <1>3

\* The two prolongation timers.
LEMMA StopPairStill ==
  ASSUME NEW c \in Connection
  PROVE  Still(StopPairTimers(c), c)
  <1> DEFINE d == TimerStop(c, "send_prolongation_request")
  <1>1. Still(d, c)
    BY TimerStopStill DEF Timers
  <1>2. StopPairTimers(c) = TimerStop(d, "prolongation_request_reply")
    BY DEF StopPairTimers
  <1> HIDE DEF d
  <1>3. Still(TimerStop(d, "prolongation_request_reply"), d)
    BY <1>1, TimerStopStill DEF Timers, Still
  <1> QED BY <1>1, <1>2, <1>3, StillTrans

\* A frame that was written counts.
LEMMA SentStill ==
  ASSUME NEW c \in Connection, NEW f \in FrameType
  PROVE  Still(Sent(c, f), c) /\ Sent(c, f).said = c.said \cup Milestone(f)
  <1> DEFINE o == IF KeepOutput THEN Append(c.out, f) ELSE c.out
             s == c.said \cup Milestone(f)
             d == Sent(c, f)
  <1>1. o \in Seq(FrameType)
    BY Fields
  <1>2. s \in SUBSET Milestones
    BY MilestoneType, Fields
  <1>3. d = [c EXCEPT !.said = s, !.out = o]
    BY DEF Sent
  <1>4. c.said \subseteq s /\ Milestone(f) \subseteq s
    OBVIOUS
  <1> HIDE DEF o, s, d
  <1>5. Still(d, c) /\ d.said = s
    BY <1>1, <1>2, <1>3, <1>4 DEF Connection, Still
  <1> QED BY <1>5 DEF d, s

\* SetSmeState changes the state only.
LEMMA Moved ==
  ASSUME NEW c \in Connection, NEW st \in SmeStates
  PROVE  LET d == SetSmeState(c, st)
         IN  /\ d \in Connection /\ d.sme_state = st
             /\ d.role = c.role /\ d.pc = c.pc /\ d.cur = c.cur /\ d.said = c.said
             /\ d.heard = c.heard /\ d.remote_hello_ready = c.remote_hello_ready
  BY DEF SetSmeState, Connection

\* Closing a connection leaves the handshake where it is.
LEMMA CloseConnectionStill ==
  ASSUME NEW c \in Connection, NEW safe \in BOOLEAN
  PROVE  Still(CloseConnection(c, safe), c)
  <1>1. CASE c.shutdown_once
    BY <1>1 DEF CloseConnection, Still
  <1>2. CASE ~c.shutdown_once
    <2> DEFINE p == StopPairTimers(c)
               d == TimerStop(p, "wait_for_ready")
               f == Frame("close", "announce", "none")
               e == IF safe /\ c.sme_state = "DataExchange" THEN Sent(d, f) ELSE d
               g == [e EXCEPT !.cancel = TRUE, !.shutdown_once = TRUE,
                              !.closed_reports = @ + 1]
    <2>1. CloseConnection(c, safe) = g
      BY <1>2 DEF CloseConnection
    <2>2. Still(p, c)
      BY StopPairStill
    <2> HIDE DEF p
    <2>3. Still(d, c)
      BY <2>2, TimerStopStill, StillTrans DEF Timers, Still
    <2> HIDE DEF d
    <2>4. Still(e, c)
      <3>1. d \in Connection /\ f \in FrameType
        BY <2>3, WrittenFrames DEF Still
      <3>2. Still(Sent(d, f), c)
        BY <2>3, <3>1, SentStill, StillTrans
      <3> QED BY <2>3, <3>2
    <2> HIDE DEF e
    <2>5. Still(g, e)
      <3>1. e \in Connection /\ e.closed_reports + 1 \in Nat
        BY <2>4, Fields DEF Still
      <3> QED BY <3>1 DEF Still, Connection
    <2> HIDE DEF g
    <2> QED BY <2>1, <2>4, <2>5, StillTrans
  <1> QED BY <1>1, <1>2

\* Ways out of the handshake owe nothing.
LEMMA GivesUp ==
  ASSUME NEW c \in Connection, Heard(c), NEW st \in Closing
  PROVE  Fine(SetSmeState(c, st))
  <1>1. st \in SmeStates
    BY DEF Closing, SmeStates
  <1>2. /\ st \notin PastHello /\ st \notin PastProtocol /\ st \notin PinOkStates
        /\ st \notin {"SmeHelloStateReadyListen", "SmeProtHStateClientListenChoice",
                      "SmeProtHStateServerListenConfirm", "SmePinStateCheckListen",
                      "SmePinStateCheckBusyWait", "SmePinStateCheckInit",
                      "SmeProtHStateClientInit", "SmeProtHStateClientOk",
                      "SmeProtHStateServerInit", "SmeProtHStateServerListenProposal",
                      "SmeProtHStateServerOk"}
    BY DEF Closing, AbortStates, PastHello, PastProtocol, HelloOkStates, ProtOkStates,
           PinOkStates
  <1> DEFINE d == SetSmeState(c, st)
  <1>3. /\ d \in Connection /\ d.sme_state = st
        /\ d.cur = c.cur /\ d.heard = c.heard
        /\ d.remote_hello_ready = c.remote_hello_ready
    BY <1>1, Moved
  <1> HIDE DEF d
  <1>4. Fine(d)
    BY <1>2, <1>3 DEF Fine, Led, Heard, Progress
  <1> QED BY <1>4 DEF d

\* The close with an error.
LEMMA CloseWithErrorFine ==
  ASSUME NEW c \in Connection, Heard(c)
  PROVE  Fine(CloseWithError(c))
  <1> DEFINE d == SetSmeState(c, "SmeStateError")
  <1>1. Fine(d)
    BY GivesUp DEF Closing
  <1>2. CloseWithError(c) = CloseConnection(d, TRUE)
    BY DEF CloseWithError
  <1> HIDE DEF d
  <1>3. Still(CloseConnection(d, TRUE), d)
    BY <1>1, CloseConnectionStill DEF Fine
  <1> QED BY <1>1, <1>2, <1>3, StillFine DEF Fine

\* SmeHelloStateAbort.
LEMMA HelloAbortFine ==
  ASSUME NEW c \in Connection, Heard(c), NEW ok \in BOOLEAN
  PROVE  Fine(HelloAbort(c, ok))
  <1> DEFINE d == IF ok THEN Sent(c, Hello("aborted", "none")) ELSE c
  <1>1. HelloAbort(c, ok) = CloseWithError(d)
    BY DEF HelloAbort
  <1>2. Still(Sent(c, Hello("aborted", "none")), c) /\ Still(c, c)
    BY SentStill, WrittenFrames DEF Still
  <1>3. Still(d, c)
    BY <1>2
  <1> HIDE DEF d
  <1>4. d \in Connection /\ Heard(d)
    BY <1>3 DEF Still, Heard
  <1> QED BY <1>1, <1>4, CloseWithErrorFine

\* SmeProtHandshakeStateAbort.
LEMMA ProtAbortFine ==
  ASSUME NEW c \in Connection, Heard(c), NEW ok \in BOOLEAN
  PROVE  Fine(ProtAbort(c, ok))
  <1> DEFINE e == TimerStop(c, "wait_for_ready")
             f == Frame("protErr", "none", "none")
             d == IF ok THEN Sent(e, f) ELSE e
  <1>1. ProtAbort(c, ok) = CloseWithError(d)
    BY DEF ProtAbort
  <1>2. Still(e, c) /\ f \in FrameType
    BY TimerStopStill, WrittenFrames DEF Timers
  <1> HIDE DEF e, f
  <1>3. Still(Sent(e, f), c)
    BY <1>2, SentStill, StillTrans DEF Still
  <1>4. Still(d, c)
    BY <1>2, <1>3
  <1> HIDE DEF d
  <1>5. d \in Connection /\ Heard(d)
    BY <1>4 DEF Still, Heard
  <1> QED BY <1>1, <1>5, CloseWithErrorFine

\* A frame and the next state: what the next state owes is what the frame adds.
LEMMA SendThenFine ==
  ASSUME NEW c \in Connection, NEW f \in FrameType, NEW next \in SmeStates,
         NEW ok \in BOOLEAN, NEW failed, Fine(failed), Heard(c),
         Progress(c.role, next, c.pc, c.said \cup Milestone(f), c.heard)
  PROVE  Fine(SendThen(c, f, next, ok, failed))
  <1>1. CASE ok
    <2> DEFINE e == Sent(c, f)
               g == SetSmeState(e, next)
    <2>1. Still(e, c) /\ e.said = c.said \cup Milestone(f)
      BY SentStill
    <2>2. SendThen(c, f, next, ok, failed) = g
      BY <1>1 DEF SendThen
    <2> HIDE DEF e
    <2>3. /\ g \in Connection /\ g.sme_state = next /\ g.role = e.role
          /\ g.pc = e.pc /\ g.cur = e.cur /\ g.said = e.said
          /\ g.heard = e.heard /\ g.remote_hello_ready = e.remote_hello_ready
      BY <2>1, Moved DEF Still
    <2> HIDE DEF g
    <2>4. Led(g)
      BY <2>1, <2>3 DEF Still, Led, Heard
    <2> QED BY <2>2, <2>3, <2>4 DEF Fine
  <1>2. CASE ~ok
    BY <1>2 DEF SendThen
  <1> QED BY <1>1, <1>2
-----------------------------------------------------------------------------
(* The handlers                                                            *)

\* The handshake goes on in another state, with nothing new written or heard.
LEMMA MovesFine ==
  ASSUME NEW c \in Connection, NEW st \in SmeStates, Heard(c),
         Progress(c.role, st, c.pc, c.said, c.heard)
  PROVE  Fine(SetSmeState(c, st))
  <1> DEFINE d == SetSmeState(c, st)
  <1>1. /\ d \in Connection /\ d.sme_state = st
        /\ d.role = c.role /\ d.pc = c.pc /\ d.cur = c.cur /\ d.said = c.said
        /\ d.heard = c.heard /\ d.remote_hello_ready = c.remote_hello_ready
    BY Moved
  <1> HIDE DEF d
  <1>2. Led(d)
    BY <1>1 DEF Led, Heard
  <1>3. Fine(d)
    BY <1>1, <1>2 DEF Fine
  <1> QED BY <1>3 DEF d

\* The answer to a prolongation request.
LEMMA ProlongationReplyFine ==
  ASSUME NEW c, Fine(c), NEW f \in FrameType, f.val = "pending", NEW ok \in BOOLEAN
  PROVE  Fine(ProlongationReply(c, f, ok))
  <1> DEFINE d == TimerStart(c, "wait_for_ready", "long")
  <1>1. Still(d, c)
    BY TimerStartStill DEF Timers, Fine
  <1>2. ProlongationReply(c, f, ok)
          = IF f.sub # "prolong" THEN c
            ELSE IF ok THEN Sent(d, Hello("pending", "long"))
            ELSE SetSmeState(d, "SmeHelloStateAbort")
    BY DEF ProlongationReply
  <1> HIDE DEF d
  <1>3. Fine(d)
    BY <1>1, StillFine DEF Fine
  <1>4. Fine(Sent(d, Hello("pending", "long")))
    BY <1>3, SentStill, StillFine, WrittenFrames DEF Fine
  <1>5. Fine(SetSmeState(d, "SmeHelloStateAbort"))
    BY <1>3, GivesUp, AbortStatesIn DEF Fine, Led, Closing
  <1> QED BY <1>2, <1>3, <1>4, <1>5

\* SmeHelloCalculateNewWaitValueAndSetTimer.
LEMMA NewWaitValueFine ==
  ASSUME NEW c, Fine(c), NEW w \in Waitings
  PROVE  Fine(NewWaitValue(c, w))
  <1> DEFINE d == [c EXCEPT !.last_received_waiting_value = w]
  <1>1. Still(d, c)
    BY DEF Fine, Still, Connection
  <1>2. NewWaitValue(c, w) = IF w = "long" THEN TimerStart(d, "send_prolongation_request", "long")
                             ELSE TimerStop(d, "send_prolongation_request")
    BY DEF NewWaitValue
  <1> HIDE DEF d
  <1>3. Fine(d)
    BY <1>1, StillFine DEF Fine
  <1>4. /\ Still(TimerStart(d, "send_prolongation_request", "long"), d)
        /\ Still(TimerStop(d, "send_prolongation_request"), d)
    BY <1>3, TimerStartStill, TimerStopStill DEF Timers, Fine
  <1> QED BY <1>2, <1>3, <1>4, StillFine DEF Fine

\* The peer is ready while we are pending: the flag records what was heard.
LEMMA PendingHeardReadyFine ==
  ASSUME NEW c, Fine(c), NEW f \in FrameType, "ready" \in c.heard
  PROVE  Fine(PendingHeardReady(c, f))
  <1> DEFINE d == [c EXCEPT !.remote_hello_ready = TRUE]
             e == TimerStop(d, "wait_for_ready")
             g == TimerStop(e, "prolongation_request_reply")
  <1>1. /\ d \in Connection /\ d.role = c.role /\ d.sme_state = c.sme_state
        /\ d.pc = c.pc /\ d.cur = c.cur /\ d.heard = c.heard /\ d.said = c.said
    BY DEF Fine, Connection
  <1>2. PendingHeardReady(c, f) = IF f.sub \in Waitings THEN NewWaitValue(g, f.sub)
                                  ELSE SetSmeState(d, "SmeHelloStateAbort")
    BY DEF PendingHeardReady
  <1> HIDE DEF d
  <1>3. Fine(d)
    BY <1>1 DEF Fine, Led, Heard, Progress
  <1>4. Fine(e)
    BY <1>3, TimerStopStill, StillFine DEF Timers, Fine
  <1> HIDE DEF e
  <1>5. Fine(g)
    BY <1>4, TimerStopStill, StillFine DEF Timers, Fine
  <1> HIDE DEF g
  <1>6. f.sub \in Waitings => Fine(NewWaitValue(g, f.sub))
    BY <1>5, NewWaitValueFine
  <1>7. Fine(SetSmeState(d, "SmeHelloStateAbort"))
    BY <1>3, GivesUp, AbortStatesIn DEF Fine, Led, Closing
  <1> QED BY <1>2, <1>6, <1>7

\* Both ends are pending.
LEMMA PendingHeardPendingFine ==
  ASSUME NEW c, Fine(c), NEW f \in FrameType, f.val = "pending", NEW ok \in BOOLEAN
  PROVE  Fine(PendingHeardPending(c, f, ok))
  <1> DEFINE d == TimerStop(c, "prolongation_request_reply")
  <1>1. Fine(d)
    BY TimerStopStill, StillFine DEF Timers, Fine
  <1>2. PendingHeardPending(c, f, ok)
          = IF f.sub \in Waitings THEN NewWaitValue(d, f.sub) ELSE ProlongationReply(c, f, ok)
    BY DEF PendingHeardPending
  <1> HIDE DEF d
  <1> QED BY <1>1, <1>2, NewWaitValueFine, ProlongationReplyFine

\* A hello in READY: "ready" was written on the way in, and now heard.
LEMMA ReadyEvaluateFine ==
  ASSUME NEW c, Fine(c), c.sme_state = "SmeHelloStateReadyListen",
         NEW f \in FrameType, Milestone(f) \subseteq c.heard, NEW ok \in BOOLEAN
  PROVE  Fine(ReadyEvaluate(c, f, ok))
  <1>1. Fine(SetSmeState(c, "SmeHelloStateAbort"))
    BY GivesUp, AbortStatesIn DEF Fine, Led, Closing
  <1>2. Fine(HelloAbort(c, ok))
    BY HelloAbortFine DEF Fine, Led
  <1>3. f.kind = "hello" /\ f.val = "ready" => Fine(SetSmeState(c, "SmeHelloStateOk"))
    <2>1. SUFFICES ASSUME f.kind = "hello", f.val = "ready"
                   PROVE  Fine(SetSmeState(c, "SmeHelloStateOk"))
      OBVIOUS
    <2>2. "ready" \in c.heard /\ "ready" \in c.said /\ "init" \in c.said /\ "init" \in c.heard
      BY <2>1, MilestoneOf DEF Fine, Led, Progress, Closing, AbortStates, CmiStates
    <2>3. "SmeHelloStateOk" \in SmeStates
      BY DEF SmeStates, HelloOkStates
    <2> QED BY <2>2, <2>3, MovesFine
            DEF Fine, Led, Heard, Progress, PastProtocol, ProtOkStates, PinOkStates
  <1>4. f.val = "pending" => Fine(ProlongationReply(c, f, ok))
    BY ProlongationReplyFine
  <1> QED BY <1>1, <1>2, <1>3, <1>4 DEF ReadyEvaluate

\* A hello in PENDING.
LEMMA PendingEvaluateFine ==
  ASSUME NEW c, Fine(c), NEW f \in FrameType, Milestone(f) \subseteq c.heard,
         NEW ok \in BOOLEAN
  PROVE  Fine(PendingEvaluate(c, f, ok))
  <1>1. Fine(SetSmeState(c, "SmeHelloStateAbort"))
    BY GivesUp, AbortStatesIn DEF Fine, Led, Closing
  <1>2. Fine(HelloAbort(c, ok))
    BY HelloAbortFine DEF Fine, Led
  <1>3. f.kind = "hello" /\ f.val = "ready" => Fine(PendingHeardReady(c, f))
    BY PendingHeardReadyFine, MilestoneOf
  <1>4. f.val = "pending" => Fine(PendingHeardPending(c, f, ok))
    BY PendingHeardPendingFine
  <1> QED BY <1>1, <1>2, <1>3, <1>4 DEF PendingEvaluate

\* From PENDING or the start of hello to the states of hello that owe the "init"s only.
LEMMA HelloGoesOn ==
  ASSUME NEW c, Fine(c),
         c.sme_state \notin Closing \cup CmiStates,
         NEW st \in {"SmeHelloStateReadyInit", "SmeHelloStatePendingInit",
                     "SmeHelloStatePendingListen", "SmeHelloStatePendingTimeout"}
  PROVE  Fine(SetSmeState(c, st))
  <1>1. "init" \in c.said /\ "init" \in c.heard
    BY DEF Fine, Led, Progress, Closing, CmiStates
  <1>2. st \in SmeStates
    BY DEF SmeStates, ReadyStates, PendingStates
  <1>3. st \notin PastHello /\ st \notin PastProtocol /\ st \notin PinOkStates
    BY DEF PastHello, PastProtocol, HelloOkStates, ProtOkStates, PinOkStates
  <1> QED BY <1>1, <1>2, <1>3, MovesFine DEF Fine, Led, Heard, Progress

\* The peer is found to be trusted.
LEMMA TrustedFine ==
  ASSUME NEW c, Fine(c), c.sme_state \notin Closing \cup CmiStates
  PROVE  Fine(SetSmeState([c EXCEPT !.trusted = TRUE], "SmeHelloStateReadyInit"))
  <1> DEFINE d == [c EXCEPT !.trusted = TRUE]
  <1>1. Still(d, c)
    BY DEF Fine, Still, Connection
  <1> HIDE DEF d
  <1>2. Fine(d) /\ d.sme_state = c.sme_state
    BY <1>1, StillFine DEF Fine, Still
  <1>3. Fine(SetSmeState(d, "SmeHelloStateReadyInit"))
    BY <1>2, HelloGoesOn
  <1> QED BY <1>3 DEF d

\* The decision of the application.
LEMMA PendingDecidedFine ==
  ASSUME NEW c, Fine(c), c.sme_state \notin Closing \cup CmiStates,
         NEW granted \in BOOLEAN, NEW accepted \in BOOLEAN
  PROVE  Fine(PendingDecided(c, granted, accepted))
  <1> DEFINE d == StopPairTimers(c)
  <1>1. PendingDecided(c, granted, accepted)
          = IF granted /\ accepted
            THEN SetSmeState([d EXCEPT !.trusted = TRUE], "SmeHelloStateReadyInit")
            ELSE SetSmeState(c, "SmeHelloStateAbort")
    BY DEF PendingDecided
  <1>2. Still(d, c)
    BY StopPairStill DEF Fine
  <1> HIDE DEF d
  <1>3. Fine(d) /\ d.sme_state = c.sme_state
    BY <1>2, StillFine DEF Fine, Still
  <1>4. Fine(SetSmeState([d EXCEPT !.trusted = TRUE], "SmeHelloStateReadyInit"))
    BY <1>3, TrustedFine
  <1>5. Fine(SetSmeState(c, "SmeHelloStateAbort"))
    BY GivesUp, AbortStatesIn DEF Fine, Led, Closing
  <1> QED BY <1>1, <1>4, <1>5

\* The prolongation request.
LEMMA RequestProlongationFine ==
  ASSUME NEW c, Fine(c), c.sme_state \notin Closing \cup CmiStates,
         NEW remaining \in Waitings
  PROVE  Fine(RequestProlongation(c, remaining))
  <1> DEFINE d == Sent(c, Hello("pending", "prolong"))
             w == IF c.last_received_waiting_value = "zero" THEN remaining
                  ELSE c.last_received_waiting_value
             r == IF c.timer["prolongation_request_reply"] \in {"idle", "joined"}
                  THEN w ELSE d.reply_timeout
             e == [d EXCEPT !.last_received_waiting_value = w, !.reply_timeout = r]
             g == TimerStart(e, "prolongation_request_reply", w)
  <1>1. Still(d, c)
    BY SentStill, WrittenFrames DEF Fine
  <1>2. RequestProlongation(c, remaining) = SetSmeState(g, "SmeHelloStatePendingListen")
    BY DEF RequestProlongation
  <1> HIDE DEF d
  <1>3. w \in Waitings /\ r \in Waitings
    BY <1>1, Fields DEF Fine, Still
  <1> HIDE DEF w, r
  <1>4. Still(e, d)
    BY <1>1, <1>3 DEF Still, Connection
  <1> HIDE DEF e
  <1>5. Still(g, e)
    BY <1>4, TimerStartStill DEF Still, Timers
  <1> HIDE DEF g
  <1>6. Still(g, c)
    BY <1>1, <1>4, <1>5, StillTrans
  <1>7. Fine(g) /\ g.sme_state = c.sme_state
    BY <1>6, StillFine DEF Fine, Still
  <1> QED BY <1>2, <1>7, HelloGoesOn

\* The PIN state of the peer: the handshake goes on only with one that asks for none.
LEMMA PinRequirementFine ==
  ASSUME NEW c, Fine(c), "pin" \in c.said, c.sme_state \in ProtOkStates,
         NEW f \in FrameType, f.kind = "pin", Milestone(f) \subseteq c.heard
  PROVE  Fine(PinRequirement(c, f))
  <1>1. Fine(SetSmeState(c, "SmeHelloStateAbort"))
    BY GivesUp, AbortStatesIn DEF Fine, Led, Closing
  <1>2. Fine(CloseWithError(c))
    BY CloseWithErrorFine DEF Fine, Led
  <1>3. \A st \in {"SmePinStateCheckOk", "SmePinStateCheckBusyWait",
                   "SmePinStateCheckListen"} : st \in SmeStates
    BY DEF SmeStates, ProtOkStates, PinOkStates
  <1>4. f.val \in {"none", "pinOk"} => Fine(SetSmeState(c, "SmePinStateCheckOk"))
    <2>1. f.val \in {"none", "pinOk"} => "pin" \in c.heard
      BY MilestoneOf
    <2> QED BY <1>3, <2>1, MovesFine
            DEF Fine, Led, Heard, Progress, Closing, AbortStates, CmiStates,
                PastHello, PastProtocol, ProtOkStates
  <1>5. \A st \in {"SmePinStateCheckBusyWait", "SmePinStateCheckListen"} :
          Fine(SetSmeState(c, st))
    BY <1>3, MovesFine
       DEF Fine, Led, Heard, Progress, Closing, AbortStates, CmiStates,
           PastHello, PastProtocol, ProtOkStates, PinOkStates
  <1> QED BY <1>1, <1>2, <1>4, <1>5 DEF PinRequirement

\* Access methods.
LEMMA AccessMethodsFine ==
  ASSUME NEW c, Fine(c), NEW f \in FrameType
  PROVE  Fine(AccessMethods(c, f))
  <1> DEFINE d == TimerStop(c, "wait_for_ready")
             e == [d EXCEPT !.remote_ship_id = f.val]
  <1>1. Still(d, c)
    BY TimerStopStill DEF Timers, Fine
  <1>2. AccessMethods(c, f) = e \/ AccessMethods(c, f) = CloseWithError(d)
    BY DEF AccessMethods
  <1> HIDE DEF d
  <1>3. Fine(d)
    BY <1>1, StillFine DEF Fine
  <1>4. Still(e, d)
    BY <1>3 DEF Still, Fine, Connection, FrameType
  <1> HIDE DEF e
  <1> QED BY <1>2, <1>3, <1>4, StillFine, CloseWithErrorFine DEF Fine, Led

\* The peer closes.
LEMMA HandleCloseFine ==
  ASSUME NEW c, Fine(c), NEW f \in FrameType
  PROVE  Fine(HandleClose(c, f))
  <1> DEFINE d == IF f.val = "announce" THEN Sent(c, Frame("close", "confirm", "none")) ELSE c
             p == StopPairTimers(d)
             e == TimerStop(p, "wait_for_ready")
             g == [e EXCEPT !.cancel = TRUE, !.shutdown_once = TRUE, !.closed_reports = @ + 1]
  <1>1. HandleClose(c, f) = g
    BY DEF HandleClose
  <1>2. Still(Sent(c, Frame("close", "confirm", "none")), c) /\ Still(c, c)
    BY SentStill, WrittenFrames DEF Still, Fine
  <1>3. Still(d, c)
    BY <1>2
  <1> HIDE DEF d
  <1>4. Still(p, d)
    BY <1>3, StopPairStill DEF Still
  <1> HIDE DEF p
  <1>5. Still(e, p)
    BY <1>4, TimerStopStill DEF Still, Timers
  <1> HIDE DEF e
  <1>6. Still(g, e)
    <2>1. e \in Connection /\ e.closed_reports + 1 \in Nat
      BY <1>5, Fields DEF Still
    <2> QED BY <2>1 DEF Still, Connection
  <1> HIDE DEF g
  <1>7. Still(g, c)
    BY <1>3, <1>4, <1>5, <1>6, StillTrans
  <1> QED BY <1>1, <1>7, StillFine DEF Fine

\* A frame in data exchange.
LEMMA HandleReceiveFine ==
  ASSUME NEW c, Fine(c), NEW f \in FrameType, NEW ok \in BOOLEAN
  PROVE  Fine(HandleReceive(c, f, ok))
  <1>1. Fine(Sent(c, Frame("access", "local", "none")))
    BY SentStill, StillFine, WrittenFrames DEF Fine
  <1>2. Fine(AccessMethods(c, f)) /\ Fine(HandleClose(c, f))
    BY AccessMethodsFine, HandleCloseFine
  <1>3. Fine(CloseWithError(c))
    BY CloseWithErrorFine DEF Fine, Led
  <1> QED BY <1>1, <1>2, <1>3 DEF HandleReceive
-----------------------------------------------------------------------------
(* The steps of the connection thread                                      *)

\* The unfolded notions of how far a handshake is.
LEMMA Phases ==
  /\ PastHello = HelloOkStates \cup ProtOkStates \cup PinOkStates
  /\ PastProtocol = ProtOkStates \cup PinOkStates
  /\ \A st \in PastHello \cup CmiStates \cup ReadyStates \cup PendingStates
               \cup {"SmeHelloState", "SmeHelloStatePendingInit"} :
       st \in SmeStates /\ st \notin Closing
  /\ \A st \in PastHello \cup ReadyStates \cup PendingStates
               \cup {"SmeHelloState", "SmeHelloStatePendingInit"} : st \notin CmiStates
  BY DEF PastHello, PastProtocol, Closing, AbortStates, HelloOkStates, ProtOkStates,
         PinOkStates, CmiStates, ReadyStates, PendingStates, SmeStates

\* The connection after the receive: the message is gone, what it said was heard.
LEMMA TakenFine ==
  ASSUME Fine(sc), sc.pc = "got"
  PROVE  /\ Fine(Taken) /\ Taken.sme_state = sc.sme_state /\ Taken.role = sc.role
         /\ Taken.said = sc.said /\ Taken.heard = sc.heard /\ Taken.pc = "run"
         /\ Milestone(sc.cur.frame) \subseteq Taken.heard
         /\ sc.cur.frame \in FrameType
  <1> DEFINE c == [sc EXCEPT !.pc = "run", !.cur = NoMsg]
             d == TimerStop(c, "wait_for_ready")
  <1>1. /\ c \in Connection /\ c.sme_state = sc.sme_state /\ c.role = sc.role
        /\ c.said = sc.said /\ c.heard = sc.heard /\ c.pc = "run" /\ c.cur = NoMsg
        /\ c.remote_hello_ready = sc.remote_hello_ready
    BY NothingHeard DEF Fine, Connection
  <1>2. Taken = d
    BY DEF Taken
  <1> HIDE DEF c
  <1>3. Fine(c)
    BY <1>1, NothingHeard DEF Fine, Led, Heard, Progress
  <1>4. Still(d, c)
    BY <1>1, TimerStopStill DEF Timers
  <1>5. d.said = c.said
    BY <1>1 DEF TimerStop, Connection
  <1> HIDE DEF d
  <1>6. Fine(d)
    BY <1>3, <1>4, StillFine DEF Fine
  <1>7. sc.cur.frame \in FrameType /\ Milestone(sc.cur.frame) \subseteq sc.heard
    BY Fields DEF Fine, Led, Heard
  <1> QED BY <1>1, <1>2, <1>4, <1>5, <1>6, <1>7 DEF Still

\* Start, end and the receive.
LEMMA LoopFine ==
  ASSUME Fine(sc), LoopExit \/ TryStart \/ BeginWait \/ Receive
  PROVE  Fine(sc')
  <1>1. ASSUME NEW p \in {"exited", "run", "wait"}, sc.sme_state # "SmePinStateCheckInit" \/ p # "wait"
        PROVE  Fine([sc EXCEPT !.pc = p])
    <2> DEFINE d == [sc EXCEPT !.pc = p]
    <2>1. /\ d \in Connection /\ d.role = sc.role /\ d.sme_state = sc.sme_state /\ d.pc = p
          /\ d.cur = sc.cur /\ d.heard = sc.heard /\ d.said = sc.said
          /\ d.remote_hello_ready = sc.remote_hello_ready
      BY DEF Fine, Connection
    <2> HIDE DEF d
    <2>2. Fine(d)
      BY <1>1, <2>1 DEF Fine, Led, Heard, Progress
    <2> QED BY <2>2 DEF d
  <1>2. CASE LoopExit
    BY <1>1, <1>2 DEF LoopExit, Advance
  <1>3. CASE TryStart
    BY <1>1, <1>3 DEF TryStart, Advance
  <1>4. CASE BeginWait
    <2> DEFINE d == [sc EXCEPT !.pc = "wait"]
    <2>1. Fine(d)
      BY <1>1, <1>4 DEF BeginWait, In, ListenStates
    <2>2. sc' = TimerStart(d, "wait_for_ready", "long")
      BY <1>4 DEF BeginWait, Advance
    <2> HIDE DEF d
    <2> QED BY <2>1, <2>2, TimerStartStill, StillFine DEF Timers, Fine
  <1>5. CASE Receive
    <2> DEFINE m == Head(sc.queue)
               c == [sc EXCEPT !.queue = Tail(@)]
               h == sc.heard \cup Milestone(m.frame)
               g == [c EXCEPT !.pc = "got", !.cur = m, !.heard = h]
    <2>1. sc.queue # << >> /\ sc.pc = "wait"
      BY <1>5 DEF Receive
    <2>2. /\ m \in [type : MsgTypes, frame : FrameType]
          /\ Tail(sc.queue) \in Seq([type : MsgTypes, frame : FrameType])
      <3>1. sc.queue \in Seq([type : MsgTypes, frame : FrameType])
        BY Fields DEF Fine
      <3> QED BY <2>1, <3>1, HeadTailProperties
    <2>3. h \in SUBSET Milestones
      BY <2>2, MilestoneType, Fields DEF Fine
    <2>4. /\ c \in Connection /\ c.role = sc.role /\ c.sme_state = sc.sme_state
          /\ c.pc = sc.pc /\ c.cur = sc.cur /\ c.heard = sc.heard /\ c.said = sc.said
          /\ c.remote_hello_ready = sc.remote_hello_ready
      BY <2>2 DEF Fine, Connection
    <2>5. sc' = c \/ sc' = g
      <3>1. c.heard = sc.heard
        BY <2>4
      <3> QED BY <1>5, <3>1 DEF Receive, Advance
    <2>6. sc.heard \subseteq h /\ Milestone(m.frame) \subseteq h
      OBVIOUS
    <2> HIDE DEF c, h, m
    <2>7. Fine(c)
      BY <2>4, StillFine DEF Still, Fine
    <2>8. /\ g \in Connection /\ g.role = c.role /\ g.sme_state = c.sme_state
          /\ g.pc = "got" /\ g.cur = m /\ g.heard = h /\ g.said = c.said
          /\ g.remote_hello_ready = c.remote_hello_ready
      BY <2>2, <2>3, <2>4 DEF Connection
    <2> HIDE DEF g
    <2>9. Fine(g)
      BY <2>1, <2>4, <2>6, <2>7, <2>8 DEF Fine, Led, Heard, Progress
    <2> QED BY <2>5, <2>7, <2>9
  <1> QED BY <1>2, <1>3, <1>4, <1>5

\* Connection mode initialisation: each side writes and hears "init".
LEMMA CmiFine ==
  ASSUME Fine(sc),
         \/ CmiStateClientSend \/ CmiStateClientWait \/ CmiStateServerWait
         \/ CmiStateClientEvaluate \/ CmiStateServerEvaluate
  PROVE  Fine(sc')
  <1>0. /\ \A st \in CmiStates : st \in SmeStates
        /\ "SmeHelloState" \in SmeStates
        /\ Frame("init", "ok", "none") \in FrameType
        /\ "init" \in Milestone(Frame("init", "ok", "none"))
    BY WrittenFrames, Phases DEF Frame, Milestone
  <1>1. CASE CmiStateClientSend
    <2>1. PICK ok \in WriteResults :
            sc' = SendThen(sc, Frame("init", "ok", "none"), "CmiStateClientWait", ok,
                           CloseWithError(sc))
      BY <1>1 DEF CmiStateClientSend, Advance
    <2>2. Fine(CloseWithError(sc))
      BY CloseWithErrorFine DEF Fine, Led
    <2>3. Progress(sc.role, "CmiStateClientWait", sc.pc,
                   sc.said \cup Milestone(Frame("init", "ok", "none")), sc.heard)
      BY <1>0 DEF Progress, CmiStates, PastHello, PastProtocol, HelloOkStates, ProtOkStates,
                  PinOkStates
    <2> QED BY <1>0, <2>1, <2>2, <2>3, SendThenFine, WriteResultsType DEF Fine, Led, CmiStates
  <1>2. ASSUME NEW st \in {"CmiStateClientWait", "CmiStateServerWait"},
               NEW nx \in {"CmiStateClientEvaluate", "CmiStateServerEvaluate"},
               st = "CmiStateClientWait" <=> nx = "CmiStateClientEvaluate",
               CmiWait(st, nx)
        PROVE  Fine(sc')
    <2> DEFINE t == Taken
               d == [t EXCEPT !.cur = sc.cur]
    <2>1. sc.pc = "got" /\ sc.sme_state = st
      BY <1>2 DEF CmiWait, Got
    <2>2. /\ Fine(t) /\ t.sme_state = st /\ t.role = sc.role
          /\ t.said = sc.said /\ t.heard = sc.heard /\ t.pc = "run"
          /\ Milestone(sc.cur.frame) \subseteq t.heard
      BY <2>1, TakenFine
    <2>3. sc' = SetSmeState(d, nx) \/ sc' = CloseWithError(t)
      BY <1>2 DEF CmiWait, Advance
    <2> HIDE DEF t
    <2>4. /\ d \in Connection /\ d.role = t.role /\ d.sme_state = t.sme_state
          /\ d.pc = t.pc /\ d.cur = sc.cur /\ d.heard = t.heard /\ d.said = t.said
          /\ d.remote_hello_ready = t.remote_hello_ready
      BY <2>2, Fields DEF Fine, Connection
    <2> HIDE DEF d
    <2>5. Heard(d)
      BY <2>2, <2>4 DEF Fine, Led, Heard
    <2>6. Progress(d.role, nx, d.pc, d.said, d.heard)
      BY <1>2, <2>2, <2>4
         DEF Fine, Led, Progress, CmiStates, Closing, AbortStates, PastHello, PastProtocol,
             HelloOkStates, ProtOkStates, PinOkStates
    <2>7. nx \in SmeStates
      BY <1>0 DEF CmiStates
    <2> QED BY <2>2, <2>3, <2>4, <2>5, <2>6, <2>7, MovesFine, CloseWithErrorFine DEF Fine, Led
  <1>3. CASE CmiStateClientEvaluate \/ CmiStateServerEvaluate
    <2> DEFINE c == [sc EXCEPT !.cur = NoMsg]
    <2>1. /\ c \in Connection /\ c.role = sc.role /\ c.sme_state = sc.sme_state
          /\ c.pc = sc.pc /\ c.cur = NoMsg /\ c.heard = sc.heard /\ c.said = sc.said
          /\ c.remote_hello_ready = sc.remote_hello_ready
      BY NothingHeard DEF Fine, Connection
    <2>2. IsInit(sc.cur.frame) => "init" \in sc.heard
      BY Fields, MilestoneOf DEF IsInit, Fine, Led, Heard
    <2>3. CASE CmiStateClientEvaluate
      <3>1. \/ sc' = SetSmeState(c, "SmeHelloState") /\ IsInit(sc.cur.frame)
            \/ sc' = CloseWithError(c)
        BY <2>3 DEF CmiStateClientEvaluate, Advance
      <3>2. sc.sme_state = "CmiStateClientEvaluate"
        BY <2>3 DEF CmiStateClientEvaluate, In
      <3> HIDE DEF c
      <3>3. Heard(c)
        BY <2>1, NothingHeard DEF Heard, Fine, Led
      <3>4. "init" \in sc.said
        BY <3>2 DEF Fine, Led, Progress, Closing, AbortStates
      <3>5. IsInit(sc.cur.frame) => Progress(c.role, "SmeHelloState", c.pc, c.said, c.heard)
        BY <2>1, <2>2, <3>4
           DEF Progress, PastHello, PastProtocol, HelloOkStates, ProtOkStates, PinOkStates
      <3> QED BY <1>0, <2>1, <3>1, <3>3, <3>5, MovesFine, CloseWithErrorFine
    <2>4. CASE CmiStateServerEvaluate
      <3>1. PICK ok \in WriteResults :
              \/ /\ sc' = SendThen(c, Frame("init", "ok", "none"), "SmeHelloState", ok,
                                   CloseWithError(c))
                 /\ IsInit(sc.cur.frame)
              \/ sc' = CloseWithError(c)
        BY <2>4 DEF CmiStateServerEvaluate, Advance
      <3> HIDE DEF c
      <3>2. Heard(c)
        BY <2>1, NothingHeard DEF Heard, Fine, Led
      <3>3. IsInit(sc.cur.frame) =>
              Progress(c.role, "SmeHelloState", c.pc,
                       c.said \cup Milestone(Frame("init", "ok", "none")), c.heard)
        BY <1>0, <2>1, <2>2
           DEF Progress, PastHello, PastProtocol, HelloOkStates, ProtOkStates, PinOkStates
      <3>4. Fine(CloseWithError(c))
        BY <2>1, <3>2, CloseWithErrorFine
      <3> QED BY <1>0, <2>1, <3>1, <3>2, <3>3, <3>4, SendThenFine, WriteResultsType
    <2> QED BY <1>3, <2>3, <2>4
  <1> QED BY <1>1, <1>2, <1>3 DEF CmiStateClientWait, CmiStateServerWait

\* Hello: READY is left only when "ready" was written and heard.
LEMMA HelloFine ==
  ASSUME Fine(sc), HelloPhase
  PROVE  Fine(sc')
  <1>0. /\ Hello("ready", "long") \in FrameType /\ Hello("pending", "long") \in FrameType
        /\ "ready" \in Milestone(Hello("ready", "long"))
    BY WrittenFrames DEF Hello, Frame, Milestone
  <1>a. ASSUME sc.sme_state \notin Closing \cup CmiStates
        PROVE  "init" \in sc.said /\ "init" \in sc.heard
    BY <1>a DEF Fine, Led, Progress, CmiStates
  <1>b. ASSUME NEW c, Fine(c)
        PROVE  /\ c \in Connection /\ Heard(c)
               /\ Fine(SetSmeState(c, "SmeHelloStateAbort"))
               /\ Fine(SetSmeState(c, "SmeHelloStateReadyTimeout"))
               /\ Fine(CloseWithError(c))
    BY <1>b, GivesUp, AbortStatesIn, CloseWithErrorFine DEF Fine, Led, Closing
  <1>1. CASE SmeHelloState
    <2>1. sc.sme_state \notin Closing \cup CmiStates
      BY <1>1, Phases DEF SmeHelloState, In
    <2>2. \/ sc' = SetSmeState([sc EXCEPT !.trusted = TRUE], "SmeHelloStateReadyInit")
          \/ sc' = SetSmeState(sc, "SmeHelloStatePendingInit")
      BY <1>1 DEF SmeHelloState, Advance
    <2> QED BY <2>1, <2>2, TrustedFine, HelloGoesOn
  <1>2. CASE SmeHelloStateReadyInit
    <2> DEFINE c == StopPairTimers(sc)
               next == IF sc.remote_hello_ready THEN "SmeHelloStateOk"
                       ELSE "SmeHelloStateReadyListen"
    <2>1. "init" \in sc.said /\ "init" \in sc.heard
      BY <1>2, <1>a, Phases DEF SmeHelloStateReadyInit, In, ReadyStates
    <2>2. PICK ok \in WriteResults :
            sc' = SendThen(c, Hello("ready", "long"), next, ok,
                           SetSmeState(c, "SmeHelloStateAbort"))
      BY <1>2 DEF SmeHelloStateReadyInit, Advance
    <2>3. Still(c, sc)
      BY StopPairStill DEF Fine
    <2> HIDE DEF c
    <2>4. Fine(c)
      BY <2>3, StillFine DEF Fine
    <2>5. next \in SmeStates
      BY Phases DEF HelloOkStates, ReadyStates
    <2>6. Progress(c.role, next, c.pc, c.said \cup Milestone(Hello("ready", "long")), c.heard)
      <3>1. /\ "init" \in c.said /\ "init" \in c.heard
            /\ sc.remote_hello_ready => "ready" \in c.heard
        BY <2>1, <2>3 DEF Still, Fine, Led, Heard
      <3> QED BY <1>0, <3>1
              DEF Progress, PastHello, PastProtocol, HelloOkStates, ProtOkStates, PinOkStates
    <2> HIDE DEF next
    <2> QED BY <1>0, <1>b, <2>2, <2>4, <2>5, <2>6, SendThenFine, WriteResultsType
  <1>3. CASE SmeHelloStatePendingInit
    <2> DEFINE c == StopPairTimers(sc)
    <2>1. "init" \in sc.said /\ "init" \in sc.heard
      BY <1>3, <1>a, Phases DEF SmeHelloStatePendingInit, In
    <2>2. PICK ok \in WriteResults :
            sc' = SendThen(c, Hello("pending", "long"), "SmeHelloStatePendingListen", ok,
                           SetSmeState(c, "SmeHelloStateAbort"))
      BY <1>3 DEF SmeHelloStatePendingInit, Advance
    <2>3. Still(c, sc)
      BY StopPairStill DEF Fine
    <2> HIDE DEF c
    <2>4. Fine(c)
      BY <2>3, StillFine DEF Fine
    <2>5. "SmeHelloStatePendingListen" \in SmeStates
      BY Phases DEF PendingStates
    <2>6. Progress(c.role, "SmeHelloStatePendingListen", c.pc,
                   c.said \cup Milestone(Hello("pending", "long")), c.heard)
      <3>1. "init" \in c.said /\ "init" \in c.heard
        BY <2>1, <2>3 DEF Still
      <3> QED BY <3>1
              DEF Progress, PastHello, PastProtocol, HelloOkStates, ProtOkStates, PinOkStates
    <2> QED BY <1>0, <1>b, <2>2, <2>4, <2>5, <2>6, SendThenFine, WriteResultsType
  <1>4. CASE SmeHelloStateReadyListen
    <2>1. sc.pc = "got" /\ sc.sme_state = "SmeHelloStateReadyListen"
      BY <1>4 DEF SmeHelloStateReadyListen, Got
    <2>2. PICK ok \in WriteResults :
            \/ sc' = ReadyEvaluate(Taken, sc.cur.frame, ok)
            \/ sc' = SetSmeState(Taken, "SmeHelloStateReadyTimeout")
            \/ sc' = SetSmeState(Taken, "SmeHelloStateAbort")
      BY <1>4 DEF SmeHelloStateReadyListen, Advance
    <2>3. Fine(ReadyEvaluate(Taken, sc.cur.frame, ok))
      BY <2>1, TakenFine, ReadyEvaluateFine, WriteResultsType
    <2> QED BY <1>b, <2>1, <2>2, <2>3, TakenFine
  <1>5. CASE SmeHelloStatePendingListen
    <2>1. sc.pc = "got" /\ sc.sme_state = "SmeHelloStatePendingListen"
      BY <1>5 DEF SmeHelloStatePendingListen, Got
    <2>2. PICK ok \in WriteResults, accepted \in BOOLEAN :
            \/ sc' = PendingEvaluate(Taken, sc.cur.frame, ok)
            \/ sc' = PendingDecided(Taken, sc.cur.type = "TrustGranted", accepted)
            \/ sc' = SetSmeState(Taken, "SmeHelloStatePendingTimeout")
            \/ sc' = SetSmeState(Taken, "SmeHelloStateAbort")
      BY <1>5 DEF SmeHelloStatePendingListen, Advance
    <2>3. Fine(Taken) /\ Taken.sme_state \notin Closing \cup CmiStates
      BY <2>1, TakenFine, Phases DEF PendingStates
    <2>4. Fine(PendingEvaluate(Taken, sc.cur.frame, ok))
      BY <2>1, TakenFine, PendingEvaluateFine, WriteResultsType
    <2>5. Fine(PendingDecided(Taken, sc.cur.type = "TrustGranted", accepted))
      BY <2>3, PendingDecidedFine
    <2>6. Fine(SetSmeState(Taken, "SmeHelloStatePendingTimeout"))
      BY <2>3, HelloGoesOn
    <2> QED BY <1>b, <2>2, <2>3, <2>4, <2>5, <2>6
  <1>6. CASE SmeHelloStatePendingTimeout
    <2>1. sc.sme_state \notin Closing \cup CmiStates
      BY <1>6, Phases DEF SmeHelloStatePendingTimeout, In, PendingStates
    <2>2. Remaining(sc.reply_timeout) \subseteq Waitings
      BY DEF Remaining, Waitings
    <2>3. \/ sc' = SetSmeState(sc, "SmeHelloStateAbort")
          \/ \E remaining \in Waitings : sc' = RequestProlongation(sc, remaining)
          \/ sc' = CloseWithError(sc) \/ sc' = sc
      BY <1>6, <2>2 DEF SmeHelloStatePendingTimeout, Advance
    <2> QED BY <1>b, <2>1, <2>3, RequestProlongationFine
  <1>7. CASE SmeHelloStateOk
    <2> DEFINE st == IF sc.role = "client" THEN "SmeProtHStateClientInit"
                     ELSE "SmeProtHStateServerInit"
    <2>1. sc.sme_state = "SmeHelloStateOk" /\ sc' = SetSmeState(sc, st)
      BY <1>7 DEF SmeHelloStateOk, In, Advance
    <2>2. st \in SmeStates
      BY Phases DEF HelloOkStates
    <2>3. sc.role \in {"client", "server"}
      BY Fields DEF Fine
    <2>4. Progress(sc.role, st, sc.pc, sc.said, sc.heard)
      BY <2>1, <2>3
         DEF Fine, Led, Progress, Closing, AbortStates, CmiStates, PastHello, PastProtocol,
             HelloOkStates, ProtOkStates, PinOkStates
    <2> HIDE DEF st
    <2> QED BY <1>b, <2>1, <2>2, <2>4, MovesFine
  <1>8. CASE SmeHelloStateAbort
    <2>1. PICK ok \in WriteResults : sc' = HelloAbort(sc, ok)
      BY <1>8 DEF SmeHelloStateAbort, Advance
    <2> QED BY <1>b, <2>1, HelloAbortFine, WriteResultsType
  <1> QED BY <1>1, <1>2, <1>3, <1>4, <1>5, <1>6, <1>7, <1>8 DEF HelloPhase

\* The protocol handshake is left by either role only with its part of it said and
\* heard.
LEMMA ProtocolFine ==
  ASSUME Fine(sc), ProtocolPhase
  PROVE  Fine(sc')
  <1>0. /\ Frame("prot", "announceMax", "max") \in FrameType
        /\ Frame("prot", "select", "max") \in FrameType
        /\ "announceMax" \in Milestone(Frame("prot", "announceMax", "max"))
        /\ "select" \in Milestone(Frame("prot", "select", "max"))
    BY WrittenFrames DEF Frame, Milestone
  <1>b. ASSUME NEW c, Fine(c)
        PROVE  c \in Connection /\ Heard(c) /\ Fine(CloseWithError(c))
    BY <1>b, CloseWithErrorFine DEF Fine, Led
  <1>c. ASSUME NEW c, Fine(c)
        PROVE  LET d == TimerStop(c, "wait_for_ready")
               IN  /\ Fine(d) /\ d.role = c.role /\ d.sme_state = c.sme_state
                   /\ d.heard = c.heard /\ c.said \subseteq d.said /\ d.pc = c.pc
    BY <1>c, TimerStopStill, StillFine DEF Fine, Still, Timers
  <1> USE DEF PastHello, PastProtocol, HelloOkStates, ProtOkStates, PinOkStates
  <1>1. CASE SmeProtHandshakeStateClientInit
    <2> DEFINE c == TimerStop(sc, "wait_for_ready")
    <2>1. sc.sme_state = "SmeProtHStateClientInit"
      BY <1>1 DEF SmeProtHandshakeStateClientInit, In
    <2>2. PICK ok \in WriteResults :
            sc' = SendThen(c, Frame("prot", "announceMax", "max"),
                           "SmeProtHStateClientListenChoice", ok, CloseWithError(c))
      BY <1>1 DEF SmeProtHandshakeStateClientInit, Advance
    <2>3. Fine(c) /\ c.sme_state = "SmeProtHStateClientInit"
      BY <1>c, <2>1
    <2> HIDE DEF c
    <2>4. Progress(c.role, "SmeProtHStateClientListenChoice", c.pc,
                   c.said \cup Milestone(Frame("prot", "announceMax", "max")), c.heard)
      BY <1>0, <2>3 DEF Fine, Led, Progress, Closing, AbortStates, CmiStates
    <2>5. "SmeProtHStateClientListenChoice" \in SmeStates
      BY Phases
    <2> QED BY <1>0, <1>b, <2>2, <2>3, <2>4, <2>5, SendThenFine, WriteResultsType
  <1>2. CASE SmeProtHandshakeStateClientListenChoice
    <2> DEFINE c == TimerStop(Taken, "wait_for_ready")
    <2>1. sc.pc = "got" /\ sc.sme_state = "SmeProtHStateClientListenChoice"
      BY <1>2 DEF SmeProtHandshakeStateClientListenChoice, Got
    <2>2. PICK ok \in WriteResults :
            \/ /\ IsChoice(sc.cur.frame)
               /\ sc' = SendThen(c, Frame("prot", "select", "max"),
                                 "SmeProtHStateClientOk", ok, CloseWithError(c))
            \/ sc' = ProtAbort(Taken, ok)
      BY <1>2 DEF SmeProtHandshakeStateClientListenChoice, Advance
    <2>3. Fine(Taken) /\ Taken.sme_state = sc.sme_state /\ Milestone(sc.cur.frame) \subseteq Taken.heard
      BY <2>1, TakenFine
    <2>4. Fine(c) /\ c.sme_state = sc.sme_state /\ c.heard = Taken.heard
      BY <1>c, <2>3
    <2>5. IsChoice(sc.cur.frame) => "select" \in c.heard
      BY <2>1, <2>3, <2>4, TakenFine, MilestoneOf DEF IsChoice
    <2> HIDE DEF c
    <2>6. IsChoice(sc.cur.frame) =>
            Progress(c.role, "SmeProtHStateClientOk", c.pc,
                     c.said \cup Milestone(Frame("prot", "select", "max")), c.heard)
      BY <1>0, <2>1, <2>4, <2>5 DEF Fine, Led, Progress, Closing, AbortStates, CmiStates
    <2>7. "SmeProtHStateClientOk" \in SmeStates
      BY Phases
    <2> QED BY <1>0, <1>b, <2>2, <2>3, <2>4, <2>6, <2>7, SendThenFine, ProtAbortFine,
               WriteResultsType
  <1>3. CASE SmeProtHandshakeStateServerInit
    <2> DEFINE c == TimerStop(sc, "wait_for_ready")
    <2>1. /\ sc.sme_state = "SmeProtHStateServerInit"
          /\ sc' = SetSmeState(c, "SmeProtHStateServerListenProposal")
      BY <1>3 DEF SmeProtHandshakeStateServerInit, In, Advance
    <2>2. Fine(c) /\ c.sme_state = "SmeProtHStateServerInit"
      BY <1>c, <2>1
    <2> HIDE DEF c
    <2>3. Progress(c.role, "SmeProtHStateServerListenProposal", c.pc, c.said, c.heard)
      BY <2>2 DEF Fine, Led, Progress, Closing, AbortStates, CmiStates
    <2>4. "SmeProtHStateServerListenProposal" \in SmeStates
      BY Phases
    <2> QED BY <1>b, <2>1, <2>2, <2>3, <2>4, MovesFine
  <1>4. CASE SmeProtHandshakeStateServerListenProposal
    <2> DEFINE c == TimerStop(Taken, "wait_for_ready")
               f == Frame("prot", "select", sc.cur.frame.sub)
    <2>1. sc.pc = "got" /\ sc.sme_state = "SmeProtHStateServerListenProposal"
      BY <1>4 DEF SmeProtHandshakeStateServerListenProposal, Got
    <2>2. PICK ok \in WriteResults :
            \/ /\ IsProposal(sc.cur.frame)
               /\ sc' = SendThen(c, f, "SmeProtHStateServerListenConfirm", ok,
                                 CloseWithError(c))
            \/ sc' = ProtAbort(Taken, ok)
      BY <1>4 DEF SmeProtHandshakeStateServerListenProposal, Advance
    <2>3. /\ Fine(Taken) /\ Taken.sme_state = sc.sme_state
          /\ Milestone(sc.cur.frame) \subseteq Taken.heard /\ sc.cur.frame \in FrameType
      BY <2>1, TakenFine
    <2>4. Fine(c) /\ c.sme_state = sc.sme_state /\ c.heard = Taken.heard
      BY <1>c, <2>3
    <2>5. IsProposal(sc.cur.frame) => "announceMax" \in c.heard
      BY <2>3, <2>4, MilestoneOf DEF IsProposal
    <2>6. f \in FrameType /\ "select" \in Milestone(f)
      BY <2>3 DEF Frame, FrameType, Kinds, Vals, Milestone
    <2> HIDE DEF c, f
    <2>7. IsProposal(sc.cur.frame) =>
            Progress(c.role, "SmeProtHStateServerListenConfirm", c.pc,
                     c.said \cup Milestone(f), c.heard)
      BY <2>1, <2>4, <2>5, <2>6 DEF Fine, Led, Progress, Closing, AbortStates, CmiStates
    <2>8. "SmeProtHStateServerListenConfirm" \in SmeStates
      BY Phases
    <2> QED BY <1>b, <2>2, <2>3, <2>4, <2>6, <2>7, <2>8, SendThenFine, ProtAbortFine,
               WriteResultsType
  <1>5. CASE SmeProtHandshakeStateServerListenConfirm
    <2>1. sc.pc = "got" /\ sc.sme_state = "SmeProtHStateServerListenConfirm"
      BY <1>5 DEF SmeProtHandshakeStateServerListenConfirm, Got
    <2>2. PICK ok \in WriteResults :
            \/ IsConfirm(sc.cur.frame) /\ sc' = SetSmeState(Taken, "SmeProtHStateServerOk")
            \/ sc' = ProtAbort(Taken, ok)
      BY <1>5 DEF SmeProtHandshakeStateServerListenConfirm, Advance
    <2>3. /\ Fine(Taken) /\ Taken.sme_state = sc.sme_state
          /\ Milestone(sc.cur.frame) \subseteq Taken.heard /\ sc.cur.frame \in FrameType
      BY <2>1, TakenFine
    <2>4. IsConfirm(sc.cur.frame) => "select" \in Taken.heard
      BY <2>3, MilestoneOf DEF IsConfirm
    <2>5. IsConfirm(sc.cur.frame) =>
            Progress(Taken.role, "SmeProtHStateServerOk", Taken.pc, Taken.said, Taken.heard)
      BY <2>1, <2>3, <2>4 DEF Fine, Led, Progress, Closing, AbortStates, CmiStates
    <2>6. "SmeProtHStateServerOk" \in SmeStates
      BY Phases
    <2> QED BY <1>b, <2>2, <2>3, <2>5, <2>6, MovesFine, ProtAbortFine, WriteResultsType
  <1>6. CASE SmeProtHStateOk
    <2>1. /\ sc.sme_state \in {"SmeProtHStateClientOk", "SmeProtHStateServerOk"}
          /\ sc.pc = "run" /\ sc' = SetSmeState(sc, "SmePinStateCheckInit")
      BY <1>6 DEF SmeProtHStateOk, In, Advance
    <2>2. Progress(sc.role, "SmePinStateCheckInit", sc.pc, sc.said, sc.heard)
      BY <2>1 DEF Fine, Led, Progress, Closing, AbortStates, CmiStates
    <2>3. "SmePinStateCheckInit" \in SmeStates
      BY Phases
    <2> QED BY <1>b, <2>1, <2>2, <2>3, MovesFine
  <1> QED BY <1>1, <1>2, <1>3, <1>4, <1>5, <1>6 DEF ProtocolPhase

\* The PIN check: our state goes out before the wait, the peer's state is heard in it.
LEMMA PinFine ==
  ASSUME Fine(sc),
         \/ SmePinStateCheckInitSend \/ SmePinStateCheckInit \/ SmePinStateCheckListen
         \/ SmePinStateCheckBusyWait \/ SmePinStateCheckOk \/ SmeStateApproved
  PROVE  Fine(sc')
  <1> USE DEF PastHello, PastProtocol, HelloOkStates, ProtOkStates, PinOkStates
  <1>b. ASSUME NEW c, Fine(c)
        PROVE  /\ c \in Connection /\ Heard(c) /\ Fine(CloseWithError(c))
               /\ Fine(SetSmeState(c, "SmeHelloStateAbort"))
    BY <1>b, CloseWithErrorFine, GivesUp, AbortStatesIn DEF Fine, Led, Closing
  <1>1. CASE SmePinStateCheckInitSend
    <2> DEFINE c == Sent(sc, Frame("pin", "none", "none"))
               d == [c EXCEPT !.pc = "wait"]
    <2>1. \/ sc' = TimerStart(d, "wait_for_ready", "long")
          \/ sc' = CloseWithError(sc)
      BY <1>1 DEF SmePinStateCheckInitSend, Advance
    <2>2. Still(c, sc) /\ "pin" \in c.said
      <3>1. "pin" \in Milestone(Frame("pin", "none", "none"))
        BY DEF Frame, Milestone
      <3> QED BY <3>1, SentStill, WrittenFrames DEF Fine
    <2>3. sc.sme_state = "SmePinStateCheckInit"
      BY <1>1 DEF SmePinStateCheckInitSend, In
    <2> HIDE DEF c
    <2>4. Fine(c)
      BY <2>2, StillFine DEF Fine
    <2>5. /\ d \in Connection /\ d.role = c.role /\ d.sme_state = c.sme_state
          /\ d.pc = "wait" /\ d.cur = c.cur /\ d.heard = c.heard /\ d.said = c.said
          /\ d.remote_hello_ready = c.remote_hello_ready
      BY <2>4 DEF Fine, Connection
    <2> HIDE DEF d
    <2>6. Fine(d)
      BY <2>2, <2>4, <2>5 DEF Fine, Led, Heard, Progress
    <2>7. Fine(TimerStart(d, "wait_for_ready", "long"))
      BY <2>6, TimerStartStill, StillFine DEF Timers, Fine
    <2> QED BY <1>b, <2>1, <2>7
  <1>2. CASE SmePinStateCheckInit
    <2>1. sc.pc = "got" /\ sc.sme_state = "SmePinStateCheckInit"
      BY <1>2 DEF SmePinStateCheckInit, Got
    <2>2. \/ sc' = CloseWithError(Taken)
          \/ sc.cur.frame.kind = "pin" /\ sc' = PinRequirement(Taken, sc.cur.frame)
          \/ sc' = SetSmeState(Taken, "SmeHelloStateAbort")
      BY <1>2 DEF SmePinStateCheckInit, Advance
    <2>3. "pin" \in Taken.said
      BY <2>1, TakenFine DEF Fine, Led, Progress
    <2>4. sc.cur.frame.kind = "pin" => Fine(PinRequirement(Taken, sc.cur.frame))
      BY <2>1, <2>3, TakenFine, PinRequirementFine
    <2> QED BY <1>b, <2>1, <2>2, <2>4, TakenFine
  <1>3. CASE SmePinStateCheckListen
    <2>1. sc.pc = "got" /\ sc.sme_state = "SmePinStateCheckListen"
      BY <1>3 DEF SmePinStateCheckListen, Got
    <2>2. \/ /\ sc.cur.frame.kind = "pin" /\ sc.cur.frame.val = "none"
             /\ sc' = SetSmeState(Taken, "SmePinStateCheckOk")
          \/ sc' = CloseWithError(Taken)
      BY <1>3 DEF SmePinStateCheckListen, Advance
    <2>3. /\ Fine(Taken) /\ Taken.sme_state = sc.sme_state
          /\ Milestone(sc.cur.frame) \subseteq Taken.heard /\ sc.cur.frame \in FrameType
      BY <2>1, TakenFine
    <2>4. sc.cur.frame.kind = "pin" /\ sc.cur.frame.val = "none" => "pin" \in Taken.heard
      BY <2>3, MilestoneOf
    <2>5. sc.cur.frame.kind = "pin" /\ sc.cur.frame.val = "none" =>
            Progress(Taken.role, "SmePinStateCheckOk", Taken.pc, Taken.said, Taken.heard)
      BY <2>1, <2>3, <2>4 DEF Fine, Led, Progress, Closing, AbortStates, CmiStates
    <2>6. "SmePinStateCheckOk" \in SmeStates
      BY Phases
    <2> QED BY <1>b, <2>2, <2>3, <2>5, <2>6, MovesFine
  <1>4. CASE SmePinStateCheckBusyWait \/ SmePinStateCheckOk
    <2>1. PICK st \in {"SmePinStateCheckListen", "SmeStateApproved"} :
            /\ sc' = SetSmeState(sc, st)
            /\ sc.sme_state = IF st = "SmeStateApproved" THEN "SmePinStateCheckOk"
                              ELSE "SmePinStateCheckBusyWait"
      BY <1>4 DEF SmePinStateCheckBusyWait, SmePinStateCheckOk, In, Advance
    <2>2. Progress(sc.role, st, sc.pc, sc.said, sc.heard)
      BY <2>1 DEF Fine, Led, Progress, Closing, AbortStates, CmiStates
    <2>3. st \in SmeStates
      BY Phases
    <2> QED BY <1>b, <2>1, <2>2, <2>3, MovesFine
  <1>5. CASE SmeStateApproved
    <2> DEFINE c == TimerStop(sc, "wait_for_ready")
    <2>1. sc.sme_state = "SmeStateApproved" /\ sc' = SetSmeState(c, "DataExchange")
      BY <1>5 DEF SmeStateApproved, In, Advance
    <2>2. Fine(c) /\ c.sme_state = "SmeStateApproved"
      BY <2>1, TimerStopStill, StillFine DEF Fine, Still, Timers
    <2> HIDE DEF c
    <2>3. Progress(c.role, "DataExchange", c.pc, c.said, c.heard)
      BY <2>2 DEF Fine, Led, Progress, Closing, AbortStates, CmiStates
    <2>4. "DataExchange" \in SmeStates
      BY Phases
    <2> QED BY <1>b, <2>1, <2>2, <2>3, <2>4, MovesFine
  <1> QED BY <1>1, <1>2, <1>3, <1>4, <1>5

\* Data exchange goes on in its state, or gives up.
LEMMA DataFine ==
  ASSUME Fine(sc), DataExchangeBegin \/ DataExchange
  PROVE  Fine(sc')
  <1>1. CASE DataExchangeBegin
    <2> DEFINE c == [sc EXCEPT !.pc = "wait", !.is_access_methods_req_sent = TRUE]
               d == Sent(c, Frame("accessReq", "none", "none"))
               e == TimerStart(d, "wait_for_ready", "long")
    <2>1. sc' = c \/ sc' = e \/ sc' = CloseWithError(c)
      BY <1>1 DEF DataExchangeBegin, Advance
    <2>2. sc.sme_state = "DataExchange"
      BY <1>1 DEF DataExchangeBegin, In
    <2>3. /\ c \in Connection /\ c.role = sc.role /\ c.sme_state = sc.sme_state
          /\ c.pc = "wait" /\ c.cur = sc.cur /\ c.heard = sc.heard /\ c.said = sc.said
          /\ c.remote_hello_ready = sc.remote_hello_ready
      BY DEF Fine, Connection
    <2> HIDE DEF c
    <2>4. Fine(c)
      BY <2>2, <2>3 DEF Fine, Led, Heard, Progress
    <2>5. Fine(d)
      BY <2>4, SentStill, StillFine, WrittenFrames DEF Fine
    <2> HIDE DEF d
    <2>6. Fine(e)
      BY <2>5, TimerStartStill, StillFine DEF Timers, Fine
    <2> HIDE DEF e
    <2> QED BY <2>1, <2>4, <2>6, CloseWithErrorFine DEF Fine, Led
  <1>2. CASE DataExchange
    <2> DEFINE c == [sc EXCEPT !.pc = "run", !.cur = NoMsg]
    <2>1. PICK ok \in WriteResults :
            \/ sc' = HandleReceive(c, sc.cur.frame, ok)
            \/ sc' = Sent(c, Frame("data", "ok", "none"))
            \/ sc' = CloseWithError(CloseConnection(c, TRUE))
            \/ sc' = CloseWithError(c)
      BY <1>2 DEF DataExchange, Advance
    <2>2. /\ c \in Connection /\ c.sme_state = sc.sme_state /\ c.role = sc.role
          /\ c.said = sc.said /\ c.heard = sc.heard /\ c.pc = "run" /\ c.cur = NoMsg
          /\ c.remote_hello_ready = sc.remote_hello_ready
      BY NothingHeard DEF Fine, Connection
    <2> HIDE DEF c
    <2>3. Fine(c)
      BY <2>2, NothingHeard DEF Fine, Led, Heard, Progress
    <2>4. sc.cur.frame \in FrameType
      BY Fields DEF Fine
    <2>5. Fine(CloseConnection(c, TRUE))
      BY <2>2, <2>3, CloseConnectionStill, StillFine DEF Fine
    <2>6. Fine(CloseWithError(CloseConnection(c, TRUE))) /\ Fine(CloseWithError(c))
      BY <2>3, <2>5, CloseWithErrorFine DEF Fine, Led
    <2>7. Fine(Sent(c, Frame("data", "ok", "none")))
      BY <2>3, SentStill, StillFine, WrittenFrames DEF Fine
    <2> QED BY <2>1, <2>3, <2>4, <2>6, <2>7, HandleReceiveFine, WriteResultsType
  <1> QED BY <1>1, <1>2
-----------------------------------------------------------------------------
(* The other threads, and the invariant                                    *)

\* No other thread moves the handshake, writes or hears anything.
Alike(d, c) ==
  /\ d.role = c.role /\ d.sme_state = c.sme_state /\ d.pc = c.pc
  /\ d.cur \in {c.cur, NoMsg}
  /\ d.heard = c.heard /\ d.said = c.said
  /\ d.remote_hello_ready = c.remote_hello_ready

\* The steps of the other threads.
LEMMA AsideAlike ==
  ASSUME sc \in Connection,
         \/ Websocket \/ PostTrustDecision \/ WriteMessage \/ Stop \/ StopResumes \/ Destruct
         \/ \E t \in Timers : TimerThread(t)
         \/ \E who \in {"websocket", "app", "spine"} : SendResumes(who)
  PROVE  Alike(sc', sc)
  <1> USE DEF Alike
  <1>2. ASSUME NEW who, NEW m, SendToQueue(who, m)
        PROVE  Alike(sc', sc)
    <2>1. sc' = [sc EXCEPT !.snd[who] = m]
      BY <1>2 DEF SendToQueue
    <2> QED BY <2>1 DEF Connection
  <1>3. CASE Websocket \/ PostTrustDecision \/ WriteMessage
    BY <1>2, <1>3 DEF Websocket, WebsocketCallback, PostTrustDecision, WriteMessage
  <1>4. ASSUME NEW who, SendResumes(who)
        PROVE  Alike(sc', sc)
    <2> DEFINE q == Append(sc.queue, sc.snd[who])
    <2>1. sc' = [sc EXCEPT !.queue = q, !.snd[who] = NoMsg]
      BY <1>4 DEF SendResumes
    <2> HIDE DEF q
    <2> QED BY <2>1 DEF Connection
  <1>5. ASSUME NEW t \in Timers, TimerThread(t)
        PROVE  Alike(sc', sc)
    <2>1. CASE TimerFires(t)
      <3>1. \/ sc' = [sc EXCEPT !.queue = Append(@, Post("Timeout")), !.timer[t] = "fired"]
            \/ sc' = [sc EXCEPT !.timer[t] = "firing"]
        BY <2>1 DEF TimerFires
      <3> QED BY <3>1, ZenonT(30) DEF Connection
    <2>2. CASE TimeoutCallbackResumes(t)
      <3> DEFINE q == Append(sc.queue, Post("Timeout"))
      <3>1. sc' = [sc EXCEPT !.queue = q, !.timer[t] = "fired"]
        BY <2>2 DEF TimeoutCallbackResumes
      <3> HIDE DEF q
      <3> QED BY <3>1 DEF Connection
    <2>3. CASE TimerExpires(t)
      BY <2>3 DEF TimerExpires, Connection
    <2> QED BY <1>5, <2>1, <2>2, <2>3 DEF TimerThread
  <1>6. CASE Stop
    BY <1>6 DEF Stop, Connection
  <1>7. CASE StopResumes
    BY <1>7 DEF StopResumes, Connection
  <1>8. CASE Destruct
    <2> DEFINE s == [w \in DOMAIN sc.snd |-> NoMsg]
               u == [t \in Timers |-> "idle"]
    <2>1. sc' = [sc EXCEPT !.stop_pc = "destructed", !.queue = <<>>, !.cur = NoMsg,
                           !.timer = u, !.snd = s]
      BY <1>8 DEF Destruct
    <2> HIDE DEF s, u
    <2> QED BY <2>1 DEF Connection
  <1> QED BY <1>3, <1>4, <1>5, <1>6, <1>7, <1>8

\* They keep the invariant, and so does the close at the end of Stop.
LEMMA AsideFine ==
  ASSUME Fine(sc), sc' \in Connection,
         \/ Websocket \/ PostTrustDecision \/ WriteMessage \/ Stop \/ StopThread
         \/ \E t \in Timers : TimerThread(t)
         \/ \E who \in {"websocket", "app", "spine"} : SendResumes(who)
  PROVE  Fine(sc')
  <1>1. CASE StopJoined
    <2> DEFINE c == [sc EXCEPT !.stop_pc = "done"]
    <2>1. sc' = CloseConnection(c, FALSE)
      BY <1>1 DEF StopJoined, Advance
    <2>2. Still(c, sc)
      BY DEF Fine, Still, Connection
    <2> HIDE DEF c
    <2>3. Still(CloseConnection(c, FALSE), c)
      BY <2>2, CloseConnectionStill DEF Still
    <2> QED BY <2>1, <2>2, <2>3, StillTrans, StillFine DEF Fine
  <1>2. CASE ~StopJoined
    <2>1. Alike(sc', sc)
      BY <1>2, AsideAlike DEF Fine, StopThread
    <2> QED BY <2>1, NothingHeard DEF Alike, Fine, Led, Heard, Progress
  <1> QED BY <1>1, <1>2

\* A connection is constructed in a state that owes nothing.
LEMMA ConstructLed ==
  ASSUME NEW role \in {"client", "server"}
  PROVE  Led(Construct(role))
  BY NothingHeard
     DEF Construct, Led, Heard, Progress, Closing, AbortStates, CmiStates, PastHello,
         PastProtocol, HelloOkStates, ProtOkStates, PinOkStates

\* Every step keeps the invariant.
LEMMA NextFine ==
  ASSUME ConnInv, ConnInv', Led(sc), [Next]_vars
  PROVE  Led(sc)'
  <1>1. Fine(sc) /\ sc' \in Connection
    BY DEF ConnInv, Whole, Fine
  <1>2. CASE UNCHANGED vars
    BY <1>2 DEF vars, Led, Heard
  <1>3. CASE Thread
    <2>1. Fine(sc')
      BY <1>1, <1>3, LoopFine, CmiFine, HelloFine, ProtocolFine, PinFine, DataFine DEF Thread
    <2> QED BY <2>1 DEF Fine
  <1>4. CASE \/ Websocket \/ PostTrustDecision \/ WriteMessage \/ Stop \/ StopThread
             \/ \E t \in Timers : TimerThread(t)
             \/ \E who \in {"websocket", "app", "spine"} : SendResumes(who)
    <2>1. Fine(sc')
      BY <1>1, <1>4, AsideFine
    <2> QED BY <2>1 DEF Fine
  <1> QED BY <1>2, <1>3, <1>4 DEF Next

\* What the handshake has led to is what is owed.
LEMMA LedMeets ==
  ASSUME ConnInv, Led(sc)
  PROVE  MilestonesMet
  <1>1. sc.role \in {"client", "server"}
    BY Fields DEF ConnInv, Whole
  <1>2. \A st \in PastHello : st \notin Closing /\ st \notin CmiStates
    BY Phases
  <1> QED BY <1>1, <1>2
          DEF Led, Progress, MilestonesMet, Owed, PastHello, PastProtocol, CmiStates

\* No phase of the handshake is left before both sides have had their say, for every
\* alphabet of frames, capacity of the queue, role and interleaving.
THEOREM ConnectionMilestonesMet == Spec => []MilestonesMet
  <1> DEFINE L == Led(sc)
  <1>1. Init => L
    BY ConstructLed, ConnectionAssumption DEF Init
  <1>2. ConnInv /\ ConnInv' /\ L /\ [Next]_vars => L'
    BY NextFine
  <1>3. ConnInv /\ L => MilestonesMet
    BY LedMeets
  <1> HIDE DEF L
  <1> QED BY <1>1, <1>2, <1>3, ConnectionInvariant, PTL DEF Spec
=============================================================================
