--------------------------- MODULE EebusPlatform ----------------------------
(***************************************************************************)
(* The primitives under the library, per build: the timer (pthread,        *)
(* FreeRTOS, Apple's dispatch, Windows' timer queue), the thread and the   *)
(* mutex (pthread, FreeRTOS) and the FreeRTOS queue (src/src/common).      *)
(* What the operating systems provide is external.                         *)
(*                                                                         *)
(* t is a timer with the thread that owns it; h a thread with the one that *)
(* joins it, or two threads and a mutex; q a FreeRTOS queue with a sender, *)
(* a receiver and one that clears it.  Time is a count of ticks; a timeout *)
(* of 0 ticks never starts a timer.  The pthread timer may be woken early  *)
(* (spuriously), which the code takes for its timeout.                     *)
(***************************************************************************)
EXTENDS Naturals, Sequences

CONSTANTS TimerBuilds,  \* {"pthread", "freertos", "apple", "windows"}
          ThreadBuilds, \* {"pthread", "freertos"}
          MaxStarts,    \* bound on calls of Start
          Horizon,      \* bound on the clock
          MaxSent,      \* bound on messages sent through the queue
          QueueLength

ASSUME PlatformAssumption ==
    /\ TimerBuilds \subseteq {"pthread", "freertos", "apple", "windows"}
    /\ ThreadBuilds \subseteq {"pthread", "freertos"}

VARIABLES t, h, q

-----------------------------------------------------------------------------
(* Timers.  armed holds the time at which each armed timer of the system   *)
(* is due; a period is kept for those that reload.                         *)

NewTimer(build) ==
    [build |-> build, now |-> 0, state |-> "Idle", armed |-> {}, thread |-> FALSE, cancel |-> FALSE,
     cancelled |-> FALSE, startTime |-> 0, timeout |-> 0, autoreload |-> FALSE,
     inCallback |-> FALSE, caller |-> "idle",
     starts |-> 0, oneShots |-> 0, reloads |-> FALSE, calls |-> 0, quiet |-> TRUE, late |-> FALSE]

Ticks == t.now < Horizon /\ t' = [t EXCEPT !.now = @ + 1]

(* When to be woken: the time now and the timeout.                         *)
UpdateWaitCondTimeout(d) == d.now + d.timeout

(* pthread: nothing happens while a thread is there, which is until Stop,  *)
(* also when the timer has expired.                                        *)
TimerStartPthread(d, ms, auto) ==
    IF d.thread THEN d
    ELSE LET r == [d EXCEPT !.cancel = FALSE, !.timeout = ms, !.state = "Idle", !.autoreload = auto]
         IN  IF ms = 0 THEN r
             ELSE [r EXCEPT !.startTime = d.now, !.thread = TRUE, !.state = "Running",
                            !.armed = {[due |-> UpdateWaitCondTimeout(r), period |-> IF auto THEN ms ELSE 0]}]

(* FreeRTOS: a timer that runs already is left running, its handle lost.   *)
TimerStartFreeRtos(d, ms, auto) ==
    IF ms = 0 THEN d
    ELSE [d EXCEPT !.startTime = d.now, !.timeout = ms, !.state = "Running", !.thread = TRUE,
                   !.armed = @ \cup {[due |-> d.now + ms, period |-> IF auto THEN ms ELSE 0]}]

(* Apple: the source is set anew; one that was cancelled never fires.      *)
TimerStartApple(d, ms, auto) ==
    IF ms = 0 THEN d
    ELSE [d EXCEPT !.startTime = d.now, !.timeout = ms, !.state = "Running",
                   !.armed = IF d.cancelled THEN {}
                             ELSE {[due |-> d.now + ms, period |-> IF auto THEN ms ELSE 0]}]

(* Windows: the timer before is deleted.                                   *)
TimerStartWindows(d, ms, auto) ==
    IF ms = 0 THEN d
    ELSE [d EXCEPT !.startTime = d.now, !.timeout = ms, !.autoreload = auto, !.state = "Running",
                   !.thread = TRUE, !.armed = {[due |-> d.now + ms, period |-> IF auto THEN ms ELSE 0]}]

TimerStarted(d, ms, auto) ==
    CASE d.build = "pthread"  -> TimerStartPthread(d, ms, auto)
      [] d.build = "freertos" -> TimerStartFreeRtos(d, ms, auto)
      [] d.build = "apple"    -> TimerStartApple(d, ms, auto)
      [] d.build = "windows"  -> TimerStartWindows(d, ms, auto)

TimerStart(ms, auto) ==
    /\ t.caller = "idle" /\ t.starts < MaxStarts
    /\ LET d == TimerStarted(t, ms, auto)
       IN  t' = [d EXCEPT !.starts = @ + 1, !.quiet = @ /\ d.armed = t.armed,
                          !.oneShots = IF auto THEN @ ELSE @ + 1, !.reloads = @ \/ auto]

(* Variant: the thread is not joined.                                      *)
TimerThreadEndedUnjoined == TRUE

(* pthread: the callback runs under the mutex, for which Stop waits before *)
(* it cancels and joins the thread.                                        *)
TimerThreadEnded == t.build = "pthread" => ~t.inCallback

TimerStoppedPthread(d) == [d EXCEPT !.cancel = TRUE, !.armed = {}, !.thread = FALSE]

(* The other builds do not wait for a callback that runs.  FreeRTOS stops  *)
(* the timer whose handle it has.                                          *)
TimerStoppedFreeRtos(d) ==
    [d EXCEPT !.armed = IF d.thread THEN {a \in @ : a.due # d.startTime + d.timeout} ELSE @, !.thread = FALSE]

(* A source that is cancelled stays so.                                    *)
TimerStoppedApple(d) == [d EXCEPT !.armed = {}, !.cancelled = TRUE]

TimerStoppedWindows(d) == [d EXCEPT !.armed = {}, !.thread = FALSE]

TimerStopped(d) ==
    CASE d.build = "pthread"  -> TimerStoppedPthread(d)
      [] d.build = "freertos" -> TimerStoppedFreeRtos(d)
      [] d.build = "apple"    -> TimerStoppedApple(d)
      [] d.build = "windows"  -> TimerStoppedWindows(d)

TimerStop ==
    /\ t.caller = "idle" /\ (t.build = "pthread" => t.thread)
    /\ t' = [t EXCEPT !.caller = "stopping"]

TimerStopReturns ==
    /\ t.caller = "stopping" /\ TimerThreadEnded
    /\ t' = [TimerStopped(t) EXCEPT !.caller = "idle", !.quiet = TRUE,
                                    !.state = IF @ = "Expired" THEN @ ELSE "Idle"]

(* The callback begins.  The state of the pthread timer changes when its   *)
(* thread ends, that of the others before the callback.                    *)
EebusTimerExpiredCallback(a) ==
    /\ a \in t.armed /\ ~t.inCallback
    /\ IF t.build = "pthread" THEN ~t.cancel ELSE t.now >= a.due
    /\ t' = [t EXCEPT !.inCallback = TRUE, !.calls = IF t.reloads THEN @ ELSE @ + 1, !.late = @ \/ t.quiet,
                      !.armed = (@ \ {a}) \cup (IF a.period = 0 THEN {}
                                                ELSE {[a EXCEPT !.due = t.now + a.period]}),
                      !.state = IF t.build = "pthread" THEN @ ELSE "Expired"]

TimerCallbackEnds ==
    /\ t.inCallback
    /\ t' = [t EXCEPT !.inCallback = FALSE,
                      !.state = IF t.build = "pthread" /\ ~t.autoreload /\ ~t.cancel THEN "Expired" ELSE @]

(* GetRemainingTime of all builds but FreeRTOS, which asks the system.     *)
GetRemainingTime(d) ==
    IF \/ d.build = "apple" /\ d.state # "Running"
       \/ d.build = "windows" /\ (d.state # "Running" \/ ~d.thread)
       \/ d.now - d.startTime >= d.timeout
    THEN 0
    ELSE d.timeout - (d.now - d.startTime)

TimerNext ==
    \/ Ticks
    \/ \E ms \in 0 .. 2, auto \in BOOLEAN : TimerStart(ms, auto)
    \/ TimerStop \/ TimerStopReturns
    \/ \E a \in t.armed : EebusTimerExpiredCallback(a)
    \/ TimerCallbackEnds

TimerSpec == (\E build \in TimerBuilds : t = NewTimer(build)) /\ [][TimerNext]_t

-----------------------------------------------------------------------------
(* A thread that is joined and destroyed.                                  *)

NewThread(build) ==
    [build |-> build, routine |-> "running", task |-> TRUE, join_task |-> FALSE, local |-> FALSE,
     mutex |-> "free", notified |-> FALSE, joiner |-> "busy", object |-> TRUE, touched |-> FALSE]

(* What the task does after its routine, a step at a time.  Each step uses *)
(* the thread's object but the last ones.                                  *)
Touches(d) == [d EXCEPT !.touched = @ \/ ~d.object]

RoutineReturns ==
    /\ h.routine = "running"
    /\ h' = [h EXCEPT !.routine = IF h.build = "pthread" THEN "gone" ELSE "returned"]

TaskTakes ==
    /\ h.routine = "returned" /\ h.mutex = "free"
    /\ h' = Touches([h EXCEPT !.routine = "took", !.mutex = "task"])

TaskGives ==
    /\ h.routine = "took"
    /\ h' = Touches([h EXCEPT !.routine = "given", !.task = FALSE, !.local = h.join_task,
                              !.join_task = FALSE, !.mutex = "free"])

TaskNotifies ==
    /\ h.routine = "given"
    /\ h' = [h EXCEPT !.routine = "gone", !.notified = @ \/ h.local]

Join ==
    /\ h.joiner = "busy"
    /\ IF h.build = "pthread"
       THEN h.routine = "gone" /\ h' = [h EXCEPT !.joiner = "joined"]
       ELSE h.mutex = "free" /\ h' = [h EXCEPT !.joiner = IF h.task THEN "waits" ELSE "joined",
                                              !.join_task = h.task]

JoinWakes ==
    /\ h.joiner = "waits" /\ h.notified
    /\ h' = [h EXCEPT !.joiner = "joined"]

(* EebusThreadDelete, after Join.                                          *)
ThreadDestruct ==
    /\ h.joiner = "joined" /\ h.object
    /\ h' = [h EXCEPT !.object = FALSE]

ThreadNext == RoutineReturns \/ TaskTakes \/ TaskGives \/ TaskNotifies \/ Join \/ JoinWakes \/ ThreadDestruct

ThreadSpec == (\E build \in ThreadBuilds : h = NewThread(build)) /\ [][ThreadNext]_h

-----------------------------------------------------------------------------
(* The FreeRTOS queue.  Clear empties it message by message and releases   *)
(* what its buffer holds, whatever Receive said.                           *)

NewQueue == [content |-> <<>>, sent |-> 0, received |-> <<>>, released |-> <<>>, clearing |-> "no", buffer |-> 0]

QueueSend ==
    /\ q.sent < MaxSent /\ Len(q.content) < QueueLength
    /\ q' = [q EXCEPT !.content = Append(@, q.sent + 1), !.sent = @ + 1]

QueueReceive ==
    /\ q.content # <<>>
    /\ q' = [q EXCEPT !.content = Tail(@), !.received = Append(@, Head(q.content))]

(* The device clears its queue when its loop, which receives, has ended.   *)
QueueClear ==
    /\ \/ q.clearing = "no" /\ q' = [q EXCEPT !.clearing = "test"]
       \/ /\ q.clearing = "test"
          /\ q' = IF q.content = <<>> THEN [q EXCEPT !.clearing = "done"] ELSE [q EXCEPT !.clearing = "receive"]
       \/ /\ q.clearing = "receive"
          /\ LET r == IF q.content = <<>> THEN q
                      ELSE [q EXCEPT !.content = Tail(@), !.buffer = Head(q.content)]
             IN  q' = [r EXCEPT !.released = Append(@, r.buffer), !.clearing = "test"]

QueueNext == QueueSend \/ (q.clearing = "no" /\ QueueReceive) \/ QueueClear

QueueSpec == q = NewQueue /\ [][QueueNext]_q

(* The three do not share state.                                           *)
PlatformSpec == TimerSpec /\ ThreadSpec /\ QueueSpec

-----------------------------------------------------------------------------
(* A timer that is not reloading calls back once per Start at most; in the *)
(* pthread build no callback begins between the return of Stop and the     *)
(* next Start, nor is one running when Stop returns (TimerLoop, Stop); and *)
(* GetRemainingTime tells when an armed timer is due.  The other builds do *)
(* not wait for a callback that is running, and FreeRTOS forgets a timer   *)
(* that is started twice.                                                  *)
TimerCallsBounded ==
    /\ ~t.reloads => t.calls <= t.oneShots
    /\ t.build # "freertos" => \A a \in t.armed : a.period = 0 /\ t.caller = "idle" =>
          GetRemainingTime(t) = IF t.now < a.due THEN a.due - t.now ELSE 0
    /\ t.build = "pthread" => ~t.late /\ (t.caller = "idle" /\ t.cancel => ~t.inCallback)

(* Timers call back as TimerCallsBounded says, a thread's object is not    *)
(* used once it has been joined and destroyed (EebusThreadTask, Join), and *)
(* a message of the FreeRTOS queue is received or released once, in the    *)
(* order in which it was sent (Clear).                                     *)
PrimitivesSafe ==
    /\ TimerCallsBounded
    /\ ~h.touched
    /\ LET s == q.received \o q.released
       IN  \A i \in DOMAIN s : s[i] = i
=============================================================================
