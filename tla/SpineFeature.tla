---------------------------- MODULE SpineFeature ----------------------------
(***************************************************************************)
(* The features of a device (feature_local.c, feature_remote.c and their   *)
(* containers of pending requests) as operators on the record of a device  *)
(* that has one remote device, whose SKI is therefore implicit:            *)
(*                                                                         *)
(*   peer        the remote device is connected and discovered             *)
(*   cnt, out    the sender's message counter and the datagrams under way  *)
(*   data        function data of the local server features                *)
(*   cache       function data of the remote server features               *)
(*   ops         the operations that the server of a function announces     *)
(*   subs, binds features this device subscribed to and bound to           *)
(*   subscribers, bound  features the remote device subscribed to, bound to *)
(*   cbs         write approval callbacks of a feature, in order           *)
(*   pend        pending write requests of a feature                       *)
(*   results, replies  pending results and replies of a client feature     *)
(*   done        history: how the calls with a callback ended              *)
(*                                                                         *)
(* The data of a function maps identifiers to items, records whose fields  *)
(* may be NULL.  An update is [full, any, items, del]: a full one replaces *)
(* the data, a partial one first deletes, then merges its items and, into  *)
(* every item, the element without identifier `any' (SpineFunction models  *)
(* this on lists).                                                         *)
(***************************************************************************)
EXTENDS Naturals, Sequences, FiniteSets, SequencesExt, TLC

CONSTANTS NULL,
          FeatureOf,       \* the feature of a function
          MaxResponseDelay \* kDefaultMaxResponseDelayMs in ticks

CONSTANTS                  \* what use cases registered: each returns the device afterwards
    OnApprove(_, _, _),    \* device, write approval callback, message
    OnExpired(_, _, _),    \* device, feature, counter of a write that was not approved in time
    OnWrite(_, _, _, _),   \* device, function, counter, update: local data was written
    OnBind(_, _),          \* device, feature: the remote device bound itself to it
    OnData(_, _),          \* device, message: the copy of remote data changed
    OnRemoved(_)           \* device: the remote device goes

None == <<>>

(* GetFeatureFunctions: the functions a feature of a type is created with. *)
GetFeatureFunctions(f) == {fn \in DOMAIN FeatureOf : FeatureOf[fn] = f}

FeaturesOf(fns) == {FeatureOf[fn] : fn \in fns}

(* SetFunctionOperations: what a local function offers; it never offers    *)
(* partial reads, and always partial writes.                               *)
Operations(read, write) ==
    [read |-> read, readPartial |-> FALSE, write |-> write, writePartial |-> TRUE]

(* SetOperations: what a remote device announces; a partial operation      *)
(* counts only with the operation itself.                                  *)
SetOperations(ops) ==
    [read |-> ops.read, readPartial |-> ops.read /\ ops.readPartial,
     write |-> ops.write, writePartial |-> ops.write /\ ops.writePartial]

Countdown == [remaining |-> MaxResponseDelay, expired |-> FALSE]

CountdownTick(c) ==
    LET left == IF c.remaining > 0 THEN c.remaining - 1 ELSE 0
    IN  [remaining |-> left, expired |-> c.expired \/ left = 0]

-----------------------------------------------------------------------------
(* Function data.                                                          *)
MergeItem(old, new) == [a \in DOMAIN old |-> IF new[a] = NULL THEN old[a] ELSE new[a]]

Without(items, id) == [i \in DOMAIN items \ {id} |-> items[i]]

Deleted(items, del) ==
    IF del = NULL \/ del.id \notin DOMAIN items THEN items
    ELSE IF del.fields = {} THEN Without(items, del.id)
    ELSE [items EXCEPT ![del.id] =
            [a \in DOMAIN @ |-> IF a \in del.fields THEN NULL ELSE @[a]]]

Updated(items, u) ==
    IF u.full THEN u.items
    ELSE LET left == Deleted(items, u.del)
             merged == [i \in DOMAIN left \cup DOMAIN u.items |->
                          IF i \notin DOMAIN left THEN u.items[i]
                          ELSE IF i \in DOMAIN u.items THEN MergeItem(left[i], u.items[i])
                          ELSE left[i]]
         IN  IF u.any = NULL THEN merged
             ELSE [i \in DOMAIN merged |-> MergeItem(merged[i], u.any)]

FullUpdate(items) == [full |-> TRUE, any |-> NULL, items |-> items, del |-> NULL]

PartialUpdate(items, del) == [full |-> FALSE, any |-> NULL, items |-> items, del |-> del]

-----------------------------------------------------------------------------
(* Sending (sender.c): every datagram takes the next number of the counter. *)
Send(x, class, fn, ref, u) ==
    [x EXCEPT !.cnt = @ + 1,
              !.out = Append(@, [class |-> class, fn |-> fn, cnt |-> x.cnt + 1,
                                 ref |-> ref, upd |-> u])]

SendRead(x, fn) == Send(x, "read", fn, NULL, NULL)
SendReply(x, m, u) == Send(x, "reply", m.fn, m.cnt, u)
SendNotify(x, fn, u) == Send(x, "notify", fn, NULL, u)
SendWrite(x, fn, u) == Send(x, "write", fn, NULL, u)

(* Calls of the peer's node management, about a feature.                   *)
AnyFunction(f) == CHOOSE fn \in GetFeatureFunctions(f) : TRUE
CallSubscribe(x, f) == Send(x, "subscribe", AnyFunction(f), NULL, NULL)
CallBind(x, f) == Send(x, "bind", AnyFunction(f), NULL, NULL)

SendResult(x, fn, ref, ok) == Send(x, IF ok THEN "success" ELSE "error", fn, ref, NULL)

(* Mutant: the notification leaves out what the update deletes.            *)
FunctionNotifyNoDelete(x, fn, u) ==
    IF x.peer /\ FeatureOf[fn] \in x.subscribers
    THEN SendNotify(x, fn, [u EXCEPT !.del = NULL]) ELSE x

FunctionNotifySubscribers(x, fn, u) ==
    IF x.peer /\ FeatureOf[fn] \in x.subscribers THEN SendNotify(x, fn, u) ELSE x

(* FEATURE_LOCAL_UPDATE_DATA and SET_DATA of a server feature.             *)
FeatureUpdateData(x, fn, u) ==
    FunctionNotifySubscribers([x EXCEPT !.data[fn] = Updated(@, u)], fn, u)

-----------------------------------------------------------------------------
(* The client's subscriptions and bindings (FeatureAddressContainer).      *)
FeatureAddressContainerAdd(c, f) == c \cup {f}

SubscribeToRemote(x, f) ==
    IF ~x.peer THEN x
    ELSE [CallSubscribe(x, f) EXCEPT !.subs = FeatureAddressContainerAdd(@, f)]

BindToRemote(x, f) ==
    IF ~x.peer THEN x
    ELSE [CallBind(x, f) EXCEPT !.binds = FeatureAddressContainerAdd(@, f)]

(* How a specialisation starts: HasSubscription, Subscribe, HasBinding, Bind. *)
EnsureSubscribed(x, f) == IF f \in x.subs THEN x ELSE SubscribeToRemote(x, f)
EnsureBound(x, f) == IF f \in x.binds THEN x ELSE BindToRemote(x, f)

(* The call number `call' stands for a callback and its context, NULL for  *)
(* none.                                                                   *)
Pending(x, call) == [cnt |-> x.cnt, call |-> call, countdown |-> Countdown]

ReadFromRemote(x, fn, call) ==
    LET y == SendRead(x, fn)
    IN  IF ~SetOperations(x.ops[fn]).read THEN x
        ELSE IF call = NULL THEN y
        ELSE [y EXCEPT !.replies[FeatureOf[fn]] = Append(@, Pending(y, call))]

(* A server without partial writes is sent the whole data, as cached.      *)
WriteToRemote(x, fn, u, call) ==
    LET w == IF SetOperations(x.ops[fn]).writePartial THEN u ELSE FullUpdate(x.cache[fn])
        y == SendWrite(x, fn, w)
    IN  IF call = NULL THEN y
        ELSE [y EXCEPT !.results[FeatureOf[fn]] = Append(@, Pending(y, call))]

(* A pending request is the first one with that message counter, whatever  *)
(* connection it was sent on.                                              *)
PendingFind(q, cnt) == SelectInSeq(q, LAMBDA p : p.cnt = cnt)

Fire(x, call, how) == [x EXCEPT !.done[call] = Append(@, how)]

(* Mutant: the pending result stays after its callback was called.         *)
PendingResultStays(x, f, cnt, how) ==
    LET k == PendingFind(x.results[f], cnt)
    IN  IF k = 0 THEN x ELSE Fire(x, x.results[f][k].call, how)

PendingResultProcess(x, f, cnt, how) ==
    LET k == PendingFind(x.results[f], cnt)
    IN  IF k = 0 THEN x
        ELSE [Fire(x, x.results[f][k].call, how) EXCEPT !.results[f] = RemoveAt(@, k)]

PendingReplyProcess(x, f, cnt) ==
    LET k == PendingFind(x.replies[f], cnt)
    IN  IF k = 0 THEN x
        ELSE [Fire(x, x.replies[f][k].call, "reply") EXCEPT !.replies[f] = RemoveAt(@, k)]

TickAll(q) ==
    [k \in DOMAIN q |-> [q[k] EXCEPT !.countdown = CountdownTick(@)]]

Live(q) == SelectSeq(q, LAMBDA p : ~p.countdown.expired)
Expired(q) == SelectSeq(q, LAMBDA p : p.countdown.expired)

(* An expired one is fired and removed; the others count down.             *)
PendingCallsTick(x, f) ==
    LET fired == Expired(x.replies[f]) \o Expired(x.results[f])
    IN  [FoldLeft(LAMBDA y, p : Fire(y, p.call, "timeout"), x, fired)
           EXCEPT !.results[f] = TickAll(Live(@)), !.replies[f] = TickAll(Live(@))]

-----------------------------------------------------------------------------
(* The server's pending writes.  PENDING_WRITE_REQUEST_CONTAINER_ADD leaves *)
(* a request with the same SKI and counter alone.                          *)
PendingWriteAdd(x, f, m) ==
    IF PendingFind(x.pend[f], m.cnt) # 0 THEN x
    ELSE [x EXCEPT !.pend[f] = Append(@, [cnt |-> m.cnt, fn |-> m.fn, upd |-> m.upd,
                                          approvals |-> 0, countdown |-> Countdown])]

(* GetMessage of a pending write: its sender must be a known device.       *)
GetMessageOk(x) == x.peer

(* ProcessWriteInternal: update, notify, publish, and the result.          *)
ProcessWriteInternal(x, fn, cnt, u) ==
    SendResult(OnWrite(FeatureUpdateData(x, fn, u), fn, cnt, u), fn, cnt, TRUE)


(* Every callback of the feature has to approve; the votes are counted,    *)
(* not attributed.                                                         *)
AllApproved(x, f, approvals) == Len(x.cbs[f]) <= approvals

TryApproveWrite(x, f, cnt) ==
    LET k == PendingFind(x.pend[f], cnt)
        y == [x EXCEPT !.pend[f][k].approvals = @ + 1]
        p == y.pend[f][k]
    IN  IF k = 0 THEN [x |-> x, status |-> "NoChange"]
        ELSE IF ~AllApproved(x, f, p.approvals) THEN [x |-> y, status |-> "Pending"]
        ELSE IF ~GetMessageOk(y) THEN [x |-> y, status |-> "NotAvailable"]
        ELSE [x |-> [ProcessWriteInternal(y, p.fn, cnt, p.upd)
                       EXCEPT !.pend[f] = RemoveAt(@, k)],
              status |-> "Ok"]

DenyWrite(x, f, cnt) ==
    LET k == PendingFind(x.pend[f], cnt)
    IN  IF k = 0 THEN [x |-> x, status |-> "NoChange"]
        ELSE IF ~GetMessageOk(x) THEN [x |-> x, status |-> "NotAvailable"]
        ELSE [x |-> [SendResult(x, x.pend[f][k].fn, cnt, FALSE)
                       EXCEPT !.pend[f] = RemoveAt(@, k)],
              status |-> "Ok"]

(* ProcessWrite: kept for approval if there are callbacks, which may end   *)
(* it at once; device_local.c drops writes of a client that is not bound.  *)
ProcessWrite(x, m) ==
    LET f == FeatureOf[m.fn]
    IN  IF f \notin x.bound THEN x
        ELSE IF x.cbs[f] = None THEN ProcessWriteInternal(x, m.fn, m.cnt, m.upd)
        ELSE FoldLeft(LAMBDA y, cb : OnApprove(y, cb, m), PendingWriteAdd(x, f, m), x.cbs[f])

(* Each expired request: a timeout error if its sender is known, removal,  *)
(* the expiry callback.  The others count down.                            *)
PendingWriteTick(x, f) ==
    LET y == [x EXCEPT !.pend[f] = TickAll(Live(@))]
        Expire(z, p) == OnExpired(IF GetMessageOk(z) THEN SendResult(z, p.fn, p.cnt, FALSE) ELSE z,
                                  f, p.cnt)
    IN  FoldLeft(Expire, y, Reverse(Expired(x.pend[f])))

FeatureTick(x, f) == PendingCallsTick(PendingWriteTick(x, f), f)

(* CleanRemoteDeviceCaches, for every feature, and the end of the remote   *)
(* device with its cached data.  Pending writes and results stay.          *)
CleanRemoteDeviceCaches(x) ==
    [x EXCEPT !.subs = {}, !.binds = {}, !.replies = [f \in DOMAIN @ |-> None],
              !.subscribers = {}, !.bound = {}, !.peer = FALSE, !.cnt = 0, !.out = None,
              !.cache = [fn \in DOMAIN @ |-> None]]

ProcessRead(x, m) ==
    SendReply(x, m, FullUpdate(x.data[m.fn]))

(* ProcessReply and ProcessNotify: the copy, the event, the callback.      *)
ProcessReply(x, m) ==
    PendingReplyProcess(OnData([x EXCEPT !.cache[m.fn] = Updated(@, m.upd)], m),
                        FeatureOf[m.fn], m.ref)

ProcessNotify(x, m) == OnData([x EXCEPT !.cache[m.fn] = Updated(@, m.upd)], m)

(* HandleMessage of a feature, with the calls that node management answers *)
(* (SpineDevice models their checks).                                      *)
HandleMessage(x, m) ==
    CASE m.class = "read"      -> ProcessRead(x, m)
      [] m.class = "reply"     -> ProcessReply(x, m)
      [] m.class = "notify"    -> ProcessNotify(x, m)
      [] m.class = "write"     -> ProcessWrite(x, m)
      [] m.class = "success"   -> PendingResultProcess(x, FeatureOf[m.fn], m.ref, "success")
      [] m.class = "error"     -> PendingResultProcess(x, FeatureOf[m.fn], m.ref, "error")
      [] m.class = "subscribe" -> [x EXCEPT !.subscribers = @ \cup {FeatureOf[m.fn]}]
      [] m.class = "bind"      -> OnBind([x EXCEPT !.bound = @ \cup {FeatureOf[m.fn]}], FeatureOf[m.fn])

(* The heartbeat of an entity (heartbeat_manager.c).  MaxBeats bounds the  *)
(* heartbeats that are looked at.                                          *)
HeartbeatTick(x, fn, period, maxBeats) ==
    LET left == IF x.running /\ x.ticks > 0 THEN x.ticks - 1 ELSE x.ticks
    IN  IF period = 0 \/ x.beat = maxBeats THEN x
        ELSE IF left > 0 THEN [x EXCEPT !.ticks = left]
        ELSE FeatureUpdateData([x EXCEPT !.ticks = period, !.beat = @ + 1], fn,
                               FullUpdate([i \in {1} |-> [beat |-> x.beat + 1]]))

HeartbeatStart(x) == [x EXCEPT !.running = TRUE]
HeartbeatStop(x) == [x EXCEPT !.running = FALSE]

(* The record of a device without remote device: with the functions fns,   *)
(* the callbacks cbs of features, the numbers of its calls, and the        *)
(* operations ops of the functions.                                        *)
NewDevice(fns, cbs, calls, ops) ==
    LET none == [f \in FeaturesOf(fns) |-> None]
    IN  [peer |-> FALSE, cnt |-> 0, out |-> None, ops |-> ops,
         data |-> [fn \in fns |-> None], cache |-> [fn \in fns |-> None],
         subs |-> {}, binds |-> {}, subscribers |-> {}, bound |-> {},
         cbs |-> cbs @@ none, pend |-> none, results |-> none, replies |-> none,
         done |-> [c \in calls |-> None],
         running |-> TRUE, ticks |-> 0, beat |-> 0]
=============================================================================
