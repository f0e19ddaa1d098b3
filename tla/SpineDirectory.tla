--------------------------- MODULE SpineDirectory ---------------------------
(***************************************************************************)
(* Which entities and use cases a device offers, and what a peer that runs *)
(* the same code knows of them: the application's calls on entity_local.c  *)
(* and device_local.c, node management's discovery and use case data on    *)
(* both ends, and the events that tell the peer's use cases                *)
(* (node_management_remote.c, events.c).                                   *)
(*                                                                         *)
(* The connection keeps the order of messages and may be lost at any time. *)
(* Node management answers with the device's mutex held, which an          *)
(* application that adds or removes a use case does not take: its notify   *)
(* may be sent between the copy of the data for a reply and the reply.     *)
(***************************************************************************)
EXTENDS Naturals, Sequences, SequencesExt, FiniteSets

CONSTANTS
    Entities,        \* the device's entities besides entity [0]
    UseCases,        \* pairs of an actor and a name
    Handlers,        \* use cases of the peer that want events
    Nothing,
    NoMemoryForZero, \* whether EEBUS_MALLOC(0) is NULL
    MaxChanges, MaxDials, MaxExpiries  \* bounds on each

ASSUME DirectoryAssumption ==
    /\ NoMemoryForZero \in BOOLEAN
    /\ {MaxChanges, MaxDials, MaxExpiries} \subseteq Nat

(* Use case data: for each entity and actor the use cases that it supports.*)
CaseInfos(entities) ==
    [entity : entities, actor : {u.actor : u \in UseCases},
     supports : Seq([name : {u.name : u \in UseCases}, available : BOOLEAN])]
CaseLists(entities) == Seq(CaseInfos(entities))

(* A message with use case data, which is sent as a reply or unasked.      *)
CaseMessages == [type : {"useCase"}, ref : Nat, cases : CaseLists(Entities)]

\* Data or a reply that is there is not taken for none.
ASSUME NothingAssumption == Nothing \notin CaseLists(Entities) /\ Nothing \notin CaseMessages

VARIABLES
    offer,      \* the device: its entities, its use case data, a reply that is being built
    mirror,     \* the peer's remote device and node management
    events,     \* the peer's handlers, and what each was told
    wire,       \* messages to the peer and to the device
    used        \* changes, connections and expiries so far

directory == <<offer, mirror, events, wire, used>>

NoMirror == [up |-> FALSE, entities |-> {}, cases |-> <<>>, prev |-> Nothing, pending |-> <<>>, msg_cnt |-> 0]

DirectoryInit ==
    /\ \E entity \in [Entities -> {"built", "listed"}] :
          offer = [entity |-> entity, cases |-> <<>>, subscribed |-> FALSE,
                   reply |-> Nothing, overtaken |-> FALSE]
    /\ mirror = NoMirror
    /\ events = [handlers |-> {}, told |-> [h \in Handlers |-> {}], early |-> {}]
    /\ wire = [peer |-> <<>>, device |-> <<>>]
    /\ used = [changes |-> 0, dials |-> 0, expiries |-> 0]

-----------------------------------------------------------------------------
(* The use case data of the device.                                        *)

UseCaseInformationMatch(info, e, u) ==
    /\ info.entity = e /\ info.actor = u.actor
    /\ \E s \in ToSet(info.supports) : s.name = u.name

NodeManagementUseCaseDataAddUseCaseSupport(cases, e, u) ==
    LET i == SelectInSeq(cases, LAMBDA info : info.entity = e /\ info.actor = u.actor)
        support == [name |-> u.name, available |-> TRUE]
    IN  IF i # 0 THEN [cases EXCEPT ![i].supports = Append(@, support)]
        ELSE Append(cases, [entity |-> e, actor |-> u.actor, supports |-> <<support>>])

NodeManagementUseCaseDataSetAvailability(cases, e, u, available) ==
    LET i == SelectInSeq(cases, LAMBDA info : UseCaseInformationMatch(info, e, u))
        j == SelectInSeq(cases[i].supports, LAMBDA s : s.name = u.name)
    IN  IF i = 0 THEN cases ELSE [cases EXCEPT ![i].supports[j].available = available]

(* What is to be kept goes into a new list, in its order.                  *)
Kept(cases, infos) ==
    LET left[n \in 0..Len(cases)] ==
            IF n = 0 THEN <<>>
            ELSE IF cases[n] \in infos THEN Append(left[n - 1], cases[n]) ELSE left[n - 1]
    IN  left[Len(cases)]

NodeManagementUseCaseDataRemoveWithAddress(cases, e) ==
    LET left == Kept(cases, {info \in ToSet(cases) : info.entity # e})
    IN  IF left = <<>> /\ NoMemoryForZero THEN cases ELSE left

(* The whole entry of an actor goes with one of its use cases.  What is    *)
(* left is counted once for each filter: with one filter the count is      *)
(* right, with more the size of the list is not that of its contents.      *)
NodeManagementUseCaseDataRemoveWithFilters(cases, e, filters) ==
    LET left == Kept(cases, {info \in ToSet(cases) : ~\E u \in filters : UseCaseInformationMatch(info, e, u)})
        n == Len(left) * Cardinality(filters)
    IN  CASE n = Len(cases) -> cases
          [] n = 0 /\ NoMemoryForZero -> cases
          [] OTHER -> [i \in 1..n |-> IF i <= Len(left) THEN left[i] ELSE Nothing]

Supported(cases) ==
    UNION {{[entity |-> info.entity, actor |-> info.actor, name |-> s.name] : s \in ToSet(info.supports)} :
              info \in ToSet(cases)}

-----------------------------------------------------------------------------
(* The device.                                                             *)

ToPeer(w, o, msg) == IF o.subscribed THEN [w EXCEPT !.peer = Append(@, msg)] ELSE w

(* FEATURE_LOCAL_SET_DATA of node management: stored and told.             *)
SetUseCaseData(cases) ==
    /\ offer' = [offer EXCEPT !.cases = cases, !.overtaken = @ \/ offer.reply # Nothing]
    /\ wire' = ToPeer(wire, offer, [type |-> "useCase", ref |-> 0, cases |-> cases])

MayChange ==
    /\ used.changes < MaxChanges
    /\ used' = [used EXCEPT !.changes = @ + 1]
    /\ UNCHANGED <<mirror, events>>

AddUseCaseSupport(e, u) ==
    /\ MayChange /\ offer.entity[e] # "deleted"
    /\ SetUseCaseData(NodeManagementUseCaseDataAddUseCaseSupport(offer.cases, e, u))

SetUseCaseAvailability(e, u, available) ==
    /\ MayChange /\ offer.entity[e] # "deleted"
    /\ SetUseCaseData(NodeManagementUseCaseDataSetAvailability(offer.cases, e, u, available))

RemoveUseCaseSupports(e, u) ==
    /\ MayChange /\ offer.entity[e] # "deleted"
    /\ SetUseCaseData(NodeManagementUseCaseDataRemoveWithFilters(offer.cases, e, {u}))

EntityNotify(e, state) == [type |-> "entity", entity |-> e, state |-> state]

AddEntity(e) ==
    /\ MayChange /\ offer.entity[e] = "built"
    /\ offer' = [offer EXCEPT !.entity[e] = "listed"]
    /\ wire' = ToPeer(wire, offer, EntityNotify(e, "added"))

(* The entity's own subscriptions, bindings and heartbeat end as well:     *)
(* they belong to features other than node management's.                   *)
RemoveEntity(e) ==
    LET cases == NodeManagementUseCaseDataRemoveWithAddress(offer.cases, e)
        told == ToPeer(wire, offer, [type |-> "useCase", ref |-> 0, cases |-> cases])
    IN  /\ MayChange /\ offer.entity[e] = "listed"
        /\ offer' = [offer EXCEPT !.cases = cases, !.entity[e] = "deleted",
                                  !.overtaken = @ \/ offer.reply # Nothing]
        /\ wire' = ToPeer(told, offer, EntityNotify(e, "removed"))

Listed == {e \in Entities : offer.entity[e] = "listed"}

(* Node management handles a message of the peer.  The reply to a read of  *)
(* use case data is sent in a step of its own.                             *)
DeviceHandles ==
    /\ wire.device # <<>> /\ offer.reply = Nothing
    /\ LET msg == Head(wire.device)
           w == [wire EXCEPT !.device = Tail(@)]
       IN  CASE msg.type = "readDiscovery" ->
                  /\ wire' = [w EXCEPT !.peer = Append(@, [type |-> "discovery", ref |-> msg.msg_cnt,
                                                           entities |-> Listed])]
                  /\ UNCHANGED offer
             [] msg.type = "subscribe" -> offer' = [offer EXCEPT !.subscribed = TRUE] /\ wire' = w
             [] msg.type = "readUseCase" ->
                  /\ offer' = [offer EXCEPT !.reply = [type |-> "useCase", ref |-> msg.msg_cnt,
                                                       cases |-> offer.cases]]
                  /\ wire' = w
    /\ UNCHANGED <<mirror, events, used>>

ProcessReadUseCaseDataReplies ==
    /\ offer.reply # Nothing
    /\ wire' = [wire EXCEPT !.peer = Append(@, offer.reply)]
    /\ offer' = [offer EXCEPT !.reply = Nothing]
    /\ UNCHANGED <<mirror, events, used>>

-----------------------------------------------------------------------------
(* The peer's events.                                                      *)

(* Every handler is told of a change at an entity that the peer knows.     *)
EventsPublish(ev, add, gone) ==
    [ev EXCEPT !.told = [h \in Handlers |->
        IF h \in ev.handlers THEN (@[h] \cup add) \ gone ELSE @[h]]]

(* The use cases of b that a has not, at entities that m knows: the event  *)
(* of another names no entity, and handlers leave it.                      *)
ProcessUseCaseSupport(m, a, b) ==
    {u \in Supported(b) : u \notin Supported(a) /\ u.entity \in m.entities}

OrEmpty(cases) == IF cases = Nothing THEN <<>> ELSE cases

UpdateUseCaseData(m, ev, new) ==
    EventsPublish(ev, ProcessUseCaseSupport(m, OrEmpty(m.prev), OrEmpty(new)),
                      ProcessUseCaseSupport(m, OrEmpty(new), OrEmpty(m.prev)))

EventsSubscribe(h) ==
    /\ h \notin events.handlers
    /\ events' = [events EXCEPT !.handlers = @ \cup {h},
                                !.early = IF mirror.prev = Nothing THEN @ \cup {h} ELSE @]
    /\ UNCHANGED <<offer, mirror, wire, used>>

EventsUnsubscribe(h) ==
    /\ h \in events.handlers
    /\ events' = [handlers |-> events.handlers \ {h},
                  told |-> [events.told EXCEPT ![h] = {}], early |-> events.early \ {h}]
    /\ UNCHANGED <<offer, mirror, wire, used>>

-----------------------------------------------------------------------------
(* The peer's node management.                                             *)

(* A read with its pending reply.                                          *)
RequestOf(m, kind) ==
    [m EXCEPT !.msg_cnt = @ + 1, !.pending = Append(@, [msg_cnt |-> m.msg_cnt + 1, kind |-> kind])]
ReadOf(m, kind) ==
    [type |-> IF kind = "discovery" THEN "readDiscovery" ELSE "readUseCase", msg_cnt |-> m.msg_cnt + 1]

RequestDetailedDiscovery ==
    /\ ~mirror.up /\ used.dials < MaxDials
    /\ mirror' = RequestOf([NoMirror EXCEPT !.up = TRUE], "discovery")
    /\ wire' = [peer |-> <<>>, device |-> <<ReadOf(NoMirror, "discovery")>>]
    /\ used' = [used EXCEPT !.dials = @ + 1]
    /\ UNCHANGED <<offer, events>>

(* All data of the peer's node management goes, and its use cases are      *)
(* reported as removed, when its feature is deleted.                       *)
NodeManagementRemoteDestruct(m, ev) ==
    LET left == UpdateUseCaseData(m, ev, Nothing)
    IN  [left EXCEPT !.early = left.handlers]

(* AddEntityAndFeatures: new entities are added, all features are built    *)
(* anew, that of node management among them.                               *)
Rebuilt(m, entities) ==
    [m EXCEPT !.entities = @ \cup entities, !.cases = <<>>, !.prev = Nothing]

(* The entry that waits for a reply, or 0.                                 *)
PendingIndex(m, ref) == SelectInSeq(m.pending, LAMBDA p : p.msg_cnt = ref)

(* Mutant: the use cases are read before the peer is subscribed.           *)
FollowUpReadFirst(m) == <<ReadOf(m, "useCase"), [type |-> "subscribe"]>>

(* The callback of a discovery reply subscribes and reads the use cases.   *)
FollowUp(m) == <<[type |-> "subscribe"], ReadOf(m, "useCase")>>

ProcessDiscoveryReply(msg) ==
    LET m == Rebuilt(mirror, msg.entities)
        i == PendingIndex(m, msg.ref)
        w == [wire EXCEPT !.peer = Tail(@)]
    IN  /\ events' = NodeManagementRemoteDestruct(mirror, events)
        /\ IF i = 0 THEN mirror' = m /\ wire' = w
           ELSE /\ mirror' = RequestOf([m EXCEPT !.pending = RemoveAt(@, i)], "useCase")
                /\ wire' = [w EXCEPT !.device = @ \o FollowUp(m)]

ProcessUseCaseReply(msg) ==
    LET i == PendingIndex(mirror, msg.ref)
    IN  /\ events' = UpdateUseCaseData(mirror, events, msg.cases)
        /\ mirror' = [mirror EXCEPT !.cases = msg.cases, !.prev = msg.cases,
                                    !.pending = IF i = 0 THEN @ ELSE RemoveAt(@, i)]
        /\ wire' = [wire EXCEPT !.peer = Tail(@)]

(* A notify of an entity is not implemented.                               *)
ProcessNotifyDetailedDiscoveryData ==
    /\ wire' = [wire EXCEPT !.peer = Tail(@)]
    /\ UNCHANGED <<mirror, events>>

PeerHandles ==
    /\ wire.peer # <<>>
    /\ LET msg == Head(wire.peer)
       IN  CASE msg.type = "discovery" -> ProcessDiscoveryReply(msg)
             [] msg.type = "useCase" -> ProcessUseCaseReply(msg)
             [] msg.type = "entity" -> ProcessNotifyDetailedDiscoveryData
    /\ UNCHANGED <<offer, used>>

(* The oldest pending reply expires and its read is sent again.            *)
PendingReplyExpires ==
    /\ mirror.pending # <<>> /\ used.expiries < MaxExpiries
    /\ LET p == Head(mirror.pending)
       IN  /\ mirror' = RequestOf([mirror EXCEPT !.pending = Tail(@)], p.kind)
           /\ wire' = [wire EXCEPT !.device = Append(@, ReadOf(mirror, p.kind))]
    /\ used' = [used EXCEPT !.expiries = @ + 1]
    /\ UNCHANGED <<offer, events>>

(* The connection is lost: both ends remove the remote device.             *)
RemoveRemoteDeviceConnection ==
    /\ mirror.up
    /\ events' = NodeManagementRemoteDestruct(mirror, events)
    /\ mirror' = NoMirror
    /\ offer' = [offer EXCEPT !.subscribed = FALSE, !.reply = Nothing, !.overtaken = FALSE]
    /\ wire' = [peer |-> <<>>, device |-> <<>>]
    /\ UNCHANGED used

DirectoryNext ==
    \/ \E e \in Entities : AddEntity(e) \/ RemoveEntity(e)
    \/ \E e \in Entities, u \in UseCases :
          \/ AddUseCaseSupport(e, u)
          \/ RemoveUseCaseSupports(e, u)
          \/ \E available \in BOOLEAN : SetUseCaseAvailability(e, u, available)
    \/ \E h \in Handlers : EventsSubscribe(h) \/ EventsUnsubscribe(h)
    \/ DeviceHandles
    \/ ProcessReadUseCaseDataReplies
    \/ PeerHandles
    \/ PendingReplyExpires
    \/ RequestDetailedDiscovery
    \/ RemoveRemoteDeviceConnection

DirectorySpec == DirectoryInit /\ [][DirectoryNext]_directory

-----------------------------------------------------------------------------
(* Properties. *)

Quiet == wire.peer = <<>> /\ wire.device = <<>> /\ offer.reply = Nothing /\ mirror.pending = <<>>

(* A peer that is connected and has nothing more to hear has the device's  *)
(* use case data, and each of its use cases that was there before the data *)
(* was told of exactly the use cases that the device now has at entities   *)
(* of the discovery.  One that is not connected was told of none.  This is *)
(* so whatever was added, removed, read twice or lost on the way; the      *)
(* exception is a notify that overtook the reply to a read                 *)
(* (node_management_usecase.c, the reply's copy is made before it is       *)
(* sent).                                                                  *)
MirrorAgrees ==
    /\ ~mirror.up => \A h \in Handlers : events.told[h] = {}
    /\ mirror.up /\ Quiet /\ ~offer.overtaken =>
          /\ mirror.cases = offer.cases
          /\ \A h \in events.early :
                events.told[h] = {u \in Supported(offer.cases) : u.entity \in mirror.entities}

(* MirrorAgrees, and no use case that a handler was told of is at an       *)
(* entity that is deleted: RemoveEntity takes the entity's use cases away. *)
DirectoryAgrees ==
    /\ MirrorAgrees
    /\ mirror.up /\ Quiet /\ ~offer.overtaken =>
          \A h \in Handlers : \A u \in events.told[h] : offer.entity[u.entity] # "deleted"
=============================================================================
