---------------------------- MODULE SpineDevice ----------------------------
(***************************************************************************)
(* The local SPINE device and what it keeps of its peers                   *)
(* (spine/device/device_local.c, device_remote.c, the binding and          *)
(* subscription managers, node management and its pending replies).        *)
(*                                                                         *)
(* Everything but the posting of messages happens with the device's mutex  *)
(* held, so a handler is an operator from the device's record dl to the    *)
(* next one, and an action is one call from a SHIP thread or one message   *)
(* of the device's own loop.                                               *)
(*                                                                         *)
(* A feature object of a peer is named by its connection (inc), its        *)
(* feature id and the number of times its entity was built (gen): links    *)
(* keep a pointer to it, and a link whose object is gone is dangling.      *)
(* What a comparison with freed memory yields is not defined: the caller   *)
(* passes the set ub of dangling links that happen to match.               *)
(***************************************************************************)
EXTENDS Naturals, Sequences, FiniteSetsExt, SequencesExt

\* The managers' tables.
Tables == {"binding", "subscription"}

\* Node management in entity [0], and one more feature in an entity of its own.  The
\* local one is a server of LoadControl, the peer's a client of it.
Features == {"NodeManagement", "LoadControl"}

CONSTANTS
    Skis,           \* peers; a peer's SKI also stands for its SPINE device address
    None,
    Ptrs,           \* addresses that malloc returns for remote devices
    Reuse,          \* whether an address is given out while a queued datagram carries it
    QueueSize,      \* messages in the device's queue
    Contents,       \* what discovery replies hold: "full", "noInfo", "cut"
    Parts,          \* whether server addresses in requests have their device part
    Pairs,          \* local and remote features that requests name
    MaxConnects, MaxCalls, MaxTicks, MaxEvents  \* bounds on each, and on their sum

ASSUME DeviceAssumption ==
    /\ None \notin Skis \cup Ptrs
    /\ Reuse \in BOOLEAN
    /\ QueueSize \in Nat \ {0}
    /\ Contents \subseteq {"full", "noInfo", "cut"}
    /\ Parts \subseteq BOOLEAN
    /\ Pairs \subseteq Features \X Features
    /\ {MaxConnects, MaxCalls, MaxTicks, MaxEvents} \subseteq Nat

\* Remote devices: inc counts connections, and an entity has the device address that its
\* address carries.
Addresses == Skis \cup {None}
Remotes ==
    [ptr : Ptrs, inc : 1..MaxConnects, address : Addresses, msg_num : Nat,
     entity : [Features -> [device : Addresses, gen : Nat]]]

\* A device that is there is not taken for none.
ASSUME NoneAssumption == None \notin Remotes

VARIABLES
    dl,        \* the device's data, see Init
    msg_queue, \* its queue
    open,      \* SHIP connections that are up, by SKI
    closed,    \* disconnects that the node has still to report, by SKI
    called,    \* the manager that peers call (never changes: the two are independent)
    count      \* connections, peers' messages and ticks so far

vars == <<dl, msg_queue, open, closed, called, count>>

\* Feature objects of peer s: only entity [0] is there before the discovery.
Exists(d, s, f) == d.remotes[s].entity[f].gen # 0
Feature(d, s, f) ==
    [ski |-> s, inc |-> d.remotes[s].inc, feature |-> f,
     gen |-> d.remotes[s].entity[f].gen, device |-> d.remotes[s].entity[f].device]

Present(d, s) == d.remotes[s] # None
Alive(d, c) == Present(d, c.ski) /\ c = Feature(d, c.ski, c.feature)
Dangling(d) == UNION {{l \in d.links[t] : ~Alive(d, l.client)} : t \in Tables}

Init ==
    /\ dl = [remotes |-> [s \in Skis |-> None],
             links |-> [t \in Tables |-> {}],
             num |-> [t \in Tables |-> 0],
             pending |-> <<>>,                      \* node management's pending replies
             subscriptions |-> {},                  \* peers that it subscribed to
             asked |-> [s \in Skis |-> {}],         \* reads that the peer may answer
             granted |-> {},                        \* history: bindings asked for and in force
             crossed |-> {}]                        \* history: another peer's reply was taken for mine
    /\ msg_queue = <<>>
    /\ open = [s \in Skis |-> FALSE]
    /\ closed = [s \in Skis |-> 0]
    /\ called \in Tables
    /\ count = [connects |-> 0, calls |-> 0, ticks |-> 0]

\* Room for one more input from outside.
Room == count.connects + count.calls + count.ticks < MaxEvents

-----------------------------------------------------------------------------
(* Sending. *)

\* Any message takes the next number of its peer's sender.
Send(d, s) == [d EXCEPT !.remotes[s].msg_num = @ + 1]

\* A read of the peer's discovery or use case data, with its pending reply.
Request(d, s, kind) ==
    LET n == d.remotes[s].msg_num + 1 IN
    [Send(d, s) EXCEPT
        !.pending = Append(@, [msg_cnt |-> n, ski |-> s, kind |-> kind, inc |-> d.remotes[s].inc]),
        !.asked[s] = @ \cup {[msg_cnt |-> n, kind |-> kind]}]

SubscribeToRemote(d, s) ==
    LET e == d.remotes[s].entity["NodeManagement"].device
        addr == IF e = None THEN d.remotes[s].address ELSE e
        to == {t \in Skis : Present(d, t) /\ d.remotes[t].address = addr}
    IN IF addr = None \/ to = {} THEN d
       ELSE [Send(d, CHOOSE t \in to : TRUE) EXCEPT !.subscriptions = @ \cup {addr}]

-----------------------------------------------------------------------------
(* Links: a table of one manager, in the order of its ids. *)

\* Mutant: links of entity [0] are forgotten.
EntityMatchNotZero(d, s, c) ==
    /\ c.feature # "NodeManagement"
    /\ Exists(d, s, c.feature)
    /\ c.device = d.remotes[s].entity[c.feature].device

\* Mutant: the device address is not compared.
EntityMatchAnyDevice(d, s, c) == Exists(d, s, c.feature)

\* Entities are compared by device address and id; an absent address equals an absent one.
EntityMatch(d, s, c) ==
    /\ Exists(d, s, c.feature)
    /\ c.device = d.remotes[s].entity[c.feature].device

\* The links of the remote device's entities, one entity after the other.
LinksOf(d, t, s, ub) ==
    {l \in d.links[t] : IF ~Alive(d, l.client) THEN l \in ub ELSE EntityMatch(d, s, l.client)}

RemoveDeviceBindings(d, s, ub) ==
    [d EXCEPT !.links["binding"] = @ \ LinksOf(d, "binding", s, ub),
              !.granted = {g \in @ : g.ski # s}]

RemoveDeviceSubscriptions(d, s, ub) ==
    [d EXCEPT !.links["subscription"] = @ \ LinksOf(d, "subscription", s, ub)]

\* FeatureLinkContainerFind: the links with these addresses.
Find(d, t, server, client, ub) ==
    {l \in d.links[t] :
        /\ l.server = server
        /\ IF ~Alive(d, l.client) THEN l \in ub
           ELSE [device |-> l.client.device, feature |-> l.client.feature] = client}

\* The client's address in a request: any device may be named, or none.
Address(device, f) == [device |-> device, feature |-> f]

ParametersMatch(d, s, req) == Exists(d, s, req.client) /\ req.client = req.server

\* History: the request names the addresses that its manager compares as the link has them.
Full(d, t, s, req) ==
    req.part /\ (t = "subscription" => req.device = d.remotes[s].entity[req.client].device)

\* A link that is not there gets the next id; the result goes back to the peer.
AddLink(d, t, s, req, there) ==
    IF ~ParametersMatch(d, s, req) \/ there THEN d
    ELSE Send([d EXCEPT
            !.links[t] = @ \cup {[table |-> t, id |-> d.num[t], server |-> req.server,
                                  client |-> Feature(d, s, req.client), lost |-> FALSE,
                                  full |-> Full(d, t, s, req)]},
            !.num[t] = @ + 1], s)

\* FeatureLinkContainerHasServer; the server address of a link has its device part.
HasServer(d, req) == req.part /\ \E l \in d.links["binding"] : l.server = req.server

\* A feature has one binding at most, of whatever client.
AddBinding(d, s, req) ==
    LET new == AddLink(d, "binding", s, req, HasServer(d, req))
    IN IF new = d THEN d
       ELSE [new EXCEPT !.granted = @ \cup {[ski |-> s, server |-> req.server, id |-> d.num["binding"]]}]

\* A client has one subscription at most to a feature, by the addresses in the request: the
\* feature is looked up among the sender's, whatever device the client's address names.
AddSubscription(d, s, req, ub) ==
    AddLink(d, "subscription", s, req,
            req.part /\ Find(d, "subscription", req.server, Address(req.device, req.client), ub) # {})

\* Absent device parts are filled in, the client's with the sender's.  Another device than the
\* sender's may be named, as long as the sender has a feature of this id.
RemoveLink(d, t, s, req, ub) ==
    LET device == IF req.device = None THEN d.remotes[s].address ELSE req.device
        found == Find(d, t, req.server, Address(device, req.client), ub)
        link == CHOOSE l \in found : \A k \in found : l.id <= k.id
    IN IF ~Exists(d, s, req.client) \/ found = {} THEN d
       ELSE Send([d EXCEPT !.links[t] = @ \ {link}], s)

\* A binding's server must have the role of a server, which node management has not.
RemoveBinding(d, s, req, ub) ==
    LET new == RemoveLink(d, "binding", s, req, ub)
        gone == {l.id : l \in d.links["binding"] \ new.links["binding"]}
    IN IF req.server = "NodeManagement" \/ new = d THEN d
       ELSE [new EXCEPT !.granted = {g \in @ : g.id \notin gone}]

RemoveSubscription(d, s, req, ub) == RemoveLink(d, "subscription", s, req, ub)

\* Mutant: device addresses are not compared.
HasBindingAnyDevice(d, s, f) ==
    /\ Exists(d, s, f)
    /\ \E l \in d.links["binding"] \ Dangling(d) : l.server = f /\ l.client.feature = f

\* The check of ProcessCmd before a write is handed to its feature: BINDING_MANAGER_HAS_BINDING
\* with the addresses of the two features.
HasBinding(d, s, f) ==
    /\ Exists(d, s, f)
    /\ \E l \in d.links["binding"] \ Dangling(d) :
          /\ l.server = f
          /\ l.client.feature = f
          /\ l.client.device = d.remotes[s].entity[f].device

-----------------------------------------------------------------------------
(* Remote devices. *)

NewDevice(p) ==
    [ptr |-> p, inc |-> count.connects + 1, address |-> None, msg_num |-> 0,
     entity |-> [f \in Features |-> [device |-> None,
                                     gen |-> IF f = "NodeManagement" THEN 1 ELSE 0]]]

\* The pending replies of other peers than s, in their order.
Without(pending, s) ==
    LET kept[i \in 0..Len(pending)] ==
            IF i = 0 THEN <<>>
            ELSE IF pending[i].ski = s THEN kept[i - 1] ELSE Append(kept[i - 1], pending[i])
    IN kept[Len(pending)]

\* Mutant: pending replies are dropped by device address only, which the first ones have not.
CleanCachesByAddress(d, s) ==
    [d EXCEPT !.subscriptions = @ \ {d.remotes[s].address},
              !.pending = IF d.remotes[s].address = None THEN @ ELSE Without(@, s)]

\* NodeManagementCleanRemoteDeviceCaches
CleanCaches(d, s) ==
    [d EXCEPT !.subscriptions = @ \ {d.remotes[s].address},
              !.pending = Without(@, s)]

RemoveRemoteDevice(d, s, ub) ==
    IF ~Present(d, s) THEN d
    ELSE [CleanCaches(RemoveDeviceBindings(RemoveDeviceSubscriptions(d, s, ub), s, ub), s) EXCEPT
            !.remotes[s] = None, !.asked[s] = {}, !.crossed = @ \ {s}]

\* The entry that is replaced, if there is one, is removed with all that belongs to it.
SetupRemoteDevice(d, s, p, ub) ==
    Request([RemoveRemoteDevice(d, s, ub) EXCEPT !.remotes[s] = NewDevice(p)], s, "discovery")

\* AddEntityAndFeatures: the features of the entities in fs are deleted and created anew.
Rebuild(d, s, from, fs) ==
    LET old == {Feature(d, s, f) : f \in fs} IN
    [d EXCEPT
        !.remotes[s].address = from,
        !.remotes[s].entity = [f \in Features |->
            IF f \notin fs THEN @[f]
            ELSE [device |-> IF @[f].device = None THEN from ELSE @[f].device, gen |-> @[f].gen + 1]],
        !.links = [t \in Tables |->
            {[l EXCEPT !.lost = @ \/ l.client \in old] : l \in @[t]}]]

-----------------------------------------------------------------------------
(* Pending replies. *)

\* PENDING_REPLY_CONTAINER_PROCESS, with the callback of the entry that it finds: the first
\* one with this message counter, whichever peer it waits for.
Process(d, s, ref) ==
    LET hits == {i \in 1..Len(d.pending) : d.pending[i].msg_cnt = ref}
        i == Min(hits)
        p == d.pending[i]
        fired == IF p.kind = "discovery" THEN Request(SubscribeToRemote(d, s), s, "useCase") ELSE d
    IN IF hits = {} THEN d
       ELSE [fired EXCEPT !.pending = RemoveAt(@, i),
                          !.crossed = IF p.ski = s THEN @ ELSE @ \cup {p.ski}]

\* The read of an expired entry is sent again if its peer is there.
Retry(d, p) == IF Present(d, p.ski) THEN Request(d, p.ski, p.kind) ELSE d

\* A tick on which the n oldest entries have expired: they fire from the last to the first.
Tick(d, n) ==
    LET fired[i \in 0..n] == IF i = 0 THEN d ELSE Retry(fired[i - 1], d.pending[n + 1 - i])
    IN [fired[n] EXCEPT !.pending = SubSeq(@, n + 1, Len(@))]

ProcessReplyUseCaseData(d, s, msg) == Process(d, s, msg.msg_cnt)

\* A reply whose second entity is not valid has had its device and first entity updated
\* before the error.
ProcessReplyDetailedDiscoveryData(d, s, msg, from) ==
    CASE msg.content = "noInfo" -> d
      [] msg.content = "cut" -> Rebuild(d, s, from, {"NodeManagement"})
      [] msg.content = "full" -> Process(Rebuild(d, s, from, Features), s, msg.msg_cnt)

\* Node management's handlers of the calls for either table.
HandleMsgBindingCall(d, s, msg, ub) ==
    IF msg.type = "request" THEN AddBinding(d, s, msg) ELSE RemoveBinding(d, s, msg, ub)

HandleMsgSubscriptionCall(d, s, msg, ub) ==
    IF msg.type = "request" THEN AddSubscription(d, s, msg, ub) ELSE RemoveSubscription(d, s, msg, ub)

ProcessDatagram(d, s, msg, from, ub) ==
    CASE msg.type = "read" -> Send(d, s)
      [] msg.type = "reply" /\ msg.kind = "useCase" -> ProcessReplyUseCaseData(d, s, msg)
      [] msg.type = "reply" /\ msg.kind = "discovery" -> ProcessReplyDetailedDiscoveryData(d, s, msg, from)
      [] msg.type \in {"request", "delete"} ->
           IF msg.table = "binding" THEN HandleMsgBindingCall(d, s, msg, ub)
           ELSE HandleMsgSubscriptionCall(d, s, msg, ub)

\* Publish: a change of local feature f is sent to its subscribers.
Publish(d, f) ==
    LET Subscribers(s) == {l \in d.links["subscription"] \ Dangling(d) : l.server = f /\ l.client.ski = s}
    IN [d EXCEPT !.remotes = [s \in Skis |->
            IF Present(d, s) THEN [d.remotes[s] EXCEPT !.msg_num = @ + Cardinality(Subscribers(s))] ELSE None]]

-----------------------------------------------------------------------------
(* Actions of the SHIP threads and of the application. *)

Used(d) == {d.remotes[s].ptr : s \in {s \in Skis : Present(d, s)}}
Queued == {msg_queue[i].ptr : i \in 1..Len(msg_queue)}

\* A connection reaches data exchange.  The new device is created before the stale one goes.
Connect(s) ==
    /\ ~open[s]
    /\ count.connects < MaxConnects /\ Room
    /\ \E p \in Ptrs \ (Used(dl) \cup IF Reuse THEN {} ELSE Queued), ub \in SUBSET Dangling(dl) :
          dl' = SetupRemoteDevice(dl, s, p, ub)
    /\ open' = [open EXCEPT ![s] = TRUE]
    /\ count' = [count EXCEPT !.connects = @ + 1]
    /\ UNCHANGED <<msg_queue, closed, called>>

Close(s) ==
    /\ open[s]
    /\ open' = [open EXCEPT ![s] = FALSE]
    /\ closed' = [closed EXCEPT ![s] = @ + 1]
    /\ UNCHANGED <<dl, msg_queue, count, called>>

\* RemoveRemoteDeviceConnection, possibly after the peer is connected again.
Disconnect(s) ==
    /\ closed[s] > 0
    /\ \E ub \in SUBSET Dangling(dl) : dl' = RemoveRemoteDevice(dl, s, ub)
    /\ closed' = [closed EXCEPT ![s] = @ - 1]
    /\ UNCHANGED <<msg_queue, open, count, called>>

Post(m) ==
    /\ Len(msg_queue) < QueueSize
    /\ msg_queue' = Append(msg_queue, m)

\* HandleMessage: a datagram is queued with the address of its remote device.
Receive(s, msg) ==
    /\ open[s] /\ Present(dl, s)
    /\ Post([type |-> "data", ptr |-> dl.remotes[s].ptr, from |-> s, msg |-> msg])
    /\ UNCHANGED <<open, closed, called>>

\* The peer answers a read, early or late, or never.
ReceiveReply(s) == \E r \in dl.asked[s], c \in Contents :
    /\ r.kind = "useCase" => c = "full"
    /\ Receive(s, [type |-> "reply", kind |-> r.kind, msg_cnt |-> r.msg_cnt, content |-> c])
    /\ dl' = [dl EXCEPT !.asked[s] = @ \ {r}]
    /\ UNCHANGED count

\* A call of the peer's node management, or a read.  The client's address may name any device,
\* which nothing compares with the sender.
Requests ==
    {[type |-> y, table |-> called, server |-> p[1], client |-> p[2], part |-> b, device |-> a] :
            y \in {"request", "delete"}, p \in Pairs, b \in Parts, a \in Addresses}
        \cup {[type |-> "read"]}

ReceiveCall(s) == \E msg \in Requests :
    /\ count.calls < MaxCalls /\ Room
    /\ Receive(s, msg)
    /\ count' = [count EXCEPT !.calls = @ + 1]
    /\ UNCHANGED dl

\* The timer's callback.
PostTick ==
    /\ count.ticks < MaxTicks /\ Room
    /\ Post([type |-> "tick", ptr |-> None])
    /\ count' = [count EXCEPT !.ticks = @ + 1]
    /\ UNCHANGED <<dl, open, closed, called>>

\* The application changes data of a local feature.
NotifySubscribers(f) ==
    /\ count.calls < MaxCalls /\ Room
    /\ dl' = Publish(dl, f)
    /\ count' = [count EXCEPT !.calls = @ + 1]
    /\ UNCHANGED <<msg_queue, open, closed, called>>

-----------------------------------------------------------------------------
(* The device's loop: HandleQueueMessage. *)

HandleTick ==
    /\ msg_queue # <<>> /\ Head(msg_queue).type = "tick"
    /\ \E n \in 0..Len(dl.pending) : dl' = Tick(dl, n)
    /\ msg_queue' = Tail(msg_queue)
    /\ UNCHANGED <<open, closed, count, called>>

\* A datagram is processed if a remote device has the address that it was queued with.
HandleDatagram ==
    /\ msg_queue # <<>> /\ Head(msg_queue).type = "data"
    /\ LET m == Head(msg_queue)
           alive == {s \in Skis : Present(dl, s) /\ dl.remotes[s].ptr = m.ptr}
       IN IF alive = {} THEN dl' = dl
          ELSE \E s \in alive, ub \in SUBSET Dangling(dl) :
                  dl' = ProcessDatagram(dl, s, m.msg, m.from, ub)
    /\ msg_queue' = Tail(msg_queue)
    /\ UNCHANGED <<open, closed, count, called>>

Next ==
    \/ \E s \in Skis : Connect(s) \/ Close(s) \/ Disconnect(s) \/ ReceiveReply(s) \/ ReceiveCall(s)
    \/ \E f \in Features : NotifySubscribers(f)
    \/ PostTick
    \/ HandleTick
    \/ HandleDatagram

Spec == Init /\ [][Next]_vars

-----------------------------------------------------------------------------
(* Properties. *)

Objects ==
    [ski : Skis, inc : 1..MaxConnects, feature : Features, gen : Nat \ {0}, device : Addresses]
Links ==
    [table : Tables, id : Nat, server : Features, client : Objects, lost : BOOLEAN, full : BOOLEAN]
Kinds == {"discovery", "useCase"}
Reads == [msg_cnt : Nat, kind : Kinds]
Devices ==
    [remotes : [Skis -> Remotes \cup {None}],
     links : [Tables -> SUBSET Links],
     num : [Tables -> Nat],
     pending : Seq([msg_cnt : Nat, ski : Skis, kind : Kinds, inc : 1..MaxConnects]),
     subscriptions : SUBSET Skis,
     asked : [Skis -> SUBSET Reads],
     granted : SUBSET [ski : Skis, server : Features, id : Nat],
     crossed : SUBSET Skis]
Datagrams ==
    [type : {"read"}]
      \cup [type : {"reply"}, kind : Kinds, msg_cnt : Nat, content : Contents]
      \cup [type : {"request", "delete"}, table : Tables, server : Features, client : Features,
            part : Parts, device : Addresses]
Messages ==
    [type : {"tick"}, ptr : {None}]
      \cup [type : {"data"}, ptr : Ptrs, from : Skis, msg : Datagrams]

\* Remote devices have different addresses, node management's feature is always there, the ids
\* of links are taken in their order, and no connection is reported as closed that was not made.
TypeOK ==
    /\ dl \in Devices
    /\ \A s, t \in Skis : Present(dl, s) /\ Present(dl, t) /\ s # t => dl.remotes[s].ptr # dl.remotes[t].ptr
    /\ \A s \in Skis : Present(dl, s) => Exists(dl, s, "NodeManagement")
    /\ \A t \in Tables : \A l \in dl.links[t] : l.table = t /\ l.id < dl.num[t]
    /\ msg_queue \in Seq(Messages)
    /\ Len(msg_queue) <= QueueSize
    /\ open \in [Skis -> BOOLEAN]
    /\ closed \in [Skis -> 0..MaxConnects]
    /\ called \in Tables
    /\ count \in [connects : 0..MaxConnects, calls : 0..MaxCalls, ticks : 0..MaxTicks]

\* Removing a remote device, when it disconnects or is replaced (RemoveRemoteDevice), leaves no
\* binding or subscription with a pointer to one of its features, before as after the discovery.
\* (A link whose entity a later discovery reply has rebuilt is marked as lost: there the
\* code does leave the pointer behind, see NoLinkLost.)
LinksAlive == \A t \in Tables : \A l \in dl.links[t] : l.lost \/ Alive(dl, l.client)

\* Queue message m, taken for a device that is there, is a call that deletes link l of table t
\* by its addresses; the absent device part of the client's address stands for the sender's.
Deletes(d, m, t, l) ==
    /\ m.type = "data" /\ m.msg.type = "delete"
    /\ m.msg.table = t /\ m.msg.server = l.server /\ m.msg.client = l.client.feature
    /\ \E s \in Skis :
          /\ Present(d, s) /\ d.remotes[s].ptr = m.ptr
          /\ l.client.device = IF m.msg.device = None THEN d.remotes[s].address ELSE m.msg.device

\* A link, of whatever peer, goes in three ways only: a call deletes it by its very addresses,
\* the connection of its peer ends, or that of a peer whose entity has the same device address
\* (before the discovery both have none): calls for other links, other peers that come and go,
\* retries and replies leave it in place.  The code does not ask whose call it is: a peer that
\* names another's device deletes its link (binding_manager.c:148, subscription_manager.c:159).
KnownLinksKept ==
    [][\A t \in Tables : \A l \in dl.links[t] :
          \/ \E k \in dl'.links[t] : k.id = l.id
          \/ l.lost
          \/ msg_queue # <<>> /\ msg_queue' = Tail(msg_queue) /\ Deletes(dl, Head(msg_queue), t, l)
          \/ \E s \in Skis :
                /\ Present(dl, s) /\ (Present(dl', s) => dl'.remotes[s].inc # dl.remotes[s].inc)
                /\ s = l.client.ski \/ dl.remotes[s].entity[l.client.feature].device = l.client.device]_vars

\* "A local feature can only have one remote binding" (binding_manager.c:116), whoever asks in
\* whatever order, and a peer is subscribed to a feature at most once, so that it is notified of
\* a change once: a further link is made only by a request whose server address has no device
\* part, or, for a subscription, whose client address names another device than the client's,
\* because the managers compare the addresses as the request has them.
OneLink ==
    /\ \A k, l \in dl.links["binding"] : k.server = l.server /\ k.id < l.id => ~l.full
    /\ \A k, l \in {l \in dl.links["subscription"] : ~l.lost} :
          k.server = l.server /\ k.client = l.client /\ k.id < l.id => ~l.full

\* Who may write (ProcessCmd asks HasBinding) has asked for it on the present connection, and
\* the binding has not been deleted since: it is not inherited by the next connection, nor by
\* another peer, as long as no other one has the same device address.
WriterAsked ==
    \A s \in Skis, f \in Features :
        /\ Present(dl, s) /\ HasBinding(dl, s, f)
        /\ \A t \in Skis \ {s} :
              Present(dl, t) => dl.remotes[t].entity[f].device # dl.remotes[s].entity[f].device
        => \E g \in dl.granted : g.ski = s /\ g.server = f

\* Node management waits for replies of present connections only (the counters of the next
\* one start again), and is subscribed to devices that are there.
NoOrphans ==
    /\ \A i \in 1..Len(dl.pending) :
          LET p == dl.pending[i] IN Present(dl, p.ski) /\ p.inc = dl.remotes[p.ski].inc
    /\ \A a \in dl.subscriptions : \E s \in Skis : Present(dl, s) /\ dl.remotes[s].address = a

\* Until a peer's discovery data is there it is asked for it again (device_local.c:561),
\* unless another peer's reply has the same message counter: see DiscoveryRetried.
UndiscoveredIsAsked ==
    \A s \in Skis : Present(dl, s) /\ ~Exists(dl, s, "LoadControl") /\ s \notin dl.crossed
        => \E i \in 1..Len(dl.pending) : dl.pending[i].ski = s /\ dl.pending[i].kind = "discovery"

\* Node management waits for replies of connections that are there, and a peer that has not been
\* discovered is asked again.
PeersAsked == NoOrphans /\ UndiscoveredIsAsked

\* A request that names the addresses of a link that is there makes no second one, and who may
\* write asked for it on the present connection.
OneWriterAsked == OneLink /\ WriterAsked

-----------------------------------------------------------------------------
(* What comments say and the code does not do: see the README. *)

\* "A local feature can only have one remote binding" (binding_manager.c:116).
OneBinding == \A k, l \in dl.links["binding"] : k.server = l.server => k = l

\* "Remove all subscriptions for this device" (device_local.c:609), and no others; nor does
\* another peer's call delete a link.
OwnLinksOnly ==
    [][\A t \in Tables : \A l \in dl.links[t] :
          (\E k \in dl'.links[t] : k.id = l.id)
            \/ l.lost
            \/ dl'.remotes[l.client.ski] # dl.remotes[l.client.ski]]_vars

\* "If the request returned an error, it should be retried until it does not"
\* (device_local.c:561): a peer that has sent no discovery data is asked again, whatever
\* other peers send.
DiscoveryRetried ==
    \A s \in Skis : Present(dl, s) /\ ~Exists(dl, s, "LoadControl")
        => \E i \in 1..Len(dl.pending) : dl.pending[i].ski = s /\ dl.pending[i].kind = "discovery"

\* A link never points to a feature that a discovery reply has deleted.
NoLinkLost == \A t \in Tables : \A l \in dl.links[t] : ~l.lost

\* The entries of one peer (AddBindingEntries, AddSubscriptionEntries) fit into the array
\* that was allocated for them: the index of an entry is that of its link in the table.
ListingFits ==
    \A t \in Tables, s \in Skis :
        LET own == {l \in dl.links[t] : l.client.ski = s} IN
        \A l \in own : Cardinality({k \in dl.links[t] : k.id < l.id}) < Cardinality(own)

\* A datagram that is processed came from the device that it is processed for.
DatagramOfItsDevice ==
    \A i \in 1..Len(msg_queue), s \in Skis :
        Present(dl, s) /\ dl.remotes[s].ptr = msg_queue[i].ptr => msg_queue[i].from = s
=============================================================================
