------------------------------ MODULE ShipNode ------------------------------
(***************************************************************************)
(* The SHIP node (ship_node.c), its table of peers (node_connection.c and  *)
(* node_connection_container.c) and the threads that work on them:         *)
(*                                                                         *)
(*   - the connection loop, the only reader of the node's queue and the    *)
(*     only thread that deletes connections before Stop;                   *)
(*   - the application, the pairing browser and the mDNS browser, which    *)
(*     change the table under the node's mutex and then send a message;    *)
(*   - the websocket server, which looks at cancel before it takes the     *)
(*     mutex;                                                              *)
(*   - one thread for each connection, and one retry timer for each peer;  *)
(*   - the caller of Stop.                                                 *)
(*                                                                         *)
(* A section that holds the mutex is one step. A thread that has left it   *)
(* with messages to send keeps them in out (the connection thread: in      *)
(* busy, a timer: in due), and sleeps there while the queue is full.       *)
(* A ship connection is reduced to what the node sees of it: whether it    *)
(* has been shut, how far its handshake is and the trust decisions in its  *)
(* queue (module ShipConnection has the rest). Connections are identified, *)
(* as in the code, by an address that is used again after the delete; inc  *)
(* counts the connections and is read by no handler.                       *)
(***************************************************************************)
EXTENDS Naturals, Sequences, FiniteSets, SequencesExt

CONSTANTS
    Configs,      \* what a behaviour may start with, see config
    Addrs,        \* addresses the allocator hands out for connections
    None,         \* NULL
    ClientSupported, ServerSupported,  \* what the role allows
    MaxCloses,    \* bound: connections that fail or end by themselves
    MaxAccepts,   \* bound: incoming connections
    MaxBrowse     \* bound: changes of the set of visible services

ASSUME ConfigAssumption ==
    \A c \in Configs :
        /\ IsFiniteSet(c.devices)
        /\ \A d \in c.devices : DOMAIN d = {"ski", "id", "fp"} /\ None \notin {d.ski, d.id, d.fp}
        /\ {c.postTrust, c.pairingPossible, c.mayFail} \subseteq BOOLEAN
        /\ c.queueSize \in Nat \ {0}
        /\ {c.maxConns, c.maxCalls} \subseteq Nat
ASSUME NodeAssumption ==
    /\ None \notin Addrs
    /\ {ClientSupported, ServerSupported} \subseteq BOOLEAN
    /\ {MaxCloses, MaxAccepts, MaxBrowse} \subseteq Nat

VARIABLE config   \* what the node was created with and what this behaviour uses; never changes

Devices == config.devices            \* remote devices: [ski, id (SHIP ID), fp (fingerprint)]
PostTrust == config.postTrust        \* trust_mode = kEebusTrustModePostTrust
PairingPossible == config.pairingPossible \* is_pairing_possible of the service
QueueSize == config.queueSize        \* kQueueMaxMsg
Calls == config.calls                \* the operations of the node that the behaviour uses
MayFail == config.mayFail            \* whether SHIP_CONNECTION_START may fail
MaxConns == config.maxConns          \* bound: connections created
MaxCalls == config.maxCalls          \* bound: calls of the node's interface

VARIABLES
    peers,                \* connections: the table of NodeConnections
    conns,                \* the ship connection at each address
    queue,                \* msg_queue
    out,                  \* messages a thread has yet to send
    loop,                 \* the connection loop: where it is and its locals
    server,               \* the device whose connection the server is handling
    pairing,              \* the device whose request the browser has accepted
    stop,                 \* the caller of Stop
    cancel,
    next_approval_id,
    remote_fingerprint,
    mdns_entries,
    spine,                \* by SKI: the connection SPINE's remote device writes to
    made,                 \* connections created so far
    count,                \* how often each bounded thing has happened
    approvals             \* history: of each approval, the connection it was given for

vars == <<peers, conns, queue, out, loop, server, pairing, stop, cancel, next_approval_id,
          remote_fingerprint, mdns_entries, spine, made, count, approvals>>

AllDevices == UNION {c.devices : c \in Configs}
Skis == {d.ski : d \in Devices}
Fps == {d.fp : d \in Devices}
Ids == {d.id : d \in Devices}
Threads == {"app", "pairing", "mdns"}

-----------------------------------------------------------------------------
(* Messages of the node's queue. *)

MsgTypes == {"MdnsEntriesFound", "ShipConnectionClosed", "ShipUnregisterSki", "ShipRegisterSki",
             "ShipCancelPairingSki", "RetryConnectionForSki", "PromoteFingerprint",
             "ApprovePendingSki", "RevokePairingFingerprint", "Cancel"}

\* A SKI to register is there; a message about a fingerprint has it in ski.
Message == {m \in [type : MsgTypes, sc : Addrs \cup {None}, inc : Nat,
                   ski : Skis \cup Fps \cup {None}, id : Nat, trust : BOOLEAN] :
               m.type = "ShipRegisterSki" => m.ski \in Skis}

Msg(type) == [type |-> type, sc |-> None, inc |-> 0, ski |-> None, id |-> 0, trust |-> FALSE]
SkiMsg(type, ski) == [Msg(type) EXCEPT !.ski = ski]
ClosedMsg(a) == [Msg("ShipConnectionClosed") EXCEPT !.sc = a, !.inc = conns[a].inc]

HasRoom == Len(queue) < QueueSize

-----------------------------------------------------------------------------
(* Peers: NodeConnection and its container. *)

Peer == [ski : Skis \cup {None}, ship_id : Ids \cup {None}, connection : Addrs \cup {None},
         pending_approval_id : Nat, attempt_cnt : 0..3, is_attempt_running : BOOLEAN,
         handshake_complete : BOOLEAN, is_trusted : BOOLEAN, provisional : BOOLEAN,
         trusted_by_pairing : BOOLEAN, expected_fingerprint : Fps \cup {None},
         peer_fingerprint : Fps \cup {None}, retry : {"off", "armed", "expired"},
         due : Skis \cup {None}]

NodeConnection(ski) ==
    [ski |-> ski, ship_id |-> None, connection |-> None, pending_approval_id |-> 0,
     attempt_cnt |-> 0, is_attempt_running |-> FALSE, handshake_complete |-> FALSE,
     is_trusted |-> FALSE, provisional |-> FALSE, trusted_by_pairing |-> FALSE,
     expected_fingerprint |-> None, peer_fingerprint |-> None, retry |-> "off", due |-> None]

\* The index of the first peer that matches, 0 if there is none.
FindWithSki(ps, ski) ==
    IF ski = None THEN 0 ELSE SelectInSeq(ps, LAMBDA p : p.ski = ski)
FindWithShipId(ps, id) ==
    SelectInSeq(ps, LAMBDA p : p.ship_id = id)
FindWithFingerprint(ps, fp) ==
    IF fp = None THEN 0 ELSE SelectInSeq(ps, LAMBDA p : p.is_trusted /\ p.expected_fingerprint = fp)
FindWithShipConnection(ps, a) ==
    IF a = None THEN 0 ELSE SelectInSeq(ps, LAMBDA p : p.connection = a)

FingerprintMatches(f, g) == f # None /\ f = g

\* The callback of the retry timer is asleep on the full queue: EEBUS_TIMER_STOP waits for it.
Firing(p) == p.due # None

ReleaseShipConnection(p) == [p EXCEPT !.connection = None, !.pending_approval_id = 0]

\* Mutant: the peer keeps the pointer to the connection.
OnConnectionClosedKeepsPointer(p) ==
    [p EXCEPT !.pending_approval_id = 0, !.is_attempt_running = FALSE,
              !.handshake_complete = FALSE, !.peer_fingerprint = None,
              !.attempt_cnt = IF @ < 3 THEN @ + 1 ELSE 3]

\* attempt_cnt saturates: RetryDelayMs tells only 1, 2 and more apart.
OnConnectionClosed(p) ==
    [p EXCEPT !.connection = None, !.pending_approval_id = 0, !.is_attempt_running = FALSE,
              !.handshake_complete = FALSE, !.peer_fingerprint = None,
              !.attempt_cnt = IF @ < 3 THEN @ + 1 ELSE 3]

RetryDelay(attempt_cnt) == attempt_cnt > 1

\* Mutant: the timer is not started.
ScheduleRetryNever(p) == p
ScheduleRetry(p) == [p EXCEPT !.retry = "armed"]

OnHandshakeComplete(p) ==
    IF p.handshake_complete THEN p ELSE [p EXCEPT !.handshake_complete = TRUE, !.attempt_cnt = 0]

HasPendingApproval(p, a, id) == p.connection = a /\ id # 0 /\ p.pending_approval_id = id

\* Mutant: a cancelled approval keeps its token.
WithdrawNothing(ps, i) == ps
Withdraw(ps, i) == IF i = 0 THEN ps ELSE [ps EXCEPT ![i].pending_approval_id = 0]

-----------------------------------------------------------------------------
(* Ship connections as the node sees them. *)

Phases == {"init", "pending", "ready", "approved", "data", "refused"}
Decision == [granted : BOOLEAN, id : Nat]

Connection == [st : {"free", "run", "dead", "shut"}, inc : Nat, ski : Skis \cup {None},
               phase : Phases, box : Seq(Decision), busy : {"no", "post"}]

Free == [st |-> "free", inc |-> 0, ski |-> None, phase |-> "init", box |-> <<>>, busy |-> "no"]

\* A connection after SHIP_CONNECTION_START. A client that requires another certificate than
\* the peer has gets no further than the TLS handshake.
Started(inc, ski, phase) ==
    [st |-> "run", inc |-> inc, ski |-> ski, phase |-> phase, box |-> <<>>, busy |-> "no"]

-----------------------------------------------------------------------------
\* Where the loop and the caller of Stop are, and their locals.
Loops == [at : {"idle", "receive", "handle", "dial", "stop", "post", "stopped", "abort", "remove",
                "approve", "promote", "revoke", "exit"},
          msg : Message, sc : Addrs \cup {None}, ski : Skis \cup {None}, i : Nat, n : Nat, dial : BOOLEAN]
Stops == [at : {"no", "send", "join", "each", "conn", "servers", "done"}, i : Nat, sc : Addrs \cup {None}]

LoopIdle == [at |-> "idle", msg |-> Msg("Cancel"), sc |-> None, ski |-> None, i |-> 0, n |-> 0,
             dial |-> FALSE]

Init ==
    /\ config \in Configs
    /\ peers = <<>>
    /\ conns = [a \in Addrs |-> Free]
    /\ queue = <<>>
    /\ out = [t \in Threads |-> <<>>]
    /\ loop = LoopIdle
    /\ server = None
    /\ pairing = None
    /\ stop = [at |-> "no", i |-> 0, sc |-> None]
    /\ cancel = FALSE
    /\ next_approval_id = 0
    /\ remote_fingerprint = None
    /\ mdns_entries = <<>>
    /\ spine = [s \in Skis |-> 0]
    /\ made = 0
    /\ count = [closes |-> 0, accepts |-> 0, calls |-> 0, browse |-> 0]
    /\ approvals = [given |-> <<>>, withdrawn |-> {}, accepted |-> {}]

-----------------------------------------------------------------------------
(* Dialling a peer. A dial works on [peers, conns, ...], as several are    *)
(* made under one lock; choice[i] is the address the allocator returns for *)
(* peer i, or None when the connection does not start.                     *)

\* The index of the first service that matches, 0 if there is none.
FindServiceForPeer(p) ==
    IF cancel THEN 0
    ELSE SelectInSeq(mdns_entries, LAMBDA d : IF p.ship_id # None /\ p.expected_fingerprint # None
                                              THEN d.id = p.ship_id ELSE d.ski = p.ski)

ClientConnect(s, i, d, a) ==
    LET p == [s.peers[i] EXCEPT !.ski = d.ski, !.pending_approval_id = 0]
        refused == p.expected_fingerprint \notin {None, d.fp}
    IN  IF a = None
        THEN [s EXCEPT !.peers[i] = [p EXCEPT !.connection = None], !.failed = TRUE]
        ELSE [s EXCEPT !.peers[i] = [p EXCEPT !.connection = a, !.is_attempt_running = TRUE],
                       !.conns[a] = Started(s.made + 1, d.ski, IF refused THEN "refused" ELSE "init"),
                       !.made = @ + 1]

\* The SKI the service advertises belongs to another peer already.
Taken(ps, p, d) == d.ski # p.ski /\ FindWithSki(ps, d.ski) # 0

ConnectToPendingSkiInternal(s, i, a) ==
    LET p == s.peers[i]
        found == FindServiceForPeer(p)
        d == mdns_entries[found]
    IN  IF p.is_attempt_running \/ found = 0 \/ Taken(s.peers, p, d)
        THEN s ELSE ClientConnect(s, i, d, a)

\* Different addresses for different peers, each of them free.
Allocations ==
    {c \in [DOMAIN peers -> Addrs \cup {None}] :
        /\ \A i, j \in DOMAIN c : c[i] = c[j] /\ c[i] # None => i = j
        /\ \A i \in DOMAIN c : c[i] # None => conns[c[i]].st = "free"}

\* Dials the peers at the indices of order, one after the other: after k of them.
Dialled(c, order, k) ==
    LET after[n \in 0..Len(order)] ==
            IF n = 0 THEN [peers |-> peers, conns |-> conns, made |-> made, failed |-> FALSE]
            ELSE ConnectToPendingSkiInternal(after[n - 1], order[n], c[order[n]])
    IN  after[k]

Connect(order) ==
    \E c \in Allocations :
        LET s == Dialled(c, order, Len(order))
        IN  /\ s.failed => MayFail
            /\ s.made <= MaxConns
            /\ peers' = s.peers /\ conns' = s.conns /\ made' = s.made

ConnectToPendingSki(ski) ==
    LET i == FindWithSki(peers, ski)
    IN  Connect(IF ClientSupported /\ i # 0 THEN <<i>> ELSE <<>>)

ConnectToAllPendingSkis ==
    Connect(IF ClientSupported THEN [i \in DOMAIN peers |-> i] ELSE <<>>)

-----------------------------------------------------------------------------
(* Threads that change the table and send. A thread calls when it has sent *)
(* everything of its last call.                                            *)

Idle(t) == out[t] = <<>>

Bound(what, max) == count[what] < max /\ count' = [count EXCEPT ![what] = @ + 1]

\* A call of the node's interface by the application.
Call(name) == name \in Calls /\ stop.at # "done" /\ Idle("app") /\ Bound("calls", MaxCalls)

Send(t) ==
    /\ ~Idle(t) /\ HasRoom
    /\ queue' = Append(queue, Head(out[t]))
    /\ out' = [out EXCEPT ![t] = Tail(@)]
    /\ UNCHANGED <<peers, conns, loop, server, pairing, stop, cancel, next_approval_id,
                   remote_fingerprint, mdns_entries, spine, made, count, approvals>>

Post(t, msgs) == out' = [out EXCEPT ![t] = msgs]

\* The history of approvals: the application takes back what it had given for peer i.
Withdrawn(i) ==
    approvals' = IF i = 0 \/ peers[i].pending_approval_id = 0 THEN approvals
                 ELSE [approvals EXCEPT !.withdrawn = @ \cup {peers[i].pending_approval_id}]

RegisterRemoteSki(ski, is_trusted) ==
    LET i == IF is_trusted THEN 0 ELSE FindWithSki(peers, ski)
    IN  /\ Call(IF is_trusted THEN "register" ELSE "distrust")
        /\ peers' = Withdraw(peers, i) /\ Withdrawn(i)
        /\ Post("app", <<[SkiMsg("ShipRegisterSki", ski) EXCEPT !.trust = is_trusted]>>)
        /\ UNCHANGED <<conns, queue, loop, server, pairing, stop, cancel, next_approval_id,
                       remote_fingerprint, mdns_entries, spine, made>>

UnregisterRemoteSki(ski) ==
    LET i == FindWithSki(peers, ski)
    IN  /\ Call("unregister") /\ i # 0
        /\ peers' = Withdraw(peers, i) /\ Withdrawn(i)
        /\ Post("app", <<SkiMsg("ShipUnregisterSki", ski)>>)
        /\ UNCHANGED <<conns, queue, loop, server, pairing, stop, cancel, next_approval_id,
                       remote_fingerprint, mdns_entries, spine, made>>

CancelPairingWithSki(ski) ==
    LET i == FindWithSki(peers, ski)
    IN  /\ Call("cancel")
        /\ peers' = Withdraw(peers, i) /\ Withdrawn(i)
        /\ Post("app", <<SkiMsg("ShipCancelPairingSki", ski)>>)
        /\ UNCHANGED <<conns, queue, loop, server, pairing, stop, cancel, next_approval_id,
                       remote_fingerprint, mdns_entries, spine, made>>

ApprovePendingHandshakeWithSki(ski) ==
    LET i == FindWithSki(peers, ski)
        id == next_approval_id + 1
        sc == peers[i].connection
    IN  /\ Call("approve")
        /\ ~cancel /\ i # 0 /\ sc # None /\ peers[i].pending_approval_id = 0
        /\ next_approval_id' = id
        /\ peers' = [peers EXCEPT ![i].pending_approval_id = id]
        /\ approvals' = [approvals EXCEPT !.given = Append(@, conns[sc].inc)]
        /\ Post("app", <<[Msg("ApprovePendingSki") EXCEPT !.sc = sc, !.id = id, !.inc = conns[sc].inc]>>)
        /\ UNCHANGED <<conns, queue, loop, server, pairing, stop, cancel,
                       remote_fingerprint, mdns_entries, spine, made>>

\* RegisterRemoteFingerprint: the table, the fingerprint and the messages.
\* Mutant: an earlier request is never replaced.
ReplacingNever(fp) == FALSE
Replacing(fp) == remote_fingerprint # None /\ remote_fingerprint # fp

\* Mutant: the revoked peer is marked, its connection is not revoked.
RegisterRemoteFingerprintMarks(t, fp) ==
    /\ peers' = [i \in DOMAIN peers |->
                    IF Replacing(fp) /\ peers[i].trusted_by_pairing
                       /\ FingerprintMatches(peers[i].expected_fingerprint, remote_fingerprint)
                    THEN [peers[i] EXCEPT !.is_trusted = FALSE, !.provisional = TRUE,
                                          !.pending_approval_id = 0]
                    ELSE peers[i]]
    /\ remote_fingerprint' = fp
    /\ Post(t, <<Msg("PromoteFingerprint")>>)

RegisterRemoteFingerprint(t, fp) ==
    /\ peers' = IF Replacing(fp)
                THEN [i \in DOMAIN peers |->
                        IF /\ peers[i].trusted_by_pairing
                           /\ FingerprintMatches(peers[i].expected_fingerprint, remote_fingerprint)
                        THEN [peers[i] EXCEPT !.is_trusted = FALSE, !.provisional = TRUE,
                                              !.pending_approval_id = 0]
                        ELSE peers[i]]
                ELSE peers
    /\ remote_fingerprint' = fp
    /\ Post(t, (IF Replacing(fp) THEN <<SkiMsg("RevokePairingFingerprint", remote_fingerprint)>> ELSE <<>>)
                 \o <<Msg("PromoteFingerprint")>>)

RegisterFingerprint(fp) ==
    /\ Call("fingerprint")
    /\ RegisterRemoteFingerprint("app", fp)
    /\ UNCHANGED <<conns, queue, loop, server, pairing, stop, cancel, next_approval_id,
                   mdns_entries, spine, made, approvals>>

FindPeerForRegistration(d, by_request) ==
    LET by_id == FindWithShipId(peers, d.id)
        by_fp == FindWithFingerprint(peers, d.fp)
        shown == SelectInSeq(peers, LAMBDA p : FingerprintMatches(p.peer_fingerprint, d.fp))
        entry == SelectInSeq(mdns_entries, LAMBDA e : e.id = d.id)
    IN  CASE by_id # 0 -> by_id
          [] by_id = 0 /\ by_fp # 0 -> by_fp
          [] by_id = 0 /\ by_fp = 0 /\ by_request /\ shown # 0 -> shown
          [] OTHER -> IF entry = 0 THEN 0 ELSE FindWithSki(peers, mdns_entries[entry].ski)

\* An attempt is running for a peer that is not known to have certificate fp.
AttemptUnproven(p, fp) == p.is_attempt_running /\ ~FingerprintMatches(p.expected_fingerprint, fp)

RegisterPeerTrust(t, d, by_request) ==
    LET i == FindPeerForRegistration(d, by_request)
        ps == IF i = 0 THEN Append(peers, NodeConnection(None)) ELSE peers
        k == IF i = 0 THEN Len(ps) ELSE i
        p == ps[k]
        close == /\ AttemptUnproven(p, d.fp) /\ p.connection # None
                 /\ ~FingerprintMatches(p.peer_fingerprint, d.fp)
    IN  /\ AttemptUnproven(p, d.fp) => by_request
        /\ peers' = [ps EXCEPT ![k].ship_id = d.id, ![k].expected_fingerprint = d.fp,
                               ![k].is_trusted = TRUE, ![k].provisional = FALSE,
                               ![k].trusted_by_pairing = @ \/ by_request]
        /\ Post(t, (IF close THEN <<ClosedMsg(p.connection)>> ELSE <<>>)
                     \o IF ClientSupported THEN <<Msg("MdnsEntriesFound")>> ELSE <<>>)

RegisterRemoteFingerprintWithShipId(d) ==
    /\ Call("peer")
    /\ RegisterPeerTrust("app", d, FALSE)
    /\ UNCHANGED <<conns, queue, loop, server, pairing, stop, cancel, next_approval_id,
                   remote_fingerprint, mdns_entries, spine, made, approvals>>

\* The browser's thread has accepted the request of d (SHIP_PAIRING_EVALUATE), and then
\* registers its fingerprint and, in a second section, the peer.
PairingRequestAccepted(d) ==
    /\ "pairing" \in Calls /\ pairing = None /\ Idle("pairing") /\ ~cancel
    /\ Bound("calls", MaxCalls)
    /\ RegisterRemoteFingerprint("pairing", d.fp)
    /\ pairing' = d
    /\ UNCHANGED <<conns, queue, loop, server, stop, cancel, next_approval_id,
                   mdns_entries, spine, made, approvals>>

PairingRegistersPeer ==
    /\ pairing # None /\ Idle("pairing")
    /\ RegisterPeerTrust("pairing", pairing, TRUE)
    /\ pairing' = None
    /\ UNCHANGED <<conns, queue, loop, server, stop, cancel, next_approval_id,
                   remote_fingerprint, mdns_entries, spine, made, count, approvals>>

OnMdnsEntriesFound(found) ==
    /\ Idle("mdns") /\ ~cancel /\ Bound("browse", MaxBrowse)
    /\ mdns_entries' = found
    /\ Post("mdns", IF ClientSupported THEN <<Msg("MdnsEntriesFound")>> ELSE <<>>)
    /\ UNCHANGED <<peers, conns, queue, loop, server, pairing, stop, cancel, next_approval_id,
                   remote_fingerprint, spine, made, approvals>>

-----------------------------------------------------------------------------
(* The websocket server: it looks at cancel, and then takes the mutex.     *)

ServerAccept(d) ==
    /\ ServerSupported /\ server = None /\ ~cancel /\ Bound("accepts", MaxAccepts)
    /\ server' = d
    /\ UNCHANGED <<peers, conns, queue, out, loop, pairing, stop, cancel, next_approval_id,
                   remote_fingerprint, mdns_entries, spine, made, approvals>>

ServerConnect(p, a) ==
    [p EXCEPT !.pending_approval_id = 0, !.connection = a, !.is_attempt_running = TRUE]

\* The peer the connection is for, and what recognises it.
PeerOf(d) == LET i == FindWithSki(peers, d.ski)
             IN  IF i # 0 THEN i ELSE FindWithFingerprint(peers, d.fp)
ByPairing(d) == FingerprintMatches(d.fp, remote_fingerprint)
Recognised(d) ==
    LET i == PeerOf(d)
    IN  \/ ByPairing(d)
        \/ i # 0 /\ peers[i].is_trusted
                 /\ \/ peers[i].ski = d.ski
                    \/ FingerprintMatches(d.fp, peers[i].expected_fingerprint)

Admitted(d) ==
    LET i == PeerOf(d)
    IN  IF i = 0 THEN Recognised(d) \/ PostTrust \/ PairingPossible
        ELSE peers[i].expected_fingerprint \in {None, d.fp} /\ ~peers[i].is_attempt_running

\* The peer as the connection finds it: created, or recognised again.
AdmittedPeer(d) ==
    LET i == PeerOf(d)
        p == IF i = 0 THEN NodeConnection(d.ski) ELSE peers[i]
        trusted == CASE i = 0 -> Recognised(d) \/ ~PostTrust
                     [] i # 0 -> Recognised(d) \/ p.is_trusted
        provisional == CASE i = 0 -> ~trusted
                         [] i # 0 -> ~Recognised(d) /\ p.provisional
        q == [p EXCEPT !.is_trusted = trusted, !.provisional = provisional,
                       !.ski = d.ski, !.peer_fingerprint = d.fp]
    IN  IF ByPairing(d)
        THEN [q EXCEPT !.expected_fingerprint = remote_fingerprint, !.trusted_by_pairing = TRUE]
        ELSE q

OnWebsocketServerConnection ==
    LET i == PeerOf(server)
        k == IF i = 0 THEN Len(peers) + 1 ELSE i
    IN  /\ server # None
        /\ server' = None
        /\ \/ /\ Admitted(server) /\ made < MaxConns
              /\ \E a \in {b \in Addrs : conns[b].st = "free"}, started \in {TRUE, ~MayFail} :
                   LET c == Started(made + 1, server.ski, "init")
                   IN  /\ peers' = [j \in 1..Len(peers) \cup {k} |->
                                      IF j = k THEN ServerConnect(AdmittedPeer(server), a) ELSE peers[j]]
                       /\ conns' = [conns EXCEPT ![a] = IF started THEN c ELSE [c EXCEPT !.st = "dead"]]
              /\ made' = made + 1
           \/ ~Admitted(server) /\ UNCHANGED <<peers, conns, made>>
        /\ UNCHANGED <<queue, out, loop, pairing, stop, cancel, next_approval_id,
                       remote_fingerprint, mdns_entries, spine, count, approvals>>

-----------------------------------------------------------------------------
(* The thread of a connection, and its callbacks to the node.              *)

Runs(a) == conns[a].st = "run" /\ conns[a].busy = "no"

IsRemoteServiceForSkiPaired(ski) ==
    LET i == FindWithSki(peers, ski) IN i # 0 /\ peers[i].is_trusted

Hello(a) ==
    /\ Runs(a) /\ conns[a].phase = "init"
    /\ conns' = [conns EXCEPT ![a].phase = IF IsRemoteServiceForSkiPaired(conns[a].ski)
                                           THEN "ready" ELSE "pending"]
    /\ UNCHANGED <<peers, queue, out, loop, server, pairing, stop, cancel, next_approval_id,
                   remote_fingerprint, mdns_entries, spine, made, count, approvals>>

\* HandleConnectionClosed: the shut connection at a loses its approval, and its close is
\* posted unless the node is stopping. What is left in its queue is never read.
Shut(cs, a) == [cs EXCEPT ![a].st = "shut", ![a].box = <<>>]
HandleConnectionClosed(a) == Withdraw(peers, FindWithShipConnection(peers, a))

CloseConnection(a) ==
    /\ conns' = [Shut(conns, a) EXCEPT ![a].busy = IF cancel THEN "no" ELSE "post"]
    /\ peers' = HandleConnectionClosed(a)

ConnectionEnds(a) ==
    /\ Runs(a) /\ Bound("closes", MaxCloses)
    /\ CloseConnection(a)
    /\ UNCHANGED <<queue, out, loop, server, pairing, stop, cancel, next_approval_id,
                   remote_fingerprint, mdns_entries, spine, made, approvals>>

\* Mutant: the close is not posted.
PostConnectionCloseLost(a) ==
    /\ conns[a].busy = "post"
    /\ conns' = [conns EXCEPT ![a].busy = "no"]
    /\ UNCHANGED <<peers, queue, out, loop, server, pairing, stop, cancel, next_approval_id,
                   remote_fingerprint, mdns_entries, spine, made, count, approvals>>

PostConnectionClose(a) ==
    /\ conns[a].busy = "post" /\ HasRoom
    /\ queue' = Append(queue, ClosedMsg(a))
    /\ conns' = [conns EXCEPT ![a].busy = "no"]
    /\ UNCHANGED <<peers, out, loop, server, pairing, stop, cancel, next_approval_id,
                   remote_fingerprint, mdns_entries, spine, made, count, approvals>>

\* ShipNodeAcceptPendingTrust, called by the connection when it reads an approval in PENDING.
AcceptsPendingTrust(a, id) ==
    LET i == FindWithShipConnection(peers, a)
    IN  ~cancel /\ i # 0 /\ IF id = 0 THEN peers[i].is_trusted
                            ELSE HasPendingApproval(peers[i], a, id)

AcceptPendingTrust(a, id) ==
    LET i == FindWithShipConnection(peers, a)
    IN  IF id = 0 THEN UNCHANGED <<peers, approvals>>
        ELSE /\ peers' = [peers EXCEPT ![i].pending_approval_id = 0, ![i].is_trusted = TRUE,
                                       ![i].provisional = FALSE]
             /\ approvals' = [approvals EXCEPT !.accepted = @ \cup {[id |-> id, inc |-> conns[a].inc]}]

\* A trust decision is read: it counts in PENDING, is dropped before and after it, and ends a
\* connection that exchanges data.
ReadDecision(a) ==
    LET m == Head(conns[a].box)
        grants == m.granted /\ AcceptsPendingTrust(a, m.id)
        dropped == [conns EXCEPT ![a].box = Tail(@)]
    IN  /\ Runs(a) /\ conns[a].box # <<>>
        /\ CASE conns[a].phase = "pending" /\ grants ->
                    AcceptPendingTrust(a, m.id) /\ conns' = [dropped EXCEPT ![a].phase = "ready"]
             [] conns[a].phase = "data" \/ (conns[a].phase = "pending" /\ ~grants) ->
                    CloseConnection(a) /\ UNCHANGED approvals
             [] OTHER -> conns' = dropped /\ UNCHANGED <<peers, approvals>>
        /\ UNCHANGED <<queue, out, loop, server, pairing, stop, cancel, next_approval_id,
                       remote_fingerprint, mdns_entries, spine, made, count>>

\* SmeStateApproved installs the remote device, in place of an older one of that SKI ...
SetupRemoteDevice(a) ==
    /\ Runs(a) /\ conns[a].phase = "ready"
    /\ conns' = [conns EXCEPT ![a].phase = "approved"]
    /\ spine' = [spine EXCEPT ![conns[a].ski] = conns[a].inc]
    /\ UNCHANGED <<peers, queue, out, loop, server, pairing, stop, cancel, next_approval_id,
                   remote_fingerprint, mdns_entries, made, count, approvals>>

\* ... and enters data exchange, which the node notes for the peer with the connection's SKI.
HandleShipStateUpdate(a) ==
    LET i == FindWithSki(peers, conns[a].ski)
    IN  /\ Runs(a) /\ conns[a].phase = "approved"
        /\ conns' = [conns EXCEPT ![a].phase = "data"]
        /\ peers' = IF i = 0 THEN peers ELSE [peers EXCEPT ![i] = OnHandshakeComplete(@)]
        /\ UNCHANGED <<queue, out, loop, server, pairing, stop, cancel, next_approval_id,
                       remote_fingerprint, mdns_entries, spine, made, count, approvals>>

\* The access methods of the peer name its SHIP ID.
ReportServiceShipId(a, d) ==
    LET i == FindWithSki(peers, conns[a].ski)
    IN  /\ Runs(a) /\ conns[a].phase = "data" /\ d.ski = conns[a].ski
        /\ i # 0 /\ peers[i].ship_id = None
        /\ peers' = [peers EXCEPT ![i].ship_id = d.id]
        /\ UNCHANGED <<conns, queue, out, loop, server, pairing, stop, cancel, next_approval_id,
                       remote_fingerprint, mdns_entries, spine, made, count, approvals>>

-----------------------------------------------------------------------------
(* Retry timers.                                                           *)

RetryTimerFires(i) ==
    /\ peers[i].retry = "armed"
    /\ peers' = [peers EXCEPT ![i].retry = "expired", ![i].due = IF cancel THEN None ELSE peers[i].ski]
    /\ UNCHANGED <<conns, queue, out, loop, server, pairing, stop, cancel, next_approval_id,
                   remote_fingerprint, mdns_entries, spine, made, count, approvals>>

RetryTimerPosts(i) ==
    /\ Firing(peers[i]) /\ HasRoom
    /\ queue' = Append(queue, SkiMsg("RetryConnectionForSki", peers[i].due))
    /\ peers' = [peers EXCEPT ![i].due = None]
    /\ UNCHANGED <<conns, out, loop, server, pairing, stop, cancel, next_approval_id,
                   remote_fingerprint, mdns_entries, spine, made, count, approvals>>

-----------------------------------------------------------------------------
(* The connection loop. It holds a message from its receive to the end of  *)
(* the handler; a handler that leaves the mutex goes on at another place.  *)

others == <<out, server, pairing, stop, cancel, next_approval_id, remote_fingerprint,
            mdns_entries, count, approvals>>

Handles(type) == loop.at = "handle" /\ loop.msg.type = type
Goto(at) == loop' = [loop EXCEPT !.at = at]
Done == loop' = LoopIdle

LoopChecksCancel ==
    /\ loop.at = "idle"
    /\ Goto(IF cancel THEN "exit" ELSE "receive")
    /\ UNCHANGED <<peers, conns, queue, spine, made, others>>

LoopReceives ==
    /\ loop.at = "receive" /\ queue # <<>>
    /\ loop' = [loop EXCEPT !.at = "handle", !.msg = Head(queue)]
    /\ queue' = Tail(queue)
    /\ UNCHANGED <<peers, conns, spine, made, others>>

LoopIgnores ==
    /\ Handles("Cancel") /\ Done
    /\ UNCHANGED <<peers, conns, queue, spine, made, others>>

HandleMdnsEntriesFound ==
    /\ Handles("MdnsEntriesFound")
    /\ ConnectToAllPendingSkis
    /\ Done
    /\ UNCHANGED <<queue, spine, others>>

\* The last step of several handlers: dial the peer with the SKI at hand.
DialSki(ski) ==
    /\ ConnectToPendingSki(ski)
    /\ Done
    /\ UNCHANGED <<queue, spine, others>>
LoopDials == \/ loop.at = "dial" /\ DialSki(loop.ski)
             \/ Handles("RetryConnectionForSki") /\ DialSki(loop.msg.ski)

\* NODE_CONNECTION_CONTAINER_REMOVE stops the retry timer first.
RemovePeer(ps, i) == ~Firing(ps[i]) /\ peers' = RemoveAt(ps, i)

\* What becomes of a connection that is taken from peer i and is to be stopped.
Reap(a, ski, dial) == loop' = [loop EXCEPT !.at = "stop", !.sc = a, !.ski = ski, !.dial = dial]

\* A peer that was never trusted is forgotten with its connection.
Discarded(p) == p.provisional /\ ~p.is_trusted

CloseShipConnection ==
    LET i == FindWithShipConnection(peers, loop.msg.sc)
        p == peers[i]
        q == OnConnectionClosed(p)
        discard == Discarded(p)
        delayed == RetryDelay(q.attempt_cnt)
    IN  /\ Handles("ShipConnectionClosed")
        /\ \/ i = 0 /\ Done /\ UNCHANGED peers
           \/ /\ i # 0
              /\ CASE discard -> RemovePeer([peers EXCEPT ![i] = q], FindWithSki(peers, p.ski))
                   [] ~discard /\ ~cancel /\ delayed ->
                        ~Firing(p) /\ peers' = [peers EXCEPT ![i] = ScheduleRetry(q)]
                   [] OTHER -> peers' = [peers EXCEPT ![i] = q]
              /\ Reap(loop.msg.sc, p.ski, ~discard /\ ~delayed)
        /\ UNCHANGED <<conns, queue, spine, made, others>>

\* SHIP_CONNECTION_STOP joins the connection's thread, and closes what that has not closed.
LoopJoins ==
    LET a == loop.sc
    IN  /\ loop.at = "stop" /\ conns[a].busy = "no"
        /\ IF conns[a].st = "shut"
           THEN Goto("stopped") /\ UNCHANGED <<conns, peers>>
           ELSE /\ conns' = Shut(conns, a)
                /\ peers' = HandleConnectionClosed(a)
                /\ Goto(IF cancel THEN "stopped" ELSE "post")
        /\ UNCHANGED <<queue, spine, made, others>>

\* That close is posted by the loop itself.
LoopPosts ==
    /\ loop.at = "post" /\ HasRoom
    /\ queue' = Append(queue, ClosedMsg(loop.sc))
    /\ Goto("stopped")
    /\ UNCHANGED <<peers, conns, spine, made, others>>

\* ON_REMOTE_SKI_DISCONNECTED, which removes the remote device of the SKI, and the delete.
Disconnected(ski, a) ==
    /\ spine' = [spine EXCEPT ![ski] = 0]
    /\ conns' = [conns EXCEPT ![a] = Free]

LoopDeletes ==
    /\ loop.at = "stopped"
    /\ Disconnected(loop.ski, loop.sc)
    /\ CASE loop.dial /\ ~cancel -> loop' = [loop EXCEPT !.at = "dial", !.sc = None, !.dial = FALSE]
         [] loop.msg.type = "RevokePairingFingerprint" ->
              loop' = [loop EXCEPT !.at = "revoke", !.sc = None, !.ski = None]
         [] OTHER -> Done
    /\ UNCHANGED <<peers, queue, made, others>>

ShipNodeUnregisterSki ==
    LET i == FindWithSki(peers, loop.msg.ski)
    IN  /\ Handles("ShipUnregisterSki")
        /\ \/ i = 0 /\ Done /\ UNCHANGED peers
           \/ /\ i # 0 /\ RemovePeer(peers, i)
              /\ IF peers[i].connection = None THEN Done
                 ELSE Reap(peers[i].connection, peers[i].ski, FALSE)
        /\ UNCHANGED <<conns, queue, spine, made, others>>

ShipNodeRegisterSki ==
    LET ski == loop.msg.ski
        i == FindWithSki(peers, ski)
        ps == IF i = 0 THEN Append(peers, NodeConnection(ski)) ELSE peers
        k == IF i = 0 THEN Len(ps) ELSE i
    IN  /\ Handles("ShipRegisterSki")
        /\ peers' = [ps EXCEPT ![k].is_trusted = loop.msg.trust, ![k].provisional = FALSE,
                               ![k].pending_approval_id = 0]
        /\ loop' = [loop EXCEPT !.at = "dial", !.ski = ski]
        /\ UNCHANGED <<conns, queue, spine, made, others>>

ShipNodeCancelPairingSki ==
    LET i == FindWithSki(peers, loop.msg.ski)
    IN  /\ Handles("ShipCancelPairingSki")
        /\ peers' = Withdraw(peers, i)
        /\ CASE i # 0 /\ peers[i].provisional /\ peers[i].connection # None ->
                  loop' = [loop EXCEPT !.at = "abort", !.sc = peers[i].connection]
             [] i # 0 /\ peers[i].provisional /\ peers[i].connection = None -> Goto("remove")
             [] OTHER -> Done
        /\ UNCHANGED <<conns, queue, spine, made, others>>

\* A decision is put into the queue of the connection at a.
PostDecision(a, granted, id) ==
    conns' = IF conns[a].st = "shut" THEN conns
             ELSE [conns EXCEPT ![a].box = Append(@, [granted |-> granted, id |-> id])]

LoopAborts ==
    /\ loop.at = "abort"
    /\ PostDecision(loop.sc, FALSE, 0)
    /\ Done
    /\ UNCHANGED <<peers, queue, spine, made, others>>

\* The peer without a connection is removed in a second section, found by its SKI again.
LoopRemoves ==
    LET i == FindWithSki(peers, loop.msg.ski)
    IN  /\ loop.at = "remove"
        /\ IF i = 0 THEN UNCHANGED peers ELSE RemovePeer(peers, i)
        /\ Done
        /\ UNCHANGED <<conns, queue, spine, made, others>>

ShipNodeApprovePendingHandshake ==
    LET m == loop.msg
        i == FindWithShipConnection(peers, m.sc)
        current == i # 0 /\ HasPendingApproval(peers[i], m.sc, m.id)
    IN  /\ Handles("ApprovePendingSki")
        /\ IF current THEN loop' = [loop EXCEPT !.at = "approve", !.sc = m.sc] ELSE Done
        /\ UNCHANGED <<peers, conns, queue, spine, made, others>>

LoopApproves ==
    /\ loop.at = "approve"
    /\ PostDecision(loop.sc, TRUE, loop.msg.id)
    /\ Done
    /\ UNCHANGED <<peers, queue, spine, made, others>>

ShipNodePromoteFingerprint ==
    /\ Handles("PromoteFingerprint")
    /\ loop' = [loop EXCEPT !.at = "promote", !.i = 1, !.n = Len(peers)]
    /\ UNCHANGED <<peers, conns, queue, spine, made, others>>

LoopPromotes ==
    LET p == peers[loop.i]
        promote == p.connection # None /\ FingerprintMatches(p.peer_fingerprint, remote_fingerprint)
    IN  /\ loop.at = "promote"
        /\ IF loop.i > loop.n
           THEN Done /\ UNCHANGED <<peers, conns>>
           ELSE /\ loop' = [loop EXCEPT !.i = @ + 1]
                /\ IF promote
                   THEN /\ peers' = [peers EXCEPT ![loop.i].is_trusted = TRUE,
                                                  ![loop.i].provisional = FALSE,
                                                  ![loop.i].trusted_by_pairing = TRUE,
                                                  ![loop.i].expected_fingerprint = remote_fingerprint]
                        /\ PostDecision(p.connection, TRUE, 0)
                   ELSE UNCHANGED <<peers, conns>>
        /\ UNCHANGED <<queue, spine, made, others>>

ShipNodeRevokePairingFingerprint ==
    /\ Handles("RevokePairingFingerprint")
    /\ loop' = [loop EXCEPT !.at = "revoke", !.i = 1]
    /\ UNCHANGED <<peers, conns, queue, spine, made, others>>

LoopRevokes ==
    LET p == peers[loop.i]
        revoked == p.trusted_by_pairing /\ FingerprintMatches(p.expected_fingerprint, loop.msg.ski)
    IN  /\ loop.at = "revoke"
        /\ \/ loop.i > Len(peers) /\ Done /\ UNCHANGED peers
           \/ /\ loop.i <= Len(peers) /\ ~revoked
              /\ loop' = [loop EXCEPT !.i = @ + 1] /\ UNCHANGED peers
           \/ /\ loop.i <= Len(peers) /\ revoked
              /\ RemovePeer(peers, loop.i)
              /\ IF p.connection = None THEN UNCHANGED loop ELSE Reap(p.connection, p.ski, FALSE)
        /\ UNCHANGED <<conns, queue, spine, made, others>>

-----------------------------------------------------------------------------
(* Stop.                                                                   *)

StopBegins ==
    /\ "stop" \in Calls /\ stop.at = "no"
    /\ cancel' = TRUE
    /\ stop' = [stop EXCEPT !.at = "send"]
    /\ UNCHANGED <<peers, conns, queue, out, loop, server, pairing, next_approval_id,
                   remote_fingerprint, mdns_entries, spine, made, count, approvals>>

StopSends ==
    /\ stop.at = "send" /\ HasRoom
    /\ queue' = Append(queue, Msg("Cancel"))
    /\ stop' = [stop EXCEPT !.at = "join"]
    /\ UNCHANGED <<peers, conns, out, loop, server, pairing, cancel, next_approval_id,
                   remote_fingerprint, mdns_entries, spine, made, count, approvals>>

\* Mutant: the loop's thread is not joined.
StopJoinsNothing ==
    /\ stop.at = "join"
    /\ stop' = [stop EXCEPT !.at = "each", !.i = 1]
    /\ UNCHANGED <<peers, conns, queue, out, loop, server, pairing, cancel, next_approval_id,
                   remote_fingerprint, mdns_entries, spine, made, count, approvals>>

StopJoinsLoop ==
    /\ stop.at = "join" /\ loop.at = "exit"
    /\ stop' = [stop EXCEPT !.at = "each", !.i = 1]
    /\ UNCHANGED <<peers, conns, queue, out, loop, server, pairing, cancel, next_approval_id,
                   remote_fingerprint, mdns_entries, spine, made, count, approvals>>

StopReleases ==
    LET p == peers[stop.i]
    IN  /\ stop.at = "each" /\ stop.i <= Len(peers) /\ ~Firing(p)
        /\ peers' = [peers EXCEPT ![stop.i] = [ReleaseShipConnection(p) EXCEPT !.retry = "off"]]
        /\ stop' = IF p.connection = None THEN [stop EXCEPT !.i = @ + 1]
                   ELSE [stop EXCEPT !.at = "conn", !.sc = p.connection]
        /\ UNCHANGED <<conns, queue, out, loop, server, pairing, cancel, next_approval_id,
                       remote_fingerprint, mdns_entries, spine, made, count, approvals>>

StopDeletes ==
    /\ stop.at = "conn" /\ conns[stop.sc].busy = "no"
    /\ Disconnected(conns[stop.sc].ski, stop.sc)
    /\ stop' = [at |-> "each", i |-> stop.i + 1, sc |-> None]
    /\ UNCHANGED <<peers, queue, out, loop, server, pairing, cancel, next_approval_id,
                   remote_fingerprint, mdns_entries, made, count, approvals>>

StopLeavesLoop ==
    /\ stop.at = "each" /\ stop.i > Len(peers)
    /\ stop' = [stop EXCEPT !.at = "servers"]
    /\ UNCHANGED <<peers, conns, queue, out, loop, server, pairing, cancel, next_approval_id,
                   remote_fingerprint, mdns_entries, spine, made, count, approvals>>

\* SHIP_MDNS_STOP and HTTP_SERVER_STOP wait for the callbacks of their threads.
StopEnds ==
    /\ stop.at = "servers"
    /\ server = None /\ pairing = None /\ Idle("mdns") /\ Idle("pairing")
    /\ stop' = [stop EXCEPT !.at = "done"]
    /\ UNCHANGED <<peers, conns, queue, out, loop, server, pairing, cancel, next_approval_id,
                   remote_fingerprint, mdns_entries, spine, made, count, approvals>>

-----------------------------------------------------------------------------
Application ==
    \/ \E s \in Skis :
        \/ \E t \in BOOLEAN : RegisterRemoteSki(s, t)
        \/ UnregisterRemoteSki(s) \/ CancelPairingWithSki(s) \/ ApprovePendingHandshakeWithSki(s)
    \/ \E f \in Fps \cup {None} : RegisterFingerprint(f)
    \/ \E d \in Devices : RegisterRemoteFingerprintWithShipId(d)

Browser ==
    \/ \E found \in UNION {SetToSeqs(ds) : ds \in SUBSET Devices} : OnMdnsEntriesFound(found)
    \/ \E d \in Devices : PairingRequestAccepted(d)
    \/ PairingRegistersPeer

Server == (\E d \in Devices : ServerAccept(d)) \/ OnWebsocketServerConnection

ConnectionThread(a) ==
    \/ Hello(a) \/ ConnectionEnds(a) \/ PostConnectionClose(a) \/ ReadDecision(a)
    \/ SetupRemoteDevice(a) \/ HandleShipStateUpdate(a)
    \/ \E d \in Devices : ReportServiceShipId(a, d)

RetryTimer(i) == RetryTimerFires(i) \/ RetryTimerPosts(i)

ConnectionLoop ==
    \/ LoopChecksCancel \/ LoopReceives \/ LoopIgnores \/ HandleMdnsEntriesFound \/ LoopDials
    \/ CloseShipConnection \/ LoopJoins \/ LoopPosts \/ LoopDeletes
    \/ ShipNodeUnregisterSki \/ ShipNodeRegisterSki
    \/ ShipNodeCancelPairingSki \/ LoopAborts \/ LoopRemoves
    \/ ShipNodeApprovePendingHandshake \/ LoopApproves
    \/ ShipNodePromoteFingerprint \/ LoopPromotes
    \/ ShipNodeRevokePairingFingerprint \/ LoopRevokes

StopCaller ==
    StopBegins \/ StopSends \/ StopJoinsLoop \/ StopReleases \/ StopDeletes
        \/ StopLeavesLoop \/ StopEnds

Next ==
    \/ Application \/ Browser \/ Server \/ ConnectionLoop \/ StopCaller
    \/ \E t \in Threads : Send(t)
    \/ \E a \in Addrs : ConnectionThread(a)
    \/ \E i \in DOMAIN peers : RetryTimer(i)

Spec == Init /\ [][Next /\ UNCHANGED config]_<<vars, config>>

\* Every thread goes on. The network, the application and the peers need not do anything, and
\* a timer that is armed fires.
Fairness ==
    /\ WF_vars(ConnectionLoop)
    /\ WF_vars(PairingRegistersPeer) /\ WF_vars(OnWebsocketServerConnection)
    /\ \A t \in Threads : WF_vars(Send(t))
    /\ \A a \in Addrs : WF_vars(PostConnectionClose(a)) /\ WF_vars(ReadDecision(a))
    /\ \A i \in 1..2 * Cardinality(AllDevices) :
         WF_vars(i \in DOMAIN peers /\ RetryTimer(i))
    /\ WF_vars(StopSends \/ StopJoinsLoop \/ StopReleases \/ StopDeletes
        \/ StopLeavesLoop \/ StopEnds)

LiveSpec == Spec /\ Fairness

-----------------------------------------------------------------------------
(* Properties.                                                             *)

\* The messages that some thread has yet to send, that are queued or that are being handled.
InFlight ==
    Range(queue) \cup (UNION {Range(out[t]) : t \in Threads})
      \cup (IF loop.at \in {"idle", "receive", "exit"} THEN {} ELSE {loop.msg})

TypeOK ==
    /\ peers \in Seq(Peer)
    /\ conns \in [Addrs -> Connection]
    /\ queue \in Seq(Message) /\ Len(queue) <= QueueSize
    /\ out \in [Threads -> Seq(Message)]
    /\ loop \in Loops
    /\ server \in Devices \cup {None} /\ pairing \in Devices \cup {None}
    /\ stop \in Stops
    /\ cancel \in BOOLEAN
    /\ next_approval_id \in Nat
    /\ remote_fingerprint \in Fps \cup {None}
    /\ mdns_entries \in Seq(Devices)
    /\ spine \in [Skis -> Nat]
    /\ made \in Nat
    /\ count \in [{"closes", "accepts", "calls", "browse"} -> Nat]
    /\ approvals \in [given : Seq(Nat), withdrawn : SUBSET Nat, accepted : SUBSET [id : Nat, inc : Nat]]

\* The thread that is going to delete the connection at a.
Reaper(a) == {t \in {"loop", "stop"} :
                 \/ t = "loop" /\ loop.at \in {"stop", "post", "stopped"} /\ loop.sc = a
                 \/ t = "stop" /\ stop.at = "conn" /\ stop.sc = a}

\* Every connection has one owner: the one peer that holds it, or the one thread that has
\* taken it from its peer to stop and delete it. So none is deleted twice, none is used after
\* its delete and none is left behind. (The exception: where fingerprints are replaced, the
\* removal of a cancelled peer may hit one that has connected meanwhile, see the README.)
ConnectionsOwned ==
    ~("cancel" \in Calls /\ Calls \cap {"pairing", "fingerprint"} # {}) => \A a \in Addrs :
        Cardinality({i \in DOMAIN peers : peers[i].connection = a}) + Cardinality(Reaper(a))
            = IF conns[a].st = "free" THEN 0 ELSE 1

\* A connection the loop posts a decision to has not been deleted since the loop looked it up.
DecisionReachesLive ==
    loop.at \in {"approve", "abort"} => conns[loop.sc].st # "free"

\* "The decision targets the connection active when this method is called. Trust is committed
\* only if that connection accepts the decision" (ship_node_interface.h): an approval is
\* accepted by the connection it was given for, whatever is at its address by then, and never
\* after the application took it back.
ApprovalTargetsConnection ==
    [][\A x \in approvals'.accepted \ approvals.accepted :
          approvals.given[x.id] = x.inc /\ x.id \notin approvals.withdrawn]_vars

\* "a provisionally accepted SKI is dropped whenever its connection closes without having
\* been trusted" (post_trust.md): a provisional peer is not trusted and has a connection; one
\* whose pairing was withdrawn may have lost it, and is then about to be revoked.
ProvisionalDropped ==
    \A i \in DOMAIN peers : peers[i].provisional /\ ~cancel =>
        /\ ~peers[i].is_trusted
        /\ \/ peers[i].connection # None
           \/ \E m \in InFlight : /\ m.type = "RevokePairingFingerprint"
                                  /\ m.ski = peers[i].expected_fingerprint

\* No wakeup is lost: a peer that could be dialled and is not has a message or a timer
\* that makes the loop dial it.
WillDial(p) ==
    \/ p.retry = "armed" \/ Firing(p)
    \/ loop.ski = p.ski /\ (loop.at = "dial" \/ loop.dial)
    \/ \E m \in InFlight : \/ m.type = "MdnsEntriesFound"
                           \/ m.type \in {"RetryConnectionForSki", "ShipRegisterSki"} /\ m.ski = p.ski
CouldDial(p) ==
    /\ ClientSupported /\ ~cancel /\ ~p.is_attempt_running
    /\ FindServiceForPeer(p) # 0 /\ ~Taken(peers, p, mdns_entries[FindServiceForPeer(p)])
NoLostWakeup == \A i \in DOMAIN peers : CouldDial(peers[i]) => WillDial(peers[i])

\* A peer from which trust was withdrawn by a newer pairing request does not keep a connection
\* past the hello phase: its revocation is on its way. (An application that registers a SKI as
\* not trusted withdraws nothing: RegisterRemoteSki leaves the connection alone.)
RevokedIsDisconnected ==
    "distrust" \notin Calls => \A i \in DOMAIN peers :
        LET p == peers[i] IN
        /\ ~p.is_trusted /\ p.connection # None
        /\ conns[p.connection].st = "run" /\ conns[p.connection].phase \in {"ready", "approved", "data"}
        => \E m \in InFlight : m.type = "RevokePairingFingerprint" /\ m.ski = p.expected_fingerprint

\* handshake_complete describes the connection the peer has now, and no earlier one.
CompleteIsCurrent ==
    \A i \in DOMAIN peers : peers[i].handshake_complete /\ ~cancel =>
        peers[i].connection # None /\ conns[peers[i].connection].phase = "data"

\* "The SHIP Pairing Service permits one current devZ" (ship_node.c): a peer that is trusted by
\* an older pairing request than the current one is about to be revoked. (An application that
\* registers a fingerprint with a SHIP ID itself gives the peer another fingerprint, and the
\* peer still counts as trusted by pairing; and one that registers a fingerprint between the two
\* sections of a pairing request replaces that request before its peer is there.)
OneCurrentPairing ==
    "peer" \notin Calls /\ ~({"pairing", "fingerprint"} \subseteq Calls) => \A i \in DOMAIN peers :
        LET p == peers[i] IN
        p.is_trusted /\ p.trusted_by_pairing =>
            \/ p.expected_fingerprint = remote_fingerprint
            \/ \E m \in InFlight : m.type = "RevokePairingFingerprint" /\ m.ski = p.expected_fingerprint

\* "Scan by pointer identity ... safe even for dangling pointers from a double-close event on a
\* superseded connection" (ship_node.c): what the loop stops for a close message is the
\* connection that close was about.
CloseHitsItsConnection ==
    loop.at \in {"stop", "post", "stopped"} /\ loop.msg.type = "ShipConnectionClosed" =>
        loop.msg.inc = conns[loop.sc].inc

\* An approval that blocks further ones is still to be decided upon: its message is on its way
\* or it is in the queue of its connection.
ApprovalStillOpen ==
    \A i \in DOMAIN peers :
        LET p == peers[i] IN
        p.pending_approval_id # 0 =>
            \/ \E m \in InFlight : m.type = "ApprovePendingSki" /\ m.id = p.pending_approval_id
            \/ \E m \in Range(conns[p.connection].box) : m.id = p.pending_approval_id

\* "Stop all active connections so Destruct never encounters a live connection" (ship_node.c).
StopLeavesNoConnection == stop.at = "done" => \A a \in Addrs : conns[a].st = "free"

\* The loop never waits for room in the queue that only it empties: neither in its own post
\* nor for the thread of a connection or a timer that sleeps there.
LoopNeverWaitsForItself ==
    ~HasRoom => /\ loop.at # "post"
                /\ loop.at = "stop" => conns[loop.sc].busy = "no"

\* "Guard against reconnect before the previous disconnect fires" (device_local.c): a peer
\* whose connection exchanges data has its remote device, and not that of another connection.
DataHasRemoteDevice ==
    \A i \in DOMAIN peers :
        LET a == peers[i].connection IN
        a # None /\ conns[a].st = "run" /\ conns[a].phase = "data" => spine[conns[a].ski] = conns[a].inc

\* A peer whose service is visible and that has no connection is dialled, forgotten or becomes
\* invisible: after a close, however often it happened, the retry comes.
Redialled ==
    \A s \in {d.ski : d \in AllDevices} :
        LET waits == \E i \in DOMAIN peers : peers[i].ski = s /\ CouldDial(peers[i])
        IN  waits ~> ~waits

\* A connection that has been shut is deleted as long as the node runs: the close of every
\* thread reaches the loop.
ShutIsDeleted == \A a \in Addrs : conns[a].st = "shut" ~> conns[a].st = "free" \/ cancel

\* Stop returns.
StopReturns == stop.at = "send" ~> stop.at = "done"

\* No two devices have a SKI, a SHIP ID or a fingerprint in common.
DevicesDiffer ==
    \A d, e \in Devices : d.ski = e.ski \/ d.id = e.id \/ d.fp = e.fp => d = e

\* The table of peers keeps up with the connections: a provisional peer goes with its connection,
\* and a peer that could be dialled is going to be, as long as connections start, no pairing
\* request makes a peer one that is about to be revoked, and no peer is known by a SHIP ID whose
\* service has the SKI of another peer: when that one is removed nobody dials for it.
PeersTracked ==
    /\ ProvisionalDropped
    /\ ~MayFail /\ Calls \cap {"pairing", "peer"} = {} /\ DevicesDiffer => NoLostWakeup

\* What the loop and the callbacks know of a connection is about the one that is there: a
\* decision goes to a connection that has not been deleted, and a handshake that is marked as
\* complete is that of the present connection. (Where the loop stops connections that are
\* running, the thread of one may complete its handshake after its peer has lost it.)
ConnectionIsCurrent ==
    /\ DecisionReachesLive
    /\ Calls \cap {"unregister", "pairing", "fingerprint"} = {} => CompleteIsCurrent

\* A peer that lost its connection is dialled again, a connection that was shut is deleted, and
\* Stop returns.
NodeSettles == Redialled /\ ShutIsDeleted /\ StopReturns
=============================================================================
