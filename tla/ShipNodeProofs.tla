-------------------------- MODULE ShipNodeProofs --------------------------
(***************************************************************************)
(* Proofs about the SHIP node, for every set of devices, queue size and    *)
(* bound: type correctness, and that every connection has one owner, the   *)
(* peer that has it, the loop that took it to delete it, or Stop.          *)
(*                                                                         *)
(* Core is the inductive invariant. Types are not enough for ownership:    *)
(* the table must give no SKI and no connection to two peers (Table), what *)
(* a place of the loop or of Stop says of a connection must be so          *)
(* (Threading, LoopInv), and a provisional peer must have a connection, or *)
(* its removal could leave one behind (Provisionals). The steps of the     *)
(* threads around the loop are Sound: they leave connections where they    *)
(* are or give a peer a new one. A dial of several peers is a recursive    *)
(* function, shown to be a loop over the peers in DialledLoop.             *)
(*                                                                         *)
(* What the node does with trust is in ShipNodeTrustProofs.                *)
(***************************************************************************)
EXTENDS ShipNode, DataInduction, SequenceTheorems, FiniteSetTheorems

(* The messages that can be under way, given the calls that are used.      *)
Allowed ==
    {m \in Message :
        /\ m.type = "ShipConnectionClosed" => m.sc \in Addrs
        /\ m.type = "ShipUnregisterSki" => "unregister" \in Calls
        /\ m.type = "ShipCancelPairingSki" => "cancel" \in Calls
        /\ m.type = "ShipRegisterSki" /\ ~m.trust => "distrust" \in Calls
        /\ m.type = "RevokePairingFingerprint" => Calls \cap {"pairing", "fingerprint"} # {}}

(* The types of the variables, of the messages a little more than TypeOK.  *)
TypeInv ==
    /\ config \in Configs
    /\ peers \in Seq(Peer)
    /\ conns \in [Addrs -> Connection]
    /\ queue \in Seq(Allowed) /\ Len(queue) <= QueueSize
    /\ out \in [Threads -> Seq(Allowed)]
    /\ loop \in Loops /\ loop.msg \in Allowed
    /\ server \in Devices \cup {None} /\ pairing \in Devices \cup {None}
    /\ stop \in Stops
    /\ cancel \in BOOLEAN
    /\ next_approval_id \in Nat
    /\ remote_fingerprint \in Fps \cup {None}
    /\ mdns_entries \in Seq(Devices)
    /\ spine \in [Skis -> Nat]
    /\ made \in Nat
    /\ count \in [{"closes", "accepts", "calls", "browse"} -> Nat]
    /\ approvals \in [given : Seq(Nat), withdrawn : SUBSET Nat, accepted : SUBSET [id : Nat, inc : Nat]]

-----------------------------------------------------------------------------
(* The table of peers: no SKI and no connection belongs to two of them,    *)
(* and a peer with a connection is one for which an attempt runs.          *)
Table(ps, cs) ==
    /\ \A i, j \in 1..Len(ps) : ps[i].ski = ps[j].ski /\ ps[i].ski # None => i = j
    /\ \A i, j \in 1..Len(ps) : ps[i].connection = ps[j].connection /\ ps[i].connection # None => i = j
    /\ \A i \in 1..Len(ps) : ps[i].connection # None =>
          /\ ps[i].is_attempt_running /\ ps[i].ski # None
          /\ cs[ps[i].connection].st # "free" /\ cs[ps[i].connection].ski = ps[i].ski

(* A peer has the connection at a.                                         *)
Held(ps, a) == \E i \in 1..Len(ps) : ps[i].connection = a

(* A connection that a thread has taken from its peer to delete it.        *)
Taking(ps, cs, a) == a \in Addrs /\ cs[a].st # "free" /\ ~Held(ps, a)

(* The loop has a connection in its hands.                                 *)
Reaping(lp) == lp.at \in {"stop", "post", "stopped"}

(* The loop deletes no connection once Stop has joined it.                 *)
Threading(ps, cs, lp, sp) ==
    /\ Reaping(lp) => Taking(ps, cs, lp.sc)
    /\ sp.at = "conn" => Taking(ps, cs, sp.sc)
    /\ lp.at \in {"approve", "abort"} => lp.sc \in Addrs /\ cs[lp.sc].st # "free"
    /\ sp.at \in {"each", "conn", "servers", "done"} => lp.at = "exit"
    /\ sp.at # "no" \/ lp.at = "exit" => cancel

(* The calls with which a peer that is removed may have a connection.      *)
Leaks == "cancel" \in Calls /\ Calls \cap {"pairing", "fingerprint"} # {}

(* No connection is left behind.                                           *)
Owned(ps, cs, lp, sp) ==
    \A a \in Addrs : cs[a].st # "free" =>
        Held(ps, a) \/ (Reaping(lp) /\ lp.sc = a) \/ (sp.at = "conn" /\ sp.sc = a)

(* A message that revokes the pairing with fingerprint fp.                 *)
Revokes(m, fp) == m.type = "RevokePairingFingerprint" /\ m.ski = fp
(* What the places of the loop say of its locals.                          *)
LoopInv ==
    /\ loop.dial => Reaping(loop) /\ loop.msg.type = "ShipConnectionClosed"
    /\ loop.at = "remove" => loop.msg.type = "ShipCancelPairingSki"
    /\ loop.at = "revoke" => loop.msg.type = "RevokePairingFingerprint" /\ loop.i # 0
    /\ loop.at = "promote" => loop.i # 0 /\ loop.n <= Len(peers)
    /\ loop.at = "dial" => \/ loop.msg.type = "ShipConnectionClosed"
                           \/ loop.msg.type = "ShipRegisterSki" /\ loop.ski = loop.msg.ski
    /\ Reaping(loop) => loop.msg.type \in {"ShipConnectionClosed", "ShipUnregisterSki",
                                           "RevokePairingFingerprint"}
    /\ Reaping(loop) /\ loop.msg.type = "RevokePairingFingerprint" => loop.i # 0
    /\ stop.at = "each" => stop.i # 0
    /\ ~Leaks => loop.at # "remove"

-----------------------------------------------------------------------------
(* What is found, and what the table becomes.                              *)

(* Min of a set of indices.                                                *)
LEMMA MinFields ==
    ASSUME NEW T \in SUBSET Nat, T # {}
    PROVE  Min(T) \in T /\ \A n \in T : Min(T) <= n
  BY LeastNumber DEF Min

(* NODE_CONNECTION_CONTAINER_FIND_WITH_SKI finds a peer with the SKI, if   *)
(* there is one,                                                           *)
LEMMA SkiFields ==
    ASSUME NEW ps, Len(ps) \in Nat, NEW s
    PROVE  LET i == FindWithSki(ps, s)
           IN  \/ i = 0 /\ \A j \in 1..Len(ps) : s = None \/ ps[j].ski # s
               \/ i \in 1..Len(ps) /\ ps[i].ski = s /\ s # None
<1> DEFINE T == {j \in 1..Len(ps) : ps[j].ski = s}
<1>1. FindWithSki(ps, s) = IF s = None THEN 0 ELSE IF T # {} THEN Min(T) ELSE 0
  BY DEF FindWithSki, SelectInSeq
<1>2. T # {} => Min(T) \in T
  <2>1. T \in SUBSET Nat
    OBVIOUS
  <2> HIDE DEF T
  <2> QED
    BY <2>1, MinFields
<1> QED
  BY <1>1, <1>2

(* with a connection,                                                      *)
LEMMA HolderFields ==
    ASSUME NEW ps, Len(ps) \in Nat, NEW a
    PROVE  LET i == FindWithShipConnection(ps, a)
           IN  \/ i = 0 /\ \A j \in 1..Len(ps) : a = None \/ ps[j].connection # a
               \/ i \in 1..Len(ps) /\ ps[i].connection = a /\ a # None
<1> DEFINE T == {j \in 1..Len(ps) : ps[j].connection = a}
<1>1. FindWithShipConnection(ps, a) = IF a = None THEN 0 ELSE IF T # {} THEN Min(T) ELSE 0
  BY DEF FindWithShipConnection, SelectInSeq
<1>2. T # {} => Min(T) \in T
  <2>1. T \in SUBSET Nat
    OBVIOUS
  <2> HIDE DEF T
  <2> QED
    BY <2>1, MinFields
<1> QED
  BY <1>1, <1>2

(* with a fingerprint or a SHIP ID,                                        *)
LEMMA FingerprintFields ==
    ASSUME NEW ps, Len(ps) \in Nat, NEW fp
    PROVE  LET i == FindWithFingerprint(ps, fp)
           IN  i = 0 \/ (i \in 1..Len(ps) /\ ps[i].is_trusted /\ ps[i].expected_fingerprint = fp /\ fp # None)
<1> DEFINE T == {j \in 1..Len(ps) : ps[j].is_trusted /\ ps[j].expected_fingerprint = fp}
<1>1. FindWithFingerprint(ps, fp) = IF fp = None THEN 0 ELSE IF T # {} THEN Min(T) ELSE 0
  BY DEF FindWithFingerprint, SelectInSeq
<1>2. T # {} => Min(T) \in T
  <2>1. T \in SUBSET Nat
    OBVIOUS
  <2> HIDE DEF T
  <2> QED
    BY <2>1, MinFields
<1> QED
  BY <1>1, <1>2

(* The fields of a peer that gets a SHIP ID.                               *)
LEMMA IdFields ==
    ASSUME NEW ps, Len(ps) \in Nat, NEW id
    PROVE  FindWithShipId(ps, id) \in 0..Len(ps)
<1> DEFINE T == {j \in 1..Len(ps) : ps[j].ship_id = id}
<1>1. FindWithShipId(ps, id) = IF T # {} THEN Min(T) ELSE 0
  BY DEF FindWithShipId, SelectInSeq
<1>2. T # {} => Min(T) \in T
  <2>1. T \in SUBSET Nat
    OBVIOUS
  <2> HIDE DEF T
  <2> QED
    BY <2>1, MinFields
<1> QED
  BY <1>1, <1>2

(* and the service of a peer among the entries.                            *)
LEMMA ServiceFields ==
    ASSUME NEW p, Len(mdns_entries) \in Nat
    PROVE  LET i == FindServiceForPeer(p)
               fits(d) == IF p.ship_id # None /\ p.expected_fingerprint # None
                          THEN d.id = p.ship_id ELSE d.ski = p.ski
           IN  \/ i = 0 /\ (cancel \/ \A j \in 1..Len(mdns_entries) : ~fits(mdns_entries[j]))
               \/ i \in 1..Len(mdns_entries) /\ ~cancel /\ fits(mdns_entries[i])
<1> DEFINE fits(d) == IF p.ship_id # None /\ p.expected_fingerprint # None
                      THEN d.id = p.ship_id ELSE d.ski = p.ski
           T == {j \in 1..Len(mdns_entries) : fits(mdns_entries[j])}
<1>1. FindServiceForPeer(p) = IF cancel THEN 0 ELSE IF T # {} THEN Min(T) ELSE 0
  BY DEF FindServiceForPeer, SelectInSeq
<1>2. T # {} => Min(T) \in T
  <2>1. T \in SUBSET Nat
    OBVIOUS
  <2> HIDE DEF T
  <2> QED
    BY <2>1, MinFields
<1> QED
  BY <1>1, <1>2

(* The table with q as its k-th peer, which is new or was there.           *)
Put(ps, qs, k, q) ==
    /\ k \in 1..(Len(ps) + 1) /\ q \in Peer
    /\ qs \in Seq(Peer) /\ Len(qs) = IF k <= Len(ps) THEN Len(ps) ELSE k
    /\ \A j \in 1..Len(qs) : qs[j] = IF j = k THEN q ELSE ps[j]

(* The table without its k-th peer.                                        *)
Cut(ps, qs, k) ==
    /\ k \in 1..Len(ps)
    /\ qs \in Seq(Peer) /\ Len(qs) = Len(ps) - 1
    /\ \A j \in 1..Len(qs) : qs[j] = IF j < k THEN ps[j] ELSE ps[j + 1]

(* A peer that is changed in its place,                                    *)
LEMMA EditPut ==
    ASSUME NEW ps \in Seq(Peer), NEW k \in 1..Len(ps), NEW q \in Peer
    PROVE  Put(ps, [ps EXCEPT ![k] = q], k, q)
<1>1. Len(ps) \in Nat /\ k \in 1..(Len(ps) + 1) /\ k <= Len(ps)
  BY LenProperties
<1>2. /\ [ps EXCEPT ![k] = q] \in Seq(Peer) /\ Len([ps EXCEPT ![k] = q]) = Len(ps)
      /\ \A j \in 1..Len(ps) : [ps EXCEPT ![k] = q][j] = IF j = k THEN q ELSE ps[j]
  BY ExceptSeq
<1> QED
  BY <1>1, <1>2 DEF Put

(* one that is added,                                                      *)
LEMMA AppendPut ==
    ASSUME NEW ps \in Seq(Peer), NEW q \in Peer
    PROVE  Put(ps, Append(ps, q), Len(ps) + 1, q)
<1>1. Len(ps) \in Nat /\ Len(ps) + 1 \in 1..(Len(ps) + 1) /\ ~(Len(ps) + 1 <= Len(ps))
  BY LenProperties
<1>2. /\ Append(ps, q) \in Seq(Peer) /\ Len(Append(ps, q)) = Len(ps) + 1
      /\ \A j \in 1..Len(ps) : Append(ps, q)[j] = ps[j]
      /\ Append(ps, q)[Len(ps) + 1] = q
  BY AppendProperties
<1>3. \A j \in 1..(Len(ps) + 1) : j = Len(ps) + 1 \/ (j \in 1..Len(ps) /\ j # Len(ps) + 1)
  BY <1>1
<1> QED
  BY <1>1, <1>2, <1>3 DEF Put

(* and one that is removed.                                                *)
LEMMA RemoveCut ==
    ASSUME NEW ps \in Seq(Peer), NEW k \in 1..Len(ps)
    PROVE  Cut(ps, RemoveAt(ps, k), k)
<1>1. /\ RemoveAt(ps, k) \in Seq(Peer) /\ Len(RemoveAt(ps, k)) = Len(ps) - 1
      /\ \A j \in 1..(Len(ps) - 1) : RemoveAt(ps, k)[j] = IF j < k THEN ps[j] ELSE ps[j + 1]
  BY RemoveAtIndices
<1> QED
  BY <1>1 DEF Cut

-----------------------------------------------------------------------------
(* Types.                                                                  *)

(* The configuration stays, and the sets that depend on it.                *)
LEMMA ConfigSame ==
    ASSUME config' = config
    PROVE  /\ Devices' = Devices /\ Skis' = Skis /\ Fps' = Fps /\ Ids' = Ids /\ Calls' = Calls
           /\ Peer' = Peer /\ Connection' = Connection /\ Allowed' = Allowed /\ Loops' = Loops
           /\ QueueSize' = QueueSize /\ MayFail' = MayFail /\ Leaks' = Leaks
           /\ DevicesDiffer' = DevicesDiffer
<1>1. Devices' = Devices /\ Calls' = Calls /\ QueueSize' = QueueSize /\ MayFail' = MayFail
  BY DEF Devices, Calls, QueueSize, MayFail
<1>2. Skis' = Skis /\ Fps' = Fps /\ Ids' = Ids
  BY <1>1 DEF Skis, Fps, Ids
<1>3. Message' = Message
  BY <1>2 DEF Message
<1> QED
  BY <1>1, <1>2, <1>3 DEF Peer, Connection, Allowed, Loops, Leaks, DevicesDiffer

(* NULL is no SKI, no SHIP ID, no fingerprint and no address.              *)
LEMMA NoneIsNone ==
    ASSUME config \in Configs
    PROVE  None \notin Skis /\ None \notin Ids /\ None \notin Fps /\ None \notin Addrs
  BY ConfigAssumption, NodeAssumption DEF Devices, Skis, Ids, Fps

(* A device that is new in the table,                                      *)
LEMMA NewPeer ==
    ASSUME NEW s \in Skis \cup {None}
    PROVE  /\ NodeConnection(s) \in Peer
           /\ NodeConnection(s).ski = s /\ NodeConnection(s).connection = None
           /\ NodeConnection(s).pending_approval_id = 0
           /\ ~NodeConnection(s).is_attempt_running /\ ~NodeConnection(s).handshake_complete
           /\ ~NodeConnection(s).is_trusted /\ ~NodeConnection(s).provisional
           /\ ~NodeConnection(s).trusted_by_pairing
           /\ NodeConnection(s).ship_id = None /\ NodeConnection(s).expected_fingerprint = None
           /\ NodeConnection(s).peer_fingerprint = None
  BY DEF NodeConnection, Peer

(* messages,                                                               *)
LEMMA MsgTyped ==
    /\ \A t \in MsgTypes \ {"ShipConnectionClosed", "ShipUnregisterSki", "ShipCancelPairingSki",
                             "ShipRegisterSki", "RevokePairingFingerprint"} :
          /\ Msg(t) \in Allowed /\ Msg(t).type = t
          /\ \A s \in Skis : SkiMsg(t, s) \in Allowed /\ SkiMsg(t, s).type = t /\ SkiMsg(t, s).ski = s
  BY ZenonT(60) DEF Msg, SkiMsg, Allowed, Message, MsgTypes

(* The messages of the calls,                                              *)
LEMMA CallMsgs ==
    ASSUME NEW s \in Skis
    PROVE  /\ \A b \in BOOLEAN : b \/ "distrust" \in Calls =>
                 [SkiMsg("ShipRegisterSki", s) EXCEPT !.trust = b] \in Allowed
           /\ "unregister" \in Calls => SkiMsg("ShipUnregisterSki", s) \in Allowed
           /\ "cancel" \in Calls => SkiMsg("ShipCancelPairingSki", s) \in Allowed
  BY DEF Msg, SkiMsg, Allowed, Message, MsgTypes

(* of a revocation,                                                        *)
LEMMA RevokeMsg ==
    ASSUME NEW fp \in Fps, Calls \cap {"pairing", "fingerprint"} # {}
    PROVE  /\ SkiMsg("RevokePairingFingerprint", fp) \in Allowed
           /\ Revokes(SkiMsg("RevokePairingFingerprint", fp), fp)
  BY DEF Msg, SkiMsg, Allowed, Message, MsgTypes, Revokes

(* of a close,                                                             *)
LEMMA CloseMsg ==
    ASSUME NEW a \in Addrs, conns \in [Addrs -> Connection]
    PROVE  ClosedMsg(a) \in Allowed /\ ClosedMsg(a).type = "ShipConnectionClosed" /\ ClosedMsg(a).sc = a
<1>1. conns[a].inc \in Nat
  BY DEF Connection
<1> QED
  BY <1>1 DEF ClosedMsg, Msg, Allowed, Message, MsgTypes

(* and of an approval.                                                     *)
LEMMA ApproveMsg ==
    ASSUME NEW a \in Addrs, NEW id \in Nat, NEW inc \in Nat
    PROVE  [Msg("ApprovePendingSki") EXCEPT !.sc = a, !.id = id, !.inc = inc] \in Allowed
  BY DEF Msg, Allowed, Message, MsgTypes

(* The approval of a peer is taken back.                                   *)
Withdrew(ps, qs, i) ==
    IF i = 0 THEN qs = ps ELSE Put(ps, qs, i, [ps[i] EXCEPT !.pending_approval_id = 0])

(* Withdraw takes it back.                                                 *)
LEMMA WithdrawFields ==
    ASSUME NEW ps \in Seq(Peer), NEW i \in 0..Len(ps)
    PROVE  Withdrew(ps, Withdraw(ps, i), i) /\ Withdraw(ps, i) \in Seq(Peer) /\ Len(Withdraw(ps, i)) = Len(ps)
<1>1. Len(ps) \in Nat
  BY LenProperties
<1>2. CASE i = 0
  BY <1>2 DEF Withdraw, Withdrew
<1>3. CASE i # 0
  <2> DEFINE q == [ps[i] EXCEPT !.pending_approval_id = 0]
  <2>1. i \in 1..Len(ps)
    BY <1>1, <1>3
  <2>2. ps[i] \in Peer
    BY <2>1, ElementOfSeq
  <2>3. q \in Peer
    BY <2>2 DEF Peer
  <2>4. Withdraw(ps, i) = [ps EXCEPT ![i] = q]
    BY <1>3 DEF Withdraw
  <2>5. Put(ps, [ps EXCEPT ![i] = q], i, q)
    BY <2>1, <2>3, EditPut
  <2>6. i <= Len(ps)
    BY <2>1
  <2> QED
    BY <1>3, <2>4, <2>5, <2>6 DEF Withdrew, Put
<1> QED
  BY <1>2, <1>3

(* What is counted.                                                        *)
LEMMA BoundTyped ==
    ASSUME count \in [{"closes", "accepts", "calls", "browse"} -> Nat],
           NEW w \in {"closes", "accepts", "calls", "browse"}, NEW m, Bound(w, m)
    PROVE  count' \in [{"closes", "accepts", "calls", "browse"} -> Nat]
<1>1. count[w] + 1 \in Nat
  OBVIOUS
<1> QED
  BY <1>1 DEF Bound

(* A thread has messages to send.                                          *)
LEMMA PostTyped ==
    ASSUME out \in [Threads -> Seq(Allowed)], config' = config,
           NEW t \in Threads, NEW ms \in Seq(Allowed), Post(t, ms)
    PROVE  out' \in [Threads -> Seq(Allowed)]'
<1>1. Seq(Allowed)' = Seq(Allowed)
  BY ConfigSame
<1> HIDE DEF Allowed
<1> QED
  BY <1>1 DEF Post, Threads

(* and two of them to send.                                                *)
LEMMA TwoMessages ==
    ASSUME NEW x, NEW y, NEW S
    PROVE  /\ <<x>> \o <<y>> = <<x, y>>
           /\ x \in S /\ y \in S => <<x, y>> \in Seq(S)
<1>1. <<x>> \o <<y>> = <<x, y>>
  <2>1. /\ <<x>> \in Seq({x, y}) /\ <<y>> \in Seq({x, y}) /\ <<x, y>> \in Seq({x, y})
        /\ Len(<<x>>) = 1 /\ Len(<<y>>) = 1 /\ Len(<<x, y>>) = 2
    OBVIOUS
  <2>2. /\ <<x>> \o <<y>> \in Seq({x, y}) /\ Len(<<x>> \o <<y>>) = 2
        /\ (<<x>> \o <<y>>)[1] = x /\ (<<x>> \o <<y>>)[2] = y
    BY <2>1, ConcatProperties
  <2> DEFINE u == <<x>> \o <<y>>
             v == <<x, y>>
  <2>3. v[1] = x /\ v[2] = y /\ \A i \in 1..2 : i = 1 \/ i = 2
    OBVIOUS
  <2>4. u \in Seq({x, y}) /\ v \in Seq({x, y}) /\ Len(u) = 2 /\ Len(v) = 2
    BY <2>1, <2>2
  <2>5. \A i \in 1..2 : u[i] = v[i]
    BY <2>2, <2>3
  <2> HIDE DEF u, v
  <2>6. u = v
    BY <2>4, <2>5, SeqEqual
  <2> QED
    BY <2>6 DEF u, v
<1>2. ASSUME x \in S, y \in S PROVE <<x, y>> \in Seq(S)
  BY <1>2
<1> QED
  BY <1>1, <1>2

(* The indices that are found are those of the table.                      *)
LEMMA FindTyped ==
    ASSUME peers \in Seq(Peer)
    PROVE  /\ Len(peers) \in Nat
           /\ \A s : FindWithSki(peers, s) \in 0..Len(peers)
           /\ \A a : FindWithShipConnection(peers, a) \in 0..Len(peers)
           /\ \A j \in 1..Len(peers) : peers[j] \in Peer
<1>1. Len(peers) \in Nat
  BY LenProperties
<1>2. ASSUME NEW s PROVE FindWithSki(peers, s) \in 0..Len(peers)
  BY <1>1, SkiFields
<1>3. ASSUME NEW a PROVE FindWithShipConnection(peers, a) \in 0..Len(peers)
  BY <1>1, HolderFields
<1> QED
  BY <1>1, <1>2, <1>3, ElementOfSeq

(* The application takes back what it has given for a peer.                *)
LEMMA WithdrawnTyped ==
    ASSUME TypeInv, NEW i \in 0..Len(peers), Withdrawn(i)
    PROVE  approvals' \in [given : Seq(Nat), withdrawn : SUBSET Nat, accepted : SUBSET [id : Nat, inc : Nat]]
<1>1. CASE i = 0 \/ peers[i].pending_approval_id = 0
  BY <1>1 DEF Withdrawn, TypeInv
<1>2. CASE ~(i = 0 \/ peers[i].pending_approval_id = 0)
  <2>0. Len(peers) \in Nat
    BY LenProperties DEF TypeInv
  <2>1. peers[i] \in Peer
    BY <1>2, <2>0, ElementOfSeq DEF TypeInv
  <2>2. peers[i].pending_approval_id \in Nat
    BY <2>1 DEF Peer
  <2>3. approvals' = [approvals EXCEPT !.withdrawn = @ \cup {peers[i].pending_approval_id}]
    BY <1>2 DEF Withdrawn
  <2> QED
    BY <2>2, <2>3 DEF TypeInv
<1> QED
  BY <1>1, <1>2

(* The types that a step has to keep: of the table and the connections, of *)
(* the messages, of the loop, and of the rest.                             *)
TypeTable == peers \in Seq(Peer) /\ conns \in [Addrs -> Connection]
(* The messages,                                                           *)
TypeMessages == queue \in Seq(Allowed) /\ Len(queue) <= QueueSize /\ out \in [Threads -> Seq(Allowed)]
(* the loop and Stop,                                                      *)
TypeLoop == loop \in Loops /\ loop.msg \in Allowed /\ stop \in Stops /\ cancel \in BOOLEAN
(* and the rest.                                                           *)
TypeRest ==
    /\ config \in Configs
    /\ server \in Devices \cup {None} /\ pairing \in Devices \cup {None}
    /\ next_approval_id \in Nat
    /\ remote_fingerprint \in Fps \cup {None}
    /\ mdns_entries \in Seq(Devices)
    /\ spine \in [Skis -> Nat]
    /\ made \in Nat
    /\ count \in [{"closes", "accepts", "calls", "browse"} -> Nat]
    /\ approvals \in [given : Seq(Nat), withdrawn : SUBSET Nat, accepted : SUBSET [id : Nat, inc : Nat]]

(* These are all.                                                          *)
LEMMA TypeParts == TypeInv <=> TypeTable /\ TypeMessages /\ TypeLoop /\ TypeRest
  BY DEF TypeInv, TypeTable, TypeMessages, TypeLoop, TypeRest

(* What is not changed keeps its type.                                     *)
LEMMA TypeKept ==
    ASSUME TypeInv, config' = config
    PROVE  /\ UNCHANGED <<peers, conns>> => TypeTable'
           /\ peers' \in Seq(Peer) /\ UNCHANGED conns => TypeTable'
           /\ peers' \in Seq(Peer) /\ conns' \in [Addrs -> Connection] => TypeTable'
           /\ UNCHANGED <<queue, out>> => TypeMessages'
           /\ UNCHANGED queue /\ out' \in [Threads -> Seq(Allowed)]' => TypeMessages'
           /\ UNCHANGED <<loop, stop, cancel>> => TypeLoop'
           /\ UNCHANGED <<stop, cancel>> /\ loop' \in Loops /\ loop'.msg \in Allowed => TypeLoop'
           /\ UNCHANGED <<server, pairing, next_approval_id, remote_fingerprint, mdns_entries,
                          spine, made, count, approvals>> => TypeRest'
  BY ConfigSame DEF TypeInv, TypeTable, TypeMessages, TypeLoop, TypeRest

(* The application's calls that withdraw an approval.                      *)
LEMMA TypeWithdraw ==
    ASSUME TypeInv, config' = config, NEW s \in Skis, NEW b \in BOOLEAN,
           RegisterRemoteSki(s, b) \/ UnregisterRemoteSki(s) \/ CancelPairingWithSki(s)
    PROVE  /\ TypeInv'
           /\ \E i \in 0..Len(peers) : peers' = Withdraw(peers, i) /\ Withdrawn(i)
<1>0. peers \in Seq(Peer)
  BY DEF TypeInv
<1>1. \E i \in 0..Len(peers) : peers' = Withdraw(peers, i) /\ Withdrawn(i)
  BY <1>0, FindTyped DEF RegisterRemoteSki, UnregisterRemoteSki, CancelPairingWithSki
<1>2. PICK i \in 0..Len(peers) : peers' = Withdraw(peers, i) /\ Withdrawn(i)
  BY <1>1
<1>3. peers' \in Seq(Peer)
  BY <1>0, <1>2, WithdrawFields
<1>4. approvals' \in [given : Seq(Nat), withdrawn : SUBSET Nat, accepted : SUBSET [id : Nat, inc : Nat]]
  BY <1>2, WithdrawnTyped
<1>5. \E m \in Allowed : Post("app", <<m>>)
  BY CallMsgs DEF RegisterRemoteSki, UnregisterRemoteSki, CancelPairingWithSki, Call
<1>6. out' \in [Threads -> Seq(Allowed)]'
  <2>1. PICK m \in Allowed : Post("app", <<m>>)
    BY <1>5
  <2>2. <<m>> \in Seq(Allowed)
    OBVIOUS
  <2> QED
    BY <2>1, <2>2, PostTyped DEF TypeInv, Threads
<1>7. Bound("calls", MaxCalls)
  BY DEF RegisterRemoteSki, UnregisterRemoteSki, CancelPairingWithSki, Call
<1>8. count' \in [{"closes", "accepts", "calls", "browse"} -> Nat]
  BY <1>7, BoundTyped DEF TypeInv
<1>9. UNCHANGED <<conns, queue, loop, server, pairing, stop, cancel, next_approval_id,
                  remote_fingerprint, mdns_entries, spine, made>>
  BY DEF RegisterRemoteSki, UnregisterRemoteSki, CancelPairingWithSki
<1>10. TypeTable' /\ TypeMessages' /\ TypeLoop'
  BY <1>3, <1>6, <1>9, TypeKept
<1>11. TypeRest'
  BY <1>4, <1>8, <1>9, ConfigSame DEF TypeInv, TypeRest
<1> QED
  BY <1>1, <1>10, <1>11, TypeParts, PTL

(* The table with an approval that is given for the i-th peer.             *)
LEMMA TypeApprove ==
    ASSUME TypeInv, config' = config, NEW s \in Skis, ApprovePendingHandshakeWithSki(s)
    PROVE  /\ TypeInv'
           /\ \E i \in 1..Len(peers) :
                 /\ Put(peers, peers', i, [peers[i] EXCEPT !.pending_approval_id = next_approval_id + 1])
                 /\ peers[i].connection # None /\ peers[i].pending_approval_id = 0
                 /\ approvals' = [approvals EXCEPT !.given = Append(@, conns[peers[i].connection].inc)]
<1> DEFINE i == FindWithSki(peers, s)
           id == next_approval_id + 1
           q == [peers[i] EXCEPT !.pending_approval_id = id]
           a == peers[i].connection
           m == [Msg("ApprovePendingSki") EXCEPT !.sc = a, !.id = id, !.inc = conns[a].inc]
<1>0. peers \in Seq(Peer) /\ Len(peers) \in Nat /\ id \in Nat
  BY FindTyped DEF TypeInv
<1>1. i \in 1..Len(peers)
  BY <1>0, FindTyped DEF ApprovePendingHandshakeWithSki
<1>2. peers[i] \in Peer
  BY <1>0, <1>1, ElementOfSeq
<1>3. a \in Addrs
  BY <1>2 DEF Peer, ApprovePendingHandshakeWithSki
<1>4. conns[a].inc \in Nat
  BY <1>3 DEF TypeInv, Connection
<1>5. m \in Allowed
  BY <1>0, <1>3, <1>4, ApproveMsg
<1>6. q \in Peer
  BY <1>0, <1>2 DEF Peer
<1>7. peers' = [peers EXCEPT ![i] = q]
  BY DEF ApprovePendingHandshakeWithSki
<1>8. Put(peers, peers', i, q)
  BY <1>0, <1>1, <1>6, <1>7, EditPut
<1>9. out' \in [Threads -> Seq(Allowed)]'
  <2>1. Post("app", <<m>>)
    BY DEF ApprovePendingHandshakeWithSki
  <2> HIDE DEF m
  <2>2. <<m>> \in Seq(Allowed)
    BY <1>5
  <2> QED
    BY <2>1, <2>2, PostTyped DEF TypeInv, Threads
<1>10. /\ Bound("calls", MaxCalls) /\ next_approval_id' = id
       /\ a # None /\ peers[i].pending_approval_id = 0
       /\ approvals' = [approvals EXCEPT !.given = Append(@, conns[a].inc)]
       /\ UNCHANGED <<conns, queue, loop, server, pairing, stop, cancel, remote_fingerprint,
                      mdns_entries, spine, made>>
  BY DEF ApprovePendingHandshakeWithSki, Call
<1>11. count' \in [{"closes", "accepts", "calls", "browse"} -> Nat]
  BY <1>10, BoundTyped DEF TypeInv
<1>12. approvals' \in [given : Seq(Nat), withdrawn : SUBSET Nat, accepted : SUBSET [id : Nat, inc : Nat]]
  <2>1. Append(approvals.given, conns[a].inc) \in Seq(Nat)
    BY <1>4, AppendProperties DEF TypeInv
  <2> QED
    BY <1>10, <2>1 DEF TypeInv
<1>13. TypeTable' /\ TypeMessages' /\ TypeLoop'
  <2>1. peers' \in Seq(Peer)
    BY <1>8 DEF Put
  <2> QED
    BY <1>9, <1>10, <2>1, TypeKept
<1>14. TypeRest'
  BY <1>0, <1>10, <1>11, <1>12, ConfigSame DEF TypeInv, TypeRest
<1>15. TypeInv'
  BY <1>13, <1>14, TypeParts, PTL
<1> QED
  BY <1>1, <1>8, <1>10, <1>15

(* The peers whose pairing request is replaced lose their trust.           *)
Marked(ps, qs, fp) ==
    /\ qs \in Seq(Peer) /\ Len(qs) = Len(ps)
    /\ \A i \in 1..Len(ps) :
          qs[i] = IF ps[i].trusted_by_pairing /\ ps[i].expected_fingerprint = fp /\ fp # None
                  THEN [ps[i] EXCEPT !.is_trusted = FALSE, !.provisional = TRUE, !.pending_approval_id = 0]
                  ELSE ps[i]

(* RegisterRemoteFingerprint, and what it has to send.                     *)
LEMMA FingerprintStep ==
    ASSUME TypeInv, config' = config, NEW t \in Threads, NEW fp \in Fps \cup {None},
           Calls \cap {"pairing", "fingerprint"} # {}, RegisterRemoteFingerprint(t, fp)
    PROVE  /\ peers' \in Seq(Peer) /\ out' \in [Threads -> Seq(Allowed)]'
           /\ remote_fingerprint' = fp
           /\ \/ ~Replacing(fp) /\ peers' = peers /\ out' = [out EXCEPT ![t] = <<Msg("PromoteFingerprint")>>]
              \/ /\ Replacing(fp) /\ remote_fingerprint \in Fps
                 /\ Marked(peers, peers', remote_fingerprint)
                 /\ out' = [out EXCEPT ![t] = <<SkiMsg("RevokePairingFingerprint", remote_fingerprint),
                                                Msg("PromoteFingerprint")>>]
<1>0. peers \in Seq(Peer) /\ Len(peers) \in Nat /\ \A j \in 1..Len(peers) : peers[j] \in Peer
  BY FindTyped DEF TypeInv
<1>1. Msg("PromoteFingerprint") \in Allowed
  BY MsgTyped DEF MsgTypes
<1>2. CASE ~Replacing(fp)
  <2>1. peers' = peers /\ Post(t, <<>> \o <<Msg("PromoteFingerprint")>>) /\ remote_fingerprint' = fp
    BY <1>2 DEF RegisterRemoteFingerprint
  <2>2. <<>> \o <<Msg("PromoteFingerprint")>> = <<Msg("PromoteFingerprint")>>
    OBVIOUS
  <2>3. <<Msg("PromoteFingerprint")>> \in Seq(Allowed)
    BY <1>1
  <2>4. Post(t, <<Msg("PromoteFingerprint")>>)
    BY <2>1, <2>2
  <2>5. out' \in [Threads -> Seq(Allowed)]'
    BY <2>3, <2>4, PostTyped DEF TypeInv
  <2> QED
    BY <1>0, <1>2, <2>1, <2>4, <2>5 DEF Post
<1>3. CASE Replacing(fp)
  <2> DEFINE r == SkiMsg("RevokePairingFingerprint", remote_fingerprint)
             ms == <<r, Msg("PromoteFingerprint")>>
             mark(i) == IF /\ peers[i].trusted_by_pairing
                           /\ FingerprintMatches(peers[i].expected_fingerprint, remote_fingerprint)
                        THEN [peers[i] EXCEPT !.is_trusted = FALSE, !.provisional = TRUE,
                                              !.pending_approval_id = 0]
                        ELSE peers[i]
  <2>1. remote_fingerprint \in Fps
    BY <1>3 DEF Replacing, TypeInv
  <2>2. r \in Allowed
    BY <2>1, RevokeMsg
  <2>3. /\ peers' = [i \in DOMAIN peers |-> mark(i)] /\ remote_fingerprint' = fp
        /\ Post(t, <<r>> \o <<Msg("PromoteFingerprint")>>)
    BY <1>3 DEF RegisterRemoteFingerprint
  <2> HIDE DEF r
  <2>4. <<r>> \o <<Msg("PromoteFingerprint")>> = ms /\ ms \in Seq(Allowed)
    BY <1>1, <2>2, TwoMessages
  <2>5. Post(t, ms)
    BY <2>3, <2>4
  <2>6. out' \in [Threads -> Seq(Allowed)]'
    BY <2>4, <2>5, PostTyped DEF TypeInv
  <2>7. DOMAIN peers = 1..Len(peers)
    BY <1>0
  <2>8. ASSUME NEW i \in 1..Len(peers) PROVE mark(i) \in Peer
    <3>1. peers[i] \in Peer
      BY <1>0
    <3>2. [peers[i] EXCEPT !.is_trusted = FALSE, !.provisional = TRUE, !.pending_approval_id = 0] \in Peer
      BY <3>1 DEF Peer
    <3> QED
      BY <3>1, <3>2
  <2>9. \A i \in 1..Len(peers) : peers'[i] = mark(i)
    BY <2>3, <2>7
  <2>10. peers' \in Seq(Peer) /\ Len(peers') = Len(peers)
    <3>1. peers' \in [1..Len(peers) -> Peer]
      BY <2>3, <2>7, <2>8
    <3> QED
      BY <1>0, <3>1
  <2>11. Marked(peers, peers', remote_fingerprint)
    BY <2>9, <2>10 DEF Marked, FingerprintMatches
  <2> QED
    BY <1>3, <2>1, <2>3, <2>5, <2>6, <2>10, <2>11 DEF Post, r
<1> QED
  BY <1>2, <1>3

(* A peer that is added and then changed.                                  *)
LEMMA AddPut ==
    ASSUME NEW ps \in Seq(Peer), NEW p \in Peer, NEW q \in Peer
    PROVE  /\ Put(ps, [Append(ps, p) EXCEPT ![Len(ps) + 1] = q], Len(ps) + 1, q)
           /\ Len(Append(ps, p)) = Len(ps) + 1 /\ Append(ps, p)[Len(ps) + 1] = p
<1> DEFINE z == Append(ps, p)
           n == Len(ps) + 1
<1>1. Len(ps) \in Nat /\ n \in 1..n /\ ~(n <= Len(ps)) /\ n \in Nat
  BY LenProperties
<1>2. /\ z \in Seq(Peer) /\ Len(z) = n /\ z[n] = p
      /\ \A j \in 1..Len(ps) : z[j] = ps[j]
  BY AppendProperties
<1> HIDE DEF z
<1>3. Put(z, [z EXCEPT ![n] = q], n, q)
  BY <1>1, <1>2, EditPut
<1>4. \A j \in 1..n : j = n \/ (j \in 1..Len(ps) /\ j # n)
  BY <1>1
<1>5. Put(ps, [z EXCEPT ![n] = q], n, q)
  BY <1>1, <1>2, <1>3, <1>4 DEF Put
<1> QED
  BY <1>2, <1>5 DEF z

(* The index of an element that is searched for.                           *)
LEMMA RegistrationFields ==
    ASSUME peers \in Seq(Peer), mdns_entries \in Seq(Devices), NEW d, NEW b
    PROVE  FindPeerForRegistration(d, b) \in 0..Len(peers)
<1> DEFINE shown == SelectInSeq(peers, LAMBDA p : FingerprintMatches(p.peer_fingerprint, d.fp))
           entry == SelectInSeq(mdns_entries, LAMBDA e : e.id = d.id)
           last == IF entry = 0 THEN 0 ELSE FindWithSki(peers, mdns_entries[entry].ski)
<1>0. Len(peers) \in Nat
  BY LenProperties
<1>1. FindPeerForRegistration(d, b) \in {FindWithShipId(peers, d.id), FindWithFingerprint(peers, d.fp), shown, last}
  BY DEF FindPeerForRegistration
<1>2. FindWithShipId(peers, d.id) \in 0..Len(peers)
  BY <1>0, IdFields
<1>3. FindWithFingerprint(peers, d.fp) \in 0..Len(peers)
  BY <1>0, FingerprintFields
<1>4. shown \in 0..Len(peers)
  <2> DEFINE T == {j \in 1..Len(peers) : FingerprintMatches(peers[j].peer_fingerprint, d.fp)}
  <2>1. shown = IF T # {} THEN Min(T) ELSE 0
    BY DEF SelectInSeq
  <2>2. T # {} => Min(T) \in T
    <3>1. T \in SUBSET Nat
      OBVIOUS
    <3> HIDE DEF T
    <3> QED
      BY <3>1, MinFields
  <2> HIDE DEF shown
  <2> QED
    BY <1>0, <2>1, <2>2
<1>5. last \in 0..Len(peers)
  <2> HIDE DEF entry
  <2> QED
    BY <1>0, FindTyped
<1> HIDE DEF shown, last
<1> QED
  BY <1>1, <1>2, <1>3, <1>4, <1>5

(* The peer p after its registration.                                      *)
Registered(p, d, b) ==
    [p EXCEPT !.ship_id = d.id, !.expected_fingerprint = d.fp, !.is_trusted = TRUE,
              !.provisional = FALSE, !.trusted_by_pairing = @ \/ b]

(* The k-th peer, or one that is new.                                      *)
Entry(ps, k, ski) == IF k <= Len(ps) THEN ps[k] ELSE NodeConnection(ski)

(* RegisterPeerTrust: the table, and what the thread has to send.          *)
Trusting(t, d, b) ==
    \E k \in 1..(Len(peers) + 1) :
        /\ Put(peers, peers', k, Registered(Entry(peers, k, None), d, b))
        /\ Entry(peers, k, None) \in Peer
        /\ AttemptUnproven(Entry(peers, k, None), d.fp) => b
        /\ \E ms \in Seq(Allowed) :
              /\ out' = [out EXCEPT ![t] = ms]
              /\ \A j \in 1..Len(ms) :
                    \/ ms[j] = Msg("MdnsEntriesFound")
                    \/ /\ k <= Len(peers) /\ peers[k].connection # None /\ b
                       /\ ms[j] = ClosedMsg(peers[k].connection)
              /\ ClientSupported => \E j \in 1..Len(ms) : ms[j] = Msg("MdnsEntriesFound")

(* What RegisterPeerTrust does is that.                                    *)
LEMMA TrustStep ==
    ASSUME TypeInv, config' = config, NEW t \in Threads, NEW d \in Devices, NEW b \in BOOLEAN,
           RegisterPeerTrust(t, d, b)
    PROVE  /\ peers' \in Seq(Peer) /\ out' \in [Threads -> Seq(Allowed)]'
           /\ Trusting(t, d, b)
<1> DEFINE i == FindPeerForRegistration(d, b)
           ps == IF i = 0 THEN Append(peers, NodeConnection(None)) ELSE peers
           k == IF i = 0 THEN Len(ps) ELSE i
           p == ps[k]
           q == Registered(p, d, b)
           close == /\ AttemptUnproven(p, d.fp) /\ p.connection # None
                    /\ ~FingerprintMatches(p.peer_fingerprint, d.fp)
           ms == (IF close THEN <<ClosedMsg(p.connection)>> ELSE <<>>)
                   \o IF ClientSupported THEN <<Msg("MdnsEntriesFound")>> ELSE <<>>
<1>0. peers \in Seq(Peer) /\ Len(peers) \in Nat /\ \A j \in 1..Len(peers) : peers[j] \in Peer
  BY FindTyped DEF TypeInv
<1>1. i \in 0..Len(peers)
  BY <1>0, RegistrationFields DEF TypeInv
<1>2. AttemptUnproven(p, d.fp) => b
  BY DEF RegisterPeerTrust
<1>3. Post(t, ms)
  BY DEF RegisterPeerTrust
<1>4. peers' = [ps EXCEPT ![k].ship_id = d.id, ![k].expected_fingerprint = d.fp,
                          ![k].is_trusted = TRUE, ![k].provisional = FALSE,
                          ![k].trusted_by_pairing = @ \/ b]
  BY DEF RegisterPeerTrust
<1>5. NodeConnection(None) \in Peer
  BY NewPeer
<1>6. /\ k \in 1..(Len(peers) + 1) /\ p \in Peer /\ p = Entry(peers, k, None)
      /\ k \in 1..Len(ps) /\ ps \in Seq(Peer) /\ (k <= Len(peers) <=> i # 0)
  <2>1. CASE i = 0
    <3>1. /\ Append(peers, NodeConnection(None)) \in Seq(Peer)
          /\ Len(Append(peers, NodeConnection(None))) = Len(peers) + 1
          /\ Append(peers, NodeConnection(None))[Len(peers) + 1] = NodeConnection(None)
      BY <1>0, <1>5, AppendProperties
    <3> QED
      BY <1>0, <1>5, <2>1, <3>1 DEF Entry
  <2>2. CASE i # 0
    BY <1>0, <1>1, <2>2 DEF Entry
  <2> QED
    BY <2>1, <2>2
<1>7. d.id \in Ids /\ d.fp \in Fps
  BY DEF Ids, Fps
<1>8. q \in Peer
  <2> HIDE DEF p
  <2> DEFINE r == [p EXCEPT !.ship_id = d.id, !.expected_fingerprint = d.fp]
             u == [r EXCEPT !.is_trusted = TRUE, !.provisional = FALSE]
             v == p.trusted_by_pairing \/ b
  <2>1. r \in Peer
    BY <1>6, <1>7, ZenonT(60) DEF Peer
  <2>2. u \in Peer
    <3> HIDE DEF r
    <3> QED
      BY <2>1 DEF Peer
  <2>3. v \in BOOLEAN
    OBVIOUS
  <2>4. [u EXCEPT !.trusted_by_pairing = v] \in Peer
    <3> HIDE DEF r, u, v
    <3> QED
      BY <2>2, <2>3 DEF Peer
  <2>5. [u EXCEPT !.trusted_by_pairing = v] = Registered(p, d, b)
    BY <1>6 DEF Registered, Peer
  <2> QED
    BY <2>4, <2>5
<1>9. peers' = [ps EXCEPT ![k] = q]
  <2> HIDE DEF ps, k
  <2> QED
    BY <1>4 DEF Registered
<1>10. Put(peers, peers', k, q)
  <2>1. CASE i = 0
    BY <1>0, <1>5, <1>8, <1>9, <2>1, AddPut
  <2>2. CASE i # 0
    BY <1>0, <1>6, <1>8, <1>9, <2>2, EditPut
  <2> QED
    BY <2>1, <2>2
<1>11. Msg("MdnsEntriesFound") \in Allowed
  BY MsgTyped DEF MsgTypes
<1>12. ASSUME close
       PROVE  /\ k <= Len(peers) /\ peers[k].connection # None /\ b
              /\ p.connection = peers[k].connection
              /\ ClosedMsg(p.connection) \in Allowed
  <2>1. k <= Len(peers)
    <3>1. k > Len(peers) => p = NodeConnection(None)
      BY <1>0, <1>6 DEF Entry
    <3> QED
      BY <1>0, <1>6, <1>12, <3>1, NewPeer
  <2>2. p = peers[k]
    BY <1>6, <2>1 DEF Entry
  <2>3. p.connection \in Addrs
    BY <1>6, <1>12 DEF Peer
  <2>4. ClosedMsg(p.connection) \in Allowed
    BY <2>3, CloseMsg DEF TypeInv
  <2> QED
    BY <1>2, <1>12, <2>1, <2>2, <2>4
<1> DEFINE x == ClosedMsg(p.connection)
           y == Msg("MdnsEntriesFound")
<1>13. ms = IF close THEN IF ClientSupported THEN <<x, y>> ELSE <<x>>
            ELSE IF ClientSupported THEN <<y>> ELSE <<>>
  <2> HIDE DEF close, x, y
  <2>1. <<x>> \o <<y>> = <<x, y>> /\ <<x>> \o <<>> = <<x>> /\ <<>> \o <<y>> = <<y>> /\ <<>> \o <<>> = <<>>
    BY TwoMessages
  <2> QED
    BY <2>1 DEF x, y
<1> HIDE DEF ms, x, y, close, p
<1>14. /\ ms \in Seq(Allowed)
       /\ \A j \in 1..Len(ms) : ms[j] = y \/ (close /\ ms[j] = x)
       /\ ClientSupported => \E j \in 1..Len(ms) : ms[j] = y
  <2>1. y \in Allowed /\ (close => x \in Allowed)
    BY <1>11, <1>12 DEF x, y
  <2>2. CASE close /\ ClientSupported
    <3>1. ms = <<x, y>> /\ ms \in Seq(Allowed)
      BY <1>13, <2>1, <2>2, TwoMessages
    <3> QED
      BY <2>2, <3>1
  <2>3. CASE close /\ ~ClientSupported
    BY <1>13, <2>1, <2>3
  <2>4. CASE ~close /\ ClientSupported
    BY <1>13, <2>1, <2>4
  <2>5. CASE ~close /\ ~ClientSupported
    BY <1>13, <2>1, <2>5
  <2> QED
    BY <2>2, <2>3, <2>4, <2>5, NodeAssumption
<1>15. out' \in [Threads -> Seq(Allowed)]'
  BY <1>3, <1>14, PostTyped DEF TypeInv
<1>16. \A j \in 1..Len(ms) :
          \/ ms[j] = Msg("MdnsEntriesFound")
          \/ k <= Len(peers) /\ peers[k].connection # None /\ b /\ ms[j] = ClosedMsg(peers[k].connection)
  BY <1>12, <1>14 DEF x, y
<1>17. Trusting(t, d, b)
  <2> HIDE DEF k
  <2> QED
    BY <1>2, <1>3, <1>6, <1>10, <1>14, <1>16 DEF Trusting, Post, y
<1> QED
  BY <1>10, <1>15, <1>17 DEF Put

(* The calls that register a fingerprint or a peer, and the browsers.      *)
LEMMA TypeRegister ==
    ASSUME TypeInv, config' = config,
           \/ \E f \in Fps \cup {None} : RegisterFingerprint(f)
           \/ \E d \in Devices : PairingRequestAccepted(d) \/ RegisterRemoteFingerprintWithShipId(d)
           \/ PairingRegistersPeer
    PROVE  TypeInv'
<1>1. ASSUME NEW f \in Fps \cup {None}, RegisterFingerprint(f) PROVE TypeInv'
  <2>1. /\ RegisterRemoteFingerprint("app", f) /\ Bound("calls", MaxCalls)
        /\ Calls \cap {"pairing", "fingerprint"} # {}
        /\ UNCHANGED <<conns, queue, loop, server, pairing, stop, cancel, next_approval_id,
                       mdns_entries, spine, made, approvals>>
    BY <1>1 DEF RegisterFingerprint, Call
  <2>2. peers' \in Seq(Peer) /\ out' \in [Threads -> Seq(Allowed)]' /\ remote_fingerprint' = f
    BY <2>1, FingerprintStep DEF Threads
  <2>3. count' \in [{"closes", "accepts", "calls", "browse"} -> Nat]
    BY <2>1, BoundTyped DEF TypeInv
  <2>4. TypeTable' /\ TypeMessages' /\ TypeLoop'
    BY <2>1, <2>2, TypeKept
  <2>5. TypeRest'
    BY <2>1, <2>2, <2>3, ConfigSame DEF TypeInv, TypeRest
  <2> QED
    BY <2>4, <2>5, TypeParts, PTL
<1>2. ASSUME NEW d \in Devices, PairingRequestAccepted(d) PROVE TypeInv'
  <2>0. d.fp \in Fps \cup {None}
    BY DEF Fps
  <2>1. /\ RegisterRemoteFingerprint("pairing", d.fp) /\ Bound("calls", MaxCalls)
        /\ Calls \cap {"pairing", "fingerprint"} # {} /\ pairing' = d
        /\ UNCHANGED <<conns, queue, loop, server, stop, cancel, next_approval_id,
                       mdns_entries, spine, made, approvals>>
    BY <1>2 DEF PairingRequestAccepted
  <2>2. peers' \in Seq(Peer) /\ out' \in [Threads -> Seq(Allowed)]' /\ remote_fingerprint' = d.fp
    BY <2>0, <2>1, FingerprintStep DEF Threads
  <2>3. count' \in [{"closes", "accepts", "calls", "browse"} -> Nat]
    BY <2>1, BoundTyped DEF TypeInv
  <2>4. TypeTable' /\ TypeMessages' /\ TypeLoop'
    BY <2>1, <2>2, TypeKept
  <2>5. TypeRest'
    BY <2>0, <2>1, <2>2, <2>3, ConfigSame DEF TypeInv, TypeRest
  <2> QED
    BY <2>4, <2>5, TypeParts, PTL
<1>3. ASSUME NEW d \in Devices, RegisterRemoteFingerprintWithShipId(d) PROVE TypeInv'
  <2>1. /\ RegisterPeerTrust("app", d, FALSE) /\ Bound("calls", MaxCalls)
        /\ UNCHANGED <<conns, queue, loop, server, pairing, stop, cancel, next_approval_id,
                       remote_fingerprint, mdns_entries, spine, made, approvals>>
    BY <1>3 DEF RegisterRemoteFingerprintWithShipId, Call
  <2>2. peers' \in Seq(Peer) /\ out' \in [Threads -> Seq(Allowed)]'
    BY <2>1, TrustStep DEF Threads
  <2>3. count' \in [{"closes", "accepts", "calls", "browse"} -> Nat]
    BY <2>1, BoundTyped DEF TypeInv
  <2>4. TypeTable' /\ TypeMessages' /\ TypeLoop'
    BY <2>1, <2>2, TypeKept
  <2>5. TypeRest'
    BY <2>1, <2>2, <2>3, ConfigSame DEF TypeInv, TypeRest
  <2> QED
    BY <2>4, <2>5, TypeParts, PTL
<1>4. ASSUME PairingRegistersPeer PROVE TypeInv'
  <2>1. /\ RegisterPeerTrust("pairing", pairing, TRUE) /\ pairing' = None /\ pairing \in Devices
        /\ UNCHANGED <<conns, queue, loop, server, stop, cancel, next_approval_id,
                       remote_fingerprint, mdns_entries, spine, made, count, approvals>>
    BY <1>4 DEF PairingRegistersPeer, TypeInv
  <2>2. peers' \in Seq(Peer) /\ out' \in [Threads -> Seq(Allowed)]'
    BY <2>1, TrustStep DEF Threads
  <2>4. TypeTable' /\ TypeMessages' /\ TypeLoop'
    BY <2>1, <2>2, TypeKept
  <2>5. TypeRest'
    BY <2>1, <2>2, ConfigSame DEF TypeInv, TypeRest
  <2> QED
    BY <2>4, <2>5, TypeParts, PTL
<1> QED
  BY <1>1, <1>2, <1>3, <1>4

(* The browser has found services.                                         *)
LEMMA TypeBrowse ==
    ASSUME TypeInv, config' = config, NEW ds \in SUBSET Devices, NEW found \in SetToSeqs(ds),
           OnMdnsEntriesFound(found)
    PROVE  TypeInv'
<1>1. IsFiniteSet(Devices)
  BY ConfigAssumption DEF TypeInv, Devices
<1>2. Cardinality(ds) \in Nat
  BY <1>1, FS_Subset, FS_CardinalityType
<1>3. found \in Seq(Devices)
  <2>1. found \in [1..Cardinality(ds) -> Devices]
    BY DEF SetToSeqs
  <2> QED
    BY <1>2, <2>1
<1>4. /\ mdns_entries' = found /\ Bound("browse", MaxBrowse)
      /\ Post("mdns", IF ClientSupported THEN <<Msg("MdnsEntriesFound")>> ELSE <<>>)
      /\ UNCHANGED <<peers, conns, queue, loop, server, pairing, stop, cancel, next_approval_id,
                     remote_fingerprint, spine, made, approvals>>
  BY DEF OnMdnsEntriesFound
<1>5. Msg("MdnsEntriesFound") \in Allowed
  BY MsgTyped DEF MsgTypes
<1>6. (IF ClientSupported THEN <<Msg("MdnsEntriesFound")>> ELSE <<>>) \in Seq(Allowed)
  BY <1>5
<1>7. out' \in [Threads -> Seq(Allowed)]'
  BY <1>4, <1>6, PostTyped DEF TypeInv, Threads
<1>8. count' \in [{"closes", "accepts", "calls", "browse"} -> Nat]
  BY <1>4, BoundTyped DEF TypeInv
<1>9. TypeTable' /\ TypeMessages' /\ TypeLoop'
  BY <1>4, <1>7, TypeKept
<1>10. TypeRest'
  BY <1>3, <1>4, <1>8, ConfigSame DEF TypeInv, TypeRest
<1> QED
  BY <1>9, <1>10, TypeParts, PTL

(* A connection that has been started, or that did not start.              *)
LEMMA StartedTyped ==
    ASSUME NEW n \in Nat, NEW s \in Skis, NEW ph \in {"init", "refused"}
    PROVE  /\ Started(n, s, ph) \in Connection
           /\ [Started(n, s, ph) EXCEPT !.st = "dead"] \in Connection
           /\ Free \in Connection
<1>1. <<>> \in Seq(Decision)
  OBVIOUS
<1> QED
  BY <1>1 DEF Started, Connection, Phases, Free

(* A peer whose flags are set.                                             *)
LEMMA FlagTyped ==
    ASSUME NEW p \in Peer, NEW b \in BOOLEAN
    PROVE  /\ [p EXCEPT !.is_trusted = b] \in Peer /\ [p EXCEPT !.provisional = b] \in Peer
           /\ [p EXCEPT !.is_attempt_running = b] \in Peer
           /\ [p EXCEPT !.handshake_complete = b] \in Peer
           /\ [p EXCEPT !.trusted_by_pairing = b] \in Peer
<1>1. [p EXCEPT !.is_trusted = b] \in Peer /\ [p EXCEPT !.provisional = b] \in Peer
  BY DEF Peer
<1>2. [p EXCEPT !.is_attempt_running = b] \in Peer
  BY DEF Peer
<1>3. [p EXCEPT !.handshake_complete = b] \in Peer
  BY DEF Peer
<1>4. [p EXCEPT !.trusted_by_pairing = b] \in Peer
  BY DEF Peer
<1> QED
  BY <1>1, <1>2, <1>3, <1>4

(* The websocket server finds the peer or makes one,                       *)
LEMMA AdmittedFields ==
    ASSUME TypeInv, NEW d \in Devices
    PROVE  LET k == IF PeerOf(d) = 0 THEN Len(peers) + 1 ELSE PeerOf(d)
               q == AdmittedPeer(d)
           IN  /\ k \in 1..(Len(peers) + 1) /\ Entry(peers, k, d.ski) \in Peer
               /\ k <= Len(peers) <=> PeerOf(d) # 0
               /\ q \in Peer
               /\ q.ski = d.ski /\ q.connection = Entry(peers, k, d.ski).connection
               /\ q.handshake_complete = Entry(peers, k, d.ski).handshake_complete
               /\ q.ship_id = Entry(peers, k, d.ski).ship_id
               /\ q.peer_fingerprint = d.fp
               /\ q.is_trusted = CASE PeerOf(d) = 0 -> Recognised(d) \/ ~PostTrust
                                   [] PeerOf(d) # 0 -> Recognised(d) \/ peers[PeerOf(d)].is_trusted
               /\ q.provisional = CASE PeerOf(d) = 0 -> ~(Recognised(d) \/ ~PostTrust)
                                    [] PeerOf(d) # 0 -> ~Recognised(d) /\ peers[PeerOf(d)].provisional
               /\ q.expected_fingerprint = IF ByPairing(d) THEN remote_fingerprint
                                           ELSE Entry(peers, k, d.ski).expected_fingerprint
               /\ q.trusted_by_pairing = IF ByPairing(d) THEN TRUE
                                         ELSE Entry(peers, k, d.ski).trusted_by_pairing
<1> DEFINE i == PeerOf(d)
           k == IF i = 0 THEN Len(peers) + 1 ELSE i
           p == IF i = 0 THEN NodeConnection(d.ski) ELSE peers[i]
           tr == CASE i = 0 -> Recognised(d) \/ ~PostTrust
                   [] i # 0 -> Recognised(d) \/ p.is_trusted
           pr == CASE i = 0 -> ~tr
                   [] i # 0 -> ~Recognised(d) /\ p.provisional
           u == [p EXCEPT !.is_trusted = tr, !.provisional = pr, !.ski = d.ski, !.peer_fingerprint = d.fp]
           v == [u EXCEPT !.expected_fingerprint = remote_fingerprint, !.trusted_by_pairing = TRUE]
<1>0. peers \in Seq(Peer) /\ Len(peers) \in Nat /\ \A j \in 1..Len(peers) : peers[j] \in Peer
  BY FindTyped DEF TypeInv
<1>1. i \in 0..Len(peers)
  BY <1>0, FindTyped, FingerprintFields DEF PeerOf
<1>2. d.ski \in Skis /\ d.fp \in Fps
  BY DEF Skis, Fps
<1>3. k \in 1..(Len(peers) + 1) /\ (k <= Len(peers) <=> i # 0) /\ p = Entry(peers, k, d.ski) /\ p \in Peer
  <2>1. NodeConnection(d.ski) \in Peer
    BY <1>2, NewPeer
  <2> QED
    BY <1>0, <1>1, <2>1 DEF Entry
<1>4. AdmittedPeer(d) = IF ByPairing(d) THEN v ELSE u
  BY DEF AdmittedPeer
<1>5. i = 0 => tr = (Recognised(d) \/ ~PostTrust) /\ pr = ~(Recognised(d) \/ ~PostTrust)
  OBVIOUS
<1>6. i # 0 => p = peers[i] /\ tr = (Recognised(d) \/ peers[i].is_trusted) /\ pr = (~Recognised(d) /\ peers[i].provisional)
  OBVIOUS
<1>7. tr \in BOOLEAN /\ pr \in BOOLEAN
  BY <1>5, <1>6
<1> HIDE DEF tr, pr, p, i
<1>8. /\ u \in Peer /\ u.ski = d.ski /\ u.connection = p.connection
      /\ u.handshake_complete = p.handshake_complete /\ u.ship_id = p.ship_id
      /\ u.peer_fingerprint = d.fp /\ u.is_trusted = tr /\ u.provisional = pr
      /\ u.expected_fingerprint = p.expected_fingerprint /\ u.trusted_by_pairing = p.trusted_by_pairing
  <2> DEFINE r == [p EXCEPT !.is_trusted = tr, !.provisional = pr]
  <2>1. /\ r \in Peer /\ r.is_trusted = tr /\ r.provisional = pr
        /\ r.connection = p.connection /\ r.handshake_complete = p.handshake_complete
        /\ r.ship_id = p.ship_id /\ r.expected_fingerprint = p.expected_fingerprint
        /\ r.trusted_by_pairing = p.trusted_by_pairing
    <3>0. DOMAIN p = DOMAIN NodeConnection(None) /\ p \in Peer
      BY <1>3 DEF NodeConnection, Peer
    <3>1. r \in Peer
      <4>1. [p EXCEPT !.is_trusted = tr] \in Peer
        BY <1>3, <1>7, FlagTyped
      <4> QED
        BY <1>7, <4>1, FlagTyped
    <3>2. r.is_trusted = tr /\ r.provisional = pr
      BY <3>0 DEF NodeConnection
    <3>3. /\ r.connection = p.connection /\ r.handshake_complete = p.handshake_complete
          /\ r.ship_id = p.ship_id /\ r.expected_fingerprint = p.expected_fingerprint
          /\ r.trusted_by_pairing = p.trusted_by_pairing
      BY <3>0 DEF NodeConnection
    <3> QED
      BY <3>1, <3>2, <3>3
  <2>2. u = [r EXCEPT !.ski = d.ski, !.peer_fingerprint = d.fp]
    OBVIOUS
  <2> HIDE DEF r, u
  <2> QED
    BY <1>2, <2>1, <2>2 DEF Peer
<1> HIDE DEF u
<1>9. /\ v \in Peer /\ v.ski = u.ski /\ v.connection = u.connection
      /\ v.handshake_complete = u.handshake_complete /\ v.ship_id = u.ship_id
      /\ v.peer_fingerprint = u.peer_fingerprint /\ v.is_trusted = u.is_trusted
      /\ v.provisional = u.provisional
      /\ v.expected_fingerprint = remote_fingerprint /\ v.trusted_by_pairing
      /\ v.trusted_by_pairing = TRUE
  BY <1>8 DEF Peer, TypeInv
<1> HIDE DEF v
<1> DEFINE q == AdmittedPeer(d)
<1>10. q \in Peer /\ q.ski = d.ski /\ q.connection = p.connection
      /\ q.handshake_complete = p.handshake_complete /\ q.ship_id = p.ship_id
      /\ q.peer_fingerprint = d.fp /\ q.is_trusted = tr /\ q.provisional = pr
      /\ q.expected_fingerprint = (IF ByPairing(d) THEN remote_fingerprint ELSE p.expected_fingerprint)
      /\ q.trusted_by_pairing = (IF ByPairing(d) THEN TRUE ELSE p.trusted_by_pairing)
  BY <1>4, <1>8, <1>9
<1>11. /\ q.is_trusted = CASE i = 0 -> Recognised(d) \/ ~PostTrust
                           [] i # 0 -> Recognised(d) \/ peers[i].is_trusted
       /\ q.provisional = CASE i = 0 -> ~(Recognised(d) \/ ~PostTrust)
                            [] i # 0 -> ~Recognised(d) /\ peers[i].provisional
  BY <1>5, <1>6, <1>10
<1> HIDE DEF q
<1> QED
  BY <1>3, <1>10, <1>11 DEF q, i

(* and gives it the connection.                                            *)
Served ==
    LET k == IF PeerOf(server) = 0 THEN Len(peers) + 1 ELSE PeerOf(server)
    IN  \E a \in Addrs, c \in Connection :
           /\ server \in Devices /\ Admitted(server) /\ conns[a].st = "free"
           /\ Put(peers, peers', k, ServerConnect(AdmittedPeer(server), a))
           /\ conns' = [conns EXCEPT ![a] = c]
           /\ c.st \in {"run", "dead"} /\ c.ski = server.ski /\ c.phase = "init"
           /\ c.inc = made + 1 /\ c.busy = "no" /\ c.box = <<>>

(* The websocket server keeps the types.                                   *)
LEMMA TypeServer ==
    ASSUME TypeInv, config' = config,
           (\E d \in Devices : ServerAccept(d)) \/ OnWebsocketServerConnection
    PROVE  /\ TypeInv'
           /\ OnWebsocketServerConnection => UNCHANGED <<peers, conns>> \/ Served
<1>0. peers \in Seq(Peer) /\ Len(peers) \in Nat /\ \A j \in 1..Len(peers) : peers[j] \in Peer
  BY FindTyped DEF TypeInv
<1>1. ASSUME NEW d \in Devices, ServerAccept(d) PROVE TypeInv'
  <2>1. /\ server' = d /\ Bound("accepts", MaxAccepts)
        /\ UNCHANGED <<peers, conns, queue, out, loop, pairing, stop, cancel, next_approval_id,
                       remote_fingerprint, mdns_entries, spine, made, approvals>>
    BY <1>1 DEF ServerAccept
  <2>2. count' \in [{"closes", "accepts", "calls", "browse"} -> Nat]
    BY <2>1, BoundTyped DEF TypeInv
  <2>3. TypeTable' /\ TypeMessages' /\ TypeLoop'
    BY <2>1, TypeKept
  <2>4. TypeRest'
    BY <2>1, <2>2, ConfigSame DEF TypeInv, TypeRest
  <2> QED
    BY <2>3, <2>4, TypeParts, PTL
<1>2. ASSUME OnWebsocketServerConnection PROVE TypeInv' /\ (UNCHANGED <<peers, conns>> \/ Served)
  <2> DEFINE k == IF PeerOf(server) = 0 THEN Len(peers) + 1 ELSE PeerOf(server)
             q(a) == ServerConnect(AdmittedPeer(server), a)
  <2>1. /\ server \in Devices /\ server' = None
        /\ UNCHANGED <<queue, out, loop, pairing, stop, cancel, next_approval_id,
                       remote_fingerprint, mdns_entries, spine, count, approvals>>
    BY <1>2 DEF OnWebsocketServerConnection, TypeInv
  <2>2. TypeMessages' /\ TypeLoop'
    BY <2>1, TypeKept
  <2>3. CASE ~Admitted(server) /\ UNCHANGED <<peers, conns, made>>
    <3>1. TypeTable'
      BY <2>3, TypeKept
    <3>2. TypeRest'
      BY <2>1, <2>3, ConfigSame DEF TypeInv, TypeRest
    <3>3. TypeInv'
      BY <2>2, <3>1, <3>2, TypeParts, PTL
    <3> QED
      BY <2>3, <3>3
  <2>4. ASSUME Admitted(server), made' = made + 1,
               NEW a \in Addrs, conns[a].st = "free", NEW started \in BOOLEAN,
               peers' = [j \in 1..Len(peers) \cup {k} |-> IF j = k THEN q(a) ELSE peers[j]],
               conns' = [conns EXCEPT ![a] = IF started THEN Started(made + 1, server.ski, "init")
                                             ELSE [Started(made + 1, server.ski, "init") EXCEPT !.st = "dead"]]
        PROVE  TypeInv' /\ Served
    <3> DEFINE c == IF started THEN Started(made + 1, server.ski, "init")
                    ELSE [Started(made + 1, server.ski, "init") EXCEPT !.st = "dead"]
    <3>1. made + 1 \in Nat /\ server.ski \in Skis
      BY <2>1 DEF TypeInv, Skis
    <3>2. c \in Connection
      BY <3>1, StartedTyped
    <3>3. /\ c.st \in {"run", "dead"} /\ c.ski = server.ski /\ c.phase = "init"
          /\ c.inc = made + 1 /\ c.busy = "no" /\ c.box = <<>>
      BY DEF Started
    <3>4. conns' = [conns EXCEPT ![a] = c]
      BY <2>4
    <3>5. conns' \in [Addrs -> Connection]
      <4> HIDE DEF c
      <4> QED
        BY <3>2, <3>4 DEF TypeInv
    <3>6. k \in 1..(Len(peers) + 1) /\ AdmittedPeer(server) \in Peer
      BY <2>1, AdmittedFields
    <3>7. q(a) \in Peer
      BY <3>6 DEF ServerConnect, Peer
    <3>8. 1..Len(peers) \cup {k} = 1..(IF k <= Len(peers) THEN Len(peers) ELSE k)
      <4> HIDE DEF k
      <4> QED
        BY <1>0, <3>6
    <3>9. peers' \in Seq(Peer) /\ Len(peers') = IF k <= Len(peers) THEN Len(peers) ELSE k
      <4> DEFINE n == IF k <= Len(peers) THEN Len(peers) ELSE k
      <4>1. n \in Nat
        BY <1>0, <3>6
      <4>2. peers' \in [1..n -> Peer]
        <5>1. \A j \in 1..n : j = k \/ j \in 1..Len(peers)
          BY <3>8
        <5> HIDE DEF k, q
        <5> QED
          BY <1>0, <2>4, <3>7, <3>8, <5>1
      <4> QED
        BY <4>1, <4>2
    <3>10. Put(peers, peers', k, q(a))
      <4>1. \A j \in 1..Len(peers') : peers'[j] = IF j = k THEN q(a) ELSE peers[j]
        <5> HIDE DEF k, q
        <5> QED
          BY <2>4, <3>8, <3>9
      <4> QED
        BY <3>6, <3>7, <3>9, <4>1 DEF Put
    <3>11. Served
      <4> HIDE DEF c
      <4> QED
        BY <2>1, <2>4, <3>2, <3>3, <3>4, <3>10 DEF Served
    <3>12. TypeTable'
      BY <3>5, <3>9, TypeKept
    <3>13. TypeRest'
      BY <2>1, <2>4, <3>1, ConfigSame DEF TypeInv, TypeRest
    <3>14. TypeInv'
      BY <2>2, <3>12, <3>13, TypeParts, PTL
    <3> QED
      BY <3>11, <3>14
  <2>5. MayFail \in BOOLEAN
    BY ConfigAssumption DEF MayFail, TypeInv
  <2> HIDE DEF k, q
  <2> QED
    BY <1>2, <2>3, <2>4, <2>5 DEF OnWebsocketServerConnection, k, q
<1>3. ASSUME NEW d \in Devices, ServerAccept(d), OnWebsocketServerConnection PROVE FALSE
  BY <1>3 DEF ServerAccept, OnWebsocketServerConnection
<1> QED
  BY <1>1, <1>2, <1>3

(* A message is sent.                                                      *)
LEMMA SendTyped ==
    ASSUME TypeInv, config' = config, NEW m \in Allowed, HasRoom, queue' = Append(queue, m)
    PROVE  (queue \in Seq(Allowed) /\ Len(queue) <= QueueSize)'
<1>1. queue \in Seq(Allowed) /\ Len(queue) \in Nat /\ QueueSize \in Nat
  BY LenProperties, ConfigAssumption DEF TypeInv, QueueSize
<1>2. Append(queue, m) \in Seq(Allowed) /\ Len(Append(queue, m)) = Len(queue) + 1
  BY <1>1, AppendProperties
<1>3. Len(queue) + 1 <= QueueSize
  BY <1>1 DEF HasRoom
<1> QED
  BY <1>2, <1>3, ConfigSame

(* The thread of a connection that ends closes it and says so.             *)
LEMMA CloseStep ==
    ASSUME TypeInv, NEW a \in Addrs, CloseConnection(a)
    PROVE  /\ peers' \in Seq(Peer) /\ conns' \in [Addrs -> Connection]
           /\ \E i \in 0..Len(peers) :
                 /\ i = FindWithShipConnection(peers, a)
                 /\ Withdrew(peers, peers', i) /\ Len(peers') = Len(peers)
           /\ conns' = [conns EXCEPT ![a] = [conns[a] EXCEPT !.st = "shut", !.box = <<>>,
                                                             !.busy = IF cancel THEN "no" ELSE "post"]]
<1> DEFINE i == FindWithShipConnection(peers, a)
<1>0. peers \in Seq(Peer) /\ i \in 0..Len(peers)
  BY FindTyped DEF TypeInv
<1>1. Withdrew(peers, peers', i) /\ peers' \in Seq(Peer) /\ Len(peers') = Len(peers)
  <2>1. peers' = Withdraw(peers, i)
    BY DEF CloseConnection, HandleConnectionClosed
  <2> QED
    BY <1>0, <2>1, WithdrawFields
<1>2. conns[a] \in Connection
  BY DEF TypeInv
<1> DEFINE c == [conns[a] EXCEPT !.st = "shut", !.box = <<>>, !.busy = IF cancel THEN "no" ELSE "post"]
<1>3. conns' = [conns EXCEPT ![a] = c]
  BY DEF CloseConnection, Shut, TypeInv
<1>4. c \in Connection
  <2>1. <<>> \in Seq(Decision)
    OBVIOUS
  <2> QED
    BY <1>2, <2>1 DEF Connection
<1>5. conns' \in [Addrs -> Connection]
  <2> HIDE DEF c
  <2> QED
    BY <1>3, <1>4 DEF TypeInv
<1> QED
  BY <1>0, <1>1, <1>3, <1>5

(* A peer whose handshake is complete.                                     *)
LEMMA CompleteTyped ==
    ASSUME NEW p \in Peer
    PROVE  OnHandshakeComplete(p) \in Peer
<1>1. 0 \in 0..3
  OBVIOUS
<1>2. [p EXCEPT !.handshake_complete = TRUE] \in Peer
  BY DEF Peer
<1>3. ASSUME NEW q \in Peer PROVE [q EXCEPT !.attempt_cnt = 0] \in Peer
  BY <1>1 DEF Peer
<1>4. [p EXCEPT !.handshake_complete = TRUE, !.attempt_cnt = 0] \in Peer
  BY <1>2, <1>3
<1> QED
  BY <1>4 DEF OnHandshakeComplete

(* The thread of a connection keeps the types.                             *)
LEMMA TypeThread ==
    ASSUME TypeInv, config' = config, NEW a \in Addrs, ConnectionThread(a)
    PROVE  TypeInv'
<1>0. /\ peers \in Seq(Peer) /\ Len(peers) \in Nat /\ \A j \in 1..Len(peers) : peers[j] \in Peer
      /\ conns \in [Addrs -> Connection] /\ conns[a] \in Connection
  BY FindTyped DEF TypeInv
<1>1. CASE Hello(a)
  <2>1. \E ph \in Phases : conns' = [conns EXCEPT ![a] = [conns[a] EXCEPT !.phase = ph]]
    BY <1>0, <1>1 DEF Hello, Phases
  <2>2. conns' \in [Addrs -> Connection]
    <3>1. \A ph \in Phases : [conns[a] EXCEPT !.phase = ph] \in Connection
      BY <1>0 DEF Connection
    <3> QED
      BY <1>0, <2>1, <3>1
  <2>3. TypeTable' /\ TypeMessages' /\ TypeLoop' /\ TypeRest'
    BY <1>1, <2>2, TypeKept, <1>0 DEF Hello
  <2> QED
    BY <2>3, TypeParts, PTL
<1>2. CASE ConnectionEnds(a)
  <2>1. /\ CloseConnection(a) /\ Bound("closes", MaxCloses)
        /\ UNCHANGED <<queue, out, loop, server, pairing, stop, cancel, next_approval_id,
                   remote_fingerprint, mdns_entries, spine, made, approvals>>
    BY <1>2 DEF ConnectionEnds
  <2>2. TypeTable' /\ TypeMessages' /\ TypeLoop'
    BY <2>1, CloseStep, TypeKept
  <2>3. count' \in [{"closes", "accepts", "calls", "browse"} -> Nat]
    BY <2>1, BoundTyped DEF TypeInv
  <2>4. TypeRest'
    BY <2>1, <2>3, ConfigSame DEF TypeInv, TypeRest
  <2> QED
    BY <2>2, <2>4, TypeParts, PTL
<1>3. CASE PostConnectionClose(a)
  <2>1. /\ HasRoom /\ queue' = Append(queue, ClosedMsg(a))
        /\ conns' = [conns EXCEPT ![a] = [conns[a] EXCEPT !.busy = "no"]]
        /\ UNCHANGED <<peers, out, loop, server, pairing, stop, cancel, next_approval_id,
                       remote_fingerprint, mdns_entries, spine, made, count, approvals>>
    BY <1>0, <1>3 DEF PostConnectionClose
  <2>2. conns' \in [Addrs -> Connection]
    BY <1>0, <2>1 DEF Connection
  <2>3. TypeMessages'
    BY <1>0, <2>1, CloseMsg, SendTyped, ConfigSame DEF TypeMessages, TypeInv
  <2>4. TypeTable' /\ TypeLoop' /\ TypeRest'
    BY <1>0, <2>1, <2>2, TypeKept
  <2> QED
    BY <2>3, <2>4, TypeParts, PTL
<1>4. CASE ReadDecision(a)
  <2> DEFINE m == Head(conns[a].box)
             dropped == [conns EXCEPT ![a] = [conns[a] EXCEPT !.box = Tail(@)]]
  <2>0. conns[a].box \in Seq(Decision) /\ conns[a].box # <<>>
    BY <1>0, <1>4 DEF ReadDecision, Connection
  <2>1. m \in Decision /\ Tail(conns[a].box) \in Seq(Decision)
    BY <2>0, HeadTailProperties
  <2>2. UNCHANGED <<queue, out, loop, server, pairing, stop, cancel, next_approval_id,
                    remote_fingerprint, mdns_entries, spine, made, count>>
    BY <1>4 DEF ReadDecision
  <2>3. dropped \in [Addrs -> Connection] /\ [dropped EXCEPT ![a] = [dropped[a] EXCEPT !.phase = "ready"]] \in [Addrs -> Connection]
    <3>1. [conns[a] EXCEPT !.box = Tail(@)] \in Connection
      BY <1>0, <2>1 DEF Connection
    <3>2. dropped \in [Addrs -> Connection]
      BY <1>0, <3>1
    <3> HIDE DEF dropped
    <3>3. [dropped[a] EXCEPT !.phase = "ready"] \in Connection
      BY <3>2 DEF Connection, Phases
    <3> QED
      BY <3>2, <3>3
  <2>4. CASE AcceptPendingTrust(a, m.id) /\ conns' = [dropped EXCEPT ![a] = [dropped[a] EXCEPT !.phase = "ready"]] /\ AcceptsPendingTrust(a, m.id)
    <3> DEFINE i == FindWithShipConnection(peers, a)
    <3>1. i \in 1..Len(peers)
      BY <1>0, <2>4, FindTyped DEF AcceptsPendingTrust
    <3>2. peers[i] \in Peer
      BY <1>0, <3>1
    <3>3. peers' \in Seq(Peer)
      <4>1. [peers[i] EXCEPT !.pending_approval_id = 0, !.is_trusted = TRUE, !.provisional = FALSE] \in Peer
        BY <3>2 DEF Peer
      <4>2. \/ peers' = peers
            \/ peers' = [peers EXCEPT ![i] = [peers[i] EXCEPT !.pending_approval_id = 0, !.is_trusted = TRUE,
                                                               !.provisional = FALSE]]
        BY <1>0, <2>4, <3>1 DEF AcceptPendingTrust
      <4> QED
        BY <1>0, <3>1, <4>1, <4>2, ExceptSeq
    <3>4. approvals' \in [given : Seq(Nat), withdrawn : SUBSET Nat, accepted : SUBSET [id : Nat, inc : Nat]]
      <4>1. m.id \in Nat /\ conns[a].inc \in Nat
        BY <1>0, <2>1 DEF Decision, Connection
      <4>2. \/ approvals' = approvals
            \/ approvals' = [approvals EXCEPT !.accepted = @ \cup {[id |-> m.id, inc |-> conns[a].inc]}]
        BY <2>4 DEF AcceptPendingTrust
      <4> DEFINE z == [id |-> m.id, inc |-> conns[a].inc]
      <4>3. z \in [id : Nat, inc : Nat]
        BY <4>1
      <4>4. approvals' = approvals \/ approvals' = [approvals EXCEPT !.accepted = @ \cup {z}]
        BY <4>2
      <4>5. approvals \in [given : Seq(Nat), withdrawn : SUBSET Nat, accepted : SUBSET [id : Nat, inc : Nat]]
        BY DEF TypeInv
      <4> HIDE DEF m, z
      <4>6. approvals.accepted \cup {z} \in SUBSET [id : Nat, inc : Nat]
        BY <4>3, <4>5
      <4> QED
        BY <4>4, <4>5, <4>6
    <3>5. TypeTable' /\ TypeMessages' /\ TypeLoop'
      BY <2>2, <2>3, <2>4, <3>3, TypeKept
    <3>6. TypeRest'
      BY <2>2, <3>4, ConfigSame DEF TypeInv, TypeRest
    <3> QED
      BY <3>5, <3>6, TypeParts, PTL
  <2>5. CASE CloseConnection(a) /\ UNCHANGED approvals
    <3>1. TypeTable' /\ TypeMessages' /\ TypeLoop' /\ TypeRest'
      BY <2>2, <2>5, CloseStep, TypeKept
    <3> QED
      BY <3>1, TypeParts, PTL
  <2>6. CASE conns' = dropped /\ UNCHANGED <<peers, approvals>>
    <3>1. TypeTable' /\ TypeMessages' /\ TypeLoop' /\ TypeRest'
      BY <1>0, <2>2, <2>3, <2>6, TypeKept
    <3> QED
      BY <3>1, TypeParts, PTL
  <2> QED
    BY <1>0, <1>4, <2>4, <2>5, <2>6 DEF ReadDecision
<1>5. CASE SetupRemoteDevice(a)
  <2>1. /\ conns' = [conns EXCEPT ![a] = [conns[a] EXCEPT !.phase = "approved"]]
        /\ spine' = [spine EXCEPT ![conns[a].ski] = conns[a].inc]
        /\ UNCHANGED <<peers, queue, out, loop, server, pairing, stop, cancel, next_approval_id,
                       remote_fingerprint, mdns_entries, made, count, approvals>>
    BY <1>0, <1>5 DEF SetupRemoteDevice
  <2>2. conns' \in [Addrs -> Connection]
    BY <1>0, <2>1 DEF Connection, Phases
  <2>3. spine' \in [Skis -> Nat]
    <3>1. conns[a].inc \in Nat
      BY <1>0 DEF Connection
    <3> QED
      BY <2>1, <3>1 DEF TypeInv
  <2>4. TypeTable' /\ TypeMessages' /\ TypeLoop'
    BY <1>0, <2>1, <2>2, TypeKept
  <2>5. TypeRest'
    BY <2>1, <2>3, ConfigSame DEF TypeInv, TypeRest
  <2> QED
    BY <2>4, <2>5, TypeParts, PTL
<1>6. CASE HandleShipStateUpdate(a)
  <2> DEFINE i == FindWithSki(peers, conns[a].ski)
             q == OnHandshakeComplete(peers[i])
  <2>0. i \in 0..Len(peers)
    BY <1>0, FindTyped
  <2>1. /\ conns' = [conns EXCEPT ![a] = [conns[a] EXCEPT !.phase = "data"]]
        /\ peers' = IF i = 0 THEN peers ELSE [peers EXCEPT ![i] = q]
        /\ UNCHANGED <<queue, out, loop, server, pairing, stop, cancel, next_approval_id,
                       remote_fingerprint, mdns_entries, spine, made, count, approvals>>
    BY <1>0, <1>6 DEF HandleShipStateUpdate
  <2>2. conns' \in [Addrs -> Connection]
    BY <1>0, <2>1 DEF Connection, Phases
  <2>3. peers' \in Seq(Peer)
    <3>1. CASE i = 0
      BY <1>0, <2>1, <3>1
    <3>2. CASE i # 0
      <4>1. i \in 1..Len(peers) /\ peers[i] \in Peer
        BY <1>0, <2>0, <3>2
      <4>2. q \in Peer
        BY <4>1, CompleteTyped
      <4> QED
        BY <1>0, <2>1, <3>2, <4>1, <4>2, ExceptSeq
    <3> QED
      BY <3>1, <3>2
  <2>4. TypeTable' /\ TypeMessages' /\ TypeLoop' /\ TypeRest'
    BY <1>0, <2>1, <2>2, <2>3, TypeKept
  <2> QED
    BY <2>4, TypeParts, PTL
<1>7. ASSUME NEW d \in Devices, ReportServiceShipId(a, d) PROVE TypeInv'
  <2> DEFINE i == FindWithSki(peers, conns[a].ski)
             q == [peers[i] EXCEPT !.ship_id = d.id]
  <2>1. /\ peers' = [peers EXCEPT ![i] = q] /\ i # 0
        /\ UNCHANGED <<conns, queue, out, loop, server, pairing, stop, cancel, next_approval_id,
                       remote_fingerprint, mdns_entries, spine, made, count, approvals>>
    BY <1>7 DEF ReportServiceShipId
  <2>2. i \in 1..Len(peers) /\ peers[i] \in Peer /\ d.id \in Ids
    BY <1>0, <2>1, FindTyped DEF Ids
  <2>3. q \in Peer
    BY <2>2 DEF Peer
  <2>4. peers' \in Seq(Peer)
    BY <1>0, <2>1, <2>2, <2>3, ExceptSeq
  <2>5. TypeTable' /\ TypeMessages' /\ TypeLoop' /\ TypeRest'
    BY <1>0, <2>1, <2>4, TypeKept
  <2> QED
    BY <2>5, TypeParts, PTL
<1> QED
  BY <1>1, <1>2, <1>3, <1>4, <1>5, <1>6, <1>7 DEF ConnectionThread

(* A thread sends, a timer fires or its callback sends.                    *)
LEMMA TypeSend ==
    ASSUME TypeInv, config' = config, NEW t \in Threads, Send(t)
    PROVE  TypeInv' /\ Head(out[t]) \in Allowed
<1>1. out[t] \in Seq(Allowed) /\ out[t] # <<>>
  BY DEF TypeInv, Send, Idle
<1>2. Head(out[t]) \in Allowed /\ Tail(out[t]) \in Seq(Allowed)
  BY <1>1, HeadTailProperties
<1>3. /\ HasRoom /\ queue' = Append(queue, Head(out[t]))
      /\ out' = [out EXCEPT ![t] = Tail(out[t])]
      /\ UNCHANGED <<peers, conns, loop, server, pairing, stop, cancel, next_approval_id,
                     remote_fingerprint, mdns_entries, spine, made, count, approvals>>
  BY DEF Send
<1>4. TypeMessages'
  <2>1. (queue \in Seq(Allowed) /\ Len(queue) <= QueueSize)'
    BY <1>2, <1>3, SendTyped
  <2>2. out' \in [Threads -> Seq(Allowed)]'
    BY <1>2, <1>3, PostTyped DEF Post, TypeInv
  <2> QED
    BY <2>1, <2>2 DEF TypeMessages
<1>5. TypeTable' /\ TypeLoop' /\ TypeRest'
  BY <1>3, TypeKept
<1>6. TypeInv'
  BY <1>4, <1>5, TypeParts, PTL
<1> QED
  BY <1>2, <1>6

(* A retry timer keeps the types.                                          *)
LEMMA TypeTimer ==
    ASSUME TypeInv, config' = config, NEW i \in DOMAIN peers, RetryTimer(i)
    PROVE  TypeInv'
<1>0. peers \in Seq(Peer) /\ i \in 1..Len(peers) /\ peers[i] \in Peer
  BY ElementOfSeq DEF TypeInv
<1>1. CASE RetryTimerFires(i)
  <2> DEFINE q == [peers[i] EXCEPT !.retry = "expired", !.due = IF cancel THEN None ELSE peers[i].ski]
  <2>1. /\ peers' = [peers EXCEPT ![i] = q]
        /\ UNCHANGED <<conns, queue, out, loop, server, pairing, stop, cancel, next_approval_id,
                       remote_fingerprint, mdns_entries, spine, made, count, approvals>>
    BY <1>0, <1>1 DEF RetryTimerFires
  <2>2. q \in Peer
    <3>1. peers[i].ski \in Skis \cup {None}
      BY <1>0 DEF Peer
    <3>2. (IF cancel THEN None ELSE peers[i].ski) \in Skis \cup {None}
      BY <3>1
    <3> DEFINE s == IF cancel THEN None ELSE peers[i].ski
    <3>3. s \in Skis \cup {None}
      BY <3>2
    <3> HIDE DEF s
    <3>4. [peers[i] EXCEPT !.retry = "expired"] \in Peer
      BY <1>0 DEF Peer
    <3>5. \A u \in Peer : [u EXCEPT !.due = s] \in Peer
      BY <3>3 DEF Peer
    <3>6. q = [[peers[i] EXCEPT !.retry = "expired"] EXCEPT !.due = s]
      BY DEF s
    <3> QED
      BY <3>4, <3>5, <3>6
  <2>3. peers' \in Seq(Peer)
    BY <1>0, <2>1, <2>2, ExceptSeq
  <2>4. TypeTable' /\ TypeMessages' /\ TypeLoop' /\ TypeRest'
    BY <2>1, <2>3, TypeKept
  <2> QED
    BY <2>4, TypeParts, PTL
<1>2. CASE RetryTimerPosts(i)
  <2> DEFINE q == [peers[i] EXCEPT !.due = None]
             m == SkiMsg("RetryConnectionForSki", peers[i].due)
  <2>1. /\ peers' = [peers EXCEPT ![i] = q] /\ queue' = Append(queue, m) /\ HasRoom
        /\ UNCHANGED <<conns, out, loop, server, pairing, stop, cancel, next_approval_id,
                       remote_fingerprint, mdns_entries, spine, made, count, approvals>>
    BY <1>0, <1>2 DEF RetryTimerPosts
  <2>2. q \in Peer
    BY <1>0 DEF Peer
  <2>3. peers' \in Seq(Peer)
    BY <1>0, <2>1, <2>2, ExceptSeq
  <2>4. m \in Allowed
    <3>1. peers[i].due \in Skis
      BY <1>0, <1>2 DEF Peer, RetryTimerPosts, Firing
    <3> QED
      BY <3>1, MsgTyped DEF MsgTypes
  <2>5. TypeMessages'
    <3> HIDE DEF m
    <3>1. (queue \in Seq(Allowed) /\ Len(queue) <= QueueSize)'
      BY <2>1, <2>4, SendTyped
    <3> QED
      BY <2>1, <3>1, ConfigSame DEF TypeInv, TypeMessages
  <2>6. TypeTable' /\ TypeLoop' /\ TypeRest'
    BY <2>1, <2>3, TypeKept
  <2> QED
    BY <2>5, <2>6, TypeParts, PTL
<1> QED
  BY <1>1, <1>2 DEF RetryTimer

(* A connection that is deleted.                                           *)
LEMMA DisconnectTyped ==
    ASSUME TypeInv, NEW s, NEW a, Disconnected(s, a)
    PROVE  conns' \in [Addrs -> Connection] /\ spine' \in [Skis -> Nat]
<1>1. Free \in Connection
  <2>1. <<>> \in Seq(Decision)
    OBVIOUS
  <2> QED
    BY <2>1 DEF Connection, Phases, Free
<1> QED
  BY <1>1 DEF Disconnected, TypeInv

(* A peer that Stop releases.                                              *)
Released(p) == [p EXCEPT !.connection = None, !.pending_approval_id = 0, !.retry = "off"]

(* StopReleases releases the peer it has come to.                          *)
LEMMA ReleaseStep ==
    ASSUME TypeInv, LoopInv, StopReleases
    PROVE  /\ stop.i \in 1..Len(peers) /\ peers[stop.i] \in Peer
           /\ Put(peers, peers', stop.i, Released(peers[stop.i]))
<1>0. peers \in Seq(Peer) /\ Len(peers) \in Nat /\ stop.i \in Nat
  BY FindTyped DEF TypeInv, Stops
<1>1. stop.i \in 1..Len(peers)
  BY <1>0 DEF StopReleases, LoopInv
<1>2. peers[stop.i] \in Peer
  BY <1>0, <1>1, ElementOfSeq
<1>3. Released(peers[stop.i]) \in Peer
  BY <1>2 DEF Released, Peer
<1>4. peers' = [peers EXCEPT ![stop.i] = Released(peers[stop.i])]
  BY DEF StopReleases, ReleaseShipConnection, Released
<1> QED
  BY <1>0, <1>1, <1>2, <1>3, <1>4, EditPut

(* The caller of Stop keeps the types.                                     *)
LEMMA TypeStop ==
    ASSUME TypeInv, config' = config, LoopInv, StopCaller
    PROVE  TypeInv'
<1>0. stop \in Stops /\ loop \in Loops /\ loop.msg \in Allowed /\ cancel \in BOOLEAN
  BY DEF TypeInv
<1>1. CASE StopBegins
  <2>1. TypeTable' /\ TypeMessages' /\ TypeRest'
    BY <1>1, TypeKept DEF StopBegins
  <2>2. TypeLoop'
    BY <1>0, <1>1, ConfigSame DEF StopBegins, TypeLoop, Stops
  <2> QED
    BY <2>1, <2>2, TypeParts, PTL
<1>2. CASE StopSends
  <2>1. Msg("Cancel") \in Allowed
    BY MsgTyped DEF MsgTypes
  <2>2. (queue \in Seq(Allowed) /\ Len(queue) <= QueueSize)'
    BY <1>2, <2>1, SendTyped DEF StopSends
  <2>3. TypeMessages'
    BY <1>2, <2>2, ConfigSame DEF StopSends, TypeInv, TypeMessages
  <2>4. TypeTable' /\ TypeRest'
    BY <1>2, TypeKept DEF StopSends
  <2>5. TypeLoop'
    BY <1>0, <1>2, ConfigSame DEF StopSends, TypeLoop, Stops
  <2> QED
    BY <2>3, <2>4, <2>5, TypeParts, PTL
<1>3. CASE StopJoinsLoop \/ StopLeavesLoop \/ StopEnds
  <2>1. TypeTable' /\ TypeMessages' /\ TypeRest'
    BY <1>3, TypeKept DEF StopJoinsLoop, StopLeavesLoop, StopEnds
  <2>2. TypeLoop'
    <3>1. stop' \in Stops
      <4>1. CASE StopJoinsLoop
        BY <1>0, <4>1 DEF StopJoinsLoop, Stops
      <4>2. CASE StopLeavesLoop
        BY <1>0, <4>2 DEF StopLeavesLoop, Stops
      <4>3. CASE StopEnds
        BY <1>0, <4>3 DEF StopEnds, Stops
      <4> QED
        BY <1>3, <4>1, <4>2, <4>3
    <3>2. UNCHANGED <<loop, cancel>>
      BY <1>3 DEF StopJoinsLoop, StopLeavesLoop, StopEnds
    <3> QED
      BY <1>0, <3>1, <3>2, ConfigSame DEF TypeLoop, Stops
  <2> QED
    BY <2>1, <2>2, TypeParts, PTL
<1>4. CASE StopReleases
  <2>1. peers' \in Seq(Peer) /\ peers[stop.i] \in Peer
    BY <1>4, ReleaseStep DEF Put
  <2>2. TypeTable' /\ TypeMessages' /\ TypeRest'
    BY <1>4, <2>1, TypeKept DEF StopReleases
  <2>3. peers[stop.i].connection \in Addrs \cup {None}
    BY <2>1 DEF Peer
  <2>4. TypeLoop'
    <3>1. \/ stop' = [stop EXCEPT !.i = stop.i + 1]
          \/ stop' = [stop EXCEPT !.at = "conn", !.sc = peers[stop.i].connection]
      BY <1>4 DEF StopReleases
    <3>2. stop.i + 1 \in Nat
      BY <1>0 DEF Stops
    <3>3. stop' \in Stops
      <4>1. CASE stop' = [stop EXCEPT !.i = stop.i + 1]
        BY <1>0, <3>2, <4>1 DEF Stops
      <4>2. CASE stop' = [stop EXCEPT !.at = "conn", !.sc = peers[stop.i].connection]
        BY <1>0, <2>3, <4>2 DEF Stops
      <4> QED
        BY <3>1, <4>1, <4>2
    <3>4. UNCHANGED <<loop, cancel>>
      BY <1>4 DEF StopReleases
    <3> QED
      BY <1>0, <3>3, <3>4, ConfigSame DEF TypeLoop, Stops
  <2> QED
    BY <2>2, <2>4, TypeParts, PTL
<1>5. CASE StopDeletes
  <2>1. conns' \in [Addrs -> Connection] /\ spine' \in [Skis -> Nat]
    BY <1>5, DisconnectTyped DEF StopDeletes
  <2>2. /\ UNCHANGED <<peers, queue, out, loop, server, pairing, cancel, next_approval_id,
                       remote_fingerprint, mdns_entries, made, count, approvals>>
        /\ stop' = [at |-> "each", i |-> stop.i + 1, sc |-> None]
    BY <1>5 DEF StopDeletes
  <2>3. TypeTable' /\ TypeMessages'
    BY <2>1, <2>2, TypeKept DEF TypeInv
  <2>4. TypeLoop'
    <3>1. stop.i + 1 \in Nat
      BY <1>0 DEF Stops
    <3>2. stop' \in Stops
      BY <2>2, <3>1 DEF Stops
    <3> QED
      BY <1>0, <2>2, <3>2, ConfigSame DEF TypeLoop, Stops
  <2>5. TypeRest'
    BY <2>1, <2>2, ConfigSame DEF TypeInv, TypeRest
  <2> QED
    BY <2>3, <2>4, <2>5, TypeParts, PTL
<1> QED
  BY <1>1, <1>2, <1>3, <1>4, <1>5 DEF StopCaller

(* A peer whose connection has ended.                                      *)
LEMMA ClosedFields ==
    ASSUME NEW p \in Peer
    PROVE  LET q == OnConnectionClosed(p)
           IN  /\ q \in Peer /\ ScheduleRetry(q) \in Peer
               /\ q.ski = p.ski /\ q.connection = None /\ q.pending_approval_id = 0
               /\ ~q.is_attempt_running /\ ~q.handshake_complete
               /\ q.is_trusted = p.is_trusted /\ q.provisional = p.provisional
               /\ q.trusted_by_pairing = p.trusted_by_pairing
               /\ q.expected_fingerprint = p.expected_fingerprint
               /\ q.ship_id = p.ship_id /\ q.peer_fingerprint = None
               /\ q.retry = p.retry /\ q.due = p.due
               /\ ScheduleRetry(q) = [q EXCEPT !.retry = "armed"]
<1> DEFINE r == [p EXCEPT !.connection = None, !.pending_approval_id = 0]
           u == [r EXCEPT !.is_attempt_running = FALSE, !.handshake_complete = FALSE]
           v == [u EXCEPT !.peer_fingerprint = None]
           n == IF v.attempt_cnt < 3 THEN v.attempt_cnt + 1 ELSE 3
           q == [v EXCEPT !.attempt_cnt = n]
<1>1. /\ r \in Peer /\ r.connection = None /\ r.pending_approval_id = 0 /\ r.ski = p.ski
      /\ r.is_trusted = p.is_trusted /\ r.provisional = p.provisional
      /\ r.trusted_by_pairing = p.trusted_by_pairing
      /\ r.expected_fingerprint = p.expected_fingerprint
      /\ r.ship_id = p.ship_id /\ r.retry = p.retry /\ r.due = p.due
  BY DEF Peer
<1> HIDE DEF r
<1>2. /\ u \in Peer /\ u.connection = r.connection /\ u.pending_approval_id = r.pending_approval_id
      /\ u.ski = r.ski /\ ~u.is_attempt_running /\ ~u.handshake_complete
      /\ u.is_trusted = r.is_trusted /\ u.provisional = r.provisional
      /\ u.trusted_by_pairing = r.trusted_by_pairing
      /\ u.expected_fingerprint = r.expected_fingerprint
      /\ u.ship_id = r.ship_id /\ u.retry = r.retry /\ u.due = r.due
  <2>1. u \in Peer
    BY <1>1, FlagTyped
  <2>2. DOMAIN r = DOMAIN NodeConnection(None)
    BY <1>1 DEF NodeConnection, Peer
  <2>3. ~u.is_attempt_running /\ ~u.handshake_complete
    BY <2>2 DEF NodeConnection
  <2>4. /\ u.connection = r.connection /\ u.pending_approval_id = r.pending_approval_id
        /\ u.ski = r.ski /\ u.is_trusted = r.is_trusted /\ u.provisional = r.provisional
        /\ u.trusted_by_pairing = r.trusted_by_pairing
        /\ u.expected_fingerprint = r.expected_fingerprint
        /\ u.ship_id = r.ship_id /\ u.retry = r.retry /\ u.due = r.due
    BY <2>2 DEF NodeConnection
  <2> QED
    BY <2>1, <2>3, <2>4
<1> HIDE DEF u
<1>3. /\ v \in Peer /\ v.connection = u.connection /\ v.pending_approval_id = u.pending_approval_id
      /\ v.ski = u.ski /\ v.is_attempt_running = u.is_attempt_running
      /\ v.handshake_complete = u.handshake_complete
      /\ v.is_trusted = u.is_trusted /\ v.provisional = u.provisional
      /\ v.trusted_by_pairing = u.trusted_by_pairing
      /\ v.expected_fingerprint = u.expected_fingerprint
      /\ v.ship_id = u.ship_id /\ v.retry = u.retry /\ v.due = u.due /\ v.peer_fingerprint = None
  BY <1>2 DEF Peer
<1> HIDE DEF v
<1>4. n \in 0..3
  <2>1. v.attempt_cnt \in 0..3
    BY <1>3 DEF Peer
  <2> QED
    BY <2>1
<1> HIDE DEF n
<1>5. /\ q \in Peer /\ q.connection = v.connection /\ q.pending_approval_id = v.pending_approval_id
      /\ q.ski = v.ski /\ q.is_attempt_running = v.is_attempt_running
      /\ q.handshake_complete = v.handshake_complete
      /\ q.is_trusted = v.is_trusted /\ q.provisional = v.provisional
      /\ q.trusted_by_pairing = v.trusted_by_pairing
      /\ q.expected_fingerprint = v.expected_fingerprint
      /\ q.ship_id = v.ship_id /\ q.retry = v.retry /\ q.due = v.due
      /\ q.peer_fingerprint = v.peer_fingerprint
  BY <1>3, <1>4 DEF Peer
<1>6. OnConnectionClosed(p) = q
  BY DEF OnConnectionClosed, r, u, v, n
<1> HIDE DEF q
<1>7. ScheduleRetry(q) \in Peer
  BY <1>5 DEF ScheduleRetry, Peer
<1>8. ScheduleRetry(q) = [q EXCEPT !.retry = "armed"]
  BY DEF ScheduleRetry
<1>9. q.connection = None /\ q.pending_approval_id = 0 /\ ~q.is_attempt_running /\ ~q.handshake_complete
  BY <1>1, <1>2, <1>3, <1>5
<1>10. /\ q.ski = p.ski /\ q.is_trusted = p.is_trusted /\ q.provisional = p.provisional
       /\ q.trusted_by_pairing = p.trusted_by_pairing
       /\ q.expected_fingerprint = p.expected_fingerprint
       /\ q.ship_id = p.ship_id /\ q.peer_fingerprint = None
       /\ q.retry = p.retry /\ q.due = p.due
  BY <1>1, <1>2, <1>3, <1>5
<1> QED
  BY <1>5, <1>6, <1>7, <1>8, <1>9, <1>10

(* The loop has taken the connection from its peer.                        *)
Closed(i) ==
    LET p == peers[i]
        q == OnConnectionClosed(p)
    IN  /\ i \in 1..Len(peers) /\ p \in Peer /\ p.connection = loop.msg.sc /\ loop.msg.sc \in Addrs
        /\ \/ Discarded(p) /\ Cut(peers, peers', i)
           \/ /\ ~Discarded(p) /\ Put(peers, peers', i, q)
              /\ cancel \/ ~RetryDelay(q.attempt_cnt)
           \/ /\ ~Discarded(p) /\ ~cancel /\ RetryDelay(q.attempt_cnt) /\ ~Firing(p)
              /\ Put(peers, peers', i, ScheduleRetry(q))
        /\ loop' = [loop EXCEPT !.at = "stop", !.sc = loop.msg.sc, !.ski = p.ski,
                                !.dial = ~Discarded(p) /\ ~RetryDelay(q.attempt_cnt)]

(* CloseShipConnection finds no peer with the connection, or takes it.     *)
LEMMA ClosedStep ==
    ASSUME TypeInv, Table(peers, conns), CloseShipConnection
    PROVE  \/ /\ FindWithShipConnection(peers, loop.msg.sc) = 0
              /\ loop' = LoopIdle /\ UNCHANGED peers
           \/ Closed(FindWithShipConnection(peers, loop.msg.sc))
<1> DEFINE i == FindWithShipConnection(peers, loop.msg.sc)
           p == peers[i]
           q == OnConnectionClosed(p)
<1>0. peers \in Seq(Peer) /\ Len(peers) \in Nat /\ \A j \in 1..Len(peers) : peers[j] \in Peer
  BY FindTyped DEF TypeInv
<1>1. CASE i = 0
  BY <1>1 DEF CloseShipConnection, Done
<1>2. CASE i # 0
  <2>1. i \in 1..Len(peers) /\ p.connection = loop.msg.sc /\ loop.msg.sc # None
    BY <1>0, <1>2, HolderFields
  <2>2. p \in Peer /\ loop.msg.sc \in Addrs
    <3>1. p \in Peer
      BY <1>0, <2>1
    <3> QED
      BY <2>1, <3>1 DEF Peer
  <2>3. q \in Peer /\ ScheduleRetry(q) \in Peer
    BY <2>2, ClosedFields
  <2>4. FindWithSki(peers, p.ski) = i
    <3>1. p.ski # None
      BY <2>1 DEF Table
    <3> DEFINE j == FindWithSki(peers, p.ski)
    <3>2. j \in 1..Len(peers) /\ peers[j].ski = p.ski
      BY <1>0, <2>1, <3>1, SkiFields
    <3> HIDE DEF j, i
    <3> QED
      BY <2>1, <3>1, <3>2 DEF Table, j, i
  <2>5. loop' = [loop EXCEPT !.at = "stop", !.sc = loop.msg.sc, !.ski = p.ski,
                             !.dial = ~Discarded(p) /\ ~RetryDelay(q.attempt_cnt)]
    BY <1>2 DEF CloseShipConnection, Reap
  <2>6. CASE Discarded(p)
    <3> DEFINE z == [peers EXCEPT ![i] = q]
    <3>1. peers' = RemoveAt(z, i)
      BY <1>2, <2>4, <2>6 DEF CloseShipConnection, RemovePeer
    <3>2. z \in Seq(Peer) /\ Len(z) = Len(peers) /\ \A j \in 1..Len(peers) : j # i => z[j] = peers[j]
      BY <1>0, <2>1, <2>3, ExceptSeq
    <3> HIDE DEF z
    <3>3. Cut(z, RemoveAt(z, i), i)
      BY <2>1, <3>2, RemoveCut
    <3>4. \A j \in 1..(Len(peers) - 1) : j + 1 \in 1..Len(peers) /\ j \in 1..Len(peers)
      BY <1>0
    <3>5. Cut(peers, peers', i)
      <4> HIDE DEF i
      <4>1. \A j \in 1..(Len(peers) - 1) : RemoveAt(z, i)[j] = IF j < i THEN z[j] ELSE z[j + 1]
        BY <3>2, <3>3 DEF Cut
      <4>2. \A j \in 1..(Len(peers) - 1) : IF j < i THEN j # i ELSE j + 1 # i
        BY <1>0, <2>1
      <4>3. \A j \in 1..(Len(peers) - 1) : RemoveAt(z, i)[j] = IF j < i THEN peers[j] ELSE peers[j + 1]
        BY <3>2, <3>4, <4>1, <4>2
      <4> QED
        BY <2>1, <3>1, <3>2, <3>3, <4>3 DEF Cut
    <3> QED
      BY <2>1, <2>2, <2>5, <2>6, <3>5 DEF Closed
  <2>7. CASE ~Discarded(p) /\ ~cancel /\ RetryDelay(q.attempt_cnt)
    <3>1. ~Firing(p) /\ peers' = [peers EXCEPT ![i] = ScheduleRetry(q)]
      BY <1>2, <2>7 DEF CloseShipConnection
    <3>2. Put(peers, peers', i, ScheduleRetry(q))
      BY <1>0, <2>1, <2>3, <3>1, EditPut
    <3> QED
      BY <2>1, <2>2, <2>5, <2>7, <3>1, <3>2 DEF Closed
  <2>8. CASE ~Discarded(p) /\ (cancel \/ ~RetryDelay(q.attempt_cnt))
    <3>1. peers' = [peers EXCEPT ![i] = q]
      BY <1>2, <2>8 DEF CloseShipConnection
    <3>2. Put(peers, peers', i, q)
      BY <1>0, <2>1, <2>3, <3>1, EditPut
    <3> QED
      BY <2>1, <2>2, <2>5, <2>8, <3>2 DEF Closed
  <2> QED
    BY <2>6, <2>7, <2>8
<1> QED
  BY <1>1, <1>2

(* The loop and its locals.                                                *)
Places == {"idle", "receive", "handle", "dial", "stop", "post", "stopped", "abort", "remove",
           "approve", "promote", "revoke", "exit"}

(* The loop with another value in one of its locals.                       *)
LEMMA LoopTyped ==
    ASSUME NEW l \in Loops
    PROVE  /\ LoopIdle \in Loops /\ LoopIdle.msg \in Allowed
           /\ \A x \in Places : [l EXCEPT !.at = x] \in Loops /\ [l EXCEPT !.at = x].msg = l.msg
           /\ \A x \in Addrs \cup {None} : [l EXCEPT !.sc = x] \in Loops /\ [l EXCEPT !.sc = x].msg = l.msg
           /\ \A x \in Skis \cup {None} : [l EXCEPT !.ski = x] \in Loops /\ [l EXCEPT !.ski = x].msg = l.msg
           /\ \A x \in BOOLEAN : [l EXCEPT !.dial = x] \in Loops /\ [l EXCEPT !.dial = x].msg = l.msg
           /\ \A x \in Nat : [l EXCEPT !.i = x] \in Loops /\ [l EXCEPT !.i = x].msg = l.msg
           /\ \A x \in Nat : [l EXCEPT !.n = x] \in Loops /\ [l EXCEPT !.n = x].msg = l.msg
           /\ \A x \in Allowed : [l EXCEPT !.msg = x] \in Loops /\ [l EXCEPT !.msg = x].msg = x
<1>1. Msg("Cancel") \in Allowed /\ Allowed \subseteq Message
  BY MsgTyped DEF MsgTypes, Allowed
<1>2. LoopIdle \in Loops /\ LoopIdle.msg \in Allowed
  BY <1>1 DEF Loops, LoopIdle
<1>3. \A x \in Places : [l EXCEPT !.at = x] \in Loops /\ [l EXCEPT !.at = x].msg = l.msg
  BY DEF Loops, Places
<1>4. \A x \in Addrs \cup {None} : [l EXCEPT !.sc = x] \in Loops /\ [l EXCEPT !.sc = x].msg = l.msg
  BY DEF Loops
<1>5. \A x \in Skis \cup {None} : [l EXCEPT !.ski = x] \in Loops /\ [l EXCEPT !.ski = x].msg = l.msg
  BY DEF Loops
<1>6. \A x \in BOOLEAN : [l EXCEPT !.dial = x] \in Loops /\ [l EXCEPT !.dial = x].msg = l.msg
  BY DEF Loops
<1>7. \A x \in Nat : [l EXCEPT !.i = x] \in Loops /\ [l EXCEPT !.i = x].msg = l.msg
  BY DEF Loops
<1>8. \A x \in Nat : [l EXCEPT !.n = x] \in Loops /\ [l EXCEPT !.n = x].msg = l.msg
  BY DEF Loops
<1>9. \A x \in Allowed : [l EXCEPT !.msg = x] \in Loops /\ [l EXCEPT !.msg = x].msg = x
  BY <1>1 DEF Loops
<1> QED
  BY <1>2, <1>3, <1>4, <1>5, <1>6, <1>7, <1>8, <1>9

(* A peer is registered by its SKI,                                        *)
Enrolled(p, b) == [p EXCEPT !.is_trusted = b, !.provisional = FALSE, !.pending_approval_id = 0]

(* ShipNodeRegisterSki enrols the peer with the SKI, or a new one.         *)
LEMMA EnrolStep ==
    ASSUME TypeInv, ShipNodeRegisterSki
    PROVE  \E k \in 1..(Len(peers) + 1) :
              /\ loop.msg.ski \in Skis /\ loop.msg.trust \in BOOLEAN
              /\ k <= Len(peers) => peers[k].ski = loop.msg.ski
              /\ k > Len(peers) => \A j \in 1..Len(peers) : peers[j].ski # loop.msg.ski
              /\ Entry(peers, k, loop.msg.ski) \in Peer
              /\ Put(peers, peers', k, Enrolled(Entry(peers, k, loop.msg.ski), loop.msg.trust))
<1> DEFINE s == loop.msg.ski
           i == FindWithSki(peers, s)
           ps == IF i = 0 THEN Append(peers, NodeConnection(s)) ELSE peers
           k == IF i = 0 THEN Len(ps) ELSE i
           p == Entry(peers, k, s)
           q == Enrolled(p, loop.msg.trust)
<1>0. peers \in Seq(Peer) /\ Len(peers) \in Nat /\ \A j \in 1..Len(peers) : peers[j] \in Peer
  BY FindTyped DEF TypeInv
<1>1. s \in Skis /\ loop.msg.trust \in BOOLEAN /\ None \notin Skis
  <2>1. loop.msg \in Message /\ loop.msg.type = "ShipRegisterSki"
    BY DEF TypeInv, Allowed, ShipNodeRegisterSki, Handles
  <2>2. None \notin Skis
    BY NoneIsNone DEF TypeInv
  <2> QED
    BY <2>1, <2>2 DEF Message
<1>2. NodeConnection(s) \in Peer
  BY <1>1, NewPeer
<1>3. peers' = [ps EXCEPT ![k] = Enrolled(ps[k], loop.msg.trust)]
  BY DEF ShipNodeRegisterSki, Enrolled
<1>4. ASSUME NEW r \in Peer PROVE Enrolled(r, loop.msg.trust) \in Peer
  <2>1. [r EXCEPT !.is_trusted = loop.msg.trust] \in Peer
    BY <1>1, FlagTyped
  <2>2. ASSUME NEW u \in Peer PROVE [u EXCEPT !.provisional = FALSE, !.pending_approval_id = 0] \in Peer
    BY ZenonT(60) DEF Peer
  <2> QED
    BY <2>1, <2>2 DEF Enrolled
<1>5. CASE i = 0
  <2>1. /\ Len(Append(peers, NodeConnection(s))) = Len(peers) + 1
        /\ Append(peers, NodeConnection(s))[Len(peers) + 1] = NodeConnection(s)
    BY <1>0, <1>2, AppendProperties
  <2>2. k = Len(peers) + 1 /\ ps[k] = NodeConnection(s)
    BY <1>5, <2>1
  <2>3. p = NodeConnection(s) /\ p \in Peer
    BY <1>0, <1>2, <2>2 DEF Entry
  <2>4. Put(peers, peers', k, q)
    BY <1>0, <1>2, <1>3, <1>4, <1>5, <2>2, <2>3, AddPut
  <2>5. \A j \in 1..Len(peers) : peers[j].ski # s
    BY <1>0, <1>1, <1>5, SkiFields
  <2> QED
    BY <1>0, <1>1, <2>2, <2>3, <2>4, <2>5
<1>6. CASE i # 0
  <2>1. k = i /\ i \in 1..Len(peers) /\ peers[i].ski = s
    BY <1>0, <1>6, SkiFields
  <2>2. p = peers[k] /\ p \in Peer /\ ps = peers
    BY <1>0, <1>6, <2>1 DEF Entry
  <2>3. Put(peers, peers', k, q)
    BY <1>0, <1>3, <1>4, <2>1, <2>2, EditPut
  <2> QED
    BY <1>0, <1>1, <2>1, <2>2, <2>3
<1> QED
  BY <1>5, <1>6

(* promoted by its fingerprint,                                            *)
Promoted(p, fp) ==
    [p EXCEPT !.is_trusted = TRUE, !.provisional = FALSE, !.trusted_by_pairing = TRUE,
              !.expected_fingerprint = fp]

(* LoopPromotes promotes a peer that showed the fingerprint, or none.      *)
LEMMA PromoteStep ==
    ASSUME TypeInv, LoopInv, LoopPromotes
    PROVE  \/ UNCHANGED <<peers, conns>>
           \/ /\ loop.i \in 1..Len(peers) /\ peers[loop.i] \in Peer
              /\ peers[loop.i].connection \in Addrs /\ remote_fingerprint \in Fps
              /\ peers[loop.i].peer_fingerprint = remote_fingerprint
              /\ Put(peers, peers', loop.i, Promoted(peers[loop.i], remote_fingerprint))
              /\ PostDecision(peers[loop.i].connection, TRUE, 0)
<1> SUFFICES ASSUME ~UNCHANGED <<peers, conns>>
             PROVE  /\ loop.i \in 1..Len(peers) /\ peers[loop.i] \in Peer
                    /\ peers[loop.i].connection \in Addrs /\ remote_fingerprint \in Fps
                    /\ peers[loop.i].peer_fingerprint = remote_fingerprint
                    /\ Put(peers, peers', loop.i, Promoted(peers[loop.i], remote_fingerprint))
                    /\ PostDecision(peers[loop.i].connection, TRUE, 0)
  OBVIOUS
<1> DEFINE p == peers[loop.i]
<1>0. /\ peers \in Seq(Peer) /\ Len(peers) \in Nat /\ loop.i \in Nat /\ loop.n \in Nat
      /\ remote_fingerprint \in Fps \cup {None}
  BY FindTyped DEF TypeInv, Loops
<1>1. /\ ~(loop.i > loop.n) /\ p.connection # None
      /\ FingerprintMatches(p.peer_fingerprint, remote_fingerprint)
      /\ peers' = [peers EXCEPT ![loop.i] = Promoted(p, remote_fingerprint)]
      /\ PostDecision(p.connection, TRUE, 0)
  BY DEF LoopPromotes, Promoted
<1>2. loop.i # 0 /\ loop.n <= Len(peers)
  BY DEF LoopInv, LoopPromotes
<1>3. loop.i \in 1..Len(peers)
  BY <1>0, <1>1, <1>2
<1>4. p \in Peer
  BY <1>0, <1>3, ElementOfSeq
<1>5. p.connection \in Addrs /\ p.peer_fingerprint \in Fps \cup {None}
  BY <1>1, <1>4 DEF Peer
<1>6. p.peer_fingerprint = remote_fingerprint /\ remote_fingerprint \in Fps
  BY <1>0, <1>1, <1>5 DEF FingerprintMatches
<1>7. Promoted(p, remote_fingerprint) \in Peer
  <2>1. [p EXCEPT !.is_trusted = TRUE, !.provisional = FALSE] \in Peer
    BY <1>4, FlagTyped
  <2>2. ASSUME NEW u \in Peer
        PROVE  [u EXCEPT !.trusted_by_pairing = TRUE, !.expected_fingerprint = remote_fingerprint] \in Peer
    BY <1>6 DEF Peer
  <2> QED
    BY <2>1, <2>2 DEF Promoted
<1>8. Put(peers, peers', loop.i, Promoted(p, remote_fingerprint))
  BY <1>0, <1>1, <1>3, <1>7, EditPut
<1> QED
  BY <1>1, <1>3, <1>4, <1>5, <1>6, <1>8

(* or removed.                                                             *)
Removes(i) == i \in 1..Len(peers) /\ peers[i] \in Peer /\ ~Firing(peers[i]) /\ Cut(peers, peers', i)

(* RemovePeer removes it.                                                  *)
LEMMA RemoveStep ==
    ASSUME TypeInv, NEW i \in 0..Len(peers), i # 0, RemovePeer(peers, i)
    PROVE  Removes(i)
<1>1. peers \in Seq(Peer) /\ i \in 1..Len(peers)
  BY FindTyped DEF TypeInv
<1>2. Cut(peers, RemoveAt(peers, i), i)
  BY <1>1, RemoveCut
<1> QED
  BY <1>1, <1>2, ElementOfSeq DEF RemovePeer, Removes

(* A decision is put into the queue of a connection.                       *)
LEMMA DecisionTyped ==
    ASSUME TypeInv, NEW a \in Addrs, NEW g \in BOOLEAN, NEW id \in Nat, PostDecision(a, g, id)
    PROVE  /\ conns' \in [Addrs -> Connection]
           /\ \/ conns' = conns
              \/ conns' = [conns EXCEPT ![a] = [conns[a] EXCEPT !.box = Append(@, [granted |-> g, id |-> id])]]
<1>1. conns \in [Addrs -> Connection] /\ conns[a] \in Connection /\ conns[a].box \in Seq(Decision)
  BY DEF TypeInv, Connection
<1>2. [granted |-> g, id |-> id] \in Decision
  BY DEF Decision
<1>3. Append(conns[a].box, [granted |-> g, id |-> id]) \in Seq(Decision)
  BY <1>1, <1>2, AppendProperties
<1>4. \/ conns' = conns
      \/ conns' = [conns EXCEPT ![a] = [conns[a] EXCEPT !.box = Append(@, [granted |-> g, id |-> id])]]
  BY <1>1 DEF PostDecision
<1>5. [conns[a] EXCEPT !.box = Append(@, [granted |-> g, id |-> id])] \in Connection
  BY <1>1, <1>3 DEF Connection
<1> QED
  BY <1>1, <1>4, <1>5

(* The loop stops a connection that was not closed.                        *)
LEMMA JoinStep ==
    ASSUME TypeInv, Threading(peers, conns, loop, stop), LoopJoins
    PROVE  \/ UNCHANGED <<peers, conns>> /\ loop' = [loop EXCEPT !.at = "stopped"]
                 /\ conns[loop.sc].st = "shut" /\ loop.sc \in Addrs
           \/ /\ loop.sc \in Addrs /\ conns[loop.sc].st # "shut" /\ conns[loop.sc].busy = "no"
              /\ Withdrew(peers, peers', FindWithShipConnection(peers, loop.sc))
              /\ peers' \in Seq(Peer) /\ Len(peers') = Len(peers)
              /\ conns' = [conns EXCEPT ![loop.sc] = [conns[loop.sc] EXCEPT !.st = "shut", !.box = <<>>]]
              /\ conns' \in [Addrs -> Connection]
              /\ loop' = [loop EXCEPT !.at = IF cancel THEN "stopped" ELSE "post"]
<1>0. loop.sc \in Addrs /\ peers \in Seq(Peer) /\ conns \in [Addrs -> Connection]
  BY DEF Threading, Reaping, Taking, LoopJoins, TypeInv
<1>1. CASE conns[loop.sc].st = "shut"
  BY <1>0, <1>1 DEF LoopJoins, Goto
<1>2. CASE conns[loop.sc].st # "shut"
  <2> DEFINE i == FindWithShipConnection(peers, loop.sc)
             c == [conns[loop.sc] EXCEPT !.st = "shut", !.box = <<>>]
  <2>1. /\ peers' = Withdraw(peers, i) /\ conns' = [conns EXCEPT ![loop.sc] = c]
        /\ loop' = [loop EXCEPT !.at = IF cancel THEN "stopped" ELSE "post"] /\ conns[loop.sc].busy = "no"
    BY <1>0, <1>2 DEF LoopJoins, Shut, HandleConnectionClosed, Goto
  <2>2. i \in 0..Len(peers)
    BY <1>0, FindTyped
  <2>3. Withdrew(peers, peers', i) /\ peers' \in Seq(Peer) /\ Len(peers') = Len(peers)
    BY <1>0, <2>1, <2>2, WithdrawFields
  <2>4. c \in Connection
    <3>1. <<>> \in Seq(Decision) /\ conns[loop.sc] \in Connection
      BY <1>0
    <3> QED
      BY <3>1 DEF Connection
  <2>5. conns' \in [Addrs -> Connection]
    <3> HIDE DEF c
    <3> QED
      BY <1>0, <2>1, <2>4
  <2> QED
    BY <1>0, <1>2, <2>1, <2>3, <2>5
<1> QED
  BY <1>1, <1>2

(* The loop looks for peers whose pairing is revoked, and removes one.     *)
Revoked(i) == peers[i].trusted_by_pairing /\ FingerprintMatches(peers[i].expected_fingerprint, loop.msg.ski)

(* What LoopRevokes does at a peer.                                        *)
LEMMA RevokeStep ==
    ASSUME TypeInv, LoopInv, LoopRevokes
    PROVE  \/ loop.i > Len(peers) /\ loop' = LoopIdle /\ UNCHANGED peers
           \/ /\ loop.i \in 1..Len(peers) /\ ~Revoked(loop.i)
              /\ loop' = [loop EXCEPT !.i = loop.i + 1] /\ UNCHANGED peers
           \/ /\ Revoked(loop.i) /\ Removes(loop.i)
              /\ peers[loop.i].connection = None /\ loop' = loop
           \/ /\ Revoked(loop.i) /\ Removes(loop.i)
              /\ peers[loop.i].connection # None
              /\ loop' = [loop EXCEPT !.at = "stop", !.sc = peers[loop.i].connection,
                                      !.ski = peers[loop.i].ski, !.dial = FALSE]
<1>0. Len(peers) \in Nat /\ loop.i \in Nat /\ loop.i # 0
  BY FindTyped DEF TypeInv, LoopRevokes, LoopInv, Loops
<1>1. CASE loop.i > Len(peers)
  BY <1>0, <1>1 DEF LoopRevokes, Done, RemovePeer, Reap, FingerprintMatches
<1>2. CASE loop.i <= Len(peers) /\ ~Revoked(loop.i)
  <2>1. loop' = [loop EXCEPT !.i = loop.i + 1] /\ UNCHANGED peers
    BY <1>0, <1>2 DEF LoopRevokes, Revoked, FingerprintMatches, RemovePeer, Reap, Done
  <2> QED
    BY <1>0, <1>2, <2>1
<1>3. CASE loop.i <= Len(peers) /\ Revoked(loop.i)
  <2>1. /\ RemovePeer(peers, loop.i)
        /\ IF peers[loop.i].connection = None THEN UNCHANGED loop
           ELSE Reap(peers[loop.i].connection, peers[loop.i].ski, FALSE)
    BY <1>0, <1>3 DEF LoopRevokes, Revoked, FingerprintMatches, RemovePeer, Reap
  <2>2. Removes(loop.i)
    BY <1>0, <1>3, <2>1, RemoveStep
  <2> QED
    BY <1>3, <2>1, <2>2 DEF Reap
<1> QED
  BY <1>0, <1>1, <1>2, <1>3

(* The steps of the loop that dial nobody.                                 *)
LoopHandles ==
    \/ LoopChecksCancel \/ LoopReceives \/ LoopIgnores
    \/ CloseShipConnection \/ LoopJoins \/ LoopPosts \/ LoopDeletes
    \/ ShipNodeUnregisterSki \/ ShipNodeRegisterSki
    \/ ShipNodeCancelPairingSki \/ LoopAborts \/ LoopRemoves
    \/ ShipNodeApprovePendingHandshake \/ LoopApproves
    \/ ShipNodePromoteFingerprint \/ LoopPromotes
    \/ ShipNodeRevokePairingFingerprint \/ LoopRevokes

(* The steps of the loop keep the types of the table and the connections,  *)
LEMMA LoopTable ==
    ASSUME TypeInv, Table(peers, conns), Threading(peers, conns, loop, stop), LoopInv, LoopHandles
    PROVE  peers' \in Seq(Peer) /\ conns' \in [Addrs -> Connection]
<1>0. /\ peers \in Seq(Peer) /\ Len(peers) \in Nat /\ conns \in [Addrs -> Connection]
      /\ loop \in Loops /\ loop.msg \in Message
  BY FindTyped DEF TypeInv, Allowed
<1>1. CASE LoopChecksCancel \/ LoopReceives \/ LoopIgnores \/ LoopPosts \/ ShipNodePromoteFingerprint
             \/ ShipNodeRevokePairingFingerprint \/ ShipNodeApprovePendingHandshake
  BY <1>0, <1>1 DEF LoopChecksCancel, LoopReceives, LoopIgnores, LoopPosts, ShipNodePromoteFingerprint,
       ShipNodeRevokePairingFingerprint, ShipNodeApprovePendingHandshake
<1>2. CASE CloseShipConnection
  <2>1. UNCHANGED conns
    BY <1>2 DEF CloseShipConnection
  <2> QED
    BY <1>0, <1>2, <2>1, ClosedStep DEF Closed, Put, Cut
<1>3. CASE LoopJoins
  BY <1>0, <1>3, JoinStep
<1>4. CASE LoopDeletes
  <2>1. UNCHANGED peers /\ Disconnected(loop.ski, loop.sc)
    BY <1>4 DEF LoopDeletes
  <2> QED
    BY <1>0, <2>1, DisconnectTyped
<1>5. CASE ShipNodeUnregisterSki
  <2> DEFINE i == FindWithSki(peers, loop.msg.ski)
  <2>1. i \in 0..Len(peers)
    BY <1>0, FindTyped
  <2>2. UNCHANGED conns /\ (UNCHANGED peers \/ (i # 0 /\ RemovePeer(peers, i)))
    BY <1>5 DEF ShipNodeUnregisterSki
  <2> HIDE DEF i
  <2> QED
    BY <1>0, <2>1, <2>2, RemoveStep DEF Removes, Cut
<1>6. CASE ShipNodeRegisterSki
  <2>1. UNCHANGED conns
    BY <1>6 DEF ShipNodeRegisterSki
  <2> QED
    BY <1>0, <1>6, <2>1, EnrolStep DEF Put
<1>7. CASE ShipNodeCancelPairingSki
  <2> DEFINE i == FindWithSki(peers, loop.msg.ski)
  <2>1. i \in 0..Len(peers)
    BY <1>0, FindTyped
  <2>2. UNCHANGED conns /\ peers' = Withdraw(peers, i)
    BY <1>7 DEF ShipNodeCancelPairingSki
  <2> HIDE DEF i
  <2> QED
    BY <1>0, <2>1, <2>2, WithdrawFields
<1>8. CASE LoopAborts
  <2>1. UNCHANGED peers /\ PostDecision(loop.sc, FALSE, 0) /\ loop.sc \in Addrs
    BY <1>8 DEF LoopAborts, Threading
  <2> QED
    BY <1>0, <2>1, DecisionTyped
<1>9. CASE LoopRemoves
  <2> DEFINE i == FindWithSki(peers, loop.msg.ski)
  <2>1. i \in 0..Len(peers)
    BY <1>0, FindTyped
  <2>2. UNCHANGED conns /\ (UNCHANGED peers \/ (i # 0 /\ RemovePeer(peers, i)))
    BY <1>9 DEF LoopRemoves
  <2> HIDE DEF i
  <2> QED
    BY <1>0, <2>1, <2>2, RemoveStep DEF Removes, Cut
<1>10. CASE LoopApproves
  <2>1. UNCHANGED peers /\ PostDecision(loop.sc, TRUE, loop.msg.id) /\ loop.sc \in Addrs
    BY <1>10 DEF LoopApproves, Threading
  <2>2. loop.msg.id \in Nat
    BY <1>0 DEF Message
  <2> QED
    BY <1>0, <2>1, <2>2, DecisionTyped
<1>11. CASE LoopPromotes
  BY <1>0, <1>11, PromoteStep, DecisionTyped DEF Put
<1>12. CASE LoopRevokes
  <2>1. UNCHANGED conns
    BY <1>12 DEF LoopRevokes
  <2> QED
    BY <1>0, <1>12, <2>1, RevokeStep DEF Removes, Cut
<1> QED
  BY <1>1, <1>2, <1>3, <1>4, <1>5, <1>6, <1>7, <1>8, <1>9, <1>10, <1>11, <1>12 DEF LoopHandles

(* of the loop's own locals,                                               *)
LEMMA LoopPlaces ==
    ASSUME TypeInv, Table(peers, conns), Threading(peers, conns, loop, stop), LoopInv, LoopHandles
    PROVE  loop' \in Loops /\ loop'.msg \in Allowed
<1>0. /\ peers \in Seq(Peer) /\ Len(peers) \in Nat /\ \A j \in 1..Len(peers) : peers[j] \in Peer
      /\ loop \in Loops /\ loop.msg \in Allowed /\ loop.msg \in Message /\ loop.i \in Nat
  BY FindTyped DEF TypeInv, Allowed, Loops
<1>1. LoopIdle \in Loops /\ LoopIdle.msg \in Allowed
  BY <1>0, LoopTyped
<1>2. CASE loop' = LoopIdle
  BY <1>1, <1>2
<1>3. ASSUME NEW x \in Places, loop' = [loop EXCEPT !.at = x] PROVE loop' \in Loops /\ loop'.msg \in Allowed
  BY <1>0, <1>3, LoopTyped
<1>5. \A j \in 1..Len(peers) : peers[j].connection \in Addrs \cup {None} /\ peers[j].ski \in Skis \cup {None}
  BY <1>0 DEF Peer
<1>6. CASE LoopChecksCancel \/ LoopPosts
  BY <1>3, <1>6 DEF LoopChecksCancel, LoopPosts, Goto, Places
<1>7. CASE LoopReceives
  <2>1. loop' = [loop EXCEPT !.at = "handle", !.msg = Head(queue)]
    BY <1>7 DEF LoopReceives
  <2>2. queue \in Seq(Allowed) /\ queue # <<>>
    BY <1>7 DEF LoopReceives, TypeInv
  <2>3. Head(queue) \in Allowed
    BY <2>2, HeadTailProperties
  <2>4. [loop EXCEPT !.at = "handle"] \in Loops
    BY <1>0, LoopTyped DEF Places
  <2> QED
    BY <2>1, <2>3, <2>4, LoopTyped
<1>8. CASE LoopIgnores \/ LoopAborts \/ LoopApproves \/ LoopRemoves
  BY <1>2, <1>8 DEF LoopIgnores, LoopAborts, LoopApproves, LoopRemoves, Done
<1>9. CASE CloseShipConnection
  <2> DEFINE i == FindWithShipConnection(peers, loop.msg.sc)
  <2>1. CASE Closed(i)
    <3>1. \E b \in BOOLEAN : loop' = [loop EXCEPT !.at = "stop", !.sc = loop.msg.sc, !.ski = peers[i].ski, !.dial = b]
      BY <2>1 DEF Closed
    <3>2. loop.msg.sc \in Addrs /\ i \in 1..Len(peers)
      BY <2>1 DEF Closed
    <3> HIDE DEF i
    <3>3. loop.msg.sc \in Addrs \cup {None} /\ peers[i].ski \in Skis \cup {None}
      BY <1>5, <3>2
    <3> QED
      BY <1>0, <3>1, <3>3 DEF Loops
  <2> QED
    BY <1>2, <1>9, <2>1, ClosedStep
<1>10. CASE LoopJoins
  BY <1>3, <1>10, JoinStep DEF Places
<1>11. CASE LoopDeletes
  <2>1. \/ loop' = [loop EXCEPT !.at = "dial", !.sc = None, !.dial = FALSE]
        \/ loop' = [loop EXCEPT !.at = "revoke", !.sc = None, !.ski = None]
        \/ loop' = LoopIdle
    BY <1>11 DEF LoopDeletes, Done
  <2>2. CASE loop' = [loop EXCEPT !.at = "dial", !.sc = None, !.dial = FALSE]
    BY <1>0, <2>2 DEF Loops
  <2>3. CASE loop' = [loop EXCEPT !.at = "revoke", !.sc = None, !.ski = None]
    BY <1>0, <2>3 DEF Loops
  <2> QED
    BY <1>2, <2>1, <2>2, <2>3
<1>12. CASE ShipNodeUnregisterSki
  <2> DEFINE i == FindWithSki(peers, loop.msg.ski)
  <2>1. i \in 0..Len(peers)
    BY <1>0, FindTyped
  <2>2. \/ loop' = LoopIdle
        \/ i # 0 /\ loop' = [loop EXCEPT !.at = "stop", !.sc = peers[i].connection, !.ski = peers[i].ski, !.dial = FALSE]
    BY <1>12 DEF ShipNodeUnregisterSki, Done, Reap
  <2>3. i # 0 => i \in 1..Len(peers)
    BY <1>0, <2>1
  <2> HIDE DEF i
  <2>4. CASE i # 0 /\ loop' = [loop EXCEPT !.at = "stop", !.sc = peers[i].connection, !.ski = peers[i].ski, !.dial = FALSE]
    <3>1. peers[i].connection \in Addrs \cup {None} /\ peers[i].ski \in Skis \cup {None}
      BY <1>5, <2>3, <2>4
    <3> QED
      BY <1>0, <2>4, <3>1 DEF Loops
  <2> QED
    BY <1>2, <2>2, <2>4
<1>13. CASE ShipNodeRegisterSki
  <2>1. loop.msg.ski \in Skis /\ loop' = [loop EXCEPT !.at = "dial", !.ski = loop.msg.ski]
    BY <1>13, EnrolStep DEF ShipNodeRegisterSki
  <2> QED
    BY <1>0, <2>1 DEF Loops
<1>14. CASE ShipNodeCancelPairingSki
  <2> DEFINE i == FindWithSki(peers, loop.msg.ski)
  <2>1. i \in 0..Len(peers)
    BY <1>0, FindTyped
  <2>2. \/ loop' = LoopIdle \/ loop' = [loop EXCEPT !.at = "remove"]
        \/ i # 0 /\ loop' = [loop EXCEPT !.at = "abort", !.sc = peers[i].connection]
    BY <1>14 DEF ShipNodeCancelPairingSki, Done, Goto
  <2>3. i # 0 => i \in 1..Len(peers)
    BY <1>0, <2>1
  <2> HIDE DEF i
  <2>4. CASE i # 0 /\ loop' = [loop EXCEPT !.at = "abort", !.sc = peers[i].connection]
    <3>1. peers[i].connection \in Addrs \cup {None}
      BY <1>5, <2>3, <2>4
    <3> QED
      BY <1>0, <2>4, <3>1 DEF Loops
  <2> QED
    BY <1>2, <1>3, <2>2, <2>4 DEF Places
<1>15. CASE ShipNodeApprovePendingHandshake
  <2>1. loop' = LoopIdle \/ loop' = [loop EXCEPT !.at = "approve", !.sc = loop.msg.sc]
    BY <1>15 DEF ShipNodeApprovePendingHandshake, Done
  <2>2. loop.msg.sc \in Addrs \cup {None}
    BY <1>0 DEF Message
  <2>3. CASE loop' = [loop EXCEPT !.at = "approve", !.sc = loop.msg.sc]
    BY <1>0, <2>2, <2>3 DEF Loops
  <2> QED
    BY <1>2, <2>1, <2>3
<1>16. CASE ShipNodePromoteFingerprint
  <2>1. loop' = [loop EXCEPT !.at = "promote", !.i = 1, !.n = Len(peers)]
    BY <1>16 DEF ShipNodePromoteFingerprint
  <2>2. 1 \in Nat
    OBVIOUS
  <2> QED
    BY <1>0, <2>1, <2>2 DEF Loops
<1>17. CASE LoopPromotes
  <2>1. loop' = LoopIdle \/ loop' = [loop EXCEPT !.i = loop.i + 1]
    BY <1>17 DEF LoopPromotes, Done
  <2>2. loop.i + 1 \in Nat
    BY <1>0
  <2>3. CASE loop' = [loop EXCEPT !.i = loop.i + 1]
    BY <1>0, <2>2, <2>3 DEF Loops
  <2> QED
    BY <1>2, <2>1, <2>3
<1>18. CASE ShipNodeRevokePairingFingerprint
  <2>1. loop' = [loop EXCEPT !.at = "revoke", !.i = 1]
    BY <1>18 DEF ShipNodeRevokePairingFingerprint
  <2>2. 1 \in Nat
    OBVIOUS
  <2> QED
    BY <1>0, <2>1, <2>2 DEF Loops
<1>19. CASE LoopRevokes
  <2>1. \/ loop' = LoopIdle \/ loop' = [loop EXCEPT !.i = loop.i + 1] \/ loop' = loop
        \/ /\ loop.i <= Len(peers)
           /\ loop' = [loop EXCEPT !.at = "stop", !.sc = peers[loop.i].connection, !.ski = peers[loop.i].ski, !.dial = FALSE]
    BY <1>0, <1>19, RevokeStep DEF Removes
  <2>2. loop.i + 1 \in Nat /\ (loop.i <= Len(peers) => loop.i \in 1..Len(peers))
    BY <1>0, <1>19 DEF LoopRevokes, LoopInv
  <2>3. CASE loop' = [loop EXCEPT !.i = loop.i + 1]
    BY <1>0, <2>2, <2>3 DEF Loops
  <2>4. CASE /\ loop.i <= Len(peers)
             /\ loop' = [loop EXCEPT !.at = "stop", !.sc = peers[loop.i].connection, !.ski = peers[loop.i].ski, !.dial = FALSE]
    <3>1. peers[loop.i].connection \in Addrs \cup {None} /\ peers[loop.i].ski \in Skis \cup {None}
      BY <1>5, <2>2, <2>4
    <3> QED
      BY <1>0, <2>4, <3>1 DEF Loops
  <2> QED
    BY <1>0, <1>2, <2>1, <2>3, <2>4
<1> QED
  BY <1>6, <1>7, <1>8, <1>9, <1>10, <1>11, <1>12, <1>13, <1>14, <1>15, <1>16, <1>17, <1>18, <1>19 DEF LoopHandles

(* and all of them.                                                        *)
LEMMA TypeLoopStep ==
    ASSUME TypeInv, config' = config, Table(peers, conns), Threading(peers, conns, loop, stop), LoopInv,
           LoopHandles
    PROVE  TypeInv'
<1>1. TypeTable'
  BY LoopTable, TypeKept
<1>2. UNCHANGED <<others, made>>
  BY DEF LoopHandles, LoopChecksCancel, LoopReceives, LoopIgnores, CloseShipConnection, LoopJoins,
      LoopPosts, LoopDeletes, ShipNodeUnregisterSki, ShipNodeRegisterSki,
      ShipNodeCancelPairingSki, LoopAborts, LoopRemoves, ShipNodeApprovePendingHandshake, LoopApproves,
      ShipNodePromoteFingerprint, LoopPromotes, ShipNodeRevokePairingFingerprint, LoopRevokes
<1>3. TypeLoop'
  BY <1>2, LoopPlaces, TypeKept DEF others
<1>4. TypeMessages'
  <2>1. CASE LoopReceives
    <3>1. queue \in Seq(Allowed) /\ queue # <<>> /\ queue' = Tail(queue) /\ Len(queue) <= QueueSize /\ UNCHANGED out
      BY <2>1 DEF LoopReceives, TypeInv, others
    <3>2. Tail(queue) \in Seq(Allowed) /\ Len(Tail(queue)) = Len(queue) - 1
      BY <3>1, HeadTailProperties
    <3>3. Len(queue) \in Nat /\ QueueSize \in Nat
      BY <3>1, LenProperties, ConfigAssumption DEF TypeInv, QueueSize
    <3>4. Len(Tail(queue)) <= QueueSize
      BY <3>1, <3>2, <3>3
    <3> QED
      BY <3>1, <3>2, <3>4, ConfigSame DEF TypeMessages, TypeInv
  <2>2. CASE LoopPosts
    <3>1. HasRoom /\ queue' = Append(queue, ClosedMsg(loop.sc)) /\ loop.sc \in Addrs
      BY <2>2 DEF LoopPosts, Threading, Reaping, Taking
    <3>2. ClosedMsg(loop.sc) \in Allowed
      BY <3>1, CloseMsg DEF TypeInv
    <3>3. (queue \in Seq(Allowed) /\ Len(queue) <= QueueSize)'
      BY <3>1, <3>2, SendTyped
    <3> QED
      BY <1>2, <3>3, ConfigSame DEF TypeMessages, TypeInv, others
  <2>3. CASE ~LoopReceives /\ ~LoopPosts
    <3>1. UNCHANGED queue
      BY <2>3 DEF LoopHandles, LoopChecksCancel, LoopIgnores, CloseShipConnection, LoopJoins,
        LoopDeletes, ShipNodeUnregisterSki, ShipNodeRegisterSki,
        ShipNodeCancelPairingSki, LoopAborts, LoopRemoves, ShipNodeApprovePendingHandshake, LoopApproves,
        ShipNodePromoteFingerprint, LoopPromotes, ShipNodeRevokePairingFingerprint, LoopRevokes
    <3> QED
      BY <1>2, <3>1, TypeKept DEF others
  <2> QED
    BY <2>1, <2>2, <2>3
<1>5. TypeRest'
  <2>1. spine' \in [Skis -> Nat]
    <3>1. CASE LoopDeletes
      <4>1. Disconnected(loop.ski, loop.sc)
        BY <3>1 DEF LoopDeletes
      <4> QED
        BY <4>1, DisconnectTyped
    <3>2. CASE ~LoopDeletes
      <4>1. UNCHANGED spine
        BY <3>2 DEF LoopHandles, LoopChecksCancel, LoopReceives, LoopIgnores, CloseShipConnection, LoopJoins,
          LoopPosts, ShipNodeUnregisterSki, ShipNodeRegisterSki,
          ShipNodeCancelPairingSki, LoopAborts, LoopRemoves, ShipNodeApprovePendingHandshake, LoopApproves,
          ShipNodePromoteFingerprint, LoopPromotes, ShipNodeRevokePairingFingerprint, LoopRevokes
      <4> QED
        BY <4>1 DEF TypeInv
    <3> QED
      BY <3>1, <3>2
  <2> QED
    BY <1>2, <2>1, ConfigSame DEF TypeInv, TypeRest, others
<1> QED
  BY <1>1, <1>3, <1>4, <1>5, TypeParts, PTL

-----------------------------------------------------------------------------
(* The dial.                                                               *)

(* A peer that is dialled at address a, and one whose connection does not  *)
(* start.                                                                  *)
Dialling(p, d, a) ==
    [p EXCEPT !.ski = d.ski, !.pending_approval_id = 0, !.connection = a, !.is_attempt_running = TRUE]
(* A peer that is dialled and whose connection does not start.             *)
Missed(p, d) == [p EXCEPT !.ski = d.ski, !.pending_approval_id = 0, !.connection = None]

(* Their fields.                                                           *)
LEMMA DialFields ==
    ASSUME NEW p \in Peer, NEW s \in Skis, NEW a \in Addrs, NEW d, d.ski = s
    PROVE  /\ Dialling(p, d, a) \in Peer /\ Missed(p, d) \in Peer
           /\ Dialling(p, d, a).ski = s /\ Dialling(p, d, a).connection = a
           /\ Dialling(p, d, a).is_attempt_running
           /\ Dialling(p, d, a).pending_approval_id = 0
           /\ Missed(p, d).ski = s /\ Missed(p, d).connection = None
           /\ Missed(p, d).is_attempt_running = p.is_attempt_running
           /\ Missed(p, d).pending_approval_id = 0
           /\ \A f \in {"handshake_complete", "is_trusted", "provisional", "trusted_by_pairing", "ship_id",
                        "expected_fingerprint", "peer_fingerprint", "retry", "due"} :
                 Dialling(p, d, a)[f] = p[f] /\ Missed(p, d)[f] = p[f]
<1> DEFINE u == [p EXCEPT !.ski = d.ski, !.pending_approval_id = 0]
           v == [u EXCEPT !.connection = a]
           w == [u EXCEPT !.connection = None]
<1>1. u \in Peer /\ u.ski = s /\ u.pending_approval_id = 0
  BY DEF Peer
<1>2. v \in Peer /\ w \in Peer
  <2> HIDE DEF u
  <2> QED
    BY <1>1 DEF Peer
<1>3. [v EXCEPT !.is_attempt_running = TRUE] \in Peer
  <2> HIDE DEF v
  <2> QED
    BY <1>2, FlagTyped
<1>4. Dialling(p, d, a) = [v EXCEPT !.is_attempt_running = TRUE] /\ Missed(p, d) = w
  BY DEF Dialling, Missed
<1>5. DOMAIN p = DOMAIN NodeConnection(None)
  BY DEF NodeConnection, Peer
<1> QED
  BY <1>2, <1>3, <1>4, <1>5 DEF NodeConnection, Dialling, Missed

(* The service at which a peer is dialled.                                 *)
Serves(d, p) == FindServiceForPeer(p) # 0 /\ d = mdns_entries[FindServiceForPeer(p)]

(* The states a dial passes through,                                       *)
DialStates ==
    [peers : {z \in Seq(Peer) : Len(z) = Len(peers)}, conns : [Addrs -> Connection], made : Nat,
     failed : BOOLEAN]

(* and one attempt.                                                        *)
Attempt(s, r, i, a) ==
    \/ r = s /\ \/ s.peers[i].is_attempt_running \/ FindServiceForPeer(s.peers[i]) = 0
                \/ mdns_entries[FindServiceForPeer(s.peers[i])].ski # s.peers[i].ski
    \/ \E d \in Devices :
          /\ ~s.peers[i].is_attempt_running /\ ~cancel /\ Serves(d, s.peers[i])
          /\ \A j \in 1..Len(peers) : j # i => s.peers[j].ski # d.ski
          /\ \/ /\ a = None /\ Put(s.peers, r.peers, i, Missed(s.peers[i], d))
                /\ r.conns = s.conns /\ r.made = s.made /\ r.failed
             \/ /\ a # None /\ Put(s.peers, r.peers, i, Dialling(s.peers[i], d, a))
                /\ r.made = s.made + 1 /\ r.failed = s.failed
                /\ \E ph \in {"init", "refused"} :
                      r.conns = [s.conns EXCEPT ![a] = Started(s.made + 1, d.ski, ph)]

(* No SKI belongs to two peers.                                            *)
Unlike(ps) == \A i, j \in 1..Len(ps) : ps[i].ski = ps[j].ski /\ ps[i].ski # None => i = j

(* ConnectToPendingSkiInternal is one attempt.                             *)
LEMMA AttemptStep ==
    ASSUME TypeInv, NEW s \in DialStates, NEW i \in 1..Len(peers), NEW a \in Addrs \cup {None}
    PROVE  LET r == ConnectToPendingSkiInternal(s, i, a)
           IN  r \in DialStates /\ (Unlike(s.peers) => Attempt(s, r, i, a))
<1> DEFINE p == s.peers[i]
           found == FindServiceForPeer(p)
           d == mdns_entries[found]
           r == ConnectToPendingSkiInternal(s, i, a)
<1>0. /\ s.peers \in Seq(Peer) /\ Len(s.peers) = Len(peers) /\ Len(peers) \in Nat
      /\ s.conns \in [Addrs -> Connection] /\ s.made \in Nat /\ s.failed \in BOOLEAN
  BY FindTyped DEF DialStates, TypeInv
<1>1. p \in Peer /\ i \in 1..Len(s.peers)
  BY <1>0, ElementOfSeq
<1>2. CASE p.is_attempt_running \/ found = 0 \/ Taken(s.peers, p, d)
  <2>1. r = s
    BY <1>2 DEF ConnectToPendingSkiInternal
  <2>2. Attempt(s, s, i, a)
    BY <1>2 DEF Attempt, Taken
  <2> QED
    BY <2>1, <2>2
<1>3. CASE ~(p.is_attempt_running \/ found = 0 \/ Taken(s.peers, p, d))
  <2>1. r = ClientConnect(s, i, d, a)
    BY <1>3 DEF ConnectToPendingSkiInternal
  <2>2. mdns_entries \in Seq(Devices) /\ Len(mdns_entries) \in Nat
    BY LenProperties DEF TypeInv
  <2>3. found \in 1..Len(mdns_entries) /\ ~cancel
    BY <1>3, <2>2, ServiceFields
  <2>4. d \in Devices /\ d.ski \in Skis /\ d.ski # None
    BY <2>2, <2>3, ElementOfSeq, NoneIsNone DEF Skis, TypeInv
  <2>5. ASSUME Unlike(s.peers), NEW j \in 1..Len(peers), j # i PROVE s.peers[j].ski # d.ski
    <3>1. d.ski = p.ski \/ FindWithSki(s.peers, d.ski) = 0
      BY <1>3 DEF Taken
    <3>2. CASE d.ski = p.ski
      BY <1>0, <1>1, <2>4, <2>5, <3>2 DEF Unlike
    <3>3. CASE FindWithSki(s.peers, d.ski) = 0
      BY <1>0, <2>4, <3>3, SkiFields
    <3> QED
      BY <3>1, <3>2, <3>3
  <2>6. CASE a = None
    <3> DEFINE q == Missed(p, d)
    <3>1. r = [s EXCEPT !.peers = [s.peers EXCEPT ![i] = q], !.failed = TRUE]
      <4>1. r = [s EXCEPT !.peers[i] = q, !.failed = TRUE]
        BY <2>1, <2>6 DEF ClientConnect, Missed
      <4> QED
        BY <4>1
    <3>2. q \in Peer
      <4>1. [[p EXCEPT !.ski = d.ski, !.pending_approval_id = 0] EXCEPT !.connection = None] \in Peer
        BY <1>1, <2>4 DEF Peer
      <4> QED
        BY <4>1 DEF Missed
    <3> HIDE DEF q, r, p, d
    <3>3. Put(s.peers, [s.peers EXCEPT ![i] = q], i, q)
      BY <1>0, <1>1, <3>2, EditPut
    <3>4. [s.peers EXCEPT ![i] = q] \in Seq(Peer) /\ Len([s.peers EXCEPT ![i] = q]) = Len(peers)
      BY <1>0, <1>1, <3>3 DEF Put
    <3>5. /\ r.peers = [s.peers EXCEPT ![i] = q] /\ r.conns = s.conns /\ r.made = s.made /\ r.failed = TRUE
      BY <3>1 DEF DialStates
    <3>6. r \in DialStates
      BY <1>0, <3>1, <3>4 DEF DialStates
    <3>7. Put(s.peers, r.peers, i, Missed(s.peers[i], d))
      BY <3>3, <3>5 DEF q, p
    <3>8. ~s.peers[i].is_attempt_running /\ Serves(d, s.peers[i])
      BY <1>3 DEF Serves, d, found, p
    <3> QED
      BY <2>3, <2>4, <2>5, <2>6, <3>5, <3>6, <3>7, <3>8 DEF Attempt, r, d, found, p
  <2>7. CASE a # None
    <3> DEFINE q == Dialling(p, d, a)
               ph == IF p.expected_fingerprint \notin {None, d.fp} THEN "refused" ELSE "init"
               c == Started(s.made + 1, d.ski, ph)
    <3>0. a \in Addrs
      BY <2>7
    <3>1. r = [s EXCEPT !.peers[i] = q, !.conns[a] = c, !.made = s.made + 1]
      <4>1. [p EXCEPT !.ski = d.ski, !.pending_approval_id = 0].expected_fingerprint = p.expected_fingerprint
        BY <1>1 DEF Peer
      <4> QED
        BY <2>1, <2>7, <4>1 DEF ClientConnect, Dialling
    <3>2. q \in Peer
      BY <1>1, <2>4, <3>0, DialFields
    <3>3. ph \in {"init", "refused"} /\ c \in Connection
      <4>1. ph \in {"init", "refused"}
        OBVIOUS
      <4>2. s.made + 1 \in Nat
        BY <1>0
      <4> HIDE DEF ph
      <4> QED
        BY <2>4, <4>1, <4>2, StartedTyped
    <3> HIDE DEF q, r, p, d, c
    <3>4. Put(s.peers, [s.peers EXCEPT ![i] = q], i, q)
      BY <1>0, <1>1, <3>2, EditPut
    <3>5. [s.peers EXCEPT ![i] = q] \in Seq(Peer) /\ Len([s.peers EXCEPT ![i] = q]) = Len(peers)
      BY <1>0, <1>1, <3>4 DEF Put
    <3>6. r = [s EXCEPT !.peers = [s.peers EXCEPT ![i] = q], !.conns = [s.conns EXCEPT ![a] = c],
                        !.made = s.made + 1]
      BY <3>1
    <3>7. /\ r.peers = [s.peers EXCEPT ![i] = q] /\ r.conns = [s.conns EXCEPT ![a] = c]
          /\ r.made = s.made + 1 /\ r.failed = s.failed
      BY <3>6 DEF DialStates
    <3>8. [s.conns EXCEPT ![a] = c] \in [Addrs -> Connection]
      BY <1>0, <3>0, <3>3
    <3>9. r \in DialStates
      <4>1. r = [peers |-> r.peers, conns |-> r.conns, made |-> r.made, failed |-> r.failed]
        BY <3>6 DEF DialStates
      <4>2. s.made + 1 \in Nat
        BY <1>0
      <4> QED
        BY <1>0, <3>5, <3>7, <3>8, <4>1, <4>2 DEF DialStates
    <3>10. Put(s.peers, r.peers, i, Dialling(s.peers[i], d, a))
      BY <3>4, <3>7 DEF q, p
    <3>11. ~s.peers[i].is_attempt_running /\ Serves(d, s.peers[i])
      BY <1>3 DEF Serves, d, found, p
    <3>12. r.conns = [s.conns EXCEPT ![a] = Started(s.made + 1, d.ski, ph)]
      BY <3>7 DEF c
    <3> HIDE DEF ph
    <3> QED
      BY <2>3, <2>4, <2>5, <2>7, <3>3, <3>7, <3>9, <3>10, <3>11, <3>12 DEF Attempt, r, d, found, p
  <2> QED
    BY <2>6, <2>7
<1> QED
  BY <1>2, <1>3

(* What has become of peer j, which has been dialled, with the address     *)
(* c[j] for its connection.                                                *)
Tried(s, j, b) ==
    \/ s.peers[j] = peers[j]
          /\ \/ peers[j].is_attempt_running \/ FindServiceForPeer(peers[j]) = 0
             \/ mdns_entries[FindServiceForPeer(peers[j])].ski # peers[j].ski
    \/ \E d \in Devices :
          /\ ~peers[j].is_attempt_running /\ ~cancel /\ Serves(d, peers[j])
          /\ \/ b = None /\ s.peers[j] = Missed(peers[j], d) /\ s.failed
             \/ /\ b # None /\ s.peers[j] = Dialling(peers[j], d, b)
                /\ \E ph \in {"init", "refused"}, n \in Nat :
                      n > made /\ s.conns[b] = Started(n, d.ski, ph)

(* After the peers of W have been dialled.                                 *)
Summary(c, W, s) ==
    /\ s \in DialStates /\ Unlike(s.peers) /\ s.made >= made
    /\ \A j \in 1..Len(peers) : j \notin W => s.peers[j] = peers[j]
    /\ \A j \in W : Tried(s, j, c[j])
    /\ \A b \in Addrs : \/ s.conns[b] = conns[b]
                        \/ \E j \in W : c[j] = b /\ s.peers[j].connection = b

(* One more peer is dialled.                                               *)
LEMMA SummaryStep ==
    ASSUME TypeInv, NEW c \in Allocations, NEW W \in SUBSET (1..Len(peers)),
           NEW i \in 1..Len(peers), i \notin W, NEW s, Summary(c, W, s)
    PROVE  Summary(c, W \cup {i}, ConnectToPendingSkiInternal(s, i, c[i]))
<1> DEFINE a == c[i]
           r == ConnectToPendingSkiInternal(s, i, a)
<1>0. /\ s \in DialStates /\ Unlike(s.peers) /\ s.made >= made /\ made \in Nat /\ s.made \in Nat
      /\ s.peers \in Seq(Peer) /\ Len(s.peers) = Len(peers) /\ Len(peers) \in Nat
      /\ s.conns \in [Addrs -> Connection]
      /\ \A j \in 1..Len(peers) : j \notin W => s.peers[j] = peers[j]
      /\ \A j \in W : Tried(s, j, c[j])
      /\ \A b \in Addrs : s.conns[b] = conns[b] \/ \E j \in W : c[j] = b /\ s.peers[j].connection = b
  BY FindTyped DEF Summary, DialStates, TypeInv
<1>1. /\ a \in Addrs \cup {None}
      /\ \A j \in W : c[j] = a => a = None
  BY <1>0 DEF Allocations, TypeInv
<1>2. r \in DialStates /\ Attempt(s, r, i, a)
  BY <1>0, <1>1, AttemptStep
<1> HIDE DEF r
<1>3. s.peers[i] = peers[i]
  BY <1>0
<1>4. CASE r = s /\ \/ s.peers[i].is_attempt_running \/ FindServiceForPeer(s.peers[i]) = 0
                    \/ mdns_entries[FindServiceForPeer(s.peers[i])].ski # s.peers[i].ski
  <2>1. Tried(r, i, a)
    BY <1>3, <1>4 DEF Tried
  <2>2. Summary(c, W \cup {i}, r)
    BY <1>0, <1>4, <2>1 DEF Summary
  <2> QED
    BY <2>2 DEF r
<1>5. ASSUME NEW d \in Devices, NEW q,
             ~s.peers[i].is_attempt_running, ~cancel, Serves(d, s.peers[i]),
             \A j \in 1..Len(peers) : j # i => s.peers[j].ski # d.ski,
             Put(s.peers, r.peers, i, q), q.ski = d.ski,
             r.made >= s.made, s.failed => r.failed,
             \A b \in Addrs : r.conns[b] = s.conns[b] \/ (b = a /\ q.connection = a),
             Tried(r, i, a)
      PROVE  Summary(c, W \cup {i}, r)
  <2>1. /\ \A j \in 1..Len(peers) : r.peers[j] = IF j = i THEN q ELSE s.peers[j]
        /\ r.peers \in Seq(Peer) /\ Len(r.peers) = Len(peers)
    BY <1>0, <1>5 DEF Put
  <2>2. Unlike(r.peers)
    BY <1>0, <1>5, <2>1 DEF Unlike
  <2>3. r.made >= made
    BY <1>0, <1>2, <1>5 DEF DialStates
  <2>4. \A j \in 1..Len(peers) : j \notin W \cup {i} => r.peers[j] = peers[j]
    BY <1>0, <2>1
  <2>5. ASSUME NEW j \in W PROVE Tried(r, j, c[j])
    <3>1. r.peers[j] = s.peers[j] /\ j \in 1..Len(peers) /\ Tried(s, j, c[j])
      BY <1>0, <2>1
    <3>2. c[j] \in Addrs => r.conns[c[j]] = s.conns[c[j]]
      BY <1>1, <1>5, NodeAssumption
    <3>3. c[j] \in Addrs \cup {None}
      BY <3>1 DEF Allocations
    <3> QED
      BY <1>5, <3>1, <3>2, <3>3 DEF Tried
  <2>6. ASSUME NEW b \in Addrs
        PROVE  r.conns[b] = conns[b] \/ \E j \in W \cup {i} : c[j] = b /\ r.peers[j].connection = b
    <3>1. CASE r.conns[b] = s.conns[b]
      <4>1. CASE s.conns[b] = conns[b]
        BY <3>1, <4>1
      <4>2. ASSUME NEW j \in W, c[j] = b, s.peers[j].connection = b PROVE r.peers[j].connection = b
        BY <2>1, <4>2
      <4> QED
        BY <1>0, <4>1, <4>2
    <3>2. CASE b = a /\ q.connection = a
      BY <2>1, <3>2
    <3> QED
      BY <1>5, <3>1, <3>2
  <2>7. \A j \in W \cup {i} : Tried(r, j, c[j])
    BY <1>5, <2>5
  <2> QED
    BY <1>2, <2>2, <2>3, <2>4, <2>6, <2>7 DEF Summary
<1>6. ASSUME NEW d \in Devices,
             ~s.peers[i].is_attempt_running, ~cancel, Serves(d, s.peers[i]),
             \A j \in 1..Len(peers) : j # i => s.peers[j].ski # d.ski,
             a = None, Put(s.peers, r.peers, i, Missed(s.peers[i], d)),
             r.conns = s.conns, r.made = s.made, r.failed
      PROVE  Summary(c, W \cup {i}, r)
  <2> DEFINE q == Missed(s.peers[i], d)
  <2>1. q.ski = d.ski
    <3>1. s.peers[i] \in Peer
      BY <1>0, ElementOfSeq
    <3> QED
      BY <3>1 DEF Missed, Peer
  <2>2. r.peers[i] = q
    BY <1>0, <1>6 DEF Put
  <2>3. Tried(r, i, a)
    BY <1>3, <1>6, <2>2 DEF Tried
  <2>4. r.made >= s.made
    BY <1>0, <1>6
  <2> HIDE DEF q
  <2> QED
    BY <1>5, <1>6, <2>1, <2>3, <2>4 DEF q
<1>7. ASSUME NEW d \in Devices,
             ~s.peers[i].is_attempt_running, ~cancel, Serves(d, s.peers[i]),
             \A j \in 1..Len(peers) : j # i => s.peers[j].ski # d.ski,
             a # None, Put(s.peers, r.peers, i, Dialling(s.peers[i], d, a)),
             r.made = s.made + 1, r.failed = s.failed,
             NEW ph \in {"init", "refused"}, r.conns = [s.conns EXCEPT ![a] = Started(s.made + 1, d.ski, ph)]
      PROVE  Summary(c, W \cup {i}, r)
  <2> DEFINE q == Dialling(s.peers[i], d, a)
  <2>0. a \in Addrs /\ s.peers[i] \in Peer /\ d.ski \in Skis
    BY <1>0, <1>1, <1>7, ElementOfSeq DEF Skis
  <2>1. q.ski = d.ski /\ q.connection = a
    BY <2>0, DialFields
  <2>2. r.peers[i] = q
    BY <1>0, <1>7 DEF Put
  <2>3. Tried(r, i, a)
    <3>1. r.conns[a] = Started(s.made + 1, d.ski, ph)
      BY <1>0, <1>7, <2>0
    <3>2. s.made + 1 \in Nat /\ s.made + 1 > made
      BY <1>0
    <3> QED
      BY <1>3, <1>7, <2>2, <3>1, <3>2 DEF Tried
  <2>4. r.made >= s.made
    BY <1>0, <1>7
  <2>5. \A b \in Addrs : r.conns[b] = s.conns[b] \/ b = a
    BY <1>0, <1>7
  <2> HIDE DEF q
  <2> QED
    BY <1>5, <1>7, <2>1, <2>3, <2>4, <2>5, ZenonT(60) DEF q
<1>8. Summary(c, W \cup {i}, r)
  BY <1>2, <1>4, <1>6, <1>7 DEF Attempt, r
<1> QED
  BY <1>8 DEF r

(* The order in which peers are dialled: none of them twice.               *)
Orders == {o \in Seq(1..Len(peers)) : \A m, n \in 1..Len(o) : o[m] = o[n] => m = n}

(* Dialled as a loop.                                                      *)
LEMMA DialledLoop ==
    ASSUME TypeInv, NEW c \in Allocations, NEW o \in Orders
    PROVE  \E f \in [0..Len(o) -> DialStates] :
              /\ f[0] = [peers |-> peers, conns |-> conns, made |-> made, failed |-> FALSE]
              /\ \A n \in 1..Len(o) : f[n] = ConnectToPendingSkiInternal(f[n - 1], o[n], c[o[n]])
              /\ Dialled(c, o, Len(o)) = f[Len(o)]
<1> DEFINE n == Len(o)
           S == DialStates
           base == [peers |-> peers, conns |-> conns, made |-> made, failed |-> FALSE]
           step == [i \in 1..n |-> [x \in S |-> ConnectToPendingSkiInternal(x, o[i], c[o[i]])]]
<1>1. n \in Nat /\ base \in S
  <2>1. peers \in {z \in Seq(Peer) : Len(z) = Len(peers)} /\ conns \in [Addrs -> Connection] /\ made \in Nat
    BY DEF TypeInv
  <2> QED
    BY <2>1, LenProperties DEF Orders, DialStates
<1>2. Steps(step, n, S)
  <2> SUFFICES ASSUME NEW i \in 1..n, NEW x \in S
               PROVE  ConnectToPendingSkiInternal(x, o[i], c[o[i]]) \in S
    BY <1>1 DEF Steps
  <2>1. o[i] \in 1..Len(peers)
    BY ElementOfSeq DEF Orders
  <2>2. c[o[i]] \in Addrs \cup {None}
    BY <2>1 DEF Allocations, TypeInv
  <2> QED
    BY <2>1, <2>2, AttemptStep
<1>3. PICK f : Loop(f, n, S, base, step)
  <2> HIDE DEF step, S, n, base
  <2> QED
    BY <1>1, <1>2, LoopExists
<1>4. \A i \in 1..n : f[i] = ConnectToPendingSkiInternal(f[i - 1], o[i], c[o[i]])
  <2> TAKE i \in 1..n
  <2>1. i - 1 \in 0..n
    BY <1>1
  <2>2. f[i - 1] \in S
    BY <1>3, <2>1 DEF Loop
  <2> QED
    BY <1>3, <2>2 DEF Loop
<1> DEFINE Is(g) == g = [i \in 0..n |-> IF i = 0 THEN base
                            ELSE ConnectToPendingSkiInternal(g[i - 1], o[i], c[o[i]])]
           k == CHOOSE g : Is(g)
<1>5. Is(f)
  <2>1. \A i \in 0..n : i = 0 \/ i \in 1..n
    BY <1>1
  <2>2. \A i \in 0..n : f[i] = IF i = 0 THEN base
                            ELSE ConnectToPendingSkiInternal(f[i - 1], o[i], c[o[i]])
    BY <1>3, <1>4, <2>1 DEF Loop
  <2> QED
    BY <1>3, <2>2 DEF Loop
<1>6. Is(k)
  <2> HIDE DEF Is
  <2> QED
    BY <1>5
<1>7. Dialled(c, o, n) = k[n]
  BY DEF Dialled
<1> HIDE DEF k
<1>8. k[0] = f[0]
  <2>1. 0 \in 0..n
    BY <1>1
  <2> QED
    BY <1>3, <1>6, <2>1 DEF Loop
<1>9. \A i \in 1..n : k[i - 1] = f[i - 1] => k[i] = f[i]
  <2> TAKE i \in 1..n
  <2>1. i \in 0..n /\ i # 0
    BY <1>1
  <2> QED
    BY <1>4, <1>6, <2>1
<1>10. Alike(k, f, n)
  BY <1>8, <1>9 DEF Alike
<1>11. k[n] = f[n]
  BY <1>1, <1>10, LoopUnique
<1> QED
  BY <1>3, <1>4, <1>7, <1>11 DEF Loop

(* What the dial of several peers leaves.                                  *)
LEMMA DialledFields ==
    ASSUME TypeInv, Unlike(peers), NEW c \in Allocations, NEW o \in Orders
    PROVE  Summary(c, {o[m] : m \in 1..Len(o)}, Dialled(c, o, Len(o)))
<1> DEFINE n == Len(o)
<1>1. n \in Nat /\ o \in Seq(1..Len(peers))
  BY LenProperties DEF Orders
<1>2. PICK f \in [0..n -> DialStates] :
         /\ f[0] = [peers |-> peers, conns |-> conns, made |-> made, failed |-> FALSE]
         /\ \A i \in 1..n : f[i] = ConnectToPendingSkiInternal(f[i - 1], o[i], c[o[i]])
         /\ Dialled(c, o, n) = f[n]
  BY DialledLoop
<1> DEFINE W(i) == {o[m] : m \in 1..i}
           T == {i \in Nat : i <= n => Summary(c, W(i), f[i])}
<1>3. 0 \in T
  <2>1. W(0) = {}
    OBVIOUS
  <2>2. 0 \in 0..n
    BY <1>1
  <2>3. f[0] \in DialStates /\ f[0].peers = peers /\ f[0].conns = conns /\ f[0].made = made /\ made \in Nat
    <3>1. f[0] \in DialStates
      BY <2>2
    <3>2. f[0] = [peers |-> peers, conns |-> conns, made |-> made, failed |-> FALSE]
      BY <1>2
    <3>3. made \in Nat
      BY DEF TypeInv
    <3> QED
      BY <3>1, <3>2, <3>3
  <2>4. Summary(c, {}, f[0])
    BY <2>3 DEF Summary
  <2> QED
    BY <2>1, <2>4
<1>4. ASSUME NEW m \in Nat, m \in T PROVE m + 1 \in T
  <2> SUFFICES ASSUME m + 1 <= n PROVE Summary(c, W(m + 1), f[m + 1])
    OBVIOUS
  <2>1. m <= n /\ m + 1 \in 1..n /\ (m + 1) - 1 = m /\ \A h \in 1..m : h \in 1..n /\ h # m + 1
    BY <1>1
  <2>2. o[m + 1] \in 1..Len(peers) /\ \A h \in 1..m : o[h] \in 1..Len(peers) /\ o[h] # o[m + 1]
    BY <1>1, <2>1, ElementOfSeq DEF Orders
  <2>3. W(m) \in SUBSET (1..Len(peers)) /\ o[m + 1] \notin W(m) /\ W(m + 1) = W(m) \cup {o[m + 1]}
    <3>1. \A h \in 1..(m + 1) : h \in 1..m \/ h = m + 1
      OBVIOUS
    <3> QED
      BY <2>2, <3>1
  <2>4. Summary(c, W(m), f[m])
    BY <1>4, <2>1
  <2>5. f[m + 1] = ConnectToPendingSkiInternal(f[m], o[m + 1], c[o[m + 1]])
    BY <1>2, <2>1
  <2> DEFINE i == o[m + 1]
             X == W(m)
  <2>6. i \in 1..Len(peers) /\ X \in SUBSET (1..Len(peers)) /\ i \notin X /\ Summary(c, X, f[m])
    BY <2>2, <2>3, <2>4
  <2> HIDE DEF W, i, X
  <2>7. Summary(c, X \cup {i}, ConnectToPendingSkiInternal(f[m], i, c[i]))
    BY <2>6, SummaryStep
  <2> QED
    BY <2>3, <2>5, <2>7 DEF i, X
<1>5. Nat \subseteq T
  <2> HIDE DEF T
  <2> QED
    BY <1>3, <1>4, SetInduction
<1>6. Summary(c, W(n), f[n])
  <2>1. n \in T
    <3> HIDE DEF T
    <3> QED
      BY <1>1, <1>5
  <2>2. n <= n
    BY <1>1
  <2> QED
    BY <2>1, <2>2
<1> QED
  BY <1>2, <1>6

(* The connections that a dial starts, and the peers it starts them for.   *)
Dial ==
    \E c \in Allocations, W \in SUBSET (1..Len(peers)), b \in BOOLEAN :
        /\ Summary(c, W, [peers |-> peers', conns |-> conns', made |-> made', failed |-> b])
        /\ b => MayFail
        /\ UNCHANGED <<queue, spine, others>> /\ loop' = LoopIdle
        /\ \/ Handles("MdnsEntriesFound") /\ (ClientSupported => W = 1..Len(peers))
           \/ /\ loop.at = "dial"
              /\ ClientSupported => \A j \in 1..Len(peers) : peers[j].ski = loop.ski /\ loop.ski # None => j \in W
           \/ /\ Handles("RetryConnectionForSki")
              /\ ClientSupported =>
                    \A j \in 1..Len(peers) : peers[j].ski = loop.msg.ski /\ loop.msg.ski # None => j \in W

(* Connect dials the peers of an order.                                    *)
LEMMA ConnectStep ==
    ASSUME TypeInv, Unlike(peers), NEW o \in Orders, Connect(o)
    PROVE  \E c \in Allocations, b \in BOOLEAN :
              /\ Summary(c, {o[m] : m \in 1..Len(o)},
                         [peers |-> peers', conns |-> conns', made |-> made', failed |-> b])
              /\ b => MayFail
<1>1. PICK c \in Allocations : LET s == Dialled(c, o, Len(o))
                               IN  /\ s.failed => MayFail
                                   /\ peers' = s.peers /\ conns' = s.conns /\ made' = s.made
  BY DEF Connect
<1> DEFINE s == Dialled(c, o, Len(o))
<1>2. Summary(c, {o[m] : m \in 1..Len(o)}, s)
  BY DialledFields
<1> HIDE DEF s
<1>3. s \in DialStates
  BY <1>2 DEF Summary
<1>4. s = [peers |-> peers', conns |-> conns', made |-> made', failed |-> s.failed] /\ s.failed \in BOOLEAN
  BY <1>1, <1>3 DEF DialStates, s
<1> QED
  BY <1>1, <1>2, <1>4 DEF s

(* HandleMdnsEntriesFound and LoopDials are dials.                         *)
LEMMA DialStep ==
    ASSUME TypeInv, Table(peers, conns), HandleMdnsEntriesFound \/ LoopDials
    PROVE  Dial
<1>0. peers \in Seq(Peer) /\ Len(peers) \in Nat /\ Unlike(peers)
  BY FindTyped DEF Table, Unlike, TypeInv
<1>1. <<>> \in Orders /\ {<<>>[m] : m \in 1..Len(<<>>)} = {}
  BY DEF Orders
<1>2. CASE HandleMdnsEntriesFound
  <2> DEFINE o == [i \in DOMAIN peers |-> i]
             z == IF ClientSupported THEN o ELSE <<>>
  <2>1. Connect(z) /\ UNCHANGED <<queue, spine, others>> /\ loop' = LoopIdle /\ Handles("MdnsEntriesFound")
    BY <1>2 DEF HandleMdnsEntriesFound, ConnectToAllPendingSkis, Done
  <2>2. DOMAIN peers = 1..Len(peers)
    BY <1>0
  <2>3. o \in Seq(1..Len(peers)) /\ Len(o) = Len(peers) /\ \A i \in 1..Len(peers) : o[i] = i
    BY <1>0, <2>2
  <2>4. o \in Orders /\ {o[m] : m \in 1..Len(o)} = 1..Len(peers)
    <3> HIDE DEF o
    <3> QED
      BY <2>3 DEF Orders
  <2>5. z \in Orders /\ {z[m] : m \in 1..Len(z)} \in SUBSET (1..Len(peers))
        /\ (ClientSupported => {z[m] : m \in 1..Len(z)} = 1..Len(peers))
    <3> HIDE DEF o
    <3>1. CASE ClientSupported
      BY <2>4, <3>1
    <3>2. CASE ~ClientSupported
      BY <1>1, <3>2
    <3> QED
      BY <3>1, <3>2
  <2> HIDE DEF z
  <2> QED
    BY <1>0, <2>1, <2>5, ConnectStep DEF Dial
<1>3. ASSUME NEW ski, ConnectToPendingSki(ski)
      PROVE  \E c \in Allocations, W \in SUBSET (1..Len(peers)), b \in BOOLEAN :
                /\ Summary(c, W, [peers |-> peers', conns |-> conns', made |-> made', failed |-> b])
                /\ b => MayFail
                /\ ClientSupported => \A j \in 1..Len(peers) : peers[j].ski = ski /\ ski # None => j \in W
  <2> DEFINE i == FindWithSki(peers, ski)
             z == IF ClientSupported /\ i # 0 THEN <<i>> ELSE <<>>
             W == {z[m] : m \in 1..Len(z)}
  <2>1. Connect(z)
    BY <1>3 DEF ConnectToPendingSki
  <2>2. \/ i = 0 /\ \A j \in 1..Len(peers) : ski = None \/ peers[j].ski # ski
        \/ i \in 1..Len(peers) /\ peers[i].ski = ski
    BY <1>0, SkiFields
  <2>3. CASE ClientSupported /\ i # 0
    <3>1. i \in 1..Len(peers) /\ peers[i].ski = ski
      BY <2>2, <2>3
    <3>2. z = <<i>>
      BY <2>3
    <3> HIDE DEF i, z
    <3>3. z \in Orders /\ W = {i}
      BY <3>1, <3>2 DEF Orders
    <3>4. \A j \in 1..Len(peers) : peers[j].ski = ski /\ ski # None => j \in W
      BY <1>0, <3>1, <3>3 DEF Unlike
    <3>5. W \in SUBSET (1..Len(peers))
      BY <3>1, <3>3
    <3> HIDE DEF W
    <3> QED
      BY <1>0, <2>1, <3>3, <3>4, <3>5, ConnectStep DEF W
  <2>4. CASE ~(ClientSupported /\ i # 0)
    <3>1. z = <<>>
      BY <2>4
    <3> HIDE DEF z
    <3>2. z \in Orders /\ W = {} /\ W \in SUBSET (1..Len(peers))
      BY <1>1, <3>1
    <3>3. ClientSupported => \A j \in 1..Len(peers) : peers[j].ski = ski /\ ski # None => j \in W
      BY <2>2, <2>4
    <3> HIDE DEF W
    <3> QED
      BY <1>0, <2>1, <3>2, <3>3, ConnectStep DEF W
  <2> QED
    BY <2>3, <2>4
<1>4. CASE loop.at = "dial" /\ DialSki(loop.ski)
  BY <1>3, <1>4 DEF DialSki, Done, Dial
<1>5. CASE Handles("RetryConnectionForSki") /\ DialSki(loop.msg.ski)
  BY <1>3, <1>5 DEF DialSki, Done, Dial
<1> QED
  BY <1>2, <1>4, <1>5 DEF LoopDials

-----------------------------------------------------------------------------
(* Steps that leave every connection where it is.                          *)

(* A peer keeps its SKI, its connection and its attempt,                   *)
Plain(p, q) ==
    q.ski = p.ski /\ q.connection = p.connection /\ q.is_attempt_running = p.is_attempt_running

(* all of them do,                                                         *)
PlainTable(ps, qs) == Len(qs) = Len(ps) /\ \A i \in 1..Len(ps) : Plain(ps[i], qs[i])

(* and a peer moreover gets no approval and no less trust,                 *)
Mild(p, q) ==
    /\ q.ski = p.ski /\ q.connection = p.connection /\ q.is_attempt_running = p.is_attempt_running
    /\ q.pending_approval_id \in {0, p.pending_approval_id}
    /\ q.provisional => p.provisional /\ (q.is_trusted => p.is_trusted)

(* and all of them.                                                        *)
MildTable(ps, qs) == Len(qs) = Len(ps) /\ \A i \in 1..Len(ps) : Mild(ps[i], qs[i])

(* No connection is started or deleted.                                    *)
MildConns(cs, ds) ==
    \A a \in Addrs : (ds[a].st = "free" <=> cs[a].st = "free") /\ ds[a].ski = cs[a].ski /\ ds[a].inc = cs[a].inc

(* The connections stay, those that are held by a peer are still held, and *)
(* a new one is held.                                                      *)
Steady(ps, qs, cs, ds) ==
    \A a \in Addrs : cs[a].st # "free" => ds[a].st # "free" /\ (Held(qs, a) => Held(ps, a))

(* A connection that is new is that of a peer.                             *)
Holding(ps, qs, cs, ds) ==
    \A a \in Addrs : ds[a].st # "free" => Held(qs, a) \/ (cs[a].st # "free" /\ ~Held(ps, a))

(* Such a step keeps the table.                                            *)
LEMMA PlainKeeps ==
    ASSUME NEW ps, NEW qs, NEW cs, NEW ds, Len(ps) \in Nat, PlainTable(ps, qs), MildConns(cs, ds),
           Table(ps, cs), \A i \in 1..Len(ps) : ps[i].connection \in Addrs \cup {None}
    PROVE  Table(qs, ds) /\ Steady(ps, qs, cs, ds) /\ Holding(ps, qs, cs, ds)
<1>1. \A a : Held(qs, a) <=> Held(ps, a)
  BY DEF Held, PlainTable, Plain
<1>2. Table(qs, ds)
  BY DEF Table, PlainTable, Plain, MildConns
<1> QED
  BY <1>1, <1>2 DEF Steady, Holding, MildConns

(* One peer is changed, or a connection.                                   *)
LEMMA MildPut ==
    ASSUME NEW ps, NEW qs, NEW k \in 1..Len(ps), NEW q, Len(ps) \in Nat, Put(ps, qs, k, q), Mild(ps[k], q)
    PROVE  MildTable(ps, qs)
<1>1. Len(qs) = Len(ps) /\ \A j \in 1..Len(ps) : qs[j] = IF j = k THEN q ELSE ps[j]
  BY DEF Put
<1>2. \A j \in 1..Len(ps) : Mild(ps[j], ps[j])
  BY DEF Mild
<1> QED
  BY <1>1, <1>2 DEF MildTable

(* No change is mild,                                                      *)
LEMMA MildSame ==
    /\ \A ps : MildTable(ps, ps)
    /\ \A cs : MildConns(cs, cs)
  BY DEF MildTable, Mild, MildConns

(* nor is one of the phase, the queue or the state of a connection,        *)
LEMMA MildConn ==
    ASSUME NEW cs \in [Addrs -> Connection], NEW a \in Addrs, NEW c, NEW ds, ds = [cs EXCEPT ![a] = c],
           (c.st = "free") <=> (cs[a].st = "free"), c.ski = cs[a].ski, c.inc = cs[a].inc
    PROVE  MildConns(cs, ds)
  BY DEF MildConns

(* nor one of an approval that is taken back.                              *)
LEMMA MildWithdraw ==
    ASSUME NEW ps \in Seq(Peer), NEW i \in 0..Len(ps), NEW qs, Withdrew(ps, qs, i)
    PROVE  MildTable(ps, qs)
<1>1. CASE i = 0
  BY <1>1, MildSame DEF Withdrew
<1>2. CASE i # 0
  <2>1. Len(ps) \in Nat /\ i \in 1..Len(ps) /\ ps[i] \in Peer
    BY <1>2, LenProperties, ElementOfSeq
  <2> DEFINE q == [ps[i] EXCEPT !.pending_approval_id = 0]
  <2>2. Mild(ps[i], q)
    BY <2>1 DEF Mild, Peer
  <2>3. Put(ps, qs, i, q)
    BY <1>2 DEF Withdrew
  <2> HIDE DEF q
  <2> QED
    BY <2>1, <2>2, <2>3, MildPut
<1> QED
  BY <1>1, <1>2

(* The steps of the thread of a connection and of a timer, and the calls   *)
(* that withdraw an approval.                                              *)
Mildly == MildTable(peers, peers') /\ MildConns(conns, conns')

(* The thread of a connection is mild,                                     *)
LEMMA MildThread ==
    ASSUME TypeInv, NEW a \in Addrs, ConnectionThread(a)
    PROVE  Mildly
<1>0. /\ peers \in Seq(Peer) /\ Len(peers) \in Nat /\ \A j \in 1..Len(peers) : peers[j] \in Peer
      /\ \A s : FindWithSki(peers, s) \in 0..Len(peers)
      /\ \A b : FindWithShipConnection(peers, b) \in 0..Len(peers)
  BY FindTyped DEF TypeInv
<1>1. conns \in [Addrs -> Connection] /\ conns[a] \in Connection
  BY DEF TypeInv
<1>2. \A x : [conns[a] EXCEPT !.phase = x].st = conns[a].st /\ [conns[a] EXCEPT !.phase = x].ski = conns[a].ski
             /\ [conns[a] EXCEPT !.phase = x].inc = conns[a].inc
  BY <1>1 DEF Connection
<1>3. \A x : [conns[a] EXCEPT !.busy = x].st = conns[a].st /\ [conns[a] EXCEPT !.busy = x].ski = conns[a].ski
             /\ [conns[a] EXCEPT !.busy = x].inc = conns[a].inc
  BY <1>1 DEF Connection
<1>4. ASSUME CloseConnection(a), Runs(a) PROVE Mildly
  <2>1. PICK i \in 0..Len(peers) : Withdrew(peers, peers', i)
    BY <1>4, CloseStep
  <2>2. MildTable(peers, peers')
    BY <1>0, <2>1, MildWithdraw
  <2> DEFINE c == [conns[a] EXCEPT !.st = "shut", !.box = <<>>, !.busy = IF cancel THEN "no" ELSE "post"]
  <2>3. conns' = [conns EXCEPT ![a] = c]
    BY <1>4, CloseStep
  <2>4. c.st = "shut" /\ c.ski = conns[a].ski /\ c.inc = conns[a].inc /\ conns[a].st = "run"
    BY <1>1, <1>4 DEF Connection, Runs
  <2> HIDE DEF c
  <2>5. MildConns(conns, conns')
    BY <1>1, <2>3, <2>4, MildConn
  <2> QED
    BY <2>2, <2>5 DEF Mildly
<1>5. ASSUME UNCHANGED peers, NEW x, conns' = [conns EXCEPT ![a] = [conns[a] EXCEPT !.phase = x]]
      PROVE  Mildly
  <2> DEFINE c == [conns[a] EXCEPT !.phase = x]
  <2>1. c.st = conns[a].st /\ c.ski = conns[a].ski /\ c.inc = conns[a].inc /\ conns' = [conns EXCEPT ![a] = c]
    BY <1>2, <1>5
  <2>2. MildTable(peers, peers')
    BY <1>5, MildSame
  <2> HIDE DEF c
  <2>3. MildConns(conns, conns')
    BY <1>1, <2>1, MildConn
  <2> QED
    BY <2>2, <2>3 DEF Mildly
<1>6. CASE Hello(a)
  <2>1. UNCHANGED peers /\ \E x : conns' = [conns EXCEPT ![a] = [conns[a] EXCEPT !.phase = x]]
    BY <1>6 DEF Hello
  <2> QED
    BY <1>5, <2>1
<1>7. CASE ConnectionEnds(a)
  BY <1>4, <1>7 DEF ConnectionEnds
<1>8. CASE PostConnectionClose(a)
  <2> DEFINE c == [conns[a] EXCEPT !.busy = "no"]
  <2>1. UNCHANGED peers /\ conns' = [conns EXCEPT ![a] = c]
    BY <1>8 DEF PostConnectionClose
  <2>2. c.st = conns[a].st /\ c.ski = conns[a].ski /\ c.inc = conns[a].inc
    BY <1>3
  <2> HIDE DEF c
  <2> QED
    BY <1>1, <2>1, <2>2, MildConn, MildSame DEF Mildly
<1>9. CASE ReadDecision(a)
  <2> DEFINE m == Head(conns[a].box)
             dropped == [conns[a] EXCEPT !.box = Tail(conns[a].box)]
  <2>1. /\ dropped.st = conns[a].st /\ dropped.ski = conns[a].ski /\ dropped.inc = conns[a].inc
        /\ [dropped EXCEPT !.phase = "ready"].st = conns[a].st /\ [dropped EXCEPT !.phase = "ready"].ski = conns[a].ski
        /\ [dropped EXCEPT !.phase = "ready"].inc = conns[a].inc
    BY <1>1 DEF Connection
  <2>2. CASE CloseConnection(a)
    BY <1>4, <1>9, <2>2 DEF ReadDecision
  <2>3. CASE conns' = [conns EXCEPT ![a] = dropped] /\ UNCHANGED peers
    <3> HIDE DEF dropped
    <3> QED
      BY <1>1, <2>1, <2>3, MildConn, MildSame DEF Mildly
  <2>4. CASE /\ AcceptPendingTrust(a, m.id) /\ AcceptsPendingTrust(a, m.id)
             /\ conns' = [conns EXCEPT ![a] = [dropped EXCEPT !.phase = "ready"]]
    <3>1. MildConns(conns, conns')
      <4> HIDE DEF dropped
      <4> QED
        BY <1>1, <2>1, <2>4, MildConn
    <3>2. CASE m.id = 0
      BY <2>4, <3>1, <3>2, MildSame DEF AcceptPendingTrust, Mildly
    <3>3. CASE m.id # 0
      <4> DEFINE i == FindWithShipConnection(peers, a)
                 q == [peers[i] EXCEPT !.pending_approval_id = 0, !.is_trusted = TRUE, !.provisional = FALSE]
      <4>1. i \in 1..Len(peers) /\ peers[i] \in Peer /\ peers' = [peers EXCEPT ![i] = q]
        <5>1. i # 0
          BY <2>4 DEF AcceptsPendingTrust
        <5>2. peers' = [peers EXCEPT ![i] = q]
          BY <2>4, <3>3 DEF AcceptPendingTrust
        <5>3. i \in 1..Len(peers)
          <6>1. i \in 0..Len(peers)
            BY <1>0
          <6> HIDE DEF i
          <6> QED
            BY <1>0, <5>1, <6>1
        <5> QED
          BY <1>0, <5>2, <5>3
      <4>2. Mild(peers[i], q)
        BY <4>1 DEF Mild, Peer
      <4>3. q \in Peer
        <5>1. [peers[i] EXCEPT !.pending_approval_id = 0] \in Peer
          BY <4>1 DEF Peer
        <5>2. [[peers[i] EXCEPT !.pending_approval_id = 0] EXCEPT !.is_trusted = TRUE] \in Peer
          BY <5>1, FlagTyped
        <5>3. [[[peers[i] EXCEPT !.pending_approval_id = 0] EXCEPT !.is_trusted = TRUE] EXCEPT !.provisional = FALSE] \in Peer
          BY <5>2, FlagTyped
        <5> QED
          BY <5>3
      <4> HIDE DEF q, i
      <4>4. Put(peers, peers', i, q)
        BY <1>0, <4>1, <4>3, EditPut
      <4> QED
        BY <1>0, <3>1, <4>1, <4>2, <4>4, MildPut DEF Mildly
    <3> QED
      BY <3>2, <3>3
  <2>5. [conns EXCEPT ![a].box = Tail(@)] = [conns EXCEPT ![a] = dropped]
    BY <1>1
  <2>6. [[conns EXCEPT ![a].box = Tail(@)] EXCEPT ![a].phase = "ready"] = [conns EXCEPT ![a] = [dropped EXCEPT !.phase = "ready"]]
    BY <1>1
  <2> QED
    BY <1>9, <2>2, <2>3, <2>4, <2>5, <2>6 DEF ReadDecision
<1>10. CASE SetupRemoteDevice(a)
  <2>1. UNCHANGED peers /\ conns' = [conns EXCEPT ![a] = [conns[a] EXCEPT !.phase = "approved"]]
    BY <1>10 DEF SetupRemoteDevice
  <2> QED
    BY <1>5, <2>1
<1>11. CASE HandleShipStateUpdate(a)
  <2> DEFINE i == FindWithSki(peers, conns[a].ski)
             c == [conns[a] EXCEPT !.phase = "data"]
  <2>1. conns' = [conns EXCEPT ![a] = c]
    BY <1>11 DEF HandleShipStateUpdate
  <2>2. MildConns(conns, conns')
    <3>1. c.st = conns[a].st /\ c.ski = conns[a].ski /\ c.inc = conns[a].inc
      BY <1>2
    <3> HIDE DEF c
    <3> QED
      BY <1>1, <2>1, <3>1, MildConn
  <2>3. CASE i = 0
    BY <1>11, <2>2, <2>3, MildSame DEF HandleShipStateUpdate, Mildly
  <2>4. CASE i # 0
    <3>1. i \in 1..Len(peers) /\ peers[i] \in Peer /\ peers' = [peers EXCEPT ![i] = OnHandshakeComplete(peers[i])]
      BY <1>0, <1>11, <2>4 DEF HandleShipStateUpdate
    <3>2. Mild(peers[i], OnHandshakeComplete(peers[i]))
      BY <3>1 DEF Mild, Peer, OnHandshakeComplete
    <3> HIDE DEF i
    <3>3. Put(peers, peers', i, OnHandshakeComplete(peers[i]))
      BY <1>0, <3>1, CompleteTyped, EditPut
    <3> QED
      BY <1>0, <2>2, <3>1, <3>2, <3>3, MildPut DEF Mildly
  <2> QED
    BY <2>3, <2>4
<1>12. ASSUME NEW d \in Devices, ReportServiceShipId(a, d) PROVE Mildly
  <2> DEFINE i == FindWithSki(peers, conns[a].ski)
             q == [peers[i] EXCEPT !.ship_id = d.id]
  <2>1. i \in 1..Len(peers) /\ peers[i] \in Peer /\ peers' = [peers EXCEPT ![i] = q] /\ UNCHANGED conns
    BY <1>0, <1>12 DEF ReportServiceShipId
  <2>2. Mild(peers[i], q) /\ q \in Peer
    <3>1. d.id \in Ids
      BY DEF Ids
    <3> QED
      BY <2>1, <3>1 DEF Mild, Peer
  <2> HIDE DEF q, i
  <2>3. Put(peers, peers', i, q)
    BY <1>0, <2>1, <2>2, EditPut
  <2> QED
    BY <1>0, <2>1, <2>2, <2>3, MildPut, MildSame DEF Mildly
<1> QED
  BY <1>6, <1>7, <1>8, <1>9, <1>10, <1>11, <1>12 DEF ConnectionThread

(* a timer,                                                                *)
LEMMA MildTimer ==
    ASSUME TypeInv, NEW i \in DOMAIN peers, RetryTimer(i)
    PROVE  Mildly
<1>0. peers \in Seq(Peer) /\ Len(peers) \in Nat /\ i \in 1..Len(peers) /\ peers[i] \in Peer
  BY FindTyped DEF TypeInv
<1>1. ASSUME NEW q, peers' = [peers EXCEPT ![i] = q], Mild(peers[i], q), UNCHANGED conns PROVE Mildly
  <2>1. Len(peers') = Len(peers) /\ \A j \in 1..Len(peers) : peers'[j] = IF j = i THEN q ELSE peers[j]
    BY <1>0, <1>1
  <2>2. \A j \in 1..Len(peers) : Mild(peers[j], peers[j])
    BY DEF Mild
  <2> QED
    BY <1>1, <2>1, <2>2, MildSame DEF Mildly, MildTable
<1>2. CASE RetryTimerFires(i)
  <2> DEFINE q == [peers[i] EXCEPT !.retry = "expired", !.due = IF cancel THEN None ELSE peers[i].ski]
  <2>1. peers' = [peers EXCEPT ![i] = q] /\ UNCHANGED conns
    BY <1>2 DEF RetryTimerFires
  <2>2. Mild(peers[i], q)
    BY <1>0 DEF Mild, Peer
  <2> HIDE DEF q
  <2> QED
    BY <1>1, <2>1, <2>2
<1>3. CASE RetryTimerPosts(i)
  <2> DEFINE q == [peers[i] EXCEPT !.due = None]
  <2>1. peers' = [peers EXCEPT ![i] = q] /\ UNCHANGED conns
    BY <1>3 DEF RetryTimerPosts
  <2>2. Mild(peers[i], q)
    BY <1>0 DEF Mild, Peer
  <2> HIDE DEF q
  <2> QED
    BY <1>1, <2>1, <2>2
<1> QED
  BY <1>2, <1>3 DEF RetryTimer

(* and the registration of a peer.                                         *)
LEMMA MildRegistered ==
    ASSUME NEW p \in Peer, NEW d \in Devices, NEW b \in BOOLEAN
    PROVE  Mild(p, Registered(p, d, b)) /\ ~Registered(p, d, b).provisional
  BY DEF Mild, Peer, Registered

(* A peer that is new has no connection, and no SKI or a new one.          *)
LEMMA GrowKeeps ==
    ASSUME NEW ps, NEW qs, NEW cs, NEW q, Len(ps) \in Nat, Put(ps, qs, Len(ps) + 1, q), Table(ps, cs),
           q.connection = None, q.ski = None \/ \A j \in 1..Len(ps) : ps[j].ski # q.ski
    PROVE  Table(qs, cs) /\ \A a : a # None => (Held(qs, a) <=> Held(ps, a))
<1>1. /\ Len(qs) = Len(ps) + 1 /\ qs[Len(ps) + 1] = q /\ \A j \in 1..Len(ps) : qs[j] = ps[j]
      /\ \A j \in 1..Len(qs) : j = Len(ps) + 1 \/ j \in 1..Len(ps)
  BY DEF Put
<1>2. \A a : a # None => (Held(qs, a) <=> Held(ps, a))
  BY <1>1 DEF Held
<1>3. Table(qs, cs)
  BY <1>1 DEF Table
<1> QED
  BY <1>2, <1>3

(* A peer without a connection gets one that is new.                       *)
LEMMA TakeKeeps ==
    ASSUME NEW ps, NEW qs, NEW cs \in [Addrs -> Connection], NEW k, NEW q, NEW a \in Addrs, NEW c,
           Len(ps) \in Nat, Put(ps, qs, k, q), Table(ps, cs),
           k <= Len(ps) => ~ps[k].is_attempt_running, cs[a].st = "free",
           q.connection = a, q.is_attempt_running, q.ski # None, c.st # "free", c.ski = q.ski,
           \A j \in 1..Len(ps) : j # k => ps[j].ski # q.ski
    PROVE  LET ds == [cs EXCEPT ![a] = c]
           IN  Table(qs, ds) /\ Steady(ps, qs, cs, ds) /\ Holding(ps, qs, cs, ds)
<1> DEFINE ds == [cs EXCEPT ![a] = c]
<1>1. /\ k \in 1..Len(qs) /\ qs[k] = q
      /\ \A j \in 1..Len(qs) : j # k => j \in 1..Len(ps) /\ qs[j] = ps[j]
      /\ \A j \in 1..Len(ps) : j \in 1..Len(qs)
  BY DEF Put
<1>2. ds[a] = c /\ \A b \in Addrs : b # a => ds[b] = cs[b]
  OBVIOUS
<1>3. \A j \in 1..Len(ps) : ps[j].connection # a
  BY NodeAssumption DEF Table
<1>4. \A b \in Addrs : b # a => (Held(qs, b) <=> Held(ps, b))
  BY <1>1, NodeAssumption DEF Held, Table
<1>5. Held(qs, a) /\ ~Held(ps, a)
  BY <1>1, <1>3 DEF Held
<1> HIDE DEF ds
<1>6. Steady(ps, qs, cs, ds) /\ Holding(ps, qs, cs, ds)
  BY <1>2, <1>4, <1>5 DEF Steady, Holding
<1>7. \A i, j \in 1..Len(qs) : qs[i].ski = qs[j].ski /\ qs[i].ski # None => i = j
  BY <1>1 DEF Table
<1>8. \A i, j \in 1..Len(qs) : qs[i].connection = qs[j].connection /\ qs[i].connection # None => i = j
  BY <1>1, <1>3 DEF Table
<1>9. ASSUME NEW i \in 1..Len(qs), qs[i].connection # None, NEW b, b = qs[i].connection
      PROVE  qs[i].is_attempt_running /\ qs[i].ski # None /\ ds[b].st # "free" /\ ds[b].ski = qs[i].ski
  <2>1. CASE i = k
    BY <1>1, <1>2, <1>9, <2>1
  <2>2. CASE i # k
    <3>1. i \in 1..Len(ps) /\ qs[i] = ps[i] /\ b # a /\ b # None
      BY <1>1, <1>3, <1>9, <2>2
    <3>2. ps[i].is_attempt_running /\ ps[i].ski # None /\ cs[b].st # "free" /\ cs[b].ski = ps[i].ski
      BY <1>9, <3>1 DEF Table
    <3>3. ds[b] = cs[b]
      BY <3>1 DEF ds
    <3> QED
      BY <3>1, <3>2, <3>3
  <2> QED
    BY <2>1, <2>2
<1> QED
  BY <1>6, <1>7, <1>8, <1>9 DEF Table, ds

(* A provisional peer has a connection, and is not trusted.                *)
Provisionals(ps) == \A i \in 1..Len(ps) : ps[i].provisional => ps[i].connection # None /\ ~ps[i].is_trusted

(* What the steps of the threads other than the loop and Stop keep.        *)
Sound ==
    /\ Table(peers', conns') /\ Steady(peers, peers', conns, conns') /\ Holding(peers, peers', conns, conns')
    /\ Calls \cap {"pairing", "fingerprint"} = {} /\ Provisionals(peers) => Provisionals(peers')
    /\ Len(peers') >= Len(peers)

(* Mild steps are sound.                                                   *)
LEMMA MildSound ==
    ASSUME TypeInv, Table(peers, conns), Mildly
    PROVE  Sound
<1>1. Len(peers) \in Nat /\ \A j \in 1..Len(peers) : peers[j].connection \in Addrs \cup {None}
  BY FindTyped DEF TypeInv, Peer
<1>2. Table(peers', conns') /\ Steady(peers, peers', conns, conns') /\ Holding(peers, peers', conns, conns')
  <2>1. PlainTable(peers, peers')
    BY DEF Mildly, MildTable, Mild, PlainTable, Plain
  <2> QED
    BY <1>1, <2>1, PlainKeeps DEF Mildly
<1>3. Provisionals(peers) => Provisionals(peers')
  BY <1>1 DEF Mildly, MildTable, Mild, Provisionals
<1>4. Len(peers') >= Len(peers)
  BY <1>1 DEF Mildly, MildTable
<1> QED
  BY <1>2, <1>3, <1>4 DEF Sound

(* The connection that the websocket server accepts is sound.              *)
LEMMA ServedSound ==
    ASSUME TypeInv, Table(peers, conns), Served
    PROVE  Sound
<1> DEFINE k == IF PeerOf(server) = 0 THEN Len(peers) + 1 ELSE PeerOf(server)
           p == AdmittedPeer(server)
<1>0. /\ peers \in Seq(Peer) /\ Len(peers) \in Nat /\ \A j \in 1..Len(peers) : peers[j] \in Peer
      /\ conns \in [Addrs -> Connection]
  BY FindTyped DEF TypeInv
<1>1. PICK a \in Addrs, c \in Connection :
         /\ server \in Devices /\ Admitted(server) /\ conns[a].st = "free"
         /\ Put(peers, peers', k, ServerConnect(p, a))
         /\ conns' = [conns EXCEPT ![a] = c]
         /\ c.st \in {"run", "dead"} /\ c.ski = server.ski
  BY DEF Served
<1> DEFINE q == ServerConnect(p, a)
<1>2. /\ k \in 1..(Len(peers) + 1) /\ p \in Peer /\ p.ski = server.ski
      /\ k <= Len(peers) <=> PeerOf(server) # 0
      /\ p.is_trusted = CASE PeerOf(server) = 0 -> Recognised(server) \/ ~PostTrust
                          [] PeerOf(server) # 0 -> Recognised(server) \/ peers[PeerOf(server)].is_trusted
      /\ p.provisional = CASE PeerOf(server) = 0 -> ~(Recognised(server) \/ ~PostTrust)
                           [] PeerOf(server) # 0 -> ~Recognised(server) /\ peers[PeerOf(server)].provisional
  BY <1>1, AdmittedFields
<1> HIDE DEF p
<1>3. /\ q.ski = server.ski /\ q.connection = a /\ q.is_attempt_running
      /\ q.provisional = p.provisional /\ q.is_trusted = p.is_trusted
  BY <1>2 DEF ServerConnect, Peer
<1>4. server.ski # None /\ a # None
  BY <1>1, NoneIsNone DEF Skis, TypeInv
<1>5. k <= Len(peers) => k = PeerOf(server) /\ ~peers[k].is_attempt_running
  <2>1. k <= Len(peers) => PeerOf(server) # 0
    BY <1>2
  <2>2. PeerOf(server) # 0 => ~peers[PeerOf(server)].is_attempt_running
    BY <1>1 DEF Admitted
  <2> QED
    BY <2>1, <2>2
<1>6. \A j \in 1..Len(peers) : j # k => peers[j].ski # q.ski
  <2> DEFINE i == FindWithSki(peers, server.ski)
  <2>1. CASE i = 0
    BY <1>0, <1>3, <1>4, <2>1, SkiFields
  <2>2. CASE i # 0
    <3>1. i \in 1..Len(peers) /\ peers[i].ski = server.ski
      BY <1>0, <2>2, SkiFields
    <3>2. k = i
      BY <2>2 DEF PeerOf
    <3> HIDE DEF k, i
    <3> QED
      BY <1>3, <1>4, <3>1, <3>2 DEF Table
  <2> QED
    BY <2>1, <2>2
<1>7. ASSUME Provisionals(peers) PROVE Provisionals(peers')
  <2> SUFFICES ASSUME NEW j \in 1..Len(peers'), peers'[j].provisional
               PROVE  peers'[j].connection # None /\ ~peers'[j].is_trusted
    BY DEF Provisionals
  <2>1. CASE j # k
    <3>1. peers'[j] = peers[j] /\ j \in 1..Len(peers)
      BY <1>0, <1>1, <1>2, <2>1 DEF Put
    <3> QED
      BY <1>7, <3>1 DEF Provisionals
  <2>2. CASE j = k
    <3>1. peers'[j] = q
      BY <1>1, <2>2 DEF Put
    <3>2. CASE PeerOf(server) = 0
      BY <1>2, <1>3, <1>4, <3>1, <3>2
    <3>3. CASE PeerOf(server) # 0
      <4>1. k = PeerOf(server) /\ k \in 1..Len(peers)
        BY <1>0, <1>2, <3>3
      <4>2. peers[k].provisional => ~peers[k].is_trusted
        BY <1>7, <4>1 DEF Provisionals
      <4> QED
        BY <1>2, <1>3, <1>4, <3>1, <3>3, <4>1, <4>2
    <3> QED
      BY <3>2, <3>3
  <2> QED
    BY <2>1, <2>2
<1> HIDE DEF k, q
<1>8. Table(peers', conns') /\ Steady(peers, peers', conns, conns') /\ Holding(peers, peers', conns, conns')
  <2>1. Put(peers, peers', k, q)
    BY <1>1 DEF k, q, p
  <2>2. c.st # "free" /\ c.ski = q.ski /\ q.ski # None
    BY <1>1, <1>3, <1>4
  <2> QED
    BY <1>0, <1>1, <1>3, <1>5, <1>6, <2>1, <2>2, TakeKeeps
<1>9. Len(peers') >= Len(peers)
  BY <1>0, <1>1, <1>2 DEF Put
<1> QED
  BY <1>7, <1>8, <1>9 DEF Sound

(* A peer after the dial: as it was, without a connection, or with a new   *)
(* one.                                                                    *)
Unreached(p, q) ==
    /\ ~p.is_attempt_running /\ ~q.is_attempt_running /\ q.connection = None /\ q.pending_approval_id = 0
    /\ q.provisional = p.provisional /\ q.is_trusted = p.is_trusted
    /\ q.handshake_complete = p.handshake_complete /\ q.trusted_by_pairing = p.trusted_by_pairing
    /\ q.expected_fingerprint = p.expected_fingerprint

(* A peer whose dial started the connection at a.                          *)
Reached(p, q, a, c) ==
    /\ ~p.is_attempt_running /\ q.is_attempt_running /\ a \in Addrs /\ q.connection = a
    /\ q.pending_approval_id = 0 /\ q.ski # None
    /\ q.provisional = p.provisional /\ q.is_trusted = p.is_trusted
    /\ q.handshake_complete = p.handshake_complete /\ q.trusted_by_pairing = p.trusted_by_pairing
    /\ q.expected_fingerprint = p.expected_fingerprint
    /\ c.st = "run" /\ c.ski = q.ski /\ c.phase \in {"init", "refused"} /\ c.busy = "no" /\ c.inc > made

(* The peers and the connections after a dial.                             *)
LEMMA DialPeers ==
    ASSUME TypeInv, Table(peers, conns), Dial
    PROVE  \E z \in Allocations :
              /\ peers' \in Seq(Peer) /\ conns' \in [Addrs -> Connection] /\ made' \in Nat
              /\ Len(peers') = Len(peers) /\ Unlike(peers')
              /\ \A j \in 1..Len(peers) :
                    \/ peers'[j] = peers[j]
                    \/ Unreached(peers[j], peers'[j]) /\ MayFail
                    \/ Reached(peers[j], peers'[j], z[j], conns'[z[j]])
              /\ \A b \in Addrs :
                    \/ conns'[b] = conns[b]
                    \/ conns[b].st = "free" /\ Held(peers', b)
<1>1. PICK z \in Allocations, W \in SUBSET (1..Len(peers)), f \in BOOLEAN :
         /\ Summary(z, W, [peers |-> peers', conns |-> conns', made |-> made', failed |-> f])
         /\ f => MayFail
  BY DEF Dial
<1> DEFINE s == [peers |-> peers', conns |-> conns', made |-> made', failed |-> f]
<1>2. s.peers = peers' /\ s.conns = conns' /\ s.made = made' /\ s.failed = f
  OBVIOUS
<1> HIDE DEF s
<1>3. /\ s \in DialStates /\ Unlike(s.peers)
      /\ \A j \in 1..Len(peers) : j \notin W => s.peers[j] = peers[j]
      /\ \A j \in W : Tried(s, j, z[j])
      /\ \A b \in Addrs : s.conns[b] = conns[b] \/ \E j \in W : z[j] = b /\ s.peers[j].connection = b
  BY <1>1 DEF Summary, s
<1>4. /\ peers' \in Seq(Peer) /\ Len(peers') = Len(peers) /\ conns' \in [Addrs -> Connection] /\ made' \in Nat
      /\ Unlike(peers')
  BY <1>2, <1>3 DEF DialStates
<1>5. made \in Nat /\ Len(peers) \in Nat /\ \A j \in 1..Len(peers) : peers[j] \in Peer /\ z[j] \in Addrs \cup {None}
  BY FindTyped DEF TypeInv, Allocations
<1>6. ASSUME NEW j \in 1..Len(peers)
      PROVE  \/ peers'[j] = peers[j]
             \/ Unreached(peers[j], peers'[j]) /\ MayFail
             \/ Reached(peers[j], peers'[j], z[j], conns'[z[j]])
  <2>1. CASE j \notin W \/ s.peers[j] = peers[j]
    BY <1>2, <1>3, <2>1
  <2>2. CASE j \in W /\ s.peers[j] # peers[j]
    <3>1. PICK d \in Devices :
             /\ ~peers[j].is_attempt_running /\ ~cancel
             /\ \/ z[j] = None /\ s.peers[j] = Missed(peers[j], d) /\ s.failed
                \/ /\ z[j] # None /\ s.peers[j] = Dialling(peers[j], d, z[j])
                   /\ \E ph \in {"init", "refused"}, n \in Nat :
                         n > made /\ s.conns[z[j]] = Started(n, d.ski, ph)
      BY <1>3, <2>2 DEF Tried
    <3>2. d.ski \in Skis /\ d.ski # None
      BY NoneIsNone DEF Skis, TypeInv
    <3>3. CASE z[j] = None /\ s.peers[j] = Missed(peers[j], d) /\ s.failed
      <4>1. DOMAIN peers[j] = DOMAIN NodeConnection(None) /\ peers[j] \in Peer
        BY <1>5 DEF NodeConnection, Peer
      <4>2. Unreached(peers[j], Missed(peers[j], d))
        BY <3>1, <4>1 DEF Unreached, Missed, NodeConnection
      <4> QED
        BY <1>1, <1>2, <3>3, <4>2
    <3>4. ASSUME z[j] # None, s.peers[j] = Dialling(peers[j], d, z[j]), NEW ph \in {"init", "refused"},
                 NEW n \in Nat, n > made, s.conns[z[j]] = Started(n, d.ski, ph)
          PROVE  Reached(peers[j], peers'[j], z[j], conns'[z[j]])
      <4> DEFINE q == Dialling(peers[j], d, z[j])
                 c == Started(n, d.ski, ph)
      <4>1. z[j] \in Addrs
        BY <1>5, <3>4
      <4>2. /\ q.ski = d.ski /\ q.connection = z[j] /\ q.is_attempt_running /\ q.pending_approval_id = 0
            /\ \A g \in {"handshake_complete", "is_trusted", "provisional", "trusted_by_pairing", "ship_id",
                        "expected_fingerprint", "peer_fingerprint", "retry", "due"} : q[g] = peers[j][g]
        BY <1>5, <3>2, <4>1, DialFields
      <4>3. c.st = "run" /\ c.ski = d.ski /\ c.phase = ph /\ c.busy = "no" /\ c.inc = n
        BY DEF Started
      <4> HIDE DEF q, c
      <4>4. Reached(peers[j], q, z[j], c)
        BY <3>1, <3>2, <3>4, <4>1, <4>2, <4>3 DEF Reached
      <4> QED
        BY <1>2, <3>4, <4>4 DEF q, c
    <3> QED
      BY <3>1, <3>3, <3>4
  <2> QED
    BY <2>1, <2>2
<1>7. ASSUME NEW b \in Addrs PROVE conns'[b] = conns[b] \/ (conns[b].st = "free" /\ Held(peers', b))
  <2>1. CASE s.conns[b] = conns[b]
    BY <1>2, <2>1
  <2>2. ASSUME NEW j \in W, z[j] = b, s.peers[j].connection = b PROVE conns[b].st = "free" /\ Held(peers', b)
    <3>1. j \in DOMAIN z /\ z[j] # None
      BY <2>2, NodeAssumption DEF Allocations, TypeInv
    <3>2. conns[b].st = "free"
      BY <2>2, <3>1 DEF Allocations
    <3> QED
      BY <1>2, <1>4, <2>2, <3>2 DEF Held
  <2> QED
    BY <1>3, <2>1, <2>2
<1> QED
  BY <1>4, <1>6, <1>7

(* A dial is sound.                                                        *)
LEMMA DialSound ==
    ASSUME TypeInv, Table(peers, conns), Dial
    PROVE  Sound
<1>1. PICK z \in Allocations :
         /\ Len(peers') = Len(peers) /\ Unlike(peers')
         /\ \A j \in 1..Len(peers) :
               \/ peers'[j] = peers[j]
               \/ Unreached(peers[j], peers'[j]) /\ MayFail
               \/ Reached(peers[j], peers'[j], z[j], conns'[z[j]])
         /\ \A b \in Addrs : conns'[b] = conns[b] \/ (conns[b].st = "free" /\ Held(peers', b))
  BY DialPeers
<1>2. /\ Len(peers) \in Nat /\ None \notin Addrs
      /\ \A j \in 1..Len(peers) : peers[j].connection \in Addrs \cup {None}
  BY FindTyped, NodeAssumption DEF TypeInv, Peer
<1>3. /\ \A i, j \in 1..Len(peers) : z[i] = z[j] /\ z[i] # None => i = j
      /\ \A i \in 1..Len(peers) : z[i] # None => conns[z[i]].st = "free"
  <2>1. DOMAIN peers = 1..Len(peers) /\ DOMAIN z = DOMAIN peers
    BY DEF Allocations, TypeInv
  <2> QED
    BY <2>1, SMTT(60) DEF Allocations
<1>4. \A j \in 1..Len(peers) : peers[j].connection # None =>
         /\ peers'[j] = peers[j] /\ peers[j].is_attempt_running /\ peers[j].ski # None
         /\ conns[peers[j].connection].st # "free"
         /\ conns[peers[j].connection].ski = peers[j].ski
         /\ conns'[peers[j].connection] = conns[peers[j].connection]
  BY <1>1, <1>2 DEF Table, Unreached, Reached
<1>5. \A j \in 1..Len(peers) : peers'[j].connection # None =>
         \/ peers'[j].connection = peers[j].connection
         \/ Reached(peers[j], peers'[j], z[j], conns'[z[j]])
  BY <1>1 DEF Unreached
<1>6. \A i, j \in 1..Len(peers) : peers'[i].connection = peers'[j].connection /\ peers'[i].connection # None => i = j
  <2> TAKE i, j \in 1..Len(peers)
  <2> HAVE peers'[i].connection = peers'[j].connection /\ peers'[i].connection # None
  <2>1. CASE peers'[i].connection = peers[i].connection /\ peers'[j].connection = peers[j].connection
    BY <2>1 DEF Table
  <2>2. CASE Reached(peers[i], peers'[i], z[i], conns'[z[i]]) /\ Reached(peers[j], peers'[j], z[j], conns'[z[j]])
    BY <1>2, <1>3, <2>2, ZenonT(60) DEF Reached
  <2>3. ASSUME NEW k \in 1..Len(peers), NEW l \in 1..Len(peers), peers'[k].connection = peers[k].connection,
               Reached(peers[l], peers'[l], z[l], conns'[z[l]]), peers'[k].connection = peers'[l].connection
        PROVE  FALSE
    <3>1. peers[k].connection = z[l] /\ z[l] \in Addrs
      BY <2>3 DEF Reached
    <3> QED
      BY <1>2, <1>3, <1>4, <3>1
  <2> QED
    BY <1>5, <2>1, <2>2, <2>3
<1>7. \A j \in 1..Len(peers) : peers'[j].connection # None =>
         /\ peers'[j].is_attempt_running /\ peers'[j].ski # None
         /\ conns'[peers'[j].connection].st # "free"
         /\ conns'[peers'[j].connection].ski = peers'[j].ski
  <2> TAKE j \in 1..Len(peers)
  <2> HAVE peers'[j].connection # None
  <2>1. CASE peers'[j].connection = peers[j].connection
    BY <1>4, <2>1
  <2>2. CASE Reached(peers[j], peers'[j], z[j], conns'[z[j]])
    BY <2>2 DEF Reached
  <2> QED
    BY <1>5, <2>1, <2>2
<1>8. Table(peers', conns')
  BY <1>1, <1>6, <1>7 DEF Table, Unlike
<1>9. \A b \in Addrs : Held(peers, b) => Held(peers', b)
  BY <1>1, <1>2, <1>4 DEF Held
<1>10. \A b \in Addrs : Held(peers', b) /\ conns[b].st # "free" => Held(peers, b)
  <2> TAKE b \in Addrs
  <2> HAVE Held(peers', b) /\ conns[b].st # "free"
  <2>1. PICK j \in 1..Len(peers) : peers'[j].connection = b
    BY <1>1 DEF Held
  <2>2. CASE peers'[j].connection = peers[j].connection
    BY <2>1, <2>2 DEF Held
  <2>3. CASE Reached(peers[j], peers'[j], z[j], conns'[z[j]])
    BY <1>2, <1>3, <2>1, <2>3 DEF Reached
  <2> QED
    BY <1>2, <1>5, <2>1, <2>2, <2>3
<1>11. Steady(peers, peers', conns, conns')
  BY <1>1, <1>10 DEF Steady
<1>12. Holding(peers, peers', conns, conns')
  BY <1>1, <1>9 DEF Holding
<1>13. Provisionals(peers) => Provisionals(peers')
  <2> HAVE Provisionals(peers)
  <2> SUFFICES ASSUME NEW j \in 1..Len(peers), peers'[j].provisional
               PROVE  peers'[j].connection # None /\ ~peers'[j].is_trusted
    BY <1>1 DEF Provisionals
  <2>1. CASE peers'[j] = peers[j]
    BY <2>1 DEF Provisionals
  <2>2. CASE peers[j].provisional /\ ~peers[j].is_attempt_running
    BY <1>4, <2>2 DEF Provisionals
  <2> QED
    BY <1>1, <2>1, <2>2 DEF Unreached, Reached
<1>14. Len(peers') >= Len(peers)
  BY <1>1, <1>2
<1> QED
  BY <1>8, <1>11, <1>12, <1>13, <1>14 DEF Sound

(* Plain steps are sound.                                                  *)
LEMMA PlainSound ==
    ASSUME TypeInv, Table(peers, conns), PlainTable(peers, peers'), UNCHANGED conns,
           \/ Calls \cap {"pairing", "fingerprint"} # {}
           \/ \A i \in 1..Len(peers) : /\ peers'[i].provisional = peers[i].provisional
                                       /\ peers'[i].is_trusted = peers[i].is_trusted
    PROVE  Sound
<1>1. Len(peers) \in Nat /\ \A j \in 1..Len(peers) : peers[j].connection \in Addrs \cup {None}
  BY FindTyped DEF TypeInv, Peer
<1>2. Table(peers', conns') /\ Steady(peers, peers', conns, conns') /\ Holding(peers, peers', conns, conns')
  BY <1>1, PlainKeeps, MildSame
<1>3. Calls \cap {"pairing", "fingerprint"} = {} /\ Provisionals(peers) => Provisionals(peers')
  BY <1>1 DEF PlainTable, Plain, Provisionals
<1>4. Len(peers') >= Len(peers)
  BY <1>1 DEF PlainTable
<1> QED
  BY <1>2, <1>3, <1>4 DEF Sound

(* The peers that are registered by a fingerprint, and those that lose     *)
(* their trust.                                                            *)
LEMMA TrustSound ==
    ASSUME TypeInv, Table(peers, conns), NEW t, NEW d \in Devices, NEW b \in BOOLEAN, Trusting(t, d, b),
           UNCHANGED conns
    PROVE  Sound
<1>0. peers \in Seq(Peer) /\ Len(peers) \in Nat /\ \A j \in 1..Len(peers) : peers[j] \in Peer
  BY FindTyped DEF TypeInv
<1>1. PICK k \in 1..(Len(peers) + 1) :
         Put(peers, peers', k, Registered(Entry(peers, k, None), d, b)) /\ Entry(peers, k, None) \in Peer
  BY DEF Trusting
<1> DEFINE p == Entry(peers, k, None)
           q == Registered(p, d, b)
<1>2. Mild(p, q) /\ ~q.provisional
  BY <1>1, MildRegistered
<1>3. CASE k <= Len(peers)
  <2>1. p = peers[k] /\ k \in 1..Len(peers)
    BY <1>0, <1>3 DEF Entry
  <2>2. MildTable(peers, peers')
    <3> HIDE DEF p, q
    <3>1. Put(peers, peers', k, q)
      BY <1>1 DEF p, q
    <3> QED
      BY <1>0, <1>2, <2>1, <3>1, MildPut
  <2> QED
    BY <2>2, MildSame, MildSound DEF Mildly
<1>4. CASE ~(k <= Len(peers))
  <2>1. k = Len(peers) + 1 /\ p = NodeConnection(None)
    BY <1>0, <1>4 DEF Entry
  <2>2. q.connection = None /\ q.ski = None
    BY <1>2, <2>1, NewPeer DEF Mild
  <2> HIDE DEF p, q
  <2>3. Put(peers, peers', Len(peers) + 1, q)
    BY <1>1, <2>1 DEF p, q
  <2>4. Table(peers', conns) /\ \A a : a # None => (Held(peers', a) <=> Held(peers, a))
    BY <1>0, <2>2, <2>3, GrowKeeps
  <2>5. Steady(peers, peers', conns, conns') /\ Holding(peers, peers', conns, conns')
    BY <2>4, NodeAssumption DEF Steady, Holding
  <2>6. Provisionals(peers) => Provisionals(peers')
    BY <1>0, <1>2, <2>3 DEF Put, Provisionals
  <2>7. Len(peers') >= Len(peers)
    BY <1>0, <2>3 DEF Put
  <2> QED
    BY <2>4, <2>5, <2>6, <2>7 DEF Sound
<1> QED
  BY <1>3, <1>4

(* A fingerprint that replaces another is sound.                           *)
LEMMA MarkedSound ==
    ASSUME TypeInv, Table(peers, conns), NEW t \in Threads, NEW fp \in Fps \cup {None}, config' = config,
           Calls \cap {"pairing", "fingerprint"} # {}, RegisterRemoteFingerprint(t, fp), UNCHANGED conns
    PROVE  Sound
<1>0. peers \in Seq(Peer) /\ Len(peers) \in Nat /\ \A j \in 1..Len(peers) : peers[j] \in Peer
  BY FindTyped DEF TypeInv
<1>1. CASE peers' = peers
  BY <1>1, PlainSound DEF PlainTable, Plain
<1>2. CASE Marked(peers, peers', remote_fingerprint)
  <2>1. ASSUME NEW j \in 1..Len(peers) PROVE Plain(peers[j], peers'[j])
    <3> DEFINE q == [peers[j] EXCEPT !.is_trusted = FALSE, !.provisional = TRUE, !.pending_approval_id = 0]
    <3>1. Plain(peers[j], q) /\ Plain(peers[j], peers[j])
      BY <1>0 DEF Plain, Peer
    <3>2. peers'[j] = q \/ peers'[j] = peers[j]
      BY <1>2 DEF Marked
    <3> HIDE DEF q
    <3> QED
      BY <3>1, <3>2
  <2>2. Len(peers') = Len(peers)
    BY <1>2 DEF Marked
  <2> QED
    BY <2>1, <2>2, PlainSound DEF PlainTable
<1> QED
  BY <1>1, <1>2, FingerprintStep

(* The steps of the other threads.                                         *)
Around ==
    \/ Application \/ Browser \/ Server
    \/ \E t \in Threads : Send(t)
    \/ \E a \in Addrs : ConnectionThread(a)
    \/ \E i \in DOMAIN peers : RetryTimer(i)

(* They are sound.                                                         *)
LEMMA AroundSound ==
    ASSUME TypeInv, Table(peers, conns), config' = config, Around
    PROVE  Sound
<1>0. peers \in Seq(Peer) /\ Len(peers) \in Nat /\ \A j \in 1..Len(peers) : peers[j] \in Peer
  BY FindTyped DEF TypeInv
<1>1. ASSUME NEW s \in Skis, NEW b \in BOOLEAN,
             RegisterRemoteSki(s, b) \/ UnregisterRemoteSki(s) \/ CancelPairingWithSki(s)
      PROVE  Sound
  <2>1. PICK i \in 0..Len(peers) : peers' = Withdraw(peers, i)
    BY <1>1, TypeWithdraw
  <2>2. UNCHANGED conns
    BY <1>1 DEF RegisterRemoteSki, UnregisterRemoteSki, CancelPairingWithSki
  <2>3. MildTable(peers, peers')
    BY <1>0, <2>1, WithdrawFields, MildWithdraw
  <2> QED
    BY <2>2, <2>3, MildSame, MildSound DEF Mildly
<1>2. ASSUME NEW s \in Skis, ApprovePendingHandshakeWithSki(s) PROVE Sound
  <2>1. PICK i \in 1..Len(peers) :
           Put(peers, peers', i, [peers[i] EXCEPT !.pending_approval_id = next_approval_id + 1])
    BY <1>2, TypeApprove
  <2> DEFINE q == [peers[i] EXCEPT !.pending_approval_id = next_approval_id + 1]
  <2>2. Plain(peers[i], q) /\ q.provisional = peers[i].provisional /\ q.is_trusted = peers[i].is_trusted
    BY <1>0 DEF Plain, Peer
  <2> HIDE DEF q
  <2>3. Len(peers') = Len(peers) /\ \A j \in 1..Len(peers) : peers'[j] = IF j = i THEN q ELSE peers[j]
    BY <1>0, <2>1 DEF Put, q
  <2>4. PlainTable(peers, peers')
    BY <2>2, <2>3 DEF PlainTable, Plain
  <2>5. UNCHANGED conns
    BY <1>2 DEF ApprovePendingHandshakeWithSki
  <2>6. \A j \in 1..Len(peers) : /\ peers'[j].provisional = peers[j].provisional
                                 /\ peers'[j].is_trusted = peers[j].is_trusted
    BY <2>2, <2>3
  <2> QED
    BY <2>4, <2>5, <2>6, PlainSound
<1>3. ASSUME NEW f \in Fps \cup {None}, RegisterFingerprint(f) PROVE Sound
  <2>1. "fingerprint" \in Calls /\ RegisterRemoteFingerprint("app", f) /\ UNCHANGED conns
    BY <1>3 DEF RegisterFingerprint, Call
  <2> QED
    BY <2>1, MarkedSound DEF Threads
<1>4. ASSUME NEW d \in Devices, PairingRequestAccepted(d) PROVE Sound
  <2>1. "pairing" \in Calls /\ RegisterRemoteFingerprint("pairing", d.fp) /\ UNCHANGED conns /\ d.fp \in Fps
    BY <1>4 DEF PairingRequestAccepted, Fps
  <2> QED
    BY <2>1, MarkedSound DEF Threads
<1>5. ASSUME NEW d \in Devices, RegisterRemoteFingerprintWithShipId(d) PROVE Sound
  <2>1. RegisterPeerTrust("app", d, FALSE) /\ UNCHANGED conns
    BY <1>5 DEF RegisterRemoteFingerprintWithShipId
  <2>2. Trusting("app", d, FALSE)
    BY <2>1, TrustStep DEF Threads
  <2> QED
    BY <2>1, <2>2, TrustSound
<1>6. ASSUME PairingRegistersPeer PROVE Sound
  <2>1. RegisterPeerTrust("pairing", pairing, TRUE) /\ UNCHANGED conns /\ pairing \in Devices
    BY <1>6 DEF PairingRegistersPeer, TypeInv
  <2>2. Trusting("pairing", pairing, TRUE)
    BY <2>1, TrustStep DEF Threads
  <2> QED
    BY <2>1, <2>2, TrustSound
<1>7. ASSUME UNCHANGED <<peers, conns>> PROVE Sound
  BY <1>7, PlainSound DEF PlainTable, Plain
<1>8. ASSUME OnWebsocketServerConnection PROVE Sound
  BY <1>7, <1>8, TypeServer, ServedSound
<1>9. ASSUME \/ \E found : OnMdnsEntriesFound(found)
             \/ \E d : ServerAccept(d)
             \/ \E t : Send(t)
      PROVE  UNCHANGED <<peers, conns>>
  BY <1>9 DEF OnMdnsEntriesFound, ServerAccept, Send
<1>10. ASSUME NEW a \in Addrs, ConnectionThread(a) PROVE Sound
  BY <1>10, MildThread, MildSound
<1>11. ASSUME NEW i \in DOMAIN peers, RetryTimer(i) PROVE Sound
  BY <1>11, MildTimer, MildSound
<1>12. CASE Application
  BY <1>1, <1>2, <1>3, <1>5, <1>12 DEF Application
<1>13. CASE Browser
  BY <1>4, <1>6, <1>7, <1>9, <1>13 DEF Browser
<1>14. CASE Server
  BY <1>7, <1>8, <1>9, <1>14 DEF Server
<1> QED
  BY <1>7, <1>9, <1>10, <1>11, <1>12, <1>13, <1>14 DEF Around

-----------------------------------------------------------------------------
(* The inductive invariant of the connections and their owners.            *)
Core ==
    /\ TypeInv
    /\ Table(peers, conns)
    /\ Threading(peers, conns, loop, stop)
    /\ LoopInv
    /\ ~Leaks => Owned(peers, conns, loop, stop)
    /\ Calls \cap {"pairing", "fingerprint"} = {} /\ loop.at # "exit" => Provisionals(peers)

(* They keep the types, and leave the loop alone.                          *)
LEMMA AroundType ==
    ASSUME TypeInv, config' = config, Around
    PROVE  TypeInv' /\ UNCHANGED <<loop, stop, cancel>>
<1>1. UNCHANGED <<loop, stop, cancel>>
  BY DEF Around, Application, Browser, Server, ConnectionThread, RetryTimer, RegisterRemoteSki,
      UnregisterRemoteSki, CancelPairingWithSki, ApprovePendingHandshakeWithSki, RegisterFingerprint,
      RegisterRemoteFingerprintWithShipId, OnMdnsEntriesFound, PairingRequestAccepted, PairingRegistersPeer,
      ServerAccept, OnWebsocketServerConnection, Hello, ConnectionEnds, PostConnectionClose, ReadDecision,
      SetupRemoteDevice, HandleShipStateUpdate, ReportServiceShipId, RetryTimerFires, RetryTimerPosts, Send
<1>2. CASE Application
  <2>1. TRUE \in BOOLEAN
    OBVIOUS
  <2> QED
    BY <1>1, <1>2, <2>1, TypeWithdraw, TypeApprove, TypeRegister DEF Application
<1>3. CASE Browser
  BY <1>1, <1>3, TypeBrowse, TypeRegister DEF Browser
<1>4. CASE Server
  BY <1>1, <1>4, TypeServer DEF Server
<1> QED
  BY <1>1, <1>2, <1>3, <1>4, TypeSend, TypeThread, TypeTimer DEF Around

(* Where the places of the loop and of Stop stay, and the connections are  *)
(* sound.                                                                  *)
LEMMA SoundKeeps ==
    ASSUME Core, Sound, TypeInv', config' = config, UNCHANGED <<loop, stop, cancel>>
    PROVE  Core'
<1>1. Threading(peers, conns, loop, stop)'
  BY DEF Core, Sound, Threading, Taking, Steady
<1>2. ~Leaks => Owned(peers, conns, loop, stop)'
  BY DEF Core, Sound, Owned, Holding
<1>3. LoopInv'
  <2>1. loop' \in Loops /\ loop'.n \in Nat /\ Len(peers) \in Nat /\ Len(peers') \in Nat /\ Len(peers') >= Len(peers)
    BY LenProperties DEF Core, TypeInv, Loops, Sound
  <2>2. loop'.at = "promote" => loop'.n <= Len(peers')
    BY <2>1 DEF Core, LoopInv
  <2>3. Leaks' = Leaks
    BY ConfigSame
  <2> QED
    BY <2>2, <2>3 DEF Core, LoopInv, Reaping
<1> QED
  BY <1>1, <1>2, <1>3, ConfigSame DEF Core, Sound

(* A peer is removed, or loses its connection.                             *)
LEMMA CutKeeps ==
    ASSUME NEW ps, NEW qs, NEW cs, NEW k, Len(ps) \in Nat, Cut(ps, qs, k), Table(ps, cs)
    PROVE  /\ Table(qs, cs)
           /\ \A b : b # None => (Held(qs, b) <=> Held(ps, b) /\ b # ps[k].connection)
           /\ Provisionals(ps) => Provisionals(qs)
           /\ Len(qs) \in Nat
<1> DEFINE at(j) == IF j < k THEN j ELSE j + 1
<1>1. /\ k \in 1..Len(ps) /\ Len(qs) = Len(ps) - 1 /\ Len(qs) \in Nat
      /\ \A j \in 1..Len(qs) : at(j) \in 1..Len(ps) /\ at(j) # k /\ qs[j] = ps[at(j)]
      /\ \A i, j \in 1..Len(qs) : at(i) = at(j) => i = j
  BY DEF Cut
<1>2. \A h \in 1..Len(ps) : h # k => \E j \in 1..Len(qs) : at(j) = h
  <2> TAKE h \in 1..Len(ps)
  <2> HAVE h # k
  <2>1. CASE h < k
    <3>1. h \in 1..Len(qs) /\ at(h) = h
      BY <1>1, <2>1
    <3> QED
      BY <3>1
  <2>2. CASE ~(h < k)
    <3>1. h - 1 \in 1..Len(qs) /\ at(h - 1) = h
      BY <1>1, <2>2
    <3> QED
      BY <3>1
  <2> QED
    BY <2>1, <2>2
<1> HIDE DEF at
<1>3. Table(qs, cs)
  <2>1. ASSUME NEW i \in 1..Len(qs), NEW j \in 1..Len(qs), qs[i].ski = qs[j].ski, qs[i].ski # None PROVE i = j
    <3>1. at(i) = at(j)
      BY <1>1, <2>1 DEF Table
    <3> QED
      BY <1>1, <3>1
  <2>2. ASSUME NEW i \in 1..Len(qs), NEW j \in 1..Len(qs), qs[i].connection = qs[j].connection,
               qs[i].connection # None
        PROVE  i = j
    <3>1. at(i) = at(j)
      BY <1>1, <2>2 DEF Table
    <3> QED
      BY <1>1, <3>1
  <2>3. ASSUME NEW i \in 1..Len(qs), qs[i].connection # None
        PROVE  /\ qs[i].is_attempt_running /\ qs[i].ski # None
               /\ cs[qs[i].connection].st # "free" /\ cs[qs[i].connection].ski = qs[i].ski
    <3>1. at(i) \in 1..Len(ps) /\ qs[i] = ps[at(i)]
      BY <1>1
    <3> QED
      BY <2>3, <3>1 DEF Table
  <2> QED
    BY <2>1, <2>2, <2>3 DEF Table
<1>4. ASSUME NEW b, b # None PROVE Held(qs, b) <=> Held(ps, b) /\ b # ps[k].connection
  <2>1. ASSUME Held(qs, b) PROVE Held(ps, b) /\ b # ps[k].connection
    BY <1>1, <1>4, <2>1 DEF Held, Table
  <2>2. ASSUME Held(ps, b), b # ps[k].connection PROVE Held(qs, b)
    <3>1. PICK h \in 1..Len(ps) : ps[h].connection = b
      BY <2>2 DEF Held
    <3>2. PICK j \in 1..Len(qs) : at(j) = h
      BY <1>2, <2>2, <3>1
    <3>3. qs[j].connection = b
      BY <1>1, <3>1, <3>2
    <3> QED
      BY <3>3 DEF Held
  <2> QED
    BY <2>1, <2>2
<1>5. Provisionals(ps) => Provisionals(qs)
  BY <1>1 DEF Provisionals
<1> QED
  BY <1>1, <1>3, <1>4, <1>5

(* A peer that loses its connection keeps the table.                       *)
LEMMA LoseKeeps ==
    ASSUME NEW ps, NEW qs, NEW cs, NEW k \in 1..Len(ps), NEW q, Len(ps) \in Nat, Put(ps, qs, k, q), Table(ps, cs),
           q.connection = None, q.ski = ps[k].ski
    PROVE  /\ Table(qs, cs)
           /\ \A b : b # None => (Held(qs, b) <=> Held(ps, b) /\ b # ps[k].connection)
           /\ Provisionals(ps) /\ ~q.provisional => Provisionals(qs)
           /\ Len(qs) = Len(ps)
<1>1. Len(qs) = Len(ps) /\ qs[k] = q /\ \A j \in 1..Len(ps) : j # k => qs[j] = ps[j]
  BY DEF Put
<1>2. Table(qs, cs)
  BY <1>1 DEF Table
<1>3. ASSUME NEW b, b # None PROVE Held(qs, b) <=> Held(ps, b) /\ b # ps[k].connection
  BY <1>1, <1>3 DEF Held, Table
<1>4. Provisionals(ps) /\ ~q.provisional => Provisionals(qs)
  BY <1>1 DEF Provisionals
<1> QED
  BY <1>1, <1>2, <1>3, <1>4

(* The loop goes on while it has no connection in its hands,               *)
LEMMA LoopMoves ==
    ASSUME Core, config' = config, UNCHANGED <<stop, cancel>>, loop.at # "exit", ~Reaping(loop), ~Reaping(loop)',
           Steady(peers, peers', conns, conns'), ~Leaks => Holding(peers, peers', conns, conns'),
           loop'.at \in {"approve", "abort"} => loop'.sc \in Addrs /\ conns[loop'.sc].st # "free",
           loop'.at = "exit" => cancel
    PROVE  Threading(peers, conns, loop, stop)' /\ (~Leaks => Owned(peers, conns, loop, stop)')
<1>1. Threading(peers, conns, loop, stop)'
  BY DEF Core, Threading, Steady
<1>2. ~Leaks => Owned(peers, conns, loop, stop)'
  BY DEF Core, Owned, Holding, Threading
<1> QED
  BY <1>1, <1>2

(* takes one from its peer,                                                *)
LEMMA LoopTakes ==
    ASSUME Core, config' = config, UNCHANGED <<stop, cancel, conns>>, loop.at # "exit", ~Reaping(loop),
           loop'.at = "stop", NEW a \in Addrs, loop'.sc = a, conns[a].st # "free",
           \A b \in Addrs : Held(peers', b) <=> Held(peers, b) /\ b # a
    PROVE  Threading(peers, conns, loop, stop)' /\ (~Leaks => Owned(peers, conns, loop, stop)')
<1>1. Threading(peers, conns, loop, stop)'
  BY DEF Core, Threading, Reaping, Taking
<1>2. ~Leaks => Owned(peers, conns, loop, stop)'
  BY DEF Core, Owned, Reaping, Threading
<1> QED
  BY <1>1, <1>2

(* and keeps it until it is deleted.                                       *)
LEMMA LoopHolds ==
    ASSUME Core, config' = config, UNCHANGED <<stop, cancel>>, Reaping(loop), Reaping(loop)', loop'.sc = loop.sc,
           Steady(peers, peers', conns, conns'), Holding(peers, peers', conns, conns')
    PROVE  Threading(peers, conns, loop, stop)' /\ (~Leaks => Owned(peers, conns, loop, stop)')
<1>1. Threading(peers, conns, loop, stop)'
  BY DEF Core, Threading, Reaping, Taking, Steady
<1>2. ~Leaks => Owned(peers, conns, loop, stop)'
  BY DEF Core, Owned, Holding, Reaping, Threading
<1> QED
  BY <1>1, <1>2

(* The connection is deleted.                                              *)
LEMMA LoopDrops ==
    ASSUME Core, config' = config, UNCHANGED <<stop, cancel, peers>>, Reaping(loop), ~Reaping(loop)',
           loop'.at \notin {"approve", "abort", "exit"},
           conns' = [conns EXCEPT ![loop.sc] = Free]
    PROVE  /\ Threading(peers, conns, loop, stop)' /\ (~Leaks => Owned(peers, conns, loop, stop)')
           /\ Table(peers, conns)'
<1>1. loop.sc \in Addrs /\ ~Held(peers, loop.sc) /\ conns \in [Addrs -> Connection]
  BY DEF Core, Threading, Taking, TypeInv
<1>2. conns'[loop.sc].st = "free" /\ \A b \in Addrs : b # loop.sc => conns'[b] = conns[b]
  BY <1>1 DEF Free
<1>3. Threading(peers, conns, loop, stop)'
  BY DEF Core, Threading, Reaping, Taking
<1>4. ~Leaks => Owned(peers, conns, loop, stop)'
  BY <1>1, <1>2 DEF Core, Owned, Reaping, Threading
<1>5. Table(peers, conns)'
  <2>1. \A j \in 1..Len(peers) : peers[j].connection # None =>
            conns'[peers[j].connection] = conns[peers[j].connection]
    BY <1>1 DEF Held
  <2> QED
    BY <2>1 DEF Core, Table
<1> QED
  BY <1>3, <1>4, <1>5

(* No step changes the table or the connections in these.                  *)
LEMMA SameSound ==
    ASSUME TypeInv, Table(peers, conns), UNCHANGED <<peers, conns>>
    PROVE  Sound
  BY PlainSound DEF PlainTable, Plain

(* Facts about the locals of the loop that the places name.                *)
LEMMA LoopFields ==
    ASSUME TypeInv
    PROVE  /\ \A x : /\ [loop EXCEPT !.at = x].at = x /\ [loop EXCEPT !.at = x].msg = loop.msg
                     /\ [loop EXCEPT !.at = x].sc = loop.sc /\ [loop EXCEPT !.at = x].ski = loop.ski
                     /\ [loop EXCEPT !.at = x].i = loop.i /\ [loop EXCEPT !.at = x].n = loop.n
                     /\ [loop EXCEPT !.at = x].dial = loop.dial
           /\ LoopIdle.at = "idle" /\ LoopIdle.dial = FALSE
  BY DEF TypeInv, Loops, LoopIdle

(* What Core says of the connections.                                      *)
Tabled ==
    /\ Table(peers, conns)
    /\ Threading(peers, conns, loop, stop)
    /\ ~Leaks => Owned(peers, conns, loop, stop)
    /\ Calls \cap {"pairing", "fingerprint"} = {} /\ loop.at # "exit" => Provisionals(peers)

(* The loop takes a connection from peer k, which is removed or keeps      *)
(* its place.                                                              *)
LEMMA TakesTabled ==
    ASSUME Core, config' = config, UNCHANGED <<stop, cancel, conns>>, loop.at # "exit", ~Reaping(loop),
           NEW k \in 1..Len(peers), peers[k].connection # None,
           loop'.at = "stop", loop'.sc = peers[k].connection,
           \/ Cut(peers, peers', k)
           \/ \E q : /\ Put(peers, peers', k, q) /\ q.connection = None /\ q.ski = peers[k].ski
                     /\ q.provisional => peers[k].provisional /\ peers[k].is_trusted
    PROVE  Tabled'
<1>0. peers \in Seq(Peer) /\ Len(peers) \in Nat /\ peers[k] \in Peer /\ Table(peers, conns)
  BY FindTyped DEF Core, TypeInv
<1> DEFINE a == peers[k].connection
<1>1. a \in Addrs /\ conns[a].st # "free"
  BY <1>0 DEF Peer, Table
<1>2. /\ Table(peers', conns)
      /\ \A b : b # None => (Held(peers', b) <=> Held(peers, b) /\ b # a)
      /\ Provisionals(peers) => Provisionals(peers')
  <2>1. CASE Cut(peers, peers', k)
    BY <1>0, <2>1, CutKeeps
  <2>2. ASSUME NEW q, Put(peers, peers', k, q), q.connection = None, q.ski = peers[k].ski,
               q.provisional => peers[k].provisional /\ peers[k].is_trusted
        PROVE  /\ Table(peers', conns)
               /\ \A b : b # None => (Held(peers', b) <=> Held(peers, b) /\ b # a)
               /\ Provisionals(peers) => Provisionals(peers')
    <3>1. Provisionals(peers) => ~q.provisional
      BY <2>2 DEF Provisionals
    <3> QED
      BY <1>0, <2>2, <3>1, LoseKeeps
  <2> QED
    BY <2>1, <2>2
<1>3. \A b \in Addrs : Held(peers', b) <=> Held(peers, b) /\ b # a
  BY <1>2, NodeAssumption
<1> HIDE DEF a
<1>4. loop'.sc = a
  BY DEF a
<1>5. Threading(peers, conns, loop, stop)' /\ (~Leaks => Owned(peers, conns, loop, stop)')
  BY <1>1, <1>3, <1>4, LoopTakes
<1> QED
  BY <1>2, <1>5, ConfigSame DEF Tabled, Core

(* The loop goes on with sound connections.                                *)
LEMMA MovesTabled ==
    ASSUME Core, config' = config, UNCHANGED <<stop, cancel>>, loop.at # "exit", ~Reaping(loop), ~Reaping(loop)',
           Sound, loop'.at \in {"approve", "abort"} => loop'.sc \in Addrs /\ conns[loop'.sc].st # "free",
           loop'.at = "exit" => cancel
    PROVE  Tabled'
<1>1. Threading(peers, conns, loop, stop)' /\ (~Leaks => Owned(peers, conns, loop, stop)')
  BY LoopMoves DEF Sound
<1> QED
  BY <1>1, ConfigSame DEF Tabled, Core, Sound

(* It removes a peer without a connection.                                 *)
LEMMA CutTabled ==
    ASSUME Core, config' = config, UNCHANGED <<stop, cancel, conns>>, loop.at # "exit", ~Reaping(loop), ~Reaping(loop)',
           loop'.at \notin {"approve", "abort", "exit"},
           NEW k \in 1..Len(peers), Cut(peers, peers', k), ~Leaks => peers[k].connection = None
    PROVE  Tabled'
<1>0. Len(peers) \in Nat /\ Table(peers, conns)
  BY FindTyped DEF Core, TypeInv
<1>1. /\ Table(peers', conns)
      /\ \A b : b # None => (Held(peers', b) <=> Held(peers, b) /\ b # peers[k].connection)
      /\ Provisionals(peers) => Provisionals(peers')
  BY <1>0, CutKeeps
<1>2. Steady(peers, peers', conns, conns')
  BY <1>1, NodeAssumption DEF Steady
<1>3. ~Leaks => Holding(peers, peers', conns, conns')
  BY <1>1, NodeAssumption DEF Holding
<1>4. Threading(peers, conns, loop, stop)' /\ (~Leaks => Owned(peers, conns, loop, stop)')
  BY <1>2, <1>3, LoopMoves
<1> QED
  BY <1>1, <1>4, ConfigSame DEF Tabled, Core

(* A decision that is posted is sound.                                     *)
LEMMA DecisionSound ==
    ASSUME TypeInv, Table(peers, conns), NEW a \in Addrs, NEW g \in BOOLEAN, NEW id \in Nat, PostDecision(a, g, id),
           MildTable(peers, peers')
    PROVE  Sound
<1>1. conns \in [Addrs -> Connection] /\ conns[a] \in Connection
  BY DEF TypeInv
<1>2. CASE conns' = conns
  BY <1>2, MildSame, MildSound DEF Mildly
<1>3. CASE conns' = [conns EXCEPT ![a] = [conns[a] EXCEPT !.box = Append(@, [granted |-> g, id |-> id])]]
  <2> DEFINE c == [conns[a] EXCEPT !.box = Append(@, [granted |-> g, id |-> id])]
  <2>1. c.st = conns[a].st /\ c.ski = conns[a].ski /\ c.inc = conns[a].inc
    BY <1>1 DEF Connection
  <2>2. conns' = [conns EXCEPT ![a] = c]
    BY <1>3
  <2> HIDE DEF c
  <2>3. MildConns(conns, conns')
    BY <1>1, <2>1, <2>2, MildConn
  <2> QED
    BY <2>3, MildSound DEF Mildly
<1> QED
  BY <1>2, <1>3, DecisionTyped

(* The steps of the loop keep the connections and their owners,            *)
LEMMA LoopTabled ==
    ASSUME Core, config' = config, LoopHandles
    PROVE  Tabled'
<1>0. /\ TypeInv /\ Table(peers, conns) /\ Threading(peers, conns, loop, stop) /\ LoopInv
      /\ peers \in Seq(Peer) /\ Len(peers) \in Nat /\ \A j \in 1..Len(peers) : peers[j] \in Peer
      /\ \A s : FindWithSki(peers, s) \in 0..Len(peers)
      /\ \A a : FindWithShipConnection(peers, a) \in 0..Len(peers)
      /\ loop \in Loops /\ None \notin Addrs
  BY FindTyped, NodeAssumption DEF Core, TypeInv
<1>f. /\ \A x : /\ [loop EXCEPT !.at = x].at = x /\ [loop EXCEPT !.at = x].sc = loop.sc
      /\ LoopIdle.at = "idle"
  BY <1>0, LoopFields
<1>s. UNCHANGED <<peers, conns>> => Sound
  BY <1>0, SameSound
<1>1. UNCHANGED <<stop, cancel>>
  BY DEF LoopHandles, others, LoopChecksCancel, LoopReceives, LoopIgnores, CloseShipConnection, LoopJoins,
      LoopPosts, LoopDeletes, ShipNodeUnregisterSki, ShipNodeRegisterSki,
      ShipNodeCancelPairingSki, LoopAborts, LoopRemoves, ShipNodeApprovePendingHandshake, LoopApproves,
      ShipNodePromoteFingerprint, LoopPromotes, ShipNodeRevokePairingFingerprint, LoopRevokes
<1>2. CASE LoopChecksCancel
  <2>1. loop.at = "idle" /\ loop' = [loop EXCEPT !.at = IF cancel THEN "exit" ELSE "receive"] /\ UNCHANGED <<peers, conns>>
    BY <1>2 DEF LoopChecksCancel, Goto
  <2>2. loop'.at = IF cancel THEN "exit" ELSE "receive"
    BY <1>f, <2>1
  <2> QED
    BY <1>1, <1>s, <2>1, <2>2, MovesTabled DEF Reaping
<1>3. CASE LoopReceives
  <2>1. loop.at = "receive" /\ loop' = [loop EXCEPT !.at = "handle", !.msg = Head(queue)] /\ UNCHANGED <<peers, conns>>
    BY <1>3 DEF LoopReceives
  <2>2. loop'.at = "handle"
    BY <1>0, <2>1 DEF Loops
  <2> QED
    BY <1>1, <1>s, <2>1, <2>2, MovesTabled DEF Reaping
<1>4. ASSUME loop.at \in {"handle", "promote", "revoke", "approve", "abort", "remove"}, Sound,
             loop'.at \in {"idle", "handle", "promote", "revoke", "remove", "dial"}
      PROVE  Tabled'
  BY <1>1, <1>4, MovesTabled DEF Reaping
<1>5. CASE LoopIgnores
  <2>1. loop.at = "handle" /\ loop' = LoopIdle /\ UNCHANGED <<peers, conns>>
    BY <1>5 DEF LoopIgnores, Handles, Done
  <2> QED
    BY <1>4, <1>f, <1>s, <2>1
<1>6. CASE CloseShipConnection
  <2> DEFINE i == FindWithShipConnection(peers, loop.msg.sc)
  <2>1. loop.at = "handle" /\ UNCHANGED conns
    BY <1>6 DEF CloseShipConnection, Handles
  <2>2. CASE loop' = LoopIdle /\ UNCHANGED peers
    BY <1>4, <1>f, <1>s, <2>1, <2>2
  <2>3. CASE Closed(i)
    <3> DEFINE q == OnConnectionClosed(peers[i])
    <3>1. /\ i \in 1..Len(peers) /\ peers[i] \in Peer /\ peers[i].connection = loop.msg.sc
          /\ loop.msg.sc \in Addrs
          /\ loop' = [loop EXCEPT !.at = "stop", !.sc = loop.msg.sc, !.ski = peers[i].ski,
                                  !.dial = ~Discarded(peers[i]) /\ ~RetryDelay(q.attempt_cnt)]
          /\ \/ Cut(peers, peers', i)
             \/ ~Discarded(peers[i]) /\ (Put(peers, peers', i, q) \/ Put(peers, peers', i, ScheduleRetry(q)))
      BY <2>3 DEF Closed
    <3>2. loop'.at = "stop" /\ loop'.sc = peers[i].connection
      BY <1>0, <3>1 DEF Loops
    <3> HIDE DEF i
    <3>3. /\ q.ski = peers[i].ski /\ q.connection = None /\ q.provisional = peers[i].provisional
          /\ ScheduleRetry(q) = [q EXCEPT !.retry = "armed"] /\ q \in Peer
      BY <3>1, ClosedFields
    <3> HIDE DEF q
    <3>4. /\ ScheduleRetry(q).ski = q.ski /\ ScheduleRetry(q).connection = q.connection
          /\ ScheduleRetry(q).provisional = q.provisional
      BY <3>3 DEF Peer
    <3>5. peers[i].connection # None
      BY <1>0, <3>1
    <3>6. ~Discarded(peers[i]) => (peers[i].provisional => peers[i].is_trusted)
      BY DEF Discarded
    <3>7. \/ Cut(peers, peers', i)
          \/ \E u : /\ Put(peers, peers', i, u) /\ u.connection = None /\ u.ski = peers[i].ski
                    /\ u.provisional => peers[i].provisional /\ peers[i].is_trusted
      <4>1. CASE Cut(peers, peers', i)
        BY <4>1
      <4>2. CASE ~Discarded(peers[i]) /\ Put(peers, peers', i, q)
        BY <3>3, <3>6, <4>2
      <4>3. CASE ~Discarded(peers[i]) /\ Put(peers, peers', i, ScheduleRetry(q))
        BY <3>3, <3>4, <3>6, <4>3
      <4> QED
        BY <3>1, <4>1, <4>2, <4>3
    <3> QED
      BY <1>1, <2>1, <3>1, <3>2, <3>5, <3>7, TakesTabled DEF Reaping
  <2> QED
    BY <1>0, <1>6, <2>2, <2>3, ClosedStep
<1>7. CASE LoopJoins
  <2>1. loop.at = "stop"
    BY <1>7 DEF LoopJoins
  <2>2. Sound /\ loop'.at \in {"post", "stopped"} /\ loop'.sc = loop.sc
    <3>1. CASE UNCHANGED <<peers, conns>> /\ loop' = [loop EXCEPT !.at = "stopped"]
      BY <1>f, <1>s, <3>1
    <3>2. CASE /\ loop.sc \in Addrs /\ conns[loop.sc].st # "shut" /\ conns[loop.sc].busy = "no"
               /\ Withdrew(peers, peers', FindWithShipConnection(peers, loop.sc))
               /\ conns' = [conns EXCEPT ![loop.sc] = [conns[loop.sc] EXCEPT !.st = "shut", !.box = <<>>]]
               /\ loop' = [loop EXCEPT !.at = IF cancel THEN "stopped" ELSE "post"]
      <4> DEFINE a == loop.sc
                 c == [conns[a] EXCEPT !.st = "shut", !.box = <<>>]
      <4>1. conns[a].st # "free" /\ conns \in [Addrs -> Connection] /\ conns[a] \in Connection
        BY <1>0, <2>1, <3>2 DEF Threading, Reaping, Taking, TypeInv
      <4>2. c.st = "shut" /\ c.ski = conns[a].ski /\ c.inc = conns[a].inc /\ conns' = [conns EXCEPT ![a] = c]
        BY <3>2, <4>1 DEF Connection
      <4>3. MildTable(peers, peers')
        BY <1>0, <3>2, MildWithdraw
      <4> HIDE DEF c
      <4>4. MildConns(conns, conns')
        BY <3>2, <4>1, <4>2, MildConn
      <4>5. Sound
        BY <1>0, <4>3, <4>4, MildSound DEF Mildly
      <4> QED
        BY <1>f, <3>2, <4>5
    <3> QED
      BY <1>0, <1>7, <3>1, <3>2, JoinStep
  <2>3. Threading(peers, conns, loop, stop)' /\ (~Leaks => Owned(peers, conns, loop, stop)')
    BY <1>1, <2>1, <2>2, LoopHolds DEF Reaping, Sound
  <2> QED
    BY <2>1, <2>2, <2>3, ConfigSame DEF Tabled, Core, Sound
<1>8. CASE LoopPosts
  <2>1. loop.at = "post" /\ loop' = [loop EXCEPT !.at = "stopped"] /\ UNCHANGED <<peers, conns>>
    BY <1>8 DEF LoopPosts, Goto
  <2>2. loop'.at = "stopped" /\ loop'.sc = loop.sc
    BY <1>f, <2>1
  <2>3. Threading(peers, conns, loop, stop)' /\ (~Leaks => Owned(peers, conns, loop, stop)')
    BY <1>1, <1>s, <2>1, <2>2, LoopHolds DEF Reaping, Sound
  <2> QED
    BY <1>s, <2>1, <2>2, <2>3, ConfigSame DEF Tabled, Core, Sound
<1>9. CASE LoopDeletes
  <2>1. loop.at = "stopped" /\ UNCHANGED peers /\ conns' = [conns EXCEPT ![loop.sc] = Free]
    BY <1>9 DEF LoopDeletes, Disconnected
  <2>2. loop'.at \in {"dial", "revoke", "idle"}
    <3>1. CASE loop' = [loop EXCEPT !.at = "dial", !.sc = None, !.dial = FALSE]
      BY <1>0, <3>1 DEF Loops
    <3>2. CASE loop' = [loop EXCEPT !.at = "revoke", !.sc = None, !.ski = None]
      BY <1>0, <3>2 DEF Loops
    <3> QED
      BY <1>9, <1>f, <3>1, <3>2 DEF LoopDeletes, Done
  <2>3. /\ Threading(peers, conns, loop, stop)' /\ (~Leaks => Owned(peers, conns, loop, stop)')
        /\ Table(peers, conns)'
    BY <1>1, <2>1, <2>2, LoopDrops DEF Reaping
  <2> QED
    BY <2>1, <2>2, <2>3, ConfigSame DEF Tabled, Core
<1>10. CASE ShipNodeUnregisterSki
  <2> DEFINE i == FindWithSki(peers, loop.msg.ski)
  <2>1. loop.at = "handle" /\ UNCHANGED conns
    BY <1>10 DEF ShipNodeUnregisterSki, Handles
  <2>2. CASE i = 0
    <3>1. loop' = LoopIdle /\ UNCHANGED peers
      BY <1>10, <2>2 DEF ShipNodeUnregisterSki, Done
    <3> QED
      BY <1>4, <1>f, <1>s, <2>1, <3>1
  <2>3. CASE i # 0
    <3>1. RemovePeer(peers, i) /\ IF peers[i].connection = None THEN Done
                                 ELSE Reap(peers[i].connection, peers[i].ski, FALSE)
      BY <1>10, <2>3 DEF ShipNodeUnregisterSki
    <3>2. i \in 0..Len(peers)
      BY <1>0
    <3> HIDE DEF i
    <3>3. i \in 1..Len(peers) /\ Cut(peers, peers', i)
      BY <1>0, <2>3, <3>1, <3>2, RemoveStep DEF Removes
    <3>4. CASE peers[i].connection = None
      <4>1. loop'.at = "idle"
        BY <1>f, <3>1, <3>4 DEF Done
      <4> QED
        BY <1>1, <2>1, <3>3, <3>4, <4>1, CutTabled DEF Reaping
    <3>5. CASE peers[i].connection # None
      <4>1. loop'.at = "stop" /\ loop'.sc = peers[i].connection
        BY <1>0, <3>1, <3>5 DEF Reap, Loops
      <4> QED
        BY <1>1, <2>1, <3>3, <3>5, <4>1, TakesTabled DEF Reaping
    <3> QED
      BY <3>4, <3>5
  <2> QED
    BY <2>2, <2>3
<1>11. CASE ShipNodeRegisterSki
  <2>1. loop.at = "handle" /\ UNCHANGED conns /\ loop' = [loop EXCEPT !.at = "dial", !.ski = loop.msg.ski]
    BY <1>11 DEF ShipNodeRegisterSki, Handles
  <2>2. loop'.at = "dial"
    BY <1>0, <2>1 DEF Loops
  <2>3. PICK k \in 1..(Len(peers) + 1) :
           /\ loop.msg.ski \in Skis /\ loop.msg.trust \in BOOLEAN
           /\ k > Len(peers) => \A j \in 1..Len(peers) : peers[j].ski # loop.msg.ski
           /\ Entry(peers, k, loop.msg.ski) \in Peer
           /\ Put(peers, peers', k, Enrolled(Entry(peers, k, loop.msg.ski), loop.msg.trust))
    BY <1>0, <1>11, EnrolStep
  <2> DEFINE p == Entry(peers, k, loop.msg.ski)
             q == Enrolled(p, loop.msg.trust)
  <2>4. Mild(p, q) /\ ~q.provisional
    BY <2>3 DEF Mild, Enrolled, Peer
  <2>5. Sound
    <3>1. CASE k <= Len(peers)
      <4>1. p = peers[k] /\ k \in 1..Len(peers)
        BY <1>0, <3>1 DEF Entry
      <4> HIDE DEF p, q
      <4>2. Put(peers, peers', k, q)
        BY <2>3 DEF p, q
      <4>3. MildTable(peers, peers')
        BY <1>0, <2>4, <4>1, <4>2, MildPut
      <4> QED
        BY <1>0, <2>1, <4>3, MildSame, MildSound DEF Mildly
    <3>2. CASE ~(k <= Len(peers))
      <4>1. k = Len(peers) + 1 /\ p = NodeConnection(loop.msg.ski) /\ k > Len(peers)
        BY <1>0, <3>2 DEF Entry
      <4>2. q.connection = None /\ q.ski = loop.msg.ski
        BY <2>3, <2>4, <4>1, NewPeer DEF Mild
      <4> HIDE DEF p, q
      <4>3. Put(peers, peers', Len(peers) + 1, q)
        BY <2>3, <4>1 DEF p, q
      <4>4. Table(peers', conns) /\ \A a : a # None => (Held(peers', a) <=> Held(peers, a))
        BY <1>0, <2>3, <4>1, <4>2, <4>3, GrowKeeps
      <4>5. Steady(peers, peers', conns, conns') /\ Holding(peers, peers', conns, conns')
        BY <2>1, <4>4, NodeAssumption DEF Steady, Holding
      <4>6. Provisionals(peers) => Provisionals(peers')
        BY <1>0, <2>4, <4>3 DEF Put, Provisionals
      <4>7. Len(peers') >= Len(peers)
        BY <1>0, <4>3 DEF Put
      <4> QED
        BY <2>1, <4>4, <4>5, <4>6, <4>7 DEF Sound
    <3> QED
      BY <3>1, <3>2
  <2> QED
    BY <1>4, <2>1, <2>2, <2>5
<1>12. CASE ShipNodeCancelPairingSki
  <2> DEFINE i == FindWithSki(peers, loop.msg.ski)
  <2>1. loop.at = "handle" /\ UNCHANGED conns /\ peers' = Withdraw(peers, i) /\ i \in 0..Len(peers)
    BY <1>0, <1>12 DEF ShipNodeCancelPairingSki, Handles
  <2>2. Sound
    <3>1. MildTable(peers, peers')
      BY <1>0, <2>1, WithdrawFields, MildWithdraw
    <3> QED
      BY <1>0, <2>1, <3>1, MildSame, MildSound DEF Mildly
  <2>3. CASE i # 0 /\ peers[i].connection # None /\ loop' = [loop EXCEPT !.at = "abort", !.sc = peers[i].connection]
    <3>1. i \in 1..Len(peers)
      BY <1>0, <2>1, <2>3
    <3>2. loop'.at = "abort" /\ loop'.sc = peers[i].connection
      BY <1>0, <2>3 DEF Loops
    <3>3. peers[i].connection \in Addrs /\ conns[peers[i].connection].st # "free"
      BY <1>0, <2>3, <3>1 DEF Table, Peer
    <3> HIDE DEF i
    <3> QED
      BY <1>1, <2>1, <2>2, <3>2, <3>3, MovesTabled DEF Reaping
  <2>4. CASE loop' = [loop EXCEPT !.at = "remove"] \/ loop' = LoopIdle
    BY <1>4, <1>f, <2>1, <2>2, <2>4
  <2> QED
    BY <1>12, <2>3, <2>4 DEF ShipNodeCancelPairingSki, Goto, Done
<1>13. CASE LoopAborts
  <2>1. loop.at = "abort" /\ UNCHANGED peers /\ PostDecision(loop.sc, FALSE, 0) /\ loop' = LoopIdle
    BY <1>13 DEF LoopAborts, Done
  <2>2. loop.sc \in Addrs
    BY <1>0, <2>1 DEF Threading
  <2>3. Sound
    BY <1>0, <2>1, <2>2, MildSame, DecisionSound
  <2> QED
    BY <1>4, <1>f, <2>1, <2>3
<1>14. CASE LoopRemoves
  <2> DEFINE i == FindWithSki(peers, loop.msg.ski)
  <2>1. loop.at = "remove" /\ UNCHANGED conns /\ loop' = LoopIdle
    BY <1>14 DEF LoopRemoves, Done
  <2>2. CASE i = 0
    <3>1. UNCHANGED peers
      BY <1>14, <2>2 DEF LoopRemoves
    <3> QED
      BY <1>4, <1>f, <1>s, <2>1, <3>1
  <2>3. CASE i # 0
    <3>1. RemovePeer(peers, i) /\ i \in 0..Len(peers)
      BY <1>0, <1>14, <2>3 DEF LoopRemoves
    <3> HIDE DEF i
    <3>2. i \in 1..Len(peers) /\ Cut(peers, peers', i)
      BY <1>0, <2>3, <3>1, RemoveStep DEF Removes
    <3>3. Leaks
      BY <1>0, <2>1 DEF LoopInv
    <3> QED
      BY <1>1, <1>f, <2>1, <3>2, <3>3, CutTabled DEF Reaping
  <2> QED
    BY <2>2, <2>3
<1>15. CASE ShipNodeApprovePendingHandshake
  <2> DEFINE i == FindWithShipConnection(peers, loop.msg.sc)
  <2>1. loop.at = "handle" /\ UNCHANGED <<peers, conns>>
    BY <1>15 DEF ShipNodeApprovePendingHandshake, Handles
  <2>2. CASE loop' = LoopIdle
    BY <1>4, <1>f, <1>s, <2>1, <2>2
  <2>3. CASE i # 0 /\ loop' = [loop EXCEPT !.at = "approve", !.sc = loop.msg.sc]
    <3>1. i \in 1..Len(peers) /\ peers[i].connection = loop.msg.sc /\ loop.msg.sc # None
      BY <1>0, <2>3, HolderFields
    <3>2. loop'.at = "approve" /\ loop'.sc = peers[i].connection
      BY <1>0, <2>3, <3>1 DEF Loops
    <3>3. peers[i].connection \in Addrs /\ conns[peers[i].connection].st # "free"
      BY <1>0, <3>1 DEF Table, Peer
    <3> HIDE DEF i
    <3> QED
      BY <1>1, <1>s, <2>1, <3>2, <3>3, MovesTabled DEF Reaping
  <2> QED
    BY <1>15, <2>2, <2>3 DEF ShipNodeApprovePendingHandshake, Done
<1>16. CASE LoopApproves
  <2>1. loop.at = "approve" /\ UNCHANGED peers /\ PostDecision(loop.sc, TRUE, loop.msg.id) /\ loop' = LoopIdle
    BY <1>16 DEF LoopApproves, Done
  <2>2. loop.sc \in Addrs /\ loop.msg.id \in Nat
    BY <1>0, <2>1 DEF Threading, Loops, Message
  <2>3. Sound
    BY <1>0, <2>1, <2>2, MildSame, DecisionSound
  <2> QED
    BY <1>4, <1>f, <2>1, <2>3
<1>17. CASE ShipNodePromoteFingerprint
  <2>1. loop.at = "handle" /\ UNCHANGED <<peers, conns>> /\ loop' = [loop EXCEPT !.at = "promote", !.i = 1, !.n = Len(peers)]
    BY <1>17 DEF ShipNodePromoteFingerprint, Handles
  <2>2. loop'.at = "promote"
    BY <1>0, <2>1 DEF Loops
  <2> QED
    BY <1>4, <1>s, <2>1, <2>2
<1>18. CASE LoopPromotes
  <2>1. loop.at = "promote"
    BY <1>18 DEF LoopPromotes
  <2>2. loop'.at \in {"idle", "promote"}
    <3>1. CASE loop' = [loop EXCEPT !.i = @ + 1]
      BY <1>0, <2>1, <3>1 DEF Loops
    <3> QED
      BY <1>18, <1>f, <3>1 DEF LoopPromotes, Done
  <2>3. Sound
    <3>1. CASE UNCHANGED <<peers, conns>>
      BY <1>s, <3>1
    <3>2. CASE /\ loop.i \in 1..Len(peers) /\ peers[loop.i] \in Peer
               /\ peers[loop.i].connection \in Addrs
               /\ Put(peers, peers', loop.i, Promoted(peers[loop.i], remote_fingerprint))
               /\ PostDecision(peers[loop.i].connection, TRUE, 0)
      <4> DEFINE k == loop.i
                 p == peers[k]
                 q == Promoted(p, remote_fingerprint)
      <4>1. Mild(p, q)
        BY <3>2 DEF Mild, Promoted, Peer
      <4> HIDE DEF q
      <4>2. Put(peers, peers', k, q) /\ k \in 1..Len(peers)
        BY <3>2 DEF q
      <4> HIDE DEF k
      <4>3. MildTable(peers, peers')
        BY <1>0, <4>1, <4>2, MildPut
      <4> QED
        BY <1>0, <3>2, <4>3, DecisionSound
    <3> QED
      BY <1>0, <1>18, <3>1, <3>2, PromoteStep
  <2> QED
    BY <1>4, <2>1, <2>2, <2>3
<1>19. CASE ShipNodeRevokePairingFingerprint
  <2>1. loop.at = "handle" /\ UNCHANGED <<peers, conns>> /\ loop' = [loop EXCEPT !.at = "revoke", !.i = 1]
    BY <1>19 DEF ShipNodeRevokePairingFingerprint, Handles
  <2>2. loop'.at = "revoke"
    BY <1>0, <2>1 DEF Loops
  <2> QED
    BY <1>4, <1>s, <2>1, <2>2
<1>20. CASE LoopRevokes
  <2>1. loop.at = "revoke" /\ UNCHANGED conns
    BY <1>20 DEF LoopRevokes
  <2>2. CASE loop' = LoopIdle /\ UNCHANGED peers
    BY <1>4, <1>f, <1>s, <2>1, <2>2
  <2>3. CASE loop' = [loop EXCEPT !.i = loop.i + 1] /\ UNCHANGED peers
    <3>1. loop'.at = "revoke"
      BY <1>0, <2>1, <2>3 DEF Loops
    <3> QED
      BY <1>4, <1>s, <2>1, <2>3, <3>1
  <2>4. CASE Removes(loop.i) /\ peers[loop.i].connection = None /\ loop' = loop
    <3> DEFINE k == loop.i
    <3>1. k \in 1..Len(peers) /\ Cut(peers, peers', k) /\ peers[k].connection = None
      BY <2>4 DEF Removes
    <3> HIDE DEF k
    <3> QED
      BY <1>1, <2>1, <2>4, <3>1, CutTabled DEF Reaping
  <2>5. CASE /\ Removes(loop.i) /\ peers[loop.i].connection # None
             /\ loop' = [loop EXCEPT !.at = "stop", !.sc = peers[loop.i].connection,
                                     !.ski = peers[loop.i].ski, !.dial = FALSE]
    <3> DEFINE k == loop.i
    <3>1. k \in 1..Len(peers) /\ Cut(peers, peers', k) /\ peers[k].connection # None
      BY <2>5 DEF Removes
    <3>2. loop'.at = "stop" /\ loop'.sc = peers[k].connection
      BY <1>0, <2>5 DEF Loops
    <3> HIDE DEF k
    <3> QED
      BY <1>1, <2>1, <3>1, <3>2, TakesTabled DEF Reaping
  <2> QED
    BY <1>0, <1>20, <2>2, <2>3, <2>4, <2>5, RevokeStep
<1> QED
  BY <1>2, <1>3, <1>5, <1>6, <1>7, <1>8, <1>9, <1>10, <1>11, <1>12, <1>13, <1>14, <1>15, <1>16, <1>17, <1>18,
     <1>19, <1>20 DEF LoopHandles

(* and what its places say of its locals.                                  *)
LEMMA LoopLocals ==
    ASSUME Core, config' = config, LoopHandles, TypeInv'
    PROVE  LoopInv'
<1>0. /\ TypeInv /\ Table(peers, conns) /\ Threading(peers, conns, loop, stop) /\ LoopInv
      /\ peers \in Seq(Peer) /\ Len(peers) \in Nat /\ Len(peers') \in Nat
      /\ \A s : FindWithSki(peers, s) \in 0..Len(peers)
      /\ loop \in Loops /\ loop.msg \in Allowed
  BY FindTyped, LenProperties DEF Core, TypeInv
<1>1. UNCHANGED <<stop, cancel>> /\ Leaks' = Leaks
  BY ConfigSame DEF LoopHandles, others, LoopChecksCancel, LoopReceives, LoopIgnores, CloseShipConnection, LoopJoins,
      LoopPosts, LoopDeletes, ShipNodeUnregisterSki, ShipNodeRegisterSki,
      ShipNodeCancelPairingSki, LoopAborts, LoopRemoves, ShipNodeApprovePendingHandshake, LoopApproves,
      ShipNodePromoteFingerprint, LoopPromotes, ShipNodeRevokePairingFingerprint, LoopRevokes
<1>2. ASSUME loop' = LoopIdle PROVE LoopInv'
  BY <1>0, <1>1, <1>2 DEF LoopInv, LoopIdle, Reaping
<1>3. ASSUME loop.at \notin {"stop", "post", "stopped"},
             NEW x \in {"exit", "receive", "handle", "abort", "approve"}, loop'.at = x, loop'.dial = loop.dial
      PROVE  LoopInv'
  BY <1>0, <1>1, <1>3 DEF LoopInv, Reaping
<1>4. CASE LoopChecksCancel
  <2>1. loop.at = "idle" /\ loop' = [loop EXCEPT !.at = IF cancel THEN "exit" ELSE "receive"]
    BY <1>4 DEF LoopChecksCancel, Goto
  <2>2. loop'.at \in {"exit", "receive"} /\ loop'.dial = loop.dial
    BY <1>0, <2>1 DEF Loops
  <2> QED
    BY <1>3, <2>1, <2>2
<1>5. CASE LoopReceives
  <2>1. loop.at = "receive" /\ loop' = [loop EXCEPT !.at = "handle", !.msg = Head(queue)]
    BY <1>5 DEF LoopReceives
  <2>2. loop'.at = "handle" /\ loop'.dial = loop.dial
    BY <1>0, <2>1 DEF Loops
  <2> QED
    BY <1>3, <2>1, <2>2
<1>6. CASE LoopIgnores \/ LoopAborts \/ LoopApproves \/ LoopRemoves
  BY <1>2, <1>6 DEF LoopIgnores, LoopAborts, LoopApproves, LoopRemoves, Done
<1>7. ASSUME loop'.at = "stop", loop'.msg = loop.msg, loop'.i = loop.i,
             loop'.dial => loop.msg.type = "ShipConnectionClosed",
             loop.msg.type \in {"ShipConnectionClosed", "ShipUnregisterSki", "RevokePairingFingerprint"},
             loop.msg.type = "RevokePairingFingerprint" => loop.i # 0
      PROVE  LoopInv'
  BY <1>0, <1>1, <1>7 DEF LoopInv, Reaping
<1>8. CASE CloseShipConnection
  <2> DEFINE i == FindWithShipConnection(peers, loop.msg.sc)
  <2>1. CASE loop' = LoopIdle
    BY <1>2, <2>1
  <2>2. CASE Closed(i)
    <3>1. loop.msg.type = "ShipConnectionClosed"
      BY <1>8 DEF CloseShipConnection, Handles
    <3>2. \E u, v : loop' = [loop EXCEPT !.at = "stop", !.sc = loop.msg.sc, !.ski = u, !.dial = v]
      BY <2>2 DEF Closed
    <3>3. loop'.at = "stop" /\ loop'.msg = loop.msg /\ loop'.i = loop.i
      BY <1>0, <3>2 DEF Loops
    <3> QED
      BY <1>7, <3>1, <3>3
  <2> QED
    BY <1>0, <1>8, <2>1, <2>2, ClosedStep
<1>9. CASE LoopJoins \/ LoopPosts
  <2>1. loop.at \in {"stop", "post"} /\ \E x \in {"post", "stopped"} : loop' = [loop EXCEPT !.at = x]
    BY <1>9 DEF LoopJoins, LoopPosts, Goto
  <2>2. /\ loop'.at \in {"post", "stopped"} /\ loop'.dial = loop.dial /\ loop'.msg = loop.msg /\ loop'.i = loop.i
    BY <1>0, <2>1 DEF Loops
  <2> QED
    BY <1>0, <1>1, <2>1, <2>2 DEF LoopInv, Reaping
<1>10. CASE LoopDeletes
  <2>1. loop.at = "stopped"
    BY <1>10 DEF LoopDeletes
  <2>2. CASE loop' = LoopIdle
    BY <1>2, <2>2
  <2>3. CASE loop.dial /\ loop' = [loop EXCEPT !.at = "dial", !.sc = None, !.dial = FALSE]
    <3>1. loop'.at = "dial" /\ ~loop'.dial /\ loop'.msg = loop.msg /\ loop.msg.type = "ShipConnectionClosed"
      BY <1>0, <2>3 DEF Loops, LoopInv
    <3> QED
      BY <1>0, <1>1, <3>1 DEF LoopInv, Reaping
  <2>4. CASE /\ loop.msg.type = "RevokePairingFingerprint"
             /\ loop' = [loop EXCEPT !.at = "revoke", !.sc = None, !.ski = None]
    <3>1. loop'.at = "revoke" /\ loop'.dial = loop.dial /\ loop'.msg = loop.msg /\ loop'.i = loop.i
      BY <1>0, <2>4 DEF Loops
    <3>2. ~loop.dial /\ loop.i # 0
      BY <1>0, <2>1, <2>4 DEF LoopInv, Reaping
    <3> QED
      BY <1>0, <1>1, <2>4, <3>1, <3>2 DEF LoopInv, Reaping
  <2> QED
    BY <1>10, <2>2, <2>3, <2>4 DEF LoopDeletes, Done
<1>11. CASE ShipNodeUnregisterSki
  <2> DEFINE i == FindWithSki(peers, loop.msg.ski)
  <2>1. loop.msg.type = "ShipUnregisterSki"
    BY <1>11 DEF ShipNodeUnregisterSki, Handles
  <2>2. CASE loop' = LoopIdle
    BY <1>2, <2>2
  <2>3. CASE Reap(peers[i].connection, peers[i].ski, FALSE)
    <3>1. loop'.at = "stop" /\ loop'.msg = loop.msg /\ loop'.i = loop.i /\ loop'.dial = FALSE
      BY <1>0, <2>3 DEF Reap, Loops
    <3> QED
      BY <1>7, <2>1, <3>1
  <2> QED
    BY <1>11, <2>2, <2>3 DEF ShipNodeUnregisterSki, Done
<1>12. CASE ShipNodeRegisterSki
  <2>1. /\ loop.at = "handle" /\ loop.msg.type = "ShipRegisterSki"
        /\ loop' = [loop EXCEPT !.at = "dial", !.ski = loop.msg.ski]
    BY <1>12 DEF ShipNodeRegisterSki, Handles
  <2>2. loop'.at = "dial" /\ loop'.dial = loop.dial /\ loop'.msg = loop.msg /\ loop'.ski = loop.msg.ski
    BY <1>0, <2>1 DEF Loops
  <2> QED
    BY <1>0, <1>1, <2>1, <2>2 DEF LoopInv, Reaping
<1>13. CASE ShipNodeCancelPairingSki
  <2> DEFINE i == FindWithSki(peers, loop.msg.ski)
  <2>1. loop.at = "handle" /\ loop.msg.type = "ShipCancelPairingSki"
    BY <1>13 DEF ShipNodeCancelPairingSki, Handles
  <2>2. CASE loop' = LoopIdle
    BY <1>2, <2>2
  <2>3. CASE loop' = [loop EXCEPT !.at = "abort", !.sc = peers[i].connection]
    <3>1. loop'.at = "abort" /\ loop'.dial = loop.dial
      BY <1>0, <2>3 DEF Loops
    <3> QED
      BY <1>3, <2>1, <3>1
  <2>4. CASE i # 0 /\ peers[i].provisional /\ peers[i].connection = None /\ loop' = [loop EXCEPT !.at = "remove"]
    <3>1. loop'.at = "remove" /\ loop'.dial = loop.dial /\ loop'.msg = loop.msg
      BY <1>0, <2>4 DEF Loops
    <3>2. "cancel" \in Calls /\ i \in 1..Len(peers)
      BY <1>0, <2>1, <2>4 DEF Allowed
    <3>3. ~Provisionals(peers)
      BY <2>4, <3>2 DEF Provisionals
    <3>4. Leaks
      BY <2>1, <3>2, <3>3 DEF Core, Leaks
    <3> QED
      BY <1>0, <1>1, <2>1, <3>1, <3>4 DEF LoopInv, Reaping
  <2> QED
    BY <1>13, <2>2, <2>3, <2>4 DEF ShipNodeCancelPairingSki, Goto, Done
<1>14. CASE ShipNodeApprovePendingHandshake
  <2>1. CASE loop' = LoopIdle
    BY <1>2, <2>1
  <2>2. CASE loop.at = "handle" /\ loop' = [loop EXCEPT !.at = "approve", !.sc = loop.msg.sc]
    <3>1. loop'.at = "approve" /\ loop'.dial = loop.dial
      BY <1>0, <2>2 DEF Loops
    <3> QED
      BY <1>3, <2>2, <3>1
  <2> QED
    BY <1>14, <2>1, <2>2 DEF ShipNodeApprovePendingHandshake, Done, Handles
<1>15. CASE ShipNodePromoteFingerprint
  <2>1. /\ loop.at = "handle" /\ loop' = [loop EXCEPT !.at = "promote", !.i = 1, !.n = Len(peers)] /\ UNCHANGED peers
    BY <1>15 DEF ShipNodePromoteFingerprint, Handles
  <2>2. loop'.at = "promote" /\ loop'.dial = loop.dial /\ loop'.i = 1 /\ loop'.n = Len(peers)
    BY <1>0, <2>1 DEF Loops
  <2> QED
    BY <1>0, <1>1, <2>1, <2>2 DEF LoopInv, Reaping
<1>16. CASE LoopPromotes
  <2>1. CASE loop' = LoopIdle
    BY <1>2, <2>1
  <2>2. CASE loop.at = "promote" /\ loop' = [loop EXCEPT !.i = loop.i + 1]
    <3>1. /\ loop'.at = "promote" /\ loop'.dial = loop.dial /\ loop'.i = loop.i + 1 /\ loop'.n = loop.n
          /\ loop.i \in Nat /\ loop.n \in Nat
      BY <1>0, <2>2 DEF Loops
    <3>2. Len(peers') = Len(peers)
      <4>1. CASE UNCHANGED <<peers, conns>>
        BY <4>1
      <4>2. CASE loop.i \in 1..Len(peers) /\ Put(peers, peers', loop.i, Promoted(peers[loop.i], remote_fingerprint))
        BY <1>0, <4>2 DEF Put
      <4> QED
        BY <1>0, <1>16, <4>1, <4>2, PromoteStep
    <3>3. loop.n <= Len(peers) /\ ~loop.dial
      BY <1>0, <2>2 DEF LoopInv, Reaping
    <3>4. loop'.i # 0 /\ loop'.n <= Len(peers')
      BY <1>0, <3>1, <3>2, <3>3
    <3> QED
      BY <1>0, <1>1, <3>1, <3>3, <3>4 DEF LoopInv, Reaping
  <2> QED
    BY <1>16, <2>1, <2>2 DEF LoopPromotes, Done
<1>17. CASE ShipNodeRevokePairingFingerprint
  <2>1. /\ loop.at = "handle" /\ loop.msg.type = "RevokePairingFingerprint"
        /\ loop' = [loop EXCEPT !.at = "revoke", !.i = 1]
    BY <1>17 DEF ShipNodeRevokePairingFingerprint, Handles
  <2>2. loop'.at = "revoke" /\ loop'.dial = loop.dial /\ loop'.i = 1 /\ loop'.msg = loop.msg
    BY <1>0, <2>1 DEF Loops
  <2> QED
    BY <1>0, <1>1, <2>1, <2>2 DEF LoopInv, Reaping
<1>18. CASE LoopRevokes
  <2>1. loop.at = "revoke" /\ loop.msg.type = "RevokePairingFingerprint" /\ loop.i # 0 /\ loop.i \in Nat /\ ~loop.dial
    BY <1>0, <1>18 DEF LoopRevokes, LoopInv, Loops, Reaping
  <2>2. CASE loop' = LoopIdle
    BY <1>2, <2>2
  <2>3. CASE loop' = [loop EXCEPT !.i = loop.i + 1]
    <3>1. loop'.at = "revoke" /\ loop'.dial = loop.dial /\ loop'.i = loop.i + 1 /\ loop'.msg = loop.msg
      BY <1>0, <2>1, <2>3 DEF Loops
    <3>2. loop'.i # 0
      BY <2>1, <3>1
    <3> QED
      BY <1>0, <1>1, <2>1, <3>1, <3>2 DEF LoopInv, Reaping
  <2>4. CASE loop' = loop
    BY <1>0, <1>1, <2>1, <2>4 DEF LoopInv, Reaping
  <2>5. CASE loop' = [loop EXCEPT !.at = "stop", !.sc = peers[loop.i].connection,
                                  !.ski = peers[loop.i].ski, !.dial = FALSE]
    <3>1. loop'.at = "stop" /\ loop'.msg = loop.msg /\ loop'.i = loop.i /\ loop'.dial = FALSE
      BY <1>0, <2>5 DEF Loops
    <3> QED
      BY <1>7, <2>1, <3>1
  <2> QED
    BY <1>0, <1>18, <2>2, <2>3, <2>4, <2>5, RevokeStep
<1> QED
  BY <1>4, <1>5, <1>6, <1>8, <1>9, <1>10, <1>11, <1>12, <1>13, <1>14, <1>15, <1>16, <1>17, <1>18 DEF LoopHandles

(* The parts of Core.                                                      *)
LEMMA CoreParts == Core <=> TypeInv /\ Tabled /\ LoopInv
  BY DEF Core, Tabled

(* A dial keeps Core.                                                      *)
LEMMA DialCore ==
    ASSUME Core, config' = config, Dial
    PROVE  Core'
<1>0. TypeInv /\ Table(peers, conns)
  BY DEF Core
<1>1. loop.at \in {"handle", "dial"} /\ loop' = LoopIdle /\ UNCHANGED <<queue, spine, others>>
  BY DEF Dial, Handles
<1>2. peers' \in Seq(Peer) /\ conns' \in [Addrs -> Connection] /\ made' \in Nat
  BY <1>0, DialPeers
<1>3. TypeInv'
  <2>1. TypeTable'
    BY <1>0, <1>2, TypeKept
  <2>2. TypeMessages'
    BY <1>0, <1>1, TypeKept DEF others
  <2>3. LoopIdle \in Loops /\ LoopIdle.msg \in Allowed
    BY <1>0, LoopTyped DEF TypeInv
  <2>4. TypeLoop'
    BY <1>0, <1>1, <2>3, TypeKept DEF others
  <2>5. TypeRest'
    BY <1>0, <1>1, <1>2, ConfigSame DEF TypeInv, TypeRest, others
  <2> QED
    BY <2>1, <2>2, <2>4, <2>5, TypeParts, PTL
<1>4. Sound
  BY <1>0, DialSound
<1>5. loop'.at = "idle" /\ UNCHANGED <<stop, cancel>>
  BY <1>1 DEF LoopIdle, others
<1>6. Tabled'
  BY <1>1, <1>4, <1>5, MovesTabled DEF Reaping
<1>7. LoopInv'
  BY <1>1, <1>5 DEF Core, LoopInv, LoopIdle, Reaping
<1> QED
  BY <1>3, <1>6, <1>7, CoreParts, PTL

(* The caller of Stop.                                                     *)
LEMMA StopCore ==
    ASSUME Core, config' = config, StopCaller
    PROVE  Core'
<1>0. /\ TypeInv /\ Table(peers, conns) /\ Threading(peers, conns, loop, stop) /\ LoopInv
      /\ peers \in Seq(Peer) /\ Len(peers) \in Nat /\ stop \in Stops /\ Leaks' = Leaks
  BY FindTyped, ConfigSame DEF Core, TypeInv
<1>1. TypeInv'
  BY <1>0, TypeStop
<1>2. UNCHANGED loop
  BY DEF StopCaller, StopBegins, StopSends, StopJoinsLoop, StopReleases, StopDeletes, StopLeavesLoop, StopEnds
<1>3. LoopInv'
  <2>1. CASE StopJoinsLoop
    <3>1. stop'.i = 1 /\ UNCHANGED peers
      BY <1>0, <2>1 DEF StopJoinsLoop, Stops
    <3> QED
      BY <1>0, <1>2, <3>1 DEF LoopInv, Reaping
  <2>2. CASE StopBegins \/ StopSends \/ StopLeavesLoop \/ StopEnds
    <3>1. stop'.at # "each" /\ UNCHANGED peers
      BY <1>0, <2>2 DEF StopBegins, StopSends, StopLeavesLoop, StopEnds, Stops
    <3> QED
      BY <1>0, <1>2, <3>1 DEF LoopInv, Reaping
  <2>3. CASE StopReleases \/ StopDeletes
    <3>1. stop.at \in {"each", "conn"} /\ loop.at = "exit"
      BY <1>0, <2>3 DEF StopReleases, StopDeletes, Threading
    <3>2. stop'.at = "each" => stop'.i # 0
      <4>1. stop.i \in Nat
        BY <1>0 DEF Stops
      <4>2. CASE StopDeletes
        BY <4>1, <4>2 DEF StopDeletes
      <4>3. CASE StopReleases
        <5>1. CASE stop' = [stop EXCEPT !.i = stop.i + 1]
          BY <1>0, <4>1, <5>1 DEF Stops
        <5>2. CASE \E x : stop' = [stop EXCEPT !.at = "conn", !.sc = x]
          BY <1>0, <5>2 DEF Stops
        <5> QED
          BY <4>3, <5>1, <5>2 DEF StopReleases
      <4> QED
        BY <2>3, <4>2, <4>3
    <3> QED
      BY <1>0, <1>2, <3>1, <3>2 DEF LoopInv, Reaping
  <2> QED
    BY <2>1, <2>2, <2>3 DEF StopCaller
<1>4. Tabled'
  <2>1. CASE StopBegins \/ StopSends \/ StopJoinsLoop \/ StopLeavesLoop \/ StopEnds
    <3>1. /\ UNCHANGED <<peers, conns>> /\ stop.at # "conn" /\ stop'.at # "conn"
          /\ stop'.at \in {"each", "servers", "done"} => loop.at = "exit"
          /\ cancel => cancel'
          /\ stop'.at # "no" => cancel'
      BY <1>0, <2>1 DEF StopBegins, StopSends, StopJoinsLoop, StopLeavesLoop, StopEnds, Stops, Threading
    <3>2. Threading(peers, conns, loop, stop)'
      BY <1>0, <1>2, <3>1 DEF Threading, Taking, Reaping
    <3>3. ~Leaks => Owned(peers, conns, loop, stop)'
      BY <1>2, <3>1 DEF Core, Owned, Reaping
    <3> QED
      BY <1>0, <1>2, <3>1, <3>2, <3>3, ConfigSame DEF Core, Tabled
  <2>2. CASE StopReleases
    <3> DEFINE k == stop.i
               q == Released(peers[k])
    <3>1. k \in 1..Len(peers) /\ peers[k] \in Peer /\ Put(peers, peers', k, q)
      BY <1>0, <2>2, ReleaseStep
    <3>2. /\ stop.at = "each" /\ loop.at = "exit" /\ UNCHANGED <<conns, cancel>> /\ cancel
          /\ stop' = IF peers[k].connection = None THEN [stop EXCEPT !.i = stop.i + 1]
                     ELSE [stop EXCEPT !.at = "conn", !.sc = peers[k].connection]
      BY <1>0, <2>2 DEF StopReleases, Threading
    <3>3. /\ peers[k].connection = None => stop'.at = "each"
          /\ peers[k].connection # None => stop'.at = "conn" /\ stop'.sc = peers[k].connection
      BY <1>0, <3>2 DEF Stops
    <3>4. q.connection = None /\ q.ski = peers[k].ski
      BY <3>1 DEF Released, Peer
    <3> HIDE DEF q, k
    <3>5. /\ Table(peers', conns)
          /\ \A b : b # None => (Held(peers', b) <=> Held(peers, b) /\ b # peers[k].connection)
      BY <1>0, <3>1, <3>4, LoseKeeps
    <3>6. peers[k].connection # None =>
             /\ peers[k].connection \in Addrs /\ conns[peers[k].connection].st # "free"
      BY <1>0, <3>1 DEF Peer, Table
    <3>7. Threading(peers, conns, loop, stop)'
      BY <1>2, <3>2, <3>3, <3>5, <3>6, NodeAssumption DEF Threading, Taking, Reaping
    <3>8. ~Leaks => Owned(peers, conns, loop, stop)'
      <4> SUFFICES ASSUME ~Leaks, NEW a \in Addrs, conns[a].st # "free"
                   PROVE  Held(peers', a) \/ (stop'.at = "conn" /\ stop'.sc = a)
        BY <3>2 DEF Owned
      <4>1. Held(peers, a)
        BY <3>2 DEF Core, Owned, Reaping
      <4> QED
        BY <3>3, <3>5, <4>1, NodeAssumption
    <3> QED
      BY <1>0, <1>2, <3>2, <3>5, <3>7, <3>8 DEF Tabled
  <2>3. CASE StopDeletes
    <3> DEFINE a == stop.sc
    <3>1. /\ stop.at = "conn" /\ loop.at = "exit" /\ UNCHANGED <<peers, cancel>> /\ cancel
          /\ conns' = [conns EXCEPT ![a] = Free] /\ stop'.at = "each"
          /\ a \in Addrs /\ ~Held(peers, a) /\ conns \in [Addrs -> Connection]
      BY <1>0, <2>3 DEF StopDeletes, Threading, Taking, Disconnected, TypeInv
    <3>2. conns'[a].st = "free" /\ \A b \in Addrs : b # a => conns'[b] = conns[b]
      BY <3>1 DEF Free
    <3>3. Table(peers, conns)'
      <4>1. \A j \in 1..Len(peers) : peers[j].connection # None =>
                conns'[peers[j].connection] = conns[peers[j].connection]
        BY <3>1 DEF Held
      <4> QED
        BY <1>0, <3>1, <4>1 DEF Table
    <3>4. Threading(peers, conns, loop, stop)'
      BY <1>2, <3>1 DEF Threading, Reaping
    <3>5. ~Leaks => Owned(peers, conns, loop, stop)'
      BY <1>2, <3>1, <3>2 DEF Core, Owned, Reaping
    <3> QED
      BY <1>0, <1>2, <3>1, <3>3, <3>4, <3>5 DEF Tabled
  <2> QED
    BY <2>1, <2>2, <2>3 DEF StopCaller
<1> QED
  BY <1>1, <1>3, <1>4, CoreParts, PTL

(* Core holds at the start.                                                *)
LEMMA InitCore ==
    ASSUME Init PROVE Core
<1>0. config \in Configs
  BY DEF Init
<1>1. TypeInv
  <2>1. conns \in [Addrs -> Connection]
    <3>1. Free \in Connection
      BY DEF Free, Connection, Phases
    <3> QED
      BY <3>1 DEF Init
  <2>2. Msg("Cancel") \in Allowed
    BY MsgTyped DEF MsgTypes
  <2>3. loop \in Loops /\ loop.msg \in Allowed
    <3>1. Msg("Cancel") \in Message
      BY <2>2 DEF Allowed
    <3> QED
      BY <2>2, <3>1 DEF Init, LoopIdle, Loops
  <2>4. peers \in Seq(Peer) /\ queue \in Seq(Allowed) /\ Len(queue) <= QueueSize
        /\ out \in [Threads -> Seq(Allowed)] /\ mdns_entries \in Seq(Devices)
    <3>1. QueueSize \in Nat
      BY <1>0, ConfigAssumption DEF QueueSize
    <3> QED
      BY <3>1, EmptySeq DEF Init
  <2>5. approvals \in [given : Seq(Nat), withdrawn : SUBSET Nat, accepted : SUBSET [id : Nat, inc : Nat]]
    <3>1. <<>> \in Seq(Nat) /\ {} \in SUBSET Nat /\ {} \in SUBSET [id : Nat, inc : Nat]
      BY EmptySeq
    <3> QED
      BY <3>1 DEF Init
  <2>6. count \in [{"closes", "accepts", "calls", "browse"} -> Nat] /\ stop \in Stops /\ spine \in [Skis -> Nat]
    BY DEF Init, Stops
  <2> QED
    BY <1>0, <2>1, <2>3, <2>4, <2>5, <2>6 DEF Init, TypeInv
<1>2. Len(peers) = 0 /\ \A a \in Addrs : conns[a].st = "free"
  BY DEF Init, Free
<1>3. loop.at = "idle" /\ ~loop.dial /\ stop.at = "no"
  BY DEF Init, LoopIdle
<1>4. Table(peers, conns) /\ Provisionals(peers) /\ Owned(peers, conns, loop, stop)
  BY <1>2 DEF Table, Provisionals, Owned
<1>5. Threading(peers, conns, loop, stop) /\ LoopInv
  BY <1>3 DEF Threading, LoopInv, Reaping
<1> QED
  BY <1>1, <1>4, <1>5 DEF Core

(* Core is inductive.                                                      *)
LEMMA CoreStep ==
    ASSUME Core, [Next /\ UNCHANGED config]_<<vars, config>>
    PROVE  Core'
<1>1. CASE UNCHANGED <<vars, config>>
  <2>1. TypeInv'
    BY <1>1, ConfigSame DEF Core, TypeInv, vars
  <2>2. Table(peers, conns)' /\ Threading(peers, conns, loop, stop)' /\ LoopInv' /\ Leaks' = Leaks /\ Calls' = Calls
    BY <1>1, ConfigSame DEF Core, vars, Table, Threading, LoopInv, Taking, Held, Reaping
  <2>3. ~Leaks => Owned(peers, conns, loop, stop)'
    BY <1>1 DEF Core, vars, Owned, Held, Reaping
  <2> QED
    BY <1>1, <2>1, <2>2, <2>3 DEF Core, vars, Provisionals
<1>2. CASE Around /\ config' = config
  <2>1. TypeInv' /\ UNCHANGED <<loop, stop, cancel>> /\ Sound
    BY <1>2, AroundType, AroundSound DEF Core
  <2> QED
    BY <1>2, <2>1, SoundKeeps
<1>3. CASE LoopHandles /\ config' = config
  <2>1. TypeInv'
    BY <1>3, TypeLoopStep DEF Core
  <2>2. Tabled' /\ LoopInv'
    BY <1>3, <2>1, LoopTabled, LoopLocals
  <2> QED
    BY <2>1, <2>2, CoreParts, PTL
<1>4. CASE (HandleMdnsEntriesFound \/ LoopDials) /\ config' = config
  <2>1. Dial
    BY <1>4, DialStep DEF Core
  <2> QED
    BY <1>4, <2>1, DialCore
<1>5. CASE StopCaller /\ config' = config
  BY <1>5, StopCore
<1> QED
  BY <1>1, <1>2, <1>3, <1>4, <1>5 DEF Next, Around, ConnectionLoop, LoopHandles

(* The connections of the node and their owners, of which the theorems     *)
(* below are consequences.                                                 *)
THEOREM CoreHolds == Spec => []Core
<1>1. Init => Core
  BY InitCore
<1>2. Core /\ [Next /\ UNCHANGED config]_<<vars, config>> => Core'
  BY CoreStep
<1> QED
  BY <1>1, <1>2, PTL DEF Spec

(* Type correctness: TypeOK of the node.                                   *)
THEOREM NodeTypeCorrect == Spec => []TypeOK
<1>1. Core => TypeOK
  <2>1. Allowed \subseteq Message
    BY DEF Allowed
  <2>2. Seq(Allowed) \subseteq Seq(Message)
    BY <2>1
  <2> QED
    BY <2>2 DEF Core, TypeInv, TypeOK
<1> QED
  BY <1>1, CoreHolds, PTL

(* Every connection has one owner.                                         *)
THEOREM NodeConnectionsOwned == Spec => []ConnectionsOwned
<1>1. Core => ConnectionsOwned
  <2> SUFFICES ASSUME Core, ~Leaks, NEW a \in Addrs
               PROVE  Cardinality({i \in DOMAIN peers : peers[i].connection = a}) + Cardinality(Reaper(a))
                         = IF conns[a].st = "free" THEN 0 ELSE 1
    BY DEF ConnectionsOwned, Leaks
  <2> DEFINE H == {i \in DOMAIN peers : peers[i].connection = a}
             R == Reaper(a)
  <2>0. DOMAIN peers = 1..Len(peers) /\ a # None
    BY NodeAssumption DEF Core, TypeInv
  <2>1. R = {} \/ R = {"loop"} \/ R = {"stop"}
    <3>1. ~(Reaping(loop) /\ stop.at = "conn")
      BY DEF Core, Threading, Reaping
    <3> QED
      BY <3>1 DEF Reaper, Reaping
  <2>2. R # {} <=> (Reaping(loop) /\ loop.sc = a) \/ (stop.at = "conn" /\ stop.sc = a)
    BY DEF Reaper, Reaping
  <2>3. H # {} <=> Held(peers, a)
    BY <2>0 DEF Held
  <2>4. H = {} \/ \E i \in 1..Len(peers) : H = {i}
    BY <2>0 DEF Core, Table
  <2>5. Held(peers, a) => conns[a].st # "free" /\ R = {}
    BY <2>0, <2>2 DEF Core, Table, Held, Threading, Taking
  <2>6. R # {} => conns[a].st # "free"
    BY <2>2 DEF Core, Threading, Taking
  <2>7. conns[a].st # "free" => H # {} \/ R # {}
    BY <2>2, <2>3 DEF Core, Owned
  <2> HIDE DEF H, R
  <2>8. Cardinality({}) = 0
    BY FS_EmptySet
  <2>9. Cardinality(R) = IF R = {} THEN 0 ELSE 1
    BY <2>1, <2>8, FS_Singleton
  <2>10. Cardinality(H) = IF H = {} THEN 0 ELSE 1
    BY <2>4, <2>8, FS_Singleton
  <2> QED
    BY <2>3, <2>5, <2>6, <2>7, <2>9, <2>10 DEF H, R
<1> QED
  BY <1>1, CoreHolds, PTL

=============================================================================
