----------------------- MODULE ShipNodeTrustProofs ------------------------
(***************************************************************************)
(* What the SHIP node does with trust, and that it dials, for every set of *)
(* devices, queue size and bound, on top of Core.                          *)
(*                                                                         *)
(* TokenInv: the approval a peer waits for was given for the connection it *)
(* has. CompleteInv: where no thread but its own ends a connection, its    *)
(* close is posted once and reaches the peer that has it, so that a        *)
(* handshake that is marked as complete is that of the present connection. *)
(* PairingInv: a peer that was paired by an older request, or that lost    *)
(* its trust to a newer one, has its revocation on the way; it follows the *)
(* message from the thread that has to send it through the queue to the    *)
(* loop's walk over the table, from which peers are removed meanwhile      *)
(* (Moved, Carries), and says of every peer after a step where it comes    *)
(* from (Traced).                                                          *)
(*                                                                         *)
(* DialInv: a peer that could be dialled has a timer or a message that     *)
(* makes the loop dial it. What a peer is known by must be that of one     *)
(* device (Known), or the service that is dialled for it is that of        *)
(* another; no message is lost (MessagesKept), and a dial reaches every    *)
(* peer it is for (Tried).                                                 *)
(***************************************************************************)
EXTENDS ShipNodeProofs

-----------------------------------------------------------------------------
(* Approvals.                                                              *)

(* The approval a peer waits for was given for its connection, and not     *)
(* taken back; no two peers wait for the same.                             *)
Tokens(ps, cs, ap, nx) ==
    /\ nx = Len(ap.given)
    /\ ap.withdrawn \subseteq 1..nx
    /\ \A i \in 1..Len(ps) : ps[i].pending_approval_id # 0 =>
          /\ ps[i].connection # None
          /\ ps[i].pending_approval_id \in (1..nx) \ ap.withdrawn
          /\ ap.given[ps[i].pending_approval_id] = cs[ps[i].connection].inc
    /\ \A i, j \in 1..Len(ps) :
          ps[i].pending_approval_id = ps[j].pending_approval_id /\ ps[i].pending_approval_id # 0 => i = j

(* The approvals, of the state.                                            *)
TokenInv == Tokens(peers, conns, approvals, next_approval_id)

(* A peer whose approval is open is the one it was, and has its            *)
(* connection.                                                             *)
Faithful(ps, qs) ==
    \/ \A j \in 1..Len(qs) :
          \/ qs[j].pending_approval_id = 0
          \/ /\ j \in 1..Len(ps) /\ qs[j].pending_approval_id = ps[j].pending_approval_id
             /\ qs[j].connection = ps[j].connection
    \/ \E k : Cut(ps, qs, k)

(* The connections that peers have stay.                                   *)
IncKept(ps, cs, ds) == \A a \in Addrs : Held(ps, a) => ds[a].inc = cs[a].inc

(* Then the approvals are those of the connections.                        *)
LEMMA TokensFollow ==
    ASSUME NEW ps, NEW qs, NEW cs, NEW ds, NEW ap, NEW nx, Len(ps) \in Nat, Len(qs) \in Nat,
           \A i \in 1..Len(ps) : ps[i].connection \in Addrs \cup {None},
           Tokens(ps, cs, ap, nx), Faithful(ps, qs), IncKept(ps, cs, ds)
    PROVE  Tokens(qs, ds, ap, nx)
<1> DEFINE Open(i) == /\ ps[i].connection # None
                      /\ ps[i].pending_approval_id \in (1..nx) \ ap.withdrawn
                      /\ ap.given[ps[i].pending_approval_id] = ds[ps[i].connection].inc
<1>1. \A i \in 1..Len(ps) : ps[i].pending_approval_id # 0 => Open(i)
  BY DEF Tokens, IncKept, Held
<1>2. nx = Len(ap.given) /\ ap.withdrawn \subseteq 1..nx
  BY DEF Tokens
<1>3. \A i, j \in 1..Len(ps) :
         ps[i].pending_approval_id = ps[j].pending_approval_id /\ ps[i].pending_approval_id # 0 => i = j
  BY DEF Tokens
<1>4. CASE \A j \in 1..Len(qs) :
              \/ qs[j].pending_approval_id = 0
              \/ /\ j \in 1..Len(ps) /\ qs[j].pending_approval_id = ps[j].pending_approval_id
                 /\ qs[j].connection = ps[j].connection
  BY <1>1, <1>2, <1>3, <1>4, SMTT(60) DEF Tokens
<1>5. CASE \E k : Cut(ps, qs, k)
  <2>1. PICK k : Cut(ps, qs, k)
    BY <1>5
  <2> DEFINE at(j) == IF j < k THEN j ELSE j + 1
  <2>2. /\ \A j \in 1..Len(qs) : at(j) \in 1..Len(ps) /\ qs[j] = ps[at(j)]
        /\ \A i, j \in 1..Len(qs) : at(i) = at(j) => i = j
    BY <2>1 DEF Cut
  <2> HIDE DEF at
  <2>3. \A j \in 1..Len(qs) : qs[j].pending_approval_id # 0 => Open(at(j))
    BY <1>1, <2>2
  <2>4. \A i, j \in 1..Len(qs) :
           qs[i].pending_approval_id = qs[j].pending_approval_id /\ qs[i].pending_approval_id # 0 => i = j
    BY <1>3, <2>2
  <2> QED
    BY <1>2, <2>2, <2>3, <2>4 DEF Tokens
<1> QED
  BY <1>4, <1>5 DEF Faithful

(* What a step does to the peers that wait for an approval.                *)
Keeping == Faithful(peers, peers') /\ IncKept(peers, conns, conns')

(* No change,                                                              *)
LEMMA SameKeeping ==
    ASSUME TypeInv, UNCHANGED peers, UNCHANGED conns
    PROVE  Keeping
  BY FindTyped DEF TypeInv, Keeping, Faithful, IncKept

(* and a mild step, keep the approvals.                                    *)
LEMMA MildKeeping ==
    ASSUME TypeInv, Mildly
    PROVE  Keeping
<1>1. Len(peers') = Len(peers) /\ \A i \in 1..Len(peers) : Mild(peers[i], peers'[i])
  BY DEF Mildly, MildTable
<1>2. Faithful(peers, peers')
  BY <1>1 DEF Faithful, Mild
<1>3. IncKept(peers, conns, conns')
  BY DEF Mildly, MildConns, IncKept
<1> QED
  BY <1>2, <1>3 DEF Keeping

(* A peer is changed in its place or added, and has no approval or keeps   *)
(* it.                                                                     *)
LEMMA PutKeeping ==
    ASSUME TypeInv, NEW k \in 1..(Len(peers) + 1), NEW q, Put(peers, peers', k, q), IncKept(peers, conns, conns'),
           \/ q.pending_approval_id = 0
           \/ /\ k <= Len(peers) /\ q.pending_approval_id = peers[k].pending_approval_id
              /\ q.connection = peers[k].connection
    PROVE  Keeping
<1>0. Len(peers) \in Nat
  BY FindTyped DEF TypeInv
<1>1. \A j \in 1..Len(peers') : \/ j = k /\ peers'[j] = q
                                \/ j \in 1..Len(peers) /\ peers'[j] = peers[j]
  BY <1>0 DEF Put
<1>2. Faithful(peers, peers')
  BY <1>0, <1>1 DEF Faithful
<1> QED
  BY <1>2 DEF Keeping

(* A connection that is new takes a free place.                            *)
LEMMA FreeKept ==
    ASSUME TypeInv, Table(peers, conns), \A a \in Addrs : conns'[a] = conns[a] \/ conns[a].st = "free"
    PROVE  IncKept(peers, conns, conns')
<1> SUFFICES ASSUME NEW a \in Addrs, Held(peers, a) PROVE conns'[a].inc = conns[a].inc
  BY DEF IncKept
<1>1. conns[a].st # "free"
  BY NodeAssumption DEF Held, Table
<1> QED
  BY <1>1

(* The websocket server,                                                   *)
LEMMA ServedKeeping ==
    ASSUME TypeInv, Table(peers, conns), Served
    PROVE  Keeping
<1> DEFINE k == IF PeerOf(server) = 0 THEN Len(peers) + 1 ELSE PeerOf(server)
           p == AdmittedPeer(server)
<1>1. PICK a \in Addrs, c \in Connection :
         /\ server \in Devices /\ conns[a].st = "free"
         /\ Put(peers, peers', k, ServerConnect(p, a))
         /\ conns' = [conns EXCEPT ![a] = c]
  BY DEF Served
<1>2. k \in 1..(Len(peers) + 1) /\ p \in Peer
  BY <1>1, AdmittedFields
<1> DEFINE q == ServerConnect(p, a)
<1> HIDE DEF p
<1>3. q.pending_approval_id = 0
  BY <1>2 DEF ServerConnect, Peer
<1> HIDE DEF k, q
<1>4. IncKept(peers, conns, conns')
  <2>1. \A b \in Addrs : conns'[b] = conns[b] \/ conns[b].st = "free"
    BY <1>1 DEF TypeInv
  <2> QED
    BY <2>1, FreeKept
<1>5. Put(peers, peers', k, q)
  BY <1>1 DEF q
<1> QED
  BY <1>2, <1>3, <1>4, <1>5, PutKeeping

(* a dial,                                                                 *)
LEMMA DialKeeping ==
    ASSUME TypeInv, Table(peers, conns), Dial
    PROVE  Keeping
<1>1. PICK z \in Allocations :
         /\ Len(peers') = Len(peers)
         /\ \A j \in 1..Len(peers) :
               \/ peers'[j] = peers[j]
               \/ Unreached(peers[j], peers'[j]) /\ MayFail
               \/ Reached(peers[j], peers'[j], z[j], conns'[z[j]])
         /\ \A b \in Addrs : conns'[b] = conns[b] \/ (conns[b].st = "free" /\ Held(peers', b))
  BY DialPeers
<1>2. Faithful(peers, peers')
  BY <1>1 DEF Faithful, Unreached, Reached
<1>3. IncKept(peers, conns, conns')
  BY <1>1, FreeKept
<1> QED
  BY <1>2, <1>3 DEF Keeping

(* a registration,                                                         *)
LEMMA TrustKeeping ==
    ASSUME TypeInv, NEW t, NEW d \in Devices, NEW b \in BOOLEAN, Trusting(t, d, b), UNCHANGED conns
    PROVE  Keeping
<1>0. Len(peers) \in Nat
  BY FindTyped DEF TypeInv
<1>1. PICK k \in 1..(Len(peers) + 1) :
         Put(peers, peers', k, Registered(Entry(peers, k, None), d, b)) /\ Entry(peers, k, None) \in Peer
  BY DEF Trusting
<1> DEFINE p == Entry(peers, k, None)
           q == Registered(p, d, b)
<1>2. Mild(p, q)
  BY <1>1, MildRegistered
<1>3. IncKept(peers, conns, conns')
  BY DEF IncKept
<1>4. CASE k <= Len(peers)
  <2>1. p = peers[k]
    BY <1>4 DEF Entry
  <2> HIDE DEF p, q
  <2>2. Put(peers, peers', k, q)
    BY <1>1 DEF p, q
  <2> QED
    BY <1>2, <1>3, <1>4, <2>1, <2>2, PutKeeping DEF Mild
<1>5. CASE ~(k <= Len(peers))
  <2>1. p = NodeConnection(None)
    BY <1>5 DEF Entry
  <2>2. q.pending_approval_id = 0
    BY <1>2, <2>1, NewPeer DEF Mild
  <2> HIDE DEF p, q
  <2>3. Put(peers, peers', k, q)
    BY <1>1 DEF p, q
  <2> QED
    BY <1>3, <2>2, <2>3, PutKeeping
<1> QED
  BY <1>4, <1>5

(* and a request that replaces another keep the approvals.                 *)
LEMMA MarkedKeeping ==
    ASSUME TypeInv, NEW t \in Threads, NEW fp \in Fps \cup {None}, config' = config,
           Calls \cap {"pairing", "fingerprint"} # {}, RegisterRemoteFingerprint(t, fp), UNCHANGED conns
    PROVE  Keeping
<1>0. peers \in Seq(Peer) /\ Len(peers) \in Nat /\ \A j \in 1..Len(peers) : peers[j] \in Peer
  BY FindTyped DEF TypeInv
<1>1. CASE peers' = peers
  BY <1>1, SameKeeping
<1>2. CASE Marked(peers, peers', remote_fingerprint)
  <2>1. ASSUME NEW j \in 1..Len(peers) PROVE peers'[j] = peers[j] \/ peers'[j].pending_approval_id = 0
    <3> DEFINE q == [peers[j] EXCEPT !.is_trusted = FALSE, !.provisional = TRUE, !.pending_approval_id = 0]
    <3>1. q.pending_approval_id = 0
      BY <1>0 DEF Peer
    <3>2. peers'[j] = q \/ peers'[j] = peers[j]
      BY <1>2 DEF Marked
    <3> HIDE DEF q
    <3> QED
      BY <3>1, <3>2
  <2>2. Len(peers') = Len(peers)
    BY <1>2 DEF Marked
  <2> QED
    BY <2>1, <2>2 DEF Keeping, Faithful, IncKept
<1> QED
  BY <1>1, <1>2, FingerprintStep

(* The steps of the loop.                                                  *)
LEMMA DecisionKeeping ==
    ASSUME TypeInv, NEW a \in Addrs, NEW g \in BOOLEAN, NEW id \in Nat, PostDecision(a, g, id),
           MildTable(peers, peers')
    PROVE  Keeping
<1>1. CASE conns' = conns
  BY <1>1, MildSame, MildKeeping DEF Mildly
<1>2. CASE conns' = [conns EXCEPT ![a] = [conns[a] EXCEPT !.box = Append(@, [granted |-> g, id |-> id])]]
  <2> DEFINE c == [conns[a] EXCEPT !.box = Append(@, [granted |-> g, id |-> id])]
  <2>1. conns \in [Addrs -> Connection] /\ conns[a] \in Connection
    BY DEF TypeInv
  <2>2. c.st = conns[a].st /\ c.ski = conns[a].ski /\ c.inc = conns[a].inc
    BY <2>1 DEF Connection
  <2> HIDE DEF c
  <2>3. conns' = [conns EXCEPT ![a] = c]
    BY <1>2 DEF c
  <2>4. MildConns(conns, conns')
    BY <2>1, <2>2, <2>3, MildConn
  <2> QED
    BY <2>4, MildKeeping DEF Mildly
<1> QED
  BY <1>1, <1>2, DecisionTyped

(* All of them keep the approvals.                                         *)
LEMMA LoopKeeping ==
    ASSUME Core, LoopHandles
    PROVE  Keeping
<1>0. /\ TypeInv /\ Table(peers, conns) /\ Threading(peers, conns, loop, stop) /\ LoopInv
      /\ peers \in Seq(Peer) /\ Len(peers) \in Nat /\ \A j \in 1..Len(peers) : peers[j] \in Peer
      /\ \A s : FindWithSki(peers, s) \in 0..Len(peers)
      /\ loop \in Loops
  BY FindTyped DEF Core, TypeInv
<1>1. ASSUME UNCHANGED conns, NEW k, Cut(peers, peers', k) PROVE Keeping
  BY <1>1 DEF Keeping, Faithful, IncKept
<1>2. ASSUME UNCHANGED conns, NEW k \in 1..(Len(peers) + 1), NEW q, Put(peers, peers', k, q),
             q.pending_approval_id = 0
      PROVE  Keeping
  <2>1. IncKept(peers, conns, conns')
    BY <1>2 DEF IncKept
  <2> QED
    BY <1>0, <1>2, <2>1, PutKeeping
<1>3. CASE \/ LoopChecksCancel \/ LoopReceives \/ LoopIgnores \/ LoopPosts \/ ShipNodeApprovePendingHandshake
           \/ ShipNodePromoteFingerprint \/ ShipNodeRevokePairingFingerprint
  <2>1. UNCHANGED <<peers, conns>>
    BY <1>3 DEF LoopChecksCancel, LoopReceives, LoopIgnores, LoopPosts, ShipNodeApprovePendingHandshake,
        ShipNodePromoteFingerprint, ShipNodeRevokePairingFingerprint
  <2> QED
    BY <1>0, <2>1, SameKeeping
<1>4. CASE CloseShipConnection
  <2> DEFINE i == FindWithShipConnection(peers, loop.msg.sc)
             q == OnConnectionClosed(peers[i])
  <2>1. UNCHANGED conns
    BY <1>4 DEF CloseShipConnection
  <2>2. CASE UNCHANGED peers
    BY <1>0, <2>1, <2>2, SameKeeping
  <2>3. CASE Closed(i)
    <3>1. /\ i \in 1..Len(peers) /\ peers[i] \in Peer
          /\ \/ Cut(peers, peers', i) \/ Put(peers, peers', i, q) \/ Put(peers, peers', i, ScheduleRetry(q))
      BY <2>3 DEF Closed
    <3> HIDE DEF i
    <3>2. q \in Peer /\ q.pending_approval_id = 0 /\ ScheduleRetry(q) = [q EXCEPT !.retry = "armed"]
      BY <3>1, ClosedFields
    <3> HIDE DEF q
    <3>3. ScheduleRetry(q).pending_approval_id = 0
      BY <3>2 DEF Peer
    <3>4. i \in 1..(Len(peers) + 1)
      BY <1>0, <3>1
    <3>5. CASE Cut(peers, peers', i)
      BY <1>1, <2>1, <3>5
    <3>6. CASE Put(peers, peers', i, q)
      BY <1>2, <2>1, <3>2, <3>4, <3>6
    <3>7. CASE Put(peers, peers', i, ScheduleRetry(q))
      BY <1>2, <2>1, <3>3, <3>4, <3>7
    <3> QED
      BY <3>1, <3>5, <3>6, <3>7
  <2> QED
    BY <1>0, <1>4, <2>2, <2>3, ClosedStep
<1>5. CASE LoopJoins
  <2>1. CASE UNCHANGED <<peers, conns>>
    BY <1>0, <2>1, SameKeeping
  <2>2. CASE /\ loop.sc \in Addrs
             /\ Withdrew(peers, peers', FindWithShipConnection(peers, loop.sc))
             /\ conns' = [conns EXCEPT ![loop.sc] = [conns[loop.sc] EXCEPT !.st = "shut", !.box = <<>>]]
    <3> DEFINE a == loop.sc
               c == [conns[a] EXCEPT !.st = "shut", !.box = <<>>]
    <3>1. conns \in [Addrs -> Connection] /\ conns[a] \in Connection /\ conns[a].st # "free"
      BY <1>0, <1>5, <2>2 DEF Threading, Reaping, Taking, TypeInv, LoopJoins
    <3>2. c.st = "shut" /\ c.ski = conns[a].ski /\ c.inc = conns[a].inc /\ conns' = [conns EXCEPT ![a] = c]
      BY <2>2, <3>1 DEF Connection
    <3>3. MildTable(peers, peers')
      BY <1>0, <2>2, MildWithdraw, FindTyped
    <3> HIDE DEF c
    <3>4. MildConns(conns, conns')
      BY <2>2, <3>1, <3>2, MildConn
    <3> QED
      BY <1>0, <3>3, <3>4, MildKeeping DEF Mildly
  <2> QED
    BY <1>0, <1>5, <2>1, <2>2, JoinStep
<1>6. CASE LoopDeletes
  <2>1. UNCHANGED peers /\ conns' = [conns EXCEPT ![loop.sc] = Free] /\ loop.at = "stopped"
    BY <1>6 DEF LoopDeletes, Disconnected
  <2>2. ~Held(peers, loop.sc)
    BY <1>0, <2>1 DEF Threading, Reaping, Taking
  <2>3. \A a \in Addrs : a # loop.sc => conns'[a] = conns[a]
    BY <1>0, <2>1 DEF TypeInv
  <2> QED
    BY <1>0, <2>1, <2>2, <2>3 DEF Keeping, Faithful, IncKept
<1>7. ASSUME NEW i \in 0..Len(peers), i # 0, RemovePeer(peers, i), UNCHANGED conns PROVE Keeping
  BY <1>0, <1>1, <1>7, RemoveStep DEF Removes
<1>8. CASE ShipNodeUnregisterSki \/ LoopRemoves
  <2> DEFINE i == FindWithSki(peers, loop.msg.ski)
  <2>1. UNCHANGED conns /\ i \in 0..Len(peers) /\ ((i # 0 /\ RemovePeer(peers, i)) \/ UNCHANGED peers)
    BY <1>0, <1>8 DEF ShipNodeUnregisterSki, LoopRemoves
  <2> HIDE DEF i
  <2> QED
    BY <1>0, <1>7, <2>1, SameKeeping
<1>9. CASE ShipNodeRegisterSki
  <2>1. UNCHANGED conns
    BY <1>9 DEF ShipNodeRegisterSki
  <2>2. PICK k \in 1..(Len(peers) + 1) :
           /\ Entry(peers, k, loop.msg.ski) \in Peer
           /\ Put(peers, peers', k, Enrolled(Entry(peers, k, loop.msg.ski), loop.msg.trust))
    BY <1>0, <1>9, EnrolStep
  <2> DEFINE q == Enrolled(Entry(peers, k, loop.msg.ski), loop.msg.trust)
  <2>3. q.pending_approval_id = 0
    BY <2>2 DEF Enrolled, Peer
  <2> HIDE DEF q
  <2> QED
    BY <1>2, <2>1, <2>2, <2>3 DEF q
<1>10. CASE ShipNodeCancelPairingSki
  <2> DEFINE i == FindWithSki(peers, loop.msg.ski)
  <2>1. UNCHANGED conns /\ peers' = Withdraw(peers, i) /\ i \in 0..Len(peers)
    BY <1>0, <1>10 DEF ShipNodeCancelPairingSki
  <2>2. MildTable(peers, peers')
    BY <1>0, <2>1, WithdrawFields, MildWithdraw
  <2> QED
    BY <1>0, <2>1, <2>2, MildSame, MildKeeping DEF Mildly
<1>11. CASE LoopAborts \/ LoopApproves
  <2>1. UNCHANGED peers /\ \E g \in BOOLEAN, id \in Nat : PostDecision(loop.sc, g, id)
    BY <1>0, <1>11 DEF LoopAborts, LoopApproves, Loops, Message
  <2>2. loop.sc \in Addrs
    BY <1>0, <1>11 DEF Threading, LoopAborts, LoopApproves
  <2> QED
    BY <1>0, <2>1, <2>2, MildSame, DecisionKeeping
<1>12. CASE LoopPromotes
  <2>1. CASE UNCHANGED <<peers, conns>>
    BY <1>0, <2>1, SameKeeping
  <2>2. CASE /\ loop.i \in 1..Len(peers) /\ peers[loop.i] \in Peer
             /\ peers[loop.i].connection \in Addrs
             /\ Put(peers, peers', loop.i, Promoted(peers[loop.i], remote_fingerprint))
             /\ PostDecision(peers[loop.i].connection, TRUE, 0)
    <3> DEFINE k == loop.i
               q == Promoted(peers[k], remote_fingerprint)
    <3>1. Mild(peers[k], q)
      BY <2>2 DEF Mild, Promoted, Peer
    <3> HIDE DEF q
    <3>2. Put(peers, peers', k, q) /\ k \in 1..Len(peers)
      BY <2>2 DEF q
    <3> HIDE DEF k
    <3>3. MildTable(peers, peers')
      BY <1>0, <3>1, <3>2, MildPut
    <3> QED
      BY <1>0, <2>2, <3>3, DecisionKeeping
  <2> QED
    BY <1>0, <1>12, <2>1, <2>2, PromoteStep
<1>13. CASE LoopRevokes
  <2>1. UNCHANGED conns
    BY <1>13 DEF LoopRevokes
  <2>2. CASE UNCHANGED peers
    BY <1>0, <2>1, <2>2, SameKeeping
  <2>3. CASE Removes(loop.i)
    BY <1>1, <2>1, <2>3 DEF Removes
  <2> QED
    BY <1>0, <1>13, <2>2, <2>3, RevokeStep
<1> QED
  BY <1>3, <1>4, <1>5, <1>6, <1>8, <1>9, <1>10, <1>11, <1>12, <1>13 DEF LoopHandles

(* Stop too.                                                               *)
LEMMA StopKeeping ==
    ASSUME Core, StopCaller
    PROVE  Keeping
<1>0. /\ TypeInv /\ Table(peers, conns) /\ Threading(peers, conns, loop, stop) /\ LoopInv
      /\ peers \in Seq(Peer) /\ Len(peers) \in Nat
  BY FindTyped DEF Core, TypeInv
<1>1. CASE StopBegins \/ StopSends \/ StopJoinsLoop \/ StopLeavesLoop \/ StopEnds
  <2>1. UNCHANGED <<peers, conns>>
    BY <1>1 DEF StopBegins, StopSends, StopJoinsLoop, StopLeavesLoop, StopEnds
  <2> QED
    BY <1>0, <2>1, SameKeeping
<1>2. CASE StopReleases
  <2> DEFINE k == stop.i
             q == Released(peers[k])
  <2>1. k \in 1..Len(peers) /\ peers[k] \in Peer /\ Put(peers, peers', k, q) /\ UNCHANGED conns
    BY <1>0, <1>2, ReleaseStep DEF StopReleases
  <2>2. q.pending_approval_id = 0 /\ k \in 1..(Len(peers) + 1)
    BY <1>0, <2>1 DEF Released, Peer
  <2> HIDE DEF q, k
  <2>3. IncKept(peers, conns, conns')
    BY <2>1 DEF IncKept
  <2> QED
    BY <1>0, <2>1, <2>2, <2>3, PutKeeping
<1>3. CASE StopDeletes
  <2>1. UNCHANGED peers /\ conns' = [conns EXCEPT ![stop.sc] = Free] /\ stop.at = "conn"
    BY <1>3 DEF StopDeletes, Disconnected
  <2>2. ~Held(peers, stop.sc)
    BY <1>0, <2>1 DEF Threading, Taking
  <2>3. \A a \in Addrs : a # stop.sc => conns'[a] = conns[a]
    BY <1>0, <2>1 DEF TypeInv
  <2> QED
    BY <1>0, <2>1, <2>2, <2>3 DEF Keeping, Faithful, IncKept
<1> QED
  BY <1>1, <1>2, <1>3 DEF StopCaller

(* The approvals that were given and taken back stay the same, and with    *)
(* them the ones that are open.                                            *)
LEMMA KeepingTokens ==
    ASSUME Core, TypeInv', TokenInv, Keeping, next_approval_id' = next_approval_id,
           approvals'.given = approvals.given, approvals'.withdrawn = approvals.withdrawn
    PROVE  TokenInv'
<1>1. /\ Len(peers) \in Nat /\ Len(peers') \in Nat
      /\ \A i \in 1..Len(peers) : peers[i].connection \in Addrs \cup {None}
  <2>1. peers' \in Seq(Peer')
    BY DEF TypeInv
  <2> QED
    BY <2>1, FindTyped, LenProperties DEF Core, TypeInv, Peer
<1>2. Tokens(peers', conns', approvals, next_approval_id)
  BY <1>1, TokensFollow DEF TokenInv, Keeping
<1> QED
  BY <1>2 DEF TokenInv, Tokens

(* The application takes back the approval of a peer,                      *)
LEMMA WithdrawTokens ==
    ASSUME Core, TypeInv', TokenInv, NEW i \in 0..Len(peers), peers' = Withdraw(peers, i), Withdrawn(i),
           UNCHANGED <<conns, next_approval_id>>
    PROVE  TokenInv'
<1>0. peers \in Seq(Peer) /\ Len(peers) \in Nat /\ \A j \in 1..Len(peers) : peers[j] \in Peer
  BY FindTyped DEF Core, TypeInv
<1>1. CASE i = 0 \/ peers[i].pending_approval_id = 0
  <2>1. approvals' = approvals
    BY <1>1 DEF Withdrawn
  <2>2. MildTable(peers, peers')
    BY <1>0, WithdrawFields, MildWithdraw
  <2>3. Keeping
    BY <2>2, MildSame, MildKeeping DEF Mildly, Core
  <2> QED
    BY <2>1, <2>3, KeepingTokens
<1>2. CASE i # 0 /\ peers[i].pending_approval_id # 0
  <2> DEFINE id == peers[i].pending_approval_id
             q == [peers[i] EXCEPT !.pending_approval_id = 0]
  <2>1. /\ i \in 1..Len(peers) /\ approvals'.given = approvals.given
        /\ approvals'.withdrawn = approvals.withdrawn \cup {id}
    <3>1. approvals' = [approvals EXCEPT !.withdrawn = approvals.withdrawn \cup {id}]
      BY <1>2 DEF Withdrawn
    <3>2. approvals \in [given : Seq(Nat), withdrawn : SUBSET Nat, accepted : SUBSET [id : Nat, inc : Nat]]
      BY DEF Core, TypeInv
    <3> HIDE DEF id
    <3> QED
      BY <1>0, <1>2, <3>1, <3>2
  <2>2. Put(peers, peers', i, q)
    BY <1>0, <1>2, WithdrawFields DEF Withdrew
  <2>3. q.pending_approval_id = 0 /\ q.connection = peers[i].connection
    BY <1>0, <2>1 DEF Peer
  <2> HIDE DEF q
  <2>4. Len(peers') = Len(peers) /\ \A j \in 1..Len(peers) : peers'[j] = IF j = i THEN q ELSE peers[j]
    BY <1>0, <2>1, <2>2 DEF Put
  <2>5. /\ next_approval_id = Len(approvals.given) /\ approvals.withdrawn \subseteq 1..next_approval_id
        /\ id \in 1..next_approval_id
    BY <1>2, <2>1 DEF TokenInv, Tokens
  <2>6. ASSUME NEW j \in 1..Len(peers), j # i, peers[j].pending_approval_id # 0
        PROVE  /\ peers[j].connection # None
               /\ peers[j].pending_approval_id \in (1..next_approval_id) \ approvals.withdrawn
               /\ approvals.given[peers[j].pending_approval_id] = conns[peers[j].connection].inc
               /\ peers[j].pending_approval_id # id
    BY <2>1, <2>6 DEF TokenInv, Tokens
  <2>7. \A j, k \in 1..Len(peers) :
           peers[j].pending_approval_id = peers[k].pending_approval_id /\ peers[j].pending_approval_id # 0 => j = k
    BY DEF TokenInv, Tokens
  <2> HIDE DEF id
  <2>8. \A j \in 1..Len(peers') : peers'[j].pending_approval_id # 0 =>
           /\ peers'[j].connection # None
           /\ peers'[j].pending_approval_id \in (1..next_approval_id) \ approvals'.withdrawn
           /\ approvals'.given[peers'[j].pending_approval_id] = conns[peers'[j].connection].inc
    <3> SUFFICES ASSUME NEW j \in 1..Len(peers), peers'[j].pending_approval_id # 0
                 PROVE  /\ peers'[j].connection # None
                        /\ peers'[j].pending_approval_id \in (1..next_approval_id) \ approvals'.withdrawn
                        /\ approvals'.given[peers'[j].pending_approval_id] = conns[peers'[j].connection].inc
      BY <2>4
    <3>1. j # i /\ peers'[j] = peers[j]
      BY <2>3, <2>4
    <3> QED
      BY <2>1, <2>6, <3>1
  <2>9. \A j, k \in 1..Len(peers') :
           peers'[j].pending_approval_id = peers'[k].pending_approval_id /\ peers'[j].pending_approval_id # 0 => j = k
    BY <2>3, <2>4, <2>7
  <2>10. approvals'.withdrawn \subseteq 1..next_approval_id
    BY <2>1, <2>5
  <2> QED
    BY <2>1, <2>5, <2>8, <2>9, <2>10 DEF TokenInv, Tokens
<1> QED
  BY <1>1, <1>2

(* gives one,                                                              *)
LEMMA ApproveTokens ==
    ASSUME Core, TokenInv, NEW s \in Skis, config' = config, ApprovePendingHandshakeWithSki(s)
    PROVE  TokenInv'
<1>0. /\ peers \in Seq(Peer) /\ Len(peers) \in Nat /\ \A j \in 1..Len(peers) : peers[j] \in Peer
      /\ next_approval_id \in Nat /\ approvals.given \in Seq(Nat) /\ TypeInv
      /\ conns \in [Addrs -> Connection]
  BY FindTyped DEF Core, TypeInv
<1>1. PICK i \in 1..Len(peers) :
         /\ Put(peers, peers', i, [peers[i] EXCEPT !.pending_approval_id = next_approval_id + 1])
         /\ peers[i].connection # None /\ peers[i].pending_approval_id = 0
         /\ approvals' = [approvals EXCEPT !.given = Append(@, conns[peers[i].connection].inc)]
  BY <1>0, TypeApprove
<1>2. next_approval_id' = next_approval_id + 1 /\ UNCHANGED conns
  BY DEF ApprovePendingHandshakeWithSki
<1> DEFINE nx == next_approval_id
           inc == conns[peers[i].connection].inc
           q == [peers[i] EXCEPT !.pending_approval_id = nx + 1]
<1>3. q.pending_approval_id = nx + 1 /\ q.connection = peers[i].connection
  BY <1>0 DEF Peer
<1>4. inc \in Nat
  BY <1>0, <1>1 DEF Peer, Connection
<1>5. /\ approvals'.given = Append(approvals.given, inc) /\ approvals'.withdrawn = approvals.withdrawn
  BY <1>0, <1>1 DEF TypeInv
<1>6. /\ nx = Len(approvals.given) /\ approvals.withdrawn \subseteq 1..nx
      /\ \A j \in 1..Len(peers) : peers[j].pending_approval_id # 0 =>
            /\ peers[j].connection # None
            /\ peers[j].pending_approval_id \in (1..nx) \ approvals.withdrawn
            /\ approvals.given[peers[j].pending_approval_id] = conns[peers[j].connection].inc
      /\ \A j, k \in 1..Len(peers) :
            peers[j].pending_approval_id = peers[k].pending_approval_id /\ peers[j].pending_approval_id # 0 => j = k
  BY DEF TokenInv, Tokens
<1>11. Put(peers, peers', i, q)
  BY <1>1
<1> HIDE DEF q, inc
<1>7. /\ Len(approvals'.given) = nx + 1 /\ approvals'.given[nx + 1] = inc
      /\ \A n \in 1..nx : approvals'.given[n] = approvals.given[n]
  BY <1>0, <1>4, <1>5, <1>6, AppendProperties
<1>8. Len(peers') = Len(peers) /\ \A j \in 1..Len(peers) : peers'[j] = IF j = i THEN q ELSE peers[j]
  BY <1>0, <1>11 DEF Put
<1>9. ASSUME NEW j \in 1..Len(peers'), peers'[j].pending_approval_id # 0
      PROVE  /\ peers'[j].connection # None
             /\ peers'[j].pending_approval_id \in (1..(nx + 1)) \ approvals'.withdrawn
             /\ approvals'.given[peers'[j].pending_approval_id] = conns'[peers'[j].connection].inc
             /\ peers'[j].pending_approval_id = nx + 1 <=> j = i
  <2>1. CASE j = i
    <3>1. peers'[j].pending_approval_id = nx + 1 /\ peers'[j].connection = peers[i].connection
      BY <1>3, <1>8, <2>1
    <3>2. nx + 1 \notin approvals.withdrawn
      BY <1>0, <1>6
    <3> QED
      BY <1>0, <1>1, <1>2, <1>5, <1>7, <2>1, <3>1, <3>2 DEF inc
  <2>2. CASE j # i
    <3>1. peers'[j] = peers[j] /\ j \in 1..Len(peers)
      BY <1>8, <2>2
    <3> DEFINE id == peers[j].pending_approval_id
    <3>2. /\ peers[j].connection # None /\ id \in 1..nx /\ id \notin approvals.withdrawn
          /\ approvals.given[id] = conns[peers[j].connection].inc
      BY <1>6, <1>9, <3>1
    <3>3. id \in 1..(nx + 1) /\ id # nx + 1 /\ approvals'.given[id] = approvals.given[id]
      BY <1>0, <1>7, <3>2, SMTT(60)
    <3> QED
      BY <1>2, <1>5, <2>2, <3>1, <3>2, <3>3
  <2> QED
    BY <2>1, <2>2
<1>10. \A j, k \in 1..Len(peers') :
          peers'[j].pending_approval_id = peers'[k].pending_approval_id /\ peers'[j].pending_approval_id # 0 => j = k
  <2> SUFFICES ASSUME NEW j \in 1..Len(peers'), NEW k \in 1..Len(peers'), peers'[j].pending_approval_id # 0,
                      peers'[j].pending_approval_id = peers'[k].pending_approval_id
               PROVE  j = k
    OBVIOUS
  <2>1. CASE j = i \/ k = i
    BY <1>9, <2>1
  <2>2. CASE j # i /\ k # i
    BY <1>6, <1>8, <2>2
  <2> QED
    BY <2>1, <2>2
<1> QED
  BY <1>0, <1>2, <1>5, <1>6, <1>7, <1>9, <1>10, SMTT(60) DEF TokenInv, Tokens

(* or leaves them alone.                                                   *)
LEMMA AroundTokens ==
    ASSUME Core, TokenInv, config' = config, Around
    PROVE  TokenInv'
<1>0. /\ TypeInv /\ Table(peers, conns) /\ TypeInv'
  BY AroundType DEF Core
<1>1. ASSUME Keeping, UNCHANGED <<next_approval_id, approvals>> PROVE TokenInv'
  BY <1>0, <1>1, KeepingTokens
<1>2. ASSUME NEW s \in Skis, NEW b \in BOOLEAN,
             RegisterRemoteSki(s, b) \/ UnregisterRemoteSki(s) \/ CancelPairingWithSki(s)
      PROVE  TokenInv'
  <2>1. UNCHANGED <<conns, next_approval_id>>
    BY <1>2 DEF RegisterRemoteSki, UnregisterRemoteSki, CancelPairingWithSki
  <2> QED
    BY <1>0, <1>2, <2>1, TypeWithdraw, WithdrawTokens
<1>3. ASSUME NEW f \in Fps \cup {None}, RegisterFingerprint(f) PROVE TokenInv'
  <2>1. /\ "fingerprint" \in Calls /\ RegisterRemoteFingerprint("app", f)
        /\ UNCHANGED <<conns, next_approval_id, approvals>>
    BY <1>3 DEF RegisterFingerprint, Call
  <2> QED
    BY <1>0, <1>1, <2>1, MarkedKeeping DEF Threads
<1>4. ASSUME NEW d \in Devices, PairingRequestAccepted(d) PROVE TokenInv'
  <2>1. /\ "pairing" \in Calls /\ RegisterRemoteFingerprint("pairing", d.fp) /\ d.fp \in Fps
        /\ UNCHANGED <<conns, next_approval_id, approvals>>
    BY <1>4 DEF PairingRequestAccepted, Fps
  <2> QED
    BY <1>0, <1>1, <2>1, MarkedKeeping DEF Threads
<1>5. ASSUME NEW d \in Devices, RegisterRemoteFingerprintWithShipId(d) PROVE TokenInv'
  <2>1. RegisterPeerTrust("app", d, FALSE) /\ UNCHANGED <<conns, next_approval_id, approvals>>
    BY <1>5 DEF RegisterRemoteFingerprintWithShipId
  <2>2. Trusting("app", d, FALSE)
    BY <1>0, <2>1, TrustStep DEF Threads
  <2> QED
    BY <1>0, <1>1, <2>1, <2>2, TrustKeeping
<1>6. ASSUME PairingRegistersPeer PROVE TokenInv'
  <2>1. /\ RegisterPeerTrust("pairing", pairing, TRUE) /\ pairing \in Devices
        /\ UNCHANGED <<conns, next_approval_id, approvals>>
    BY <1>0, <1>6 DEF PairingRegistersPeer, TypeInv
  <2>2. Trusting("pairing", pairing, TRUE)
    BY <1>0, <2>1, TrustStep DEF Threads
  <2> QED
    BY <1>0, <1>1, <2>1, <2>2, TrustKeeping
<1>7. ASSUME \/ \E found : OnMdnsEntriesFound(found)
             \/ \E d : ServerAccept(d)
             \/ \E t : Send(t)
      PROVE  TokenInv'
  <2>1. UNCHANGED <<peers, conns, next_approval_id, approvals>>
    BY <1>7 DEF OnMdnsEntriesFound, ServerAccept, Send
  <2> QED
    BY <1>0, <1>1, <2>1, SameKeeping
<1>8. ASSUME OnWebsocketServerConnection PROVE TokenInv'
  <2>1. UNCHANGED <<next_approval_id, approvals>>
    BY <1>8 DEF OnWebsocketServerConnection
  <2>2. UNCHANGED <<peers, conns>> \/ Served
    BY <1>0, <1>8, TypeServer
  <2> QED
    BY <1>0, <1>1, <2>1, <2>2, SameKeeping, ServedKeeping
<1>9. ASSUME NEW a \in Addrs, ConnectionThread(a) PROVE TokenInv'
  <2>1. Keeping
    BY <1>0, <1>9, MildThread, MildKeeping
  <2>2. CASE ~ReadDecision(a)
    <3>1. UNCHANGED <<next_approval_id, approvals>>
      BY <1>9, <2>2 DEF ConnectionThread, Hello, ConnectionEnds, PostConnectionClose, SetupRemoteDevice,
          HandleShipStateUpdate, ReportServiceShipId
    <3> QED
      BY <1>1, <2>1, <3>1
  <2>3. CASE ReadDecision(a)
    <3>1. next_approval_id' = next_approval_id
      BY <2>3 DEF ReadDecision
    <3>2. \/ approvals' = approvals
          \/ \E x : approvals' = [approvals EXCEPT !.accepted = x]
      BY <2>3 DEF ReadDecision, AcceptPendingTrust
    <3>3. approvals'.given = approvals.given /\ approvals'.withdrawn = approvals.withdrawn
      BY <1>0, <3>2 DEF TypeInv
    <3> QED
      BY <1>0, <2>1, <3>1, <3>3, KeepingTokens
  <2> QED
    BY <2>2, <2>3
<1>10. ASSUME NEW i \in DOMAIN peers, RetryTimer(i) PROVE TokenInv'
  <2>1. UNCHANGED <<next_approval_id, approvals>>
    BY <1>10 DEF RetryTimer, RetryTimerFires, RetryTimerPosts
  <2> QED
    BY <1>0, <1>1, <1>10, <2>1, MildTimer, MildKeeping
<1>11. CASE Application
  BY <1>2, <1>3, <1>5, <1>11, ApproveTokens DEF Application
<1>12. CASE Browser
  BY <1>4, <1>6, <1>7, <1>12 DEF Browser
<1>13. CASE Server
  BY <1>7, <1>8, <1>13 DEF Server
<1> QED
  BY <1>7, <1>9, <1>10, <1>11, <1>12, <1>13 DEF Around

(* No other thread knows of approvals.                                     *)
LEMMA OthersTokens ==
    ASSUME LoopHandles \/ Dial \/ StopCaller
    PROVE  UNCHANGED <<next_approval_id, approvals>>
<1>1. CASE LoopHandles
  BY <1>1 DEF LoopHandles, others, LoopChecksCancel, LoopReceives, LoopIgnores, CloseShipConnection, LoopJoins,
      LoopPosts, LoopDeletes, ShipNodeUnregisterSki, ShipNodeRegisterSki,
      ShipNodeCancelPairingSki, LoopAborts, LoopRemoves, ShipNodeApprovePendingHandshake, LoopApproves,
      ShipNodePromoteFingerprint, LoopPromotes, ShipNodeRevokePairingFingerprint, LoopRevokes
<1>2. CASE Dial
  BY <1>2 DEF Dial, others
<1>3. CASE StopCaller
  BY <1>3 DEF StopCaller, StopBegins, StopSends, StopJoinsLoop, StopReleases, StopDeletes, StopLeavesLoop, StopEnds
<1> QED
  BY <1>1, <1>2, <1>3

(* The kinds of steps.                                                     *)
LEMMA StepKinds ==
    ASSUME Core, [Next /\ UNCHANGED config]_<<vars, config>>
    PROVE  \/ UNCHANGED <<vars, config>>
           \/ config' = config /\ (Around \/ LoopHandles \/ Dial \/ StopCaller)
<1>1. CASE (HandleMdnsEntriesFound \/ LoopDials) /\ config' = config
  BY <1>1, DialStep DEF Core
<1> QED
  BY <1>1 DEF Next, Around, ConnectionLoop, LoopHandles

(* TokenInv is inductive.                                                  *)
LEMMA TokenStep ==
    ASSUME Core, Core', TokenInv, [Next /\ UNCHANGED config]_<<vars, config>>
    PROVE  TokenInv'
<1>0. TypeInv /\ Table(peers, conns) /\ TypeInv'
  BY DEF Core
<1>1. CASE UNCHANGED <<vars, config>>
  BY <1>1 DEF TokenInv, Tokens, vars
<1>2. CASE Around /\ config' = config
  BY <1>2, AroundTokens
<1>3. CASE LoopHandles \/ Dial \/ StopCaller
  <2>1. Keeping
    BY <1>0, <1>3, LoopKeeping, DialKeeping, StopKeeping
  <2> QED
    BY <1>0, <1>3, <2>1, OthersTokens, KeepingTokens
<1> QED
  BY <1>1, <1>2, <1>3, StepKinds

(* An approval is accepted by the connection it was given for.             *)
LEMMA AcceptTokens ==
    ASSUME Core, TokenInv, NEW a \in Addrs, ReadDecision(a), NEW x \in approvals'.accepted \ approvals.accepted
    PROVE  approvals.given[x.id] = x.inc /\ x.id \notin approvals.withdrawn
<1> DEFINE m == Head(conns[a].box)
           i == FindWithShipConnection(peers, a)
<1>0. /\ peers \in Seq(Peer) /\ Len(peers) \in Nat
      /\ approvals \in [given : Seq(Nat), withdrawn : SUBSET Nat, accepted : SUBSET [id : Nat, inc : Nat]]
  BY FindTyped DEF Core, TypeInv
<1>1. AcceptPendingTrust(a, m.id) /\ AcceptsPendingTrust(a, m.id)
  BY DEF ReadDecision
<1>2. /\ m.id # 0 /\ i # 0 /\ HasPendingApproval(peers[i], a, m.id)
      /\ approvals' = [approvals EXCEPT !.accepted = approvals.accepted \cup {[id |-> m.id, inc |-> conns[a].inc]}]
  BY <1>1 DEF AcceptPendingTrust, AcceptsPendingTrust
<1>3. approvals'.accepted = approvals.accepted \cup {[id |-> m.id, inc |-> conns[a].inc]}
  BY <1>0, <1>2
<1>4. x = [id |-> m.id, inc |-> conns[a].inc]
  BY <1>3
<1>5. i \in 1..Len(peers) /\ peers[i].connection = a /\ peers[i].pending_approval_id = m.id
  BY <1>0, <1>2, HolderFields DEF HasPendingApproval
<1> HIDE DEF i, m
<1> QED
  BY <1>2, <1>4, <1>5 DEF TokenInv, Tokens

(* The approvals of the node, of which the next theorem is a consequence.  *)
THEOREM NodeTokens == Spec => [](Core /\ TokenInv)
<1>1. Init => TokenInv
  BY DEF Init, TokenInv, Tokens
<1>2. Core /\ Core' /\ TokenInv /\ [Next /\ UNCHANGED config]_<<vars, config>> => TokenInv'
  BY TokenStep
<1> QED
  BY <1>1, <1>2, CoreHolds, PTL DEF Spec

(* ReadDecision accepts an approval only for the connection it was given   *)
(* for, and none that the application took back: ApprovalTargetsConnection *)
(* of the node.                                                            *)
THEOREM ApprovalReachesItsConnection == Spec => ApprovalTargetsConnection
<1> DEFINE Targets == \A x \in approvals'.accepted \ approvals.accepted :
                         approvals.given[x.id] = x.inc /\ x.id \notin approvals.withdrawn
<1>1. Core /\ TokenInv /\ [Next /\ UNCHANGED config]_<<vars, config>> => [Targets]_vars
  <2> SUFFICES ASSUME Core, TokenInv, [Next /\ UNCHANGED config]_<<vars, config>>
               PROVE  [Targets]_vars
    OBVIOUS
  <2>0. approvals \in [given : Seq(Nat), withdrawn : SUBSET Nat, accepted : SUBSET [id : Nat, inc : Nat]]
    BY DEF Core, TypeInv
  <2>1. CASE UNCHANGED <<vars, config>>
    BY <2>1
  <2>2. CASE LoopHandles \/ Dial \/ StopCaller
    <3>1. approvals' = approvals
      BY <2>2, OthersTokens
    <3> QED
      BY <3>1
  <2>3. CASE \E a \in Addrs : ReadDecision(a)
    BY <2>3, AcceptTokens
  <2>4. CASE Around /\ ~\E a \in Addrs : ReadDecision(a)
    <3>1. approvals'.accepted = approvals.accepted
      <4>1. CASE approvals' = approvals
        BY <4>1
      <4>2. CASE \E u : approvals' = [approvals EXCEPT !.withdrawn = u]
        BY <2>0, <4>2
      <4>3. CASE \E u : approvals' = [approvals EXCEPT !.given = u]
        BY <2>0, <4>3
      <4> QED
        BY <2>4, <4>1, <4>2, <4>3 DEF Around, Application, Browser, Server, ConnectionThread, RetryTimer,
            RegisterRemoteSki, UnregisterRemoteSki, CancelPairingWithSki, ApprovePendingHandshakeWithSki,
            RegisterFingerprint, RegisterRemoteFingerprintWithShipId, OnMdnsEntriesFound, PairingRequestAccepted,
            PairingRegistersPeer, ServerAccept, OnWebsocketServerConnection, Hello, ConnectionEnds,
            PostConnectionClose, SetupRemoteDevice, HandleShipStateUpdate, ReportServiceShipId,
            RetryTimerFires, RetryTimerPosts, Send, Withdrawn
    <3> QED
      BY <3>1
  <2> QED
    BY <2>1, <2>2, <2>3, <2>4, StepKinds
<1> QED
  BY <1>1, NodeTokens, PTL DEF Spec, ApprovalTargetsConnection

-----------------------------------------------------------------------------
(* Closes and handshakes, where no thread but its own ends a connection.   *)

(* m is the close of the connection at a.                                  *)
Closes(m, a) == m.type = "ShipConnectionClosed" /\ m.sc = a

(* A connection that was shut and is still that of a peer.                 *)
Closing(a) ==
    /\ conns[a].st = "shut"
    /\ Held(peers, a)

(* A close that is to be posted, is queued or is handled is that of a      *)
(* connection that was shut, of which a peer still knows; there is one,    *)
(* and nobody else closes.                                                 *)
ClosedOnce ==
    /\ \A t \in Threads : \A k \in 1..Len(out[t]) : out[t][k].type # "ShipConnectionClosed"
    /\ loop.at # "post"
    /\ Reaping(loop) => conns[loop.sc].st = "shut" /\ conns[loop.sc].busy = "no"
    /\ \A a \in Addrs :
          /\ conns[a].busy = "post" => Closing(a)
          /\ \A k \in 1..Len(queue) : Closes(queue[k], a) =>
                /\ Closing(a) /\ conns[a].busy = "no"
                /\ \A n \in 1..Len(queue) : Closes(queue[n], a) => n = k
          /\ loop.at = "handle" /\ Closes(loop.msg, a) =>
                /\ Closing(a) /\ conns[a].busy = "no"
                /\ \A n \in 1..Len(queue) : ~Closes(queue[n], a)

(* A handshake that is complete is that of the present connection.         *)
Complete ==
    \A i \in 1..Len(peers) : peers[i].handshake_complete =>
        peers[i].connection # None /\ conns[peers[i].connection].phase = "data"

(* The two of them, until the loop has ended.                              *)
CompleteInv ==
    Calls \cap {"unregister", "pairing", "fingerprint"} = {} /\ loop.at # "exit"
        => ClosedOnce /\ Complete

(* The calls with which that is so.                                        *)
Calm == Calls \cap {"unregister", "pairing", "fingerprint"} = {}

(* The connections that are there keep their state.                        *)
Undisturbed(cs, ds) ==
    \A a \in Addrs : \/ ds[a].st = cs[a].st /\ ds[a].busy = cs[a].busy
                     \/ cs[a].st = "free" /\ ds[a].busy = "no"

(* Where no close is added and connections stay shut, they are closed      *)
(* once.                                                                   *)
LEMMA ClosedFollows ==
    ASSUME ClosedOnce,
           \A a \in Addrs : conns'[a].busy = "post" => conns[a].busy = "post",
           \A a \in Addrs : conns[a].st = "shut" /\ Held(peers, a) =>
               /\ conns'[a].st = "shut" /\ Held(peers', a)
               /\ conns[a].busy = "no" => conns'[a].busy = "no",
           \A t \in Threads : \A k \in 1..Len(out'[t]) : out'[t][k].type # "ShipConnectionClosed",
           \A k \in 1..Len(queue') : queue'[k].type = "ShipConnectionClosed" =>
               k \in 1..Len(queue) /\ queue'[k] = queue[k],
           Reaping(loop') => conns'[loop'.sc].st = "shut" /\ conns'[loop'.sc].busy = "no",
           loop'.at = "handle" => loop' = loop, loop'.at # "post"
    PROVE  ClosedOnce'
<1> SUFFICES ASSUME NEW a \in Addrs
             PROVE  /\ conns'[a].busy = "post" => Closing(a)'
                    /\ \A k \in 1..Len(queue') : Closes(queue'[k], a) =>
                          /\ Closing(a)' /\ conns'[a].busy = "no"
                          /\ \A n \in 1..Len(queue') : Closes(queue'[n], a) => n = k
                    /\ loop'.at = "handle" /\ Closes(loop'.msg, a) =>
                          /\ Closing(a)' /\ conns'[a].busy = "no"
                          /\ \A n \in 1..Len(queue') : ~Closes(queue'[n], a)
  BY DEF ClosedOnce, Closes, Reaping
<1>1. Closing(a) => Closing(a)' /\ (conns[a].busy = "no" => conns'[a].busy = "no")
  BY DEF Closing, Held
<1>2. conns'[a].busy = "post" => Closing(a)'
  BY <1>1 DEF ClosedOnce
<1>3. \A k \in 1..Len(queue') : Closes(queue'[k], a) => k \in 1..Len(queue) /\ Closes(queue[k], a)
  BY DEF Closes
<1>4. \A k \in 1..Len(queue) : Closes(queue[k], a) =>
         /\ Closing(a) /\ conns[a].busy = "no"
         /\ \A n \in 1..Len(queue) : Closes(queue[n], a) => n = k
  BY DEF ClosedOnce
<1>5. loop.at = "handle" /\ Closes(loop.msg, a) =>
         /\ Closing(a) /\ conns[a].busy = "no"
         /\ \A n \in 1..Len(queue) : ~Closes(queue[n], a)
  BY DEF ClosedOnce
<1> QED
  BY <1>1, <1>2, <1>3, <1>4, <1>5

(* A message is added that is no close.                                    *)
LEMMA QueueGrows ==
    ASSUME TypeInv, NEW m, m.type # "ShipConnectionClosed", queue' = Append(queue, m)
    PROVE  \A k \in 1..Len(queue') : queue'[k].type = "ShipConnectionClosed" =>
               k \in 1..Len(queue) /\ queue'[k] = queue[k]
<1>1. queue \in Seq(Allowed) /\ Len(queue) \in Nat
  BY LenProperties DEF TypeInv
<1>2. Len(queue') = Len(queue) + 1 /\ queue'[Len(queue) + 1] = m
      /\ \A k \in 1..Len(queue) : queue'[k] = queue[k]
  BY <1>1
<1> QED
  BY <1>1, <1>2

(* The step of a thread other than the loop and Stop.                      *)
LEMMA CalmFollows ==
    ASSUME Core, ClosedOnce, Sound, Undisturbed(conns, conns'), UNCHANGED loop,
           \A t \in Threads : \A k \in 1..Len(out'[t]) : out'[t][k].type # "ShipConnectionClosed",
           \A k \in 1..Len(queue') : queue'[k].type = "ShipConnectionClosed" =>
               k \in 1..Len(queue) /\ queue'[k] = queue[k]
    PROVE  ClosedOnce'
<1>1. \A a \in Addrs : conns'[a].busy = "post" => conns[a].busy = "post"
  BY DEF Undisturbed
<1>2. \A a \in Addrs : conns[a].st = "shut" /\ Held(peers, a) =>
         /\ conns'[a].st = "shut" /\ Held(peers', a)
         /\ conns[a].busy = "no" => conns'[a].busy = "no"
  BY DEF Undisturbed, Sound, Holding
<1>3. Reaping(loop') => conns'[loop'.sc].st = "shut" /\ conns'[loop'.sc].busy = "no"
  BY DEF ClosedOnce, Undisturbed, Core, Threading, Taking, Reaping
<1>4. loop'.at # "post"
  BY DEF ClosedOnce
<1> QED
  BY <1>1, <1>2, <1>3, <1>4, ClosedFollows

(* The thread of a connection closes it,                                   *)
LEMMA CalmCloses ==
    ASSUME Core, Calm, loop.at # "exit", ClosedOnce, NEW a \in Addrs, CloseConnection(a), Runs(a), Sound,
           UNCHANGED <<loop, queue, out>>
    PROVE  ClosedOnce'
<1> DEFINE c == [conns[a] EXCEPT !.st = "shut", !.box = <<>>, !.busy = IF cancel THEN "no" ELSE "post"]
<1>0. TypeInv /\ conns \in [Addrs -> Connection] /\ conns[a] \in Connection
  BY DEF Core, TypeInv
<1>1. conns' = [conns EXCEPT ![a] = c]
  BY <1>0, CloseStep
<1>2. c.st = "shut" /\ c.busy \in {"no", "post"} /\ conns[a].st = "run"
  BY <1>0 DEF Connection, Runs
<1> HIDE DEF c
<1>3. Held(peers, a)
  <2>1. ~Leaks /\ stop.at # "conn"
    BY DEF Leaks, Calm, Core, Threading
  <2>2. ~(Reaping(loop) /\ loop.sc = a)
    BY <1>2 DEF ClosedOnce
  <2> QED
    BY <1>2, <2>1, <2>2 DEF Core, Owned
<1>4. conns'[a] = c /\ \A b \in Addrs : b # a => conns'[b] = conns[b]
  BY <1>0, <1>1
<1>5. \A b \in Addrs : Held(peers, b) => Held(peers', b)
  <2>1. \A b \in Addrs : Held(peers, b) => conns[b].st # "free"
    BY NodeAssumption DEF Core, Table, Held
  <2> QED
    BY <2>1 DEF Sound, Holding, Steady
<1>6. Closing(a)'
  BY <1>2, <1>3, <1>4, <1>5 DEF Closing
<1>7. /\ \A k \in 1..Len(queue) : ~Closes(queue[k], a)
      /\ ~(loop.at = "handle" /\ Closes(loop.msg, a))
  BY <1>2 DEF ClosedOnce, Closing
<1>8. \A b \in Addrs : b # a /\ Closing(b) => Closing(b)'
  BY <1>4, <1>5 DEF Closing
<1>9. Reaping(loop') => conns'[loop'.sc].st = "shut" /\ conns'[loop'.sc].busy = "no"
  BY <1>2, <1>4 DEF ClosedOnce, Core, Threading, Taking, Reaping
<1>10. ASSUME NEW b \in Addrs
       PROVE  /\ conns'[b].busy = "post" => Closing(b)'
              /\ \A k \in 1..Len(queue) : Closes(queue[k], b) =>
                    /\ Closing(b)' /\ conns'[b].busy = "no"
                    /\ \A n \in 1..Len(queue) : Closes(queue[n], b) => n = k
              /\ loop.at = "handle" /\ Closes(loop.msg, b) =>
                    /\ Closing(b)' /\ conns'[b].busy = "no"
                    /\ \A n \in 1..Len(queue) : ~Closes(queue[n], b)
  <2>1. CASE b = a
    BY <1>6, <1>7, <2>1
  <2>2. CASE b # a
    <3>1. conns'[b] = conns[b]
      BY <1>4, <2>2
    <3> QED
      BY <1>8, <2>2, <3>1 DEF ClosedOnce
  <2> QED
    BY <2>1, <2>2
<1>11. \A t \in Threads : \A k \in 1..Len(out'[t]) : out'[t][k].type # "ShipConnectionClosed"
  BY DEF ClosedOnce
<1> QED
  BY <1>9, <1>10, <1>11 DEF ClosedOnce, Closes, Reaping

(* and then posts the close.                                               *)
LEMMA CalmPosts ==
    ASSUME Core, ClosedOnce, NEW a \in Addrs, PostConnectionClose(a)
    PROVE  ClosedOnce'
<1> DEFINE c == [conns[a] EXCEPT !.busy = "no"]
           m == ClosedMsg(a)
<1>0. /\ TypeInv /\ conns \in [Addrs -> Connection] /\ conns[a] \in Connection
      /\ queue \in Seq(Allowed) /\ Len(queue) \in Nat
  BY LenProperties DEF Core, TypeInv
<1>1. /\ conns' = [conns EXCEPT ![a] = c] /\ queue' = Append(queue, m) /\ UNCHANGED <<peers, loop, out>>
      /\ conns[a].busy = "post"
  BY DEF PostConnectionClose
<1>2. c.st = conns[a].st /\ c.busy = "no"
  BY <1>0 DEF Connection
<1>3. m.type = "ShipConnectionClosed" /\ m.sc = a
  BY <1>0, CloseMsg
<1> HIDE DEF c, m
<1>4. conns'[a] = c /\ \A b \in Addrs : b # a => conns'[b] = conns[b]
  BY <1>0, <1>1
<1>5. \A b \in Addrs : Closing(b)' <=> Closing(b)
  BY <1>1, <1>2, <1>4 DEF Closing
<1>6. /\ Len(queue') = Len(queue) + 1 /\ queue'[Len(queue) + 1] = m
      /\ \A k \in 1..Len(queue) : queue'[k] = queue[k]
  BY <1>0, <1>1
<1>7. /\ \A k \in 1..Len(queue) : ~Closes(queue[k], a)
      /\ ~(loop.at = "handle" /\ Closes(loop.msg, a)) /\ Closing(a)
      /\ ~(Reaping(loop) /\ loop.sc = a)
  BY <1>1 DEF ClosedOnce
<1>8. \A k \in 1..Len(queue') : \/ k \in 1..Len(queue) /\ queue'[k] = queue[k]
                                \/ k = Len(queue) + 1 /\ queue'[k] = m
  BY <1>0, <1>6
<1>9. ASSUME NEW b \in Addrs
      PROVE  /\ conns'[b].busy = "post" => Closing(b)'
             /\ \A k \in 1..Len(queue') : Closes(queue'[k], b) =>
                   /\ Closing(b)' /\ conns'[b].busy = "no"
                   /\ \A n \in 1..Len(queue') : Closes(queue'[n], b) => n = k
             /\ loop.at = "handle" /\ Closes(loop.msg, b) =>
                   /\ Closing(b)' /\ conns'[b].busy = "no"
                   /\ \A n \in 1..Len(queue') : ~Closes(queue'[n], b)
  <2>1. CASE b = a
    <3>1. \A k \in 1..Len(queue') : Closes(queue'[k], a) => k = Len(queue) + 1
      BY <1>7, <1>8
    <3> QED
      BY <1>2, <1>4, <1>5, <1>7, <2>1, <3>1
  <2>2. CASE b # a
    <3>1. ~Closes(m, b)
      BY <1>3, <2>2 DEF Closes
    <3>2. \A k \in 1..Len(queue') : Closes(queue'[k], b) => k \in 1..Len(queue) /\ Closes(queue[k], b)
      BY <1>8, <3>1
    <3>3. conns'[b] = conns[b]
      BY <1>4, <2>2
    <3> QED
      BY <1>5, <3>2, <3>3 DEF ClosedOnce
  <2> QED
    BY <2>1, <2>2
<1>10. Reaping(loop') => conns'[loop'.sc].st = "shut" /\ conns'[loop'.sc].busy = "no"
  BY <1>1, <1>2, <1>4, <1>7 DEF ClosedOnce, Core, Threading, Taking, Reaping
<1>11. \A t \in Threads : \A k \in 1..Len(out'[t]) : out'[t][k].type # "ShipConnectionClosed"
  BY <1>1 DEF ClosedOnce
<1> QED
  BY <1>1, <1>9, <1>10, <1>11 DEF ClosedOnce, Closes, Reaping

(* What a thread has to send is no close,                                  *)
LEMMA PostsNoClose ==
    ASSUME ClosedOnce, out \in [Threads -> Seq(Allowed)], NEW t \in Threads, NEW ms,
           \A j \in 1..Len(ms) : ms[j].type # "ShipConnectionClosed", out' = [out EXCEPT ![t] = ms]
    PROVE  \A x \in Threads : \A k \in 1..Len(out'[x]) : out'[x][k].type # "ShipConnectionClosed"
<1> SUFFICES ASSUME NEW x \in Threads, NEW k \in 1..Len(out'[x])
             PROVE  out'[x][k].type # "ShipConnectionClosed"
  OBVIOUS
<1>1. CASE x = t
  BY <1>1
<1>2. CASE x # t
  <2>1. out'[x] = out[x]
    BY <1>2
  <2> QED
    BY <2>1 DEF ClosedOnce
<1> QED
  BY <1>1, <1>2

(* and what it sends.                                                      *)
LEMMA SendNoClose ==
    ASSUME Core, ClosedOnce, NEW t \in Threads, Send(t)
    PROVE  /\ \A x \in Threads : \A k \in 1..Len(out'[x]) : out'[x][k].type # "ShipConnectionClosed"
           /\ \A k \in 1..Len(queue') : queue'[k].type = "ShipConnectionClosed" =>
                 k \in 1..Len(queue) /\ queue'[k] = queue[k]
<1> DEFINE s == out[t]
<1>0. TypeInv /\ out \in [Threads -> Seq(Allowed)] /\ s \in Seq(Allowed) /\ s # <<>>
  BY DEF Core, TypeInv, Send, Idle
<1>1. Len(s) \in Nat /\ Len(s) >= 1 /\ Head(s) = s[1]
  BY <1>0, LenProperties, HeadTailProperties, EmptySeq
<1>2. /\ Len(Tail(s)) = Len(s) - 1
      /\ \A j \in 1..Len(Tail(s)) : Tail(s)[j] = s[j + 1]
  BY <1>0, <1>1, HeadTailProperties
<1>3. \A k \in 1..Len(s) : s[k].type # "ShipConnectionClosed"
  BY DEF ClosedOnce
<1>4. /\ Head(s).type # "ShipConnectionClosed"
      /\ \A j \in 1..Len(Tail(s)) : Tail(s)[j].type # "ShipConnectionClosed"
  BY <1>1, <1>2, <1>3
<1>5. queue' = Append(queue, Head(s)) /\ out' = [out EXCEPT ![t] = Tail(s)]
  BY DEF Send
<1> HIDE DEF s
<1> QED
  BY <1>0, <1>4, <1>5, PostsNoClose, QueueGrows

(* A thread leaves the connections undisturbed.                            *)
LEMMA UndisturbedSame ==
    ASSUME UNCHANGED conns PROVE Undisturbed(conns, conns')
BY DEF Undisturbed

(* One connection changes.                                                 *)
LEMMA UndisturbedConn ==
    ASSUME TypeInv, NEW a \in Addrs, NEW c, conns' = [conns EXCEPT ![a] = c],
           \/ c.st = conns[a].st /\ c.busy = conns[a].busy
           \/ conns[a].st = "free" /\ c.busy = "no"
    PROVE  Undisturbed(conns, conns')
<1>1. conns'[a] = c /\ \A b \in Addrs : b # a => conns'[b] = conns[b]
  BY DEF TypeInv
<1> QED
  BY <1>1 DEF Undisturbed

(* A pairing request is accepted where there are pairing requests.         *)
Requested == pairing # None => "pairing" \in Calls

(* It stays so.                                                            *)
LEMMA RequestedStep ==
    ASSUME Requested, [Next /\ UNCHANGED config]_<<vars, config>>
    PROVE  Requested'
<1>1. pairing' \in {pairing, None} \/ (\E d : PairingRequestAccepted(d))
  BY DEF Next, vars, Application, Browser, Server, ConnectionLoop, StopCaller, ConnectionThread, RetryTimer, others,
      RegisterRemoteSki, UnregisterRemoteSki, CancelPairingWithSki, ApprovePendingHandshakeWithSki,
      RegisterFingerprint, RegisterRemoteFingerprintWithShipId, OnMdnsEntriesFound, PairingRegistersPeer,
      ServerAccept, OnWebsocketServerConnection, Hello, ConnectionEnds, PostConnectionClose, ReadDecision,
      SetupRemoteDevice, HandleShipStateUpdate, ReportServiceShipId, RetryTimerFires, RetryTimerPosts, Send,
      LoopChecksCancel, LoopReceives, LoopIgnores, HandleMdnsEntriesFound, LoopDials, DialSki,
      CloseShipConnection, LoopJoins, LoopPosts, LoopDeletes, ShipNodeUnregisterSki, ShipNodeRegisterSki,
      ShipNodeCancelPairingSki, LoopAborts, LoopRemoves, ShipNodeApprovePendingHandshake, LoopApproves,
      ShipNodePromoteFingerprint, LoopPromotes, ShipNodeRevokePairingFingerprint, LoopRevokes,
      StopBegins, StopSends, StopJoinsLoop, StopReleases, StopDeletes, StopLeavesLoop, StopEnds
<1>2. Calls' = Calls
  BY DEF Calls, vars
<1>3. \A d : PairingRequestAccepted(d) => "pairing" \in Calls
  BY DEF PairingRequestAccepted
<1> QED
  BY <1>1, <1>2, <1>3 DEF Requested

(* The thread of a connection,                                             *)
LEMMA ThreadClosed ==
    ASSUME Core, Calm, loop.at # "exit", ClosedOnce, config' = config, NEW a \in Addrs, ConnectionThread(a)
    PROVE  ClosedOnce'
<1>0. /\ TypeInv /\ conns \in [Addrs -> Connection] /\ conns[a] \in Connection /\ Table(peers, conns)
  BY DEF Core, TypeInv
<1>1. Sound /\ UNCHANGED loop
  BY <1>0, AroundSound, AroundType DEF Around
<1>2. \A x \in Threads : \A k \in 1..Len(out[x]) : out[x][k].type # "ShipConnectionClosed"
  BY DEF ClosedOnce
<1>3. ASSUME UNCHANGED <<queue, out>>, Undisturbed(conns, conns') PROVE ClosedOnce'
  BY <1>1, <1>2, <1>3, CalmFollows
<1>4. ASSUME UNCHANGED <<queue, out>>, NEW c, conns' = [conns EXCEPT ![a] = c],
             c.st = conns[a].st, c.busy = conns[a].busy
      PROVE  ClosedOnce'
  BY <1>0, <1>3, <1>4, UndisturbedConn
<1>5. ASSUME NEW ph, conns' = [conns EXCEPT ![a].phase = ph], UNCHANGED <<queue, out>> PROVE ClosedOnce'
  <2> DEFINE c == [conns[a] EXCEPT !.phase = ph]
  <2>1. conns' = [conns EXCEPT ![a] = c] /\ c.st = conns[a].st /\ c.busy = conns[a].busy
    BY <1>0, <1>5 DEF Connection
  <2> HIDE DEF c
  <2> QED
    BY <1>4, <1>5, <2>1
<1>6. CASE Hello(a) \/ SetupRemoteDevice(a) \/ HandleShipStateUpdate(a)
  <2>1. UNCHANGED <<queue, out>> /\ \E ph : conns' = [conns EXCEPT ![a].phase = ph]
    BY <1>6 DEF Hello, SetupRemoteDevice, HandleShipStateUpdate
  <2> QED
    BY <1>5, <2>1
<1>7. CASE \E d \in Devices : ReportServiceShipId(a, d)
  <2>1. UNCHANGED <<queue, out, conns>>
    BY <1>7 DEF ReportServiceShipId
  <2> QED
    BY <1>3, <2>1, UndisturbedSame
<1>8. CASE ConnectionEnds(a)
  <2>1. Runs(a) /\ CloseConnection(a) /\ UNCHANGED <<queue, out>>
    BY <1>8 DEF ConnectionEnds
  <2> QED
    BY <1>1, <2>1, CalmCloses
<1>9. CASE PostConnectionClose(a)
  BY <1>9, CalmPosts
<1>10. CASE ReadDecision(a)
  <2>1. Runs(a) /\ UNCHANGED <<queue, out>>
    BY <1>10 DEF ReadDecision
  <2>2. \/ CloseConnection(a)
        \/ conns' = [conns EXCEPT ![a].box = Tail(@)]
        \/ conns' = [[conns EXCEPT ![a].box = Tail(@)] EXCEPT ![a].phase = "ready"]
    BY <1>10 DEF ReadDecision
  <2>3. CASE CloseConnection(a)
    BY <1>1, <2>1, <2>3, CalmCloses
  <2>4. CASE conns' = [conns EXCEPT ![a].box = Tail(@)]
    <3> DEFINE c == [conns[a] EXCEPT !.box = Tail(@)]
    <3>1. conns' = [conns EXCEPT ![a] = c] /\ c.st = conns[a].st /\ c.busy = conns[a].busy
      BY <1>0, <2>4 DEF Connection
    <3> HIDE DEF c
    <3> QED
      BY <1>4, <2>1, <3>1
  <2>5. CASE conns' = [[conns EXCEPT ![a].box = Tail(@)] EXCEPT ![a].phase = "ready"]
    <3> DEFINE c == [conns[a] EXCEPT !.box = Tail(@), !.phase = "ready"]
    <3>1. conns' = [conns EXCEPT ![a] = c] /\ c.st = conns[a].st /\ c.busy = conns[a].busy
      BY <1>0, <2>5 DEF Connection
    <3> HIDE DEF c
    <3> QED
      BY <1>4, <2>1, <3>1
  <2> QED
    BY <2>2, <2>3, <2>4, <2>5
<1> QED
  BY <1>6, <1>7, <1>8, <1>9, <1>10 DEF ConnectionThread

(* and the others.                                                         *)
LEMMA AroundClosed ==
    ASSUME Core, Calm, Requested, loop.at # "exit", ClosedOnce, config' = config, Around
    PROVE  ClosedOnce'
<1>0. /\ TypeInv /\ Table(peers, conns) /\ out \in [Threads -> Seq(Allowed)]
      /\ "unregister" \notin Calls /\ "pairing" \notin Calls /\ "fingerprint" \notin Calls
  BY DEF Core, TypeInv, Calm
<1>1. Sound /\ UNCHANGED loop
  BY <1>0, AroundSound, AroundType
<1>2. ASSUME UNCHANGED <<queue, out>>, Undisturbed(conns, conns') PROVE ClosedOnce'
  <2>1. \A x \in Threads : \A k \in 1..Len(out[x]) : out[x][k].type # "ShipConnectionClosed"
    BY DEF ClosedOnce
  <2> QED
    BY <1>1, <1>2, <2>1, CalmFollows
<1>3. ASSUME NEW t \in Threads, NEW ms, \A j \in 1..Len(ms) : ms[j].type # "ShipConnectionClosed",
             out' = [out EXCEPT ![t] = ms], UNCHANGED <<queue, conns>>
      PROVE  ClosedOnce'
  BY <1>0, <1>1, <1>3, PostsNoClose, UndisturbedSame, CalmFollows
<1>4. ASSUME NEW t \in Threads, NEW m, m.type # "ShipConnectionClosed", Post(t, <<m>>), UNCHANGED <<queue, conns>>
      PROVE  ClosedOnce'
  <2> DEFINE ms == <<m>>
  <2>1. \A j \in 1..Len(ms) : ms[j].type # "ShipConnectionClosed"
    BY <1>4
  <2>2. out' = [out EXCEPT ![t] = ms]
    BY <1>4 DEF Post
  <2> QED
    BY <1>3, <1>4, <2>1, <2>2
<1>5. ASSUME NEW s \in Skis, NEW b \in BOOLEAN,
             \/ RegisterRemoteSki(s, b) \/ UnregisterRemoteSki(s) \/ CancelPairingWithSki(s)
             \/ ApprovePendingHandshakeWithSki(s)
      PROVE  ClosedOnce'
  <2>1. /\ UNCHANGED <<queue, conns>>
        /\ \E m : m.type # "ShipConnectionClosed" /\ Post("app", <<m>>)
    <3>1. CASE RegisterRemoteSki(s, b)
      <4>1. [SkiMsg("ShipRegisterSki", s) EXCEPT !.trust = b].type # "ShipConnectionClosed"
        BY DEF SkiMsg, Msg
      <4> QED
        BY <3>1, <4>1 DEF RegisterRemoteSki
    <3>2. CASE UnregisterRemoteSki(s)
      BY <1>0, <3>2 DEF UnregisterRemoteSki, Call
    <3>3. CASE CancelPairingWithSki(s)
      <4>1. SkiMsg("ShipCancelPairingSki", s).type # "ShipConnectionClosed"
        BY DEF SkiMsg, Msg
      <4> QED
        BY <3>3, <4>1 DEF CancelPairingWithSki
    <3>4. CASE ApprovePendingHandshakeWithSki(s)
      <4>1. \A x, y, z : [Msg("ApprovePendingSki") EXCEPT !.sc = x, !.id = y, !.inc = z].type # "ShipConnectionClosed"
        BY DEF Msg
      <4> QED
        BY <3>4, <4>1 DEF ApprovePendingHandshakeWithSki
    <3> QED
      BY <1>5, <3>1, <3>2, <3>3, <3>4
  <2> QED
    BY <1>4, <2>1 DEF Threads
<1>6. ASSUME NEW d \in Devices, RegisterRemoteFingerprintWithShipId(d) PROVE ClosedOnce'
  <2>1. RegisterPeerTrust("app", d, FALSE) /\ UNCHANGED <<queue, conns>>
    BY <1>6 DEF RegisterRemoteFingerprintWithShipId
  <2>2. Trusting("app", d, FALSE)
    BY <1>0, <2>1, TrustStep DEF Threads
  <2>3. PICK ms : out' = [out EXCEPT !["app"] = ms] /\ \A j \in 1..Len(ms) : ms[j] = Msg("MdnsEntriesFound")
    BY <2>2 DEF Trusting
  <2>4. \A j \in 1..Len(ms) : ms[j].type # "ShipConnectionClosed"
    BY <2>3 DEF Msg
  <2> QED
    BY <1>3, <2>1, <2>3, <2>4 DEF Threads
<1>7. ASSUME NEW found, OnMdnsEntriesFound(found) PROVE ClosedOnce'
  <2> DEFINE ms == IF ClientSupported THEN <<Msg("MdnsEntriesFound")>> ELSE <<>>
  <2>1. out' = [out EXCEPT !["mdns"] = ms] /\ UNCHANGED <<queue, conns>>
    BY <1>7 DEF OnMdnsEntriesFound, Post
  <2>2. \A j \in 1..Len(ms) : ms[j].type # "ShipConnectionClosed"
    BY DEF Msg
  <2> HIDE DEF ms
  <2> QED
    BY <1>3, <2>1, <2>2 DEF Threads
<1>8. ASSUME NEW t \in Threads, Send(t) PROVE ClosedOnce'
  <2>1. UNCHANGED conns
    BY <1>8 DEF Send
  <2> QED
    BY <1>1, <1>8, <2>1, SendNoClose, UndisturbedSame, CalmFollows
<1>9. CASE Server
  <2>1. UNCHANGED <<queue, out>>
    BY <1>9 DEF Server, ServerAccept, OnWebsocketServerConnection
  <2>2. UNCHANGED conns \/ Served
    BY <1>0, <1>9, TypeServer DEF Server, ServerAccept
  <2>3. CASE Served
    <3>1. Undisturbed(conns, conns')
      BY <1>0, <2>3, UndisturbedConn DEF Served
    <3> QED
      BY <1>2, <2>1, <3>1
  <2> QED
    BY <1>2, <2>1, <2>2, <2>3, UndisturbedSame
<1>10. ASSUME NEW i \in DOMAIN peers, RetryTimer(i) PROVE ClosedOnce'
  <2>1. UNCHANGED <<conns, out>>
    BY <1>10 DEF RetryTimer, RetryTimerFires, RetryTimerPosts
  <2>2. CASE UNCHANGED queue
    BY <1>2, <2>1, <2>2, UndisturbedSame
  <2>3. CASE \E s : queue' = Append(queue, SkiMsg("RetryConnectionForSki", s))
    <3>1. PICK s : queue' = Append(queue, SkiMsg("RetryConnectionForSki", s))
      BY <2>3
    <3>2. SkiMsg("RetryConnectionForSki", s).type # "ShipConnectionClosed"
      BY DEF SkiMsg, Msg
    <3>3. \A x \in Threads : \A k \in 1..Len(out[x]) : out[x][k].type # "ShipConnectionClosed"
      BY DEF ClosedOnce
    <3>4. \A k \in 1..Len(queue') : queue'[k].type = "ShipConnectionClosed" =>
             k \in 1..Len(queue) /\ queue'[k] = queue[k]
      BY <1>0, <3>1, <3>2, QueueGrows
    <3> QED
      BY <1>1, <2>1, <3>3, <3>4, UndisturbedSame, CalmFollows
  <2> QED
    BY <1>10, <2>2, <2>3 DEF RetryTimer, RetryTimerFires, RetryTimerPosts
<1>11. CASE Application
  <2>1. \A f : ~RegisterFingerprint(f)
    BY <1>0 DEF RegisterFingerprint, Call
  <2> QED
    BY <1>5, <1>6, <1>11, <2>1 DEF Application
<1>12. CASE Browser
  <2>1. \A d : ~PairingRequestAccepted(d)
    BY <1>0 DEF PairingRequestAccepted
  <2>2. ~PairingRegistersPeer
    BY <1>0 DEF PairingRegistersPeer, Requested
  <2> QED
    BY <1>7, <1>12, <2>1, <2>2 DEF Browser
<1> QED
  BY <1>8, <1>9, <1>10, <1>11, <1>12, ThreadClosed DEF Around

(* The loop: each connection that it does not have in its hands is held,   *)
Accounted == \A a \in Addrs : conns[a].st # "free" => Held(peers, a) \/ (Reaping(loop) /\ loop.sc = a)

(* That is so until the loop has ended.                                    *)
LEMMA CalmHeld == Core /\ Calm /\ loop.at # "exit" => Accounted
BY DEF Core, Calm, Leaks, Threading, Owned, Accounted

(* The loop goes on, and sends nothing.                                    *)
LEMMA CalmMoves ==
    ASSUME ClosedOnce, Core', Calm', loop'.at \notin {"exit", "handle", "post"}, UNCHANGED <<queue, out>>, ~Reaping(loop'),
           \A a \in Addrs : conns'[a].st = conns[a].st /\ conns'[a].busy = conns[a].busy
    PROVE  ClosedOnce'
<1>1. \A a \in Addrs : conns'[a].st # "free" => Held(peers', a) \/ (Reaping(loop') /\ loop'.sc = a)
  <2>1. (Core /\ Calm /\ loop.at # "exit" => Accounted)'
    BY CalmHeld, PTL
  <2> QED
    BY <2>1 DEF Accounted, Held, Reaping
<1>2. \A a \in Addrs : conns[a].st = "shut" /\ Held(peers, a) =>
         /\ conns'[a].st = "shut" /\ Held(peers', a)
         /\ conns[a].busy = "no" => conns'[a].busy = "no"
  BY <1>1
<1>3. \A t \in Threads : \A k \in 1..Len(out'[t]) : out'[t][k].type # "ShipConnectionClosed"
  BY DEF ClosedOnce
<1> QED
  BY <1>2, <1>3, ClosedFollows

(* receives a message,                                                     *)
LEMMA ReceiveClosed ==
    ASSUME Core, ClosedOnce, LoopReceives
    PROVE  ClosedOnce'
<1> DEFINE m == Head(queue)
<1>0. TypeInv /\ loop \in Loops /\ queue \in Seq(Allowed) /\ queue # <<>>
  BY DEF Core, TypeInv, LoopReceives
<1>1. /\ loop' = [loop EXCEPT !.at = "handle", !.msg = m] /\ queue' = Tail(queue)
      /\ UNCHANGED <<peers, conns, out>> /\ loop.at = "receive"
  BY DEF LoopReceives, others
<1>2. loop'.at = "handle" /\ loop'.msg = m
  BY <1>0, <1>1 DEF Loops
<1>3. Len(queue) \in Nat /\ Len(queue) >= 1 /\ m = queue[1]
  BY <1>0, LenProperties, HeadTailProperties, EmptySeq
<1>4. /\ Len(queue') = Len(queue) - 1
      /\ \A j \in 1..Len(queue') : queue'[j] = queue[j + 1]
  BY <1>0, <1>1, <1>3, HeadTailProperties
<1> HIDE DEF m
<1>5. \A a \in Addrs : Closing(a)' <=> Closing(a)
  BY <1>1 DEF Closing
<1>6. \A j \in 1..Len(queue') : j + 1 \in 1..Len(queue) /\ j + 1 # 1
  BY <1>3, <1>4
<1>7. 1 \in 1..Len(queue)
  BY <1>3
<1>8. ASSUME NEW a \in Addrs
      PROVE  /\ conns'[a].busy = "post" => Closing(a)'
             /\ \A k \in 1..Len(queue') : Closes(queue'[k], a) =>
                   /\ Closing(a)' /\ conns'[a].busy = "no"
                   /\ \A n \in 1..Len(queue') : Closes(queue'[n], a) => n = k
             /\ loop'.at = "handle" /\ Closes(loop'.msg, a) =>
                   /\ Closing(a)' /\ conns'[a].busy = "no"
                   /\ \A n \in 1..Len(queue') : ~Closes(queue'[n], a)
  <2>1. conns[a].busy = "post" => Closing(a)
    BY DEF ClosedOnce
  <2>2. \A k \in 1..Len(queue) : Closes(queue[k], a) =>
            /\ Closing(a) /\ conns[a].busy = "no"
            /\ \A n \in 1..Len(queue) : Closes(queue[n], a) => n = k
    BY DEF ClosedOnce
  <2>3. ASSUME NEW k \in 1..Len(queue'), Closes(queue'[k], a)
        PROVE  /\ Closing(a)' /\ conns'[a].busy = "no"
               /\ \A n \in 1..Len(queue') : Closes(queue'[n], a) => n = k
    <3>1. Closes(queue[k + 1], a) /\ k + 1 \in 1..Len(queue)
      BY <1>4, <1>6, <2>3
    <3>2. Closing(a) /\ conns[a].busy = "no" /\ \A n \in 1..Len(queue) : Closes(queue[n], a) => n = k + 1
      BY <2>2, <3>1
    <3>3. \A n \in 1..Len(queue') : Closes(queue'[n], a) => n + 1 = k + 1
      BY <1>4, <1>6, <3>2
    <3> QED
      BY <1>1, <1>3, <1>4, <1>5, <3>2, <3>3
  <2>4. ASSUME Closes(m, a)
        PROVE  /\ Closing(a)' /\ conns'[a].busy = "no"
               /\ \A n \in 1..Len(queue') : ~Closes(queue'[n], a)
    <3>1. Closing(a) /\ conns[a].busy = "no" /\ \A n \in 1..Len(queue) : Closes(queue[n], a) => n = 1
      BY <1>3, <1>7, <2>2, <2>4
    <3> QED
      BY <1>1, <1>4, <1>5, <1>6, <3>1
  <2> QED
    BY <1>1, <1>2, <1>5, <2>1, <2>3, <2>4
<1>9. \A t \in Threads : \A k \in 1..Len(out'[t]) : out'[t][k].type # "ShipConnectionClosed"
  BY <1>1 DEF ClosedOnce
<1> QED
  BY <1>2, <1>8, <1>9 DEF ClosedOnce, Closes, Reaping

(* takes the connection of a close,                                        *)
LEMMA TakeClosed ==
    ASSUME Core, Calm, ClosedOnce, Core', Calm', NEW a \in Addrs, loop.at = "handle", Closes(loop.msg, a),
           loop'.at = "stop", loop'.sc = a, UNCHANGED <<conns, queue, out>>
    PROVE  ClosedOnce'
<1>1. \A b \in Addrs : conns'[b].st # "free" => Held(peers', b) \/ (Reaping(loop') /\ loop'.sc = b)
  <2>1. (Core /\ Calm /\ loop.at # "exit" => Accounted)'
    BY CalmHeld, PTL
  <2> QED
    BY <2>1 DEF Accounted, Held, Reaping
<1>2. /\ conns[a].st = "shut" /\ conns[a].busy = "no"
      /\ \A n \in 1..Len(queue) : ~Closes(queue[n], a)
  BY DEF ClosedOnce, Closing
<1>3. \A b \in Addrs : b # a /\ Closing(b) => Closing(b)'
  BY <1>1 DEF Closing
<1>4. ASSUME NEW b \in Addrs
      PROVE  /\ conns[b].busy = "post" => Closing(b)'
             /\ \A k \in 1..Len(queue) : Closes(queue[k], b) =>
                   /\ Closing(b)' /\ conns[b].busy = "no"
                   /\ \A n \in 1..Len(queue) : Closes(queue[n], b) => n = k
  <2>1. CASE b = a
    BY <1>2, <2>1
  <2>2. CASE b # a
    BY <1>3, <2>2 DEF ClosedOnce
  <2> QED
    BY <2>1, <2>2
<1>5. \A t \in Threads : \A k \in 1..Len(out'[t]) : out'[t][k].type # "ShipConnectionClosed"
  BY DEF ClosedOnce
<1> QED
  BY <1>2, <1>4, <1>5 DEF ClosedOnce, Closes, Reaping

(* and deletes it.                                                         *)
LEMMA DeleteClosed ==
    ASSUME Core, ClosedOnce, LoopDeletes
    PROVE  ClosedOnce'
<1> DEFINE a == loop.sc
<1>0. TypeInv /\ loop \in Loops /\ conns \in [Addrs -> Connection] /\ loop.at = "stopped"
  BY DEF Core, TypeInv, LoopDeletes
<1>1. a \in Addrs /\ ~Held(peers, a)
  BY <1>0 DEF Core, Threading, Reaping, Taking
<1>2. conns' = [conns EXCEPT ![a] = Free] /\ UNCHANGED <<peers, queue, out>>
  BY DEF LoopDeletes, Disconnected, others
<1>3. loop'.at \in {"dial", "revoke", "idle"}
  <2>1. \/ loop' = [loop EXCEPT !.at = "dial", !.sc = None, !.dial = FALSE]
        \/ loop' = [loop EXCEPT !.at = "revoke", !.sc = None, !.ski = None]
        \/ loop' = LoopIdle
    BY DEF LoopDeletes, Done
  <2>2. CASE loop' = [loop EXCEPT !.at = "dial", !.sc = None, !.dial = FALSE]
    BY <1>0, <2>2 DEF Loops
  <2>3. CASE loop' = [loop EXCEPT !.at = "revoke", !.sc = None, !.ski = None]
    BY <1>0, <2>3 DEF Loops
  <2>4. CASE loop' = LoopIdle
    BY <2>4 DEF LoopIdle
  <2> QED
    BY <2>1, <2>2, <2>3, <2>4
<1> HIDE DEF a
<1>4. conns'[a].busy = "no" /\ \A b \in Addrs : b # a => conns'[b] = conns[b]
  BY <1>0, <1>1, <1>2 DEF Free
<1>5. \A b \in Addrs : conns'[b].busy = "post" => conns[b].busy = "post"
  BY <1>4
<1>6. \A b \in Addrs : conns[b].st = "shut" /\ Held(peers, b) =>
         /\ conns'[b].st = "shut" /\ Held(peers', b)
         /\ conns[b].busy = "no" => conns'[b].busy = "no"
  BY <1>1, <1>2, <1>4
<1>7. \A t \in Threads : \A k \in 1..Len(out'[t]) : out'[t][k].type # "ShipConnectionClosed"
  BY <1>2 DEF ClosedOnce
<1>8. \A k \in 1..Len(queue') : queue'[k].type = "ShipConnectionClosed" =>
         k \in 1..Len(queue) /\ queue'[k] = queue[k]
  BY <1>2
<1>9. ~Reaping(loop') /\ loop'.at # "handle" /\ loop'.at # "post"
  BY <1>3 DEF Reaping
<1> QED
  BY <1>5, <1>6, <1>7, <1>8, <1>9, ClosedFollows

(* None of these messages is under way.                                    *)
LEMMA CalmMessages ==
    ASSUME Core, Calm
    PROVE  /\ loop.msg.type # "ShipUnregisterSki" /\ loop.msg.type # "RevokePairingFingerprint"
           /\ loop.at # "remove" /\ loop.at # "revoke"
BY DEF Core, Calm, TypeInv, Allowed, LoopInv, Leaks

(* The steps of the loop,                                                  *)
LEMMA LoopClosed ==
    ASSUME Core, Calm, loop.at # "exit", ClosedOnce, Core', Calm', LoopHandles
    PROVE  ClosedOnce'
<1>0. /\ TypeInv /\ Table(peers, conns) /\ Threading(peers, conns, loop, stop) /\ LoopInv
      /\ loop \in Loops /\ conns \in [Addrs -> Connection]
  BY DEF Core, TypeInv
<1>1. ASSUME loop'.at \notin {"exit", "handle", "post", "stop", "stopped"}, UNCHANGED <<queue, out>>,
             \A a \in Addrs : conns'[a].st = conns[a].st /\ conns'[a].busy = conns[a].busy
      PROVE  ClosedOnce'
  BY <1>1, CalmMoves DEF Reaping
<1>2. CASE LoopChecksCancel
  <2>1. UNCHANGED <<queue, out, conns, peers>> /\ loop'.at \in {"exit", "receive"}
    BY <1>0, <1>2 DEF LoopChecksCancel, Goto, Loops, others
  <2> QED
    BY <2>1 DEF ClosedOnce, Closes, Reaping, Closing
<1>3. CASE LoopReceives
  BY <1>3, ReceiveClosed
<1>4. CASE \/ LoopIgnores \/ ShipNodeApprovePendingHandshake \/ ShipNodePromoteFingerprint
           \/ ShipNodeRegisterSki \/ ShipNodeCancelPairingSki
  <2>1. UNCHANGED <<queue, out, conns>>
    BY <1>4 DEF LoopIgnores, ShipNodeApprovePendingHandshake, ShipNodePromoteFingerprint,
        ShipNodeRegisterSki, ShipNodeCancelPairingSki, others
  <2>2. loop'.at \in {"idle", "approve", "promote", "dial", "abort", "remove"}
    <3>1. CASE LoopIgnores
      BY <3>1 DEF LoopIgnores, Done, LoopIdle
    <3>2. CASE ShipNodeApprovePendingHandshake
      <4>1. loop' = LoopIdle \/ \E x : loop' = [loop EXCEPT !.at = "approve", !.sc = x]
        BY <3>2 DEF ShipNodeApprovePendingHandshake, Done
      <4>2. CASE loop' = LoopIdle
        BY <4>2 DEF LoopIdle
      <4>3. CASE \E x : loop' = [loop EXCEPT !.at = "approve", !.sc = x]
        BY <1>0, <4>3 DEF Loops
      <4> QED
        BY <4>1, <4>2, <4>3
    <3>3. CASE ShipNodePromoteFingerprint
      BY <1>0, <3>3 DEF ShipNodePromoteFingerprint, Loops
    <3>4. CASE ShipNodeRegisterSki
      BY <1>0, <3>4 DEF ShipNodeRegisterSki, Loops
    <3>5. CASE ShipNodeCancelPairingSki
      <4>1. \/ loop' = LoopIdle \/ loop' = [loop EXCEPT !.at = "remove"]
            \/ \E x : loop' = [loop EXCEPT !.at = "abort", !.sc = x]
        BY <3>5 DEF ShipNodeCancelPairingSki, Done, Goto
      <4>2. CASE loop' = LoopIdle
        BY <4>2 DEF LoopIdle
      <4>3. CASE loop' = [loop EXCEPT !.at = "remove"]
        BY <1>0, <4>3 DEF Loops
      <4>4. CASE \E x : loop' = [loop EXCEPT !.at = "abort", !.sc = x]
        BY <1>0, <4>4 DEF Loops
      <4> QED
        BY <4>1, <4>2, <4>3, <4>4
    <3> QED
      BY <1>4, <3>1, <3>2, <3>3, <3>4, <3>5
  <2> QED
    BY <1>1, <2>1, <2>2
<1>5. CASE LoopAborts \/ LoopApproves \/ LoopPromotes
  <2>1. UNCHANGED <<queue, out>> /\ loop'.at \in {"idle", "promote"}
    <3>1. UNCHANGED <<queue, out>>
      BY <1>5 DEF LoopAborts, LoopApproves, LoopPromotes, others
    <3>2. loop' = LoopIdle \/ (loop' = [loop EXCEPT !.i = loop.i + 1] /\ loop.at = "promote")
      BY <1>5 DEF LoopAborts, LoopApproves, LoopPromotes, Done
    <3> QED
      BY <1>0, <3>1, <3>2 DEF Loops, LoopIdle
  <2>2. UNCHANGED conns \/ \E a \in Addrs, g \in BOOLEAN, id \in Nat : PostDecision(a, g, id)
    <3>1. CASE LoopAborts \/ LoopApproves
      <4>1. loop.sc \in Addrs /\ \E g \in BOOLEAN, id \in Nat : PostDecision(loop.sc, g, id)
        BY <1>0, <3>1 DEF LoopAborts, LoopApproves, Loops, Message, Threading
      <4> QED
        BY <4>1
    <3>2. CASE LoopPromotes
      BY <1>0, <3>2, PromoteStep
    <3> QED
      BY <1>5, <3>1, <3>2
  <2>3. \A a \in Addrs : conns'[a].st = conns[a].st /\ conns'[a].busy = conns[a].busy
    <3>1. CASE UNCHANGED conns
      BY <3>1
    <3>2. ASSUME NEW a \in Addrs, NEW g \in BOOLEAN, NEW id \in Nat, PostDecision(a, g, id)
          PROVE  \A b \in Addrs : conns'[b].st = conns[b].st /\ conns'[b].busy = conns[b].busy
      <4> DEFINE c == [conns[a] EXCEPT !.box = Append(@, [granted |-> g, id |-> id])]
      <4>1. conns' = conns \/ conns' = [conns EXCEPT ![a] = c]
        BY <1>0, <3>2, DecisionTyped
      <4>2. c.st = conns[a].st /\ c.busy = conns[a].busy
        BY <1>0 DEF Connection
      <4> HIDE DEF c
      <4> QED
        BY <1>0, <4>1, <4>2
    <3> QED
      BY <2>2, <3>1, <3>2
  <2> QED
    BY <1>1, <2>1, <2>3
<1>6. CASE CloseShipConnection
  <2> DEFINE i == FindWithShipConnection(peers, loop.msg.sc)
  <2>1. UNCHANGED <<queue, out, conns>> /\ Handles("ShipConnectionClosed")
    BY <1>6 DEF CloseShipConnection, others
  <2>2. CASE loop' = LoopIdle
    <3>1. loop'.at = "idle"
      BY <2>2 DEF LoopIdle
    <3> QED
      BY <1>1, <2>1, <3>1
  <2>3. CASE Closed(i)
    <3>1. loop'.at = "stop" /\ loop'.sc = loop.msg.sc
      BY <1>0, <2>3 DEF Closed, Loops
    <3>2. loop.msg.sc \in Addrs
      BY <1>0, <2>1 DEF TypeInv, Allowed, Handles
    <3> QED
      BY <2>1, <3>1, <3>2, TakeClosed DEF Handles, Closes
  <2> QED
    BY <1>0, <1>6, <2>2, <2>3, ClosedStep
<1>7. CASE LoopJoins
  <2>1. loop.at = "stop" /\ conns[loop.sc].st = "shut"
    BY <1>7 DEF LoopJoins, ClosedOnce, Reaping
  <2>2. UNCHANGED <<peers, conns, queue, out>> /\ loop' = [loop EXCEPT !.at = "stopped"]
    BY <1>7, <2>1 DEF LoopJoins, Goto, others
  <2>3. loop'.at = "stopped" /\ loop'.sc = loop.sc
    BY <1>0, <2>2 DEF Loops
  <2> QED
    BY <2>1, <2>2, <2>3 DEF ClosedOnce, Closes, Reaping, Closing
<1>8. CASE LoopPosts
  BY <1>8 DEF LoopPosts, ClosedOnce
<1>9. CASE LoopDeletes
  BY <1>9, DeleteClosed
<1>10. CASE \/ ShipNodeUnregisterSki \/ LoopRemoves \/ ShipNodeRevokePairingFingerprint \/ LoopRevokes
  BY <1>10, CalmMessages DEF ShipNodeUnregisterSki, LoopRemoves, ShipNodeRevokePairingFingerprint, LoopRevokes, Handles
<1> QED
  BY <1>2, <1>3, <1>4, <1>5, <1>6, <1>7, <1>8, <1>9, <1>10 DEF LoopHandles

(* and a dial.                                                             *)
LEMMA DialClosed ==
    ASSUME Core, ClosedOnce, Dial
    PROVE  ClosedOnce'
<1>0. TypeInv /\ Table(peers, conns) /\ Len(peers) \in Nat
  BY FindTyped DEF Core, TypeInv
<1>1. PICK z \in Allocations :
         /\ Len(peers') = Len(peers)
         /\ \A j \in 1..Len(peers) :
               \/ peers'[j] = peers[j]
               \/ Unreached(peers[j], peers'[j]) /\ MayFail
               \/ Reached(peers[j], peers'[j], z[j], conns'[z[j]])
         /\ \A b \in Addrs : conns'[b] = conns[b] \/ (conns[b].st = "free" /\ Held(peers', b))
  BY <1>0, DialPeers
<1>2. Sound
  BY <1>0, DialSound
<1>3. \A b \in Addrs : conns'[b] = conns[b] \/ (conns[b].st = "free" /\ conns'[b].busy = "no")
  <2> TAKE b \in Addrs
  <2>1. ASSUME conns[b].st = "free", Held(peers', b) PROVE conns'[b].busy = "no"
    <3>1. PICK j \in 1..Len(peers) : peers'[j].connection = b
      BY <1>1, <2>1 DEF Held
    <3>2. b # None /\ ~(peers'[j] = peers[j])
      BY <2>1, <3>1, NodeAssumption DEF Core, Table
    <3>3. Reached(peers[j], peers'[j], z[j], conns'[z[j]])
      BY <1>1, <3>1, <3>2 DEF Unreached
    <3> QED
      BY <3>1, <3>3 DEF Reached
  <2> QED
    BY <1>1, <2>1
<1>4. \A b \in Addrs : conns'[b].busy = "post" => conns[b].busy = "post"
  BY <1>3
<1>5. \A b \in Addrs : conns[b].st = "shut" /\ Held(peers, b) =>
         /\ conns'[b].st = "shut" /\ Held(peers', b)
         /\ conns[b].busy = "no" => conns'[b].busy = "no"
  BY <1>2, <1>3 DEF Sound, Holding
<1>6. UNCHANGED <<queue, out>> /\ loop'.at = "idle"
  BY DEF Dial, LoopIdle, others
<1>7. \A t \in Threads : \A k \in 1..Len(out'[t]) : out'[t][k].type # "ShipConnectionClosed"
  BY <1>6 DEF ClosedOnce
<1>8. ~Reaping(loop') /\ loop'.at # "handle" /\ loop'.at # "post"
  BY <1>6 DEF Reaping
<1> QED
  BY <1>4, <1>5, <1>6, <1>7, <1>8, ClosedFollows

(* Stop leaves the connections alone until it has joined the loop.         *)
LEMMA StopQuiet ==
    ASSUME Core, loop.at # "exit", StopCaller
    PROVE  /\ UNCHANGED <<peers, conns, out, loop>>
           /\ queue' = queue \/ queue' = Append(queue, Msg("Cancel"))
<1>1. stop.at \notin {"each", "conn", "servers"}
  BY DEF Core, Threading
<1> QED
  BY <1>1 DEF StopCaller, StopBegins, StopSends, StopJoinsLoop, StopReleases, StopDeletes, StopLeavesLoop, StopEnds

(* Stop sends no close.                                                    *)
LEMMA StopClosed ==
    ASSUME Core, loop.at # "exit", ClosedOnce, StopCaller
    PROVE  ClosedOnce'
<1>0. TypeInv
  BY DEF Core
<1>1. /\ UNCHANGED <<peers, conns, out, loop>>
      /\ queue' = queue \/ queue' = Append(queue, Msg("Cancel"))
  BY StopQuiet
<1>2. CASE queue' = queue
  BY <1>1, <1>2 DEF ClosedOnce, Closes, Reaping, Closing
<1>3. CASE queue' = Append(queue, Msg("Cancel"))
  <2>1. Msg("Cancel").type # "ShipConnectionClosed"
    BY DEF Msg
  <2>2. \A k \in 1..Len(queue') : queue'[k].type = "ShipConnectionClosed" =>
           k \in 1..Len(queue) /\ queue'[k] = queue[k]
    BY <1>0, <1>3, <2>1, QueueGrows
  <2>3. \A t \in Threads : \A k \in 1..Len(out'[t]) : out'[t][k].type # "ShipConnectionClosed"
    BY <1>1 DEF ClosedOnce
  <2>4. /\ Reaping(loop') => conns'[loop'.sc].st = "shut" /\ conns'[loop'.sc].busy = "no"
        /\ loop'.at # "post"
    BY <1>1 DEF ClosedOnce, Reaping
  <2>5. /\ \A a \in Addrs : conns'[a].busy = "post" => conns[a].busy = "post"
        /\ \A a \in Addrs : conns[a].st = "shut" /\ Held(peers, a) =>
               /\ conns'[a].st = "shut" /\ Held(peers', a)
               /\ conns[a].busy = "no" => conns'[a].busy = "no"
    BY <1>1
  <2> QED
    BY <1>1, <2>2, <2>3, <2>4, <2>5, ClosedFollows
<1> QED
  BY <1>1, <1>2, <1>3

(* What the thread of a connection does to the table.                      *)
Accepted(p) == [p EXCEPT !.pending_approval_id = 0, !.is_trusted = TRUE, !.provisional = FALSE]

(* It changes one peer, or none.                                           *)
ThreadTable(a) ==
    \/ UNCHANGED peers
    \/ \E i \in 0..Len(peers) : Withdrew(peers, peers', i)
    \/ \E i \in 1..Len(peers) : /\ peers[i].connection = a /\ ReadDecision(a)
                                /\ Put(peers, peers', i, Accepted(peers[i]))
    \/ \E i \in 1..Len(peers) : /\ peers[i].ski = conns[a].ski /\ HandleShipStateUpdate(a)
                                /\ Put(peers, peers', i, OnHandshakeComplete(peers[i]))
    \/ \E i \in 1..Len(peers), d \in Devices :
          /\ d.ski = conns[a].ski /\ peers[i].ski = d.ski
          /\ Put(peers, peers', i, [peers[i] EXCEPT !.ship_id = d.id])

(* That is what it does.                                                   *)
LEMMA ThreadPeers ==
    ASSUME TypeInv, NEW a \in Addrs, ConnectionThread(a)
    PROVE  ThreadTable(a)
<1>0. /\ peers \in Seq(Peer) /\ Len(peers) \in Nat /\ \A j \in 1..Len(peers) : peers[j] \in Peer
      /\ \A s : FindWithSki(peers, s) \in 0..Len(peers)
      /\ \A b : FindWithShipConnection(peers, b) \in 0..Len(peers)
  BY FindTyped DEF TypeInv
<1>1. ASSUME CloseConnection(a) PROVE ThreadTable(a)
  BY <1>1, CloseStep DEF ThreadTable
<1>2. CASE Hello(a) \/ PostConnectionClose(a) \/ SetupRemoteDevice(a)
  BY <1>2 DEF Hello, PostConnectionClose, SetupRemoteDevice, ThreadTable
<1>3. CASE ConnectionEnds(a)
  BY <1>1, <1>3 DEF ConnectionEnds
<1>4. CASE ReadDecision(a)
  <2> DEFINE m == Head(conns[a].box)
  <2>1. CASE CloseConnection(a)
    BY <1>1, <2>1
  <2>2. CASE UNCHANGED peers
    BY <2>2 DEF ThreadTable
  <2>3. CASE AcceptPendingTrust(a, m.id) /\ AcceptsPendingTrust(a, m.id) /\ m.id # 0
    <3> DEFINE i == FindWithShipConnection(peers, a)
               q == Accepted(peers[i])
    <3>1. i \in 0..Len(peers) /\ i # 0 /\ peers' = [peers EXCEPT ![i] = q]
      BY <1>0, <2>3 DEF AcceptPendingTrust, AcceptsPendingTrust, Accepted
    <3>2. i \in 1..Len(peers) /\ peers[i].connection = a
      <4>1. i = 0 \/ (i \in 1..Len(peers) /\ peers[i].connection = a)
        BY <1>0, HolderFields
      <4> HIDE DEF i
      <4> QED
        BY <3>1, <4>1
    <3>3. q \in Peer
      <4> HIDE DEF i
      <4>0. peers[i] \in Peer
        BY <1>0, <3>2
      <4>1. [peers[i] EXCEPT !.pending_approval_id = 0] \in Peer
        BY <4>0 DEF Peer
      <4>2. [[peers[i] EXCEPT !.pending_approval_id = 0] EXCEPT !.is_trusted = TRUE] \in Peer
        BY <4>1, FlagTyped
      <4>3. [[[peers[i] EXCEPT !.pending_approval_id = 0] EXCEPT !.is_trusted = TRUE] EXCEPT !.provisional = FALSE] \in Peer
        BY <4>2, FlagTyped
      <4> QED
        BY <4>3 DEF Accepted
    <3> HIDE DEF q, i
    <3>4. Put(peers, peers', i, q)
      BY <1>0, <3>1, <3>2, <3>3, EditPut
    <3> QED
      BY <1>4, <3>2, <3>4 DEF ThreadTable, q
  <2> QED
    BY <1>4, <2>1, <2>2, <2>3 DEF ReadDecision, AcceptPendingTrust
<1>5. CASE HandleShipStateUpdate(a)
  <2> DEFINE i == FindWithSki(peers, conns[a].ski)
  <2>1. CASE i = 0
    BY <1>5, <2>1 DEF HandleShipStateUpdate, ThreadTable
  <2>2. CASE i # 0
    <3>1. peers' = [peers EXCEPT ![i] = OnHandshakeComplete(peers[i])]
      BY <1>5, <2>2 DEF HandleShipStateUpdate
    <3>2. i \in 1..Len(peers) /\ peers[i] \in Peer /\ peers[i].ski = conns[a].ski
      BY <1>0, <2>2, SkiFields
    <3> HIDE DEF i
    <3>3. Put(peers, peers', i, OnHandshakeComplete(peers[i]))
      BY <1>0, <3>1, <3>2, CompleteTyped, EditPut
    <3> QED
      BY <1>5, <3>2, <3>3 DEF ThreadTable
  <2> QED
    BY <2>1, <2>2
<1>6. ASSUME NEW d \in Devices, ReportServiceShipId(a, d) PROVE ThreadTable(a)
  <2> DEFINE i == FindWithSki(peers, conns[a].ski)
             q == [peers[i] EXCEPT !.ship_id = d.id]
  <2>1. i # 0 /\ peers' = [peers EXCEPT ![i] = q] /\ d.ski = conns[a].ski
    BY <1>6 DEF ReportServiceShipId
  <2>2. i \in 1..Len(peers) /\ peers[i] \in Peer /\ peers[i].ski = conns[a].ski
    BY <1>0, <2>1, SkiFields
  <2> HIDE DEF i
  <2>3. q \in Peer
    BY <2>2 DEF Peer, Ids
  <2>4. Put(peers, peers', i, q)
    BY <1>0, <2>1, <2>2, <2>3, EditPut
  <2> QED
    BY <2>1, <2>2, <2>4 DEF ThreadTable
<1> QED
  BY <1>2, <1>3, <1>4, <1>5, <1>6 DEF ConnectionThread

(* and to its connection.                                                  *)
ThreadStage(a, c) ==
    \/ c.phase = conns[a].phase
    \/ conns[a].phase = "init" /\ c.phase = "pending"
    \/ /\ conns[a].phase = "init" /\ c.phase = "ready"
       /\ IsRemoteServiceForSkiPaired(conns[a].ski) /\ UNCHANGED peers
    \/ /\ conns[a].phase = "pending" /\ c.phase = "ready"
       /\ \E id \in Nat : AcceptsPendingTrust(a, id) /\ AcceptPendingTrust(a, id)
    \/ conns[a].phase = "ready" /\ c.phase = "approved" /\ UNCHANGED peers
    \/ conns[a].phase = "approved" /\ c.phase = "data" /\ HandleShipStateUpdate(a)

(* The thread of a connection changes no other.                            *)
LEMMA ThreadConn ==
    ASSUME TypeInv, NEW a \in Addrs, ConnectionThread(a)
    PROVE  \E c : /\ conns' = [conns EXCEPT ![a] = c]
                  /\ c.st \in {conns[a].st, "shut"} /\ c.ski = conns[a].ski /\ c.inc = conns[a].inc
                  /\ ThreadStage(a, c)
<1>0. conns \in [Addrs -> Connection] /\ conns[a] \in Connection
  BY DEF TypeInv
<1> DEFINE Good(c) == /\ conns' = [conns EXCEPT ![a] = c]
                      /\ c.st \in {conns[a].st, "shut"} /\ c.ski = conns[a].ski /\ c.inc = conns[a].inc
                      /\ ThreadStage(a, c)
<1> SUFFICES \E c : Good(c)
  OBVIOUS
<1>1. ASSUME CloseConnection(a) PROVE \E c : Good(c)
  <2> DEFINE c == [conns[a] EXCEPT !.st = "shut", !.box = <<>>, !.busy = IF cancel THEN "no" ELSE "post"]
  <2>1. conns' = [conns EXCEPT ![a] = c]
    BY <1>1, CloseStep
  <2>2. c.st = "shut" /\ c.ski = conns[a].ski /\ c.inc = conns[a].inc /\ c.phase = conns[a].phase
    BY <1>0 DEF Connection
  <2> HIDE DEF c
  <2> QED
    BY <2>1, <2>2 DEF ThreadStage
<1>2. ASSUME NEW ph, conns' = [conns EXCEPT ![a].phase = ph],
             \A c : c.phase = ph => ThreadStage(a, c)
      PROVE  \E c : Good(c)
  <2> DEFINE c == [conns[a] EXCEPT !.phase = ph]
  <2>1. conns' = [conns EXCEPT ![a] = c]
    BY <1>0, <1>2
  <2>2. c.st = conns[a].st /\ c.ski = conns[a].ski /\ c.inc = conns[a].inc /\ c.phase = ph
    BY <1>0 DEF Connection
  <2> HIDE DEF c
  <2> QED
    BY <1>2, <2>1, <2>2
<1>3. CASE Hello(a)
  BY <1>2, <1>3 DEF Hello, ThreadStage
<1>4. CASE SetupRemoteDevice(a)
  BY <1>2, <1>4 DEF SetupRemoteDevice, ThreadStage
<1>5. CASE HandleShipStateUpdate(a)
  <2>1. conns' = [conns EXCEPT ![a].phase = "data"] /\ conns[a].phase = "approved"
    BY <1>5 DEF HandleShipStateUpdate
  <2>2. \A c : c.phase = "data" => ThreadStage(a, c)
    BY <1>5, <2>1 DEF ThreadStage
  <2> QED
    BY <1>2, <2>1, <2>2
<1>6. CASE ConnectionEnds(a)
  BY <1>1, <1>6 DEF ConnectionEnds
<1>7. CASE PostConnectionClose(a)
  <2> DEFINE c == [conns[a] EXCEPT !.busy = "no"]
  <2>1. conns' = [conns EXCEPT ![a] = c]
    BY <1>0, <1>7 DEF PostConnectionClose
  <2>2. c.st = conns[a].st /\ c.ski = conns[a].ski /\ c.inc = conns[a].inc /\ c.phase = conns[a].phase
    BY <1>0 DEF Connection
  <2> HIDE DEF c
  <2> QED
    BY <2>1, <2>2 DEF ThreadStage
<1>8. CASE ReadDecision(a)
  <2> DEFINE m == Head(conns[a].box)
             d == [conns[a] EXCEPT !.box = Tail(@)]
             e == [conns[a] EXCEPT !.box = Tail(@), !.phase = "ready"]
  <2>0. m.id \in Nat
    <3>1. conns[a].box \in Seq(Decision) /\ conns[a].box # <<>>
      BY <1>0, <1>8 DEF Connection, ReadDecision
    <3>2. m \in Decision
      BY <3>1, HeadTailProperties
    <3> HIDE DEF m
    <3> QED
      BY <3>2 DEF Decision
  <2>1. \/ CloseConnection(a)
        \/ conns' = [conns EXCEPT ![a].box = Tail(@)]
        \/ /\ conns' = [[conns EXCEPT ![a].box = Tail(@)] EXCEPT ![a].phase = "ready"]
           /\ conns[a].phase = "pending"
           /\ AcceptsPendingTrust(a, m.id) /\ AcceptPendingTrust(a, m.id)
    BY <1>8 DEF ReadDecision
  <2>2. CASE conns' = [conns EXCEPT ![a].box = Tail(@)]
    <3>1. conns' = [conns EXCEPT ![a] = d]
      BY <1>0, <2>2
    <3>2. d.st = conns[a].st /\ d.ski = conns[a].ski /\ d.inc = conns[a].inc /\ d.phase = conns[a].phase
      BY <1>0 DEF Connection
    <3> HIDE DEF d
    <3> QED
      BY <3>1, <3>2 DEF ThreadStage
  <2>3. CASE /\ conns' = [[conns EXCEPT ![a].box = Tail(@)] EXCEPT ![a].phase = "ready"]
             /\ conns[a].phase = "pending"
             /\ AcceptsPendingTrust(a, m.id) /\ AcceptPendingTrust(a, m.id)
    <3>1. conns' = [conns EXCEPT ![a] = e]
      BY <1>0, <2>3
    <3>2. e.st = conns[a].st /\ e.ski = conns[a].ski /\ e.inc = conns[a].inc /\ e.phase = "ready"
      BY <1>0 DEF Connection
    <3> HIDE DEF e, m
    <3> QED
      BY <2>0, <2>3, <3>1, <3>2 DEF ThreadStage
  <2> QED
    BY <1>1, <2>1, <2>2, <2>3
<1>9. CASE \E d \in Devices : ReportServiceShipId(a, d)
  <2>1. conns' = [conns EXCEPT ![a] = conns[a]]
    BY <1>0, <1>9 DEF ReportServiceShipId
  <2> QED
    BY <2>1 DEF ThreadStage
<1> QED
  BY <1>3, <1>4, <1>5, <1>6, <1>7, <1>8, <1>9 DEF ConnectionThread

-----------------------------------------------------------------------------
(* Handshakes that are complete.                                           *)

(* A peer whose handshake is complete was so with the same connection, and *)
(* the connections that peers have stay in data exchange.                  *)
Carried(ps, qs) ==
    \A j \in 1..Len(qs) : qs[j].handshake_complete =>
        \E i \in 1..Len(ps) : ps[i].handshake_complete /\ ps[i].connection = qs[j].connection
(* The connections of peers stay in data exchange.                         *)
DataKept(ps, cs, ds) == \A a \in Addrs : Held(ps, a) /\ cs[a].phase = "data" => ds[a].phase = "data"

(* Then complete handshakes are those of present connections.              *)
LEMMA CompleteFollows ==
    ASSUME TypeInv, Complete, Carried(peers, peers'), DataKept(peers, conns, conns')
    PROVE  Complete'
<1>1. \A i \in 1..Len(peers) : peers[i].connection \in Addrs \cup {None}
  BY FindTyped DEF TypeInv, Peer
<1>2. ASSUME NEW j \in 1..Len(peers'), peers'[j].handshake_complete
      PROVE  peers'[j].connection # None /\ conns'[peers'[j].connection].phase = "data"
  <2>1. PICK i \in 1..Len(peers) : peers[i].handshake_complete /\ peers[i].connection = peers'[j].connection
    BY <1>2 DEF Carried
  <2>2. peers[i].connection \in Addrs /\ conns[peers[i].connection].phase = "data" /\ peers[i].connection # None
    BY <1>1, <2>1 DEF Complete
  <2>3. Held(peers, peers[i].connection)
    BY DEF Held
  <2> QED
    BY <2>1, <2>2, <2>3 DEF DataKept
<1> QED
  BY <1>2 DEF Complete

(* One peer is changed,                                                    *)
LEMMA PutCarried ==
    ASSUME NEW ps, NEW qs, NEW k, NEW q, Len(ps) \in Nat, Put(ps, qs, k, q),
           q.handshake_complete => k <= Len(ps) /\ ps[k].handshake_complete /\ q.connection = ps[k].connection
    PROVE  Carried(ps, qs)
BY DEF Put, Carried

(* or removed,                                                             *)
LEMMA CutCarried ==
    ASSUME NEW ps, NEW qs, NEW k, Len(ps) \in Nat, Cut(ps, qs, k)
    PROVE  Carried(ps, qs)
<1> SUFFICES ASSUME NEW j \in 1..Len(qs), qs[j].handshake_complete
             PROVE  \E i \in 1..Len(ps) : ps[i].handshake_complete /\ ps[i].connection = qs[j].connection
  BY DEF Carried
<1>1. k \in 1..Len(ps) /\ Len(qs) = Len(ps) - 1 /\ qs[j] = IF j < k THEN ps[j] ELSE ps[j + 1]
  BY DEF Cut
<1>2. j \in 1..Len(ps) /\ j + 1 \in 1..Len(ps)
  BY <1>1
<1> QED
  BY <1>1, <1>2

(* or loses its approval.                                                  *)
LEMMA WithdrewCarried ==
    ASSUME NEW ps \in Seq(Peer), NEW i \in 0..Len(ps), NEW qs, Withdrew(ps, qs, i)
    PROVE  Carried(ps, qs)
<1>1. CASE i = 0
  BY <1>1 DEF Withdrew, Carried
<1>2. CASE i # 0
  <2> DEFINE q == [ps[i] EXCEPT !.pending_approval_id = 0]
  <2>1. Len(ps) \in Nat /\ i \in 1..Len(ps) /\ ps[i] \in Peer
    BY <1>2, LenProperties, ElementOfSeq
  <2>2. q.handshake_complete = ps[i].handshake_complete /\ q.connection = ps[i].connection
    BY <2>1 DEF Peer
  <2>3. Put(ps, qs, i, q)
    BY <1>2 DEF Withdrew
  <2> HIDE DEF q
  <2> QED
    BY <2>1, <2>2, <2>3, PutCarried
<1> QED
  BY <1>1, <1>2

(* The connection of a peer whose handshake becomes complete is the one    *)
(* that is in data exchange now.                                           *)
LEMMA StateComplete ==
    ASSUME Core, Calm, loop.at # "exit", ClosedOnce, Complete, NEW a \in Addrs, HandleShipStateUpdate(a),
           NEW i \in 1..Len(peers), peers[i].ski = conns[a].ski,
           Put(peers, peers', i, OnHandshakeComplete(peers[i]))
    PROVE  Complete'
<1> DEFINE q == OnHandshakeComplete(peers[i])
           c == [conns[a] EXCEPT !.phase = "data"]
<1>0. /\ TypeInv /\ Len(peers) \in Nat /\ \A j \in 1..Len(peers) : peers[j] \in Peer
      /\ conns \in [Addrs -> Connection] /\ conns[a] \in Connection
  BY FindTyped DEF Core, TypeInv
<1>1. Runs(a) /\ conns' = [conns EXCEPT ![a] = c]
  BY <1>0 DEF HandleShipStateUpdate
<1>2. c.phase = "data"
  BY <1>0 DEF Connection
<1>3. q.connection = peers[i].connection
  BY <1>0 DEF OnHandshakeComplete, Peer
<1> HIDE DEF q, c
<1>4. Held(peers, a)
  <2>1. conns[a].st = "run"
    BY <1>1 DEF Runs
  <2> QED
    BY <2>1, CalmHeld DEF Accounted, ClosedOnce
<1>5. peers[i].connection = a
  <2>1. PICK j \in 1..Len(peers) : peers[j].connection = a
    BY <1>4 DEF Held
  <2>2. peers[j].ski # None /\ peers[j].ski = peers[i].ski
    BY <2>1, NodeAssumption DEF Core, Table
  <2>3. j = i
    BY <2>2 DEF Core, Table
  <2> QED
    BY <2>1, <2>3
<1>6. \A b \in Addrs : conns[b].phase = "data" => conns'[b].phase = "data"
  BY <1>0, <1>1, <1>2
<1>7. /\ Len(peers') = Len(peers)
      /\ \A j \in 1..Len(peers) : peers'[j] = IF j = i THEN q ELSE peers[j]
  BY DEF Put, q
<1>8. ASSUME NEW j \in 1..Len(peers'), peers'[j].handshake_complete
      PROVE  peers'[j].connection # None /\ conns'[peers'[j].connection].phase = "data"
  <2>1. CASE j = i
    <3>1. conns'[a].phase = "data" /\ a # None
      BY <1>0, <1>1, <1>2, NodeAssumption
    <3> QED
      BY <1>3, <1>5, <1>7, <2>1, <3>1
  <2>2. CASE j # i
    <3>1. peers'[j] = peers[j] /\ j \in 1..Len(peers) /\ peers[j].connection \in Addrs \cup {None}
      BY <1>0, <1>7, <2>2 DEF Peer
    <3>2. peers[j].connection \in Addrs /\ peers[j].connection # None /\ conns[peers[j].connection].phase = "data"
      BY <1>8, <3>1 DEF Complete
    <3> QED
      BY <1>6, <3>1, <3>2
  <2> QED
    BY <2>1, <2>2
<1> QED
  BY <1>8 DEF Complete

(* The thread of a connection,                                             *)
LEMMA ThreadComplete ==
    ASSUME Core, Calm, loop.at # "exit", ClosedOnce, Complete, NEW a \in Addrs, ConnectionThread(a)
    PROVE  Complete'
<1>0. /\ TypeInv /\ peers \in Seq(Peer) /\ Len(peers) \in Nat /\ \A j \in 1..Len(peers) : peers[j] \in Peer
      /\ conns \in [Addrs -> Connection] /\ conns[a] \in Connection
  BY FindTyped DEF Core, TypeInv
<1>1. DataKept(peers, conns, conns')
  <2>1. PICK c : conns' = [conns EXCEPT ![a] = c] /\ ThreadStage(a, c)
    BY <1>0, ThreadConn
  <2>2. conns[a].phase = "data" => c.phase = "data"
    BY <2>1 DEF ThreadStage
  <2> QED
    BY <1>0, <2>1, <2>2 DEF DataKept
<1>2. ASSUME Carried(peers, peers') PROVE Complete'
  BY <1>0, <1>1, <1>2, CompleteFollows
<1>3. CASE UNCHANGED peers
  BY <1>2, <1>3 DEF Carried
<1>4. CASE \E i \in 0..Len(peers) : Withdrew(peers, peers', i)
  BY <1>0, <1>2, <1>4, WithdrewCarried
<1>5. ASSUME NEW i \in 1..Len(peers), Put(peers, peers', i, Accepted(peers[i])) PROVE Complete'
  <2> DEFINE q == Accepted(peers[i])
  <2>1. q.handshake_complete = peers[i].handshake_complete /\ q.connection = peers[i].connection
    BY <1>0 DEF Accepted, Peer
  <2> HIDE DEF q
  <2> QED
    BY <1>0, <1>2, <1>5, <2>1, PutCarried DEF q
<1>6. ASSUME NEW i \in 1..Len(peers), NEW d \in Devices, Put(peers, peers', i, [peers[i] EXCEPT !.ship_id = d.id])
      PROVE  Complete'
  <2> DEFINE q == [peers[i] EXCEPT !.ship_id = d.id]
  <2>1. q.handshake_complete = peers[i].handshake_complete /\ q.connection = peers[i].connection
    BY <1>0 DEF Peer
  <2>2. Put(peers, peers', i, q)
    BY <1>6
  <2> HIDE DEF q
  <2> QED
    BY <1>0, <1>2, <2>1, <2>2, PutCarried
<1> QED
  BY <1>0, <1>3, <1>4, <1>5, <1>6, ThreadPeers, StateComplete DEF ThreadTable

(* A connection that is new takes a free place.                            *)
LEMMA DataFree ==
    ASSUME Core, \A a \in Addrs : conns'[a].phase = conns[a].phase \/ conns[a].st = "free"
    PROVE  DataKept(peers, conns, conns')
<1>1. \A a \in Addrs : Held(peers, a) => conns[a].st # "free"
  BY NodeAssumption DEF Core, Table, Held
<1> QED
  BY <1>1 DEF DataKept

(* A peer without an attempt has no complete handshake.                    *)
LEMMA IdleIncomplete ==
    ASSUME Core, Complete, NEW i \in 1..Len(peers), ~peers[i].is_attempt_running
    PROVE  peers[i].connection = None /\ ~peers[i].handshake_complete
BY DEF Core, Table, Complete

(* the websocket server,                                                   *)
LEMMA ServedComplete ==
    ASSUME Core, Complete, Served
    PROVE  Complete'
<1> DEFINE k == IF PeerOf(server) = 0 THEN Len(peers) + 1 ELSE PeerOf(server)
           p == AdmittedPeer(server)
<1>0. TypeInv /\ Len(peers) \in Nat /\ conns \in [Addrs -> Connection]
  BY FindTyped DEF Core, TypeInv
<1>1. PICK a \in Addrs, c \in Connection :
         /\ server \in Devices /\ Admitted(server) /\ conns[a].st = "free"
         /\ Put(peers, peers', k, ServerConnect(p, a))
         /\ conns' = [conns EXCEPT ![a] = c]
  BY DEF Served
<1>2. /\ k \in 1..(Len(peers) + 1) /\ p \in Peer /\ (k <= Len(peers) <=> PeerOf(server) # 0)
      /\ p.handshake_complete = Entry(peers, k, server.ski).handshake_complete
  BY <1>0, <1>1, AdmittedFields
<1>3. ~p.handshake_complete
  <2>1. CASE k <= Len(peers)
    <3>1. k \in 1..Len(peers) /\ k = PeerOf(server) /\ PeerOf(server) # 0
      BY <1>0, <1>2, <2>1
    <3>2. ~peers[k].is_attempt_running
      BY <1>1, <3>1 DEF Admitted
    <3> HIDE DEF k
    <3> QED
      BY <1>2, <2>1, <3>1, <3>2, IdleIncomplete DEF Entry
  <2>2. CASE ~(k <= Len(peers))
    <3>1. ~NodeConnection(server.ski).handshake_complete
      BY DEF NodeConnection
    <3> HIDE DEF k
    <3> QED
      BY <1>2, <2>2, <3>1 DEF Entry
  <2> QED
    BY <2>1, <2>2
<1>4. ~ServerConnect(p, a).handshake_complete
  BY <1>2, <1>3 DEF ServerConnect, Peer
<1> HIDE DEF k, p
<1>5. Carried(peers, peers')
  BY <1>0, <1>1, <1>4, PutCarried
<1>6. DataKept(peers, conns, conns')
  BY <1>0, <1>1, DataFree
<1> QED
  BY <1>0, <1>5, <1>6, CompleteFollows

(* a dial,                                                                 *)
LEMMA DialComplete ==
    ASSUME Core, Complete, Dial
    PROVE  Complete'
<1>0. TypeInv /\ Len(peers) \in Nat /\ Table(peers, conns)
  BY FindTyped DEF Core, TypeInv
<1>1. PICK z \in Allocations :
         /\ Len(peers') = Len(peers)
         /\ \A j \in 1..Len(peers) :
               \/ peers'[j] = peers[j]
               \/ Unreached(peers[j], peers'[j]) /\ MayFail
               \/ Reached(peers[j], peers'[j], z[j], conns'[z[j]])
         /\ \A b \in Addrs : conns'[b] = conns[b] \/ (conns[b].st = "free" /\ Held(peers', b))
  BY <1>0, DialPeers
<1>2. \A j \in 1..Len(peers) : ~peers[j].is_attempt_running => ~peers[j].handshake_complete
  BY IdleIncomplete
<1>3. \A j \in 1..Len(peers) : peers'[j].handshake_complete => peers'[j] = peers[j]
  BY <1>1, <1>2 DEF Unreached, Reached
<1>4. Carried(peers, peers')
  BY <1>1, <1>3 DEF Carried
<1>5. DataKept(peers, conns, conns')
  BY <1>1, DataFree
<1> QED
  BY <1>0, <1>4, <1>5, CompleteFollows

(* the threads around the loop,                                            *)
LEMMA AroundComplete ==
    ASSUME Core, Calm, Requested, loop.at # "exit", ClosedOnce, Complete, config' = config, Around
    PROVE  Complete'
<1>0. /\ TypeInv /\ peers \in Seq(Peer) /\ Len(peers) \in Nat /\ \A j \in 1..Len(peers) : peers[j] \in Peer
      /\ "pairing" \notin Calls /\ "fingerprint" \notin Calls
  BY FindTyped DEF Core, TypeInv, Calm
<1>1. ASSUME UNCHANGED conns, Carried(peers, peers') PROVE Complete'
  BY <1>0, <1>1, CompleteFollows DEF DataKept
<1>2. ASSUME UNCHANGED conns, NEW k, NEW q, Put(peers, peers', k, q),
             q.handshake_complete => /\ k <= Len(peers) /\ peers[k].handshake_complete
                                     /\ q.connection = peers[k].connection
      PROVE  Complete'
  BY <1>0, <1>1, <1>2, PutCarried
<1>3. ASSUME UNCHANGED <<peers, conns>> PROVE Complete'
  BY <1>1, <1>3 DEF Carried
<1>4. ASSUME NEW s \in Skis, NEW b \in BOOLEAN,
             RegisterRemoteSki(s, b) \/ UnregisterRemoteSki(s) \/ CancelPairingWithSki(s)
      PROVE  Complete'
  <2>1. UNCHANGED conns
    BY <1>4 DEF RegisterRemoteSki, UnregisterRemoteSki, CancelPairingWithSki
  <2>2. PICK i \in 0..Len(peers) : peers' = Withdraw(peers, i)
    BY <1>0, <1>4, TypeWithdraw
  <2>3. Carried(peers, peers')
    BY <1>0, <2>2, WithdrawFields, WithdrewCarried
  <2> QED
    BY <1>1, <2>1, <2>3
<1>5. ASSUME NEW s \in Skis, ApprovePendingHandshakeWithSki(s) PROVE Complete'
  <2>1. UNCHANGED conns
    BY <1>5 DEF ApprovePendingHandshakeWithSki
  <2>2. PICK i \in 1..Len(peers) :
            Put(peers, peers', i, [peers[i] EXCEPT !.pending_approval_id = next_approval_id + 1])
    BY <1>0, <1>5, TypeApprove
  <2> DEFINE q == [peers[i] EXCEPT !.pending_approval_id = next_approval_id + 1]
  <2>3. q.handshake_complete = peers[i].handshake_complete /\ q.connection = peers[i].connection
    BY <1>0 DEF Peer
  <2>4. Put(peers, peers', i, q)
    BY <2>2
  <2> HIDE DEF q
  <2> QED
    BY <1>0, <1>2, <2>1, <2>3, <2>4
<1>6. ASSUME NEW d \in Devices, RegisterRemoteFingerprintWithShipId(d) PROVE Complete'
  <2>1. RegisterPeerTrust("app", d, FALSE) /\ UNCHANGED conns
    BY <1>6 DEF RegisterRemoteFingerprintWithShipId
  <2>2. Trusting("app", d, FALSE)
    BY <1>0, <2>1, TrustStep DEF Threads
  <2>3. PICK k \in 1..(Len(peers) + 1) :
           /\ Put(peers, peers', k, Registered(Entry(peers, k, None), d, FALSE))
           /\ Entry(peers, k, None) \in Peer
    BY <2>2 DEF Trusting
  <2> DEFINE p == Entry(peers, k, None)
             q == Registered(p, d, FALSE)
  <2>4. q.handshake_complete = p.handshake_complete /\ q.connection = p.connection
    BY <2>3 DEF Registered, Peer
  <2>5. p.handshake_complete => k <= Len(peers) /\ p = peers[k]
    BY DEF Entry, NodeConnection
  <2>6. Put(peers, peers', k, q)
    BY <2>3
  <2> HIDE DEF q, p
  <2> QED
    BY <1>2, <2>1, <2>4, <2>5, <2>6
<1>7. ASSUME \/ \E found : OnMdnsEntriesFound(found)
             \/ \E d : ServerAccept(d)
             \/ \E t : Send(t)
      PROVE  Complete'
  BY <1>3, <1>7 DEF OnMdnsEntriesFound, ServerAccept, Send
<1>8. ASSUME OnWebsocketServerConnection PROVE Complete'
  BY <1>0, <1>3, <1>8, TypeServer, ServedComplete
<1>9. ASSUME NEW i \in DOMAIN peers, RetryTimer(i) PROVE Complete'
  <2>1. i \in 1..Len(peers) /\ peers[i] \in Peer
    BY <1>0
  <2>2. UNCHANGED conns
    BY <1>9 DEF RetryTimer, RetryTimerFires, RetryTimerPosts
  <2>3. PICK q : /\ peers' = [peers EXCEPT ![i] = q]
                 /\ q.handshake_complete = peers[i].handshake_complete /\ q.connection = peers[i].connection
    <3>1. CASE RetryTimerFires(i)
      <4> DEFINE q == [peers[i] EXCEPT !.retry = "expired", !.due = IF cancel THEN None ELSE peers[i].ski]
      <4>1. peers' = [peers EXCEPT ![i] = q]
        BY <1>0, <2>1, <3>1 DEF RetryTimerFires
      <4>2. q.handshake_complete = peers[i].handshake_complete /\ q.connection = peers[i].connection
        BY <2>1 DEF Peer
      <4> HIDE DEF q
      <4> QED
        BY <4>1, <4>2
    <3>2. CASE RetryTimerPosts(i)
      <4> DEFINE q == [peers[i] EXCEPT !.due = None]
      <4>1. peers' = [peers EXCEPT ![i] = q]
        BY <1>0, <2>1, <3>2 DEF RetryTimerPosts
      <4>2. q.handshake_complete = peers[i].handshake_complete /\ q.connection = peers[i].connection
        BY <2>1 DEF Peer
      <4> HIDE DEF q
      <4> QED
        BY <4>1, <4>2
    <3> QED
      BY <1>9, <3>1, <3>2 DEF RetryTimer
  <2>4. Len(peers') = Len(peers) /\ \A j \in 1..Len(peers) : peers'[j] = IF j = i THEN q ELSE peers[j]
    BY <1>0, <2>1, <2>3
  <2>5. Carried(peers, peers')
    BY <2>3, <2>4 DEF Carried
  <2> QED
    BY <1>1, <2>2, <2>5
<1>10. CASE Application
  <2>1. \A f : ~RegisterFingerprint(f)
    BY <1>0 DEF RegisterFingerprint, Call
  <2> QED
    BY <1>4, <1>5, <1>6, <1>10, <2>1 DEF Application
<1>11. CASE Browser
  <2>1. ~PairingRegistersPeer /\ \A d : ~PairingRequestAccepted(d)
    BY <1>0 DEF PairingRegistersPeer, Requested, PairingRequestAccepted
  <2> QED
    BY <1>7, <1>11, <2>1 DEF Browser
<1>12. CASE Server
  BY <1>7, <1>8, <1>12 DEF Server
<1> QED
  BY <1>7, <1>9, <1>10, <1>11, <1>12, ThreadComplete DEF Around

(* and the loop keep complete handshakes present.                          *)
LEMMA LoopComplete ==
    ASSUME Core, Calm, Complete, LoopHandles
    PROVE  Complete'
<1>0. /\ TypeInv /\ Table(peers, conns) /\ Threading(peers, conns, loop, stop) /\ LoopInv
      /\ peers \in Seq(Peer) /\ Len(peers) \in Nat /\ \A j \in 1..Len(peers) : peers[j] \in Peer
      /\ \A s : FindWithSki(peers, s) \in 0..Len(peers)
      /\ loop \in Loops /\ conns \in [Addrs -> Connection]
  BY FindTyped DEF Core, TypeInv
<1>1. ASSUME Carried(peers, peers'), \A a \in Addrs : conns'[a].phase = conns[a].phase PROVE Complete'
  BY <1>0, <1>1, CompleteFollows DEF DataKept
<1>2. ASSUME UNCHANGED conns, NEW k, NEW q, Put(peers, peers', k, q),
             q.handshake_complete => /\ k <= Len(peers) /\ peers[k].handshake_complete
                                     /\ q.connection = peers[k].connection
      PROVE  Complete'
  BY <1>0, <1>1, <1>2, PutCarried
<1>3. ASSUME UNCHANGED <<peers, conns>> PROVE Complete'
  BY <1>1, <1>3 DEF Carried
<1>4. CASE \/ LoopChecksCancel \/ LoopReceives \/ LoopIgnores \/ LoopPosts \/ ShipNodeApprovePendingHandshake
           \/ ShipNodePromoteFingerprint
  BY <1>3, <1>4 DEF LoopChecksCancel, LoopReceives, LoopIgnores, LoopPosts, ShipNodeApprovePendingHandshake,
      ShipNodePromoteFingerprint
<1>5. CASE CloseShipConnection
  <2> DEFINE i == FindWithShipConnection(peers, loop.msg.sc)
             q == OnConnectionClosed(peers[i])
  <2>1. UNCHANGED conns
    BY <1>5 DEF CloseShipConnection
  <2>2. CASE UNCHANGED peers
    BY <1>3, <2>1, <2>2
  <2>3. CASE Closed(i)
    <3>1. /\ i \in 1..Len(peers) /\ peers[i] \in Peer
          /\ \/ Cut(peers, peers', i) \/ Put(peers, peers', i, q) \/ Put(peers, peers', i, ScheduleRetry(q))
      BY <2>3 DEF Closed
    <3> HIDE DEF i
    <3>2. q \in Peer /\ ~q.handshake_complete /\ ScheduleRetry(q) = [q EXCEPT !.retry = "armed"]
      BY <3>1, ClosedFields
    <3> HIDE DEF q
    <3>3. ~ScheduleRetry(q).handshake_complete
      BY <3>2 DEF Peer
    <3>4. CASE Cut(peers, peers', i)
      BY <1>0, <1>1, <2>1, <3>4, CutCarried
    <3>5. CASE Put(peers, peers', i, q)
      BY <1>2, <2>1, <3>2, <3>5
    <3>6. CASE Put(peers, peers', i, ScheduleRetry(q))
      BY <1>2, <2>1, <3>3, <3>6
    <3> QED
      BY <3>1, <3>4, <3>5, <3>6
  <2> QED
    BY <1>0, <1>5, <2>2, <2>3, ClosedStep
<1>6. CASE LoopJoins
  <2>1. CASE UNCHANGED <<peers, conns>>
    BY <1>3, <2>1
  <2>2. CASE /\ loop.sc \in Addrs
             /\ Withdrew(peers, peers', FindWithShipConnection(peers, loop.sc))
             /\ conns' = [conns EXCEPT ![loop.sc] = [conns[loop.sc] EXCEPT !.st = "shut", !.box = <<>>]]
    <3> DEFINE a == loop.sc
               c == [conns[a] EXCEPT !.st = "shut", !.box = <<>>]
    <3>1. c.phase = conns[a].phase /\ conns' = [conns EXCEPT ![a] = c]
      BY <1>0, <2>2 DEF Connection
    <3>2. Carried(peers, peers')
      BY <1>0, <2>2, WithdrewCarried, FindTyped
    <3> HIDE DEF c
    <3>3. \A b \in Addrs : conns'[b].phase = conns[b].phase
      BY <1>0, <3>1
    <3> QED
      BY <1>1, <3>2, <3>3
  <2> QED
    BY <1>0, <1>6, <2>1, <2>2, JoinStep
<1>7. CASE LoopDeletes
  <2>1. UNCHANGED peers /\ conns' = [conns EXCEPT ![loop.sc] = Free] /\ loop.at = "stopped"
    BY <1>7 DEF LoopDeletes, Disconnected
  <2>2. ~Held(peers, loop.sc)
    BY <1>0, <2>1 DEF Threading, Reaping, Taking
  <2>3. \A a \in Addrs : a # loop.sc => conns'[a] = conns[a]
    BY <1>0, <2>1
  <2>4. DataKept(peers, conns, conns') /\ Carried(peers, peers')
    BY <2>1, <2>2, <2>3 DEF DataKept, Carried
  <2> QED
    BY <1>0, <2>4, CompleteFollows
<1>8. CASE ShipNodeRegisterSki
  <2>1. UNCHANGED conns
    BY <1>8 DEF ShipNodeRegisterSki
  <2>2. PICK k \in 1..(Len(peers) + 1) :
           /\ Entry(peers, k, loop.msg.ski) \in Peer
           /\ Put(peers, peers', k, Enrolled(Entry(peers, k, loop.msg.ski), loop.msg.trust))
    BY <1>0, <1>8, EnrolStep
  <2> DEFINE p == Entry(peers, k, loop.msg.ski)
             q == Enrolled(p, loop.msg.trust)
  <2>3. q.handshake_complete = p.handshake_complete /\ q.connection = p.connection
    BY <2>2 DEF Enrolled, Peer
  <2>4. p.handshake_complete => k <= Len(peers) /\ p = peers[k]
    BY DEF Entry, NodeConnection
  <2>5. Put(peers, peers', k, q)
    BY <2>2
  <2> HIDE DEF q, p
  <2> QED
    BY <1>2, <2>1, <2>3, <2>4, <2>5
<1>9. CASE ShipNodeCancelPairingSki
  <2> DEFINE i == FindWithSki(peers, loop.msg.ski)
  <2>1. UNCHANGED conns /\ peers' = Withdraw(peers, i) /\ i \in 0..Len(peers)
    BY <1>0, <1>9 DEF ShipNodeCancelPairingSki
  <2>2. Carried(peers, peers')
    BY <1>0, <2>1, WithdrawFields, WithdrewCarried
  <2> QED
    BY <1>1, <2>1, <2>2
<1>10. ASSUME NEW a \in Addrs, NEW g \in BOOLEAN, NEW id \in Nat, PostDecision(a, g, id)
       PROVE  \A b \in Addrs : conns'[b].phase = conns[b].phase
  <2> DEFINE c == [conns[a] EXCEPT !.box = Append(@, [granted |-> g, id |-> id])]
  <2>1. conns' = conns \/ conns' = [conns EXCEPT ![a] = c]
    BY <1>0, <1>10, DecisionTyped
  <2>2. c.phase = conns[a].phase
    BY <1>0 DEF Connection
  <2> HIDE DEF c
  <2> QED
    BY <1>0, <2>1, <2>2
<1>11. CASE LoopAborts \/ LoopApproves
  <2>1. UNCHANGED peers /\ loop.sc \in Addrs /\ \E g \in BOOLEAN, id \in Nat : PostDecision(loop.sc, g, id)
    BY <1>0, <1>11 DEF LoopAborts, LoopApproves, Loops, Message, Threading
  <2> QED
    BY <1>1, <1>10, <2>1 DEF Carried
<1>12. CASE LoopPromotes
  <2>1. CASE UNCHANGED <<peers, conns>>
    BY <1>3, <2>1
  <2>2. CASE /\ loop.i \in 1..Len(peers) /\ peers[loop.i] \in Peer
             /\ peers[loop.i].connection \in Addrs
             /\ Put(peers, peers', loop.i, Promoted(peers[loop.i], remote_fingerprint))
             /\ PostDecision(peers[loop.i].connection, TRUE, 0)
    <3> DEFINE k == loop.i
               q == Promoted(peers[k], remote_fingerprint)
    <3>1. q.handshake_complete = peers[k].handshake_complete /\ q.connection = peers[k].connection
      BY <2>2 DEF Promoted, Peer
    <3>2. Put(peers, peers', k, q) /\ k \in 1..Len(peers)
      BY <2>2
    <3>3. \A b \in Addrs : conns'[b].phase = conns[b].phase
      BY <1>10, <2>2
    <3> HIDE DEF q, k
    <3> QED
      BY <1>0, <1>1, <3>1, <3>2, <3>3, PutCarried
  <2> QED
    BY <1>0, <1>12, <2>1, <2>2, PromoteStep
<1>13. CASE \/ ShipNodeUnregisterSki \/ LoopRemoves \/ ShipNodeRevokePairingFingerprint \/ LoopRevokes
  BY <1>13, CalmMessages DEF ShipNodeUnregisterSki, LoopRemoves, ShipNodeRevokePairingFingerprint, LoopRevokes, Handles
<1> QED
  BY <1>4, <1>5, <1>6, <1>7, <1>8, <1>9, <1>11, <1>12, <1>13 DEF LoopHandles

(* Closes and handshakes after a step.                                     *)
LEMMA CompleteStep ==
    ASSUME Core, Core', Requested, CompleteInv, [Next /\ UNCHANGED config]_<<vars, config>>
    PROVE  CompleteInv'
<1>1. config' = config /\ Calls' = Calls
  BY DEF Calls
<1> SUFFICES ASSUME Calm, loop'.at # "exit"
             PROVE  ClosedOnce' /\ Complete'
  BY <1>1 DEF CompleteInv, Calm
<1>2. loop.at # "exit"
  <2>1. CASE loop.at = "exit"
    <3>1. loop' = loop
      BY <2>1 DEF Next, vars, Application, Browser, Server, ConnectionLoop, StopCaller, ConnectionThread, RetryTimer,
          RegisterRemoteSki, UnregisterRemoteSki, CancelPairingWithSki, ApprovePendingHandshakeWithSki,
          RegisterFingerprint, RegisterRemoteFingerprintWithShipId, OnMdnsEntriesFound, PairingRequestAccepted,
          PairingRegistersPeer, ServerAccept, OnWebsocketServerConnection, Hello, ConnectionEnds, PostConnectionClose,
          ReadDecision, SetupRemoteDevice, HandleShipStateUpdate, ReportServiceShipId, RetryTimerFires,
          RetryTimerPosts, Send, LoopChecksCancel, LoopReceives, LoopIgnores, HandleMdnsEntriesFound, LoopDials,
          CloseShipConnection, LoopJoins, LoopPosts, LoopDeletes, ShipNodeUnregisterSki, ShipNodeRegisterSki,
          ShipNodeCancelPairingSki, LoopAborts, LoopRemoves, ShipNodeApprovePendingHandshake, LoopApproves,
          ShipNodePromoteFingerprint, LoopPromotes, ShipNodeRevokePairingFingerprint, LoopRevokes, Handles,
          StopBegins, StopSends, StopJoinsLoop, StopReleases, StopDeletes, StopLeavesLoop, StopEnds
    <3> QED
      BY <2>1, <3>1
  <2> QED
    BY <2>1
<1>3. ClosedOnce /\ Complete /\ Calm'
  BY <1>1, <1>2 DEF CompleteInv, Calm
<1>4. CASE UNCHANGED <<vars, config>>
  BY <1>3, <1>4 DEF vars, ClosedOnce, Closes, Closing, Reaping, Complete
<1>5. CASE Around
  BY <1>1, <1>2, <1>3, <1>5, AroundClosed, AroundComplete
<1>6. CASE LoopHandles
  BY <1>2, <1>3, <1>6, LoopClosed, LoopComplete
<1>7. CASE Dial
  BY <1>2, <1>3, <1>7, DialClosed, DialComplete
<1>8. CASE StopCaller
  <2>1. ClosedOnce'
    BY <1>2, <1>3, <1>8, StopClosed
  <2>2. UNCHANGED <<peers, conns>>
    BY <1>2, <1>8, StopQuiet
  <2> QED
    BY <1>3, <2>1, <2>2 DEF Complete
<1> QED
  BY <1>4, <1>5, <1>6, <1>7, <1>8, StepKinds

(* A decision goes to a connection that has not been deleted, and a        *)
(* handshake that is marked as complete is that of the present connection: *)
(* ConnectionIsCurrent of the node.                                        *)
THEOREM NodeConnectionIsCurrent == Spec => []ConnectionIsCurrent
<1>1. Init => Requested /\ CompleteInv
  <2> SUFFICES ASSUME Init PROVE Requested /\ ClosedOnce /\ Complete
    BY DEF CompleteInv
  <2>1. peers = <<>> /\ queue = <<>> /\ loop = LoopIdle /\ pairing = None
    BY DEF Init
  <2>2. Len(peers) = 0 /\ Len(queue) = 0 /\ loop.at = "idle"
    BY <2>1 DEF LoopIdle
  <2>3. \A t \in Threads : Len(out[t]) = 0
    BY DEF Init
  <2>4. \A a \in Addrs : conns[a].busy = "no"
    BY DEF Init, Free
  <2> QED
    BY <2>1, <2>2, <2>3, <2>4 DEF Requested, ClosedOnce, Complete, Reaping
<1>2. /\ Core /\ Core' /\ Requested /\ CompleteInv /\ [Next /\ UNCHANGED config]_<<vars, config>>
        => CompleteInv' /\ Requested'
  BY CompleteStep, RequestedStep
<1>3. Core /\ CompleteInv => ConnectionIsCurrent
  <2> SUFFICES ASSUME Core, CompleteInv PROVE ConnectionIsCurrent
    OBVIOUS
  <2>1. DecisionReachesLive
    BY DEF Core, Threading, DecisionReachesLive
  <2>2. ASSUME Calls \cap {"unregister", "pairing", "fingerprint"} = {} PROVE CompleteIsCurrent
    <3>1. DOMAIN peers = 1..Len(peers)
      BY DEF Core, TypeInv
    <3>2. ~cancel => loop.at # "exit"
      BY DEF Core, Threading
    <3> QED
      BY <2>2, <3>1, <3>2 DEF CompleteInv, Complete, CompleteIsCurrent
  <2> QED
    BY <2>1, <2>2 DEF ConnectionIsCurrent
<1> QED
  BY <1>1, <1>2, <1>3, CoreHolds, PTL DEF Spec

-----------------------------------------------------------------------------
(* Pairing requests that replace each other.                               *)

(* A revocation that is to reach peer i: its message is on its way, or the *)
(* loop looks at the peers up to i.                                        *)
Revoking(i, fp) ==
    /\ fp # None
    /\ \/ \E k \in 1..Len(queue) : Revokes(queue[k], fp)
       \/ \E t \in Threads : \E k \in 1..Len(out[t]) : Revokes(out[t][k], fp)
       \/ /\ Revokes(loop.msg, fp)
          /\ loop.at = "handle" \/ (loop.at \in {"revoke", "stop", "post", "stopped"} /\ loop.i <= i)

(* A connection past the hello phase of a peer that is not trusted.        *)
Exposed(p, cs) ==
    /\ ~p.is_trusted /\ p.connection # None
    /\ cs[p.connection].st = "run" /\ cs[p.connection].phase \in {"ready", "approved", "data"}

(* A peer whose revocation is on its way.                                  *)
Doomed(i) ==
    peers[i].trusted_by_pairing /\ Revoking(i, peers[i].expected_fingerprint)

(* The calls with which there is one current pairing.                      *)
OnePairing == "peer" \notin Calls /\ ~({"pairing", "fingerprint"} \subseteq Calls)

(* A provisional peer is not trusted and has a connection, a peer that is  *)
(* not trusted is not past the hello phase, and one that was paired was so *)
(* by the current request: otherwise it is about to be revoked.            *)
Judged(i) ==
    /\ peers[i].provisional =>
          ~peers[i].is_trusted /\ (loop.at = "exit" \/ peers[i].connection # None \/ Doomed(i))
    /\ "distrust" \notin Calls /\ Exposed(peers[i], conns) => Doomed(i)
    /\ OnePairing /\ peers[i].trusted_by_pairing =>
          /\ peers[i].expected_fingerprint # None
          /\ peers[i].expected_fingerprint = remote_fingerprint \/ Doomed(i)

(* The request that is being accepted is the current one.                  *)
Requesting == pairing # None /\ "fingerprint" \notin Calls => pairing.fp = remote_fingerprint

(* The pairings, of the state.                                             *)
PairingInv == Requested /\ Requesting /\ \A i \in 1..Len(peers) : Judged(i)

(* No message is lost: it stays where it is or is sent.                    *)
MessagesKept ==
    /\ \A k \in 1..Len(queue) : \E n \in 1..Len(queue') : queue'[n] = queue[k]
    /\ \A t \in Threads : \A k \in 1..Len(out[t]) :
          \/ \E n \in 1..Len(out'[t]) : out'[t][n] = out[t][k]
          \/ \E n \in 1..Len(queue') : queue'[n] = out[t][k]

(* Nothing is sent, or one message more,                                   *)
LEMMA SentKept ==
    ASSUME TypeInv, UNCHANGED <<queue, out>> \/ \E m : queue' = Append(queue, m) /\ UNCHANGED out
    PROVE  MessagesKept
<1>0. queue \in Seq(Allowed) /\ Len(queue) \in Nat
  BY LenProperties DEF TypeInv
<1>1. CASE UNCHANGED <<queue, out>>
  BY <1>1 DEF MessagesKept
<1>2. ASSUME NEW m, queue' = Append(queue, m), UNCHANGED out PROVE MessagesKept
  <2>1. \A k \in 1..Len(queue) : k \in 1..Len(queue') /\ queue'[k] = queue[k]
    BY <1>0, <1>2
  <2> QED
    BY <1>2, <2>1 DEF MessagesKept
<1> QED
  BY <1>1, <1>2

(* a thread is about to send some,                                         *)
LEMMA PostKept ==
    ASSUME TypeInv, NEW t \in Threads, NEW ms, Idle(t), Post(t, ms), UNCHANGED queue
    PROVE  MessagesKept
<1>1. out \in [Threads -> Seq(Allowed)] /\ Len(out[t]) = 0 /\ out' = [out EXCEPT ![t] = ms]
  BY DEF TypeInv, Idle, Post
<1>2. \A x \in Threads : x # t => out'[x] = out[x]
  BY <1>1
<1>3. ASSUME NEW x \in Threads, NEW k \in 1..Len(out[x])
      PROVE  \E n \in 1..Len(out'[x]) : out'[x][n] = out[x][k]
  <2>1. x # t
    BY <1>1, <1>3
  <2> QED
    BY <1>2, <2>1
<1> QED
  BY <1>3 DEF MessagesKept

(* it sends the next,                                                      *)
LEMMA SendKept ==
    ASSUME TypeInv, NEW t \in Threads, Send(t)
    PROVE  MessagesKept
<1> DEFINE s == out[t]
<1>0. /\ out \in [Threads -> Seq(Allowed)] /\ s \in Seq(Allowed) /\ s # <<>>
      /\ queue \in Seq(Allowed) /\ Len(queue) \in Nat
  BY LenProperties DEF TypeInv, Send, Idle
<1>1. Len(s) \in Nat /\ Len(s) >= 1 /\ Head(s) = s[1]
  BY <1>0, LenProperties, HeadTailProperties, EmptySeq
<1>2. /\ Len(Tail(s)) = Len(s) - 1
      /\ \A j \in 1..Len(Tail(s)) : Tail(s)[j] = s[j + 1]
  BY <1>0, <1>1, HeadTailProperties
<1>3. queue' = Append(queue, s[1]) /\ out' = [out EXCEPT ![t] = Tail(s)]
  BY <1>1 DEF Send
<1>4. /\ Len(queue') = Len(queue) + 1 /\ queue'[Len(queue) + 1] = s[1]
      /\ \A k \in 1..Len(queue) : k \in 1..Len(queue') /\ queue'[k] = queue[k]
  BY <1>0, <1>3
<1>5. out'[t] = Tail(s) /\ \A x \in Threads : x # t => out'[x] = out[x]
  BY <1>0, <1>3
<1>6. ASSUME NEW k \in 1..Len(s)
      PROVE  \/ \E n \in 1..Len(Tail(s)) : Tail(s)[n] = s[k]
             \/ \E n \in 1..Len(queue') : queue'[n] = s[k]
  <2>1. CASE k = 1
    <3>1. Len(queue) + 1 \in 1..Len(queue') /\ queue'[Len(queue) + 1] = s[k]
      BY <1>0, <1>4, <2>1
    <3> QED
      BY <3>1
  <2>2. CASE k # 1
    <3>1. k - 1 \in 1..Len(Tail(s)) /\ Tail(s)[k - 1] = s[(k - 1) + 1] /\ (k - 1) + 1 = k
      BY <1>1, <1>2, <2>2
    <3> QED
      BY <3>1
  <2> QED
    BY <2>1, <2>2
<1>7. ASSUME NEW x \in Threads, NEW k \in 1..Len(out[x])
      PROVE  \/ \E n \in 1..Len(out'[x]) : out'[x][n] = out[x][k]
             \/ \E n \in 1..Len(queue') : queue'[n] = out[x][k]
  <2>1. CASE x = t
    BY <1>5, <1>6, <2>1
  <2>2. CASE x # t
    BY <1>5, <2>2
  <2> QED
    BY <2>1, <2>2
<1> HIDE DEF s
<1> QED
  BY <1>4, <1>7 DEF MessagesKept

(* and so no thread around the loop loses one.                             *)
LEMMA AroundMessages ==
    ASSUME TypeInv, Around
    PROVE  MessagesKept
<1>1. CASE Application
  <2>1. UNCHANGED queue /\ Idle("app") /\ \E ms : Post("app", ms)
    <3>1. ASSUME NEW x \in Skis, NEW b \in BOOLEAN,
                 \/ RegisterRemoteSki(x, b) \/ UnregisterRemoteSki(x) \/ CancelPairingWithSki(x)
                 \/ ApprovePendingHandshakeWithSki(x)
          PROVE  UNCHANGED queue /\ Idle("app") /\ \E ms : Post("app", ms)
      BY <3>1 DEF Call, RegisterRemoteSki, UnregisterRemoteSki, CancelPairingWithSki,
          ApprovePendingHandshakeWithSki
    <3>2. ASSUME NEW fp \in Fps \cup {None}, RegisterFingerprint(fp)
          PROVE  UNCHANGED queue /\ Idle("app") /\ \E ms : Post("app", ms)
      BY <3>2 DEF Call, RegisterFingerprint, RegisterRemoteFingerprint
    <3>3. ASSUME NEW d \in Devices, RegisterRemoteFingerprintWithShipId(d)
          PROVE  UNCHANGED queue /\ Idle("app") /\ \E ms : Post("app", ms)
      BY <3>3 DEF Call, RegisterRemoteFingerprintWithShipId, RegisterPeerTrust
    <3> QED
      BY <1>1, <3>1, <3>2, <3>3 DEF Application
  <2> QED
    BY <2>1, PostKept DEF Threads
<1>2. CASE Browser
  <2>1. UNCHANGED queue /\ \E t \in Threads : \E ms : Idle(t) /\ Post(t, ms)
    BY <1>2 DEF Browser, OnMdnsEntriesFound, PairingRequestAccepted, PairingRegistersPeer,
        RegisterRemoteFingerprint, RegisterPeerTrust, Threads
  <2> QED
    BY <2>1, PostKept
<1>3. CASE Server
  BY <1>3, SentKept DEF Server, ServerAccept, OnWebsocketServerConnection
<1>4. CASE \E t \in Threads : Send(t)
  BY <1>4, SendKept
<1>5. CASE \E a \in Addrs : ConnectionThread(a)
  <2>1. UNCHANGED <<queue, out>> \/ \E m : queue' = Append(queue, m) /\ UNCHANGED out
    BY <1>5 DEF ConnectionThread, Hello, ConnectionEnds, PostConnectionClose, ReadDecision,
        SetupRemoteDevice, HandleShipStateUpdate, ReportServiceShipId
  <2> QED
    BY <2>1, SentKept
<1>6. CASE \E i \in DOMAIN peers : RetryTimer(i)
  <2>1. UNCHANGED <<queue, out>> \/ \E m : queue' = Append(queue, m) /\ UNCHANGED out
    BY <1>6 DEF RetryTimer, RetryTimerFires, RetryTimerPosts
  <2> QED
    BY <2>1, SentKept
<1> QED
  BY <1>1, <1>2, <1>3, <1>4, <1>5, <1>6 DEF Around

(* With its message, a revocation stays on its way.                        *)
LEMMA RevokingKept ==
    ASSUME NEW i, NEW fp, Revoking(i, fp), MessagesKept,
           \/ loop' = loop
           \/ Revokes(loop'.msg, fp) /\ loop'.at = "handle"
           \/ ~(Revokes(loop.msg, fp) /\ loop.at \in {"handle", "revoke", "stop", "post", "stopped"})
    PROVE  Revoking(i, fp)'
<1>1. CASE \E k \in 1..Len(queue) : Revokes(queue[k], fp)
  <2>1. \E k \in 1..Len(queue') : Revokes(queue'[k], fp)
    BY <1>1 DEF MessagesKept
  <2> QED
    BY <2>1 DEF Revoking, Revokes
<1>2. CASE \E t \in Threads : \E k \in 1..Len(out[t]) : Revokes(out[t][k], fp)
  <2>1. \/ \E t \in Threads : \E k \in 1..Len(out'[t]) : Revokes(out'[t][k], fp)
        \/ \E k \in 1..Len(queue') : Revokes(queue'[k], fp)
    BY <1>2 DEF MessagesKept
  <2> QED
    BY <2>1 DEF Revoking, Revokes
<1>3. CASE /\ Revokes(loop.msg, fp)
           /\ loop.at = "handle" \/ (loop.at \in {"revoke", "stop", "post", "stopped"} /\ loop.i <= i)
  BY <1>3 DEF Revoking, Revokes
<1> QED
  BY <1>1, <1>2, <1>3 DEF Revoking

(* The loop: the message of a revocation has been sent,                    *)
Sent(fp) ==
    /\ fp # None
    /\ \/ \E k \in 1..Len(queue) : Revokes(queue[k], fp)
       \/ \E t \in Threads : \E k \in 1..Len(out[t]) : Revokes(out[t][k], fp)

(* and so the revocation is on its way;                                    *)
LEMMA SentRevoking ==
    ASSUME NEW fp, Sent(fp), MessagesKept, NEW j
    PROVE  Revoking(j, fp)'
<1>1. CASE \E k \in 1..Len(queue) : Revokes(queue[k], fp)
  <2>1. \E k \in 1..Len(queue') : Revokes(queue'[k], fp)
    BY <1>1 DEF MessagesKept
  <2> QED
    BY <2>1 DEF Revoking, Revokes, Sent
<1>2. CASE \E t \in Threads : \E k \in 1..Len(out[t]) : Revokes(out[t][k], fp)
  <2>1. \/ \E t \in Threads : \E k \in 1..Len(out'[t]) : Revokes(out'[t][k], fp)
        \/ \E k \in 1..Len(queue') : Revokes(queue'[k], fp)
    BY <1>2 DEF MessagesKept
  <2> QED
    BY <2>1 DEF Revoking, Revokes, Sent
<1> QED
  BY <1>1, <1>2 DEF Sent

(* is received,                                                            *)
LEMMA ReceiveRevoking ==
    ASSUME Core, NEW i, NEW j, NEW fp, Revoking(i, fp), LoopReceives
    PROVE  Revoking(j, fp)'
<1> DEFINE m == Head(queue)
<1>0. TypeInv /\ loop \in Loops /\ queue \in Seq(Allowed) /\ queue # <<>>
  BY DEF Core, TypeInv, LoopReceives
<1>1. /\ loop' = [loop EXCEPT !.at = "handle", !.msg = m] /\ queue' = Tail(queue)
      /\ UNCHANGED out /\ loop.at = "receive"
  BY DEF LoopReceives, others
<1>2. loop'.at = "handle" /\ loop'.msg = m
  BY <1>0, <1>1 DEF Loops
<1>3. Len(queue) \in Nat /\ Len(queue) >= 1 /\ m = queue[1]
  BY <1>0, LenProperties, HeadTailProperties, EmptySeq
<1>4. /\ Len(queue') = Len(queue) - 1
      /\ \A n \in 1..Len(queue') : queue'[n] = queue[n + 1]
  BY <1>0, <1>1, <1>3, HeadTailProperties
<1> HIDE DEF m
<1>5. Sent(fp)
  BY <1>1 DEF Revoking, Sent
<1>6. CASE \E t \in Threads : \E k \in 1..Len(out[t]) : Revokes(out[t][k], fp)
  BY <1>1, <1>5, <1>6 DEF Revoking, Revokes, Sent
<1>7. ASSUME NEW k \in 1..Len(queue), Revokes(queue[k], fp) PROVE Revoking(j, fp)'
  <2>1. CASE k = 1
    BY <1>2, <1>3, <1>5, <1>7, <2>1 DEF Revoking, Revokes, Sent
  <2>2. CASE k # 1
    <3>1. k - 1 \in 1..Len(queue') /\ queue'[k - 1] = queue[(k - 1) + 1] /\ (k - 1) + 1 = k
      BY <1>3, <1>4, <2>2
    <3>2. \E n \in 1..Len(queue') : Revokes(queue'[n], fp)
      BY <1>7, <3>1
    <3> QED
      BY <1>5, <3>2 DEF Revoking, Revokes, Sent
  <2> QED
    BY <2>1, <2>2
<1> QED
  BY <1>5, <1>6, <1>7 DEF Sent

(* and reaches the peers one after the other. A peer that is behind a peer *)
(* that is removed moves up.                                               *)
Moved(k, i, j) ==
    /\ i \in 1..Len(peers) /\ j \in 1..Len(peers')
    /\ \/ k = 0 /\ j = i
       \/ Cut(peers, peers', k) /\ i = IF j < k THEN j ELSE j + 1

(* Where none is removed, all of them stay in their places.                *)
LEMMA SameMoved ==
    ASSUME TypeInv, NEW k, NEW i, NEW j, Moved(k, i, j), Len(peers') = Len(peers)
    PROVE  i = j
<1>1. Len(peers) \in Nat
  BY FindTyped DEF TypeInv
<1> QED
  BY <1>1 DEF Moved, Cut

(* The loop loses no message but the one it receives.                      *)
LEMMA LoopMessages ==
    ASSUME TypeInv, LoopHandles \/ Dial
    PROVE  MessagesKept \/ LoopReceives
<1>1. CASE Dial
  BY <1>1, SentKept DEF Dial, others
<1>2. CASE LoopHandles /\ ~LoopReceives
  <2>1. UNCHANGED <<queue, out>> \/ \E m : queue' = Append(queue, m) /\ UNCHANGED out
    BY <1>2 DEF LoopHandles, others, LoopChecksCancel, LoopIgnores, CloseShipConnection, LoopJoins,
        LoopPosts, LoopDeletes, ShipNodeUnregisterSki, ShipNodeRegisterSki,
        ShipNodeCancelPairingSki, LoopAborts, LoopRemoves, ShipNodeApprovePendingHandshake, LoopApproves,
        ShipNodePromoteFingerprint, LoopPromotes, ShipNodeRevokePairingFingerprint, LoopRevokes
  <2> QED
    BY <2>1, SentKept
<1> QED
  BY <1>1, <1>2

(* A revocation that is to reach a peer reaches it wherever it has moved.  *)
LEMMA RevokingLoop ==
    ASSUME Core, LoopHandles \/ Dial, NEW k, NEW i, NEW j, Moved(k, i, j), loop.at = "revoke" => k \in {0, loop.i},
           NEW fp, peers[i].trusted_by_pairing, peers[i].expected_fingerprint = fp, Revoking(i, fp)
    PROVE  Revoking(j, fp)'
<1>0. /\ TypeInv /\ Threading(peers, conns, loop, stop) /\ LoopInv /\ loop \in Loops /\ Table(peers, conns)
      /\ Len(peers) \in Nat /\ i \in 1..Len(peers) /\ j \in 1..Len(peers')
  BY FindTyped DEF Core, TypeInv, Moved
<1>1. Revoking(i, fp) /\ peers[i].trusted_by_pairing /\ peers[i].expected_fingerprint = fp /\ fp # None
  BY DEF Revoking
<1>2. CASE LoopReceives
  BY <1>1, <1>2, ReceiveRevoking
<1>3. CASE MessagesKept /\ Sent(fp)
  BY <1>3, SentRevoking
<1>4. ASSUME MessagesKept, ~LoopReceives, ~Sent(fp) PROVE Revoking(j, fp)'
  <2>1. /\ Revokes(loop.msg, fp)
        /\ loop.at = "handle" \/ (loop.at \in {"revoke", "stop", "post", "stopped"} /\ loop.i <= i)
    BY <1>1, <1>4 DEF Revoking, Sent
  <2>2. loop.msg.type = "RevokePairingFingerprint" /\ loop.msg.ski = fp
    BY <2>1 DEF Revokes
  <2>3. ~loop.dial
    BY <1>0, <2>2 DEF LoopInv
  <2>4. ASSUME loop'.msg = loop.msg, loop'.at \in {"revoke", "stop", "post", "stopped"}, loop'.i <= j
        PROVE  Revoking(j, fp)'
    BY <1>1, <2>1, <2>4 DEF Revoking, Revokes
  <2>5. CASE ShipNodeRevokePairingFingerprint
    <3>1. loop' = [loop EXCEPT !.at = "revoke", !.i = 1]
      BY <2>5 DEF ShipNodeRevokePairingFingerprint
    <3>2. loop'.msg = loop.msg /\ loop'.at = "revoke" /\ loop'.i = 1
      BY <1>0, <3>1 DEF Loops
    <3> QED
      BY <1>0, <2>4, <3>2
  <2>6. CASE LoopJoins \/ LoopPosts
    <3>1. Len(peers') = Len(peers) /\ (loop' = [loop EXCEPT !.at = "stopped"] \/ loop' = [loop EXCEPT !.at = "post"])
      <4>1. CASE LoopJoins
        BY <1>0, <4>1, JoinStep
      <4>2. CASE LoopPosts
        BY <4>2 DEF LoopPosts, Goto
      <4> QED
        BY <2>6, <4>1, <4>2
    <3>2. loop'.msg = loop.msg /\ loop'.at \in {"post", "stopped"} /\ loop'.i = loop.i
      BY <1>0, <3>1 DEF Loops
    <3>3. loop.i <= i
      BY <2>1, <2>6 DEF LoopJoins, LoopPosts
    <3> QED
      BY <1>0, <2>4, <3>1, <3>2, <3>3, SameMoved
  <2>7. CASE LoopDeletes
    <3>1. UNCHANGED peers /\ loop' = [loop EXCEPT !.at = "revoke", !.sc = None, !.ski = None] /\ loop.at = "stopped"
      BY <2>2, <2>3, <2>7 DEF LoopDeletes
    <3>2. loop'.msg = loop.msg /\ loop'.at = "revoke" /\ loop'.i = loop.i
      BY <1>0, <3>1 DEF Loops
    <3> QED
      BY <1>0, <2>1, <2>4, <3>1, <3>2, SameMoved
  <2>8. CASE LoopRevokes
    <3> DEFINE n == loop.i
    <3>0. loop.at = "revoke" /\ n \in Nat /\ n <= i
      BY <1>0, <2>1, <2>8 DEF LoopRevokes, Loops
    <3>1. CASE n > Len(peers)
      BY <1>0, <3>0, <3>1
    <3>2. CASE n \in 1..Len(peers) /\ ~Revoked(n) /\ loop' = [loop EXCEPT !.i = n + 1] /\ UNCHANGED peers
      <4>1. loop'.msg = loop.msg /\ loop'.at = "revoke" /\ loop'.i = n + 1
        BY <1>0, <3>0, <3>2 DEF Loops
      <4>2. n # i
        BY <1>1, <2>2, <3>2 DEF Revoked, FingerprintMatches
      <4>3. i = j
        BY <1>0, <3>2, SameMoved
      <4> QED
        BY <1>0, <2>4, <3>0, <4>1, <4>2, <4>3
    <3>3. ASSUME Removes(n), loop'.msg = loop.msg, loop'.at \in {"revoke", "stop"}, loop'.i = n
          PROVE  Revoking(j, fp)'
      <4>0. (k = 0 \/ k = n) /\ n \in 1..Len(peers) /\ i \in Nat /\ j \in Nat
        BY <1>0, <3>0, <3>3 DEF Removes
      <4>1. n <= j
        <5>1. CASE j = i
          BY <3>0, <5>1
        <5>2. CASE k = n /\ i = IF j < k THEN j ELSE j + 1
          BY <3>0, <4>0, <5>2
        <5> QED
          BY <4>0, <5>1, <5>2 DEF Moved, Cut
      <4> QED
        BY <2>4, <3>3, <4>1
    <3>4. CASE Removes(n) /\ loop' = loop
      BY <3>0, <3>3, <3>4
    <3>5. CASE /\ Removes(n)
               /\ loop' = [loop EXCEPT !.at = "stop", !.sc = peers[n].connection,
                                       !.ski = peers[n].ski, !.dial = FALSE]
      <4>1. loop'.msg = loop.msg /\ loop'.at = "stop" /\ loop'.i = n
        BY <1>0, <3>5 DEF Loops
      <4> QED
        BY <3>3, <3>5, <4>1
    <3> QED
      BY <1>0, <2>8, <3>1, <3>2, <3>4, <3>5, RevokeStep
  <2> QED
    BY <1>0, <1>4, <2>1, <2>2, <2>5, <2>6, <2>7, <2>8
      DEF LoopHandles, Dial, LoopChecksCancel, LoopIgnores, CloseShipConnection,
        ShipNodeUnregisterSki, ShipNodeRegisterSki, ShipNodeCancelPairingSki, LoopAborts, LoopRemoves,
        ShipNodeApprovePendingHandshake, LoopApproves, ShipNodePromoteFingerprint, LoopPromotes, Handles
<1> QED
  BY <1>0, <1>2, <1>3, <1>4, LoopMessages

-----------------------------------------------------------------------------
(* Where a peer of the next state comes from: it was there and is judged   *)
(* as it was,                                                              *)
Heir(i, j) ==
    LET p == peers[i]
        q == peers'[j]
    IN  /\ q.trusted_by_pairing = p.trusted_by_pairing /\ q.expected_fingerprint = p.expected_fingerprint
        /\ q.provisional =>
              /\ p.provisional /\ (q.is_trusted => p.is_trusted)
              /\ q.connection # None \/ loop'.at = "exit" \/ (loop.at # "exit" /\ p.connection = None)
        /\ "distrust" \notin Calls /\ Exposed(q, conns') => Exposed(p, conns)

(* or it is new or known in another way.                                   *)
Fresh(j) ==
    LET q == peers'[j]
    IN  /\ q.provisional => ~q.is_trusted /\ q.connection # None
        /\ "distrust" \notin Calls => ~Exposed(q, conns')
        /\ OnePairing /\ q.trusted_by_pairing =>
              q.expected_fingerprint # None /\ q.expected_fingerprint = remote_fingerprint

(* The loop removes the peer it looks at, and no other, while it revokes.  *)
Comes(k, i, j) == Moved(k, i, j) /\ (loop.at = "revoke" => k \in {0, loop.i})

(* Every peer of the next state is one of the two.                         *)
Traced == \A j \in 1..Len(peers') : Fresh(j) \/ \E k, i : Comes(k, i, j) /\ Heir(i, j)

(* A revocation that was to reach a peer still is.                         *)
Carries ==
    \A k, i, j, fp :
        /\ Comes(k, i, j) /\ peers[i].trusted_by_pairing /\ peers[i].expected_fingerprint = fp
        /\ Revoking(i, fp)
        => Revoking(j, fp)'

(* Then all peers are judged right, if they were.                          *)
LEMMA TracedJudged ==
    ASSUME PairingInv, config' = config, UNCHANGED remote_fingerprint, Traced, Carries
    PROVE  \A j \in 1..Len(peers') : Judged(j)'
<1>0. Calls' = Calls /\ OnePairing' = OnePairing
  BY ConfigSame DEF OnePairing
<1> SUFFICES ASSUME NEW j \in 1..Len(peers') PROVE Judged(j)'
  OBVIOUS
<1>1. CASE Fresh(j)
  BY <1>0, <1>1 DEF Fresh, Judged, Exposed
<1>2. ASSUME NEW k, NEW i, Comes(k, i, j), Heir(i, j) PROVE Judged(j)'
  <2> DEFINE p == peers[i]
             q == peers'[j]
             fp == peers[i].expected_fingerprint
  <2>1. i \in 1..Len(peers) /\ Judged(i)
    BY <1>2 DEF Comes, Moved, PairingInv
  <2>2. ASSUME NEW f, p.trusted_by_pairing, p.expected_fingerprint = f, Revoking(i, f)
        PROVE  Doomed(j)'
    <3>1. Revoking(j, f)'
      BY <1>2, <2>2 DEF Carries
    <3>2. peers'[j].trusted_by_pairing /\ peers'[j].expected_fingerprint = f
      BY <1>2, <2>2 DEF Heir
    <3> QED
      BY <3>1, <3>2 DEF Doomed
  <2>3. Doomed(i) => Doomed(j)'
    BY <2>2 DEF Doomed
  <2>4. peers'[j].provisional =>
          ~peers'[j].is_trusted /\ (loop'.at = "exit" \/ peers'[j].connection # None \/ Doomed(j)')
    BY <1>2, <2>1, <2>3 DEF Heir, Judged
  <2>5. "distrust" \notin Calls /\ Exposed(peers'[j], conns') => Doomed(j)'
    BY <1>2, <2>1, <2>3 DEF Heir, Judged
  <2>6. OnePairing /\ peers'[j].trusted_by_pairing =>
          /\ peers'[j].expected_fingerprint # None
          /\ peers'[j].expected_fingerprint = remote_fingerprint' \/ Doomed(j)'
    BY <1>2, <2>1, <2>3 DEF Heir, Judged
  <2>7. Exposed(peers[j], conns)' <=> Exposed(peers'[j], conns')
    BY DEF Exposed
  <2> QED
    BY <1>0, <2>4, <2>5, <2>6, <2>7 DEF Judged
<1> QED
  BY <1>1, <1>2 DEF Traced

(* The loop does not come back, and no connection gets past the hello      *)
(* phase.                                                                  *)
Quiet ==
    /\ loop.at = "exit" => loop'.at = "exit"
    /\ \A a \in Addrs :
          conns'[a].st = "run" /\ conns'[a].phase \in {"ready", "approved", "data"} =>
              conns[a].st = "run" /\ conns[a].phase \in {"ready", "approved", "data"}

(* A peer that is judged as before.                                        *)
Like(p, q) ==
    /\ q.trusted_by_pairing = p.trusted_by_pairing /\ q.expected_fingerprint = p.expected_fingerprint
    /\ q.provisional = p.provisional /\ q.is_trusted = p.is_trusted /\ q.connection = p.connection

(* It is an heir,                                                          *)
LEMMA LikeHeir ==
    ASSUME Quiet, NEW i, NEW j, peers[i] \in Peer, Like(peers[i], peers'[j])
    PROVE  Heir(i, j)
<1>1. peers[i].connection \in Addrs \cup {None}
  BY DEF Peer
<1>2. Exposed(peers'[j], conns') => Exposed(peers[i], conns)
  BY <1>1 DEF Exposed, Like, Quiet
<1>3. peers'[j].connection # None \/ loop'.at = "exit" \/ (loop.at # "exit" /\ peers[i].connection = None)
  BY DEF Like, Quiet
<1> QED
  BY <1>2, <1>3 DEF Heir, Like

(* and so is one that stays in its place.                                  *)
LEMMA StayTraced ==
    ASSUME NEW j \in 1..Len(peers), j \in 1..Len(peers'), Heir(j, j)
    PROVE  \E k, i : Comes(k, i, j) /\ Heir(i, j)
<1>1. Comes(0, j, j)
  BY DEF Comes, Moved
<1> QED
  BY <1>1

(* All peers stay, and are judged as before.                               *)
LEMMA LikeTraced ==
    ASSUME TypeInv, Quiet, Len(peers') = Len(peers), \A j \in 1..Len(peers) : Like(peers[j], peers'[j])
    PROVE  Traced
<1> SUFFICES ASSUME NEW j \in 1..Len(peers') PROVE \E k, i : Comes(k, i, j) /\ Heir(i, j)
  BY DEF Traced
<1>1. j \in 1..Len(peers) /\ peers[j] \in Peer
  BY FindTyped DEF TypeInv
<1> QED
  BY <1>1, LikeHeir, StayTraced

(* No peer changes.                                                        *)
LEMMA SameTraced ==
    ASSUME TypeInv, Quiet, UNCHANGED peers
    PROVE  Traced
BY LikeTraced DEF Like

(* One peer is changed or added,                                           *)
LEMMA PutTraced ==
    ASSUME TypeInv, Quiet, NEW n, NEW q, Put(peers, peers', n, q),
           Fresh(n) \/ (n <= Len(peers) /\ Heir(n, n))
    PROVE  Traced
<1>0. Len(peers) \in Nat /\ n \in 1..(Len(peers) + 1)
  BY FindTyped DEF TypeInv, Put
<1> SUFFICES ASSUME NEW j \in 1..Len(peers') PROVE Fresh(j) \/ \E k, i : Comes(k, i, j) /\ Heir(i, j)
  BY DEF Traced
<1>1. CASE j = n
  <2>1. CASE Fresh(n)
    BY <1>1, <2>1
  <2>2. CASE n <= Len(peers) /\ Heir(n, n)
    <3>1. j \in 1..Len(peers) /\ Heir(j, j)
      BY <1>0, <1>1, <2>2
    <3> QED
      BY <3>1, StayTraced
  <2> QED
    BY <2>1, <2>2
<1>2. CASE j # n
  <2>1. j \in 1..Len(peers) /\ peers'[j] = peers[j] /\ peers[j] \in Peer
    BY <1>0, <1>2, FindTyped DEF Put, TypeInv
  <2>2. Like(peers[j], peers'[j])
    BY <2>1 DEF Like
  <2> QED
    BY <2>1, <2>2, LikeHeir, StayTraced
<1> QED
  BY <1>1, <1>2

(* or one is removed.                                                      *)
LEMMA CutTraced ==
    ASSUME TypeInv, Quiet, NEW n, Cut(peers, peers', n), loop.at = "revoke" => n = loop.i
    PROVE  Traced
<1>0. Len(peers) \in Nat /\ n \in 1..Len(peers)
  BY FindTyped DEF TypeInv, Cut
<1> SUFFICES ASSUME NEW j \in 1..Len(peers') PROVE \E k, i : Comes(k, i, j) /\ Heir(i, j)
  BY DEF Traced
<1>1. PICK i \in 1..Len(peers) : i = (IF j < n THEN j ELSE j + 1) /\ peers'[j] = peers[i]
  BY <1>0 DEF Cut
<1>2. Comes(n, i, j)
  BY <1>1 DEF Comes, Moved
<1>3. Like(peers[i], peers'[j]) /\ peers[i] \in Peer
  BY <1>1, FindTyped DEF Like, TypeInv
<1> QED
  BY <1>2, <1>3, LikeHeir

(* An approval that is taken back changes no judgement.                    *)
LEMMA WithdrewLike ==
    ASSUME NEW ps \in Seq(Peer), NEW i \in 0..Len(ps), NEW qs, Withdrew(ps, qs, i)
    PROVE  Len(qs) = Len(ps) /\ \A j \in 1..Len(ps) : Like(ps[j], qs[j])
<1>0. Len(ps) \in Nat /\ \A j \in 1..Len(ps) : ps[j] \in Peer
  BY LenProperties
<1>1. CASE i = 0
  BY <1>1 DEF Withdrew, Like
<1>2. CASE i # 0
  <2> DEFINE q == [ps[i] EXCEPT !.pending_approval_id = 0]
  <2>1. Put(ps, qs, i, q) /\ i \in 1..Len(ps)
    BY <1>0, <1>2 DEF Withdrew
  <2>2. Like(ps[i], q)
    BY <1>0, <2>1 DEF Like, Peer
  <2> HIDE DEF q
  <2>3. Len(qs) = Len(ps) /\ \A j \in 1..Len(ps) : qs[j] = IF j = i THEN q ELSE ps[j]
    BY <1>0, <2>1 DEF Put
  <2> QED
    BY <2>2, <2>3 DEF Like
<1> QED
  BY <1>1, <1>2

(* A connection gets past the hello phase with a peer that is trusted.     *)
Admits(a) ==
    /\ loop' = loop
    /\ \A b \in Addrs : b # a => conns'[b] = conns[b]
    /\ \A j \in 1..Len(peers') : peers'[j].connection = a => peers'[j].is_trusted

(* Its peer is the heir of itself.                                         *)
LEMMA AdmitsHeir ==
    ASSUME NEW a, Admits(a), NEW j \in 1..Len(peers'), peers[j] \in Peer, Like(peers[j], peers'[j])
    PROVE  Heir(j, j)
<1>1. peers[j].connection \in Addrs \cup {None}
  BY DEF Peer
<1>2. Exposed(peers'[j], conns') => Exposed(peers[j], conns)
  BY <1>1 DEF Exposed, Like, Admits
<1>3. peers'[j].connection # None \/ loop'.at = "exit" \/ (loop.at # "exit" /\ peers[j].connection = None)
  BY DEF Like, Admits
<1> QED
  BY <1>2, <1>3 DEF Heir, Like

(* The peers after a step of the thread of a connection,                   *)
LEMMA ThreadTraced ==
    ASSUME Core, NEW a \in Addrs, ConnectionThread(a)
    PROVE  Traced
<1>0. /\ TypeInv /\ Table(peers, conns) /\ peers \in Seq(Peer) /\ Len(peers) \in Nat
      /\ conns \in [Addrs -> Connection] /\ \A j \in 1..Len(peers) : peers[j] \in Peer
  BY FindTyped DEF Core, TypeInv
<1>1. PICK c : /\ conns' = [conns EXCEPT ![a] = c]
               /\ c.st \in {conns[a].st, "shut"} /\ ThreadStage(a, c)
  BY <1>0, ThreadConn
<1>2. ThreadTable(a) /\ UNCHANGED loop
  BY <1>0, ThreadPeers DEF ConnectionThread, Hello, ConnectionEnds, PostConnectionClose, ReadDecision,
    SetupRemoteDevice, HandleShipStateUpdate, ReportServiceShipId
<1>3. /\ Len(peers') = Len(peers)
      /\ \A j \in 1..Len(peers) : Like(peers[j], peers'[j]) \/ peers'[j] = Accepted(peers[j])
  <2>1. CASE UNCHANGED peers
    BY <2>1 DEF Like
  <2>2. CASE \E i \in 0..Len(peers) : Withdrew(peers, peers', i)
    BY <1>0, <2>2, WithdrewLike
  <2>3. ASSUME NEW i \in 1..Len(peers), NEW q, Put(peers, peers', i, q),
               Like(peers[i], q) \/ q = Accepted(peers[i])
        PROVE  /\ Len(peers') = Len(peers)
               /\ \A j \in 1..Len(peers) : Like(peers[j], peers'[j]) \/ peers'[j] = Accepted(peers[j])
    <3>1. Len(peers') = Len(peers) /\ \A j \in 1..Len(peers) : peers'[j] = IF j = i THEN q ELSE peers[j]
      BY <1>0, <2>3 DEF Put
    <3> QED
      BY <2>3, <3>1 DEF Like
  <2>4. ASSUME NEW i \in 1..Len(peers) PROVE Like(peers[i], OnHandshakeComplete(peers[i]))
    BY <1>0 DEF Like, OnHandshakeComplete, Peer
  <2>5. ASSUME NEW i \in 1..Len(peers), NEW d PROVE Like(peers[i], [peers[i] EXCEPT !.ship_id = d])
    BY <1>0 DEF Like, Peer
  <2> QED
    BY <1>2, <2>1, <2>2, <2>3, <2>4, <2>5 DEF ThreadTable
<1>4. Quiet \/ Admits(a)
  <2>0. \A b \in Addrs : conns'[b] = IF b = a THEN c ELSE conns[b]
    BY <1>0, <1>1
  <2>1. ASSUME c.phase \notin {"ready", "approved", "data"} \/ conns[a].phase \in {"ready", "approved", "data"}
        PROVE  Quiet
    BY <1>1, <1>2, <2>0, <2>1 DEF Quiet
  <2>2. ASSUME IsRemoteServiceForSkiPaired(conns[a].ski), UNCHANGED peers PROVE Admits(a)
    <3> DEFINE n == FindWithSki(peers, conns[a].ski)
    <3>1. n \in 1..Len(peers) /\ peers[n].ski = conns[a].ski /\ peers[n].is_trusted
      BY <1>0, <2>2, SkiFields DEF IsRemoteServiceForSkiPaired
    <3> HIDE DEF n
    <3>2. ASSUME NEW j \in 1..Len(peers), peers[j].connection = a PROVE peers[j].is_trusted
      <4>1. peers[j].ski = conns[a].ski /\ peers[j].ski # None
        BY <1>0, <3>2, NoneIsNone DEF Table, TypeInv
      <4>2. j = n
        BY <1>0, <3>1, <4>1 DEF Table
      <4> QED
        BY <3>1, <4>2
    <3> QED
      BY <1>2, <2>0, <2>2, <3>2 DEF Admits
  <2>3. ASSUME NEW id \in Nat, AcceptsPendingTrust(a, id), AcceptPendingTrust(a, id) PROVE Admits(a)
    <3> DEFINE n == FindWithShipConnection(peers, a)
    <3>1. n \in 1..Len(peers) /\ peers[n].connection = a /\ a # None
      BY <1>0, <2>3, HolderFields DEF AcceptsPendingTrust
    <3>2. id = 0 => UNCHANGED peers /\ peers[n].is_trusted
      BY <2>3 DEF AcceptsPendingTrust, AcceptPendingTrust
    <3>3. id # 0 => peers' = [peers EXCEPT ![n] = [peers[n] EXCEPT !.pending_approval_id = 0, !.is_trusted = TRUE,
                                                                   !.provisional = FALSE]]
      BY <1>0, <2>3 DEF AcceptPendingTrust
    <3> HIDE DEF n
    <3>4. peers'[n].is_trusted /\ Len(peers') = Len(peers)
          /\ \A j \in 1..Len(peers) : peers'[j].connection = peers[j].connection
      <4>1. CASE id = 0
        BY <3>1, <3>2, <4>1
      <4>2. CASE id # 0
        <5> DEFINE q == [peers[n] EXCEPT !.pending_approval_id = 0, !.is_trusted = TRUE, !.provisional = FALSE]
        <5>1. q.is_trusted /\ q.connection = peers[n].connection
          BY <1>0, <3>1 DEF Peer
        <5>2. peers' = [peers EXCEPT ![n] = q]
          BY <3>3, <4>2
        <5> HIDE DEF q
        <5>3. Len(peers') = Len(peers) /\ \A j \in 1..Len(peers) : peers'[j] = IF j = n THEN q ELSE peers[j]
          BY <1>0, <3>1, <5>2
        <5> QED
          BY <3>1, <5>1, <5>3
      <4> QED
        BY <4>1, <4>2
    <3>5. ASSUME NEW j \in 1..Len(peers'), peers'[j].connection = a PROVE peers'[j].is_trusted
      <4>1. j = n
        BY <1>0, <3>1, <3>4, <3>5 DEF Table
      <4> QED
        BY <3>4, <4>1
    <3> QED
      BY <1>2, <2>0, <3>5 DEF Admits
  <2> QED
    BY <1>1, <2>1, <2>2, <2>3 DEF ThreadStage
<1> SUFFICES ASSUME NEW j \in 1..Len(peers') PROVE \E k, i : Comes(k, i, j) /\ Heir(i, j)
  BY DEF Traced
<1>5. j \in 1..Len(peers) /\ peers[j] \in Peer
  BY <1>0, <1>3
<1>6. Heir(j, j)
  <2>1. CASE Like(peers[j], peers'[j])
    BY <1>4, <1>5, <2>1, LikeHeir, AdmitsHeir
  <2>2. CASE peers'[j] = Accepted(peers[j])
    <3> DEFINE p == peers[j]
               q == Accepted(peers[j])
    <3>1. /\ q.trusted_by_pairing = p.trusted_by_pairing /\ q.expected_fingerprint = p.expected_fingerprint
          /\ ~q.provisional /\ q.is_trusted
      BY <1>5 DEF Accepted, Peer
    <3> QED
      BY <2>2, <3>1 DEF Heir, Exposed
  <2> QED
    BY <1>3, <1>5, <2>1, <2>2
<1> QED
  BY <1>5, <1>6, StayTraced

(* of the websocket server,                                                *)
LEMMA ServedTraced ==
    ASSUME Core, Served, UNCHANGED loop
    PROVE  Traced
<1> DEFINE k == IF PeerOf(server) = 0 THEN Len(peers) + 1 ELSE PeerOf(server)
           p == AdmittedPeer(server)
           e == Entry(peers, k, server.ski)
<1>0. TypeInv /\ Len(peers) \in Nat /\ conns \in [Addrs -> Connection] /\ None \notin Addrs
  BY FindTyped, NoneIsNone DEF Core, TypeInv
<1>1. PICK a \in Addrs, c \in Connection :
         /\ server \in Devices
         /\ Put(peers, peers', k, ServerConnect(p, a))
         /\ conns' = [conns EXCEPT ![a] = c] /\ c.phase = "init"
  BY DEF Served
<1>2. /\ k \in 1..(Len(peers) + 1) /\ p \in Peer /\ (k <= Len(peers) <=> PeerOf(server) # 0)
      /\ p.is_trusted = CASE PeerOf(server) = 0 -> Recognised(server) \/ ~PostTrust
                          [] PeerOf(server) # 0 -> Recognised(server) \/ peers[PeerOf(server)].is_trusted
      /\ p.provisional = CASE PeerOf(server) = 0 -> ~(Recognised(server) \/ ~PostTrust)
                           [] PeerOf(server) # 0 -> ~Recognised(server) /\ peers[PeerOf(server)].provisional
      /\ p.expected_fingerprint = IF ByPairing(server) THEN remote_fingerprint ELSE e.expected_fingerprint
      /\ p.trusted_by_pairing = IF ByPairing(server) THEN TRUE ELSE e.trusted_by_pairing
  BY <1>0, <1>1, AdmittedFields
<1>3. Quiet
  BY <1>0, <1>1 DEF Quiet
<1> DEFINE q == ServerConnect(p, a)
<1>4. /\ q.is_trusted = p.is_trusted /\ q.provisional = p.provisional /\ q.connection = a
      /\ q.expected_fingerprint = p.expected_fingerprint /\ q.trusted_by_pairing = p.trusted_by_pairing
  BY <1>2 DEF ServerConnect, Peer
<1>5. Put(peers, peers', k, q)
  BY <1>1
<1>6. ByPairing(server) => Recognised(server) /\ remote_fingerprint # None
  BY DEF ByPairing, Recognised, FingerprintMatches
<1>7. k > Len(peers) => ~e.trusted_by_pairing
  BY <1>0, <1>2 DEF Entry, NodeConnection
<1>8. PeerOf(server) # 0 => k = PeerOf(server) /\ k <= Len(peers)
  BY <1>2
<1>9. k <= Len(peers) => e = peers[k]
  BY DEF Entry
<1> HIDE DEF p, q, k, e
<1>10. peers'[k] = q
  BY <1>0, <1>2, <1>5 DEF Put
<1>11. ~Exposed(q, conns')
  BY <1>0, <1>1, <1>4 DEF Exposed
<1>12. CASE ByPairing(server)
  <2>1. ~q.provisional
    BY <1>2, <1>4, <1>6, <1>12
  <2>2. Fresh(k)
    BY <1>2, <1>4, <1>6, <1>10, <1>11, <1>12, <2>1 DEF Fresh
  <2> QED
    BY <1>0, <1>3, <1>5, <2>2, PutTraced
<1>13. CASE ~ByPairing(server) /\ PeerOf(server) = 0
  <2>1. k > Len(peers) /\ ~q.trusted_by_pairing
    BY <1>0, <1>2, <1>4, <1>7, <1>13
  <2>2. q.provisional => ~q.is_trusted
    BY <1>2, <1>4, <1>13
  <2>3. Fresh(k)
    BY <1>0, <1>1, <1>4, <1>10, <1>11, <2>1, <2>2 DEF Fresh
  <2> QED
    BY <1>0, <1>3, <1>5, <2>3, PutTraced
<1>14. CASE ~ByPairing(server) /\ PeerOf(server) # 0
  <2>1. /\ k <= Len(peers)
        /\ q.trusted_by_pairing = peers[k].trusted_by_pairing
        /\ q.expected_fingerprint = peers[k].expected_fingerprint
    BY <1>2, <1>4, <1>8, <1>9, <1>14
  <2>2. q.provisional => peers[k].provisional /\ (q.is_trusted => peers[k].is_trusted)
    BY <1>2, <1>4, <1>8, <1>14
  <2>3. Heir(k, k)
    BY <1>0, <1>1, <1>4, <1>10, <1>11, <2>1, <2>2 DEF Heir
  <2> QED
    BY <1>0, <1>3, <1>5, <2>1, <2>3, PutTraced
<1> QED
  BY <1>12, <1>13, <1>14

(* of a dial,                                                              *)
LEMMA DialTraced ==
    ASSUME Core, Dial
    PROVE  Traced
<1>0. /\ TypeInv /\ Table(peers, conns) /\ Len(peers) \in Nat /\ None \notin Addrs
      /\ \A j \in 1..Len(peers) : peers[j] \in Peer
  BY FindTyped, NoneIsNone DEF Core, TypeInv
<1>1. PICK z \in Allocations :
         /\ Len(peers') = Len(peers)
         /\ \A j \in 1..Len(peers) :
               \/ peers'[j] = peers[j]
               \/ Unreached(peers[j], peers'[j])
               \/ Reached(peers[j], peers'[j], z[j], conns'[z[j]])
         /\ \A b \in Addrs : conns'[b] = conns[b] \/ conns[b].st = "free"
  BY <1>0, DialPeers
<1>2. loop.at # "exit"
  BY DEF Dial, Handles
<1> SUFFICES ASSUME NEW j \in 1..Len(peers') PROVE \E k, i : Comes(k, i, j) /\ Heir(i, j)
  BY DEF Traced
<1>3. j \in 1..Len(peers) /\ peers[j] \in Peer
  BY <1>0, <1>1
<1>4. peers[j].connection # None => /\ peers[j].connection \in Addrs /\ peers[j].is_attempt_running
                                    /\ conns[peers[j].connection].st # "free"
  BY <1>0, <1>3 DEF Table, Peer
<1>5. CASE peers'[j] = peers[j]
  <2>1. Exposed(peers'[j], conns') => Exposed(peers[j], conns)
    BY <1>1, <1>4, <1>5 DEF Exposed
  <2>2. Heir(j, j)
    BY <1>2, <1>5, <2>1 DEF Heir
  <2> QED
    BY <1>3, <2>2, StayTraced
<1>6. CASE Unreached(peers[j], peers'[j])
  <2>1. ~Exposed(peers'[j], conns') /\ peers[j].connection = None
    BY <1>4, <1>6 DEF Exposed, Unreached
  <2>2. Heir(j, j)
    BY <1>2, <1>6, <2>1 DEF Heir, Unreached
  <2> QED
    BY <1>3, <2>2, StayTraced
<1>7. CASE Reached(peers[j], peers'[j], z[j], conns'[z[j]])
  <2>1. ~Exposed(peers'[j], conns') /\ peers'[j].connection # None
    BY <1>0, <1>7 DEF Exposed, Reached
  <2>2. Heir(j, j)
    BY <1>2, <1>7, <2>1 DEF Heir, Reached
  <2> QED
    BY <1>3, <2>2, StayTraced
<1> QED
  BY <1>1, <1>3, <1>5, <1>6, <1>7

(* A fingerprint is registered, by the application or for a request.       *)
Replaces ==
    \E t \in Threads, fp \in Fps \cup {None} :
        /\ RegisterRemoteFingerprint(t, fp) /\ Idle(t) /\ Calls \cap {"pairing", "fingerprint"} # {}
        /\ UNCHANGED <<conns, queue, loop>>

(* of a registration for the current request,                              *)
LEMMA TrustTraced ==
    ASSUME Core, NEW t \in Threads, NEW d \in Devices, NEW b \in BOOLEAN, Trusting(t, d, b), UNCHANGED <<conns, loop>>,
           OnePairing => d.fp # None /\ d.fp = remote_fingerprint
    PROVE  Traced
<1>0. TypeInv /\ Len(peers) \in Nat
  BY FindTyped DEF Core, TypeInv
<1>1. PICK k \in 1..(Len(peers) + 1) :
         /\ Put(peers, peers', k, Registered(Entry(peers, k, None), d, b))
         /\ Entry(peers, k, None) \in Peer
  BY DEF Trusting
<1> DEFINE q == Registered(Entry(peers, k, None), d, b)
<1>2. q.is_trusted /\ ~q.provisional /\ q.expected_fingerprint = d.fp
  BY <1>1 DEF Registered, Peer
<1>3. Put(peers, peers', k, q)
  BY <1>1
<1> HIDE DEF q
<1>4. peers'[k] = q
  BY <1>0, <1>3 DEF Put
<1>5. Fresh(k)
  BY <1>2, <1>4 DEF Fresh, Exposed
<1>6. Quiet
  BY DEF Quiet
<1> QED
  BY <1>0, <1>3, <1>5, <1>6, PutTraced

(* and of all threads around the loop come from somewhere, or a request    *)
(* replaces another.                                                       *)
LEMMA AroundTraced ==
    ASSUME Core, PairingInv, config' = config, Around
    PROVE  (Traced /\ UNCHANGED remote_fingerprint) \/ Replaces
<1>0. /\ TypeInv /\ peers \in Seq(Peer) /\ Len(peers) \in Nat /\ \A j \in 1..Len(peers) : peers[j] \in Peer
      /\ None \notin Fps /\ \A d \in Devices : d.fp \in Fps
  BY FindTyped, NoneIsNone DEF Core, TypeInv, Fps
<1>1. ASSUME UNCHANGED <<conns, loop, remote_fingerprint>>, Len(peers') = Len(peers),
             \A j \in 1..Len(peers) : Like(peers[j], peers'[j])
      PROVE  Traced /\ UNCHANGED remote_fingerprint
  <2>1. Quiet
    BY <1>1 DEF Quiet
  <2> QED
    BY <1>0, <1>1, <2>1, LikeTraced
<1>2. ASSUME UNCHANGED <<conns, loop, remote_fingerprint, peers>>
      PROVE  Traced /\ UNCHANGED remote_fingerprint
  BY <1>1, <1>2 DEF Like
<1>3. ASSUME UNCHANGED <<conns, loop, remote_fingerprint>>, NEW i \in 1..Len(peers), NEW q,
             Put(peers, peers', i, q), Like(peers[i], q)
      PROVE  Traced /\ UNCHANGED remote_fingerprint
  <2>1. Len(peers') = Len(peers) /\ \A j \in 1..Len(peers) : peers'[j] = IF j = i THEN q ELSE peers[j]
    BY <1>0, <1>3 DEF Put
  <2> QED
    BY <1>1, <1>3, <2>1 DEF Like
<1>4. ASSUME NEW s \in Skis, NEW b \in BOOLEAN,
             RegisterRemoteSki(s, b) \/ UnregisterRemoteSki(s) \/ CancelPairingWithSki(s)
      PROVE  Traced /\ UNCHANGED remote_fingerprint
  <2>1. UNCHANGED <<conns, loop, remote_fingerprint>>
    BY <1>4 DEF RegisterRemoteSki, UnregisterRemoteSki, CancelPairingWithSki
  <2>2. PICK i \in 0..Len(peers) : peers' = Withdraw(peers, i)
    BY <1>0, <1>4, TypeWithdraw
  <2>3. Len(peers') = Len(peers) /\ \A j \in 1..Len(peers) : Like(peers[j], peers'[j])
    BY <1>0, <2>2, WithdrawFields, WithdrewLike
  <2> QED
    BY <1>1, <2>1, <2>3
<1>5. ASSUME NEW s \in Skis, ApprovePendingHandshakeWithSki(s) PROVE Traced /\ UNCHANGED remote_fingerprint
  <2>1. UNCHANGED <<conns, loop, remote_fingerprint>>
    BY <1>5 DEF ApprovePendingHandshakeWithSki
  <2>2. PICK i \in 1..Len(peers) :
            Put(peers, peers', i, [peers[i] EXCEPT !.pending_approval_id = next_approval_id + 1])
    BY <1>0, <1>5, TypeApprove
  <2> DEFINE q == [peers[i] EXCEPT !.pending_approval_id = next_approval_id + 1]
  <2>3. Like(peers[i], q)
    BY <1>0 DEF Peer, Like
  <2>4. Put(peers, peers', i, q)
    BY <2>2
  <2> HIDE DEF q
  <2> QED
    BY <1>3, <2>1, <2>3, <2>4
<1>6. ASSUME NEW d \in Devices, RegisterRemoteFingerprintWithShipId(d)
      PROVE  Traced /\ UNCHANGED remote_fingerprint
  <2>1. RegisterPeerTrust("app", d, FALSE) /\ UNCHANGED <<conns, loop, remote_fingerprint>> /\ ~OnePairing
    BY <1>6 DEF RegisterRemoteFingerprintWithShipId, Call, OnePairing
  <2>2. Trusting("app", d, FALSE) /\ "app" \in Threads
    BY <1>0, <2>1, TrustStep DEF Threads
  <2> QED
    BY <2>1, <2>2, TrustTraced
<1>7. ASSUME PairingRegistersPeer PROVE Traced /\ UNCHANGED remote_fingerprint
  <2>1. /\ RegisterPeerTrust("pairing", pairing, TRUE) /\ UNCHANGED <<conns, loop, remote_fingerprint>>
        /\ pairing # None /\ pairing \in Devices
    BY <1>0, <1>7 DEF PairingRegistersPeer, TypeInv
  <2>2. Trusting("pairing", pairing, TRUE) /\ "pairing" \in Threads
    BY <1>0, <2>1, TrustStep DEF Threads
  <2>3. OnePairing => pairing.fp # None /\ pairing.fp = remote_fingerprint
    BY <1>0, <2>1 DEF OnePairing, PairingInv, Requested, Requesting
  <2> QED
    BY <2>1, <2>2, <2>3, TrustTraced
<1>8. ASSUME \/ \E f \in Fps \cup {None} : RegisterFingerprint(f)
             \/ \E d \in Devices : PairingRequestAccepted(d)
      PROVE  Replaces
  BY <1>0, <1>8 DEF Replaces, RegisterFingerprint, PairingRequestAccepted, Call, Threads
<1>9. ASSUME \/ \E found : OnMdnsEntriesFound(found)
             \/ \E d : ServerAccept(d)
             \/ \E t : Send(t)
      PROVE  Traced /\ UNCHANGED remote_fingerprint
  BY <1>2, <1>9 DEF OnMdnsEntriesFound, ServerAccept, Send
<1>10. ASSUME OnWebsocketServerConnection PROVE Traced /\ UNCHANGED remote_fingerprint
  <2>1. UNCHANGED <<loop, remote_fingerprint>>
    BY <1>10 DEF OnWebsocketServerConnection
  <2>2. UNCHANGED <<peers, conns>> \/ Served
    BY <1>0, <1>10, TypeServer
  <2> QED
    BY <1>2, <2>1, <2>2, ServedTraced
<1>11. ASSUME NEW i \in DOMAIN peers, RetryTimer(i) PROVE Traced /\ UNCHANGED remote_fingerprint
  <2>1. i \in 1..Len(peers) /\ peers[i] \in Peer
    BY <1>0
  <2>2. UNCHANGED <<conns, loop, remote_fingerprint>>
    BY <1>11 DEF RetryTimer, RetryTimerFires, RetryTimerPosts
  <2>3. PICK q : peers' = [peers EXCEPT ![i] = q] /\ Like(peers[i], q)
    <3>1. CASE RetryTimerFires(i)
      <4> DEFINE q == [peers[i] EXCEPT !.retry = "expired", !.due = IF cancel THEN None ELSE peers[i].ski]
      <4>1. peers' = [peers EXCEPT ![i] = q]
        BY <1>0, <2>1, <3>1 DEF RetryTimerFires
      <4>2. Like(peers[i], q)
        BY <2>1 DEF Peer, Like
      <4> HIDE DEF q
      <4> QED
        BY <4>1, <4>2
    <3>2. CASE RetryTimerPosts(i)
      <4> DEFINE q == [peers[i] EXCEPT !.due = None]
      <4>1. peers' = [peers EXCEPT ![i] = q]
        BY <1>0, <2>1, <3>2 DEF RetryTimerPosts
      <4>2. Like(peers[i], q)
        BY <2>1 DEF Peer, Like
      <4> HIDE DEF q
      <4> QED
        BY <4>1, <4>2
    <3> QED
      BY <1>11, <3>1, <3>2 DEF RetryTimer
  <2>4. Len(peers') = Len(peers) /\ \A j \in 1..Len(peers) : peers'[j] = IF j = i THEN q ELSE peers[j]
    BY <1>0, <2>1, <2>3
  <2>5. \A j \in 1..Len(peers) : Like(peers[j], peers'[j])
    BY <2>3, <2>4 DEF Like
  <2> QED
    BY <1>1, <2>2, <2>4, <2>5
<1>12. ASSUME NEW a \in Addrs, ConnectionThread(a) PROVE Traced /\ UNCHANGED remote_fingerprint
  <2>1. UNCHANGED remote_fingerprint
    BY <1>12 DEF ConnectionThread, Hello, ConnectionEnds, PostConnectionClose, ReadDecision,
      SetupRemoteDevice, HandleShipStateUpdate, ReportServiceShipId
  <2> QED
    BY <1>12, <2>1, ThreadTraced
<1>13. CASE Application
  BY <1>4, <1>5, <1>6, <1>8, <1>13 DEF Application
<1>14. CASE Browser
  BY <1>7, <1>8, <1>9, <1>14 DEF Browser
<1>15. CASE Server
  BY <1>9, <1>10, <1>15 DEF Server
<1> QED
  BY <1>9, <1>11, <1>12, <1>13, <1>14, <1>15 DEF Around

(* A peer that is about to be revoked still is.                            *)
LEMMA DoomedStays ==
    ASSUME NEW i, NEW fp, MessagesKept, UNCHANGED loop, Revoking(i, fp),
           peers'[i].trusted_by_pairing, peers'[i].expected_fingerprint = fp
    PROVE  Doomed(i)'
<1>1. Revoking(i, fp)'
  BY RevokingKept
<1> QED
  BY <1>1 DEF Doomed

(* The peers of the request that is replaced are about to be revoked.      *)
LEMMA ReplacesJudged ==
    ASSUME Core, PairingInv, config' = config, Replaces, MessagesKept
    PROVE  \A j \in 1..Len(peers') : Judged(j)'
<1>0. TypeInv /\ Len(peers) \in Nat /\ Calls' = Calls /\ OnePairing' = OnePairing /\ None \notin Fps
      /\ out \in [Threads -> Seq(Allowed)] /\ \A j \in 1..Len(peers) : peers[j] \in Peer
  BY FindTyped, ConfigSame, NoneIsNone DEF Core, TypeInv, OnePairing
<1>1. PICK t \in Threads, fp \in Fps \cup {None} :
         /\ RegisterRemoteFingerprint(t, fp) /\ Idle(t) /\ Calls \cap {"pairing", "fingerprint"} # {}
         /\ UNCHANGED <<conns, queue, loop>>
  BY DEF Replaces
<1>2. /\ remote_fingerprint' = fp
      /\ \/ ~Replacing(fp) /\ peers' = peers
         \/ /\ Replacing(fp) /\ remote_fingerprint \in Fps
            /\ Marked(peers, peers', remote_fingerprint)
            /\ out' = [out EXCEPT ![t] = <<SkiMsg("RevokePairingFingerprint", remote_fingerprint),
                                           Msg("PromoteFingerprint")>>]
  BY <1>0, <1>1, FingerprintStep
<1>3. ASSUME NEW j \in 1..Len(peers), peers'[j] = peers[j],
             peers[j].expected_fingerprint = remote_fingerprint /\ OnePairing /\ peers[j].trusted_by_pairing
                => remote_fingerprint' = remote_fingerprint
      PROVE  Judged(j)'
  <2>1. Judged(j)
    BY DEF PairingInv
  <2>2. ASSUME NEW f, peers[j].trusted_by_pairing, peers[j].expected_fingerprint = f, Revoking(j, f)
        PROVE  Doomed(j)'
    BY <1>1, <1>3, <2>2, DoomedStays
  <2>3. Doomed(j) => Doomed(j)'
    BY <2>2 DEF Doomed
  <2>4. Exposed(peers[j], conns)' <=> Exposed(peers[j], conns)
    BY <1>1, <1>3 DEF Exposed
  <2> QED
    BY <1>0, <1>1, <1>3, <2>1, <2>3, <2>4 DEF Judged
<1>4. ASSUME ~Replacing(fp), peers' = peers, NEW j \in 1..Len(peers') PROVE Judged(j)'
  <2>1. j \in 1..Len(peers) /\ Judged(j)
    BY <1>4 DEF PairingInv
  <2>2. /\ peers[j].expected_fingerprint = remote_fingerprint /\ OnePairing /\ peers[j].trusted_by_pairing
        => remote_fingerprint' = remote_fingerprint
    BY <1>2, <1>4, <2>1 DEF Judged, Replacing
  <2> QED
    BY <1>3, <1>4, <2>1, <2>2
<1>5. ASSUME NEW rf \in Fps, rf = remote_fingerprint, Marked(peers, peers', rf),
             out' = [out EXCEPT ![t] = <<SkiMsg("RevokePairingFingerprint", rf), Msg("PromoteFingerprint")>>],
             NEW j \in 1..Len(peers')
      PROVE  Judged(j)'
  <2>0. j \in 1..Len(peers) /\ peers[j] \in Peer
    BY <1>0, <1>5 DEF Marked
  <2>1. CASE peers[j].trusted_by_pairing /\ peers[j].expected_fingerprint = rf
    <3> DEFINE m == SkiMsg("RevokePairingFingerprint", rf)
    <3>1. Revokes(m, rf)
      BY <1>1, RevokeMsg
    <3>2. out'[t][1] = m /\ 1 \in 1..Len(out'[t])
      BY <1>0, <1>5
    <3> HIDE DEF m
    <3>3. Revoking(j, rf)'
      BY <1>0, <3>1, <3>2 DEF Revoking, Revokes
    <3> DEFINE q == [peers[j] EXCEPT !.is_trusted = FALSE, !.provisional = TRUE, !.pending_approval_id = 0]
    <3>4. /\ ~q.is_trusted /\ q.trusted_by_pairing = peers[j].trusted_by_pairing
          /\ q.expected_fingerprint = peers[j].expected_fingerprint
      BY <2>0 DEF Peer
    <3>5. peers'[j] = q
      BY <1>0, <1>5, <2>0, <2>1 DEF Marked
    <3> HIDE DEF q
    <3>6. /\ ~peers'[j].is_trusted /\ peers'[j].trusted_by_pairing /\ peers'[j].expected_fingerprint = rf
          /\ rf # None
      BY <1>0, <2>1, <3>4, <3>5
    <3>7. Doomed(j)'
      BY <3>3, <3>6 DEF Doomed
    <3> QED
      BY <3>6, <3>7 DEF Judged
  <2>2. CASE ~(peers[j].trusted_by_pairing /\ peers[j].expected_fingerprint = rf)
    <3>1. peers'[j] = peers[j]
      BY <1>5, <2>0, <2>2 DEF Marked
    <3> QED
      BY <1>3, <1>5, <2>0, <2>2, <3>1
  <2> QED
    BY <2>1, <2>2
<1> QED
  BY <1>2, <1>4, <1>5

(* The threads around the loop hold no revocation up.                      *)
LEMMA AroundCarries ==
    ASSUME Core, config' = config, Around
    PROVE  Carries
<1>0. TypeInv /\ Table(peers, conns) /\ Len(peers) \in Nat
  BY FindTyped DEF Core, TypeInv
<1>1. MessagesKept /\ UNCHANGED loop /\ Len(peers') >= Len(peers)
  BY <1>0, AroundMessages, AroundType, AroundSound DEF Sound
<1> SUFFICES ASSUME NEW k, NEW i, NEW j, NEW fp, Comes(k, i, j), Revoking(i, fp) PROVE Revoking(j, fp)'
  BY DEF Carries
<1>2. i = j
  BY <1>0, <1>1 DEF Comes, Moved, Cut
<1> QED
  BY <1>1, <1>2, RevokingKept

(* The request that is being accepted stays the current one.               *)
LEMMA RequestingStep ==
    ASSUME Requested, Requesting, [Next /\ UNCHANGED config]_<<vars, config>>
    PROVE  Requesting'
<1>0. config' = config
  BY DEF vars
<1>1. Calls' = Calls
  BY <1>0, ConfigSame
<1>2. CASE UNCHANGED <<pairing, remote_fingerprint>>
  BY <1>1, <1>2 DEF Requesting
<1>3. CASE \E f \in Fps \cup {None} : RegisterFingerprint(f)
  BY <1>1, <1>3 DEF RegisterFingerprint, Call, Requesting
<1>4. CASE \E d \in Devices : PairingRequestAccepted(d)
  BY <1>1, <1>4 DEF PairingRequestAccepted, RegisterRemoteFingerprint, Requesting
<1>5. CASE PairingRegistersPeer
  BY <1>1, <1>5 DEF PairingRegistersPeer, Requesting
<1>6. CASE Application
  BY <1>2, <1>3, <1>6 DEF Application, RegisterRemoteSki, UnregisterRemoteSki, CancelPairingWithSki,
    ApprovePendingHandshakeWithSki, RegisterRemoteFingerprintWithShipId
<1>7. CASE Browser
  BY <1>2, <1>4, <1>5, <1>7 DEF Browser, OnMdnsEntriesFound
<1>8. CASE UNCHANGED <<vars, config>>
  BY <1>2, <1>8 DEF vars
<1>9. ASSUME Next, ~Application, ~Browser PROVE UNCHANGED <<pairing, remote_fingerprint>>
  BY <1>9
    DEF Next, Server, ConnectionLoop, StopCaller, ConnectionThread, RetryTimer, others,
      ServerAccept, OnWebsocketServerConnection, Hello, ConnectionEnds, PostConnectionClose, ReadDecision,
      SetupRemoteDevice, HandleShipStateUpdate, ReportServiceShipId, RetryTimerFires, RetryTimerPosts, Send,
      LoopChecksCancel, LoopReceives, LoopIgnores, HandleMdnsEntriesFound, LoopDials, DialSki,
      CloseShipConnection, LoopJoins, LoopPosts, LoopDeletes, ShipNodeUnregisterSki, ShipNodeRegisterSki,
      ShipNodeCancelPairingSki, LoopAborts, LoopRemoves, ShipNodeApprovePendingHandshake, LoopApproves,
      ShipNodePromoteFingerprint, LoopPromotes, ShipNodeRevokePairingFingerprint, LoopRevokes,
      StopBegins, StopSends, StopJoinsLoop, StopReleases, StopDeletes, StopLeavesLoop, StopEnds
<1> QED
  BY <1>2, <1>6, <1>7, <1>8, <1>9

(* The loop handles messages until it ends, and registers no fingerprint.  *)
LEMMA LoopRuns ==
    ASSUME LoopHandles
    PROVE  loop.at # "exit" /\ UNCHANGED remote_fingerprint
BY DEF LoopHandles, Handles, others, LoopChecksCancel, LoopReceives, LoopIgnores, CloseShipConnection, LoopJoins,
    LoopPosts, LoopDeletes, ShipNodeUnregisterSki, ShipNodeRegisterSki,
    ShipNodeCancelPairingSki, LoopAborts, LoopRemoves, ShipNodeApprovePendingHandshake, LoopApproves,
    ShipNodePromoteFingerprint, LoopPromotes, ShipNodeRevokePairingFingerprint, LoopRevokes

(* The peers after a step of the loop come from somewhere,                 *)
LEMMA LoopTraced ==
    ASSUME Core, PairingInv, LoopHandles
    PROVE  Traced
<1>0. /\ TypeInv /\ Table(peers, conns) /\ Threading(peers, conns, loop, stop) /\ LoopInv
      /\ peers \in Seq(Peer) /\ Len(peers) \in Nat /\ \A j \in 1..Len(peers) : peers[j] \in Peer
      /\ \A s : FindWithSki(peers, s) \in 0..Len(peers)
      /\ loop \in Loops /\ loop.msg \in Allowed /\ conns \in [Addrs -> Connection] /\ None \notin Fps
  BY FindTyped, NoneIsNone DEF Core, TypeInv
<1>1. ASSUME \A a \in Addrs : conns'[a].phase = conns[a].phase /\ conns'[a].st \in {conns[a].st, "shut"}
      PROVE  Quiet
  BY <1>1, LoopRuns DEF Quiet
<1>2. ASSUME UNCHANGED conns PROVE Quiet
  BY <1>1, <1>2
<1>3. ASSUME UNCHANGED <<peers, conns>> PROVE Traced
  BY <1>0, <1>2, <1>3, SameTraced
<1>4. CASE \/ LoopChecksCancel \/ LoopReceives \/ LoopIgnores \/ LoopPosts \/ ShipNodeApprovePendingHandshake
           \/ ShipNodePromoteFingerprint \/ ShipNodeRevokePairingFingerprint
  BY <1>3, <1>4 DEF LoopChecksCancel, LoopReceives, LoopIgnores, LoopPosts, ShipNodeApprovePendingHandshake,
      ShipNodePromoteFingerprint, ShipNodeRevokePairingFingerprint
<1>5. CASE CloseShipConnection
  <2> DEFINE i == FindWithShipConnection(peers, loop.msg.sc)
             q == OnConnectionClosed(peers[i])
             r == ScheduleRetry(q)
  <2>1. UNCHANGED conns /\ loop.at = "handle"
    BY <1>5 DEF CloseShipConnection, Handles
  <2>2. CASE UNCHANGED peers
    BY <1>3, <2>1, <2>2
  <2>3. CASE Closed(i)
    <3>1. /\ i \in 1..Len(peers) /\ peers[i] \in Peer
          /\ \/ Cut(peers, peers', i)
             \/ ~Discarded(peers[i]) /\ Put(peers, peers', i, q)
             \/ ~Discarded(peers[i]) /\ Put(peers, peers', i, r)
      BY <2>3 DEF Closed
    <3> HIDE DEF i
    <3>2. /\ q \in Peer /\ q.connection = None /\ q.provisional = peers[i].provisional
          /\ q.trusted_by_pairing = peers[i].trusted_by_pairing
          /\ q.expected_fingerprint = peers[i].expected_fingerprint
          /\ r = [q EXCEPT !.retry = "armed"]
      BY <3>1, ClosedFields
    <3> HIDE DEF q
    <3>3. /\ r.connection = q.connection /\ r.provisional = q.provisional
          /\ r.trusted_by_pairing = q.trusted_by_pairing /\ r.expected_fingerprint = q.expected_fingerprint
      BY <3>2 DEF Peer
    <3> HIDE DEF r
    <3>4. CASE Cut(peers, peers', i)
      BY <1>0, <1>2, <2>1, <3>4, CutTraced
    <3>5. ASSUME NEW x, Put(peers, peers', i, x), ~Discarded(peers[i]), x.connection = None,
                 x.provisional = peers[i].provisional,
                 x.trusted_by_pairing = peers[i].trusted_by_pairing,
                 x.expected_fingerprint = peers[i].expected_fingerprint
          PROVE  Traced
      <4>1. peers'[i] = x
        BY <1>0, <3>1, <3>5 DEF Put
      <4>2. ~x.provisional
        BY <3>1, <3>5 DEF PairingInv, Judged, Discarded
      <4>3. Heir(i, i)
        BY <3>5, <4>1, <4>2 DEF Heir, Exposed
      <4> QED
        BY <1>0, <1>2, <2>1, <3>1, <3>5, <4>3, PutTraced
    <3> QED
      BY <3>1, <3>2, <3>3, <3>4, <3>5
  <2> QED
    BY <1>0, <1>5, <2>2, <2>3, ClosedStep
<1>6. CASE LoopJoins
  <2>1. CASE UNCHANGED <<peers, conns>>
    BY <1>3, <2>1
  <2>2. CASE /\ loop.sc \in Addrs
             /\ Withdrew(peers, peers', FindWithShipConnection(peers, loop.sc))
             /\ conns' = [conns EXCEPT ![loop.sc] = [conns[loop.sc] EXCEPT !.st = "shut", !.box = <<>>]]
    <3> DEFINE a == loop.sc
               c == [conns[a] EXCEPT !.st = "shut", !.box = <<>>]
    <3>1. c.phase = conns[a].phase /\ c.st = "shut" /\ conns' = [conns EXCEPT ![a] = c]
      BY <1>0, <2>2 DEF Connection
    <3>2. Len(peers') = Len(peers) /\ \A j \in 1..Len(peers) : Like(peers[j], peers'[j])
      BY <1>0, <2>2, WithdrewLike, FindTyped
    <3> HIDE DEF c
    <3>3. \A b \in Addrs : conns'[b].phase = conns[b].phase /\ conns'[b].st \in {conns[b].st, "shut"}
      BY <1>0, <3>1
    <3> QED
      BY <1>0, <1>1, <3>2, <3>3, LikeTraced
  <2> QED
    BY <1>0, <1>6, <2>1, <2>2, JoinStep
<1>7. CASE LoopDeletes
  <2>1. UNCHANGED peers /\ conns' = [conns EXCEPT ![loop.sc] = Free] /\ Free.st = "free"
    BY <1>7 DEF LoopDeletes, Disconnected, Free
  <2>2. Quiet
    BY <1>0, <2>1, LoopRuns DEF Quiet
  <2> QED
    BY <1>0, <2>1, <2>2, SameTraced
<1>8. CASE ShipNodeRegisterSki
  <2>1. UNCHANGED conns /\ loop.msg.type = "ShipRegisterSki"
    BY <1>8 DEF ShipNodeRegisterSki, Handles
  <2>2. PICK k \in 1..(Len(peers) + 1) :
           /\ Entry(peers, k, loop.msg.ski) \in Peer
           /\ Put(peers, peers', k, Enrolled(Entry(peers, k, loop.msg.ski), loop.msg.trust))
    BY <1>0, <1>8, EnrolStep
  <2> DEFINE p == Entry(peers, k, loop.msg.ski)
             q == Enrolled(p, loop.msg.trust)
  <2>3. /\ q.trusted_by_pairing = p.trusted_by_pairing /\ q.expected_fingerprint = p.expected_fingerprint
        /\ ~q.provisional /\ q.is_trusted = loop.msg.trust
    BY <2>2 DEF Enrolled, Peer
  <2>4. k <= Len(peers) => p = peers[k]
    BY DEF Entry
  <2>5. k > Len(peers) => ~p.trusted_by_pairing
    BY <1>0, <2>2 DEF Entry, NodeConnection
  <2>6. Put(peers, peers', k, q)
    BY <2>2
  <2> HIDE DEF q, p
  <2>7. peers'[k] = q
    BY <1>0, <2>2, <2>6 DEF Put
  <2>8. "distrust" \notin Calls => ~Exposed(q, conns')
    BY <1>0, <2>1, <2>3 DEF Exposed, Allowed
  <2>9. CASE k <= Len(peers)
    <3>1. Heir(k, k)
      BY <2>3, <2>4, <2>7, <2>8, <2>9 DEF Heir
    <3> QED
      BY <1>0, <1>2, <2>1, <2>6, <2>9, <3>1, PutTraced
  <2>10. CASE k > Len(peers)
    <3>1. Fresh(k)
      BY <2>3, <2>5, <2>7, <2>8, <2>10 DEF Fresh
    <3> QED
      BY <1>0, <1>2, <2>1, <2>6, <3>1, PutTraced
  <2> QED
    BY <1>0, <2>2, <2>9, <2>10
<1>9. CASE ShipNodeCancelPairingSki
  <2> DEFINE i == FindWithSki(peers, loop.msg.ski)
  <2>1. UNCHANGED conns /\ peers' = Withdraw(peers, i) /\ i \in 0..Len(peers)
    BY <1>0, <1>9 DEF ShipNodeCancelPairingSki
  <2>2. Len(peers') = Len(peers) /\ \A j \in 1..Len(peers) : Like(peers[j], peers'[j])
    BY <1>0, <2>1, WithdrawFields, WithdrewLike
  <2> QED
    BY <1>0, <1>2, <2>1, <2>2, LikeTraced
<1>10. ASSUME NEW a \in Addrs, NEW g \in BOOLEAN, NEW id \in Nat, PostDecision(a, g, id)
       PROVE  Quiet
  <2> DEFINE c == [conns[a] EXCEPT !.box = Append(@, [granted |-> g, id |-> id])]
  <2>1. conns' = conns \/ conns' = [conns EXCEPT ![a] = c]
    BY <1>0, <1>10, DecisionTyped
  <2>2. c.phase = conns[a].phase /\ c.st = conns[a].st
    BY <1>0 DEF Connection
  <2> HIDE DEF c
  <2> QED
    BY <1>0, <1>1, <2>1, <2>2
<1>11. CASE LoopAborts \/ LoopApproves
  <2>1. UNCHANGED peers /\ loop.sc \in Addrs /\ \E g \in BOOLEAN, id \in Nat : PostDecision(loop.sc, g, id)
    BY <1>0, <1>11 DEF LoopAborts, LoopApproves, Loops, Message, Threading
  <2> QED
    BY <1>0, <1>10, <2>1, SameTraced
<1>12. CASE LoopPromotes
  <2>1. CASE UNCHANGED <<peers, conns>>
    BY <1>3, <2>1
  <2>2. CASE /\ loop.i \in 1..Len(peers) /\ peers[loop.i] \in Peer /\ remote_fingerprint \in Fps
             /\ peers[loop.i].connection \in Addrs
             /\ Put(peers, peers', loop.i, Promoted(peers[loop.i], remote_fingerprint))
             /\ PostDecision(peers[loop.i].connection, TRUE, 0)
    <3> DEFINE k == loop.i
               q == Promoted(peers[k], remote_fingerprint)
    <3>1. ~q.provisional /\ q.is_trusted /\ q.expected_fingerprint = remote_fingerprint
      BY <2>2 DEF Promoted, Peer
    <3>2. Put(peers, peers', k, q) /\ k \in 1..Len(peers)
      BY <2>2
    <3>3. Quiet
      BY <1>10, <2>2
    <3> HIDE DEF q, k
    <3>4. peers'[k] = q
      BY <1>0, <3>2 DEF Put
    <3>5. Fresh(k)
      BY <1>0, <2>2, <3>1, <3>4 DEF Fresh, Exposed
    <3> QED
      BY <1>0, <3>2, <3>3, <3>5, PutTraced
  <2> QED
    BY <1>0, <1>12, <2>1, <2>2, PromoteStep
<1>13. CASE ShipNodeUnregisterSki \/ LoopRemoves
  <2> DEFINE i == FindWithSki(peers, loop.msg.ski)
  <2>1. UNCHANGED conns /\ i \in 0..Len(peers) /\ loop.at # "revoke"
    BY <1>0, <1>13 DEF ShipNodeUnregisterSki, LoopRemoves, Handles
  <2>2. UNCHANGED peers \/ (i # 0 /\ RemovePeer(peers, i))
    BY <1>13 DEF ShipNodeUnregisterSki, LoopRemoves
  <2> HIDE DEF i
  <2>3. CASE i # 0 /\ RemovePeer(peers, i)
    <3>1. Cut(peers, peers', i)
      BY <1>0, <2>1, <2>3, RemoveStep DEF Removes
    <3> QED
      BY <1>0, <1>2, <2>1, <3>1, CutTraced
  <2> QED
    BY <1>3, <2>1, <2>2, <2>3
<1>14. CASE LoopRevokes
  <2>1. UNCHANGED conns
    BY <1>14 DEF LoopRevokes
  <2>2. UNCHANGED peers \/ Cut(peers, peers', loop.i)
    BY <1>0, <1>14, RevokeStep DEF Removes
  <2> QED
    BY <1>0, <1>2, <1>3, <2>1, <2>2, CutTraced
<1> QED
  BY <1>4, <1>5, <1>6, <1>7, <1>8, <1>9, <1>11, <1>12, <1>13, <1>14 DEF LoopHandles

(* and it holds no revocation up.                                          *)
LEMMA LoopCarries ==
    ASSUME Core, LoopHandles \/ Dial
    PROVE  Carries
<1> SUFFICES ASSUME NEW k, NEW i, NEW j, NEW fp, Comes(k, i, j), peers[i].trusted_by_pairing,
                    peers[i].expected_fingerprint = fp, Revoking(i, fp)
             PROVE  Revoking(j, fp)'
  BY DEF Carries
<1>1. Moved(k, i, j) /\ (loop.at = "revoke" => k \in {0, loop.i})
  BY DEF Comes
<1> QED
  BY <1>1, RevokingLoop

(* Stop releases the peers when the loop has ended.                        *)
LEMMA StopTraced ==
    ASSUME Core, StopCaller
    PROVE  Traced /\ Carries /\ UNCHANGED remote_fingerprint
<1>0. /\ TypeInv /\ LoopInv /\ peers \in Seq(Peer) /\ Len(peers) \in Nat /\ conns \in [Addrs -> Connection]
      /\ \A j \in 1..Len(peers) : peers[j] \in Peer
  BY FindTyped DEF Core, TypeInv
<1>1. UNCHANGED <<loop, out, remote_fingerprint>> /\ (queue' = queue \/ \E m : queue' = Append(queue, m))
  BY DEF StopCaller, StopBegins, StopSends, StopJoinsLoop, StopReleases, StopDeletes, StopLeavesLoop, StopEnds
<1>2. MessagesKept
  BY <1>0, <1>1, SentKept
<1>3. ASSUME UNCHANGED <<peers, conns>> PROVE Traced
  <2>1. Quiet
    BY <1>1, <1>3 DEF Quiet
  <2> QED
    BY <1>0, <1>3, <2>1, SameTraced
<1>4. ASSUME StopDeletes PROVE Traced
  <2>1. UNCHANGED peers /\ conns' = [conns EXCEPT ![stop.sc] = Free] /\ Free.st = "free"
    BY <1>4 DEF StopDeletes, Disconnected, Free
  <2>2. Quiet
    BY <1>0, <1>1, <2>1 DEF Quiet
  <2> QED
    BY <1>0, <2>1, <2>2, SameTraced
<1>5. ASSUME StopReleases PROVE Traced
  <2> DEFINE n == stop.i
             q == Released(peers[n])
  <2>1. n \in 1..Len(peers) /\ peers[n] \in Peer /\ Put(peers, peers', n, q) /\ UNCHANGED conns /\ loop.at = "exit"
    BY <1>0, <1>5, ReleaseStep DEF StopReleases, Core, Threading
  <2>2. /\ q.trusted_by_pairing = peers[n].trusted_by_pairing
        /\ q.expected_fingerprint = peers[n].expected_fingerprint
        /\ q.provisional = peers[n].provisional /\ q.is_trusted = peers[n].is_trusted /\ q.connection = None
    BY <2>1 DEF Released, Peer
  <2> HIDE DEF q, n
  <2>3. peers'[n] = q
    BY <1>0, <2>1 DEF Put
  <2>4. Heir(n, n)
    BY <1>1, <2>1, <2>2, <2>3 DEF Heir, Exposed
  <2>5. Quiet
    BY <1>1, <2>1 DEF Quiet
  <2> QED
    BY <1>0, <2>1, <2>4, <2>5, PutTraced
<1>6. Len(peers') = Len(peers)
  <2>1. CASE StopReleases
    BY <1>0, <2>1, ReleaseStep DEF Put
  <2>2. CASE UNCHANGED peers
    BY <2>2
  <2> QED
    BY <2>1, <2>2 DEF StopCaller, StopBegins, StopSends, StopJoinsLoop, StopDeletes, StopLeavesLoop, StopEnds
<1>7. Carries
  <2> SUFFICES ASSUME NEW k, NEW i, NEW j, NEW fp, Comes(k, i, j), Revoking(i, fp) PROVE Revoking(j, fp)'
    BY DEF Carries
  <2>1. i = j
    BY <1>0, <1>6, SameMoved DEF Comes
  <2> QED
    BY <1>1, <1>2, <2>1, RevokingKept
<1>8. Traced
  BY <1>3, <1>4, <1>5 DEF StopCaller, StopBegins, StopSends, StopJoinsLoop, StopLeavesLoop, StopEnds
<1> QED
  BY <1>1, <1>7, <1>8

(* The judgement of the peers is inductive.                                *)
LEMMA PairingStep ==
    ASSUME Core, PairingInv, [Next /\ UNCHANGED config]_<<vars, config>>
    PROVE  PairingInv'
<1>1. config' = config /\ Requested /\ Requesting
  BY DEF PairingInv
<1>2. Requested' /\ Requesting'
  BY <1>1, RequestedStep, RequestingStep
<1>3. ASSUME Traced, Carries, UNCHANGED remote_fingerprint PROVE PairingInv'
  <2>1. \A j \in 1..Len(peers') : Judged(j)'
    BY <1>1, <1>3, TracedJudged
  <2> QED
    BY <1>2, <2>1 DEF PairingInv
<1>4. CASE UNCHANGED <<vars, config>>
  <2>1. ASSUME NEW j \in 1..Len(peers') PROVE Judged(j)'
    <3>1. Judged(j) /\ OnePairing' = OnePairing /\ Calls' = Calls
      BY <1>1, <1>4, ConfigSame DEF PairingInv, vars, OnePairing
    <3>2. UNCHANGED <<peers, conns, loop, queue, out, remote_fingerprint>>
      BY <1>4 DEF vars
    <3>3. Doomed(j)' <=> Doomed(j)
      BY <3>2 DEF Doomed, Revoking, Revokes
    <3> QED
      BY <3>1, <3>2, <3>3 DEF Judged, Exposed
  <2> QED
    BY <1>2, <2>1 DEF PairingInv
<1>5. CASE Around
  <2>0. TypeInv
    BY DEF Core
  <2>1. CASE Traced /\ UNCHANGED remote_fingerprint
    BY <1>1, <1>3, <1>5, <2>1, AroundCarries
  <2>2. CASE Replaces
    <3>1. \A j \in 1..Len(peers') : Judged(j)'
      BY <1>1, <1>5, <2>0, <2>2, AroundMessages, ReplacesJudged
    <3> QED
      BY <1>2, <3>1 DEF PairingInv
  <2> QED
    BY <1>1, <1>5, <2>1, <2>2, AroundTraced
<1>6. CASE LoopHandles
  BY <1>3, <1>6, LoopTraced, LoopCarries, LoopRuns
<1>7. CASE Dial
  <2>1. UNCHANGED remote_fingerprint
    BY <1>7 DEF Dial, others
  <2> QED
    BY <1>3, <1>7, <2>1, DialTraced, LoopCarries
<1>8. CASE StopCaller
  BY <1>3, <1>8, StopTraced
<1> QED
  BY <1>4, <1>5, <1>6, <1>7, <1>8, StepKinds

(* There are no peers at the start.                                        *)
LEMMA InitPairing ==
    ASSUME Init PROVE PairingInv
<1>1. peers = <<>> /\ pairing = None
  BY DEF Init
<1>2. 1..Len(peers) = {}
  BY <1>1
<1> QED
  BY <1>1, <1>2 DEF PairingInv, Requested, Requesting

(* The revocation of a peer is one of the messages under way.              *)
LEMMA DoomedInFlight ==
    ASSUME Core, NEW i \in 1..Len(peers), Doomed(i)
    PROVE  \E m \in InFlight : m.type = "RevokePairingFingerprint" /\ m.ski = peers[i].expected_fingerprint
<1> DEFINE fp == peers[i].expected_fingerprint
<1>0. queue \in Seq(Allowed) /\ out \in [Threads -> Seq(Allowed)]
  BY DEF Core, TypeInv
<1>1. Revoking(i, fp)
  BY DEF Doomed
<1> HIDE DEF fp
<1>2. \A k \in 1..Len(queue) : queue[k] \in InFlight
  BY <1>0 DEF InFlight, Range
<1>3. ASSUME NEW t \in Threads, NEW k \in 1..Len(out[t]) PROVE out[t][k] \in InFlight
  <2>1. out[t][k] \in Range(out[t])
    BY <1>0, <1>3 DEF Range
  <2>2. Range(out[t]) \in {Range(out[x]) : x \in Threads}
    BY <1>3
  <2> QED
    BY <2>1, <2>2 DEF InFlight
<1>4. loop.at \in {"handle", "revoke", "stop", "post", "stopped"} => loop.msg \in InFlight
  BY DEF InFlight
<1>5. \E m \in InFlight : Revokes(m, fp)
  BY <1>1, <1>2, <1>3, <1>4 DEF Revoking
<1> QED
  BY <1>5 DEF Revokes, fp

(* The judgement of the peers, of which the next three theorems are        *)
(* consequences.                                                           *)
THEOREM NodePairings == Spec => [](Core /\ PairingInv)
BY InitPairing, PairingStep, CoreHolds, PTL DEF Spec

(* A peer that lost its trust to a newer pairing request keeps no          *)
(* connection past the hello phase: ShipNodeRevokePairingFingerprint is    *)
(* going to reach it.                                                      *)
THEOREM NodeRevokedIsDisconnected == Spec => []RevokedIsDisconnected
<1>1. Core /\ PairingInv => RevokedIsDisconnected
  <2> SUFFICES ASSUME Core, PairingInv, "distrust" \notin Calls, NEW i \in DOMAIN peers, Exposed(peers[i], conns)
               PROVE  \E m \in InFlight : /\ m.type = "RevokePairingFingerprint"
                                          /\ m.ski = peers[i].expected_fingerprint
    BY DEF RevokedIsDisconnected, Exposed
  <2>1. i \in 1..Len(peers)
    BY DEF Core, TypeInv
  <2> QED
    BY <2>1, DoomedInFlight DEF PairingInv, Judged
<1> QED
  BY <1>1, NodePairings, PTL

(* A peer that is trusted by a pairing request is so by the current one,   *)
(* or is about to be revoked.                                              *)
THEOREM NodeOneCurrentPairing == Spec => []OneCurrentPairing
<1>1. Core /\ PairingInv => OneCurrentPairing
  <2> SUFFICES ASSUME Core, PairingInv, OnePairing, NEW i \in DOMAIN peers, peers[i].trusted_by_pairing
               PROVE  \/ peers[i].expected_fingerprint = remote_fingerprint
                      \/ \E m \in InFlight : /\ m.type = "RevokePairingFingerprint"
                                             /\ m.ski = peers[i].expected_fingerprint
    BY DEF OneCurrentPairing, OnePairing
  <2>1. i \in 1..Len(peers)
    BY DEF Core, TypeInv
  <2> QED
    BY <2>1, DoomedInFlight DEF PairingInv, Judged
<1> QED
  BY <1>1, NodePairings, PTL

(* A provisional peer goes with its connection.                            *)
THEOREM NodeProvisionalDropped == Spec => []ProvisionalDropped
<1>1. Core /\ PairingInv => ProvisionalDropped
  <2> SUFFICES ASSUME Core, PairingInv, NEW i \in DOMAIN peers, peers[i].provisional, ~cancel
               PROVE  /\ ~peers[i].is_trusted
                      /\ \/ peers[i].connection # None
                         \/ \E m \in InFlight : /\ m.type = "RevokePairingFingerprint"
                                                /\ m.ski = peers[i].expected_fingerprint
    BY DEF ProvisionalDropped
  <2>1. i \in 1..Len(peers) /\ loop.at # "exit"
    BY DEF Core, TypeInv, Threading
  <2> QED
    BY <2>1, DoomedInFlight DEF PairingInv, Judged
<1> QED
  BY <1>1, NodePairings, PTL

-----------------------------------------------------------------------------
(* Dials.                                                                  *)

(* Where connections start, and nothing but its SKI tells a peer from      *)
(* another.                                                                *)
Reliable == ~MayFail /\ Calls \cap {"pairing", "peer"} = {} /\ DevicesDiffer

(* What a peer is known by is that of one device, and its timer is its     *)
(* own.                                                                    *)
Describes(p, d) ==
    /\ p.ski = d.ski /\ p.ship_id \in {None, d.id}
    /\ p.expected_fingerprint \in {None, d.fp} /\ p.peer_fingerprint \in {None, d.fp}
    /\ p.due \in {None, d.ski}
(* What is known of the peer is that of some device.                       *)
Known(p) == \E d \in Devices : Describes(p, d)

(* A message that makes the loop dial the peer with SKI s.                 *)
Dials(m, s) ==
    \/ m.type = "MdnsEntriesFound"
    \/ m.type \in {"RetryConnectionForSki", "ShipRegisterSki"} /\ m.ski = s

(* The loop is going to dial it.                                           *)
Called(s) ==
    \/ loop.ski = s /\ (loop.at = "dial" \/ loop.dial)
    \/ loop.at = "handle" /\ Dials(loop.msg, s)
    \/ \E k \in 1..Len(queue) : Dials(queue[k], s)
    \/ \E t \in Threads : \E k \in 1..Len(out[t]) : Dials(out[t][k], s)

(* A peer that could be dialled, and one whose timer runs.                 *)
Visible(s) == \E k \in 1..Len(mdns_entries) : mdns_entries[k].ski = s
(* A peer that could be dialled and is not.                                *)
Idling(p) == ClientSupported /\ ~cancel /\ ~p.is_attempt_running /\ Visible(p.ski)
(* A peer whose timer runs, or whose timer's callback has yet to send.     *)
Waking(p) == p.retry = "armed" \/ p.due # None

(* A peer that could be dialled has a timer or a message that makes the    *)
(* loop dial it.                                                           *)
Roused(i) == Idling(peers[i]) => Waking(peers[i]) \/ Called(peers[i].ski)
(* The dials, of the state.                                                *)
DialInv == Reliable => \A i \in 1..Len(peers) : Known(peers[i]) /\ Roused(i)

(* The messages under way, one by one.                                     *)
LEMMA CalledInFlight ==
    ASSUME TypeInv, NEW s, Called(s)
    PROVE  \/ loop.ski = s /\ (loop.at = "dial" \/ loop.dial)
           \/ \E m \in InFlight : Dials(m, s)
<1>0. /\ DOMAIN queue = 1..Len(queue)
      /\ \A t \in Threads : DOMAIN out[t] = 1..Len(out[t])
  BY LenProperties DEF TypeInv
<1>1. ASSUME NEW k \in 1..Len(queue) PROVE queue[k] \in InFlight
  BY <1>0, <1>1 DEF InFlight, Range
<1>2. ASSUME NEW t \in Threads, NEW k \in 1..Len(out[t]) PROVE out[t][k] \in InFlight
  BY <1>0, <1>2 DEF InFlight, Range
<1>3. loop.at = "handle" => loop.msg \in InFlight
  BY DEF InFlight
<1> QED
  BY <1>1, <1>2, <1>3 DEF Called

(* The service of a peer that is known has its SKI.                        *)
LEMMA KnownService ==
    ASSUME TypeInv, DevicesDiffer, NEW p, Known(p)
    PROVE  /\ p.ski \in Skis /\ p.ski # None
           /\ FindServiceForPeer(p) # 0 => mdns_entries[FindServiceForPeer(p)].ski = p.ski
           /\ FindServiceForPeer(p) # 0 => Visible(p.ski)
           /\ FindServiceForPeer(p) = 0 => cancel \/ ~Visible(p.ski)
<1>0. PICK d \in Devices : Describes(p, d)
  BY DEF Known
<1>1. p.ski = d.ski /\ p.ski \in Skis /\ p.ski # None
  BY <1>0, NoneIsNone DEF Describes, Skis, TypeInv
<1>2. mdns_entries \in Seq(Devices) /\ Len(mdns_entries) \in Nat
  BY LenProperties DEF TypeInv
<1>3. ASSUME NEW e \in Devices
      PROVE  (IF p.ship_id # None /\ p.expected_fingerprint # None THEN e.id = p.ship_id ELSE e.ski = p.ski)
                <=> e.ski = p.ski
  <2>1. e.ski = d.ski <=> e = d
    BY DEF DevicesDiffer
  <2>2. e.id = d.id <=> e = d
    BY DEF DevicesDiffer
  <2>3. p.ship_id # None => p.ship_id = d.id
    BY <1>0 DEF Describes
  <2> QED
    BY <1>1, <2>1, <2>2, <2>3
<1>4. \A k \in 1..Len(mdns_entries) : mdns_entries[k] \in Devices
  BY <1>2, ElementOfSeq
<1> DEFINE i == FindServiceForPeer(p)
           fits(e) == IF p.ship_id # None /\ p.expected_fingerprint # None THEN e.id = p.ship_id ELSE e.ski = p.ski
<1>5. \/ i = 0 /\ (cancel \/ \A j \in 1..Len(mdns_entries) : ~fits(mdns_entries[j]))
      \/ i \in 1..Len(mdns_entries) /\ ~cancel /\ fits(mdns_entries[i])
  BY <1>2, ServiceFields
<1> HIDE DEF i
<1>6. i # 0 => i \in 1..Len(mdns_entries) /\ mdns_entries[i].ski = p.ski
  BY <1>3, <1>4, <1>5
<1>7. i = 0 => cancel \/ \A j \in 1..Len(mdns_entries) : mdns_entries[j].ski # p.ski
  BY <1>2, <1>3, <1>4, <1>5
<1> QED
  BY <1>1, <1>6, <1>7 DEF i, Visible

(* The property from the invariant.                                        *)
LEMMA RousedWakes ==
    ASSUME TypeInv, DialInv, Reliable
    PROVE  NoLostWakeup
<1> SUFFICES ASSUME NEW i \in DOMAIN peers, CouldDial(peers[i]) PROVE WillDial(peers[i])
  BY DEF NoLostWakeup
<1>1. i \in 1..Len(peers)
  BY LenProperties DEF TypeInv
<1> DEFINE p == peers[i]
<1>2. Known(p) /\ Roused(i)
  BY <1>1 DEF DialInv
<1>3. Idling(p)
  BY <1>2, KnownService DEF CouldDial, Idling, Reliable
<1>4. Waking(p) \/ Called(p.ski)
  BY <1>2, <1>3 DEF Roused
<1>5. CASE Waking(p)
  BY <1>5 DEF Waking, WillDial, Firing
<1>6. CASE Called(p.ski)
  BY <1>6, CalledInFlight DEF WillDial, Dials
<1> QED
  BY <1>4, <1>5, <1>6

(* What a step does to the peers: each is known and looked after, or was   *)
(* there and is no less so.                                                *)
Rests(p, q) ==
    /\ q.ski = p.ski /\ (p.is_attempt_running => q.is_attempt_running)
    /\ Waking(p) => Waking(q)
    /\ Known(p) => Known(q)
(* The j-th peer of the next state is known and looked after.              *)
Risen(j) == Known(peers'[j]) /\ Roused(j)'
(* All peers of the next state are, or were there.                         *)
Settled == \A j \in 1..Len(peers') : Risen(j) \/ \E i \in 1..Len(peers) : Rests(peers[i], peers'[j])
(* A dial that is to come still is, unless Stop begins.                    *)
CallsKept == \A s : ~cancel' /\ Called(s) => Called(s)'

(* Then all peers are looked after, if they were.                          *)
LEMMA DialFollows ==
    ASSUME DialInv, config' = config, UNCHANGED mdns_entries, cancel => cancel', Reliable => CallsKept /\ Settled
    PROVE  DialInv'
<1>1. Reliable' = Reliable /\ Devices' = Devices
  BY ConfigSame DEF Reliable
<1> SUFFICES ASSUME Reliable, NEW j \in 1..Len(peers') PROVE Known(peers'[j]) /\ Roused(j)'
  BY <1>1 DEF DialInv, Known, Describes
<1>2. CASE Risen(j)
  BY <1>2 DEF Risen
<1>3. ASSUME NEW i \in 1..Len(peers), Rests(peers[i], peers'[j]) PROVE Known(peers'[j]) /\ Roused(j)'
  <2>1. Known(peers[i]) /\ Roused(i)
    BY DEF DialInv
  <2>2. \A s : Visible(s)' <=> Visible(s)
    BY DEF Visible
  <2> QED
    BY <1>3, <2>1, <2>2 DEF Rests, Roused, Idling, Waking, CallsKept, Visible
<1> QED
  BY <1>2, <1>3 DEF Settled

(* A peer of which nothing is changed that a dial looks at.                *)
Same(p, q) ==
    /\ q.ski = p.ski /\ q.is_attempt_running = p.is_attempt_running
    /\ q.ship_id = p.ship_id /\ q.expected_fingerprint = p.expected_fingerprint
    /\ q.peer_fingerprint = p.peer_fingerprint /\ q.retry = p.retry /\ q.due = p.due
(* It is as it was,                                                        *)
LEMMA SameRests ==
    ASSUME NEW p, NEW q, Same(p, q) PROVE Rests(p, q)
BY DEF Same, Rests, Known, Describes, Waking

(* and so are all of them,                                                 *)
LEMMA SameSettled ==
    ASSUME Len(peers') = Len(peers), \A j \in 1..Len(peers) : Same(peers[j], peers'[j])
    PROVE  Settled
BY SameRests DEF Settled

(* the more so where no peer changes.                                      *)
LEMMA UnchangedSettled ==
    ASSUME UNCHANGED peers PROVE Settled
BY SameSettled DEF Same

(* One peer is changed or added,                                           *)
LEMMA PutSettled ==
    ASSUME TypeInv, NEW k, NEW q, Put(peers, peers', k, q),
           Risen(k) \/ (k <= Len(peers) /\ Rests(peers[k], q))
    PROVE  Settled
<1>0. Len(peers) \in Nat
  BY FindTyped DEF TypeInv
<1> SUFFICES ASSUME NEW j \in 1..Len(peers') PROVE Risen(j) \/ \E i \in 1..Len(peers) : Rests(peers[i], peers'[j])
  BY DEF Settled
<1>1. k \in 1..(Len(peers) + 1) /\ peers'[j] = IF j = k THEN q ELSE peers[j]
  BY DEF Put
<1>2. CASE j = k
  BY <1>0, <1>1, <1>2
<1>3. CASE j # k
  <2>1. j \in 1..Len(peers) /\ Same(peers[j], peers'[j])
    BY <1>0, <1>1, <1>3 DEF Put, Same
  <2> QED
    BY <2>1, SameRests
<1> QED
  BY <1>2, <1>3

(* or one is removed, or loses its approval.                               *)
LEMMA CutSettled ==
    ASSUME TypeInv, NEW k, Cut(peers, peers', k)
    PROVE  Settled
<1>0. Len(peers) \in Nat
  BY FindTyped DEF TypeInv
<1> SUFFICES ASSUME NEW j \in 1..Len(peers') PROVE \E i \in 1..Len(peers) : Rests(peers[i], peers'[j])
  BY DEF Settled
<1> DEFINE i == IF j < k THEN j ELSE j + 1
<1>1. i \in 1..Len(peers) /\ peers'[j] = peers[i]
  BY <1>0 DEF Cut
<1> HIDE DEF i
<1> QED
  BY <1>1, SameRests DEF Same

(* An approval that is taken back keeps no peer from being dialled.        *)
LEMMA WithdrewSettled ==
    ASSUME TypeInv, NEW i \in 0..Len(peers), Withdrew(peers, peers', i)
    PROVE  Settled
<1>0. Len(peers) \in Nat /\ \A j \in 1..Len(peers) : peers[j] \in Peer
  BY FindTyped DEF TypeInv
<1>1. CASE i = 0
  BY <1>1, UnchangedSettled DEF Withdrew
<1>2. CASE i # 0
  <2> DEFINE q == [peers[i] EXCEPT !.pending_approval_id = 0]
  <2>1. Put(peers, peers', i, q) /\ i \in 1..Len(peers)
    BY <1>0, <1>2 DEF Withdrew
  <2>2. Same(peers[i], q)
    BY <1>0, <2>1 DEF Peer, Same
  <2> HIDE DEF q
  <2> QED
    BY <2>1, <2>2, SameRests, PutSettled
<1> QED
  BY <1>1, <1>2

(* A message that is kept is still to be handled.                          *)
LEMMA MessagesCalled ==
    ASSUME MessagesKept, NEW s, Called(s),
           \/ UNCHANGED loop
           \/ loop.at # "handle" \/ ~Dials(loop.msg, s),
           loop.ski = s /\ (loop.at = "dial" \/ loop.dial) => Called(s)'
    PROVE  Called(s)'
<1>1. CASE \E k \in 1..Len(queue) : Dials(queue[k], s)
  <2>1. \E k \in 1..Len(queue') : Dials(queue'[k], s)
    BY <1>1 DEF MessagesKept
  <2> QED
    BY <2>1 DEF Called, Dials
<1>2. CASE \E t \in Threads : \E k \in 1..Len(out[t]) : Dials(out[t][k], s)
  <2>1. \/ \E k \in 1..Len(queue') : Dials(queue'[k], s)
        \/ \E t \in Threads : \E k \in 1..Len(out'[t]) : Dials(out'[t][k], s)
    BY <1>2 DEF MessagesKept
  <2> QED
    BY <2>1 DEF Called, Dials, Threads
<1>3. CASE loop.at = "handle" /\ Dials(loop.msg, s)
  BY <1>3 DEF Called, Dials
<1> QED
  BY <1>1, <1>2, <1>3 DEF Called

(* The threads around the loop lose no message,                            *)
LEMMA AroundCalls ==
    ASSUME TypeInv, config' = config, Around
    PROVE  CallsKept
<1>1. MessagesKept /\ UNCHANGED loop
  BY AroundMessages, AroundType
<1>2. ASSUME NEW s, Called(s) PROVE Called(s)'
  BY <1>1, <1>2, MessagesCalled DEF Called
<1> QED
  BY <1>2 DEF CallsKept

(* and the loop handles those it has received.                             *)
LEMMA ReceiveCalls ==
    ASSUME Core, LoopReceives, NEW s, Called(s)
    PROVE  Called(s)'
<1>0. queue \in Seq(Allowed) /\ loop \in Loops /\ Len(queue) \in Nat /\ ~loop.dial
  BY LenProperties DEF Core, TypeInv, LoopReceives, LoopInv, Reaping
<1>1. /\ loop.at = "receive" /\ queue # <<>> /\ queue' = Tail(queue) /\ UNCHANGED out
      /\ loop' = [loop EXCEPT !.at = "handle", !.msg = Head(queue)]
  BY DEF LoopReceives, others
<1>2. loop'.at = "handle" /\ loop'.msg = Head(queue)
  BY <1>0, <1>1 DEF Loops
<1>3. /\ Head(queue) = queue[1] /\ Len(Tail(queue)) = Len(queue) - 1
      /\ \A k \in 1..(Len(queue) - 1) : Tail(queue)[k] = queue[k + 1]
  BY <1>0, <1>1, HeadTailProperties
<1>4. CASE \E k \in 1..Len(queue) : Dials(queue[k], s)
  <2>1. PICK k \in 1..Len(queue) : Dials(queue[k], s)
    BY <1>4
  <2>2. CASE k = 1
    BY <1>2, <1>3, <2>1, <2>2 DEF Called, Dials
  <2>3. CASE k # 1
    <3>1. k - 1 \in 1..Len(queue') /\ queue'[k - 1] = queue[k]
      BY <1>0, <1>1, <1>3, <2>3
    <3>2. Dials(queue'[k - 1], s)
      BY <2>1, <3>1
    <3> QED
      BY <3>1, <3>2 DEF Called, Dials
  <2> QED
    BY <2>2, <2>3
<1>5. CASE \E t \in Threads : \E k \in 1..Len(out[t]) : Dials(out[t][k], s)
  BY <1>1, <1>5 DEF Called, Dials, Threads
<1> QED
  BY <1>0, <1>1, <1>4, <1>5 DEF Called

(* The loop loses no dial.                                                 *)
LEMMA LoopCalls ==
    ASSUME Core, LoopHandles, ~cancel
    PROVE  CallsKept
<1>0. TypeInv /\ LoopInv /\ loop \in Loops /\ Threading(peers, conns, loop, stop)
  BY DEF Core, TypeInv
<1> SUFFICES ASSUME NEW s, Called(s) PROVE Called(s)'
  BY DEF CallsKept
<1>1. CASE LoopReceives
  BY <1>1, ReceiveCalls
<1>2. ASSUME ~LoopReceives PROVE Called(s)'
  <2>0. MessagesKept
    BY <1>0, <1>2, LoopMessages
  <2>1. CASE ShipNodeRegisterSki
    <3>1. loop.at = "handle" /\ loop' = [loop EXCEPT !.at = "dial", !.ski = loop.msg.ski] /\ loop.msg.type = "ShipRegisterSki"
      BY <2>1 DEF ShipNodeRegisterSki, Handles
    <3>2. loop'.at = "dial" /\ loop'.ski = loop.msg.ski /\ ~loop.dial
      BY <1>0, <3>1 DEF Loops, LoopInv, Reaping
    <3>3. CASE Dials(loop.msg, s)
      BY <3>1, <3>2, <3>3 DEF Called, Dials
    <3>4. CASE ~Dials(loop.msg, s)
      BY <2>0, <3>1, <3>2, <3>4, MessagesCalled
    <3> QED
      BY <3>3, <3>4
  <2>2. CASE LoopJoins \/ LoopPosts
    <3>1. loop' = [loop EXCEPT !.at = "stopped"] \/ loop' = [loop EXCEPT !.at = "post"]
      BY <2>2 DEF LoopJoins, LoopPosts, Goto
    <3>2. loop'.ski = loop.ski /\ loop'.dial = loop.dial /\ loop.at \in {"stop", "post"}
      BY <1>0, <2>2, <3>1 DEF Loops, LoopJoins, LoopPosts
    <3>3. loop.ski = s /\ (loop.at = "dial" \/ loop.dial) => Called(s)'
      BY <3>2 DEF Called
    <3> QED
      BY <2>0, <3>2, <3>3, MessagesCalled
  <2>3. CASE LoopDeletes
    <3>0. loop.at = "stopped"
      BY <2>3 DEF LoopDeletes
    <3>1. ASSUME loop.ski = s, loop.dial PROVE Called(s)'
      <4>1. loop' = [loop EXCEPT !.at = "dial", !.sc = None, !.dial = FALSE]
        BY <1>0, <2>3, <3>1 DEF LoopDeletes, LoopInv
      <4>2. loop'.at = "dial" /\ loop'.ski = s
        BY <1>0, <3>1, <4>1 DEF Loops
      <4> QED
        BY <4>2 DEF Called
    <3> QED
      BY <2>0, <3>0, <3>1, MessagesCalled
  <2>4. ASSUME loop.at # "dial", ~Reaping(loop), loop.at = "handle" => ~Dials(loop.msg, s) PROVE Called(s)'
    BY <1>0, <2>0, <2>4, MessagesCalled DEF LoopInv
  <2>5. ASSUME LoopHandles, ~ShipNodeRegisterSki, ~LoopJoins, ~LoopPosts, ~LoopDeletes
        PROVE  loop.at # "dial" /\ ~Reaping(loop) /\ (loop.at = "handle" => ~Dials(loop.msg, s))
    BY <1>2, <2>5
      DEF LoopHandles, LoopChecksCancel, LoopIgnores, CloseShipConnection, Reaping, Dials,
        ShipNodeUnregisterSki, ShipNodeCancelPairingSki, LoopAborts, LoopRemoves,
        ShipNodeApprovePendingHandshake, LoopApproves, ShipNodePromoteFingerprint, LoopPromotes, Handles,
        ShipNodeRevokePairingFingerprint, LoopRevokes
  <2> QED
    BY <2>1, <2>2, <2>3, <2>4, <2>5
<1> QED
  BY <1>1, <1>2

(* The thread of a connection leaves what a dial looks at, or names the    *)
(* SHIP ID,                                                                *)
LEMMA ThreadSettled ==
    ASSUME Core, Reliable, NEW a \in Addrs, ConnectionThread(a)
    PROVE  Settled
<1>0. TypeInv /\ Len(peers) \in Nat /\ \A j \in 1..Len(peers) : peers[j] \in Peer
  BY FindTyped DEF Core, TypeInv
<1>1. CASE UNCHANGED peers
  BY <1>1, UnchangedSettled
<1>2. CASE \E i \in 0..Len(peers) : Withdrew(peers, peers', i)
  BY <1>0, <1>2, WithdrewSettled
<1>3. ASSUME NEW i \in 1..Len(peers), Put(peers, peers', i, Accepted(peers[i])) PROVE Settled
  <2>1. Same(peers[i], Accepted(peers[i]))
    BY <1>0 DEF Same, Accepted, Peer
  <2> QED
    BY <1>0, <1>3, <2>1, SameRests, PutSettled
<1>4. ASSUME NEW i \in 1..Len(peers), Put(peers, peers', i, OnHandshakeComplete(peers[i])) PROVE Settled
  <2>1. Same(peers[i], OnHandshakeComplete(peers[i]))
    BY <1>0 DEF Same, OnHandshakeComplete, Peer
  <2> QED
    BY <1>0, <1>4, <2>1, SameRests, PutSettled
<1>5. ASSUME NEW i \in 1..Len(peers), NEW d \in Devices, peers[i].ski = d.ski,
             Put(peers, peers', i, [peers[i] EXCEPT !.ship_id = d.id])
      PROVE  Settled
  <2> DEFINE p == peers[i]
             q == [p EXCEPT !.ship_id = d.id]
  <2>1. /\ q.ski = p.ski /\ q.is_attempt_running = p.is_attempt_running /\ q.ship_id = d.id
        /\ q.expected_fingerprint = p.expected_fingerprint
        /\ q.peer_fingerprint = p.peer_fingerprint /\ q.retry = p.retry /\ q.due = p.due
    BY <1>0 DEF Peer
  <2>2. Put(peers, peers', i, q)
    BY <1>5
  <2> HIDE DEF q
  <2>3. Known(p) => Known(q)
    BY <1>5, <2>1 DEF Known, Describes, Reliable, DevicesDiffer
  <2>4. Rests(p, q)
    BY <2>1, <2>3 DEF Rests, Waking
  <2> QED
    BY <1>0, <2>2, <2>4, PutSettled
<1> QED
  BY <1>0, <1>1, <1>2, <1>3, <1>4, <1>5, ThreadPeers DEF ThreadTable

(* the timer of a peer becomes its message,                                *)
LEMMA TimerSettled ==
    ASSUME Core, Reliable, DialInv, NEW i \in DOMAIN peers, RetryTimer(i)
    PROVE  Settled
<1>0. /\ TypeInv /\ Len(peers) \in Nat /\ peers \in Seq(Peer) /\ queue \in Seq(Allowed)
      /\ i \in 1..Len(peers) /\ peers[i] \in Peer
  BY FindTyped DEF Core, TypeInv
<1> DEFINE p == peers[i]
<1>1. PICK d \in Devices : Describes(p, d)
  BY <1>0 DEF DialInv, Known
<1>2. d.ski # None /\ d.ski \in Skis
  BY <1>0, NoneIsNone DEF TypeInv, Skis
<1>3. CASE RetryTimerFires(i)
  <2> DEFINE q == [p EXCEPT !.retry = "expired", !.due = IF cancel THEN None ELSE p.ski]
  <2>1. peers' = [peers EXCEPT ![i] = q] /\ UNCHANGED cancel
    BY <1>0, <1>3 DEF RetryTimerFires
  <2>2. /\ q.ski = p.ski /\ q.is_attempt_running = p.is_attempt_running /\ q.ship_id = p.ship_id
        /\ q.expected_fingerprint = p.expected_fingerprint
        /\ q.peer_fingerprint = p.peer_fingerprint /\ q.due = IF cancel THEN None ELSE p.ski
    BY <1>0, SMTT(60) DEF Peer
  <2>8. q \in Peer
    <3> DEFINE s == IF cancel THEN None ELSE peers[i].ski
    <3>1. peers[i].ski \in Skis \cup {None}
      BY <1>0 DEF Peer
    <3>2. s \in Skis \cup {None}
      BY <3>1
    <3>3. q = [[peers[i] EXCEPT !.retry = "expired"] EXCEPT !.due = s]
      OBVIOUS
    <3> HIDE DEF s
    <3>4. [peers[i] EXCEPT !.retry = "expired"] \in Peer
      BY <1>0 DEF Peer
    <3>5. \A u \in Peer : [u EXCEPT !.due = s] \in Peer
      BY <3>2 DEF Peer
    <3> QED
      BY <3>3, <3>4, <3>5
  <2> HIDE DEF q
  <2>3. Put(peers, peers', i, q)
    BY <1>0, <2>1, <2>8, EditPut
  <2>4. Describes(q, d)
    BY <1>1, <2>2 DEF Describes
  <2>5. ~cancel => Waking(q)
    BY <1>1, <1>2, <2>2 DEF Waking, Describes
  <2>6. peers'[i] = q
    BY <1>0, <2>3 DEF Put
  <2>7. Risen(i)
    BY <2>1, <2>4, <2>5, <2>6 DEF Risen, Known, Roused, Idling, Waking
  <2> QED
    BY <1>0, <2>3, <2>7, PutSettled
<1>4. CASE RetryTimerPosts(i)
  <2> DEFINE q == [p EXCEPT !.due = None]
             m == SkiMsg("RetryConnectionForSki", p.due)
  <2>1. peers' = [peers EXCEPT ![i] = q] /\ p.due # None /\ queue' = Append(queue, m)
    BY <1>0, <1>4 DEF RetryTimerPosts, Firing
  <2>2. /\ q.ski = p.ski /\ q.is_attempt_running = p.is_attempt_running /\ q.ship_id = p.ship_id
        /\ q.expected_fingerprint = p.expected_fingerprint
        /\ q.peer_fingerprint = p.peer_fingerprint /\ q.due = None
        /\ q \in Peer
    BY <1>0 DEF Peer
  <2>3. p.due = p.ski /\ m.type = "RetryConnectionForSki" /\ m.ski = p.ski
    BY <1>1, <2>1 DEF Describes, SkiMsg, Msg
  <2> HIDE DEF q, m
  <2>4. Put(peers, peers', i, q)
    BY <1>0, <2>1, <2>2, EditPut
  <2>5. Describes(q, d)
    BY <1>1, <2>2 DEF Describes
  <2>6. peers'[i] = q
    BY <1>0, <2>4 DEF Put
  <2>7. Dials(m, q.ski)
    BY <2>2, <2>3 DEF Dials
  <2>8. Len(queue') = Len(queue) + 1 /\ queue'[Len(queue) + 1] = m /\ Len(queue) \in Nat
    BY <1>0, <2>1, AppendProperties, LenProperties
  <2>9. Called(peers[i].ski)'
    <3>1. Len(queue') \in 1..Len(queue') /\ Dials(queue'[Len(queue')], peers'[i].ski)
      BY <2>6, <2>7, <2>8
    <3> QED
      BY <3>1 DEF Called, Dials
  <2>10. Risen(i)
    BY <2>5, <2>6, <2>9 DEF Risen, Known, Roused
  <2> QED
    BY <1>0, <2>4, <2>10, PutSettled
<1> QED
  BY <1>3, <1>4 DEF RetryTimer

(* the server runs an attempt for the peer,                                *)
LEMMA ServedSettled ==
    ASSUME Core, Reliable, DialInv, Served
    PROVE  Settled
<1>0. /\ TypeInv /\ Len(peers) \in Nat /\ \A j \in 1..Len(peers) : peers[j] \in Peer
  BY FindTyped DEF Core, TypeInv
<1> DEFINE d == server
           k == IF PeerOf(d) = 0 THEN Len(peers) + 1 ELSE PeerOf(d)
           x == AdmittedPeer(d)
           e == Entry(peers, k, d.ski)
<1>1. PICK a \in Addrs : d \in Devices /\ Put(peers, peers', k, ServerConnect(x, a))
  BY DEF Served
<1> DEFINE q == ServerConnect(x, a)
<1>2. /\ k \in 1..(Len(peers) + 1) /\ (k <= Len(peers) <=> PeerOf(d) # 0) /\ x \in Peer /\ x.ski = d.ski
      /\ x.ship_id = e.ship_id /\ x.peer_fingerprint = d.fp
      /\ x.expected_fingerprint = IF ByPairing(d) THEN remote_fingerprint ELSE e.expected_fingerprint
  BY <1>0, <1>1, AdmittedFields
<1>3. x.due = e.due /\ x.retry = e.retry
  <2>1. e = IF PeerOf(d) = 0 THEN NodeConnection(d.ski) ELSE peers[PeerOf(d)]
    BY <1>2 DEF Entry
  <2> QED
    BY <1>2, <2>1 DEF AdmittedPeer, NodeConnection, Peer
<1>4. /\ q.ski = x.ski /\ q.is_attempt_running /\ q.ship_id = x.ship_id /\ q.due = x.due
      /\ q.expected_fingerprint = x.expected_fingerprint /\ q.peer_fingerprint = x.peer_fingerprint
  BY <1>2 DEF ServerConnect, Peer
<1>5. ByPairing(d) => remote_fingerprint = d.fp
  BY DEF ByPairing, FingerprintMatches
<1>6. Put(peers, peers', k, q) /\ peers'[k] = q
  BY <1>0, <1>1, <1>2 DEF Put
<1>7. e.ship_id \in {None, d.id} /\ e.expected_fingerprint \in {None, d.fp} /\ e.due \in {None, d.ski}
  <2>1. CASE PeerOf(d) = 0
    BY <1>2, <2>1 DEF Entry, NodeConnection
  <2>2. CASE PeerOf(d) # 0
    <3>1. k \in 1..Len(peers) /\ e = peers[k] /\ k = PeerOf(d)
      BY <1>2, <2>2 DEF Entry
    <3>2. PICK g \in Devices : Describes(e, g)
      BY <3>1 DEF DialInv, Known
    <3>3. e.ski = d.ski \/ e.expected_fingerprint = d.fp
      <4>1. k = FindWithSki(peers, d.ski) \/ k = FindWithFingerprint(peers, d.fp)
        BY <3>1 DEF PeerOf
      <4> HIDE DEF k
      <4>2. k = FindWithSki(peers, d.ski) => peers[k].ski = d.ski
        BY <1>0, <3>1, SkiFields
      <4>3. k = FindWithFingerprint(peers, d.fp) => peers[k].expected_fingerprint = d.fp
        BY <1>0, <3>1, FingerprintFields
      <4> QED
        BY <3>1, <4>1, <4>2, <4>3
    <3>4. d.fp # None
      BY <1>0, <1>1, NoneIsNone DEF TypeInv, Fps
    <3>5. g = d
      BY <1>1, <3>2, <3>3, <3>4 DEF Describes, Reliable, DevicesDiffer
    <3> QED
      BY <3>2, <3>5 DEF Describes
  <2> QED
    BY <2>1, <2>2
<1> HIDE DEF q, k, x, e
<1>8. Describes(q, d)
  BY <1>2, <1>3, <1>4, <1>5, <1>7 DEF Describes
<1>9. PICK n : n = k
  OBVIOUS
<1>10. Risen(n)
  BY <1>1, <1>4, <1>6, <1>8, <1>9 DEF Risen, Known, Roused, Idling
<1> QED
  BY <1>0, <1>6, <1>9, <1>10, PutSettled

(* and the calls do nothing of the kind.                                   *)
LEMMA AroundSettled ==
    ASSUME Core, Reliable, DialInv, Requested, config' = config, Around, UNCHANGED mdns_entries
    PROVE  Settled
<1>0. /\ TypeInv /\ peers \in Seq(Peer) /\ Len(peers) \in Nat /\ \A j \in 1..Len(peers) : peers[j] \in Peer
      /\ "pairing" \notin Calls /\ "peer" \notin Calls /\ pairing = None
  BY FindTyped DEF Core, TypeInv, Reliable, Requested
<1>1. ASSUME NEW s \in Skis, NEW b \in BOOLEAN,
             RegisterRemoteSki(s, b) \/ UnregisterRemoteSki(s) \/ CancelPairingWithSki(s)
      PROVE  Settled
  <2>1. PICK i \in 0..Len(peers) : peers' = Withdraw(peers, i)
    BY <1>0, <1>1, TypeWithdraw
  <2> QED
    BY <1>0, <2>1, WithdrawFields, WithdrewSettled
<1>2. ASSUME NEW s \in Skis, ApprovePendingHandshakeWithSki(s) PROVE Settled
  <2>1. PICK i \in 1..Len(peers) :
            Put(peers, peers', i, [peers[i] EXCEPT !.pending_approval_id = next_approval_id + 1])
    BY <1>0, <1>2, TypeApprove
  <2> DEFINE q == [peers[i] EXCEPT !.pending_approval_id = next_approval_id + 1]
  <2>2. Same(peers[i], q)
    BY <1>0 DEF Peer, Same
  <2>3. Put(peers, peers', i, q)
    BY <2>1
  <2> HIDE DEF q
  <2> QED
    BY <1>0, <2>2, <2>3, SameRests, PutSettled
<1>3. ASSUME NEW fp \in Fps \cup {None}, RegisterFingerprint(fp) PROVE Settled
  <2>1. RegisterRemoteFingerprint("app", fp) /\ "fingerprint" \in Calls /\ "app" \in Threads
    BY <1>3 DEF RegisterFingerprint, Call, Threads
  <2>2. peers' = peers \/ Marked(peers, peers', remote_fingerprint)
    BY <1>0, <2>1, FingerprintStep
  <2>3. CASE Marked(peers, peers', remote_fingerprint)
    <3>1. ASSUME NEW j \in 1..Len(peers) PROVE Same(peers[j], peers'[j])
      <4> DEFINE q == [peers[j] EXCEPT !.is_trusted = FALSE, !.provisional = TRUE, !.pending_approval_id = 0]
      <4>1. Same(peers[j], q)
        BY <1>0 DEF Peer, Same
      <4>2. peers'[j] = peers[j] \/ peers'[j] = q
        BY <2>3 DEF Marked
      <4> HIDE DEF q
      <4> QED
        BY <4>1, <4>2 DEF Same
    <3> QED
      BY <2>3, <3>1, SameSettled DEF Marked
  <2> QED
    BY <2>2, <2>3, UnchangedSettled
<1>4. CASE Application
  <2>1. ASSUME NEW d \in Devices, RegisterRemoteFingerprintWithShipId(d) PROVE FALSE
    BY <1>0, <2>1 DEF RegisterRemoteFingerprintWithShipId, Call
  <2> QED
    BY <1>1, <1>2, <1>3, <1>4, <2>1 DEF Application
<1>5. CASE Browser
  <2>1. UNCHANGED peers
    BY <1>0, <1>5 DEF Browser, OnMdnsEntriesFound, PairingRequestAccepted, PairingRegistersPeer
  <2> QED
    BY <2>1, UnchangedSettled
<1>6. CASE Server
  <2>1. CASE \E d \in Devices : ServerAccept(d)
    BY <2>1, UnchangedSettled DEF ServerAccept
  <2>2. CASE OnWebsocketServerConnection
    BY <1>0, <2>2, TypeServer, ServedSettled, UnchangedSettled
  <2> QED
    BY <1>6, <2>1, <2>2 DEF Server
<1>7. CASE \E t \in Threads : Send(t)
  BY <1>7, UnchangedSettled DEF Send
<1> QED
  BY <1>4, <1>5, <1>6, <1>7, ThreadSettled, TimerSettled DEF Around

(* The browser that finds services has the loop dial every peer.           *)
LEMMA BrowseDials ==
    ASSUME Core, DialInv, config' = config, NEW found, OnMdnsEntriesFound(found)
    PROVE  DialInv'
<1>0. out \in [Threads -> Seq(Allowed)] /\ "mdns" \in Threads
  BY DEF Core, TypeInv, Threads
<1>1. /\ UNCHANGED peers
      /\ ClientSupported => out' = [out EXCEPT !["mdns"] = <<Msg("MdnsEntriesFound")>>]
  BY DEF OnMdnsEntriesFound, Post
<1>2. Reliable' = Reliable /\ Devices' = Devices
  BY ConfigSame DEF Reliable
<1>3. ASSUME NEW s, ClientSupported PROVE Called(s)'
  <2>1. Len(out'["mdns"]) = 1 /\ out'["mdns"][1].type = "MdnsEntriesFound"
    BY <1>0, <1>1, <1>3 DEF Msg
  <2>2. 1 \in 1..Len(out'["mdns"]) /\ Dials(out'["mdns"][1], s)
    BY <2>1 DEF Dials
  <2> QED
    BY <1>0, <2>2 DEF Called, Dials, Threads
<1>4. ASSUME Reliable, NEW i \in 1..Len(peers') PROVE Known(peers'[i]) /\ Roused(i)'
  <2>1. Roused(i)'
    BY <1>3 DEF Roused, Idling
  <2> QED
    BY <1>1, <1>4, <2>1 DEF DialInv
<1> QED
  BY <1>2, <1>4 DEF DialInv, Known, Describes

(* The threads around the loop keep the dials,                             *)
LEMMA AroundDials ==
    ASSUME Core, DialInv, Requested, config' = config, Around
    PROVE  DialInv'
<1>0. TypeInv /\ UNCHANGED cancel
  BY AroundType DEF Core
<1>1. CASE \E found : OnMdnsEntriesFound(found)
  BY <1>1, BrowseDials
<1>2. CASE UNCHANGED mdns_entries
  <2>1. Reliable => CallsKept /\ Settled
    BY <1>0, <1>2, AroundCalls, AroundSettled
  <2> QED
    BY <1>0, <1>2, <2>1, DialFollows
<1>3. UNCHANGED mdns_entries \/ \E found : OnMdnsEntriesFound(found)
  BY DEF Around, Application, Browser, Server, ConnectionThread, RetryTimer,
    RegisterRemoteSki, UnregisterRemoteSki, CancelPairingWithSki, ApprovePendingHandshakeWithSki,
    RegisterFingerprint, RegisterRemoteFingerprintWithShipId, PairingRequestAccepted, PairingRegistersPeer,
    ServerAccept, OnWebsocketServerConnection, Send, Hello, ConnectionEnds, PostConnectionClose, ReadDecision,
    SetupRemoteDevice, HandleShipStateUpdate, ReportServiceShipId, RetryTimerFires, RetryTimerPosts
<1> QED
  BY <1>1, <1>2, <1>3

(* The loop arms the timer of a peer whose connection was closed, or is    *)
(* going to dial it,                                                       *)
LEMMA ClosedSettled ==
    ASSUME Core, DialInv, Reliable, UNCHANGED cancel, NEW i, Closed(i)
    PROVE  Settled
<1>0. /\ TypeInv /\ Len(peers) \in Nat /\ loop \in Loops
      /\ i \in 1..Len(peers) /\ peers[i] \in Peer
  BY FindTyped DEF Core, TypeInv, Closed
<1> DEFINE p == peers[i]
           q == OnConnectionClosed(p)
           r == ScheduleRetry(q)
<1>1. /\ q \in Peer /\ q.ski = p.ski /\ q.expected_fingerprint = p.expected_fingerprint
      /\ q.ship_id = p.ship_id /\ q.peer_fingerprint = None /\ q.due = p.due
      /\ r = [q EXCEPT !.retry = "armed"]
  BY <1>0, ClosedFields
<1>2. PICK d \in Devices : Describes(p, d)
  BY <1>0 DEF DialInv, Known
<1>3. CASE Cut(peers, peers', i)
  BY <1>0, <1>3, CutSettled
<1>4. CASE Put(peers, peers', i, q) /\ ~Discarded(p) /\ (cancel \/ ~RetryDelay(q.attempt_cnt))
  <2>1. cancel \/ (loop'.dial /\ loop'.ski = p.ski)
    BY <1>0, <1>4 DEF Closed, Loops
  <2>2. Put(peers, peers', i, q)
    BY <1>4
  <2> HIDE DEF q
  <2>3. peers'[i] = q
    BY <1>0, <2>2 DEF Put
  <2>4. Describes(q, d)
    BY <1>1, <1>2 DEF Describes
  <2>5. cancel \/ Called(peers[i].ski)'
    BY <1>1, <2>1, <2>3 DEF Called
  <2>6. Risen(i)
    BY <2>3, <2>4, <2>5 DEF Risen, Known, Roused, Idling
  <2> QED
    BY <1>0, <2>2, <2>6, PutSettled
<1>5. CASE Put(peers, peers', i, r)
  <2> HIDE DEF q
  <2>1. /\ r.ski = p.ski /\ r.expected_fingerprint = p.expected_fingerprint
        /\ r.ship_id = p.ship_id /\ r.peer_fingerprint = None /\ r.due = p.due /\ r.retry = "armed"
    BY <1>1 DEF Peer
  <2> HIDE DEF r
  <2>2. peers'[i] = r
    BY <1>0, <1>5 DEF Put
  <2>3. Describes(r, d)
    BY <1>2, <2>1 DEF Describes
  <2>4. Risen(i)
    BY <2>1, <2>2, <2>3 DEF Risen, Known, Roused, Waking
  <2> QED
    BY <1>0, <1>5, <2>4, PutSettled
<1> QED
  BY <1>3, <1>4, <1>5 DEF Closed

(* dials one that is registered,                                           *)
LEMMA EnrolSettled ==
    ASSUME Core, DialInv, Reliable, ShipNodeRegisterSki
    PROVE  Settled
<1>0. TypeInv /\ Len(peers) \in Nat /\ loop \in Loops
  BY FindTyped DEF Core, TypeInv
<1>1. PICK k \in 1..(Len(peers) + 1) :
         /\ loop.msg.ski \in Skis /\ loop.msg.trust \in BOOLEAN
         /\ k <= Len(peers) => peers[k].ski = loop.msg.ski
         /\ Entry(peers, k, loop.msg.ski) \in Peer
         /\ Put(peers, peers', k, Enrolled(Entry(peers, k, loop.msg.ski), loop.msg.trust))
  BY <1>0, EnrolStep
<1> DEFINE p == Entry(peers, k, loop.msg.ski)
           q == Enrolled(p, loop.msg.trust)
<1>2. Same(p, q)
  BY <1>1 DEF Same, Enrolled, Peer
<1>3. Put(peers, peers', k, q)
  BY <1>1
<1>4. CASE k <= Len(peers)
  <2>1. p = peers[k]
    BY <1>4 DEF Entry
  <2> HIDE DEF q, p
  <2> QED
    BY <1>0, <1>2, <1>3, <1>4, <2>1, SameRests, PutSettled
<1>5. CASE k > Len(peers)
  <2>1. p = NodeConnection(loop.msg.ski)
    BY <1>0, <1>5 DEF Entry
  <2>2. PICK d \in Devices : d.ski = loop.msg.ski
    BY <1>1 DEF Skis
  <2>3. Known(p)
    BY <2>1, <2>2 DEF Known, Describes, NodeConnection
  <2>4. p.ski = loop.msg.ski
    BY <2>1 DEF NodeConnection
  <2> HIDE DEF q, p
  <2>5. loop'.at = "dial" /\ loop'.ski = loop.msg.ski
    BY <1>0 DEF ShipNodeRegisterSki, Loops
  <2>6. peers'[k] = q
    BY <1>0, <1>3 DEF Put
  <2>7. Called(peers[k].ski)'
    BY <1>2, <2>4, <2>5, <2>6 DEF Called, Same
  <2>8. Known(q)
    BY <1>2, <2>3, SameRests DEF Rests
  <2>9. Risen(k)
    BY <2>6, <2>7, <2>8 DEF Risen, Roused
  <2> QED
    BY <1>0, <1>3, <2>9, PutSettled
<1> QED
  BY <1>0, <1>1, <1>4, <1>5

(* and leaves the others.                                                  *)
LEMMA LoopSettled ==
    ASSUME Core, DialInv, Reliable, LoopHandles
    PROVE  Settled
<1>0. /\ TypeInv /\ Table(peers, conns) /\ Threading(peers, conns, loop, stop) /\ LoopInv
      /\ peers \in Seq(Peer) /\ Len(peers) \in Nat /\ \A j \in 1..Len(peers) : peers[j] \in Peer
      /\ \A s : FindWithSki(peers, s) \in 0..Len(peers)
  BY FindTyped DEF Core, TypeInv
<1>1. CASE \/ LoopChecksCancel \/ LoopReceives \/ LoopIgnores \/ LoopPosts \/ ShipNodeApprovePendingHandshake
           \/ ShipNodePromoteFingerprint \/ ShipNodeRevokePairingFingerprint \/ LoopDeletes
           \/ LoopAborts \/ LoopApproves
  BY <1>1, UnchangedSettled DEF LoopChecksCancel, LoopReceives, LoopIgnores, LoopPosts, LoopDeletes,
      ShipNodeApprovePendingHandshake, ShipNodePromoteFingerprint, ShipNodeRevokePairingFingerprint,
      LoopAborts, LoopApproves
<1>2. CASE CloseShipConnection
  <2>1. UNCHANGED cancel
    BY <1>2 DEF CloseShipConnection, others
  <2> QED
    BY <1>0, <1>2, <2>1, ClosedStep, ClosedSettled, UnchangedSettled
<1>3. CASE LoopJoins
  <2> DEFINE i == FindWithShipConnection(peers, loop.sc)
  <2>1. i \in 0..Len(peers)
    BY <1>0, FindTyped
  <2>2. UNCHANGED peers \/ Withdrew(peers, peers', i)
    BY <1>0, <1>3, JoinStep
  <2> HIDE DEF i
  <2> QED
    BY <1>0, <2>1, <2>2, WithdrewSettled, UnchangedSettled
<1>4. CASE ShipNodeCancelPairingSki
  <2> DEFINE i == FindWithSki(peers, loop.msg.ski)
  <2>1. peers' = Withdraw(peers, i) /\ i \in 0..Len(peers)
    BY <1>0, <1>4 DEF ShipNodeCancelPairingSki
  <2> HIDE DEF i
  <2> QED
    BY <1>0, <2>1, WithdrawFields, WithdrewSettled
<1>5. CASE LoopPromotes
  <2>1. CASE UNCHANGED <<peers, conns>>
    BY <2>1, UnchangedSettled
  <2>2. CASE /\ loop.i \in 1..Len(peers) /\ peers[loop.i] \in Peer /\ remote_fingerprint \in Fps
             /\ peers[loop.i].peer_fingerprint = remote_fingerprint
             /\ Put(peers, peers', loop.i, Promoted(peers[loop.i], remote_fingerprint))
    <3> DEFINE k == loop.i
               p == peers[k]
               q == Promoted(p, remote_fingerprint)
    <3>1. /\ q.ski = p.ski /\ q.is_attempt_running = p.is_attempt_running /\ q.ship_id = p.ship_id
          /\ q.expected_fingerprint = p.peer_fingerprint
          /\ q.peer_fingerprint = p.peer_fingerprint /\ q.due = p.due /\ q.retry = p.retry
      BY <2>2 DEF Promoted, Peer
    <3>2. Put(peers, peers', k, q) /\ k \in 1..Len(peers)
      BY <2>2
    <3> HIDE DEF q
    <3>3. Rests(p, q)
      BY <3>1 DEF Rests, Known, Describes, Waking
    <3> QED
      BY <1>0, <3>2, <3>3, PutSettled
  <2> QED
    BY <1>0, <1>5, <2>1, <2>2, PromoteStep
<1>6. CASE ShipNodeUnregisterSki \/ LoopRemoves
  <2> DEFINE i == FindWithSki(peers, loop.msg.ski)
  <2>1. i \in 0..Len(peers)
    BY <1>0
  <2>2. UNCHANGED peers \/ (i # 0 /\ RemovePeer(peers, i))
    BY <1>6 DEF ShipNodeUnregisterSki, LoopRemoves
  <2> HIDE DEF i
  <2>3. CASE i # 0 /\ RemovePeer(peers, i)
    BY <1>0, <2>1, <2>3, RemoveStep, CutSettled DEF Removes
  <2> QED
    BY <2>2, <2>3, UnchangedSettled
<1>7. CASE LoopRevokes
  <2>1. UNCHANGED peers \/ Cut(peers, peers', loop.i)
    BY <1>0, <1>7, RevokeStep DEF Removes
  <2> QED
    BY <1>0, <2>1, CutSettled, UnchangedSettled
<1> QED
  BY <1>1, <1>2, <1>3, <1>4, <1>5, <1>6, <1>7, EnrolSettled DEF LoopHandles

(* the loop does while it handles other messages,                          *)
LEMMA HandlesDials ==
    ASSUME Core, DialInv, config' = config, LoopHandles
    PROVE  DialInv'
<1>1. UNCHANGED <<cancel, mdns_entries>>
  BY DEF LoopHandles, others, LoopChecksCancel, LoopReceives, LoopIgnores, CloseShipConnection, LoopJoins,
      LoopPosts, LoopDeletes, ShipNodeUnregisterSki, ShipNodeRegisterSki,
      ShipNodeCancelPairingSki, LoopAborts, LoopRemoves, ShipNodeApprovePendingHandshake, LoopApproves,
      ShipNodePromoteFingerprint, LoopPromotes, ShipNodeRevokePairingFingerprint, LoopRevokes
<1>2. CallsKept
  BY <1>1, LoopCalls DEF CallsKept
<1> QED
  BY <1>1, <1>2, LoopSettled, DialFollows

(* A dial reaches those it is for.                                         *)
LEMMA TriedRisen ==
    ASSUME Core, DialInv, Reliable, UNCHANGED <<cancel, mdns_entries>>, NEW j \in 1..Len(peers), NEW s, NEW b,
           s.peers = peers', ~s.failed, b \in Addrs \cup {None}, Tried(s, j, b)
    PROVE  Risen(j)
<1> DEFINE p == peers[j]
<1>0. TypeInv /\ p \in Peer /\ Known(p) /\ DevicesDiffer /\ None \notin Addrs
  BY FindTyped, NoneIsNone DEF Core, TypeInv, DialInv, Reliable
<1>1. /\ p.ski \in Skis
      /\ FindServiceForPeer(p) # 0 => mdns_entries[FindServiceForPeer(p)].ski = p.ski
      /\ FindServiceForPeer(p) = 0 => cancel \/ ~Visible(p.ski)
  BY <1>0, KnownService
<1>2. \A x : Visible(x)' <=> Visible(x)
  BY DEF Visible
<1>3. CASE peers'[j] = p /\ (p.is_attempt_running \/ FindServiceForPeer(p) = 0)
  <2>1. ~Idling(p)
    BY <1>1, <1>3 DEF Idling
  <2> QED
    BY <1>0, <1>2, <1>3, <2>1 DEF Risen, Roused, Idling
<1>4. ASSUME NEW d \in Devices, Serves(d, p), b # None, peers'[j] = Dialling(p, d, b) PROVE Risen(j)
  <2>1. d.ski = p.ski
    BY <1>1, <1>4 DEF Serves
  <2> DEFINE q == Dialling(p, d, b)
  <2>2. /\ q.ski = p.ski /\ q.is_attempt_running /\ q.ship_id = p.ship_id
        /\ q.expected_fingerprint = p.expected_fingerprint
        /\ q.peer_fingerprint = p.peer_fingerprint /\ q.due = p.due
    BY <1>0, <1>1, <1>4, <2>1, DialFields
  <2> HIDE DEF q
  <2>3. Known(q)
    BY <1>0, <2>2 DEF Known, Describes
  <2> QED
    BY <1>4, <2>2, <2>3 DEF q, Risen, Roused, Idling
<1> QED
  BY <1>1, <1>3, <1>4 DEF Tried

(* and a dial does: the peers it is not for have another message.          *)
LEMMA DialDials ==
    ASSUME Core, DialInv, config' = config, Dial
    PROVE  DialInv'
<1>0. TypeInv /\ LoopInv /\ Len(peers) \in Nat /\ MessagesKept
  BY FindTyped, SentKept DEF Core, TypeInv, Dial, others
<1>1. UNCHANGED <<cancel, mdns_entries>> /\ Reliable' = Reliable /\ Devices' = Devices
  BY ConfigSame DEF Dial, others, Reliable
<1>2. PICK c \in Allocations, W \in SUBSET (1..Len(peers)), b \in BOOLEAN :
         /\ Summary(c, W, [peers |-> peers', conns |-> conns', made |-> made', failed |-> b])
         /\ b => MayFail
         /\ \/ Handles("MdnsEntriesFound") /\ (ClientSupported => W = 1..Len(peers))
            \/ /\ loop.at = "dial"
               /\ ClientSupported => \A j \in 1..Len(peers) : peers[j].ski = loop.ski /\ loop.ski # None => j \in W
            \/ /\ Handles("RetryConnectionForSki")
               /\ ClientSupported =>
                     \A j \in 1..Len(peers) : peers[j].ski = loop.msg.ski /\ loop.msg.ski # None => j \in W
  BY DEF Dial
<1> DEFINE r == [peers |-> peers', conns |-> conns', made |-> made', failed |-> b]
<1>3. Summary(c, W, r) /\ r.peers = peers' /\ r.failed = b
  BY <1>2
<1> HIDE DEF r
<1>4. /\ Len(peers') = Len(peers)
      /\ \A j \in 1..Len(peers) : j \notin W => peers'[j] = peers[j]
      /\ \A j \in W : Tried(r, j, c[j])
  BY <1>3 DEF Summary, DialStates
<1>5. \A j \in W : j \in 1..Len(peers) /\ c[j] \in Addrs \cup {None}
  <2>1. DOMAIN peers = 1..Len(peers)
    BY <1>0, LenProperties DEF TypeInv
  <2> QED
    BY <1>2, <2>1 DEF Allocations
<1> SUFFICES ASSUME Reliable, NEW j \in 1..Len(peers) PROVE Risen(j)
  BY <1>1, <1>4 DEF DialInv, Risen, Known, Describes
<1>6. CASE j \in W
  <2>1. ~r.failed
    BY <1>2, <1>3 DEF Reliable
  <2> QED
    BY <1>1, <1>3, <1>4, <1>5, <1>6, <2>1, TriedRisen
<1>7. CASE j \notin W
  <2> DEFINE p == peers[j]
  <2>1. peers'[j] = p /\ Known(p) /\ Roused(j)
    BY <1>4, <1>7 DEF DialInv
  <2>2. p.ski # None
    BY <1>0, <2>1, KnownService DEF Reliable
  <2>3. ~loop.dial
    BY <1>0, <1>2 DEF LoopInv, Reaping, Handles
  <2>4. ASSUME ClientSupported, NEW x, x = p.ski, Called(x) PROVE Called(x)'
    <3>1. loop.at = "handle" => ~Dials(loop.msg, x)
      BY <1>2, <1>7, <2>2, <2>4 DEF Handles, Dials
    <3>2. ~(loop.ski = x /\ (loop.at = "dial" \/ loop.dial))
      BY <1>2, <1>7, <2>2, <2>3, <2>4 DEF Handles
    <3> QED
      BY <1>0, <2>4, <3>1, <3>2, MessagesCalled
  <2>5. \A x : Visible(x)' <=> Visible(x)
    BY <1>1 DEF Visible
  <2>6. PICK x : x = p.ski
    OBVIOUS
  <2>7. Roused(j)'
    BY <1>1, <2>1, <2>4, <2>5, <2>6 DEF Roused, Idling, Waking
  <2> QED
    BY <2>1, <2>7 DEF Risen
<1> QED
  BY <1>6, <1>7

(* Once Stop has begun nobody is dialled any more.                         *)
LEMMA StopDials ==
    ASSUME Core, DialInv, config' = config, StopCaller
    PROVE  DialInv'
<1>0. /\ TypeInv /\ LoopInv /\ Len(peers) \in Nat /\ \A j \in 1..Len(peers) : peers[j] \in Peer
  BY FindTyped DEF Core, TypeInv
<1>1. UNCHANGED mdns_entries /\ cancel'
  BY DEF Core, Threading, StopCaller, StopBegins, StopSends, StopJoinsLoop, StopReleases, StopDeletes,
      StopLeavesLoop, StopEnds
<1>2. CASE StopReleases
  <2> DEFINE k == stop.i
             p == peers[k]
             q == Released(p)
  <2>1. k \in 1..Len(peers) /\ p \in Peer /\ Put(peers, peers', k, q)
    BY <1>0, <1>2, ReleaseStep
  <2>2. /\ q.ski = p.ski /\ q.ship_id = p.ship_id /\ q.expected_fingerprint = p.expected_fingerprint
        /\ q.peer_fingerprint = p.peer_fingerprint /\ q.due = p.due
    BY <2>1 DEF Released, Peer
  <2> HIDE DEF q
  <2>3. Known(p) => Known(q)
    BY <2>2 DEF Known, Describes
  <2>4. PICK n \in 1..Len(peers) : n = k
    BY <2>1
  <2>5. peers'[n] = q /\ peers[n] = p
    BY <1>0, <2>1, <2>4 DEF Put
  <2>6. Reliable => Risen(n)
    BY <1>1, <2>3, <2>5 DEF Risen, Roused, Idling, DialInv
  <2>7. Reliable => Settled
    BY <1>0, <2>1, <2>4, <2>6, PutSettled
  <2> QED
    BY <1>1, <2>7, DialFollows DEF CallsKept
<1>3. CASE UNCHANGED peers
  BY <1>1, <1>3, UnchangedSettled, DialFollows DEF CallsKept
<1> QED
  BY <1>2, <1>3 DEF StopCaller, StopBegins, StopSends, StopJoinsLoop, StopDeletes, StopLeavesLoop, StopEnds

(* DialInv is inductive.                                                   *)
LEMMA DialInvStep ==
    ASSUME Core, Requested, DialInv, [Next /\ UNCHANGED config]_<<vars, config>>
    PROVE  DialInv'
<1>1. CASE UNCHANGED <<vars, config>>
  <2>1. UNCHANGED <<config, mdns_entries, cancel, peers, loop, queue, out>>
    BY <1>1 DEF vars
  <2>2. CallsKept
    BY <2>1 DEF CallsKept, Called, Dials
  <2> QED
    BY <2>1, <2>2, UnchangedSettled, DialFollows
<1> QED
  BY <1>1, StepKinds, AroundDials, HandlesDials, DialDials, StopDials

(* There are no peers at the start.                                        *)
LEMMA InitDials ==
    ASSUME Init PROVE DialInv
<1>1. peers = <<>>
  BY DEF Init
<1> QED
  BY <1>1 DEF DialInv

(* The table of peers keeps up with the connections: a provisional peer    *)
(* goes with its connection, and a peer that could be dialled has a        *)
(* message or a timer that makes the loop dial it: PeersTracked of the     *)
(* node.                                                                   *)
THEOREM NodePeersTracked == Spec => []PeersTracked
<1>1. Init => DialInv
  BY InitDials
<1>2. Core /\ PairingInv /\ DialInv /\ [Next /\ UNCHANGED config]_<<vars, config>> => DialInv'
  BY DialInvStep DEF PairingInv
<1>3. Core /\ DialInv => (Reliable => NoLostWakeup)
  BY RousedWakes DEF Core
<1>4. ProvisionalDropped /\ (Reliable => NoLostWakeup) => PeersTracked
  BY DEF PeersTracked, Reliable
<1> QED
  BY <1>1, <1>2, <1>3, <1>4, NodePairings, NodeProvisionalDropped, PTL DEF Spec

=============================================================================
