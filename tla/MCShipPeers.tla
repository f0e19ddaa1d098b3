----------------------------- MODULE MCShipPeers -----------------------------
(***************************************************************************)
(* ShipConnection with two kinds of peer, one in each behaviour: one that  *)
(* sends any frame, to a queue that callers find full only if a timer was  *)
(* faster, and one that keeps a server in the hello phase, whose callers   *)
(* find it full also before; one caller at a time.  The connection carries *)
(* the kind as a mark, a field peer that no handler reads or changes.      *)
(***************************************************************************)
EXTENDS MCShipConnection, TLC

EitherFrames == AllFrames \cup PendingFrames

PeersOf(role) == IF role = "server" THEN {"any", "patient"} ELSE {"any"}

MCInit ==
  /\ \E role \in Roles : \E p \in PeersOf(role) : sc = Construct(role) @@ [peer |-> p]
  /\ budget = MaxInputs

MCSpec == MCInit /\ [][Next]_vars

\* What a peer has sent that is queued or waits for the queue.
SentBy(c) == {c.queue[i] : i \in DOMAIN c.queue} \cup {c.snd[who] : who \in DOMAIN c.snd}

\* The callers on their way to the queue, or asleep in it.
Callers(c) == {who \in DOMAIN c.snd : c.snd[who] # NoMsg}

PeerKeepsItsKind ==
  /\ \A m \in SentBy(sc') : m.type = "DataReceived" =>
       m.frame \in IF sc.peer = "any" THEN AllFrames ELSE PendingFrames
  /\ Cardinality(Callers(sc')) <= 1
  /\ sc.peer = "any" /\ Callers(sc') \ Callers(sc) # {} => sc.queue = <<>>
==============================================================================
