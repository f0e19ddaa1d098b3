-------------------------- MODULE ShipPairingProofs -------------------------
(***************************************************************************)
(* Proofs about ShipPairing for every size of the ring buffer, all digests,*)
(* secrets and curves, and any number of calls: the node browses exactly   *)
(* when a request could be accepted, the pairing is kept, and no request   *)
(* is accepted twice.                                                      *)
(*                                                                         *)
(* The inductive invariant has a part for each mechanism of the code: who  *)
(* holds timer_mutex, who reports, what the ring buffer remembers, why the *)
(* timer's stale decision is void, and why the timer is running whenever   *)
(* it has to be.                                                           *)
(***************************************************************************)
EXTENDS ShipPairing, Integers, SequenceTheorems, TLAPS

\* The places of a call that hold timer_mutex, and those of the one reporter.
Restarting == {"stop", "start", "finish"}
Reporting == {"call", "recheck"}
Deciding == {"begin", "ask", "decide"}

\* The places of a thread that calls.
Calling == {"idle", "report"} \cup Restarting \cup Reporting

\* timer_mutex is held from the start of a restart to its end, by one thread, and
\* timer_restart_in_progress says that it is held.
MutexInv ==
  /\ at["browser"] \in Calling \cup {"register"}
  /\ at["node"] \in Calling \cup {"notify"}
  /\ at["app"] \in Calling
  /\ at["timer"] \in {"idle", "report"} \cup Reporting \cup Deciding
  /\ \A t \in Threads : at[t] \in Restarting <=> timer_mutex = t
  /\ timer_restart_in_progress <=> timer_mutex # None

\* There is one reporter at a time; what it is about to tell is what it has noted as reported,
\* and the node has been told of that when it is not. A change that nobody is going to report
\* is left to the reporter.
ReportInv ==
  /\ \A t \in Threads : at[t] \in Reporting => reporting_enabled
  /\ \A t, u \in Threads : at[t] \in Reporting /\ at[u] \in Reporting => t = u
  /\ \A t \in Threads : at[t] = "call" => (local.enabled <=> reported_enabled)
  /\ (\A t \in Threads : at[t] # "call") => (browsing <=> reported_enabled)
  /\ ~reporting_enabled /\ (\A t \in Threads : at[t] \notin Restarting \cup {"report"})
       => (reported_enabled <=> IsEnabled)

\* Where the digest is that was accepted k requests before the last one.
Place(r, k) == IF r.next - 1 - k >= 1 THEN r.next - 1 - k ELSE r.next - 1 - k + RingSize

\* A ring buffer with the last RingSize of the digests acc, in their order.
Holds(r, acc) ==
  /\ acc = <<>> => r = NoRing
  /\ acc # <<>> => r.next # 0
  /\ \A k \in 0 .. RingSize - 1 : k < Len(acc) => r.entries[Place(r, k)] = acc[Len(acc) - k]

\* No digest is among the RingSize before it.
Novel(acc) ==
  \A i, j \in 1 .. Len(acc) : i < j /\ j <= i + RingSize => acc[i] # acc[j]

\* So it is for the buffer and for the copy that the integrator may restore.
RingInv ==
  /\ Holds(ring, accepted) /\ Novel(accepted)
  /\ Holds(saved.ring, saved.accepted) /\ Novel(saved.accepted)

\* The timer's snapshot is of an activation that was; if it still holds, and saw no connection,
\* the connection that has been made since has not been told of.
StandInv ==
  /\ local.revision <= activation_revision
  /\ at["timer"] = "decide" /\ local.revision = activation_revision
       /\ ~local.available /\ connection = "yes" => at["node"] = "notify"
  /\ PairingStands

\* While the timer's callback decides, nobody gets past the stop of the timer, so that neither a
\* request is registered nor a connection released; a restart leaves the timer armed, and so it
\* stays until the request is registered or the connection is gone; and a callback whose
\* snapshot is void was overtaken by the integrator or by a restart.
TimerInv ==
  /\ \A t \in Callers : at[t] = "start" => timer = "off"
  /\ prompt /\ at["timer"] \in Deciding =>
       /\ at["browser"] \in {"idle", "stop"}
       /\ connection = "closing" => at["node"] \in {"notify", "stop"}
       /\ \A t \in Callers : at[t] \notin {"start", "finish"}
  /\ prompt /\ HasTrustedPeer(ring)
       /\ (\/ \E t \in Callers : at[t] = "finish"
           \/ /\ timer_mutex = None
              /\ \/ at["browser"] \in {"report", "register"} \cup Reporting
                 \/ connection = "closing" /\ at["node"] # "notify")
       => timer = "armed"
  /\ prompt /\ at["timer"] \in {"ask", "decide"} /\ local.revision # activation_revision
       /\ timer_mutex = None => asked = "off" \/ add_cu_activated
  /\ prompt /\ at["timer"] = "decide" /\ local.available => connection # "no"
  /\ WillReactivate
-----------------------------------------------------------------------------
\* A new buffer, and one with another digest, are buffers.
LEMMA NoRingType == NoRing \in Ring
  BY RingAssumption DEF NoRing, Ring

(* A ring that takes a digest in is a ring.                                *)
LEMMA AddDigestType ==
  ASSUME NEW r \in Ring, NEW d \in Digests
  PROVE  AddDigest(r, d) \in Ring
  BY RingAssumption DEF Ring, AddDigest, NextIndex

\* What the provers have to know to be Boolean.
LEMMA Flags ==
  /\ IsEnabled \in BOOLEAN
  /\ \A r : HasTrustedPeer(r) \in BOOLEAN
  BY DEF IsEnabled, HasTrustedPeer

\* A change of the activation keeps its types.
LEMMA ActivationType ==
  ASSUME TypeOK, NEW on \in BOOLEAN, NEW by_integrator \in BOOLEAN,
         Activation(on, by_integrator)
  PROVE  /\ add_cu_activated' \in BOOLEAN /\ activation_revision' \in Nat
         /\ asked' \in {"none", "on", "off"}
  BY DEF TypeOK, Activation

\* So does a round of the reporter.
LEMMA RoundType ==
  ASSUME TypeOK, NEW t \in Threads, Round(t)
  PROVE  /\ reporting_enabled' \in BOOLEAN /\ reported_enabled' \in BOOLEAN
         /\ local' \in [revision : Nat, available : BOOLEAN, enabled : BOOLEAN]
         /\ at' \in [Threads -> Places]
  <1>1. at' \in [Threads -> Places]
    BY DEF TypeOK, Round, Goto, AfterReport, Places
  <1>2. /\ reporting_enabled' \in BOOLEAN /\ reported_enabled' \in BOOLEAN
        /\ local' \in [revision : Nat, available : BOOLEAN, enabled : BOOLEAN]
    BY Flags DEF TypeOK, Round
  <1> QED BY <1>1, <1>2

\* The two outcomes of the timer's decision.
LEMMA DecidesCases ==
  ASSUME TimeoutDecides
  PROVE  \/ /\ local.revision # activation_revision \/ timer_restart_in_progress
            /\ Goto("timer", "idle")
            /\ UNCHANGED <<add_cu_activated, activation_revision, asked>>
         \/ /\ local.revision = activation_revision /\ ~timer_restart_in_progress
            /\ Goto("timer", "report")
            /\ Activation(~local.available, FALSE)
  BY DEF TimeoutDecides

\* Every step keeps the types.
LEMMA TypeStep == TypeOK /\ [Next]_vars => TypeOK'
  <1> SUFFICES ASSUME TypeOK, [Next]_vars PROVE TypeOK'
    OBVIOUS
  <1> USE RingAssumption, PairingAssumption DEF TypeOK, vars, state, node, report, Threads,
          Callers, Places
  <1>1. ASSUME NEW d \in Digests, EvaluateAccepts(d) PROVE TypeOK'
    <2>1. /\ add_cu_activated' \in BOOLEAN /\ activation_revision' \in Nat
          /\ asked' \in {"none", "on", "off"}
      BY <1>1, ActivationType, Flags DEF EvaluateAccepts
    <2>2. ring' \in Ring /\ accepted' \in Seq(Digests)
      BY <1>1, AddDigestType DEF EvaluateAccepts
    <2> QED BY <1>1, <2>1, <2>2 DEF EvaluateAccepts, Goto
  <1>2. ASSUME NEW d \in Digests, EvaluateRejects(d) PROVE TypeOK'
    BY <1>2 DEF EvaluateRejects, Called
  <1>3. CASE NodeRegisters
    BY <1>3 DEF NodeRegisters, Goto
  <1>4. CASE NodeConnects
    BY <1>4 DEF NodeConnects, Called, Goto
  <1>5. CASE NodeCloses
    BY <1>5 DEF NodeCloses, Called, Goto
  <1>6. CASE NodeReleases
    BY <1>6 DEF NodeReleases
  <1>7. CASE NotifyMessageExchange
    BY <1>7, ActivationType, Flags DEF NotifyMessageExchange, Goto
  <1>8. CASE ActivateAddCu
    BY <1>8, ActivationType DEF ActivateAddCu, Call, Called, Goto
  <1>9. CASE DeactivateAddCu
    BY <1>9, ActivationType DEF DeactivateAddCu, Call, Called, Goto
  <1>10. CASE GetRingBuffer
    BY <1>10 DEF GetRingBuffer, Call, Called
  <1>11. ASSUME NEW s \in Secrets \cup {None}, SetSecret(s) PROVE TypeOK'
    BY <1>11 DEF SetSecret, Call, Called, Goto
  <1>12. ASSUME NEW cs \in SUBSET Curves, SetSupportedCurves(cs) PROVE TypeOK'
    BY <1>12 DEF SetSupportedCurves, Call, Called
  <1>13. ASSUME NEW valid \in BOOLEAN, SetRingBuffer(valid) PROVE TypeOK'
    <2>1. /\ add_cu_activated' \in BOOLEAN /\ activation_revision' \in Nat
          /\ asked' \in {"none", "on", "off"}
      BY <1>13, ActivationType, Flags DEF SetRingBuffer
    <2>2. ring' \in Ring /\ accepted' \in Seq(Digests)
      BY <1>13, NoRingType DEF SetRingBuffer
    <2> QED BY <1>13, <2>1, <2>2 DEF SetRingBuffer, Goto
  <1>14. CASE TimerFires
    BY <1>14 DEF TimerFires, Goto
  <1>15. CASE TimeoutBegins
    BY <1>15 DEF TimeoutBegins, Goto
  <1>16. CASE TimeoutAsks
    BY <1>16 DEF TimeoutAsks, Goto
  <1>17. CASE TimeoutDecides
    <2>1. /\ add_cu_activated' \in BOOLEAN /\ activation_revision' \in Nat
          /\ asked' \in {"none", "on", "off"}
      BY <1>17, ActivationType, Flags DEF TimeoutDecides
    <2>2. Goto("timer", "idle") \/ Goto("timer", "report")
      BY <1>17 DEF TimeoutDecides
    <2>3. at' \in [Threads -> Places]
      BY <2>2 DEF Goto
    <2> QED BY <1>17, <2>1, <2>3 DEF TimeoutDecides
  <1>18. ASSUME NEW t \in Callers, RestartStops(t) PROVE TypeOK'
    BY <1>18 DEF RestartStops, Goto
  <1>19. ASSUME NEW t \in Callers, RestartStarts(t) PROVE TypeOK'
    BY <1>19 DEF RestartStarts, Goto
  <1>20. ASSUME NEW t \in Callers, RestartFinishes(t) PROVE TypeOK'
    BY <1>20 DEF RestartFinishes, Goto
  <1>21. ASSUME NEW t \in Threads, ReportBegins(t) PROVE TypeOK'
    BY <1>21, RoundType DEF ReportBegins, AfterReport, Goto
  <1>22. ASSUME NEW t \in Threads, ReportCalls(t) PROVE TypeOK'
    BY <1>22 DEF ReportCalls, Goto
  <1>23. ASSUME NEW t \in Threads, ReportRechecks(t) PROVE TypeOK'
    BY <1>23, RoundType DEF ReportRechecks, AfterReport, Goto
  <1>24. CASE UNCHANGED vars
    BY <1>24
  <1> QED BY <1>1, <1>2, <1>3, <1>4, <1>5, <1>6, <1>7, <1>8, <1>9, <1>10, <1>11, <1>12, <1>13,
             <1>14, <1>15, <1>16, <1>17, <1>18, <1>19, <1>20, <1>21, <1>22, <1>23, <1>24
         DEF Next, Browser, Node, Integrator, Timeout, Restart, ReportEnabled

-----------------------------------------------------------------------------
(* The ring buffer.                                                        *)

\* Only Evaluate and the integrator's SetRingBuffer and GetRingBuffer touch the buffer and its
\* copy.
LEMMA RingFrame ==
  ASSUME [Next]_vars
  PROVE  \/ \E d \in Digests : EvaluateAccepts(d)
         \/ GetRingBuffer \/ \E valid \in BOOLEAN : SetRingBuffer(valid)
         \/ UNCHANGED <<ring, accepted, saved>>
  BY DEF Next, Browser, Node, Integrator, Timeout, Restart, ReportEnabled, vars, state,
         EvaluateRejects, NodeRegisters, NodeConnects, NodeCloses, NodeReleases,
         NotifyMessageExchange,
         ActivateAddCu, DeactivateAddCu, SetSecret, SetSupportedCurves, TimerFires,
         TimeoutBegins,
         TimeoutAsks, TimeoutDecides, RestartStops, RestartStarts, RestartFinishes,
         ReportBegins,
         ReportCalls, ReportRechecks

\* An empty buffer holds what was accepted: nothing.
LEMMA EmptyHolds == Holds(NoRing, <<>>) /\ Novel(<<>>)
  BY RingAssumption DEF Holds, Novel

\* AddDigest keeps the order, also where it wraps.
LEMMA AddDigestHolds ==
  ASSUME NEW r \in Ring, NEW acc \in Seq(Digests), NEW d \in Digests, Holds(r, acc)
  PROVE  Holds(AddDigest(r, d), Append(acc, d))
  <1> DEFINE s == AddDigest(r, d)
             new == Append(acc, d)
             n == NextIndex(r)
  <1>1. n \in 1 .. RingSize /\ s.next \in 1 .. RingSize
    BY RingAssumption DEF Ring, AddDigest, NextIndex
  <1>2. /\ new \in Seq(Digests) /\ new # <<>> /\ Len(new) = Len(acc) + 1
        /\ new[Len(new)] = d
        /\ \A i \in 1 .. Len(acc) : new[i] = acc[i]
    BY AppendProperties
  <1>3. /\ s.entries[n] = d
        /\ \A i \in 1 .. RingSize : i # n => s.entries[i] = r.entries[i]
    BY <1>1 DEF Ring, AddDigest
  <1>4. ASSUME NEW k \in 0 .. RingSize - 1, k < Len(new)
        PROVE  s.entries[Place(s, k)] = new[Len(new) - k]
    <2>1. CASE k = 0
      <3>1. Place(s, 0) = n
        BY <1>1, RingAssumption DEF Place, AddDigest
      <3> QED BY <2>1, <3>1, <1>2, <1>3
    <2>2. CASE k > 0
      <3>1. acc # <<>> /\ k - 1 < Len(acc) /\ k - 1 \in 0 .. RingSize - 1
        BY <1>2, <1>4, <2>2, RingAssumption
      <3>2. r.next = n
        BY <3>1 DEF Holds, NextIndex
      <3>3. Place(s, k) = Place(r, k - 1) /\ Place(s, k) # n /\ Place(s, k) \in 1 .. RingSize
        BY <1>1, <2>2, <3>2, RingAssumption, SMTT(30) DEF Place, AddDigest
      <3>4. r.entries[Place(r, k - 1)] = acc[Len(acc) - (k - 1)]
        BY <3>1 DEF Holds
      <3>5. Len(acc) - (k - 1) = Len(new) - k /\ Len(new) - k \in 1 .. Len(acc)
        BY <1>2, <1>4, <2>2
      <3> QED BY <1>2, <1>3, <3>3, <3>4, <3>5
    <2>3. k = 0 \/ k > 0
      BY RingAssumption
    <2> QED BY <2>1, <2>2, <2>3, Zenon
  <1>5. s.next # 0
    BY <1>1
  <1>6. Holds(s, new)
    <2> HIDE DEF s, new
    <2> QED BY <1>2, <1>4, <1>5 DEF Holds
  <1> QED BY <1>6

\* A ring buffer that holds the digests knows each of the last RingSize ones.
LEMMA LastKnown ==
  ASSUME NEW r \in Ring, NEW acc \in Seq(Digests), Holds(r, acc),
         NEW i \in 1 .. Len(acc), i + RingSize > Len(acc)
  PROVE  IsKnownDigest(r, acc[i])
  <1> DEFINE k == Len(acc) - i
  <1>1. k \in 0 .. RingSize - 1 /\ k < Len(acc) /\ acc[Len(acc) - k] = acc[i]
    BY RingAssumption
  <1> HIDE DEF k
  <1>2. acc # <<>> /\ r.next \in 1 .. RingSize
    BY DEF Holds, Ring
  <1>3. Place(r, k) \in 1 .. RingSize
    BY <1>1, <1>2, RingAssumption DEF Place
  <1>4. r.entries[Place(r, k)] = acc[i]
    BY <1>1 DEF Holds
  <1> QED BY <1>3, <1>4 DEF IsKnownDigest

\* So that a digest it does not know may follow them.
LEMMA AppendNovel ==
  ASSUME NEW r \in Ring, NEW acc \in Seq(Digests), Holds(r, acc), Novel(acc),
         NEW d \in Digests, ~IsKnownDigest(r, d)
  PROVE  Novel(Append(acc, d))
  <1> DEFINE new == Append(acc, d)
  <1>1. /\ Len(new) = Len(acc) + 1 /\ new[Len(acc) + 1] = d
        /\ \A i \in 1 .. Len(acc) : new[i] = acc[i]
    BY AppendProperties
  <1> HIDE DEF new
  <1>2. ASSUME NEW i \in 1 .. Len(new), NEW j \in 1 .. Len(new), i < j, j <= i + RingSize
        PROVE  new[i] # new[j]
    <2>1. i \in 1 .. Len(acc)
      BY <1>1, <1>2
    <2>2. CASE j = Len(acc) + 1
      <3>1. IsKnownDigest(r, acc[i])
        BY <1>2, <2>1, <2>2, LastKnown, RingAssumption
      <3> QED BY <1>1, <2>1, <2>2, <3>1
    <2>3. CASE j \in 1 .. Len(acc)
      BY <1>1, <1>2, <2>1, <2>3 DEF Novel
    <2> QED BY <1>1, <2>2, <2>3
  <1>3. Novel(new)
    BY <1>2 DEF Novel
  <1> QED BY <1>3 DEF new

\* Every step keeps what the buffer and its copy hold.
LEMMA RingStep ==
  ASSUME TypeOK, RingInv, [Next]_vars
  PROVE  RingInv'
  <1>1. ASSUME NEW d \in Digests, EvaluateAccepts(d) PROVE RingInv'
    <2>1. ~IsKnownDigest(ring, d) /\ UNCHANGED saved
      BY <1>1 DEF EvaluateAccepts, Acceptable
    <2>2. ring' = AddDigest(ring, d) /\ accepted' = Append(accepted, d)
      BY <1>1 DEF EvaluateAccepts
    <2>3. Holds(ring', accepted') /\ Novel(accepted')
      BY <2>1, <2>2, AddDigestHolds, AppendNovel DEF TypeOK, RingInv
    <2> QED BY <2>1, <2>3 DEF RingInv
  <1>2. CASE GetRingBuffer
    BY <1>2 DEF GetRingBuffer, RingInv, state
  <1>3. ASSUME NEW valid \in BOOLEAN, SetRingBuffer(valid) PROVE RingInv'
    BY <1>3, EmptyHolds DEF SetRingBuffer, RingInv
  <1>4. CASE UNCHANGED <<ring, accepted, saved>>
    BY <1>4 DEF RingInv
  <1> QED BY <1>1, <1>2, <1>3, <1>4, RingFrame

\* The buffer that holds the digests in their order has the last one as its current entry.
LEMMA HoldsLast ==
  ASSUME TypeOK, RingInv
  PROVE  CurrentIsLast
  <1>1. CASE accepted = <<>>
    BY <1>1 DEF RingInv, Holds, CurrentIsLast, HasTrustedPeer, NoRing
  <1>2. CASE accepted # <<>>
    <2>1. /\ Len(accepted) > 0 /\ Last(accepted) = accepted[Len(accepted)]
          /\ accepted[Len(accepted)] \in Digests
      BY <1>2, EmptySeq DEF TypeOK, Last
    <2>2. ring.next \in 1 .. RingSize /\ Place(ring, 0) = CurrentIndex(ring)
      BY <1>2, RingAssumption DEF TypeOK, RingInv, Holds, Ring, Place, CurrentIndex, NextIndex
    <2>3. ring.entries[Place(ring, 0)] = accepted[Len(accepted)]
      BY <2>1, RingAssumption DEF RingInv, Holds, TypeOK
    <2> QED BY <1>2, <2>1, <2>2, <2>3, PairingAssumption DEF CurrentIsLast, HasTrustedPeer
  <1> QED BY <1>1, <1>2

\* No step appends a digest that is among the last RingSize ones.
LEMMA ReplayStep ==
  ASSUME TypeOK, RingInv, [Next]_vars
  PROVE  \A d \in Digests : accepted' = Append(accepted, d) => d \notin LastAccepted
  <1> SUFFICES ASSUME NEW d \in Digests, accepted' = Append(accepted, d),
                      NEW i \in 1 .. Len(accepted), i + RingSize > Len(accepted)
               PROVE  d # accepted[i]
    BY DEF LastAccepted, TypeOK
  <1>1. Novel(accepted')
    BY RingStep DEF RingInv
  <1>2. /\ Len(accepted') = Len(accepted) + 1 /\ accepted'[Len(accepted) + 1] = d
        /\ accepted'[i] = accepted[i]
    BY AppendProperties DEF TypeOK
  <1>3. Len(accepted) + 1 <= i + RingSize /\ Len(accepted) \in Nat
    BY RingAssumption DEF TypeOK
  <1> QED BY <1>1, <1>2, <1>3 DEF Novel

-----------------------------------------------------------------------------
(* Who holds timer_mutex.                                                  *)

\* Every step keeps the discipline of timer_mutex.
LEMMA MutexStep ==
  ASSUME TypeOK, MutexInv, [Next]_vars
  PROVE  MutexInv'
  <1> USE PairingAssumption DEF TypeOK, MutexInv, Calling, Restarting, Reporting, Deciding,
          vars, state, node, report, Threads, Callers, Places
  <1>1. ASSUME NEW d \in Digests, EvaluateAccepts(d) PROVE MutexInv'
    BY <1>1 DEF EvaluateAccepts, Called, Goto
  <1>2. ASSUME NEW d \in Digests, EvaluateRejects(d) PROVE MutexInv'
    BY <1>2 DEF EvaluateRejects, Called
  <1>3. CASE NodeRegisters
    BY <1>3 DEF NodeRegisters, Goto
  <1>4. CASE NodeConnects
    BY <1>4 DEF NodeConnects, Called, Goto
  <1>5. CASE NodeCloses
    BY <1>5 DEF NodeCloses, Called, Goto
  <1>6. CASE NodeReleases
    BY <1>6 DEF NodeReleases
  <1>7. CASE NotifyMessageExchange
    BY <1>7 DEF NotifyMessageExchange, Goto
  <1>8. CASE ActivateAddCu
    BY <1>8 DEF ActivateAddCu, Call, Called, Goto
  <1>9. CASE DeactivateAddCu
    BY <1>9 DEF DeactivateAddCu, Call, Called, Goto
  <1>10. CASE GetRingBuffer
    BY <1>10 DEF GetRingBuffer, Call, Called
  <1>11. ASSUME NEW s \in Secrets \cup {None}, SetSecret(s) PROVE MutexInv'
    BY <1>11 DEF SetSecret, Call, Called, Goto
  <1>12. ASSUME NEW cs \in SUBSET Curves, SetSupportedCurves(cs) PROVE MutexInv'
    BY <1>12 DEF SetSupportedCurves, Call, Called
  <1>13. ASSUME NEW valid \in BOOLEAN, SetRingBuffer(valid) PROVE MutexInv'
    BY <1>13 DEF SetRingBuffer, Call, Called, Goto
  <1>14. CASE TimerFires
    BY <1>14 DEF TimerFires, Goto
  <1>15. CASE TimeoutBegins
    BY <1>15 DEF TimeoutBegins, Goto
  <1>16. CASE TimeoutAsks
    BY <1>16 DEF TimeoutAsks, Goto
  <1>17. CASE TimeoutDecides
    <2>1. Goto("timer", "idle") \/ Goto("timer", "report")
      BY <1>17 DEF TimeoutDecides
    <2> QED BY <1>17, <2>1 DEF TimeoutDecides, Goto
  <1>18. ASSUME NEW t \in Callers, RestartStops(t) PROVE MutexInv'
    BY <1>18 DEF RestartStops, Goto
  <1>19. ASSUME NEW t \in Callers, RestartStarts(t) PROVE MutexInv'
    BY <1>19 DEF RestartStarts, Goto
  <1>20. ASSUME NEW t \in Callers, RestartFinishes(t) PROVE MutexInv'
    BY <1>20 DEF RestartFinishes, Goto
  <1>21. ASSUME NEW t \in Threads, ReportBegins(t) PROVE MutexInv'
    BY <1>21 DEF ReportBegins, Round, AfterReport, Goto
  <1>22. ASSUME NEW t \in Threads, ReportCalls(t) PROVE MutexInv'
    BY <1>22 DEF ReportCalls, Goto
  <1>23. ASSUME NEW t \in Threads, ReportRechecks(t) PROVE MutexInv'
    BY <1>23 DEF ReportRechecks, Round, AfterReport, Goto
  <1>24. CASE UNCHANGED vars
    BY <1>24
  <1> QED BY <1>1, <1>2, <1>3, <1>4, <1>5, <1>6, <1>7, <1>8, <1>9, <1>10, <1>11, <1>12, <1>13,
             <1>14, <1>15, <1>16, <1>17, <1>18, <1>19, <1>20, <1>21, <1>22, <1>23, <1>24
         DEF Next, Browser, Node, Integrator, Timeout, Restart, ReportEnabled

-----------------------------------------------------------------------------
(* Who reports.                                                            *)

\* Every step keeps the discipline of the reporter.
LEMMA ReportStep ==
  ASSUME TypeOK, MutexInv, ReportInv, [Next]_vars
  PROVE  ReportInv'
  <1> USE PairingAssumption DEF TypeOK, MutexInv, ReportInv, Calling, Restarting, Reporting,
          Deciding, vars, state, node, report, Threads, Callers, Places
  <1>1. ASSUME NEW d \in Digests, EvaluateAccepts(d) PROVE ReportInv'
    BY <1>1 DEF EvaluateAccepts, Called, Goto, IsEnabled
  <1>2. ASSUME NEW d \in Digests, EvaluateRejects(d) PROVE ReportInv'
    BY <1>2 DEF EvaluateRejects, Called, IsEnabled
  <1>3. CASE NodeRegisters
    BY <1>3 DEF NodeRegisters, Goto, IsEnabled
  <1>4. CASE NodeConnects
    BY <1>4 DEF NodeConnects, Called, Goto, IsEnabled
  <1>5. CASE NodeCloses
    BY <1>5 DEF NodeCloses, Called, Goto, IsEnabled
  <1>6. CASE NodeReleases
    BY <1>6 DEF NodeReleases, IsEnabled
  <1>7. CASE NotifyMessageExchange
    BY <1>7 DEF NotifyMessageExchange, Goto, IsEnabled
  <1>8. CASE ActivateAddCu
    BY <1>8 DEF ActivateAddCu, Call, Called, Goto, IsEnabled
  <1>9. CASE DeactivateAddCu
    BY <1>9 DEF DeactivateAddCu, Call, Called, Goto, IsEnabled
  <1>10. CASE GetRingBuffer
    BY <1>10 DEF GetRingBuffer, Call, Called, IsEnabled
  <1>11. ASSUME NEW s \in Secrets \cup {None}, SetSecret(s) PROVE ReportInv'
    BY <1>11 DEF SetSecret, Call, Called, Goto, IsEnabled
  <1>12. ASSUME NEW cs \in SUBSET Curves, SetSupportedCurves(cs) PROVE ReportInv'
    BY <1>12 DEF SetSupportedCurves, Call, Called, IsEnabled
  <1>13. ASSUME NEW valid \in BOOLEAN, SetRingBuffer(valid) PROVE ReportInv'
    BY <1>13 DEF SetRingBuffer, Call, Called, Goto, IsEnabled
  <1>14. CASE TimerFires
    BY <1>14 DEF TimerFires, Goto, IsEnabled
  <1>15. CASE TimeoutBegins
    BY <1>15 DEF TimeoutBegins, Goto, IsEnabled
  <1>16. CASE TimeoutAsks
    BY <1>16 DEF TimeoutAsks, Goto, IsEnabled
  <1>17. CASE TimeoutDecides
    <2>2. CASE Goto("timer", "idle") /\ UNCHANGED add_cu_activated
      BY <1>17, <2>2 DEF TimeoutDecides, Goto, IsEnabled
    <2>3. CASE Goto("timer", "report")
      BY <1>17, <2>3 DEF TimeoutDecides, Goto, IsEnabled
    <2> QED BY <1>17, <2>2, <2>3, DecidesCases
  <1>18. ASSUME NEW t \in Callers, RestartStops(t) PROVE ReportInv'
    BY <1>18 DEF RestartStops, Goto, IsEnabled
  <1>19. ASSUME NEW t \in Callers, RestartStarts(t) PROVE ReportInv'
    BY <1>19 DEF RestartStarts, Goto, IsEnabled
  <1>20. ASSUME NEW t \in Callers, RestartFinishes(t) PROVE ReportInv'
    BY <1>20 DEF RestartFinishes, Goto, IsEnabled
  <1>21. ASSUME NEW t \in Threads, ReportBegins(t) PROVE ReportInv'
    BY <1>21 DEF ReportBegins, Round, AfterReport, Goto, IsEnabled
  <1>22. ASSUME NEW t \in Threads, ReportCalls(t) PROVE ReportInv'
    BY <1>22 DEF ReportCalls, Goto, IsEnabled
  <1>23. ASSUME NEW t \in Threads, ReportRechecks(t) PROVE ReportInv'
    BY <1>23 DEF ReportRechecks, Round, AfterReport, Goto, IsEnabled
  <1>24. CASE UNCHANGED vars
    BY <1>24 DEF IsEnabled
  <1> QED BY <1>1, <1>2, <1>3, <1>4, <1>5, <1>6, <1>7, <1>8, <1>9, <1>10, <1>11, <1>12, <1>13,
             <1>14, <1>15, <1>16, <1>17, <1>18, <1>19, <1>20, <1>21, <1>22, <1>23, <1>24
         DEF Next, Browser, Node, Integrator, Timeout, Restart, ReportEnabled

-----------------------------------------------------------------------------
(* The pairing stands.                                                     *)

\* Every step keeps the pairing that stands.
LEMMA StandStep ==
  ASSUME TypeOK, MutexInv, StandInv, [Next]_vars
  PROVE  StandInv'
  <1> USE PairingAssumption, Flags DEF TypeOK, MutexInv, StandInv, PairingStands, Calling,
          Restarting, Reporting, Deciding, vars, state, node, report, Threads, Callers, Places
  <1>1. ASSUME NEW d \in Digests, EvaluateAccepts(d) PROVE StandInv'
    BY <1>1 DEF EvaluateAccepts, Called, Activation, Goto
  <1>2. ASSUME NEW d \in Digests, EvaluateRejects(d) PROVE StandInv'
    BY <1>2 DEF EvaluateRejects, Called
  <1>3. CASE NodeRegisters
    BY <1>3 DEF NodeRegisters, Goto
  <1>4. CASE NodeConnects
    BY <1>4 DEF NodeConnects, Called, Goto
  <1>5. CASE NodeCloses
    BY <1>5 DEF NodeCloses, Called, Goto
  <1>6. CASE NodeReleases
    BY <1>6 DEF NodeReleases
  <1>7. CASE NotifyMessageExchange
    BY <1>7 DEF NotifyMessageExchange, Activation, Goto
  <1>8. CASE ActivateAddCu
    BY <1>8 DEF ActivateAddCu, Call, Called, Activation, Goto
  <1>9. CASE DeactivateAddCu
    BY <1>9 DEF DeactivateAddCu, Call, Called, Activation, Goto
  <1>10. CASE GetRingBuffer
    BY <1>10 DEF GetRingBuffer, Call, Called
  <1>11. ASSUME NEW s \in Secrets \cup {None}, SetSecret(s) PROVE StandInv'
    BY <1>11 DEF SetSecret, Call, Called, Goto
  <1>12. ASSUME NEW cs \in SUBSET Curves, SetSupportedCurves(cs) PROVE StandInv'
    BY <1>12 DEF SetSupportedCurves, Call, Called
  <1>13. ASSUME NEW valid \in BOOLEAN, SetRingBuffer(valid) PROVE StandInv'
    BY <1>13 DEF SetRingBuffer, Call, Called, Activation, Goto
  <1>14. CASE TimerFires
    BY <1>14 DEF TimerFires, Goto
  <1>15. CASE TimeoutBegins
    BY <1>15 DEF TimeoutBegins, Goto
  <1>16. CASE TimeoutAsks
    BY <1>16 DEF TimeoutAsks, Goto
  <1>17. CASE TimeoutDecides
    <2>1. CASE /\ local.revision # activation_revision \/ timer_restart_in_progress
               /\ Goto("timer", "idle")
               /\ UNCHANGED <<add_cu_activated, activation_revision, asked>>
      BY <1>17, <2>1, Flags DEF TimeoutDecides, Goto
    <2>2. CASE /\ local.revision = activation_revision /\ ~timer_restart_in_progress
               /\ Goto("timer", "report")
               /\ Activation(~local.available, FALSE)
      BY <1>17, <2>2, Flags DEF TimeoutDecides, Goto, Activation
    <2> QED BY <1>17, <2>1, <2>2, DecidesCases
  <1>18. ASSUME NEW t \in Callers, RestartStops(t) PROVE StandInv'
    BY <1>18 DEF RestartStops, Goto
  <1>19. ASSUME NEW t \in Callers, RestartStarts(t) PROVE StandInv'
    BY <1>19 DEF RestartStarts, Goto
  <1>20. ASSUME NEW t \in Callers, RestartFinishes(t) PROVE StandInv'
    BY <1>20 DEF RestartFinishes, Goto
  <1>21. ASSUME NEW t \in Threads, ReportBegins(t) PROVE StandInv'
    <2>1. local'.revision = local.revision /\ local'.available = local.available
      BY <1>21 DEF ReportBegins, Round
    <2>2. \E x \in {"register", "idle", "call"} : at' = [at EXCEPT ![t] = x]
      BY <1>21 DEF ReportBegins, Round, AfterReport, Goto
    <2>3. UNCHANGED <<state, node, asked>>
      BY <1>21 DEF ReportBegins
    <2>4. at[t] \in {"report", "recheck"}
      BY <1>21 DEF ReportBegins
    <2>5. /\ at'["node"] = "notify" <=> at["node"] = "notify"
          /\ at'["timer"] = "decide" <=> at["timer"] = "decide"
      BY <2>2, <2>4
    <2> QED BY <2>1, <2>3, <2>5
  <1>22. ASSUME NEW t \in Threads, ReportCalls(t) PROVE StandInv'
    BY <1>22 DEF ReportCalls, Goto
  <1>23. ASSUME NEW t \in Threads, ReportRechecks(t) PROVE StandInv'
    <2>1. local'.revision = local.revision /\ local'.available = local.available
      BY <1>23 DEF ReportRechecks, Round
    <2>2. \E x \in {"register", "idle", "call"} : at' = [at EXCEPT ![t] = x]
      BY <1>23 DEF ReportRechecks, Round, AfterReport, Goto
    <2>3. UNCHANGED <<state, node, asked>>
      BY <1>23 DEF ReportRechecks
    <2>4. at[t] \in {"report", "recheck"}
      BY <1>23 DEF ReportRechecks
    <2>5. /\ at'["node"] = "notify" <=> at["node"] = "notify"
          /\ at'["timer"] = "decide" <=> at["timer"] = "decide"
      BY <2>2, <2>4
    <2> QED BY <2>1, <2>3, <2>5
  <1>24. CASE UNCHANGED vars
    BY <1>24
  <1> QED BY <1>1, <1>2, <1>3, <1>4, <1>5, <1>6, <1>7, <1>8, <1>9, <1>10, <1>11, <1>12, <1>13,
             <1>14, <1>15, <1>16, <1>17, <1>18, <1>19, <1>20, <1>21, <1>22, <1>23, <1>24
         DEF Next, Browser, Node, Integrator, Timeout, Restart, ReportEnabled

-----------------------------------------------------------------------------
(* The timer.                                                              *)

\* Every step keeps the timer running when it has to.
LEMMA TimerStep ==
  ASSUME TypeOK, MutexInv, StandInv, TimerInv, [Next]_vars
  PROVE  TimerInv'
  <1> USE PairingAssumption, Flags DEF TypeOK, MutexInv, StandInv, TimerInv, WillReactivate,
          Calling, Restarting, Reporting, Deciding, vars, state, node, report, Threads,
          Callers, Places
  <1>1. ASSUME NEW d \in Digests, EvaluateAccepts(d) PROVE TimerInv'
    BY <1>1 DEF EvaluateAccepts, Called, Activation, Goto
  <1>2. ASSUME NEW d \in Digests, EvaluateRejects(d) PROVE TimerInv'
    BY <1>2 DEF EvaluateRejects, Called
  <1>3. CASE NodeRegisters
    BY <1>3 DEF NodeRegisters, Goto
  <1>4. CASE NodeConnects
    BY <1>4 DEF NodeConnects, Called, Goto
  <1>5. CASE NodeCloses
    BY <1>5 DEF NodeCloses, Called, Goto
  <1>6. CASE NodeReleases
    BY <1>6 DEF NodeReleases
  <1>7. CASE NotifyMessageExchange
    BY <1>7 DEF NotifyMessageExchange, Activation, Goto
  <1>8. CASE ActivateAddCu
    BY <1>8 DEF ActivateAddCu, Call, Called, Activation, Goto
  <1>9. CASE DeactivateAddCu
    BY <1>9 DEF DeactivateAddCu, Call, Called, Activation, Goto
  <1>10. CASE GetRingBuffer
    BY <1>10 DEF GetRingBuffer, Call, Called
  <1>11. ASSUME NEW s \in Secrets \cup {None}, SetSecret(s) PROVE TimerInv'
    BY <1>11 DEF SetSecret, Call, Called, Goto
  <1>12. ASSUME NEW cs \in SUBSET Curves, SetSupportedCurves(cs) PROVE TimerInv'
    BY <1>12 DEF SetSupportedCurves, Call, Called
  <1>13. ASSUME NEW valid \in BOOLEAN, SetRingBuffer(valid) PROVE TimerInv'
    BY <1>13 DEF SetRingBuffer, Call, Called, Activation, Goto
  <1>14. CASE TimerFires
    BY <1>14 DEF TimerFires, Goto
  <1>15. CASE TimeoutBegins
    BY <1>15 DEF TimeoutBegins, Goto
  <1>16. CASE TimeoutAsks
    <2>1. /\ local'.available <=> connection # "no"
          /\ local'.revision = local.revision
      BY <1>16 DEF TimeoutAsks
    <2> QED BY <1>16, <2>1 DEF TimeoutAsks, Goto
  <1>17. CASE TimeoutDecides
    <2>1. CASE /\ local.revision # activation_revision \/ timer_restart_in_progress
               /\ Goto("timer", "idle")
               /\ UNCHANGED <<add_cu_activated, activation_revision, asked>>
      BY <1>17, <2>1, Flags DEF TimeoutDecides, Goto
    <2>2. CASE /\ local.revision = activation_revision /\ ~timer_restart_in_progress
               /\ Goto("timer", "report")
               /\ Activation(~local.available, FALSE)
      BY <1>17, <2>2, Flags DEF TimeoutDecides, Goto, Activation
    <2> QED BY <1>17, <2>1, <2>2, DecidesCases
  <1>18. ASSUME NEW t \in Callers, RestartStops(t) PROVE TimerInv'
    BY <1>18 DEF RestartStops, Goto
  <1>19. ASSUME NEW t \in Callers, RestartStarts(t) PROVE TimerInv'
    BY <1>19 DEF RestartStarts, Goto
  <1>20. ASSUME NEW t \in Callers, RestartFinishes(t) PROVE TimerInv'
    BY <1>20 DEF RestartFinishes, Goto
  <1>21. ASSUME NEW t \in Threads, ReportBegins(t) PROVE TimerInv'
    BY <1>21 DEF ReportBegins, Round, AfterReport, Goto
  <1>22. ASSUME NEW t \in Threads, ReportCalls(t) PROVE TimerInv'
    BY <1>22 DEF ReportCalls, Goto
  <1>23. ASSUME NEW t \in Threads, ReportRechecks(t) PROVE TimerInv'
    BY <1>23 DEF ReportRechecks, Round, AfterReport, Goto
  <1>24. CASE UNCHANGED vars
    BY <1>24
  <1> QED BY <1>1, <1>2, <1>3, <1>4, <1>5, <1>6, <1>7, <1>8, <1>9, <1>10, <1>11, <1>12, <1>13,
             <1>14, <1>15, <1>16, <1>17, <1>18, <1>19, <1>20, <1>21, <1>22, <1>23, <1>24
         DEF Next, Browser, Node, Integrator, Timeout, Restart, ReportEnabled

-----------------------------------------------------------------------------
(* The theorems.                                                           *)

\* The inductive invariant.
Inv == TypeOK /\ MutexInv /\ ReportInv /\ RingInv /\ StandInv /\ TimerInv

\* It holds in the beginning,
LEMMA InvInit == Init => Inv
  <1> SUFFICES ASSUME Init PROVE Inv
    OBVIOUS
  <1>1. TypeOK
    <2>1. prompt \in BOOLEAN
      BY PairingAssumption DEF Init
    <2>2. saved \in [ring : Ring, accepted : Seq(Digests)] /\ accepted \in Seq(Digests)
      BY NoRingType DEF Init
    <2>3. at \in [Threads -> Places]
      BY DEF Init, Places
    <2> QED BY <2>1, <2>2, <2>3, NoRingType DEF Init, TypeOK
  <1>2. RingInv
    BY EmptyHolds DEF Init, RingInv
  <1>3. MutexInv /\ ReportInv
    BY PairingAssumption DEF Init, MutexInv, ReportInv, IsEnabled, Calling, Restarting,
       Reporting, Threads
  <1>4. StandInv /\ TimerInv
    BY PairingAssumption DEF Init, StandInv, PairingStands, TimerInv, WillReactivate, Deciding,
       Reporting, Threads, Callers
  <1> QED BY <1>1, <1>2, <1>3, <1>4 DEF Inv

\* every step keeps it,
LEMMA InvStep == Inv /\ [Next]_vars => Inv'
  BY TypeStep, MutexStep, ReportStep, RingStep, StandStep, TimerStep DEF Inv

\* so it always holds.
LEMMA Invariance == Spec => []Inv
  BY InvInit, InvStep, PTL DEF Spec

\* Every variable of the evaluator always has its type.
THEOREM TypeCorrect == Spec => []TypeOK
  <1>1. Inv => TypeOK
    BY DEF Inv
  <1> QED BY <1>1, Invariance, PTL

\* Whatever threads change and report at once, in the end the node browses for requests if and
\* only if a request could be accepted (ShipPairingReportEnabled).
THEOREM BrowsingFollows == Spec => []BrowsesIffEnabled
  <1>1. Inv => BrowsesIffEnabled
    <2> SUFFICES ASSUME Inv, Changing = {}, ~reporting_enabled PROVE browsing = IsEnabled
      BY DEF BrowsesIffEnabled
    <2>1. \A t \in Threads : at[t] \notin Restarting \cup {"report"}
      BY DEF Changing, Restarting
    <2>2. (browsing <=> reported_enabled) /\ (reported_enabled <=> IsEnabled)
      BY <2>1 DEF Inv, ReportInv, Reporting
    <2>3. browsing \in BOOLEAN /\ IsEnabled \in BOOLEAN
      BY Flags DEF Inv, TypeOK
    <2> QED BY <2>2, <2>3
  <1> QED BY <1>1, Invariance, PTL

\* The current entry is that of the last request accepted, also where the buffer wraps; no stale
\* decision of the timer undoes a pairing that stands (ShipPairingTimeoutCallback); and a node
\* that is paired and has lost its peer has its timer running (NotifyMessageExchange).
THEOREM PairingIsKept == Spec => []PairingKept
  <1>1. Inv => PairingKept
    BY HoldsLast DEF Inv, StandInv, TimerInv, PairingKept
  <1> QED BY <1>1, Invariance, PTL

\* No digest that is among the last RingSize accepted or restored ones is accepted
\* (EvaluateLocked), for every size of the buffer.
THEOREM NothingReplayed == Spec => NoReplay
  <1>1. Inv /\ [Next]_vars =>
          [\A d \in Digests : accepted' = Append(accepted, d) => d \notin LastAccepted]_vars
    BY ReplayStep DEF Inv
  <1> QED BY <1>1, Invariance, PTL DEF Spec, NoReplay
=============================================================================
