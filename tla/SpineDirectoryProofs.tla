------------------------ MODULE SpineDirectoryProofs ------------------------
(***************************************************************************)
(* Proofs about SpineDirectory: a peer that has nothing more to hear knows *)
(* the use cases that the device offers, whatever was added, removed, read *)
(* again or lost on the way.                                               *)
(*                                                                         *)
(* The invariant follows the messages between the two ends.  First the     *)
(* peer waits for the entities, and the answer to its last read is the     *)
(* last message under way (Discovering).  Then it has subscribed before it *)
(* reads the use cases, and the last thing it asked for is a read          *)
(* (Following); once every read is answered, the last data under way, or   *)
(* what the peer has if there is none, is what the device offers           *)
(* (Agreeing).  The lemmas go from the lists of use cases to the messages, *)
(* the handlers and the actions of the two ends.                           *)
(***************************************************************************)
EXTENDS SpineDirectory, DataInduction, SequenceTheorems, FiniteSetTheorems

(* The entities whose use cases the device may offer: those that are not   *)
(* deleted, or all if a list cannot become empty.                          *)
Alive(o) == {e \in Entities : o.entity[e] # "deleted" \/ NoMemoryForZero}

(* What the peer's handlers can know of: the use cases of the data it was  *)
(* given last, at the entities of the discovery.                           *)
Visible(m) == {u \in Supported(OrEmpty(m.prev)) : u.entity \in m.entities}

(* Messages, by direction and by what was asked for first.                 *)
Discoveries == [type : {"discovery"}, ref : Nat, entities : SUBSET Entities]
EntityMessages == [type : {"entity"}, entity : Entities, state : {"added", "removed"}]
DiscoveryReads == [type : {"readDiscovery"}, msg_cnt : Nat]
CaseReads == [type : {"subscribe"}] \cup [type : {"readUseCase"}, msg_cnt : Nat]

(* What a handler was told is visible, all of it if it was there in time.  *)
ToldInv(m, ev) ==
    /\ ev.early \subseteq ev.handlers
    /\ \A h \in Handlers :
          /\ ev.told[h] \subseteq Visible(m)
          /\ h \notin ev.handlers => ev.told[h] = {}
          /\ h \in ev.early => ev.told[h] = Visible(m)

(* Without a connection nothing is known and nothing under way.            *)
DownInv(o, m, w) ==
    ~m.up => /\ m = NoMirror /\ w = [peer |-> <<>>, device |-> <<>>]
             /\ ~o.subscribed /\ o.reply = Nothing /\ ~o.overtaken

(* The answer to the last discovery that was asked for is the last one     *)
(* under way.                                                              *)
LastAsked(m, w) ==
    /\ \A k \in 1..Len(w.peer) :
          /\ w.peer[k].ref <= m.msg_cnt
          /\ w.peer[k].ref = m.msg_cnt => k = Len(w.peer) /\ w.device = <<>>
    /\ \A k \in 1..Len(w.device) :
          /\ w.device[k].msg_cnt <= m.msg_cnt
          /\ w.device[k].msg_cnt = m.msg_cnt => k = Len(w.device)

(* The peer waits for the entities ...                                     *)
Discovering(o, m, w) ==
    /\ m.pending = <<[msg_cnt |-> m.msg_cnt, kind |-> "discovery"]>>
    /\ w.peer \in Seq(Discoveries) /\ w.device \in Seq(DiscoveryReads)
    /\ ~o.subscribed /\ o.reply = Nothing
    /\ LastAsked(m, w)

(* ... and then for the use cases: it has subscribed to their changes      *)
(* before it reads them, and what it asks for last is a read.              *)
Following(o, m, w) ==
    /\ m.pending = <<>> \/ (Len(m.pending) = 1 /\ m.pending[1].kind = "useCase")
    /\ w.peer \in Seq(CaseMessages \cup EntityMessages) /\ w.device \in Seq(CaseReads)
    /\ \A k \in 1..Len(w.device) : w.device[k].type = "subscribe" <=> k = 1 /\ ~o.subscribed
    /\ ~o.subscribed => Len(w.device) > 1

(* When the messages of a are handled and data of prev was there, data c   *)
(* is: the last one with data has c.                                       *)
Settles(a, prev, c) ==
    /\ \A k \in 1..Len(a) :
          a[k].type = "useCase" /\ (\A l \in (k + 1)..Len(a) : a[l].type # "useCase") => a[k].cases = c
    /\ (\A k \in 1..Len(a) : a[k].type # "useCase") => prev = c

(* Once all reads are answered the peer is about to have the data.         *)
Agreeing(o, m, w) ==
    ~o.overtaken /\ w.device = <<>> =>
        IF o.reply # Nothing THEN o.reply.cases = o.cases ELSE Settles(w.peer, m.prev, o.cases)

(* A connection is in one of the two phases.                               *)
UpInv(o, m, w) ==
    m.up => Discovering(o, m, w) \/ (Following(o, m, w) /\ Agreeing(o, m, w))

(* A use case at an entity.                                                *)
Supports == [entity : Entities, actor : {u.actor : u \in UseCases}, name : {u.name : u \in UseCases}]

(* The types of the two ends,                                              *)
OfferType ==
    [entity : [Entities -> {"built", "listed", "deleted"}], cases : CaseLists(Entities),
     subscribed : BOOLEAN, reply : CaseMessages \cup {Nothing}, overtaken : BOOLEAN]
MirrorType ==
    [up : BOOLEAN, entities : SUBSET Entities, cases : CaseLists(Entities),
     prev : CaseLists(Entities) \cup {Nothing},
     pending : Seq([msg_cnt : Nat, kind : {"discovery", "useCase"}]), msg_cnt : Nat]

(* and of what the handlers were told.                                     *)
EventsType ==
    [handlers : SUBSET Handlers, told : [Handlers -> SUBSET Supports], early : SUBSET Handlers]

(* The two directions.                                                     *)
IsWire(w) == w = [peer |-> w.peer, device |-> w.device]

(* Both ends and what is under way between them.                           *)
LinkInv(o, m, w) ==
    /\ IsWire(w)
    /\ DownInv(o, m, w)
    /\ UpInv(o, m, w)

(* The inductive invariant.                                                *)
DirectoryInv ==
    /\ offer \in OfferType /\ offer.cases \in CaseLists(Alive(offer))
    /\ mirror \in MirrorType /\ mirror.cases = OrEmpty(mirror.prev)
    /\ events \in EventsType /\ ToldInv(mirror, events)
    /\ LinkInv(offer, mirror, wire)

-----------------------------------------------------------------------------
(* The lists that are copied.                                              *)

(* What is kept of a list are members of it that are to be kept.           *)
LEMMA KeptElements ==
    ASSUME NEW S, NEW z \in Seq(S), NEW T
    PROVE  Kept(z, T) \in Seq(S \cap T)
<1> DEFINE n == Len(z)
           V == Seq(S \cap T)
           none == <<>>
           step == [i \in 1..n |-> [x \in V |-> IF z[i] \in T THEN Append(x, z[i]) ELSE x]]
<1>1. n \in Nat /\ none \in V
  BY LenProperties, EmptySeq
<1>2. Steps(step, n, V)
  <2> SUFFICES ASSUME NEW i \in 1..n, NEW x \in V
               PROVE  (IF z[i] \in T THEN Append(x, z[i]) ELSE x) \in V
    BY <1>1 DEF Steps
  <2>1. z[i] \in S
    BY ElementOfSeq
  <2> QED
    BY <2>1, AppendProperties
<1>3. PICK f : Loop(f, n, V, none, step)
  <2> HIDE DEF step, V, n, none
  <2> QED
    BY <1>1, <1>2, LoopExists
<1>4. \A i \in 1..n : f[i] = IF z[i] \in T THEN Append(f[i - 1], z[i]) ELSE f[i - 1]
  <2> TAKE i \in 1..n
  <2>1. i - 1 \in 0..n
    BY <1>1
  <2>2. f[i - 1] \in V
    BY <1>3, <2>1 DEF Loop
  <2> QED
    BY <1>3, <2>2 DEF Loop
<1> DEFINE Is(g) == g = [i \in 0..n |-> IF i = 0 THEN <<>>
                            ELSE IF z[i] \in T THEN Append(g[i - 1], z[i]) ELSE g[i - 1]]
           k == CHOOSE g : Is(g)
<1>5. Is(f)
  <2>1. \A i \in 0..n : i = 0 \/ i \in 1..n
    BY <1>1
  <2>2. \A i \in 0..n : f[i] = IF i = 0 THEN <<>>
                            ELSE IF z[i] \in T THEN Append(f[i - 1], z[i]) ELSE f[i - 1]
    BY <1>3, <1>4, <2>1 DEF Loop
  <2> QED
    BY <1>3, <2>2 DEF Loop
<1>6. Is(k)
  <2> HIDE DEF Is
  <2> QED
    BY <1>5
<1>7. Kept(z, T) = k[n]
  BY DEF Kept
<1>8. k[n] = f[n]
  <2>1. k[0] = <<>> /\ \A i \in 1..n : k[i] = IF z[i] \in T THEN Append(k[i - 1], z[i]) ELSE k[i - 1]
    <3>1. 0 \in 0..n /\ \A i \in 1..n : i \in 0..n /\ i # 0
      BY <1>1
    <3> HIDE DEF k
    <3> QED
      BY <1>6, <3>1
  <2> HIDE DEF k, n, V, none, step
  <2>2. Alike(k, f, n)
    BY <1>3, <1>4, <2>1 DEF Alike, Loop, none
  <2> QED
    BY <1>1, <2>2, LoopUnique
<1>9. f[n] \in V
  BY <1>1, <1>3 DEF Loop
<1> QED
  BY <1>7, <1>8, <1>9

(* A search for an index with a least one.                                 *)
LEMMA FirstIndex ==
    ASSUME NEW n \in Nat, NEW T \in SUBSET (1..n), NEW i, i = IF T # {} THEN Min(T) ELSE 0
    PROVE  (i = 0 /\ T = {}) \/ (i \in T /\ i \in 1..n)
<1>1. CASE T = {}
  BY <1>1
<1>2. CASE T # {}
  <2>1. T \in SUBSET Nat
    OBVIOUS
  <2>2. \E m \in T : \A k \in T : m <= k
    BY <1>2, <2>1, LeastNumber
  <2>3. Min(T) \in T
    BY <2>2 DEF Min
  <2> QED
    BY <1>2, <2>3
<1> QED
  BY <1>1, <1>2

(* A function on the first numbers is a sequence.                          *)
LEMMA IsSequence ==
    ASSUME NEW S, NEW n \in Nat, NEW z \in [1..n -> S]
    PROVE  z \in Seq(S)
<1>1. z \in UNION {[1..k -> S] : k \in Nat}
  BY SMTT(30)
<1> QED
  BY <1>1, SeqDef

(* Use case data of some entities is data of more.                         *)
LEMMA CaseListsGrow ==
    ASSUME NEW X, NEW Y, X \subseteq Y, NEW z \in CaseLists(X)
    PROVE  z \in CaseLists(Y)
<1>1. CaseInfos(X) \subseteq CaseInfos(Y)
  BY DEF CaseInfos
<1>2. Len(z) \in Nat /\ z \in [1..Len(z) -> CaseInfos(X)]
  BY LenProperties DEF CaseLists
<1>3. z \in [1..Len(z) -> CaseInfos(Y)]
  <2> HIDE DEF CaseInfos
  <2> QED
    BY <1>1, <1>2
<1> QED
  BY <1>2, <1>3, IsSequence DEF CaseLists

(* Another use case of an entity.                                          *)
LEMMA AddedCases ==
    ASSUME NEW X, NEW z \in CaseLists(X), NEW e \in X, NEW u \in UseCases
    PROVE  NodeManagementUseCaseDataAddUseCaseSupport(z, e, u) \in CaseLists(X)
<1> DEFINE Marks == [name : {v.name : v \in UseCases}, available : BOOLEAN]
           support == [name |-> u.name, available |-> TRUE]
           T == {j \in 1..Len(z) : z[j].entity = e /\ z[j].actor = u.actor}
           i == IF T # {} THEN Min(T) ELSE 0
           info == [entity |-> e, actor |-> u.actor, supports |-> <<support>>]
           more == [z[i] EXCEPT !.supports = Append(@, support)]
<1>0. z \in Seq(CaseInfos(X)) /\ Len(z) \in Nat
  BY LenProperties DEF CaseLists
<1>1. support \in Marks
  OBVIOUS
<1>2. NodeManagementUseCaseDataAddUseCaseSupport(z, e, u)
        = IF i # 0 THEN [z EXCEPT ![i].supports = Append(@, support)] ELSE Append(z, info)
  BY DEF NodeManagementUseCaseDataAddUseCaseSupport, SelectInSeq
<1>3. (i = 0 /\ T = {}) \/ (i \in T /\ i \in 1..Len(z))
  <2> HIDE DEF T
  <2>1. T \in SUBSET (1..Len(z))
    BY DEF T
  <2> QED
    BY <1>0, <2>1, FirstIndex
<1> HIDE DEF i
<1>4. CASE i = 0
  <2>1. <<support>> \in Seq(Marks)
    BY <1>1
  <2>2. info \in CaseInfos(X)
    BY <2>1 DEF CaseInfos
  <2> HIDE DEF info
  <2> QED
    BY <1>0, <1>2, <1>4, <2>2, AppendProperties DEF CaseLists
<1>5. CASE i \in 1..Len(z)
  <2>1. z[i] \in CaseInfos(X)
    BY <1>0, <1>5, ElementOfSeq
  <2>2. z[i].supports \in Seq(Marks)
    BY <2>1 DEF CaseInfos
  <2>3. Append(z[i].supports, support) \in Seq(Marks)
    BY <1>1, <2>2, AppendProperties
  <2>4. more \in CaseInfos(X)
    BY <2>1, <2>3 DEF CaseInfos
  <2>5. [z EXCEPT ![i].supports = Append(@, support)] = [z EXCEPT ![i] = more]
    BY <1>0, <1>5
  <2> HIDE DEF more
  <2>6. [z EXCEPT ![i] = more] \in Seq(CaseInfos(X))
    BY <1>0, <1>5, <2>4, ExceptSeq
  <2>7. i # 0
    BY <1>5
  <2> QED
    BY <1>2, <2>5, <2>6, <2>7 DEF CaseLists
<1> QED
  BY <1>3, <1>4, <1>5

(* A use case that is available or is not.                                 *)
LEMMA SetCases ==
    ASSUME NEW X, NEW z \in CaseLists(X), NEW e \in X, NEW u \in UseCases, NEW a \in BOOLEAN
    PROVE  NodeManagementUseCaseDataSetAvailability(z, e, u, a) \in CaseLists(X)
<1> DEFINE Marks == [name : {v.name : v \in UseCases}, available : BOOLEAN]
           T == {l \in 1..Len(z) : UseCaseInformationMatch(z[l], e, u)}
           i == IF T # {} THEN Min(T) ELSE 0
           U == {l \in 1..Len(z[i].supports) : z[i].supports[l].name = u.name}
           j == IF U # {} THEN Min(U) ELSE 0
<1>0. z \in Seq(CaseInfos(X)) /\ Len(z) \in Nat
  BY LenProperties DEF CaseLists
<1>2. NodeManagementUseCaseDataSetAvailability(z, e, u, a)
        = IF i = 0 THEN z ELSE [z EXCEPT ![i].supports[j].available = a]
  BY DEF NodeManagementUseCaseDataSetAvailability, SelectInSeq
<1>3. (i = 0 /\ T = {}) \/ (i \in T /\ i \in 1..Len(z))
  <2> HIDE DEF T
  <2>1. T \in SUBSET (1..Len(z))
    BY DEF T
  <2> QED
    BY <1>0, <2>1, FirstIndex
<1>4. CASE i = 0
  BY <1>2, <1>4
<1>5. CASE i \in T /\ i \in 1..Len(z)
  <2> HIDE DEF i
  <2>1. z[i] \in CaseInfos(X)
    BY <1>0, <1>5, ElementOfSeq
  <2>2. z[i].supports \in Seq(Marks) /\ Len(z[i].supports) \in Nat
    BY <2>1, LenProperties DEF CaseInfos
  <2>3. j \in 1..Len(z[i].supports)
    <3>1. UseCaseInformationMatch(z[i], e, u)
      BY <1>5
    <3>2. \E s \in ToSet(z[i].supports) : s.name = u.name
      BY <3>1 DEF UseCaseInformationMatch
    <3>3. U # {}
      BY <2>2, <3>2 DEF ToSet
    <3>4. U \in SUBSET (1..Len(z[i].supports))
      OBVIOUS
    <3> HIDE DEF U
    <3> QED
      BY <2>2, <3>3, <3>4, FirstIndex
  <2> HIDE DEF j
  <2> DEFINE mark == [z[i].supports[j] EXCEPT !.available = a]
             marks == [z[i].supports EXCEPT ![j] = mark]
             more == [z[i] EXCEPT !.supports = marks]
  <2>4. z[i].supports[j] \in Marks
    BY <2>2, <2>3, ElementOfSeq
  <2>5. mark \in Marks
    BY <2>4
  <2> HIDE DEF mark
  <2>6. marks \in Seq(Marks)
    BY <2>2, <2>3, <2>5, ExceptSeq
  <2>7. [z EXCEPT ![i].supports[j].available = a] = [z EXCEPT ![i] = more]
    BY <1>0, <1>5, <2>1, <2>2, <2>3 DEF mark, CaseInfos
  <2> HIDE DEF marks
  <2>8. more \in CaseInfos(X)
    BY <2>1, <2>6 DEF CaseInfos
  <2> HIDE DEF more
  <2>9. [z EXCEPT ![i] = more] \in Seq(CaseInfos(X))
    BY <1>0, <1>5, <2>8, ExceptSeq
  <2>10. i # 0
    BY <1>5
  <2> QED
    BY <1>2, <2>7, <2>9, <2>10 DEF CaseLists
<1> QED
  BY <1>3, <1>4, <1>5

(* The use cases of an entity that goes: none is left, or all are if a     *)
(* list cannot become empty.                                               *)
LEMMA AddressedCases ==
    ASSUME NEW X, NEW z \in CaseLists(X), NEW e
    PROVE  NodeManagementUseCaseDataRemoveWithAddress(z, e)
              \in CaseLists(IF NoMemoryForZero THEN X ELSE X \ {e})
<1> DEFINE T == {info \in ToSet(z) : info.entity # e}
           left == Kept(z, T)
<1>1. left \in Seq(CaseInfos(X) \cap T)
  BY KeptElements DEF CaseLists
<1>2. CaseInfos(X) \cap T \subseteq CaseInfos(X \ {e})
  BY DEF CaseInfos
<1>3. NodeManagementUseCaseDataRemoveWithAddress(z, e) = IF left = <<>> /\ NoMemoryForZero THEN z ELSE left
  BY DEF NodeManagementUseCaseDataRemoveWithAddress
<1> HIDE DEF left, T
<1>4. left \in CaseLists(X \ {e})
  <2>1. Len(left) \in Nat /\ left \in [1..Len(left) -> CaseInfos(X) \cap T]
    BY <1>1, LenProperties
  <2>2. left \in [1..Len(left) -> CaseInfos(X \ {e})]
    BY <1>2, <2>1
  <2> QED
    BY <2>1, <2>2, IsSequence DEF CaseLists
<1>5. left \in CaseLists(X)
  BY <1>4, CaseListsGrow, X \ {e} \subseteq X
<1> QED
  BY <1>3, <1>4, <1>5

(* The entry of an actor that loses a use case.                            *)
LEMMA FilteredCases ==
    ASSUME NEW X, NEW z \in CaseLists(X), NEW e, NEW u
    PROVE  NodeManagementUseCaseDataRemoveWithFilters(z, e, {u}) \in CaseLists(X)
<1> DEFINE T == {info \in ToSet(z) : ~\E v \in {u} : UseCaseInformationMatch(info, e, v)}
           left == Kept(z, T)
           n == Len(left) * Cardinality({u})
           copy == [i \in 1..n |-> IF i <= Len(left) THEN left[i] ELSE Nothing]
<1>1. left \in Seq(CaseInfos(X) \cap T)
  BY KeptElements DEF CaseLists
<1>2. NodeManagementUseCaseDataRemoveWithFilters(z, e, {u}) \in {z, copy}
  BY DEF NodeManagementUseCaseDataRemoveWithFilters
<1> HIDE DEF left, T
<1>3. Len(left) \in Nat /\ left \in [1..Len(left) -> CaseInfos(X) \cap T]
  BY <1>1, LenProperties
<1>4. Cardinality({u}) = 1
  BY FS_Singleton
<1>5. n = Len(left)
  <2>1. \A k \in Nat : k * 1 = k
    OBVIOUS
  <2>2. n = Len(left) * 1
    BY <1>4
  <2> QED
    BY <1>3, <2>1, <2>2
<1> HIDE DEF n
<1>6. copy = left
  BY <1>3, <1>5
<1> HIDE DEF copy
<1>7. left \in [1..Len(left) -> CaseInfos(X)]
  BY <1>3
<1>8. left \in CaseLists(X)
  BY <1>3, <1>7, IsSequence DEF CaseLists
<1> QED
  BY <1>2, <1>6, <1>8

-----------------------------------------------------------------------------
(* What the peer will have when it has handled its messages.               *)

(* Data that is sent settles it.                                           *)
LEMMA SettledByData ==
    ASSUME NEW M, NEW a \in Seq(M), NEW msg \in M, msg.type = "useCase", NEW prev
    PROVE  Settles(Append(a, msg), prev, msg.cases)
<1>1. /\ Len(a) \in Nat /\ Append(a, msg) \in Seq(M) /\ Len(Append(a, msg)) = Len(a) + 1
      /\ Append(a, msg)[Len(a) + 1] = msg
  BY AppendProperties, LenProperties
<1> DEFINE b == Append(a, msg)
<1> HIDE DEF b
<1>2. Len(b) \in Nat /\ Len(b) \in 1..Len(b) /\ b[Len(b)] = msg
  BY <1>1 DEF b
<1>3. ASSUME NEW k \in 1..Len(b), \A l \in (k + 1)..Len(b) : b[l].type # "useCase" PROVE b[k] = msg
  <2>1. k = Len(b)
    <3>1. CASE k # Len(b)
      <4>1. Len(b) \in (k + 1)..Len(b)
        BY <1>2, <3>1
      <4> QED
        BY <1>2, <1>3, <4>1
    <3> QED
      BY <3>1
  <2> QED
    BY <1>2, <2>1
<1>4. ~\A k \in 1..Len(b) : b[k].type # "useCase"
  BY <1>2
<1>5. Settles(b, prev, msg.cases)
  BY <1>3, <1>4 DEF Settles
<1> QED
  BY <1>5 DEF b

(* A notify of an entity does not.                                         *)
LEMMA SettledBesides ==
    ASSUME NEW M, NEW a \in Seq(M), NEW msg \in M, msg.type # "useCase", NEW prev, NEW c,
           Settles(a, prev, c)
    PROVE  Settles(Append(a, msg), prev, c)
<1> DEFINE b == Append(a, msg)
<1>1. /\ Len(a) \in Nat /\ Len(b) = Len(a) + 1 /\ b[Len(a) + 1] = msg
      /\ \A i \in 1..Len(a) : b[i] = a[i]
  BY AppendProperties, LenProperties
<1> HIDE DEF b
<1>2. ASSUME NEW k \in 1..Len(b), b[k].type = "useCase", \A l \in (k + 1)..Len(b) : b[l].type # "useCase"
      PROVE  b[k].cases = c
  <2>1. k \in 1..Len(a)
    <3>1. k # Len(a) + 1
      BY <1>1, <1>2
    <3> QED
      BY <1>1, <3>1
  <2>2. ASSUME NEW l \in (k + 1)..Len(a) PROVE a[l].type # "useCase"
    <3>1. l \in (k + 1)..Len(b) /\ l \in 1..Len(a)
      BY <1>1, <2>1
    <3> QED
      BY <1>1, <1>2, <3>1
  <2>3. b[k] = a[k]
    BY <1>1, <2>1
  <2> QED
    BY <1>2, <2>1, <2>2, <2>3 DEF Settles
<1>3. ASSUME \A k \in 1..Len(b) : b[k].type # "useCase" PROVE prev = c
  <2>1. ASSUME NEW k \in 1..Len(a) PROVE a[k].type # "useCase"
    <3>1. k \in 1..Len(b) /\ b[k] = a[k]
      BY <1>1
    <3> QED
      BY <1>3, <3>1
  <2> QED
    BY <2>1 DEF Settles
<1>4. Settles(b, prev, c)
  BY <1>2, <1>3 DEF Settles
<1> QED
  BY <1>4 DEF b

(* The first message is handled.                                           *)
LEMMA SettledTail ==
    ASSUME NEW M, NEW a \in Seq(M), a # <<>>, NEW prev, NEW c, Settles(a, prev, c)
    PROVE  /\ Head(a).type = "useCase" => Settles(Tail(a), Head(a).cases, c)
           /\ Head(a).type # "useCase" => Settles(Tail(a), prev, c)
<1> DEFINE b == Tail(a)
           q == IF a[1].type = "useCase" THEN a[1].cases ELSE prev
<1>1. /\ Len(a) \in Nat /\ Len(a) >= 1 /\ Head(a) = a[1] /\ Len(b) = Len(a) - 1
      /\ \A i \in 1..Len(b) : b[i] = a[i + 1]
  BY HeadTailProperties, EmptySeq, LenProperties
<1> HIDE DEF b
<1>2. ASSUME NEW k \in 1..Len(b), b[k].type = "useCase", \A l \in (k + 1)..Len(b) : b[l].type # "useCase"
      PROVE  b[k].cases = c
  <2>1. k + 1 \in 1..Len(a) /\ b[k] = a[k + 1]
    BY <1>1
  <2>2. ASSUME NEW l \in (k + 1 + 1)..Len(a) PROVE a[l].type # "useCase"
    <3>1. l - 1 \in (k + 1)..Len(b) /\ l - 1 \in 1..Len(b) /\ (l - 1) + 1 = l
      BY <1>1
    <3>2. b[l - 1] = a[l]
      BY <1>1, <3>1
    <3> QED
      BY <1>2, <3>1, <3>2
  <2> QED
    BY <1>2, <2>1, <2>2 DEF Settles
<1>3. ASSUME \A k \in 1..Len(b) : b[k].type # "useCase" PROVE q = c
  <2>1. ASSUME NEW l \in 2..Len(a) PROVE a[l].type # "useCase"
    <3>1. l - 1 \in 1..Len(b) /\ (l - 1) + 1 = l
      BY <1>1
    <3>2. b[l - 1] = a[l]
      BY <1>1, <3>1
    <3> QED
      BY <1>3, <3>1, <3>2
  <2>2. 1 \in 1..Len(a) /\ \A l \in 1..Len(a) : l = 1 \/ l \in 2..Len(a)
    BY <1>1
  <2>3. CASE a[1].type = "useCase"
    <3>1. \A l \in (1 + 1)..Len(a) : a[l].type # "useCase"
      BY <2>1
    <3> QED
      BY <2>2, <2>3, <3>1 DEF Settles
  <2>4. CASE a[1].type # "useCase"
    BY <2>1, <2>2, <2>4 DEF Settles
  <2> QED
    BY <2>3, <2>4
<1>4. Settles(b, q, c)
  BY <1>2, <1>3 DEF Settles
<1> QED
  BY <1>1, <1>4 DEF b

-----------------------------------------------------------------------------
(* What the handlers are told.                                             *)

(* The use cases of some data are those of its entries.                    *)
LEMMA SupportedCases ==
    ASSUME NEW X \in SUBSET Entities, NEW z \in CaseLists(X)
    PROVE  Supported(z) \subseteq {s \in Supports : s.entity \in X}
<1> SUFFICES ASSUME NEW s \in Supported(z) PROVE s \in Supports /\ s.entity \in X
  OBVIOUS
<1>1. PICK info \in ToSet(z) :
         s \in {[entity |-> info.entity, actor |-> info.actor, name |-> x.name] : x \in ToSet(info.supports)}
  BY DEF Supported
<1>2. PICK x \in ToSet(info.supports) : s = [entity |-> info.entity, actor |-> info.actor, name |-> x.name]
  BY <1>1
<1>3. info \in CaseInfos(X)
  BY ElementOfSeq DEF CaseLists, ToSet
<1>4. x \in [name : {v.name : v \in UseCases}, available : BOOLEAN]
  <2> DEFINE Marks == [name : {v.name : v \in UseCases}, available : BOOLEAN]
  <2>1. info.supports \in Seq(Marks)
    BY <1>3 DEF CaseInfos
  <2> HIDE DEF Marks
  <2>2. x \in Marks
    BY <2>1, ElementOfSeq DEF ToSet
  <2> QED
    BY <2>2 DEF Marks
<1> QED
  BY <1>2, <1>3, <1>4 DEF CaseInfos, Supports

(* New data, or none: what the handlers know follows it.                   *)
LEMMA ToldNew ==
    ASSUME NEW m \in MirrorType, NEW ev \in EventsType, ToldInv(m, ev),
           NEW new \in CaseLists(Entities) \cup {Nothing}
    PROVE  LET n == [m EXCEPT !.cases = OrEmpty(new), !.prev = new]
               told == UpdateUseCaseData(m, ev, new)
           IN  /\ told \in EventsType /\ ToldInv(n, told)
               /\ told.handlers = ev.handlers /\ told.early = ev.early
<1> DEFINE n == [m EXCEPT !.cases = OrEmpty(new), !.prev = new]
           told == UpdateUseCaseData(m, ev, new)
           A == Supported(OrEmpty(m.prev))
           B == Supported(OrEmpty(new))
           E == m.entities
           add == {s \in B : s \notin A /\ s.entity \in E}
           gone == {s \in A : s \notin B /\ s.entity \in E}
           t == [h \in Handlers |-> IF h \in ev.handlers THEN (ev.told[h] \cup add) \ gone ELSE ev.told[h]]
<1>1. OrEmpty(new) \in CaseLists(Entities)
  BY EmptySeq DEF OrEmpty, CaseLists
<1>2. B \subseteq Supports
  BY <1>1, SupportedCases
<1>3. n.prev = new /\ n.entities = E
  BY DEF MirrorType
<1>4. Visible(m) = {s \in A : s.entity \in E} /\ Visible(n) = {s \in B : s.entity \in E}
  BY <1>3 DEF Visible
<1>5. told = [ev EXCEPT !.told = t]
  BY DEF UpdateUseCaseData, EventsPublish, ProcessUseCaseSupport, EventsType
<1> HIDE DEF A, B, E, told, n
<1>6. t \in [Handlers -> SUBSET Supports]
  BY <1>2 DEF EventsType
<1>7. \A h \in Handlers : /\ h \in ev.handlers => t[h] = (ev.told[h] \cup add) \ gone
                          /\ h \notin ev.handlers => t[h] = ev.told[h]
  OBVIOUS
<1> HIDE DEF t
<1>8. told \in EventsType /\ told.told = t /\ told.handlers = ev.handlers /\ told.early = ev.early
  BY <1>5, <1>6 DEF EventsType
<1>9. ASSUME NEW h \in Handlers
      PROVE  /\ t[h] \subseteq Visible(n)
             /\ h \notin ev.handlers => t[h] = {}
             /\ h \in ev.early => t[h] = Visible(n)
  <2>1. /\ ev.told[h] \subseteq Visible(m) /\ ev.early \subseteq ev.handlers
        /\ h \notin ev.handlers => ev.told[h] = {}
        /\ h \in ev.early => ev.told[h] = Visible(m)
    BY DEF ToldInv
  <2> QED
    BY <1>4, <1>7, <2>1
<1>10. ToldInv(n, told)
  BY <1>8, <1>9 DEF ToldInv
<1> QED
  BY <1>8, <1>10 DEF n, told

(* The data goes: nothing is known of, and all handlers are in time for    *)
(* what comes.                                                             *)
LEMMA ToldGone ==
    ASSUME NEW m \in MirrorType, NEW ev \in EventsType, ToldInv(m, ev),
           NEW n, n.prev = Nothing
    PROVE  LET told == NodeManagementRemoteDestruct(m, ev)
           IN  told \in EventsType /\ ToldInv(n, told)
<1> DEFINE x == [m EXCEPT !.cases = OrEmpty(Nothing), !.prev = Nothing]
           left == UpdateUseCaseData(m, ev, Nothing)
           told == [left EXCEPT !.early = left.handlers]
<1>1. left \in EventsType /\ ToldInv(x, left)
  BY ToldNew
<1>2. x.prev = Nothing
  BY DEF MirrorType
<1>3. Supported(OrEmpty(Nothing)) = {}
  <2>1. ToSet(<<>>) = {}
    BY DEF ToSet
  <2> QED
    BY <2>1 DEF Supported, OrEmpty
<1>4. Visible(x) = {} /\ Visible(n) = {}
  BY <1>2, <1>3 DEF Visible
<1>5. NodeManagementRemoteDestruct(m, ev) = told
  BY DEF NodeManagementRemoteDestruct
<1> HIDE DEF left, x
<1>6. told \in EventsType /\ told.told = left.told /\ told.handlers = left.handlers /\ told.early = left.handlers
  BY <1>1 DEF EventsType
<1> HIDE DEF told
<1>7. ToldInv(n, told)
  BY <1>1, <1>4, <1>6 DEF ToldInv
<1> QED
  BY <1>5, <1>6, <1>7

-----------------------------------------------------------------------------
(* The device's steps.                                                     *)

(* An empty list has no index.                                             *)
LEMMA NoneLeft ==
    ASSUME NEW S, NEW a \in Seq(S)
    PROVE  Len(a) \in Nat /\ (a = <<>> <=> Len(a) = 0)
  BY EmptySeq, LenProperties

(* A message to the peer,                                                  *)
LEMMA WirePeer ==
    ASSUME NEW w, IsWire(w), NEW c
    PROVE  LET v == [w EXCEPT !.peer = c] IN IsWire(v) /\ v.peer = c /\ v.device = w.device
<1>1. PICK a, b : w = [peer |-> a, device |-> b]
  BY Zenon DEF IsWire
<1>2. [w EXCEPT !.peer = c] = [peer |-> c, device |-> b] /\ w.peer = a /\ w.device = b
  BY <1>1
<1> QED
  BY <1>2 DEF IsWire

(* and one to the device.                                                  *)
LEMMA WireDevice ==
    ASSUME NEW w, IsWire(w), NEW c
    PROVE  LET v == [w EXCEPT !.device = c] IN IsWire(v) /\ v.peer = w.peer /\ v.device = c
<1>1. PICK a, b : w = [peer |-> a, device |-> b]
  BY Zenon DEF IsWire
<1>2. [w EXCEPT !.device = c] = [peer |-> a, device |-> c] /\ w.peer = a /\ w.device = b
  BY <1>1
<1> QED
  BY <1>2 DEF IsWire

(* Use case data is set and told.                                          *)
LEMMA DataTold ==
    ASSUME NEW o \in OfferType, NEW m \in MirrorType, NEW w, LinkInv(o, m, w), NEW c \in CaseLists(Entities),
           NEW p \in OfferType, p.cases = c, p.subscribed = o.subscribed, p.reply = o.reply,
           p.overtaken = (o.overtaken \/ o.reply # Nothing)
    PROVE  LinkInv(p, m, ToPeer(w, o, [type |-> "useCase", ref |-> 0, cases |-> c]))
<1> DEFINE msg == [type |-> "useCase", ref |-> 0, cases |-> c]
           v == ToPeer(w, o, msg)
<1>0. IsWire(w) /\ DownInv(o, m, w) /\ UpInv(o, m, w)
  BY DEF LinkInv
<1>1. msg \in CaseMessages /\ msg.type = "useCase" /\ msg.cases = c
  BY DEF CaseMessages
<1> HIDE DEF msg
<1>2. CASE ~o.subscribed
  <2>1. v = w
    BY <1>2 DEF ToPeer
  <2>2. DownInv(p, m, w)
    BY <1>0 DEF DownInv
  <2>3. ASSUME Discovering(o, m, w) PROVE Discovering(p, m, w)
    BY <2>3 DEF Discovering
  <2>4. ASSUME Following(o, m, w) PROVE Following(p, m, w) /\ Agreeing(p, m, w)
    <3>1. Following(p, m, w)
      BY <2>4 DEF Following
    <3>2. w.device # <<>>
      BY <1>2, <2>4, NoneLeft DEF Following
    <3> QED
      BY <3>1, <3>2 DEF Agreeing
  <2> HIDE DEF v
  <2>5. UpInv(p, m, v)
    BY <1>0, <2>1, <2>3, <2>4 DEF UpInv
  <2> QED
    BY <1>0, <2>1, <2>2, <2>5 DEF LinkInv, msg, v
<1>3. CASE o.subscribed
  <2>1. v.peer = Append(w.peer, msg) /\ v.device = w.device /\ IsWire(v)
    BY <1>0, <1>3, WirePeer, Zenon DEF ToPeer
  <2> HIDE DEF v
  <2>2. m.up /\ Following(o, m, w) /\ Agreeing(o, m, w)
    BY <1>0, <1>3 DEF DownInv, UpInv, Discovering
  <2> DEFINE M == CaseMessages \cup EntityMessages
  <2>3. msg \in M /\ w.peer \in Seq(M)
    BY <1>1, <2>2 DEF Following
  <2> HIDE DEF M
  <2>4. Append(w.peer, msg) \in Seq(M) /\ Settles(Append(w.peer, msg), m.prev, c)
    <3>1. Append(w.peer, msg) \in Seq(M)
      BY <2>3, AppendProperties
    <3>2. Settles(Append(w.peer, msg), m.prev, msg.cases)
      BY <1>1, <2>3, SettledByData
    <3> QED
      BY <1>1, <3>1, <3>2
  <2>5. Following(p, m, v)
    BY <2>1, <2>2, <2>4 DEF Following, M
  <2>6. Agreeing(p, m, v)
    BY <2>1, <2>4 DEF Agreeing, OfferType
  <2> QED
    BY <2>1, <2>2, <2>5, <2>6 DEF LinkInv, UpInv, DownInv, v, msg
<1> QED
  BY <1>2, <1>3 DEF OfferType

(* A notify of an entity.                                                  *)
LEMMA EntityTold ==
    ASSUME NEW o \in OfferType, NEW m \in MirrorType, NEW w, LinkInv(o, m, w),
           NEW e \in Entities, NEW s \in {"added", "removed"}
    PROVE  LinkInv(o, m, ToPeer(w, o, EntityNotify(e, s)))
<1> DEFINE msg == EntityNotify(e, s)
           v == ToPeer(w, o, msg)
<1>0. IsWire(w) /\ DownInv(o, m, w) /\ UpInv(o, m, w)
  BY DEF LinkInv
<1>1. msg \in EntityMessages /\ msg.type # "useCase"
  BY DEF EntityMessages, EntityNotify
<1> HIDE DEF msg
<1>2. CASE ~o.subscribed
  BY <1>2 DEF ToPeer
<1>3. CASE o.subscribed
  <2>1. v.peer = Append(w.peer, msg) /\ v.device = w.device /\ IsWire(v)
    BY <1>0, <1>3, WirePeer, Zenon DEF ToPeer
  <2> HIDE DEF v
  <2>2. m.up /\ Following(o, m, w) /\ Agreeing(o, m, w)
    BY <1>0, <1>3 DEF DownInv, UpInv, Discovering
  <2> DEFINE M == CaseMessages \cup EntityMessages
  <2>3. msg \in M /\ w.peer \in Seq(M)
    BY <1>1, <2>2 DEF Following
  <2> HIDE DEF M
  <2>4. Append(w.peer, msg) \in Seq(M)
    BY <2>3, AppendProperties
  <2>5. Following(o, m, v)
    BY <2>1, <2>2, <2>4 DEF Following, M
  <2>6. ASSUME Settles(w.peer, m.prev, o.cases) PROVE Settles(v.peer, m.prev, o.cases)
    BY <1>1, <2>1, <2>3, <2>6, SettledBesides
  <2>7. Agreeing(o, m, v)
    BY <2>1, <2>2, <2>6 DEF Agreeing
  <2> QED
    BY <2>1, <2>2, <2>5, <2>7 DEF LinkInv, UpInv, DownInv, v, msg
<1> QED
  BY <1>2, <1>3 DEF OfferType

(* A discovery is read: the answer goes out with the entities there are.   *)
LEMMA DiscoveryAnswered ==
    ASSUME NEW o \in OfferType, NEW m \in MirrorType, NEW w, LinkInv(o, m, w),
           w.device # <<>>, Head(w.device).type = "readDiscovery", NEW x \in SUBSET Entities,
           NEW v, IsWire(v), v.device = Tail(w.device),
           v.peer = Append(w.peer, [type |-> "discovery", ref |-> Head(w.device).msg_cnt, entities |-> x])
    PROVE  LinkInv(o, m, v)
<1> DEFINE msg == [type |-> "discovery", ref |-> Head(w.device).msg_cnt, entities |-> x]
<1>0. IsWire(w) /\ DownInv(o, m, w) /\ UpInv(o, m, w)
  BY DEF LinkInv
<1>1. v.peer = Append(w.peer, msg) /\ v.device = Tail(w.device) /\ IsWire(v)
  BY Zenon
<1>2. m.up
  BY <1>0 DEF DownInv
<1>3. Discovering(o, m, w)
  <2>1. ASSUME Following(o, m, w) PROVE FALSE
    <3>1. w.device \in Seq(CaseReads)
      BY <2>1 DEF Following
    <3>2. Head(w.device) \in CaseReads
      BY <3>1, HeadTailProperties
    <3> QED
      BY <3>2 DEF CaseReads
  <2> QED
    BY <1>0, <1>2, <2>1 DEF UpInv
<1>4. /\ w.device \in Seq(DiscoveryReads) /\ w.peer \in Seq(Discoveries) /\ LastAsked(m, w)
      /\ Len(w.device) \in Nat /\ Len(w.peer) \in Nat
  BY <1>3, LenProperties DEF Discovering
<1>5. /\ Head(w.device) = w.device[1] /\ Tail(w.device) \in Seq(DiscoveryReads) /\ Len(w.device) >= 1
      /\ Len(Tail(w.device)) = Len(w.device) - 1
      /\ \A i \in 1..(Len(w.device) - 1) : Tail(w.device)[i] = w.device[i + 1]
  BY <1>4, HeadTailProperties, EmptySeq
<1>6. w.device[1] \in DiscoveryReads
  BY <1>4, <1>5, ElementOfSeq
<1>7. msg \in Discoveries /\ msg.ref = w.device[1].msg_cnt
  BY <1>5, <1>6 DEF Discoveries, DiscoveryReads
<1> HIDE DEF msg
<1>8. /\ v.peer \in Seq(Discoveries) /\ Len(v.peer) = Len(w.peer) + 1 /\ v.peer[Len(w.peer) + 1] = msg
      /\ \A i \in 1..Len(w.peer) : v.peer[i] = w.peer[i]
  BY <1>1, <1>4, <1>7, AppendProperties
<1>9. LastAsked(m, v)
  <2>0. m.msg_cnt \in Nat
    BY DEF MirrorType
  <2>1. ASSUME NEW k \in 1..Len(v.peer)
        PROVE  /\ v.peer[k].ref <= m.msg_cnt
               /\ v.peer[k].ref = m.msg_cnt => k = Len(v.peer) /\ v.device = <<>>
    <3>1. CASE k \in 1..Len(w.peer)
      <4>1. v.peer[k] = w.peer[k] /\ w.peer[k].ref <= m.msg_cnt
        BY <1>4, <1>8, <3>1 DEF LastAsked
      <4>2. w.peer[k].ref # m.msg_cnt
        BY <1>4, <3>1 DEF LastAsked
      <4> QED
        BY <4>1, <4>2
    <3>2. CASE k = Len(w.peer) + 1
      <4>1. 1 \in 1..Len(w.device)
        BY <1>4, <1>5
      <4>2. w.device[1].msg_cnt <= m.msg_cnt /\ (w.device[1].msg_cnt = m.msg_cnt => 1 = Len(w.device))
        BY <1>4, <4>1 DEF LastAsked
      <4>3. ASSUME 1 = Len(w.device) PROVE v.device = <<>>
        <5>1. Len(Tail(w.device)) = 0
          BY <1>5, <4>3
        <5>2. Tail(w.device) = <<>>
          BY <1>5, <5>1, NoneLeft
        <5> QED
          BY <1>1, <5>2
      <4> QED
        BY <1>7, <1>8, <3>2, <4>2, <4>3
    <3> QED
      BY <1>4, <1>8, <3>1, <3>2
  <2>2. ASSUME NEW k \in 1..Len(v.device)
        PROVE  v.device[k].msg_cnt <= m.msg_cnt /\ (v.device[k].msg_cnt = m.msg_cnt => k = Len(v.device))
    <3>1. k + 1 \in 1..Len(w.device) /\ k \in 1..(Len(w.device) - 1) /\ Len(v.device) = Len(w.device) - 1
      BY <1>1, <1>4, <1>5
    <3>2. v.device[k] = w.device[k + 1]
      BY <1>1, <1>5, <3>1
    <3>3. w.device[k + 1].msg_cnt <= m.msg_cnt /\ (w.device[k + 1].msg_cnt = m.msg_cnt => k + 1 = Len(w.device))
      BY <1>4, <3>1 DEF LastAsked
    <3> QED
      BY <1>4, <3>1, <3>2, <3>3
  <2> QED
    BY <2>1, <2>2 DEF LastAsked
<1>10. Discovering(o, m, v)
  BY <1>1, <1>3, <1>5, <1>8, <1>9 DEF Discovering
<1> QED
  BY <1>1, <1>2, <1>10 DEF LinkInv, UpInv, DownInv

(* A message that asks for use cases is the first.                         *)
LEMMA CaseAsked ==
    ASSUME NEW o \in OfferType, NEW m \in MirrorType, NEW w, LinkInv(o, m, w),
           w.device # <<>>, Head(w.device).type # "readDiscovery"
    PROVE  /\ m.up /\ Following(o, m, w) /\ Head(w.device) \in CaseReads
           /\ Head(w.device).type = "subscribe" <=> ~o.subscribed
           /\ Tail(w.device) \in Seq(CaseReads)
           /\ Len(w.device) \in Nat /\ Len(Tail(w.device)) = Len(w.device) - 1
           /\ \A i \in 1..(Len(w.device) - 1) : Tail(w.device)[i] = w.device[i + 1]
<1>0. IsWire(w) /\ DownInv(o, m, w) /\ UpInv(o, m, w)
  BY DEF LinkInv
<1>1. m.up
  <2>1. ASSUME w = [peer |-> <<>>, device |-> <<>>] PROVE FALSE
    <3>1. w.device = <<>>
      BY <2>1
    <3> QED
      BY <3>1
  <2> QED
    BY <1>0, <2>1 DEF DownInv
<1>2. Following(o, m, w)
  <2>1. ASSUME Discovering(o, m, w) PROVE FALSE
    <3>1. w.device \in Seq(DiscoveryReads)
      BY <2>1 DEF Discovering
    <3>2. Head(w.device) \in DiscoveryReads
      BY <3>1, HeadTailProperties
    <3> QED
      BY <3>2 DEF DiscoveryReads
  <2> QED
    BY <1>0, <1>1, <2>1 DEF UpInv
<1>3. w.device \in Seq(CaseReads)
  BY <1>2 DEF Following
<1>4. /\ Head(w.device) \in CaseReads /\ Head(w.device) = w.device[1]
      /\ Tail(w.device) \in Seq(CaseReads)
      /\ Len(w.device) \in Nat /\ Len(w.device) >= 1 /\ Len(Tail(w.device)) = Len(w.device) - 1
      /\ \A i \in 1..(Len(w.device) - 1) : Tail(w.device)[i] = w.device[i + 1]
  <2>1. Len(w.device) \in Nat /\ Len(w.device) # 0
    BY <1>3, NoneLeft
  <2>2. /\ Head(w.device) \in CaseReads /\ Tail(w.device) \in Seq(CaseReads)
        /\ Len(Tail(w.device)) = Len(w.device) - 1
        /\ \A i \in 1..Len(Tail(w.device)) : Tail(w.device)[i] = w.device[i + 1]
    BY <1>3, HeadTailProperties
  <2>3. Head(w.device) = w.device[1]
    BY <1>3
  <2> QED
    BY <2>1, <2>2, <2>3
<1>5. 1 \in 1..Len(w.device)
  BY <1>4
<1>6. w.device[1].type = "subscribe" <=> ~o.subscribed
  BY <1>2, <1>5 DEF Following
<1> QED
  BY <1>1, <1>2, <1>4, <1>6

(* The rest of the messages, once the peer has subscribed.                 *)
LEMMA AskedRest ==
    ASSUME NEW o \in OfferType, NEW m \in MirrorType, NEW w, LinkInv(o, m, w),
           w.device # <<>>, Head(w.device).type # "readDiscovery",
           NEW p \in OfferType, p.subscribed,
           NEW v, IsWire(v), v.device = Tail(w.device), v.peer = w.peer
    PROVE  Following(p, m, v)
<1>1. /\ Following(o, m, w) /\ Tail(w.device) \in Seq(CaseReads)
      /\ Len(w.device) \in Nat /\ Len(Tail(w.device)) = Len(w.device) - 1
      /\ \A i \in 1..(Len(w.device) - 1) : Tail(w.device)[i] = w.device[i + 1]
  BY CaseAsked
<1>2. ASSUME NEW k \in 1..Len(v.device) PROVE v.device[k].type # "subscribe"
  <2>1. k \in 1..(Len(w.device) - 1) /\ k + 1 \in 1..Len(w.device) /\ k + 1 # 1
    BY <1>1
  <2>2. v.device[k] = w.device[k + 1]
    BY <1>1, <2>1
  <2>3. w.device[k + 1].type # "subscribe"
    BY <1>1, <2>1 DEF Following
  <2> QED
    BY <2>2, <2>3
<1> QED
  BY <1>1, <1>2 DEF Following

(* The device subscribes the peer: a read is behind.                       *)
LEMMA PeerSubscribed ==
    ASSUME NEW o \in OfferType, NEW m \in MirrorType, NEW w, LinkInv(o, m, w),
           w.device # <<>>, Head(w.device).type = "subscribe",
           NEW v, IsWire(v), v.device = Tail(w.device), v.peer = w.peer
    PROVE  LinkInv([o EXCEPT !.subscribed = TRUE], m, v)
<1> DEFINE p == [o EXCEPT !.subscribed = TRUE]
<1>1. p \in OfferType /\ p.subscribed
  BY DEF OfferType
<1> HIDE DEF p
<1>2. Following(p, m, v)
  BY <1>1, AskedRest
<1>3. /\ m.up /\ Following(o, m, w) /\ ~o.subscribed /\ Tail(w.device) \in Seq(CaseReads)
      /\ Len(w.device) \in Nat /\ Len(Tail(w.device)) = Len(w.device) - 1
  BY CaseAsked
<1>4. v.device # <<>>
  <2>1. Len(w.device) > 1
    BY <1>3 DEF Following
  <2> QED
    BY <1>3, <2>1, NoneLeft
<1> QED
  BY <1>2, <1>3, <1>4 DEF LinkInv, UpInv, DownInv, Agreeing, p

(* The device reads its data for a reply.                                  *)
LEMMA ReplyCopied ==
    ASSUME NEW o \in OfferType, NEW m \in MirrorType, NEW w, LinkInv(o, m, w),
           w.device # <<>>, Head(w.device).type = "readUseCase",
           NEW p \in OfferType, p.subscribed = o.subscribed, p.reply # Nothing, p.reply.cases = p.cases,
           NEW v, IsWire(v), v.device = Tail(w.device), v.peer = w.peer
    PROVE  LinkInv(p, m, v)
<1>1. m.up /\ o.subscribed
  BY CaseAsked DEF OfferType
<1>2. Following(p, m, v)
  BY <1>1, AskedRest
<1> QED
  BY <1>1, <1>2 DEF LinkInv, UpInv, DownInv, Agreeing

(* The reply is sent.                                                      *)
LEMMA ReplySent ==
    ASSUME NEW o \in OfferType, NEW m \in MirrorType, NEW w, LinkInv(o, m, w), o.reply # Nothing,
           NEW v, IsWire(v), v.device = w.device, v.peer = Append(w.peer, o.reply)
    PROVE  LinkInv([o EXCEPT !.reply = Nothing], m, v)
<1> DEFINE p == [o EXCEPT !.reply = Nothing]
<1>1. /\ p.subscribed = o.subscribed /\ p.cases = o.cases /\ p.overtaken = o.overtaken /\ p.reply = Nothing
  BY DEF OfferType
<1> HIDE DEF p
<1>2. m.up /\ Following(o, m, w) /\ Agreeing(o, m, w)
  BY DEF LinkInv, UpInv, DownInv, Discovering
<1> DEFINE M == CaseMessages \cup EntityMessages
<1>3. o.reply \in M /\ o.reply.type = "useCase" /\ w.peer \in Seq(M)
  BY <1>2 DEF Following, OfferType, CaseMessages
<1> HIDE DEF M
<1>4. v.peer \in Seq(M)
  BY <1>3, AppendProperties
<1>5. Settles(Append(w.peer, o.reply), m.prev, o.reply.cases)
  BY <1>3, SettledByData
<1>6. Following(p, m, v)
  BY <1>1, <1>2, <1>4 DEF Following, M
<1>7. Agreeing(p, m, v)
  BY <1>1, <1>2, <1>5 DEF Agreeing
<1> QED
  BY <1>2, <1>6, <1>7 DEF LinkInv, UpInv, DownInv, p

-----------------------------------------------------------------------------
(* The peer's steps.                                                       *)

(* The entry that waits for a reply has its number.                        *)
LEMMA PendingFound ==
    ASSUME NEW m \in MirrorType, NEW ref
    PROVE  LET i == PendingIndex(m, ref)
           IN  i = 0 \/ (i \in 1..Len(m.pending) /\ m.pending[i].msg_cnt = ref)
<1> DEFINE T == {j \in 1..Len(m.pending) : m.pending[j].msg_cnt = ref}
           i == IF T # {} THEN Min(T) ELSE 0
<1>1. Len(m.pending) \in Nat
  BY LenProperties DEF MirrorType
<1>2. PendingIndex(m, ref) = i
  BY DEF PendingIndex, SelectInSeq
<1>3. T \in SUBSET (1..Len(m.pending))
  OBVIOUS
<1>4. i = 0 \/ (i \in T /\ i \in 1..Len(m.pending))
  <2> HIDE DEF T
  <2> QED
    BY <1>1, <1>3, FirstIndex
<1> HIDE DEF i
<1> QED
  BY <1>2, <1>4

(* An entry that is the only one is removed.                               *)
LEMMA PendingRemoved ==
    ASSUME NEW S, NEW a \in Seq(S), Len(a) = 1, NEW i \in 1..Len(a)
    PROVE  RemoveAt(a, i) = <<>>
<1>1. RemoveAt(a, i) \in Seq(S) /\ Len(RemoveAt(a, i)) = Len(a) - 1
  BY RemoveAtIndices
<1>2. Len(RemoveAt(a, i)) = 0
  BY <1>1
<1> QED
  BY <1>1, <1>2, NoneLeft

(* A read is the only one that waits for a reply.                          *)
LEMMA Requested ==
    ASSUME NEW m \in MirrorType, m.pending = <<>>, NEW kind \in {"discovery", "useCase"}
    PROVE  LET n == RequestOf(m, kind)
           IN  /\ n \in MirrorType /\ n.up = m.up /\ n.entities = m.entities
               /\ n.cases = m.cases /\ n.prev = m.prev /\ n.msg_cnt = m.msg_cnt + 1
               /\ n.pending = <<[msg_cnt |-> n.msg_cnt, kind |-> kind]>>
<1> DEFINE entry == [msg_cnt |-> m.msg_cnt + 1, kind |-> kind]
           Entries == [msg_cnt : Nat, kind : {"discovery", "useCase"}]
<1>1. entry \in Entries /\ m.msg_cnt \in Nat
  BY DEF MirrorType
<1> HIDE DEF entry, Entries
<1>2. Append(<<>>, entry) = <<entry>> /\ <<entry>> \in Seq(Entries)
  BY <1>1
<1>3. PICK q \in Seq(Entries) : q = <<entry>>
  BY <1>2
<1>4. PICK c \in Nat : c = m.msg_cnt + 1
  BY <1>1
<1> DEFINE n == [m EXCEPT !.msg_cnt = c, !.pending = q]
<1>5. RequestOf(m, kind) = n
  BY <1>2, <1>3, <1>4, Zenon DEF RequestOf, entry
<1>6. /\ n.up = m.up /\ n.entities = m.entities
      /\ n.cases = m.cases /\ n.prev = m.prev /\ n.msg_cnt = c /\ n.pending = q
  BY DEF MirrorType
<1>7. n \in MirrorType
  <2>1. q \in Seq([msg_cnt : Nat, kind : {"discovery", "useCase"}])
    BY Zenon DEF Entries
  <2> QED
    BY <2>1 DEF MirrorType
<1> HIDE DEF n
<1> QED
  BY <1>3, <1>4, <1>5, <1>6, <1>7, Zenon DEF entry

(* The first message to the peer is an answer to a discovery, and others   *)
(* are behind it.                                                          *)
LEMMA DiscoveryFirst ==
    ASSUME NEW o \in OfferType, NEW m \in MirrorType, NEW w, LinkInv(o, m, w),
           w.peer # <<>>, Head(w.peer).type = "discovery"
    PROVE  /\ m.up /\ Discovering(o, m, w) /\ Head(w.peer) \in Discoveries
           /\ w.peer \in Seq(Discoveries) /\ Len(w.peer) \in Nat /\ Len(w.peer) >= 1 /\ Head(w.peer) = w.peer[1]
           /\ Tail(w.peer) \in Seq(Discoveries) /\ Len(Tail(w.peer)) = Len(w.peer) - 1
           /\ \A i \in 1..(Len(w.peer) - 1) : Tail(w.peer)[i] = w.peer[i + 1]
<1>0. IsWire(w) /\ DownInv(o, m, w) /\ UpInv(o, m, w)
  BY DEF LinkInv
<1>1. m.up
  <2>1. ASSUME w = [peer |-> <<>>, device |-> <<>>] PROVE FALSE
    <3>1. w.peer = <<>>
      BY <2>1
    <3> QED
      BY <3>1
  <2> QED
    BY <1>0, <2>1 DEF DownInv
<1>2. Discovering(o, m, w)
  <2>1. ASSUME Following(o, m, w) PROVE FALSE
    <3> DEFINE M == CaseMessages \cup EntityMessages
    <3>1. w.peer \in Seq(M)
      BY <2>1 DEF Following
    <3> HIDE DEF M
    <3>2. Head(w.peer) \in M
      BY <3>1, HeadTailProperties
    <3> QED
      BY <3>2 DEF M, CaseMessages, EntityMessages
  <2> QED
    BY <1>0, <1>1, <2>1 DEF UpInv
<1>3. w.peer \in Seq(Discoveries)
  BY <1>2 DEF Discovering
<1>4. Len(w.peer) \in Nat /\ Len(w.peer) # 0
  BY <1>3, NoneLeft
<1>5. /\ Head(w.peer) \in Discoveries /\ Tail(w.peer) \in Seq(Discoveries)
      /\ Len(Tail(w.peer)) = Len(w.peer) - 1
      /\ \A i \in 1..Len(Tail(w.peer)) : Tail(w.peer)[i] = w.peer[i + 1]
  BY <1>3, HeadTailProperties
<1>6. Head(w.peer) = w.peer[1]
  BY <1>3
<1> QED
  BY <1>1, <1>2, <1>3, <1>4, <1>5, <1>6

(* An answer to a discovery that was asked for again.                      *)
LEMMA DiscoveryStale ==
    ASSUME NEW o \in OfferType, NEW m \in MirrorType, NEW w, LinkInv(o, m, w),
           w.peer # <<>>, Head(w.peer).type = "discovery",
           NEW n \in MirrorType, n.up = m.up, n.pending = m.pending, n.msg_cnt = m.msg_cnt,
           NEW v, IsWire(v), v.device = w.device, v.peer = Tail(w.peer)
    PROVE  LinkInv(o, n, v)
<1>1. /\ m.up /\ Discovering(o, m, w) /\ Len(w.peer) \in Nat
      /\ Tail(w.peer) \in Seq(Discoveries) /\ Len(Tail(w.peer)) = Len(w.peer) - 1
      /\ \A i \in 1..(Len(w.peer) - 1) : Tail(w.peer)[i] = w.peer[i + 1]
  BY DiscoveryFirst
<1>2. LastAsked(m, w)
  BY <1>1 DEF Discovering
<1>3. ASSUME NEW k \in 1..Len(v.peer)
      PROVE  /\ v.peer[k].ref <= n.msg_cnt
             /\ v.peer[k].ref = n.msg_cnt => k = Len(v.peer) /\ v.device = <<>>
  <2>1. k \in 1..(Len(w.peer) - 1) /\ k + 1 \in 1..Len(w.peer) /\ (k + 1 = Len(w.peer) => k = Len(v.peer))
    BY <1>1
  <2>2. v.peer[k] = w.peer[k + 1]
    BY <1>1, <2>1
  <2>3. /\ w.peer[k + 1].ref <= m.msg_cnt
        /\ w.peer[k + 1].ref = m.msg_cnt => k + 1 = Len(w.peer) /\ w.device = <<>>
    BY <1>2, <2>1 DEF LastAsked
  <2> QED
    BY <2>1, <2>2, <2>3
<1>4. LastAsked(n, v)
  BY <1>2, <1>3 DEF LastAsked
<1>5. Discovering(o, n, v)
  BY <1>1, <1>4 DEF Discovering
<1> QED
  BY <1>1, <1>5 DEF LinkInv, UpInv, DownInv

(* The answer to the last: the peer subscribes and reads.                  *)
LEMMA DiscoveryDone ==
    ASSUME NEW o \in OfferType, NEW m \in MirrorType, NEW w, LinkInv(o, m, w),
           w.peer # <<>>, Head(w.peer).type = "discovery", PendingIndex(m, Head(w.peer).ref) # 0,
           NEW n \in MirrorType, n.up = m.up, NEW l \in Nat, n.pending = <<[msg_cnt |-> l, kind |-> "useCase"]>>,
           NEW v, IsWire(v), v.device = w.device \o FollowUp(m), v.peer = Tail(w.peer)
    PROVE  LinkInv(o, n, v)
<1>1. /\ m.up /\ Discovering(o, m, w) /\ Len(w.peer) \in Nat /\ Len(w.peer) >= 1 /\ Head(w.peer) = w.peer[1]
      /\ Tail(w.peer) \in Seq(Discoveries) /\ Len(Tail(w.peer)) = Len(w.peer) - 1
  BY DiscoveryFirst
<1>2. w.peer[1].ref = m.msg_cnt
  <2> DEFINE i == PendingIndex(m, Head(w.peer).ref)
  <2>1. i \in 1..Len(m.pending) /\ m.pending[i].msg_cnt = w.peer[1].ref
    BY <1>1, PendingFound
  <2>2. Len(m.pending) = 1 /\ m.pending[1].msg_cnt = m.msg_cnt
    BY <1>1 DEF Discovering
  <2> HIDE DEF i
  <2>3. i = 1
    BY <2>1, <2>2
  <2> QED
    BY <2>1, <2>2, <2>3
<1>3. 1 \in 1..Len(w.peer)
  BY <1>1
<1>4. 1 = Len(w.peer) /\ w.device = <<>>
  BY <1>1, <1>2, <1>3 DEF Discovering, LastAsked
<1>5. v.peer = <<>>
  <2>1. Len(Tail(w.peer)) = 0
    BY <1>1, <1>4
  <2> QED
    BY <1>1, <2>1, NoneLeft
<1>6. v.device = FollowUp(m)
  BY <1>4 DEF FollowUp
<1> DEFINE first == [type |-> "subscribe"]
           second == ReadOf(m, "useCase")
<1>7. first \in CaseReads /\ second \in CaseReads /\ first.type = "subscribe" /\ second.type # "subscribe"
  BY DEF CaseReads, ReadOf, MirrorType
<1>8. v.device = <<first, second>>
  BY <1>6 DEF FollowUp
<1> HIDE DEF first, second
<1>9. v.device \in Seq(CaseReads) /\ Len(v.device) = 2 /\ v.device[1] = first /\ v.device[2] = second
  BY <1>7, <1>8
<1>10. v.peer \in Seq(CaseMessages \cup EntityMessages)
  BY <1>5, EmptySeq
<1>11. ~o.subscribed
  BY <1>1 DEF Discovering
<1>12. Len(n.pending) = 1 /\ n.pending[1].kind = "useCase"
  OBVIOUS
<1>13. \A k \in 1..2 : v.device[k].type = "subscribe" <=> k = 1
  BY <1>7, <1>9
<1>14. Following(o, n, v)
  BY <1>9, <1>10, <1>11, <1>12, <1>13 DEF Following
<1>15. v.device # <<>>
  BY <1>9
<1> QED
  BY <1>1, <1>14, <1>15 DEF LinkInv, UpInv, DownInv, Agreeing

(* The first message to the peer is another one.                           *)
LEMMA CaseFirst ==
    ASSUME NEW o \in OfferType, NEW m \in MirrorType, NEW w, LinkInv(o, m, w),
           w.peer # <<>>, Head(w.peer).type # "discovery"
    PROVE  /\ m.up /\ Following(o, m, w) /\ Agreeing(o, m, w)
           /\ Head(w.peer) \in CaseMessages \cup EntityMessages
           /\ w.peer \in Seq(CaseMessages \cup EntityMessages)
           /\ Tail(w.peer) \in Seq(CaseMessages \cup EntityMessages)
<1> DEFINE M == CaseMessages \cup EntityMessages
<1>0. IsWire(w) /\ DownInv(o, m, w) /\ UpInv(o, m, w)
  BY DEF LinkInv
<1>1. m.up
  <2>1. ASSUME w = [peer |-> <<>>, device |-> <<>>] PROVE FALSE
    <3>1. w.peer = <<>>
      BY <2>1
    <3> QED
      BY <3>1
  <2> QED
    BY <1>0, <2>1 DEF DownInv
<1>2. Following(o, m, w) /\ Agreeing(o, m, w)
  <2>1. ASSUME Discovering(o, m, w) PROVE FALSE
    <3>1. w.peer \in Seq(Discoveries)
      BY <2>1 DEF Discovering
    <3>2. Head(w.peer) \in Discoveries
      BY <3>1, HeadTailProperties
    <3> QED
      BY <3>2 DEF Discoveries
  <2> QED
    BY <1>0, <1>1, <2>1 DEF UpInv
<1>3. w.peer \in Seq(M)
  BY <1>2 DEF Following
<1> HIDE DEF M
<1>4. Head(w.peer) \in M /\ Tail(w.peer) \in Seq(M)
  BY <1>3, HeadTailProperties
<1> QED
  BY <1>1, <1>2, <1>3, <1>4 DEF M

(* The peer's replies that it still waits for, once one came.              *)
LEMMA PendingLeft ==
    ASSUME NEW m \in MirrorType, NEW ref,
           m.pending = <<>> \/ (Len(m.pending) = 1 /\ m.pending[1].kind = "useCase")
    PROVE  LET i == PendingIndex(m, ref)
               left == IF i = 0 THEN m.pending ELSE RemoveAt(m.pending, i)
           IN  left = m.pending \/ left = <<>>
<1> DEFINE i == PendingIndex(m, ref)
<1>1. i = 0 \/ i \in 1..Len(m.pending)
  BY PendingFound
<1>2. m.pending \in Seq([msg_cnt : Nat, kind : {"discovery", "useCase"}])
  BY DEF MirrorType
<1> HIDE DEF i
<1>3. CASE i = 0
  BY <1>3 DEF i
<1>4. CASE i \in 1..Len(m.pending)
  <2>1. Len(m.pending) = 1
    <3>1. m.pending # <<>>
      BY <1>2, <1>4, NoneLeft
    <3> QED
      BY <3>1
  <2>2. RemoveAt(m.pending, i) = <<>>
    BY <1>2, <1>4, <2>1, PendingRemoved
  <2> QED
    BY <1>4, <2>2 DEF i
<1> QED
  BY <1>1, <1>3, <1>4

(* Use case data comes.                                                    *)
LEMMA DataHandled ==
    ASSUME NEW o \in OfferType, NEW m \in MirrorType, NEW w, LinkInv(o, m, w),
           w.peer # <<>>, Head(w.peer).type = "useCase",
           NEW n \in MirrorType, n.up = m.up, n.prev = Head(w.peer).cases,
           n.pending = m.pending \/ n.pending = <<>>,
           NEW v, IsWire(v), v.device = w.device, v.peer = Tail(w.peer)
    PROVE  LinkInv(o, n, v)
<1> DEFINE M == CaseMessages \cup EntityMessages
<1>1. m.up /\ Following(o, m, w) /\ Agreeing(o, m, w) /\ w.peer \in Seq(M) /\ Tail(w.peer) \in Seq(M)
  BY CaseFirst
<1>2. Following(o, n, v)
  BY <1>1 DEF Following
<1> HIDE DEF M
<1>3. ASSUME Settles(w.peer, m.prev, o.cases) PROVE Settles(Tail(w.peer), Head(w.peer).cases, o.cases)
  BY <1>1, <1>3, SettledTail
<1>4. Agreeing(o, n, v)
  BY <1>1, <1>3 DEF Agreeing
<1> QED
  BY <1>1, <1>2, <1>4 DEF LinkInv, UpInv, DownInv

(* A notify of an entity comes.                                            *)
LEMMA EntityHandled ==
    ASSUME NEW o \in OfferType, NEW m \in MirrorType, NEW w, LinkInv(o, m, w),
           w.peer # <<>>, Head(w.peer).type = "entity",
           NEW v, IsWire(v), v.device = w.device, v.peer = Tail(w.peer)
    PROVE  LinkInv(o, m, v)
<1> DEFINE M == CaseMessages \cup EntityMessages
<1>1. m.up /\ Following(o, m, w) /\ Agreeing(o, m, w) /\ w.peer \in Seq(M) /\ Tail(w.peer) \in Seq(M)
  BY CaseFirst
<1>2. Following(o, m, v)
  BY <1>1 DEF Following
<1> HIDE DEF M
<1>3. ASSUME Settles(w.peer, m.prev, o.cases) PROVE Settles(Tail(w.peer), m.prev, o.cases)
  BY <1>1, <1>3, SettledTail
<1>4. Agreeing(o, m, v)
  BY <1>1, <1>3 DEF Agreeing
<1> QED
  BY <1>1, <1>2, <1>4 DEF LinkInv, UpInv, DownInv

(* A read is sent again: the answer to the new one comes last.             *)
LEMMA ReadAgain ==
    ASSUME NEW o \in OfferType, NEW m \in MirrorType, NEW w, LinkInv(o, m, w), m.pending # <<>>,
           NEW n \in MirrorType, n.up = m.up, n.msg_cnt = m.msg_cnt + 1,
           n.pending = <<[msg_cnt |-> n.msg_cnt, kind |-> m.pending[1].kind]>>,
           NEW v, IsWire(v), v.peer = w.peer, v.device = Append(w.device, ReadOf(m, m.pending[1].kind))
    PROVE  m.up /\ LinkInv(o, n, v)
<1>0. IsWire(w) /\ DownInv(o, m, w) /\ UpInv(o, m, w) /\ m.msg_cnt \in Nat
  BY DEF LinkInv, MirrorType
<1>1. m.up
  BY <1>0 DEF DownInv, NoMirror
<1>2. CASE Discovering(o, m, w)
  <2> DEFINE read == ReadOf(m, m.pending[1].kind)
  <2>1. m.pending[1].kind = "discovery"
    BY <1>2 DEF Discovering
  <2>2. read \in DiscoveryReads /\ read.msg_cnt = m.msg_cnt + 1
    BY <1>0, <2>1 DEF ReadOf, DiscoveryReads
  <2> HIDE DEF read
  <2>3. w.device \in Seq(DiscoveryReads) /\ w.peer \in Seq(Discoveries) /\ LastAsked(m, w)
        /\ v.device = Append(w.device, read)
    BY <1>2 DEF Discovering, read
  <2>4. /\ v.device \in Seq(DiscoveryReads) /\ Len(w.device) \in Nat /\ Len(v.device) = Len(w.device) + 1
        /\ v.device[Len(w.device) + 1] = read
        /\ \A i \in 1..Len(w.device) : v.device[i] = w.device[i]
    BY <2>2, <2>3, AppendProperties, LenProperties
  <2>5. ASSUME NEW k \in 1..Len(v.peer) PROVE v.peer[k].ref <= n.msg_cnt /\ v.peer[k].ref # n.msg_cnt
    <3>1. w.peer[k].ref \in Nat
      <4>1. w.peer[k] \in Discoveries
        BY <2>3, ElementOfSeq
      <4> QED
        BY <4>1 DEF Discoveries
    <3>2. w.peer[k].ref <= m.msg_cnt
      BY <2>3 DEF LastAsked
    <3> QED
      BY <1>0, <3>1, <3>2
  <2>6. ASSUME NEW k \in 1..Len(v.device)
        PROVE  v.device[k].msg_cnt <= n.msg_cnt /\ (v.device[k].msg_cnt = n.msg_cnt => k = Len(v.device))
    <3>1. CASE k = Len(w.device) + 1
      BY <1>0, <2>2, <2>4, <3>1
    <3>2. CASE k \in 1..Len(w.device)
      <4>1. w.device[k].msg_cnt \in Nat
        <5>1. w.device[k] \in DiscoveryReads
          BY <2>3, <3>2, ElementOfSeq
        <5> QED
          BY <5>1 DEF DiscoveryReads
      <4>2. w.device[k].msg_cnt <= m.msg_cnt
        BY <2>3, <3>2 DEF LastAsked
      <4>3. v.device[k] = w.device[k]
        BY <2>4, <3>2
      <4> QED
        BY <1>0, <4>1, <4>2, <4>3
    <3> QED
      BY <2>4, <3>1, <3>2
  <2>7. LastAsked(n, v)
    BY <2>5, <2>6 DEF LastAsked
  <2>8. Discovering(o, n, v)
    BY <1>2, <2>1, <2>3, <2>4, <2>7 DEF Discovering
  <2> QED
    BY <1>1, <2>8 DEF LinkInv, UpInv, DownInv
<1>3. CASE Following(o, m, w)
  <2> DEFINE read == ReadOf(m, m.pending[1].kind)
  <2>1. m.pending[1].kind = "useCase"
    BY <1>3 DEF Following
  <2>2. read \in CaseReads /\ read.type # "subscribe"
    BY <1>0, <2>1 DEF ReadOf, CaseReads
  <2> HIDE DEF read
  <2>3. w.device \in Seq(CaseReads) /\ v.device = Append(w.device, read)
    BY <1>3 DEF Following, read
  <2>4. /\ v.device \in Seq(CaseReads) /\ Len(w.device) \in Nat /\ Len(v.device) = Len(w.device) + 1
        /\ v.device[Len(w.device) + 1] = read
        /\ \A i \in 1..Len(w.device) : v.device[i] = w.device[i]
    BY <2>2, <2>3, AppendProperties, LenProperties
  <2>5. ASSUME NEW k \in 1..Len(v.device) PROVE v.device[k].type = "subscribe" <=> k = 1 /\ ~o.subscribed
    <3>1. CASE k = Len(w.device) + 1
      <4>1. ~(k = 1 /\ ~o.subscribed)
        BY <1>3, <2>4, <3>1 DEF Following
      <4> QED
        BY <2>2, <2>4, <3>1, <4>1
    <3>2. CASE k \in 1..Len(w.device)
      <4>1. v.device[k] = w.device[k]
        BY <2>4, <3>2
      <4>2. w.device[k].type = "subscribe" <=> k = 1 /\ ~o.subscribed
        BY <1>3, <3>2 DEF Following
      <4> QED
        BY <4>1, <4>2
    <3> QED
      BY <2>4, <3>1, <3>2
  <2>6. ~o.subscribed => Len(v.device) > 1
    BY <1>3, <2>4 DEF Following
  <2>7. Len(n.pending) = 1 /\ n.pending[1].kind = "useCase"
    BY <2>1
  <2>8. w.peer \in Seq(CaseMessages \cup EntityMessages)
    BY <1>3 DEF Following
  <2>9. Following(o, n, v)
    BY <2>4, <2>5, <2>6, <2>7, <2>8 DEF Following
  <2>10. v.device # <<>>
    BY <2>4, NoneLeft
  <2> QED
    BY <1>1, <2>9, <2>10 DEF LinkInv, UpInv, DownInv, Agreeing
<1> QED
  BY <1>0, <1>1, <1>2, <1>3 DEF UpInv

-----------------------------------------------------------------------------
(* Every step preserves the invariant.                                     *)

(* The parts of the offer that the link depends on.                        *)
LEMMA OfferAlike ==
    ASSUME NEW o, NEW p, NEW m, NEW w, LinkInv(o, m, w), p.cases = o.cases, p.subscribed = o.subscribed,
           p.reply = o.reply, p.overtaken = o.overtaken
    PROVE  LinkInv(p, m, w)
  BY DEF LinkInv, DownInv, UpInv, Discovering, Following, Agreeing

(* The invariant after a step.                                             *)
LEMMA InvAfter ==
    ASSUME offer' \in OfferType, offer'.cases \in CaseLists(Alive(offer')),
           mirror' \in MirrorType, mirror'.cases = OrEmpty(mirror'.prev),
           events' \in EventsType, ToldInv(mirror', events'), LinkInv(offer', mirror', wire')
    PROVE  DirectoryInv'
  BY Zenon DEF DirectoryInv, OfferType, MirrorType, EventsType, ToldInv, LinkInv

(* SetUseCaseData.                                                         *)
LEMMA DataSet ==
    ASSUME DirectoryInv, NEW c \in CaseLists(Alive(offer)), SetUseCaseData(c), UNCHANGED <<mirror, events>>
    PROVE  DirectoryInv'
<1>1. c \in CaseLists(Entities)
  BY CaseListsGrow, Alive(offer) \subseteq Entities DEF Alive
<1> DEFINE p == [offer EXCEPT !.cases = c, !.overtaken = @ \/ offer.reply # Nothing]
<1>2. /\ p \in OfferType /\ p.cases = c /\ p.subscribed = offer.subscribed /\ p.reply = offer.reply
      /\ p.overtaken = (offer.overtaken \/ offer.reply # Nothing) /\ p.entity = offer.entity
  BY <1>1 DEF DirectoryInv, OfferType
<1>3. offer' = p /\ wire' = ToPeer(wire, offer, [type |-> "useCase", ref |-> 0, cases |-> c])
  BY DEF SetUseCaseData
<1> HIDE DEF p
<1>4. Alive(p) = Alive(offer)
  BY <1>2 DEF Alive
<1>5. LinkInv(p, mirror, ToPeer(wire, offer, [type |-> "useCase", ref |-> 0, cases |-> c]))
  BY <1>1, <1>2, DataTold DEF DirectoryInv
<1>6. mirror' = mirror /\ events' = events
  OBVIOUS
<1>7. LinkInv(offer', mirror', wire')
  BY <1>3, <1>5, <1>6, Zenon
<1>8. offer' \in OfferType /\ offer'.cases \in CaseLists(Alive(offer'))
  BY <1>2, <1>3, <1>4, Zenon
<1>9. /\ mirror' \in MirrorType /\ mirror'.cases = OrEmpty(mirror'.prev)
      /\ events' \in EventsType /\ ToldInv(mirror', events')
  BY <1>6, Zenon DEF DirectoryInv
<1> QED
  BY <1>7, <1>8, <1>9, InvAfter

(* The use case operations of an entity.                                   *)
LEMMA CasesKeep ==
    ASSUME DirectoryInv, NEW e \in Entities, NEW u \in UseCases,
           \/ AddUseCaseSupport(e, u)
           \/ RemoveUseCaseSupports(e, u)
           \/ \E available \in BOOLEAN : SetUseCaseAvailability(e, u, available)
    PROVE  DirectoryInv'
<1>0. offer.cases \in CaseLists(Alive(offer))
  BY DEF DirectoryInv
<1>1. e \in Alive(offer) /\ UNCHANGED <<mirror, events>>
  BY DEF AddUseCaseSupport, RemoveUseCaseSupports, SetUseCaseAvailability, MayChange, Alive
<1>2. CASE AddUseCaseSupport(e, u)
  <2> DEFINE c == NodeManagementUseCaseDataAddUseCaseSupport(offer.cases, e, u)
  <2>1. c \in CaseLists(Alive(offer))
    BY <1>0, <1>1, AddedCases
  <2>2. SetUseCaseData(c)
    BY <1>2 DEF AddUseCaseSupport
  <2> HIDE DEF c
  <2> QED
    BY <1>1, <2>1, <2>2, DataSet
<1>3. CASE RemoveUseCaseSupports(e, u)
  <2> DEFINE c == NodeManagementUseCaseDataRemoveWithFilters(offer.cases, e, {u})
  <2>1. c \in CaseLists(Alive(offer))
    BY <1>0, FilteredCases
  <2>2. SetUseCaseData(c)
    BY <1>3 DEF RemoveUseCaseSupports
  <2> HIDE DEF c
  <2> QED
    BY <1>1, <2>1, <2>2, DataSet
<1>4. ASSUME NEW a \in BOOLEAN, SetUseCaseAvailability(e, u, a) PROVE DirectoryInv'
  <2> DEFINE c == NodeManagementUseCaseDataSetAvailability(offer.cases, e, u, a)
  <2>1. c \in CaseLists(Alive(offer))
    BY <1>0, <1>1, SetCases
  <2>2. SetUseCaseData(c)
    BY <1>4 DEF SetUseCaseAvailability
  <2> HIDE DEF c
  <2> QED
    BY <1>1, <2>1, <2>2, DataSet
<1> QED
  BY <1>2, <1>3, <1>4

(* AddEntity.                                                              *)
LEMMA AddEntityKeeps ==
    ASSUME DirectoryInv, NEW e \in Entities, AddEntity(e)
    PROVE  DirectoryInv'
<1> DEFINE p == [offer EXCEPT !.entity[e] = "listed"]
           v == ToPeer(wire, offer, EntityNotify(e, "added"))
<1>0. /\ offer \in OfferType /\ offer.cases \in CaseLists(Alive(offer))
      /\ mirror \in MirrorType /\ mirror.cases = OrEmpty(mirror.prev)
      /\ events \in EventsType /\ ToldInv(mirror, events) /\ LinkInv(offer, mirror, wire)
  BY DEF DirectoryInv
<1>1. offer' = p /\ wire' = v /\ mirror' = mirror /\ events' = events /\ offer.entity[e] = "built"
  BY DEF AddEntity, MayChange
<1>2. /\ p \in OfferType /\ p.cases = offer.cases /\ p.subscribed = offer.subscribed
      /\ p.reply = offer.reply /\ p.overtaken = offer.overtaken
  BY <1>0 DEF OfferType
<1>3. Alive(p) = Alive(offer)
  <2>1. p.entity = [offer.entity EXCEPT ![e] = "listed"]
    BY <1>0 DEF OfferType
  <2>2. \A x \in Entities : p.entity[x] = IF x = e THEN "listed" ELSE offer.entity[x]
    BY <1>0, <2>1 DEF OfferType
  <2> HIDE DEF p
  <2> QED
    BY <1>1, <2>2 DEF Alive
<1> HIDE DEF p
<1>4. LinkInv(offer, mirror, v)
  BY <1>0, EntityTold
<1> HIDE DEF v
<1>5. LinkInv(p, mirror, v)
  BY <1>2, <1>4, OfferAlike
<1> QED
  BY <1>0, <1>1, <1>2, <1>3, <1>5, InvAfter

(* RemoveEntity.                                                           *)
LEMMA RemoveEntityKeeps ==
    ASSUME DirectoryInv, NEW e \in Entities, RemoveEntity(e)
    PROVE  DirectoryInv'
<1> DEFINE c == NodeManagementUseCaseDataRemoveWithAddress(offer.cases, e)
           p == [offer EXCEPT !.cases = c, !.entity[e] = "deleted", !.overtaken = @ \/ offer.reply # Nothing]
           told == ToPeer(wire, offer, [type |-> "useCase", ref |-> 0, cases |-> c])
           v == ToPeer(told, offer, EntityNotify(e, "removed"))
<1>0. /\ offer \in OfferType /\ offer.cases \in CaseLists(Alive(offer))
      /\ mirror \in MirrorType /\ mirror.cases = OrEmpty(mirror.prev)
      /\ events \in EventsType /\ ToldInv(mirror, events) /\ LinkInv(offer, mirror, wire)
  BY DEF DirectoryInv
<1>1. offer' = p /\ wire' = v /\ mirror' = mirror /\ events' = events
  BY DEF RemoveEntity, MayChange
<1> DEFINE X == IF NoMemoryForZero THEN Alive(offer) ELSE Alive(offer) \ {e}
<1>2. c \in CaseLists(X)
  BY <1>0, AddressedCases
<1>3. X \subseteq Entities
  BY DEF Alive
<1> HIDE DEF X, c
<1>4. c \in CaseLists(Entities)
  BY <1>2, <1>3, CaseListsGrow
<1>5. /\ p \in OfferType /\ p.cases = c /\ p.subscribed = offer.subscribed
      /\ p.reply = offer.reply /\ p.overtaken = (offer.overtaken \/ offer.reply # Nothing)
  BY <1>0, <1>4 DEF OfferType
<1>6. X \subseteq Alive(p)
  <2>1. p.entity = [offer.entity EXCEPT ![e] = "deleted"]
    BY <1>0 DEF OfferType
  <2>2. \A x \in Entities : x # e => p.entity[x] = offer.entity[x]
    BY <1>0, <2>1 DEF OfferType
  <2> HIDE DEF p
  <2> QED
    BY <2>2 DEF Alive, X
<1> HIDE DEF p
<1>7. p.cases \in CaseLists(Alive(p))
  BY <1>2, <1>5, <1>6, CaseListsGrow
<1>8. LinkInv(p, mirror, told)
  BY <1>0, <1>4, <1>5, DataTold
<1> HIDE DEF told
<1>9. LinkInv(p, mirror, ToPeer(told, p, EntityNotify(e, "removed")))
  BY <1>0, <1>5, <1>8, EntityTold
<1>10. ToPeer(told, p, EntityNotify(e, "removed")) = v
  BY <1>5 DEF ToPeer
<1> HIDE DEF v
<1> QED
  BY <1>0, <1>1, <1>5, <1>7, <1>9, <1>10, InvAfter

(* EventsSubscribe and EventsUnsubscribe.                                  *)
LEMMA HandlersKeep ==
    ASSUME DirectoryInv, NEW h \in Handlers, EventsSubscribe(h) \/ EventsUnsubscribe(h)
    PROVE  DirectoryInv'
<1>0. /\ offer \in OfferType /\ offer.cases \in CaseLists(Alive(offer))
      /\ mirror \in MirrorType /\ mirror.cases = OrEmpty(mirror.prev)
      /\ events \in EventsType /\ ToldInv(mirror, events) /\ LinkInv(offer, mirror, wire)
  BY DEF DirectoryInv
<1>1. offer' = offer /\ mirror' = mirror /\ wire' = wire
  BY DEF EventsSubscribe, EventsUnsubscribe
<1>2. CASE EventsSubscribe(h)
  <2> DEFINE early == IF mirror.prev = Nothing THEN events.early \cup {h} ELSE events.early
             ev == [events EXCEPT !.handlers = @ \cup {h}, !.early = early]
  <2>1. events' = ev /\ h \notin events.handlers
    BY <1>2 DEF EventsSubscribe
  <2>2. early \subseteq Handlers /\ early \subseteq events.early \cup {h}
    BY <1>0 DEF EventsType
  <2>3. ASSUME h \in early PROVE mirror.prev = Nothing
    BY <1>0, <2>1, <2>3 DEF ToldInv
  <2> HIDE DEF early
  <2>4. ev \in EventsType /\ ev.told = events.told /\ ev.early = early /\ ev.handlers = events.handlers \cup {h}
    BY <1>0, <2>2 DEF EventsType
  <2> HIDE DEF ev
  <2>5. mirror.prev = Nothing => Visible(mirror) = {}
    <3>1. ToSet(<<>>) = {}
      BY DEF ToSet
    <3> QED
      BY <3>1 DEF Visible, OrEmpty, Supported
  <2>6. events.told[h] = {}
    BY <1>0, <2>1 DEF ToldInv
  <2>7. ToldInv(mirror, ev)
    BY <1>0, <2>2, <2>3, <2>4, <2>5, <2>6 DEF ToldInv
  <2> QED
    BY <1>0, <1>1, <2>1, <2>4, <2>7, InvAfter
<1>3. CASE EventsUnsubscribe(h)
  <2> DEFINE told == [events.told EXCEPT ![h] = {}]
             ev == [handlers |-> events.handlers \ {h}, told |-> told, early |-> events.early \ {h}]
  <2>1. events' = ev
    BY <1>3 DEF EventsUnsubscribe
  <2>2. told \in [Handlers -> SUBSET Supports] /\ \A x \in Handlers : told[x] = IF x = h THEN {} ELSE events.told[x]
    BY <1>0 DEF EventsType
  <2> HIDE DEF told
  <2>3. ev \in EventsType /\ ev.told = told /\ ev.early = events.early \ {h} /\ ev.handlers = events.handlers \ {h}
    BY <1>0, <2>2 DEF EventsType
  <2> HIDE DEF ev
  <2>4. ToldInv(mirror, ev)
    BY <1>0, <2>2, <2>3 DEF ToldInv
  <2> QED
    BY <1>0, <1>1, <2>1, <2>3, <2>4, InvAfter
<1> QED
  BY <1>2, <1>3

(* DeviceHandles.                                                          *)
LEMMA DeviceHandlesKeeps ==
    ASSUME DirectoryInv, DeviceHandles
    PROVE  DirectoryInv'
<1> DEFINE msg == Head(wire.device)
           w == [wire EXCEPT !.device = Tail(@)]
<1>0. /\ offer \in OfferType /\ offer.cases \in CaseLists(Alive(offer))
      /\ mirror \in MirrorType /\ mirror.cases = OrEmpty(mirror.prev)
      /\ events \in EventsType /\ ToldInv(mirror, events) /\ LinkInv(offer, mirror, wire) /\ IsWire(wire)
  BY DEF DirectoryInv, LinkInv
<1>1. mirror' = mirror /\ events' = events /\ wire.device # <<>> /\ offer.reply = Nothing
  BY DEF DeviceHandles
<1>2. IsWire(w) /\ w.peer = wire.peer /\ w.device = Tail(wire.device)
  BY <1>0, WireDevice, Zenon
<1>3. msg.type \in {"readDiscovery", "subscribe", "readUseCase"}
  <2>1. CASE msg.type = "readDiscovery"
    BY <2>1
  <2>2. CASE msg.type # "readDiscovery"
    <3>1. msg \in CaseReads
      BY <1>0, <1>1, <2>2, CaseAsked
    <3> QED
      BY <3>1 DEF CaseReads
  <2> QED
    BY <2>1, <2>2
<1>4. CASE msg.type = "readDiscovery"
  <2> DEFINE answer == [type |-> "discovery", ref |-> msg.msg_cnt, entities |-> Listed]
             v == [w EXCEPT !.peer = Append(@, answer)]
  <2>1. wire' = v /\ offer' = offer
    BY <1>4 DEF DeviceHandles
  <2>2. Listed \in SUBSET Entities
    BY DEF Listed
  <2> HIDE DEF w
  <2>3. IsWire(v) /\ v.peer = Append(w.peer, answer) /\ v.device = w.device
    BY <1>2, WirePeer, Zenon
  <2> HIDE DEF v
  <2>4. v.device = Tail(wire.device) /\ v.peer = Append(wire.peer, answer)
    BY <1>2, <2>3, Zenon
  <2>5. LinkInv(offer, mirror, v)
    BY <1>0, <1>1, <1>4, <2>2, <2>3, <2>4, DiscoveryAnswered
  <2> QED
    BY <1>0, <1>1, <2>1, <2>5, InvAfter
<1>5. CASE msg.type = "subscribe"
  <2> DEFINE p == [offer EXCEPT !.subscribed = TRUE]
  <2>1. wire' = w /\ offer' = p
    BY <1>5 DEF DeviceHandles
  <2> HIDE DEF w
  <2>2. p \in OfferType /\ p.cases = offer.cases /\ p.entity = offer.entity
    BY <1>0 DEF OfferType
  <2>3. LinkInv(p, mirror, w)
    BY <1>0, <1>1, <1>2, <1>5, PeerSubscribed
  <2> HIDE DEF p
  <2>4. Alive(p) = Alive(offer)
    BY <2>2 DEF Alive
  <2> QED
    BY <1>0, <1>1, <2>1, <2>2, <2>3, <2>4, InvAfter
<1>6. CASE msg.type = "readUseCase"
  <2> DEFINE reply == [type |-> "useCase", ref |-> msg.msg_cnt, cases |-> offer.cases]
             p == [offer EXCEPT !.reply = reply]
  <2>1. wire' = w /\ offer' = p
    BY <1>6 DEF DeviceHandles
  <2> HIDE DEF w
  <2>2. msg \in CaseReads
    BY <1>0, <1>1, <1>6, CaseAsked
  <2>3. reply \in CaseMessages /\ reply # Nothing /\ reply.cases = offer.cases
    BY <1>0, <1>6, <2>2, NothingAssumption DEF CaseReads, CaseMessages, OfferType
  <2> HIDE DEF reply
  <2>4. /\ p \in OfferType /\ p.cases = offer.cases /\ p.entity = offer.entity
        /\ p.subscribed = offer.subscribed /\ p.reply = reply
    BY <1>0, <2>3 DEF OfferType
  <2> HIDE DEF p
  <2>5. Alive(p) = Alive(offer)
    BY <2>4 DEF Alive
  <2>6. LinkInv(p, mirror, w)
    BY <1>0, <1>1, <1>2, <1>6, <2>3, <2>4, ReplyCopied
  <2> QED
    BY <1>0, <1>1, <2>1, <2>4, <2>5, <2>6, InvAfter
<1> QED
  BY <1>3, <1>4, <1>5, <1>6

(* ProcessReadUseCaseDataReplies.                                          *)
LEMMA RepliesKeep ==
    ASSUME DirectoryInv, ProcessReadUseCaseDataReplies
    PROVE  DirectoryInv'
<1> DEFINE p == [offer EXCEPT !.reply = Nothing]
           v == [wire EXCEPT !.peer = Append(@, offer.reply)]
<1>0. /\ offer \in OfferType /\ offer.cases \in CaseLists(Alive(offer))
      /\ mirror \in MirrorType /\ mirror.cases = OrEmpty(mirror.prev)
      /\ events \in EventsType /\ ToldInv(mirror, events) /\ LinkInv(offer, mirror, wire) /\ IsWire(wire)
  BY DEF DirectoryInv, LinkInv
<1>1. mirror' = mirror /\ events' = events /\ wire' = v /\ offer' = p /\ offer.reply # Nothing
  BY DEF ProcessReadUseCaseDataReplies
<1>2. IsWire(v) /\ v.peer = Append(wire.peer, offer.reply) /\ v.device = wire.device
  BY <1>0, WirePeer, Zenon
<1> HIDE DEF v
<1>3. LinkInv(p, mirror, v)
  BY <1>0, <1>1, <1>2, ReplySent
<1>4. p \in OfferType /\ p.cases = offer.cases /\ p.entity = offer.entity
  BY <1>0 DEF OfferType
<1> HIDE DEF p
<1>5. Alive(p) = Alive(offer)
  BY <1>4 DEF Alive
<1> QED
  BY <1>0, <1>1, <1>3, <1>4, <1>5, InvAfter

(* Rebuilt.                                                                *)
LEMMA RebuiltFields ==
    ASSUME NEW m \in MirrorType, NEW x \in SUBSET Entities
    PROVE  LET n == Rebuilt(m, x)
           IN  /\ n \in MirrorType /\ n.up = m.up /\ n.pending = m.pending /\ n.msg_cnt = m.msg_cnt
               /\ n.prev = Nothing /\ n.cases = <<>>
<1>1. PICK none \in CaseLists(Entities) : none = <<>>
  BY EmptySeq DEF CaseLists
<1> DEFINE n == [m EXCEPT !.entities = @ \cup x, !.cases = none, !.prev = Nothing]
<1>2. Rebuilt(m, x) = n
  BY <1>1, Zenon DEF Rebuilt
<1>3. /\ n \in MirrorType /\ n.up = m.up /\ n.pending = m.pending /\ n.msg_cnt = m.msg_cnt
      /\ n.prev = Nothing /\ n.cases = none
  BY DEF MirrorType
<1> HIDE DEF n
<1> QED
  BY <1>1, <1>2, <1>3, Zenon

(* ProcessDiscoveryReply.                                                  *)
LEMMA DiscoveryKeeps ==
    ASSUME DirectoryInv, wire.peer # <<>>, Head(wire.peer).type = "discovery",
           ProcessDiscoveryReply(Head(wire.peer)), offer' = offer
    PROVE  DirectoryInv'
<1> DEFINE msg == Head(wire.peer)
           m == Rebuilt(mirror, msg.entities)
           i == PendingIndex(m, msg.ref)
           w == [wire EXCEPT !.peer = Tail(@)]
           told == NodeManagementRemoteDestruct(mirror, events)
<1>0. /\ offer \in OfferType /\ offer.cases \in CaseLists(Alive(offer))
      /\ mirror \in MirrorType /\ mirror.cases = OrEmpty(mirror.prev)
      /\ events \in EventsType /\ ToldInv(mirror, events) /\ LinkInv(offer, mirror, wire) /\ IsWire(wire)
  BY DEF DirectoryInv, LinkInv
<1>1. events' = told
  BY DEF ProcessDiscoveryReply
<1>2. msg \in Discoveries /\ Discovering(offer, mirror, wire)
  BY <1>0, DiscoveryFirst
<1>3. /\ m \in MirrorType /\ m.up = mirror.up /\ m.pending = mirror.pending /\ m.msg_cnt = mirror.msg_cnt
      /\ m.prev = Nothing /\ m.cases = <<>>
  <2>1. msg.entities \in SUBSET Entities
    BY <1>2 DEF Discoveries
  <2> HIDE DEF msg
  <2> QED
    BY <1>0, <2>1, RebuiltFields
<1>4. IsWire(w) /\ w.peer = Tail(wire.peer) /\ w.device = wire.device
  BY <1>0, WirePeer, Zenon
<1>5. OrEmpty(Nothing) = <<>>
  BY DEF OrEmpty
<1>6. i = PendingIndex(mirror, msg.ref)
  BY <1>3 DEF PendingIndex
<1>7. CASE i = 0
  <2>1. mirror' = m /\ wire' = w
    BY <1>7 DEF ProcessDiscoveryReply
  <2> HIDE DEF m, w
  <2>2. LinkInv(offer, m, w)
    BY <1>0, <1>3, <1>4, DiscoveryStale
  <2>3. told \in EventsType /\ ToldInv(m, told)
    BY <1>0, <1>3, ToldGone
  <2> QED
    BY <1>0, <1>1, <1>3, <1>5, <2>1, <2>2, <2>3, InvAfter
<1>8. CASE i # 0
  <2> DEFINE y == [m EXCEPT !.pending = RemoveAt(@, i)]
             n == RequestOf(y, "useCase")
             v == [w EXCEPT !.device = @ \o FollowUp(m)]
  <2>1. mirror' = n /\ wire' = v
    BY <1>8 DEF ProcessDiscoveryReply
  <2>2. RemoveAt(m.pending, i) = <<>>
    <3>1. i \in 1..Len(m.pending) /\ m.pending \in Seq([msg_cnt : Nat, kind : {"discovery", "useCase"}])
      BY <1>3, <1>8, PendingFound DEF MirrorType
    <3>2. Len(m.pending) = 1
      <4>1. Len(mirror.pending) = 1
        BY <1>2 DEF Discovering
      <4> QED
        BY <1>3, <4>1, Zenon
    <3> HIDE DEF i, m
    <3> QED
      BY <3>1, <3>2, PendingRemoved
  <2>3. /\ y \in MirrorType /\ y.pending = <<>> /\ y.up = m.up /\ y.msg_cnt = m.msg_cnt
        /\ y.prev = m.prev /\ y.cases = m.cases
    <3> HIDE DEF m, i
    <3>1. PICK none \in Seq([msg_cnt : Nat, kind : {"discovery", "useCase"}]) : none = <<>>
      BY EmptySeq
    <3> DEFINE z == [m EXCEPT !.pending = none]
    <3>2. y = z
      BY <2>2, <3>1, Zenon
    <3>3. /\ z \in MirrorType /\ z.pending = none /\ z.up = m.up /\ z.msg_cnt = m.msg_cnt
          /\ z.prev = m.prev /\ z.cases = m.cases
      BY <1>3 DEF MirrorType
    <3> HIDE DEF y, z
    <3> QED
      BY <3>1, <3>2, <3>3, Zenon
  <2> HIDE DEF y
  <2>4. /\ n \in MirrorType /\ n.up = y.up /\ n.cases = y.cases /\ n.prev = y.prev /\ n.msg_cnt = y.msg_cnt + 1
        /\ n.pending = <<[msg_cnt |-> n.msg_cnt, kind |-> "useCase"]>>
    BY <2>3, Requested
  <2> HIDE DEF n
  <2>5. FollowUp(m) = FollowUp(mirror)
    BY <1>3 DEF FollowUp, ReadOf
  <2>6. IsWire(v) /\ v.device = wire.device \o FollowUp(mirror) /\ v.peer = Tail(wire.peer)
    <3> HIDE DEF w
    <3>1. IsWire(v) /\ v.device = w.device \o FollowUp(m) /\ v.peer = w.peer
      BY <1>4, WireDevice, Zenon
    <3> HIDE DEF v
    <3> QED
      BY <1>4, <2>5, <3>1, Zenon
  <2> HIDE DEF v
  <2>7. n.msg_cnt \in Nat /\ n.up = mirror.up
    BY <1>3, <2>3, <2>4 DEF MirrorType
  <2>8. LinkInv(offer, n, v)
    <3>1. PICK k \in Nat : k = n.msg_cnt
      BY <2>7
    <3>2. n.pending = <<[msg_cnt |-> k, kind |-> "useCase"]>>
      BY <2>4, <3>1, Zenon
    <3>3. PendingIndex(mirror, Head(wire.peer).ref) # 0
      BY <1>6, <1>8, Zenon
    <3> QED
      BY <1>0, <2>4, <2>6, <2>7, <3>2, <3>3, DiscoveryDone
  <2>9. n.prev = Nothing /\ n.cases = <<>>
    BY <1>3, <2>3, <2>4
  <2>10. told \in EventsType /\ ToldInv(n, told)
    BY <1>0, <2>9, ToldGone
  <2> HIDE DEF told
  <2> QED
    BY <1>0, <1>1, <1>5, <2>1, <2>4, <2>8, <2>9, <2>10, InvAfter
<1> QED
  BY <1>7, <1>8

(* ProcessUseCaseReply, for a reply or a notify.                           *)
LEMMA CaseReplyKeeps ==
    ASSUME DirectoryInv, wire.peer # <<>>, Head(wire.peer).type = "useCase",
           ProcessUseCaseReply(Head(wire.peer)), offer' = offer
    PROVE  DirectoryInv'
<1> DEFINE msg == Head(wire.peer)
           i == PendingIndex(mirror, msg.ref)
           left == IF i = 0 THEN mirror.pending ELSE RemoveAt(mirror.pending, i)
           v == [wire EXCEPT !.peer = Tail(@)]
           told == UpdateUseCaseData(mirror, events, msg.cases)
<1>0. /\ offer \in OfferType /\ offer.cases \in CaseLists(Alive(offer))
      /\ mirror \in MirrorType /\ mirror.cases = OrEmpty(mirror.prev)
      /\ events \in EventsType /\ ToldInv(mirror, events) /\ LinkInv(offer, mirror, wire) /\ IsWire(wire)
  BY DEF DirectoryInv, LinkInv
<1>1. /\ events' = told /\ wire' = v
      /\ mirror' = [mirror EXCEPT !.cases = msg.cases, !.prev = msg.cases, !.pending = left]
  BY DEF ProcessUseCaseReply
<1>2. msg \in CaseMessages /\ Following(offer, mirror, wire)
  <2>1. msg \in CaseMessages \cup EntityMessages /\ Following(offer, mirror, wire)
    BY <1>0, CaseFirst
  <2> QED
    BY <2>1 DEF EntityMessages
<1>3. PICK c \in CaseLists(Entities) : c = msg.cases
  BY <1>2 DEF CaseMessages
<1>4. left = mirror.pending \/ left = <<>>
  <2>1. mirror.pending = <<>> \/ (Len(mirror.pending) = 1 /\ mirror.pending[1].kind = "useCase")
    BY <1>2 DEF Following
  <2> HIDE DEF msg
  <2> QED
    BY <1>0, <2>1, PendingLeft
<1> HIDE DEF left
<1>5. PICK q \in Seq([msg_cnt : Nat, kind : {"discovery", "useCase"}]) : q = left
  BY <1>0, <1>4, EmptySeq DEF MirrorType
<1> DEFINE n == [mirror EXCEPT !.cases = c, !.prev = c, !.pending = q]
<1>6. mirror' = n
  BY <1>1, <1>3, <1>5, Zenon
<1>7. /\ n \in MirrorType /\ n.up = mirror.up /\ n.entities = mirror.entities
      /\ n.cases = c /\ n.prev = c /\ n.pending = q
  BY <1>0 DEF MirrorType
<1> HIDE DEF n
<1>8. OrEmpty(c) = c
  BY NothingAssumption DEF OrEmpty
<1>9. IsWire(v) /\ v.peer = Tail(wire.peer) /\ v.device = wire.device
  BY <1>0, WirePeer, Zenon
<1> HIDE DEF v
<1>10. LinkInv(offer, n, v)
  BY <1>0, <1>3, <1>4, <1>5, <1>7, <1>9, DataHandled
<1>11. told \in EventsType /\ ToldInv(n, told)
  <2> DEFINE y == [mirror EXCEPT !.cases = OrEmpty(c), !.prev = c]
  <2>1. told = UpdateUseCaseData(mirror, events, c)
    BY <1>3, Zenon
  <2> HIDE DEF told
  <2>2. told \in EventsType /\ ToldInv(y, told)
    BY <1>0, <2>1, ToldNew
  <2>3. y.prev = c /\ y.entities = mirror.entities
    BY <1>0 DEF MirrorType
  <2> HIDE DEF y
  <2>4. Visible(y) = Visible(n)
    BY <1>7, <2>3 DEF Visible
  <2> QED
    BY <2>2, <2>4 DEF ToldInv
<1> HIDE DEF told
<1> QED
  BY <1>0, <1>1, <1>6, <1>7, <1>8, <1>10, <1>11, InvAfter

(* PeerHandles.                                                            *)
LEMMA PeerHandlesKeeps ==
    ASSUME DirectoryInv, PeerHandles
    PROVE  DirectoryInv'
<1> DEFINE msg == Head(wire.peer)
<1>0. /\ offer \in OfferType /\ offer.cases \in CaseLists(Alive(offer))
      /\ mirror \in MirrorType /\ mirror.cases = OrEmpty(mirror.prev)
      /\ events \in EventsType /\ ToldInv(mirror, events) /\ LinkInv(offer, mirror, wire) /\ IsWire(wire)
  BY DEF DirectoryInv, LinkInv
<1>1. wire.peer # <<>> /\ offer' = offer
  BY DEF PeerHandles
<1>2. msg.type \in {"discovery", "useCase", "entity"}
  <2>1. CASE msg.type # "discovery"
    <3>1. msg \in CaseMessages \cup EntityMessages
      BY <1>0, <1>1, <2>1, CaseFirst
    <3> QED
      BY <3>1 DEF CaseMessages, EntityMessages
  <2> QED
    BY <2>1
<1>3. CASE msg.type = "discovery"
  <2>1. ProcessDiscoveryReply(msg)
    BY <1>3 DEF PeerHandles
  <2> QED
    BY <1>1, <1>3, <2>1, DiscoveryKeeps
<1>4. CASE msg.type = "useCase"
  <2>1. ProcessUseCaseReply(msg)
    BY <1>4 DEF PeerHandles
  <2> QED
    BY <1>1, <1>4, <2>1, CaseReplyKeeps
<1>5. CASE msg.type = "entity"
  <2> DEFINE v == [wire EXCEPT !.peer = Tail(@)]
  <2>1. wire' = v /\ mirror' = mirror /\ events' = events
    BY <1>5 DEF PeerHandles, ProcessNotifyDetailedDiscoveryData
  <2>2. IsWire(v) /\ v.peer = Tail(wire.peer) /\ v.device = wire.device
    BY <1>0, WirePeer, Zenon
  <2> HIDE DEF v
  <2>3. LinkInv(offer, mirror, v)
    BY <1>0, <1>1, <1>5, <2>2, EntityHandled
  <2> QED
    BY <1>0, <1>1, <2>1, <2>3, InvAfter
<1> QED
  BY <1>2, <1>3, <1>4, <1>5

(* PendingReplyExpires.                                                    *)
LEMMA ExpiryKeeps ==
    ASSUME DirectoryInv, PendingReplyExpires
    PROVE  DirectoryInv'
<1> DEFINE kind == mirror.pending[1].kind
           y == [mirror EXCEPT !.pending = Tail(@)]
           n == RequestOf(y, kind)
           v == [wire EXCEPT !.device = Append(@, ReadOf(mirror, kind))]
           Entries == [msg_cnt : Nat, kind : {"discovery", "useCase"}]
<1>0. /\ offer \in OfferType /\ offer.cases \in CaseLists(Alive(offer))
      /\ mirror \in MirrorType /\ mirror.cases = OrEmpty(mirror.prev)
      /\ events \in EventsType /\ ToldInv(mirror, events) /\ LinkInv(offer, mirror, wire) /\ IsWire(wire)
  BY DEF DirectoryInv, LinkInv
<1>1. mirror.pending # <<>> /\ mirror.pending \in Seq(Entries)
  BY <1>0 DEF PendingReplyExpires, MirrorType
<1>2. Len(mirror.pending) = 1
  <2>1. mirror.up
    BY <1>0, <1>1 DEF LinkInv, DownInv, NoMirror
  <2>2. CASE Discovering(offer, mirror, wire)
    BY <2>2 DEF Discovering
  <2>3. CASE Following(offer, mirror, wire)
    BY <1>1, <2>3 DEF Following
  <2> QED
    BY <1>0, <2>1, <2>2, <2>3 DEF LinkInv, UpInv
<1>3. Head(mirror.pending) = mirror.pending[1] /\ mirror.pending[1] \in Entries /\ Tail(mirror.pending) = <<>>
  <2> HIDE DEF Entries
  <2>1. Head(mirror.pending) = mirror.pending[1]
    BY <1>1
  <2>2. Head(mirror.pending) \in Entries /\ Tail(mirror.pending) \in Seq(Entries)
        /\ Len(Tail(mirror.pending)) = Len(mirror.pending) - 1
    BY <1>1, HeadTailProperties
  <2>3. Len(Tail(mirror.pending)) = 0
    BY <1>2, <2>2
  <2>4. Tail(mirror.pending) = <<>>
    BY <2>2, <2>3, NoneLeft
  <2> QED
    BY <2>1, <2>2, <2>4
<1>4. kind \in {"discovery", "useCase"}
  BY <1>3
<1>5. mirror' = n /\ wire' = v /\ offer' = offer /\ events' = events
  BY <1>3, Zenon DEF PendingReplyExpires
<1> HIDE DEF kind
<1>6. /\ y \in MirrorType /\ y.pending = <<>> /\ y.up = mirror.up /\ y.msg_cnt = mirror.msg_cnt
      /\ y.prev = mirror.prev /\ y.cases = mirror.cases /\ y.entities = mirror.entities
  <2>1. PICK none \in Seq(Entries) : none = <<>>
    BY EmptySeq
  <2> DEFINE z == [mirror EXCEPT !.pending = none]
  <2>2. y = z
    BY <1>3, <2>1, Zenon
  <2>3. /\ z \in MirrorType /\ z.pending = none /\ z.up = mirror.up /\ z.msg_cnt = mirror.msg_cnt
        /\ z.prev = mirror.prev /\ z.cases = mirror.cases /\ z.entities = mirror.entities
    BY <1>0 DEF MirrorType
  <2> HIDE DEF y, z
  <2> QED
    BY <2>1, <2>2, <2>3, Zenon
<1> HIDE DEF y
<1>7. /\ n \in MirrorType /\ n.up = y.up /\ n.entities = y.entities /\ n.cases = y.cases /\ n.prev = y.prev
      /\ n.msg_cnt = y.msg_cnt + 1 /\ n.pending = <<[msg_cnt |-> n.msg_cnt, kind |-> kind]>>
  BY <1>4, <1>6, Requested
<1> HIDE DEF n
<1>8. IsWire(v) /\ v.device = Append(wire.device, ReadOf(mirror, kind)) /\ v.peer = wire.peer
  BY <1>0, WireDevice, Zenon
<1> HIDE DEF v
<1>9. LinkInv(offer, n, v)
  <2>1. n.up = mirror.up /\ n.msg_cnt = mirror.msg_cnt + 1
    BY <1>6, <1>7, Zenon
  <2> QED
    BY <1>0, <1>1, <1>7, <1>8, <2>1, ReadAgain DEF kind
<1>10. n.prev = mirror.prev /\ n.entities = mirror.entities /\ n.cases = mirror.cases
  BY <1>6, <1>7, Zenon
<1>11. ToldInv(n, events)
  BY <1>0, <1>10 DEF ToldInv, Visible
<1>12. n.cases = OrEmpty(n.prev)
  BY <1>0, <1>10, Zenon
<1> QED
  BY <1>0, <1>5, <1>7, <1>9, <1>11, <1>12, InvAfter

(* NoMirror is well-typed and empty.                                       *)
LEMMA NoMirrorFields ==
    /\ NoMirror \in MirrorType /\ ~NoMirror.up /\ NoMirror.prev = Nothing
    /\ NoMirror.cases = <<>> /\ NoMirror.cases = OrEmpty(NoMirror.prev)
    /\ NoMirror.pending = <<>> /\ NoMirror.msg_cnt = 0 /\ NoMirror.entities = {}
<1>1. <<>> \in CaseLists(Entities) /\ <<>> \in Seq([msg_cnt : Nat, kind : {"discovery", "useCase"}])
  BY EmptySeq DEF CaseLists
<1> QED
  BY <1>1 DEF NoMirror, MirrorType, OrEmpty

(* RequestDetailedDiscovery.                                               *)
LEMMA DialKeeps ==
    ASSUME DirectoryInv, RequestDetailedDiscovery
    PROVE  DirectoryInv'
<1> DEFINE y == [NoMirror EXCEPT !.up = TRUE]
           n == RequestOf(y, "discovery")
           read == ReadOf(NoMirror, "discovery")
           v == [peer |-> <<>>, device |-> <<read>>]
<1>0. /\ offer \in OfferType /\ offer.cases \in CaseLists(Alive(offer))
      /\ mirror \in MirrorType /\ mirror.cases = OrEmpty(mirror.prev)
      /\ events \in EventsType /\ ToldInv(mirror, events) /\ LinkInv(offer, mirror, wire)
  BY DEF DirectoryInv
<1>1. mirror' = n /\ wire' = v /\ offer' = offer /\ events' = events /\ ~mirror.up
  BY DEF RequestDetailedDiscovery
<1>2. mirror = NoMirror /\ ~offer.subscribed /\ offer.reply = Nothing
  BY <1>0, <1>1 DEF LinkInv, DownInv
<1>3. /\ y \in MirrorType /\ y.up /\ y.pending = <<>> /\ y.msg_cnt = 0 /\ y.prev = Nothing
      /\ y.cases = <<>> /\ y.entities = {}
  BY NoMirrorFields DEF MirrorType
<1> HIDE DEF y
<1>4. /\ n \in MirrorType /\ n.up = y.up /\ n.entities = y.entities /\ n.cases = y.cases /\ n.prev = y.prev
      /\ n.msg_cnt = y.msg_cnt + 1 /\ n.pending = <<[msg_cnt |-> n.msg_cnt, kind |-> "discovery"]>>
  BY <1>3, Requested
<1> HIDE DEF n
<1>5. n.msg_cnt = 1
  BY <1>3, <1>4
<1>6. read \in DiscoveryReads /\ read.msg_cnt = 1
  BY DEF ReadOf, NoMirror, DiscoveryReads
<1> HIDE DEF read
<1>7. v.peer = <<>> /\ v.device = <<read>> /\ IsWire(v)
  BY DEF IsWire
<1> HIDE DEF v
<1>8. v.peer \in Seq(Discoveries) /\ v.device \in Seq(DiscoveryReads) /\ Len(v.peer) = 0 /\ Len(v.device) = 1
      /\ v.device[1] = read
  BY <1>6, <1>7, EmptySeq
<1>9. LastAsked(n, v)
  BY <1>5, <1>6, <1>8 DEF LastAsked
<1>10. Discovering(offer, n, v)
  BY <1>2, <1>4, <1>8, <1>9 DEF Discovering
<1>11. LinkInv(offer, n, v)
  BY <1>3, <1>4, <1>7, <1>10 DEF LinkInv, UpInv, DownInv
<1>12. n.prev = Nothing /\ n.cases = <<>>
  BY <1>3, <1>4, Zenon
<1>13. n.cases = OrEmpty(n.prev)
  BY <1>12 DEF OrEmpty
<1>14. ToldInv(n, events)
  <2>1. ToSet(<<>>) = {}
    BY DEF ToSet
  <2>2. Visible(NoMirror) = {} /\ Visible(n) = {}
    BY <1>12, <2>1 DEF Visible, OrEmpty, Supported, NoMirror
  <2> QED
    BY <1>0, <1>2, <2>2 DEF ToldInv
<1> QED
  BY <1>0, <1>1, <1>4, <1>11, <1>13, <1>14, InvAfter

(* RemoveRemoteDeviceConnection.                                           *)
LEMMA LossKeeps ==
    ASSUME DirectoryInv, RemoveRemoteDeviceConnection
    PROVE  DirectoryInv'
<1> DEFINE p == [offer EXCEPT !.subscribed = FALSE, !.reply = Nothing, !.overtaken = FALSE]
           v == [peer |-> <<>>, device |-> <<>>]
           told == NodeManagementRemoteDestruct(mirror, events)
<1>0. /\ offer \in OfferType /\ offer.cases \in CaseLists(Alive(offer))
      /\ mirror \in MirrorType /\ events \in EventsType /\ ToldInv(mirror, events)
  BY DEF DirectoryInv
<1>1. mirror' = NoMirror /\ wire' = v /\ offer' = p /\ events' = told
  BY DEF RemoveRemoteDeviceConnection
<1>2. /\ p \in OfferType /\ p.cases = offer.cases /\ p.entity = offer.entity
      /\ ~p.subscribed /\ p.reply = Nothing /\ ~p.overtaken
  BY <1>0 DEF OfferType
<1> HIDE DEF p
<1>3. Alive(p) = Alive(offer)
  BY <1>2 DEF Alive
<1>4. LinkInv(p, NoMirror, v)
  BY <1>2, NoMirrorFields DEF LinkInv, IsWire, UpInv, DownInv
<1>5. told \in EventsType /\ ToldInv(NoMirror, told)
  BY <1>0, NoMirrorFields, ToldGone
<1> HIDE DEF told, v
<1> QED
  BY <1>0, <1>1, <1>2, <1>3, <1>4, <1>5, NoMirrorFields, InvAfter

(* The invariant holds of the initial states.                              *)
LEMMA DirectoryInitInv == DirectoryInit => DirectoryInv
<1> SUFFICES ASSUME DirectoryInit PROVE DirectoryInv
  OBVIOUS
<1>1. PICK entity \in [Entities -> {"built", "listed"}] :
         offer = [entity |-> entity, cases |-> <<>>, subscribed |-> FALSE, reply |-> Nothing, overtaken |-> FALSE]
  BY DEF DirectoryInit
<1>2. <<>> \in CaseLists(Entities) /\ <<>> \in CaseLists(Alive(offer))
  BY EmptySeq DEF CaseLists
<1>3. /\ offer \in OfferType /\ offer.cases \in CaseLists(Alive(offer))
      /\ ~offer.subscribed /\ offer.reply = Nothing /\ ~offer.overtaken
  BY <1>1, <1>2 DEF OfferType
<1>4. mirror = NoMirror /\ wire = [peer |-> <<>>, device |-> <<>>]
      /\ events = [handlers |-> {}, told |-> [h \in Handlers |-> {}], early |-> {}]
  BY DEF DirectoryInit
<1>5. events \in EventsType /\ ToldInv(mirror, events)
  BY <1>4 DEF EventsType, ToldInv
<1>6. LinkInv(offer, mirror, wire)
  BY <1>3, <1>4, NoMirrorFields DEF LinkInv, IsWire, UpInv, DownInv
<1> QED
  BY <1>3, <1>4, <1>5, <1>6, NoMirrorFields DEF DirectoryInv

(* The invariant holds of every state.                                     *)
THEOREM DirectoryIsGood == DirectorySpec => []DirectoryInv
<1>1. ASSUME DirectoryInv, DirectoryNext PROVE DirectoryInv'
  <2>1. ASSUME NEW e \in Entities, AddEntity(e) \/ RemoveEntity(e) PROVE DirectoryInv'
    BY <1>1, <2>1, AddEntityKeeps, RemoveEntityKeeps
  <2>2. ASSUME NEW e \in Entities, NEW u \in UseCases,
               \/ AddUseCaseSupport(e, u)
               \/ RemoveUseCaseSupports(e, u)
               \/ \E available \in BOOLEAN : SetUseCaseAvailability(e, u, available)
        PROVE  DirectoryInv'
    BY <1>1, <2>2, CasesKeep
  <2>3. ASSUME NEW h \in Handlers, EventsSubscribe(h) \/ EventsUnsubscribe(h) PROVE DirectoryInv'
    BY <1>1, <2>3, HandlersKeep
  <2>4. CASE DeviceHandles
    BY <1>1, <2>4, DeviceHandlesKeeps
  <2>5. CASE ProcessReadUseCaseDataReplies
    BY <1>1, <2>5, RepliesKeep
  <2>6. CASE PeerHandles
    BY <1>1, <2>6, PeerHandlesKeeps
  <2>7. CASE PendingReplyExpires
    BY <1>1, <2>7, ExpiryKeeps
  <2>8. CASE RequestDetailedDiscovery
    BY <1>1, <2>8, DialKeeps
  <2>9. CASE RemoveRemoteDeviceConnection
    BY <1>1, <2>9, LossKeeps
  <2> QED
    BY <1>1, <2>1, <2>2, <2>3, <2>4, <2>5, <2>6, <2>7, <2>8, <2>9 DEF DirectoryNext
<1>2. ASSUME DirectoryInv, UNCHANGED directory PROVE DirectoryInv'
  <2>1. offer' = offer /\ mirror' = mirror /\ events' = events /\ wire' = wire
    BY <1>2 DEF directory
  <2> QED
    BY <1>2, <2>1, InvAfter DEF DirectoryInv
<1> QED
  BY <1>1, <1>2, DirectoryInitInv, PTL DEF DirectorySpec

(* What the invariant says of a peer that has nothing more to hear.        *)
LEMMA QuietAgrees ==
    ASSUME DirectoryInv, mirror.up, Quiet, ~offer.overtaken
    PROVE  /\ mirror.cases = offer.cases
           /\ Visible(mirror) = {u \in Supported(offer.cases) : u.entity \in mirror.entities}
           /\ \A h \in Handlers : \A u \in events.told[h] : u.entity \in Alive(offer)
<1>1. /\ wire.peer = <<>> /\ wire.device = <<>> /\ offer.reply = Nothing /\ mirror.pending = <<>>
  BY DEF Quiet
<1>2. ~Discovering(offer, mirror, wire)
  BY <1>1 DEF Discovering
<1>3. Settles(wire.peer, mirror.prev, offer.cases)
  BY <1>1, <1>2 DEF DirectoryInv, LinkInv, UpInv, Agreeing
<1>4. mirror.prev = offer.cases
  BY <1>1, <1>3, EmptySeq DEF Settles
<1>5. offer.cases # Nothing /\ offer.cases \in CaseLists(Alive(offer))
  BY NothingAssumption DEF DirectoryInv, OfferType
<1>6. mirror.cases = offer.cases /\ OrEmpty(mirror.prev) = offer.cases
  BY <1>4, <1>5 DEF DirectoryInv, OrEmpty
<1>7. Visible(mirror) = {u \in Supported(offer.cases) : u.entity \in mirror.entities}
  BY <1>6 DEF Visible
<1>8. ASSUME NEW h \in Handlers, NEW u \in events.told[h] PROVE u.entity \in Alive(offer)
  <2>1. u \in Supported(offer.cases)
    BY <1>7 DEF DirectoryInv, ToldInv
  <2>2. Alive(offer) \in SUBSET Entities
    BY DEF Alive
  <2> QED
    BY <1>5, <2>1, <2>2, SupportedCases
<1> QED
  BY <1>6, <1>7, <1>8

(* On every build the peer that has nothing more to hear has the device's  *)
(* use case data, and handlers that were there in time know exactly its    *)
(* use cases; one that is not connected knows none.                        *)
THEOREM MirrorIsRight == DirectorySpec => []MirrorAgrees
<1>1. ASSUME DirectoryInv PROVE MirrorAgrees
  <2>1. ASSUME ~mirror.up, NEW h \in Handlers PROVE events.told[h] = {}
    <3>1. mirror.prev = Nothing
      BY <1>1, <2>1, NoMirrorFields DEF DirectoryInv, LinkInv, DownInv
    <3>2. ToSet(<<>>) = {}
      BY DEF ToSet
    <3>3. Visible(mirror) = {}
      BY <3>1, <3>2 DEF Visible, OrEmpty, Supported
    <3> QED
      BY <1>1, <3>3 DEF DirectoryInv, ToldInv
  <2>2. ASSUME mirror.up, Quiet, ~offer.overtaken
        PROVE  /\ mirror.cases = offer.cases
               /\ \A h \in events.early :
                     events.told[h] = {u \in Supported(offer.cases) : u.entity \in mirror.entities}
    <3>1. /\ mirror.cases = offer.cases
          /\ Visible(mirror) = {u \in Supported(offer.cases) : u.entity \in mirror.entities}
      BY <1>1, <2>2, QuietAgrees
    <3>2. ASSUME NEW h \in events.early PROVE events.told[h] = Visible(mirror)
      <4>1. h \in Handlers
        BY <1>1 DEF DirectoryInv, EventsType
      <4> QED
        BY <1>1, <4>1 DEF DirectoryInv, ToldInv
    <3> QED
      BY <3>1, <3>2
  <2> QED
    BY <2>1, <2>2 DEF MirrorAgrees
<1> QED
  BY <1>1, DirectoryIsGood, PTL

(* Where a list of no entries can be allocated, nobody knows of a use case *)
(* at an entity that is deleted either.                                    *)
THEOREM DirectoryIsRight ==
    ASSUME ~NoMemoryForZero
    PROVE  DirectorySpec => []DirectoryAgrees
<1>1. ASSUME DirectoryInv, MirrorAgrees PROVE DirectoryAgrees
  <2>1. ASSUME mirror.up, Quiet, ~offer.overtaken, NEW h \in Handlers, NEW u \in events.told[h]
        PROVE  offer.entity[u.entity] # "deleted"
    <3>1. u.entity \in Alive(offer)
      BY <1>1, <2>1, QuietAgrees
    <3> QED
      BY <3>1 DEF Alive
  <2> QED
    BY <1>1, <2>1 DEF DirectoryAgrees
<1> QED
  BY <1>1, DirectoryIsGood, MirrorIsRight, PTL
=============================================================================
