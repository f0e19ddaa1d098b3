------------------------- MODULE SpineDeviceProofs --------------------------
(***************************************************************************)
(* Proofs about SpineDevice: its state is well-typed, no subscription or   *)
(* binding refers to a feature of a remote device that is gone, and what   *)
(* the device keeps of a peer stays the peer's own.                        *)
(*                                                                         *)
(* The module goes through the operations of device_local.c from the small *)
(* to the large: for each it says in a lemma (...Fields) which fields of   *)
(* the device the operation changes, and in another (...Keeps) that it     *)
(* preserves DeviceInv.  The steps of the two threads follow.  Operations  *)
(* that go through a list are recursive functions, and DataInduction has   *)
(* the inductions they need.                                               *)
(***************************************************************************)
EXTENDS SpineDevice, DataInduction, SequenceTheorems, FiniteSetTheorems

(* An entry of the list of pending replies.                                *)

Pendings == [msg_cnt : Nat, ski : Skis, kind : Kinds, inc : 1..MaxConnects]

(* The same remote devices, to which messages may have been sent.          *)
SamePeers(d, e) ==
    \A s \in Skis :
        /\ Present(e, s) <=> Present(d, s)
        /\ Present(d, s) => /\ e.remotes[s].ptr = d.remotes[s].ptr
                            /\ e.remotes[s].inc = d.remotes[s].inc
                            /\ e.remotes[s].msg_num >= d.remotes[s].msg_num

(* The same feature objects and addresses of theirs.                       *)
SameFeatures(d, e) ==
    \A s \in Skis : Present(d, s) => /\ e.remotes[s].address = d.remotes[s].address
                                     /\ e.remotes[s].entity = d.remotes[s].entity

SameObjects(d, e) == SamePeers(d, e) /\ SameFeatures(d, e)

(* The same subscriptions and bindings.                                    *)
SameLinks(d, e) == e.links = d.links /\ e.num = d.num /\ e.granted = d.granted

(* Sender: sending takes the next message number of the device that is     *)
(* there and touches nothing else.                                         *)
LEMMA SendFields ==
    ASSUME NEW d \in Devices, NEW s \in Skis, Present(d, s)
    PROVE  /\ Send(d, s) \in Devices
           /\ SameObjects(d, Send(d, s))
           /\ SameLinks(d, Send(d, s))
           /\ Send(d, s).remotes[s].msg_num = d.remotes[s].msg_num + 1
           /\ Send(d, s).pending = d.pending
           /\ Send(d, s).asked = d.asked
           /\ Send(d, s).crossed = d.crossed
           /\ Send(d, s).subscriptions = d.subscriptions
<1>1. d.remotes[s] \in Remotes
  BY DEF Devices, Present
<1> DEFINE r == [d.remotes[s] EXCEPT !.msg_num = @ + 1]
<1>2. r \in Remotes /\ r # None
  BY <1>1, NoneAssumption DEF Remotes
<1>3. r.ptr = d.remotes[s].ptr /\ r.inc = d.remotes[s].inc /\ r.address = d.remotes[s].address
      /\ r.entity = d.remotes[s].entity /\ r.msg_num = d.remotes[s].msg_num + 1
      /\ r.msg_num >= d.remotes[s].msg_num
  BY <1>1 DEF Remotes
<1> HIDE DEF r
<1>4. Send(d, s) = [d EXCEPT !.remotes = [@ EXCEPT ![s] = r]]
  BY <1>1 DEF Send, Devices, r
<1>5. \A t \in Skis : d.remotes[t] # None => d.remotes[t].msg_num \in Nat
  BY DEF Devices, Remotes
<1>6. [d.remotes EXCEPT ![s] = r] \in [Skis -> Remotes \cup {None}]
  BY <1>2 DEF Devices
<1>7. Send(d, s) \in Devices
  BY <1>4, <1>6 DEF Devices
<1>8. Send(d, s).remotes = [d.remotes EXCEPT ![s] = r]
  BY <1>4 DEF Devices
<1>9. d.remotes \in [Skis -> Remotes \cup {None}]
  BY DEF Devices
<1>10. SameObjects(d, Send(d, s))
  BY <1>2, <1>3, <1>5, <1>8, <1>9 DEF SameObjects, SamePeers, SameFeatures, Present
<1> QED
  BY <1>3, <1>4, <1>7, <1>8, <1>9, <1>10 DEF Devices, SameLinks

(* RequestDetailedDiscovery and its like: the read is sent, its reply is   *)
(* noted as pending.                                                       *)
LEMMA RequestFields ==
    ASSUME NEW d \in Devices, NEW s \in Skis, NEW k \in Kinds, Present(d, s)
    PROVE  LET e == Request(d, s, k)
               n == d.remotes[s].msg_num + 1
           IN  /\ e \in Devices
               /\ SameObjects(d, e) /\ SameLinks(d, e)
               /\ n \in Nat /\ e.remotes[s].msg_num = n
               /\ e.pending = Append(d.pending, [msg_cnt |-> n, ski |-> s, kind |-> k,
                                                 inc |-> d.remotes[s].inc])
               /\ e.asked = [d.asked EXCEPT ![s] = @ \cup {[msg_cnt |-> n, kind |-> k]}]
               /\ e.crossed = d.crossed
               /\ e.subscriptions = d.subscriptions
<1> DEFINE n == d.remotes[s].msg_num + 1
           p == [msg_cnt |-> n, ski |-> s, kind |-> k, inc |-> d.remotes[s].inc]
           a == [msg_cnt |-> n, kind |-> k]
           c == Send(d, s)
<1>1. n \in Nat /\ p \in Pendings /\ a \in Reads
  BY DEF Devices, Present, Remotes, Pendings, Reads
<1>2. /\ c \in Devices /\ SameObjects(d, c) /\ SameLinks(d, c)
      /\ c.remotes[s].msg_num = n /\ c.pending = d.pending /\ c.asked = d.asked
      /\ c.crossed = d.crossed /\ c.subscriptions = d.subscriptions
  BY SendFields
<1>3. Request(d, s, k) = [c EXCEPT !.pending = Append(@, p), !.asked[s] = @ \cup {a}]
  BY <1>2 DEF Request, Devices
<1> HIDE DEF n, p, a, c
<1>4. Append(c.pending, p) \in Seq(Pendings)
  BY <1>1, <1>2, AppendProperties DEF Devices, Pendings
<1>5. [c.asked EXCEPT ![s] = @ \cup {a}] \in [Skis -> SUBSET Reads]
  BY <1>1, <1>2 DEF Devices
<1>6. Request(d, s, k) \in Devices
  BY <1>2, <1>3, <1>4, <1>5 DEF Devices, Pendings
<1>7. SameObjects(d, Request(d, s, k)) /\ SameLinks(d, Request(d, s, k))
  BY <1>2, <1>3 DEF Devices, SameObjects, SamePeers, SameFeatures, SameLinks, Present
<1>8. /\ Request(d, s, k).remotes = c.remotes /\ Request(d, s, k).crossed = c.crossed
      /\ Request(d, s, k).pending = Append(c.pending, p)
      /\ Request(d, s, k).asked = [c.asked EXCEPT ![s] = @ \cup {a}]
      /\ Request(d, s, k).subscriptions = c.subscriptions
  BY <1>2, <1>3 DEF Devices
<1> QED
  BY <1>1, <1>2, <1>6, <1>7, <1>8 DEF n, p, a

(* Of the objects of d and of e: what is the same twice is the same.       *)
LEMMA SameTwice ==
    ASSUME NEW d \in Devices, NEW c \in Devices, NEW e \in Devices,
           SameObjects(d, c), SameObjects(c, e)
    PROVE  SameObjects(d, e)
<1>1. \A s \in Skis : /\ Present(d, s) => d.remotes[s].msg_num \in Nat
                      /\ Present(c, s) => c.remotes[s].msg_num \in Nat
                      /\ Present(e, s) => e.remotes[s].msg_num \in Nat
  BY DEF Devices, Remotes, Present
<1> QED
  BY <1>1 DEF SameObjects, SamePeers, SameFeatures

(* Subscribing sends a message to a device that is there, whose address is *)
(* noted.                                                                  *)
LEMMA SubscribeFields ==
    ASSUME NEW d \in Devices, NEW s \in Skis, Present(d, s)
    PROVE  LET e == SubscribeToRemote(d, s)
           IN  /\ e \in Devices
               /\ SameObjects(d, e) /\ SameLinks(d, e)
               /\ e.pending = d.pending /\ e.asked = d.asked /\ e.crossed = d.crossed
               /\ d.subscriptions \subseteq e.subscriptions
               /\ \A a \in e.subscriptions : a \in d.subscriptions
                    \/ \E t \in Skis : Present(d, t) /\ d.remotes[t].address = a
<1> DEFINE x == d.remotes[s].entity["NodeManagement"].device
           addr == IF x = None THEN d.remotes[s].address ELSE x
           to == {t \in Skis : Present(d, t) /\ d.remotes[t].address = addr}
           u == CHOOSE t \in to : TRUE
<1>1. d.remotes[s] \in Remotes /\ "NodeManagement" \in Features
  BY DEF Devices, Present, Features
<1>2. addr \in Skis \cup {None}
  BY <1>1 DEF Remotes, Addresses
<1>3. CASE addr = None \/ to = {}
  <2>1. SubscribeToRemote(d, s) = d
    BY <1>3 DEF SubscribeToRemote
  <2>2. \A t \in Skis : Present(d, t) => d.remotes[t].msg_num \in Nat
    BY DEF Devices, Present, Remotes
  <2> QED
    BY <2>1, <2>2 DEF SameObjects, SamePeers, SameFeatures, SameLinks
<1>4. CASE ~(addr = None \/ to = {})
  <2>1. u \in to
    BY <1>4
  <2>2. SubscribeToRemote(d, s) = [Send(d, u) EXCEPT !.subscriptions = @ \cup {addr}]
    BY <1>4 DEF SubscribeToRemote
  <2>3. u \in Skis /\ Present(d, u) /\ d.remotes[u].address = addr /\ addr \in Skis
    BY <1>2, <1>4, <2>1
  <2> HIDE DEF u, addr, to
  <2> DEFINE c == Send(d, u)
  <2>4. /\ c \in Devices /\ SameObjects(d, c) /\ SameLinks(d, c)
        /\ c.pending = d.pending /\ c.asked = d.asked
        /\ c.crossed = d.crossed /\ c.subscriptions = d.subscriptions
    BY <2>3, SendFields
  <2> HIDE DEF c
  <2> DEFINE e == [c EXCEPT !.subscriptions = @ \cup {addr}]
  <2>5. SubscribeToRemote(d, s) = e
    BY <2>2 DEF c
  <2>6. e \in Devices
    BY <2>3, <2>4 DEF Devices
  <2>7. SameObjects(d, e)
    BY <2>4 DEF Devices, SameObjects, SamePeers, SameFeatures, Present
  <2>8. /\ e.links = c.links /\ e.num = c.num /\ e.granted = c.granted
        /\ e.pending = c.pending /\ e.asked = c.asked /\ e.crossed = c.crossed
        /\ e.subscriptions = c.subscriptions \cup {addr}
    BY <2>4 DEF Devices
  <2> HIDE DEF e
  <2> QED
    BY <2>3, <2>4, <2>5, <2>6, <2>7, <2>8 DEF SameLinks
<1> QED
  BY <1>3, <1>4

(* What RemoveAt leaves of a sequence.                                     *)
LEMMA RemoveAtFields ==
    ASSUME NEW S, NEW z \in Seq(S), NEW i \in 1..Len(z)
    PROVE  /\ RemoveAt(z, i) \in Seq(S)
           /\ \A j \in 1..Len(RemoveAt(z, i)) : \E k \in 1..Len(z) : RemoveAt(z, i)[j] = z[k]
           /\ \A k \in 1..Len(z) : k = i \/ \E j \in 1..Len(RemoveAt(z, i)) : RemoveAt(z, i)[j] = z[k]
<1> DEFINE r == RemoveAt(z, i)
<1>1. /\ r \in Seq(S) /\ Len(r) = Len(z) - 1
      /\ \A j \in 1..(Len(z) - 1) : r[j] = IF j < i THEN z[j] ELSE z[j + 1]
  BY RemoveAtIndices
<1>2. Len(z) \in Nat
  BY LenProperties
<1> HIDE DEF r
<1>3. ASSUME NEW j \in 1..Len(r) PROVE \E k \in 1..Len(z) : r[j] = z[k]
  <2>1. j \in 1..Len(z) /\ j + 1 \in 1..Len(z)
    BY <1>1, <1>2
  <2>2. r[j] = z[j] \/ r[j] = z[j + 1]
    BY <1>1
  <2> QED
    BY <2>1, <2>2
<1>4. ASSUME NEW k \in 1..Len(z), k # i PROVE \E j \in 1..Len(r) : r[j] = z[k]
  <2>1. CASE k < i
    <3>1. k \in 1..Len(r) /\ r[k] = z[k]
      BY <1>1, <1>2, <2>1
    <3> QED
      BY <3>1
  <2>2. CASE k > i
    <3>1. k - 1 \in 1..Len(r) /\ ~(k - 1 < i) /\ (k - 1) + 1 = k
      BY <1>1, <1>2, <2>2
    <3>2. r[k - 1] = z[k]
      BY <1>1, <3>1
    <3> QED
      BY <3>1, <3>2
  <2>3. k < i \/ k > i
    BY <1>2, <1>4
  <2> QED
    BY <2>1, <2>2, <2>3
<1> QED
  BY <1>1, <1>3, <1>4 DEF r

(* A device with fewer pending replies.                                    *)
LEMMA PendingFields ==
    ASSUME NEW d \in Devices, NEW z \in Seq(Pendings), NEW x \in SUBSET Skis
    PROVE  LET e == [d EXCEPT !.pending = z, !.crossed = x]
           IN  /\ e \in Devices
               /\ SameObjects(d, e) /\ SameLinks(d, e)
               /\ e.pending = z /\ e.asked = d.asked /\ e.crossed = x
               /\ e.subscriptions = d.subscriptions
<1>1. \A t \in Skis : Present(d, t) => d.remotes[t].msg_num \in Nat
  BY DEF Devices, Present, Remotes
<1> DEFINE e == [d EXCEPT !.pending = z, !.crossed = x]
<1>2. e \in Devices
  BY DEF Devices, Pendings
<1>3. /\ e.remotes = d.remotes /\ e.links = d.links /\ e.num = d.num /\ e.granted = d.granted
      /\ e.pending = z /\ e.asked = d.asked /\ e.crossed = x /\ e.subscriptions = d.subscriptions
  BY DEF Devices
<1> HIDE DEF e
<1>4. SameObjects(d, e)
  BY <1>1, <1>3 DEF SameObjects, SamePeers, SameFeatures, Present
<1> QED
  BY <1>2, <1>3, <1>4 DEF SameLinks, e

(* Without as a loop: the values of its function are sequences of pending  *)
(* replies.                                                                *)
LEMMA WithoutLoop ==
    ASSUME NEW z \in Seq(Pendings), NEW s \in Skis
    PROVE  \E f \in [0..Len(z) -> Seq(Pendings)] :
              /\ f[0] = <<>>
              /\ \A i \in 1..Len(z) :
                    f[i] = IF z[i].ski = s THEN f[i - 1] ELSE Append(f[i - 1], z[i])
              /\ Without(z, s) = f[Len(z)]
<1> DEFINE n == Len(z)
           S == Seq(Pendings)
           none == <<>>
           step == [i \in 1..n |-> [x \in S |-> IF z[i].ski = s THEN x ELSE Append(x, z[i])]]
<1>1. n \in Nat /\ none \in S
  BY LenProperties, EmptySeq
<1>2. Steps(step, n, S)
  <2> SUFFICES ASSUME NEW i \in 1..n, NEW x \in S
               PROVE  (IF z[i].ski = s THEN x ELSE Append(x, z[i])) \in S
    BY <1>1 DEF Steps
  <2>1. z[i] \in Pendings
    BY ElementOfSeq
  <2> QED
    BY <2>1, AppendProperties
<1>3. PICK f : Loop(f, n, S, none, step)
  <2> HIDE DEF step, S, n, none
  <2> QED
    BY <1>1, <1>2, LoopExists
<1>4. \A i \in 1..n : f[i] = IF z[i].ski = s THEN f[i - 1] ELSE Append(f[i - 1], z[i])
  <2> TAKE i \in 1..n
  <2>1. i - 1 \in 0..n
    BY <1>1
  <2>2. f[i - 1] \in S
    BY <1>3, <2>1 DEF Loop
  <2> QED
    BY <1>3, <2>2 DEF Loop
<1> DEFINE Is(g) == g = [i \in 0..n |-> IF i = 0 THEN <<>>
                            ELSE IF z[i].ski = s THEN g[i - 1] ELSE Append(g[i - 1], z[i])]
           k == CHOOSE g : Is(g)
<1>5. Is(f)
  <2>1. \A i \in 0..n : i = 0 \/ i \in 1..n
    BY <1>1
  <2>2. \A i \in 0..n : f[i] = IF i = 0 THEN <<>>
                            ELSE IF z[i].ski = s THEN f[i - 1] ELSE Append(f[i - 1], z[i])
    BY <1>3, <1>4, <2>1 DEF Loop
  <2> QED
    BY <1>3, <2>2 DEF Loop
<1>6. Is(k)
  <2> HIDE DEF Is
  <2> QED
    BY <1>5
<1>7. Without(z, s) = k[n]
  BY DEF Without
<1> HIDE DEF k
<1>8. k[0] = f[0]
  <2>1. 0 \in 0..n
    BY <1>1
  <2> QED
    BY <1>3, <1>6, <2>1 DEF Loop
<1>9. \A i \in 1..n : k[i - 1] = f[i - 1] => k[i] = f[i]
  <2> TAKE i \in 1..n
  <2>1. i \in 0..n /\ i # 0
    BY <1>1
  <2> QED
    BY <1>4, <1>6, <2>1
<1>10. Alike(k, f, n)
  BY <1>8, <1>9 DEF Alike
<1>11. k[n] = f[n]
  BY <1>1, <1>10, LoopUnique
<1> QED
  BY <1>3, <1>4, <1>7, <1>11 DEF Loop

(* Without leaves the pending replies of the other peers, and no others.   *)
LEMMA WithoutFields ==
    ASSUME NEW z \in Seq(Pendings), NEW s \in Skis
    PROVE  /\ Without(z, s) \in Seq(Pendings)
           /\ \A j \in 1..Len(Without(z, s)) :
                 Without(z, s)[j].ski # s /\ \E k \in 1..Len(z) : Without(z, s)[j] = z[k]
           /\ \A k \in 1..Len(z) :
                 z[k].ski = s \/ \E j \in 1..Len(Without(z, s)) : Without(z, s)[j] = z[k]
<1> DEFINE n == Len(z)
<1>1. n \in Nat
  BY LenProperties
<1>2. PICK f \in [0..n -> Seq(Pendings)] :
         /\ f[0] = <<>>
         /\ \A i \in 1..n : f[i] = IF z[i].ski = s THEN f[i - 1] ELSE Append(f[i - 1], z[i])
         /\ Without(z, s) = f[n]
  BY WithoutLoop
<1> DEFINE P(i) == /\ \A j \in 1..Len(f[i]) : f[i][j].ski # s /\ \E k \in 1..i : f[i][j] = z[k]
                   /\ \A k \in 1..i : z[k].ski = s \/ \E j \in 1..Len(f[i]) : f[i][j] = z[k]
           T == {i \in Nat : i <= n => P(i)}
<1>3. 0 \in T
  BY <1>2
<1>4. ASSUME NEW m \in Nat, m \in T PROVE m + 1 \in T
  <2> SUFFICES ASSUME m + 1 <= n PROVE P(m + 1)
    OBVIOUS
  <2>1. m <= n /\ m + 1 \in 1..n /\ (m + 1) - 1 = m /\ m \in 0..n
    BY <1>1
  <2>2. P(m)
    BY <1>4, <2>1
  <2>3. f[m] \in Seq(Pendings) /\ z[m + 1] \in Pendings
    BY <2>1, ElementOfSeq
  <2>4. f[m + 1] = IF z[m + 1].ski = s THEN f[m] ELSE Append(f[m], z[m + 1])
    BY <1>2, <2>1
  <2>5. CASE z[m + 1].ski = s
    <3>1. f[m + 1] = f[m]
      BY <2>4, <2>5
    <3>2. \A k \in 1..(m + 1) : k \in 1..m \/ k = m + 1
      OBVIOUS
    <3>3. \A k \in 1..m : k \in 1..(m + 1)
      OBVIOUS
    <3> DEFINE g == f[m]
    <3>4. /\ \A j \in 1..Len(g) : g[j].ski # s /\ \E k \in 1..m : g[j] = z[k]
          /\ \A k \in 1..m : z[k].ski = s \/ \E j \in 1..Len(g) : g[j] = z[k]
      BY <2>2
    <3> HIDE DEF g
    <3>5. \A j \in 1..Len(g) : g[j].ski # s /\ \E k \in 1..(m + 1) : g[j] = z[k]
      BY <3>3, <3>4
    <3>6. \A k \in 1..(m + 1) : z[k].ski = s \/ \E j \in 1..Len(g) : g[j] = z[k]
      BY <2>5, <3>2, <3>4
    <3>7. f[m + 1] = g
      BY <3>1 DEF g
    <3> QED
      BY <3>5, <3>6, <3>7
  <2>6. CASE z[m + 1].ski # s
    <3> DEFINE g == f[m]
               h == f[m + 1]
    <3>1. /\ Len(h) = Len(g) + 1 /\ Len(g) \in Nat /\ h[Len(g) + 1] = z[m + 1]
          /\ \A j \in 1..Len(g) : h[j] = g[j]
      BY <2>3, <2>4, <2>6, AppendProperties, LenProperties
    <3>2. /\ \A j \in 1..Len(h) : j \in 1..Len(g) \/ j = Len(g) + 1
          /\ \A j \in 1..Len(g) : j \in 1..Len(h)
          /\ Len(g) + 1 \in 1..Len(h)
      BY <3>1
    <3>3. \A k \in 1..(m + 1) : k \in 1..m \/ k = m + 1
      OBVIOUS
    <3>4. m + 1 \in 1..(m + 1) /\ \A k \in 1..m : k \in 1..(m + 1)
      OBVIOUS
    <3>5. /\ \A j \in 1..Len(g) : g[j].ski # s /\ \E k \in 1..m : g[j] = z[k]
          /\ \A k \in 1..m : z[k].ski = s \/ \E j \in 1..Len(g) : g[j] = z[k]
      BY <2>2
    <3> HIDE DEF g, h
    <3>6. \A j \in 1..Len(h) : h[j].ski # s /\ \E k \in 1..(m + 1) : h[j] = z[k]
      BY <2>6, <3>1, <3>2, <3>4, <3>5
    <3>7. \A k \in 1..(m + 1) : z[k].ski = s \/ \E j \in 1..Len(h) : h[j] = z[k]
      BY <3>1, <3>2, <3>3, <3>5
    <3> QED
      BY <3>6, <3>7 DEF h
  <2> QED
    BY <2>5, <2>6
<1>5. n \in T
  <2> HIDE DEF T
  <2> QED
    BY <1>1, <1>3, <1>4, SetInduction
<1>6. P(n)
  BY <1>1, <1>5
<1>7. f[n] \in Seq(Pendings)
  BY <1>1, <1>2
<1> QED
  BY <1>2, <1>6, <1>7

(* The callback of a pending reply that has been answered.                 *)
Fired(d, s, p) ==
    IF p.kind = "discovery" THEN Request(SubscribeToRemote(d, s), s, "useCase") ELSE d

(* The device when the i-th pending reply has been answered by peer s.     *)
Answered(d, s, i) ==
    LET p == d.pending[i]
        c == Fired(d, s, p)
    IN  [c EXCEPT !.pending = RemoveAt(c.pending, i),
                  !.crossed = IF p.ski = s THEN c.crossed ELSE c.crossed \cup {p.ski}]

(* The callback of a reply that has come: it may ask for more, and what    *)
(* was pending stays in place.                                             *)
LEMMA FiredFields ==
    ASSUME NEW d \in Devices, NEW s \in Skis, NEW p \in Pendings, Present(d, s)
    PROVE  LET e == Fired(d, s, p)
           IN  /\ e \in Devices /\ SameObjects(d, e) /\ SameLinks(d, e)
               /\ e.crossed = d.crossed
               /\ Len(e.pending) >= Len(d.pending)
               /\ \A j \in 1..Len(d.pending) : e.pending[j] = d.pending[j]
<1>1. CASE p.kind = "discovery"
  <2> DEFINE c == SubscribeToRemote(d, s)
             e == Request(c, s, "useCase")
  <2>1. /\ c \in Devices /\ SameObjects(d, c) /\ SameLinks(d, c)
        /\ c.pending = d.pending /\ c.crossed = d.crossed
    BY SubscribeFields
  <2> HIDE DEF c
  <2>2. Present(c, s) /\ "useCase" \in Kinds
    BY <2>1 DEF SameObjects, SamePeers, Kinds
  <2>3. PICK x \in Pendings :
           /\ e \in Devices /\ SameObjects(c, e) /\ SameLinks(c, e)
           /\ e.pending = Append(c.pending, x) /\ e.crossed = c.crossed
    <3> DEFINE x == [msg_cnt |-> c.remotes[s].msg_num + 1, ski |-> s, kind |-> "useCase",
                     inc |-> c.remotes[s].inc]
    <3>1. x \in Pendings
      BY <2>1, <2>2 DEF Devices, Present, Remotes, Pendings
    <3>2. /\ e \in Devices /\ SameObjects(c, e) /\ SameLinks(c, e)
          /\ e.pending = Append(c.pending, x) /\ e.crossed = c.crossed
      BY <2>1, <2>2, RequestFields
    <3> QED
      BY <3>1, <3>2
  <2> HIDE DEF e
  <2>4. d.pending \in Seq(Pendings)
    BY DEF Devices, Pendings
  <2>5. /\ Len(e.pending) >= Len(d.pending)
        /\ \A j \in 1..Len(d.pending) : e.pending[j] = d.pending[j]
    BY <2>1, <2>3, <2>4, AppendProperties, LenProperties
  <2>6. SameObjects(d, e) /\ SameLinks(d, e)
    BY <2>1, <2>3, SameTwice DEF SameLinks
  <2> QED
    BY <1>1, <2>1, <2>3, <2>5, <2>6 DEF Fired, c, e
<1>2. CASE p.kind # "discovery"
  <2>1. \A t \in Skis : Present(d, t) => d.remotes[t].msg_num \in Nat
    BY DEF Devices, Present, Remotes
  <2>2. d.pending \in Seq(Pendings)
    BY DEF Devices, Pendings
  <2>3. Len(d.pending) \in Nat
    BY <2>2, LenProperties
  <2> QED
    BY <1>2, <2>1, <2>3 DEF Fired, SameObjects, SamePeers, SameFeatures, SameLinks
<1> QED
  BY <1>1, <1>2

(* Process does nothing, or calls the callback of the pending reply that   *)
(* it finds and removes it.                                                *)
LEMMA ProcessCases ==
    ASSUME NEW d \in Devices, NEW s \in Skis, NEW ref \in Nat, Present(d, s),
           Process(d, s, ref) # d
    PROVE  \E i \in 1..Len(d.pending) :
              d.pending[i].msg_cnt = ref /\ Process(d, s, ref) = Answered(d, s, i)
<1> DEFINE hits == {i \in 1..Len(d.pending) : d.pending[i].msg_cnt = ref}
           i == Min(hits)
<1>1. hits # {}
  BY DEF Process
<1>2. hits \in SUBSET Nat
  BY LenProperties DEF Devices
<1>3. i \in hits
  <2>1. \E m \in hits : \A n \in hits : m <= n
    BY <1>1, <1>2, LeastNumber
  <2> QED
    BY <2>1 DEF Min
<1>4. Process(d, s, ref) = Answered(d, s, i)
  BY <1>1 DEF Process, Fired, Answered
<1> HIDE DEF i
<1> QED
  BY <1>3, <1>4

(* A device has its own objects and links.                                 *)
LEMMA SameSelf ==
    ASSUME NEW d \in Devices
    PROVE  SameObjects(d, d) /\ SameLinks(d, d)
<1>1. \A t \in Skis : Present(d, t) => d.remotes[t].msg_num \in Nat
  BY DEF Devices, Present, Remotes
<1> QED
  BY <1>1 DEF SameObjects, SamePeers, SameFeatures, SameLinks

(* A reply that has come: the entry it belongs to is taken out and its     *)
(* callback is called.                                                     *)
LEMMA ProcessFields ==
    ASSUME NEW d \in Devices, NEW s \in Skis, NEW ref \in Nat, Present(d, s)
    PROVE  LET e == Process(d, s, ref)
           IN  e \in Devices /\ SameObjects(d, e) /\ SameLinks(d, e)
<1>1. CASE Process(d, s, ref) = d
  BY <1>1, SameSelf
<1>2. CASE Process(d, s, ref) # d
  <2>1. PICK i \in 1..Len(d.pending) :
              d.pending[i].msg_cnt = ref /\ Process(d, s, ref) = Answered(d, s, i)
    BY <1>2, ProcessCases
  <2> DEFINE p == d.pending[i]
             c == Fired(d, s, p)
             z == RemoveAt(c.pending, i)
             x == IF p.ski = s THEN c.crossed ELSE c.crossed \cup {p.ski}
  <2>2. p \in Pendings
    BY ElementOfSeq DEF Devices, Pendings
  <2>3. c \in Devices /\ SameObjects(d, c) /\ SameLinks(d, c) /\ Len(c.pending) >= Len(d.pending)
    BY <2>2, FiredFields
  <2>4. Process(d, s, ref) = [c EXCEPT !.pending = z, !.crossed = x]
    BY <2>1 DEF Answered
  <2> HIDE DEF c, p
  <2>5. c.pending \in Seq(Pendings) /\ i \in 1..Len(c.pending) /\ c.crossed \in SUBSET Skis
    <3>1. c.pending \in Seq(Pendings) /\ d.pending \in Seq(Pendings) /\ c.crossed \in SUBSET Skis
      BY <2>3 DEF Devices, Pendings
    <3> QED
      BY <2>3, <3>1, LenProperties
  <2>6. z \in Seq(Pendings)
    BY <2>5, RemoveAtFields
  <2>7. x \in SUBSET Skis
    BY <2>2, <2>5 DEF Pendings
  <2> HIDE DEF z, x
  <2> DEFINE e == [c EXCEPT !.pending = z, !.crossed = x]
  <2>8. e \in Devices /\ SameObjects(c, e) /\ SameLinks(c, e)
    BY <2>3, <2>6, <2>7, PendingFields
  <2> HIDE DEF e
  <2> QED
    BY <2>3, <2>4, <2>8, SameTwice DEF SameLinks, e
<1> QED
  BY <1>1, <1>2

(* A pending reply whose time is over: it is dropped, or asked for again.  *)
LEMMA RetryFields ==
    ASSUME NEW d \in Devices, NEW p \in Pendings
    PROVE  LET e == Retry(d, p)
           IN  /\ e \in Devices /\ SameObjects(d, e) /\ SameLinks(d, e)
               /\ e.crossed = d.crossed /\ e.subscriptions = d.subscriptions
<1>1. CASE Present(d, p.ski)
  <2>1. p.ski \in Skis /\ p.kind \in Kinds
    BY DEF Pendings
  <2>2. Retry(d, p) = Request(d, p.ski, p.kind)
    BY <1>1 DEF Retry
  <2> DEFINE e == Request(d, p.ski, p.kind)
  <2>3. /\ e \in Devices /\ SameObjects(d, e) /\ SameLinks(d, e)
        /\ e.crossed = d.crossed /\ e.subscriptions = d.subscriptions
    BY <1>1, <2>1, RequestFields
  <2> HIDE DEF e
  <2> QED
    BY <2>2, <2>3 DEF e
<1>2. CASE ~Present(d, p.ski)
  BY <1>2, SameSelf DEF Retry
<1> QED
  BY <1>1, <1>2

(* Tick as a loop over the replies that have expired.                      *)
LEMMA TickLoop ==
    ASSUME NEW d \in Devices, NEW n \in 0..Len(d.pending)
    PROVE  \E f \in [0..n -> Devices] :
              /\ f[0] = d
              /\ \A i \in 1..n : f[i] = Retry(f[i - 1], d.pending[n + 1 - i])
              /\ Tick(d, n) = [f[n] EXCEPT !.pending = SubSeq(@, n + 1, Len(@))]
<1> DEFINE S == Devices
           step == [i \in 1..n |-> [x \in S |-> Retry(x, d.pending[n + 1 - i])]]
<1>1. n \in Nat /\ Len(d.pending) \in Nat /\ d.pending \in Seq(Pendings)
  BY LenProperties DEF Devices, Pendings
<1>2. Steps(step, n, S)
  <2> SUFFICES ASSUME NEW i \in 1..n, NEW x \in S
               PROVE  Retry(x, d.pending[n + 1 - i]) \in S
    BY <1>1 DEF Steps
  <2>1. n + 1 - i \in 1..Len(d.pending)
    BY <1>1
  <2>2. d.pending[n + 1 - i] \in Pendings
    BY <1>1, <2>1, ElementOfSeq
  <2> QED
    BY <2>2, RetryFields
<1>3. PICK f : Loop(f, n, S, d, step)
  <2>1. d \in S
    OBVIOUS
  <2> HIDE DEF step, S
  <2> QED
    BY <1>2, <2>1, LoopExists
<1>4. \A i \in 1..n : f[i] = Retry(f[i - 1], d.pending[n + 1 - i])
  <2> TAKE i \in 1..n
  <2>1. i - 1 \in 0..n
    BY <1>1
  <2>2. f[i - 1] \in S
    BY <1>3, <2>1 DEF Loop
  <2> HIDE DEF S
  <2> QED
    BY <1>3, <2>2 DEF Loop
<1> DEFINE Is(g) == g = [i \in 0..n |-> IF i = 0 THEN d ELSE Retry(g[i - 1], d.pending[n + 1 - i])]
           k == CHOOSE g : Is(g)
<1>5. Is(f)
  <2>1. \A i \in 0..n : i = 0 \/ i \in 1..n
    BY <1>1
  <2>2. \A i \in 0..n : f[i] = IF i = 0 THEN d ELSE Retry(f[i - 1], d.pending[n + 1 - i])
    BY <1>3, <1>4, <2>1 DEF Loop
  <2> QED
    BY <1>3, <2>2 DEF Loop
<1>6. Is(k)
  <2> HIDE DEF Is
  <2> QED
    BY <1>5
<1>7. Tick(d, n) = [k[n] EXCEPT !.pending = SubSeq(@, n + 1, Len(@))]
  BY DEF Tick
<1> HIDE DEF k
<1>8. k[0] = f[0]
  <2>1. 0 \in 0..n
    BY <1>1
  <2> QED
    BY <1>3, <1>6, <2>1 DEF Loop
<1>9. \A i \in 1..n : k[i - 1] = f[i - 1] => k[i] = f[i]
  <2> TAKE i \in 1..n
  <2>1. i \in 0..n /\ i # 0
    BY <1>1
  <2> QED
    BY <1>4, <1>6, <2>1
<1>10. Alike(k, f, n)
  BY <1>8, <1>9 DEF Alike
<1>11. k[n] = f[n]
  BY <1>1, <1>10, LoopUnique
<1> QED
  BY <1>3, <1>4, <1>7, <1>11 DEF Loop

(* The timer of the pending replies, which goes through all of them.       *)
LEMMA TickFields ==
    ASSUME NEW d \in Devices, NEW n \in 0..Len(d.pending)
    PROVE  LET e == Tick(d, n)
           IN  e \in Devices /\ SameObjects(d, e) /\ SameLinks(d, e)
<1>1. PICK f \in [0..n -> Devices] :
              /\ f[0] = d
              /\ \A i \in 1..n : f[i] = Retry(f[i - 1], d.pending[n + 1 - i])
              /\ Tick(d, n) = [f[n] EXCEPT !.pending = SubSeq(@, n + 1, Len(@))]
  BY TickLoop
<1>2. n \in Nat /\ n <= Len(d.pending) /\ Len(d.pending) \in Nat /\ d.pending \in Seq(Pendings)
  BY LenProperties DEF Devices, Pendings
<1> DEFINE P(i) == SameObjects(d, f[i]) /\ SameLinks(d, f[i]) /\ f[i].crossed = d.crossed
           T == {i \in Nat : i <= n => P(i)}
<1>3. 0 \in T
  BY <1>1, SameSelf
<1>4. ASSUME NEW m \in Nat, m \in T PROVE m + 1 \in T
  <2> SUFFICES ASSUME m + 1 <= n PROVE P(m + 1)
    OBVIOUS
  <2>1. m \in 0..n /\ m + 1 \in 1..n /\ (m + 1) - 1 = m /\ n + 1 - (m + 1) \in 1..Len(d.pending)
    BY <1>2
  <2>2. P(m)
    BY <1>2, <1>4, <2>1
  <2> DEFINE p == d.pending[n + 1 - (m + 1)]
             c == f[m]
             e == f[m + 1]
  <2>3. c \in Devices /\ e = Retry(c, p)
    BY <1>1, <2>1
  <2>4. p \in Pendings
    BY <1>2, <2>1, ElementOfSeq
  <2> HIDE DEF p
  <2>5. /\ e \in Devices /\ SameObjects(c, e) /\ SameLinks(c, e) /\ e.crossed = c.crossed
    BY <2>3, <2>4, RetryFields
  <2> HIDE DEF c, e
  <2>6. SameObjects(d, c) /\ SameLinks(d, c) /\ c.crossed = d.crossed
    BY <2>2 DEF c
  <2>7. SameObjects(d, e) /\ SameLinks(d, e) /\ e.crossed = d.crossed
    BY <2>3, <2>5, <2>6, SameTwice DEF SameLinks
  <2> QED
    BY <2>7 DEF e
<1>5. n \in T
  <2> HIDE DEF T
  <2> QED
    BY <1>2, <1>3, <1>4, SetInduction
<1> DEFINE c == f[n]
           z == SubSeq(c.pending, n + 1, Len(c.pending))
<1>6. SameObjects(d, c) /\ SameLinks(d, c) /\ c.crossed = d.crossed /\ c \in Devices
  BY <1>1, <1>2, <1>5
<1>7. Tick(d, n) = [c EXCEPT !.pending = z]
  BY <1>1
<1> HIDE DEF c
<1>8. z \in Seq(Pendings) /\ c.crossed \in SUBSET Skis
  <2>1. c.pending \in Seq(Pendings) /\ c.crossed \in SUBSET Skis
    BY <1>6 DEF Devices, Pendings
  <2> QED
    BY <1>2, <2>1, SubSeqProperties
<1> HIDE DEF z
<1>9. [c EXCEPT !.pending = z] = [c EXCEPT !.pending = z, !.crossed = c.crossed]
  BY <1>6 DEF Devices
<1> DEFINE e == [c EXCEPT !.pending = z, !.crossed = c.crossed]
<1>10. e \in Devices /\ SameObjects(c, e) /\ SameLinks(c, e)
  BY <1>6, <1>8, PendingFields
<1>11. Tick(d, n) = e
  BY <1>7, <1>9
<1> HIDE DEF e
<1> QED
  BY <1>6, <1>10, <1>11, SameTwice DEF SameLinks

(* A notification goes to every subscriber: messages are sent, nothing     *)
(* else changes.                                                           *)
LEMMA PublishFields ==
    ASSUME NEW d \in Devices, NEW f \in Features, IsFiniteSet(d.links["subscription"])
    PROVE  LET e == Publish(d, f)
           IN  /\ e \in Devices /\ SameObjects(d, e) /\ SameLinks(d, e)
               /\ e.pending = d.pending /\ e.asked = d.asked /\ e.crossed = d.crossed
               /\ e.subscriptions = d.subscriptions
<1> DEFINE Subscribers(s) == {l \in d.links["subscription"] \ Dangling(d) : l.server = f /\ l.client.ski = s}
           Told(s) == [d.remotes[s] EXCEPT !.msg_num = @ + Cardinality(Subscribers(s))]
           r == [s \in Skis |-> IF Present(d, s) THEN Told(s) ELSE None]
           e == [d EXCEPT !.remotes = r]
<1>1. ASSUME NEW s \in Skis, Present(d, s)
      PROVE  /\ Told(s) \in Remotes /\ Told(s) # None
             /\ Told(s).ptr = d.remotes[s].ptr /\ Told(s).inc = d.remotes[s].inc
             /\ Told(s).address = d.remotes[s].address /\ Told(s).entity = d.remotes[s].entity
             /\ Told(s).msg_num >= d.remotes[s].msg_num
  <2>1. Subscribers(s) \subseteq d.links["subscription"]
    OBVIOUS
  <2> DEFINE c == Cardinality(Subscribers(s))
  <2>2. c \in Nat
    BY <2>1, FS_Subset, FS_CardinalityType
  <2>3. d.remotes[s] \in Remotes
    BY <1>1 DEF Devices, Present
  <2> HIDE DEF c
  <2>4. [d.remotes[s] EXCEPT !.msg_num = @ + c] \in Remotes
    BY <2>2, <2>3 DEF Remotes
  <2>5. d.remotes[s].msg_num \in Nat
    BY <2>3 DEF Remotes
  <2> QED
    BY <2>2, <2>3, <2>4, <2>5, NoneAssumption DEF Remotes, c
<1> HIDE DEF Told
<1>2. r \in [Skis -> Remotes \cup {None}]
  BY <1>1
<1>3. SameObjects(d, e)
  <2>1. e.remotes = r
    BY DEF Devices
  <2> HIDE DEF e
  <2> QED
    BY <1>1, <2>1 DEF SameObjects, SamePeers, SameFeatures, Present
<1>4. Publish(d, f) = e
  BY DEF Publish, Told
<1> HIDE DEF r
<1>5. e \in Devices
  BY <1>2 DEF Devices
<1>6. /\ e.links = d.links /\ e.num = d.num /\ e.granted = d.granted
      /\ e.pending = d.pending /\ e.asked = d.asked /\ e.crossed = d.crossed
      /\ e.subscriptions = d.subscriptions
  BY DEF Devices
<1> HIDE DEF e
<1> QED
  BY <1>3, <1>4, <1>5, <1>6 DEF SameLinks

(* The entity of feature f and the links of table t after a rebuilding.    *)
Entity(d, s, from, fs, f) ==
    LET x == d.remotes[s].entity[f]
    IN  IF f \notin fs THEN x
        ELSE [device |-> IF x.device = None THEN from ELSE x.device, gen |-> x.gen + 1]

Marked(l, old) == [l EXCEPT !.lost = @ \/ l.client \in old]

Old(d, s, fs) == {Feature(d, s, f) : f \in fs}

Rebuilt(d, e, s, from, fs) ==
    /\ e \in Devices /\ SamePeers(d, e)
    /\ \A t \in Skis : t # s => e.remotes[t] = d.remotes[t]
    /\ e.remotes[s].address = from
    /\ \A f \in Features : e.remotes[s].entity[f] = Entity(d, s, from, fs, f)
    /\ \A t \in Tables : e.links[t] = {Marked(l, Old(d, s, fs)) : l \in d.links[t]}
    /\ e.num = d.num /\ e.granted = d.granted
    /\ e.pending = d.pending /\ e.asked = d.asked /\ e.crossed = d.crossed
    /\ e.subscriptions = d.subscriptions

(* Detailed discovery builds the entities of the device anew.              *)
LEMMA RebuildFields ==
    ASSUME NEW d \in Devices, NEW s \in Skis, NEW from \in Skis, NEW fs \in SUBSET Features, Present(d, s)
    PROVE  Rebuilt(d, Rebuild(d, s, from, fs), s, from, fs)
<1> DEFINE old == Old(d, s, fs)
           x == [f \in Features |-> Entity(d, s, from, fs, f)]
           k == [t \in Tables |-> {Marked(l, old) : l \in d.links[t]}]
           r == [d.remotes[s] EXCEPT !.address = from, !.entity = x]
           e == [d EXCEPT !.remotes[s] = r, !.links = k]
<1>1. d.remotes[s] \in Remotes /\ d.remotes \in [Skis -> Remotes \cup {None}]
  BY DEF Devices, Present
<1>2. x \in [Features -> [device : Addresses, gen : Nat]]
  BY <1>1 DEF Remotes, Addresses, Entity
<1>3. k \in [Tables -> SUBSET Links]
  <2> HIDE DEF old
  <2>1. \A t \in Tables : \A l \in d.links[t] : Marked(l, old) \in Links
    <3> SUFFICES ASSUME NEW t \in Tables, NEW l \in d.links[t] PROVE Marked(l, old) \in Links
      OBVIOUS
    <3>1. l \in Links
      BY DEF Devices
    <3> QED
      BY <3>1 DEF Links, Marked
  <2> QED
    BY <2>1
<1>4. Rebuild(d, s, from, fs) = e
  <2> HIDE DEF x, k
  <2>1. Rebuild(d, s, from, fs) = [d EXCEPT !.remotes[s].address = from, !.remotes[s].entity = x, !.links = k]
    BY DEF Rebuild, Entity, Marked, Old, x, k
  <2> QED
    BY <1>1, <2>1 DEF Devices, Remotes
<1> HIDE DEF x, k
<1>5. r \in Remotes /\ r # None
  BY <1>1, <1>2, NoneAssumption DEF Remotes, Addresses
<1>6. /\ r.address = from /\ r.entity = x /\ r.ptr = d.remotes[s].ptr /\ r.inc = d.remotes[s].inc
      /\ r.msg_num = d.remotes[s].msg_num
  BY <1>1 DEF Remotes
<1> HIDE DEF r
<1>7. [d.remotes EXCEPT ![s] = r] \in [Skis -> Remotes \cup {None}]
  BY <1>1, <1>5
<1>8. e \in Devices
  BY <1>3, <1>7 DEF Devices
<1>9. /\ e.remotes = [d.remotes EXCEPT ![s] = r] /\ e.links = k /\ e.num = d.num /\ e.granted = d.granted
      /\ e.pending = d.pending /\ e.asked = d.asked /\ e.crossed = d.crossed
      /\ e.subscriptions = d.subscriptions
  BY DEF Devices
<1> HIDE DEF e
<1>10. SamePeers(d, e)
  <2>1. \A t \in Skis : Present(d, t) => d.remotes[t].msg_num \in Nat
    BY DEF Devices, Present, Remotes
  <2> QED
    BY <1>1, <1>5, <1>6, <1>9, <2>1 DEF SamePeers, Present
<1>11. /\ \A f \in Features : x[f] = Entity(d, s, from, fs, f)
       /\ \A t \in Tables : k[t] = {Marked(l, old) : l \in d.links[t]}
  BY DEF x, k
<1> HIDE DEF old
<1>12. (\A t \in Skis : t # s => e.remotes[t] = d.remotes[t]) /\ e.remotes[s] = r
  BY <1>1, <1>9
<1> QED
  BY <1>4, <1>6, <1>8, <1>9, <1>10, <1>11, <1>12 DEF Rebuilt, old

(* The calls of a peer's node management.                                  *)
Calls ==
    [type : {"request", "delete"}, table : Tables, server : Features, client : Features, part : Parts,
     device : Addresses]

NewLink(d, t, s, req) ==
    [table |-> t, id |-> d.num[t], server |-> req.server, client |-> Feature(d, s, req.client), lost |-> FALSE,
     full |-> Full(d, t, s, req)]

(* AddLink does nothing, or adds one link to a feature that is there and   *)
(* tells the peer.                                                         *)
Linked(d, e, t, s, req) ==
    /\ e \in Devices /\ SameObjects(d, e)
    /\ e.remotes[s].msg_num = d.remotes[s].msg_num + 1
    /\ e.links = [d.links EXCEPT ![t] = @ \cup {NewLink(d, t, s, req)}]
    /\ e.num = [d.num EXCEPT ![t] = @ + 1]
    /\ e.granted = d.granted
    /\ e.pending = d.pending /\ e.asked = d.asked /\ e.crossed = d.crossed
    /\ e.subscriptions = d.subscriptions

(* A call that adds a subscription or binding adds the one link it asks    *)
(* for or changes nothing.                                                 *)
LEMMA AddLinkFields ==
    ASSUME NEW d \in Devices, NEW t \in Tables, NEW s \in Skis, NEW req \in Calls, NEW there \in BOOLEAN,
           Present(d, s)
    PROVE  \/ AddLink(d, t, s, req, there) = d
           \/ /\ Linked(d, AddLink(d, t, s, req, there), t, s, req)
              /\ Exists(d, s, req.client) /\ req.client = req.server /\ ~there
              /\ NewLink(d, t, s, req) \in Links
<1> SUFFICES ASSUME ParametersMatch(d, s, req), ~there
             PROVE  /\ Linked(d, AddLink(d, t, s, req, there), t, s, req)
                    /\ NewLink(d, t, s, req) \in Links
  BY DEF AddLink, ParametersMatch
<1> DEFINE l == NewLink(d, t, s, req)
           k == [d.links EXCEPT ![t] = @ \cup {l}]
           n == [d.num EXCEPT ![t] = @ + 1]
           c == [d EXCEPT !.links = k, !.num = n]
<1>1. l \in Links
  <2>1. d.remotes[s] \in Remotes /\ req.client \in Features /\ req.server \in Features /\ d.num[t] \in Nat
    BY DEF Devices, Present, Calls
  <2>2. Feature(d, s, req.client) \in Objects
    BY <2>1 DEF Feature, Objects, Remotes, ParametersMatch, Exists
  <2>3. Full(d, t, s, req) \in BOOLEAN
    BY DeviceAssumption DEF Full, Calls
  <2> QED
    BY <2>1, <2>2, <2>3 DEF NewLink, Links
<1>2. AddLink(d, t, s, req, there) = Send(c, s)
  <2>1. [d EXCEPT !.links[t] = @ \cup {l}, !.num[t] = @ + 1] = c
    BY DEF Devices
  <2> QED
    BY <2>1 DEF AddLink, NewLink
<1> HIDE DEF l
<1>3. k \in [Tables -> SUBSET Links] /\ n \in [Tables -> Nat]
  BY <1>1 DEF Devices
<1> HIDE DEF k, n
<1>4. c \in Devices
  BY <1>3 DEF Devices
<1>5. /\ c.remotes = d.remotes /\ c.links = k /\ c.num = n /\ c.granted = d.granted
      /\ c.pending = d.pending /\ c.asked = d.asked /\ c.crossed = d.crossed
      /\ c.subscriptions = d.subscriptions
  BY DEF Devices
<1> HIDE DEF c
<1>6. Present(c, s)
  BY <1>5 DEF Present
<1> DEFINE e == Send(c, s)
<1>7. /\ e \in Devices /\ SameObjects(c, e) /\ SameLinks(c, e)
      /\ e.remotes[s].msg_num = c.remotes[s].msg_num + 1
      /\ e.pending = c.pending /\ e.asked = c.asked /\ e.crossed = c.crossed
      /\ e.subscriptions = c.subscriptions
  BY <1>4, <1>6, SendFields
<1> HIDE DEF e
<1>8. SameObjects(d, e)
  BY <1>5, <1>7 DEF SameObjects, SamePeers, SameFeatures, Present
<1>9. Linked(d, e, t, s, req)
  BY <1>5, <1>7, <1>8 DEF Linked, SameLinks, k, n, l
<1> QED
  BY <1>1, <1>2, <1>9 DEF e, l

(* RemoveLink does nothing, or removes one of the links that it finds and  *)
(* tells the peer.                                                         *)
Unlinked(d, e, t, s, link) ==
    /\ e \in Devices /\ SameObjects(d, e)
    /\ e.remotes[s].msg_num = d.remotes[s].msg_num + 1
    /\ e.links = [d.links EXCEPT ![t] = @ \ {link}]
    /\ e.num = d.num /\ e.granted = d.granted
    /\ e.pending = d.pending /\ e.asked = d.asked /\ e.crossed = d.crossed
    /\ e.subscriptions = d.subscriptions

Filled(d, s, req) == IF req.device = None THEN d.remotes[s].address ELSE req.device

(* A call that removes one removes a link that matches it or changes       *)
(* nothing.                                                                *)
LEMMA RemoveLinkFields ==
    ASSUME NEW d \in Devices, NEW t \in Tables, NEW s \in Skis, NEW req \in Calls, NEW ub, Present(d, s)
    PROVE  \/ RemoveLink(d, t, s, req, ub) = d
           \/ \E link \in Find(d, t, req.server, Address(Filled(d, s, req), req.client), ub) :
                 Unlinked(d, RemoveLink(d, t, s, req, ub), t, s, link)
<1> DEFINE found == Find(d, t, req.server, Address(Filled(d, s, req), req.client), ub)
           link == CHOOSE l \in found : \A m \in found : l.id <= m.id
<1> SUFFICES ASSUME Exists(d, s, req.client), found # {}
             PROVE  \E l \in found : Unlinked(d, RemoveLink(d, t, s, req, ub), t, s, l)
  BY DEF RemoveLink, Filled
<1>1. found \subseteq d.links[t] /\ d.links[t] \subseteq Links
  BY DEF Find, Devices
<1>2. RemoveLink(d, t, s, req, ub) = Send([d EXCEPT !.links[t] = @ \ {link}], s)
  BY DEF RemoveLink, Filled
<1>3. link \in found
  <2> HIDE DEF found
  <2> DEFINE ids == {l.id : l \in found}
  <2>1. ids \in SUBSET Nat /\ ids # {}
    BY <1>1 DEF Links
  <2>2. PICK m \in ids : \A n \in ids : m <= n
    <3> HIDE DEF ids
    <3> QED
      BY <2>1, LeastNumber
  <2>3. \E l \in found : \A m2 \in found : l.id <= m2.id
    BY <2>2
  <2> QED
    BY <2>3
<1> HIDE DEF link
<1> DEFINE k == [d.links EXCEPT ![t] = @ \ {link}]
           c == [d EXCEPT !.links = k]
<1>4. [d EXCEPT !.links[t] = @ \ {link}] = c
  BY DEF Devices
<1>5. k \in [Tables -> SUBSET Links]
  BY DEF Devices
<1> HIDE DEF k
<1>6. c \in Devices
  BY <1>5 DEF Devices
<1>7. /\ c.remotes = d.remotes /\ c.links = k /\ c.num = d.num /\ c.granted = d.granted
      /\ c.pending = d.pending /\ c.asked = d.asked /\ c.crossed = d.crossed
      /\ c.subscriptions = d.subscriptions
  BY DEF Devices
<1> HIDE DEF c
<1>8. Present(c, s)
  BY <1>7 DEF Present
<1> DEFINE e == Send(c, s)
<1>9. /\ e \in Devices /\ SameObjects(c, e) /\ SameLinks(c, e)
      /\ e.remotes[s].msg_num = c.remotes[s].msg_num + 1
      /\ e.pending = c.pending /\ e.asked = c.asked /\ e.crossed = c.crossed
      /\ e.subscriptions = c.subscriptions
  BY <1>6, <1>8, SendFields
<1> HIDE DEF e
<1>10. SameObjects(d, e)
  BY <1>7, <1>9 DEF SameObjects, SamePeers, SameFeatures, Present
<1>11. Unlinked(d, e, t, s, link)
  BY <1>7, <1>9, <1>10 DEF Unlinked, SameLinks, k
<1>12. RemoveLink(d, t, s, req, ub) = e
  BY <1>2, <1>4 DEF e
<1> HIDE DEF found
<1> QED
  BY <1>3, <1>11, <1>12

(* What is left when the remote device of s is removed: of the links whose *)
(* object is there those that do not match its entities.                   *)
Removed(d, e, s) ==
    /\ e \in Devices
    /\ e.remotes = [d.remotes EXCEPT ![s] = None]
    /\ \A t \in Tables :
          /\ e.links[t] \subseteq d.links[t]
          /\ \A l \in d.links[t] : Alive(d, l.client) => (l \in e.links[t] <=> ~EntityMatch(d, s, l.client))
    /\ e.num = d.num
    /\ e.granted = {g \in d.granted : g.ski # s}
    /\ e.pending = Without(d.pending, s)
    /\ e.asked = [d.asked EXCEPT ![s] = {}]
    /\ e.crossed = d.crossed \ {s}
    /\ e.subscriptions = d.subscriptions \ {d.remotes[s].address}

(* The removal of a remote device takes its links and its pending replies  *)
(* along.                                                                  *)
LEMMA RemoveFields ==
    ASSUME NEW d \in Devices, NEW s \in Skis, NEW ub, Present(d, s)
    PROVE  Removed(d, RemoveRemoteDevice(d, s, ub), s)
<1> DEFINE k1 == d.links["subscription"] \ LinksOf(d, "subscription", s, ub)
           d1 == [d EXCEPT !.links["subscription"] = k1]
           k2 == d.links["binding"] \ LinksOf(d1, "binding", s, ub)
           k == [t \in Tables |-> IF t = "binding" THEN k2 ELSE k1]
           w == Without(d.pending, s)
           e == [d EXCEPT !.remotes = [d.remotes EXCEPT ![s] = None], !.links = k,
                          !.granted = {g \in d.granted : g.ski # s},
                          !.pending = w,
                          !.subscriptions = d.subscriptions \ {d.remotes[s].address},
                          !.asked = [d.asked EXCEPT ![s] = {}],
                          !.crossed = d.crossed \ {s}]
<1>1. Tables = {"binding", "subscription"} /\ "binding" # "subscription"
  BY DEF Tables
<1>2. \A t \in Tables : d.links[t] \in SUBSET Links
  BY DEF Devices
<1>3. /\ d1.remotes = d.remotes /\ d1.links["subscription"] = k1 /\ d1.links["binding"] = d.links["binding"]
      /\ k1 \subseteq d.links["subscription"]
  BY <1>1 DEF Devices
<1>4. RemoveDeviceSubscriptions(d, s, ub) = d1
  BY DEF RemoveDeviceSubscriptions
<1>5. \A l \in d.links["subscription"] : Alive(d, l.client) => (l \in k1 <=> ~EntityMatch(d, s, l.client))
  BY <1>1 DEF LinksOf
<1>6. \A l \in d.links["binding"] : Alive(d, l.client) => (l \in k2 <=> ~EntityMatch(d, s, l.client))
  <2>1. \A c : Alive(d1, c) <=> Alive(d, c)
    BY <1>3 DEF Alive, Present, Feature
  <2>2. \A c : EntityMatch(d1, s, c) <=> EntityMatch(d, s, c)
    BY <1>3 DEF EntityMatch, Exists
  <2> HIDE DEF d1
  <2> QED
    BY <1>3, <2>1, <2>2 DEF LinksOf
<1>7. w \in Seq(Pendings)
  <2>1. d.pending \in Seq(Pendings)
    BY DEF Devices, Pendings
  <2> QED
    BY <2>1, WithoutFields
<1>8. k2 \subseteq d.links["binding"]
  OBVIOUS
<1>9. RemoveRemoteDevice(d, s, ub) = e
  <2> DEFINE d2 == [d1 EXCEPT !.links["binding"] = @ \ LinksOf(d1, "binding", s, ub),
                              !.granted = {g \in @ : g.ski # s}]
             d3 == [d2 EXCEPT !.subscriptions = @ \ {d2.remotes[s].address}, !.pending = Without(@, s)]
  <2>1. RemoveRemoteDevice(d, s, ub) = [d3 EXCEPT !.remotes[s] = None, !.asked[s] = {}, !.crossed = @ \ {s}]
    BY <1>4 DEF RemoveRemoteDevice, RemoveDeviceBindings, CleanCaches
  <2> HIDE DEF k1, w
  <2>2. d1 = [d EXCEPT !.links = [@ EXCEPT !["subscription"] = k1]]
    BY DEF Devices
  <2>3. d1.links["binding"] \ LinksOf(d1, "binding", s, ub) = k2
    BY <1>3
  <2>4. d2 = [d1 EXCEPT !.links = [d1.links EXCEPT !["binding"] = k2],
                        !.granted = {g \in d.granted : g.ski # s}]
    BY <2>3 DEF Devices
  <2> HIDE DEF k2
  <2>5. [d1.links EXCEPT !["binding"] = k2] = k
    <3>1. d1.links = [d.links EXCEPT !["subscription"] = k1]
      BY DEF Devices
    <3>2. d.links \in [Tables -> SUBSET Links]
      BY DEF Devices
    <3> HIDE DEF d1
    <3> QED
      BY <1>1, <3>1, <3>2
  <2> HIDE DEF k
  <2>6. d2 = [d EXCEPT !.links = k, !.granted = {g \in d.granted : g.ski # s}]
    <3> HIDE DEF d2
    <3> QED
      BY <2>4, <2>5 DEF Devices
  <2> HIDE DEF d1
  <2>7. d3 = [d EXCEPT !.links = k, !.granted = {g \in d.granted : g.ski # s},
                       !.pending = w,
                       !.subscriptions = d.subscriptions \ {d.remotes[s].address}]
    <3> HIDE DEF d2
    <3> QED
      BY <2>6 DEF Devices, w
  <2> HIDE DEF d2, d3
  <2> QED
    BY <2>1, <2>7 DEF Devices
<1> HIDE DEF w, k1, k2
<1>10. k \in [Tables -> SUBSET Links] /\ k["binding"] = k2 /\ k["subscription"] = k1
  BY <1>1, <1>2, <1>3, <1>8
<1> HIDE DEF k
<1>11. [d.remotes EXCEPT ![s] = None] \in [Skis -> Remotes \cup {None}]
  BY DEF Devices
<1>12. [d.asked EXCEPT ![s] = {}] \in [Skis -> SUBSET Reads]
  BY DEF Devices
<1>13. e \in Devices
  BY <1>7, <1>10, <1>11, <1>12 DEF Devices, Pendings
<1>14. /\ e.remotes = [d.remotes EXCEPT ![s] = None]
       /\ e.links = k /\ e.num = d.num
       /\ e.granted = {g \in d.granted : g.ski # s}
       /\ e.pending = w
       /\ e.asked = [d.asked EXCEPT ![s] = {}]
       /\ e.crossed = d.crossed \ {s}
       /\ e.subscriptions = d.subscriptions \ {d.remotes[s].address}
  BY DEF Devices
<1> HIDE DEF e
<1>15. \A t \in Tables :
          /\ e.links[t] \subseteq d.links[t]
          /\ \A l \in d.links[t] : Alive(d, l.client) => (l \in e.links[t] <=> ~EntityMatch(d, s, l.client))
  BY <1>1, <1>3, <1>5, <1>6, <1>8, <1>10, <1>14
<1> QED
  BY <1>9, <1>13, <1>14, <1>15 DEF Removed, w

(* A new remote device.                                                    *)
Added(c, b, s, p) ==
    /\ b \in Devices
    /\ b.remotes = [c.remotes EXCEPT ![s] = NewDevice(p)]
    /\ b.links = c.links /\ b.num = c.num /\ b.granted = c.granted
    /\ b.pending = c.pending /\ b.asked = c.asked /\ b.crossed = c.crossed
    /\ b.subscriptions = c.subscriptions

(* A device that is new has no address and no entities yet.                *)
LEMMA NewFields ==
    ASSUME NEW c \in Devices, NEW s \in Skis, NEW p \in Ptrs, count.connects \in 0..(MaxConnects - 1)
    PROVE  /\ NewDevice(p) \in Remotes /\ NewDevice(p) # None
           /\ Added(c, [c EXCEPT !.remotes[s] = NewDevice(p)], s, p)
<1> DEFINE r == NewDevice(p)
           b == [c EXCEPT !.remotes[s] = r]
<1>1. r \in Remotes /\ r # None
  <2>1. MaxConnects \in Nat
    BY DeviceAssumption
  <2>2. count.connects + 1 \in 1..MaxConnects
    BY <2>1
  <2> QED
    BY <2>2, NoneAssumption DEF NewDevice, Remotes, Addresses
<1> HIDE DEF r
<1>2. [c.remotes EXCEPT ![s] = r] \in [Skis -> Remotes \cup {None}]
  BY <1>1 DEF Devices
<1>3. b \in Devices
  BY <1>2 DEF Devices
<1>4. /\ b.remotes = [c.remotes EXCEPT ![s] = r]
      /\ b.links = c.links /\ b.num = c.num /\ b.granted = c.granted
      /\ b.pending = c.pending /\ b.asked = c.asked /\ b.crossed = c.crossed
      /\ b.subscriptions = c.subscriptions
  BY DEF Devices
<1> QED
  BY <1>1, <1>3, <1>4 DEF Added, r

-----------------------------------------------------------------------------
(* Remote devices and links, whatever addresses malloc reuses.             *)

Peers(d) ==
    /\ \A s, t \in Skis : Present(d, s) /\ Present(d, t) /\ s # t => d.remotes[s].ptr # d.remotes[t].ptr
    /\ \A s \in Skis : Present(d, s) => Exists(d, s, "NodeManagement")

LinkInv(d) ==
    \A t \in Tables :
        /\ IsFiniteSet(d.links[t])
        /\ \A l \in d.links[t] : l.table = t /\ l.id < d.num[t] /\ (l.lost \/ Alive(d, l.client))

DeviceInv(d) == d \in Devices /\ Peers(d) /\ LinkInv(d)

(* Feature objects that stay where they are keep their links alive.        *)
LEMMA AliveKept ==
    ASSUME NEW d \in Devices, NEW e \in Devices, SameObjects(d, e)
    PROVE  /\ \A c \in Objects : Alive(d, c) <=> Alive(e, c)
           /\ \A s \in Skis, f \in Features : Present(d, s) => (Exists(d, s, f) <=> Exists(e, s, f))
           /\ Peers(d) => Peers(e)
<1>1. \A s \in Skis : /\ Present(e, s) <=> Present(d, s)
                      /\ Present(d, s) => /\ e.remotes[s].ptr = d.remotes[s].ptr
                                          /\ e.remotes[s].inc = d.remotes[s].inc
                                          /\ e.remotes[s].entity = d.remotes[s].entity
  BY DEF SameObjects, SamePeers, SameFeatures
<1>2. \A c \in Objects : c.ski \in Skis
  BY DEF Objects
<1>3. "NodeManagement" \in Features
  BY DEF Features
<1>4. \A c \in Objects : Alive(d, c) <=> Alive(e, c)
  BY <1>1, <1>2 DEF Alive, Feature
<1>5. \A s \in Skis, f \in Features : Present(d, s) => (Exists(d, s, f) <=> Exists(e, s, f))
  BY <1>1 DEF Exists
<1> QED
  BY <1>1, <1>3, <1>4, <1>5 DEF Peers

(* The types of the parts of a link.                                       *)
LEMMA LinkTypes ==
    ASSUME NEW d \in Devices
    PROVE  \A t \in Tables : \A l \in d.links[t] :
              /\ l \in Links /\ l.client \in Objects /\ l.client.ski \in Skis /\ l.client.feature \in Features
              /\ l.id \in Nat /\ d.num[t] \in Nat /\ l.server \in Features /\ l.lost \in BOOLEAN
<1> SUFFICES ASSUME NEW t \in Tables, NEW l \in d.links[t]
             PROVE  /\ l \in Links /\ l.client \in Objects /\ l.client.ski \in Skis /\ l.client.feature \in Features
                    /\ l.id \in Nat /\ d.num[t] \in Nat /\ l.server \in Features /\ l.lost \in BOOLEAN
  OBVIOUS
<1>1. l \in Links /\ d.num[t] \in Nat
  BY DEF Devices
<1>2. l.client \in Objects
  BY <1>1 DEF Links
<1> QED
  BY <1>1, <1>2 DEF Links, Objects

(* An operation that touches neither objects nor links keeps the           *)
(* invariant.                                                              *)
LEMMA QuietKeeps ==
    ASSUME NEW d, DeviceInv(d), NEW e \in Devices, SameObjects(d, e), SameLinks(d, e)
    PROVE  DeviceInv(e)
<1>1. d \in Devices /\ Peers(d) /\ LinkInv(d)
  BY DEF DeviceInv
<1>2. Peers(e) /\ \A c \in Objects : Alive(d, c) <=> Alive(e, c)
  BY <1>1, AliveKept
<1>3. LinkInv(e)
  BY <1>1, <1>2, LinkTypes DEF LinkInv, SameLinks
<1> QED
  BY <1>2, <1>3 DEF DeviceInv

(* So does the addition of a link to an object that is there,              *)
LEMMA LinkedKeeps ==
    ASSUME NEW d, DeviceInv(d), NEW e, NEW t \in Tables, NEW s \in Skis, NEW req \in Calls,
           Present(d, s), Exists(d, s, req.client), Linked(d, e, t, s, req), NewLink(d, t, s, req) \in Links
    PROVE  DeviceInv(e)
<1> DEFINE l == NewLink(d, t, s, req)
<1>1. d \in Devices /\ Peers(d) /\ LinkInv(d) /\ e \in Devices /\ SameObjects(d, e)
  BY DEF DeviceInv, Linked
<1>2. Peers(e) /\ \A c \in Objects : Alive(d, c) <=> Alive(e, c)
  BY <1>1, AliveKept
<1>3. /\ l.table = t /\ l.id = d.num[t] /\ l.lost = FALSE /\ l.client = Feature(d, s, req.client)
      /\ l.client \in Objects
  BY DEF NewLink, Links
<1>4. Alive(d, l.client)
  BY <1>3 DEF Alive, Feature
<1>5. /\ e.links = [d.links EXCEPT ![t] = @ \cup {l}]
      /\ e.num = [d.num EXCEPT ![t] = @ + 1]
  BY DEF Linked
<1>6. d.links \in [Tables -> SUBSET Links] /\ d.num \in [Tables -> Nat]
  BY <1>1 DEF Devices
<1> HIDE DEF l
<1>7. ASSUME NEW u \in Tables PROVE IsFiniteSet(e.links[u])
  <2>1. IsFiniteSet(d.links[u])
    BY <1>1 DEF LinkInv
  <2>2. e.links[u] = d.links[u] \/ e.links[u] = d.links[u] \cup {l}
    BY <1>5, <1>6
  <2> QED
    BY <2>1, <2>2, FS_AddElement
<1>8. ASSUME NEW u \in Tables, NEW m \in e.links[u]
      PROVE  m.table = u /\ m.id < e.num[u] /\ (m.lost \/ Alive(e, m.client))
  <2>1. CASE m \in d.links[u]
    <3>1. m.table = u /\ m.id < d.num[u] /\ (m.lost \/ Alive(d, m.client))
      BY <1>1, <2>1 DEF LinkInv
    <3>2. m.client \in Objects /\ m.id \in Nat /\ d.num[u] \in Nat
      BY <1>1, <2>1, LinkTypes
    <3>3. e.num[u] = d.num[u] \/ e.num[u] = d.num[u] + 1
      BY <1>5, <1>6
    <3> QED
      BY <1>2, <3>1, <3>2, <3>3
  <2>2. CASE m \notin d.links[u]
    <3>1. u = t /\ m = l
      BY <1>5, <1>6, <2>2
    <3>2. e.num[t] = d.num[t] + 1 /\ d.num[t] \in Nat
      BY <1>5, <1>6
    <3> QED
      BY <1>2, <1>3, <1>4, <3>1, <3>2
  <2> QED
    BY <2>1, <2>2
<1> QED
  BY <1>1, <1>2, <1>7, <1>8 DEF DeviceInv, LinkInv

(* the removal of a link,                                                  *)
LEMMA UnlinkedKeeps ==
    ASSUME NEW d, DeviceInv(d), NEW e, NEW t \in Tables, NEW s \in Skis, NEW link, Unlinked(d, e, t, s, link)
    PROVE  DeviceInv(e)
<1>1. d \in Devices /\ Peers(d) /\ LinkInv(d) /\ e \in Devices /\ SameObjects(d, e)
  BY DEF DeviceInv, Unlinked
<1>2. Peers(e) /\ \A c \in Objects : Alive(d, c) <=> Alive(e, c)
  BY <1>1, AliveKept
<1>3. d.links \in [Tables -> SUBSET Links]
  BY <1>1 DEF Devices
<1>4. \A u \in Tables : e.links[u] \subseteq d.links[u] /\ e.num[u] = d.num[u]
  BY <1>3 DEF Unlinked
<1>5. \A u \in Tables : IsFiniteSet(e.links[u])
  BY <1>1, <1>4, FS_Subset DEF LinkInv
<1> QED
  BY <1>1, <1>2, <1>4, <1>5, LinkTypes DEF DeviceInv, LinkInv

(* new entities in the place of the old ones, whose links go first,        *)
LEMMA RebuildKeeps ==
    ASSUME NEW d, DeviceInv(d), NEW s \in Skis, NEW from \in Skis, NEW fs \in SUBSET Features,
           Present(d, s)
    PROVE  DeviceInv(Rebuild(d, s, from, fs))
<1> DEFINE e == Rebuild(d, s, from, fs)
           old == Old(d, s, fs)
<1>1. d \in Devices /\ Peers(d) /\ LinkInv(d)
  BY DEF DeviceInv
<1>2. /\ e \in Devices /\ SamePeers(d, e)
      /\ \A t \in Skis : t # s => e.remotes[t] = d.remotes[t]
      /\ \A f \in Features : e.remotes[s].entity[f] = Entity(d, s, from, fs, f)
      /\ \A t \in Tables : e.links[t] = {Marked(l, old) : l \in d.links[t]}
      /\ e.num = d.num
  BY <1>1, RebuildFields DEF Rebuilt
<1> HIDE DEF e
<1>3. \A f \in Features : f \notin fs => e.remotes[s].entity[f] = d.remotes[s].entity[f]
  BY <1>2 DEF Entity
<1>4. Peers(e)
  <2>1. "NodeManagement" \in Features
    BY DEF Features
  <2>2. d.remotes[s].entity["NodeManagement"].gen \in Nat
    BY <1>1, <2>1 DEF Devices, Remotes, Present
  <2>3. e.remotes[s].entity["NodeManagement"].gen # 0
    <3>1. CASE "NodeManagement" \in fs
      <4>1. e.remotes[s].entity["NodeManagement"].gen = d.remotes[s].entity["NodeManagement"].gen + 1
        <5>1. e.remotes[s].entity["NodeManagement"] = Entity(d, s, from, fs, "NodeManagement")
          BY <1>2, <2>1
        <5>2. Entity(d, s, from, fs, "NodeManagement").gen = d.remotes[s].entity["NodeManagement"].gen + 1
          BY <3>1 DEF Entity
        <5> QED
          BY <5>1, <5>2
      <4> QED
        BY <2>2, <4>1
    <3>2. CASE "NodeManagement" \notin fs
      BY <1>1, <1>3, <2>1, <3>2 DEF Peers, Exists
    <3> QED
      BY <3>1, <3>2
  <2> QED
    BY <1>1, <1>2, <2>3 DEF Peers, SamePeers, Exists
<1>5. ASSUME NEW c \in Objects, Alive(d, c), c \notin old PROVE Alive(e, c)
  <2>1. c.ski \in Skis /\ c.feature \in Features
    BY DEF Objects
  <2>2. CASE c.ski # s
    BY <1>2, <1>5, <2>1, <2>2 DEF Alive, Present, Feature
  <2>3. CASE c.ski = s
    <3>1. c = Feature(d, s, c.feature)
      BY <1>5, <2>3 DEF Alive
    <3>2. c.feature \notin fs
      BY <1>5, <3>1 DEF Old
    <3>3. e.remotes[s].entity[c.feature] = d.remotes[s].entity[c.feature] /\ e.remotes[s].inc = d.remotes[s].inc
      BY <1>2, <1>3, <2>1, <3>2 DEF SamePeers
    <3>4. Present(e, s)
      BY <1>2 DEF SamePeers
    <3>5. Feature(e, s, c.feature) = Feature(d, s, c.feature)
      BY <3>3 DEF Feature
    <3> QED
      BY <2>3, <3>1, <3>4, <3>5 DEF Alive
  <2> QED
    BY <2>2, <2>3
<1> HIDE DEF old
<1>6. ASSUME NEW t \in Tables PROVE IsFiniteSet(e.links[t])
  <2>1. IsFiniteSet(d.links[t])
    BY <1>1 DEF LinkInv
  <2> DEFINE F == [l \in d.links[t] |-> Marked(l, old)]
  <2>2. e.links[t] = {F[l] : l \in d.links[t]}
    <3>1. \A l \in d.links[t] : F[l] = Marked(l, old)
      OBVIOUS
    <3>2. e.links[t] = {Marked(l, old) : l \in d.links[t]}
      BY <1>2
    <3> HIDE DEF F
    <3> QED
      BY <3>1, <3>2
  <2>3. F \in Surjection(d.links[t], e.links[t])
    <3>1. F \in [d.links[t] -> e.links[t]]
      BY <2>2
    <3>2. \A m \in e.links[t] : \E l \in d.links[t] : F[l] = m
      BY <2>2
    <3> HIDE DEF F
    <3> QED
      BY <3>1, <3>2 DEF Surjection
  <2> HIDE DEF F
  <2> QED
    BY <2>1, <2>3, FS_Surjection
<1>7. ASSUME NEW t \in Tables, NEW m \in e.links[t]
      PROVE  m.table = t /\ m.id < e.num[t] /\ (m.lost \/ Alive(e, m.client))
  <2>1. PICK l \in d.links[t] : m = Marked(l, old)
    BY <1>2
  <2>2. l \in Links /\ l.client \in Objects
    BY <1>1, LinkTypes
  <2>3. m.table = l.table /\ m.id = l.id /\ m.client = l.client /\ (m.lost <=> l.lost \/ l.client \in old)
    BY <2>1, <2>2 DEF Marked, Links
  <2>4. l.table = t /\ l.id < d.num[t] /\ (l.lost \/ Alive(d, l.client))
    BY <1>1 DEF LinkInv
  <2> QED
    BY <1>2, <1>5, <2>2, <2>3, <2>4
<1>8. LinkInv(e)
  BY <1>6, <1>7 DEF LinkInv
<1> QED
  BY <1>2, <1>4, <1>8 DEF DeviceInv, e

(* the removal of a device with its links,                                 *)
LEMMA RemovedKeeps ==
    ASSUME NEW d, DeviceInv(d), NEW e, NEW s \in Skis, Present(d, s), Removed(d, e, s)
    PROVE  DeviceInv(e) /\ ~Present(e, s)
<1>1. d \in Devices /\ Peers(d) /\ LinkInv(d) /\ e \in Devices
  BY DEF DeviceInv, Removed
<1>2. d.remotes \in [Skis -> Remotes \cup {None}]
  BY <1>1 DEF Devices
<1>3. e.remotes[s] = None /\ \A t \in Skis : t # s => e.remotes[t] = d.remotes[t]
  BY <1>2 DEF Removed
<1>4. Peers(e) /\ ~Present(e, s)
  BY <1>1, <1>3 DEF Peers, Present, Exists
<1>5. \A t \in Tables : e.links[t] \subseteq d.links[t] /\ e.num[t] = d.num[t]
  BY DEF Removed
<1>6. \A t \in Tables : IsFiniteSet(e.links[t])
  BY <1>1, <1>5, FS_Subset DEF LinkInv
<1>7. ASSUME NEW t \in Tables, NEW l \in e.links[t], ~l.lost PROVE Alive(e, l.client)
  <2>1. l \in d.links[t] /\ Alive(d, l.client)
    BY <1>1, <1>5, <1>7 DEF LinkInv
  <2>2. ~EntityMatch(d, s, l.client)
    BY <2>1 DEF Removed
  <2>3. l.client \in Objects /\ l.client.ski \in Skis
    BY <1>1, <2>1, LinkTypes
  <2>4. CASE l.client.ski = s
    <3>1. l.client = Feature(d, s, l.client.feature)
      BY <2>1, <2>4 DEF Alive
    <3>2. /\ d.remotes[s].entity[l.client.feature].device = l.client.device
          /\ d.remotes[s].entity[l.client.feature].gen = l.client.gen
      BY <3>1 DEF Feature
    <3>3. l.client.gen # 0
      BY <2>3 DEF Objects
    <3> QED
      BY <2>2, <3>2, <3>3 DEF EntityMatch, Exists
  <2>5. CASE l.client.ski # s
    BY <1>3, <2>1, <2>3, <2>5 DEF Alive, Present, Feature
  <2> QED
    BY <2>4, <2>5
<1>8. LinkInv(e)
  BY <1>1, <1>5, <1>6, <1>7, LinkTypes DEF LinkInv
<1> QED
  BY <1>1, <1>4, <1>8 DEF DeviceInv

(* the entry of a device at an address that is not in use,                 *)
LEMMA AddedKeeps ==
    ASSUME NEW c, DeviceInv(c), NEW b, NEW s \in Skis, NEW p \in Ptrs, ~Present(c, s),
           Added(c, b, s, p), NewDevice(p) # None,
           \A t \in Skis : t # s /\ Present(c, t) => c.remotes[t].ptr # p
    PROVE  DeviceInv(b) /\ Present(b, s)
<1>1. c \in Devices /\ Peers(c) /\ LinkInv(c) /\ b \in Devices
  BY DEF DeviceInv, Added
<1>2. c.remotes \in [Skis -> Remotes \cup {None}]
  BY <1>1 DEF Devices
<1>3. b.remotes[s] = NewDevice(p) /\ \A t \in Skis : t # s => b.remotes[t] = c.remotes[t]
  BY <1>2 DEF Added
<1>4. NewDevice(p).ptr = p /\ NewDevice(p).entity["NodeManagement"].gen = 1
  BY DEF NewDevice, Features
<1>5. Peers(b) /\ Present(b, s)
  BY <1>1, <1>3, <1>4 DEF Peers, Present, Exists
<1>6. ASSUME NEW o \in Objects, Alive(c, o) PROVE Alive(b, o)
  BY <1>3, <1>6 DEF Alive, Present, Feature, Objects
<1>7. b.links = c.links /\ b.num = c.num
  BY DEF Added
<1>8. LinkInv(b)
  BY <1>1, <1>6, <1>7, LinkTypes DEF LinkInv
<1> QED
  BY <1>1, <1>5, <1>8 DEF DeviceInv

(* and the note that a binding has been granted.                           *)
Grants == [ski : Skis, server : Features, id : Nat]

Grant(d, s, m) == [ski |-> s, server |-> m.server, id |-> d.num["binding"]]

(* The notes of what is granted are not looked at.                         *)
LEMMA GrantKeeps ==
    ASSUME NEW d, DeviceInv(d), NEW g \in SUBSET Grants
    PROVE  LET e == [d EXCEPT !.granted = g]
           IN  /\ DeviceInv(e) /\ SameObjects(d, e)
               /\ e.remotes = d.remotes /\ e.links = d.links /\ e.num = d.num /\ e.granted = g
               /\ e.pending = d.pending /\ e.asked = d.asked /\ e.crossed = d.crossed
               /\ e.subscriptions = d.subscriptions
<1> DEFINE e == [d EXCEPT !.granted = g]
<1>1. d \in Devices /\ Peers(d) /\ LinkInv(d)
  BY DEF DeviceInv
<1>2. e \in Devices
  BY <1>1 DEF Devices, Grants
<1>3. /\ e.remotes = d.remotes /\ e.links = d.links /\ e.num = d.num /\ e.granted = g
      /\ e.pending = d.pending /\ e.asked = d.asked /\ e.crossed = d.crossed
      /\ e.subscriptions = d.subscriptions
  BY <1>1 DEF Devices
<1> HIDE DEF e
<1>4. SameObjects(d, e)
  <2>1. SameObjects(d, d)
    BY <1>1, SameSelf
  <2> QED
    BY <1>3, <2>1 DEF SameObjects, SamePeers, SameFeatures, Present
<1>5. Peers(e) /\ LinkInv(e)
  <2>1. Peers(e) /\ \A c \in Objects : Alive(d, c) <=> Alive(e, c)
    BY <1>1, <1>2, <1>4, AliveKept
  <2> QED
    BY <1>1, <1>3, <2>1, LinkTypes DEF LinkInv
<1> QED
  BY <1>2, <1>3, <1>4, <1>5 DEF DeviceInv, e

(* AddBinding grants what it adds, and adds nothing to a feature that has  *)
(* a binding (as far as it looks).                                         *)
LEMMA AddBindingFields ==
    ASSUME NEW d, DeviceInv(d), NEW s \in Skis, NEW req \in Calls, Present(d, s)
    PROVE  \/ AddBinding(d, s, req) = d
           \/ \E c : /\ Linked(d, c, "binding", s, req) /\ DeviceInv(c)
                     /\ AddBinding(d, s, req) =
                          [c EXCEPT !.granted = d.granted \cup {Grant(d, s, req)}]
                     /\ Exists(d, s, req.client) /\ req.client = req.server /\ ~HasServer(d, req)
                     /\ NewLink(d, "binding", s, req) \in Links
<1>1. d \in Devices /\ "binding" \in Tables /\ req.part \in BOOLEAN
  BY DeviceAssumption DEF DeviceInv, Tables, Calls
<1>2. HasServer(d, req) \in BOOLEAN
  BY <1>1 DEF HasServer
<1> DEFINE c == AddLink(d, "binding", s, req, HasServer(d, req))
<1>3. \/ c = d
      \/ /\ Linked(d, c, "binding", s, req)
         /\ Exists(d, s, req.client) /\ req.client = req.server /\ ~HasServer(d, req)
         /\ NewLink(d, "binding", s, req) \in Links
  BY <1>1, <1>2, AddLinkFields
<1>4. AddBinding(d, s, req) =
         IF c = d THEN d ELSE [c EXCEPT !.granted = @ \cup {Grant(d, s, req)}]
  BY DEF AddBinding, Grant
<1> HIDE DEF c
<1>5. CASE c # d
  <2>1. DeviceInv(c)
    BY <1>1, <1>3, <1>5, LinkedKeeps
  <2>2. c.granted = d.granted
    BY <1>3, <1>5 DEF Linked
  <2> QED
    BY <1>3, <1>4, <1>5, <2>1, <2>2
<1> QED
  BY <1>4, <1>5

(* What removing a binding makes of device d.                              *)
Ungranted(d, link) == {g \in d.granted : g.id # link.id}

Unbound(d, e, s, req, ub) ==
    \E c : \E link \in Find(d, "binding", req.server, Address(Filled(d, s, req), req.client), ub) :
        /\ Unlinked(d, c, "binding", s, link)
        /\ DeviceInv(c)
        /\ e = [c EXCEPT !.granted = Ungranted(d, link)]

(* RemoveBinding takes back what it removes.                               *)
LEMMA RemoveBindingFields ==
    ASSUME NEW d, DeviceInv(d), NEW s \in Skis, NEW req \in Calls, NEW ub, Present(d, s)
    PROVE  \/ RemoveBinding(d, s, req, ub) = d
           \/ Unbound(d, RemoveBinding(d, s, req, ub), s, req, ub)
<1>1. d \in Devices /\ "binding" \in Tables
  BY DEF DeviceInv, Tables
<1> DEFINE c == RemoveLink(d, "binding", s, req, ub)
           found == Find(d, "binding", req.server, Address(Filled(d, s, req), req.client), ub)
           gone == {l.id : l \in d.links["binding"] \ c.links["binding"]}
<1>2. c = d \/ \E link \in found : Unlinked(d, c, "binding", s, link)
  BY <1>1, RemoveLinkFields
<1>3. RemoveBinding(d, s, req, ub) =
         IF req.server = "NodeManagement" \/ c = d THEN d
         ELSE [c EXCEPT !.granted = {g \in @ : g.id \notin gone}]
  BY DEF RemoveBinding
<1>4. found \subseteq d.links["binding"]
  BY DEF Find
<1> HIDE DEF c, found
<1>5. CASE c # d /\ req.server # "NodeManagement"
  <2>1. PICK link \in found : Unlinked(d, c, "binding", s, link)
    BY <1>2, <1>5
  <2>2. DeviceInv(c)
    BY <1>1, <2>1, UnlinkedKeeps
  <2>3. c.granted = d.granted /\ c.links = [d.links EXCEPT !["binding"] = @ \ {link}]
    BY <2>1 DEF Unlinked
  <2>4. d.links["binding"] \ c.links["binding"] = {link}
    <3>1. d.links \in [Tables -> SUBSET Links]
      BY <1>1 DEF Devices
    <3>2. c.links["binding"] = d.links["binding"] \ {link}
      BY <1>1, <2>3, <3>1
    <3> QED
      BY <1>4, <2>1, <3>2
  <2>5. {g \in c.granted : g.id \notin gone} = Ungranted(d, link)
    BY <2>3, <2>4 DEF Ungranted
  <2> HIDE DEF gone
  <2>6. RemoveBinding(d, s, req, ub) = [c EXCEPT !.granted = Ungranted(d, link)]
    BY <1>3, <1>5, <2>5
  <2> QED
    BY <2>1, <2>2, <2>6 DEF found, Unbound
<1> QED
  BY <1>3, <1>5

(* A datagram, by what it is.                                              *)
Replies == [type : {"reply"}, kind : Kinds, msg_cnt : Nat, content : Contents]

(* A datagram is a read, a reply or a call.                                *)
LEMMA DatagramKinds ==
    ASSUME NEW m \in Datagrams
    PROVE  \/ m.type = "read"
           \/ m \in Replies
           \/ m \in Calls
  BY DEF Datagrams, Replies, Calls

(* HandleMessage with a reply keeps the invariant of the device,           *)
LEMMA ReplyKeeps ==
    ASSUME NEW d, DeviceInv(d), NEW s \in Skis, NEW m \in Replies, NEW from \in Skis, NEW ub, Present(d, s)
    PROVE  DeviceInv(ProcessDatagram(d, s, m, from, ub))
<1>1. /\ d \in Devices /\ m.type = "reply" /\ m.kind \in {"discovery", "useCase"} /\ m.msg_cnt \in Nat
      /\ m.content \in {"full", "noInfo", "cut"}
  BY DeviceAssumption DEF DeviceInv, Replies, Kinds
<1>2. CASE m.kind = "useCase"
  <2>1. ProcessDatagram(d, s, m, from, ub) = Process(d, s, m.msg_cnt)
    BY <1>1, <1>2 DEF ProcessDatagram, ProcessReplyUseCaseData
  <2> QED
    BY <1>1, <2>1, ProcessFields, QuietKeeps
<1>3. CASE m.kind = "discovery"
  <2>1. ProcessDatagram(d, s, m, from, ub) = ProcessReplyDetailedDiscoveryData(d, s, m, from)
    BY <1>1, <1>3 DEF ProcessDatagram
  <2>2. CASE m.content = "noInfo"
    BY <2>1, <2>2 DEF ProcessReplyDetailedDiscoveryData
  <2>3. CASE m.content = "cut"
    <3>1. ProcessDatagram(d, s, m, from, ub) = Rebuild(d, s, from, {"NodeManagement"})
      BY <2>1, <2>3 DEF ProcessReplyDetailedDiscoveryData
    <3>2. {"NodeManagement"} \in SUBSET Features
      BY DEF Features
    <3> QED
      BY <3>1, <3>2, RebuildKeeps
  <2>4. CASE m.content = "full"
    <3> DEFINE c == Rebuild(d, s, from, Features)
    <3>1. ProcessDatagram(d, s, m, from, ub) = Process(c, s, m.msg_cnt)
      BY <2>1, <2>4 DEF ProcessReplyDetailedDiscoveryData
    <3>2. DeviceInv(c)
      BY RebuildKeeps
    <3>3. c \in Devices /\ Present(c, s)
      BY <1>1, RebuildFields DEF Rebuilt, SamePeers
    <3> HIDE DEF c
    <3> QED
      BY <1>1, <3>1, <3>2, <3>3, ProcessFields, QuietKeeps
  <2> QED
    BY <1>1, <2>2, <2>3, <2>4
<1> QED
  BY <1>1, <1>2, <1>3

(* with a call of the peer,                                                *)
LEMMA CallKeeps ==
    ASSUME NEW d, DeviceInv(d), NEW s \in Skis, NEW m \in Calls, NEW from \in Skis, NEW ub, Present(d, s)
    PROVE  DeviceInv(ProcessDatagram(d, s, m, from, ub))
<1>1. /\ d \in Devices /\ m.type \in {"request", "delete"} /\ m.table \in {"binding", "subscription"}
      /\ m.server \in Features /\ m.part \in BOOLEAN
  BY DeviceAssumption DEF DeviceInv, Calls, Tables
<1>2. Grant(d, s, m) \in Grants /\ \A link : Ungranted(d, link) \subseteq d.granted
  BY <1>1 DEF Grant, Grants, Ungranted, Devices, Tables
<1>3. d.granted \in SUBSET Grants
  BY <1>1 DEF Devices, Grants
<1>4. CASE m.table = "binding" /\ m.type = "request"
  <2>1. ProcessDatagram(d, s, m, from, ub) = AddBinding(d, s, m)
    BY <1>4 DEF ProcessDatagram, HandleMsgBindingCall
  <2> DEFINE g == d.granted \cup {Grant(d, s, m)}
  <2>2. g \in SUBSET Grants
    BY <1>2, <1>3
  <2>3. CASE AddBinding(d, s, m) # d
    <3>1. PICK c : DeviceInv(c) /\ AddBinding(d, s, m) = [c EXCEPT !.granted = g]
      BY <2>3, AddBindingFields
    <3> HIDE DEF g
    <3> QED
      BY <2>1, <2>2, <3>1, GrantKeeps
  <2> QED
    BY <2>1, <2>3
<1>5. CASE m.table = "binding" /\ m.type = "delete"
  <2>1. ProcessDatagram(d, s, m, from, ub) = RemoveBinding(d, s, m, ub)
    BY <1>5 DEF ProcessDatagram, HandleMsgBindingCall
  <2>2. CASE RemoveBinding(d, s, m, ub) # d
    <3>1. Unbound(d, RemoveBinding(d, s, m, ub), s, m, ub)
      BY <2>2, RemoveBindingFields
    <3>2. PICK c, link : DeviceInv(c) /\ RemoveBinding(d, s, m, ub) = [c EXCEPT !.granted = Ungranted(d, link)]
      BY <3>1 DEF Unbound
    <3>3. Ungranted(d, link) \in SUBSET Grants
      BY <1>2, <1>3
    <3> QED
      BY <2>1, <3>2, <3>3, GrantKeeps
  <2> QED
    BY <2>1, <2>2
<1>6. CASE m.table = "subscription" /\ m.type = "request"
  <2> DEFINE there == m.part /\ Find(d, "subscription", m.server, Address(m.device, m.client), ub) # {}
  <2>1. ProcessDatagram(d, s, m, from, ub) = AddLink(d, "subscription", s, m, there)
    BY <1>6 DEF ProcessDatagram, HandleMsgSubscriptionCall, AddSubscription
  <2>2. there \in BOOLEAN /\ "subscription" \in Tables
    BY <1>1 DEF Tables
  <2> HIDE DEF there
  <2> QED
    BY <1>1, <2>1, <2>2, AddLinkFields, LinkedKeeps
<1>7. CASE m.table = "subscription" /\ m.type = "delete"
  <2>1. ProcessDatagram(d, s, m, from, ub) = RemoveLink(d, "subscription", s, m, ub)
    BY <1>7 DEF ProcessDatagram, HandleMsgSubscriptionCall, RemoveSubscription
  <2>2. "subscription" \in Tables
    BY DEF Tables
  <2> QED
    BY <1>1, <2>1, <2>2, RemoveLinkFields, UnlinkedKeeps
<1> QED
  BY <1>1, <1>4, <1>5, <1>6, <1>7

(* and so with every datagram.                                             *)
LEMMA DatagramKeeps ==
    ASSUME NEW d, DeviceInv(d), NEW s \in Skis, NEW m \in Datagrams, NEW from \in Skis, NEW ub, Present(d, s)
    PROVE  DeviceInv(ProcessDatagram(d, s, m, from, ub))
<1>1. CASE m.type = "read"
  <2>1. ProcessDatagram(d, s, m, from, ub) = Send(d, s)
    BY <1>1 DEF ProcessDatagram
  <2>2. d \in Devices
    BY DEF DeviceInv
  <2> QED
    BY <2>1, <2>2, SendFields, QuietKeeps
<1> QED
  BY <1>1, ReplyKeeps, CallKeeps, DatagramKinds

(* SetupRemoteDevice keeps it, whether or not a device of that SKI was     *)
(* there.                                                                  *)
LEMMA SetupKeeps ==
    ASSUME NEW d, DeviceInv(d), NEW s \in Skis, NEW p \in Ptrs \ Used(d), NEW ub,
           count.connects \in 0..(MaxConnects - 1)
    PROVE  DeviceInv(SetupRemoteDevice(d, s, p, ub))
<1> DEFINE c == RemoveRemoteDevice(d, s, ub)
           b == [c EXCEPT !.remotes[s] = NewDevice(p)]
<1>1. d \in Devices /\ \A t \in Skis : Present(d, t) => d.remotes[t].ptr # p
  BY DEF DeviceInv, Used
<1>2. DeviceInv(c) /\ ~Present(c, s) /\ \A t \in Skis : t # s => c.remotes[t] = d.remotes[t]
  <2>1. CASE Present(d, s)
    <3>1. Removed(d, c, s)
      BY <1>1, <2>1, RemoveFields
    <3>2. d.remotes \in [Skis -> Remotes \cup {None}]
      BY <1>1 DEF Devices
    <3> HIDE DEF c
    <3> QED
      BY <2>1, <3>1, <3>2, RemovedKeeps DEF Removed
  <2>2. CASE ~Present(d, s)
    BY <2>2 DEF RemoveRemoteDevice
  <2> QED
    BY <2>1, <2>2
<1>3. SetupRemoteDevice(d, s, p, ub) = Request(b, s, "discovery")
  BY DEF SetupRemoteDevice
<1> HIDE DEF c
<1>4. c \in Devices
  BY <1>2 DEF DeviceInv
<1>5. NewDevice(p) # None /\ Added(c, b, s, p)
  BY <1>4, NewFields
<1> HIDE DEF b
<1>6. \A t \in Skis : t # s /\ Present(c, t) => c.remotes[t].ptr # p
  BY <1>1, <1>2 DEF Present
<1>7. DeviceInv(b) /\ Present(b, s)
  BY <1>2, <1>5, <1>6, AddedKeeps
<1>8. b \in Devices /\ "discovery" \in Kinds
  BY <1>7 DEF DeviceInv, Kinds
<1> QED
  BY <1>3, <1>7, <1>8, RequestFields, QuietKeeps


-----------------------------------------------------------------------------
(* What every step keeps.                                                  *)

(* The invariant behind TypeOK and LinksAlive: a connection is reported as *)
(* closed at most once, so that closed stays within its bound.             *)
Closings(s) == closed[s] + (IF open[s] THEN 1 ELSE 0) <= count.connects

TypeInv ==
    /\ DeviceInv(dl)
    /\ msg_queue \in Seq(Messages)
    /\ Len(msg_queue) <= QueueSize
    /\ open \in [Skis -> BOOLEAN]
    /\ closed \in [Skis -> 0..MaxConnects]
    /\ called \in Tables
    /\ count \in [connects : 0..MaxConnects, calls : 0..MaxCalls, ticks : 0..MaxTicks]
    /\ \A s \in Skis : Closings(s)

(* TypeInv says what TypeOK and LinksAlive say.                            *)
LEMMA TypeInvImplies ==
    TypeInv => TypeOK /\ LinksAlive
  BY DEF TypeInv, DeviceInv, Peers, LinkInv, TypeOK, LinksAlive

(* A device without peers and links.                                       *)
LEMMA TypeInit ==
    Init => TypeInv
<1> SUFFICES ASSUME Init PROVE TypeInv
  OBVIOUS
<1>1. dl \in Devices
  <2>1. <<>> \in Seq(Pendings)
    BY EmptySeq
  <2> QED
    BY <2>1 DEF Init, Devices, Pendings
<1>2. \A s \in Skis : ~Present(dl, s)
  BY DEF Init, Present
<1>3. \A t \in Tables : dl.links[t] = {}
  BY DEF Init
<1>4. DeviceInv(dl)
  BY <1>1, <1>2, <1>3, FS_EmptySet DEF DeviceInv, Peers, LinkInv
<1>5. msg_queue \in Seq(Messages) /\ Len(msg_queue) <= QueueSize
  BY DeviceAssumption, EmptySeq DEF Init
<1> QED
  BY <1>4, <1>5, DeviceAssumption DEF Init, TypeInv, Closings

(* The queue after one more message.                                       *)
LEMMA PostKeeps ==
    ASSUME msg_queue \in Seq(Messages), NEW m \in Messages, Post(m)
    PROVE  msg_queue' \in Seq(Messages) /\ Len(msg_queue') <= QueueSize
<1>1. msg_queue' = Append(msg_queue, m) /\ Len(msg_queue) < QueueSize
  BY DEF Post
<1>2. Len(msg_queue) \in Nat /\ QueueSize \in Nat
  BY LenProperties, DeviceAssumption
<1> QED
  BY <1>1, <1>2, AppendProperties

(* What is received is a message of the queue.                             *)
LEMMA ReceiveKeeps ==
    ASSUME DeviceInv(dl), msg_queue \in Seq(Messages), NEW s \in Skis, NEW m \in Datagrams, Receive(s, m)
    PROVE  msg_queue' \in Seq(Messages) /\ Len(msg_queue') <= QueueSize
<1> DEFINE q == [type |-> "data", ptr |-> dl.remotes[s].ptr, from |-> s, msg |-> m]
<1>1. dl.remotes[s] \in Remotes
  BY DEF Receive, Present, DeviceInv, Devices
<1>2. q \in Messages
  BY <1>1 DEF Remotes, Messages
<1>3. Post(q)
  BY DEF Receive
<1> HIDE DEF q
<1> QED
  BY <1>2, <1>3, PostKeeps

(* The queue after its first message.                                      *)
LEMMA TakeKeeps ==
    ASSUME msg_queue \in Seq(Messages), Len(msg_queue) <= QueueSize, msg_queue # <<>>,
           msg_queue' = Tail(msg_queue)
    PROVE  /\ msg_queue' \in Seq(Messages) /\ Len(msg_queue') <= QueueSize
           /\ Head(msg_queue) \in Messages
<1>1. Len(msg_queue) \in Nat /\ QueueSize \in Nat
  BY LenProperties, DeviceAssumption
<1> QED
  BY <1>1, HeadTailProperties

(* Every step keeps the type invariant and leaves no link to a feature     *)
(* object that is gone, except those that it marks.                        *)
LEMMA TypeNext ==
    TypeInv /\ [Next]_vars => TypeInv'
<1> SUFFICES ASSUME TypeInv, [Next]_vars PROVE TypeInv'
  OBVIOUS
<1>0. DeviceInv(dl) /\ dl \in Devices
  BY DEF TypeInv, DeviceInv
<1>00. /\ {MaxConnects, MaxCalls, MaxTicks, MaxEvents} \subseteq Nat
  BY DeviceAssumption
<1>1. ASSUME NEW s \in Skis, Connect(s) PROVE TypeInv'
  <2>1. PICK p \in Ptrs \ Used(dl), ub \in SUBSET Dangling(dl) : dl' = SetupRemoteDevice(dl, s, p, ub)
    BY <1>1 DEF Connect
  <2>2. count.connects \in 0..(MaxConnects - 1)
    BY <1>1, <1>00 DEF Connect, TypeInv
  <2>3. DeviceInv(dl)'
    BY <1>0, <2>1, <2>2, SetupKeeps
  <2>4. count' \in [connects : 0..MaxConnects, calls : 0..MaxCalls, ticks : 0..MaxTicks]
        /\ count'.connects = count.connects + 1
    <3>1. count \in [connects : 0..MaxConnects, calls : 0..MaxCalls, ticks : 0..MaxTicks]
      BY DEF TypeInv
    <3>2. count' = [count EXCEPT !.connects = @ + 1] /\ count.connects < MaxConnects
      BY <1>1 DEF Connect
    <3>3. count.connects + 1 \in 0..MaxConnects
      BY <1>00, <3>1, <3>2
    <3> QED
      BY <3>1, <3>2, <3>3
  <2>5. \A t \in Skis : Closings(t)'
    <3> TAKE t \in Skis
    <3>1. Closings(t) /\ closed[t] \in Nat /\ closed'[t] = closed[t]
          /\ open'[t] = IF t = s THEN TRUE ELSE open[t]
      BY <1>1, <1>00 DEF Connect, TypeInv
    <3> QED
      BY <1>1, <2>2, <2>4, <3>1, <1>00 DEF Closings, Connect
  <2> QED
    BY <1>1, <2>3, <2>4, <2>5 DEF Connect, TypeInv
<1>2. ASSUME NEW s \in Skis, Close(s) PROVE TypeInv'
  <2>1. closed'[s] = closed[s] + 1 /\ Closings(s) /\ open[s] /\ closed[s] \in Nat
        /\ count.connects \in 0..MaxConnects
    BY <1>2, <1>00 DEF Close, TypeInv
  <2>2. closed[s] + 1 \in 0..MaxConnects
    BY <2>1, <1>00 DEF Closings
  <2>3. \A t \in Skis : Closings(t)'
    <3> TAKE t \in Skis
    <3>1. /\ Closings(t) /\ closed[t] \in Nat
          /\ closed'[t] = IF t = s THEN closed[t] + 1 ELSE closed[t]
          /\ open'[t] = IF t = s THEN FALSE ELSE open[t]
      BY <1>2, <1>00 DEF Close, TypeInv
    <3>2. count' = count
      BY <1>2 DEF Close
    <3>3. CASE t = s
      BY <2>1, <3>1, <3>2, <3>3 DEF Closings
    <3>4. CASE t # s
      BY <3>1, <3>2, <3>4 DEF Closings
    <3> QED
      BY <3>3, <3>4
  <2> QED
    BY <1>2, <2>2, <2>3 DEF Close, TypeInv
<1>3. ASSUME NEW s \in Skis, Disconnect(s) PROVE TypeInv'
  <2>1. PICK ub \in SUBSET Dangling(dl) : dl' = RemoveRemoteDevice(dl, s, ub)
    BY <1>3 DEF Disconnect
  <2>2. DeviceInv(dl)'
    <3>1. CASE Present(dl, s)
      BY <1>0, <2>1, <3>1, RemoveFields, RemovedKeeps
    <3>2. CASE ~Present(dl, s)
      BY <1>0, <2>1, <3>2 DEF RemoveRemoteDevice
    <3> QED
      BY <3>1, <3>2
  <2>3. closed[s] - 1 \in 0..MaxConnects
    BY <1>3, <1>00 DEF Disconnect, TypeInv
  <2>4. \A t \in Skis : Closings(t)'
    <3> TAKE t \in Skis
    <3>1. /\ Closings(t) /\ closed[t] \in Nat
          /\ closed'[t] = IF t = s THEN closed[t] - 1 ELSE closed[t]
          /\ count.connects \in Nat
      BY <1>3, <1>00 DEF Disconnect, TypeInv
    <3> QED
      BY <1>3, <3>1 DEF Closings, Disconnect
  <2> QED
    BY <1>3, <2>2, <2>3, <2>4 DEF Disconnect, TypeInv
<1>4. ASSUME NEW s \in Skis, ReceiveReply(s) PROVE TypeInv'
  <2>1. PICK r \in dl.asked[s], c \in Contents :
          /\ Receive(s, [type |-> "reply", kind |-> r.kind, msg_cnt |-> r.msg_cnt, content |-> c])
          /\ dl' = [dl EXCEPT !.asked[s] = @ \ {r}]
          /\ UNCHANGED count
    BY <1>4 DEF ReceiveReply
  <2>2. r \in Reads
    BY <1>0 DEF Devices
  <2> DEFINE m == [type |-> "reply", kind |-> r.kind, msg_cnt |-> r.msg_cnt, content |-> c]
  <2>3. m \in Datagrams
    BY <2>2 DEF Reads, Datagrams
  <2>4. Receive(s, m)
    BY <2>1
  <2> HIDE DEF m
  <2>5. msg_queue' \in Seq(Messages) /\ Len(msg_queue') <= QueueSize
    BY <1>0, <2>3, <2>4, ReceiveKeeps DEF TypeInv
  <2>6. DeviceInv(dl)'
    <3>1. /\ dl' \in Devices /\ dl'.remotes = dl.remotes /\ dl'.links = dl.links
          /\ dl'.num = dl.num /\ dl'.granted = dl.granted
      BY <1>0, <2>1 DEF Devices
    <3>2. SameObjects(dl, dl') /\ SameLinks(dl, dl')
      <4>1. SameObjects(dl, dl)
        BY <1>0, SameSelf
      <4> QED
        BY <3>1, <4>1 DEF SameObjects, SamePeers, SameFeatures, SameLinks, Present
    <3> QED
      BY <1>0, <3>1, <3>2, QuietKeeps
  <2> QED
    BY <2>1, <2>4, <2>5, <2>6 DEF Receive, TypeInv, Closings
<1>5. ASSUME NEW s \in Skis, ReceiveCall(s) PROVE TypeInv'
  <2>1. PICK m \in Requests : Receive(s, m) /\ count.calls < MaxCalls
                              /\ count' = [count EXCEPT !.calls = @ + 1] /\ UNCHANGED dl
    BY <1>5 DEF ReceiveCall
  <2>2. m \in Datagrams
    BY DeviceAssumption DEF Requests, Datagrams, TypeInv
  <2>3. msg_queue' \in Seq(Messages) /\ Len(msg_queue') <= QueueSize
    BY <1>0, <2>1, <2>2, ReceiveKeeps DEF TypeInv
  <2>4. count' \in [connects : 0..MaxConnects, calls : 0..MaxCalls, ticks : 0..MaxTicks]
        /\ count'.connects = count.connects
    <3>1. count \in [connects : 0..MaxConnects, calls : 0..MaxCalls, ticks : 0..MaxTicks]
      BY DEF TypeInv
    <3>2. count' = [count EXCEPT !.calls = @ + 1] /\ count.calls < MaxCalls
      BY <2>1
    <3>3. count.calls + 1 \in 0..MaxCalls
      BY <1>00, <3>1, <3>2
    <3> QED
      BY <3>1, <3>2, <3>3
  <2> QED
    BY <2>1, <2>3, <2>4 DEF Receive, TypeInv, Closings
<1>6. ASSUME NEW f \in Features, NotifySubscribers(f) PROVE TypeInv'
  <2>1. DeviceInv(dl)'
    <3>1. IsFiniteSet(dl.links["subscription"])
      BY <1>0 DEF DeviceInv, LinkInv, Tables
    <3> QED
      BY <1>0, <1>6, <3>1, PublishFields, QuietKeeps DEF NotifySubscribers
  <2>2. count' \in [connects : 0..MaxConnects, calls : 0..MaxCalls, ticks : 0..MaxTicks]
        /\ count'.connects = count.connects
    <3>1. count \in [connects : 0..MaxConnects, calls : 0..MaxCalls, ticks : 0..MaxTicks]
      BY DEF TypeInv
    <3>2. count' = [count EXCEPT !.calls = @ + 1] /\ count.calls < MaxCalls
      BY <1>6 DEF NotifySubscribers
    <3>3. count.calls + 1 \in 0..MaxCalls
      BY <1>00, <3>1, <3>2
    <3> QED
      BY <3>1, <3>2, <3>3
  <2> QED
    BY <1>6, <2>1, <2>2 DEF NotifySubscribers, TypeInv, Closings
<1>7. CASE PostTick
  <2> DEFINE m == [type |-> "tick", ptr |-> None]
  <2>1. m \in Messages /\ Post(m)
    BY <1>7 DEF Messages, PostTick
  <2> HIDE DEF m
  <2>2. msg_queue' \in Seq(Messages) /\ Len(msg_queue') <= QueueSize
    BY <2>1, PostKeeps DEF TypeInv
  <2>3. count' \in [connects : 0..MaxConnects, calls : 0..MaxCalls, ticks : 0..MaxTicks]
        /\ count'.connects = count.connects
    <3>1. count \in [connects : 0..MaxConnects, calls : 0..MaxCalls, ticks : 0..MaxTicks]
      BY DEF TypeInv
    <3>2. count' = [count EXCEPT !.ticks = @ + 1] /\ count.ticks < MaxTicks
      BY <1>7 DEF PostTick
    <3>3. count.ticks + 1 \in 0..MaxTicks
      BY <1>00, <3>1, <3>2
    <3> QED
      BY <3>1, <3>2, <3>3
  <2> QED
    BY <1>7, <2>2, <2>3 DEF PostTick, TypeInv, Closings
<1>8. CASE HandleTick
  <2>1. PICK n \in 0..Len(dl.pending) : dl' = Tick(dl, n)
    BY <1>8 DEF HandleTick
  <2>2. DeviceInv(dl)'
    BY <1>0, <2>1, TickFields, QuietKeeps
  <2>3. msg_queue' \in Seq(Messages) /\ Len(msg_queue') <= QueueSize
    BY <1>8, TakeKeeps DEF HandleTick, TypeInv
  <2> QED
    BY <1>8, <2>2, <2>3 DEF HandleTick, TypeInv, Closings
<1>9. CASE HandleDatagram
  <2>1. /\ msg_queue' \in Seq(Messages) /\ Len(msg_queue') <= QueueSize
        /\ Head(msg_queue) \in Messages
    BY <1>9, TakeKeeps DEF HandleDatagram, TypeInv
  <2> DEFINE q == Head(msg_queue)
  <2>2. q.type = "data" /\ q \in Messages
    BY <1>9, <2>1 DEF HandleDatagram
  <2>3. \/ dl' = dl
        \/ \E s \in Skis, ub \in SUBSET Dangling(dl) :
              Present(dl, s) /\ dl' = ProcessDatagram(dl, s, q.msg, q.from, ub)
    BY <1>9 DEF HandleDatagram
  <2> HIDE DEF q
  <2>4. q.msg \in Datagrams /\ q.from \in Skis
    BY <2>2 DEF Messages
  <2>5. DeviceInv(dl)'
    BY <1>0, <2>3, <2>4, DatagramKeeps
  <2> QED
    BY <1>9, <2>1, <2>5 DEF HandleDatagram, TypeInv, Closings
<1>10. CASE UNCHANGED vars
  BY <1>10 DEF vars, TypeInv, Closings
<1> QED
  BY <1>1, <1>2, <1>3, <1>4, <1>5, <1>6, <1>7, <1>8, <1>9, <1>10 DEF Next

(* The device's data has the types that its declarations give it, the      *)
(* addresses of remote devices differ and identifiers of links are taken   *)
(* in their order, for every number of peers and whatever is reused.       *)
THEOREM DeviceTypeCorrect == Spec => []TypeOK
<1>1. Spec => []TypeInv
  BY TypeInit, TypeNext, PTL DEF Spec
<1> QED
  BY <1>1, TypeInvImplies, PTL

(* Removing a remote device leaves no binding and no subscription with a   *)
(* pointer to one of its features (device_local.c RemoveRemoteDevice).     *)
THEOREM NoLinkToRemoved == Spec => []LinksAlive
<1>1. Spec => []TypeInv
  BY TypeInit, TypeNext, PTL DEF Spec
<1> QED
  BY <1>1, TypeInvImplies, PTL

-----------------------------------------------------------------------------
(* What the steps do, in their cases.                                      *)

(* An operation that touches no pending reply and no subscription.         *)
Unasked(d, e) ==
    /\ e \in Devices /\ SameObjects(d, e)
    /\ e.pending = d.pending /\ e.asked = d.asked /\ e.crossed = d.crossed
    /\ e.subscriptions = d.subscriptions

(* What a peer reads or calls is of this kind.                             *)
LEMMA CallUnasked ==
    ASSUME NEW d, DeviceInv(d), NEW s \in Skis, NEW m \in Datagrams, m.type # "reply",
           NEW from \in Skis, NEW ub, Present(d, s)
    PROVE  Unasked(d, ProcessDatagram(d, s, m, from, ub))
<1>1. d \in Devices
  BY DEF DeviceInv
<1>2. Unasked(d, d)
  BY <1>1, SameSelf DEF Unasked
<1>3. CASE m.type = "read"
  <2>1. ProcessDatagram(d, s, m, from, ub) = Send(d, s)
    BY <1>3 DEF ProcessDatagram
  <2> QED
    BY <1>1, <2>1, SendFields DEF Unasked
<1>4. CASE m.type # "read"
  <2>1. m \in Calls
    BY <1>4, DatagramKinds DEF Replies
  <2>2. /\ m.type \in {"request", "delete"} /\ m.table \in {"binding", "subscription"}
        /\ m.server \in Features /\ m.part \in BOOLEAN
    BY <2>1, DeviceAssumption DEF Calls, Tables
  <2>3. /\ Grant(d, s, m) \in Grants /\ d.granted \in SUBSET Grants
        /\ \A link : Ungranted(d, link) \subseteq d.granted
    BY <1>1, <2>2 DEF Devices, Grant, Grants, Ungranted, Tables
  <2>4. ASSUME NEW c, DeviceInv(c), Unasked(d, c), NEW g \in SUBSET Grants
        PROVE  Unasked(d, [c EXCEPT !.granted = g])
    <3> DEFINE e == [c EXCEPT !.granted = g]
    <3>1. /\ DeviceInv(e) /\ SameObjects(c, e)
          /\ e.pending = c.pending /\ e.asked = c.asked /\ e.crossed = c.crossed
          /\ e.subscriptions = c.subscriptions
      BY <2>4, GrantKeeps
    <3> HIDE DEF e
    <3>2. e \in Devices /\ c \in Devices /\ SameObjects(d, c)
      BY <2>4, <3>1 DEF DeviceInv, Unasked
    <3>3. SameObjects(d, e)
      BY <1>1, <3>1, <3>2, SameTwice
    <3>4. Unasked(d, e)
      BY <2>4, <3>1, <3>2, <3>3 DEF Unasked
    <3> QED
      BY <3>4 DEF e
  <2>5. CASE m.table = "binding" /\ m.type = "request"
    <3>1. ProcessDatagram(d, s, m, from, ub) = AddBinding(d, s, m)
      BY <2>5 DEF ProcessDatagram, HandleMsgBindingCall
    <3> DEFINE g == d.granted \cup {Grant(d, s, m)}
    <3>2. g \in SUBSET Grants
      BY <2>3
    <3>3. CASE AddBinding(d, s, m) # d
      <4>1. PICK c : DeviceInv(c) /\ AddBinding(d, s, m) = [c EXCEPT !.granted = g]
                     /\ Linked(d, c, "binding", s, m)
        BY <2>1, <3>3, AddBindingFields
      <4>2. Unasked(d, c)
        BY <4>1 DEF Linked, Unasked
      <4> HIDE DEF g
      <4> QED
        BY <2>4, <3>1, <3>2, <4>1, <4>2
    <3> QED
      BY <1>2, <3>1, <3>3
  <2>6. CASE m.table = "binding" /\ m.type = "delete"
    <3>1. ProcessDatagram(d, s, m, from, ub) = RemoveBinding(d, s, m, ub)
      BY <2>6 DEF ProcessDatagram, HandleMsgBindingCall
    <3>2. CASE RemoveBinding(d, s, m, ub) # d
      <4>1. Unbound(d, RemoveBinding(d, s, m, ub), s, m, ub)
        BY <2>1, <3>2, RemoveBindingFields
      <4>2. PICK c, link : /\ DeviceInv(c) /\ Unlinked(d, c, "binding", s, link)
                           /\ RemoveBinding(d, s, m, ub) = [c EXCEPT !.granted = Ungranted(d, link)]
        BY <4>1 DEF Unbound
      <4>3. Unasked(d, c)
        BY <4>2 DEF Unlinked, Unasked
      <4>4. Ungranted(d, link) \in SUBSET Grants
        BY <2>3
      <4> QED
        BY <2>4, <3>1, <4>2, <4>3, <4>4
    <3> QED
      BY <1>2, <3>1, <3>2
  <2>7. CASE m.table = "subscription" /\ m.type = "request"
    <3> DEFINE there == m.part /\ Find(d, "subscription", m.server, Address(m.device, m.client), ub) # {}
    <3>1. ProcessDatagram(d, s, m, from, ub) = AddLink(d, "subscription", s, m, there)
      BY <2>7 DEF ProcessDatagram, HandleMsgSubscriptionCall, AddSubscription
    <3>2. there \in BOOLEAN /\ "subscription" \in Tables
      BY <2>2 DEF Tables
    <3> HIDE DEF there
    <3>3. \/ AddLink(d, "subscription", s, m, there) = d
          \/ Linked(d, AddLink(d, "subscription", s, m, there), "subscription", s, m)
      BY <1>1, <2>1, <3>2, AddLinkFields
    <3> QED
      BY <1>2, <3>1, <3>3 DEF Linked, Unasked
  <2>8. CASE m.table = "subscription" /\ m.type = "delete"
    <3> DEFINE e == RemoveLink(d, "subscription", s, m, ub)
               found == Find(d, "subscription", m.server, Address(Filled(d, s, m), m.client), ub)
    <3>1. ProcessDatagram(d, s, m, from, ub) = e
      BY <2>8 DEF ProcessDatagram, HandleMsgSubscriptionCall, RemoveSubscription
    <3>2. "subscription" \in Tables
      BY DEF Tables
    <3>3. e = d \/ \E link \in found : Unlinked(d, e, "subscription", s, link)
      BY <1>1, <2>1, <3>2, RemoveLinkFields
    <3> HIDE DEF e, found
    <3> QED
      BY <1>2, <3>1, <3>3 DEF Unlinked, Unasked
  <2> QED
    BY <2>2, <2>5, <2>6, <2>7, <2>8
<1> QED
  BY <1>3, <1>4

(* A discovery reply that has entities first rebuilds them.                *)
Discovered(d, c, s, from, fs) == DeviceInv(c) /\ Present(c, s) /\ Rebuilt(d, c, s, from, fs)

(* What a reply does.                                                      *)
LEMMA ReplyCases ==
    ASSUME NEW d, DeviceInv(d), NEW s \in Skis, NEW m \in Replies, NEW from \in Skis, NEW ub, Present(d, s)
    PROVE  LET e == ProcessDatagram(d, s, m, from, ub)
           IN  \/ m.kind = "useCase" /\ e = Process(d, s, m.msg_cnt)
               \/ m.kind = "discovery" /\ e = d
               \/ m.kind = "discovery" /\ Discovered(d, e, s, from, {"NodeManagement"})
               \/ /\ m.kind = "discovery"
                  /\ \E c : Discovered(d, c, s, from, Features) /\ e = Process(c, s, m.msg_cnt)
<1>1. /\ d \in Devices /\ m.type = "reply" /\ m.kind \in {"discovery", "useCase"} /\ m.msg_cnt \in Nat
      /\ m.content \in {"full", "noInfo", "cut"}
  BY DeviceAssumption DEF DeviceInv, Replies, Kinds
<1>2. CASE m.kind = "useCase"
  BY <1>1, <1>2 DEF ProcessDatagram, ProcessReplyUseCaseData
<1>3. CASE m.kind = "discovery"
  <2>1. ProcessDatagram(d, s, m, from, ub) = ProcessReplyDetailedDiscoveryData(d, s, m, from)
    BY <1>1, <1>3 DEF ProcessDatagram
  <2>2. CASE m.content = "noInfo"
    BY <1>3, <2>1, <2>2 DEF ProcessReplyDetailedDiscoveryData
  <2>3. ASSUME NEW fs \in SUBSET Features
        PROVE  Discovered(d, Rebuild(d, s, from, fs), s, from, fs)
    BY <1>1, RebuildFields, RebuildKeeps DEF Discovered, Rebuilt, SamePeers
  <2>4. CASE m.content = "cut"
    <3>1. ProcessDatagram(d, s, m, from, ub) = Rebuild(d, s, from, {"NodeManagement"})
      BY <2>1, <2>4 DEF ProcessReplyDetailedDiscoveryData
    <3>2. {"NodeManagement"} \in SUBSET Features
      BY DEF Features
    <3> QED
      BY <1>3, <2>3, <3>1, <3>2
  <2>5. CASE m.content = "full"
    <3>1. ProcessDatagram(d, s, m, from, ub) = Process(Rebuild(d, s, from, Features), s, m.msg_cnt)
      BY <2>1, <2>5 DEF ProcessReplyDetailedDiscoveryData
    <3>2. Discovered(d, Rebuild(d, s, from, Features), s, from, Features)
      BY <2>3
    <3> QED
      BY <1>3, <3>1, <3>2
  <2> QED
    BY <1>1, <2>2, <2>4, <2>5
<1> QED
  BY <1>1, <1>2, <1>3

(* What setting a peer up does: what was there goes, a new device comes,   *)
(* and its discovery data is asked for.                                    *)
Gone(d, c, s) ==
    /\ DeviceInv(c) /\ ~Present(c, s)
    /\ (c = d /\ ~Present(d, s)) \/ (Present(d, s) /\ Removed(d, c, s))

Setup(d, e, s, p) ==
    \E c, b : /\ Gone(d, c, s)
              /\ Added(c, b, s, p) /\ DeviceInv(b) /\ Present(b, s)
              /\ e = Request(b, s, "discovery")

(* RemoveRemoteDevice, of a device that is there or not.                   *)
LEMMA RemoveGone ==
    ASSUME NEW d, DeviceInv(d), NEW s \in Skis, NEW ub
    PROVE  Gone(d, RemoveRemoteDevice(d, s, ub), s)
<1>1. d \in Devices
  BY DEF DeviceInv
<1>2. CASE Present(d, s)
  BY <1>1, <1>2, RemoveFields, RemovedKeeps DEF Gone
<1>3. CASE ~Present(d, s)
  BY <1>3 DEF RemoveRemoteDevice, Gone
<1> QED
  BY <1>2, <1>3

(* SetupRemoteDevice in its stages: the old device goes, the new one       *)
(* enters, it subscribes and asks.                                         *)
LEMMA SetupStages ==
    ASSUME NEW d, DeviceInv(d), NEW s \in Skis, NEW p \in Ptrs \ Used(d), NEW ub,
           count.connects \in 0..(MaxConnects - 1)
    PROVE  Setup(d, SetupRemoteDevice(d, s, p, ub), s, p)
<1> DEFINE c == RemoveRemoteDevice(d, s, ub)
           b == [c EXCEPT !.remotes[s] = NewDevice(p)]
<1>1. d \in Devices /\ \A t \in Skis : Present(d, t) => d.remotes[t].ptr # p
  BY DEF DeviceInv, Used
<1>2. Gone(d, c, s)
  BY RemoveGone
<1>3. SetupRemoteDevice(d, s, p, ub) = Request(b, s, "discovery")
  BY DEF SetupRemoteDevice
<1> HIDE DEF c
<1>4. c \in Devices
  BY <1>2 DEF Gone, DeviceInv
<1>5. NewDevice(p) # None /\ Added(c, b, s, p)
  BY <1>4, NewFields
<1> HIDE DEF b
<1>6. \A t \in Skis : t # s => c.remotes[t] = d.remotes[t]
  <2>1. d.remotes \in [Skis -> Remotes \cup {None}]
    BY <1>1 DEF Devices
  <2> QED
    BY <1>2, <2>1 DEF Gone, Removed
<1>7. \A t \in Skis : t # s /\ Present(c, t) => c.remotes[t].ptr # p
  BY <1>1, <1>6 DEF Present
<1>8. DeviceInv(b) /\ Present(b, s)
  BY <1>2, <1>5, <1>7, AddedKeeps DEF Gone
<1> QED
  BY <1>2, <1>3, <1>5, <1>8 DEF Setup

(* A device that is new, in its fields.                                    *)
LEMMA NewDeviceFields ==
    ASSUME NEW p
    PROVE  /\ NewDevice(p).ptr = p /\ NewDevice(p).inc = count.connects + 1
           /\ NewDevice(p).address = None /\ NewDevice(p).msg_num = 0
           /\ \A f \in Features : NewDevice(p).entity[f].device = None
  BY DEF NewDevice

-----------------------------------------------------------------------------
(* The loop, whatever device the datagram was queued for.                  *)

(* Message m of the head of the queue is handled for peer s.               *)
Taken(s, m, from, ub) ==
    /\ Present(dl, s) /\ dl' = ProcessDatagram(dl, s, m, from, ub)
    /\ msg_queue # <<>> /\ msg_queue' = Tail(msg_queue)
    /\ Head(msg_queue) = [type |-> "data", ptr |-> dl.remotes[s].ptr, from |-> from, msg |-> m]

(* The loop finds no device for the datagram, or handles it for the one    *)
(* that has its address.                                                   *)
LEMMA TakenCases ==
    ASSUME TypeInv, HandleDatagram
    PROVE  dl' = dl \/ \E s \in Skis, m \in Datagrams, from \in Skis, ub \in SUBSET Dangling(dl) : Taken(s, m, from, ub)
<1> SUFFICES ASSUME dl' # dl
             PROVE  \E s \in Skis, m \in Datagrams, from \in Skis, ub \in SUBSET Dangling(dl) : Taken(s, m, from, ub)
  OBVIOUS
<1> DEFINE q == Head(msg_queue)
<1>1. /\ msg_queue # <<>> /\ msg_queue' = Tail(msg_queue) /\ q \in Messages /\ q.type = "data"
  BY TakeKeeps DEF HandleDatagram, TypeInv
<1>2. PICK s \in Skis, ub \in SUBSET Dangling(dl) :
        Present(dl, s) /\ dl.remotes[s].ptr = q.ptr /\ dl' = ProcessDatagram(dl, s, q.msg, q.from, ub)
  BY DEF HandleDatagram
<1>3. q = [type |-> "data", ptr |-> q.ptr, from |-> q.from, msg |-> q.msg] /\ q.msg \in Datagrams /\ q.from \in Skis
  <2> HIDE DEF q
  <2> QED
    BY <1>1 DEF Messages
<1>4. Taken(s, q.msg, q.from, ub)
  BY <1>1, <1>2, <1>3 DEF Taken
<1> HIDE DEF q
<1> QED
  BY <1>3, <1>4

-----------------------------------------------------------------------------
(* Writers.                                                                *)

(* What a call for a link does, with c for the device before the change of *)
(* what is granted.                                                        *)
SameTables(c, e) == e.remotes = c.remotes /\ e.links = c.links /\ e.num = c.num

There(d, m, ub) ==
    IF m.table = "binding" THEN HasServer(d, m)
    ELSE m.part /\ Find(d, "subscription", m.server, Address(m.device, m.client), ub) # {}

LinkCall(d, e, s, m, ub) ==
    \E c : /\ Linked(d, c, m.table, s, m) /\ SameTables(c, e)
           /\ Exists(d, s, m.client) /\ m.client = m.server /\ ~There(d, m, ub)
           /\ e.granted = IF m.table = "binding" THEN d.granted \cup {Grant(d, s, m)} ELSE d.granted

UnlinkCall(d, e, s, m, ub) ==
    \E c : \E link \in Find(d, m.table, m.server, Address(Filled(d, s, m), m.client), ub) :
        /\ m.type = "delete" /\ Unlinked(d, c, m.table, s, link) /\ SameTables(c, e)
        /\ e.granted = IF m.table = "binding" THEN Ungranted(d, link) ELSE d.granted

(* A call of the peer adds a link, removes one or changes nothing.         *)
LEMMA CallCases ==
    ASSUME NEW d, DeviceInv(d), NEW s \in Skis, NEW m \in Calls, NEW from \in Skis, NEW ub, Present(d, s)
    PROVE  LET e == ProcessDatagram(d, s, m, from, ub)
           IN  \/ e = d
               \/ LinkCall(d, e, s, m, ub)
               \/ UnlinkCall(d, e, s, m, ub)
<1>1. /\ d \in Devices /\ m.type \in {"request", "delete"} /\ m.table \in {"binding", "subscription"}
      /\ m.server \in Features /\ m.part \in BOOLEAN
  BY DeviceAssumption DEF DeviceInv, Calls, Tables
<1>2. Grant(d, s, m) \in Grants /\ \A link : Ungranted(d, link) \subseteq d.granted
  BY <1>1 DEF Grant, Grants, Ungranted, Devices, Tables
<1>3. d.granted \in SUBSET Grants
  BY <1>1 DEF Devices, Grants
<1>4. CASE m.table = "binding" /\ m.type = "request"
  <2>1. ProcessDatagram(d, s, m, from, ub) = AddBinding(d, s, m)
    BY <1>4 DEF ProcessDatagram, HandleMsgBindingCall
  <2> DEFINE g == d.granted \cup {Grant(d, s, m)}
             e == AddBinding(d, s, m)
  <2>2. g \in SUBSET Grants
    BY <1>2, <1>3
  <2>3. CASE e # d
    <3>1. PICK c : /\ DeviceInv(c) /\ e = [c EXCEPT !.granted = g]
                   /\ Linked(d, c, "binding", s, m)
                   /\ Exists(d, s, m.client) /\ m.client = m.server /\ ~HasServer(d, m)
      BY <2>3, AddBindingFields
    <3> HIDE DEF g, e
    <3>2. SameTables(c, e) /\ e.granted = g
      BY <2>2, <3>1, GrantKeeps DEF SameTables
    <3>3. LinkCall(d, e, s, m, ub)
      BY <1>4, <3>1, <3>2 DEF LinkCall, There, g
    <3> QED
      BY <2>1, <3>3 DEF e
  <2> QED
    BY <2>1, <2>3
<1>5. CASE m.table = "binding" /\ m.type = "delete"
  <2> DEFINE e == RemoveBinding(d, s, m, ub)
             found == Find(d, "binding", m.server, Address(Filled(d, s, m), m.client), ub)
  <2>1. ProcessDatagram(d, s, m, from, ub) = e
    BY <1>5 DEF ProcessDatagram, HandleMsgBindingCall
  <2>2. CASE e # d
    <3> HIDE DEF found
    <3>1. Unbound(d, e, s, m, ub)
      BY <2>2, RemoveBindingFields
    <3> HIDE DEF e
    <3>2. PICK c : \E link \in found : /\ DeviceInv(c) /\ e = [c EXCEPT !.granted = Ungranted(d, link)]
                                       /\ Unlinked(d, c, "binding", s, link)
      BY <3>1 DEF Unbound, found
    <3>3. PICK link \in found : /\ DeviceInv(c) /\ e = [c EXCEPT !.granted = Ungranted(d, link)]
                                /\ Unlinked(d, c, "binding", s, link)
      BY <3>2
    <3> DEFINE g == Ungranted(d, link)
    <3>4. g \in SUBSET Grants
      BY <1>2, <1>3
    <3> HIDE DEF g
    <3>5. SameTables(c, e) /\ e.granted = g
      <4>1. e = [c EXCEPT !.granted = g]
        BY <3>3 DEF g
      <4>2. DeviceInv(c)
        BY <3>3
      <4> QED
        BY <3>4, <4>1, <4>2, GrantKeeps DEF SameTables
    <3>6. UnlinkCall(d, e, s, m, ub)
      BY <1>5, <3>3, <3>5 DEF UnlinkCall, g, found
    <3> QED
      BY <2>1, <3>6
  <2> QED
    BY <2>1, <2>2
<1>6. CASE m.table = "subscription" /\ m.type = "request"
  <2> DEFINE there == There(d, m, ub)
             e == AddLink(d, "subscription", s, m, there)
  <2>1. ProcessDatagram(d, s, m, from, ub) = e
    BY <1>6 DEF ProcessDatagram, HandleMsgSubscriptionCall, AddSubscription, There
  <2>2. there \in BOOLEAN /\ "subscription" \in Tables
    BY <1>1, <1>6 DEF Tables, There
  <2> HIDE DEF there
  <2>3. \/ e = d
        \/ /\ Linked(d, e, "subscription", s, m)
           /\ Exists(d, s, m.client) /\ m.client = m.server /\ ~there
    BY <1>1, <2>2, AddLinkFields
  <2> HIDE DEF e
  <2>4. e = d \/ LinkCall(d, e, s, m, ub)
    BY <1>6, <2>3 DEF LinkCall, SameTables, Linked, there
  <2> QED
    BY <2>1, <2>4
<1>7. CASE m.table = "subscription" /\ m.type = "delete"
  <2> DEFINE e == RemoveLink(d, "subscription", s, m, ub)
             found == Find(d, "subscription", m.server, Address(Filled(d, s, m), m.client), ub)
  <2>1. ProcessDatagram(d, s, m, from, ub) = e
    BY <1>7 DEF ProcessDatagram, HandleMsgSubscriptionCall, RemoveSubscription
  <2>2. "subscription" \in Tables
    BY DEF Tables
  <2>3. e = d \/ \E link \in found : Unlinked(d, e, "subscription", s, link)
    BY <1>1, <2>2, RemoveLinkFields
  <2> HIDE DEF e, found
  <2>4. ASSUME NEW link \in found, Unlinked(d, e, "subscription", s, link)
        PROVE  UnlinkCall(d, e, s, m, ub)
    <3>1. SameTables(e, e) /\ e.granted = d.granted
      BY <2>4 DEF SameTables, Unlinked
    <3> QED
      BY <1>7, <2>4, <3>1 DEF UnlinkCall, found
  <2> QED
    BY <2>1, <2>3, <2>4
<1> QED
  BY <1>1, <1>4, <1>5, <1>6, <1>7

(* An object that was deleted: its device's connection is over, or its     *)
(* entity has been built again.                                            *)
Older(d, c) ==
    \/ d.remotes[c.ski].inc > c.inc
    \/ d.remotes[c.ski].inc = c.inc /\ d.remotes[c.ski].entity[c.feature].gen > c.gen

(* n connections so far: no object is of a later one, and those of lost    *)
(* links were deleted.                                                     *)
Ages(d, n) ==
    /\ \A s \in Skis : Present(d, s) => d.remotes[s].inc <= n
    /\ \A t \in Tables : \A l \in d.links[t] :
          l.client.inc <= n /\ (l.lost /\ Present(d, l.client.ski) => Older(d, l.client))

(* Links have ids of their own, a second link to a feature is one that the *)
(* managers could not tell, and a binding's peer has asked for it.         *)
Writers(d) ==
    /\ \A t \in Tables : \A k, l \in d.links[t] : k.id = l.id => k = l
    /\ \A k, l \in d.links["binding"] : k.server = l.server /\ k.id < l.id => ~l.full
    /\ \A l \in d.links["binding"] :
          l.lost \/ [ski |-> l.client.ski, server |-> l.server, id |-> l.id] \in d.granted
    /\ \A k, l \in d.links["subscription"] :
          ~k.lost /\ ~l.lost /\ k.server = l.server /\ k.client = l.client /\ k.id < l.id => ~l.full

WriterInv(d, n) == Ages(d, n) /\ Writers(d)

(* The types of what is kept of a remote device,                           *)
LEMMA RemoteTypes ==
    ASSUME NEW d \in Devices, NEW s \in Skis, Present(d, s)
    PROVE  /\ d.remotes[s].inc \in Nat /\ d.remotes[s].msg_num \in Nat
           /\ \A f \in Features : d.remotes[s].entity[f].gen \in Nat
  BY DeviceAssumption DEF Devices, Remotes, Present

(* and of the client of a link.                                            *)
LEMMA ClientTypes ==
    ASSUME NEW d \in Devices, NEW t \in Tables, NEW l \in d.links[t]
    PROVE  /\ l.client.ski \in Skis /\ l.client.feature \in Features
           /\ l.client.inc \in Nat /\ l.client.gen \in Nat \ {0}
  BY LinkTypes, DeviceAssumption DEF Objects

(* Links that go, and objects that stay, keep the ages.                    *)
LEMMA AgesSame ==
    ASSUME NEW d \in Devices, NEW e \in Devices, NEW n \in Nat, SameObjects(d, e), Ages(d, n),
           \A t \in Tables : e.links[t] \subseteq d.links[t]
    PROVE  Ages(e, n)
<1>1. \A s \in Skis : Present(e, s) => Present(d, s) /\ e.remotes[s].inc = d.remotes[s].inc
                                       /\ e.remotes[s].entity = d.remotes[s].entity
  BY DEF SameObjects, SamePeers, SameFeatures
<1>2. ASSUME NEW t \in Tables, NEW l \in e.links[t]
      PROVE  l.client.inc <= n /\ (l.lost /\ Present(e, l.client.ski) => Older(e, l.client))
  <2>1. l \in d.links[t] /\ l.client.ski \in Skis
    BY ClientTypes
  <2> QED
    BY <1>1, <2>1 DEF Ages, Older
<1> QED
  BY <1>1, <1>2 DEF Ages

(* Where what is granted stays, too, so do the writers.                    *)
LEMMA WriterSame ==
    ASSUME NEW d \in Devices, NEW e \in Devices, NEW n \in Nat, SameObjects(d, e), WriterInv(d, n),
           \A t \in Tables : e.links[t] \subseteq d.links[t], e.granted = d.granted
    PROVE  WriterInv(e, n)
<1>1. Ages(e, n)
  BY AgesSame DEF WriterInv
<1>2. "binding" \in Tables /\ "subscription" \in Tables
  BY DEF Tables
<1>3. Writers(e)
  BY <1>2 DEF Writers, WriterInv
<1> QED
  BY <1>1, <1>3 DEF WriterInv

(* An operation that leaves the tables and what is granted alone.          *)
LEMMA WriterQuiet ==
    ASSUME NEW d \in Devices, NEW e \in Devices, NEW n \in Nat, SameObjects(d, e), SameLinks(d, e), WriterInv(d, n)
    PROVE  WriterInv(e, n)
  BY WriterSame DEF SameLinks

(* A new link to a feature that has one already was asked for with         *)
(* addresses in which the manager does not find the other.                 *)
LEMMA WriterLinked ==
    ASSUME NEW d, DeviceInv(d), NEW e \in Devices, NEW n \in Nat, NEW s \in Skis,
           NEW m \in Calls, NEW ub, Present(d, s), WriterInv(d, n), LinkCall(d, e, s, m, ub)
    PROVE  WriterInv(e, n)
<1>1. d \in Devices /\ m.table \in Tables /\ m.client \in Features
  BY DEF DeviceInv, Calls
<1> DEFINE new == NewLink(d, m.table, s, m)
<1>2. PICK c : Linked(d, c, m.table, s, m) /\ SameTables(c, e)
  BY DEF LinkCall
<1>3. /\ m.client = m.server /\ ~There(d, m, ub)
      /\ e.granted = IF m.table = "binding" THEN d.granted \cup {Grant(d, s, m)} ELSE d.granted
  BY DEF LinkCall
<1>4. SameObjects(d, e) /\ e.links = [d.links EXCEPT ![m.table] = @ \cup {new}]
  BY <1>2 DEF Linked, SameTables, SameObjects, SamePeers, SameFeatures, Present
<1>5. d.links \in [Tables -> SUBSET Links]
  BY <1>1 DEF Devices
<1>6. /\ new.server = m.server /\ new.lost = FALSE /\ new.client = Feature(d, s, m.client)
      /\ new.id = d.num[m.table] /\ new.full = Full(d, m.table, s, m)
  BY DEF NewLink
<1>7. /\ new.client.ski = s /\ new.client.inc = d.remotes[s].inc
      /\ new.client.feature = m.client /\ new.client.device = d.remotes[s].entity[m.client].device
  BY <1>6 DEF Feature
<1> HIDE DEF new
<1>8. \A t \in Tables : \A l \in e.links[t] : l \in d.links[t] \/ (l = new /\ t = m.table)
  BY <1>1, <1>4, <1>5
<1>9. Ages(e, n)
  <2>1. \A u \in Skis : Present(e, u) => Present(d, u) /\ e.remotes[u].inc = d.remotes[u].inc
                                         /\ e.remotes[u].entity = d.remotes[u].entity
    BY <1>4 DEF SameObjects, SamePeers, SameFeatures
  <2>2. ASSUME NEW t \in Tables, NEW l \in e.links[t]
        PROVE  l.client.inc <= n /\ (l.lost /\ Present(e, l.client.ski) => Older(e, l.client))
    <3>1. CASE l \in d.links[t]
      <4>1. l.client.ski \in Skis
        BY <1>1, <3>1, ClientTypes
      <4> QED
        BY <2>1, <3>1, <4>1 DEF WriterInv, Ages, Older
    <3>2. CASE l = new
      BY <1>6, <1>7, <3>2 DEF WriterInv, Ages
    <3> QED
      BY <1>8, <3>1, <3>2
  <2> QED
    BY <2>1, <2>2 DEF Ages, WriterInv
<1>10. \A t \in Tables : \A l \in d.links[t] : l.id \in Nat /\ d.num[t] \in Nat /\ l.id < d.num[t]
  BY <1>1, LinkTypes DEF DeviceInv, LinkInv
<1>11. \A t \in Tables : \A k, l \in e.links[t] : k.id = l.id => k = l
  <2> SUFFICES ASSUME NEW t \in Tables, NEW k \in e.links[t], NEW l \in e.links[t], k.id = l.id PROVE k = l
    OBVIOUS
  <2>1. (k \in d.links[t] \/ (k = new /\ t = m.table)) /\ (l \in d.links[t] \/ (l = new /\ t = m.table))
    BY <1>8
  <2>2. k \in d.links[t] /\ l \in d.links[t] => k = l
    BY DEF WriterInv, Writers
  <2>3. /\ k \in d.links[t] => k.id < d.num[t] /\ k.id \in Nat /\ d.num[t] \in Nat
        /\ l \in d.links[t] => l.id < d.num[t] /\ l.id \in Nat /\ d.num[t] \in Nat
    BY <1>10
  <2> QED
    BY <1>6, <2>1, <2>2, <2>3
<1>12. "binding" \in Tables /\ "subscription" \in Tables /\ "binding" # "subscription"
  BY DEF Tables
<1>13. CASE m.table = "binding"
  <2>1. new.full => \A l \in d.links["binding"] : l.server # m.server
    BY <1>3, <1>6, <1>13 DEF There, HasServer, Full
  <2>2. e.links["subscription"] \subseteq d.links["subscription"]
        /\ \A l \in e.links["binding"] : l \in d.links["binding"] \/ l = new
    BY <1>8, <1>12, <1>13
  <2>3. [ski |-> new.client.ski, server |-> new.server, id |-> new.id] \in e.granted /\ d.granted \subseteq e.granted
    BY <1>3, <1>6, <1>7, <1>13 DEF Grant
  <2>4. ASSUME NEW k \in e.links["binding"], NEW l \in e.links["binding"], k.server = l.server, k.id < l.id
        PROVE  ~l.full
    <3>1. CASE l \in d.links["binding"]
      <4>1. k # new
        BY <1>6, <1>10, <1>12, <1>13, <2>4, <3>1
      <4> QED
        BY <2>2, <2>4, <3>1, <4>1 DEF WriterInv, Writers
    <3>2. CASE l = new
      <4>1. l.id \in Nat
        BY <1>1, <1>6, <3>2 DEF Devices
      <4>2. k # new
        BY <2>4, <3>2, <4>1
      <4> QED
        BY <1>6, <2>1, <2>2, <2>4, <3>2, <4>2
    <3> QED
      BY <2>2, <3>1, <3>2
  <2>5. ASSUME NEW l \in e.links["binding"]
        PROVE  l.lost \/ [ski |-> l.client.ski, server |-> l.server, id |-> l.id] \in e.granted
    BY <2>2, <2>3 DEF WriterInv, Writers
  <2>6. ASSUME NEW k \in e.links["subscription"], NEW l \in e.links["subscription"],
               ~k.lost, ~l.lost, k.server = l.server, k.client = l.client, k.id < l.id
        PROVE  ~l.full
    BY <2>2, <2>6 DEF WriterInv, Writers
  <2>7. Writers(e)
    BY <1>11, <2>4, <2>5, <2>6 DEF Writers
  <2> QED
    BY <1>9, <2>7 DEF WriterInv
<1>14. CASE m.table = "subscription"
  <2>1. e.links["binding"] \subseteq d.links["binding"] /\ e.granted = d.granted
        /\ \A l \in e.links["subscription"] : l \in d.links["subscription"] \/ l = new
    BY <1>3, <1>8, <1>12, <1>14
  <2>2. ASSUME NEW l \in d.links["subscription"], ~l.lost, l.server = m.server, l.client = new.client, new.full
        PROVE  FALSE
    <3>1. Alive(d, l.client)
      BY <1>12, <2>2 DEF DeviceInv, LinkInv
    <3>2. m.part /\ m.device = new.client.device
      BY <1>6, <1>7, <1>14, <2>2 DEF Full
    <3>3. [device |-> l.client.device, feature |-> l.client.feature] = Address(m.device, m.client)
      BY <1>7, <2>2, <3>2 DEF Address
    <3>4. l \in Find(d, "subscription", m.server, Address(m.device, m.client), ub)
      BY <2>2, <3>1, <3>3 DEF Find
    <3> QED
      BY <1>3, <1>14, <3>2, <3>4 DEF There
  <2>3. ASSUME NEW k \in e.links["subscription"], NEW l \in e.links["subscription"],
               ~k.lost, ~l.lost, k.server = l.server, k.client = l.client, k.id < l.id
        PROVE  ~l.full
    <3>1. CASE l \in d.links["subscription"]
      <4>1. k # new
        BY <1>6, <1>10, <1>12, <1>14, <2>3, <3>1
      <4> QED
        BY <2>1, <2>3, <3>1, <4>1 DEF WriterInv, Writers
    <3>2. CASE l = new
      <4>1. l.id \in Nat
        BY <1>1, <1>6, <3>2 DEF Devices
      <4>2. k # new
        BY <2>3, <3>2, <4>1
      <4> QED
        BY <1>6, <2>1, <2>2, <2>3, <3>2, <4>2
    <3> QED
      BY <2>1, <3>1, <3>2
  <2>4. Writers(e)
    BY <1>11, <2>1, <2>3 DEF Writers, WriterInv
  <2> QED
    BY <1>9, <2>4 DEF WriterInv
<1> QED
  BY <1>1, <1>13, <1>14 DEF Tables

(* A binding goes together with the grant.                                 *)
LEMMA WriterUnlinked ==
    ASSUME NEW d, DeviceInv(d), NEW e \in Devices, NEW n \in Nat, NEW s \in Skis,
           NEW m \in Calls, NEW ub, Present(d, s), WriterInv(d, n), UnlinkCall(d, e, s, m, ub)
    PROVE  WriterInv(e, n)
<1>1. d \in Devices /\ m.table \in Tables
  BY DEF DeviceInv, Calls
<1> DEFINE found == Find(d, m.table, m.server, Address(Filled(d, s, m), m.client), ub)
<1>2. PICK c, link : /\ link \in found /\ Unlinked(d, c, m.table, s, link) /\ SameTables(c, e)
                     /\ e.granted = IF m.table = "binding" THEN Ungranted(d, link) ELSE d.granted
  BY DEF UnlinkCall
<1>3. SameObjects(d, e) /\ e.links = [d.links EXCEPT ![m.table] = @ \ {link}]
  BY <1>2 DEF Unlinked, SameTables, SameObjects, SamePeers, SameFeatures, Present
<1>4. d.links \in [Tables -> SUBSET Links]
  BY <1>1 DEF Devices
<1>5. \A t \in Tables : e.links[t] \subseteq d.links[t]
  BY <1>1, <1>3, <1>4
<1>6. CASE m.table = "subscription"
  BY <1>1, <1>2, <1>3, <1>5, <1>6, WriterSame
<1>7. CASE m.table = "binding"
  <2>1. link \in d.links["binding"]
    BY <1>2, <1>7 DEF Find
  <2>2. e.links["binding"] = d.links["binding"] \ {link}
    BY <1>1, <1>3, <1>4, <1>7
  <2>3. "binding" \in Tables /\ "subscription" \in Tables
    BY DEF Tables
  <2>4. ASSUME NEW l \in e.links["binding"]
        PROVE  l.lost \/ [ski |-> l.client.ski, server |-> l.server, id |-> l.id] \in e.granted
    <3>1. l \in d.links["binding"] /\ l # link
      BY <2>2
    <3>2. l.id # link.id
      BY <2>1, <2>3, <3>1 DEF WriterInv, Writers
    <3>3. l.lost \/ [ski |-> l.client.ski, server |-> l.server, id |-> l.id] \in d.granted
      BY <3>1 DEF WriterInv, Writers
    <3> QED
      BY <1>2, <1>7, <3>2, <3>3 DEF Ungranted
  <2>5. Writers(e)
    BY <1>5, <2>3, <2>4 DEF Writers, WriterInv
  <2>6. Ages(e, n)
    BY <1>1, <1>3, <1>5, AgesSame DEF WriterInv
  <2> QED
    BY <2>5, <2>6 DEF WriterInv
<1> QED
  BY <1>1, <1>6, <1>7 DEF Tables

(* Entities that are built again: the links to the old objects are lost.   *)
LEMMA WriterRebuilt ==
    ASSUME NEW d \in Devices, NEW e, NEW n \in Nat, NEW s \in Skis, NEW from \in Skis, NEW fs \in SUBSET Features, Present(d, s),
           Rebuilt(d, e, s, from, fs), WriterInv(d, n)
    PROVE  WriterInv(e, n)
<1> DEFINE old == Old(d, s, fs)
<1>1. /\ e \in Devices /\ SamePeers(d, e) /\ e.granted = d.granted
      /\ \A t \in Tables : e.links[t] = {Marked(l, old) : l \in d.links[t]}
  BY DEF Rebuilt
<1>2. ASSUME NEW u \in Skis, Present(e, u)
      PROVE  /\ Present(d, u) /\ e.remotes[u].inc = d.remotes[u].inc
             /\ \A f \in Features : e.remotes[u].entity[f].gen >= d.remotes[u].entity[f].gen
  <2>1. Present(d, u) /\ e.remotes[u].inc = d.remotes[u].inc
    BY <1>1, <1>2 DEF SamePeers
  <2>2. ASSUME NEW f \in Features PROVE e.remotes[u].entity[f].gen >= d.remotes[u].entity[f].gen
    <3>1. d.remotes[u].entity[f].gen \in Nat
      BY <2>1, RemoteTypes
    <3>2. CASE u # s
      <4>1. e.remotes[u] = d.remotes[u]
        BY <3>2 DEF Rebuilt
      <4> QED
        BY <3>1, <4>1
    <3>3. CASE u = s
      <4>1. e.remotes[s].entity[f] = Entity(d, s, from, fs, f)
        BY DEF Rebuilt
      <4>2. Entity(d, s, from, fs, f).gen \in {d.remotes[s].entity[f].gen, d.remotes[s].entity[f].gen + 1}
        BY DEF Entity
      <4> QED
        BY <3>1, <3>3, <4>1, <4>2
    <3> QED
      BY <3>2, <3>3
  <2> QED
    BY <2>1, <2>2
<1>3. ASSUME NEW f \in fs
      PROVE  e.remotes[s].entity[f].gen > d.remotes[s].entity[f].gen
  <2>1. f \in Features /\ d.remotes[s].entity[f].gen \in Nat
    BY RemoteTypes
  <2>2. e.remotes[s].entity[f] = Entity(d, s, from, fs, f)
    BY <2>1 DEF Rebuilt
  <2>3. Entity(d, s, from, fs, f).gen = d.remotes[s].entity[f].gen + 1
    BY DEF Entity
  <2> QED
    BY <2>1, <2>2, <2>3
<1>4. ASSUME NEW t \in Tables, NEW k \in d.links[t]
      PROVE  /\ Marked(k, old).client = k.client /\ Marked(k, old).server = k.server
             /\ Marked(k, old).id = k.id /\ Marked(k, old).full = k.full
             /\ Marked(k, old).lost <=> (k.lost \/ k.client \in old)
  <2>1. k \in Links
    BY LinkTypes
  <2> QED
    BY <2>1 DEF Marked, Links
<1>5. Ages(e, n)
  <2>1. ASSUME NEW t \in Tables, NEW l \in e.links[t]
        PROVE  l.client.inc <= n /\ (l.lost /\ Present(e, l.client.ski) => Older(e, l.client))
    <3>1. PICK k \in d.links[t] : l = Marked(k, old)
      BY <1>1
    <3>2. l.client = k.client /\ (l.lost <=> (k.lost \/ k.client \in old))
      BY <1>4, <3>1
    <3> HIDE DEF old
    <3>3. /\ k.client.ski \in Skis /\ k.client.feature \in Features
          /\ k.client.inc \in Nat /\ k.client.gen \in Nat
      BY ClientTypes
    <3>4. k.client.inc <= n /\ (k.lost /\ Present(d, k.client.ski) => Older(d, k.client))
      BY DEF WriterInv, Ages
    <3>5. ASSUME l.lost, Present(e, l.client.ski) PROVE Older(e, k.client)
      <4> DEFINE u == k.client.ski
                 f == k.client.feature
      <4>1. /\ Present(d, u) /\ e.remotes[u].inc = d.remotes[u].inc
            /\ e.remotes[u].entity[f].gen >= d.remotes[u].entity[f].gen
        BY <1>2, <3>2, <3>3, <3>5
      <4>2. /\ d.remotes[u].inc \in Nat /\ d.remotes[u].entity[f].gen \in Nat
            /\ e.remotes[u].entity[f].gen \in Nat
        BY <1>1, <3>2, <3>3, <3>5, <4>1, RemoteTypes
      <4>3. CASE k.lost
        <5>1. Older(d, k.client)
          BY <3>4, <4>1, <4>3
        <5>2. \/ d.remotes[u].inc > k.client.inc
              \/ d.remotes[u].inc = k.client.inc /\ d.remotes[u].entity[f].gen > k.client.gen
          BY <5>1 DEF Older
        <5> HIDE DEF u, f
        <5>3. \/ e.remotes[u].inc > k.client.inc
              \/ e.remotes[u].inc = k.client.inc /\ e.remotes[u].entity[f].gen > k.client.gen
          BY <3>3, <4>1, <4>2, <5>2
        <5> QED
          BY <5>3 DEF Older, u, f
      <4>4. CASE k.client \in old
        <5>1. PICK g \in fs : k.client = Feature(d, s, g)
          BY <4>4 DEF old, Old
        <5>2. u = s /\ f = g /\ k.client.inc = d.remotes[s].inc /\ k.client.gen = d.remotes[s].entity[g].gen
          BY <5>1 DEF Feature
        <5>3. e.remotes[s].entity[g].gen > d.remotes[s].entity[g].gen
          BY <1>3
        <5> HIDE DEF u, f
        <5>4. e.remotes[s].inc = k.client.inc /\ e.remotes[s].entity[g].gen > k.client.gen
          BY <4>1, <5>2, <5>3
        <5> QED
          BY <5>2, <5>4 DEF Older, u, f
      <4> QED
        BY <3>2, <3>5, <4>3, <4>4
    <3> QED
      BY <3>2, <3>4, <3>5
  <2> QED
    BY <1>2, <2>1 DEF Ages, WriterInv
<1>6. Writers(e)
  <2>1. "binding" \in Tables /\ "subscription" \in Tables
    BY DEF Tables
  <2>2. \A t \in Tables : \A l \in e.links[t] : \E k \in d.links[t] :
            /\ l = Marked(k, old) /\ l.client = k.client /\ l.server = k.server /\ l.id = k.id
            /\ l.full = k.full /\ (k.lost => l.lost)
    BY <1>1, <1>4
  <2> HIDE DEF old
  <2>3. ASSUME NEW t \in Tables, NEW k \in e.links[t], NEW l \in e.links[t], k.id = l.id PROVE k = l
    <3>1. PICK k1 \in d.links[t] : k = Marked(k1, old) /\ k.id = k1.id
      BY <2>2
    <3>2. PICK l1 \in d.links[t] : l = Marked(l1, old) /\ l.id = l1.id
      BY <2>2
    <3>3. k1 = l1
      BY <2>3, <3>1, <3>2 DEF Writers, WriterInv
    <3> QED
      BY <3>1, <3>2, <3>3
  <2>4. ASSUME NEW l \in e.links["binding"], ~l.lost
        PROVE  [ski |-> l.client.ski, server |-> l.server, id |-> l.id] \in e.granted
    <3>1. PICK k \in d.links["binding"] :
              l.client = k.client /\ l.server = k.server /\ l.id = k.id /\ (k.lost => l.lost)
      BY <2>1, <2>2
    <3> QED
      BY <1>1, <2>4, <3>1 DEF Writers, WriterInv
  <2>5. ASSUME NEW k \in e.links["binding"], NEW l \in e.links["binding"], k.server = l.server, k.id < l.id
        PROVE  ~l.full
    <3>1. PICK k1 \in d.links["binding"] : k.server = k1.server /\ k.id = k1.id
      BY <2>1, <2>2
    <3>2. PICK l1 \in d.links["binding"] : l.server = l1.server /\ l.id = l1.id /\ l.full = l1.full
      BY <2>1, <2>2
    <3> QED
      BY <2>5, <3>1, <3>2 DEF Writers, WriterInv
  <2>6. ASSUME NEW k \in e.links["subscription"], NEW l \in e.links["subscription"],
               ~k.lost, ~l.lost, k.server = l.server, k.client = l.client, k.id < l.id
        PROVE  ~l.full
    <3>1. PICK k1 \in d.links["subscription"] :
              k.client = k1.client /\ k.server = k1.server /\ k.id = k1.id /\ (k1.lost => k.lost)
      BY <2>1, <2>2
    <3>2. PICK l1 \in d.links["subscription"] :
              /\ l.client = l1.client /\ l.server = l1.server /\ l.id = l1.id
              /\ l.full = l1.full /\ (l1.lost => l.lost)
      BY <2>1, <2>2
    <3>3. ~k1.lost /\ ~l1.lost /\ k1.server = l1.server /\ k1.client = l1.client /\ k1.id < l1.id
      BY <2>6, <3>1, <3>2
    <3> QED
      BY <3>2, <3>3 DEF Writers, WriterInv
  <2> QED
    BY <2>3, <2>4, <2>5, <2>6 DEF Writers
<1> QED
  BY <1>5, <1>6 DEF WriterInv

(* A peer that goes takes its bindings along with what it was granted.     *)
LEMMA WriterGone ==
    ASSUME NEW d, DeviceInv(d), NEW c, NEW n \in Nat, NEW s \in Skis, Gone(d, c, s), WriterInv(d, n)
    PROVE  WriterInv(c, n)
<1> SUFFICES ASSUME Present(d, s), Removed(d, c, s) PROVE WriterInv(c, n)
  BY DEF Gone
<1>1. /\ d \in Devices /\ c.granted = {g \in d.granted : g.ski # s}
      /\ \A t \in Tables : c.links[t] \subseteq d.links[t]
      /\ \A t \in Tables : \A l \in d.links[t] :
            Alive(d, l.client) => (l \in c.links[t] <=> ~EntityMatch(d, s, l.client))
  BY DEF DeviceInv, Removed
<1>2. d.remotes \in [Skis -> Remotes \cup {None}] /\ c.remotes = [d.remotes EXCEPT ![s] = None]
  BY <1>1 DEF Devices, Removed
<1>3. \A u \in Skis : Present(c, u) => u # s /\ Present(d, u) /\ c.remotes[u] = d.remotes[u]
  BY <1>2 DEF Present
<1>4. Ages(c, n)
  <2>1. ASSUME NEW t \in Tables, NEW l \in c.links[t]
        PROVE  l.client.inc <= n /\ (l.lost /\ Present(c, l.client.ski) => Older(c, l.client))
    <3>1. l \in d.links[t] /\ l.client.ski \in Skis
      BY <1>1, ClientTypes
    <3> QED
      BY <1>3, <3>1 DEF WriterInv, Ages, Older
  <2> QED
    BY <1>3, <2>1 DEF Ages, WriterInv
<1>5. ASSUME NEW l \in c.links["binding"], ~l.lost
      PROVE  [ski |-> l.client.ski, server |-> l.server, id |-> l.id] \in c.granted
  <2>1. "binding" \in Tables
    BY DEF Tables
  <2>2. l \in d.links["binding"] /\ l.client.feature \in Features /\ l.client.gen # 0
    BY <1>1, <2>1, ClientTypes
  <2>3. Alive(d, l.client) /\ ~EntityMatch(d, s, l.client)
    BY <1>1, <1>5, <2>1, <2>2 DEF DeviceInv, LinkInv
  <2>4. l.client.ski # s
    BY <2>2, <2>3 DEF Alive, EntityMatch, Exists, Feature
  <2>5. [ski |-> l.client.ski, server |-> l.server, id |-> l.id] \in d.granted
    BY <1>5, <2>2 DEF Writers, WriterInv
  <2> QED
    BY <1>1, <2>4, <2>5
<1>6. "binding" \in Tables /\ "subscription" \in Tables
  BY DEF Tables
<1>7. Writers(c)
  BY <1>1, <1>5, <1>6 DEF Writers, WriterInv
<1> QED
  BY <1>4, <1>7 DEF WriterInv

(* A new incarnation of a device has no link of the old one.               *)
LEMMA WriterSetup ==
    ASSUME NEW d, DeviceInv(d), NEW e, NEW s \in Skis, NEW p, count.connects \in Nat,
           Setup(d, e, s, p), WriterInv(d, count.connects)
    PROVE  WriterInv(e, count.connects + 1)
<1>1. PICK c, b : /\ Gone(d, c, s)
                  /\ Added(c, b, s, p) /\ DeviceInv(b) /\ Present(b, s)
                  /\ e = Request(b, s, "discovery")
  BY DEF Setup
<1> DEFINE n == count.connects
<1>2. WriterInv(c, n) /\ c \in Devices
  BY <1>1, WriterGone DEF Gone, DeviceInv
<1>3. c.remotes \in [Skis -> Remotes \cup {None}]
  BY <1>2 DEF Devices
<1>4. /\ b \in Devices /\ b.links = c.links /\ b.granted = c.granted
      /\ b.remotes[s] = NewDevice(p) /\ \A t \in Skis : t # s => b.remotes[t] = c.remotes[t]
  BY <1>1, <1>3 DEF Added
<1>5. b.remotes[s].inc = n + 1
  BY <1>4, NewDeviceFields
<1>6. Ages(b, n + 1)
  <2>1. ASSUME NEW u \in Skis, Present(b, u) PROVE b.remotes[u].inc <= n + 1
    <3>1. CASE u # s
      <4>1. Present(c, u) /\ b.remotes[u] = c.remotes[u] /\ c.remotes[u].inc \in Nat
        BY <1>2, <1>4, <2>1, <3>1, RemoteTypes DEF Present
      <4> QED
        BY <1>2, <4>1 DEF WriterInv, Ages
    <3> QED
      BY <1>5, <3>1
  <2>2. ASSUME NEW t \in Tables, NEW l \in b.links[t]
        PROVE  l.client.inc <= n + 1 /\ (l.lost /\ Present(b, l.client.ski) => Older(b, l.client))
    <3>1. l \in c.links[t] /\ l.client.ski \in Skis /\ l.client.inc \in Nat
      BY <1>4, ClientTypes
    <3>2. l.client.inc <= n /\ (l.lost /\ Present(c, l.client.ski) => Older(c, l.client))
      BY <1>2, <3>1 DEF WriterInv, Ages
    <3>3. CASE l.client.ski = s
      BY <1>5, <3>1, <3>2, <3>3 DEF Older
    <3>4. CASE l.client.ski # s
      BY <1>4, <3>1, <3>2, <3>4 DEF Older, Present
    <3> QED
      BY <3>3, <3>4
  <2> QED
    BY <2>1, <2>2 DEF Ages
<1>7. WriterInv(b, n + 1)
  BY <1>2, <1>4, <1>6 DEF WriterInv, Writers
<1>8. e \in Devices /\ SameObjects(b, e) /\ SameLinks(b, e)
  BY <1>1, <1>4, RequestFields DEF Kinds
<1>9. n + 1 \in Nat
  OBVIOUS
<1> HIDE DEF n
<1>10. WriterInv(e, n + 1)
  BY <1>4, <1>7, <1>8, <1>9, WriterQuiet
<1> QED
  BY <1>10 DEF n

(* A reply keeps the writers granted: links of entities that are built     *)
(* anew go first.                                                          *)
LEMMA WriterReply ==
    ASSUME NEW d, DeviceInv(d), NEW s \in Skis, NEW m \in Replies, NEW from \in Skis, NEW ub, Present(d, s),
           NEW n \in Nat, WriterInv(d, n)
    PROVE  WriterInv(ProcessDatagram(d, s, m, from, ub), n)
<1> DEFINE e == ProcessDatagram(d, s, m, from, ub)
<1> SUFFICES WriterInv(e, n)
  OBVIOUS
<1>1. d \in Devices /\ m.msg_cnt \in Nat
  BY DEF DeviceInv, Replies
<1>2. \/ e = Process(d, s, m.msg_cnt)
      \/ e = d
      \/ Discovered(d, e, s, from, {"NodeManagement"})
      \/ \E c : Discovered(d, c, s, from, Features) /\ e = Process(c, s, m.msg_cnt)
  BY ReplyCases
<1> HIDE DEF e
<1>3. CASE e = Process(d, s, m.msg_cnt)
  <2>1. e \in Devices /\ SameObjects(d, e) /\ SameLinks(d, e)
    BY <1>1, <1>3, ProcessFields
  <2> QED
    BY <1>1, <2>1, WriterQuiet
<1>4. CASE Discovered(d, e, s, from, {"NodeManagement"})
  <2>1. {"NodeManagement"} \in SUBSET Features
    BY DEF Features
  <2> QED
    BY <1>1, <1>4, <2>1, WriterRebuilt DEF Discovered
<1>5. ASSUME NEW c, Discovered(d, c, s, from, Features), e = Process(c, s, m.msg_cnt)
      PROVE  WriterInv(e, n)
  <2>1. c \in Devices /\ Present(c, s) /\ Rebuilt(d, c, s, from, Features)
    BY <1>5 DEF Discovered, Rebuilt
  <2>2. WriterInv(c, n)
    BY <1>1, <2>1, WriterRebuilt
  <2>3. e \in Devices /\ SameObjects(c, e) /\ SameLinks(c, e)
    BY <1>1, <1>5, <2>1, ProcessFields
  <2> QED
    BY <2>1, <2>2, <2>3, WriterQuiet
<1> QED
  BY <1>2, <1>3, <1>4, <1>5

(* Every step keeps them so.                                               *)
LEMMA WriterNext ==
    ASSUME TypeInv, TypeInv', WriterInv(dl, count.connects), [Next]_vars
    PROVE  WriterInv(dl', count'.connects)
<1>0. /\ DeviceInv(dl) /\ dl \in Devices /\ dl' \in Devices
      /\ count.connects \in Nat
  BY DeviceAssumption DEF TypeInv, DeviceInv
<1> DEFINE n == count.connects
<1>1. ASSUME NEW s \in Skis, Connect(s) PROVE WriterInv(dl', count'.connects)
  <2>1. PICK p \in Ptrs \ Used(dl), ub \in SUBSET Dangling(dl) : dl' = SetupRemoteDevice(dl, s, p, ub)
    BY <1>1 DEF Connect
  <2>2. count.connects \in 0..(MaxConnects - 1) /\ count'.connects = n + 1
    BY <1>1, DeviceAssumption DEF Connect, TypeInv
  <2>3. Setup(dl, dl', s, p)
    BY <1>0, <2>1, <2>2, SetupStages
  <2> QED
    BY <1>0, <2>2, <2>3, WriterSetup
<1>2. ASSUME NEW s \in Skis, Disconnect(s) PROVE WriterInv(dl', n)
  <2>1. PICK ub \in SUBSET Dangling(dl) : dl' = RemoveRemoteDevice(dl, s, ub)
    BY <1>2 DEF Disconnect
  <2>2. Gone(dl, dl', s)
    BY <1>0, <2>1, RemoveGone
  <2> QED
    BY <1>0, <2>2, WriterGone
<1>3. ASSUME SameObjects(dl, dl'), SameLinks(dl, dl') PROVE WriterInv(dl', n)
  BY <1>0, <1>3, WriterQuiet
<1>4. ASSUME NEW s \in Skis, ReceiveReply(s) PROVE WriterInv(dl', n)
  <2>1. dl'.remotes = dl.remotes /\ SameLinks(dl, dl')
    BY <1>0, <1>4 DEF ReceiveReply, Devices, SameLinks
  <2>2. SameObjects(dl, dl')
    <3>1. SameObjects(dl, dl)
      BY <1>0, SameSelf
    <3> QED
      BY <2>1, <3>1 DEF SameObjects, SamePeers, SameFeatures, Present
  <2> QED
    BY <1>3, <2>1, <2>2
<1>5. ASSUME NEW f \in Features, NotifySubscribers(f) PROVE WriterInv(dl', n)
  <2>1. IsFiniteSet(dl.links["subscription"])
    BY <1>0 DEF DeviceInv, LinkInv, Tables
  <2> QED
    BY <1>0, <1>3, <1>5, <2>1, PublishFields DEF NotifySubscribers
<1>6. ASSUME HandleTick PROVE WriterInv(dl', n)
  <2>1. PICK k \in 0..Len(dl.pending) : dl' = Tick(dl, k)
    BY <1>6 DEF HandleTick
  <2> QED
    BY <1>0, <1>3, <2>1, TickFields
<1>7. ASSUME dl' = dl PROVE WriterInv(dl', n)
  BY <1>7
<1>8. ASSUME HandleDatagram PROVE WriterInv(dl', n)
  <2>1. ASSUME NEW s \in Skis, NEW m \in Datagrams, NEW from \in Skis, NEW ub, Taken(s, m, from, ub)
        PROVE  WriterInv(dl', n)
    <3>1. Present(dl, s) /\ dl' = ProcessDatagram(dl, s, m, from, ub)
      BY <2>1 DEF Taken
    <3>2. CASE m.type = "read"
      <4>1. dl' = Send(dl, s)
        BY <3>1, <3>2 DEF ProcessDatagram
      <4> QED
        BY <1>0, <1>3, <3>1, <4>1, SendFields
    <3>3. CASE m \in Replies
      BY <1>0, <3>1, <3>3, WriterReply
    <3>4. CASE m \in Calls
      <4>1. dl' = dl \/ LinkCall(dl, dl', s, m, ub) \/ UnlinkCall(dl, dl', s, m, ub)
        BY <1>0, <3>1, <3>4, CallCases
      <4> QED
        BY <1>0, <1>7, <3>1, <3>4, <4>1, WriterLinked, WriterUnlinked
    <3> QED
      BY <3>2, <3>3, <3>4, DatagramKinds
  <2> QED
    BY <1>0, <1>7, <1>8, <2>1, TakenCases
<1>9. CASE \/ PostTick
           \/ \E s \in Skis : Close(s) \/ ReceiveCall(s)
  BY <1>7, <1>9 DEF PostTick, Close, ReceiveCall, TypeInv
<1>10. CASE UNCHANGED vars
  BY <1>7, <1>10 DEF vars
<1>11. \A s \in Skis : Disconnect(s) \/ ReceiveReply(s) \/ ReceiveCall(s) \/ Close(s)
                         => count'.connects = count.connects
  BY DEF Disconnect, ReceiveReply, ReceiveCall, Close, Receive, TypeInv
<1>12. PostTick \/ HandleTick \/ HandleDatagram \/ (UNCHANGED vars) \/ (\E f \in Features : NotifySubscribers(f))
         => count'.connects = count.connects
  BY DEF PostTick, HandleTick, HandleDatagram, NotifySubscribers, vars, TypeInv
<1> QED
  BY <1>1, <1>2, <1>4, <1>5, <1>6, <1>8, <1>9, <1>10, <1>11, <1>12 DEF Next

(* A link that leads to an object that is there is not lost, so that who   *)
(* has a binding was granted it.                                           *)
LEMMA WriterImplies ==
    ASSUME TypeInv, WriterInv(dl, count.connects)
    PROVE  OneWriterAsked
<1>0. DeviceInv(dl) /\ dl \in Devices
  BY DEF TypeInv, DeviceInv
<1>1. OneLink
  BY DEF OneLink, WriterInv, Writers
<1>2. ASSUME NEW s \in Skis, NEW f \in Features, Present(dl, s), HasBinding(dl, s, f),
             \A t \in Skis \ {s} :
                Present(dl, t) => dl.remotes[t].entity[f].device # dl.remotes[s].entity[f].device
      PROVE  \E g \in dl.granted : g.ski = s /\ g.server = f
  <2>1. PICK l \in dl.links["binding"] \ Dangling(dl) :
          /\ l.server = f /\ l.client.feature = f
          /\ l.client.device = dl.remotes[s].entity[f].device
    BY <1>2 DEF HasBinding
  <2>2. "binding" \in Tables
    BY DEF Tables
  <2>3. Alive(dl, l.client)
    BY <2>1, <2>2 DEF Dangling
  <2> DEFINE c == l.client
             u == c.ski
  <2>4. /\ u \in Skis /\ c.feature \in Features /\ c.inc \in Nat /\ c.gen \in Nat
    BY <1>0, <2>1, <2>2, ClientTypes
  <2>5. /\ Present(dl, u) /\ c.inc = dl.remotes[u].inc /\ c.gen = dl.remotes[u].entity[c.feature].gen
        /\ c.device = dl.remotes[u].entity[c.feature].device
    <3>1. Present(dl, u) /\ c = Feature(dl, u, c.feature)
      BY <2>3 DEF Alive
    <3> HIDE DEF c
    <3> QED
      BY <3>1 DEF Feature
  <2>6. ~l.lost
    <3>1. l.lost => Older(dl, c)
      BY <2>1, <2>2, <2>5 DEF WriterInv, Ages
    <3> HIDE DEF c, u
    <3>2. ~Older(dl, c)
      BY <2>4, <2>5 DEF Older, u
    <3> QED
      BY <3>1, <3>2
  <2>7. u = s
    <3>1. dl.remotes[u].entity[f].device = dl.remotes[s].entity[f].device
      BY <2>1, <2>5
    <3> HIDE DEF u
    <3> QED
      BY <1>2, <2>4, <2>5, <3>1
  <2>8. [ski |-> l.client.ski, server |-> l.server, id |-> l.id] \in dl.granted
    BY <2>1, <2>6 DEF WriterInv, Writers
  <2> QED
    BY <2>1, <2>7, <2>8
<1>3. WriterAsked
  BY <1>2 DEF WriterAsked
<1> QED
  BY <1>1, <1>3 DEF OneWriterAsked

(* Initially nobody writes.                                                *)
LEMMA WriterInit == Init => WriterInv(dl, count.connects)
<1> SUFFICES ASSUME Init PROVE WriterInv(dl, count.connects)
  OBVIOUS
<1>1. (\A s \in Skis : ~Present(dl, s)) /\ \A t \in Tables : dl.links[t] = {}
  BY DEF Init, Present
<1>2. dl.links["binding"] = {} /\ dl.links["subscription"] = {}
  BY <1>1 DEF Tables
<1> QED
  BY <1>1, <1>2 DEF WriterInv, Ages, Writers

(* Whatever addresses requests name and malloc reuses: a feature gets a    *)
(* second binding, or a client a second subscription, only by a request    *)
(* whose addresses are not the link's own, and who may write               *)
(* (binding_manager.c HasBinding, asked by ProcessCmd) was granted it on   *)
(* the present connection, unless another device has its address.          *)
THEOREM BindingsGranted == Spec => []OneWriterAsked
<1> DEFINE Inv == WriterInv(dl, count.connects)
<1>1. TypeInv /\ TypeInv' /\ Inv /\ [Next]_vars => Inv'
  BY WriterNext
<1>2. Spec => []TypeInv
  BY TypeInit, TypeNext, PTL DEF Spec
<1>3. Init => Inv
  BY WriterInit
<1>4. TypeInv /\ Inv => OneWriterAsked
  BY WriterImplies
<1> HIDE DEF Inv
<1> QED
  BY <1>1, <1>2, <1>3, <1>4, PTL DEF Spec

-----------------------------------------------------------------------------
(* Links.                                                                  *)

(* The connection of a peer ends whose device has the address of object c. *)
Ends(d, e, s, c) ==
    /\ Present(d, s) /\ (Present(e, s) => e.remotes[s].inc # d.remotes[s].inc)
    /\ s = c.ski \/ d.remotes[s].entity[c.feature].device = c.device

(* The message that is taken is a call that deletes link l.                *)
Called(d, t, l) ==
    msg_queue # <<>> /\ msg_queue' = Tail(msg_queue) /\ Deletes(d, Head(msg_queue), t, l)

(* The step from d to e of KnownLinksKept.                                 *)
Kept(d, e) ==
    \A t \in Tables : \A l \in d.links[t] :
        \/ \E k \in e.links[t] : k.id = l.id
        \/ l.lost
        \/ Called(d, t, l)
        \/ \E s \in Skis : Ends(d, e, s, l.client)

(* Where no link goes, the links of the others are kept,                   *)
LEMMA KeptLinks ==
    ASSUME NEW d, NEW e, \A t \in Tables : d.links[t] \subseteq e.links[t]
    PROVE  Kept(d, e)
  BY DEF Kept

(* where a device goes, those of devices with other addresses,             *)
LEMMA KeptGone ==
    ASSUME NEW d, DeviceInv(d), NEW e, NEW c, NEW s \in Skis, Gone(d, c, s), e.links = c.links,
           Present(d, s) => (Present(e, s) => e.remotes[s].inc # d.remotes[s].inc)
    PROVE  Kept(d, e)
<1> SUFFICES ASSUME NEW t \in Tables, NEW l \in d.links[t], ~l.lost, l \notin e.links[t]
             PROVE  Ends(d, e, s, l.client)
  BY DEF Kept
<1>1. Present(d, s) /\ Removed(d, c, s)
  BY DEF Gone
<1>2. Alive(d, l.client)
  BY DEF DeviceInv, LinkInv
<1>3. EntityMatch(d, s, l.client)
  BY <1>1, <1>2 DEF Removed
<1> QED
  BY <1>1, <1>3 DEF Ends, EntityMatch

(* when a peer calls, all but the one that it names,                       *)
LEMMA KeptCall ==
    ASSUME DeviceInv(dl), NEW s \in Skis, NEW m \in Calls, NEW from \in Skis, NEW ub, Taken(s, m, from, ub)
    PROVE  Kept(dl, dl')
<1>1. m.table \in Tables /\ dl \in Devices /\ Present(dl, s)
  BY DEF Calls, DeviceInv, Taken
<1>2. dl.links \in [Tables -> SUBSET Links]
  BY <1>1 DEF Devices
<1>3. dl' = dl \/ LinkCall(dl, dl', s, m, ub) \/ UnlinkCall(dl, dl', s, m, ub)
  BY <1>1, CallCases DEF Taken
<1>4. CASE dl' = dl
  BY <1>4, KeptLinks
<1>5. CASE LinkCall(dl, dl', s, m, ub)
  <2>1. PICK c : Linked(dl, c, m.table, s, m) /\ SameTables(c, dl')
    BY <1>5 DEF LinkCall
  <2>2. dl'.links = [dl.links EXCEPT ![m.table] = @ \cup {NewLink(dl, m.table, s, m)}]
    BY <2>1 DEF Linked, SameTables
  <2>3. \A t \in Tables : dl.links[t] \subseteq dl'.links[t]
    BY <1>1, <1>2, <2>2
  <2> QED
    BY <2>3, KeptLinks
<1>6. CASE UnlinkCall(dl, dl', s, m, ub)
  <2> DEFINE found == Find(dl, m.table, m.server, Address(Filled(dl, s, m), m.client), ub)
  <2>1. PICK c, link : /\ link \in found /\ m.type = "delete"
                       /\ Unlinked(dl, c, m.table, s, link) /\ SameTables(c, dl')
    BY <1>6 DEF UnlinkCall
  <2>2. dl'.links = [dl.links EXCEPT ![m.table] = @ \ {link}]
    BY <2>1 DEF Unlinked, SameTables
  <2> SUFFICES ASSUME NEW t \in Tables, NEW l \in dl.links[t], ~l.lost, l \notin dl'.links[t]
               PROVE  Called(dl, t, l)
    BY DEF Kept
  <2>3. l = link /\ t = m.table
    BY <1>1, <1>2, <2>2
  <2>4. Alive(dl, l.client)
    BY DEF DeviceInv, LinkInv
  <2>5. /\ l.server = m.server
        /\ [device |-> l.client.device, feature |-> l.client.feature] = Address(Filled(dl, s, m), m.client)
    BY <2>1, <2>3, <2>4 DEF Find
  <2>6. l.client.device = Filled(dl, s, m) /\ l.client.feature = m.client
    BY <2>5 DEF Address
  <2> HIDE DEF found
  <2>7. /\ Head(msg_queue).type = "data" /\ Head(msg_queue).ptr = dl.remotes[s].ptr /\ Head(msg_queue).msg = m
    BY DEF Taken
  <2>8. Deletes(dl, Head(msg_queue), t, l)
    BY <1>1, <2>1, <2>3, <2>5, <2>6, <2>7 DEF Deletes, Filled
  <2> QED
    BY <2>8 DEF Called, Taken
<1> QED
  BY <1>3, <1>4, <1>5, <1>6

(* when it answers,                                                        *)
LEMMA KeptReply ==
    ASSUME NEW d, DeviceInv(d), NEW s \in Skis, NEW m \in Replies, NEW from \in Skis, NEW ub, Present(d, s)
    PROVE  Kept(d, ProcessDatagram(d, s, m, from, ub))
<1> DEFINE e == ProcessDatagram(d, s, m, from, ub)
<1> SUFFICES Kept(d, e)
  OBVIOUS
<1>1. d \in Devices /\ m.msg_cnt \in Nat
  BY DEF DeviceInv, Replies
<1>2. \/ e = Process(d, s, m.msg_cnt)
      \/ e = d
      \/ Discovered(d, e, s, from, {"NodeManagement"})
      \/ \E c : Discovered(d, c, s, from, Features) /\ e = Process(c, s, m.msg_cnt)
  BY ReplyCases
<1> HIDE DEF e
<1>3. ASSUME NEW c, NEW fs, Rebuilt(d, c, s, from, fs), e.links = c.links
      PROVE  Kept(d, e)
  <2> SUFFICES ASSUME NEW t \in Tables, NEW l \in d.links[t]
               PROVE  \E k \in e.links[t] : k.id = l.id
    BY DEF Kept
  <2>1. Marked(l, Old(d, s, fs)) \in e.links[t]
    BY <1>3 DEF Rebuilt
  <2>2. l \in Links
    BY <1>1, LinkTypes
  <2>3. Marked(l, Old(d, s, fs)).id = l.id
    BY <2>2 DEF Marked, Links
  <2> QED
    BY <2>1, <2>3
<1>4. CASE e = Process(d, s, m.msg_cnt)
  <2>1. e.links = d.links
    BY <1>1, <1>4, ProcessFields DEF SameLinks
  <2> QED
    BY <2>1, KeptLinks
<1>5. CASE e = d
  BY <1>5, KeptLinks
<1>6. CASE Discovered(d, e, s, from, {"NodeManagement"})
  BY <1>3, <1>6 DEF Discovered
<1>7. ASSUME NEW c, Discovered(d, c, s, from, Features), e = Process(c, s, m.msg_cnt)
      PROVE  Kept(d, e)
  <2>1. c \in Devices /\ Present(c, s) /\ Rebuilt(d, c, s, from, Features)
    BY <1>7 DEF Discovered, Rebuilt
  <2>2. e.links = c.links
    BY <1>1, <1>7, <2>1, ProcessFields DEF SameLinks
  <2> QED
    BY <1>3, <2>1, <2>2
<1> QED
  BY <1>2, <1>4, <1>5, <1>6, <1>7

(* and so in every step.                                                   *)
LEMMA KeptNext ==
    ASSUME TypeInv, WriterInv(dl, count.connects), Next
    PROVE  Kept(dl, dl')
<1>0. DeviceInv(dl) /\ dl \in Devices
  BY DEF TypeInv, DeviceInv
<1>1. ASSUME NEW s \in Skis, Connect(s) PROVE Kept(dl, dl')
  <2>1. PICK p \in Ptrs \ Used(dl), ub \in SUBSET Dangling(dl) : dl' = SetupRemoteDevice(dl, s, p, ub)
    BY <1>1 DEF Connect
  <2>2. count.connects \in 0..(MaxConnects - 1)
    BY <1>1, DeviceAssumption DEF Connect, TypeInv
  <2>3. Setup(dl, dl', s, p)
    BY <1>0, <2>1, <2>2, SetupStages
  <2>4. PICK c, b : /\ Gone(dl, c, s)
                    /\ Added(c, b, s, p) /\ DeviceInv(b) /\ Present(b, s)
                    /\ dl' = Request(b, s, "discovery")
    BY <2>3 DEF Setup
  <2>5. dl'.links = b.links
    BY <2>4, RequestFields DEF DeviceInv, Kinds, SameLinks
  <2>6. dl'.links = c.links
    BY <2>4, <2>5 DEF Added
  <2>7. dl'.remotes[s].inc = count.connects + 1
    <3>1. b.remotes[s] = NewDevice(p)
      <4>1. c.remotes \in [Skis -> Remotes \cup {None}]
        BY <2>4 DEF Gone, DeviceInv, Devices
      <4> QED
        BY <2>4, <4>1 DEF Added
    <3>2. dl'.remotes[s].inc = b.remotes[s].inc
      BY <2>4, RequestFields DEF DeviceInv, Kinds, SameObjects, SamePeers
    <3> QED
      BY <3>1, <3>2, NewDeviceFields
  <2>8. Present(dl, s) => dl.remotes[s].inc <= count.connects /\ dl.remotes[s].inc \in Nat
    BY <1>0, RemoteTypes DEF WriterInv, Ages
  <2>9. Present(dl, s) => dl'.remotes[s].inc # dl.remotes[s].inc
    BY <2>2, <2>7, <2>8
  <2> QED
    BY <1>0, <2>4, <2>6, <2>9, KeptGone
<1>2. ASSUME NEW s \in Skis, Disconnect(s) PROVE Kept(dl, dl')
  <2>1. PICK ub \in SUBSET Dangling(dl) : dl' = RemoveRemoteDevice(dl, s, ub)
    BY <1>2 DEF Disconnect
  <2>2. Gone(dl, dl', s)
    BY <1>0, <2>1, RemoveGone
  <2>3. ~Present(dl', s)
    BY <2>2 DEF Gone
  <2> QED
    BY <1>0, <2>2, <2>3, KeptGone
<1>3. ASSUME NEW s \in Skis, ReceiveReply(s) PROVE Kept(dl, dl')
  <2>1. dl'.links = dl.links
    BY <1>0, <1>3 DEF ReceiveReply, Devices
  <2> QED
    BY <2>1, KeptLinks
<1>4. ASSUME NEW f \in Features, NotifySubscribers(f) PROVE Kept(dl, dl')
  <2>1. IsFiniteSet(dl.links["subscription"])
    BY <1>0 DEF DeviceInv, LinkInv, Tables
  <2>2. dl'.links = dl.links
    BY <1>0, <1>4, <2>1, PublishFields DEF NotifySubscribers, SameLinks
  <2> QED
    BY <2>2, KeptLinks
<1>5. CASE HandleTick
  <2>1. PICK n \in 0..Len(dl.pending) : dl' = Tick(dl, n)
    BY <1>5 DEF HandleTick
  <2>2. dl'.links = dl.links
    BY <1>0, <2>1, TickFields DEF SameLinks
  <2> QED
    BY <2>2, KeptLinks
<1>6. ASSUME dl' = dl PROVE Kept(dl, dl')
  BY <1>6, KeptLinks
<1>7. CASE HandleDatagram
  <2>1. ASSUME NEW s \in Skis, NEW m \in Datagrams, NEW from \in Skis, NEW ub, Taken(s, m, from, ub)
        PROVE  Kept(dl, dl')
    <3>1. Present(dl, s) /\ dl' = ProcessDatagram(dl, s, m, from, ub)
      BY <2>1 DEF Taken
    <3>2. CASE m.type = "read"
      <4>1. dl' = Send(dl, s)
        BY <3>1, <3>2 DEF ProcessDatagram
      <4>2. dl'.links = dl.links
        BY <1>0, <3>1, <4>1, SendFields DEF SameLinks
      <4> QED
        BY <4>2, KeptLinks
    <3>3. CASE m \in Replies
      BY <1>0, <3>1, <3>3, KeptReply
    <3>4. CASE m \in Calls
      BY <1>0, <2>1, <3>4, KeptCall
    <3> QED
      BY <3>2, <3>3, <3>4, DatagramKinds
  <2> QED
    BY <1>6, <1>7, <2>1, TakenCases
<1>8. CASE \/ PostTick
           \/ \E s \in Skis : Close(s) \/ ReceiveCall(s)
  BY <1>6, <1>8 DEF PostTick, Close, ReceiveCall
<1> QED
  BY <1>1, <1>2, <1>3, <1>4, <1>5, <1>7, <1>8 DEF Next

(* A binding or subscription goes only by a call that deletes it by its    *)
(* addresses, or with a connection that ends: its peer's own, or that of a *)
(* device with the same address (RemoveDeviceBindings, RemoveBinding and   *)
(* their like), whatever requests name and malloc reuses.                  *)
THEOREM OthersLinksKept == Spec => KnownLinksKept
<1> DEFINE Inv == WriterInv(dl, count.connects)
<1>1. TypeInv /\ TypeInv' /\ Inv /\ [Next]_vars => Inv'
  BY WriterNext
<1>2. TypeInv /\ Inv /\ Next => Kept(dl, dl')
  BY KeptNext
<1>3. Spec => []TypeInv
  BY TypeInit, TypeNext, PTL DEF Spec
<1>4. Init => Inv
  BY WriterInit
<1> HIDE DEF Inv
<1>5. Spec => [][Kept(dl, dl')]_vars
  BY <1>1, <1>2, <1>3, <1>4, PTL DEF Spec
<1> QED
  BY <1>5 DEF KnownLinksKept, Kept, Called, Ends

-----------------------------------------------------------------------------
(***************************************************************************)
(* What the device keeps of each of its peers stays the peer's own.  What  *)
(* follows supposes that the address of a remote device is not given to    *)
(* another one while a datagram of it is queued (~Reuse): device_local.c   *)
(* looks a datagram's device up by that address.                           *)
(***************************************************************************)

(* Addresses.                                                              *)

(* A peer's device and entities have no address yet, or the peer's.        *)
Own(d) ==
    \A s \in Skis : Present(d, s) =>
        /\ d.remotes[s].address \in {None, s}
        /\ \A f \in Features : d.remotes[s].entity[f].device \in {None, s}

(* A queued datagram whose device is there came from its peer.             *)
Delivered(d, q) ==
    \A i \in 1..Len(q), s \in Skis :
        Present(d, s) /\ d.remotes[s].ptr = q[i].ptr => q[i].from = s

(* An operation that keeps the objects keeps every address its own,        *)
LEMMA OwnSame ==
    ASSUME NEW d, NEW e, SameObjects(d, e), Own(d)
    PROVE  Own(e)
  BY DEF Own, SameObjects, SamePeers, SameFeatures

(* so does detailed discovery that is taken from the peer itself,          *)
LEMMA OwnRebuilt ==
    ASSUME NEW d \in Devices, NEW e, NEW s \in Skis, NEW fs, Present(d, s), Rebuilt(d, e, s, s, fs), Own(d)
    PROVE  Own(e)
<1> SUFFICES ASSUME NEW t \in Skis, Present(e, t)
             PROVE  /\ e.remotes[t].address \in {None, t}
                    /\ \A f \in Features : e.remotes[t].entity[f].device \in {None, t}
  BY DEF Own
<1>1. Present(d, t)
  BY DEF Rebuilt, SamePeers
<1>2. CASE t # s
  <2>1. e.remotes[t] = d.remotes[t]
    BY <1>2 DEF Rebuilt
  <2> QED
    BY <1>1, <2>1 DEF Own
<1>3. CASE t = s
  <2>1. e.remotes[s].address = s /\ \A f \in Features : e.remotes[s].entity[f] = Entity(d, s, s, fs, f)
    BY DEF Rebuilt
  <2>2. ASSUME NEW f \in Features PROVE e.remotes[s].entity[f].device \in {None, s}
    <3>1. d.remotes[s].entity[f].device \in {None, s}
      BY <1>1, <1>3 DEF Own
    <3> DEFINE x == d.remotes[s].entity[f]
    <3>2. e.remotes[s].entity[f] = Entity(d, s, s, fs, f)
      BY <2>1
    <3>3. Entity(d, s, s, fs, f) =
             IF f \notin fs THEN x
             ELSE [device |-> IF x.device = None THEN s ELSE x.device, gen |-> x.gen + 1]
      BY DEF Entity
    <3>4. x.device \in {None, s}
      BY <3>1
    <3> HIDE DEF x
    <3>5. Entity(d, s, s, fs, f).device \in {None, s}
      BY <3>3, <3>4
    <3> QED
      BY <3>2, <3>5
  <2> QED
    BY <1>3, <2>1, <2>2
<1> QED
  BY <1>2, <1>3

(* the removal of a device, which leaves the others alone,                 *)
LEMMA OwnGone ==
    ASSUME NEW d, DeviceInv(d), NEW c, NEW s \in Skis, Gone(d, c, s), Own(d)
    PROVE  /\ Own(c)
           /\ \A t \in Skis : t # s => c.remotes[t] = d.remotes[t]
<1>1. d.remotes \in [Skis -> Remotes \cup {None}]
  BY DEF DeviceInv, Devices
<1>2. \A t \in Skis : t # s => c.remotes[t] = d.remotes[t]
  BY <1>1 DEF Gone, Removed
<1> QED
  BY <1>2 DEF Own, Present, Gone

(* and its replacement.                                                    *)
LEMMA OwnSetup ==
    ASSUME NEW d, DeviceInv(d), NEW e, NEW s \in Skis, NEW p, Setup(d, e, s, p), Own(d)
    PROVE  /\ Own(e) /\ e \in Devices /\ Present(e, s) /\ e.remotes[s].ptr = p
           /\ \A t \in Skis : t # s => /\ Present(e, t) <=> Present(d, t)
                                       /\ Present(d, t) => e.remotes[t].ptr = d.remotes[t].ptr
<1>1. PICK c, b : /\ Gone(d, c, s)
                  /\ Added(c, b, s, p) /\ DeviceInv(b) /\ Present(b, s)
                  /\ e = Request(b, s, "discovery")
  BY DEF Setup
<1>2. Own(c) /\ \A t \in Skis : t # s => c.remotes[t] = d.remotes[t]
  BY <1>1, OwnGone
<1>3. c.remotes \in [Skis -> Remotes \cup {None}]
  BY <1>1 DEF Gone, DeviceInv, Devices
<1>4. b.remotes[s] = NewDevice(p) /\ \A t \in Skis : t # s => b.remotes[t] = c.remotes[t]
  BY <1>1, <1>3 DEF Added
<1>5. Own(b)
  <2> SUFFICES ASSUME NEW t \in Skis, Present(b, t)
               PROVE  /\ b.remotes[t].address \in {None, t}
                      /\ \A f \in Features : b.remotes[t].entity[f].device \in {None, t}
    BY DEF Own
  <2>1. CASE t = s
    BY <1>4, <2>1, NewDeviceFields
  <2>2. CASE t # s
    BY <1>2, <1>4, <2>2 DEF Own, Present
  <2> QED
    BY <2>1, <2>2
<1>6. SameObjects(b, e) /\ e \in Devices
  BY <1>1, RequestFields DEF DeviceInv, Kinds
<1>7. Own(e)
  BY <1>5, <1>6, OwnSame
<1>8. Present(e, s) /\ e.remotes[s].ptr = p
  BY <1>1, <1>4, <1>6, NewDeviceFields DEF SameObjects, SamePeers
<1>9. \A t \in Skis : t # s => /\ Present(e, t) <=> Present(d, t)
                               /\ Present(d, t) => e.remotes[t].ptr = d.remotes[t].ptr
  BY <1>2, <1>4, <1>6 DEF SameObjects, SamePeers, Present
<1> QED
  BY <1>6, <1>7, <1>8, <1>9

(* A datagram of peer s, handled for its device.                           *)
LEMMA OwnDatagram ==
    ASSUME NEW d, DeviceInv(d), NEW s \in Skis, NEW m \in Datagrams, NEW ub, Present(d, s), Own(d)
    PROVE  LET e == ProcessDatagram(d, s, m, s, ub) IN Own(e) /\ SamePeers(d, e)
<1> DEFINE e == ProcessDatagram(d, s, m, s, ub)
<1> SUFFICES Own(e) /\ SamePeers(d, e)
  OBVIOUS
<1>1. d \in Devices
  BY DEF DeviceInv
<1>2. CASE m.type # "reply"
  <2>1. SameObjects(d, e)
    BY <1>2, CallUnasked DEF Unasked
  <2> QED
    BY <2>1, OwnSame DEF SameObjects
<1>3. CASE m.type = "reply"
  <2>1. m \in Replies /\ m.msg_cnt \in Nat
    BY <1>3, DatagramKinds DEF Calls, Replies
  <2>2. \/ e = Process(d, s, m.msg_cnt)
        \/ e = d
        \/ Discovered(d, e, s, s, {"NodeManagement"})
        \/ \E c : Discovered(d, c, s, s, Features) /\ e = Process(c, s, m.msg_cnt)
    BY <2>1, ReplyCases
  <2> HIDE DEF e
  <2>3. CASE e = Process(d, s, m.msg_cnt)
    BY <1>1, <2>1, <2>3, ProcessFields, OwnSame DEF SameObjects
  <2>4. CASE e = d
    BY <1>1, <2>4, SameSelf DEF SameObjects
  <2>5. CASE Discovered(d, e, s, s, {"NodeManagement"})
    BY <1>1, <2>5, OwnRebuilt DEF Discovered, Rebuilt
  <2>6. ASSUME NEW c, Discovered(d, c, s, s, Features), e = Process(c, s, m.msg_cnt)
        PROVE  Own(e) /\ SamePeers(d, e)
    <3>1. Own(c) /\ SamePeers(d, c) /\ c \in Devices /\ Present(c, s)
      BY <1>1, <2>6, OwnRebuilt DEF Discovered, Rebuilt
    <3>2. e \in Devices /\ SameObjects(c, e)
      BY <2>1, <2>6, <3>1, ProcessFields
    <3>3. Own(e)
      BY <3>1, <3>2, OwnSame
    <3>4. \A t \in Skis : /\ Present(d, t) => d.remotes[t].msg_num \in Nat
                          /\ Present(c, t) => c.remotes[t].msg_num \in Nat
                          /\ Present(e, t) => e.remotes[t].msg_num \in Nat
      BY <1>1, <3>1, <3>2 DEF Devices, Remotes, Present
    <3> QED
      BY <3>1, <3>2, <3>3, <3>4 DEF SameObjects, SamePeers
  <2> QED
    BY <2>2, <2>3, <2>4, <2>5, <2>6
<1> QED
  BY <1>2, <1>3

(* The messages that are queued after one more, and after the first one.   *)
LEMMA PostElements ==
    ASSUME msg_queue \in Seq(Messages), NEW m \in Messages, Post(m)
    PROVE  \A i \in 1..Len(msg_queue') :
              msg_queue'[i] = m \/ \E j \in 1..Len(msg_queue) : msg_queue'[i] = msg_queue[j]
<1>1. msg_queue' = Append(msg_queue, m) /\ Len(msg_queue) \in Nat
  BY LenProperties DEF Post
<1> QED
  BY <1>1, AppendProperties

(* The loop takes the first message; those that are left were there        *)
(* before.                                                                 *)
LEMMA TakeElements ==
    ASSUME msg_queue \in Seq(Messages), msg_queue # <<>>, msg_queue' = Tail(msg_queue)
    PROVE  /\ \A i \in 1..Len(msg_queue') : \E j \in 1..Len(msg_queue) : msg_queue'[i] = msg_queue[j]
           /\ 1 \in 1..Len(msg_queue) /\ Head(msg_queue) = msg_queue[1]
<1>1. Len(msg_queue) \in Nat /\ Len(msg_queue) # 0 /\ Head(msg_queue) = msg_queue[1]
  BY LenProperties, EmptySeq
<1>2. Len(Tail(msg_queue)) = Len(msg_queue) - 1
      /\ \A i \in 1..Len(Tail(msg_queue)) : Tail(msg_queue)[i] = msg_queue[i + 1]
  BY HeadTailProperties
<1>3. \A i \in 1..(Len(msg_queue) - 1) : i + 1 \in 1..Len(msg_queue)
  BY <1>1
<1> QED
  BY <1>1, <1>2, <1>3

(* Datagrams stay those of their devices when devices only go and messages *)
(* only go.                                                                *)
LEMMA DeliveredKept ==
    ASSUME NEW d, NEW e, NEW q, NEW r, Delivered(d, q),
           \A s \in Skis : Present(e, s) => Present(d, s) /\ e.remotes[s].ptr = d.remotes[s].ptr,
           \A i \in 1..Len(r) : \E j \in 1..Len(q) : r[i] = q[j]
    PROVE  Delivered(e, r)
<1> SUFFICES ASSUME NEW i \in 1..Len(r), NEW s \in Skis, Present(e, s), e.remotes[s].ptr = r[i].ptr
             PROVE  r[i].from = s
  BY DEF Delivered
<1>1. PICK j \in 1..Len(q) : r[i] = q[j]
  OBVIOUS
<1>2. Present(d, s) /\ d.remotes[s].ptr = q[j].ptr
  BY <1>1
<1> QED
  BY <1>1, <1>2 DEF Delivered

(* A datagram is handled for the peer that sent it.                        *)
Handled(s, m, ub) ==
    /\ Present(dl, s) /\ dl' = ProcessDatagram(dl, s, m, s, ub)
    /\ 1 \in 1..Len(msg_queue)
    /\ msg_queue[1] = [type |-> "data", ptr |-> dl.remotes[s].ptr, from |-> s, msg |-> m]

(* The loop finds no device for the datagram or handles it for the device  *)
(* that has sent it.                                                       *)
LEMMA HandleCases ==
    ASSUME TypeInv, Delivered(dl, msg_queue), HandleDatagram
    PROVE  dl' = dl \/ \E s \in Skis, m \in Datagrams, ub \in SUBSET Dangling(dl) : Handled(s, m, ub)
<1> SUFFICES ASSUME dl' # dl
             PROVE  \E s \in Skis, m \in Datagrams, ub \in SUBSET Dangling(dl) : Handled(s, m, ub)
  OBVIOUS
<1>1. /\ 1 \in 1..Len(msg_queue) /\ Head(msg_queue) = msg_queue[1]
      /\ Head(msg_queue) \in Messages
  BY TakeElements, TakeKeeps DEF HandleDatagram, TypeInv
<1> DEFINE q == Head(msg_queue)
<1>2. q.type = "data" /\ q \in Messages /\ q = msg_queue[1]
  BY <1>1 DEF HandleDatagram
<1>3. PICK s \in Skis, ub \in SUBSET Dangling(dl) :
        Present(dl, s) /\ dl.remotes[s].ptr = q.ptr /\ dl' = ProcessDatagram(dl, s, q.msg, q.from, ub)
  BY DEF HandleDatagram
<1> HIDE DEF q
<1>4. q = [type |-> "data", ptr |-> q.ptr, from |-> q.from, msg |-> q.msg] /\ q.msg \in Datagrams
  BY <1>2 DEF Messages
<1>5. q.from = s
  BY <1>1, <1>2, <1>3 DEF Delivered
<1>6. Handled(s, q.msg, ub)
  BY <1>1, <1>2, <1>3, <1>4, <1>5 DEF Handled
<1> QED
  BY <1>4, <1>6

(* What is received is queued for its sender's device.                     *)
LEMMA ReceiveCases ==
    ASSUME TypeInv, NEW s \in Skis, NEW m \in Datagrams, Receive(s, m)
    PROVE  /\ Present(dl, s) /\ dl.remotes[s].ptr \in Ptrs
           /\ \A i \in 1..Len(msg_queue') :
                 \/ msg_queue'[i] = [type |-> "data", ptr |-> dl.remotes[s].ptr, from |-> s, msg |-> m]
                 \/ \E j \in 1..Len(msg_queue) : msg_queue'[i] = msg_queue[j]
<1> DEFINE q == [type |-> "data", ptr |-> dl.remotes[s].ptr, from |-> s, msg |-> m]
<1>1. dl.remotes[s] \in Remotes /\ Present(dl, s)
  BY DEF Receive, Present, TypeInv, DeviceInv, Devices
<1>2. q \in Messages /\ dl.remotes[s].ptr \in Ptrs
  BY <1>1 DEF Remotes, Messages
<1>3. Post(q) /\ msg_queue \in Seq(Messages)
  BY DEF Receive, TypeInv
<1>4. q = [type |-> "data", ptr |-> dl.remotes[s].ptr, from |-> s, msg |-> m]
  OBVIOUS
<1> HIDE DEF q
<1>5. \A i \in 1..Len(msg_queue') : msg_queue'[i] = q \/ \E j \in 1..Len(msg_queue) : msg_queue'[i] = msg_queue[j]
  BY <1>2, <1>3, PostElements
<1> QED
  BY <1>1, <1>2, <1>4, <1>5

OwnInv == Own(dl) /\ Delivered(dl, msg_queue)

(* No device is there at first.                                            *)
LEMMA OwnInit ==
    Init => OwnInv
<1> SUFFICES ASSUME Init PROVE OwnInv
  OBVIOUS
<1>1. \A s \in Skis : ~Present(dl, s)
  BY DEF Init, Present
<1> QED
  BY <1>1 DEF OwnInv, Own, Delivered

(* A device is found for a datagram only if it is its sender's.            *)
LEMMA OwnNext ==
    ASSUME ~Reuse, TypeInv, OwnInv, [Next]_vars
    PROVE  OwnInv'
<1>0. DeviceInv(dl) /\ dl \in Devices /\ Own(dl) /\ Delivered(dl, msg_queue) /\ msg_queue \in Seq(Messages)
  BY DEF TypeInv, DeviceInv, OwnInv
<1>00. \A i \in 1..Len(msg_queue) : \E j \in 1..Len(msg_queue) : msg_queue[i] = msg_queue[j]
  OBVIOUS
<1>01. ASSUME NEW s \in Skis, NEW m \in Datagrams, Receive(s, m), SameObjects(dl, dl')
       PROVE  OwnInv'
  <2>1. Own(dl')
    BY <1>0, <1>01, OwnSame
  <2>2. ASSUME NEW i \in 1..Len(msg_queue'), NEW t \in Skis, Present(dl', t),
               dl'.remotes[t].ptr = msg_queue'[i].ptr
        PROVE  msg_queue'[i].from = t
    <3>1. Present(dl, t) /\ dl.remotes[t].ptr = msg_queue'[i].ptr
      BY <1>01, <2>2 DEF SameObjects, SamePeers
    <3> DEFINE q == [type |-> "data", ptr |-> dl.remotes[s].ptr, from |-> s, msg |-> m]
    <3>2. Present(dl, s) /\ (msg_queue'[i] = q \/ \E j \in 1..Len(msg_queue) : msg_queue'[i] = msg_queue[j])
      BY <1>01, ReceiveCases
    <3>3. CASE msg_queue'[i] = q
      <4>1. t = s
        BY <1>0, <3>1, <3>2, <3>3 DEF DeviceInv, Peers
      <4> QED
        BY <3>3, <4>1
    <3>4. CASE \E j \in 1..Len(msg_queue) : msg_queue'[i] = msg_queue[j]
      <4>1. PICK j \in 1..Len(msg_queue) : msg_queue'[i] = msg_queue[j]
        BY <3>4
      <4> QED
        BY <1>0, <3>1, <4>1 DEF Delivered
    <3> QED
      BY <3>2, <3>3, <3>4
  <2> QED
    BY <2>1, <2>2 DEF OwnInv, Delivered
<1>1. ASSUME NEW s \in Skis, Connect(s) PROVE OwnInv'
  <2>1. PICK p \in Ptrs \ Used(dl), ub \in SUBSET Dangling(dl) :
          p \notin Queued /\ dl' = SetupRemoteDevice(dl, s, p, ub)
    BY <1>1 DEF Connect
  <2>2. count.connects \in 0..(MaxConnects - 1) /\ msg_queue' = msg_queue
    BY <1>1, DeviceAssumption DEF Connect, TypeInv
  <2>3. Setup(dl, dl', s, p)
    BY <1>0, <2>1, <2>2, SetupStages
  <2>4. /\ Own(dl') /\ dl'.remotes[s].ptr = p
        /\ \A t \in Skis : t # s => /\ Present(dl', t) <=> Present(dl, t)
                                    /\ Present(dl, t) => dl'.remotes[t].ptr = dl.remotes[t].ptr
    BY <1>0, <2>3, OwnSetup
  <2>5. \A i \in 1..Len(msg_queue) : msg_queue[i].ptr # p
    BY <2>1 DEF Queued
  <2>6. Delivered(dl', msg_queue)
    BY <1>0, <2>4, <2>5 DEF Delivered
  <2> QED
    BY <2>2, <2>4, <2>6 DEF OwnInv
<1>2. ASSUME NEW s \in Skis, Close(s) PROVE OwnInv'
  BY <1>2 DEF Close, OwnInv
<1>3. ASSUME NEW s \in Skis, Disconnect(s) PROVE OwnInv'
  <2>1. PICK ub \in SUBSET Dangling(dl) : dl' = RemoveRemoteDevice(dl, s, ub)
    BY <1>3 DEF Disconnect
  <2>2. Gone(dl, dl', s)
    BY <1>0, <2>1, RemoveGone
  <2>3. Own(dl') /\ ~Present(dl', s) /\ \A t \in Skis : t # s => dl'.remotes[t] = dl.remotes[t]
    BY <1>0, <2>2, OwnGone DEF Gone
  <2>4. \A t \in Skis : Present(dl', t) => Present(dl, t) /\ dl'.remotes[t].ptr = dl.remotes[t].ptr
    BY <2>3 DEF Present
  <2>5. Delivered(dl', msg_queue)
    BY <1>0, <1>00, <2>4, DeliveredKept
  <2> QED
    BY <1>3, <2>3, <2>5 DEF OwnInv, Disconnect
<1>4. ASSUME NEW s \in Skis, ReceiveReply(s) PROVE OwnInv'
  <2>1. PICK r \in dl.asked[s], c \in Contents :
          /\ Receive(s, [type |-> "reply", kind |-> r.kind, msg_cnt |-> r.msg_cnt, content |-> c])
          /\ dl' = [dl EXCEPT !.asked[s] = @ \ {r}]
    BY <1>4 DEF ReceiveReply
  <2>2. [type |-> "reply", kind |-> r.kind, msg_cnt |-> r.msg_cnt, content |-> c] \in Datagrams
    BY <1>0 DEF Devices, Reads, Datagrams
  <2>3. dl'.remotes = dl.remotes
    BY <1>0, <2>1 DEF Devices
  <2>4. SameObjects(dl, dl')
    <3>1. SameObjects(dl, dl)
      BY <1>0, SameSelf
    <3> QED
      BY <2>3, <3>1 DEF SameObjects, SamePeers, SameFeatures, Present
  <2> QED
    BY <1>01, <2>1, <2>2, <2>4
<1>5. ASSUME NEW s \in Skis, ReceiveCall(s) PROVE OwnInv'
  <2>1. PICK m \in Requests : Receive(s, m) /\ UNCHANGED dl
    BY <1>5 DEF ReceiveCall
  <2>2. m \in Datagrams
    BY DeviceAssumption DEF Requests, Datagrams, TypeInv
  <2>3. SameObjects(dl, dl')
    BY <1>0, <2>1, SameSelf
  <2> QED
    BY <1>01, <2>1, <2>2, <2>3
<1>6. ASSUME SameObjects(dl, dl'),
             \A i \in 1..Len(msg_queue') : \E j \in 1..Len(msg_queue) : msg_queue'[i] = msg_queue[j]
      PROVE  OwnInv'
  <2>1. \A t \in Skis : Present(dl', t) => Present(dl, t) /\ dl'.remotes[t].ptr = dl.remotes[t].ptr
    BY <1>6 DEF SameObjects, SamePeers
  <2>2. Own(dl')
    BY <1>0, <1>6, OwnSame
  <2> HIDE <1>00
  <2>3. Delivered(dl', msg_queue')
    BY <1>0, <1>6, <2>1, DeliveredKept
  <2> QED
    BY <2>2, <2>3 DEF OwnInv
<1>7. ASSUME NEW f \in Features, NotifySubscribers(f) PROVE OwnInv'
  <2>1. IsFiniteSet(dl.links["subscription"])
    BY <1>0 DEF DeviceInv, LinkInv, Tables
  <2>2. SameObjects(dl, dl')
    BY <1>0, <1>7, <2>1, PublishFields DEF NotifySubscribers
  <2> QED
    BY <1>00, <1>6, <1>7, <2>2 DEF NotifySubscribers
<1>8. CASE PostTick
  <2> DEFINE m == [type |-> "tick", ptr |-> None]
  <2>1. m \in Messages /\ Post(m) /\ m.ptr = None
    BY <1>8 DEF Messages, PostTick
  <2> HIDE DEF m
  <2>2. \A i \in 1..Len(msg_queue') : msg_queue'[i] = m \/ \E j \in 1..Len(msg_queue) : msg_queue'[i] = msg_queue[j]
    BY <1>0, <2>1, PostElements
  <2>3. \A t \in Skis : Present(dl, t) => dl.remotes[t].ptr # None
    BY <1>0, DeviceAssumption DEF Devices, Remotes, Present
  <2>4. Delivered(dl, msg_queue')
    BY <1>0, <2>1, <2>2, <2>3 DEF Delivered
  <2> QED
    BY <1>0, <1>8, <2>4 DEF OwnInv, PostTick
<1>9. CASE HandleTick
  <2>1. PICK n \in 0..Len(dl.pending) : dl' = Tick(dl, n)
    BY <1>9 DEF HandleTick
  <2>2. SameObjects(dl, dl')
    BY <1>0, <2>1, TickFields
  <2>3. \A i \in 1..Len(msg_queue') : \E j \in 1..Len(msg_queue) : msg_queue'[i] = msg_queue[j]
    BY <1>0, <1>9, TakeElements DEF HandleTick
  <2> QED
    BY <1>6, <2>2, <2>3
<1>10. CASE HandleDatagram
  <2>1. \A i \in 1..Len(msg_queue') : \E j \in 1..Len(msg_queue) : msg_queue'[i] = msg_queue[j]
    BY <1>0, <1>10, TakeElements DEF HandleDatagram
  <2>2. CASE dl' = dl
    BY <1>0, <1>6, <2>1, <2>2, SameSelf
  <2>3. ASSUME NEW s \in Skis, NEW m \in Datagrams, NEW ub, Handled(s, m, ub) PROVE OwnInv'
    <3>1. Own(dl') /\ SamePeers(dl, dl')
      BY <1>0, <2>3, OwnDatagram DEF Handled
    <3>2. \A t \in Skis : Present(dl', t) => Present(dl, t) /\ dl'.remotes[t].ptr = dl.remotes[t].ptr
      BY <3>1 DEF SamePeers
    <3>3. Delivered(dl', msg_queue')
      BY <1>0, <2>1, <3>2, DeliveredKept
    <3> QED
      BY <3>1, <3>3 DEF OwnInv
  <2> QED
    BY <1>0, <1>10, <2>2, <2>3, HandleCases
<1>11. CASE UNCHANGED vars
  BY <1>11 DEF vars, OwnInv
<1> QED
  BY <1>1, <1>2, <1>3, <1>4, <1>5, <1>7, <1>8, <1>9, <1>10, <1>11 DEF Next

-----------------------------------------------------------------------------
(* Pending replies.                                                        *)

(* The reads of peer s that are on their way, numbered n and of kind k:    *)
(* the peer may answer them, they are waited for, or their reply is queued *)
(* for the device at address p.                                            *)
Waits(z, s, n, k) == \E i \in 1..Len(z) : z[i].ski = s /\ z[i].msg_cnt = n /\ z[i].kind = k

IsReply(x, p, n, k) ==
    x.type = "data" /\ x.ptr = p /\ x.msg.type = "reply" /\ x.msg.msg_cnt = n /\ x.msg.kind = k

IsRead(d, q, s, n, k) ==
    \/ [msg_cnt |-> n, kind |-> k] \in d.asked[s]
    \/ Waits(d.pending, s, n, k)
    \/ \E i \in 1..Len(q) : IsReply(q[i], d.remotes[s].ptr, n, k)

(* They have numbers that were given out, each one kind.                   *)
Numbers(d, q, s) ==
    \A n \in Nat, k \in Kinds : IsRead(d, q, s, n, k) =>
        n <= d.remotes[s].msg_num /\ \A j \in Kinds : IsRead(d, q, s, n, j) => j = k

Numbered(d, q) == \A s \in Skis : Present(d, s) => Numbers(d, q, s)

Waiting(d) ==
    \A i \in 1..Len(d.pending) :
        Present(d, d.pending[i].ski) /\ d.pending[i].inc = d.remotes[d.pending[i].ski].inc

Subscribed(d) == \A a \in d.subscriptions : \E s \in Skis : Present(d, s) /\ d.remotes[s].address = a

Unread(d) == \A s \in Skis : ~Present(d, s) => d.asked[s] = {}

Core(d, q) == Waiting(d) /\ Subscribed(d) /\ Unread(d) /\ Numbered(d, q)

(* The peers that wait for nothing but their discovery have an entry.      *)
IsAsked(z, s) == \E i \in 1..Len(z) : z[i].ski = s /\ z[i].kind = "discovery"

AllAsked(d) ==
    \A s \in Skis : Present(d, s) /\ ~Exists(d, s, "LoadControl") /\ s \notin d.crossed => IsAsked(d.pending, s)

(* Reads under way stay numbered up to the number of their device.         *)
LEMMA NumbersKept ==
    ASSUME NEW d \in Devices, NEW e \in Devices, NEW q, NEW r, NEW s \in Skis, Present(d, s), Present(e, s),
           e.remotes[s].msg_num >= d.remotes[s].msg_num, Numbers(d, q, s),
           \A n \in Nat, k \in Kinds : IsRead(e, r, s, n, k) => IsRead(d, q, s, n, k)
    PROVE  Numbers(e, r, s)
<1>1. d.remotes[s].msg_num \in Nat /\ e.remotes[s].msg_num \in Nat
  BY RemoteTypes
<1> SUFFICES ASSUME NEW n \in Nat, NEW k \in Kinds, IsRead(e, r, s, n, k)
             PROVE  n <= e.remotes[s].msg_num /\ \A j \in Kinds : IsRead(e, r, s, n, j) => j = k
  BY DEF Numbers
<1>2. n <= d.remotes[s].msg_num /\ \A j \in Kinds : IsRead(d, q, s, n, j) => j = k
  BY DEF Numbers
<1> QED
  BY <1>1, <1>2

(* Entries that are among those of before.                                 *)
Among(y, z) == \A i \in 1..Len(y) : \E j \in 1..Len(z) : y[i] = z[j]

(* What waits among fewer entries waits among more,                        *)
LEMMA WaitsAmong ==
    ASSUME NEW y, NEW z, Among(y, z), NEW s, NEW n, NEW k, Waits(y, s, n, k)
    PROVE  Waits(z, s, n, k)
<1>1. PICK i \in 1..Len(y) : y[i].ski = s /\ y[i].msg_cnt = n /\ y[i].kind = k
  BY DEF Waits
<1>2. PICK j \in 1..Len(z) : y[i] = z[j]
  BY DEF Among
<1> QED
  BY <1>1, <1>2 DEF Waits

(* and what is among fewer messages is among more.                         *)
LEMMA RepliesAmong ==
    ASSUME NEW r, NEW q, Among(r, q), NEW p, NEW n, NEW k, \E i \in 1..Len(r) : IsReply(r[i], p, n, k)
    PROVE  \E i \in 1..Len(q) : IsReply(q[i], p, n, k)
<1>1. PICK i \in 1..Len(r) : IsReply(r[i], p, n, k)
  OBVIOUS
<1>2. PICK j \in 1..Len(q) : r[i] = q[j]
  BY DEF Among
<1> QED
  BY <1>1, <1>2

(* The same peers, no more reads than before.                              *)
LEMMA CoreFewer ==
    ASSUME NEW d \in Devices, NEW e \in Devices, SamePeers(d, e), NEW q, NEW r, Core(d, q), Subscribed(e),
           Among(e.pending, d.pending), Among(r, q), \A s \in Skis : e.asked[s] \subseteq d.asked[s]
    PROVE  Core(e, r)
<1>1. Waiting(e)
  <2> SUFFICES ASSUME NEW i \in 1..Len(e.pending)
               PROVE  Present(e, e.pending[i].ski) /\ e.pending[i].inc = e.remotes[e.pending[i].ski].inc
    BY DEF Waiting
  <2>1. PICK j \in 1..Len(d.pending) : e.pending[i] = d.pending[j]
    BY DEF Among
  <2> DEFINE x == d.pending[j]
  <2>2. x.ski \in Skis
    <3>1. d.pending \in Seq(Pendings)
      BY DEF Devices, Pendings
    <3>2. d.pending[j] \in Pendings
      BY <3>1, ElementOfSeq
    <3> QED
      BY <3>2 DEF Pendings
  <2>3. Present(d, x.ski) /\ x.inc = d.remotes[x.ski].inc
    BY DEF Core, Waiting
  <2> HIDE DEF x
  <2>4. Present(e, x.ski) /\ x.inc = e.remotes[x.ski].inc
    BY <2>2, <2>3 DEF SamePeers
  <2> QED
    BY <2>1, <2>4 DEF x
<1>2. Unread(e)
  BY DEF Core, Unread, SamePeers
<1>3. Numbered(e, r)
  <2> SUFFICES ASSUME NEW s \in Skis, Present(e, s) PROVE Numbers(e, r, s)
    BY DEF Numbered
  <2>1. /\ Present(d, s) /\ e.remotes[s].ptr = d.remotes[s].ptr
        /\ e.remotes[s].msg_num >= d.remotes[s].msg_num
    BY DEF SamePeers
  <2>2. Numbers(d, q, s)
    BY <2>1 DEF Core, Numbered
  <2>3. ASSUME NEW n \in Nat, NEW k \in Kinds, IsRead(e, r, s, n, k) PROVE IsRead(d, q, s, n, k)
    <3>1. CASE [msg_cnt |-> n, kind |-> k] \in e.asked[s]
      BY <3>1 DEF IsRead
    <3>2. CASE Waits(e.pending, s, n, k)
      BY <3>2, WaitsAmong DEF IsRead
    <3>3. CASE \E i \in 1..Len(r) : IsReply(r[i], e.remotes[s].ptr, n, k)
      BY <2>1, <3>3, RepliesAmong, ZenonT(30) DEF IsRead
    <3> QED
      BY <2>3, <3>1, <3>2, <3>3 DEF IsRead
  <2> QED
    BY <2>1, <2>2, <2>3, NumbersKept
<1> QED
  BY <1>1, <1>2, <1>3 DEF Core

(* A sequence is among itself.                                             *)
LEMMA AmongSelf ==
    ASSUME NEW z
    PROVE  Among(z, z)
  BY DEF Among

(* An operation without reads keeps what is known of the pending replies,  *)
LEMMA CoreUnasked ==
    ASSUME NEW d \in Devices, NEW e, Unasked(d, e), NEW q, NEW r, Among(r, q), Core(d, q)
    PROVE  Core(e, r)
<1>1. /\ e \in Devices /\ SamePeers(d, e) /\ SameFeatures(d, e)
      /\ e.pending = d.pending /\ e.asked = d.asked /\ e.subscriptions = d.subscriptions
  BY DEF Unasked, SameObjects
<1>2. Subscribed(e)
  BY <1>1 DEF Core, Subscribed, SamePeers, SameFeatures
<1>3. Among(e.pending, d.pending)
  BY <1>1, AmongSelf
<1> QED
  BY <1>1, <1>2, <1>3, CoreFewer

(* and keeps every peer asked if none of the entries that ask is dropped.  *)
LEMMA AskedSame ==
    ASSUME NEW d \in Devices, NEW e \in Devices, SameObjects(d, e), AllAsked(d), e.crossed = d.crossed,
           \A s \in Skis : IsAsked(d.pending, s) => IsAsked(e.pending, s)
    PROVE  AllAsked(e)
<1>1. \A s \in Skis : Present(e, s) => Present(d, s) /\ (Exists(d, s, "LoadControl") <=> Exists(e, s, "LoadControl"))
  BY AliveKept DEF SameObjects, SamePeers, Features
<1> QED
  BY <1>1 DEF AllAsked

(* A request takes the next number.                                        *)
LEMMA CoreRequest ==
    ASSUME NEW d \in Devices, NEW s \in Skis, NEW k \in Kinds, Present(d, s), NEW q, Core(d, q)
    PROVE  LET e == Request(d, s, k)
           IN  /\ Core(e, q)
               /\ \A u \in Skis : IsAsked(d.pending, u) => IsAsked(e.pending, u)
               /\ k = "discovery" => IsAsked(e.pending, s)
<1> DEFINE e == Request(d, s, k)
           N == d.remotes[s].msg_num + 1
           x == [msg_cnt |-> N, ski |-> s, kind |-> k, inc |-> d.remotes[s].inc]
<1> SUFFICES /\ Core(e, q)
             /\ \A u \in Skis : IsAsked(d.pending, u) => IsAsked(e.pending, u)
             /\ k = "discovery" => IsAsked(e.pending, s)
  OBVIOUS
<1>1. /\ e \in Devices /\ SameObjects(d, e) /\ N \in Nat /\ e.remotes[s].msg_num = N
      /\ e.pending = Append(d.pending, x)
      /\ e.asked = [d.asked EXCEPT ![s] = @ \cup {[msg_cnt |-> N, kind |-> k]}]
      /\ e.subscriptions = d.subscriptions
  BY RequestFields
<1>2. d.remotes[s] \in Remotes /\ d.remotes[s].msg_num \in Nat
  BY RemoteTypes DEF Devices, Present
<1>3. x \in Pendings /\ d.pending \in Seq(Pendings)
  BY <1>1, <1>2 DEF Pendings, Devices, Remotes
<1>4. /\ x.msg_cnt = N /\ x.ski = s /\ x.kind = k /\ x.inc = d.remotes[s].inc
  OBVIOUS
<1> HIDE DEF e, x
<1>5. /\ Len(e.pending) = Len(d.pending) + 1 /\ Len(d.pending) \in Nat
      /\ \A i \in 1..Len(d.pending) : e.pending[i] = d.pending[i]
      /\ e.pending[Len(d.pending) + 1] = x
  BY <1>1, <1>3, AppendProperties, LenProperties
<1>6. \A i \in 1..Len(e.pending) : e.pending[i] = x \/ \E j \in 1..Len(d.pending) : e.pending[i] = d.pending[j]
  BY <1>5
<1>7. SamePeers(d, e) /\ SameFeatures(d, e)
  BY <1>1 DEF SameObjects
<1>8. Waiting(e)
  <2> SUFFICES ASSUME NEW i \in 1..Len(e.pending)
               PROVE  Present(e, e.pending[i].ski) /\ e.pending[i].inc = e.remotes[e.pending[i].ski].inc
    BY DEF Waiting
  <2>1. CASE e.pending[i] = x
    BY <1>4, <1>7, <2>1 DEF SamePeers
  <2>2. CASE \E j \in 1..Len(d.pending) : e.pending[i] = d.pending[j]
    <3>1. PICK j \in 1..Len(d.pending) : e.pending[i] = d.pending[j]
      BY <2>2
    <3> DEFINE y == d.pending[j]
    <3>2. y \in Pendings
      BY <1>3, ElementOfSeq
    <3>3. y.ski \in Skis
      BY <3>2 DEF Pendings
    <3>4. Present(d, y.ski) /\ y.inc = d.remotes[y.ski].inc
      BY DEF Core, Waiting
    <3> HIDE DEF y
    <3>5. Present(e, y.ski) /\ y.inc = e.remotes[y.ski].inc
      BY <1>7, <3>3, <3>4 DEF SamePeers
    <3> QED
      BY <3>1, <3>5 DEF y
  <2> QED
    BY <1>6, <2>1, <2>2
<1>9. Subscribed(e)
  BY <1>1, <1>7 DEF Core, Subscribed, SamePeers, SameFeatures
<1>10. d.asked \in [Skis -> SUBSET Reads]
  BY DEF Devices
<1>11. Unread(e)
  BY <1>1, <1>7, <1>10 DEF Core, Unread, SamePeers
<1>12. Numbered(e, q)
  <2> SUFFICES ASSUME NEW u \in Skis, Present(e, u) PROVE Numbers(e, q, u)
    BY DEF Numbered
  <2>1. /\ Present(d, u) /\ e.remotes[u].ptr = d.remotes[u].ptr
        /\ e.remotes[u].msg_num >= d.remotes[u].msg_num
    BY <1>7 DEF SamePeers
  <2>2. Numbers(d, q, u)
    BY <2>1 DEF Core, Numbered
  <2>3. ASSUME NEW n \in Nat, NEW j \in Kinds, IsRead(e, q, u, n, j)
        PROVE  IsRead(d, q, u, n, j) \/ (u = s /\ n = N /\ j = k)
    <3>1. CASE [msg_cnt |-> n, kind |-> j] \in e.asked[u]
      <4>1. [msg_cnt |-> n, kind |-> j] \in d.asked[u]
            \/ (u = s /\ [msg_cnt |-> n, kind |-> j] = [msg_cnt |-> N, kind |-> k])
        BY <1>1, <1>10, <3>1
      <4> QED
        BY <4>1 DEF IsRead
    <3>2. CASE Waits(e.pending, u, n, j)
      <4>1. PICK i \in 1..Len(e.pending) :
              e.pending[i].ski = u /\ e.pending[i].msg_cnt = n /\ e.pending[i].kind = j
        BY <3>2 DEF Waits
      <4>2. CASE e.pending[i] = x
        BY <1>4, <4>1, <4>2
      <4>3. CASE \E l \in 1..Len(d.pending) : e.pending[i] = d.pending[l]
        BY <4>1, <4>3 DEF IsRead, Waits
      <4> QED
        BY <1>6, <4>2, <4>3
    <3>3. CASE \E i \in 1..Len(q) : IsReply(q[i], e.remotes[u].ptr, n, j)
      BY <2>1, <3>3 DEF IsRead
    <3> QED
      BY <2>3, <3>1, <3>2, <3>3 DEF IsRead
  <2>4. CASE u # s
    <3>1. \A n \in Nat, j \in Kinds : IsRead(e, q, u, n, j) => IsRead(d, q, u, n, j)
      BY <2>3, <2>4
    <3> QED
      BY <1>1, <2>1, <2>2, <3>1, NumbersKept
  <2>5. CASE u = s
    <3> SUFFICES ASSUME NEW n \in Nat, NEW i \in Kinds, IsRead(e, q, s, n, i)
                 PROVE  n <= e.remotes[s].msg_num /\ \A j \in Kinds : IsRead(e, q, s, n, j) => j = i
      BY <2>5 DEF Numbers
    <3>1. CASE n = N
      <4>1. ~IsRead(d, q, s, n, i)
        BY <1>2, <2>2, <2>5, <3>1 DEF Numbers
      <4>2. \A j \in Kinds : ~IsRead(d, q, s, n, j)
        BY <1>2, <2>2, <2>5, <3>1 DEF Numbers
      <4> QED
        BY <1>1, <2>3, <2>5, <3>1, <4>1, <4>2
    <3>2. CASE n # N
      <4>1. \A j \in Kinds : IsRead(e, q, s, n, j) => IsRead(d, q, s, n, j)
        BY <2>3, <2>5, <3>2
      <4>2. n <= d.remotes[s].msg_num /\ \A j \in Kinds : IsRead(d, q, s, n, j) => j = i
        BY <2>2, <2>5, <4>1 DEF Numbers
      <4> QED
        BY <1>1, <1>2, <4>1, <4>2
    <3> QED
      BY <3>1, <3>2
  <2> QED
    BY <2>4, <2>5
<1>13. ASSUME NEW u \in Skis, IsAsked(d.pending, u) PROVE IsAsked(e.pending, u)
  <2>1. PICK i \in 1..Len(d.pending) : d.pending[i].ski = u /\ d.pending[i].kind = "discovery"
    BY <1>13 DEF IsAsked
  <2>2. i \in 1..Len(e.pending) /\ e.pending[i] = d.pending[i]
    BY <1>5
  <2> QED
    BY <2>1, <2>2 DEF IsAsked
<1>14. ASSUME k = "discovery" PROVE IsAsked(e.pending, s)
  <2>1. Len(d.pending) + 1 \in 1..Len(e.pending)
    BY <1>5
  <2> QED
    BY <1>4, <1>5, <1>14, <2>1 DEF IsAsked
<1> QED
  BY <1>8, <1>9, <1>11, <1>12, <1>13, <1>14 DEF Core

(* The callback of an entry: a subscription and a request, or nothing.     *)
LEMMA CoreFired ==
    ASSUME NEW d \in Devices, NEW s \in Skis, NEW p \in Pendings, Present(d, s), NEW q, Core(d, q)
    PROVE  Core(Fired(d, s, p), q)
<1>1. CASE p.kind # "discovery"
  BY <1>1 DEF Fired
<1>2. CASE p.kind = "discovery"
  <2> DEFINE a == SubscribeToRemote(d, s)
  <2>1. Fired(d, s, p) = Request(a, s, "useCase")
    BY <1>2 DEF Fired
  <2>2. /\ a \in Devices /\ SameObjects(d, a) /\ a.pending = d.pending /\ a.asked = d.asked
        /\ \A x \in a.subscriptions : x \in d.subscriptions
              \/ \E t \in Skis : Present(d, t) /\ d.remotes[t].address = x
    BY SubscribeFields
  <2> HIDE DEF a
  <2>3. SamePeers(d, a) /\ SameFeatures(d, a)
    BY <2>2 DEF SameObjects
  <2>4. Subscribed(a)
    <3>1. \A x \in a.subscriptions : \E t \in Skis : Present(d, t) /\ d.remotes[t].address = x
      BY <2>2 DEF Core, Subscribed
    <3> QED
      BY <2>3, <3>1 DEF Subscribed, SamePeers, SameFeatures
  <2>5. Core(a, q)
    BY <2>2, <2>3, <2>4, AmongSelf, CoreFewer
  <2>6. Present(a, s) /\ "useCase" \in Kinds
    BY <2>3 DEF SamePeers, Kinds
  <2> QED
    BY <2>1, <2>2, <2>5, <2>6, CoreRequest
<1> QED
  BY <1>1, <1>2

(* A reply takes the entry that has its number.  If it is the sender's, it *)
(* is not the one that the sender's discovery is waited for with.          *)
LEMMA PeerProcess ==
    ASSUME NEW d \in Devices, NEW s \in Skis, NEW ref \in Nat, Present(d, s), NEW q, Core(d, q), AllAsked(d),
           \/ Exists(d, s, "LoadControl")
           \/ \A i \in 1..Len(d.pending) :
                 d.pending[i].ski = s /\ d.pending[i].msg_cnt = ref => d.pending[i].kind = "useCase"
    PROVE  Core(Process(d, s, ref), q) /\ AllAsked(Process(d, s, ref))
<1> SUFFICES ASSUME Process(d, s, ref) # d
             PROVE  Core(Process(d, s, ref), q) /\ AllAsked(Process(d, s, ref))
  OBVIOUS
<1>1. PICK i \in 1..Len(d.pending) : d.pending[i].msg_cnt = ref /\ Process(d, s, ref) = Answered(d, s, i)
  BY ProcessCases
<1> DEFINE p == d.pending[i]
           c == Fired(d, s, p)
           z == RemoveAt(c.pending, i)
           x == IF p.ski = s THEN c.crossed ELSE c.crossed \cup {p.ski}
           e == [c EXCEPT !.pending = z, !.crossed = x]
<1>2. Process(d, s, ref) = e
  BY <1>1 DEF Answered
<1>3. d.pending \in Seq(Pendings) /\ Len(d.pending) \in Nat
  BY LenProperties DEF Devices, Pendings
<1>4. p \in Pendings
  BY <1>3, ElementOfSeq
<1>5. p.ski \in Skis
  BY <1>4 DEF Pendings
<1>6. p.ski = s => p.msg_cnt = ref /\ (Exists(d, s, "LoadControl") \/ p.kind = "useCase")
  BY <1>1
<1> HIDE DEF p
<1>7. /\ c \in Devices /\ SameObjects(d, c) /\ c.crossed = d.crossed
      /\ Len(c.pending) >= Len(d.pending)
      /\ \A j \in 1..Len(d.pending) : c.pending[j] = d.pending[j]
  BY <1>4, FiredFields
<1>8. Core(c, q)
  BY <1>4, CoreFired
<1> HIDE DEF c
<1>9. c.pending \in Seq(Pendings) /\ Len(c.pending) \in Nat /\ c.crossed \in SUBSET Skis
  BY <1>7, LenProperties DEF Devices, Pendings
<1>10. i \in 1..Len(c.pending) /\ \A j \in 1..Len(d.pending) : j \in 1..Len(c.pending)
  BY <1>3, <1>7, <1>9
<1>11. /\ z \in Seq(Pendings) /\ Among(z, c.pending)
       /\ \A k \in 1..Len(c.pending) : k = i \/ \E j \in 1..Len(z) : z[j] = c.pending[k]
  BY <1>9, <1>10, RemoveAtFields DEF Among
<1>12. x \in SUBSET Skis /\ d.crossed \subseteq x /\ (p.ski # s => p.ski \in x)
  BY <1>5, <1>7, <1>9
<1> HIDE DEF z, x
<1>13. /\ e \in Devices /\ SameObjects(c, e) /\ e.pending = z /\ e.asked = c.asked /\ e.crossed = x
       /\ e.subscriptions = c.subscriptions
  <2>1. c \in Devices /\ z \in Seq(Pendings) /\ x \in SUBSET Skis
    BY <1>7, <1>11, <1>12
  <2>2. e \in Devices /\ SameObjects(c, e)
    BY <2>1, PendingFields
  <2>3. e.pending = z /\ e.asked = c.asked /\ e.crossed = x /\ e.subscriptions = c.subscriptions
    BY <2>1 DEF Devices
  <2> QED
    BY <2>2, <2>3
<1> HIDE DEF e
<1>14. SameObjects(d, e)
  BY <1>7, <1>13, SameTwice
<1>15. Core(e, q)
  <2>1. SamePeers(c, e) /\ SameFeatures(c, e)
    BY <1>13 DEF SameObjects
  <2>2. Subscribed(e)
    BY <1>8, <1>13, <2>1 DEF Core, Subscribed, SamePeers, SameFeatures
  <2> QED
    BY <1>7, <1>8, <1>11, <1>13, <2>1, <2>2, AmongSelf, CoreFewer
<1>16. AllAsked(e)
  <2> SUFFICES ASSUME NEW u \in Skis, Present(e, u), ~Exists(e, u, "LoadControl"), u \notin e.crossed
               PROVE  IsAsked(e.pending, u)
    BY DEF AllAsked
  <2>1. Present(d, u) /\ ~Exists(d, u, "LoadControl") /\ u \notin d.crossed
    BY <1>12, <1>13, <1>14, AliveKept DEF SameObjects, SamePeers, Features
  <2>2. PICK j \in 1..Len(d.pending) : d.pending[j].ski = u /\ d.pending[j].kind = "discovery"
    BY <2>1 DEF AllAsked, IsAsked
  <2>3. j # i
    <3> SUFFICES ASSUME j = i PROVE FALSE
      OBVIOUS
    <3>1. p.ski = u /\ p.kind = "discovery"
      BY <2>2 DEF p
    <3> QED
      BY <1>6, <1>12, <1>13, <2>1, <3>1
  <2>4. PICK k \in 1..Len(z) : z[k] = c.pending[j]
    BY <1>10, <1>11, <2>3
  <2> QED
    BY <1>7, <1>13, <2>2, <2>4 DEF IsAsked
<1> QED
  BY <1>2, <1>15, <1>16

(* Entities that are built again.                                          *)
LEMMA PeerRebuilt ==
    ASSUME NEW d \in Devices, NEW e, NEW s \in Skis, NEW fs \in SUBSET Features, Present(d, s),
           Rebuilt(d, e, s, s, fs), Own(d), NEW q, Core(d, q), AllAsked(d)
    PROVE  Core(e, q) /\ AllAsked(e) /\ ("LoadControl" \in fs => Exists(e, s, "LoadControl"))
<1>1. /\ e \in Devices /\ SamePeers(d, e)
      /\ \A t \in Skis : t # s => e.remotes[t] = d.remotes[t]
      /\ e.remotes[s].address = s
      /\ e.pending = d.pending /\ e.asked = d.asked /\ e.crossed = d.crossed
      /\ e.subscriptions = d.subscriptions
  BY DEF Rebuilt
<1>2. d.subscriptions \in SUBSET Skis
  BY DEF Devices
<1>3. Subscribed(e)
  <2> SUFFICES ASSUME NEW a \in d.subscriptions
               PROVE  \E t \in Skis : Present(e, t) /\ e.remotes[t].address = a
    BY <1>1 DEF Subscribed
  <2>1. PICK t \in Skis : Present(d, t) /\ d.remotes[t].address = a
    BY DEF Core, Subscribed
  <2>2. Present(e, t)
    BY <1>1, <2>1 DEF SamePeers
  <2>3. CASE t = s
    <3>1. a = s
      BY <1>2, <2>1, <2>3, DeviceAssumption DEF Own
    <3> QED
      BY <1>1, <2>2, <2>3, <3>1
  <2>4. CASE t # s
    BY <1>1, <2>1, <2>2, <2>4
  <2> QED
    BY <2>3, <2>4
<1>4. Core(e, q)
  BY <1>1, <1>3, AmongSelf, CoreFewer
<1>5. "LoadControl" \in Features /\ d.remotes[s].entity["LoadControl"].gen \in Nat
  BY RemoteTypes DEF Features
<1>6. e.remotes[s].entity["LoadControl"] = Entity(d, s, s, fs, "LoadControl")
  BY <1>5 DEF Rebuilt
<1>7. Entity(d, s, s, fs, "LoadControl").gen =
         d.remotes[s].entity["LoadControl"].gen + (IF "LoadControl" \in fs THEN 1 ELSE 0)
  BY <1>5 DEF Entity
<1>8. "LoadControl" \in fs => Exists(e, s, "LoadControl")
  BY <1>5, <1>6, <1>7 DEF Exists
<1>9. \A t \in Skis : Present(e, t) => Present(d, t) /\ (Exists(d, t, "LoadControl") => Exists(e, t, "LoadControl"))
  BY <1>1, <1>5, <1>6, <1>7 DEF SamePeers, Exists
<1>10. AllAsked(e)
  BY <1>1, <1>9 DEF AllAsked
<1> QED
  BY <1>4, <1>8, <1>10

(* A peer that goes leaves no entry behind.                                *)
LEMMA PeerGone ==
    ASSUME NEW d, DeviceInv(d), NEW c, NEW s \in Skis, Gone(d, c, s), NEW q, Core(d, q), AllAsked(d)
    PROVE  Core(c, q) /\ AllAsked(c)
<1> SUFFICES ASSUME Present(d, s), Removed(d, c, s) PROVE Core(c, q) /\ AllAsked(c)
  BY DEF Gone
<1>1. /\ d \in Devices /\ c \in Devices
      /\ c.pending = Without(d.pending, s) /\ c.asked = [d.asked EXCEPT ![s] = {}]
      /\ c.crossed = d.crossed \ {s} /\ c.subscriptions = d.subscriptions \ {d.remotes[s].address}
      /\ c.remotes = [d.remotes EXCEPT ![s] = None]
  BY DEF DeviceInv, Removed
<1>2. /\ d.pending \in Seq(Pendings) /\ d.remotes \in [Skis -> Remotes \cup {None}]
      /\ d.asked \in [Skis -> SUBSET Reads]
  BY <1>1 DEF Devices, Pendings
<1>3. \A u \in Skis : /\ Present(c, u) <=> u # s /\ Present(d, u)
                      /\ u # s => c.remotes[u] = d.remotes[u] /\ c.asked[u] = d.asked[u]
  BY <1>1, <1>2 DEF Present
<1> DEFINE y == Without(d.pending, s)
           z == d.pending
<1>4. /\ Among(y, z)
      /\ \A j \in 1..Len(y) : y[j].ski # s
      /\ \A k \in 1..Len(z) : z[k].ski = s \/ \E j \in 1..Len(y) : y[j] = z[k]
  <2>1. /\ \A j \in 1..Len(y) : y[j].ski # s /\ \E k \in 1..Len(z) : y[j] = z[k]
        /\ \A k \in 1..Len(z) : z[k].ski = s \/ \E j \in 1..Len(y) : y[j] = z[k]
    BY <1>2, WithoutFields
  <2> HIDE DEF y, z
  <2> QED
    BY <2>1 DEF Among
<1>5. c.pending = y
  BY <1>1
<1> HIDE DEF y
<1>6. Waiting(c)
  <2> SUFFICES ASSUME NEW i \in 1..Len(y)
               PROVE  Present(c, y[i].ski) /\ y[i].inc = c.remotes[y[i].ski].inc
    BY <1>5 DEF Waiting
  <2>1. PICK j \in 1..Len(z) : y[i] = z[j]
    BY <1>4 DEF Among
  <2>2. z[j] \in Pendings
    BY <1>2, ElementOfSeq
  <2>3. y[i].ski \in Skis /\ y[i].ski # s
    BY <1>4, <2>1, <2>2 DEF Pendings
  <2>4. Present(d, y[i].ski) /\ y[i].inc = d.remotes[y[i].ski].inc
    BY <2>1 DEF Core, Waiting
  <2> QED
    BY <1>3, <2>3, <2>4
<1>7. Subscribed(c)
  BY <1>1, <1>3 DEF Core, Subscribed
<1>8. c.asked[s] = {}
  BY <1>1, <1>2
<1>9. Unread(c)
  BY <1>3, <1>8 DEF Core, Unread
<1>10. Numbered(c, q)
  <2> SUFFICES ASSUME NEW u \in Skis, Present(c, u) PROVE Numbers(c, q, u)
    BY DEF Numbered
  <2>1. u # s /\ Present(d, u) /\ c.remotes[u] = d.remotes[u] /\ c.asked[u] = d.asked[u]
    BY <1>3
  <2>2. Numbers(d, q, u) /\ d.remotes[u].msg_num \in Nat
    BY <1>1, <2>1, RemoteTypes DEF Core, Numbered
  <2>3. ASSUME NEW n \in Nat, NEW k \in Kinds, IsRead(c, q, u, n, k) PROVE IsRead(d, q, u, n, k)
    <3>1. Waits(c.pending, u, n, k) => Waits(d.pending, u, n, k)
      BY <1>4, <1>5, WaitsAmong
    <3> QED
      BY <2>1, <2>3, <3>1 DEF IsRead
  <2>4. c.remotes[u].msg_num >= d.remotes[u].msg_num
    BY <2>1, <2>2
  <2> QED
    BY <1>1, <2>1, <2>2, <2>3, <2>4, NumbersKept
<1>11. AllAsked(c)
  <2> SUFFICES ASSUME NEW u \in Skis, Present(c, u), ~Exists(c, u, "LoadControl"), u \notin c.crossed
               PROVE  IsAsked(c.pending, u)
    BY DEF AllAsked
  <2>1. u # s /\ Present(d, u) /\ ~Exists(d, u, "LoadControl") /\ u \notin d.crossed
    BY <1>1, <1>3 DEF Exists
  <2>2. PICK j \in 1..Len(z) : z[j].ski = u /\ z[j].kind = "discovery"
    BY <2>1 DEF AllAsked, IsAsked
  <2>3. PICK i \in 1..Len(y) : y[i] = z[j]
    BY <1>4, <2>1, <2>2
  <2> QED
    BY <1>5, <2>2, <2>3 DEF IsAsked
<1> QED
  BY <1>6, <1>7, <1>9, <1>10, <1>11 DEF Core

(* A new peer has read nothing, and is asked for its discovery data.       *)
LEMMA PeerSetup ==
    ASSUME NEW d, DeviceInv(d), NEW e, NEW s \in Skis, NEW p, Setup(d, e, s, p), NEW q, Core(d, q), AllAsked(d),
           \A i \in 1..Len(q) : q[i].ptr # p
    PROVE  Core(e, q) /\ AllAsked(e)
<1>1. PICK c, b : /\ Gone(d, c, s)
                  /\ Added(c, b, s, p) /\ DeviceInv(b) /\ Present(b, s)
                  /\ e = Request(b, s, "discovery")
  BY DEF Setup
<1>2. Core(c, q) /\ AllAsked(c)
  BY <1>1, PeerGone
<1>3. c \in Devices /\ b \in Devices /\ ~Present(c, s)
  BY <1>1 DEF Gone, DeviceInv
<1>4. c.remotes \in [Skis -> Remotes \cup {None}] /\ c.pending \in Seq(Pendings)
  BY <1>3 DEF Devices, Pendings
<1>5. /\ b.remotes[s] = NewDevice(p) /\ \A u \in Skis : u # s => b.remotes[u] = c.remotes[u]
      /\ b.pending = c.pending /\ b.asked = c.asked /\ b.crossed = c.crossed /\ b.subscriptions = c.subscriptions
  BY <1>1, <1>4 DEF Added
<1>6. \A u \in Skis : u # s => (Present(b, u) <=> Present(c, u))
  BY <1>5 DEF Present
<1>7. ASSUME NEW i \in 1..Len(c.pending)
      PROVE  /\ c.pending[i].ski \in Skis /\ c.pending[i].ski # s
             /\ Present(c, c.pending[i].ski) /\ c.pending[i].inc = c.remotes[c.pending[i].ski].inc
  <2>1. c.pending[i] \in Pendings
    BY <1>4, ElementOfSeq
  <2>2. c.pending[i].ski \in Skis
    BY <2>1 DEF Pendings
  <2> QED
    BY <1>2, <1>3, <2>2 DEF Core, Waiting
<1>8. Waiting(b)
  BY <1>5, <1>6, <1>7 DEF Waiting
<1>9. Subscribed(b)
  <2> SUFFICES ASSUME NEW a \in c.subscriptions
               PROVE  \E u \in Skis : Present(b, u) /\ b.remotes[u].address = a
    BY <1>5 DEF Subscribed
  <2>1. PICK u \in Skis : Present(c, u) /\ c.remotes[u].address = a
    BY <1>2 DEF Core, Subscribed
  <2> QED
    BY <1>3, <1>5, <1>6, <2>1
<1>10. Unread(b)
  BY <1>1, <1>2, <1>5, <1>6 DEF Core, Unread
<1>11. Numbered(b, q)
  <2> SUFFICES ASSUME NEW u \in Skis, Present(b, u) PROVE Numbers(b, q, u)
    BY DEF Numbered
  <2>1. CASE u # s
    <3>1. Present(c, u) /\ b.remotes[u] = c.remotes[u] /\ Numbers(c, q, u) /\ c.remotes[u].msg_num \in Nat
      BY <1>2, <1>3, <1>5, <1>6, <2>1, RemoteTypes DEF Core, Numbered
    <3>2. \A n \in Nat, k \in Kinds : IsRead(b, q, u, n, k) => IsRead(c, q, u, n, k)
      BY <1>5, <3>1 DEF IsRead
    <3> QED
      BY <1>3, <3>1, <3>2, NumbersKept
  <2>2. CASE u = s
    <3>1. b.asked[s] = {}
      BY <1>2, <1>3, <1>5 DEF Core, Unread
    <3>2. b.remotes[s].ptr = p
      BY <1>5, NewDeviceFields
    <3>3. \A n \in Nat, k \in Kinds : ~Waits(b.pending, s, n, k)
      BY <1>5, <1>7 DEF Waits
    <3>4. \A n \in Nat, k \in Kinds : ~\E i \in 1..Len(q) : IsReply(q[i], b.remotes[s].ptr, n, k)
      BY <3>2 DEF IsReply
    <3>5. \A n \in Nat, k \in Kinds : ~IsRead(b, q, s, n, k)
      BY <3>1, <3>3, <3>4 DEF IsRead
    <3> QED
      BY <2>2, <3>5 DEF Numbers
  <2> QED
    BY <2>1, <2>2
<1>12. Core(b, q) /\ "discovery" \in Kinds
  BY <1>8, <1>9, <1>10, <1>11 DEF Core, Kinds
<1>13. /\ Core(e, q)
       /\ \A u \in Skis : IsAsked(b.pending, u) => IsAsked(e.pending, u)
       /\ IsAsked(e.pending, s)
  BY <1>1, <1>3, <1>12, CoreRequest
<1>14. e \in Devices /\ SameObjects(b, e) /\ e.crossed = b.crossed
  BY <1>1, <1>3, <1>12, RequestFields
<1>15. AllAsked(e)
  <2> SUFFICES ASSUME NEW u \in Skis, u # s, Present(e, u), ~Exists(e, u, "LoadControl"), u \notin e.crossed
               PROVE  IsAsked(e.pending, u)
    BY <1>13 DEF AllAsked
  <2>1. Present(b, u) /\ ~Exists(b, u, "LoadControl") /\ u \notin b.crossed
    BY <1>3, <1>14, AliveKept DEF SameObjects, SamePeers, Features
  <2>2. Present(c, u) /\ ~Exists(c, u, "LoadControl") /\ u \notin c.crossed
    BY <1>5, <1>6, <2>1 DEF Exists
  <2>3. IsAsked(b.pending, u)
    BY <1>2, <1>5, <2>2 DEF AllAsked
  <2> QED
    BY <1>13, <2>3
<1> QED
  BY <1>13, <1>15

(* A tick after i of its n entries have fired: what was pending is still   *)
(* there, and what has fired is asked for again.                           *)
Retried(d, e, q, n, i) ==
    /\ SameObjects(d, e) /\ e.crossed = d.crossed /\ Core(e, q)
    /\ Len(e.pending) >= Len(d.pending)
    /\ \A j \in 1..Len(d.pending) : e.pending[j] = d.pending[j]
    /\ \A j \in (n + 1 - i)..n :
          \E k \in (Len(d.pending) + 1)..Len(e.pending) :
             e.pending[k].ski = d.pending[j].ski /\ e.pending[k].kind = d.pending[j].kind

(* One entry of the timer's round.                                         *)
LEMMA RetriedNext ==
    ASSUME NEW d \in Devices, NEW c \in Devices, NEW q, NEW n \in 0..Len(d.pending), NEW i \in 0..(n - 1),
           Core(d, q), Retried(d, c, q, n, i)
    PROVE  Retried(d, Retry(c, d.pending[n - i]), q, n, i + 1)
<1> DEFINE p == d.pending[n - i]
           e == Retry(c, p)
<1> SUFFICES Retried(d, e, q, n, i + 1)
  OBVIOUS
<1>1. d.pending \in Seq(Pendings) /\ Len(d.pending) \in Nat /\ c.pending \in Seq(Pendings) /\ Len(c.pending) \in Nat
  BY LenProperties DEF Devices, Pendings
<1>2. n - i \in 1..Len(d.pending) /\ n \in Nat /\ i \in Nat /\ n + 1 - (i + 1) = n - i
  BY <1>1
<1>3. p \in Pendings
  BY <1>1, <1>2, ElementOfSeq
<1>4. p.ski \in Skis /\ p.kind \in Kinds
  BY <1>3 DEF Pendings
<1>5. Present(d, p.ski)
  BY <1>2 DEF Core, Waiting
<1>6. /\ SameObjects(d, c) /\ c.crossed = d.crossed /\ Core(c, q)
      /\ Len(c.pending) >= Len(d.pending)
      /\ \A j \in 1..Len(d.pending) : c.pending[j] = d.pending[j]
  BY DEF Retried
<1>7. \A j \in (n + 1 - i)..n :
          \E k \in (Len(d.pending) + 1)..Len(c.pending) :
             c.pending[k].ski = d.pending[j].ski /\ c.pending[k].kind = d.pending[j].kind
  BY DEF Retried
<1>8. Present(c, p.ski)
  BY <1>4, <1>5, <1>6 DEF SameObjects, SamePeers
<1> HIDE DEF p
<1>9. e = Request(c, p.ski, p.kind)
  BY <1>8 DEF Retry
<1> DEFINE x == [msg_cnt |-> c.remotes[p.ski].msg_num + 1, ski |-> p.ski, kind |-> p.kind,
                 inc |-> c.remotes[p.ski].inc]
<1>10. /\ e \in Devices /\ SameObjects(c, e) /\ e.crossed = c.crossed
       /\ e.pending = Append(c.pending, x) /\ x.msg_cnt \in Nat
  <2> DEFINE u == p.ski
             k == p.kind
             N == c.remotes[u].msg_num + 1
  <2>1. u \in Skis /\ k \in Kinds /\ Present(c, u) /\ e = Request(c, u, k)
    BY <1>4, <1>8, <1>9
  <2>2. x = [msg_cnt |-> N, ski |-> u, kind |-> k, inc |-> c.remotes[u].inc] /\ x.msg_cnt = N
    OBVIOUS
  <2> HIDE DEF u, k, x, e
  <2>3. /\ Request(c, u, k) \in Devices /\ SameObjects(c, Request(c, u, k))
        /\ Request(c, u, k).crossed = c.crossed /\ N \in Nat
        /\ Request(c, u, k).pending =
              Append(c.pending, [msg_cnt |-> N, ski |-> u, kind |-> k, inc |-> c.remotes[u].inc])
    BY <2>1, RequestFields, ZenonT(30)
  <2> QED
    BY <2>1, <2>2, <2>3
<1>11. Core(e, q)
  BY <1>4, <1>6, <1>8, <1>9, CoreRequest
<1>12. x \in Pendings /\ x.ski = p.ski /\ x.kind = p.kind
  <2>1. c.remotes[p.ski] \in Remotes
    BY <1>4, <1>8 DEF Devices, Present
  <2> QED
    BY <1>4, <1>10, <2>1 DEF Pendings, Remotes
<1> HIDE DEF x, e
<1>13. /\ Len(e.pending) = Len(c.pending) + 1
       /\ \A j \in 1..Len(c.pending) : e.pending[j] = c.pending[j]
       /\ e.pending[Len(c.pending) + 1] = x
  BY <1>1, <1>10, <1>12, AppendProperties
<1>14. SameObjects(d, e) /\ e.crossed = d.crossed
  BY <1>6, <1>10, SameTwice
<1>15. Len(e.pending) >= Len(d.pending) /\ \A j \in 1..Len(d.pending) : e.pending[j] = d.pending[j]
  BY <1>1, <1>6, <1>13
<1>16. ASSUME NEW j \in (n + 1 - (i + 1))..n
       PROVE  \E k \in (Len(d.pending) + 1)..Len(e.pending) :
                 e.pending[k].ski = d.pending[j].ski /\ e.pending[k].kind = d.pending[j].kind
  <2>1. CASE j = n - i
    <3>1. Len(c.pending) + 1 \in (Len(d.pending) + 1)..Len(e.pending)
      BY <1>1, <1>6, <1>13
    <3> QED
      BY <1>12, <1>13, <2>1, <3>1 DEF p
  <2>2. CASE j # n - i
    <3>1. j \in (n + 1 - i)..n
      BY <1>2, <2>2
    <3>2. PICK k \in (Len(d.pending) + 1)..Len(c.pending) :
             c.pending[k].ski = d.pending[j].ski /\ c.pending[k].kind = d.pending[j].kind
      BY <1>7, <3>1
    <3>3. k \in (Len(d.pending) + 1)..Len(e.pending) /\ k \in 1..Len(c.pending)
      BY <1>1, <1>13
    <3> QED
      BY <1>13, <3>2, <3>3
  <2> QED
    BY <2>1, <2>2
<1> QED
  BY <1>11, <1>14, <1>15, <1>16 DEF Retried

(* The whole round of the timer keeps every peer asked.                    *)
LEMMA PeerTick ==
    ASSUME NEW d \in Devices, NEW n \in 0..Len(d.pending), NEW q, Core(d, q), AllAsked(d)
    PROVE  Core(Tick(d, n), q) /\ AllAsked(Tick(d, n))
<1>1. PICK f \in [0..n -> Devices] :
              /\ f[0] = d
              /\ \A i \in 1..n : f[i] = Retry(f[i - 1], d.pending[n + 1 - i])
              /\ Tick(d, n) = [f[n] EXCEPT !.pending = SubSeq(@, n + 1, Len(@))]
  BY TickLoop
<1>2. n \in Nat /\ n <= Len(d.pending) /\ Len(d.pending) \in Nat /\ d.pending \in Seq(Pendings)
  BY LenProperties DEF Devices, Pendings
<1> DEFINE T == {i \in Nat : i <= n => Retried(d, f[i], q, n, i)}
<1>3. 0 \in T
  <2>1. Retried(d, d, q, n, 0)
    BY <1>2, SameSelf DEF Retried
  <2> QED
    BY <1>1, <2>1
<1>4. ASSUME NEW m \in Nat, m \in T PROVE m + 1 \in T
  <2> SUFFICES ASSUME m + 1 <= n PROVE Retried(d, f[m + 1], q, n, m + 1)
    OBVIOUS
  <2>1. m \in 0..n /\ m \in 0..(n - 1) /\ m + 1 \in 1..n /\ (m + 1) - 1 = m /\ n + 1 - (m + 1) = n - m
    BY <1>2
  <2>2. Retried(d, f[m], q, n, m) /\ f[m] \in Devices
    BY <1>1, <1>2, <1>4, <2>1
  <2>3. f[m + 1] = Retry(f[m], d.pending[n - m])
    BY <1>1, <2>1
  <2> QED
    BY <2>1, <2>2, <2>3, RetriedNext
<1>5. n \in T
  <2> HIDE DEF T
  <2> QED
    BY <1>2, <1>3, <1>4, SetInduction
<1> DEFINE c == f[n]
           z == SubSeq(c.pending, n + 1, Len(c.pending))
<1>6. Retried(d, c, q, n, n) /\ c \in Devices
  BY <1>1, <1>2, <1>5
<1>7. Tick(d, n) = [c EXCEPT !.pending = z]
  BY <1>1
<1> HIDE DEF c
<1>8. c.pending \in Seq(Pendings) /\ Len(c.pending) \in Nat /\ c.crossed \in SUBSET Skis
  BY <1>6, LenProperties DEF Devices, Pendings
<1>9. Len(c.pending) >= Len(d.pending)
  BY <1>6 DEF Retried
<1>10. /\ z \in Seq(Pendings) /\ Len(z) = Len(c.pending) - n
       /\ \A i \in 1..(Len(c.pending) - n) : z[i] = c.pending[n + i]
  <2>1. n + 1 \in 1..(Len(c.pending) + 1)
    BY <1>2, <1>8, <1>9
  <2> QED
    BY <1>2, <1>8, <1>9, <2>1, SubSeqProperties
<1> HIDE DEF z
<1>11. Among(z, c.pending)
  <2> SUFFICES ASSUME NEW i \in 1..Len(z) PROVE \E j \in 1..Len(c.pending) : z[i] = c.pending[j]
    BY DEF Among
  <2>1. n + i \in 1..Len(c.pending) /\ i \in 1..(Len(c.pending) - n)
    BY <1>2, <1>8, <1>10
  <2> QED
    BY <1>10, <2>1
<1>12. ASSUME NEW k \in (n + 1)..Len(c.pending) PROVE \E i \in 1..Len(z) : z[i] = c.pending[k]
  <2>1. k - n \in 1..(Len(c.pending) - n) /\ n + (k - n) = k
    BY <1>2, <1>8
  <2> QED
    BY <1>10, <2>1
<1>13. [c EXCEPT !.pending = z] = [c EXCEPT !.pending = z, !.crossed = c.crossed]
  BY <1>6 DEF Devices
<1> DEFINE e == [c EXCEPT !.pending = z, !.crossed = c.crossed]
<1>14. e \in Devices /\ SameObjects(c, e)
  BY <1>6, <1>8, <1>10, PendingFields
<1>15. e.pending = z /\ e.asked = c.asked /\ e.crossed = c.crossed /\ e.subscriptions = c.subscriptions
  BY <1>6 DEF Devices
<1>16. Tick(d, n) = e
  BY <1>7, <1>13
<1> HIDE DEF e
<1>17. Core(e, q)
  <2>1. SamePeers(c, e) /\ SameFeatures(c, e) /\ Core(c, q)
    BY <1>6, <1>14 DEF SameObjects, Retried
  <2>2. Subscribed(e)
    BY <1>15, <2>1 DEF Core, Subscribed, SamePeers, SameFeatures
  <2> QED
    BY <1>6, <1>11, <1>14, <1>15, <2>1, <2>2, AmongSelf, CoreFewer
<1>18. SameObjects(d, e) /\ e.crossed = d.crossed
  BY <1>6, <1>14, <1>15, SameTwice DEF Retried
<1>19. ASSUME NEW u \in Skis, IsAsked(d.pending, u) PROVE IsAsked(z, u)
  <2>1. PICK j \in 1..Len(d.pending) : d.pending[j].ski = u /\ d.pending[j].kind = "discovery"
    BY <1>19 DEF IsAsked
  <2>2. \E k \in (n + 1)..Len(c.pending) : c.pending[k].ski = u /\ c.pending[k].kind = "discovery"
    <3>1. CASE j > n
      <4>1. j \in (n + 1)..Len(c.pending) /\ c.pending[j] = d.pending[j]
        BY <1>2, <1>6, <1>8, <1>9, <3>1 DEF Retried
      <4> QED
        BY <2>1, <4>1
    <3>2. CASE j <= n
      <4>1. j \in (n + 1 - n)..n
        BY <1>2, <3>2
      <4>2. PICK k \in (Len(d.pending) + 1)..Len(c.pending) :
              c.pending[k].ski = d.pending[j].ski /\ c.pending[k].kind = d.pending[j].kind
        BY <1>6, <4>1 DEF Retried
      <4>3. k \in (n + 1)..Len(c.pending)
        BY <1>2, <1>8
      <4> QED
        BY <2>1, <4>2, <4>3
    <3> QED
      BY <1>2, <3>1, <3>2
  <2> QED
    BY <1>12, <2>2 DEF IsAsked
<1>20. AllAsked(e)
  BY <1>14, <1>15, <1>18, <1>19, AskedSame
<1> QED
  BY <1>16, <1>17, <1>20

(* A reply of peer s, queued with its number and its kind.                 *)
LEMMA PeerReply ==
    ASSUME NEW d, DeviceInv(d), Own(d), NEW s \in Skis, NEW m \in Replies, NEW ub, Present(d, s),
           NEW q, Core(d, q), AllAsked(d), IsRead(d, q, s, m.msg_cnt, m.kind)
    PROVE  LET e == ProcessDatagram(d, s, m, s, ub) IN Core(e, q) /\ AllAsked(e)
<1> DEFINE e == ProcessDatagram(d, s, m, s, ub)
<1> SUFFICES Core(e, q) /\ AllAsked(e)
  OBVIOUS
<1>1. d \in Devices /\ m.msg_cnt \in Nat /\ m.kind \in Kinds
  BY DEF DeviceInv, Replies
<1>2. \/ m.kind = "useCase" /\ e = Process(d, s, m.msg_cnt)
      \/ e = d
      \/ Discovered(d, e, s, s, {"NodeManagement"})
      \/ \E c : Discovered(d, c, s, s, Features) /\ e = Process(c, s, m.msg_cnt)
  BY ReplyCases
<1> HIDE DEF e
<1>3. CASE m.kind = "useCase" /\ e = Process(d, s, m.msg_cnt)
  <2>1. ASSUME NEW i \in 1..Len(d.pending), d.pending[i].ski = s, d.pending[i].msg_cnt = m.msg_cnt
        PROVE  d.pending[i].kind = "useCase"
    <3>1. d.pending \in Seq(Pendings)
      BY <1>1 DEF Devices, Pendings
    <3>2. d.pending[i] \in Pendings
      BY <3>1, ElementOfSeq
    <3> DEFINE k == d.pending[i].kind
    <3>3. k \in Kinds
      BY <3>2 DEF Pendings
    <3>4. IsRead(d, q, s, m.msg_cnt, k)
      BY <2>1 DEF IsRead, Waits
    <3>5. Numbers(d, q, s)
      BY DEF Core, Numbered
    <3> HIDE DEF k
    <3>6. k = m.kind
      BY <1>1, <3>3, <3>4, <3>5 DEF Numbers
    <3> QED
      BY <1>3, <3>6 DEF k
  <2> QED
    BY <1>1, <1>3, <2>1, PeerProcess
<1>4. CASE Discovered(d, e, s, s, {"NodeManagement"})
  <2>1. {"NodeManagement"} \in SUBSET Features
    BY DEF Features
  <2> QED
    BY <1>1, <1>4, <2>1, PeerRebuilt DEF Discovered
<1>5. ASSUME NEW c, Discovered(d, c, s, s, Features), e = Process(c, s, m.msg_cnt)
      PROVE  Core(e, q) /\ AllAsked(e)
  <2>1. c \in Devices /\ Present(c, s) /\ Rebuilt(d, c, s, s, Features)
    BY <1>5 DEF Discovered, Rebuilt
  <2>2. "LoadControl" \in Features
    BY DEF Features
  <2>3. Core(c, q) /\ AllAsked(c) /\ Exists(c, s, "LoadControl")
    BY <1>1, <2>1, <2>2, PeerRebuilt
  <2> QED
    BY <1>1, <1>5, <2>1, <2>3, PeerProcess
<1> QED
  BY <1>2, <1>3, <1>4, <1>5

(* So does an operation without reads.                                     *)
LEMMA AskedUnasked ==
    ASSUME NEW d \in Devices, NEW e, Unasked(d, e), AllAsked(d)
    PROVE  AllAsked(e)
  BY AskedSame DEF Unasked

PeerInv == Core(dl, msg_queue) /\ AllAsked(dl)

(* A reply that is received was a read that the peer might answer.         *)
LEMMA PeerReceive ==
    ASSUME TypeInv, NEW s \in Skis, ReceiveReply(s), PeerInv
    PROVE  PeerInv'
<1>1. PICK r \in dl.asked[s], c \in Contents :
        /\ Receive(s, [type |-> "reply", kind |-> r.kind, msg_cnt |-> r.msg_cnt, content |-> c])
        /\ dl' = [dl EXCEPT !.asked[s] = @ \ {r}]
  BY DEF ReceiveReply
<1> DEFINE m == [type |-> "reply", kind |-> r.kind, msg_cnt |-> r.msg_cnt, content |-> c]
           x == [type |-> "data", ptr |-> dl.remotes[s].ptr, from |-> s, msg |-> m]
<1>2. dl \in Devices /\ Peers(dl) /\ r \in Reads
  BY DEF TypeInv, DeviceInv, Devices
<1>3. m \in Datagrams /\ r = [msg_cnt |-> r.msg_cnt, kind |-> r.kind]
  BY <1>2 DEF Reads, Datagrams
<1>4. m.kind = r.kind /\ m.msg_cnt = r.msg_cnt
  OBVIOUS
<1>5. x.msg = m /\ x.ptr = dl.remotes[s].ptr
  OBVIOUS
<1>6. Receive(s, m)
  BY <1>1
<1> HIDE DEF m
<1>7. /\ Present(dl, s)
      /\ \A i \in 1..Len(msg_queue') :
            msg_queue'[i] = x \/ \E j \in 1..Len(msg_queue) : msg_queue'[i] = msg_queue[j]
  BY <1>3, <1>6, ReceiveCases
<1> HIDE DEF x
<1>8. dl.asked \in [Skis -> SUBSET Reads]
  BY <1>2 DEF Devices
<1>9. /\ dl' \in Devices /\ dl'.remotes = dl.remotes /\ dl'.pending = dl.pending
      /\ dl'.subscriptions = dl.subscriptions /\ dl'.crossed = dl.crossed
      /\ dl'.asked = [dl.asked EXCEPT ![s] = @ \ {r}]
  BY <1>1, <1>2 DEF Devices
<1>10. \A u \in Skis : dl'.asked[u] \subseteq dl.asked[u]
  BY <1>8, <1>9
<1>11. Waiting(dl') /\ Subscribed(dl') /\ Unread(dl') /\ AllAsked(dl')
  BY <1>9, <1>10 DEF PeerInv, Core, Waiting, Subscribed, Unread, AllAsked, Present, Exists
<1>12. ASSUME NEW u \in Skis, Present(dl', u) PROVE Numbers(dl', msg_queue', u)
  <2>1. Present(dl, u) /\ dl.remotes[u].msg_num \in Nat
    BY <1>2, <1>9, <1>12, RemoteTypes DEF Present
  <2>2. Numbers(dl, msg_queue, u)
    BY <2>1 DEF PeerInv, Core, Numbered
  <2>3. ASSUME NEW n \in Nat, NEW k \in Kinds, IsRead(dl', msg_queue', u, n, k)
        PROVE  IsRead(dl, msg_queue, u, n, k)
    <3>1. CASE [msg_cnt |-> n, kind |-> k] \in dl'.asked[u]
      BY <1>10, <3>1 DEF IsRead
    <3>2. CASE Waits(dl'.pending, u, n, k)
      BY <1>9, <3>2 DEF IsRead
    <3>3. CASE \E i \in 1..Len(msg_queue') : IsReply(msg_queue'[i], dl'.remotes[u].ptr, n, k)
      <4>1. PICK i \in 1..Len(msg_queue') : IsReply(msg_queue'[i], dl.remotes[u].ptr, n, k)
        BY <1>9, <3>3
      <4>2. CASE msg_queue'[i] = x
        <5>1. dl.remotes[u].ptr = dl.remotes[s].ptr /\ n = r.msg_cnt /\ k = r.kind
          BY <1>4, <1>5, <4>1, <4>2 DEF IsReply
        <5>2. u = s
          BY <1>2, <1>7, <2>1, <5>1 DEF Peers
        <5> QED
          BY <1>3, <5>1, <5>2 DEF IsRead
      <4>3. CASE \E j \in 1..Len(msg_queue) : msg_queue'[i] = msg_queue[j]
        BY <4>1, <4>3 DEF IsRead
      <4> QED
        BY <1>7, <4>2, <4>3
    <3> QED
      BY <2>3, <3>1, <3>2, <3>3 DEF IsRead
  <2>4. dl'.remotes[u].msg_num >= dl.remotes[u].msg_num
    BY <1>9, <2>1
  <2> QED
    BY <1>2, <1>9, <1>12, <2>1, <2>2, <2>3, <2>4, NumbersKept
<1> QED
  BY <1>11, <1>12 DEF PeerInv, Core, Numbered

(* Every step does.                                                        *)
LEMMA PeerNext ==
    ASSUME ~Reuse, TypeInv, OwnInv, PeerInv, [Next]_vars
    PROVE  PeerInv'
<1>0. /\ DeviceInv(dl) /\ dl \in Devices /\ Own(dl) /\ Delivered(dl, msg_queue) /\ msg_queue \in Seq(Messages)
      /\ Core(dl, msg_queue) /\ AllAsked(dl)
  BY DEF TypeInv, DeviceInv, OwnInv, PeerInv
<1>00. ASSUME NEW d \in Devices, Core(d, msg_queue), AllAsked(d), d = dl',
              Among(msg_queue', msg_queue)
       PROVE  PeerInv'
  <2>1. Unasked(d, d)
    BY SameSelf DEF Unasked
  <2> QED
    BY <1>00, <2>1, CoreUnasked DEF PeerInv
<1>1. ASSUME NEW s \in Skis, Connect(s) PROVE PeerInv'
  <2>1. PICK p \in Ptrs \ Used(dl), ub \in SUBSET Dangling(dl) :
          p \notin Queued /\ dl' = SetupRemoteDevice(dl, s, p, ub)
    BY <1>1 DEF Connect
  <2>2. count.connects \in 0..(MaxConnects - 1) /\ msg_queue' = msg_queue
    BY <1>1, DeviceAssumption DEF Connect, TypeInv
  <2>3. Setup(dl, dl', s, p)
    BY <1>0, <2>1, <2>2, SetupStages
  <2>4. \A i \in 1..Len(msg_queue) : msg_queue[i].ptr # p
    BY <2>1 DEF Queued
  <2>5. Core(dl', msg_queue) /\ AllAsked(dl')
    BY <1>0, <2>3, <2>4, PeerSetup
  <2> QED
    BY <2>2, <2>5 DEF PeerInv
<1>2. ASSUME NEW s \in Skis, Disconnect(s) PROVE PeerInv'
  <2>1. PICK ub \in SUBSET Dangling(dl) : dl' = RemoveRemoteDevice(dl, s, ub)
    BY <1>2 DEF Disconnect
  <2>2. Gone(dl, dl', s)
    BY <1>0, <2>1, RemoveGone
  <2>3. Core(dl', msg_queue) /\ AllAsked(dl')
    BY <1>0, <2>2, PeerGone
  <2> QED
    BY <1>2, <2>3 DEF PeerInv, Disconnect
<1>3. ASSUME NEW s \in Skis, ReceiveReply(s) PROVE PeerInv'
  BY <1>3, PeerReceive
<1>4. ASSUME NEW x \in Messages, Post(x), dl' = dl, ~\E p, n, k : IsReply(x, p, n, k) PROVE PeerInv'
  <2>1. \A i \in 1..Len(msg_queue') : msg_queue'[i] = x \/ \E j \in 1..Len(msg_queue) : msg_queue'[i] = msg_queue[j]
    BY <1>0, <1>4, PostElements
  <2>2. ASSUME NEW u \in Skis, Present(dl, u) PROVE Numbers(dl, msg_queue', u)
    <3>1. Numbers(dl, msg_queue, u) /\ dl.remotes[u].msg_num \in Nat
      BY <1>0, <2>2, RemoteTypes DEF Core, Numbered
    <3>2. ASSUME NEW n \in Nat, NEW k \in Kinds, IsRead(dl, msg_queue', u, n, k)
          PROVE  IsRead(dl, msg_queue, u, n, k)
      <4>1. CASE \E i \in 1..Len(msg_queue') : IsReply(msg_queue'[i], dl.remotes[u].ptr, n, k)
        <5>1. PICK i \in 1..Len(msg_queue') : IsReply(msg_queue'[i], dl.remotes[u].ptr, n, k)
          BY <4>1
        <5>2. msg_queue'[i] # x
          BY <1>4, <5>1
        <5>3. PICK j \in 1..Len(msg_queue) : msg_queue'[i] = msg_queue[j]
          BY <2>1, <5>2
        <5> QED
          BY <5>1, <5>3 DEF IsRead
      <4> QED
        BY <3>2, <4>1 DEF IsRead
    <3>3. dl.remotes[u].msg_num >= dl.remotes[u].msg_num
      BY <3>1
    <3> QED
      BY <1>0, <2>2, <3>1, <3>2, <3>3, NumbersKept
  <2>3. Core(dl, msg_queue')
    BY <1>0, <2>2 DEF Core, Numbered
  <2> QED
    BY <1>0, <1>4, <2>3 DEF PeerInv
<1>5. ASSUME NEW s \in Skis, ReceiveCall(s) PROVE PeerInv'
  <2>1. PICK m \in Requests : Receive(s, m) /\ UNCHANGED dl
    BY <1>5 DEF ReceiveCall
  <2>2. m \in Datagrams /\ m.type # "reply"
    BY DeviceAssumption DEF Requests, Datagrams, TypeInv
  <2> DEFINE x == [type |-> "data", ptr |-> dl.remotes[s].ptr, from |-> s, msg |-> m]
  <2>3. dl.remotes[s].ptr \in Ptrs
    BY <2>1, <2>2, ReceiveCases
  <2>4. x \in Messages /\ x.msg = m
    BY <2>2, <2>3 DEF Messages
  <2>5. Post(x)
    BY <2>1 DEF Receive
  <2> HIDE DEF x
  <2>6. ~\E p, n, k : IsReply(x, p, n, k)
    BY <2>2, <2>4 DEF IsReply
  <2> QED
    BY <1>4, <2>1, <2>4, <2>5, <2>6
<1>6. CASE PostTick
  <2> DEFINE x == [type |-> "tick", ptr |-> None]
  <2>1. x \in Messages /\ Post(x) /\ dl' = dl /\ x.type = "tick"
    BY <1>6 DEF Messages, PostTick
  <2> HIDE DEF x
  <2>2. ~\E p, n, k : IsReply(x, p, n, k)
    BY <2>1 DEF IsReply
  <2> QED
    BY <1>4, <2>1, <2>2
<1>7. ASSUME NEW f \in Features, NotifySubscribers(f) PROVE PeerInv'
  <2>1. IsFiniteSet(dl.links["subscription"])
    BY <1>0 DEF DeviceInv, LinkInv, Tables
  <2>2. Unasked(dl, dl') /\ msg_queue' = msg_queue
    BY <1>0, <1>7, <2>1, PublishFields DEF NotifySubscribers, Unasked
  <2>3. Core(dl', msg_queue) /\ AllAsked(dl')
    BY <1>0, <2>2, AmongSelf, CoreUnasked, AskedUnasked
  <2> QED
    BY <2>2, <2>3 DEF PeerInv
<1>8. CASE HandleTick
  <2>1. PICK n \in 0..Len(dl.pending) : dl' = Tick(dl, n)
    BY <1>8 DEF HandleTick
  <2>2. Core(dl', msg_queue) /\ AllAsked(dl') /\ dl' \in Devices
    BY <1>0, <2>1, PeerTick, TickFields
  <2>3. Among(msg_queue', msg_queue)
    BY <1>0, <1>8, TakeElements DEF HandleTick, Among
  <2> QED
    BY <1>00, <2>2, <2>3
<1>9. CASE HandleDatagram
  <2>1. Among(msg_queue', msg_queue)
    BY <1>0, <1>9, TakeElements DEF HandleDatagram, Among
  <2>2. CASE dl' = dl
    BY <1>0, <1>00, <2>1, <2>2
  <2>3. ASSUME NEW s \in Skis, NEW m \in Datagrams, NEW ub, Handled(s, m, ub) PROVE PeerInv'
    <3>1. /\ Present(dl, s) /\ dl' = ProcessDatagram(dl, s, m, s, ub) /\ 1 \in 1..Len(msg_queue)
          /\ msg_queue[1] = [type |-> "data", ptr |-> dl.remotes[s].ptr, from |-> s, msg |-> m]
      BY <2>3 DEF Handled
    <3>2. dl' \in Devices
      BY <1>0, <3>1, DatagramKeeps DEF DeviceInv
    <3>3. CASE m.type # "reply"
      <4>1. Unasked(dl, dl')
        BY <1>0, <3>1, <3>3, CallUnasked
      <4>2. Core(dl', msg_queue) /\ AllAsked(dl')
        BY <1>0, <4>1, AmongSelf, CoreUnasked, AskedUnasked
      <4> QED
        BY <1>00, <2>1, <3>2, <4>2
    <3>4. CASE m.type = "reply"
      <4>1. m \in Replies
        BY <3>4, DatagramKinds DEF Calls
      <4>2. IsReply(msg_queue[1], dl.remotes[s].ptr, m.msg_cnt, m.kind)
        BY <3>1, <3>4 DEF IsReply
      <4>3. IsRead(dl, msg_queue, s, m.msg_cnt, m.kind)
        BY <3>1, <4>2 DEF IsRead
      <4>4. Core(dl', msg_queue) /\ AllAsked(dl')
        BY <1>0, <3>1, <4>1, <4>3, PeerReply
      <4> QED
        BY <1>00, <2>1, <3>2, <4>4
    <3> QED
      BY <3>3, <3>4
  <2> QED
    BY <1>0, <1>9, <2>2, <2>3, HandleCases
<1>10. ASSUME NEW s \in Skis, Close(s) PROVE PeerInv'
  BY <1>10 DEF Close, PeerInv
<1>11. CASE UNCHANGED vars
  BY <1>11 DEF vars, PeerInv
<1> QED
  BY <1>1, <1>2, <1>3, <1>5, <1>6, <1>7, <1>8, <1>9, <1>10, <1>11 DEF Next

(* Node management waits for replies of present connections only, and asks *)
(* a peer that has not been discovered again, unless another peer's reply  *)
(* had the same number (node management's pending replies).                *)
THEOREM DiscoveryAskedFor ==
    ASSUME ~Reuse
    PROVE  Spec => []PeersAsked
<1>1. TypeInv /\ OwnInv /\ [Next]_vars => OwnInv'
  BY OwnNext
<1>2. TypeInv /\ OwnInv /\ PeerInv /\ [Next]_vars => PeerInv'
  BY PeerNext
<1>3. Spec => []TypeInv
  BY TypeInit, TypeNext, PTL DEF Spec
<1>4. Init => PeerInv
  <2> SUFFICES ASSUME Init PROVE PeerInv
    OBVIOUS
  <2>1. /\ \A s \in Skis : ~Present(dl, s) /\ dl.asked[s] = {}
        /\ dl.pending = <<>> /\ dl.subscriptions = {}
    BY DEF Init, Present
  <2> QED
    BY <2>1 DEF PeerInv, Core, Waiting, Subscribed, Unread, Numbered, AllAsked
<1>5. PeerInv => PeersAsked
  BY DEF PeerInv, Core, Waiting, Subscribed, AllAsked, IsAsked, PeersAsked, NoOrphans, UndiscoveredIsAsked
<1> QED
  BY <1>1, <1>2, <1>3, <1>4, <1>5, OwnInit, PTL DEF Spec

=============================================================================
