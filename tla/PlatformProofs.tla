---------------------------- MODULE PlatformProofs ----------------------------
(***************************************************************************)
(* What the library stands on, proved for every value of the constants:    *)
(* the message queue (EebusQueue), sequences, the websocket with the HTTP  *)
(* server (Websocket), and the timers, threads and FreeRTOS queue of the   *)
(* builds (EebusPlatform).                                                 *)
(***************************************************************************)
EXTENDS EebusQueue, Websocket, EebusPlatform, DataInduction, FiniteSetTheorems

-----------------------------------------------------------------------------
(* The message queue: the cyclic buffer is type correct, its flags always  *)
(* tell a full buffer from an empty one, it implements the bounded FIFO,   *)
(* and no thread sleeps while there is work nobody was woken for.          *)

\* What TypeOK and BufferInv say together: the inductive invariant of the
\* buffer.
QueueInv == TypeOK /\ BufferInv

\* A sender inside Send has brought a message: the fact about threads that
\* the invariant of the buffer rests on.
SendersInv == \A u \in Senders : thread[u] # "idle" => sending[u] \in Msgs

\* A signal changes places of threads to other places.
LEMMA SignalledType ==
  ASSUME NEW T, T \subseteq Threads,
         NEW places \in [Threads -> {"idle", "asleep", "woken"}]
  PROVE  Signalled(T, places) \subseteq [Threads -> {"idle", "asleep", "woken"}]
  BY DEF Signalled

\* A signal makes no idle thread busy.
LEMMA SignalledIdle ==
  ASSUME NEW T, T \subseteq Threads,
         NEW places \in [Threads -> {"idle", "asleep", "woken"}],
         NEW after \in Signalled(T, places), NEW u \in Threads, after[u] # "idle"
  PROVE  places[u] # "idle"
  BY DEF Signalled

\* The successor of a slot is a slot.
LEMMA NextSlotType ==
  ASSUME NEW i \in Slots
  PROVE  NextSlot(i) \in Slots
  BY QueueAssumption DEF Slots, NextSlot

\* Count is the length of the content, and occupied positions are slots.
LEMMA CountType ==
  ASSUME TypeOK
  PROVE  /\ Count \in 0 .. MaxMsg
         /\ \A i \in 1 .. Count : SlotOf(i) \in Slots
  BY QueueAssumption DEF TypeOK, Slots, Count, SlotOf

\* Writing a message into a buffer that is not full appends it.
LEMMA WriteStep ==
  ASSUME QueueInv, NEW u \in Senders, NEW m \in Msgs, ~is_full, Write(u, m)
  PROVE  /\ QueueInv'
         /\ Content' = Append(Content, m)
         /\ Count' = Count + 1
  <1> USE QueueAssumption DEF QueueInv
  <1>1. TypeOK'
    <2>1. thread' \in [Threads -> {"idle", "asleep", "woken"}]
      BY SignalledType DEF Write, TypeOK, Threads
    <2> QED BY <2>1, NextSlotType DEF Write, TypeOK, Slots
  <1>2. PICK n \in 0 .. MaxMsg : n = Count
    BY CountType
  <1>3. n = IF head >= tail THEN head - tail ELSE head + MaxMsg - tail
    BY <1>2 DEF Count
  <1>4. n < MaxMsg
    BY <1>3 DEF TypeOK, Slots
  <1>5. Count' = n + 1
    <2>1. CASE NextSlot(head) = tail
      <3>1. Count' = MaxMsg
        BY <2>1 DEF Write, Count
      <3>2. n = MaxMsg - 1
        BY <2>1, <1>3 DEF NextSlot, TypeOK, Slots, BufferInv
      <3> QED BY <3>1, <3>2
    <2>2. CASE NextSlot(head) # tail
      <3>1. ~is_full'
        BY <2>2 DEF Write
      <3>2. Count' = IF NextSlot(head) >= tail THEN NextSlot(head) - tail
                                              ELSE NextSlot(head) + MaxMsg - tail
        BY <3>1 DEF Write, Count
      <3> QED BY <2>2, <3>2, <1>3 DEF NextSlot, TypeOK, Slots
    <2> QED BY <2>1, <2>2
  <1>6. \A i \in 1 .. n : SlotOf(i)' = SlotOf(i) /\ SlotOf(i) # head /\ SlotOf(i) \in Slots
    BY <1>3 DEF TypeOK, Slots, Write, SlotOf
  <1>7. SlotOf(n + 1)' = head
    BY <1>3, <1>4 DEF TypeOK, Slots, Write, SlotOf
  <1>8. \A i \in 1 .. n : msg_buf'[SlotOf(i)'] = msg_buf[SlotOf(i)]
    BY <1>6 DEF TypeOK, Write
  <1>9. msg_buf'[SlotOf(n + 1)'] = m
    BY <1>7 DEF TypeOK, Write
  <1>10. BufferInv'
    <2>1. (head = tail <=> is_full \/ is_empty)' /\ (~(is_full /\ is_empty))'
      BY DEF Write
    <2>2. ASSUME NEW i \in 1 .. n + 1
          PROVE  msg_buf'[SlotOf(i)'] \in Msgs
      <3>1. CASE i = n + 1
        BY <1>9, <3>1
      <3>2. CASE i \in 1 .. n
        BY <1>2, <1>8, <3>2 DEF BufferInv
      <3> QED BY <3>1, <3>2
    <2>3. \A i \in 1 .. Count' : msg_buf'[SlotOf(i)'] \in Msgs
      BY <2>2, <1>5
    <2> QED BY <2>1, <2>3 DEF BufferInv
  <1>11. Content' = Append(Content, m)
    <2>1. Content' = [i \in 1 .. n + 1 |-> msg_buf'[SlotOf(i)']]
      BY <1>5 DEF Content
    <2>2. Content = [i \in 1 .. n |-> msg_buf[SlotOf(i)]]
      BY <1>2 DEF Content
    <2>3. \A i \in 1 .. n : msg_buf[SlotOf(i)] \in Msgs
      BY <1>2 DEF BufferInv
    <2>4. Content \in Seq(Msgs) /\ Len(Content) = n
      BY <2>2, <2>3
    <2>5. /\ Append(Content, m) \in Seq(Msgs) /\ Len(Append(Content, m)) = n + 1
          /\ \A i \in 1 .. n : Append(Content, m)[i] = Content[i]
          /\ Append(Content, m)[n + 1] = m
      BY <2>4, AppendProperties
    <2>6. \A i \in 1 .. n + 1 : msg_buf'[SlotOf(i)'] = Append(Content, m)[i]
      BY <1>8, <1>9, <2>2, <2>5
    <2>7. Content' \in Seq(Msgs) /\ Len(Content') = n + 1
      BY <2>1, <1>5, <1>10 DEF BufferInv
    <2>8. \A i \in 1 .. n + 1 : Content'[i] = Append(Content, m)[i]
      BY <2>1, <2>6
    <2> QED BY <2>5, <2>7, <2>8, SeqEqual
  <1> QED BY <1>1, <1>2, <1>5, <1>10, <1>11

\* Reading from a buffer that is not empty removes the oldest message.
LEMMA ReadStep ==
  ASSUME QueueInv, NEW u \in Receivers, ~is_empty, Read(u)
  PROVE  /\ QueueInv'
         /\ Content # << >>
         /\ Content' = Tail(Content)
         /\ Count' = Count - 1
  <1> USE QueueAssumption DEF QueueInv
  <1>1. TypeOK'
    <2>1. thread' \in [Threads -> {"idle", "asleep", "woken"}]
      BY SignalledType DEF Read, TypeOK, Threads
    <2> QED BY <2>1, NextSlotType DEF Read, TypeOK, Slots
  <1>2. PICK n \in 0 .. MaxMsg : n = Count
    BY CountType
  <1>3. Count' = IF head >= NextSlot(tail) THEN head - NextSlot(tail)
                                           ELSE head + MaxMsg - NextSlot(tail)
    BY DEF Read, Count
  <1>4. Count' = n - 1 /\ n >= 1
    <2>1. CASE is_full
      <3>1. n = MaxMsg /\ head = tail
        BY <2>1, <1>2 DEF Count, BufferInv
      <3> QED BY <3>1, <1>3 DEF NextSlot, TypeOK, Slots
    <2>2. CASE ~is_full
      <3>1. n = IF head >= tail THEN head - tail ELSE head + MaxMsg - tail
        BY <2>2, <1>2 DEF Count
      <3>2. head # tail
        BY <2>2 DEF BufferInv
      <3> QED BY <3>1, <3>2, <1>3 DEF NextSlot, TypeOK, Slots
    <2> QED BY <2>1, <2>2
  <1>5. \A i \in 1 .. n - 1 : SlotOf(i)' = SlotOf(i + 1)
    BY DEF TypeOK, Slots, Read, NextSlot, SlotOf
  <1>6. \A i \in 1 .. n - 1 : msg_buf'[SlotOf(i)'] = msg_buf[SlotOf(i + 1)]
    BY <1>5 DEF Read
  <1>7. \A i \in 1 .. n : msg_buf[SlotOf(i)] \in Msgs
    BY <1>2 DEF BufferInv
  <1>8. BufferInv'
    <2>1. (head = tail <=> is_full \/ is_empty)' /\ (~(is_full /\ is_empty))'
      BY DEF Read
    <2>2. \A i \in 1 .. n - 1 : msg_buf'[SlotOf(i)'] \in Msgs
      BY <1>6, <1>7
    <2>3. \A i \in 1 .. Count' : msg_buf'[SlotOf(i)'] \in Msgs
      BY <2>2, <1>4
    <2> QED BY <2>1, <2>3 DEF BufferInv
  <1>9. Content # << >> /\ Content' = Tail(Content)
    <2>1. Content' = [i \in 1 .. n - 1 |-> msg_buf'[SlotOf(i)']]
      BY <1>4 DEF Content
    <2>2. Content = [i \in 1 .. n |-> msg_buf[SlotOf(i)]]
      BY <1>2 DEF Content
    <2>3. Content \in Seq(Msgs) /\ Len(Content) = n
      BY <2>2, <1>7
    <2>4. Content # << >>
      BY <2>3, <1>4
    <2>5. /\ Tail(Content) \in Seq(Msgs) /\ Len(Tail(Content)) = n - 1
          /\ \A i \in 1 .. n - 1 : Tail(Content)[i] = Content[i + 1]
      BY <2>3, <2>4, HeadTailProperties
    <2>6. \A i \in 1 .. n - 1 : msg_buf'[SlotOf(i)'] = Content[i + 1]
      BY <1>6, <2>2
    <2>7. Content' \in Seq(Msgs) /\ Len(Content') = n - 1
      BY <2>1, <1>4, <1>8 DEF BufferInv
    <2>8. \A i \in 1 .. n - 1 : Content'[i] = Tail(Content)[i]
      BY <2>1, <2>5, <2>6
    <2>9. Content' = Tail(Content)
      BY <2>5, <2>7, <2>8, SeqEqual
    <2> QED BY <2>4, <2>9
  <1> QED BY <1>1, <1>2, <1>4, <1>8, <1>9

\* Clearing leaves no message.
LEMMA ClearStep ==
  ASSUME QueueInv, ClearBuffer, is_closed' \in BOOLEAN,
         thread' \in [Threads -> {"idle", "asleep", "woken"}]
  PROVE  QueueInv' /\ Content' = << >>
  <1> USE QueueAssumption DEF QueueInv
  <1>1. {Content[i] : i \in 1 .. Count} \subseteq Msgs
    BY CountType DEF Content, BufferInv
  <1>2. TypeOK'
    BY <1>1 DEF TypeOK, ClearBuffer
  <1>3. Count' = 0
    BY <1>2 DEF TypeOK, ClearBuffer, Count, Slots
  <1>4. BufferInv'
    BY <1>2, <1>3 DEF BufferInv, ClearBuffer, TypeOK
  <1> QED BY <1>2, <1>3, <1>4 DEF Content

\* A step that only moves a thread leaves the queue as it is.
LEMMA WaitStep ==
  ASSUME QueueInv,
         UNCHANGED <<msg_buf, head, tail, is_full, is_empty, is_closed, leaked>>,
         thread' \in [Threads -> {"idle", "asleep", "woken"}],
         sending' \in [Senders -> Msgs \cup {NoMsg}]
  PROVE  QueueInv' /\ UNCHANGED <<Content, is_closed>>
  BY DEF QueueInv, TypeOK, BufferInv, Content, Count, SlotOf

\* Every step keeps the inductive invariant and is a step of the bounded FIFO.
LEMMA QueueStep ==
  ASSUME QueueInv, SendersInv, [Next]_vars
  PROVE  QueueInv' /\ [Fifo!Next]_(Fifo!vars)
  <1> USE QueueAssumption DEF QueueInv
  <1>1. ASSUME NEW u \in Senders, NEW m \in Msgs, ~is_closed, ~is_full, Write(u, m)
        PROVE  QueueInv' /\ Fifo!Next
    <2>1. QueueInv' /\ Content' = Append(Content, m)
      BY <1>1, WriteStep
    <2>2. Len(Content) < MaxMsg
      <3>1. Len(Content) = Count /\ Count < MaxMsg
        BY <1>1, CountType DEF Content, Count, TypeOK, Slots
      <3> QED BY <3>1
    <2> QED BY <1>1, <2>1, <2>2 DEF Write, Fifo!Next, Fifo!Put
  <1>2. ASSUME NEW u \in Receivers, ~is_closed, ~is_empty, Read(u)
        PROVE  QueueInv' /\ Fifo!Next
    BY <1>2, ReadStep DEF Read, Fifo!Next, Fifo!Take
  <1>3. ASSUME NEW u \in Threads, NEW p \in {"idle", "asleep", "woken"}, Wait(u, p),
               sending' \in [Senders -> Msgs \cup {NoMsg}]
        PROVE  QueueInv' /\ UNCHANGED Fifo!vars
    BY <1>3, WaitStep DEF Wait, TypeOK, Fifo!vars
  <1>4. ASSUME NEW u \in Senders, NEW m \in Msgs, Send(u, m)
        PROVE  QueueInv' /\ [Fifo!Next]_(Fifo!vars)
    <2>1. CASE ~is_full /\ Write(u, m)
      BY <1>1, <1>4, <2>1 DEF Send
    <2>2. CASE is_full /\ Wait(u, "asleep") /\ sending' = [sending EXCEPT ![u] = m]
      <3>1. sending' \in [Senders -> Msgs \cup {NoMsg}]
        BY <2>2 DEF TypeOK
      <3> QED BY <1>3, <2>2, <3>1 DEF Threads
    <2> QED BY <1>4, <2>1, <2>2 DEF Send
  <1>5. ASSUME NEW u \in Receivers, Receive(u)
        PROVE  QueueInv' /\ [Fifo!Next]_(Fifo!vars)
    <2>1. CASE ~is_empty /\ Read(u)
      BY <1>2, <1>5, <2>1 DEF Receive
    <2>2. CASE is_empty /\ Wait(u, "asleep") /\ UNCHANGED sending
      BY <1>3, <2>2 DEF Threads, TypeOK
    <2> QED BY <1>5, <2>1, <2>2 DEF Receive
  <1>6. ASSUME NEW u \in Threads, ReceiveInternal(u)
        PROVE  QueueInv' /\ [Fifo!Next]_(Fifo!vars)
    <2>1. CASE ~is_closed /\ ~is_empty /\ Read(u)
      BY <1>2, <1>6, <2>1 DEF ReceiveInternal
    <2>2. CASE Wait(u, "asleep") /\ UNCHANGED sending
      BY <1>3, <2>2 DEF TypeOK
    <2>3. CASE Wait(u, "idle") /\ UNCHANGED sending
      BY <1>3, <2>3 DEF TypeOK
    <2> QED BY <1>6, <2>1, <2>2, <2>3 DEF ReceiveInternal
  <1>7. ASSUME NEW u \in Threads, SpuriousWakeup(u)
        PROVE  QueueInv' /\ [Fifo!Next]_(Fifo!vars)
    BY <1>7, WaitStep DEF SpuriousWakeup, TypeOK, Fifo!vars
  <1>8. ASSUME Clear
        PROVE  QueueInv' /\ [Fifo!Next]_(Fifo!vars)
    <2>1. thread' \in [Threads -> {"idle", "asleep", "woken"}]
      BY <1>8, SignalledType DEF Clear, TypeOK, Threads
    <2>2. QueueInv' /\ Content' = << >>
      BY <1>8, <2>1, ClearStep DEF Clear, TypeOK
    <2> QED BY <1>8, <2>2 DEF Clear, Fifo!Next, Fifo!Discard
  <1>9. ASSUME Destruct
        PROVE  QueueInv' /\ [Fifo!Next]_(Fifo!vars)
    <2>1. PICK one \in Signalled(Senders, thread) :
            \E two \in Signalled(Receivers, one) : thread' \in Signalled(Senders, two)
      BY <1>9 DEF Destruct
    <2>2. one \in [Threads -> {"idle", "asleep", "woken"}]
      BY <2>1, SignalledType DEF TypeOK, Threads
    <2>3. PICK two \in Signalled(Receivers, one) : thread' \in Signalled(Senders, two)
      BY <2>1
    <2>4. two \in [Threads -> {"idle", "asleep", "woken"}]
      BY <2>2, <2>3, SignalledType DEF Threads
    <2>5. thread' \in [Threads -> {"idle", "asleep", "woken"}]
      BY <2>3, <2>4, SignalledType DEF Threads
    <2>6. QueueInv' /\ Content' = << >>
      BY <1>9, <2>5, ClearStep DEF Destruct
    <2> QED BY <1>9, <2>6 DEF Destruct, Fifo!Next, Fifo!Close
  <1>10. ASSUME UNCHANGED vars
         PROVE  QueueInv' /\ [Fifo!Next]_(Fifo!vars)
    BY <1>10, WaitStep DEF vars, TypeOK, Fifo!vars
  <1>11. ASSUME NEW u \in Threads, SendInternal(u)
         PROVE  QueueInv' /\ [Fifo!Next]_(Fifo!vars)
    <2>1. CASE ~is_closed /\ ~is_full /\ Write(u, sending[u])
      <3>1. sending[u] \in Msgs
        BY <1>11 DEF SendInternal, SendersInv
      <3> QED BY <1>1, <1>11, <2>1, <3>1 DEF SendInternal
    <2>2. CASE Wait(u, "asleep") /\ UNCHANGED sending
      BY <1>3, <2>2 DEF TypeOK
    <2>3. CASE Wait(u, "idle") /\ sending' = [sending EXCEPT ![u] = NoMsg]
      <3>1. sending' \in [Senders -> Msgs \cup {NoMsg}]
        BY <2>3 DEF TypeOK
      <3> QED BY <1>3, <2>3, <3>1
    <2> QED BY <1>11, <2>1, <2>2, <2>3 DEF SendInternal
  <1> QED BY <1>4, <1>5, <1>6, <1>7, <1>8, <1>9, <1>10, <1>11 DEF Next

\* A sleeping or woken sender keeps the message it brought.
LEMMA SendersStep ==
  ASSUME TypeOK, SendersInv, [Next]_vars
  PROVE  SendersInv'
  <1> SUFFICES ASSUME NEW s \in Senders, thread'[s] # "idle"
               PROVE  sending'[s] \in Msgs
    BY DEF SendersInv
  <1> USE DEF TypeOK, Threads
  <1>1. ASSUME NEW u \in Senders, NEW m, Write(u, m)
        PROVE  sending'[s] \in Msgs
    <2>1. [thread EXCEPT ![u] = "idle"][s] # "idle"
      BY <1>1, SignalledIdle DEF Write
    <2> QED BY <1>1, <2>1 DEF Write, SendersInv
  <1>2. ASSUME NEW u \in Receivers, Read(u)
        PROVE  sending'[s] \in Msgs
    <2>1. [thread EXCEPT ![u] = "idle"][s] # "idle"
      BY <1>2, SignalledIdle DEF Read
    <2> QED BY <1>2, <2>1 DEF Read, SendersInv
  <1>3. ASSUME NEW u \in Senders, NEW m \in Msgs, Send(u, m)
        PROVE  sending'[s] \in Msgs
    BY <1>1, <1>3 DEF Send, Wait, SendersInv
  <1>4. ASSUME NEW u \in Threads, SendInternal(u)
        PROVE  sending'[s] \in Msgs
    BY <1>1, <1>4 DEF SendInternal, Wait, SendersInv
  <1>5. ASSUME NEW u \in Receivers, Receive(u) \/ ReceiveInternal(u)
        PROVE  sending'[s] \in Msgs
    BY <1>2, <1>5, QueueAssumption DEF Receive, ReceiveInternal, Wait, SendersInv
  <1>6. ASSUME NEW u \in Threads, SpuriousWakeup(u)
        PROVE  sending'[s] \in Msgs
    BY <1>6 DEF SpuriousWakeup, SendersInv
  <1>7. CASE Clear
    <2>1. thread[s] # "idle"
      BY <1>7, SignalledIdle DEF Clear
    <2> QED BY <1>7, <2>1 DEF Clear, ClearBuffer, SendersInv
  <1>8. CASE Destruct
    <2>1. PICK one \in Signalled(Senders, thread) :
            \E two \in Signalled(Receivers, one) : thread' \in Signalled(Senders, two)
      BY <1>8 DEF Destruct
    <2>2. PICK two \in Signalled(Receivers, one) : thread' \in Signalled(Senders, two)
      BY <2>1
    <2>3. one \in [Threads -> {"idle", "asleep", "woken"}]
      BY <2>1, SignalledType
    <2>4. two \in [Threads -> {"idle", "asleep", "woken"}]
      BY <2>2, <2>3, SignalledType
    <2>5. two[s] # "idle"
      BY <2>2, <2>4, SignalledIdle
    <2>6. one[s] # "idle"
      BY <2>2, <2>3, <2>5, SignalledIdle
    <2>7. thread[s] # "idle"
      BY <2>1, <2>6, SignalledIdle
    <2> QED BY <1>8, <2>7 DEF Destruct, ClearBuffer, SendersInv
  <1>9. CASE UNCHANGED vars
    BY <1>9 DEF vars, SendersInv
  <1>10. ASSUME NEW u \in Threads, ReceiveInternal(u)
         PROVE  u \in Receivers
    BY <1>10 DEF ReceiveInternal
  <1> QED BY <1>3, <1>4, <1>5, <1>6, <1>7, <1>8, <1>9, <1>10 DEF Next

\* The buffer starts empty.
LEMMA QueueInit == Init => QueueInv /\ SendersInv /\ Fifo!Init
  <1> SUFFICES ASSUME Init PROVE QueueInv /\ SendersInv /\ Fifo!Init
    OBVIOUS
  <1>1. Count = 0
    BY QueueAssumption DEF Init, Count
  <1>2. TypeOK
    <2>1. 0 \in Slots
      BY QueueAssumption DEF Slots
    <2>2. leaked \in SUBSET Msgs
      BY DEF Init
    <2>3. thread \in [Threads -> {"idle", "asleep", "woken"}]
      BY DEF Init
    <2>4. msg_buf \in [Slots -> Msgs \cup {NoMsg}] /\ sending \in [Senders -> Msgs \cup {NoMsg}]
      BY DEF Init
    <2> QED BY <2>1, <2>2, <2>3, <2>4 DEF Init, TypeOK
  <1>3. BufferInv
    BY <1>1 DEF Init, BufferInv
  <1>4. Fifo!Init
    BY <1>1 DEF Init, Fifo!Init, Content
  <1> QED BY <1>2, <1>3, <1>4 DEF Init, QueueInv, SendersInv, Threads

-----------------------------------------------------------------------------
\* A signal wakes exactly one sleeper of its condition variable, or finds none.
LEMMA SignalledWakes ==
  ASSUME NEW T, NEW places, NEW after \in Signalled(T, places)
  PROVE  \/ /\ \A u \in T : places[u] # "asleep"
            /\ after = places
         \/ \E v \in T : places[v] = "asleep" /\ after = [places EXCEPT ![v] = "woken"]
  BY DEF Signalled

\* The receivers that were woken are finitely many.
LEMMA WokenFinite ==
  IsFiniteSet(Woken(Receivers)) /\ Cardinality(Woken(Receivers)) \in Nat
  <1>1. Woken(Receivers) \subseteq Receivers
    BY DEF Woken
  <1>2. IsFiniteSet(Woken(Receivers))
    BY <1>1, FS_Subset, QueueAssumption
  <1> QED BY <1>2, FS_CardinalityType

\* A receiver that is woken is one more.
LEMMA OneMoreWoken ==
  ASSUME TypeOK, NEW v \in Receivers, thread[v] # "woken",
         Woken(Receivers)' = Woken(Receivers) \cup {v}
  PROVE  Cardinality(Woken(Receivers)') = Cardinality(Woken(Receivers)) + 1
  <1>1. v \notin Woken(Receivers)
    BY DEF Woken
  <1> QED BY <1>1, WokenFinite, FS_AddElement

\* A queue that calls itself empty has no message, and the other way round.
LEMMA CountEmpty ==
  ASSUME QueueInv
  PROVE  /\ Count \in Nat
         /\ is_empty <=> Count = 0
  <1>1. Count \in Nat
    BY CountType, QueueAssumption DEF QueueInv
  <1> QED BY <1>1, QueueAssumption DEF QueueInv, Count, TypeOK, BufferInv, Slots

\* A message that is written finds a receiver woken for it.
LEMMA WriteStrandsNone ==
  ASSUME QueueInv, NoneStranded, ~is_closed, NEW u \in Senders, NEW m \in Msgs,
         ~is_full, Write(u, m)
  PROVE  NoneStranded'
  <1> USE QueueAssumption DEF QueueInv
  <1>1. Count \in Nat /\ Count' = Count + 1 /\ ~is_empty'
    BY CountEmpty, WriteStep DEF Write
  <1> DEFINE places == [thread EXCEPT ![u] = "idle"]
  <1>2. /\ thread' \in Signalled(Receivers, places)
        /\ \A r \in Receivers : places[r] = thread[r]
        /\ places \in [Threads -> {"idle", "asleep", "woken"}]
    BY DEF Write, TypeOK, Threads
  <1> HIDE DEF places
  <1>3. CASE (\A r \in Receivers : places[r] # "asleep") /\ thread' = places
    BY <1>1, <1>2, <1>3 DEF NoneStranded, Asleep
  <1>4. ASSUME NEW v \in Receivers, places[v] = "asleep",
               thread' = [places EXCEPT ![v] = "woken"]
        PROVE  NoneStranded'
    <2>1. Woken(Receivers)' = Woken(Receivers) \cup {v} /\ v \in Asleep(Receivers)
      BY <1>2, <1>4 DEF Woken, Asleep, Threads
    <2>2. Cardinality(Woken(Receivers)') = Cardinality(Woken(Receivers)) + 1
      BY <2>1, OneMoreWoken DEF Asleep
    <2>3. Count <= Cardinality(Woken(Receivers))
      BY <2>1 DEF NoneStranded
    <2> QED BY <1>1, <2>2, <2>3, WokenFinite DEF NoneStranded
  <1> QED BY <1>2, <1>3, <1>4, SignalledWakes

\* A receiver that takes a message was not woken, or the message is the one it
\* was woken for; the slot it frees wakes a sender.
LEMMA ReadStrandsNone ==
  ASSUME QueueInv, NoneStranded, ~is_closed, NEW u \in Receivers,
         thread[u] # "asleep", ~is_empty, Read(u)
  PROVE  NoneStranded'
  <1> USE QueueAssumption DEF QueueInv
  <1>1. Count \in Nat /\ Count' = Count - 1
    BY CountEmpty, ReadStep
  <1> DEFINE places == [thread EXCEPT ![u] = "idle"]
  <1>2. /\ thread' \in Signalled(Senders, places)
        /\ \A s \in Senders : places[s] = thread[s]
        /\ places \in [Threads -> {"idle", "asleep", "woken"}]
    BY DEF Read, TypeOK, Threads
  <1>3. \A r \in Receivers : thread'[r] = places[r]
    <2> HIDE DEF places
    <2>1. ASSUME NEW v \in Senders, thread' = [places EXCEPT ![v] = "woken"]
          PROVE  \A r \in Receivers : thread'[r] = places[r]
      BY <1>2, <2>1 DEF Threads
    <2> QED BY <1>2, <2>1, SignalledWakes
  <1>4. Asleep(Receivers)' = Asleep(Receivers) /\ Woken(Receivers)' = Woken(Receivers) \ {u}
    BY <1>3 DEF Asleep, Woken, TypeOK, Threads
  <1>5. Asleep(Receivers)' # {} => Count' <= Cardinality(Woken(Receivers)')
    <2>1. SUFFICES ASSUME Asleep(Receivers) # {}
                   PROVE  Count' <= Cardinality(Woken(Receivers)')
      BY <1>4
    <2>2. Count <= Cardinality(Woken(Receivers))
      BY <2>1 DEF NoneStranded
    <2>3. CASE u \in Woken(Receivers)
      <3>1. Cardinality(Woken(Receivers)') = Cardinality(Woken(Receivers)) - 1
        BY <1>4, <2>3, WokenFinite, FS_RemoveElement, ZenonT(30)
      <3> QED BY <1>1, <2>2, <3>1, WokenFinite
    <2>4. CASE u \notin Woken(Receivers)
      <3>1. Woken(Receivers)' = Woken(Receivers)
        BY <1>4, <2>4
      <3> QED BY <1>1, <2>2, <3>1, WokenFinite
    <2> QED BY <2>3, <2>4
  <1>6. Asleep(Senders)' # {} => Woken(Senders)' # {}
    <2> HIDE DEF places
    <2>1. CASE (\A s \in Senders : places[s] # "asleep") /\ thread' = places
      BY <2>1 DEF Asleep
    <2>2. ASSUME NEW v \in Senders, thread' = [places EXCEPT ![v] = "woken"]
          PROVE  v \in Woken(Senders)'
      BY <1>2, <2>2 DEF Woken, Threads
    <2> QED BY <1>2, <2>1, <2>2, SignalledWakes
  <1> QED BY <1>5, <1>6 DEF NoneStranded

\* A sender that goes to sleep leaves messages in the queue that will be read,
\* a receiver that does leaves none.
LEMMA WaitStrandsNone ==
  ASSUME QueueInv, NoneStranded, ~is_closed, NEW u \in Threads, Wait(u, "asleep"),
         u \in Senders => is_full, u \in Receivers => is_empty
  PROVE  NoneStranded'
  <1> USE QueueAssumption DEF QueueInv
  <1>1. Count' = Count /\ is_empty' = is_empty /\ Count \in Nat /\ (is_empty <=> Count = 0)
    BY CountEmpty DEF Wait, Count
  <1>2. CASE u \in Senders
    <2>1. Asleep(Receivers)' = Asleep(Receivers) /\ Woken(Receivers)' = Woken(Receivers)
      BY <1>2 DEF Wait, Asleep, Woken, TypeOK, Threads
    <2>2. ~is_empty
      BY <1>2 DEF BufferInv
    <2> QED BY <1>1, <2>1, <2>2 DEF NoneStranded
  <1>3. CASE u \in Receivers
    <2>1. Asleep(Senders)' = Asleep(Senders) /\ Woken(Senders)' = Woken(Senders)
      BY <1>3 DEF Wait, Asleep, Woken, TypeOK, Threads
    <2>2. Woken(Receivers)' \subseteq Receivers
      BY DEF Woken
    <2>3. Cardinality(Woken(Receivers)') \in Nat
      BY <2>2, FS_Subset, FS_CardinalityType
    <2>4. is_closed' = is_closed
      BY DEF Wait
    <2> QED BY <1>1, <1>3, <2>1, <2>3, <2>4 DEF NoneStranded
  <1> QED BY <1>2, <1>3 DEF Threads

\* A spurious return of pthread_cond_wait only adds to the woken threads.
LEMMA SpuriousStrandsNone ==
  ASSUME QueueInv, NoneStranded, NEW u \in Threads, SpuriousWakeup(u)
  PROVE  NoneStranded'
  <1> USE QueueAssumption DEF QueueInv
  <1>1. /\ Count' = Count /\ is_empty' = is_empty /\ is_closed' = is_closed
        /\ Count \in Nat
    BY CountEmpty DEF SpuriousWakeup, Count
  <1>2. CASE u \in Senders
    <2>1. Asleep(Receivers)' = Asleep(Receivers) /\ Woken(Receivers)' = Woken(Receivers)
      BY <1>2 DEF SpuriousWakeup, Asleep, Woken, TypeOK, Threads
    <2>2. u \in Woken(Senders)'
      BY <1>2 DEF SpuriousWakeup, Woken, TypeOK, Threads
    <2> QED BY <1>1, <2>1, <2>2 DEF NoneStranded
  <1>3. CASE u \in Receivers
    <2>1. Asleep(Senders)' = Asleep(Senders) /\ Woken(Senders)' = Woken(Senders)
      BY <1>3 DEF SpuriousWakeup, Asleep, Woken, TypeOK, Threads
    <2>2. Woken(Receivers)' = Woken(Receivers) \cup {u} /\ u \in Asleep(Receivers)
      BY <1>3 DEF SpuriousWakeup, Woken, Asleep, TypeOK, Threads
    <2>3. Cardinality(Woken(Receivers)') = Cardinality(Woken(Receivers)) + 1
      BY <1>3, <2>2, OneMoreWoken DEF Asleep
    <2> QED BY <1>1, <2>1, <2>2, <2>3, WokenFinite DEF NoneStranded
  <1> QED BY <1>2, <1>3 DEF Threads

\* Clearing the queue wakes a sender when one sleeps.
LEMMA ClearStrandsNone ==
  ASSUME QueueInv, NoneStranded, Clear
  PROVE  NoneStranded'
  <1> USE QueueAssumption DEF QueueInv
  <1>1. Count' = 0
    BY DEF Clear, ClearBuffer, Count, TypeOK, Slots
  <1>2. Woken(Receivers)' \subseteq Receivers
    BY DEF Woken
  <1>3. Cardinality(Woken(Receivers)') \in Nat
    BY <1>2, FS_Subset, FS_CardinalityType
  <1>4. Asleep(Senders)' # {} => Woken(Senders)' # {}
    <2>1. CASE (\A s \in Senders : thread[s] # "asleep") /\ thread' = thread
      BY <2>1 DEF Asleep
    <2>2. ASSUME NEW v \in Senders, thread' = [thread EXCEPT ![v] = "woken"]
          PROVE  v \in Woken(Senders)'
      BY <2>2 DEF Woken, Threads, TypeOK
    <2>3. thread' \in Signalled(Senders, thread)
      BY DEF Clear
    <2> QED BY <2>1, <2>2, <2>3, SignalledWakes
  <1> QED BY <1>1, <1>3, <1>4 DEF NoneStranded

\* No step leaves a thread asleep beside work that nobody was woken for.
LEMMA StrandedStep ==
  ASSUME QueueInv, SendersInv, NoneStranded, [Next]_vars
  PROVE  NoneStranded'
  <1> USE QueueAssumption
  <1>1. ASSUME NEW u \in Senders, NEW m \in Msgs, Send(u, m)
        PROVE  NoneStranded'
    BY <1>1, WriteStrandsNone, WaitStrandsNone DEF Send, Threads
  <1>2. ASSUME NEW u \in Receivers, Receive(u)
        PROVE  NoneStranded'
    BY <1>2, ReadStrandsNone, WaitStrandsNone DEF Receive, Threads
  <1>3. ASSUME is_closed, UNCHANGED is_closed
        PROVE  NoneStranded'
    BY <1>3 DEF NoneStranded
  <1>4. ASSUME NEW u \in Threads, SendInternal(u)
        PROVE  NoneStranded'
    <2>1. u \in Senders /\ sending[u] \in Msgs
      BY <1>4 DEF SendInternal, SendersInv
    <2>2. CASE is_closed /\ Wait(u, "idle")
      BY <1>3, <2>2 DEF Wait
    <2> QED BY <1>4, <2>1, <2>2, WriteStrandsNone, WaitStrandsNone DEF SendInternal
  <1>5. ASSUME NEW u \in Threads, ReceiveInternal(u)
        PROVE  NoneStranded'
    <2>1. u \in Receivers /\ thread[u] # "asleep"
      BY <1>5 DEF ReceiveInternal
    <2>2. CASE is_closed /\ Wait(u, "idle")
      BY <1>3, <2>2 DEF Wait
    <2> QED BY <1>5, <2>1, <2>2, ReadStrandsNone, WaitStrandsNone DEF ReceiveInternal
  <1>6. CASE Destruct
    BY <1>6 DEF Destruct, NoneStranded
  <1>7. CASE UNCHANGED vars
    BY <1>7 DEF vars, NoneStranded, Asleep, Woken, Count
  <1> QED BY <1>1, <1>2, <1>4, <1>5, <1>6, <1>7, SpuriousStrandsNone, ClearStrandsNone DEF Next

\* Every reachable state of the queue is type correct.
THEOREM QueueTypeOK == Spec => []TypeOK
  <1>1. QueueInv => TypeOK
    BY DEF QueueInv
  <1> QED BY <1>1, QueueInit, QueueStep, SendersStep, PTL DEF Spec

\* Full and empty are never mistaken for one another.
THEOREM QueueBufferInv == Spec => []BufferInv
  <1>1. QueueInv => TypeOK /\ BufferInv
    BY DEF QueueInv
  <1> QED BY <1>1, QueueInit, QueueStep, SendersStep, PTL DEF Spec

\* The cyclic buffer implements the bounded FIFO.
THEOREM QueueImplementsFifo == Spec => ImplementsFifo
  <1>1. QueueInv => TypeOK
    BY DEF QueueInv
  <1> QED BY <1>1, QueueInit, QueueStep, SendersStep, PTL DEF Spec, ImplementsFifo, Fifo!Spec

\* No thread sleeps beside work that nobody was woken for: the single signal of
\* Send, Receive and Clear is enough although WaitCond returns to its test and
\* several threads share a condition variable.
THEOREM QueueNoneStranded == Spec => []NoneStranded
  <1>1. QueueInv => TypeOK
    BY DEF QueueInv
  <1>2. Init => NoneStranded
    BY DEF Init, NoneStranded, Asleep, Threads
  <1> QED BY <1>1, <1>2, QueueInit, QueueStep, SendersStep, StrandedStep, PTL DEF Spec

-----------------------------------------------------------------------------
(* Sequences.                                                              *)

\* A prefix is as long at most, and equal at its own places.
LEMMA PrefixIndices ==
    ASSUME NEW S, NEW s \in Seq(S), NEW z \in Seq(S)
    PROVE  IsPrefix(s, z) <=> Len(s) <= Len(z) /\ \A i \in 1 .. Len(s) : s[i] = z[i]
<1>0. Len(s) \in Nat /\ Len(z) \in Nat
  BY LenProperties
<1>1. CASE ~(Len(s) <= Len(z))
  BY <1>1 DEF IsPrefix
<1>2. CASE Len(s) <= Len(z)
  <2>1. /\ SubSeq(s, 1, Len(s)) \in Seq(S) /\ Len(SubSeq(s, 1, Len(s))) = Len(s)
        /\ \A i \in 1 .. Len(s) : SubSeq(s, 1, Len(s))[i] = s[i]
    BY <1>0
  <2>2. /\ SubSeq(z, 1, Len(s)) \in Seq(S) /\ Len(SubSeq(z, 1, Len(s))) = Len(s)
        /\ \A i \in 1 .. Len(s) : SubSeq(z, 1, Len(s))[i] = z[i]
    BY <1>0, <1>2
  <2>3. SubSeq(s, 1, Len(s)) = SubSeq(z, 1, Len(s)) <=> \A i \in 1 .. Len(s) : s[i] = z[i]
    <3>1. ASSUME \A i \in 1 .. Len(s) : s[i] = z[i]
          PROVE  SubSeq(s, 1, Len(s)) = SubSeq(z, 1, Len(s))
      BY <2>1, <2>2, <3>1, SeqEqual
    <3>2. ASSUME SubSeq(s, 1, Len(s)) = SubSeq(z, 1, Len(s)), NEW i \in 1 .. Len(s)
          PROVE  s[i] = z[i]
      BY <2>1, <2>2, <3>2
    <3> QED
      BY <3>1, <3>2
  <2> QED
    BY <1>2, <2>3 DEF IsPrefix
<1> QED
  BY <1>1, <1>2

\* A prefix remains one when the sequence grows.
LEMMA PrefixLonger ==
    ASSUME NEW S, NEW s \in Seq(S), NEW z \in Seq(S), NEW x \in S, IsPrefix(s, z)
    PROVE  IsPrefix(s, Append(z, x))
<1>1. /\ Append(z, x) \in Seq(S) /\ Len(Append(z, x)) = Len(z) + 1
      /\ \A i \in 1 .. Len(z) : Append(z, x)[i] = z[i]
  BY AppendProperties
<1>2. Len(s) \in Nat /\ Len(z) \in Nat /\ Len(s) <= Len(z) /\ \A i \in 1 .. Len(s) : s[i] = z[i]
  BY LenProperties, PrefixIndices
<1>3. Len(s) <= Len(z) + 1 /\ \A i \in 1 .. Len(s) : i \in 1 .. Len(z)
  BY <1>2
<1>4. Len(s) <= Len(Append(z, x)) /\ \A i \in 1 .. Len(s) : s[i] = Append(z, x)[i]
  BY <1>1, <1>2, <1>3
<1> QED
  BY <1>1, <1>4, PrefixIndices

\* A prefix of a prefix is a prefix.
LEMMA PrefixOf ==
    ASSUME NEW S, NEW s \in Seq(S), NEW z \in Seq(S), NEW u \in Seq(S), IsPrefix(s, z), IsPrefix(z, u)
    PROVE  IsPrefix(s, u)
<1>1. Len(s) \in Nat /\ Len(z) \in Nat /\ Len(u) \in Nat
  BY LenProperties
<1>2. Len(s) <= Len(z) /\ \A i \in 1 .. Len(s) : s[i] = z[i]
  BY PrefixIndices
<1>3. Len(z) <= Len(u) /\ \A i \in 1 .. Len(z) : z[i] = u[i]
  BY PrefixIndices
<1>4. Len(s) <= Len(u) /\ \A i \in 1 .. Len(s) : s[i] = u[i]
  BY <1>1, <1>2, <1>3
<1> QED
  BY <1>4, PrefixIndices

\* A sequence is its own prefix.
LEMMA PrefixSelf ==
    ASSUME NEW S, NEW s \in Seq(S)
    PROVE  IsPrefix(s, s)
  BY LenProperties, PrefixIndices

\* Appending to the second of two sequences appends to both.
LEMMA LastMoves ==
    ASSUME NEW S, NEW s \in Seq(S), NEW z \in Seq(S), NEW x \in S, NEW y \in Seq(S), y = s \o z
    PROVE  Append(y, x) = s \o Append(z, x)
<1>1. Len(s) \in Nat /\ Len(z) \in Nat
  BY LenProperties
<1>2. /\ Len(y) = Len(s) + Len(z)
      /\ \A i \in 1 .. (Len(s) + Len(z)) : y[i] = IF i <= Len(s) THEN s[i] ELSE z[i - Len(s)]
  BY ConcatProperties
<1>3. /\ Append(z, x) \in Seq(S) /\ Len(Append(z, x)) = Len(z) + 1 /\ Append(z, x)[Len(z) + 1] = x
      /\ \A i \in 1 .. Len(z) : Append(z, x)[i] = z[i]
  BY AppendProperties
<1>4. /\ s \o Append(z, x) \in Seq(S) /\ Len(s \o Append(z, x)) = Len(s) + (Len(z) + 1)
      /\ \A i \in 1 .. (Len(s) + (Len(z) + 1)) :
            (s \o Append(z, x))[i] = IF i <= Len(s) THEN s[i] ELSE Append(z, x)[i - Len(s)]
  BY <1>3, ConcatProperties
<1>5. /\ Append(y, x) \in Seq(S) /\ Len(Append(y, x)) = (Len(s) + Len(z)) + 1
      /\ Append(y, x)[(Len(s) + Len(z)) + 1] = x
      /\ \A i \in 1 .. (Len(s) + Len(z)) : Append(y, x)[i] = y[i]
  BY <1>2, AppendProperties
<1>6. ASSUME NEW i \in 1 .. Len(Append(y, x))
      PROVE  Append(y, x)[i] = (s \o Append(z, x))[i]
  <2>1. CASE i = (Len(s) + Len(z)) + 1
    <3>1. ~(i <= Len(s)) /\ i - Len(s) = Len(z) + 1 /\ i \in 1 .. (Len(s) + (Len(z) + 1))
      BY <1>1, <2>1
    <3> QED
      BY <1>3, <1>4, <1>5, <2>1, <3>1
  <2>2. CASE i \in 1 .. (Len(s) + Len(z))
    <3>1. i \in 1 .. (Len(s) + (Len(z) + 1)) /\ (~(i <= Len(s)) => i - Len(s) \in 1 .. Len(z))
      BY <1>1, <2>2
    <3> QED
      BY <1>2, <1>3, <1>4, <1>5, <2>2, <3>1
  <2> QED
    BY <1>1, <1>5, <2>1, <2>2
<1>7. Len(Append(y, x)) = Len(s \o Append(z, x))
  BY <1>1, <1>4, <1>5
<1> QED
  BY <1>4, <1>5, <1>6, <1>7, SeqEqual

\* Two sequences are the same together when the head of the second goes to the
\* end of the first.
LEMMA HeadMoves ==
    ASSUME NEW S, NEW s \in Seq(S), NEW z \in Seq(S), z # <<>>
    PROVE  s \o z = Append(s, Head(z)) \o Tail(z)
<1>1. /\ Len(s) \in Nat /\ Len(z) \in Nat /\ Head(z) \in S /\ Tail(z) \in Seq(S) /\ Len(Tail(z)) = Len(z) - 1
      /\ Len(z) > 0 /\ Head(z) = z[1] /\ \A i \in 1 .. (Len(z) - 1) : Tail(z)[i] = z[i + 1]
  BY LenProperties, HeadTailProperties, EmptySeq
<1>2. /\ s \o z \in Seq(S) /\ Len(s \o z) = Len(s) + Len(z)
      /\ \A i \in 1 .. (Len(s) + Len(z)) : (s \o z)[i] = IF i <= Len(s) THEN s[i] ELSE z[i - Len(s)]
  BY ConcatProperties
<1> DEFINE a == Append(s, Head(z))
<1>3. /\ a \in Seq(S) /\ Len(a) = Len(s) + 1 /\ a[Len(s) + 1] = z[1] /\ \A i \in 1 .. Len(s) : a[i] = s[i]
  BY <1>1, AppendProperties
<1> HIDE DEF a
<1>4. /\ a \o Tail(z) \in Seq(S) /\ Len(a \o Tail(z)) = Len(a) + Len(Tail(z))
      /\ \A i \in 1 .. (Len(a) + Len(Tail(z))) :
            (a \o Tail(z))[i] = IF i <= Len(a) THEN a[i] ELSE Tail(z)[i - Len(a)]
  BY <1>1, <1>3, ConcatProperties
<1>5. Len(a) + Len(Tail(z)) = Len(s) + Len(z)
  BY <1>1, <1>3
<1>6. ASSUME NEW i \in 1 .. (Len(s) + Len(z))
      PROVE  (s \o z)[i] = (a \o Tail(z))[i]
  <2>1. CASE i <= Len(s)
    <3>1. i \in 1 .. Len(s) /\ i <= Len(a)
      BY <1>1, <1>3, <2>1
    <3> QED
      BY <1>2, <1>3, <1>4, <1>5, <2>1, <3>1
  <2>2. CASE i = Len(s) + 1
    <3>1. ~(i <= Len(s)) /\ i <= Len(a) /\ i - Len(s) = 1
      BY <1>1, <1>3, <2>2
    <3> QED
      BY <1>2, <1>3, <1>4, <1>5, <2>2, <3>1
  <2>3. CASE i > Len(s) + 1
    <3>1. /\ ~(i <= Len(s)) /\ ~(i <= Len(a)) /\ i - Len(a) \in 1 .. (Len(z) - 1)
          /\ (i - Len(a)) + 1 = i - Len(s)
      BY <1>1, <1>3, <2>3
    <3>2. Tail(z)[i - Len(a)] = z[(i - Len(a)) + 1]
      BY <1>1, <3>1
    <3>3. (s \o z)[i] = z[i - Len(s)]
      BY <1>2, <3>1
    <3>4. (a \o Tail(z))[i] = Tail(z)[i - Len(a)]
      BY <1>4, <1>5, <3>1
    <3> QED
      BY <3>1, <3>2, <3>3, <3>4
  <2>4. i <= Len(s) \/ i = Len(s) + 1 \/ i > Len(s) + 1
    BY <1>1
  <2> QED
    BY <2>1, <2>2, <2>3, <2>4
<1> QED
  BY <1>2, <1>4, <1>5, <1>6, SeqEqual DEF a

\* So are three, when the head of the last goes to the end of the second.
LEMMA MiddleMoves ==
    ASSUME NEW S, NEW a \in Seq(S), NEW b \in Seq(S), NEW c \in Seq(S), c # <<>>
    PROVE  (a \o b) \o c = (a \o Append(b, Head(c))) \o Tail(c)
<1>1. PICK s \in Seq(S), x \in S : s = a \o b /\ x = Head(c)
  BY ConcatProperties, HeadTailProperties
<1>2. s = a \o b
  BY <1>1
<1>3. Append(s, x) = a \o Append(b, x)
  BY <1>2, LastMoves, ZenonT(40)
<1>4. s \o c = Append(s, Head(c)) \o Tail(c)
  BY HeadMoves
<1> QED
  BY <1>1, <1>3, <1>4

-----------------------------------------------------------------------------
(* The websocket. Good is its inductive invariant: ControlInv ties the     *)
(* place of the service thread to the pointers, flags and table that its   *)
(* callbacks use, DataInv ties the bytes heard and written to what the     *)
(* peer sent and the owner wrote.                                          *)

\* The life of a websocket's object.
Lives == {"none", "open", "deleting", "deleted"}

\* The places of the service thread.
Places == {"none", "connect", "service", "stagger", "receiving", "reading", "admitting", "admitted", "pushing", "ended"}

\* What the code may use that is not there any more, and where.
Errors == [use : {"stagger", "receive", "unbind"}, of : {"null pointer", "freed connection", "freed object"}]

\* What a peer sends: bytes, and whether they end a message.
Fragments == [data : Seq(Bytes), final : BOOLEAN]

\* The fingerprints there are.
Fingerprints == {i.fingerprint : i \in Identities} \cup {NoId}

\* The type of a websocket.
Socket ==
    [side : {"client", "server"}, life : Lives, expected : Identities, cert : Identities,
     wsi : {"null", "live"}, closed : BOOLEAN, queue : Seq(Messages), buf : Seq(Bytes), cancel : BOOLEAN,
     pc : Places, conn : {"none", "dialling", "up", "gone"}, want : BOOLEAN, user : BOOLEAN, entry : BOOLEAN,
     closer : {"idle", "unbinding", "clearing"}, fingerprint : Fingerprints, early : BOOLEAN, inHand : Seq(Bytes), script : Seq(Fragments),
     incoming : Seq(Fragments), told : Seq(Seq(Bytes)), ended : BOOLEAN, accepted : Seq(Messages),
     got : Seq(Messages), undefined : SUBSET Errors]

\* There is a pointer only while the object lives, a connection only once there
\* is a thread for it, and a message is in hand only of a connection that is
\* up.
CommonInv(d) ==
    /\ d.life \in {"none", "deleted"} => d.wsi = "null"
    /\ d.pc \in {"none", "connect"} => d.conn = "none"
    /\ d.pc \in {"receiving", "reading"} => d.conn = "up"

\* No deleted object was used.
NoneFreed(d) == \A u \in d.undefined : u.of # "freed object"

\* No stagger callback used what is not there any more.
NoneStaggered(d) == \A u \in d.undefined : u.use # "stagger"

\* The thread of a client runs only while its object lives, because Destruct
\* joins it: so no callback of a client is made on a deleted object.
ClientInv(d) ==
    d.side = "client" =>
       /\ NoneFreed(d)
       /\ d.life = "none" => d.pc = "none"
       /\ d.life = "deleted" => d.pc \in {"none", "ended"}

\* Once a server's websocket is there, the thread is past the admission and the
\* connection past the handshake.
Dialled(d) ==
    d.life # "none" => /\ d.pc \notin {"none", "admitting"}
                       /\ ~(d.pc \in {"service", "stagger"} /\ d.conn = "dialling")

\* What holds unless the websocket was unbound while HttpServerOnClientConnect
\* was on its way: no stagger callback went wrong; what the table has, or will
\* have, is not closed and not about to be; what it has is bound to a connection
\* that is up; and the pointer a stagger callback has tested stays good while it
\* holds the mutex.
TimelyInv(d) ==
    /\ NoneStaggered(d)
    /\ d.entry \/ d.pc \in {"admitted", "pushing", "stagger"} => ~d.closed /\ d.closer # "clearing"
    /\ d.entry \/ d.pc = "stagger" => d.wsi = "live" /\ d.conn = "up"

\* The server's websocket. While it is open and not closed its pointer is good;
\* a pointer that is there belongs to a websocket that is not closed, bound to
\* a connection that is not gone, or its owner has unbound it and is about to
\* clear it; an owner that is closing has not deleted it.
TableInv(d) ==
    /\ d.pc # "connect"
    /\ d.life = "open" /\ ~d.closed => d.wsi = "live"
    /\ d.life = "none" => ~d.closed /\ ~d.user
    /\ d.life \in {"deleting", "deleted"} => d.closed
    /\ d.wsi = "live" => ~d.closed /\ (d.closer # "clearing" => d.user /\ d.conn # "gone")
    /\ d.closer # "idle" => d.life = "open"
    /\ d.pc \in {"admitted", "pushing"} => d.life # "none"
    /\ d.entry => d.life # "none"
    /\ ~d.early => TimelyInv(d)

\* What holds of a server's websocket.
ServerInv(d) == d.side = "server" => TableInv(d) /\ Dialled(d)

\* What the owner was told, with the message that is in the thread's hand.
Handed(d) == IF d.pc = "reading" THEN Append(d.told, d.inHand) ELSE d.told

\* The number of fragments lws has delivered.
Taken(d) == Len(d.script) - Len(d.incoming)

\* No fragment was lost so far: the connection is being made, or is up and the
\* pointer not cleared.
InStep(d) == d.conn \in {"none", "dialling"} \/ (d.conn = "up" /\ d.wsi = "live")

\* What is left of the script is its end; what was handed over is a beginning
\* of what the fragments delivered so far amount to; and no message is too
\* long.
LossyInv(d) ==
    /\ Taken(d) \in 0 .. Len(d.script)
    /\ \A k \in 1 .. Len(d.incoming) : d.incoming[k] = d.script[Taken(d) + k]
    /\ IsPrefix(Handed(d), Assembled(d.script)[Taken(d)].done)
    /\ \A i \in DOMAIN Handed(d) : Len(Handed(d)[i]) <= MaxInput

\* While nothing was lost, what was handed over is all of it, and the buffer
\* has the message that is not whole yet.
ExactInv(d) ==
    InStep(d) => /\ Handed(d) = Assembled(d.script)[Taken(d)].done
                 /\ d.buf = Assembled(d.script)[Taken(d)].part

\* What holds of the bytes that come in.
StreamInv(d) == LossyInv(d) /\ ExactInv(d)

\* What the peer got is a beginning of what was accepted, and while the
\* connection is there the rest is in the queue.
WriteInv(d) ==
    /\ IsPrefix(d.got, d.accepted)
    /\ d.conn # "gone" => d.accepted = d.got \o d.queue

\* A client with a connection that is up, or that has exchanged messages, has
\* checked the peer's certificate.
IdentityInv(d) ==
    d.side = "client" /\ (d.conn = "up" \/ d.told # <<>> \/ d.got # <<>>) => IdentityAccepted(d)

\* A fragment whose size was tested is the next one, and it fits.
ReceivingInv(d) == d.pc = "receiving" => d.incoming # <<>> /\ Fits(d, Head(d.incoming).data)

\* The invariant's part about control.
ControlInv(d) == CommonInv(d) /\ ClientInv(d) /\ ServerInv(d)

\* The invariant's part about data.
DataInv(d) == StreamInv(d) /\ WriteInv(d) /\ IdentityInv(d) /\ ReceivingInv(d)

\* The inductive invariant of a websocket.
Good(d) == d \in Socket /\ ControlInv(d) /\ DataInv(d)

\* The inductive invariant, of the websocket as it is.
SocketInv == Good(w)

\* Nothing about who talks to whom has changed.
SameOrigin(d, e) == e.side = d.side /\ e.expected = d.expected /\ e.cert = d.cert /\ e.script = d.script

\* Nothing about the bytes that come in has changed.
SameStream(d, e) == e.buf = d.buf /\ e.inHand = d.inHand /\ e.incoming = d.incoming /\ e.told = d.told

\* Nothing about the messages that go out has changed.
SameWrites(d, e) == e.queue = d.queue /\ e.accepted = d.accepted /\ e.got = d.got

\* None of the data has changed.
SameData(d, e) == SameOrigin(d, e) /\ SameStream(d, e) /\ SameWrites(d, e)

\* Neither the pointers nor the server's table have changed.
SameTable(d, e) == e.wsi = d.wsi /\ e.closed = d.closed /\ e.user = d.user /\ e.entry = d.entry /\ e.early = d.early
                     /\ e.closer = d.closer

\* The fields of a websocket that control depends on.
Typed(d) ==
    /\ d.side \in {"client", "server"} /\ d.life \in Lives /\ d.wsi \in {"null", "live"} /\ d.closed \in BOOLEAN /\ d.user \in BOOLEAN
    /\ d.entry \in BOOLEAN /\ d.early \in BOOLEAN /\ d.closer \in {"idle", "unbinding", "clearing"}

\* A websocket's fields have their types.
LEMMA SocketTyped ==
    ASSUME NEW d \in Socket
    PROVE  Typed(d)
  BY DEF Socket, Typed

\* A step that leaves the data alone, makes no lost connection good again and
\* lets a client's come up only with a checked certificate keeps DataInv.
LEMMA DataKept ==
    ASSUME NEW d \in Socket, NEW e \in Socket, DataInv(d), SameData(d, e),
           d.pc = "reading" <=> e.pc = "reading", e.pc = "receiving" => d.pc = "receiving", InStep(e) => InStep(d),
           d.conn = "gone" => e.conn = "gone",
           e.conn = "up" => d.conn = "up" \/ d.side = "server" \/ IdentityAccepted(d)
    PROVE  DataInv(e)
<1>1. Handed(e) = Handed(d) /\ Taken(e) = Taken(d)
  BY DEF SameData, SameOrigin, SameStream, Handed, Taken
<1>2. StreamInv(e)
  BY <1>1 DEF DataInv, StreamInv, LossyInv, ExactInv, SameData, SameOrigin, SameStream
<1>3. WriteInv(e)
  BY DEF DataInv, WriteInv, SameData, SameWrites
<1>4. IdentityInv(e)
  BY DEF DataInv, IdentityInv, IdentityAccepted, Matches, SameData, SameOrigin, SameStream, SameWrites, Socket
<1>5. ReceivingInv(e)
  BY DEF DataInv, ReceivingInv, Fits, SameData, SameStream
<1> QED
  BY <1>2, <1>3, <1>4, <1>5 DEF DataInv

\* What the callback for the end of a connection changes: nothing the invariant
\* is about.
LEMMA EndFields ==
    ASSUME NEW d \in Socket
    PROVE  LET e == WebsocketUserCallbackEnd(d)
           IN  e \in Socket /\ SameData(d, e) /\ SameTable(d, e) /\ e.conn = d.conn /\ e.life = d.life /\ e.pc = d.pc
                 /\ e.undefined = d.undefined
  BY DEF Socket, WebsocketUserCallbackEnd, SameData, SameOrigin, SameStream, SameWrites, SameTable

\* What WebsocketClose changes.
LEMMA CloseFields ==
    ASSUME NEW d \in Socket
    PROVE  LET e == WebsocketClose(d)
           IN  e \in Socket /\ SameData(d, e) /\ e.conn = d.conn /\ e.life = d.life /\ e.pc = d.pc
                 /\ e.undefined = d.undefined /\ e.wsi = "null" /\ e.closed /\ e.user = d.user /\ e.entry = d.entry
                 /\ e.early = d.early /\ e.closer = d.closer
  BY DEF Socket, WebsocketClose, SameData, SameOrigin, SameStream, SameWrites

\* What the unbinding changes: a pointer that is there loses its place in the
\* table.
LEMMA UnbindFields ==
    ASSUME NEW d \in Socket
    PROVE  LET e == HttpServerUnbindWsi(d)
           IN  e \in Socket /\ SameData(d, e) /\ e.conn = d.conn /\ e.life = d.life /\ e.pc = d.pc
                 /\ e.undefined = d.undefined /\ e.wsi = d.wsi /\ e.closed = d.closed /\ e.early = d.early
                 /\ e.closer = d.closer
                 /\ IF d.wsi = "null" THEN e.user = d.user /\ e.entry = d.entry ELSE ~e.user /\ ~e.entry
<1>1. CASE d.wsi = "null"
  BY <1>1 DEF HttpServerUnbindWsi, SameData, SameOrigin, SameStream, SameWrites
<1>2. CASE d.wsi # "null"
  BY <1>2, ZenonT(40) DEF Socket, HttpServerUnbindWsi, SameData, SameOrigin, SameStream, SameWrites
<1> QED
  BY <1>1, <1>2

\* What closing a server's websocket changes.
LEMMA ServerCloseFields ==
    ASSUME NEW d \in Socket
    PROVE  LET e == WebsocketServerClose(d)
           IN  e \in Socket /\ SameData(d, e) /\ e.conn = d.conn /\ e.life = d.life /\ e.pc = d.pc
                 /\ e.undefined = d.undefined /\ e.wsi = "null" /\ e.closed /\ e.early = d.early
                 /\ e.closer = d.closer
                 /\ IF d.wsi = "null" THEN e.user = d.user /\ e.entry = d.entry ELSE ~e.user /\ ~e.entry
<1> DEFINE u == HttpServerUnbindWsi(d)
<1>1. u \in Socket
  BY UnbindFields
<1> QED
  BY <1>1, UnbindFields, CloseFields DEF WebsocketServerClose, SameData, SameOrigin, SameStream, SameWrites

\* What the end of a connection in lws changes, for a client, a server's
\* websocket, and a connection of a server that has none.
LEMMA LwsClosesFields ==
    ASSUME NEW d \in Socket
    PROVE  LET e == LwsCloses(d)
           IN  /\ e \in Socket /\ SameData(d, e) /\ e.conn = "gone" /\ e.life = d.life /\ e.pc = d.pc
               /\ e.undefined = d.undefined /\ e.early = d.early /\ e.closer = d.closer
               /\ IF d.side = "client" \/ ~d.user THEN SameTable(d, e)
                  ELSE /\ e.wsi = "null" /\ e.closed
                       /\ IF d.wsi = "null" THEN e.user = d.user /\ e.entry = d.entry ELSE ~e.user /\ ~e.entry
<1> DEFINE g == [d EXCEPT !.conn = "gone", !.want = FALSE]
<1>1. /\ g \in Socket /\ SameData(d, g) /\ g.conn = "gone" /\ SameTable(d, g)
      /\ g.life = d.life /\ g.pc = d.pc /\ g.undefined = d.undefined
  BY DEF Socket, SameData, SameOrigin, SameStream, SameWrites, SameTable
<1>2. LwsCloses(d) = IF d.side = "client" THEN WebsocketUserCallbackEnd(g)
                     ELSE IF d.user THEN WebsocketUserCallbackEnd(WebsocketServerClose(g)) ELSE g
  BY DEF LwsCloses
<1> HIDE DEF g
<1> USE DEF SameData, SameOrigin, SameStream, SameWrites, SameTable
<1>3. CASE d.side = "client"
  BY <1>1, <1>2, <1>3, EndFields
<1>4. CASE d.side # "client" /\ ~d.user
  BY <1>1, <1>2, <1>4
<1>5. CASE d.side # "client" /\ d.user
  <2> DEFINE c == WebsocketServerClose(g)
  <2>1. /\ c \in Socket /\ SameData(d, c) /\ c.conn = "gone" /\ c.wsi = "null" /\ c.closed /\ c.early = d.early
        /\ c.life = d.life /\ c.pc = d.pc /\ c.undefined = d.undefined /\ c.closer = d.closer
        /\ IF d.wsi = "null" THEN c.user = d.user /\ c.entry = d.entry ELSE ~c.user /\ ~c.entry
    BY <1>1, ServerCloseFields
  <2>2. LwsCloses(d) = WebsocketUserCallbackEnd(c)
    BY <1>2, <1>5
  <2> HIDE DEF c
  <2> DEFINE e == WebsocketUserCallbackEnd(c)
  <2>3. /\ e \in Socket /\ SameData(c, e) /\ SameTable(c, e) /\ e.conn = c.conn /\ e.life = c.life /\ e.pc = c.pc
        /\ e.undefined = c.undefined
    BY <2>1, EndFields
  <2> HIDE DEF e
  <2>4. e = LwsCloses(d)
    BY <2>2 DEF e
  <2> QED
    BY <1>5, <2>1, <2>3, <2>4, ZenonT(40)
<1> QED
  BY <1>3, <1>4, <1>5

\* The end of a connection keeps what holds of control, whatever it was in the
\* middle of (Dialled holds afterwards, if not before).
LEMMA LwsClosesControl ==
    ASSUME NEW d \in Socket, CommonInv(d), ClientInv(d), d.side = "server" => TableInv(d),
           d.pc \in {"service", "ended"}
    PROVE  ControlInv(LwsCloses(d))
<1> DEFINE e == LwsCloses(d)
<1>1. /\ e \in Socket /\ e.side = d.side /\ e.conn = "gone" /\ e.life = d.life /\ e.pc = d.pc
      /\ e.undefined = d.undefined /\ e.early = d.early /\ e.closer = d.closer
      /\ IF d.side = "client" \/ ~d.user THEN SameTable(d, e)
         ELSE /\ e.wsi = "null" /\ e.closed
              /\ IF d.wsi = "null" THEN e.user = d.user /\ e.entry = d.entry ELSE ~e.user /\ ~e.entry
  BY LwsClosesFields DEF SameData, SameOrigin
<1> HIDE DEF e
<1>2. CommonInv(e)
  BY <1>1 DEF CommonInv, SameTable, Socket
<1>3. ClientInv(e)
  BY <1>1 DEF ClientInv, NoneFreed
<1>4. ASSUME e.side = "server" PROVE TableInv(e) /\ Dialled(e)
  BY <1>1, <1>4 DEF TableInv, TimelyInv, NoneStaggered, Dialled, SameTable, Socket, CommonInv
<1> QED
  BY <1>2, <1>3, <1>4 DEF ControlInv, ServerInv, e

\* The end of a connection keeps what holds of the data, also when a fragment
\* or a message was lost with it.
LEMMA LwsClosesData ==
    ASSUME NEW d \in Socket, LossyInv(d), IsPrefix(d.got, d.accepted), IdentityInv(d), d.pc # "receiving"
    PROVE  LwsCloses(d) \in Socket /\ DataInv(LwsCloses(d))
<1> DEFINE e == LwsCloses(d)
<1>1. e \in Socket /\ SameData(d, e) /\ e.conn = "gone" /\ e.pc = d.pc
  BY LwsClosesFields
<1> HIDE DEF e
<1>2. ~InStep(e) /\ Handed(e) = Handed(d) /\ Taken(e) = Taken(d)
  BY <1>1 DEF InStep, Handed, Taken, SameData, SameStream, SameOrigin
<1>3. StreamInv(e)
  BY <1>1, <1>2 DEF StreamInv, LossyInv, ExactInv, SameData, SameStream, SameOrigin
<1>4. WriteInv(e)
  BY <1>1 DEF WriteInv, SameData, SameWrites
<1>5. IdentityInv(e)
  BY <1>1 DEF IdentityInv, IdentityAccepted, Matches, SameData, SameOrigin, SameStream, SameWrites
<1> QED
  BY <1>1, <1>3, <1>4, <1>5 DEF DataInv, ReceivingInv, e

\* Opening a client keeps the invariant.
LEMMA WebsocketClientOpenGood ==
    ASSUME SocketInv, NEW uri, WebsocketClientOpen(uri)
    PROVE  Good(w')
<1> DEFINE e == [w EXCEPT !.life = "open", !.pc = "connect"]
<1>1. w' = e
  BY DEF WebsocketClientOpen
<1>2. w \in Socket /\ ControlInv(w) /\ DataInv(w)
  BY DEF SocketInv, Good
<1>3. /\ e \in Socket /\ SameData(w, e) /\ SameTable(w, e) /\ e.life = "open" /\ e.pc = "connect" /\ e.conn = w.conn /\ e.undefined = w.undefined
  BY <1>2 DEF Socket, SameData, SameOrigin, SameStream, SameWrites, SameTable, Lives, Places
<1> HIDE DEF e
<1>4. ControlInv(e)
  <2>1. CommonInv(e)
    BY <1>2, <1>3, SocketTyped DEF WebsocketClientOpen, Typed, Lives, ControlInv, CommonInv, ClientInv, ServerInv, Dialled, SameTable
  <2>2. ClientInv(e)
    BY <1>2, <1>3 DEF WebsocketClientOpen, ControlInv, ClientInv, NoneFreed, SameData, SameOrigin
  <2>3. ASSUME e.side = "server" PROVE TableInv(e) /\ Dialled(e)
    BY <1>2, <1>3, <2>3, SocketTyped DEF WebsocketClientOpen, Typed, Lives, ControlInv, CommonInv, ServerInv, TableInv, TimelyInv, NoneStaggered, Dialled, SameTable,
                            SameData, SameOrigin
  <2> QED
    BY <2>1, <2>2, <2>3 DEF ControlInv, ServerInv
<1>5. DataInv(e)
  BY <1>2, <1>3, DataKept DEF WebsocketClientOpen, InStep, ControlInv, CommonInv, ClientInv, NoneFreed, SameTable
<1> QED
  BY <1>1, <1>3, <1>4, <1>5 DEF Good

\* So does an URI that cannot be opened.
LEMMA WebsocketClientOpenFailsGood ==
    ASSUME SocketInv, NEW uri, WebsocketClientOpenFails(uri)
    PROVE  Good(w')
<1> DEFINE e == [w EXCEPT !.life = "deleted"]
<1>1. w' = e
  BY DEF WebsocketClientOpenFails
<1>2. w \in Socket /\ ControlInv(w) /\ DataInv(w)
  BY DEF SocketInv, Good
<1>3. /\ e \in Socket /\ SameData(w, e) /\ SameTable(w, e) /\ e.life = "deleted" /\ e.pc = w.pc /\ e.conn = w.conn /\ e.undefined = w.undefined
  BY <1>2 DEF Socket, SameData, SameOrigin, SameStream, SameWrites, SameTable, Lives, Places
<1> HIDE DEF e
<1>4. ControlInv(e)
  <2>1. CommonInv(e)
    BY <1>2, <1>3, SocketTyped DEF WebsocketClientOpenFails, Typed, Lives, ControlInv, CommonInv, ClientInv, ServerInv, Dialled, SameTable
  <2>2. ClientInv(e)
    BY <1>2, <1>3 DEF WebsocketClientOpenFails, ControlInv, ClientInv, NoneFreed, SameData, SameOrigin
  <2>3. ASSUME e.side = "server" PROVE TableInv(e) /\ Dialled(e)
    BY <1>2, <1>3, <2>3, SocketTyped DEF WebsocketClientOpenFails, Typed, Lives, ControlInv, CommonInv, ServerInv, TableInv, TimelyInv, NoneStaggered, Dialled, SameTable,
                            SameData, SameOrigin
  <2> QED
    BY <2>1, <2>2, <2>3 DEF ControlInv, ServerInv
<1>5. DataInv(e)
  BY <1>2, <1>3, DataKept DEF WebsocketClientOpenFails, InStep, ControlInv, CommonInv, ClientInv, NoneFreed, SameTable
<1> QED
  BY <1>1, <1>3, <1>4, <1>5 DEF Good

\* So does the end of the client's loop.
LEMMA WebsocketClientLoopEndsGood ==
    ASSUME SocketInv, WebsocketClientLoopEnds
    PROVE  Good(w')
<1> DEFINE e == [w EXCEPT !.pc = "ended"]
<1>1. w' = e
  BY DEF WebsocketClientLoopEnds
<1>2. w \in Socket /\ ControlInv(w) /\ DataInv(w)
  BY DEF SocketInv, Good
<1>3. /\ e \in Socket /\ SameData(w, e) /\ SameTable(w, e) /\ e.life = w.life /\ e.pc = "ended" /\ e.conn = w.conn /\ e.undefined = w.undefined
  BY <1>2 DEF Socket, SameData, SameOrigin, SameStream, SameWrites, SameTable, Lives, Places
<1> HIDE DEF e
<1>4. ControlInv(e)
  <2>1. CommonInv(e)
    BY <1>2, <1>3, SocketTyped DEF WebsocketClientLoopEnds, Typed, Lives, ControlInv, CommonInv, ClientInv, ServerInv, Dialled, SameTable
  <2>2. ClientInv(e)
    BY <1>2, <1>3 DEF WebsocketClientLoopEnds, ControlInv, ClientInv, NoneFreed, SameData, SameOrigin
  <2>3. ASSUME e.side = "server" PROVE TableInv(e) /\ Dialled(e)
    BY <1>2, <1>3, <2>3, SocketTyped DEF WebsocketClientLoopEnds, Typed, Lives, ControlInv, CommonInv, ServerInv, TableInv, TimelyInv, NoneStaggered, Dialled, SameTable,
                            SameData, SameOrigin
  <2> QED
    BY <2>1, <2>2, <2>3 DEF ControlInv, ServerInv
<1>5. DataInv(e)
  BY <1>2, <1>3, DataKept DEF WebsocketClientLoopEnds, InStep, ControlInv, CommonInv, ClientInv, NoneFreed, SameTable
<1> QED
  BY <1>1, <1>3, <1>4, <1>5 DEF Good

\* So does the start of the server.
LEMMA HttpServerTryStartGood ==
    ASSUME SocketInv, HttpServerTryStart
    PROVE  Good(w')
<1> DEFINE e == [w EXCEPT !.pc = "service", !.conn = "dialling"]
<1>1. w' = e
  BY DEF HttpServerTryStart
<1>2. w \in Socket /\ ControlInv(w) /\ DataInv(w)
  BY DEF SocketInv, Good
<1>3. /\ e \in Socket /\ SameData(w, e) /\ SameTable(w, e) /\ e.life = w.life /\ e.pc = "service" /\ e.conn = "dialling" /\ e.undefined = w.undefined
  BY <1>2, ZenonT(40) DEF Socket, SameData, SameOrigin, SameStream, SameWrites, SameTable, Lives, Places
<1> HIDE DEF e
<1>4. ControlInv(e)
  <2>1. CommonInv(e)
    BY <1>2, <1>3, SocketTyped DEF HttpServerTryStart, Typed, Lives, ControlInv, CommonInv, ClientInv, ServerInv, Dialled, SameTable
  <2>2. ClientInv(e)
    BY <1>2, <1>3 DEF HttpServerTryStart, ControlInv, ClientInv, NoneFreed, SameData, SameOrigin
  <2>3. ASSUME e.side = "server" PROVE TableInv(e) /\ Dialled(e)
    BY <1>2, <1>3, <2>3, SocketTyped DEF HttpServerTryStart, Typed, Lives, ControlInv, CommonInv, ServerInv, TableInv, TimelyInv, NoneStaggered, Dialled, SameTable,
                            SameData, SameOrigin
  <2> QED
    BY <2>1, <2>2, <2>3 DEF ControlInv, ServerInv
<1>5. DataInv(e)
  BY <1>2, <1>3, DataKept DEF HttpServerTryStart, InStep, ControlInv, CommonInv, ClientInv, NoneFreed, SameTable
<1> QED
  BY <1>1, <1>3, <1>4, <1>5 DEF Good

\* So does Stop of the server.
LEMMA HttpServerStopGood ==
    ASSUME SocketInv, HttpServerStop
    PROVE  Good(w')
<1> DEFINE e == [w EXCEPT !.cancel = TRUE]
<1>1. w' = e
  BY DEF HttpServerStop
<1>2. w \in Socket /\ ControlInv(w) /\ DataInv(w)
  BY DEF SocketInv, Good
<1>3. /\ e \in Socket /\ SameData(w, e) /\ SameTable(w, e) /\ e.life = w.life /\ e.pc = w.pc /\ e.conn = w.conn /\ e.undefined = w.undefined
  BY <1>2 DEF Socket, SameData, SameOrigin, SameStream, SameWrites, SameTable, Lives, Places
<1> HIDE DEF e
<1>4. ControlInv(e)
  <2>1. CommonInv(e)
    BY <1>2, <1>3, SocketTyped DEF HttpServerStop, Typed, Lives, ControlInv, CommonInv, ClientInv, ServerInv, Dialled, SameTable
  <2>2. ClientInv(e)
    BY <1>2, <1>3 DEF HttpServerStop, ControlInv, ClientInv, NoneFreed, SameData, SameOrigin
  <2>3. ASSUME e.side = "server" PROVE TableInv(e) /\ Dialled(e)
    BY <1>2, <1>3, <2>3, SocketTyped DEF HttpServerStop, Typed, Lives, ControlInv, CommonInv, ServerInv, TableInv, TimelyInv, NoneStaggered, Dialled, SameTable,
                            SameData, SameOrigin
  <2> QED
    BY <2>1, <2>2, <2>3 DEF ControlInv, ServerInv
<1>5. DataInv(e)
  BY <1>2, <1>3, DataKept DEF HttpServerStop, InStep, ControlInv, CommonInv, ClientInv, NoneFreed, SameTable
<1> QED
  BY <1>1, <1>3, <1>4, <1>5 DEF Good

\* So does the end of the server's loop.
LEMMA HttpServerConnectionLoopEndsGood ==
    ASSUME SocketInv, HttpServerConnectionLoopEnds
    PROVE  Good(w')
<1> DEFINE e == [w EXCEPT !.pc = "ended"]
<1>1. w' = e
  BY DEF HttpServerConnectionLoopEnds
<1>2. w \in Socket /\ ControlInv(w) /\ DataInv(w)
  BY DEF SocketInv, Good
<1>3. /\ e \in Socket /\ SameData(w, e) /\ SameTable(w, e) /\ e.life = w.life /\ e.pc = "ended" /\ e.conn = w.conn /\ e.undefined = w.undefined
  BY <1>2 DEF Socket, SameData, SameOrigin, SameStream, SameWrites, SameTable, Lives, Places
<1> HIDE DEF e
<1>4. ControlInv(e)
  <2>1. CommonInv(e)
    BY <1>2, <1>3, SocketTyped DEF HttpServerConnectionLoopEnds, Typed, Lives, ControlInv, CommonInv, ClientInv, ServerInv, Dialled, SameTable
  <2>2. ClientInv(e)
    BY <1>2, <1>3 DEF HttpServerConnectionLoopEnds, ControlInv, ClientInv, NoneFreed, SameData, SameOrigin
  <2>3. ASSUME e.side = "server" PROVE TableInv(e) /\ Dialled(e)
    BY <1>2, <1>3, <2>3, SocketTyped DEF HttpServerConnectionLoopEnds, Typed, Lives, ControlInv, CommonInv, ServerInv, TableInv, TimelyInv, NoneStaggered, Dialled, SameTable,
                            SameData, SameOrigin
  <2> QED
    BY <2>1, <2>2, <2>3 DEF ControlInv, ServerInv
<1>5. DataInv(e)
  BY <1>2, <1>3, DataKept DEF HttpServerConnectionLoopEnds, InStep, ControlInv, CommonInv, ClientInv, NoneFreed, SameTable
<1> QED
  BY <1>1, <1>3, <1>4, <1>5 DEF Good

\* The end of a connection between two callbacks, or after the loop, keeps the
\* invariant.
LEMMA LwsClosesGood ==
    ASSUME NEW d \in Socket, ControlInv(d), DataInv(d), d.pc \in {"service", "ended"}
    PROVE  Good(LwsCloses(d))
<1>1. LwsCloses(d) \in Socket /\ DataInv(LwsCloses(d))
  BY LwsClosesData DEF DataInv, StreamInv, WriteInv
<1>2. ControlInv(LwsCloses(d))
  BY LwsClosesControl DEF ControlInv, ServerInv
<1> QED
  BY <1>1, <1>2 DEF Good

\* The callback for the end of a connection keeps it.
LEMMA EndGood ==
    ASSUME NEW d, Good(d)
    PROVE  Good(WebsocketUserCallbackEnd(d))
<1> DEFINE e == WebsocketUserCallbackEnd(d)
<1>1. d \in Socket /\ ControlInv(d) /\ DataInv(d)
  BY DEF Good
<1>2. /\ e \in Socket /\ SameData(d, e) /\ SameTable(d, e) /\ e.conn = d.conn /\ e.life = d.life /\ e.pc = d.pc
      /\ e.undefined = d.undefined
  BY <1>1, EndFields
<1> HIDE DEF e
<1>3. CommonInv(e) /\ ClientInv(e)
  BY <1>1, <1>2 DEF ControlInv, CommonInv, ClientInv, NoneFreed, SameTable, SameData, SameOrigin
<1>4. ServerInv(e)
  BY <1>1, <1>2 DEF ControlInv, ServerInv, TableInv, TimelyInv, NoneStaggered, Dialled, SameTable, SameData, SameOrigin
<1>5. DataInv(e)
  BY <1>1, <1>2, DataKept DEF InStep, SameTable
<1> QED
  BY <1>2, <1>3, <1>4, <1>5 DEF Good, ControlInv, e

\* Dialling keeps it, although the pointer is stored whatever Close did before.
LEMMA WebsocketClientLoopDialsGood ==
    ASSUME SocketInv, NEW fails, WebsocketClientLoopDials(fails)
    PROVE  Good(w')
<1>0. w \in Socket /\ ControlInv(w) /\ DataInv(w)
  BY DEF SocketInv, Good
<1>1. CASE fails
  <2> DEFINE e == [w EXCEPT !.wsi = "null", !.pc = "ended"]
  <2>1. w' = WebsocketUserCallbackEnd(e)
    BY <1>1 DEF WebsocketClientLoopDials
  <2>2. /\ e \in Socket /\ SameData(w, e) /\ e.wsi = "null" /\ e.closed = w.closed /\ e.life = w.life /\ e.pc = "ended" /\ e.conn = w.conn /\ e.user = w.user /\ e.entry = w.entry /\ e.early = w.early /\ e.closer = w.closer /\ e.undefined = w.undefined
    BY <1>0, ZenonT(40) DEF Socket, SameData, SameOrigin, SameStream, SameWrites, SameTable, Lives, Places, Fingerprints
  <2> HIDE DEF e
  <2>3. CommonInv(e)
    BY <1>0, <1>1, <2>2, SocketTyped DEF WebsocketClientLoopDials, Typed, Lives, ControlInv, CommonInv, ClientInv, ServerInv, TableInv, TimelyInv, NoneStaggered, Dialled, SameTable,
                                  SameData, SameOrigin
  <2>4. ClientInv(e)
    BY <1>0, <1>1, <2>2 DEF WebsocketClientLoopDials, ControlInv, ClientInv, NoneFreed, SameData, SameOrigin
  <2>5. ASSUME e.side = "server" PROVE TableInv(e) /\ Dialled(e)
    BY <1>0, <1>1, <2>2, <2>5, SocketTyped DEF WebsocketClientLoopDials, Typed, Lives, ControlInv, CommonInv, ServerInv, TableInv, TimelyInv, NoneStaggered, Dialled, SameTable,
                            SameData, SameOrigin
  <2>6. DataInv(e)
    BY <1>0, <1>1, <2>2, DataKept DEF WebsocketClientLoopDials, InStep, ControlInv, CommonInv, ClientInv, NoneFreed, SameTable
  <2>7. Good(e)
    BY <2>2, <2>3, <2>4, <2>5, <2>6 DEF Good, ControlInv, ServerInv
  <2> QED
    BY <2>1, <2>7, EndGood
<1>2. CASE ~fails
  <2> DEFINE e == [w EXCEPT !.wsi = "live", !.conn = "dialling", !.pc = "service"]
  <2>1. w' = e
    BY <1>2 DEF WebsocketClientLoopDials
  <2>2. /\ e \in Socket /\ SameData(w, e) /\ e.wsi = "live" /\ e.closed = w.closed /\ e.life = w.life /\ e.pc = "service" /\ e.conn = "dialling" /\ e.user = w.user /\ e.entry = w.entry /\ e.early = w.early /\ e.closer = w.closer /\ e.undefined = w.undefined
    BY <1>0, ZenonT(40) DEF Socket, SameData, SameOrigin, SameStream, SameWrites, SameTable, Lives, Places, Fingerprints
  <2> HIDE DEF e
  <2>3. CommonInv(e)
    BY <1>0, <1>2, <2>2, SocketTyped DEF WebsocketClientLoopDials, Typed, Lives, ControlInv, CommonInv, ClientInv, ServerInv, TableInv, TimelyInv, NoneStaggered, Dialled, SameTable,
                                  SameData, SameOrigin
  <2>4. ClientInv(e)
    BY <1>0, <1>2, <2>2 DEF WebsocketClientLoopDials, ControlInv, ClientInv, NoneFreed, SameData, SameOrigin
  <2>5. ASSUME e.side = "server" PROVE TableInv(e) /\ Dialled(e)
    BY <1>0, <1>2, <2>2, <2>5, SocketTyped DEF WebsocketClientLoopDials, Typed, Lives, ControlInv, CommonInv, ServerInv, TableInv, TimelyInv, NoneStaggered, Dialled, SameTable,
                            SameData, SameOrigin
  <2>6. DataInv(e)
    BY <1>0, <1>2, <2>2, DataKept DEF WebsocketClientLoopDials, InStep, ControlInv, CommonInv, ClientInv, NoneFreed, SameTable
  <2>7. Good(e)
    BY <2>2, <2>3, <2>4, <2>5, <2>6 DEF Good, ControlInv, ServerInv
  <2> QED
    BY <2>1, <2>7
<1> QED
  BY <1>1, <1>2

\* A connection that is established keeps it: it is up only with the
\* certificate that was demanded.
LEMMA WebsocketClientOnClientEstablishedGood ==
    ASSUME SocketInv, WebsocketClientOnClientEstablished
    PROVE  Good(w')
<1>0. w \in Socket /\ ControlInv(w) /\ DataInv(w)
  BY DEF SocketInv, Good
<1>1. CASE IdentityAccepted(w) /\ w.wsi # "null"
  <2> DEFINE e == [w EXCEPT !.conn = "up", !.want = TRUE]
  <2>1. w' = e
    BY <1>1 DEF WebsocketClientOnClientEstablished
  <2>2. /\ e \in Socket /\ SameData(w, e) /\ SameTable(w, e) /\ e.life = w.life /\ e.pc = w.pc /\ e.conn = "up" /\ e.undefined = w.undefined
    BY <1>0, ZenonT(40) DEF Socket, SameData, SameOrigin, SameStream, SameWrites, SameTable, Lives, Places, Fingerprints
  <2> HIDE DEF e
  <2>3. CommonInv(e)
    BY <1>0, <1>1, <2>2, SocketTyped DEF WebsocketClientOnClientEstablished, Typed, Lives, ControlInv, CommonInv, ClientInv, ServerInv, TableInv, TimelyInv, NoneStaggered, Dialled, SameTable,
                                  SameData, SameOrigin
  <2>4. ClientInv(e)
    BY <1>0, <1>1, <2>2 DEF WebsocketClientOnClientEstablished, ControlInv, ClientInv, NoneFreed, SameData, SameOrigin
  <2>5. ASSUME e.side = "server" PROVE TableInv(e) /\ Dialled(e)
    BY <1>0, <1>1, <2>2, <2>5, SocketTyped DEF WebsocketClientOnClientEstablished, Typed, Lives, ControlInv, CommonInv, ServerInv, TableInv, TimelyInv, NoneStaggered, Dialled, SameTable,
                            SameData, SameOrigin
  <2>6. DataInv(e)
    BY <1>0, <1>1, <2>2, DataKept DEF WebsocketClientOnClientEstablished, InStep, ControlInv, CommonInv, ClientInv, NoneFreed, SameTable
  <2>7. Good(e)
    BY <2>2, <2>3, <2>4, <2>5, <2>6 DEF Good, ControlInv, ServerInv
  <2> QED
    BY <2>1, <2>7
<1>2. CASE ~(IdentityAccepted(w) /\ w.wsi # "null")
  <2>1. w' = LwsCloses(w) /\ w.pc = "service"
    BY <1>2 DEF WebsocketClientOnClientEstablished
  <2> QED
    BY <1>0, <2>1, LwsClosesGood
<1> QED
  BY <1>1, <1>2

\* A connection that could not be made keeps it.
LEMMA WebsocketClientOnClientConnectionErrorGood ==
    ASSUME SocketInv, WebsocketClientOnClientConnectionError
    PROVE  Good(w')
<1>0. w \in Socket /\ ControlInv(w) /\ DataInv(w)
  BY DEF SocketInv, Good
<1>1. CASE TRUE
  <2> DEFINE e == [w EXCEPT !.conn = "gone", !.wsi = "null"]
  <2>1. w' = WebsocketUserCallbackEnd(e)
    BY <1>1 DEF WebsocketClientOnClientConnectionError
  <2>2. /\ e \in Socket /\ SameData(w, e) /\ e.wsi = "null" /\ e.closed = w.closed /\ e.life = w.life /\ e.pc = w.pc /\ e.conn = "gone" /\ e.user = w.user /\ e.entry = w.entry /\ e.early = w.early /\ e.closer = w.closer /\ e.undefined = w.undefined
    BY <1>0, ZenonT(40) DEF Socket, SameData, SameOrigin, SameStream, SameWrites, SameTable, Lives, Places, Fingerprints
  <2> HIDE DEF e
  <2>3. CommonInv(e)
    BY <1>0, <1>1, <2>2, SocketTyped DEF WebsocketClientOnClientConnectionError, Typed, Lives, ControlInv, CommonInv, ClientInv, ServerInv, TableInv, TimelyInv, NoneStaggered, Dialled, SameTable,
                                  SameData, SameOrigin
  <2>4. ClientInv(e)
    BY <1>0, <1>1, <2>2 DEF WebsocketClientOnClientConnectionError, ControlInv, ClientInv, NoneFreed, SameData, SameOrigin
  <2>5. ASSUME e.side = "server" PROVE TableInv(e) /\ Dialled(e)
    BY <1>0, <1>1, <2>2, <2>5, SocketTyped DEF WebsocketClientOnClientConnectionError, Typed, Lives, ControlInv, CommonInv, ServerInv, TableInv, TimelyInv, NoneStaggered, Dialled, SameTable,
                            SameData, SameOrigin
  <2>6. DataInv(e)
    BY <1>0, <1>1, <2>2, DataKept DEF WebsocketClientOnClientConnectionError, InStep, ControlInv, CommonInv, ClientInv, NoneFreed, SameTable
  <2>7. Good(e)
    BY <2>2, <2>3, <2>4, <2>5, <2>6 DEF Good, ControlInv, ServerInv
  <2> QED
    BY <2>1, <2>7, EndGood
<1> QED
  BY <1>1

\* Every step of the admission of a peer keeps it, also when the owner closes
\* the websocket between them.
LEMMA HttpServerOnClientConnectGood ==
    ASSUME SocketInv, HttpServerOnClientConnect
    PROVE  Good(w')
<1>0. w \in Socket /\ ControlInv(w) /\ DataInv(w)
  BY DEF SocketInv, Good
<1>1. w.side = "server" /\ w.conn = "dialling"
  BY DEF HttpServerOnClientConnect
<1>2. CASE w.pc = "service" /\ w' = LwsCloses(w)
  BY <1>0, <1>2, LwsClosesGood
<1>3. CASE w.pc = "service" /\ w' = [w EXCEPT !.pc = "admitting", !.fingerprint = w.cert.fingerprint]
  <2> DEFINE e == [w EXCEPT !.pc = "admitting", !.fingerprint = w.cert.fingerprint]
  <2>1. w' = e
    BY <1>3
  <2>2. /\ e \in Socket /\ SameData(w, e) /\ SameTable(w, e) /\ e.life = w.life /\ e.pc = "admitting" /\ e.conn = w.conn /\ e.undefined = w.undefined
    BY <1>0, ZenonT(40) DEF Socket, SameData, SameOrigin, SameStream, SameWrites, SameTable, Lives, Places, Fingerprints
  <2> HIDE DEF e
  <2>3. CommonInv(e)
    BY <1>0, <1>1, <1>3, <2>2, SocketTyped DEF Typed, Lives, ControlInv, CommonInv, ClientInv, ServerInv, TableInv, TimelyInv, NoneStaggered, Dialled, SameTable,
                                  SameData, SameOrigin
  <2>4. ClientInv(e)
    BY <1>0, <1>1, <1>3, <2>2 DEF ControlInv, ClientInv, NoneFreed, SameData, SameOrigin
  <2>5. ASSUME e.side = "server" PROVE TableInv(e) /\ Dialled(e)
    BY <1>0, <1>1, <1>3, <2>2, <2>5, SocketTyped DEF Typed, Lives, ControlInv, CommonInv, ServerInv, TableInv, TimelyInv, NoneStaggered, Dialled, SameTable,
                            SameData, SameOrigin
  <2>6. DataInv(e)
    BY <1>0, <1>1, <1>3, <2>2, DataKept DEF InStep, ControlInv, CommonInv, ClientInv, NoneFreed, SameTable
  <2>7. Good(e)
    BY <2>2, <2>3, <2>4, <2>5, <2>6 DEF Good, ControlInv, ServerInv
  <2> QED
    BY <2>1, <2>7
<1>4. CASE w.pc = "admitting" /\ w' = LwsCloses([w EXCEPT !.pc = "service", !.fingerprint = NoId])
  <2> DEFINE e == [w EXCEPT !.pc = "service", !.fingerprint = NoId]
  <2>1. e \in Socket /\ SameData(w, e) /\ SameTable(w, e) /\ e.life = w.life /\ e.pc = "service" /\ e.conn = w.conn
          /\ e.undefined = w.undefined
    BY <1>0 DEF Socket, SameData, SameOrigin, SameStream, SameWrites, SameTable, Places, Fingerprints
  <2>2. w' = LwsCloses(e)
    BY <1>4
  <2> HIDE DEF e
  <2>3. CommonInv(e) /\ ClientInv(e)
    BY <1>0, <1>1, <2>1 DEF ControlInv, CommonInv, ClientInv, NoneFreed, SameTable, SameData, SameOrigin
  <2>4. TableInv(e)
    BY <1>0, <1>1, <1>4, <2>1, ZenonT(40) DEF Socket, ControlInv, ServerInv, TableInv, TimelyInv, NoneStaggered, SameTable
  <2>5. DataInv(e)
    BY <1>0, <1>4, <2>1, DataKept DEF InStep, SameTable
  <2>6. ControlInv(LwsCloses(e))
    BY <2>1, <2>3, <2>4, LwsClosesControl
  <2> QED
    BY <2>1, <2>2, <2>5, <2>6, LwsClosesData DEF Good, DataInv, StreamInv, WriteInv
<1>5. CASE w.pc = "admitting" /\ w' = WebsocketServerOpen([w EXCEPT !.pc = "admitted", !.fingerprint = NoId])
  <2> DEFINE e == WebsocketServerOpen([w EXCEPT !.pc = "admitted", !.fingerprint = NoId])
  <2>1. w' = e
    BY <1>5
  <2>2. /\ e \in Socket /\ SameData(w, e) /\ e.life = "open" /\ e.wsi = "live" /\ e.user /\ e.pc = "admitted" /\ e.conn = w.conn /\ e.closed = w.closed /\ e.entry = w.entry /\ e.early = w.early /\ e.closer = w.closer /\ e.undefined = w.undefined
    BY <1>0, ZenonT(40) DEF Socket, SameData, SameOrigin, SameStream, SameWrites, SameTable, Lives, Places, Fingerprints,
                WebsocketServerOpen
  <2> HIDE DEF e
  <2>3. CommonInv(e)
    BY <1>0, <1>1, <1>5, <2>2, SocketTyped DEF Typed, Lives, ControlInv, CommonInv, ClientInv, ServerInv, TableInv, TimelyInv, NoneStaggered, Dialled, SameTable,
                                  SameData, SameOrigin
  <2>4. ClientInv(e)
    BY <1>0, <1>1, <1>5, <2>2 DEF ControlInv, ClientInv, NoneFreed, SameData, SameOrigin
  <2>5. ASSUME e.side = "server" PROVE TableInv(e) /\ Dialled(e)
    BY <1>0, <1>1, <1>5, <2>2, <2>5, SocketTyped DEF Typed, Lives, ControlInv, CommonInv, ServerInv, TableInv, TimelyInv, NoneStaggered, Dialled, SameTable,
                            SameData, SameOrigin
  <2>6. DataInv(e)
    BY <1>0, <1>1, <1>5, <2>2, DataKept DEF InStep, ControlInv, CommonInv, ClientInv, NoneFreed, SameTable
  <2>7. Good(e)
    BY <2>2, <2>3, <2>4, <2>5, <2>6 DEF Good, ControlInv, ServerInv
  <2> QED
    BY <2>1, <2>7
<1>6. CASE w.pc = "admitted" /\ w' = [w EXCEPT !.pc = "pushing"]
  <2> DEFINE e == [w EXCEPT !.pc = "pushing"]
  <2>1. w' = e
    BY <1>6
  <2>2. /\ e \in Socket /\ SameData(w, e) /\ SameTable(w, e) /\ e.life = w.life /\ e.pc = "pushing" /\ e.conn = w.conn /\ e.undefined = w.undefined
    BY <1>0 DEF Socket, SameData, SameOrigin, SameStream, SameWrites, SameTable, Lives, Places, Fingerprints
  <2> HIDE DEF e
  <2>3. CommonInv(e)
    BY <1>0, <1>1, <1>6, <2>2, SocketTyped DEF Typed, Lives, ControlInv, CommonInv, ClientInv, ServerInv, TableInv, TimelyInv, NoneStaggered, Dialled, SameTable,
                                  SameData, SameOrigin
  <2>4. ClientInv(e)
    BY <1>0, <1>1, <1>6, <2>2 DEF ControlInv, ClientInv, NoneFreed, SameData, SameOrigin
  <2>5. ASSUME e.side = "server" PROVE TableInv(e) /\ Dialled(e)
    BY <1>0, <1>1, <1>6, <2>2, <2>5, SocketTyped DEF Typed, Lives, ControlInv, CommonInv, ServerInv, TableInv, TimelyInv, NoneStaggered, Dialled, SameTable,
                            SameData, SameOrigin
  <2>6. DataInv(e)
    BY <1>0, <1>1, <1>6, <2>2, DataKept DEF InStep, ControlInv, CommonInv, ClientInv, NoneFreed, SameTable
  <2>7. Good(e)
    BY <2>2, <2>3, <2>4, <2>5, <2>6 DEF Good, ControlInv, ServerInv
  <2> QED
    BY <2>1, <2>7
<1>7. CASE w.pc = "admitted" /\ w' = LwsCloses([w EXCEPT !.pc = "service"])
  <2> DEFINE e == [w EXCEPT !.pc = "service"]
  <2>1. e \in Socket /\ SameData(w, e) /\ SameTable(w, e) /\ e.life = w.life /\ e.pc = "service" /\ e.conn = w.conn
          /\ e.undefined = w.undefined
    BY <1>0 DEF Socket, SameData, SameOrigin, SameStream, SameWrites, SameTable, Places
  <2>2. w' = LwsCloses(e)
    BY <1>7
  <2> HIDE DEF e
  <2>3. CommonInv(e) /\ ClientInv(e)
    BY <1>0, <1>1, <2>1 DEF ControlInv, CommonInv, ClientInv, NoneFreed, SameTable, SameData, SameOrigin
  <2>4. TableInv(e)
    BY <1>0, <1>1, <1>7, <2>1, ZenonT(40) DEF Socket, ControlInv, ServerInv, TableInv, TimelyInv, NoneStaggered, SameTable
  <2>5. DataInv(e)
    BY <1>0, <1>7, <2>1, DataKept DEF InStep, SameTable
  <2>6. ControlInv(LwsCloses(e))
    BY <2>1, <2>3, <2>4, LwsClosesControl
  <2> QED
    BY <2>1, <2>2, <2>5, <2>6, LwsClosesData DEF Good, DataInv, StreamInv, WriteInv
<1>8. CASE w.pc = "pushing" /\ w' = [w EXCEPT !.pc = "service", !.conn = "up", !.entry = TRUE]
  <2> DEFINE e == [w EXCEPT !.pc = "service", !.conn = "up", !.entry = TRUE]
  <2>1. w' = e
    BY <1>8
  <2>2. /\ e \in Socket /\ SameData(w, e) /\ e.life = w.life /\ e.wsi = w.wsi /\ e.user = w.user /\ e.pc = "service" /\ e.conn = "up" /\ e.closed = w.closed /\ e.entry /\ e.early = w.early /\ e.closer = w.closer /\ e.undefined = w.undefined
    BY <1>0, ZenonT(40) DEF Socket, SameData, SameOrigin, SameStream, SameWrites, SameTable, Lives, Places, Fingerprints
  <2> HIDE DEF e
  <2>3. CommonInv(e)
    BY <1>0, <1>1, <1>8, <2>2, SocketTyped DEF Typed, Lives, ControlInv, CommonInv, ClientInv, ServerInv, TableInv, TimelyInv, NoneStaggered, Dialled, SameTable,
                                  SameData, SameOrigin
  <2>4. ClientInv(e)
    BY <1>0, <1>1, <1>8, <2>2 DEF ControlInv, ClientInv, NoneFreed, SameData, SameOrigin
  <2>5. ASSUME e.side = "server" PROVE TableInv(e) /\ Dialled(e)
    BY <1>0, <1>1, <1>8, <2>2, <2>5, SocketTyped DEF Typed, Lives, ControlInv, CommonInv, ServerInv, TableInv, TimelyInv, NoneStaggered, Dialled, SameTable,
                            SameData, SameOrigin
  <2>6. DataInv(e)
    BY <1>0, <1>1, <1>8, <2>2, DataKept DEF InStep, ControlInv, CommonInv, ClientInv, NoneFreed, SameTable
  <2>7. Good(e)
    BY <2>2, <2>3, <2>4, <2>5, <2>6 DEF Good, ControlInv, ServerInv
  <2> QED
    BY <2>1, <2>7
<1> QED
  BY <1>2, <1>3, <1>4, <1>5, <1>6, <1>7, <1>8 DEF HttpServerOnClientConnect

\* A server that is destructed, and a peer that closes, keep it.
LEMMA ClosingGood ==
    ASSUME SocketInv, HttpServerDestruct \/ PeerCloses
    PROVE  Good(w')
<1>1. w' = LwsCloses(w) /\ w.pc \in {"service", "ended"}
  BY DEF HttpServerDestruct, PeerCloses
<1> QED
  BY <1>1, LwsClosesGood DEF SocketInv, Good

\* The use of what is not there any more keeps it, if it is none of those that
\* the invariant rules out.
LEMMA UsesGood ==
    ASSUME NEW d, Good(d), NEW use \in {"stagger", "receive", "unbind"},
           NEW of \in {"null pointer", "freed connection", "freed object"},
           d.side = "client" => of # "freed object", d.side = "server" /\ ~d.early => use # "stagger"
    PROVE  Good(Uses(d, use, of))
<1>0. d \in Socket /\ ControlInv(d) /\ DataInv(d)
  BY DEF Good
<1>1. PICK err \in Errors : err.use = use /\ err.of = of /\ Uses(d, use, of) = [d EXCEPT !.undefined = @ \cup {err}]
  <2>1. [use |-> use, of |-> of] \in Errors
    BY DEF Errors
  <2> QED
    BY <2>1 DEF Uses
<1> DEFINE e == [d EXCEPT !.undefined = @ \cup {err}]
<1>2. /\ e \in Socket /\ SameData(d, e) /\ SameTable(d, e) /\ e.life = d.life /\ e.pc = d.pc /\ e.conn = d.conn
      /\ e.undefined = d.undefined \cup {err}
  BY <1>0 DEF Socket, SameData, SameOrigin, SameStream, SameWrites, SameTable
<1> HIDE DEF e
<1>3. CommonInv(e) /\ ClientInv(e)
  BY <1>0, <1>1, <1>2 DEF ControlInv, CommonInv, ClientInv, NoneFreed, SameTable, SameData, SameOrigin
<1>4. ASSUME e.side = "server" PROVE TableInv(e) /\ Dialled(e)
  <2>1. d.side = "server" /\ TableInv(d) /\ Dialled(d)
    BY <1>0, <1>2, <1>4 DEF ControlInv, ServerInv, SameData, SameOrigin
  <2>2. ~d.early /\ NoneStaggered(d) => NoneStaggered(e)
    BY <1>1, <1>2, <2>1 DEF NoneStaggered
  <2> QED
    BY <1>2, <2>1, <2>2 DEF TableInv, TimelyInv, Dialled, SameTable
<1>5. DataInv(e)
  BY <1>0, <1>2, DataKept DEF InStep, SameTable
<1> QED
  BY <1>1, <1>2, <1>3, <1>4, <1>5 DEF Good, ControlInv, ServerInv, e

\* The test of the stagger callback keeps it: under the server's mutex the
\* websocket of the table is not closed, or was closed early.
LEMMA StaggerGood ==
    ASSUME SocketInv, Stagger
    PROVE  Good(w')
<1>0. w \in Socket /\ ControlInv(w) /\ DataInv(w)
  BY DEF SocketInv, Good
<1>1. CASE w.life = "deleted"
  <2>1. w' = Uses(w, "stagger", "freed object") /\ w.pc = "service" /\ (w.side = "client" \/ w.entry)
    BY <1>1 DEF Stagger
  <2>2. w.side # "client" /\ (w.side = "server" => w.early)
    BY <1>0, <1>1, <2>1 DEF ControlInv, ClientInv, ServerInv, TableInv, TimelyInv
  <2> QED
    BY <2>1, <2>2, UsesGood DEF SocketInv
<1>2. CASE w.life # "deleted"
  <2> DEFINE e == [w EXCEPT !.pc = "stagger"]
  <2>1. w' = e
    BY <1>2 DEF Stagger
  <2>2. /\ e \in Socket /\ SameData(w, e) /\ SameTable(w, e) /\ e.life = w.life /\ e.pc = "stagger" /\ e.conn = w.conn /\ e.undefined = w.undefined
    BY <1>0 DEF Socket, SameData, SameOrigin, SameStream, SameWrites, SameTable, Lives, Places, Errors
  <2> HIDE DEF e
  <2>3. CommonInv(e)
    BY <1>0, <1>2, <2>2, SocketTyped DEF Stagger, Typed, Lives, ControlInv, CommonInv, ClientInv, ServerInv, TableInv, TimelyInv, NoneStaggered, Dialled, SameTable,
                                  SameData, SameOrigin
  <2>4. ClientInv(e)
    BY <1>0, <1>2, <2>2 DEF Stagger, ControlInv, ClientInv, NoneFreed, SameData, SameOrigin
  <2>5. ASSUME e.side = "server" PROVE TableInv(e) /\ Dialled(e)
    BY <1>0, <1>2, <2>2, <2>5, SocketTyped DEF Stagger, Typed, Lives, ControlInv, CommonInv, ServerInv, TableInv, TimelyInv, NoneStaggered, Dialled, SameTable,
                            SameData, SameOrigin
  <2>6. DataInv(e)
    BY <1>0, <1>2, <2>2, DataKept DEF Stagger, InStep, ControlInv, CommonInv, ClientInv, NoneFreed, SameTable
  <2>7. Good(e)
    BY <2>2, <2>3, <2>4, <2>5, <2>6 DEF Good, ControlInv, ServerInv
  <2> QED
    BY <2>1, <2>7
<1> QED
  BY <1>1, <1>2

\* The use of the pointer after the test keeps it: a server's pointer is still
\* good, unless the websocket was unbound early.
LEMMA StaggerSchedulesGood ==
    ASSUME SocketInv, StaggerSchedules
    PROVE  Good(w')
<1>0. w \in Socket /\ ControlInv(w) /\ DataInv(w)
  BY DEF SocketInv, Good
<1> DEFINE x == [w EXCEPT !.pc = "service"]
<1>1. /\ x.queue = w.queue /\ x.wsi = w.wsi /\ x.conn = w.conn /\ w.pc = "stagger"
      /\ w' = WebsocketScheduleWrite(x)
  BY <1>0 DEF StaggerSchedules, Socket
<1>2. Good(x)
  <2> DEFINE e == [w EXCEPT !.pc = "service"]
  <2>2. /\ e \in Socket /\ SameData(w, e) /\ SameTable(w, e) /\ e.life = w.life /\ e.pc = "service" /\ e.conn = w.conn /\ e.undefined = w.undefined
    BY <1>0 DEF Socket, SameData, SameOrigin, SameStream, SameWrites, SameTable, Lives, Places, Errors
  <2> HIDE DEF e
  <2>3. CommonInv(e)
    BY <1>0, <1>1, <2>2, SocketTyped DEF StaggerSchedules, Typed, Lives, ControlInv, CommonInv, ClientInv, ServerInv, TableInv, TimelyInv, NoneStaggered,
                                  Dialled, SameTable, SameData, SameOrigin
  <2>4. ClientInv(e)
    BY <1>0, <1>1, <2>2 DEF StaggerSchedules, ControlInv, ClientInv, NoneFreed, SameData, SameOrigin
  <2>5. ASSUME e.side = "server" PROVE TableInv(e) /\ Dialled(e)
    BY <1>0, <1>1, <2>2, <2>5, SocketTyped DEF StaggerSchedules, Typed, Lives, ControlInv, CommonInv, ServerInv, TableInv, TimelyInv, NoneStaggered, Dialled,
                                  SameTable, SameData, SameOrigin
  <2>6. DataInv(e)
    BY <1>0, <1>1, <2>2, DataKept DEF StaggerSchedules, InStep, ControlInv, CommonInv, ClientInv, NoneFreed, SameTable
  <2>7. Good(e)
    BY <2>2, <2>3, <2>4, <2>5, <2>6 DEF Good, ControlInv, ServerInv
  <2> QED
    BY <2>7 DEF e
<1>3. CASE w.queue = <<>>
  BY <1>1, <1>2, <1>3 DEF WebsocketScheduleWrite
<1>4. CASE w.queue # <<>> /\ (w.wsi = "null" \/ w.conn = "gone")
  <2>1. PICK of \in {"null pointer", "freed connection"} : w' = Uses(x, "stagger", of)
    BY <1>1, <1>4 DEF WebsocketScheduleWrite, RequestWritable
  <2>2. x.side = w.side /\ x.early = w.early
    BY <1>0 DEF Socket
  <2>3. w.side = "server" => w.early
    BY <1>0, <1>1, <1>4 DEF ControlInv, ServerInv, TableInv, TimelyInv
  <2> HIDE DEF x
  <2> QED
    BY <1>2, <2>1, <2>2, <2>3, UsesGood
<1>5. CASE w.queue # <<>> /\ w.wsi # "null" /\ w.conn # "gone"
  <2> DEFINE e == [[w EXCEPT !.pc = "service"] EXCEPT !.want = TRUE]
  <2>1. w' = e
    BY <1>1, <1>5 DEF WebsocketScheduleWrite, RequestWritable, Uses
  <2>2. /\ e \in Socket /\ SameData(w, e) /\ SameTable(w, e) /\ e.life = w.life /\ e.pc = "service" /\ e.conn = w.conn /\ e.undefined = w.undefined
    BY <1>0 DEF Socket, SameData, SameOrigin, SameStream, SameWrites, SameTable, Lives, Places, Errors
  <2> HIDE DEF e
  <2>3. CommonInv(e)
    BY <1>0, <1>5, <2>2, SocketTyped DEF StaggerSchedules, Typed, Lives, ControlInv, CommonInv, ClientInv, ServerInv, TableInv, TimelyInv, NoneStaggered,
                                  Dialled, SameTable, SameData, SameOrigin
  <2>4. ClientInv(e)
    BY <1>0, <1>5, <2>2 DEF StaggerSchedules, ControlInv, ClientInv, NoneFreed, SameData, SameOrigin
  <2>5. ASSUME e.side = "server" PROVE TableInv(e) /\ Dialled(e)
    BY <1>0, <1>5, <2>2, <2>5, SocketTyped DEF StaggerSchedules, Typed, Lives, ControlInv, CommonInv, ServerInv, TableInv, TimelyInv, NoneStaggered, Dialled,
                                  SameTable, SameData, SameOrigin
  <2>6. DataInv(e)
    BY <1>0, <1>5, <2>2, DataKept DEF StaggerSchedules, InStep, ControlInv, CommonInv, ClientInv, NoneFreed, SameTable
  <2>7. Good(e)
    BY <2>2, <2>3, <2>4, <2>5, <2>6 DEF Good, ControlInv, ServerInv
  <2> QED
    BY <2>1, <2>7
<1> QED
  BY <1>3, <1>4, <1>5

\* Deleting a websocket keeps it: a client's thread has been joined.
LEMMA WebsocketDestructGood ==
    ASSUME SocketInv, WebsocketDestruct
    PROVE  Good(w')
<1>0. w \in Socket /\ ControlInv(w) /\ DataInv(w)
  BY DEF SocketInv, Good
<1>1. CASE w.life = "open" /\ w' = [w EXCEPT !.life = "deleting", !.cancel = @ \/ w.side = "client"]
  <2> DEFINE e == [w EXCEPT !.life = "deleting", !.cancel = @ \/ w.side = "client"]
  <2>1. w' = e
    BY <1>1 DEF WebsocketDestruct
  <2>2. /\ e \in Socket /\ SameData(w, e) /\ SameTable(w, e) /\ e.life = "deleting" /\ e.pc = w.pc /\ e.conn = w.conn /\ e.undefined = w.undefined
    BY <1>0, ZenonT(40) DEF Socket, SameData, SameOrigin, SameStream, SameWrites, SameTable, Lives, Places, Errors
  <2> HIDE DEF e
  <2>3. CommonInv(e)
    BY <1>0, <1>1, <2>2, SocketTyped DEF WebsocketDestruct, Typed, Lives, ControlInv, CommonInv, ClientInv, ServerInv, TableInv, TimelyInv, NoneStaggered,
                                  Dialled, SameTable, SameData, SameOrigin
  <2>4. ClientInv(e)
    BY <1>0, <1>1, <2>2 DEF WebsocketDestruct, ControlInv, ClientInv, NoneFreed, SameData, SameOrigin
  <2>5. ASSUME e.side = "server" PROVE TableInv(e) /\ Dialled(e)
    BY <1>0, <1>1, <2>2, <2>5, SocketTyped DEF WebsocketDestruct, Typed, Lives, ControlInv, CommonInv, ServerInv, TableInv, TimelyInv, NoneStaggered, Dialled,
                                  SameTable, SameData, SameOrigin
  <2>6. DataInv(e)
    BY <1>0, <1>1, <2>2, DataKept DEF WebsocketDestruct, InStep, ControlInv, CommonInv, ClientInv, NoneFreed, SameTable
  <2>7. Good(e)
    BY <2>2, <2>3, <2>4, <2>5, <2>6 DEF Good, ControlInv, ServerInv
  <2> QED
    BY <2>1, <2>7
<1>2. CASE w.life = "deleting" /\ LoopJoined
              /\ w' = LET d == [w EXCEPT !.life = "deleted", !.wsi = "null"]
                      IN  IF w.side = "client" /\ w.conn \in {"dialling", "up"} THEN LwsCloses(d) ELSE d
  <2> DEFINE e == [w EXCEPT !.life = "deleted", !.wsi = "null"]
  <2>1. w' = IF w.side = "client" /\ w.conn \in {"dialling", "up"} THEN LwsCloses(e) ELSE e
    BY <1>2
  <2>2. /\ e \in Socket /\ SameData(w, e) /\ e.wsi = "null" /\ e.closed = w.closed /\ e.user = w.user
        /\ e.entry = w.entry /\ e.early = w.early /\ e.closer = w.closer /\ e.life = "deleted" /\ e.pc = w.pc /\ e.conn = w.conn
        /\ e.undefined = w.undefined
    BY <1>0 DEF Socket, SameData, SameOrigin, SameStream, SameWrites, Lives
  <2> HIDE DEF e
  <2>3. w.closed /\ (w.side = "client" => w.pc = "ended")
    BY <1>2 DEF WebsocketDestruct, LoopJoined
  <2>4. CommonInv(e)
    BY <1>0, <2>2 DEF ControlInv, CommonInv
  <2>5. ClientInv(e)
    BY <1>0, <2>2, <2>3 DEF ControlInv, ClientInv, NoneFreed, SameData, SameOrigin
  <2>6. ASSUME e.side = "server" PROVE TableInv(e) /\ Dialled(e)
    BY <1>0, <1>2, <2>2, <2>3, <2>6 DEF ControlInv, ServerInv, TableInv, TimelyInv, NoneStaggered, Dialled, SameData, SameOrigin
  <2>7. DataInv(e)
    BY <1>0, <2>2, DataKept DEF InStep
  <2>8. Good(e)
    BY <2>2, <2>4, <2>5, <2>6, <2>7 DEF Good, ControlInv, ServerInv
  <2> QED
    BY <2>1, <2>2, <2>8, <2>3, LwsClosesGood DEF Good
<1> QED
  BY <1>1, <1>2 DEF WebsocketDestruct

\* Closing a client, and reading a server's pointer, keep it.
LEMMA CloseGood ==
    ASSUME SocketInv, Close
    PROVE  Good(w')
<1>0. w \in Socket /\ ControlInv(w) /\ DataInv(w)
  BY DEF SocketInv, Good
<1>1. CASE w.side = "server"
  <2> DEFINE e == [w EXCEPT !.closer = "unbinding"]
  <2>1. w' = e /\ w.life = "open" /\ ~w.closed /\ w.closer = "idle"
    BY <1>1 DEF Close
  <2>2. /\ e \in Socket /\ SameData(w, e) /\ e.wsi = w.wsi /\ e.closed = w.closed /\ e.user = w.user /\ e.entry = w.entry
        /\ e.early = w.early /\ e.closer = "unbinding" /\ e.life = w.life /\ e.pc = w.pc /\ e.conn = w.conn
        /\ e.undefined = w.undefined
    BY <1>0 DEF Socket, SameData, SameOrigin, SameStream, SameWrites
  <2> HIDE DEF e
  <2>3. CommonInv(e) /\ ClientInv(e)
    BY <1>0, <1>1, <2>2 DEF ControlInv, CommonInv, ClientInv, SameData, SameOrigin
  <2>4. TableInv(e) /\ Dialled(e)
    BY <1>0, <1>1, <2>1, <2>2 DEF ControlInv, ServerInv, TableInv, TimelyInv, NoneStaggered, Dialled
  <2>5. DataInv(e)
    BY <1>0, <2>2, DataKept DEF InStep
  <2> QED
    BY <2>1, <2>2, <2>3, <2>4, <2>5 DEF Good, ControlInv, ServerInv
<1>2. CASE w.side # "server"
  <2> DEFINE e == WebsocketClose(w)
  <2>1. w' = e /\ w.life = "open" /\ w.side = "client"
    BY <1>0, <1>2 DEF Close, Socket
  <2>2. /\ e \in Socket /\ SameData(w, e) /\ e.conn = w.conn /\ e.life = w.life /\ e.pc = w.pc
        /\ e.undefined = w.undefined /\ e.wsi = "null"
    BY <1>0, CloseFields
  <2> HIDE DEF e
  <2>3. CommonInv(e) /\ ClientInv(e) /\ ServerInv(e)
    BY <1>0, <2>1, <2>2 DEF ControlInv, CommonInv, ClientInv, NoneFreed, ServerInv, SameData, SameOrigin
  <2>4. DataInv(e)
    BY <1>0, <2>2, DataKept DEF InStep
  <2> QED
    BY <2>1, <2>2, <2>3, <2>4 DEF Good, ControlInv
<1> QED
  BY <1>1, <1>2

\* Unbinding keeps it: it waits for the server's mutex, so it does not come
\* between the test and the use of a stagger callback.
LEMMA CloseUnbindsGood ==
    ASSUME SocketInv, CloseUnbinds
    PROVE  Good(w')
<1>0. w \in Socket /\ ControlInv(w) /\ DataInv(w)
  BY DEF SocketInv, Good
<1> DEFINE now == w.early \/ w.pc \in {"admitted", "pushing"}
           d == [w EXCEPT !.closer = "clearing", !.entry = FALSE, !.user = FALSE, !.early = now]
<1>1. /\ w' = (IF w.conn = "gone" THEN Uses(d, "unbind", "freed connection") ELSE d)
      /\ w.closer = "unbinding" /\ (w.side = "server" => w.pc # "stagger")
  BY DEF CloseUnbinds, TableIsFree
<1>2. now \in BOOLEAN
  BY <1>0 DEF Socket
<1> HIDE DEF now
<1>3. /\ d \in Socket /\ SameData(w, d) /\ d.wsi = w.wsi /\ d.closed = w.closed /\ ~d.user /\ ~d.entry
      /\ d.early = now /\ d.closer = "clearing" /\ d.life = w.life /\ d.pc = w.pc /\ d.conn = w.conn
      /\ d.undefined = w.undefined
  BY <1>0, <1>2, ZenonT(40) DEF Socket, SameData, SameOrigin, SameStream, SameWrites
<1> HIDE DEF d
<1>4. CommonInv(d) /\ ClientInv(d)
  BY <1>0, <1>3 DEF ControlInv, CommonInv, ClientInv, NoneFreed, SameData, SameOrigin
<1>5. ASSUME d.side = "server" PROVE TableInv(d) /\ Dialled(d)
  <2>1. w.side = "server" /\ TableInv(w) /\ Dialled(w) /\ Typed(w)
    BY <1>0, <1>3, <1>5, SocketTyped DEF ControlInv, ServerInv, SameData, SameOrigin
  <2>2. ~now => ~w.early /\ w.pc \notin {"admitted", "pushing"}
    BY DEF now
  <2>3. ASSUME ~now PROVE TimelyInv(d)
    BY <1>1, <1>3, <2>1, <2>2, <2>3 DEF TableInv, TimelyInv, NoneStaggered
  <2> QED
    BY <1>1, <1>3, <2>1, <2>3 DEF TableInv, Dialled
<1>6. DataInv(d)
  BY <1>0, <1>3, DataKept DEF InStep
<1>7. Good(d)
  BY <1>3, <1>4, <1>5, <1>6 DEF Good, ControlInv, ServerInv
<1> QED
  BY <1>1, <1>7, UsesGood

\* Clearing the pointer keeps it: the table does not have the websocket any
\* more.
LEMMA CloseClearsGood ==
    ASSUME SocketInv, CloseClears
    PROVE  Good(w')
<1>0. w \in Socket /\ ControlInv(w) /\ DataInv(w)
  BY DEF SocketInv, Good
<1> DEFINE d == [w EXCEPT !.closer = "idle"]
           e == WebsocketClose(d)
<1>1. w' = e /\ w.closer = "clearing"
  BY DEF CloseClears
<1>2. /\ d \in Socket /\ SameData(w, d) /\ d.user = w.user /\ d.entry = w.entry
      /\ d.early = w.early /\ d.closer = "idle" /\ d.life = w.life /\ d.pc = w.pc /\ d.conn = w.conn
      /\ d.undefined = w.undefined
  BY <1>0 DEF Socket, SameData, SameOrigin, SameStream, SameWrites
<1> HIDE DEF d
<1>3. /\ e \in Socket /\ SameData(w, e) /\ e.wsi = "null" /\ e.closed /\ e.user = w.user /\ e.entry = w.entry
      /\ e.early = w.early /\ e.closer = "idle" /\ e.life = w.life /\ e.pc = w.pc /\ e.conn = w.conn
      /\ e.undefined = w.undefined
  BY <1>2, CloseFields DEF SameData, SameOrigin, SameStream, SameWrites
<1> HIDE DEF e
<1>4. CommonInv(e) /\ ClientInv(e)
  BY <1>0, <1>3 DEF ControlInv, CommonInv, ClientInv, NoneFreed, SameData, SameOrigin
<1>5. ASSUME e.side = "server" PROVE TableInv(e) /\ Dialled(e)
  <2>1. w.side = "server" /\ TableInv(w) /\ Dialled(w)
    BY <1>0, <1>3, <1>5 DEF ControlInv, ServerInv, SameData, SameOrigin
  <2> QED
    BY <1>1, <1>3, <2>1 DEF TableInv, TimelyInv, NoneStaggered, Dialled
<1>6. DataInv(e)
  BY <1>0, <1>3, DataKept DEF InStep
<1> QED
  BY <1>1, <1>3, <1>4, <1>5, <1>6 DEF Good, ControlInv, ServerInv

\* What fragments amount to: messages that are whole, and the beginning of one.
Assembly == [done : Seq(Seq(Bytes)), part : Seq(Bytes)]

\* One more fragment ends a message or makes its beginning longer.
LEMMA FragmentAdded ==
    ASSUME NEW m \in Assembly, NEW f \in Fragments
    PROVE  /\ WithFragment(m, f) \in Assembly
           /\ m.done \in Seq(Seq(Bytes)) /\ m.part \in Seq(Bytes) /\ m.part \o f.data \in Seq(Bytes)
           /\ f.final => WithFragment(m, f).done = Append(m.done, m.part \o f.data) /\ WithFragment(m, f).part = <<>>
           /\ ~f.final => WithFragment(m, f).done = m.done /\ WithFragment(m, f).part = m.part \o f.data
<1>1. m.done \in Seq(Seq(Bytes)) /\ m.part \in Seq(Bytes) /\ f.data \in Seq(Bytes) /\ f.final \in BOOLEAN
  BY DEF Assembly, Fragments
<1>2. m.part \o f.data \in Seq(Bytes)
  BY <1>1, ConcatProperties
<1>3. Append(m.done, m.part \o f.data) \in Seq(Seq(Bytes)) /\ <<>> \in Seq(Bytes)
  BY <1>1, <1>2, AppendProperties, EmptySeq
<1> QED
  BY <1>1, <1>2, <1>3 DEF WithFragment, Assembly

\* Assembled starts with nothing and adds a fragment at a time. (The function
\* is the one the loop defines: DataInduction.)
LEMMA AssembledLoop ==
    ASSUME NEW z \in Seq(Fragments)
    PROVE  /\ \A i \in 0 .. Len(z) : Assembled(z)[i] \in Assembly
           /\ Assembled(z)[0] = [done |-> <<>>, part |-> <<>>]
           /\ \A i \in 1 .. Len(z) : Assembled(z)[i] = WithFragment(Assembled(z)[i - 1], z[i])
<1> DEFINE n == Len(z)
           none == [done |-> <<>>, part |-> <<>>]
           step == [i \in 1 .. n |-> [x \in Assembly |-> WithFragment(x, z[i])]]
<1>1. n \in Nat /\ none \in Assembly
  <2>1. <<>> \in Seq(Bytes) /\ <<>> \in Seq(Seq(Bytes))
    BY EmptySeq
  <2> QED
    BY <2>1, LenProperties DEF Assembly
<1>2. Steps(step, n, Assembly)
  <2> SUFFICES ASSUME NEW i \in 1 .. n, NEW x \in Assembly
               PROVE  WithFragment(x, z[i]) \in Assembly
    BY <1>1 DEF Steps
  <2>1. z[i] \in Fragments
    BY ElementOfSeq
  <2> QED
    BY <2>1, FragmentAdded
<1>3. PICK f : Loop(f, n, Assembly, none, step)
  <2> HIDE DEF step, n, none
  <2> QED
    BY <1>1, <1>2, LoopExists
<1>4. \A i \in 1 .. n : f[i] = WithFragment(f[i - 1], z[i])
  <2> TAKE i \in 1 .. n
  <2>1. i - 1 \in 0 .. n
    BY <1>1
  <2>2. f[i - 1] \in Assembly
    BY <1>3, <2>1 DEF Loop
  <2> QED
    BY <1>3, <2>2 DEF Loop
<1> DEFINE Is(g) == g = [i \in 0 .. n |-> IF i = 0 THEN none ELSE WithFragment(g[i - 1], z[i])]
           k == CHOOSE g : Is(g)
<1>5. Is(f)
  <2>1. \A i \in 0 .. n : i = 0 \/ i \in 1 .. n
    BY <1>1
  <2>2. \A i \in 0 .. n : f[i] = IF i = 0 THEN none ELSE WithFragment(f[i - 1], z[i])
    <3> HIDE DEF none
    <3> QED
      BY <1>3, <1>4, <2>1 DEF Loop
  <2> HIDE DEF none
  <2> QED
    BY <1>3, <2>2 DEF Loop
<1>6. Is(k)
  <2> HIDE DEF Is
  <2> QED
    BY <1>5
<1>7. Assembled(z) = k
  BY DEF Assembled
<1> HIDE DEF k, none
<1>8. k[0] = none /\ \A i \in 1 .. n : k[i] = WithFragment(k[i - 1], z[i])
  <2>1. 0 \in 0 .. n /\ \A i \in 1 .. n : i \in 0 .. n /\ i # 0
    BY <1>1
  <2> QED
    BY <1>6, <2>1
<1> DEFINE T == {i \in Nat : i <= n => k[i] \in Assembly}
<1>9. 0 \in T
  BY <1>1, <1>8
<1>10. ASSUME NEW i \in Nat, i \in T PROVE i + 1 \in T
  <2> SUFFICES ASSUME i + 1 <= n PROVE k[i + 1] \in Assembly
    OBVIOUS
  <2>1. i + 1 \in 1 .. n /\ (i + 1) - 1 = i /\ k[i] \in Assembly
    BY <1>1, <1>10
  <2>2. z[i + 1] \in Fragments
    BY <2>1, ElementOfSeq
  <2>3. k[i + 1] = WithFragment(k[i], z[i + 1])
    BY <1>8, <2>1
  <2> QED
    BY <2>1, <2>2, <2>3, FragmentAdded
<1>11. Nat \subseteq T
  <2> HIDE DEF T
  <2> QED
    BY <1>9, <1>10, SetInduction
<1>12. \A i \in 0 .. n : k[i] \in Assembly
  BY <1>1, <1>11
<1> QED
  BY <1>7, <1>8, <1>12 DEF none

\* What is whole stays whole: the messages of the first fragments are a
\* beginning of those of all.
LEMMA AssembledGrows ==
    ASSUME NEW z \in Seq(Fragments), NEW i \in 0 .. Len(z)
    PROVE  IsPrefix(Assembled(z)[i].done, Assembled(z)[Len(z)].done)
<1> DEFINE n == Len(z)
           A == Assembled(z)
           T == {j \in Nat : i + j <= n => IsPrefix(A[i].done, A[i + j].done)}
<1>1. n \in Nat /\ i \in Nat /\ i <= n /\ \A j \in 0 .. n : A[j] \in Assembly /\ A[j].done \in Seq(Seq(Bytes))
  BY LenProperties, AssembledLoop DEF Assembly
<1>2. \A j \in 1 .. n : A[j] = WithFragment(A[j - 1], z[j])
  BY AssembledLoop
<1> HIDE DEF A
<1>3. 0 \in T
  BY <1>1, PrefixSelf
<1>4. ASSUME NEW j \in Nat, j \in T PROVE j + 1 \in T
  <2> SUFFICES ASSUME i + (j + 1) <= n PROVE IsPrefix(A[i].done, A[i + (j + 1)].done)
    OBVIOUS
  <2>1. i + j \in 0 .. n /\ i + (j + 1) \in 1 .. n /\ (i + (j + 1)) - 1 = i + j /\ i + j <= n
    BY <1>1
  <2>2. IsPrefix(A[i].done, A[i + j].done)
    BY <1>4, <2>1
  <2>3. z[i + (j + 1)] \in Fragments
    BY <2>1, ElementOfSeq
  <2>4. A[i + (j + 1)] = WithFragment(A[i + j], z[i + (j + 1)])
    BY <1>2, <2>1
  <2>5. PICK f \in Fragments : f = z[i + (j + 1)]
    BY <2>3
  <2>6. PICK m \in Assembly : m = A[i + j]
    BY <1>1, <2>1
  <2>7. A[i].done \in Seq(Seq(Bytes)) /\ IsPrefix(A[i].done, m.done) /\ A[i + (j + 1)] = WithFragment(m, f)
    BY <1>1, <2>2, <2>4, <2>5, <2>6
  <2>8. IsPrefix(A[i].done, WithFragment(m, f).done)
    <3>1. CASE f.final
      <4>1. WithFragment(m, f).done = Append(m.done, m.part \o f.data) /\ m.done \in Seq(Seq(Bytes))
              /\ m.part \o f.data \in Seq(Bytes)
        BY <3>1, FragmentAdded
      <4> QED
        BY <2>7, <4>1, PrefixLonger
    <3>2. CASE ~f.final
      BY <2>7, <3>2, FragmentAdded
    <3> QED
      BY <3>1, <3>2
  <2> QED
    BY <2>7, <2>8
<1>5. Nat \subseteq T
  <2> HIDE DEF T
  <2> QED
    BY <1>3, <1>4, SetInduction
<1>6. \A j \in Nat : i + j <= n => IsPrefix(A[i].done, A[i + j].done)
  BY <1>5
<1>7. PICK k \in Nat : i + k = n
  <2>1. n - i \in Nat /\ i + (n - i) = n
    BY <1>1
  <2> QED
    BY <2>1
<1>8. IsPrefix(A[i].done, A[i + k].done)
  <2>1. i + k <= n
    BY <1>1, <1>7
  <2> HIDE DEF n
  <2> QED
    BY <1>6, <2>1
<1> QED
  BY <1>7, <1>8 DEF A

\* A message that is accepted goes to the end of the queue.
LEMMA WebsocketWriteGood ==
    ASSUME SocketInv, NEW msg \in Messages, WebsocketWrite(msg)
    PROVE  Good(w')
<1>0. w \in Socket /\ ControlInv(w) /\ DataInv(w)
  BY DEF SocketInv, Good
<1>1. CASE w.closed \/ Len(w.queue) >= QueueSize
  BY <1>1 DEF WebsocketWrite, WebsocketTryWrite, SocketInv
<1>2. CASE ~(w.closed \/ Len(w.queue) >= QueueSize)
  <2> DEFINE e == [w EXCEPT !.queue = Append(@, msg), !.accepted = Append(@, msg)]
  <2>1. w' = e
    BY <1>2 DEF WebsocketWrite, WebsocketTryWrite
  <2>2. w.queue \in Seq(Messages) /\ w.accepted \in Seq(Messages) /\ w.got \in Seq(Messages)
    BY <1>0 DEF Socket
  <2>3. Append(w.queue, msg) \in Seq(Messages) /\ Append(w.accepted, msg) \in Seq(Messages)
    BY <2>2, AppendProperties
  <2>4. /\ e \in Socket /\ SameOrigin(w, e) /\ SameStream(w, e) /\ SameTable(w, e) /\ e.life = w.life /\ e.pc = w.pc
        /\ e.conn = w.conn /\ e.undefined = w.undefined /\ e.got = w.got
        /\ e.queue = Append(w.queue, msg) /\ e.accepted = Append(w.accepted, msg)
    BY <1>0, <2>3 DEF Socket, SameOrigin, SameStream, SameTable
  <2> HIDE DEF e
  <2>5. CommonInv(e) /\ ClientInv(e)
    BY <1>0, <2>4 DEF ControlInv, CommonInv, ClientInv, NoneFreed, SameTable, SameOrigin
  <2>6. ServerInv(e)
    BY <1>0, <2>4 DEF ControlInv, ServerInv, TableInv, TimelyInv, NoneStaggered, Dialled, SameTable, SameOrigin
  <2>7. Handed(e) = Handed(w) /\ Taken(e) = Taken(w) /\ InStep(e) = InStep(w)
    BY <2>4 DEF Handed, Taken, InStep, SameOrigin, SameStream, SameTable
  <2>8. StreamInv(e)
    BY <1>0, <2>4, <2>7 DEF DataInv, StreamInv, LossyInv, ExactInv, SameOrigin, SameStream
  <2>9. WriteInv(e)
    <3>1. IsPrefix(e.got, e.accepted)
      BY <1>0, <2>2, <2>4, PrefixLonger DEF DataInv, WriteInv
    <3>2. ASSUME w.accepted = w.got \o w.queue PROVE Append(w.accepted, msg) = w.got \o Append(w.queue, msg)
      <4>1. PICK a \in Seq(Messages), b \in Seq(Messages), c \in Seq(Messages) :
                   a = w.got /\ b = w.queue /\ c = w.accepted
        BY <2>2
      <4>2. c = a \o b
        BY <3>2, <4>1
      <4>3. Append(c, msg) = a \o Append(b, msg)
        BY <4>2, LastMoves, ZenonT(40)
      <4> QED
        BY <4>1, <4>3
    <3> QED
      BY <1>0, <2>4, <3>1, <3>2 DEF DataInv, WriteInv
  <2>10. IdentityInv(e)
    BY <1>0, <2>4 DEF DataInv, IdentityInv, IdentityAccepted, Matches, SameOrigin, SameStream
  <2>11. ReceivingInv(e)
    BY <1>0, <2>4 DEF DataInv, ReceivingInv, Fits, SameStream
  <2> QED
    BY <2>1, <2>4, <2>5, <2>6, <2>8, <2>9, <2>10, <2>11 DEF Good, ControlInv, DataInv
<1> QED
  BY <1>1, <1>2

\* A message that goes out was the first of the queue; one that could not be
\* sent is lost with the connection.
LEMMA OnWritableGood ==
    ASSUME SocketInv, NEW fails, OnWritable(fails)
    PROVE  Good(w')
<1>0. w \in Socket /\ ControlInv(w) /\ DataInv(w)
  BY DEF SocketInv, Good
<1> DEFINE d == [w EXCEPT !.want = FALSE]
<1>1. /\ d \in Socket /\ SameData(w, d) /\ SameTable(w, d) /\ d.life = w.life /\ d.pc = w.pc /\ d.conn = w.conn
      /\ d.undefined = w.undefined
  BY <1>0 DEF Socket, SameData, SameOrigin, SameStream, SameWrites, SameTable
<1>2. /\ w' = IF w.side = "server" /\ ~w.user THEN LwsCloses(d) ELSE WebsocketOnWritable(d, fails)
      /\ w.pc = "service" /\ w.conn = "up"
  BY DEF OnWritable
<1> HIDE DEF d
<1>3. ControlInv(d)
  <2>1. CommonInv(d) /\ ClientInv(d)
    BY <1>0, <1>1 DEF ControlInv, CommonInv, ClientInv, NoneFreed, SameTable, SameData, SameOrigin
  <2>2. ServerInv(d)
    BY <1>0, <1>1 DEF ControlInv, ServerInv, TableInv, TimelyInv, NoneStaggered, Dialled, SameTable, SameData, SameOrigin
  <2> QED
    BY <2>1, <2>2 DEF ControlInv
<1>4. DataInv(d)
  BY <1>0, <1>1, DataKept DEF InStep, SameTable
<1>5. CASE w.side = "server" /\ ~w.user
  BY <1>1, <1>2, <1>3, <1>4, <1>5, LwsClosesGood
<1>6. CASE ~(w.side = "server" /\ ~w.user) /\ (d.wsi = "null" \/ d.queue = <<>>)
  BY <1>1, <1>2, <1>3, <1>4, <1>6 DEF WebsocketOnWritable, Good
<1>7. CASE ~(w.side = "server" /\ ~w.user) /\ ~(d.wsi = "null" \/ d.queue = <<>>)
  <2> DEFINE r == [d EXCEPT !.queue = Tail(@)]
             g == [r EXCEPT !.got = Append(@, Head(d.queue)), !.want = TRUE]
  <2>1. w' = IF fails THEN LwsCloses(r) ELSE g
    BY <1>2, <1>7 DEF WebsocketOnWritable
  <2>2. /\ d.queue \in Seq(Messages) /\ d.queue # <<>> /\ d.got \in Seq(Messages) /\ d.accepted \in Seq(Messages)
        /\ Tail(d.queue) \in Seq(Messages) /\ Head(d.queue) \in Messages
    BY <1>1, <1>7, HeadTailProperties DEF Socket
  <2>3. /\ r \in Socket /\ SameOrigin(d, r) /\ SameStream(d, r) /\ SameTable(d, r) /\ r.life = d.life /\ r.pc = d.pc
        /\ r.conn = d.conn /\ r.undefined = d.undefined
        /\ r.queue = Tail(d.queue) /\ r.got = d.got /\ r.accepted = d.accepted
    BY <1>1, <2>2 DEF Socket, SameOrigin, SameStream, SameTable
  <2> HIDE DEF r
  <2>4. CommonInv(r) /\ ClientInv(r)
    BY <1>3, <2>3 DEF ControlInv, CommonInv, ClientInv, NoneFreed, SameTable, SameOrigin
  <2>5. ServerInv(r)
    BY <1>3, <2>3 DEF ControlInv, ServerInv, TableInv, TimelyInv, NoneStaggered, Dialled, SameTable, SameOrigin
  <2>6. StreamInv(r)
    <3>1. Handed(r) = Handed(d) /\ Taken(r) = Taken(d) /\ InStep(r) = InStep(d)
      BY <2>3 DEF Handed, Taken, InStep, SameOrigin, SameStream, SameTable
    <3> QED
      BY <1>4, <2>3, <3>1 DEF DataInv, StreamInv, LossyInv, ExactInv, SameOrigin, SameStream
  <2>7. IsPrefix(r.got, r.accepted) /\ IdentityInv(r)
    BY <1>4, <2>3 DEF DataInv, WriteInv, IdentityInv, IdentityAccepted, Matches, SameOrigin, SameStream
  <2>8. CASE fails
    <3>1. LwsCloses(r) \in Socket /\ DataInv(LwsCloses(r))
      BY <1>1, <1>2, <2>3, <2>6, <2>7, LwsClosesData DEF StreamInv
    <3>2. ControlInv(LwsCloses(r))
      BY <1>1, <1>2, <2>3, <2>4, <2>5, LwsClosesControl DEF ServerInv
    <3> QED
      BY <2>1, <2>8, <3>1, <3>2 DEF Good
  <2>9. CASE ~fails
    <3>1. Append(r.got, Head(d.queue)) \in Seq(Messages)
      BY <2>2, <2>3, AppendProperties
    <3>2. /\ g \in Socket /\ SameOrigin(r, g) /\ SameStream(r, g) /\ SameTable(r, g) /\ g.life = r.life /\ g.pc = r.pc
          /\ g.conn = r.conn /\ g.undefined = r.undefined
          /\ g.queue = r.queue /\ g.got = Append(r.got, Head(d.queue)) /\ g.accepted = r.accepted
      BY <2>3, <3>1 DEF Socket, SameOrigin, SameStream, SameTable
    <3> HIDE DEF g
    <3>3. CommonInv(g) /\ ClientInv(g)
      BY <2>4, <3>2 DEF CommonInv, ClientInv, NoneFreed, SameTable, SameOrigin
    <3>4. ServerInv(g)
      BY <2>5, <3>2 DEF ServerInv, TableInv, TimelyInv, NoneStaggered, Dialled, SameTable, SameOrigin
    <3>5. StreamInv(g)
      <4>1. Handed(g) = Handed(r) /\ Taken(g) = Taken(r) /\ InStep(g) = InStep(r)
        BY <3>2 DEF Handed, Taken, InStep, SameOrigin, SameStream, SameTable
      <4> QED
        BY <2>6, <3>2, <4>1 DEF StreamInv, LossyInv, ExactInv, SameOrigin, SameStream
    <3>6. WriteInv(g)
      <4>1. d.accepted = d.got \o d.queue
        BY <1>1, <1>2, <1>4 DEF DataInv, WriteInv
      <4>2. d.got \o d.queue = Append(d.got, Head(d.queue)) \o Tail(d.queue)
        BY <2>2, HeadMoves
      <4>3. IsPrefix(Append(d.got, Head(d.queue)), Append(d.got, Head(d.queue)) \o Tail(d.queue))
        <5>1. PICK a \in Seq(Messages) : a = Append(d.got, Head(d.queue))
          BY <2>3, <3>1
        <5>2. PICK b \in Seq(Messages) : b = Tail(d.queue)
          BY <2>2
        <5>3. /\ a \o b \in Seq(Messages) /\ Len(a \o b) = Len(a) + Len(b)
              /\ Len(a) \in Nat /\ Len(b) \in Nat /\ \A i \in 1 .. Len(a) : (a \o b)[i] = a[i]
          BY ConcatProperties, LenProperties
        <5>4. IsPrefix(a, a \o b)
          <6>1. Len(a) <= Len(a \o b)
            BY <5>3
          <6> QED
            BY <5>3, <6>1, PrefixIndices
        <5> QED
          BY <5>1, <5>2, <5>4
      <4> QED
        BY <2>3, <3>2, <4>1, <4>2, <4>3 DEF WriteInv
    <3>7. IdentityInv(g)
      BY <1>0, <1>1, <1>2, <2>3, <3>2 DEF DataInv, IdentityInv, IdentityAccepted, Matches, SameData, SameOrigin, SameStream
    <3> QED
      BY <1>1, <1>2, <2>1, <2>3, <2>9, <3>2, <3>3, <3>4, <3>5, <3>6, <3>7 DEF Good, ControlInv, DataInv, ReceivingInv
  <2> QED
    BY <2>8, <2>9
<1> QED
  BY <1>5, <1>6, <1>7

\* Telling the owner keeps the invariant: a deleted websocket of a server has
\* no pointer, so the message is one of a stream that is not in step any more.
LEMMA OnReceiveTellsGood ==
    ASSUME SocketInv, OnReceiveTells
    PROVE  Good(w')
<1>0. w \in Socket /\ ControlInv(w) /\ DataInv(w)
  BY DEF SocketInv, Good
<1> DEFINE d == [w EXCEPT !.pc = "service", !.inHand = <<>>]
           c == WebsocketUserCallback(d, w.inHand)
<1>1. w' = (IF w.life = "deleted" THEN Uses(d, "receive", "freed object") ELSE c) /\ w.pc = "reading"
  BY DEF OnReceiveTells
<1>2. /\ d \in Socket /\ SameOrigin(w, d) /\ SameWrites(w, d) /\ SameTable(w, d) /\ d.life = w.life /\ d.pc = "service"
      /\ d.conn = w.conn /\ d.undefined = w.undefined /\ d.buf = w.buf /\ d.incoming = w.incoming /\ d.told = w.told
  <2>1. <<>> \in Seq(Bytes)
    BY EmptySeq
  <2> QED
    BY <1>0, <2>1 DEF Socket, SameOrigin, SameWrites, SameTable, Places
<1> HIDE DEF d
<1>3. w.conn = "up"
  BY <1>0, <1>1 DEF ControlInv, CommonInv
<1>4. CommonInv(d)
  BY <1>0, <1>2, <1>3 DEF ControlInv, CommonInv, SameTable
<1>5. CASE w.life = "deleted"
  <2>1. w.side = "server"
    BY <1>0, <1>1, <1>5 DEF ControlInv, ClientInv, Socket
  <2>4. ClientInv(d)
    BY <1>2, <2>1 DEF ClientInv, SameOrigin
  <2>5. TableInv(d) /\ Dialled(d)
    BY <1>0, <1>1, <1>2, <1>3, <2>1 DEF ControlInv, ServerInv, TableInv, TimelyInv, NoneStaggered, Dialled, SameTable
  <2>6. LossyInv(d)
    <3>1. /\ w.told \in Seq(Seq(Bytes)) /\ w.inHand \in Seq(Bytes) /\ w.script \in Seq(Fragments)
          /\ Taken(w) \in 0 .. Len(w.script)
      BY <1>0 DEF Socket, DataInv, StreamInv, LossyInv
    <3>2. Assembled(w.script)[Taken(w)].done \in Seq(Seq(Bytes))
      BY <3>1, AssembledLoop DEF Assembly
    <3>3. Handed(w) = Append(w.told, w.inHand) /\ Handed(d) = w.told /\ Taken(d) = Taken(w)
      BY <1>1, <1>2 DEF Handed, Taken, SameOrigin, SameStream
    <3>4. PICK s \in Seq(Seq(Bytes)), x \in Seq(Bytes) : s = w.told /\ x = w.inHand
      BY <3>1
    <3>5. /\ Append(s, x) \in Seq(Seq(Bytes)) /\ Len(Append(s, x)) = Len(s) + 1 /\ Len(s) \in Nat
          /\ \A i \in 1 .. Len(s) : Append(s, x)[i] = s[i]
      BY AppendProperties, LenProperties
    <3>6. IsPrefix(s, Append(s, x))
      BY PrefixSelf, PrefixLonger
    <3>7. IsPrefix(s, Assembled(w.script)[Taken(w)].done)
      <4>1. PICK z \in Seq(Seq(Bytes)) : z = Assembled(w.script)[Taken(w)].done
        BY <3>2
      <4>2. IsPrefix(Append(s, x), z)
        BY <1>0, <3>3, <3>4, <4>1 DEF DataInv, StreamInv, LossyInv
      <4>3. PICK y \in Seq(Seq(Bytes)) : y = Append(s, x)
        BY <3>5
      <4>4. IsPrefix(s, z)
        BY <3>6, <4>2, <4>3, PrefixOf
      <4> QED
        BY <4>1, <4>4
    <3>8. \A i \in DOMAIN s : Len(s[i]) <= MaxInput
      <4>1. \A i \in DOMAIN Append(s, x) : Len(Append(s, x)[i]) <= MaxInput
        BY <1>0, <3>3, <3>4 DEF DataInv, StreamInv, LossyInv
      <4>2. DOMAIN s = 1 .. Len(s) /\ DOMAIN Append(s, x) = 1 .. (Len(s) + 1)
        BY <3>5, LenProperties
      <4>3. \A i \in 1 .. Len(s) : i \in 1 .. (Len(s) + 1)
        BY <3>5
      <4> QED
        BY <3>5, <4>1, <4>2, <4>3
    <3>9. d.script = w.script /\ d.incoming = w.incoming
      BY <1>2 DEF SameOrigin, SameStream
    <3>10. \A k \in 1 .. Len(d.incoming) : d.incoming[k] = d.script[Taken(d) + k]
      BY <1>0, <3>3, <3>9 DEF DataInv, StreamInv, LossyInv
    <3>11. IsPrefix(Handed(d), Assembled(d.script)[Taken(d)].done) /\ \A i \in DOMAIN Handed(d) : Len(Handed(d)[i]) <= MaxInput
      BY <3>3, <3>4, <3>7, <3>8, <3>9
    <3> QED
      BY <3>1, <3>3, <3>9, <3>10, <3>11 DEF LossyInv
  <2>7. ExactInv(d)
    BY <1>0, <1>2, <1>3, <1>5 DEF ExactInv, InStep, ControlInv, CommonInv, SameTable
  <2>8. WriteInv(d)
    BY <1>0, <1>2 DEF DataInv, WriteInv, SameWrites
  <2>9. IdentityInv(d)
    BY <1>2, <2>1 DEF IdentityInv, SameOrigin
  <2>10. Good(d)
    BY <1>2, <1>4, <2>4, <2>5, <2>6, <2>7, <2>8, <2>9 DEF Good, ControlInv, ServerInv, DataInv, StreamInv, ReceivingInv
  <2>11. d.side = "server"
    BY <1>2, <2>1 DEF SameOrigin
  <2> QED
    BY <1>1, <1>5, <2>10, <2>11, UsesGood
<1>6. CASE w.life # "deleted"
  <2>1. w.told \in Seq(Seq(Bytes)) /\ w.inHand \in Seq(Bytes)
    BY <1>0 DEF Socket
  <2>2. Append(w.told, w.inHand) \in Seq(Seq(Bytes))
    BY <2>1, AppendProperties
  <2>3. /\ c \in Socket /\ SameOrigin(d, c) /\ SameWrites(d, c) /\ SameTable(d, c) /\ c.life = d.life /\ c.pc = d.pc
        /\ c.conn = d.conn /\ c.undefined = d.undefined /\ c.buf = d.buf /\ c.incoming = d.incoming
        /\ c.told = Append(w.told, w.inHand)
    BY <1>2, <2>2 DEF WebsocketUserCallback, Socket, SameOrigin, SameWrites, SameTable
  <2> HIDE DEF c
  <2>4. CommonInv(c)
    BY <1>4, <2>3 DEF CommonInv, SameTable
  <2>5. ClientInv(c)
    BY <1>0, <1>1, <1>2, <1>6, <2>3 DEF ControlInv, ClientInv, NoneFreed, SameOrigin
  <2>6. ASSUME c.side = "server" PROVE TableInv(c) /\ Dialled(c)
    BY <1>0, <1>1, <1>2, <1>3, <2>3, <2>6, ZenonT(40) DEF ControlInv, ServerInv, TableInv, TimelyInv, NoneStaggered, Dialled, SameTable, SameOrigin
  <2>7. Handed(c) = Handed(w) /\ Taken(c) = Taken(w) /\ InStep(c) = InStep(w)
    BY <1>1, <1>2, <2>3 DEF Handed, Taken, InStep, SameOrigin, SameTable
  <2>8. StreamInv(c)
    BY <1>0, <1>2, <2>3, <2>7 DEF DataInv, StreamInv, LossyInv, ExactInv, SameOrigin
  <2>9. WriteInv(c)
    BY <1>0, <1>2, <2>3 DEF DataInv, WriteInv, SameWrites
  <2>10. IdentityInv(c)
    BY <1>0, <1>2, <1>3, <2>3 DEF DataInv, IdentityInv, IdentityAccepted, Matches, SameOrigin
  <2> QED
    BY <1>1, <1>2, <1>6, <2>3, <2>4, <2>5, <2>6, <2>8, <2>9, <2>10 DEF Good, ControlInv, ServerInv, DataInv, ReceivingInv
<1> QED
  BY <1>5, <1>6

\* The fragment that lws delivers is the next one of the script.
LEMMA FragmentTaken ==
    ASSUME NEW d \in Socket, LossyInv(d), d.incoming # <<>>
    PROVE  /\ Head(d.incoming) \in Fragments /\ Tail(d.incoming) \in Seq(Fragments)
           /\ Len(d.script) - Len(Tail(d.incoming)) = Taken(d) + 1
           /\ Taken(d) + 1 \in 0 .. Len(d.script) /\ Taken(d) \in 0 .. Len(d.script)
           /\ \A k \in 1 .. Len(Tail(d.incoming)) : Tail(d.incoming)[k] = d.script[(Taken(d) + 1) + k]
           /\ Assembled(d.script)[Taken(d)] \in Assembly
           /\ Assembled(d.script)[Taken(d) + 1] = WithFragment(Assembled(d.script)[Taken(d)], Head(d.incoming))
<1>1. d.script \in Seq(Fragments) /\ d.incoming \in Seq(Fragments)
  BY DEF Socket
<1>2. PICK p \in Seq(Fragments), rest \in Seq(Fragments) : p = d.script /\ rest = d.incoming
  BY <1>1
<1> DEFINE n == Len(p) - Len(rest)
<1>3. /\ Len(p) \in Nat /\ Len(rest) \in Nat /\ n \in 0 .. Len(p) /\ Taken(d) = n /\ rest # <<>>
      /\ \A k \in 1 .. Len(rest) : rest[k] = p[n + k]
  BY <1>2, LenProperties DEF LossyInv, Taken
<1>4. /\ Head(rest) \in Fragments /\ Tail(rest) \in Seq(Fragments) /\ Len(Tail(rest)) = Len(rest) - 1 /\ Len(rest) > 0
      /\ Head(rest) = rest[1] /\ \A i \in 1 .. (Len(rest) - 1) : Tail(rest)[i] = rest[i + 1]
  BY <1>3, LenProperties, HeadTailProperties, EmptySeq
<1>5. Len(p) - Len(Tail(rest)) = n + 1 /\ n + 1 \in 1 .. Len(p) /\ n + 1 \in 0 .. Len(p) /\ (n + 1) - 1 = n
  BY <1>3, <1>4
<1>6. ASSUME NEW k \in 1 .. Len(Tail(rest)) PROVE Tail(rest)[k] = p[(n + 1) + k]
  <2>1. k \in 1 .. (Len(rest) - 1) /\ k + 1 \in 1 .. Len(rest) /\ n + (k + 1) = (n + 1) + k
    BY <1>3, <1>4
  <2> QED
    BY <1>3, <1>4, <2>1
<1>7. Head(rest) = p[n + 1]
  <2>1. 1 \in 1 .. Len(rest)
    BY <1>3, <1>4
  <2> QED
    BY <1>3, <1>4, <2>1
<1>8. Assembled(p)[n] \in Assembly /\ Assembled(p)[n + 1] = WithFragment(Assembled(p)[n], p[n + 1])
  <2>1. \A i \in 0 .. Len(p) : Assembled(p)[i] \in Assembly
    BY AssembledLoop
  <2>2. \A i \in 1 .. Len(p) : Assembled(p)[i] = WithFragment(Assembled(p)[i - 1], p[i])
    BY AssembledLoop
  <2> HIDE DEF n
  <2> QED
    BY <1>3, <1>5, <2>1, <2>2
<1> HIDE DEF n
<1> QED
  BY <1>2, <1>3, <1>4, <1>5, <1>6, <1>7, <1>8

\* What was handed over remains a beginning when a fragment is lost.
LEMMA FragmentLost ==
    ASSUME NEW d \in Socket, NEW e \in Socket, LossyInv(d), d.incoming # <<>>, d.pc # "reading", e.pc # "reading",
           e.script = d.script, e.told = d.told, e.incoming = Tail(d.incoming)
    PROVE  LossyInv(e)
<1>1. Taken(e) = Taken(d) + 1 /\ Handed(e) = d.told /\ Handed(d) = d.told
  BY FragmentTaken DEF Taken, Handed
<1>2. Taken(e) \in 0 .. Len(e.script) /\ \A k \in 1 .. Len(e.incoming) : e.incoming[k] = e.script[Taken(e) + k]
  BY <1>1, FragmentTaken
<1>3. PICK m \in Assembly, f \in Fragments : m = Assembled(d.script)[Taken(d)] /\ f = Head(d.incoming)
  BY FragmentTaken
<1>4. Assembled(e.script)[Taken(e)] = WithFragment(m, f)
  BY <1>1, <1>3, FragmentTaken
<1>5. PICK s \in Seq(Seq(Bytes)) : s = d.told
  BY DEF Socket
<1>6. IsPrefix(s, m.done)
  BY <1>1, <1>3, <1>5 DEF LossyInv
<1>7. IsPrefix(s, WithFragment(m, f).done)
  <2>1. CASE f.final
    <3>1. WithFragment(m, f).done = Append(m.done, m.part \o f.data) /\ m.done \in Seq(Seq(Bytes))
            /\ m.part \o f.data \in Seq(Bytes)
      BY <2>1, FragmentAdded
    <3> QED
      BY <1>6, <3>1, PrefixLonger
  <2>2. CASE ~f.final
    BY <1>6, <2>2, FragmentAdded
  <2> QED
    BY <2>1, <2>2
<1>8. \A i \in DOMAIN Handed(e) : Len(Handed(e)[i]) <= MaxInput
  BY <1>1 DEF LossyInv
<1> QED
  BY <1>1, <1>2, <1>4, <1>5, <1>7, <1>8 DEF LossyInv

\* What was handed over remains all there is when a fragment is joined to the
\* buffer, and the message is not too long, because Fits counts what the buffer
\* has.
LEMMA FragmentJoined ==
    ASSUME NEW d \in Socket, NEW e \in Socket, LossyInv(d), ExactInv(d), InStep(d), d.incoming # <<>>, d.pc # "reading",
           e.script = d.script, e.told = d.told, e.incoming = Tail(d.incoming),
           Fits(d, Head(d.incoming).data),
           IF Head(d.incoming).final
           THEN e.pc = "reading" /\ e.inHand = d.buf \o Head(d.incoming).data /\ e.buf = <<>>
           ELSE e.pc # "reading" /\ e.buf = d.buf \o Head(d.incoming).data
    PROVE  StreamInv(e)
<1>1. Taken(e) = Taken(d) + 1 /\ Handed(d) = d.told
  BY FragmentTaken DEF Taken, Handed
<1>2. Taken(e) \in 0 .. Len(e.script) /\ \A k \in 1 .. Len(e.incoming) : e.incoming[k] = e.script[Taken(e) + k]
  BY <1>1, FragmentTaken
<1>3. PICK m \in Assembly, f \in Fragments : m = Assembled(d.script)[Taken(d)] /\ f = Head(d.incoming)
  BY FragmentTaken
<1>4. Assembled(e.script)[Taken(e)] = WithFragment(m, f)
  BY <1>1, <1>3, FragmentTaken
<1>5. d.told = m.done /\ d.buf = m.part
  BY <1>1, <1>3 DEF ExactInv
<1>6. /\ WithFragment(m, f) \in Assembly
      /\ m.done \in Seq(Seq(Bytes)) /\ m.part \in Seq(Bytes) /\ m.part \o f.data \in Seq(Bytes)
      /\ f.final => WithFragment(m, f).done = Append(m.done, m.part \o f.data) /\ WithFragment(m, f).part = <<>>
      /\ ~f.final => WithFragment(m, f).done = m.done /\ WithFragment(m, f).part = m.part \o f.data
  BY FragmentAdded
<1>7. Handed(e) = WithFragment(m, f).done /\ e.buf = WithFragment(m, f).part
  <2>1. CASE f.final
    <3>1. e.pc = "reading" /\ e.inHand = m.part \o f.data /\ e.buf = <<>>
      BY <1>3, <1>5, <2>1
    <3> QED
      BY <1>5, <1>6, <2>1, <3>1 DEF Handed
  <2>2. CASE ~f.final
    <3>1. e.pc # "reading" /\ e.buf = m.part \o f.data
      BY <1>3, <1>5, <2>2
    <3> QED
      BY <1>5, <1>6, <2>2, <3>1 DEF Handed
  <2> QED
    BY <2>1, <2>2
<1>8. ExactInv(e)
  BY <1>4, <1>7 DEF ExactInv
<1>9. IsPrefix(Handed(e), WithFragment(m, f).done)
  <2>1. PICK s \in Seq(Seq(Bytes)) : s = WithFragment(m, f).done
    BY <1>6 DEF Assembly
  <2>2. IsPrefix(s, s)
    BY PrefixSelf
  <2> QED
    BY <1>7, <2>1, <2>2
<1>10. \A i \in DOMAIN m.done : Len(m.done[i]) <= MaxInput
  BY <1>1, <1>5 DEF LossyInv
<1>11. \A i \in DOMAIN Handed(e) : Len(Handed(e)[i]) <= MaxInput
  <2>1. CASE f.final
    <3>1. PICK s \in Seq(Seq(Bytes)), x \in Seq(Bytes) : s = m.done /\ x = m.part \o f.data
      BY <1>6
    <3>2. Len(x) <= MaxInput
      <4>1. f.data \in Seq(Bytes) /\ m.part \in Seq(Bytes)
        BY <1>6 DEF Fragments
      <4>2. Len(f.data) <= MaxInput /\ Len(m.part) <= MaxInput - Len(f.data)
        BY <1>3, <1>5 DEF Fits
      <4>3. Len(x) = Len(m.part) + Len(f.data) /\ Len(m.part) \in Nat /\ Len(f.data) \in Nat
        BY <3>1, <4>1, ConcatProperties, LenProperties
      <4>4. MaxInput \in Nat
        BY WebsocketAssumption
      <4>5. \A i, j, k \in Nat : j <= k /\ i <= k - j => i + j <= k
        OBVIOUS
      <4>6. Len(m.part) + Len(f.data) <= MaxInput
        BY <4>2, <4>3, <4>4, <4>5
      <4> QED
        BY <4>3, <4>6
    <3>3. /\ Append(s, x) \in Seq(Seq(Bytes)) /\ Len(Append(s, x)) = Len(s) + 1 /\ Len(s) \in Nat
          /\ Append(s, x)[Len(s) + 1] = x /\ \A i \in 1 .. Len(s) : Append(s, x)[i] = s[i]
      BY AppendProperties, LenProperties
    <3>4. DOMAIN s = 1 .. Len(s) /\ DOMAIN Append(s, x) = 1 .. (Len(s) + 1)
      BY <3>3, LenProperties
    <3>5. ASSUME NEW i \in 1 .. (Len(s) + 1) PROVE Len(Append(s, x)[i]) <= MaxInput
      <4>1. i \in 1 .. Len(s) \/ i = Len(s) + 1
        BY <3>3
      <4>2. CASE i \in 1 .. Len(s)
        BY <1>10, <3>1, <3>3, <3>4, <4>2
      <4>3. CASE i = Len(s) + 1
        BY <3>2, <3>3, <4>3
      <4> QED
        BY <4>1, <4>2, <4>3
    <3>6. Handed(e) = Append(s, x)
      BY <1>6, <1>7, <2>1, <3>1
    <3> QED
      BY <3>4, <3>5, <3>6
  <2>2. CASE ~f.final
    BY <1>6, <1>7, <1>10, <2>2
  <2> QED
    BY <2>1, <2>2
<1> QED
  BY <1>2, <1>4, <1>8, <1>9, <1>11 DEF StreamInv, LossyInv

\* What a callback with a fragment leaves alone; it takes the fragment.
TookFragment(d, e) ==
    /\ e \in Socket /\ SameOrigin(d, e) /\ SameWrites(d, e) /\ SameTable(d, e) /\ e.life = d.life
    /\ e.pc \in {"service", "reading"} /\ e.conn = "up" /\ e.told = d.told /\ e.incoming = Tail(d.incoming)

\* A callback that took a fragment keeps what is not about incoming bytes.
LEMMA TookFragmentControl ==
    ASSUME NEW d \in Socket, NEW e, ControlInv(d), DataInv(d), d.conn = "up", d.pc \in {"service", "receiving"},
           TookFragment(d, e), e.undefined = d.undefined
    PROVE  ControlInv(e) /\ WriteInv(e) /\ IdentityInv(e) /\ ReceivingInv(e)
<1>1. CommonInv(e) /\ ClientInv(e)
  BY DEF TookFragment, ControlInv, CommonInv, ClientInv, NoneFreed, SameTable, SameOrigin
<1>2. ASSUME e.side = "server" PROVE TableInv(e) /\ Dialled(e)
  BY <1>2, SocketTyped DEF Typed, Lives, TookFragment, ControlInv, CommonInv, ServerInv, TableInv, TimelyInv, NoneStaggered, Dialled,
         SameTable, SameOrigin
<1>3. WriteInv(e) /\ IdentityInv(e) /\ ReceivingInv(e)
  BY DEF TookFragment, DataInv, WriteInv, IdentityInv, ReceivingInv, IdentityAccepted, Matches, SameOrigin, SameWrites
<1> QED
  BY <1>1, <1>2, <1>3 DEF ControlInv, ServerInv

\* The test of a receive callback keeps the invariant: the fragment is lost
\* with the connection, or it is the next and fits.
LEMMA OnReceiveGood ==
    ASSUME SocketInv, OnReceive
    PROVE  Good(w')
<1>0. w \in Socket /\ ControlInv(w) /\ DataInv(w)
  BY DEF SocketInv, Good
<1> DEFINE d == [w EXCEPT !.incoming = Tail(@)]
           f == Head(w.incoming)
<1>1. /\ w.pc = "service" /\ w.conn = "up" /\ w.incoming # <<>>
      /\ w' = IF w.side = "server" /\ ~w.user THEN LwsCloses(d) ELSE WebsocketOnReceive(w, f)
  BY DEF OnReceive
<1>2. LossyInv(w) /\ IsPrefix(w.got, w.accepted) /\ IdentityInv(w)
  BY <1>0 DEF DataInv, StreamInv, WriteInv
<1>3. Tail(w.incoming) \in Seq(Fragments) /\ <<>> \in Seq(Bytes)
  BY <1>0, <1>1, <1>2, FragmentTaken, EmptySeq
<1>4. TookFragment(w, d) /\ d.undefined = w.undefined /\ d.pc = "service"
  BY <1>0, <1>1, <1>3 DEF TookFragment, Socket, SameOrigin, SameWrites, SameTable
<1> HIDE DEF d
<1>5. ASSUME NEW e, TookFragment(w, e), e.undefined = w.undefined, e.pc = "service" PROVE Good(LwsCloses(e))
  <2>1. e \in Socket /\ LossyInv(e)
    BY <1>0, <1>1, <1>2, <1>5, FragmentLost DEF TookFragment, SameOrigin
  <2>2. ControlInv(e) /\ WriteInv(e) /\ IdentityInv(e)
    BY <1>0, <1>1, <1>5, TookFragmentControl
  <2>3. LwsCloses(e) \in Socket /\ DataInv(LwsCloses(e))
    BY <1>5, <2>1, <2>2, LwsClosesData DEF WriteInv
  <2>4. ControlInv(LwsCloses(e))
    BY <1>5, <2>1, <2>2, LwsClosesControl DEF ControlInv, ServerInv
  <2> QED
    BY <2>3, <2>4 DEF Good
<1>6. CASE (w.side = "server" /\ ~w.user) \/ w.wsi = "null"
  <2>1. w' = LwsCloses(d)
    BY <1>1, <1>6 DEF WebsocketOnReceive, d
  <2> QED
    BY <1>4, <1>5, <2>1
<1>7. CASE ~((w.side = "server" /\ ~w.user) \/ w.wsi = "null") /\ ~Fits(w, f.data)
  <2> DEFINE r == BufTmpRelease(d)
  <2>1. w' = LwsCloses(r)
    BY <1>1, <1>7 DEF WebsocketOnReceive, d
  <2>2. TookFragment(w, r) /\ r.undefined = w.undefined /\ r.pc = "service"
    BY <1>3, <1>4 DEF TookFragment, BufTmpRelease, Socket, SameOrigin, SameWrites, SameTable
  <2> HIDE DEF r
  <2> QED
    BY <1>5, <2>1, <2>2
<1>8. CASE ~((w.side = "server" /\ ~w.user) \/ w.wsi = "null") /\ Fits(w, f.data)
  <2> DEFINE e == [w EXCEPT !.pc = "receiving"]
  <2>1. w' = e
    BY <1>1, <1>8 DEF WebsocketOnReceive
  <2>2. /\ e \in Socket /\ SameData(w, e) /\ SameTable(w, e) /\ e.life = w.life /\ e.pc = "receiving" /\ e.conn = w.conn
        /\ e.undefined = w.undefined
    BY <1>0 DEF Socket, SameData, SameOrigin, SameStream, SameWrites, SameTable, Places
  <2> HIDE DEF e
  <2>3. CommonInv(e) /\ ClientInv(e)
    BY <1>0, <1>1, <2>2 DEF ControlInv, CommonInv, ClientInv, NoneFreed, SameTable, SameData, SameOrigin
  <2>4. ASSUME e.side = "server" PROVE TableInv(e) /\ Dialled(e)
    BY <1>0, <1>1, <2>2, <2>4, SocketTyped DEF Typed, Lives, ControlInv, CommonInv, ServerInv, TableInv, TimelyInv, NoneStaggered,
                                  Dialled, SameTable, SameData, SameOrigin
  <2>5. Handed(e) = Handed(w) /\ Taken(e) = Taken(w) /\ (InStep(e) <=> InStep(w))
    BY <1>1, <2>2 DEF SameData, SameOrigin, SameStream, SameTable, Handed, Taken, InStep
  <2>6. StreamInv(e)
    BY <1>0, <2>2, <2>5 DEF DataInv, StreamInv, LossyInv, ExactInv, SameData, SameOrigin, SameStream
  <2>7. WriteInv(e) /\ IdentityInv(e)
    BY <1>0, <2>2 DEF DataInv, WriteInv, IdentityInv, IdentityAccepted, Matches, SameData, SameOrigin, SameStream, SameWrites
  <2>8. ReceivingInv(e)
    BY <1>1, <1>8, <2>2 DEF ReceivingInv, Fits, SameData, SameStream
  <2> QED
    BY <2>1, <2>2, <2>3, <2>4, <2>6, <2>7, <2>8 DEF Good, ControlInv, ServerInv, DataInv
<1> QED
  BY <1>6, <1>7, <1>8

\* The rest of a receive callback keeps it: the fragment is joined to those
\* before, or lost of a stream whose pointer was cleared after the test.
LEMMA OnReceiveGoesOnGood ==
    ASSUME SocketInv, OnReceiveGoesOn
    PROVE  Good(w')
<1>0. w \in Socket /\ ControlInv(w) /\ DataInv(w)
  BY DEF SocketInv, Good
<1> DEFINE d == [w EXCEPT !.pc = "service", !.incoming = Tail(@)]
<1>1. /\ w.pc = "receiving"
      /\ w' = IF w.life = "deleted" THEN Uses(d, "receive", "freed object") ELSE WebsocketOnReceiveGoesOn(d, Head(w.incoming))
  BY DEF OnReceiveGoesOn
<1>2. /\ w.conn = "up" /\ w.incoming # <<>> /\ Fits(w, Head(w.incoming).data) /\ LossyInv(w) /\ ExactInv(w)
      /\ (w.life = "deleted" => w.side = "server" /\ w.wsi = "null")
  BY <1>0, <1>1 DEF ControlInv, CommonInv, ClientInv, DataInv, StreamInv, ReceivingInv, Socket
<1>3. Head(w.incoming) \in Fragments /\ Tail(w.incoming) \in Seq(Fragments)
  BY <1>0, <1>2, FragmentTaken
<1>4. PICK f \in Fragments : f = Head(w.incoming)
  BY <1>3
<1>5. f.data \in Seq(Bytes) /\ f.final \in BOOLEAN /\ w.buf \in Seq(Bytes)
  BY <1>0 DEF Fragments, Socket
<1>6. w.buf \o f.data \in Seq(Bytes) /\ <<>> \in Seq(Bytes)
  BY <1>5, ConcatProperties, EmptySeq
<1>7. TookFragment(w, d) /\ d.undefined = w.undefined /\ d.pc = "service" /\ d.buf = w.buf
  BY <1>0, <1>2, <1>3 DEF TookFragment, Socket, SameOrigin, SameWrites, SameTable, Places
<1> HIDE DEF d
<1>8. ControlInv(d) /\ WriteInv(d) /\ IdentityInv(d) /\ ReceivingInv(d) /\ d \in Socket /\ d.wsi = w.wsi
  BY <1>0, <1>1, <1>2, <1>7, TookFragmentControl DEF TookFragment, SameTable
<1>9. CASE w.life = "deleted" \/ w.wsi = "null"
  <2>1. PICK of \in {"null pointer", "freed object"} :
              w' = Uses(d, "receive", of) /\ (of = "freed object" => w.side = "server")
    BY <1>1, <1>2, <1>8, <1>9 DEF WebsocketOnReceiveGoesOn
  <2>2. LossyInv(d)
    BY <1>0, <1>1, <1>2, <1>7, <1>8, FragmentLost DEF TookFragment, SameOrigin
  <2>3. ~InStep(d)
    BY <1>2, <1>7, <1>8, <1>9 DEF TookFragment, InStep
  <2>4. Good(d)
    BY <1>8, <2>2, <2>3 DEF Good, DataInv, StreamInv, ExactInv
  <2> QED
    BY <1>7, <2>1, <2>4, UsesGood DEF TookFragment, SameOrigin
<1>10. CASE ~(w.life = "deleted" \/ w.wsi = "null")
  <2>1. InStep(w)
    BY <1>0, <1>2, <1>10 DEF InStep, Socket
  <2>2. CASE f.final
    <3> DEFINE e == BufTmpRelease([d EXCEPT !.pc = "reading", !.inHand = BufTmpAppend(d, f.data).buf])
    <3>1. w' = e
      BY <1>1, <1>4, <1>8, <1>10, <2>2 DEF WebsocketOnReceiveGoesOn
    <3>2. BufTmpAppend(d, f.data).buf = w.buf \o f.data
      BY <1>7, <1>8 DEF BufTmpAppend, Socket
    <3>3. TookFragment(w, e) /\ e.undefined = w.undefined /\ e.pc = "reading" /\ e.inHand = w.buf \o f.data /\ e.buf = <<>>
      <4>1. PICK x \in Seq(Bytes) : x = BufTmpAppend(d, f.data).buf
        BY <1>6, <3>2
      <4> DEFINE g == [d EXCEPT !.pc = "reading", !.inHand = x]
      <4>2. TookFragment(w, g) /\ g.undefined = w.undefined /\ g.pc = "reading" /\ g.inHand = x
        BY <1>7 DEF TookFragment, Socket, SameOrigin, SameWrites, SameTable, Places
      <4>3. e = BufTmpRelease(g)
        BY <4>1
      <4> HIDE DEF g, e
      <4>4. /\ TookFragment(w, BufTmpRelease(g)) /\ BufTmpRelease(g).undefined = w.undefined /\ BufTmpRelease(g).pc = "reading"
            /\ BufTmpRelease(g).inHand = x /\ BufTmpRelease(g).buf = <<>>
        BY <1>6, <4>2 DEF TookFragment, BufTmpRelease, Socket, SameOrigin, SameWrites, SameTable
      <4> QED
        BY <3>2, <4>1, <4>3, <4>4
    <3> HIDE DEF e
    <3>4. StreamInv(e)
      BY <1>0, <1>1, <1>2, <1>4, <2>1, <2>2, <3>3, FragmentJoined DEF TookFragment, SameOrigin
    <3>5. ControlInv(e) /\ WriteInv(e) /\ IdentityInv(e) /\ ReceivingInv(e) /\ e \in Socket
      BY <1>0, <1>1, <1>2, <3>3, TookFragmentControl DEF TookFragment
    <3> QED
      BY <3>1, <3>4, <3>5 DEF Good, DataInv
  <2>3. CASE ~f.final
    <3> DEFINE e == BufTmpAppend(d, f.data)
    <3>1. w' = e
      BY <1>1, <1>4, <1>8, <1>10, <2>3 DEF WebsocketOnReceiveGoesOn
    <3>2. TookFragment(w, e) /\ e.undefined = w.undefined /\ e.pc = "service" /\ e.buf = w.buf \o f.data
      BY <1>6, <1>7 DEF TookFragment, BufTmpAppend, Socket, SameOrigin, SameWrites, SameTable
    <3> HIDE DEF e
    <3>3. StreamInv(e)
      BY <1>0, <1>1, <1>2, <1>4, <2>1, <2>3, <3>2, FragmentJoined DEF TookFragment, SameOrigin
    <3>4. ControlInv(e) /\ WriteInv(e) /\ IdentityInv(e) /\ ReceivingInv(e) /\ e \in Socket
      BY <1>0, <1>1, <1>2, <3>2, TookFragmentControl DEF TookFragment
    <3> QED
      BY <3>1, <3>3, <3>4 DEF Good, DataInv
  <2> QED
    BY <2>2, <2>3
<1> QED
  BY <1>9, <1>10

\* A new websocket is good.
LEMMA WebsocketInitGood ==
    ASSUME WebsocketInit
    PROVE  Good(w)
<1>1. PICK side \in {"client", "server"}, x \in Identities, c \in Identities, s \in Scripts :
             w = NewWebsocket(side, x, c, s)
  BY DEF WebsocketInit
<1>2. s \in Seq(Fragments)
  BY WebsocketAssumption DEF Fragments
<1>3. /\ <<>> \in Seq(Bytes) /\ <<>> \in Seq(Seq(Bytes)) /\ <<>> \in Seq(Messages)
  BY EmptySeq
<1>4. w \in Socket
  BY <1>1, <1>2, <1>3 DEF NewWebsocket, Socket, Lives, Places, Fingerprints
<1>5. /\ w.side = side /\ w.life = "none" /\ w.wsi = "null" /\ ~w.closed /\ w.queue = <<>> /\ w.buf = <<>> /\ w.pc = "none"
      /\ w.conn = "none" /\ ~w.user /\ ~w.entry /\ ~w.early /\ w.closer = "idle" /\ w.script = s /\ w.incoming = s /\ w.told = <<>>
      /\ w.accepted = <<>> /\ w.got = <<>> /\ w.undefined = {}
  BY <1>1 DEF NewWebsocket
<1>6. ControlInv(w)
  BY <1>5 DEF ControlInv, CommonInv, ClientInv, NoneFreed, ServerInv, TableInv, TimelyInv, NoneStaggered, Dialled
<1>7. Len(s) \in Nat /\ Taken(w) = 0 /\ Handed(w) = <<>>
  BY <1>2, <1>5, LenProperties DEF Taken, Handed
<1>8. Assembled(s)[0] = [done |-> <<>>, part |-> <<>>]
  BY <1>2, AssembledLoop
<1>9. IsPrefix(<<>>, <<>>)
  BY <1>3, PrefixSelf
<1>10. LossyInv(w)
  <2>1. Taken(w) \in 0 .. Len(w.script) /\ \A k \in 1 .. Len(w.incoming) : w.incoming[k] = w.script[Taken(w) + k]
    BY <1>5, <1>7
  <2>2. IsPrefix(Handed(w), Assembled(w.script)[Taken(w)].done)
    BY <1>5, <1>7, <1>8, <1>9
  <2>3. \A i \in DOMAIN Handed(w) : Len(Handed(w)[i]) <= MaxInput
    BY <1>7
  <2> QED
    BY <2>1, <2>2, <2>3 DEF LossyInv
<1>11. ExactInv(w)
  BY <1>5, <1>7, <1>8 DEF ExactInv
<1>12. WriteInv(w)
  <2>1. <<>> = <<>> \o <<>>
    OBVIOUS
  <2> QED
    BY <1>5, <1>9, <2>1 DEF WriteInv
<1>13. IdentityInv(w)
  BY <1>5 DEF IdentityInv
<1> QED
  BY <1>4, <1>5, <1>6, <1>10, <1>11, <1>12, <1>13 DEF Good, DataInv, StreamInv, ReceivingInv

\* Every step keeps the invariant.
LEMMA WebsocketNextGood ==
    ASSUME SocketInv, WebsocketNext
    PROVE  Good(w')
<1>1. ASSUME Serving PROVE Good(w')
  <2>1. ASSUME NEW fails \in BOOLEAN, OnWritable(fails) \/ WebsocketClientLoopDials(fails) PROVE Good(w')
    BY <2>1, OnWritableGood, WebsocketClientLoopDialsGood
  <2> QED
    BY <1>1, <2>1, WebsocketClientOnClientEstablishedGood, WebsocketClientOnClientConnectionErrorGood,
       WebsocketClientLoopEndsGood, HttpServerOnClientConnectGood, HttpServerConnectionLoopEndsGood,
       StaggerSchedulesGood, OnReceiveGood, OnReceiveGoesOnGood, OnReceiveTellsGood DEF Serving
<1>2. ASSUME NEW uri, WebsocketClientOpen(uri) \/ WebsocketClientOpenFails(uri) PROVE Good(w')
  BY <1>2, WebsocketClientOpenGood, WebsocketClientOpenFailsGood
<1>3. ASSUME NEW msg \in Messages, WebsocketWrite(msg) PROVE Good(w')
  BY <1>3, WebsocketWriteGood
<1> QED
  BY <1>1, <1>2, <1>3, StaggerGood, ClosingGood, HttpServerTryStartGood, HttpServerStopGood, CloseGood,
     CloseUnbindsGood, CloseClearsGood, WebsocketDestructGood DEF WebsocketNext

\* The invariant says that callbacks are safe.
LEMMA SocketSafe ==
    SocketInv => CallbacksSafe
<1> SUFFICES ASSUME SocketInv PROVE CallbacksSafe
  OBVIOUS
<1>1. w \in Socket /\ ClientInv(w) /\ ServerInv(w)
  BY DEF SocketInv, Good, ControlInv
<1> QED
  BY <1>1, SocketTyped DEF ClientInv, NoneFreed, ServerInv, TableInv, TimelyInv, NoneStaggered, CallbacksSafe, Typed

\* The invariant says that the streams are intact.
LEMMA SocketIntact ==
    SocketInv => StreamIntact
<1> SUFFICES ASSUME SocketInv PROVE StreamIntact
  OBVIOUS
<1>1. w \in Socket /\ LossyInv(w) /\ WriteInv(w) /\ IdentityInv(w) /\ Typed(w)
  BY SocketTyped DEF SocketInv, Good, DataInv, StreamInv
<1>2. /\ w.told \in Seq(Seq(Bytes)) /\ w.inHand \in Seq(Bytes) /\ w.script \in Seq(Fragments)
      /\ Taken(w) \in 0 .. Len(w.script)
  BY <1>1 DEF Socket, LossyInv
<1>3. PICK s \in Seq(Seq(Bytes)), x \in Seq(Bytes), p \in Seq(Fragments) : s = w.told /\ x = w.inHand /\ p = w.script
  BY <1>2
<1>4. PICK n \in 0 .. Len(p) : n = Taken(w)
  BY <1>2, <1>3
<1>5. Handed(w) = (IF w.pc = "reading" THEN Append(s, x) ELSE s)
  BY <1>3 DEF Handed
<1>6. Assembled(p)[n] \in Assembly /\ Len(p) \in 0 .. Len(p) /\ Assembled(p)[Len(p)] \in Assembly
  <2>1. Len(p) \in 0 .. Len(p)
    BY LenProperties
  <2>2. \A i \in 0 .. Len(p) : Assembled(p)[i] \in Assembly
    BY AssembledLoop
  <2> QED
    BY <2>1, <2>2
<1>7. PICK z \in Seq(Seq(Bytes)), a \in Seq(Seq(Bytes)) : z = Assembled(p)[n].done /\ a = Assembled(p)[Len(p)].done
  BY <1>6 DEF Assembly
<1>8. IsPrefix(z, a)
  BY <1>7, AssembledGrows
<1>9. /\ Append(s, x) \in Seq(Seq(Bytes)) /\ Len(Append(s, x)) = Len(s) + 1 /\ Len(s) \in Nat
      /\ \A i \in 1 .. Len(s) : Append(s, x)[i] = s[i]
  BY AppendProperties, LenProperties
<1>10. PICK y \in Seq(Seq(Bytes)) : y = Handed(w)
  BY <1>5, <1>9
<1>11. IsPrefix(s, y)
  <2>1. IsPrefix(s, s) /\ IsPrefix(s, Append(s, x))
    BY PrefixSelf, PrefixLonger
  <2> QED
    BY <1>5, <1>10, <2>1
<1>12. IsPrefix(y, z)
  BY <1>1, <1>3, <1>4, <1>7, <1>10 DEF LossyInv
<1>13. IsPrefix(s, z)
  BY <1>11, <1>12, PrefixOf
<1>14. IsPrefix(w.told, MessagesOf(w.script))
  <2>1. IsPrefix(s, a)
    BY <1>8, <1>13, PrefixOf
  <2> QED
    BY <1>3, <1>7, <2>1 DEF MessagesOf
<1>15. \A i \in DOMAIN w.told : Len(w.told[i]) <= MaxInput
  <2>1. \A i \in DOMAIN y : Len(y[i]) <= MaxInput
    BY <1>1, <1>10 DEF LossyInv
  <2>2. Len(s) <= Len(y) /\ \A i \in 1 .. Len(s) : s[i] = y[i]
    BY <1>11, PrefixIndices
  <2>3. DOMAIN s = 1 .. Len(s) /\ DOMAIN y = 1 .. Len(y) /\ Len(y) \in Nat
    BY LenProperties
  <2>4. \A i \in 1 .. Len(s) : i \in 1 .. Len(y)
    BY <1>9, <2>2, <2>3
  <2> QED
    BY <1>3, <2>1, <2>2, <2>3, <2>4
<1>16. IsPrefix(w.got, w.accepted)
  BY <1>1 DEF WriteInv
<1>17. ASSUME w.side = "client", w.told # <<>> \/ w.got # <<>>
       PROVE  /\ w.expected.ski # NoId \/ w.expected.fingerprint # NoId
              /\ w.expected.ski \in {NoId, w.cert.ski}
              /\ w.expected.fingerprint \in {NoId, w.cert.fingerprint}
  BY <1>1, <1>17 DEF IdentityInv, IdentityAccepted, Matches
<1> QED
  BY <1>14, <1>15, <1>16, <1>17 DEF StreamIntact

\* The invariant of the websocket holds in every state, for every size of the
\* queue and of a message, every set of certificates and all that peers may
\* send.
THEOREM WebsocketIsGood ==
    WebsocketSpec => []SocketInv
<1>1. WebsocketInit => SocketInv
  BY WebsocketInitGood DEF SocketInv
<1>2. SocketInv /\ [WebsocketNext]_w => SocketInv'
  <2>1. ASSUME SocketInv, WebsocketNext PROVE SocketInv'
    BY <2>1, WebsocketNextGood DEF SocketInv
  <2>2. ASSUME SocketInv, w' = w PROVE SocketInv'
    BY <2>2 DEF SocketInv
  <2> QED
    BY <2>1, <2>2
<1> QED
  BY <1>1, <1>2, PTL DEF WebsocketSpec

\* No callback of a client is made on a deleted object (WebsocketClientDestruct
\* joins its thread), the stagger callback of a server uses no pointer that was
\* cleared since its test and no connection that is gone (HttpServerUnbindWsi
\* takes the mutex that it holds), and what the server's table keeps of closed
\* websockets was closed in the middle of HttpServerOnClientConnect.  Receive
\* callbacks and the unbinding hold no such mutex and are not claimed safe.
THEOREM WebsocketCallbacksSafe ==
    WebsocketSpec => []CallbacksSafe
  BY WebsocketIsGood, SocketSafe, PTL

\* The owner hears the peer's messages whole, in their order and none longer
\* than kMaxInputMsgSize, the peer gets what WebsocketWrite accepted in its
\* order, and a client talks only to a peer with the certificate that was
\* demanded.
THEOREM WebsocketStreamIntact ==
    WebsocketSpec => []StreamIntact
  BY WebsocketIsGood, SocketIntact, PTL

-----------------------------------------------------------------------------
(* Timers, threads and the FreeRTOS queue.                                 *)

\* A timer of the system: when it is due, and its period if it reloads.
Alarms == [due : Nat, period : Nat]

\* The type of a timer.
Timer ==
    [build : {"pthread", "freertos", "apple", "windows"}, now : Nat, state : {"Idle", "Running", "Expired"},
     armed : SUBSET Alarms, thread : BOOLEAN, cancel : BOOLEAN, cancelled : BOOLEAN, startTime : Nat, timeout : Nat,
     autoreload : BOOLEAN, inCallback : BOOLEAN, caller : {"idle", "stopping"}, starts : Nat, oneShots : Nat,
     reloads : BOOLEAN, calls : Nat, quiet : BOOLEAN, late : BOOLEAN]

\* Callbacks that were made and those that are still to come are no more than
\* the Starts, as long as no timer was started to reload.
CallsCounted(d) ==
    ~d.reloads => /\ \A a \in d.armed : a.period = 0
                  /\ d.calls + Cardinality(d.armed) <= d.oneShots

\* But for FreeRTOS at most one timer is armed; it is due a timeout after the
\* Start, which is what GetRemainingTime computes from.
OneAlarm(d) ==
    d.build # "freertos" =>
       /\ \A a, b \in d.armed : a = b
       /\ \A a \in d.armed : a.period = 0 =>
             /\ a.due = d.startTime + d.timeout
             /\ d.build \in {"apple", "windows"} => d.state = "Running"
             /\ d.build = "windows" => d.thread

\* The pthread build: a timer is armed only while there is a thread, none
\* between Stop and Start, and no callback runs after a Stop.
PthreadQuiet(d) ==
    d.build = "pthread" => /\ d.armed # {} => d.thread
                           /\ d.quiet => d.armed = {}
                           /\ ~d.late
                           /\ d.caller = "idle" /\ d.cancel => ~d.inCallback

\* The inductive invariant of a timer.
TimerGood(d) ==
    /\ d \in Timer /\ IsFiniteSet(d.armed) /\ d.startTime <= d.now
    /\ CallsCounted(d) /\ OneAlarm(d) /\ PthreadQuiet(d)

\* The type of a thread.
Thread ==
    [build : {"pthread", "freertos"}, routine : {"running", "returned", "took", "given", "gone"}, task : BOOLEAN,
     join_task : BOOLEAN, local : BOOLEAN, mutex : {"free", "task"}, notified : BOOLEAN,
     joiner : {"busy", "waits", "joined"}, object : BOOLEAN, touched : BOOLEAN]

\* The inductive invariant of a thread: who has joined it, or found its task
\* gone, knows that it is past the last use of its object.
ThreadGood(d) ==
    /\ d \in Thread /\ ~d.touched
    /\ ~d.object => d.joiner = "joined"
    /\ d.joiner = "joined" \/ ~d.task => d.routine \in {"given", "gone"}
    /\ d.notified => d.routine = "gone"

\* The type of a FreeRTOS queue.
Channel ==
    [content : Seq(Nat), sent : Nat, received : Seq(Nat), released : Seq(Nat),
     clearing : {"no", "test", "receive", "done"}, buffer : Nat]

\* What came out of the queue: first received, then released by Clear.
Told(d) == d.received \o d.released

\* The inductive invariant of the FreeRTOS queue: what came out of it and what
\* it holds are all the messages, in order; Clear receives only from a queue
\* that is not empty, because nobody else receives then.
QueueGood(d) ==
    /\ d \in Channel
    /\ Len(Told(d) \o d.content) = d.sent
    /\ \A i \in 1 .. d.sent : (Told(d) \o d.content)[i] = i
    /\ d.clearing = "no" => d.released = <<>>
    /\ d.clearing = "receive" => d.content # <<>>

\* The inductive invariant of the three.
PlatformInv == TimerGood(t) /\ ThreadGood(h) /\ QueueGood(q)

\* What Start of a timer keeps, before its bookkeeping: at most one alarm is
\* added, and none of the reloading kind unless asked for.
StartKeeps(d, e, auto) ==
    /\ e \in Timer /\ IsFiniteSet(e.armed) /\ e.startTime <= e.now /\ OneAlarm(e)
    /\ e.build = d.build /\ e.caller = d.caller /\ e.late = d.late /\ e.calls = d.calls /\ e.oneShots = d.oneShots
    /\ e.reloads = d.reloads /\ e.quiet = d.quiet /\ e.inCallback = d.inCallback /\ e.starts = d.starts
    /\ Cardinality(e.armed) <= Cardinality(d.armed) + 1
    /\ ~auto /\ (\A a \in d.armed : a.period = 0) => \A a \in e.armed : a.period = 0
    /\ e.build = "pthread" => (e.armed # {} => e.thread) /\ (e.cancel => d.cancel)

\* A Start that does nothing keeps it.
LEMMA StartedNot ==
    ASSUME NEW d, TimerGood(d), NEW auto
    PROVE  StartKeeps(d, d, auto)
<1>1. Cardinality(d.armed) \in Nat
  BY FS_CardinalityType DEF TimerGood
<1> QED
  BY <1>1 DEF TimerGood, StartKeeps, PthreadQuiet

\* The alarm that a Start arms, and how many there are with it.
LEMMA NewAlarm ==
    ASSUME NEW d, TimerGood(d), NEW ms \in Nat \ {0}, NEW auto \in BOOLEAN, NEW x,
           x = [due |-> d.now + ms, period |-> IF auto THEN ms ELSE 0]
    PROVE  /\ x \in Alarms /\ x.due = d.now + ms /\ (~auto => x.period = 0) /\ (auto => x.period # 0)
           /\ IsFiniteSet({x}) /\ Cardinality({x}) <= Cardinality(d.armed) + 1
           /\ IsFiniteSet(d.armed \cup {x}) /\ Cardinality(d.armed \cup {x}) <= Cardinality(d.armed) + 1
<1>1. d.now \in Nat /\ IsFiniteSet(d.armed) /\ Cardinality(d.armed) \in Nat
  BY FS_CardinalityType DEF TimerGood, Timer
<1>2. x \in Alarms /\ x.due = d.now + ms /\ (~auto => x.period = 0) /\ (auto => x.period # 0)
  BY <1>1 DEF Alarms
<1>3. IsFiniteSet({x}) /\ Cardinality({x}) = 1
  BY FS_Singleton
<1>4. /\ IsFiniteSet(d.armed \cup {x})
      /\ Cardinality(d.armed \cup {x}) = Cardinality(d.armed) \/ Cardinality(d.armed \cup {x}) = Cardinality(d.armed) + 1
  BY <1>1, FS_AddElement
<1> QED
  BY <1>1, <1>2, <1>3, <1>4

\* Start in the pthread build: a thread that is there is left alone, and
\* without one no timer is armed.
LEMMA StartedPthread ==
    ASSUME NEW d, TimerGood(d), d.build = "pthread", NEW ms \in Nat, NEW auto \in BOOLEAN
    PROVE  StartKeeps(d, TimerStartPthread(d, ms, auto), auto)
<1>0. d \in Timer /\ d.now \in Nat
  BY DEF TimerGood, Timer
<1>1. CASE d.thread
  BY <1>1, StartedNot DEF TimerStartPthread
<1>2. CASE ~d.thread
  <2> DEFINE r == [d EXCEPT !.cancel = FALSE, !.timeout = ms, !.state = "Idle", !.autoreload = auto]
  <2>1. d.armed = {}
    BY <1>2 DEF TimerGood, PthreadQuiet
  <2>2. /\ r \in Timer /\ r.build = d.build /\ r.caller = d.caller /\ r.late = d.late /\ r.calls = d.calls
        /\ r.oneShots = d.oneShots /\ r.reloads = d.reloads /\ r.quiet = d.quiet /\ r.inCallback = d.inCallback
        /\ r.starts = d.starts /\ r.armed = {} /\ ~r.cancel /\ r.timeout = ms /\ r.now = d.now
        /\ r.startTime = d.startTime
    BY <1>0, <2>1 DEF Timer
  <2>3. Cardinality({}) = 0 /\ IsFiniteSet({})
    BY FS_EmptySet
  <2>4. CASE ms = 0
    <3>1. TimerStartPthread(d, ms, auto) = r
      BY <1>2, <2>4 DEF TimerStartPthread
    <3> HIDE DEF r
    <3> QED
      BY <2>1, <2>2, <2>3, <3>1 DEF StartKeeps, OneAlarm, TimerGood
  <2>5. CASE ms # 0
    <3>1. PICK x : x = [due |-> d.now + ms, period |-> IF auto THEN ms ELSE 0]
      OBVIOUS
    <3>2. /\ x \in Alarms /\ x.due = d.now + ms /\ (~auto => x.period = 0)
          /\ IsFiniteSet({x}) /\ Cardinality({x}) <= Cardinality(d.armed) + 1
      BY <2>5, <3>1, NewAlarm
    <3> DEFINE e == [r EXCEPT !.startTime = d.now, !.thread = TRUE, !.state = "Running", !.armed = {x}]
    <3>3. TimerStartPthread(d, ms, auto) = e
      BY <1>2, <2>2, <2>5, <3>1 DEF TimerStartPthread, UpdateWaitCondTimeout
    <3> HIDE DEF r
    <3>4. /\ e \in Timer /\ e.build = d.build /\ e.caller = d.caller /\ e.late = d.late /\ e.calls = d.calls
          /\ e.oneShots = d.oneShots /\ e.reloads = d.reloads /\ e.quiet = d.quiet /\ e.inCallback = d.inCallback
          /\ e.starts = d.starts /\ e.armed = {x} /\ ~e.cancel /\ e.timeout = ms /\ e.now = d.now
          /\ e.startTime = d.now /\ e.thread /\ e.state = "Running"
      BY <1>0, <2>2, <3>2 DEF Timer
    <3> HIDE DEF e
    <3>5. OneAlarm(e)
      BY <3>2, <3>4 DEF OneAlarm
    <3> QED
      BY <1>0, <3>2, <3>3, <3>4, <3>5 DEF StartKeeps
  <2> QED
    BY <2>4, <2>5
<1> QED
  BY <1>1, <1>2

\* Start in the FreeRTOS build, which adds a timer.
LEMMA StartedFreeRtos ==
    ASSUME NEW d, TimerGood(d), d.build = "freertos", NEW ms \in Nat, NEW auto \in BOOLEAN
    PROVE  StartKeeps(d, TimerStartFreeRtos(d, ms, auto), auto)
<1>0. d \in Timer /\ d.now \in Nat
  BY DEF TimerGood, Timer
<1>1. CASE ms = 0
  BY <1>1, StartedNot DEF TimerStartFreeRtos
<1>2. CASE ms # 0
  <2>1. PICK x : x = [due |-> d.now + ms, period |-> IF auto THEN ms ELSE 0]
    OBVIOUS
  <2>2. /\ x \in Alarms /\ (~auto => x.period = 0)
        /\ IsFiniteSet(d.armed \cup {x}) /\ Cardinality(d.armed \cup {x}) <= Cardinality(d.armed) + 1
    BY <1>2, <2>1, NewAlarm
  <2> DEFINE e == [d EXCEPT !.startTime = d.now, !.timeout = ms, !.state = "Running", !.thread = TRUE,
                            !.armed = @ \cup {x}]
  <2>3. TimerStartFreeRtos(d, ms, auto) = e
    BY <1>2, <2>1 DEF TimerStartFreeRtos
  <2>4. /\ e \in Timer /\ e.build = d.build /\ e.caller = d.caller /\ e.late = d.late /\ e.calls = d.calls
        /\ e.oneShots = d.oneShots /\ e.reloads = d.reloads /\ e.quiet = d.quiet /\ e.inCallback = d.inCallback
        /\ e.starts = d.starts /\ e.armed = d.armed \cup {x} /\ e.now = d.now /\ e.startTime = d.now
    BY <1>0, <2>2 DEF Timer
  <2> HIDE DEF e
  <2> QED
    BY <1>0, <2>2, <2>3, <2>4 DEF StartKeeps, OneAlarm
<1> QED
  BY <1>1, <1>2

\* Start in Apple's build, which arms nothing once cancelled.
LEMMA StartedApple ==
    ASSUME NEW d, TimerGood(d), d.build = "apple", NEW ms \in Nat, NEW auto \in BOOLEAN
    PROVE  StartKeeps(d, TimerStartApple(d, ms, auto), auto)
<1>0. d \in Timer /\ d.now \in Nat /\ Cardinality(d.armed) \in Nat
  BY FS_CardinalityType DEF TimerGood, Timer
<1>1. CASE ms = 0
  BY <1>1, StartedNot DEF TimerStartApple
<1>2. CASE ms # 0
  <2>1. PICK x : x = [due |-> d.now + ms, period |-> IF auto THEN ms ELSE 0]
    OBVIOUS
  <2>2. /\ x \in Alarms /\ x.due = d.now + ms /\ (~auto => x.period = 0)
        /\ IsFiniteSet({x}) /\ Cardinality({x}) <= Cardinality(d.armed) + 1
    BY <1>2, <2>1, NewAlarm
  <2>3. Cardinality({}) = 0 /\ IsFiniteSet({})
    BY FS_EmptySet
  <2>4. PICK A : A = IF d.cancelled THEN {} ELSE {x}
    OBVIOUS
  <2>5. A \subseteq {x} /\ IsFiniteSet(A) /\ Cardinality(A) <= Cardinality(d.armed) + 1
    BY <1>0, <2>2, <2>3, <2>4
  <2> DEFINE e == [d EXCEPT !.startTime = d.now, !.timeout = ms, !.state = "Running", !.armed = A]
  <2>6. TimerStartApple(d, ms, auto) = e
    BY <1>2, <2>1, <2>4 DEF TimerStartApple
  <2>7. /\ e \in Timer /\ e.build = d.build /\ e.caller = d.caller /\ e.late = d.late /\ e.calls = d.calls
        /\ e.oneShots = d.oneShots /\ e.reloads = d.reloads /\ e.quiet = d.quiet /\ e.inCallback = d.inCallback
        /\ e.starts = d.starts /\ e.armed = A /\ e.now = d.now /\ e.startTime = d.now /\ e.state = "Running"
        /\ e.timeout = ms
    BY <1>0, <2>2, <2>5 DEF Timer
  <2> HIDE DEF e
  <2>8. OneAlarm(e)
    BY <2>2, <2>5, <2>7 DEF OneAlarm
  <2> QED
    BY <1>0, <2>2, <2>5, <2>6, <2>7, <2>8 DEF StartKeeps
<1> QED
  BY <1>1, <1>2

\* Start in Windows' build, which deletes the timer before.
LEMMA StartedWindows ==
    ASSUME NEW d, TimerGood(d), d.build = "windows", NEW ms \in Nat, NEW auto \in BOOLEAN
    PROVE  StartKeeps(d, TimerStartWindows(d, ms, auto), auto)
<1>0. d \in Timer /\ d.now \in Nat
  BY DEF TimerGood, Timer
<1>1. CASE ms = 0
  BY <1>1, StartedNot DEF TimerStartWindows
<1>2. CASE ms # 0
  <2>1. PICK x : x = [due |-> d.now + ms, period |-> IF auto THEN ms ELSE 0]
    OBVIOUS
  <2>2. /\ x \in Alarms /\ x.due = d.now + ms /\ (~auto => x.period = 0)
        /\ IsFiniteSet({x}) /\ Cardinality({x}) <= Cardinality(d.armed) + 1
    BY <1>2, <2>1, NewAlarm
  <2> DEFINE e == [d EXCEPT !.startTime = d.now, !.timeout = ms, !.autoreload = auto, !.state = "Running",
                            !.thread = TRUE, !.armed = {x}]
  <2>3. TimerStartWindows(d, ms, auto) = e
    BY <1>2, <2>1 DEF TimerStartWindows
  <2>4. /\ e \in Timer /\ e.build = d.build /\ e.caller = d.caller /\ e.late = d.late /\ e.calls = d.calls
        /\ e.oneShots = d.oneShots /\ e.reloads = d.reloads /\ e.quiet = d.quiet /\ e.inCallback = d.inCallback
        /\ e.starts = d.starts /\ e.armed = {x} /\ e.now = d.now /\ e.startTime = d.now /\ e.state = "Running"
        /\ e.timeout = ms /\ e.thread
    BY <1>0, <2>2 DEF Timer
  <2> HIDE DEF e
  <2>5. OneAlarm(e)
    BY <2>2, <2>4 DEF OneAlarm
  <2> QED
    BY <1>0, <2>2, <2>3, <2>4, <2>5 DEF StartKeeps
<1> QED
  BY <1>1, <1>2

\* Start keeps the invariant of a timer in every build.
LEMMA TimerStartGood ==
    ASSUME TimerGood(t), NEW ms \in Nat, NEW auto \in BOOLEAN, TimerStart(ms, auto)
    PROVE  TimerGood(t')
<1> DEFINE d == TimerStarted(t, ms, auto)
           now == t.quiet /\ d.armed = t.armed
           shots == IF auto THEN t.oneShots ELSE t.oneShots + 1
           again == t.reloads \/ auto
           count == d.starts + 1
           e == [d EXCEPT !.starts = count, !.quiet = now, !.oneShots = shots, !.reloads = again]
<1>1. StartKeeps(t, d, auto)
  <2>1. t.build \in {"pthread", "freertos", "apple", "windows"}
    BY DEF TimerGood, Timer
  <2>2. CASE t.build = "pthread"
    BY <2>2, StartedPthread DEF TimerStarted
  <2>3. CASE t.build = "freertos"
    BY <2>3, StartedFreeRtos DEF TimerStarted
  <2>4. CASE t.build = "apple"
    BY <2>4, StartedApple DEF TimerStarted
  <2>5. CASE t.build = "windows"
    BY <2>5, StartedWindows DEF TimerStarted
  <2> QED
    BY <2>1, <2>2, <2>3, <2>4, <2>5
<1>2. t' = e
  <2>1. /\ t' = [d EXCEPT !.starts = @ + 1, !.quiet = @ /\ d.armed = t.armed,
                          !.oneShots = IF auto THEN @ ELSE @ + 1, !.reloads = @ \/ auto]
        /\ d \in Timer /\ d.quiet = t.quiet /\ d.oneShots = t.oneShots /\ d.reloads = t.reloads
    BY <1>1 DEF TimerStart, StartKeeps
  <2> HIDE DEF d
  <2> QED
    BY <2>1 DEF Timer
<1>3. d \in Timer /\ count \in Nat
  BY <1>1 DEF StartKeeps, Timer
<1> HIDE DEF d, count
<1>4. now \in BOOLEAN /\ shots \in Nat /\ again \in BOOLEAN /\ (auto => shots = t.oneShots) /\ (~auto => shots = t.oneShots + 1)
  BY DEF TimerGood, Timer
<1> HIDE DEF now, shots, again
<1>5. /\ e \in Timer
      /\ e.build = d.build /\ e.now = d.now /\ e.state = d.state /\ e.armed = d.armed /\ e.thread = d.thread
      /\ e.cancel = d.cancel /\ e.startTime = d.startTime /\ e.timeout = d.timeout /\ e.inCallback = d.inCallback
      /\ e.caller = d.caller /\ e.calls = d.calls /\ e.late = d.late
      /\ e.quiet = now /\ e.oneShots = shots /\ e.reloads = again
  BY <1>3, <1>4 DEF Timer
<1> HIDE DEF e
<1>6. OneAlarm(e) /\ IsFiniteSet(e.armed) /\ e.startTime <= e.now
  BY <1>1, <1>5 DEF StartKeeps, OneAlarm
<1>7. CallsCounted(e)
  <2> SUFFICES ASSUME ~e.reloads
               PROVE  (\A a \in e.armed : a.period = 0) /\ e.calls + Cardinality(e.armed) <= e.oneShots
    BY DEF CallsCounted
  <2>1. ~auto /\ ~t.reloads
    BY <1>5 DEF again
  <2>2. (\A a \in t.armed : a.period = 0) /\ t.calls + Cardinality(t.armed) <= t.oneShots
    BY <2>1 DEF TimerGood, CallsCounted
  <2>3. /\ Cardinality(t.armed) \in Nat /\ Cardinality(d.armed) \in Nat /\ t.calls \in Nat /\ t.oneShots \in Nat
    BY <1>1, FS_CardinalityType DEF TimerGood, Timer, StartKeeps
  <2>4. d.calls = t.calls /\ Cardinality(d.armed) <= Cardinality(t.armed) + 1 /\ \A a \in d.armed : a.period = 0
    BY <1>1, <2>1, <2>2 DEF StartKeeps
  <2>5. e.calls = t.calls /\ e.armed = d.armed /\ e.oneShots = t.oneShots + 1
    BY <1>4, <1>5, <2>1, <2>4
  <2> QED
    BY <2>2, <2>3, <2>4, <2>5
<1>8. PthreadQuiet(e)
  BY <1>1, <1>5 DEF StartKeeps, PthreadQuiet, TimerGood, now
<1> QED
  BY <1>2, <1>5, <1>6, <1>7, <1>8 DEF TimerGood

\* So does the clock.
LEMMA TicksGood ==
    ASSUME TimerGood(t), Ticks
    PROVE  TimerGood(t')
<1> DEFINE e == [t EXCEPT !.now = @ + 1]
<1>1. t' = e /\ t \in Timer /\ t.now \in Nat /\ t.startTime \in Nat /\ t.startTime <= t.now
  BY DEF Ticks, TimerGood, Timer
<1>2. /\ e \in Timer /\ e.build = t.build /\ e.now = t.now + 1 /\ e.state = t.state /\ e.armed = t.armed
      /\ e.thread = t.thread /\ e.cancel = t.cancel /\ e.startTime = t.startTime /\ e.timeout = t.timeout
      /\ e.inCallback = t.inCallback /\ e.caller = t.caller /\ e.calls = t.calls /\ e.late = t.late
      /\ e.quiet = t.quiet /\ e.oneShots = t.oneShots /\ e.reloads = t.reloads
  BY <1>1 DEF Timer
<1> HIDE DEF e
<1>3. e.startTime <= e.now
  BY <1>1, <1>2
<1> QED
  BY <1>1, <1>2, <1>3 DEF TimerGood, CallsCounted, OneAlarm, PthreadQuiet

\* So does the beginning of Stop.
LEMMA TimerStopGood ==
    ASSUME TimerGood(t), TimerStop
    PROVE  TimerGood(t')
<1> DEFINE e == [t EXCEPT !.caller = "stopping"]
<1>1. t' = e /\ t \in Timer
  BY DEF TimerStop, TimerGood
<1>2. /\ e \in Timer /\ e.build = t.build /\ e.now = t.now /\ e.state = t.state /\ e.armed = t.armed
      /\ e.thread = t.thread /\ e.startTime = t.startTime /\ e.timeout = t.timeout
      /\ e.inCallback = t.inCallback /\ e.caller = "stopping" /\ e.calls = t.calls /\ e.late = t.late
      /\ e.quiet = t.quiet /\ e.oneShots = t.oneShots /\ e.reloads = t.reloads
  BY <1>1 DEF Timer
<1> HIDE DEF e
<1> QED
  BY <1>1, <1>2 DEF TimerGood, CallsCounted, OneAlarm, PthreadQuiet

\* Disarming keeps the count of callbacks.
LEMMA FewerAlarms ==
    ASSUME NEW d, NEW e \in Timer, TimerGood(d), e.armed \subseteq d.armed,
           e.calls = d.calls, e.oneShots = d.oneShots, e.reloads = d.reloads
    PROVE  IsFiniteSet(e.armed) /\ CallsCounted(e)
<1>1. IsFiniteSet(d.armed) /\ Cardinality(d.armed) \in Nat /\ d.calls \in Nat /\ d.oneShots \in Nat /\ CallsCounted(d)
  BY FS_CardinalityType DEF TimerGood, Timer
<1>2. IsFiniteSet(e.armed) /\ Cardinality(e.armed) <= Cardinality(d.armed) /\ Cardinality(e.armed) \in Nat
  BY <1>1, FS_Subset, FS_CardinalityType
<1>3. ASSUME ~e.reloads PROVE e.calls + Cardinality(e.armed) <= e.oneShots
  <2>1. d.calls + Cardinality(d.armed) <= d.oneShots
    BY <1>1, <1>3 DEF CallsCounted
  <2> QED
    BY <1>1, <1>2, <2>1
<1> QED
  BY <1>1, <1>2, <1>3 DEF CallsCounted

\* What Stop changes: it disarms the timer, FreeRTOS the one it has the handle
\* of.
LEMMA TimerStoppedFields ==
    ASSUME NEW d \in Timer
    PROVE  LET e == TimerStopped(d)
           IN  /\ e \in Timer /\ e.armed \subseteq d.armed /\ (d.build # "freertos" => e.armed = {})
               /\ e.build = d.build /\ e.now = d.now /\ e.startTime = d.startTime /\ e.inCallback = d.inCallback
               /\ e.calls = d.calls /\ e.late = d.late /\ e.oneShots = d.oneShots /\ e.reloads = d.reloads
<1>0. d.build \in {"pthread", "freertos", "apple", "windows"} /\ d.armed \subseteq Alarms
  BY DEF Timer
<1>1. CASE d.build = "pthread"
  <2>1. TimerStopped(d) = TimerStoppedPthread(d)
    BY <1>1 DEF TimerStopped
  <2> QED
    BY <1>1, <2>1 DEF TimerStoppedPthread, Timer
<1>2. CASE d.build = "freertos"
  <2>1. TimerStopped(d) = TimerStoppedFreeRtos(d)
    BY <1>2 DEF TimerStopped
  <2>2. PICK A : A = IF d.thread THEN {a \in d.armed : a.due # d.startTime + d.timeout} ELSE d.armed
    OBVIOUS
  <2>3. A \subseteq d.armed /\ A \subseteq Alarms
    BY <1>0, <2>2
  <2>4. TimerStopped(d) = [d EXCEPT !.armed = A, !.thread = FALSE]
    BY <2>1, <2>2 DEF TimerStoppedFreeRtos, Timer
  <2> QED
    BY <1>2, <2>3, <2>4, ZenonT(40) DEF Timer
<1>3. CASE d.build = "apple"
  <2>1. TimerStopped(d) = TimerStoppedApple(d)
    BY <1>3 DEF TimerStopped
  <2> QED
    BY <1>3, <2>1 DEF TimerStoppedApple, Timer
<1>4. CASE d.build = "windows"
  <2>1. TimerStopped(d) = TimerStoppedWindows(d)
    BY <1>4 DEF TimerStopped
  <2> QED
    BY <1>4, <2>1 DEF TimerStoppedWindows, Timer
<1> QED
  BY <1>0, <1>1, <1>2, <1>3, <1>4

\* The return of Stop keeps the invariant; in the pthread build the thread has
\* been joined, so no callback is running.
LEMMA TimerStopReturnsGood ==
    ASSUME TimerGood(t), TimerStopReturns
    PROVE  TimerGood(t')
<1> DEFINE d == TimerStopped(t)
           after == IF d.state = "Expired" THEN "Expired" ELSE "Idle"
           e == [d EXCEPT !.caller = "idle", !.quiet = TRUE, !.state = after]
<1>0. t \in Timer
  BY DEF TimerGood
<1>1. /\ d \in Timer /\ d.armed \subseteq t.armed /\ (t.build # "freertos" => d.armed = {})
      /\ d.build = t.build /\ d.now = t.now /\ d.startTime = t.startTime /\ d.inCallback = t.inCallback
      /\ d.calls = t.calls /\ d.late = t.late /\ d.oneShots = t.oneShots /\ d.reloads = t.reloads
  BY <1>0, TimerStoppedFields
<1>2. t' = [d EXCEPT !.caller = "idle", !.quiet = TRUE, !.state = IF @ = "Expired" THEN @ ELSE "Idle"]
  BY DEF TimerStopReturns
<1> HIDE DEF d
<1>3. t' = e /\ after \in {"Idle", "Expired"}
  BY <1>1, <1>2 DEF Timer
<1> HIDE DEF after
<1>4. /\ e \in Timer /\ e.build = t.build /\ e.now = t.now /\ e.armed = d.armed
      /\ e.startTime = t.startTime /\ e.inCallback = t.inCallback /\ e.calls = t.calls /\ e.late = t.late
      /\ e.oneShots = t.oneShots /\ e.reloads = t.reloads
  BY <1>1, <1>3 DEF Timer
<1> HIDE DEF e
<1>5. IsFiniteSet(e.armed) /\ CallsCounted(e)
  BY <1>1, <1>4, FewerAlarms
<1>6. OneAlarm(e)
  BY <1>1, <1>4 DEF OneAlarm
<1>7. PthreadQuiet(e)
  BY <1>1, <1>4 DEF PthreadQuiet, TimerGood, TimerStopReturns, TimerThreadEnded
<1> QED
  BY <1>3, <1>4, <1>5, <1>6, <1>7 DEF TimerGood

\* A callback keeps it: the alarm it is made for is used up, or reloads.
LEMMA TimerCallbackGood ==
    ASSUME TimerGood(t), NEW a, EebusTimerExpiredCallback(a)
    PROVE  TimerGood(t')
<1>0. /\ t \in Timer /\ a \in t.armed /\ a \in Alarms /\ t.now \in Nat /\ t.calls \in Nat /\ t.oneShots \in Nat
      /\ IsFiniteSet(t.armed) /\ Cardinality(t.armed) \in Nat
  BY FS_CardinalityType DEF TimerGood, Timer, EebusTimerExpiredCallback
<1>1. PICK A : A = (t.armed \ {a}) \cup (IF a.period = 0 THEN {} ELSE {[a EXCEPT !.due = t.now + a.period]})
  OBVIOUS
<1>2. PICK n : n = IF t.reloads THEN t.calls ELSE t.calls + 1
  OBVIOUS
<1>3. PICK s : s = IF t.build = "pthread" THEN t.state ELSE "Expired"
  OBVIOUS
<1>4. PICK l : l = (t.late \/ t.quiet)
  OBVIOUS
<1> DEFINE e == [t EXCEPT !.inCallback = TRUE, !.calls = n, !.late = l, !.armed = A, !.state = s]
<1>5. t' = e
  BY <1>0, <1>1, <1>2, <1>3, <1>4 DEF EebusTimerExpiredCallback, Timer
<1>6. /\ A \subseteq Alarms /\ \A b \in A : b \in t.armed \ {a} \/ (b.period # 0 /\ a.period # 0)
      /\ (a.period = 0 => A = t.armed \ {a})
  <2>1. [a EXCEPT !.due = t.now + a.period] \in Alarms /\ [a EXCEPT !.due = t.now + a.period].period = a.period
    BY <1>0 DEF Alarms
  <2> QED
    BY <1>0, <1>1, <2>1 DEF Timer
<1>7. IsFiniteSet(t.armed \ {a}) /\ Cardinality(t.armed \ {a}) = Cardinality(t.armed) - 1
  BY <1>0, FS_RemoveElement
<1>8. IsFiniteSet(A)
  <2>1. IsFiniteSet({}) /\ IsFiniteSet({[a EXCEPT !.due = t.now + a.period]})
    BY FS_EmptySet, FS_Singleton
  <2> QED
    BY <1>1, <1>7, <2>1, FS_Union
<1>9. n \in Nat /\ s \in {"Idle", "Running", "Expired"} /\ l \in BOOLEAN
  BY <1>0, <1>2, <1>3, <1>4 DEF Timer
<1>10. /\ e \in Timer /\ e.build = t.build /\ e.now = t.now /\ e.state = s /\ e.armed = A
       /\ e.thread = t.thread /\ e.cancel = t.cancel /\ e.startTime = t.startTime /\ e.timeout = t.timeout
       /\ e.caller = t.caller /\ e.calls = n /\ e.late = l
       /\ e.quiet = t.quiet /\ e.oneShots = t.oneShots /\ e.reloads = t.reloads
  BY <1>0, <1>6, <1>9 DEF Timer
<1> HIDE DEF e
<1>11. CallsCounted(e)
  <2> SUFFICES ASSUME ~t.reloads
               PROVE  (\A b \in A : b.period = 0) /\ n + Cardinality(A) <= t.oneShots
    BY <1>10 DEF CallsCounted
  <2>1. (\A b \in t.armed : b.period = 0) /\ t.calls + Cardinality(t.armed) <= t.oneShots
    BY DEF TimerGood, CallsCounted
  <2>2. A = t.armed \ {a} /\ n = t.calls + 1
    BY <1>0, <1>2, <1>6, <2>1
  <2> QED
    BY <1>0, <1>7, <2>1, <2>2
<1>12. OneAlarm(e)
  <2> SUFFICES ASSUME t.build # "freertos" PROVE (\A b, c \in A : b = c) /\ (\A b \in A : b.period # 0)
    BY <1>10 DEF OneAlarm
  <2>1. t.armed = {a}
    BY <1>0 DEF TimerGood, OneAlarm
  <2> QED
    BY <1>1, <1>6, <2>1
<1>13. PthreadQuiet(e)
  BY <1>0, <1>4, <1>10 DEF PthreadQuiet, TimerGood, EebusTimerExpiredCallback
<1> QED
  BY <1>5, <1>8, <1>10, <1>11, <1>12, <1>13 DEF TimerGood

\* So does the end of a callback.
LEMMA TimerCallbackEndsGood ==
    ASSUME TimerGood(t), TimerCallbackEnds
    PROVE  TimerGood(t')
<1>1. PICK s : s = IF t.build = "pthread" /\ ~t.autoreload /\ ~t.cancel THEN "Expired" ELSE t.state
  OBVIOUS
<1> DEFINE e == [t EXCEPT !.inCallback = FALSE, !.state = s]
<1>2. t' = e /\ t \in Timer /\ s \in {"Idle", "Running", "Expired"} /\ (t.build # "pthread" => s = t.state)
  BY <1>1 DEF TimerCallbackEnds, TimerGood, Timer
<1>3. /\ e \in Timer /\ e.build = t.build /\ e.now = t.now /\ e.state = s /\ e.armed = t.armed
      /\ e.thread = t.thread /\ e.startTime = t.startTime /\ e.timeout = t.timeout
      /\ ~e.inCallback /\ e.caller = t.caller /\ e.calls = t.calls /\ e.late = t.late
      /\ e.quiet = t.quiet /\ e.oneShots = t.oneShots /\ e.reloads = t.reloads
  BY <1>2 DEF Timer
<1> HIDE DEF e
<1> QED
  BY <1>2, <1>3 DEF TimerGood, CallsCounted, OneAlarm, PthreadQuiet

\* Every step keeps the invariant of a timer.
LEMMA TimerNextGood ==
    ASSUME TimerGood(t), TimerNext
    PROVE  TimerGood(t')
<1>1. ASSUME NEW ms \in 0 .. 2, NEW auto \in BOOLEAN, TimerStart(ms, auto) PROVE TimerGood(t')
  BY <1>1, TimerStartGood
<1>2. ASSUME NEW a \in t.armed, EebusTimerExpiredCallback(a) PROVE TimerGood(t')
  BY <1>2, TimerCallbackGood
<1> QED
  BY <1>1, <1>2, TicksGood, TimerStopGood, TimerStopReturnsGood, TimerCallbackEndsGood DEF TimerNext

\* A new timer has it.
LEMMA TimerInitGood ==
    ASSUME NEW build \in TimerBuilds
    PROVE  TimerGood(NewTimer(build))
<1> DEFINE d == NewTimer(build)
<1>1. /\ d \in Timer /\ d.armed = {} /\ d.startTime = 0 /\ d.now = 0 /\ d.calls = 0 /\ d.oneShots = 0 /\ ~d.late
      /\ ~d.inCallback
  BY PlatformAssumption DEF NewTimer, Timer
<1>2. IsFiniteSet({}) /\ Cardinality({}) = 0
  BY FS_EmptySet
<1> HIDE DEF d
<1>3. TimerGood(d)
  BY <1>1, <1>2 DEF TimerGood, CallsCounted, OneAlarm, PthreadQuiet
<1> QED
  BY <1>3 DEF d

\* The invariant says that callbacks are bounded and the remaining time is
\* right.
LEMMA TimerBounded ==
    TimerGood(t) => TimerCallsBounded
<1> SUFFICES ASSUME TimerGood(t) PROVE TimerCallsBounded
  OBVIOUS
<1>0. /\ t \in Timer /\ t.startTime <= t.now /\ Cardinality(t.armed) \in Nat /\ t.calls \in Nat /\ t.oneShots \in Nat
      /\ t.startTime \in Nat /\ t.now \in Nat /\ t.timeout \in Nat
      /\ CallsCounted(t) /\ OneAlarm(t) /\ PthreadQuiet(t)
  BY FS_CardinalityType DEF TimerGood, Timer
<1>1. ASSUME ~t.reloads PROVE t.calls <= t.oneShots
  BY <1>0, <1>1 DEF CallsCounted
<1>2. ASSUME t.build # "freertos", NEW a \in t.armed, a.period = 0
      PROVE  GetRemainingTime(t) = IF t.now < a.due THEN a.due - t.now ELSE 0
  <2>1. /\ a.due = t.startTime + t.timeout
        /\ ~(t.build = "apple" /\ t.state # "Running")
        /\ ~(t.build = "windows" /\ (t.state # "Running" \/ ~t.thread))
    BY <1>0, <1>2 DEF OneAlarm
  <2>2. GetRemainingTime(t) = IF t.now - t.startTime >= t.timeout THEN 0 ELSE t.timeout - (t.now - t.startTime)
    BY <2>1 DEF GetRemainingTime
  <2>3. t.now < a.due <=> ~(t.now - t.startTime >= t.timeout)
    BY <1>0, <2>1
  <2>4. a.due - t.now = t.timeout - (t.now - t.startTime)
    BY <1>0, <2>1
  <2> QED
    BY <2>2, <2>3, <2>4
<1> QED
  BY <1>0, <1>1, <1>2 DEF TimerCallsBounded, PthreadQuiet

\* Every step keeps the invariant of a thread.
LEMMA ThreadNextGood ==
    ASSUME ThreadGood(h), ThreadNext
    PROVE  ThreadGood(h')
<1>0. h \in Thread
  BY DEF ThreadGood
<1>1. CASE RoutineReturns
  BY <1>0, <1>1 DEF ThreadGood, Thread, RoutineReturns
<1>2. CASE TaskTakes
  BY <1>0, <1>2 DEF ThreadGood, Thread, TaskTakes, Touches
<1>3. CASE TaskGives
  BY <1>0, <1>3 DEF ThreadGood, Thread, TaskGives, Touches
<1>4. CASE TaskNotifies
  BY <1>0, <1>4 DEF ThreadGood, Thread, TaskNotifies
<1>5. CASE Join
  BY <1>0, <1>5, ZenonT(40) DEF ThreadGood, Thread, Join
<1>6. CASE JoinWakes
  BY <1>0, <1>6 DEF ThreadGood, Thread, JoinWakes
<1>7. CASE ThreadDestruct
  BY <1>0, <1>7 DEF ThreadGood, Thread, ThreadDestruct
<1> QED
  BY <1>1, <1>2, <1>3, <1>4, <1>5, <1>6, <1>7 DEF ThreadNext

\* A new thread has it.
LEMMA ThreadInitGood ==
    ASSUME NEW build \in ThreadBuilds
    PROVE  ThreadGood(NewThread(build))
  BY PlatformAssumption DEF NewThread, ThreadGood, Thread

\* Send keeps the invariant of the FreeRTOS queue.
LEMMA QueueSendGood ==
    ASSUME QueueGood(q), QueueSend
    PROVE  QueueGood(q')
<1>0. /\ q \in Channel /\ q.content \in Seq(Nat) /\ q.received \in Seq(Nat) /\ q.released \in Seq(Nat) /\ q.sent \in Nat
  BY DEF QueueGood, Channel
<1>1. Told(q) \in Seq(Nat) /\ Told(q) \o q.content \in Seq(Nat) /\ Append(q.content, q.sent + 1) \in Seq(Nat)
  BY <1>0, ConcatProperties, AppendProperties DEF Told
<1>2. PICK s \in Seq(Nat), c \in Seq(Nat), y \in Seq(Nat), n \in Nat :
            s = Told(q) /\ c = q.content /\ y = Told(q) \o q.content /\ n = q.sent
  BY <1>0, <1>1
<1>3. PICK m \in Nat : m = n + 1
  OBVIOUS
<1>4. y = s \o c
  BY <1>2
<1>5. Append(y, m) = s \o Append(c, m)
  BY <1>4, LastMoves, ZenonT(40)
<1>6. Len(y) = n /\ \A i \in 1 .. n : y[i] = i
  BY <1>2 DEF QueueGood
<1>7. Len(Append(y, m)) = m /\ \A i \in 1 .. m : Append(y, m)[i] = i
  <2>1. /\ Len(Append(y, m)) = m /\ Append(y, m)[m] = m
        /\ \A i \in 1 .. n : Append(y, m)[i] = y[i]
    BY <1>6, <1>3, AppendProperties
  <2>2. \A i \in 1 .. m : i \in 1 .. n \/ i = m
    BY <1>3
  <2> QED
    BY <1>6, <2>1, <2>2
<1>8. PICK v \in Seq(Nat) : v = Append(c, m)
  BY AppendProperties
<1> DEFINE e == [q EXCEPT !.content = v, !.sent = m]
<1>9. q' = e
  BY <1>0, <1>2, <1>3, <1>8 DEF QueueSend, Channel
<1>10. /\ e \in Channel /\ e.content = Append(c, m) /\ e.sent = m /\ e.received = q.received
      /\ e.released = q.released /\ e.clearing = q.clearing
  BY <1>0, <1>8 DEF Channel
<1> HIDE DEF e
<1>11. Told(e) \o e.content = Append(y, m)
  BY <1>2, <1>5, <1>10 DEF Told
<1>12. Append(c, m) # <<>>
  <2>1. Len(Append(c, m)) = Len(c) + 1 /\ Len(c) \in Nat /\ Len(<<>>) = 0
    BY AppendProperties, LenProperties, EmptySeq
  <2>2. Len(Append(c, m)) # 0
    BY <2>1
  <2> QED
    BY <2>1, <2>2
<1> QED
  BY <1>7, <1>9, <1>10, <1>11, <1>12 DEF QueueGood

\* So does Receive, before Clear.
LEMMA QueueReceiveGood ==
    ASSUME QueueGood(q), q.clearing = "no", QueueReceive
    PROVE  QueueGood(q')
<1>0. /\ q \in Channel /\ q.content \in Seq(Nat) /\ q.received \in Seq(Nat) /\ q.released = <<>> /\ q.content # <<>>
  BY DEF QueueGood, Channel, QueueReceive
<1>1. PICK s \in Seq(Nat), c \in Seq(Nat) : s = q.received /\ c = q.content
  BY <1>0
<1>2. Head(c) \in Nat /\ Tail(c) \in Seq(Nat) /\ Append(s, Head(c)) \in Seq(Nat)
  BY <1>0, <1>1, HeadTailProperties, AppendProperties
<1>3. s \o c = Append(s, Head(c)) \o Tail(c)
  BY <1>0, <1>1, HeadMoves
<1> DEFINE e == [q EXCEPT !.content = Tail(@), !.received = Append(@, Head(q.content))]
<1>4. q' = e
  BY DEF QueueReceive
<1>5. /\ e \in Channel /\ e.content = Tail(c) /\ e.received = Append(s, Head(c)) /\ e.released = <<>>
      /\ e.sent = q.sent /\ e.clearing = "no"
  BY <1>0, <1>1, <1>2 DEF Channel
<1> HIDE DEF e
<1>6. Told(q) = s /\ Told(e) = Append(s, Head(c))
  BY <1>0, <1>1, <1>2, <1>5, ConcatEmptySeq DEF Told
<1>7. Told(e) \o e.content = Told(q) \o q.content
  BY <1>1, <1>3, <1>5, <1>6
<1> QED
  BY <1>4, <1>5, <1>7 DEF QueueGood

\* So does every step of Clear: its test is still true when it receives.
LEMMA QueueClearGood ==
    ASSUME QueueGood(q), QueueClear
    PROVE  QueueGood(q')
<1>0. /\ q \in Channel /\ q.content \in Seq(Nat) /\ q.received \in Seq(Nat) /\ q.released \in Seq(Nat)
  BY DEF QueueGood, Channel
<1>1. ASSUME NEW c, c \in {"test", "done", "receive"}, c = "receive" => q.content # <<>>, q' = [q EXCEPT !.clearing = c]
      PROVE  QueueGood(q')
  <2> DEFINE e == [q EXCEPT !.clearing = c]
  <2>1. /\ e \in Channel /\ e.content = q.content /\ e.received = q.received /\ e.released = q.released
        /\ e.sent = q.sent /\ e.clearing = c
    BY <1>0, <1>1 DEF Channel
  <2> HIDE DEF e
  <2> QED
    BY <1>1, <2>1 DEF QueueGood, Told, e
<1>2. CASE q.clearing = "no" /\ q' = [q EXCEPT !.clearing = "test"]
  BY <1>1, <1>2
<1>3. CASE /\ q.clearing = "test"
           /\ q' = IF q.content = <<>> THEN [q EXCEPT !.clearing = "done"] ELSE [q EXCEPT !.clearing = "receive"]
  BY <1>1, <1>3
<1>4. CASE /\ q.clearing = "receive"
           /\ LET r == IF q.content = <<>> THEN q
                       ELSE [q EXCEPT !.content = Tail(@), !.buffer = Head(q.content)]
              IN  q' = [r EXCEPT !.released = Append(@, r.buffer), !.clearing = "test"]
  <2>1. q.content # <<>>
    BY <1>4 DEF QueueGood
  <2>2. PICK a \in Seq(Nat), b \in Seq(Nat), c \in Seq(Nat) : a = q.received /\ b = q.released /\ c = q.content
    BY <1>0
  <2>3. Head(c) \in Nat /\ Tail(c) \in Seq(Nat) /\ Append(b, Head(c)) \in Seq(Nat)
    BY <2>1, <2>2, HeadTailProperties, AppendProperties
  <2>4. PICK x \in Nat, z \in Seq(Nat) : x = Head(c) /\ z = Tail(c)
    BY <2>3
  <2> DEFINE r == [q EXCEPT !.content = z, !.buffer = x]
             e == [r EXCEPT !.released = Append(@, x), !.clearing = "test"]
  <2>5. /\ r \in Channel /\ r.buffer = x /\ r.content = z /\ r.received = a /\ r.released = b /\ r.sent = q.sent
    BY <1>0, <2>2, <2>4 DEF Channel
  <2>6. q' = e
    <3>1. r = [q EXCEPT !.content = Tail(@), !.buffer = Head(q.content)]
      BY <1>0, <2>2, <2>4 DEF Channel
    <3>2. q' = [r EXCEPT !.released = Append(@, r.buffer), !.clearing = "test"]
      BY <1>4, <2>1, <3>1
    <3> HIDE DEF r
    <3> QED
      BY <2>5, <3>2
  <2> HIDE DEF r
  <2>7. /\ e \in Channel /\ e.content = z /\ e.received = a /\ e.released = Append(b, x) /\ e.sent = q.sent
        /\ e.clearing = "test"
    BY <2>3, <2>4, <2>5 DEF Channel
  <2> HIDE DEF e
  <2>8. c # <<>>
    BY <2>1, <2>2
  <2>9. (a \o b) \o c = (a \o Append(b, Head(c))) \o Tail(c)
    <3>1. PICK S : S = Nat
      OBVIOUS
    <3>2. a \in Seq(S) /\ b \in Seq(S) /\ c \in Seq(S)
      BY <3>1
    <3> QED
      BY <2>8, <3>2, MiddleMoves, SMTT(40)
  <2>10. Told(e) \o e.content = Told(q) \o q.content
    BY <2>2, <2>4, <2>7, <2>9 DEF Told
  <2> QED
    BY <2>6, <2>7, <2>10 DEF QueueGood
<1> QED
  BY <1>2, <1>3, <1>4 DEF QueueClear

\* Every step keeps it.
LEMMA QueueNextGood ==
    ASSUME QueueGood(q), QueueNext
    PROVE  QueueGood(q')
  BY QueueSendGood, QueueReceiveGood, QueueClearGood DEF QueueNext

\* A new queue has it.
LEMMA QueueInitGood ==
    QueueGood(NewQueue)
<1> DEFINE d == NewQueue
<1>1. <<>> \in Seq(Nat)
  BY EmptySeq
<1>2. /\ d \in Channel /\ d.content = <<>> /\ d.sent = 0 /\ d.received = <<>> /\ d.released = <<>> /\ d.clearing = "no"
  BY <1>1 DEF NewQueue, Channel
<1> HIDE DEF d
<1>3. Told(d) \o d.content = <<>>
  BY <1>2 DEF Told
<1>4. QueueGood(d)
  BY <1>2, <1>3, EmptySeq DEF QueueGood
<1> QED
  BY <1>4 DEF d

\* The invariant says that messages come out once and in order.
LEMMA QueueInOrder ==
    ASSUME QueueGood(q)
    PROVE  \A i \in DOMAIN (q.received \o q.released) : (q.received \o q.released)[i] = i
<1>0. /\ q \in Channel /\ q.content \in Seq(Nat) /\ q.received \in Seq(Nat) /\ q.released \in Seq(Nat) /\ q.sent \in Nat
  BY DEF QueueGood, Channel
<1>1. Told(q) \in Seq(Nat)
  BY <1>0, ConcatProperties DEF Told
<1>2. PICK s \in Seq(Nat), c \in Seq(Nat), n \in Nat : s = Told(q) /\ c = q.content /\ n = q.sent
  BY <1>0, <1>1
<1>3. Len(s \o c) = n /\ \A i \in 1 .. n : (s \o c)[i] = i
  BY <1>2 DEF QueueGood
<1>4. /\ Len(s \o c) = Len(s) + Len(c) /\ Len(s) \in Nat /\ Len(c) \in Nat
      /\ \A i \in 1 .. Len(s) : (s \o c)[i] = s[i]
  BY ConcatProperties, LenProperties
<1>5. DOMAIN s = 1 .. Len(s) /\ \A i \in 1 .. Len(s) : i \in 1 .. n
  BY <1>3, <1>4, LenProperties
<1>6. \A i \in DOMAIN s : s[i] = i
  BY <1>3, <1>4, <1>5
<1> QED
  BY <1>2, <1>6 DEF Told

\* The invariant of the primitives holds in every state, for every bound.
THEOREM PlatformIsGood ==
    PlatformSpec => []PlatformInv
<1>1. TimerSpec => []TimerGood(t)
  <2>1. (\E build \in TimerBuilds : t = NewTimer(build)) => TimerGood(t)
    BY TimerInitGood
  <2>2. TimerGood(t) /\ [TimerNext]_t => TimerGood(t)'
    BY TimerNextGood
  <2> QED
    BY <2>1, <2>2, PTL DEF TimerSpec
<1>2. ThreadSpec => []ThreadGood(h)
  <2>1. (\E build \in ThreadBuilds : h = NewThread(build)) => ThreadGood(h)
    BY ThreadInitGood
  <2>2. ThreadGood(h) /\ [ThreadNext]_h => ThreadGood(h)'
    BY ThreadNextGood
  <2> QED
    BY <2>1, <2>2, PTL DEF ThreadSpec
<1>3. QueueSpec => []QueueGood(q)
  <2>1. q = NewQueue => QueueGood(q)
    BY QueueInitGood
  <2>2. QueueGood(q) /\ [QueueNext]_q => QueueGood(q)'
    BY QueueNextGood
  <2> QED
    BY <2>1, <2>2, PTL DEF QueueSpec
<1>4. TimerGood(t) /\ ThreadGood(h) /\ QueueGood(q) => PlatformInv
  BY DEF PlatformInv
<1> QED
  BY <1>1, <1>2, <1>3, <1>4, PTL DEF PlatformSpec

\* A timer that does not reload calls back once per Start at most, in the
\* pthread build never after Stop, and tells when it is due; a thread's object
\* is not used after Join and Destruct; and a message of the FreeRTOS queue
\* comes out once and in order.
THEOREM PlatformPrimitivesSafe ==
    PlatformSpec => []PrimitivesSafe
<1>1. PlatformInv => PrimitivesSafe
  <2> SUFFICES ASSUME PlatformInv PROVE PrimitivesSafe
    OBVIOUS
  <2>1. TimerCallsBounded /\ ~h.touched
    BY TimerBounded DEF PlatformInv, ThreadGood
  <2> QED
    BY <2>1, QueueInOrder DEF PlatformInv, PrimitivesSafe
<1> QED
  BY <1>1, PlatformIsGood, PTL
=============================================================================
