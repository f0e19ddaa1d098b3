----------------------------- MODULE EebusQueue -----------------------------
(***************************************************************************)
(* The bounded message queue between the library's threads                 *)
(* (src/common/eebus_queue/eebus_queue.c, the pthread build): a cyclic     *)
(* buffer with two indices and two flags, guarded by one mutex, with the   *)
(* condition variables is_not_empty_cond and is_not_full_cond.             *)
(*                                                                         *)
(* A step is one stretch of code under the mutex.  pthread_cond_wait       *)
(* releases the mutex, so a thread that waits is "asleep" until a          *)
(* pthread_cond_signal (or a spurious return, which POSIX allows) makes it *)
(* "woken", and takes its next step when it has the mutex again.  Waits    *)
(* are the infinite ones; a call with timeout 0, the only other timeout    *)
(* the library passes, never sleeps and changes nothing when it would have *)
(* to, so it is the same step as a call that finds room or a message.      *)
(***************************************************************************)
EXTENDS Naturals, Sequences, FiniteSets

CONSTANTS
  Msgs, NoMsg,\* message identities; a message is a pointer somebody owns
  MaxMsg,     \* max_msg of EebusQueueConstruct
  Senders,    \* threads that call Send
  Receivers   \* threads that call Receive

ASSUME QueueAssumption ==
  /\ MaxMsg \in Nat \ {0}
  /\ Senders \cap Receivers = {}
  /\ IsFiniteSet(Receivers)
  /\ NoMsg \notin Msgs

Threads == Senders \cup Receivers

VARIABLES
  msg_buf,    \* the slots of the cyclic buffer
  head,       \* the slot the next message is written to
  tail,       \* the slot the next message is read from
  is_full, is_empty, is_closed,
  thread,     \* each thread's place: outside a call, asleep in WaitCond, woken
  sending,    \* the message a sender that sleeps in Send brought along
  leaked      \* messages dropped without a call of msg_deallocator (ghost)

vars == <<msg_buf, head, tail, is_full, is_empty, is_closed, thread, sending, leaked>>

Slots == 0 .. MaxMsg - 1

\* The pointer increment with its wrap to msg_buf.
NextSlot(i) == IF i + 1 >= MaxMsg THEN 0 ELSE i + 1

\* The number of messages between tail and head.
Count ==
  IF is_full THEN MaxMsg
  ELSE IF head >= tail THEN head - tail ELSE head + MaxMsg - tail

\* Which slot holds the i-th oldest message.
SlotOf(i) == IF tail + i - 1 < MaxMsg THEN tail + i - 1 ELSE tail + i - 1 - MaxMsg

\* The queue's content, oldest first.
Content == [i \in 1 .. Count |-> msg_buf[SlotOf(i)]]

Asleep(T) == {t \in T : thread[t] = "asleep"}
Woken(T) == {t \in T : thread[t] = "woken"}

\* Messages that a caller may hand over: nobody else has them.
InUse ==
  {Content[i] : i \in 1 .. Count} \cup leaked
    \cup {sending[t] : t \in Senders}

Init ==
  /\ msg_buf = [s \in Slots |-> NoMsg]
  /\ head = 0 /\ tail = 0
  /\ is_full = FALSE /\ is_empty = TRUE /\ is_closed = FALSE
  /\ thread = [t \in Threads |-> "idle"]
  /\ sending = [t \in Senders |-> NoMsg]
  /\ leaked = {}
-----------------------------------------------------------------------------
\* pthread_cond_signal: one of the threads of T that sleep, if there is one, is
\* woken.  The result is the set of what thread may become.
Signalled(T, places) ==
  LET asleep == {t \in T : places[t] = "asleep"}
  IN  IF asleep = {} THEN {places} ELSE {[places EXCEPT ![w] = "woken"] : w \in asleep}

\* Variant: Send signals only when it makes the queue non-empty.
WriteSignalsWhenEmpty(t, m) ==
  /\ msg_buf' = [msg_buf EXCEPT ![head] = m]
  /\ head' = NextSlot(head)
  /\ is_empty' = FALSE
  /\ is_full' = (NextSlot(head) = tail)
  /\ thread' \in Signalled(IF is_empty THEN Receivers ELSE {}, [thread EXCEPT ![t] = "idle"])
  /\ sending' = [sending EXCEPT ![t] = NoMsg]
  /\ UNCHANGED <<tail, is_closed, leaked>>

\* The tail of SendInternal once the predicate holds.
Write(t, m) ==
  /\ msg_buf' = [msg_buf EXCEPT ![head] = m]
  /\ head' = NextSlot(head)
  /\ is_empty' = FALSE
  /\ is_full' = (NextSlot(head) = tail)
  /\ thread' \in Signalled(Receivers, [thread EXCEPT ![t] = "idle"])
  /\ sending' = [sending EXCEPT ![t] = NoMsg]
  /\ UNCHANGED <<tail, is_closed, leaked>>

\* Variant: Receive forgets to reset is_full.
ReadKeepsFull(t) ==
  /\ tail' = NextSlot(tail)
  /\ is_empty' = (head = NextSlot(tail))
  /\ thread' \in Signalled(Senders, [thread EXCEPT ![t] = "idle"])
  /\ UNCHANGED <<msg_buf, head, is_full, is_closed, sending, leaked>>

\* The tail of ReceiveInternal once the predicate holds.
Read(t) ==
  /\ tail' = NextSlot(tail)
  /\ is_full' = FALSE
  /\ is_empty' = (head = NextSlot(tail))
  /\ thread' \in Signalled(Senders, [thread EXCEPT ![t] = "idle"])
  /\ UNCHANGED <<msg_buf, head, is_closed, sending, leaked>>

\* WaitCond: the thread sleeps, or returns to the caller when the queue closed.
Wait(t, place) ==
  /\ thread' = [thread EXCEPT ![t] = place]
  /\ UNCHANGED <<msg_buf, head, tail, is_full, is_empty, is_closed, leaked>>

Send(t, m) ==
  /\ thread[t] = "idle"
  /\ m \notin InUse
  /\ ~is_closed
  /\ \/ ~is_full /\ Write(t, m)
     \/ is_full /\ Wait(t, "asleep") /\ sending' = [sending EXCEPT ![t] = m]

\* Variant: WaitCond tests its predicate once, with an if in place of the while.
SendInternalNoRecheck(t) ==
  /\ t \in Senders
  /\ thread[t] = "woken"
  /\ \/ is_closed /\ Wait(t, "idle") /\ sending' = [sending EXCEPT ![t] = NoMsg]
     \/ ~is_closed /\ Write(t, sending[t])

SendInternal(t) ==
  /\ t \in Senders
  /\ thread[t] = "woken"
  /\ \/ is_closed /\ Wait(t, "idle") /\ sending' = [sending EXCEPT ![t] = NoMsg]
     \/ ~is_closed /\ is_full /\ Wait(t, "asleep") /\ UNCHANGED sending
     \/ ~is_closed /\ ~is_full /\ Write(t, sending[t])

Receive(t) ==
  /\ thread[t] = "idle"
  /\ ~is_closed
  /\ \/ ~is_empty /\ Read(t)
     \/ is_empty /\ Wait(t, "asleep") /\ UNCHANGED sending

ReceiveInternal(t) ==
  /\ t \in Receivers
  /\ thread[t] = "woken"
  /\ \/ is_closed /\ Wait(t, "idle") /\ UNCHANGED sending
     \/ ~is_closed /\ is_empty /\ Wait(t, "asleep") /\ UNCHANGED sending
     \/ ~is_closed /\ ~is_empty /\ Read(t)

\* pthread_cond_wait may return although nobody signalled.
SpuriousWakeup(t) ==
  /\ thread[t] = "asleep"
  /\ thread' = [thread EXCEPT ![t] = "woken"]
  /\ UNCHANGED <<msg_buf, head, tail, is_full, is_empty, is_closed, sending, leaked>>

\* The messages between tail and head are given to msg_deallocator: none when
\* the buffer is full, because the loop ends where tail = head.
Deallocated == {msg_buf[SlotOf(i)] : i \in 1 .. (IF is_full THEN 0 ELSE Count)}

\* ClearInternal, without its signal.
ClearBuffer ==
  /\ tail' = head
  /\ is_empty' = TRUE
  /\ is_full' = FALSE
  /\ leaked' = leaked \cup ({Content[i] : i \in 1 .. Count} \ Deallocated)
  /\ UNCHANGED <<msg_buf, head, sending>>

Clear ==
  /\ ~is_closed
  /\ ClearBuffer
  /\ thread' \in Signalled(Senders, thread)
  /\ UNCHANGED is_closed

\* Destruct up to the release of the mutex: it signals each condition variable
\* once, and ClearInternal signals is_not_full_cond again.
Destruct ==
  /\ ~is_closed
  /\ is_closed' = TRUE
  /\ ClearBuffer
  /\ \E one \in Signalled(Senders, thread) :
       \E two \in Signalled(Receivers, one) : thread' \in Signalled(Senders, two)

Next ==
  \/ \E t \in Senders, m \in Msgs : Send(t, m)
  \/ \E t \in Receivers : Receive(t)
  \/ \E t \in Threads : SendInternal(t) \/ ReceiveInternal(t) \/ SpuriousWakeup(t)
  \/ Clear
  \/ Destruct

Spec == Init /\ [][Next]_vars
-----------------------------------------------------------------------------
\* Every variable has its type.
TypeOK ==
  /\ msg_buf \in [Slots -> Msgs \cup {NoMsg}]
  /\ head \in Slots /\ tail \in Slots
  /\ is_full \in BOOLEAN /\ is_empty \in BOOLEAN /\ is_closed \in BOOLEAN
  /\ thread \in [Threads -> {"idle", "asleep", "woken"}]
  /\ sending \in [Senders -> Msgs \cup {NoMsg}]
  /\ leaked \in SUBSET Msgs

\* The flags of SendInternal, ReceiveInternal and ClearInternal tell the two
\* meanings of head = tail apart, so the cyclic buffer never mistakes a full
\* buffer for an empty one, and the occupied slots hold messages.
BufferInv ==
  /\ head = tail <=> is_full \/ is_empty
  /\ ~(is_full /\ is_empty)
  /\ \A i \in 1 .. Count : msg_buf[SlotOf(i)] \in Msgs

\* A receiver never sleeps in Receive over a message unless another receiver
\* has been woken for it: each Send signals is_not_empty_cond once.  A sender
\* never sleeps in Send beside free slots with nobody left to wake it: some
\* sender is already woken, or a message is still queued and the Receive that
\* takes it will signal is_not_full_cond.  (Clear frees every slot and signals
\* once only.)
NoneStranded ==
  ~is_closed =>
    /\ Asleep(Receivers) # {} => Count <= Cardinality(Woken(Receivers))
    /\ Asleep(Senders) # {} => Woken(Senders) # {} \/ ~is_empty

\* The queue implements the bounded FIFO: Send appends, Receive takes the
\* oldest, Clear and Destruct drop everything, nothing is lost, duplicated or
\* reordered when the indices wrap.
Fifo == INSTANCE BoundedFifo WITH Capacity <- MaxMsg, fifo <- Content, closed <- is_closed
ImplementsFifo == Fifo!Spec

\* msg_deallocator is called for every message that Clear or Destruct drops
\* (eebus_queue.c:51, "used to clear pending messages when deallocating queue").
NothingLeaked == leaked = {}
=============================================================================
