---------------------------- MODULE BoundedFifo ----------------------------
(***************************************************************************)
(* What a queue of this library promises its users, whatever its           *)
(* representation: messages are taken in the order in which they were put, *)
(* each exactly once, there are never more than Capacity of them, and a    *)
(* closed queue neither takes nor gives any.  The interface is             *)
(* src/common/api/eebus_queue_interface.h; EebusQueue implements it.       *)
(***************************************************************************)
EXTENDS Naturals, Sequences

CONSTANTS Msgs, Capacity

VARIABLES fifo, closed

vars == <<fifo, closed>>

Init == fifo = << >> /\ closed = FALSE

Put(m) ==
  /\ ~closed
  /\ Len(fifo) < Capacity
  /\ fifo' = Append(fifo, m)
  /\ UNCHANGED closed

Take ==
  /\ ~closed
  /\ fifo # << >>
  /\ fifo' = Tail(fifo)
  /\ UNCHANGED closed

Discard ==
  /\ fifo' = << >>
  /\ UNCHANGED closed

Close ==
  /\ fifo' = << >>
  /\ closed' = TRUE

Next == (\E m \in Msgs : Put(m)) \/ Take \/ Discard \/ Close

Spec == Init /\ [][Next]_vars
=============================================================================
