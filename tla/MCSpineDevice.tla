--------------------------- MODULE MCSpineDevice ---------------------------
(***************************************************************************)
(* The SPINE device for TLC, one part in each behaviour: a device with its *)
(* peers, links and pending replies (SpineDevice), or the use cases that a *)
(* device offers and what its peer knows of them (SpineDirectory).         *)
(***************************************************************************)
EXTENDS SpineDevice, SpineDirectory

CONSTANTS controllable, limit1, limit2

VARIABLE part   \* the part that acts, never changes

\* Requests are for features of one type.
SomePairs == {<<f, f>> : f \in Features}

\* Two use cases of one actor.
Cases == {[actor |-> controllable, name |-> n] : n \in {limit1, limit2}}

\* The code compares SKIs and addresses, and does nothing else with them.
Names == Permutations(Skis) \cup Permutations(Ptrs)

OneOffer == offer.entity = [e \in Entities |-> "built"]

MCInit ==
    /\ Init /\ DirectoryInit
    /\ \/ part = "device" /\ OneOffer
       \/ part = "directory" /\ called = "binding"

MCNext ==
    \/ part = "device" /\ Next /\ UNCHANGED <<directory, part>>
    \/ part = "directory" /\ DirectoryNext /\ UNCHANGED <<vars, part>>

MCSpec == MCInit /\ [][MCNext]_<<vars, directory, part>>
=============================================================================
