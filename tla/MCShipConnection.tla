-------------------------- MODULE MCShipConnection --------------------------
(***************************************************************************)
(* Instances of ShipConnection for TLC.  The alphabets hold one frame of   *)
(* every class that some handler tells apart.                              *)
(***************************************************************************)
EXTENDS ShipConnection

ProtFrames ==
  {Frame("prot", "announceMax", s) : s \in {"max", "lower", "higher"}}
    \cup {Frame("prot", "select", s) : s \in {"max", "lower"}}
    \cup {Frame("protErr", "none", "none")}

PinFrames ==
  {Frame("pin", s, "none") : s \in {"none", "pinOk", "required", "bad"}}
    \cup {Frame("pin", "required", "ok"), Frame("pin", "optional", "busy")}

DataFrames ==
  {Frame("data", s, "none") : s \in {"ok", "bad"}}
    \cup {Frame("accessReq", "none", "none")}
    \cup {Frame("access", s, "none") : s \in {"A", "B", "none"}}
    \cup {Frame("close", s, "none") : s \in {"announce", "confirm", "bad"}}

InitFrames == {Frame("init", "ok", "none"), Frame("init", "bad", "none")}

\* Every class of frame, at any time; the hellos that set the prolongation timer
\* are left to PendingFrames.
AllFrames ==
  InitFrames \cup ProtFrames \cup PinFrames \cup DataFrames
    \cup {Hello("ready", s) : s \in {"none", "short"}}
    \cup {Hello("pending", "prolong"), Hello("aborted", "none"), Hello("bad", "none")}

\* A peer that keeps talking in the hello phase.
PendingFrames ==
  {Frame("init", "ok", "none"), Hello("ready", "long")}
    \cup {Hello("pending", s) : s \in {"zero", "long", "prolong"}}

\* A client that goes through the handshake in five frames, in any order.
PeerFrames ==
  {Frame("init", "ok", "none"), Hello("ready", "long"),
   Frame("prot", "announceMax", "max"), Frame("prot", "select", "max"),
   Frame("pin", "none", "none")}

\* The same client, which also announces a close.
ClosingFrames == PeerFrames \cup {Frame("close", "announce", "none")}

=============================================================================
