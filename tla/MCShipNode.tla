----------------------------- MODULE MCShipNode -----------------------------
(* Instances of the SHIP node for TLC. *)
EXTENDS ShipNode

\* One remote device; two; one that comes back with a new certificate.
OneDevice == {[ski |-> "a", id |-> "A", fp |-> "fa"]}
TwoDevices == OneDevice \cup {[ski |-> "b", id |-> "B", fp |-> "fb"]}
NewCertificate == OneDevice \cup {[ski |-> "b", id |-> "A", fp |-> "fb"]}

\* The application trusts and distrusts one device.
Trusts ==
    [devices |-> OneDevice, postTrust |-> TRUE, pairingPossible |-> FALSE, queueSize |-> 1,
     calls |-> {"register", "unregister", "fingerprint"},
     mayFail |-> FALSE, maxConns |-> 3, maxCalls |-> 3]

\* It approves a device that has connected, or withdraws from it.
Approves == [Trusts EXCEPT !.calls = {"register", "approve", "cancel"}]
Withdraws == [Trusts EXCEPT !.calls = {"unregister", "approve", "cancel"}, !.queueSize = 2]

\* The pairing requests of two devices replace each other.
Pairs ==
    [Trusts EXCEPT !.devices = TwoDevices, !.calls = {"pairing", "cancel"}, !.postTrust = FALSE,
                   !.maxConns = 2, !.maxCalls = 2]

\* Fingerprints are registered while connections fail to start, or a SKI as not trusted.
Renews ==
    [Trusts EXCEPT !.devices = NewCertificate, !.postTrust = FALSE, !.calls = {"peer", "fingerprint"},
                   !.mayFail = TRUE, !.maxConns = 2, !.maxCalls = 2]
Distrusts ==
    [Renews EXCEPT !.pairingPossible = TRUE, !.calls = {"peer", "fingerprint", "distrust"},
                   !.queueSize = 2, !.maxCalls = 1]

SafetyConfigs == {Trusts, Approves, Withdraws, Pairs, Renews, Distrusts}
LiveConfigs ==
    {[Trusts EXCEPT !.calls = {"register", "cancel", "stop"}, !.queueSize = 6, !.maxCalls = 2]}
StaleCloseConfigs == {[Trusts EXCEPT !.calls = {"register", "unregister"}, !.queueSize = 2]}

\* The code compares addresses and does nothing else with them.
Addresses == Permutations(Addrs)
=============================================================================
