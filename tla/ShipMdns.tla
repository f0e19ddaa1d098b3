------------------------------ MODULE ShipMdns ------------------------------
(***************************************************************************)
(* Discovery of SHIP services and of pairing requests over mDNS            *)
(* (src/src/ship/mdns): the entry built from a TXT record and the three    *)
(* backends, which are builds of one interface.  "bonjour" and "avahi" are *)
(* told of services by browse events and resolve each name; "freertos"     *)
(* asks for all services in every turn of its loop.  The daemon behind     *)
(* dns_sd and Avahi is external: it may die and come back.                 *)
(*                                                                         *)
(* m is the backend's object.  Its loop thread runs its turns; between the *)
(* top of a Bonjour turn and the event it then handles, other threads may  *)
(* start or stop the browse for pairing requests.  A service on the        *)
(* network is its name, the interface it is seen on, the owner's mark and  *)
(* the items of its TXT record; several may have one SKI.  m.lost is       *)
(* history: the SKIs whose entry was removed although a service of that    *)
(* SKI, ignored as a duplicate or seen on another interface, is still      *)
(* there.                                                                  *)
(* Freed entries that a FreeRTOS turn leaves as NULL in the vector, which  *)
(* every reader skips, are left out.                                       *)
(***************************************************************************)
EXTENDS Naturals, Sequences, SequencesExt, FiniteSets

CONSTANTS Backends,    \* the builds considered
          Services,    \* what peers may announce: [name, iface, own, host, port, txt]
          OwnSki,
          Requests,    \* pairing requests that peers announce
          NoRequest,
          MaxChanges,  \* bound on announcements and withdrawals
          MaxFaults    \* bound on deaths and errors of the daemon, restarts and ends of a pairing browse

VARIABLES net,      \* the services now announced
          daemon,   \* the daemon runs
          m,
          changes, faults

mdnsVars == <<net, daemon, m, changes, faults>>

-----------------------------------------------------------------------------
(* The entry of a service (mdns_entry.c).                                  *)

Names == {"txtvers", "id", "path", "ski", "register", "brand", "type", "model"}
Mandatory == {"txtvers", "id", "path", "ski", "register"}

(* The key is compared over its own length only, so that a prefix of a     *)
(* name is taken for the first name it begins.                             *)
KeyOf(key) == CASE key \in Names -> key
                [] key = "t"     -> "txtvers"
                [] key = "s"     -> "ski"
                [] OTHER         -> "none"

EmptyEntry == [f \in Names |-> ""]

MdnsEntrySetValue(entry, key, value) ==
    IF key = "" \/ value = "" \/ KeyOf(key) = "none" THEN entry
    ELSE [entry EXCEPT ![KeyOf(key)] = value]

(* An item is [key, value, assign], without a "=" it is skipped; an item   *)
(* without a key or a value ends the reading of a raw record, and what was *)
(* read before it is kept (MdnsResolveServiceCallback ignores the error).  *)
Malformed(item) == item.assign /\ (item.key = "" \/ item.value = "")

MdnsEntryParseTxtRecord(txt) ==
    LET bad  == {i \in DOMAIN txt : Malformed(txt[i])}
        upTo == IF bad = {} THEN Len(txt) ELSE (CHOOSE i \in bad : \A j \in bad : i <= j) - 1
    IN  FoldLeft(LAMBDA e, item : IF item.assign THEN MdnsEntrySetValue(e, item.key, item.value) ELSE e,
                 EmptyEntry, SubSeq(txt, 1, upTo))

(* Avahi and ESP hand over the items one by one, those without a value     *)
(* left out.                                                               *)
EntryOfPairs(txt) ==
    FoldLeft(LAMBDA e, item : IF item.assign THEN MdnsEntrySetValue(e, item.key, item.value) ELSE e,
             EmptyEntry, txt)

EntryOf(backend, s) ==
    [name |-> s.name,
     txt  |-> IF backend = "bonjour" THEN MdnsEntryParseTxtRecord(s.txt) ELSE EntryOfPairs(s.txt),
     addr |-> s.host /\ s.port]

Entries == [b \in Backends, s \in Services |-> EntryOf(b, s)]

MdnsEntryIsValid(e) ==
    /\ e.addr
    /\ \A f \in Mandatory : e.txt[f] # ""
    /\ e.txt["register"] \in {"true", "false"}

Ski(e) == e.txt["ski"]

-----------------------------------------------------------------------------
(* What the backends share.                                                *)

NewMdns(backend) ==
    [backend |-> backend, thread |-> "none", cancel |-> FALSE, stopping |-> FALSE,
     session |-> "none", registered |-> FALSE, recover |-> FALSE, quit |-> FALSE,
     events |-> <<>>, resolves |-> {}, dangling |-> {}, found |-> <<>>, told |-> <<>>,
     cb |-> FALSE, browse |-> FALSE, pending |-> {}, queries |-> {}, requests |-> {},
     heard |-> {}, dropped |-> {}, announced |-> NoRequest, lost |-> {}]

(* The node is handed a copy of the list.                                  *)
MdnsNotifyFoundEntries(d) == [d EXCEPT !.told = d.found]

MdnsHasMatchingEntry(d, e) == \E i \in DOMAIN d.found : Ski(d.found[i]) = Ski(e)

(* A valid entry of another device joins the list unless its SKI is there. *)
Joins(d, e) == MdnsEntryIsValid(e) /\ Ski(e) # OwnSki /\ ~MdnsHasMatchingEntry(d, e)

(* The entry joins, and the node is told.                                  *)
MdnsEntryJoins(d, e) == MdnsNotifyFoundEntries([d EXCEPT !.found = Append(@, e), !.lost = @ \ {Ski(e)}])

Event(s, add) == [s |-> s, add |-> add]

(* A service of this SKI is there, and nobody will ask for it again.       *)
Overlooked(d, ski) ==
    \E s \in net : LET e == Entries[d.backend, s]
                   IN  /\ ~s.own /\ MdnsEntryIsValid(e) /\ Ski(e) = ski
                       /\ s \notin d.resolves /\ Event(s, TRUE) \notin ToSet(d.events)

(* By the name alone, whatever the interface.                              *)
MdnsRemoveEntryByName(d, name) ==
    LET i == SelectInSeq(d.found, LAMBDA e : e.name = name)
    IN  IF i = 0 THEN d
        ELSE [d EXCEPT !.found = RemoveAt(@, i),
                       !.lost = @ \cup {ski \in {Ski(d.found[i])} : Overlooked(d, ski)}]

(* A browse that is opened hears of everything on the network.             *)
OpenBrowse(d) ==
    IF daemon THEN [d EXCEPT !.session = "open", !.lost = {},
                             !.events = SetToSeq({Event(s, TRUE) : s \in net})]
    ELSE [d EXCEPT !.session = "none", !.events = <<>>]

-----------------------------------------------------------------------------
(* Bonjour.                                                                *)

MdnsBrowserReset(d) ==
    [d EXCEPT !.session = "none", !.events = <<>>, !.resolves = {}, !.found = <<>>,
              !.browse = FALSE, !.pending = {}, !.queries = {}, !.requests = {}]

(* The answer for a name: the entry is built from the TXT record.          *)
MdnsResolveServiceCallback(d, s) ==
    LET e == Entries["bonjour", s]
        r == [d EXCEPT !.resolves = @ \ {s}]
    IN  IF Joins(r, e) THEN MdnsEntryJoins(r, e) ELSE r

(* A name that came is resolved unless it is the node's own; one that went *)
(* is removed, and the list reported in any case.                          *)
MdnsBrowseServicesCallback(d, ev) ==
    IF ev.add THEN (IF ev.s.own THEN d ELSE [d EXCEPT !.resolves = @ \cup {ev.s}])
    ELSE MdnsNotifyFoundEntries(MdnsRemoveEntryByName(d, ev.s.name))


(* Registers again, resets the browses and opens that for services.        *)
MdnsRecoverSessions(d) ==
    IF d.recover
    THEN [OpenBrowse(MdnsBrowserReset([d EXCEPT !.registered = daemon])) EXCEPT !.recover = ~daemon]
    ELSE d

(* The pairing browse is open while somebody waits for what it finds.      *)
PairingBrowseUpToDate(d) ==
    IF d.cb /\ ~d.browse /\ daemon THEN [d EXCEPT !.browse = TRUE, !.pending = Requests]
    ELSE IF ~d.cb /\ d.browse THEN [d EXCEPT !.browse = FALSE, !.pending = {}, !.requests = {}]
    ELSE d

(* The start of the loop's thread and the top of a turn, up to select().   *)
BonjourTop ==
    /\ m.backend = "bonjour"
    /\ \/ /\ m.thread = "start"
          /\ LET d == OpenBrowse(m)
             IN  m' = [d EXCEPT !.thread = "top", !.recover = @ \/ d.session # "open"]
       \/ /\ m.thread = "top" /\ ~m.cancel   \* nothing to recover, or too early
          /\ m' = [PairingBrowseUpToDate(m) EXCEPT !.thread = "select"]
       \/ /\ m.thread = "top" /\ m.cancel
          /\ m' = [MdnsBrowserReset(m) EXCEPT !.thread = "done"]
    /\ UNCHANGED <<net, daemon, changes, faults>>

(* A turn that finds the sessions lost and the last attempt long enough    *)
(* ago.                                                                    *)
BonjourRecover ==
    /\ m.backend = "bonjour" /\ m.thread = "top" /\ ~m.cancel /\ m.recover
    /\ m' = [PairingBrowseUpToDate(MdnsRecoverSessions(m)) EXCEPT !.thread = "select"]
    /\ UNCHANGED <<net, daemon, changes, faults>>

(* A pairing request is seen; it is only asked for while somebody waits.   *)
MdnsPairingBrowseServicesCallback(d, r) ==
    IF d.cb THEN [d EXCEPT !.pending = @ \ {r}, !.queries = @ \cup {r}]
    ELSE [d EXCEPT !.pending = @ \ {r}, !.dropped = @ \cup {r}]

MdnsPairingQueryRecordCallback(d, r) ==
    [d EXCEPT !.queries = @ \ {r}, !.requests = @ \cup {r}]

MdnsNotifyFoundPairingEntries(d) ==
    IF d.cb THEN [d EXCEPT !.heard = @ \cup d.requests, !.requests = {}] ELSE d

(* The rest of the turn: an event that select() reports, or the timeout,   *)
(* and now and then a report.                                              *)
Dispatched(d) ==
    LET ready ==
      (IF d.session = "dead" THEN {[d EXCEPT !.recover = TRUE]} ELSE {})
      \cup (IF d.session = "open" /\ d.events # <<>>
            THEN {MdnsBrowseServicesCallback([d EXCEPT !.events = Tail(@)], Head(d.events))} ELSE {})
      \cup {MdnsResolveServiceCallback(d, s) : s \in d.resolves}
      \cup {MdnsPairingBrowseServicesCallback(d, r) : r \in d.pending}
      \cup {MdnsPairingQueryRecordCallback(d, r) : r \in d.queries}
    IN  IF ready = {} THEN {d} ELSE ready

TurnEnds(d) == [MdnsNotifyFoundPairingEntries(MdnsNotifyFoundEntries(d)) EXCEPT !.thread = "top"]

BonjourTurn ==
    /\ m.backend = "bonjour" /\ m.thread = "select"
    /\ \E d \in Dispatched(m) : m' = TurnEnds(d)
    /\ UNCHANGED <<net, daemon, changes, faults>>

(* The daemon reports that the service could not be registered after all,  *)
(* a name that is taken for one: the sessions are to be made anew.         *)
MdnsRegisterServiceCallback ==
    /\ m.backend = "bonjour" /\ m.thread = "select" /\ daemon /\ m.registered /\ faults < MaxFaults
    /\ m' = TurnEnds([m EXCEPT !.registered = FALSE, !.recover = TRUE])
    /\ faults' = faults + 1
    /\ UNCHANGED <<net, daemon, changes>>

-----------------------------------------------------------------------------
(* Avahi.  Whatever fails makes the poll loop quit; the next turn frees    *)
(* the client, its browser and its group, but not the lists, and connects  *)
(* again with a new poll object.  The resolvers of the resolves that were  *)
(* pending go with the client: they stay in the list, dangling.            *)

AvahiTop ==
    /\ m.backend = "avahi"
    /\ \/ /\ m.thread \in {"start", "top"}
          /\ m' = [m EXCEPT !.thread = IF m.cancel THEN "done" ELSE "setup"]
       \/ /\ m.thread = "setup"
          /\ m' = [m EXCEPT !.thread = "connecting", !.quit = FALSE, !.session = "none",
                            !.registered = FALSE, !.events = <<>>,
                            !.resolves = {}, !.dangling = @ \cup m.resolves]
    /\ UNCHANGED <<net, daemon, changes, faults>>

MdnsResolverFound(d, s) ==
    LET e == Entries["avahi", s]
    IN  IF Joins(d, e) THEN MdnsEntryJoins(d, e) ELSE d

(* The resolver's answer, or its failure for a service that is gone.       *)
MdnsResolverCallback(d, s) ==
    LET r == [d EXCEPT !.resolves = @ \ {s}]
    IN  {MdnsResolverFound(r, s)} \cup (IF s \in net THEN {} ELSE {r})

MdnsBrowserNew(d, s) == IF s.own THEN d ELSE [d EXCEPT !.resolves = @ \cup {s}]

(* A removal is reported only when an entry went.                          *)
MdnsBrowserCallback(d, ev) ==
    IF ev.add THEN MdnsBrowserNew(d, ev.s)
    ELSE LET r == MdnsRemoveEntryByName(d, ev.s.name)
         IN  IF r = d THEN d ELSE MdnsNotifyFoundEntries(r)

(* The client runs: MdnsRegisterService, MdnsBrowseServices and the timer  *)
(* for the reports.                                                        *)
MdnsClientCallback ==
    /\ m.backend = "avahi" /\ m.thread = "connecting" /\ daemon /\ ~m.quit
    /\ m' = [OpenBrowse(m) EXCEPT !.thread = "poll", !.registered = TRUE]
    /\ UNCHANGED <<net, daemon, changes, faults>>

AvahiTurn ==
    /\ m.backend = "avahi" /\ m.thread \in {"connecting", "poll"}
    /\ \/ /\ m.quit \/ m.session = "dead"
          /\ m' = [m EXCEPT !.thread = "top"]
       \/ /\ ~m.quit /\ m.thread = "poll" /\ m.session = "open"
          /\ \/ /\ m.events # <<>>
                /\ m' = MdnsBrowserCallback([m EXCEPT !.events = Tail(@)], Head(m.events))
             \/ \E s \in m.resolves : m' \in MdnsResolverCallback(m, s)
             \/ m' = MdnsNotifyFoundEntries(m)
    /\ UNCHANGED <<net, daemon, changes, faults>>

-----------------------------------------------------------------------------
(* FreeRTOS.                                                               *)

(* An answer without services is not reported.                             *)
MdnsProcessSearchResult(d, results) ==
    LET entries == {Entries[d.backend, s] : s \in results}
        good    == {e \in entries : MdnsEntryIsValid(e) /\ Ski(e) # OwnSki}
    IN  IF results = {} THEN d ELSE MdnsNotifyFoundEntries([d EXCEPT !.found = SetToSeq(good)])

(* The callback is looked at again after the query.                        *)
MdnsQueryPairingServices(d) ==
    IF d.cb THEN [d EXCEPT !.heard = @ \cup Requests] ELSE d

FreeRtosTurn ==
    /\ m.backend = "freertos" /\ m.thread \in {"start", "top"}
    /\ \/ m.cancel /\ m' = [m EXCEPT !.thread = "done"]
       \/ /\ ~m.cancel
          /\ LET d == MdnsProcessSearchResult([m EXCEPT !.found = <<>>, !.thread = "top"], net)
             IN  m' = MdnsQueryPairingServices(d)
    /\ UNCHANGED <<net, daemon, changes, faults>>

-----------------------------------------------------------------------------
(* The interface that the node calls.                                      *)

Starts(d) ==
    /\ m.thread = "none" /\ (m.cancel => faults < MaxFaults)
    /\ m' = [d EXCEPT !.thread = "start"]
    /\ faults' = IF m.cancel THEN faults + 1 ELSE faults
    /\ UNCHANGED <<net, daemon, changes>>

(* Bonjour registers first and does not start its thread if that fails;    *)
(* the node does not look at the error.                                    *)
StartBonjour == m.backend = "bonjour" /\ daemon /\ Starts([m EXCEPT !.registered = TRUE])

StartAvahi == m.backend = "avahi" /\ Starts(m)

(* Only FreeRTOS forgets a Stop from before.                               *)
StartFreeRtos == m.backend = "freertos" /\ Starts([m EXCEPT !.registered = TRUE, !.cancel = FALSE])

Stops(d) ==
    /\ m.thread # "none" /\ ~m.stopping
    /\ m' = [d EXCEPT !.cancel = TRUE, !.stopping = TRUE]
    /\ UNCHANGED <<net, daemon, changes, faults>>

(* Stop and Destruct: the loop is told to end and joined.                  *)
StopBonjour == m.backend = "bonjour" /\ Stops(m)

(* Avahi's quit reaches the poll object that there is at this moment.      *)
StopAvahi == m.backend = "avahi" /\ Stops([m EXCEPT !.quit = m.thread \in {"connecting", "poll"}])

StopFreeRtos == m.backend = "freertos" /\ Stops(m)

Joined ==
    /\ m.stopping /\ m.thread = "done"
    /\ m' = [m EXCEPT !.stopping = FALSE, !.thread = "none", !.registered = FALSE]
    /\ UNCHANGED <<net, daemon, changes, faults>>

SupportsPairing == m.backend # "avahi"

StartPairingBrowse ==
    /\ SupportsPairing /\ ~m.cb
    /\ m' = [m EXCEPT !.cb = TRUE]
    /\ UNCHANGED <<net, daemon, changes, faults>>

StopPairingBrowse ==
    /\ m.cb /\ faults < MaxFaults
    /\ m' = [m EXCEPT !.cb = FALSE]
    /\ faults' = faults + 1
    /\ UNCHANGED <<net, daemon, changes>>

(* A new request replaces the one before.                                  *)
RegisterPairingService(r) ==
    /\ SupportsPairing /\ m.thread # "none" /\ changes < MaxChanges
    /\ m' = [m EXCEPT !.announced = IF daemon THEN r ELSE NoRequest]
    /\ changes' = changes + 1
    /\ UNCHANGED <<net, daemon, faults>>

DeregisterPairingService ==
    /\ m.announced # NoRequest
    /\ m' = [m EXCEPT !.announced = NoRequest]
    /\ UNCHANGED <<net, daemon, changes, faults>>

-----------------------------------------------------------------------------
(* The network and the daemon.                                             *)

Heard(s, add) ==
    IF m.session = "open" THEN [m EXCEPT !.events = Append(@, Event(s, add))] ELSE m

Announce(s) ==
    /\ s \notin net /\ changes < MaxChanges
    /\ net' = net \cup {s} /\ m' = Heard(s, TRUE) /\ changes' = changes + 1
    /\ UNCHANGED <<daemon, faults>>

Withdraw(s) ==
    /\ s \in net /\ changes < MaxChanges
    /\ net' = net \ {s} /\ m' = Heard(s, FALSE) /\ changes' = changes + 1
    /\ UNCHANGED <<daemon, faults>>

DaemonDies ==
    /\ daemon /\ faults < MaxFaults
    /\ daemon' = FALSE /\ faults' = faults + 1
    /\ m' = [m EXCEPT !.session = IF @ = "open" THEN "dead" ELSE @, !.events = <<>>,
                      !.registered = @ /\ m.backend = "freertos", !.announced = NoRequest,
                      !.pending = {}, !.queries = {}]
    /\ UNCHANGED <<net, changes>>

DaemonReturns ==
    /\ ~daemon /\ daemon' = TRUE
    /\ UNCHANGED <<net, m, changes, faults>>

MdnsInit ==
    /\ net \in SUBSET Services /\ daemon = TRUE
    /\ \E b \in Backends : m = NewMdns(b)
    /\ changes = 0 /\ faults = 0

Loop == BonjourTop \/ BonjourRecover \/ BonjourTurn \/ AvahiTop \/ MdnsClientCallback \/ AvahiTurn \/ FreeRtosTurn

MdnsNext ==
    \/ Loop \/ StartBonjour \/ StartAvahi \/ StartFreeRtos
    \/ StopBonjour \/ StopAvahi \/ StopFreeRtos \/ Joined
    \/ StartPairingBrowse \/ StopPairingBrowse
    \/ \E r \in Requests : RegisterPairingService(r)
    \/ DeregisterPairingService
    \/ \E s \in Services : Announce(s) \/ Withdraw(s)
    \/ MdnsRegisterServiceCallback \/ DaemonDies \/ DaemonReturns

(* Threads run, time passes and joins return; nothing is assumed of the    *)
(* network, the daemon or the node.                                        *)
MdnsFairness == WF_mdnsVars(Loop) /\ SF_mdnsVars(BonjourRecover) /\ WF_mdnsVars(Joined)

-----------------------------------------------------------------------------
Browsing == daemon /\ m.thread \notin {"none", "done"} /\ ~m.cancel

Announced(ski) == \E s \in net : LET e == Entries[m.backend, s]
                                IN  ~s.own /\ MdnsEntryIsValid(e) /\ Ski(e) = ski

ToldSkis == {Ski(m.told[i]) : i \in DOMAIN m.told}

Skis == {Ski(Entries[b, s]) : b \in Backends, s \in Services} \ {OwnSki, ""}

=============================================================================
