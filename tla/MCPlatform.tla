----------------------------- MODULE MCPlatform -----------------------------
(***************************************************************************)
(* The adapters to the operating system and the network, one at a time:    *)
(* the message queue, the timers, threads and the FreeRTOS queue of        *)
(* EebusPlatform, a websocket, and mDNS discovery.  part says which of     *)
(* them a behaviour is about; the others keep their initial state.         *)
(*                                                                         *)
(* The queue has two senders and two receivers, so that a signal has a     *)
(* choice of whom to wake, and a capacity at which the indices wrap.  The  *)
(* peer of the websocket sends whole messages, fragments (an empty one     *)
(* too) and a message that is too long.  Of the announced services one has *)
(* an item without value, which ends the reading of a raw TXT record, one  *)
(* an item without "=" and is seen on two interfaces, one has its SKI      *)
(* under another name, and one is the node's own.                          *)
(***************************************************************************)
EXTENDS EebusQueue, ShipMdns, Websocket, EebusPlatform

VARIABLE part

baseVars == <<t, h, q>>

Item(key, value) == [key |-> key, value |-> value, assign |-> TRUE]

Ship(ski, register) ==
    <<Item("txtvers", "1"), Item("id", "x"), Item("path", "/ship/"), Item("s", ski), Item("register", register)>>

Service(name, iface, own, txt) ==
    [name |-> name, iface |-> iface, own |-> own, host |-> TRUE, port |-> TRUE, txt |-> txt]

MCServices ==
    { Service("a", 1, FALSE, <<[key |-> "flag", value |-> "", assign |-> FALSE]>> \o Ship("ska", "true")),
      Service("a", 2, FALSE, <<[key |-> "flag", value |-> "", assign |-> FALSE]>> \o Ship("ska", "true")),
      Service("b", 1, FALSE, <<Item("brand", "")>> \o Ship("skb", "false")),
      Service("c", 1, FALSE, Ship("ska", "false")),
      Service("me", 1, TRUE, Ship("own", "true")) }

Fragment(data, final) == [data |-> data, final |-> final]

MCScripts ==
    { <<Fragment(<<1>>, TRUE), Fragment(<<2>>, FALSE), Fragment(<<>>, FALSE), Fragment(<<3>>, TRUE)>>,
      <<Fragment(<<1>>, FALSE), Fragment(<<2, 3>>, TRUE), Fragment(<<4>>, TRUE)>> }

MCIdentities ==
    [ski : {NoId, "a"}, fingerprint : {NoId, "f"}] \cup {[ski |-> "a", fingerprint |-> "g"]}

(* All scripts with the right certificate, one script with the others.     *)
Interesting(expected, cert, script) ==
    \/ expected = cert /\ cert = [ski |-> "a", fingerprint |-> "f"]
    \/ expected # cert /\ Len(script) = 3

-----------------------------------------------------------------------------
MCInit ==
    /\ Init
    /\ part \in {"queue", "mdns", "websocket", "timer", "thread", "freertos queue"}
    /\ IF part = "mdns" THEN MdnsInit /\ Cardinality(net) <= 2
       ELSE net = {} /\ daemon = TRUE /\ m = NewMdns("avahi") /\ changes = 0 /\ faults = 0
    /\ IF part = "websocket" THEN WebsocketInit /\ Interesting(w.expected, w.cert, w.script)
       ELSE LET none == [ski |-> NoId, fingerprint |-> NoId]
            IN  w = NewWebsocket("client", none, none, <<>>)
    /\ \E b \in IF part = "timer" THEN TimerBuilds ELSE {"pthread"} :
          t = NewTimer(b)
    /\ \E b \in IF part = "thread" THEN ThreadBuilds ELSE {"pthread"} : h = NewThread(b)
    /\ q = NewQueue

MCNext ==
    \/ part = "queue" /\ Next /\ UNCHANGED <<part, mdnsVars, w, baseVars>>
    \/ part = "mdns" /\ MdnsNext /\ UNCHANGED <<part, vars, w, baseVars>>
    \/ part = "websocket" /\ WebsocketNext /\ UNCHANGED <<part, vars, mdnsVars, baseVars>>
    \/ part = "timer" /\ TimerNext /\ UNCHANGED <<part, vars, mdnsVars, w, h, q>>
    \/ part = "thread" /\ ThreadNext /\ UNCHANGED <<part, vars, mdnsVars, w, t, q>>
    \/ part = "freertos queue" /\ QueueNext /\ UNCHANGED <<part, vars, mdnsVars, w, t, h>>

MCSpec ==
    /\ MCInit /\ [][MCNext]_<<part, vars, mdnsVars, w, baseVars>>
    /\ MdnsFairness

=============================================================================
