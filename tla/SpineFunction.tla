--------------------------- MODULE SpineFunction ---------------------------
(***************************************************************************)
(* The data of one SPINE function on a server feature (function.c,         *)
(* feature_local.c) and its copy on the remote feature of a client that    *)
(* subscribed (feature_remote.c).  The server never sends its data again   *)
(* after the first reply: it notifies the update, with the filters it was  *)
(* made with, and the client applies that update to its copy.  Every cmd   *)
(* travels as JSON over the two FIFO directions of one SHIP connection.    *)
(* The function stores a list (EebusData's container).  Allocations of     *)
(* more than zero bytes succeed.                                           *)
(***************************************************************************)
EXTENDS EebusData

CONSTANTS DataCfg,      \* configuration of the function's data
          SelectorsCfg, \* ... of its selectors
          ElementsCfg,  \* ... of its elements
          Updates,      \* [data, partial, del] that the server's owner makes
          Writes,       \* ... that the client's owner asks for
          MaxWire       \* bound on the messages under way

VARIABLES data,  \* Function.data of the server's feature
          cache, \* Function.data of the client's FeatureRemote
          ops,   \* the server announced partial writes
          up,    \* the SHIP connection stands
          sub,   \* the client is in the server's subscription table
          read,  \* "no", "asked" or "done": the client's read of the function
          req,   \* client to server
          wire   \* server to client

vars == <<data, cache, ops, up, sub, read, req, wire>>

ChoiceOf(name, cfg) == [kind |-> "choice", id |-> FALSE, alts |-> <<Field(name, cfg)>>]

(* cmdControl, filter and cmd as command_frame_types declares them, with   *)
(* the alternatives of this function only.                                 *)
ControlCfg == [kind |-> "sequence", id |-> FALSE,
               fields |-> <<Field("delete", TagCfg), Field("partial", TagCfg)>>]
FilterCfg == [kind |-> "sequence", id |-> FALSE,
              fields |-> <<Field("cmdControl", ControlCfg),
                           Field("selectors", ChoiceOf("dataSelectors", SelectorsCfg)),
                           Field("elements", ChoiceOf("dataElements", ElementsCfg))>>]
CmdCfg == [kind |-> "sequence", id |-> FALSE,
           fields |-> <<Field("function", [kind |-> "enum", id |-> FALSE, names |-> {"function"}]),
                        Field("filter", [kind |-> "list", of |-> FilterCfg]),
                        Field("data", ChoiceOf("data", DataCfg))>>]

ChoiceValue(v) == IF v = NULL THEN NULL ELSE [type |-> 1, v |-> v]
ValueOfChoice(c) == IF c = NULL THEN NULL ELSE c.v

FilterPartialCreate(sel, el) == <<<<NULL, "set">>, ChoiceValue(sel), ChoiceValue(el)>>
FilterDeleteCreate(sel, el) == <<<<"set", NULL>>, ChoiceValue(sel), ChoiceValue(el)>>

FilterGetType(f) ==
    CASE f[1] = NULL           -> "undefined"
      [] f[1] = <<NULL, "set">> -> "partial"
      [] f[1] = <<"set", NULL>> -> "delete"
      [] OTHER                  -> "undefined"

CmdGetFilterWithType(cmd, type) ==
    IF cmd[2] = NULL THEN NULL
    ELSE LET k == SelectInSeq(cmd[2], LAMBDA f : FilterGetType(f) = type)
         IN  IF k = 0 THEN NULL
             ELSE [sel |-> ValueOfChoice(cmd[2][k][2]), el |-> ValueOfChoice(cmd[2][k][3])]

CreateReadCmd == <<NULL, NULL, ChoiceValue(EmptyOf(DataCfg))>>

CreateReplyCmd(d) == <<NULL, NULL, ChoiceValue(d)>>

(* Mutant: the delete filter of an update is not sent.                     *)
AddFiltersNoDelete(partial, del) ==
    IF partial = NULL THEN <<>> ELSE <<FilterPartialCreate(partial.sel, NULL)>>

(* The elements of a partial filter do not travel.                         *)
AddFiltersToWriteCmd(partial, del) ==
    (IF partial = NULL THEN <<>> ELSE <<FilterPartialCreate(partial.sel, NULL)>>)
    \o (IF del = NULL THEN <<>> ELSE <<FilterDeleteCreate(del.sel, del.el)>>)

CreateWriteCmd(d, partial, del) ==
    LET filters == AddFiltersToWriteCmd(partial, del)
    IN  IF filters = <<>> THEN <<NULL, NULL, ChoiceValue(d)>>
        ELSE <<"function", filters, ChoiceValue(d)>>

CreateNotifyCmd(d, partial, del) == CreateWriteCmd(d, partial, del)

(* Function UpdateData: the new data and whether it returned ok.           *)
UpdateData(old, new, partial, del, persist) ==
    IF partial = NULL /\ del = NULL
    THEN [data |-> IF persist THEN Write(DataCfg, NULL, new) ELSE old, ok |-> TRUE]
    ELSE LET left == IF del = NULL THEN old
                     ELSE DeletePartial(DataCfg, old, SelectorsCfg, del.sel, ElementsCfg, del.el)
         IN  IF partial = NULL THEN [data |-> left, ok |-> TRUE]
             ELSE [data |-> WritePartial(DataCfg, left, new, SelectorsCfg, partial.sel),
                   ok   |-> new # NULL]

Datagram(class, cmd) == [class |-> class, cmd |-> ToJsonObjectItem(CmdCfg, cmd)]

-----------------------------------------------------------------------------
Init ==
    /\ data = EmptyOf(DataCfg) /\ cache = EmptyOf(DataCfg)
    /\ ops \in BOOLEAN
    /\ up = FALSE /\ sub = FALSE /\ read = "no"
    /\ req = <<>> /\ wire = <<>>

(* FunctionUpdateNotifySubscribers: sent to the subscriber, if there is one. *)
FunctionUpdateNotifySubscribers(new, partial, del) ==
    IF sub THEN Append(wire, Datagram("notify", CreateNotifyCmd(new, partial, del)))
    ELSE wire

(* The owner of the server feature sets data (FeatureLocalUpdateData).     *)
FeatureLocalUpdateData(u) ==
    LET r == UpdateData(data, u.data, u.partial, u.del, TRUE)
    IN  /\ Len(req) + Len(wire) < MaxWire
        /\ data' = r.data
        /\ wire' = IF r.ok THEN FunctionUpdateNotifySubscribers(u.data, u.partial, u.del)
                   ELSE wire
        /\ UNCHANGED <<cache, ops, up, sub, read, req>>

(* A use case that finds its server subscribes and then reads the function. *)
SubscribeAndRead ==
    /\ up /\ read = "no"
    /\ Len(req) + Len(wire) + 2 <= MaxWire
    /\ req' = req \o <<Datagram("subscribe", CreateReadCmd), Datagram("read", CreateReadCmd)>>
    /\ read' = "asked"
    /\ UNCHANGED <<data, cache, ops, up, sub, wire>>

(* FeatureLocalWriteToRemote.  To a server without partial writes the      *)
(* remote feature is "updated" without persisting, which changes nothing,  *)
(* and the data it holds is sent.                                          *)
FeatureLocalWriteToRemote(u) ==
    LET full == UpdateData(cache, u.data, NULL, NULL, FALSE).data
        part == IF u.partial = NULL THEN [sel |-> NULL, el |-> NULL] ELSE u.partial
        cmd  == IF ~ops THEN <<NULL, NULL, ChoiceValue(full)>>
                ELSE CreateWriteCmd(u.data, part, u.del)
    IN  /\ up /\ Len(req) + Len(wire) < MaxWire
        /\ u.data # NULL
        /\ req' = Append(req, Datagram("write", cmd))
        /\ UNCHANGED <<data, cache, ops, up, sub, read, wire>>

(* ProcessWrite without approval callbacks: update, notify, answer (the    *)
(* result message is not followed).                                        *)
ProcessWriteFunctionData(cmd) ==
    LET new == ValueOfChoice(cmd[3])
        p   == CmdGetFilterWithType(cmd, "partial")
        d   == CmdGetFilterWithType(cmd, "delete")
        r   == UpdateData(data, new, p, d, TRUE)
    IN  /\ data' = r.data
        /\ wire' = IF r.ok THEN FunctionUpdateNotifySubscribers(new, p, d) ELSE wire
        /\ sub' = sub

(* The server's HandleMessage: a cmd without data is refused.              *)
HandleRequest ==
    LET m   == Head(req)
        cmd == FromJsonObjectItem(CmdCfg, m.cmd)
    IN  /\ req # <<>>
        /\ req' = Tail(req)
        /\ \/ /\ m.class = "subscribe"
              /\ sub' = TRUE /\ UNCHANGED <<data, wire>>
           \/ /\ m.class = "read" /\ cmd[3] # NULL
              /\ wire' = Append(wire, Datagram("reply", CreateReplyCmd(data)))
              /\ UNCHANGED <<data, sub>>
           \/ /\ m.class = "write" /\ cmd[3] # NULL
              /\ ProcessWriteFunctionData(cmd)
        /\ UNCHANGED <<cache, ops, up, read>>

(* The client's ProcessReply and ProcessNotify.                            *)
HandleUpdate ==
    LET m   == Head(wire)
        cmd == FromJsonObjectItem(CmdCfg, m.cmd)
        r   == UpdateData(cache, ValueOfChoice(cmd[3]), CmdGetFilterWithType(cmd, "partial"),
                          CmdGetFilterWithType(cmd, "delete"), TRUE)
    IN  /\ wire # <<>>
        /\ wire' = Tail(wire)
        /\ cache' = IF cmd[3] = NULL THEN cache ELSE r.data
        /\ read' = IF m.class = "reply" THEN "done" ELSE read
        /\ UNCHANGED <<data, ops, up, sub, req>>

Connect ==
    /\ ~up /\ up' = TRUE
    /\ UNCHANGED <<data, cache, ops, sub, read, req, wire>>

(* Both sides drop their remote device: the server its subscriptions, the  *)
(* client the remote feature with its copy.                                *)
Disconnect ==
    /\ up /\ up' = FALSE
    /\ sub' = FALSE /\ read' = "no" /\ req' = <<>> /\ wire' = <<>>
    /\ cache' = EmptyOf(DataCfg)
    /\ UNCHANGED <<data, ops>>

Next ==
    \/ \E u \in Updates : FeatureLocalUpdateData(u)
    \/ \E u \in Writes : FeatureLocalWriteToRemote(u)
    \/ SubscribeAndRead \/ HandleRequest \/ HandleUpdate \/ Connect \/ Disconnect

Spec == Init /\ [][Next]_vars
-----------------------------------------------------------------------------
(* What a list holds for a reader: no list and an empty list are the same. *)
Items(d) == IF d = NULL THEN <<>> ELSE IF d[1] = NULL THEN <<>> ELSE d[1]

(* A client that subscribed, read the function and has received all that   *)
(* the server sent holds the server's data: the updates that               *)
(* FunctionUpdateNotifySubscribers sends, filters included, have the effect *)
(* on the copy that they had on the original, whatever order subscription, *)
(* read, local updates and remote writes came in.                          *)
CopyAgrees == read = "done" /\ wire = <<>> => Items(cache) = Items(data)

IdOf(x) == x[1]

(* The list never holds two items with the same identifier, and no item    *)
(* without one: MergeData updates the stored item.  Updates carry one item *)
(* per identifier.                                                         *)
IdentifiersUnique ==
    \A d \in {data, cache} : LET s == Items(d)
                             IN  \A i, j \in 1..Len(s) : /\ IdOf(s[i]) # NULL
                                                         /\ IdOf(s[i]) = IdOf(s[j]) => i = j

(* What the use cases look up by a template (HelperGetListUniqueMatch,     *)
(* CopyMatching, the iterator): an item is returned exactly when it is the *)
(* only one that carries what the template names, a copy holds all of      *)
(* them in their order, and reading elements gives those fields only.      *)
LookupsExact ==
    LET cfg == DataCfg.fields[1].cfg
        s   == Items(data)
        Templates == {<<IdOf(s[i]), NULL, NULL>> : i \in 1..Len(s)}
                       \cup {<<NULL, s[i][2], NULL>> : i \in 1..Len(s)}
        Fits(t, x) == \A k \in 1..2 : t[k] \in {NULL, x[k]}
    IN  \A t \in Templates :
           LET hits == {i \in 1..Len(s) : Fits(t, s[i])}
               copy == CopyMatching(cfg, s, t)
           IN  /\ GetListUniqueMatch(cfg, s, t) # NULL <=> Cardinality(hits) = 1
               /\ Len(copy) = Cardinality(hits)
               /\ {copy[i] : i \in 1..Len(copy)} = {s[i] : i \in hits}
               /\ \A i \in hits : ReadElements(cfg.of, s[i], NULL, ElementsCfg, <<"set", NULL, NULL>>)
                                    = <<IdOf(s[i]), NULL, NULL>>

(* An item of the message is stored: every field it carries, and of a      *)
(* nested sequence every part it carries, is in the stored item.           *)
HoldsParts(v, s) == s = NULL \/ (v # NULL /\ \A k \in DOMAIN s : s[k] \in {NULL, v[k]})
StoredIn(items, x) ==
    \E j \in 1..Len(items) : /\ IdOf(items[j]) = IdOf(x)
                             /\ x[2] \in {NULL, items[j][2]}
                             /\ HoldsParts(items[j][3], x[3])

(* An owner's update leaves every item alone that neither its data nor its *)
(* delete filter names, stores what it carries, adds nothing else, and of  *)
(* an item that its filter deletes keeps nothing that it does not carry.   *)
UpdateIsMerge ==
    \A u \in {u \in Updates : u.partial # NULL /\ u.partial.sel = NULL} :
       LET old   == Items(data)
           new   == Items(UpdateData(data, u.data, u.partial, u.del, TRUE).data)
           src   == Items(u.data)
           named == {IdOf(src[i]) : i \in 1..Len(src)}
           gone  == IF u.del = NULL \/ u.del.el # NULL THEN {} ELSE {IdOf(u.del.sel)}
       IN  \/ NULL \in named
           \/ /\ \A i \in 1..Len(old) : \/ IdOf(old[i]) \in named \cup gone
                                         \/ \E j \in 1..Len(new) : new[j] = old[i]
              /\ \A i \in 1..Len(src) : StoredIn(new, src[i])
              /\ \A j \in 1..Len(new) :
                    \/ IdOf(new[j]) \in {IdOf(old[i]) : i \in 1..Len(old)} \ gone
                    \/ \E i \in 1..Len(src) : new[j] = src[i]

(* A list is a map from identifiers to items: none twice, an update merges *)
(* into it, and lookups find what is there.                                *)
ListsAreMaps == IdentifiersUnique /\ UpdateIsMerge /\ LookupsExact
=============================================================================
