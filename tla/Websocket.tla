------------------------------ MODULE Websocket -----------------------------
(***************************************************************************)
(* One websocket (src/src/ship/websocket): the object that a SHIP          *)
(* connection writes to and hears from, as a client with a thread of its   *)
(* own or as a server's, served by the thread of the HTTP server.          *)
(*                                                                         *)
(* pc is the place of the service thread: "connect" before a client dials, *)
(* "service" between two callbacks of lws_service, "stagger" and           *)
(* "receiving" between the test and the use of the pointer in a stagger    *)
(* and in a receive callback, "reading" with a message in hand for the     *)
(* owner, "admitted" and "pushing" in the course of                        *)
(* HttpServerOnClientConnect.  closer is the place of an owner that closes *)
(* a server's websocket: "unbinding" with the pointer read, "clearing"     *)
(* with the table done.  libwebsockets is external: conn is its            *)
(* connection, want a request for a writeable callback, and "live" the     *)
(* pointer to it, which dangles once conn is "gone".  The owner closes a   *)
(* websocket before it deletes it (ship_connection.c).  Data are sequences *)
(* of bytes; allocation does not fail.                                     *)
(*                                                                         *)
(* undefined has what the code used and should not have: [use, of].        *)
(***************************************************************************)
EXTENDS Naturals, Sequences, SequencesExt

CONSTANTS Messages,     \* what the owner writes
          QueueSize,    \* kWriteQueueSize
          MaxInput,     \* kMaxInputMsgSize
          Bytes,
          Scripts,      \* what a peer may send: sequences of [data, final]
          Identities,   \* [ski, fingerprint] of certificates, and what is expected of one
          NoId

ASSUME WebsocketAssumption ==
    /\ QueueSize \in Nat /\ MaxInput \in Nat
    /\ Scripts \subseteq Seq([data : Seq(Bytes), final : BOOLEAN])

VARIABLE w

NewWebsocket(side, expected, cert, script) ==
    [side |-> side, life |-> "none", expected |-> expected, cert |-> cert,
     wsi |-> "null", closed |-> FALSE, queue |-> <<>>, buf |-> <<>>, cancel |-> FALSE,
     pc |-> "none", conn |-> "none", want |-> FALSE, user |-> FALSE, entry |-> FALSE,
     closer |-> "idle", fingerprint |-> NoId, early |-> FALSE, inHand |-> <<>>, script |-> script, incoming |-> script,
     told |-> <<>>, ended |-> FALSE, accepted |-> <<>>, got |-> <<>>, undefined |-> {}]

-----------------------------------------------------------------------------
(* What client and server share (websocket.c).                             *)

WebsocketUserCallback(d, message) == [d EXCEPT !.told = Append(@, message)]
WebsocketUserCallbackEnd(d) == [d EXCEPT !.ended = TRUE]

WebsocketClose(d) == [d EXCEPT !.wsi = "null", !.closed = TRUE]

WebsocketTryWrite(d, msg) ==
    IF d.closed \/ Len(d.queue) >= QueueSize THEN d
    ELSE [d EXCEPT !.queue = Append(@, msg), !.accepted = Append(@, msg)]

(* The code uses what is not there any more.                               *)
Uses(d, use, of) == [d EXCEPT !.undefined = @ \cup {[use |-> use, of |-> of]}]

(* lws_callback_on_writable() through the pointer as it is now.            *)
RequestWritable(d) ==
    IF d.wsi = "null" THEN Uses(d, "stagger", "null pointer")
    ELSE IF d.conn = "gone" THEN Uses(d, "stagger", "freed connection")
    ELSE [d EXCEPT !.want = TRUE]

WebsocketScheduleWrite(d) == IF d.queue = <<>> THEN d ELSE RequestWritable(d)

BufTmpAppend(d, data) == [d EXCEPT !.buf = @ \o data]
BufTmpRelease(d) == [d EXCEPT !.buf = <<>>]

(* Variant: the fragments before are left out of the size.                 *)
FitsAlone(d, data) == Len(data) <= MaxInput

Fits(d, data) == Len(data) <= MaxInput /\ Len(d.buf) <= MaxInput - Len(data)

-----------------------------------------------------------------------------
(* The end of a connection in lws, with the callback it makes.  The server *)
(* closes the websocket first (HttpServerOnConnectionClose), in the thread *)
(* that serves the connection; the client leaves the pointer as it is      *)
(* until the owner closes.                                                 *)

HttpServerUnbindWsi(d) == IF d.wsi = "null" THEN d ELSE [d EXCEPT !.entry = FALSE, !.user = FALSE]

WebsocketServerClose(d) == WebsocketClose(HttpServerUnbindWsi(d))

LwsCloses(d) ==
    LET gone == [d EXCEPT !.conn = "gone", !.want = FALSE]
    IN  IF d.side = "client" THEN WebsocketUserCallbackEnd(gone)
        ELSE IF d.user THEN WebsocketUserCallbackEnd(WebsocketServerClose(gone))
        ELSE gone

(* The pointer is tested, and the size.                                    *)
WebsocketOnReceive(d, fragment) ==
    IF d.wsi = "null" THEN LwsCloses([d EXCEPT !.incoming = Tail(@)])
    ELSE IF ~Fits(d, fragment.data) THEN LwsCloses(BufTmpRelease([d EXCEPT !.incoming = Tail(@)]))
    ELSE [d EXCEPT !.pc = "receiving"]

(* The pointer is read again, to ask lws whether the fragment is the last. *)
WebsocketOnReceiveGoesOn(d, fragment) ==
    IF d.wsi = "null" THEN Uses(d, "receive", "null pointer")
    ELSE IF fragment.final
    THEN BufTmpRelease([d EXCEPT !.pc = "reading", !.inHand = BufTmpAppend(d, fragment.data).buf])
    ELSE BufTmpAppend(d, fragment.data)

(* The next message goes out, and another callback is asked for.           *)
WebsocketOnWritable(d, fails) ==
    IF d.wsi = "null" \/ d.queue = <<>> THEN d
    ELSE LET r == [d EXCEPT !.queue = Tail(@)]
         IN  IF fails THEN LwsCloses(r)
             ELSE [r EXCEPT !.got = Append(@, Head(d.queue)), !.want = TRUE]

-----------------------------------------------------------------------------
(* The client: parsing of the URI, context, thread (websocket_client.c).   *)

(* The scheme must be wss.  A client that cannot be started is deleted.    *)
WebsocketClientOpen(uri) ==
    /\ w.side = "client" /\ w.life = "none"
    /\ uri = "wss"
    /\ w' = [w EXCEPT !.life = "open", !.pc = "connect"]

WebsocketClientOpenFails(uri) ==
    /\ w.side = "client" /\ w.life = "none"
    /\ uri \in {"malformed", "ws"}
    /\ w' = [w EXCEPT !.life = "deleted"]

(* The loop dials; the pointer is stored whatever Close did before.        *)
WebsocketClientLoopDials(fails) ==
    /\ w.pc = "connect"
    /\ w' = IF fails THEN WebsocketUserCallbackEnd([w EXCEPT !.wsi = "null", !.pc = "ended"])
            ELSE [w EXCEPT !.wsi = "live", !.conn = "dialling", !.pc = "service"]

Matches(expected, actual) == expected = NoId \/ expected = actual

IdentityAccepted(d) ==
    /\ d.expected.ski # NoId \/ d.expected.fingerprint # NoId
    /\ Matches(d.expected.fingerprint, d.cert.fingerprint)
    /\ Matches(d.expected.ski, d.cert.ski)

WebsocketClientOnClientEstablished ==
    /\ w.side = "client" /\ w.pc = "service" /\ w.conn = "dialling"
    /\ w' = IF IdentityAccepted(w) /\ w.wsi # "null"
            THEN [w EXCEPT !.conn = "up", !.want = TRUE]
            ELSE LwsCloses(w)

(* lws clears the pointer of a connection that could not be made.          *)
WebsocketClientOnClientConnectionError ==
    /\ w.side = "client" /\ w.pc = "service" /\ w.conn = "dialling"
    /\ w' = WebsocketUserCallbackEnd([w EXCEPT !.conn = "gone", !.wsi = "null"])

WebsocketClientLoopEnds ==
    /\ w.side = "client" /\ w.pc = "service"
    /\ w.cancel \/ w.wsi = "null"
    /\ w' = [w EXCEPT !.pc = "ended"]

-----------------------------------------------------------------------------
(* The server (http_server.c, websocket_server.c).                         *)

(* The context and the thread, and a peer that asks for a connection.      *)
HttpServerTryStart ==
    /\ w.side = "server" /\ w.pc = "none"
    /\ w' = [w EXCEPT !.pc = "service", !.conn = "dialling"]

WebsocketServerOpen(d) == [d EXCEPT !.life = "open", !.wsi = "live", !.user = TRUE]

(* The peer's fingerprint is there for the callback alone, in which the    *)
(* node admits the peer and opens the websocket, or does not.              *)
HttpServerOnClientConnect ==
    /\ w.side = "server" /\ w.conn = "dialling"
    /\ \/ /\ w.pc = "service" /\ w.cert.ski = NoId
          /\ w' = LwsCloses(w)
       \/ /\ w.pc = "service" /\ w.cert.ski # NoId
          /\ w' = [w EXCEPT !.pc = "admitting", !.fingerprint = w.cert.fingerprint]
       \/ /\ w.pc = "admitting"   \* conn_establish_cb refuses
          /\ w' = LwsCloses([w EXCEPT !.pc = "service", !.fingerprint = NoId])
       \/ /\ w.pc = "admitting"   \* WebsocketServerOpen
          /\ w' = WebsocketServerOpen([w EXCEPT !.pc = "admitted", !.fingerprint = NoId])
       \/ /\ w.pc = "admitted"
          /\ w' = IF w.user THEN [w EXCEPT !.pc = "pushing"]
                  ELSE LwsCloses([w EXCEPT !.pc = "service"])
       \/ /\ w.pc = "pushing"
          /\ w' = [w EXCEPT !.pc = "service", !.conn = "up", !.entry = TRUE]

HttpServerStop ==
    /\ w.side = "server" /\ w.pc # "none" /\ ~w.cancel
    /\ w' = [w EXCEPT !.cancel = TRUE]

HttpServerConnectionLoopEnds ==
    /\ w.side = "server" /\ w.pc = "service" /\ w.cancel
    /\ w' = [w EXCEPT !.pc = "ended"]

(* Destruct after Stop: the context takes its connections with it.         *)
HttpServerDestruct ==
    /\ w.side = "server" /\ w.pc = "ended" /\ w.conn \notin {"none", "gone"}
    /\ w' = LwsCloses(w)

-----------------------------------------------------------------------------
(* The callbacks of the service thread.                                    *)

Stagger ==
    /\ w.pc = "service"
    /\ w.side = "client" \/ w.entry
    /\ IF w.life = "deleted" THEN w' = Uses(w, "stagger", "freed object")
       ELSE ~w.closed /\ w' = [w EXCEPT !.pc = "stagger"]

StaggerSchedules ==
    /\ w.pc = "stagger"
    /\ w' = WebsocketScheduleWrite([w EXCEPT !.pc = "service"])

OnWritable(fails) ==
    /\ w.pc = "service" /\ w.conn = "up" /\ w.want
    /\ w' = IF w.side = "server" /\ ~w.user THEN LwsCloses([w EXCEPT !.want = FALSE])
            ELSE WebsocketOnWritable([w EXCEPT !.want = FALSE], fails)

OnReceive ==
    /\ w.pc = "service" /\ w.conn = "up" /\ w.incoming # <<>>
    /\ w' = IF w.side = "server" /\ ~w.user THEN LwsCloses([w EXCEPT !.incoming = Tail(@)])
            ELSE WebsocketOnReceive(w, Head(w.incoming))

(* Whatever the owner did after the test.                                  *)
OnReceiveGoesOn ==
    /\ w.pc = "receiving"
    /\ LET d == [w EXCEPT !.pc = "service", !.incoming = Tail(@)]
       IN  w' = IF w.life = "deleted" THEN Uses(d, "receive", "freed object")
                ELSE WebsocketOnReceiveGoesOn(d, Head(w.incoming))

(* The owner is handed the message.                                        *)
OnReceiveTells ==
    /\ w.pc = "reading"
    /\ LET d == [w EXCEPT !.pc = "service", !.inHand = <<>>]
       IN  w' = IF w.life = "deleted" THEN Uses(d, "receive", "freed object")
                ELSE WebsocketUserCallback(d, w.inHand)

PeerCloses ==
    /\ w.pc = "service" /\ w.conn = "up"
    /\ w' = LwsCloses(w)

-----------------------------------------------------------------------------
(* The owner.                                                              *)

WebsocketWrite(msg) ==
    /\ w.life = "open" /\ msg \notin {w.accepted[i] : i \in DOMAIN w.accepted}
    /\ w' = WebsocketTryWrite(w, msg)

(* Variant: the table is changed without the mutex of the server.          *)
TableIsFreeUnlocked == TRUE

(* A server's stagger callback holds the mutex that the unbinding takes.   *)
TableIsFree == w.side = "server" => w.pc # "stagger"

(* A server's websocket reads the pointer before anything is locked (one   *)
(* that is closed finds none, and changes nothing).                        *)
Close ==
    /\ w.life = "open" /\ ~w.closed /\ w.closer = "idle"
    /\ w' = IF w.side = "server" THEN [w EXCEPT !.closer = "unbinding"] ELSE WebsocketClose(w)

(* The table, and the user of a connection that lws may have closed.       *)
CloseUnbinds ==
    /\ w.closer = "unbinding" /\ TableIsFree
    /\ LET d == [w EXCEPT !.closer = "clearing", !.entry = FALSE, !.user = FALSE,
                          !.early = @ \/ w.pc \in {"admitted", "pushing"}]
       IN  w' = IF w.conn = "gone" THEN Uses(d, "unbind", "freed connection") ELSE d

CloseClears ==
    /\ w.closer = "clearing"
    /\ w' = WebsocketClose([w EXCEPT !.closer = "idle"])

LoopJoined == w.side = "client" => w.pc = "ended"

(* A client is told to end, joined, and its context destroyed, which ends  *)
(* a connection that is still up.                                          *)
WebsocketDestruct ==
    /\ w.life \in {"open", "deleting"} /\ w.closed /\ w.closer = "idle"
    /\ \/ w.life = "open" /\ w' = [w EXCEPT !.life = "deleting", !.cancel = @ \/ w.side = "client"]
       \/ /\ w.life = "deleting" /\ LoopJoined
          /\ LET d == [w EXCEPT !.life = "deleted", !.wsi = "null"]
             IN  w' = IF w.side = "client" /\ w.conn \in {"dialling", "up"} THEN LwsCloses(d) ELSE d

-----------------------------------------------------------------------------
WebsocketInit ==
    \E side \in {"client", "server"}, e \in Identities, c \in Identities, s \in Scripts :
       w = NewWebsocket(side, e, c, s)

Serving ==
    \/ \E fails \in BOOLEAN : OnWritable(fails) \/ WebsocketClientLoopDials(fails)
    \/ WebsocketClientOnClientEstablished \/ WebsocketClientOnClientConnectionError
    \/ WebsocketClientLoopEnds
    \/ HttpServerOnClientConnect \/ HttpServerConnectionLoopEnds
    \/ StaggerSchedules \/ OnReceive \/ OnReceiveGoesOn \/ OnReceiveTells

WebsocketNext ==
    \/ Serving \/ Stagger \/ PeerCloses
    \/ \E uri \in {"wss", "ws", "malformed"} :
          WebsocketClientOpen(uri) \/ WebsocketClientOpenFails(uri)
    \/ HttpServerTryStart \/ HttpServerStop \/ HttpServerDestruct
    \/ \E msg \in Messages : WebsocketWrite(msg)
    \/ Close \/ CloseUnbinds \/ CloseClears \/ WebsocketDestruct

WebsocketSpec == WebsocketInit /\ [][WebsocketNext]_w

-----------------------------------------------------------------------------
(* One more fragment: it ends a message, which is then whole, or not.      *)
WithFragment(m, f) ==
    IF f.final THEN [done |-> Append(m.done, m.part \o f.data), part |-> <<>>]
    ELSE [done |-> m.done, part |-> m.part \o f.data]

(* What the first n fragments of a script amount to: the messages that are *)
(* whole, and the beginning of one that is not.                            *)
Assembled(script) ==
    LET after[n \in 0 .. Len(script)] ==
          IF n = 0 THEN [done |-> <<>>, part |-> <<>>] ELSE WithFragment(after[n - 1], script[n])
    IN  after

MessagesOf(script) == Assembled(script)[Len(script)].done

(* The owner hears the peer's messages, whole, in their order and none     *)
(* longer than kMaxInputMsgSize, and the peer gets what WebsocketWrite     *)
(* accepted, in its order; a client exchanges messages only with a peer    *)
(* whose certificate is all that was demanded of it (WebsocketOnReceive,   *)
(* BufTmpAppend, WebsocketOnWritable, WebsocketClientOnClientEstablished). *)
StreamIntact ==
    /\ IsPrefix(w.told, MessagesOf(w.script))
    /\ \A i \in DOMAIN w.told : Len(w.told[i]) <= MaxInput
    /\ IsPrefix(w.got, w.accepted)
    /\ w.side = "client" /\ (w.told # <<>> \/ w.got # <<>>) =>
          /\ w.expected.ski # NoId \/ w.expected.fingerprint # NoId
          /\ w.expected.ski \in {NoId, w.cert.ski}
          /\ w.expected.fingerprint \in {NoId, w.cert.fingerprint}

(* No callback of a client runs on a deleted object, because Destruct      *)
(* joins the thread.  A server's stagger callback never uses a pointer     *)
(* that was cleared after it was tested, a connection that is gone or a    *)
(* deleted websocket, and its table has no websocket that is closed,       *)
(* because the unbinding waits for the mutex that the callback holds and   *)
(* comes before the pointer is cleared - unless the unbinding came while   *)
(* HttpServerOnClientConnect was on its way, which then adds a websocket   *)
(* that nobody removes.  Left out, because nothing in the code prevents    *)
(* it: a client's stagger callback and any receive callback may use a      *)
(* pointer that was cleared after its test (websocket.c:194 and 186, 270   *)
(* and 282), a server's receive callback a deleted websocket, and the      *)
(* unbinding a connection that lws closed meanwhile (websocket_server.c:   *)
(* 113, http_server.c:352).                                                *)
CallbacksSafe ==
    /\ w.side = "client" => \A u \in w.undefined : u.of # "freed object"
    /\ w.side = "server" /\ ~w.early => /\ \A u \in w.undefined : u.use # "stagger"
                                        /\ w.entry => ~w.closed
=============================================================================
