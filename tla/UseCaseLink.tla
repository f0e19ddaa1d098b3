---------------------------- MODULE UseCaseLink ----------------------------
(***************************************************************************)
(* Two devices with one SHIP connection on which the actors of a use case  *)
(* meet: the device with the server features and the one with the clients. *)
(* Each is a record of SpineFeature with the fields of its use cases.      *)
(* Discovery (SpineDevice) is one message in each direction that carries   *)
(* the use cases: the first one on every connection, because a device asks *)
(* for the other's description when the connection is made, before it      *)
(* answers anything.  The end of a connection loses what is under way; both *)
(* devices then drop the remote device.                                    *)
(***************************************************************************)
EXTENDS Specialization, UseCase

VARIABLES scenario, \* which use cases the two devices have, and the bounds of this behaviour
          srv,      \* the device with the servers
          cli,      \* the device with the clients
          up,       \* the connection stands
          links     \* connections made so far

linkVars == <<scenario, srv, cli, up, links>>

Stranger == [entity |-> NULL, useCases |-> None]

(* UseCaseConstruct: the entity of the device announces its use cases.     *)
UseCaseConstruct(x, entity, infos) ==
    x @@ [entity |-> entity, partner |-> Stranger,
          useCases |-> FoldLeft(LAMBDA data, info : UseCaseEntityAddUseCaseInfo(data, entity, info),
                                None, infos)]

Announcement(x) == Send(x, "usecase", NULL, NULL, [entity |-> x.entity, useCases |-> x.useCases])

(* The reply to the request for the use cases of the remote device.        *)
Met(x, m) == [x EXCEPT !.peer = TRUE, !.partner = m.upd]

(* UseCaseGetRemoteEntityWithAddress: the remote entity, if it is there    *)
(* and fits the use case.                                                  *)
UseCaseGetRemoteEntityWithAddress(x, info) ==
    x.peer /\ UseCaseIsEntityCompatible(info, x.partner.useCases, x.partner.entity)

Connect ==
    /\ ~up /\ links < scenario.maxLinks
    /\ up' = TRUE /\ links' = links + 1
    /\ srv' = Announcement(srv) /\ cli' = Announcement(cli)
    /\ UNCHANGED scenario

Disconnect ==
    /\ up
    /\ up' = FALSE
    /\ srv' = [CleanRemoteDeviceCaches(OnRemoved(srv)) EXCEPT !.partner = Stranger]
    /\ cli' = [CleanRemoteDeviceCaches(OnRemoved(cli)) EXCEPT !.partner = Stranger]
    /\ UNCHANGED <<scenario, links>>

(* The server, respectively the client, takes the oldest message, after    *)
(* which it is x.                                                          *)
ServerReceives(x) ==
    /\ up /\ cli.out # None
    /\ srv' = x
    /\ cli' = [cli EXCEPT !.out = Tail(@)]
    /\ UNCHANGED <<scenario, up, links>>

ClientReceives(x) ==
    /\ up /\ srv.out # None
    /\ cli' = x
    /\ srv' = [srv EXCEPT !.out = Tail(@)]
    /\ UNCHANGED <<scenario, up, links>>

ServerDoes(x) == srv' = x /\ UNCHANGED <<scenario, cli, up, links>>
ClientDoes(x) == cli' = x /\ UNCHANGED <<scenario, srv, up, links>>

Quiet == up /\ srv.out = None /\ cli.out = None /\ srv.peer /\ cli.peer
=============================================================================
