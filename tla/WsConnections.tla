---------------------------- MODULE WsConnections ----------------------------
(***************************************************************************)
(* The WebSocket of order and balance events, for one user (api/ws/orders).*)
(* Every socket has a coroutine that serves it.  The connection manager    *)
(* keeps one connection for each user, listens to Kafka, and removes       *)
(* closed connections with a worker that is given the user's name only.    *)
(*                                                                         *)
(* A coroutine is interrupted at its awaits: while an old socket is being  *)
(* closed, while a message is being sent, and while it waits for messages. *)
(*                                                                         *)
(* In an orderly behaviour a client connects again only after its last     *)
(* socket was removed, and no send fails.                                  *)
(***************************************************************************)
EXTENDS Integers, FiniteSets

CONSTANTS Sockets,      \* the sockets the user's clients open, each once
          EventTypes,   \* the types of events in use
          NoSocket

ASSUME SocketsAssumption ==
    /\ IsFiniteSet(Sockets)
    /\ NoSocket \notin Sockets

VARIABLES
    orderly,  \* whether sockets do not overlap and sends do not fail
    ws,       \* what each socket and its coroutine are doing
    conn,     \* the socket in _conns, if any
    subs,     \* order_events and balance_events of each ConnectionMeta
    active,   \* active_subscriptions of each coroutine
    closed,   \* length of the queue _closed_connections
    sending   \* the socket to which the listener is sending

wsVars == <<orderly, ws, conn, subs, active, closed, sending>>

\* "closing": authenticated, and closing the user's old socket; "gone": the
\* client has left or was told to, and the coroutine has not noticed yet.
States == {"new", "closing", "open", "gone", "ended"}

-----------------------------------------------------------------------------
(***************************************************************************)
(* ConnectionManager.connect.                                              *)
(***************************************************************************)

MayConnect ==
    orderly =>
        /\ \A s \in Sockets : ws[s] \in {"new", "ended"}
        /\ conn = NoSocket
        /\ closed = 0

\* The new connection takes the place of whatever is there.
Install(s) ==
    /\ conn' = s
    /\ UNCHANGED <<orderly, subs, active, closed, sending>>

\* The token is read and deleted, and the user has no connection.
WsConnect(s) ==
    /\ ws[s] = "new"
    /\ MayConnect
    /\ conn = NoSocket
    /\ ws' = [ws EXCEPT ![s] = "open"]
    /\ Install(s)

\* The user has a connection: its socket is closed.
ConnectAgain(s) ==
    /\ ws[s] = "new"
    /\ MayConnect
    /\ conn # NoSocket
    /\ ws' = [ws EXCEPT ![s] = "closing",
                        ![conn] = IF @ = "open" THEN "gone" ELSE @]
    /\ UNCHANGED <<orderly, conn, subs, active, closed, sending>>

OldSocketClosed(s) ==
    /\ ws[s] = "closing"
    /\ ws' = [ws EXCEPT ![s] = "open"]
    /\ Install(s)

-----------------------------------------------------------------------------
(***************************************************************************)
(* The coroutine of a socket: orders_websocket and its controller.         *)
(***************************************************************************)

\* Variant of Subscribe: the coroutine does not remember.
SubscribeForgets(s, type) ==
    /\ ws[s] = "open"
    /\ conn # NoSocket
    /\ subs' = [subs EXCEPT ![conn] = @ \cup {type}]
    /\ UNCHANGED <<orderly, ws, conn, active, closed, sending>>

\* The subscription is added to the connection the user has now.
Subscribe(s, type) ==
    /\ ws[s] = "open"
    /\ conn # NoSocket
    /\ subs' = [subs EXCEPT ![conn] = @ \cup {type}]
    /\ active' = [active EXCEPT ![s] = @ \cup {type}]
    /\ UNCHANGED <<orderly, ws, conn, closed, sending>>

Unsubscribe(s, type) ==
    /\ ws[s] = "open"
    /\ conn # NoSocket
    /\ subs' = [subs EXCEPT ![conn] = @ \ {type}]
    /\ active' = [active EXCEPT ![s] = @ \ {type}]
    /\ UNCHANGED <<orderly, ws, conn, closed, sending>>

ClientLeaves(s) ==
    /\ ws[s] = "open"
    /\ ws' = [ws EXCEPT ![s] = "gone"]
    /\ UNCHANGED <<orderly, conn, subs, active, closed, sending>>

\* Variant of Finish: the user is not queued.
FinishQuietly(s) ==
    /\ ws[s] = "gone"
    /\ ws' = [ws EXCEPT ![s] = "ended"]
    /\ subs' = IF conn = NoSocket THEN subs
               ELSE [subs EXCEPT ![conn] = @ \ active[s]]
    /\ UNCHANGED <<orderly, conn, active, closed, sending>>

\* The finally block: cleanup_subscriptions acts on the connection the user
\* has now, then disconnect queues the user.
Finish(s) ==
    /\ ws[s] = "gone"
    /\ active[s] = {} \/ conn # NoSocket
    /\ ws' = [ws EXCEPT ![s] = "ended"]
    /\ subs' = IF conn = NoSocket THEN subs
               ELSE [subs EXCEPT ![conn] = @ \ active[s]]
    /\ closed' = closed + 1
    /\ UNCHANGED <<orderly, conn, active, sending>>

\* There are subscriptions to clean up and no connection: ValueError leaves
\* the finally block before the user is queued.
FinishRaises(s) ==
    /\ ws[s] = "gone"
    /\ active[s] # {}
    /\ conn = NoSocket
    /\ ws' = [ws EXCEPT ![s] = "ended"]
    /\ UNCHANGED <<orderly, conn, subs, active, closed, sending>>

-----------------------------------------------------------------------------
(***************************************************************************)
(* _listen, _send_to_client and _cleanup_closed_connections.               *)
(***************************************************************************)

\* An event of the user arrives, and somebody listens.
BeginSend(type) ==
    /\ sending = NoSocket
    /\ conn # NoSocket
    /\ type \in subs[conn]
    /\ IF ws[conn] = "ended"
       THEN closed' = closed + 1 /\ sending' = NoSocket
       ELSE closed' = closed /\ sending' = conn
    /\ UNCHANGED <<orderly, ws, conn, subs, active>>

SendOk ==
    /\ sending # NoSocket
    /\ sending' = NoSocket
    /\ UNCHANGED <<orderly, ws, conn, subs, active, closed>>

\* The send times out or raises: the user is queued.
WsSendFails ==
    /\ ~orderly
    /\ sending # NoSocket
    /\ sending' = NoSocket
    /\ closed' = closed + 1
    /\ UNCHANGED <<orderly, ws, conn, subs, active>>

\* The worker removes whatever connection the user has.
Cleanup ==
    /\ closed > 0
    /\ closed' = closed - 1
    /\ conn' = NoSocket
    /\ UNCHANGED <<orderly, ws, subs, active, sending>>

WsInit ==
    /\ orderly \in BOOLEAN
    /\ ws = [s \in Sockets |-> "new"]
    /\ conn = NoSocket
    /\ subs = [s \in Sockets |-> {}]
    /\ active = [s \in Sockets |-> {}]
    /\ closed = 0
    /\ sending = NoSocket

Coroutine(s) ==
    \/ WsConnect(s)
    \/ ConnectAgain(s)
    \/ OldSocketClosed(s)
    \/ \E type \in EventTypes : Subscribe(s, type) \/ Unsubscribe(s, type)
    \/ ClientLeaves(s)
    \/ Finish(s)
    \/ FinishRaises(s)

Listener ==
    \/ \E type \in EventTypes : BeginSend(type)
    \/ SendOk
    \/ WsSendFails

\* Bound: the listener queues a dead connection once for every event until
\* the worker comes; a longer queue adds nothing.
QueueBound == closed' <= Cardinality(Sockets) + 1

WsNext ==
    /\ \/ \E s \in Sockets : Coroutine(s)
       \/ Listener
       \/ Cleanup
    /\ QueueBound

WsSpec == WsInit /\ [][WsNext]_wsVars

-----------------------------------------------------------------------------
(***************************************************************************)
(* Correctness.                                                            *)
(***************************************************************************)

\* Every variable has its type.
WsTypeOK ==
    /\ orderly \in BOOLEAN
    /\ ws \in [Sockets -> States]
    /\ conn \in Sockets \cup {NoSocket}
    /\ subs \in [Sockets -> SUBSET EventTypes]
    /\ active \in [Sockets -> SUBSET EventTypes]
    /\ closed \in Nat
    /\ sending \in Sockets \cup {NoSocket}

\* A connection that is kept although its coroutine has ended is going to be
\* removed: the user is in the queue.
EndedIsQueued ==
    conn # NoSocket /\ ws[conn] = "ended" => closed > 0

\* In an orderly behaviour an open socket is the user's connection and
\* receives exactly what its client subscribed to: nothing that earlier
\* sockets of the user left behind takes it away.
OpenIsServed ==
    orderly => \A s \in Sockets : ws[s] = "open" => conn = s /\ subs[s] = active[s]

=============================================================================
