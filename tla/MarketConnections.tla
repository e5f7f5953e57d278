-------------------------- MODULE MarketConnections --------------------------
(***************************************************************************)
(* The WebSocket of market data (api/routers/markets): the connection      *)
(* manager with its sets of subscribers, its Kafka listener and its        *)
(* cleanup worker, and the coroutine that serves each socket.              *)
(*                                                                         *)
(* A feed is what a client subscribes to: the trades or the order book of  *)
(* a symbol, or its bars of one time frame.                                *)
(*                                                                         *)
(* A manager that was not started neither listens nor cleans up.  The      *)
(* application starts a manager of its own and the router serves its       *)
(* clients with another one, so in the application started is FALSE.       *)
(***************************************************************************)
EXTENDS Integers, Sequences, FiniteSets

CONSTANTS Clients,   \* the sockets
          Feeds,     \* the feeds in use
          MaxQueue   \* bound: the length of the queue of closed sockets

ASSUME MaxQueueAssumption == MaxQueue \in Nat

VARIABLES
    started,   \* whether start was called on the manager in use
    socket,    \* "new", "open", "gone" or "ended"
    listed,    \* keys of _conn_subscriptions
    wants,     \* the feeds in _conn_subscriptions of each socket
    conns,     \* _bar_conns, _trade_conns and _ob_conns: the sockets of a feed
    closedConns,  \* _closed_connections
    receivers, \* sockets the broadcast in progress still has to reach
    torn       \* history: the sockets whose last subscription raised

mktVars == <<started, socket, listed, wants, conns, closedConns, receivers, torn>>

UnsubscribeAll(s) == [f \in Feeds |-> conns[f] \ {s}]

MktConnect(s) ==
    /\ socket[s] = "new"
    /\ socket' = [socket EXCEPT ![s] = "open"]
    /\ listed' = listed \cup {s}
    /\ UNCHANGED <<started, wants, conns, closedConns, receivers, torn>>

\* Variant of MktSubscribe: the earlier feeds are kept.
SubscribeMore(s, feeds) ==
    /\ socket[s] = "open"
    /\ conns' = [f \in Feeds |-> IF f \in feeds THEN conns[f] \cup {s} ELSE conns[f]]
    /\ listed' = listed \cup {s}
    /\ wants' = [wants EXCEPT ![s] = feeds]
    /\ torn' = torn \ {s}
    /\ UNCHANGED <<started, socket, closedConns, receivers>>

\* A subscription replaces the earlier one.
MktSubscribe(s, feeds) ==
    /\ socket[s] = "open"
    /\ conns' = [f \in Feeds |-> IF f \in feeds THEN conns[f] \cup {s}
                                 ELSE UnsubscribeAll(s)[f]]
    /\ listed' = listed \cup {s}
    /\ wants' = [wants EXCEPT ![s] = feeds]
    /\ torn' = torn \ {s}
    /\ UNCHANGED <<started, socket, closedConns, receivers>>

\* A request that is no subscription (null for a list, a bar that is no object):
\* subscribe raises when the socket was taken off the sets and put on those of
\* the feeds read so far.  The router answers with an error and goes on.
MktSubscribeRaises(s, feeds) ==
    /\ socket[s] = "open"
    /\ conns' = [f \in Feeds |-> IF f \in feeds THEN conns[f] \cup {s}
                                 ELSE UnsubscribeAll(s)[f]]
    /\ torn' = torn \cup {s}
    /\ UNCHANGED <<started, socket, listed, wants, closedConns, receivers>>

MktClientLeaves(s) ==
    /\ socket[s] = "open"
    /\ socket' = [socket EXCEPT ![s] = "gone"]
    /\ UNCHANGED <<started, listed, wants, conns, closedConns, receivers, torn>>

\* ConnectionManager.disconnect
Enqueue(s) ==
    /\ Len(closedConns) < MaxQueue
    /\ closedConns' = Append(closedConns, s)

\* The finally block of market_websocket.
Disconnect(s) ==
    /\ socket[s] = "gone"
    /\ socket' = [socket EXCEPT ![s] = "ended"]
    /\ Enqueue(s)
    /\ UNCHANGED <<started, listed, wants, conns, receivers, torn>>

\* An event of a feed arrives.  Only a manager that was started listens.
Broadcast(f) ==
    /\ receivers = {}
    /\ receivers' = IF started THEN conns[f] ELSE {}
    /\ UNCHANGED <<started, socket, listed, wants, conns, closedConns, torn>>

MktSendOk(s) ==
    /\ s \in receivers
    /\ socket[s] = "open"
    /\ receivers' = receivers \ {s}
    /\ UNCHANGED <<started, socket, listed, wants, conns, closedConns, torn>>

\* The send times out or raises.
MktSendFails(s) ==
    /\ s \in receivers
    /\ receivers' = receivers \ {s}
    /\ Enqueue(s)
    /\ UNCHANGED <<started, socket, listed, wants, conns, torn>>

\* Variant of CleanupWorker: only the entry of the socket is deleted.
CleanupEntryOnly ==
    /\ started
    /\ closedConns # << >>
    /\ closedConns' = Tail(closedConns)
    /\ listed' = listed \ {Head(closedConns)}
    /\ wants' = [wants EXCEPT ![Head(closedConns)] = {}]
    /\ torn' = torn \ {Head(closedConns)}
    /\ UNCHANGED <<started, socket, conns, receivers>>

\* _cleanup_worker, which runs in a manager that was started.
CleanupWorker ==
    /\ started
    /\ closedConns # << >>
    /\ closedConns' = Tail(closedConns)
    /\ conns' = UnsubscribeAll(Head(closedConns))
    /\ listed' = listed \ {Head(closedConns)}
    /\ wants' = [wants EXCEPT ![Head(closedConns)] = {}]
    /\ torn' = torn \ {Head(closedConns)}
    /\ UNCHANGED <<started, socket, receivers>>

MktInit ==
    /\ started \in BOOLEAN
    /\ socket = [s \in Clients |-> "new"]
    /\ listed = {}
    /\ wants = [s \in Clients |-> {}]
    /\ conns = [f \in Feeds |-> {}]
    /\ closedConns = << >>
    /\ receivers = {}
    /\ torn = {}

Client(s) ==
    \/ MktConnect(s)
    \/ \E feeds \in SUBSET Feeds : MktSubscribe(s, feeds) \/ MktSubscribeRaises(s, feeds)
    \/ MktClientLeaves(s)
    \/ Disconnect(s)
    \/ MktSendOk(s)
    \/ MktSendFails(s)

MktNext ==
    \/ \E s \in Clients : Client(s)
    \/ \E f \in Feeds : Broadcast(f)
    \/ CleanupWorker

MktSpec == MktInit /\ [][MktNext]_mktVars

-----------------------------------------------------------------------------
(***************************************************************************)
(* Correctness.                                                            *)
(***************************************************************************)

\* Every variable has its type.
MktTypeOK ==
    /\ started \in BOOLEAN
    /\ socket \in [Clients -> {"new", "open", "gone", "ended"}]
    /\ listed \subseteq Clients
    /\ wants \in [Clients -> SUBSET Feeds]
    /\ conns \in [Feeds -> SUBSET Clients]
    /\ closedConns \in Seq(Clients)
    /\ receivers \subseteq Clients
    /\ torn \subseteq Clients

\* A socket receives the feeds of its subscription and no others, and nothing
\* once it is not listed, with cleanups of sockets that are still open and
\* subscribe again.  The one exception is a socket whose last request raised in
\* the middle of subscribe: it may receive anything until it subscribes again or
\* is cleaned up, but what its request left behind reaches no other socket and
\* does not outlast its next subscription.
ConnsMatchSubscriptions ==
    \A f \in Feeds, s \in Clients \ torn :
        s \in conns[f] <=> s \in listed /\ f \in wants[s]

\* A manager that was started forgets a socket that has ended.
EndedForgotten ==
    \A s \in Clients :
        started /\ socket[s] = "ended" ~> s \notin listed /\ \A f \in Feeds : s \notin conns[f]

=============================================================================
