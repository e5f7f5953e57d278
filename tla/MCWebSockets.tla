---------------------------- MODULE MCWebSockets ----------------------------
(***************************************************************************)
(* Both connection managers for TLC.  They run in one process and share no *)
(* state, so that it is enough to look at one of them at a time: which one *)
(* is chosen at the start.                                                 *)
(***************************************************************************)
EXTENDS WsConnections, MarketConnections

CONSTANTS w1, w2, w3, none    \* model values

VARIABLE manager    \* "orders" or "markets"

socketVars == <<manager, wsVars, mktVars>>

SocketsInit ==
    /\ manager \in {"orders", "markets"}
    /\ WsInit
    /\ MktInit
    /\ manager = "orders" => started
    /\ manager = "markets" => orderly

OrdersNext == WsNext /\ UNCHANGED <<manager, mktVars>>

MarketsNext == MktNext /\ UNCHANGED <<manager, wsVars>>

SocketsNext ==
    \/ manager = "orders" /\ OrdersNext
    \/ manager = "markets" /\ MarketsNext

\* The cleanup worker of the market data runs whenever its queue is not empty.
SocketsSpec ==
    /\ SocketsInit
    /\ [][SocketsNext]_socketVars
    /\ WF_socketVars(manager = "markets" /\ CleanupWorker /\ UNCHANGED <<manager, wsVars>>)

=============================================================================
