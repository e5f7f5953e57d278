--------------------------- MODULE BalanceManager ---------------------------
(***************************************************************************)
(* The Redis balances of the users of one symbol and the operations of     *)
(* engine/services/balance_manager.py on them.  A wallet is a value; every *)
(* operator is one method, that is, one atomic Lua script.                 *)
(*                                                                         *)
(* The scripts skip an event id they have seen.  Each method call makes a  *)
(* fresh id, so within one run of the engine the skip is never taken and   *)
(* it is left out here.  The write-ahead event that precedes each script   *)
(* is not part of the wallet.                                              *)
(*                                                                         *)
(* Every writing method is decorated with ignore_system_user: a call for   *)
(* the system user does nothing.                                           *)
(***************************************************************************)
EXTENDS Integers

CONSTANTS Users,       \* the users who trade, the system user perhaps included
          System,      \* SYSTEM_USER_ID
          InitCash,    \* cash balance in Redis when the engine starts
          InitAsset    \* balance of the traded asset when the engine starts

ASSUME UsersAssumption ==
    /\ InitCash \in [Users -> Nat]
    /\ InitAsset \in [Users -> Nat]

Balances == [cash : Int, cashEscrow : Int, asset : Int, assetEscrow : Int]

Wallets == [Users -> Balances]

InitWallet == [u \in Users |-> [cash        |-> InitCash[u],
                                cashEscrow  |-> 0,
                                asset       |-> InitAsset[u],
                                assetEscrow |-> 0]]

\* decorators.ignore_system_user around a write of one user's balances.
Update(w, u, balances) ==
    IF u = System THEN w ELSE [w EXCEPT ![u] = balances]

AvailableCash(w, u) == w[u].cash - w[u].cashEscrow

AvailableAsset(w, u) == w[u].asset - w[u].assetEscrow

IncreaseCashEscrow(w, u, amount) ==
    Update(w, u, [w[u] EXCEPT !.cashEscrow = @ + amount])

DecreaseCashEscrow(w, u, amount) ==
    Update(w, u, [w[u] EXCEPT !.cashEscrow = @ - amount])

IncreaseAssetEscrow(w, u, amount) ==
    Update(w, u, [w[u] EXCEPT !.assetEscrow = @ + amount])

DecreaseAssetEscrow(w, u, amount) ==
    Update(w, u, [w[u] EXCEPT !.assetEscrow = @ - amount])

\* LUA_SETTLE_BID: the buyer pays out of escrow and receives the asset.
BidSettled(b, quantity, price) ==
    [cash        |-> b.cash - quantity * price,
     cashEscrow  |-> b.cashEscrow - quantity * price,
     asset       |-> b.asset + quantity,
     assetEscrow |-> b.assetEscrow]

\* LUA_SETTLE_ASK: the seller delivers out of escrow and receives the cash.
AskSettled(b, quantity, price) ==
    [cash        |-> b.cash + quantity * price,
     cashEscrow  |-> b.cashEscrow,
     asset       |-> b.asset - quantity,
     assetEscrow |-> b.assetEscrow - quantity]

SettleBid(w, u, quantity, price) == Update(w, u, BidSettled(w[u], quantity, price))

SettleAsk(w, u, quantity, price) == Update(w, u, AskSettled(w[u], quantity, price))

=============================================================================
