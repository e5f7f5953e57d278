--------------------------- MODULE OrderLifecycle ---------------------------
(***************************************************************************)
(* What an order's status may do, whoever keeps it: the engine by its      *)
(* store and its fills, the database by a row, a client by the events.     *)
(* Several orders may move in one step, as the two sides of a trade do.    *)
(***************************************************************************)
CONSTANT Orders

VARIABLE status

\* OrderStatus, without PARTIALLY_FILLED, which is a placed order too.
Statuses == {"pending", "placed", "filled", "cancelled"}

Moves == {<<"pending", "placed">>, <<"pending", "filled">>, <<"pending", "cancelled">>,
          <<"placed", "filled">>, <<"placed", "cancelled">>}

Init == status = [o \in Orders |-> "pending"]

Next ==
    /\ status' \in [Orders -> Statuses]
    /\ \A o \in Orders :
         status'[o] = status[o] \/ <<status[o], status'[o]>> \in Moves

Spec == Init /\ [][Next]_status

=============================================================================
