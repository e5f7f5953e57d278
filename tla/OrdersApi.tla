------------------------------ MODULE OrdersApi ------------------------------
(***************************************************************************)
(* The orders endpoints: a request commits the rows of its orders and then *)
(* hands a command to the Kafka producer of the process, with awaits in    *)
(* between.  Producer, engine and order event handler are kept as far as   *)
(* the endpoints depend on them: a batch can be lost or sent twice, the    *)
(* engine ignores commands about orders it does not hold and ends at some, *)
(* and the rows follow the engine later or miss what it did.               *)
(*                                                                         *)
(* A linked order is two or three orders created by one request.  Every    *)
(* request is of one user and one symbol, whose commands share a partition.*)
(***************************************************************************)
EXTENDS Integers, Sequences

CONSTANTS
    Reqs,       \* requests that can be served at the same time
    MaxOrders,  \* bound on the orders created
    MaxRequests \* bound on the requests that arrive

ASSUME OrdersApiAssumption == MaxOrders \in Nat /\ MaxRequests \in Nat

VARIABLES
    ids,        \* number of order ids drawn
    rows,       \* status of the order rows
    requests,   \* requests that have arrived so far
    req,        \* what each request is doing
    buffer,     \* commands in the memory of the producer
    log,        \* the partition of the commands topic
    consumed,   \* commands the engine has handled
    running,    \* the engine's process runs
    engine,     \* what became of each order in the engine
    created,    \* orders whose creation was answered
    lost,       \* orders whose creation the producer lost
    missed      \* orders whose last event did not reach their row

engineVars == <<log, consumed, running, engine, missed>>

apiVars == <<ids, rows, requests, req, buffer, engineVars, created, lost>>

OrderIds == 1 .. MaxOrders

NoRow == "none"

Known == {o \in OrderIds : rows[o] # NoRow}

\* late: a change asked for when the creation had been answered already.
Idle == [step |-> "idle", op |-> "new", orders |-> {}, late |-> FALSE]

\* The orders of the next request that creates n of them.
NewIds(n) == ids + 1 .. ids + n

\* _build_db_order for each of them.
NewRows(O) == [o \in OrderIds |-> IF o \in O THEN "PENDING" ELSE rows[o]]

Statuses == {"PENDING", "PLACED", "FILLED", "CANCELLED"}

Command(q) == [op |-> q.op, orders |-> q.orders, late |-> q.late]

At(r, step) == req[r].step = step

\* The orders that the first k commands in the producer's memory create.
BatchCreates(k) == UNION {buffer[i].orders : i \in {j \in 1 .. k : buffer[j].op = "new"}}

\* A request arrives.
Begin(r) ==
    /\ At(r, "idle")
    /\ requests < MaxRequests
    /\ requests' = requests + 1

GoTo(r, step) == req' = [req EXCEPT ![r].step = step]

-----------------------------------------------------------------------------
(***************************************************************************)
(* The endpoints.                                                          *)
(***************************************************************************)

\* Variant of CommitRows: the transaction stays open.
CommitForgotten(r, n, step) ==
    /\ Begin(r)
    /\ ids + n <= MaxOrders
    /\ ids' = ids + n
    /\ req' = [req EXCEPT ![r] = [Idle EXCEPT !.step = step, !.orders = NewIds(n)]]
    /\ UNCHANGED <<rows, buffer, engineVars, created, lost>>

\* OrderService.create up to the commit of the rows.  The session belongs to
\* the dependency's transaction: after the commit any statement on it raises.
CommitRows(r, n, step) ==
    /\ Begin(r)
    /\ ids + n <= MaxOrders
    /\ ids' = ids + n
    /\ rows' = NewRows(NewIds(n))
    /\ req' = [req EXCEPT ![r] = [Idle EXCEPT !.step = step, !.orders = NewIds(n)]]
    /\ UNCHANGED <<buffer, engineVars, created, lost>>

CreateSingle(r) == CommitRows(r, 1, "put")

CreateOCO(r) == CommitRows(r, 2, "refresh")

CreateOTO(r) == CommitRows(r, 2, "refresh")

CreateOTOCO(r) == CommitRows(r, 3, "refresh")

\* The rows of a linked order are read back: the session raises, the client
\* gets an error, the command is never made.
RefreshRaises(r) ==
    /\ At(r, "refresh")
    /\ req' = [req EXCEPT ![r] = Idle]
    /\ UNCHANGED <<ids, rows, requests, buffer, engineVars, created, lost>>

\* modify_order finds the row and the order is not filled according to it.
ModifyRead(r, o) ==
    /\ Begin(r)
    /\ rows[o] # "FILLED"
    /\ req' = [req EXCEPT ![r] = [step |-> "put", op |-> "modify", orders |-> {o}, late |-> o \in created]]
    /\ UNCHANGED <<ids, rows, buffer, engineVars, created, lost>>

\* cancel_order finds the row, whatever its status.
CancelRead(r, o) ==
    /\ Begin(r)
    /\ req' = [req EXCEPT ![r] = [step |-> "put", op |-> "cancel", orders |-> {o}, late |-> o \in created]]
    /\ UNCHANGED <<ids, rows, buffer, engineVars, created, lost>>

\* Variant of PutCommand: without the key a command may overtake others.
PutUnkeyed(r) ==
    /\ At(r, "put")
    /\ buffer' = <<Command(req[r])>> \o buffer
    /\ GoTo(r, "answer")
    /\ UNCHANGED <<ids, rows, requests, engineVars, created, lost>>

\* Variant of PutCommand: the coroutine of put_command is not awaited.
PutForgotten(r) ==
    /\ At(r, "put")
    /\ GoTo(r, "answer")
    /\ UNCHANGED <<ids, rows, requests, buffer, engineVars, created, lost>>

\* put_command: send returns when the command is in the producer's batch.
PutCommand(r) ==
    /\ At(r, "put")
    /\ buffer' = Append(buffer, Command(req[r]))
    /\ GoTo(r, "answer")
    /\ UNCHANGED <<ids, rows, requests, engineVars, created, lost>>

\* send raises: the producer is the one another request has made and not yet
\* started, or the broker is away.  Rows that were committed stay.
PutRaises(r) ==
    /\ At(r, "put")
    /\ req' = [req EXCEPT ![r] = Idle]
    /\ UNCHANGED <<ids, rows, requests, buffer, engineVars, created, lost>>

\* The client is told that the request was accepted.
Answer(r) ==
    LET q == req[r] IN
    /\ At(r, "answer")
    /\ req' = [req EXCEPT ![r] = Idle]
    /\ created' = IF q.op = "new" THEN created \cup q.orders ELSE created
    /\ UNCHANGED <<ids, rows, requests, buffer, engineVars, lost>>

-----------------------------------------------------------------------------
(***************************************************************************)
(* Around the endpoints.                                                   *)
(***************************************************************************)

\* The producer's sender takes a batch, the oldest k commands, and writes it
\* to the partition.  The partition is kept for the batch until it is done.
SendBatch(k, written) ==
    /\ log' = log \o written
    /\ buffer' = SubSeq(buffer, k + 1, Len(buffer))
    /\ UNCHANGED <<ids, rows, requests, req, consumed, running, engine, missed, created>>

BatchSent(k) ==
    /\ SendBatch(k, SubSeq(buffer, 1, k))
    /\ UNCHANGED lost

\* The acknowledgement is lost and the batch sent again: the producer is not
\* idempotent.
BatchResent(k) ==
    /\ SendBatch(k, SubSeq(buffer, 1, k) \o SubSeq(buffer, 1, k))
    /\ UNCHANGED lost

\* The batch expires.  put_command does not await the future send returns.
BatchExpires(k) ==
    /\ SendBatch(k, << >>)
    /\ lost' = lost \cup BatchCreates(k)

\* The API process ends and starts again: requests and batches are gone.
Crash ==
    /\ buffer # << >> \/ \E r \in Reqs : ~At(r, "idle")
    /\ req' = [r \in Reqs |-> Idle]
    /\ lost' = lost \cup BatchCreates(Len(buffer))
    /\ buffer' = << >>
    /\ UNCHANGED <<ids, rows, requests, engineVars, created>>

\* The engine has a command to read.
Reads == running /\ consumed < Len(log)

NextCommand == log[consumed + 1]

\* It is about an order that rests.
AboutResting == \E o \in NextCommand.orders : engine[o] = "PLACED"

\* The status of every order after the command; each change is a new event.
Decide(status) ==
    /\ engine' = status
    /\ missed' = {o \in missed : status[o] = engine[o]}

\* The engine handles the next command; a new order rests, or has ended at
\* once, filled or rejected, and one it does not hold is ignored.
EngineHandles(outcome) ==
    LET c == NextCommand IN
    /\ Reads
    /\ AboutResting => c.op # "modify" /\ <<c.op, outcome>> # <<"new", "PLACED">>
    /\ consumed' = consumed + 1
    /\ Decide([o \in OrderIds |->
         CASE o \in c.orders /\ c.op = "new"                            -> outcome
           [] o \in c.orders /\ c.op = "cancel" /\ engine[o] = "PLACED" -> "CANCELLED"
           [] OTHER                                                     -> engine[o]])
    /\ UNCHANGED <<ids, rows, requests, req, buffer, log, running, created, lost>>

\* The command ends the engine: the events of a modification cannot be made,
\* and a second copy of an order that rests cannot be put on its level.
EngineRaises ==
    /\ Reads
    /\ AboutResting
    /\ NextCommand.op \in {"new", "modify"}
    /\ running' = FALSE
    /\ UNCHANGED <<ids, rows, requests, req, buffer, log, consumed, engine, missed, created, lost>>

\* The rejection of a new order whose side has a level at its price raises
\* when the cancellation was logged.
RejectionRaises ==
    /\ Reads
    /\ NextCommand.op = "new"
    /\ running' = FALSE
    /\ Decide([o \in OrderIds |-> IF o \in NextCommand.orders THEN "CANCELLED" ELSE engine[o]])
    /\ UNCHANGED <<ids, rows, requests, req, buffer, log, consumed, created, lost>>

\* The trade of another user's command fills the order.
EngineFills(o) ==
    /\ running
    /\ engine[o] = "PLACED"
    /\ Decide([engine EXCEPT ![o] = "FILLED"])
    /\ UNCHANGED <<ids, rows, requests, req, buffer, log, consumed, running, created, lost>>

\* The order event handler has an event of the order to read.
RowBehind(o) ==
    /\ engine[o] \notin {"none", rows[o]}
    /\ o \notin missed

\* It brings the row up to date.  It drops an event whose row it does not find.
RowFollows(o) ==
    /\ RowBehind(o)
    /\ rows[o] # NoRow
    /\ rows' = [rows EXCEPT ![o] = engine[o]]
    /\ UNCHANGED <<ids, requests, req, buffer, engineVars, created, lost>>

\* Nothing comes of the event: the handler's except drops it, the fanout has
\* ended, or the event of a copied command is taken for one already recorded.
EventLost(o) ==
    /\ RowBehind(o)
    /\ missed' = missed \cup {o}
    /\ UNCHANGED <<ids, rows, requests, req, buffer, log, consumed, running, engine, created, lost>>

Init ==
    /\ ids = 0
    /\ rows = [o \in OrderIds |-> NoRow]
    /\ requests = 0
    /\ req = [r \in Reqs |-> Idle]
    /\ buffer = << >>
    /\ log = << >>
    /\ consumed = 0
    /\ running = TRUE
    /\ engine = [o \in OrderIds |-> "none"]
    /\ created = {}
    /\ lost = {}
    /\ missed = {}

\* What a request does once it has begun.
Proceed(r) == RefreshRaises(r) \/ PutCommand(r) \/ PutRaises(r) \/ Answer(r)

Arrive(r) ==
    \/ CreateSingle(r)
    \/ CreateOCO(r)
    \/ CreateOTO(r)
    \/ CreateOTOCO(r)
    \/ \E o \in Known : ModifyRead(r, o) \/ CancelRead(r, o)

Deliver == \E k \in 1 .. Len(buffer) : BatchSent(k) \/ BatchResent(k) \/ BatchExpires(k)

Engine ==
    \/ \E outcome \in {"PLACED", "FILLED", "CANCELLED"} : EngineHandles(outcome)
    \/ EngineRaises
    \/ RejectionRaises

Next ==
    \/ \E r \in Reqs : Arrive(r) \/ Proceed(r)
    \/ Deliver
    \/ Crash
    \/ Engine
    \/ \E o \in Known : EngineFills(o) \/ RowFollows(o) \/ EventLost(o)

Spec == Init /\ [][Next]_apiVars

\* A request that has begun is served to its end, the producer does something
\* with every batch, the engine reads as long as it runs, and the handler comes
\* to every event that is delivered to it.
FairSpec ==
    /\ Spec
    /\ \A r \in Reqs : WF_apiVars(Proceed(r))
    /\ WF_apiVars(Deliver)
    /\ WF_apiVars(Engine)
    /\ \A o \in OrderIds : WF_apiVars(RowFollows(o) \/ EventLost(o))

-----------------------------------------------------------------------------
(***************************************************************************)
(* Correctness.                                                            *)
(***************************************************************************)

Commands ==
    [op : {"new", "modify", "cancel"}, orders : SUBSET OrderIds, late : BOOLEAN]

\* Every variable has its type.
TypeOK ==
    /\ ids \in 0 .. MaxOrders
    /\ rows \in [OrderIds -> Statuses \cup {NoRow}]
    /\ requests \in 0 .. MaxRequests
    /\ req \in [Reqs -> [step   : {"idle", "refresh", "put", "answer"},
                         op     : {"new", "modify", "cancel"},
                         orders : SUBSET OrderIds,
                         late   : BOOLEAN]]
    /\ buffer \in Seq(Commands)
    /\ log \in Seq(Commands)
    /\ consumed \in 0 .. Len(log)
    /\ engine \in [OrderIds -> Statuses \cup {"none"}]
    /\ running \in BOOLEAN
    /\ created \subseteq Known
    /\ lost \subseteq Known
    /\ missed \subseteq OrderIds

\* The row of an order is committed before the engine can decide about it, so
\* that the handler drops no event of the order for want of a row.
RowsPrecedeEvents == \A o \in OrderIds : engine[o] # "none" => o \in Known

\* A command, or a request, creates the order.
Creates(c, o) == c.op = "new" /\ o \in c.orders

\* It cancels the order and was asked for after the answer of its creation.
CancelsLate(c, o) == c.op = "cancel" /\ c.late /\ o \in c.orders

\* A cancellation asked for after the creation was answered holds once the
\* engine has read it, and its last copy when a batch was sent twice: the order
\* does not rest, then or later.
LateCancelHolds ==
    \A o \in OrderIds :
        /\ \E i \in 1 .. consumed : CancelsLate(log[i], o)
        /\ \A i \in consumed + 1 .. Len(log) : ~CancelsLate(log[i], o)
        => engine[o] # "PLACED"

\* An order whose creation was answered leaves the status PENDING, unless the
\* producer lost its creation, with the process or in a batch that expired, the
\* engine ended, or the event of what the engine did was lost.
AcceptedIsDecided ==
    \A o \in OrderIds :
        (o \in created) ~> (rows[o] # "PENDING" \/ o \in lost \cup missed \/ ~running)

=============================================================================
