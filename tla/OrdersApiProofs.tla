--------------------------- MODULE OrdersApiProofs ---------------------------
(***************************************************************************)
(* Proofs about OrdersApi for any number of requests and orders: types,    *)
(* that rows precede events, and that late cancellations hold.             *)
(*                                                                         *)
(* RowsPrecedeEvents is not inductive: a command on its way must be known  *)
(* to be about committed rows.  TrailKnown says so of the whole trail of a *)
(* command: request, producer's batch, partition.                          *)
(***************************************************************************)
EXTENDS OrdersApi, TLAPS

\* What a request, a batched command and a command in the topic are about has
\* a row.
TrailKnown ==
    /\ \A r \in Reqs : req[r].orders \subseteq Known
    /\ \A i \in 1 .. Len(buffer) : buffer[i].orders \subseteq Known
    /\ \A i \in 1 .. Len(log) : log[i].orders \subseteq Known

\* The inductive invariant of the endpoints.
ApiInv == TypeOK /\ TrailKnown /\ RowsPrecedeEvents

Requests ==
    [step : {"idle", "refresh", "put", "answer"}, op : {"new", "modify", "cancel"},
     orders : SUBSET OrderIds, late : BOOLEAN]

-----------------------------------------------------------------------------
\* A row, once committed, stays: no action takes an order out of Known.
LEMMA KnownGrows ==
    ASSUME NEW O \in SUBSET OrderIds, rows \in [OrderIds -> Statuses \cup {NoRow}],
           rows' = NewRows(O)
    PROVE  /\ rows' \in [OrderIds -> Statuses \cup {NoRow}]
           /\ Known' = Known \cup O
  BY DEF NewRows, Known, Statuses, NoRow

\* An idle request is a request about nothing.
LEMMA IdleIsRequest == Idle \in Requests /\ Idle.orders = {}
  BY DEF Idle, Requests

\* The states a run begins in.
LEMMA ApiInit == Init => ApiInv
  <1> SUFFICES ASSUME Init PROVE ApiInv
    OBVIOUS
  <1>1. TypeOK
    BY OrdersApiAssumption, IdleIsRequest
    DEF Init, TypeOK, Statuses, NoRow, Known, Requests, Commands
  <1>2. TrailKnown
    BY IdleIsRequest DEF Init, TrailKnown
  <1>3. RowsPrecedeEvents
    BY DEF Init, RowsPrecedeEvents
  <1> QED
    BY <1>1, <1>2, <1>3 DEF ApiInv

\* Creating rows: the ids of the request are new and all of them get a row.
LEMMA CommitStep ==
    ASSUME ApiInv, NEW r \in Reqs, NEW n \in {1, 2, 3}, NEW step \in {"put", "refresh"},
           CommitRows(r, n, step)
    PROVE  ApiInv'
  <1> DEFINE O == NewIds(n)
             q == [Idle EXCEPT !.step = step, !.orders = O]
  <1>1. ids' \in 0 .. MaxOrders /\ requests' \in 0 .. MaxRequests /\ O \in SUBSET OrderIds
    BY OrdersApiAssumption DEF ApiInv, TypeOK, CommitRows, Begin, NewIds, OrderIds
  <1>2. /\ rows' \in [OrderIds -> Statuses \cup {NoRow}]
        /\ Known' = Known \cup O
    <2> HIDE DEF O
    <2> QED BY <1>1, KnownGrows DEF ApiInv, TypeOK, CommitRows, O
  <1>3. q \in Requests /\ q.orders = O
    <2> HIDE DEF O
    <2> QED BY <1>1 DEF Idle, Requests
  <1>4. req' = [req EXCEPT ![r] = q]
    BY DEF CommitRows, engineVars
  <1>5. req \in [Reqs -> Requests]
    BY DEF ApiInv, TypeOK, Requests
  <1> HIDE DEF O, q
  <1>6. /\ req' \in [Reqs -> Requests]
        /\ \A s \in Reqs : req'[s].orders \subseteq Known \cup O
    BY <1>3, <1>4, <1>5 DEF ApiInv, TrailKnown
  <1>7. UNCHANGED <<buffer, log, consumed, running, engine, missed, created, lost>>
    BY DEF CommitRows, engineVars
  <1>8. TypeOK'
    BY <1>1, <1>2, <1>6, <1>7 DEF ApiInv, TypeOK, Requests, Commands
  <1>9. TrailKnown'
    BY <1>2, <1>6, <1>7 DEF ApiInv, TrailKnown
  <1>10. RowsPrecedeEvents'
    BY <1>2, <1>7 DEF ApiInv, RowsPrecedeEvents
  <1> QED
    BY <1>8, <1>9, <1>10 DEF ApiInv

\* A modification or a cancellation is about a row that was found.
LEMMA ChangeStep ==
    ASSUME ApiInv, NEW r \in Reqs, NEW o \in Known, ModifyRead(r, o) \/ CancelRead(r, o)
    PROVE  ApiInv'
  <1>1. PICK q \in Requests : /\ q.orders = {o}
                              /\ req' = [req EXCEPT ![r] = q]
    <2> DEFINE ask(op) == [step |-> "put", op |-> op, orders |-> {o}, late |-> o \in created]
    <2>1. /\ ask("modify") \in Requests /\ ask("modify").orders = {o}
          /\ ask("cancel") \in Requests /\ ask("cancel").orders = {o}
      BY DEF Requests, Known
    <2>2. req' = [req EXCEPT ![r] = ask("modify")] \/ req' = [req EXCEPT ![r] = ask("cancel")]
      BY DEF ModifyRead, CancelRead, engineVars
    <2> HIDE DEF ask
    <2> QED
      BY <2>1, <2>2
  <1>2. req \in [Reqs -> Requests] /\ requests' \in 0 .. MaxRequests
    BY OrdersApiAssumption DEF ApiInv, TypeOK, Requests, ModifyRead, CancelRead, Begin
  <1>3. UNCHANGED <<ids, rows, buffer, log, consumed, running, engine, missed, created, lost>>
    BY DEF ModifyRead, CancelRead, engineVars
  <1>4. req' \in [Reqs -> Requests] /\ \A s \in Reqs : req'[s].orders \subseteq Known
    BY <1>1, <1>2 DEF ApiInv, TrailKnown
  <1>5. Known' = Known
    BY <1>3 DEF Known
  <1>6. TypeOK'
    BY <1>2, <1>3, <1>4, <1>5 DEF ApiInv, TypeOK, Requests, Commands
  <1>7. TrailKnown' /\ RowsPrecedeEvents'
    BY <1>3, <1>4, <1>5 DEF ApiInv, TrailKnown, RowsPrecedeEvents
  <1> QED
    BY <1>6, <1>7 DEF ApiInv

\* The rest of a request: the error of a refresh, the command, the answer.
LEMMA ProceedStep ==
    ASSUME ApiInv, NEW r \in Reqs, Proceed(r)
    PROVE  ApiInv'
  <1>0. req \in [Reqs -> Requests] /\ buffer \in Seq(Commands)
    BY DEF ApiInv, TypeOK, Requests
  <1>k. Known' = Known
    BY DEF Proceed, RefreshRaises, PutCommand, PutRaises, Answer, Known
  <1>1. CASE RefreshRaises(r) \/ PutRaises(r)
    <2>1. req' \in [Reqs -> Requests] /\ \A s \in Reqs : req'[s].orders \subseteq Known
      BY <1>0, <1>1, IdleIsRequest DEF RefreshRaises, PutRaises, ApiInv, TrailKnown
    <2>2. UNCHANGED <<ids, rows, requests, buffer, log, consumed, running, engine, missed, created, lost>>
      BY <1>1 DEF RefreshRaises, PutRaises, engineVars
    <2> QED
      BY <1>k, <2>1, <2>2 DEF ApiInv, TypeOK, TrailKnown, RowsPrecedeEvents, Requests, Commands
  <1>2. CASE PutCommand(r)
    <2>1. /\ req' \in [Reqs -> Requests]
          /\ \A s \in Reqs : req'[s].orders \subseteq Known
      BY <1>0, <1>2 DEF PutCommand, GoTo, ApiInv, TrailKnown, Requests
    <2>2. Command(req[r]) \in Commands /\ Command(req[r]).orders \subseteq Known
      BY <1>0 DEF Command, Commands, Requests, ApiInv, TrailKnown
    <2>3. /\ buffer' \in Seq(Commands)
          /\ \A i \in 1 .. Len(buffer') : buffer'[i].orders \subseteq Known
      BY <1>0, <1>2, <2>2 DEF PutCommand, ApiInv, TrailKnown
    <2>4. UNCHANGED <<ids, rows, requests, log, consumed, running, engine, missed, created, lost>>
      BY <1>2 DEF PutCommand, engineVars
    <2> QED
      BY <1>k, <2>1, <2>3, <2>4
      DEF ApiInv, TypeOK, TrailKnown, RowsPrecedeEvents, Requests, Commands
  <1>3. CASE Answer(r)
    <2>1. req' \in [Reqs -> Requests] /\ \A s \in Reqs : req'[s].orders \subseteq Known
      BY <1>0, <1>3, IdleIsRequest DEF Answer, ApiInv, TrailKnown
    <2>2. UNCHANGED <<ids, rows, requests, buffer, log, consumed, running, engine, missed, lost>>
      BY <1>3 DEF Answer, engineVars
    <2>3. created' \subseteq Known
      BY <1>3 DEF Answer, ApiInv, TypeOK, TrailKnown
    <2> QED
      BY <1>k, <2>1, <2>2, <2>3
      DEF ApiInv, TypeOK, TrailKnown, RowsPrecedeEvents, Requests, Commands
  <1> QED
    BY <1>1, <1>2, <1>3 DEF Proceed

\* What a batch creates is known.
LEMMA BatchKnown ==
    ASSUME ApiInv, NEW k \in 0 .. Len(buffer)
    PROVE  BatchCreates(k) \subseteq Known
  <1>1. buffer \in Seq(Commands)
    BY DEF ApiInv, TypeOK
  <1>2. Len(buffer) \in Nat /\ \A i \in 1 .. k : i \in 1 .. Len(buffer)
    BY <1>1
  <1> QED
    BY <1>2 DEF BatchCreates, ApiInv, TrailKnown

\* A batch is cut from the front of the producer's memory.
LEMMA BatchCut ==
    ASSUME NEW S, NEW b \in Seq(S), NEW k \in 1 .. Len(b)
    PROVE  /\ SubSeq(b, 1, k) \in Seq(S) /\ Len(SubSeq(b, 1, k)) = k
           /\ \A i \in 1 .. k : SubSeq(b, 1, k)[i] = b[i] /\ i \in 1 .. Len(b)
           /\ SubSeq(b, k + 1, Len(b)) \in Seq(S)
           /\ Len(SubSeq(b, k + 1, Len(b))) = Len(b) - k
           /\ \A i \in 1 .. Len(b) - k :
                  SubSeq(b, k + 1, Len(b))[i] = b[k + i] /\ k + i \in 1 .. Len(b)
  <1>1. Len(b) \in Nat /\ k \in Nat /\ k <= Len(b) /\ 1 <= k
    OBVIOUS
  <1>2. \A i \in 1 .. Len(b) : b[i] \in S
    OBVIOUS
  <1> QED
    BY <1>1, <1>2

\* What the sender writes: nothing, the batch, or the batch twice.
Written(w, k) ==
    \/ w = << >>
    \/ w = SubSeq(buffer, 1, k)
    \/ w = SubSeq(buffer, 1, k) \o SubSeq(buffer, 1, k)

\* The producer moves a batch from its memory to the partition, or drops it.
LEMMA DeliverIsSend ==
    ASSUME Deliver
    PROVE  \E k \in 1 .. Len(buffer) : \E w :
               /\ Written(w, k) /\ SendBatch(k, w)
               /\ lost' = lost \/ lost' = lost \cup BatchCreates(k)
  BY DEF Deliver, BatchSent, BatchResent, BatchExpires, Written

\* Every command that is written is one of the batch.
LEMMA WrittenIsBatch ==
    ASSUME ApiInv, NEW k \in 1 .. Len(buffer), NEW w, Written(w, k)
    PROVE  /\ w \in Seq(Commands)
           /\ \A i \in 1 .. Len(w) : \E j \in 1 .. k : w[i] = buffer[j] /\ j \in 1 .. Len(buffer)
  <1> DEFINE b == SubSeq(buffer, 1, k)
  <1>1. buffer \in Seq(Commands)
    BY DEF ApiInv, TypeOK
  <1>2. b \in Seq(Commands) /\ Len(b) = k /\ \A i \in 1 .. k : b[i] = buffer[i] /\ i \in 1 .. Len(buffer)
    BY <1>1, BatchCut
  <1>3. k \in Nat
    BY <1>1
  <1>4. w = << >> \/ w = b \/ w = b \o b
    BY DEF Written
  <1> HIDE DEF b
  <1>5. CASE w = << >>
    BY <1>5
  <1>6. CASE w = b
    BY <1>2, <1>6
  <1>7. CASE w = b \o b
    <2>0. b \in Seq(Commands) /\ b \o b \in Seq(Commands) /\ Len(b \o b) = Len(b) + Len(b)
      BY <1>2
    <2>1. /\ w \in Seq(Commands) /\ Len(w) = k + k
          /\ \A i \in 1 .. k + k : w[i] = IF i <= k THEN b[i] ELSE b[i - k]
      BY <1>2, <1>3, <1>7, <2>0
    <2> SUFFICES ASSUME NEW i \in 1 .. k + k
                 PROVE  \E j \in 1 .. k : w[i] = buffer[j] /\ j \in 1 .. Len(buffer)
      BY <2>1
    <2>2. CASE i <= k
      BY <1>2, <1>3, <2>1, <2>2
    <2>3. CASE ~(i <= k)
      <3>1. i - k \in 1 .. k
        BY <1>3, <2>3
      <3> QED
        BY <1>2, <2>1, <2>3, <3>1
    <2> QED
      BY <2>2, <2>3
  <1> QED
    BY <1>4, <1>5, <1>6, <1>7

\* Sent, resent or dropped, a batch is about known orders.
LEMMA DeliverStep ==
    ASSUME ApiInv, Deliver
    PROVE  ApiInv'
  <1>1. buffer \in Seq(Commands) /\ log \in Seq(Commands)
    BY DEF ApiInv, TypeOK
  <1>0. PICK k \in 1 .. Len(buffer) : \E w :
            /\ Written(w, k) /\ SendBatch(k, w)
            /\ lost' = lost \/ lost' = lost \cup BatchCreates(k)
    BY DeliverIsSend
  <1>2. PICK w : /\ Written(w, k) /\ SendBatch(k, w)
                 /\ lost' = lost \/ lost' = lost \cup BatchCreates(k)
    BY <1>0
  <1>3. /\ log' = log \o w /\ buffer' = SubSeq(buffer, k + 1, Len(buffer))
        /\ UNCHANGED <<ids, rows, requests, req, consumed, running, engine, missed, created>>
    BY <1>2 DEF SendBatch
  <1>4. /\ w \in Seq(Commands)
        /\ \A i \in 1 .. Len(w) : \E j \in 1 .. k : w[i] = buffer[j] /\ j \in 1 .. Len(buffer)
    BY <1>2, WrittenIsBatch
  <1>5. \A i \in 1 .. Len(w) : w[i].orders \subseteq Known
    BY <1>4 DEF ApiInv, TrailKnown
  <1>6. /\ log' \in Seq(Commands) /\ Len(log') = Len(log) + Len(w)
        /\ \A i \in 1 .. Len(log') : log'[i] = IF i <= Len(log) THEN log[i] ELSE w[i - Len(log)]
    BY <1>1, <1>3, <1>4
  <1>7. \A i \in 1 .. Len(log') : log'[i].orders \subseteq Known
    <2> SUFFICES ASSUME NEW i \in 1 .. Len(log') PROVE log'[i].orders \subseteq Known
      OBVIOUS
    <2>1. Len(log) \in Nat /\ Len(w) \in Nat
      BY <1>1, <1>4
    <2>2. CASE i <= Len(log)
      BY <1>6, <2>1, <2>2 DEF ApiInv, TrailKnown
    <2>3. CASE ~(i <= Len(log))
      <3>1. i - Len(log) \in 1 .. Len(w)
        BY <1>6, <2>1, <2>3
      <3> QED
        BY <1>5, <1>6, <2>3, <3>1
    <2> QED
      BY <2>2, <2>3
  <1>8. buffer' \in Seq(Commands) /\ \A i \in 1 .. Len(buffer') : buffer'[i].orders \subseteq Known
    <2>1. /\ buffer' \in Seq(Commands) /\ Len(buffer') = Len(buffer) - k
          /\ \A i \in 1 .. Len(buffer) - k : buffer'[i] = buffer[k + i] /\ k + i \in 1 .. Len(buffer)
      BY <1>1, <1>3, BatchCut
    <2> QED
      BY <2>1 DEF ApiInv, TrailKnown
  <1>9. Known' = Known
    BY <1>3 DEF Known
  <1>10. consumed' \in 0 .. Len(log')
    BY <1>1, <1>3, <1>4, <1>6 DEF ApiInv, TypeOK
  <1>11. lost' \subseteq Known
    <2>1. k \in 0 .. Len(buffer)
      BY <1>1
    <2> QED
      BY <1>2, <2>1, BatchKnown DEF ApiInv, TypeOK
  <1> QED
    BY <1>3, <1>6, <1>7, <1>8, <1>9, <1>10, <1>11
    DEF ApiInv, TypeOK, TrailKnown, RowsPrecedeEvents, Commands

\* The end of the process takes requests and batches along.
LEMMA CrashStep ==
    ASSUME ApiInv, Crash
    PROVE  ApiInv'
  <1>1. /\ req' \in [Reqs -> Requests]
        /\ \A s \in Reqs : req'[s].orders = {}
    BY IdleIsRequest DEF Crash
  <1>2. buffer' = << >>
    BY DEF Crash, engineVars
  <1>3. UNCHANGED <<ids, rows, requests, log, consumed, running, engine, missed, created>>
    BY DEF Crash, engineVars
  <1>4. Known' = Known
    BY <1>3 DEF Known
  <1>5. lost' \subseteq Known
    <2>1. Len(buffer) \in 0 .. Len(buffer)
      BY DEF ApiInv, TypeOK
    <2> QED
      BY <2>1, BatchKnown DEF Crash, ApiInv, TypeOK
  <1> QED
    BY <1>1, <1>2, <1>3, <1>4, <1>5
    DEF ApiInv, TypeOK, TrailKnown, RowsPrecedeEvents, Requests, Commands

\* The engine's statuses after a command about known orders.
LEMMA DecideStep ==
    ASSUME ApiInv, NEW status \in [OrderIds -> Statuses \cup {"none"}], Decide(status),
           \A o \in OrderIds : status[o] # "none" => o \in Known,
           consumed' \in 0 .. Len(log), running' \in BOOLEAN,
           UNCHANGED <<ids, rows, requests, req, buffer, log, created, lost>>
    PROVE  ApiInv'
  <1>1. engine' = status /\ missed' \subseteq OrderIds
    BY DEF Decide, ApiInv, TypeOK
  <1>2. Known' = Known
    BY DEF Known
  <1> QED
    BY <1>1, <1>2 DEF ApiInv, TypeOK, TrailKnown, RowsPrecedeEvents, Commands

\* The engine decides only about orders of commands, which have a row.
LEMMA EngineStep ==
    ASSUME ApiInv, Engine
    PROVE  ApiInv'
  <1>1. ASSUME NEW outcome \in {"PLACED", "FILLED", "CANCELLED"}, EngineHandles(outcome)
        PROVE  ApiInv'
    <2> DEFINE c == NextCommand
               status == [o \in OrderIds |->
                 CASE o \in c.orders /\ c.op = "new"                            -> outcome
                   [] o \in c.orders /\ c.op = "cancel" /\ engine[o] = "PLACED" -> "CANCELLED"
                   [] OTHER                                                     -> engine[o]]
    <2>1. consumed' \in 0 .. Len(log) /\ c.orders \subseteq Known
      BY <1>1 DEF EngineHandles, Reads, NextCommand, ApiInv, TypeOK, TrailKnown
    <2>2. UNCHANGED <<ids, rows, requests, req, buffer, log, running, created, lost>> /\ Decide(status)
      BY <1>1 DEF EngineHandles
    <2> HIDE DEF c
    <2>3. \A o \in OrderIds : /\ status[o] \in Statuses \cup {"none"}
                              /\ status[o] # "none" => o \in c.orders \/ engine[o] # "none"
      BY <1>1 DEF ApiInv, TypeOK, Statuses
    <2>4. status \in [OrderIds -> Statuses \cup {"none"}]
      BY <2>3
    <2>5. running' \in BOOLEAN
      BY <2>2 DEF ApiInv, TypeOK
    <2>6. \A o \in OrderIds : status[o] # "none" => o \in Known
      BY <2>1, <2>3 DEF ApiInv, RowsPrecedeEvents
    <2> HIDE DEF status
    <2> QED
      BY <2>1, <2>2, <2>4, <2>5, <2>6, DecideStep
  <1>2. CASE EngineRaises
    <2>1. /\ UNCHANGED <<ids, rows, requests, req, buffer, log, consumed, engine, missed, created, lost>>
          /\ running' = FALSE
      BY <1>2 DEF EngineRaises
    <2>2. Known' = Known
      BY <2>1 DEF Known
    <2> QED
      BY <2>1, <2>2 DEF ApiInv, TypeOK, TrailKnown, RowsPrecedeEvents, Commands
  <1>3. CASE RejectionRaises
    <2> DEFINE status == [o \in OrderIds |->
                             IF o \in NextCommand.orders THEN "CANCELLED" ELSE engine[o]]
    <2>1. /\ UNCHANGED <<ids, rows, requests, req, buffer, log, consumed, created, lost>>
          /\ running' = FALSE /\ Decide(status)
      BY <1>3 DEF RejectionRaises
    <2>2. NextCommand.orders \subseteq Known
      <3>1. consumed \in Nat /\ Len(log) \in Nat /\ consumed < Len(log)
        BY <1>3 DEF RejectionRaises, Reads, ApiInv, TypeOK
      <3>2. consumed + 1 \in 1 .. Len(log)
        BY <3>1
      <3> QED
        BY <3>2 DEF NextCommand, ApiInv, TrailKnown
    <2>s. \A o \in OrderIds :
              /\ status[o] \in Statuses \cup {"none"}
              /\ status[o] # "none" => o \in NextCommand.orders \/ engine[o] # "none"
      <3>1. \A o \in OrderIds : engine[o] \in Statuses \cup {"none"}
        BY DEF ApiInv, TypeOK
      <3> QED
        BY <3>1 DEF Statuses
    <2>3. /\ status \in [OrderIds -> Statuses \cup {"none"}]
          /\ \A o \in OrderIds : status[o] # "none" => o \in Known
      BY <2>2, <2>s DEF ApiInv, RowsPrecedeEvents
    <2>4. consumed' \in 0 .. Len(log) /\ running' \in BOOLEAN
      BY <2>1 DEF ApiInv, TypeOK
    <2> HIDE DEF status
    <2> QED
      BY <2>1, <2>3, <2>4, DecideStep
  <1> QED
    BY <1>1, <1>2, <1>3 DEF Engine

\* A fill by another user's command, the row that follows the engine, and the
\* event that is lost.
LEMMA FollowStep ==
    ASSUME ApiInv, NEW o \in Known, EngineFills(o) \/ RowFollows(o) \/ EventLost(o)
    PROVE  ApiInv'
  <1>0. o \in OrderIds
    BY DEF Known
  <1>1. CASE EngineFills(o)
    <2> DEFINE status == [engine EXCEPT ![o] = "FILLED"]
    <2>1. /\ UNCHANGED <<ids, rows, requests, req, buffer, log, consumed, running, created, lost>>
          /\ Decide(status)
      BY <1>1 DEF EngineFills
    <2>2. /\ status \in [OrderIds -> Statuses \cup {"none"}]
          /\ \A p \in OrderIds : status[p] # "none" => p \in Known
      BY <1>0 DEF ApiInv, TypeOK, RowsPrecedeEvents, Statuses
    <2>3. consumed' \in 0 .. Len(log) /\ running' \in BOOLEAN
      BY <2>1 DEF ApiInv, TypeOK
    <2> HIDE DEF status
    <2> QED
      BY <2>1, <2>2, <2>3, DecideStep
  <1>2. CASE RowFollows(o)
    <2>1. UNCHANGED <<ids, requests, req, buffer, log, consumed, running, engine, missed, created, lost>>
      BY <1>2 DEF RowFollows, engineVars
    <2>2. engine[o] \in Statuses
      BY <1>0, <1>2 DEF RowFollows, RowBehind, ApiInv, TypeOK
    <2>3. rows' \in [OrderIds -> Statuses \cup {NoRow}] /\ Known' = Known
      BY <1>0, <1>2, <2>2 DEF RowFollows, ApiInv, TypeOK, Known, Statuses, NoRow
    <2> QED
      BY <2>1, <2>3 DEF ApiInv, TypeOK, TrailKnown, RowsPrecedeEvents, Commands
  <1>3. CASE EventLost(o)
    <2>1. /\ UNCHANGED <<ids, rows, requests, req, buffer, log, consumed, running, engine, created, lost>>
          /\ missed' = missed \cup {o}
      BY <1>3 DEF EventLost
    <2>2. Known' = Known
      BY <2>1 DEF Known
    <2> QED
      BY <1>0, <2>1, <2>2 DEF ApiInv, TypeOK, TrailKnown, RowsPrecedeEvents, Commands
  <1> QED
    BY <1>1, <1>2, <1>3

\* Every step of the endpoints and of what is around them.
LEMMA ApiStep == ApiInv /\ [Next]_apiVars => ApiInv'
  <1> SUFFICES ASSUME ApiInv, [Next]_apiVars PROVE ApiInv'
    OBVIOUS
  <1>1. CASE \E r \in Reqs : Arrive(r) \/ Proceed(r)
    <2> PICK r \in Reqs : Arrive(r) \/ Proceed(r)
      BY <1>1
    <2>1. CASE CreateSingle(r)
      BY <2>1, CommitStep DEF CreateSingle
    <2>2. CASE CreateOCO(r)
      BY <2>2, CommitStep DEF CreateOCO
    <2>3. CASE CreateOTO(r)
      BY <2>3, CommitStep DEF CreateOTO
    <2>4. CASE CreateOTOCO(r)
      BY <2>4, CommitStep DEF CreateOTOCO
    <2>5. CASE \E o \in Known : ModifyRead(r, o) \/ CancelRead(r, o)
      BY <2>5, ChangeStep
    <2>6. CASE Proceed(r)
      BY <2>6, ProceedStep
    <2> QED
      BY <2>1, <2>2, <2>3, <2>4, <2>5, <2>6 DEF Arrive
  <1>2. CASE Deliver
    BY <1>2, DeliverStep
  <1>3. CASE Crash
    BY <1>3, CrashStep
  <1>4. CASE Engine
    BY <1>4, EngineStep
  <1>5. CASE \E o \in Known : EngineFills(o) \/ RowFollows(o) \/ EventLost(o)
    BY <1>5, FollowStep
  <1>6. CASE UNCHANGED apiVars
    BY <1>6 DEF apiVars, engineVars, ApiInv, TypeOK, TrailKnown, RowsPrecedeEvents, Known, Commands
  <1> QED
    BY <1>1, <1>2, <1>3, <1>4, <1>5, <1>6 DEF Next

\* The inductive invariant holds in every reachable state.
LEMMA ApiInvariant == Spec => []ApiInv
  BY ApiInit, ApiStep, PTL DEF Spec

\* Every variable has its type, for any number of requests and orders.
THEOREM ApiTypes == Spec => []TypeOK
  <1>1. ApiInv => TypeOK
    BY DEF ApiInv
  <1> QED
    BY <1>1, ApiInvariant, PTL

\* create commits the rows of an order before it puts the command, so that the
\* engine never decides about an order without a row, through crashes of the
\* process and any number of overlapping requests.
THEOREM RowsAlwaysPrecede == Spec => []RowsPrecedeEvents
  <1>1. ApiInv => RowsPrecedeEvents
    BY DEF ApiInv
  <1> QED
    BY <1>1, ApiInvariant, PTL

-----------------------------------------------------------------------------
(***************************************************************************)
(* Late cancellations.  That a cancelled order does not rest later depends *)
(* on where its creation is: the key of a command is the symbol, so that   *)
(* the creation of an order stays ahead of a cancellation that was asked   *)
(* for after its answer, in the producer's batches and in the partition.   *)
(***************************************************************************)

\* Ids are drawn once: no two requests create the same order, an order has no
\* late cancellation before its creation was answered, and what was answered
\* is not going to be put.
RequestsSound ==
    /\ \A o \in Known : o <= ids
    /\ \A r, s \in Reqs, o \in OrderIds :
         Creates(req[r], o) /\ Creates(req[s], o) => r = s
    /\ \A r \in Reqs, o \in OrderIds :
         Creates(req[r], o) /\ req[r].step # "answer" => o \notin created
    /\ \A r \in Reqs, o \in OrderIds : CancelsLate(req[r], o) => o \in created

\* No creation follows a late cancellation in the batches.
BufferSound ==
    \A i \in 1 .. Len(buffer), o \in OrderIds : CancelsLate(buffer[i], o) =>
        /\ o \in created
        /\ \A j \in 1 .. Len(buffer) : Creates(buffer[j], o) => j < i

\* In the partition, where batches are repeated, a late cancellation follows
\* every creation, and no creation is to come from the batches.
LogSound ==
    \A i \in 1 .. Len(log), o \in OrderIds : CancelsLate(log[i], o) =>
        /\ o \in created
        /\ \A j \in 1 .. Len(log) : Creates(log[j], o) =>
             \E h \in j + 1 .. Len(log) : CancelsLate(log[h], o)
        /\ \A j \in 1 .. Len(buffer) : ~Creates(buffer[j], o)

\* The inductive invariant of late cancellations, beside ApiInv.
CancelInv == RequestsSound /\ BufferSound /\ LogSound /\ LateCancelHolds

\* Everything a request, a batch or the partition is about has an id.
LEMMA CancelFacts ==
    ASSUME ApiInv
    PROVE  /\ req \in [Reqs -> Requests]
           /\ buffer \in Seq(Commands) /\ log \in Seq(Commands)
           /\ consumed \in 0 .. Len(log)
           /\ ids \in 0 .. MaxOrders /\ OrderIds \subseteq Nat
           /\ created \subseteq Known /\ Known \subseteq OrderIds
           /\ engine \in [OrderIds -> Statuses \cup {"none"}]
           /\ \A r \in Reqs, o \in OrderIds : o \in req[r].orders => o \in Known
           /\ \A i \in 1 .. Len(buffer), o \in OrderIds : o \in buffer[i].orders => o \in Known
           /\ \A i \in 1 .. Len(log), o \in OrderIds : o \in log[i].orders => o \in Known
           /\ \A i \in 1 .. Len(log) : log[i].orders \subseteq OrderIds
  <1>1. \A i \in 1 .. Len(log) : log[i].orders \subseteq OrderIds
    BY DEF ApiInv, TrailKnown, Known
  <1> QED
    BY <1>1 DEF ApiInv, TypeOK, TrailKnown, Requests, Known, OrderIds

\* At the start nothing is on its way.
LEMMA CancelInit == Init => CancelInv
  BY DEF Init, CancelInv, RequestsSound, BufferSound, LogSound, LateCancelHolds, Known, Idle,
         Creates, CancelsLate, NoRow

\* create draws ids that nothing is about yet.
LEMMA CommitCancel ==
    ASSUME ApiInv, CancelInv, NEW r \in Reqs, NEW n \in {1, 2, 3}, NEW step \in {"put", "refresh"},
           CommitRows(r, n, step)
    PROVE  CancelInv'
  <1> DEFINE O == NewIds(n)
             q == [Idle EXCEPT !.step = step, !.orders = O]
  <1>1. /\ req' = [req EXCEPT ![r] = q] /\ ids' = ids + n /\ rows' = NewRows(O)
        /\ UNCHANGED <<buffer, log, consumed, running, engine, missed, created, lost>>
    BY DEF CommitRows, engineVars
  <1>2. O \in SUBSET OrderIds /\ \A o \in O : o > ids /\ o <= ids'
    BY CancelFacts, OrdersApiAssumption DEF CommitRows, NewIds, OrderIds
  <1>3. q.op = "new" /\ q.orders = O /\ q.late = FALSE /\ q.step = step
    BY DEF Idle
  <1> HIDE DEF O, q
  <1>4. Known' = Known \cup O
    BY <1>1, <1>2, KnownGrows DEF ApiInv, TypeOK
  <1>5. \A o \in Known : o <= ids /\ o \notin O
    BY <1>2, CancelFacts DEF CancelInv, RequestsSound
  <1>6. \A s \in Reqs : req'[s] = IF s = r THEN q ELSE req[s]
    BY <1>1, CancelFacts
  <1>7. RequestsSound'
    <2>1. \A o \in Known' : o <= ids'
      <3> SUFFICES ASSUME NEW o \in Known' PROVE o <= ids'
        OBVIOUS
      <3>1. CASE o \in O
        BY <1>2, <3>1
      <3>2. CASE o \in Known
        BY <1>1, <1>5, <3>2, CancelFacts
      <3> QED
        BY <1>4, <3>1, <3>2
    <2>2. \A s \in Reqs, o \in OrderIds : Creates(req'[s], o) <=>
              IF s = r THEN o \in O ELSE Creates(req[s], o)
      BY <1>3, <1>6 DEF Creates
    <2>3. \A s \in Reqs, o \in OrderIds : Creates(req[s], o) => o \notin O
      BY <1>5, CancelFacts DEF Creates
    <2>4. \A s, t \in Reqs, o \in OrderIds : Creates(req'[s], o) /\ Creates(req'[t], o) => s = t
      BY <2>2, <2>3 DEF CancelInv, RequestsSound
    <2>5. \A s \in Reqs, o \in OrderIds :
              Creates(req'[s], o) /\ req'[s].step # "answer" => o \notin created'
      BY <1>1, <1>5, <1>6, <2>2, CancelFacts DEF CancelInv, RequestsSound
    <2>6. \A s \in Reqs, o \in OrderIds : CancelsLate(req'[s], o) => o \in created'
      BY <1>1, <1>3, <1>6 DEF CancelInv, RequestsSound, CancelsLate
    <2> QED
      BY <2>1, <2>4, <2>5, <2>6 DEF RequestsSound
  <1>8. BufferSound' /\ LogSound' /\ LateCancelHolds'
    BY <1>1 DEF CancelInv, BufferSound, LogSound, LateCancelHolds
  <1> QED
    BY <1>7, <1>8 DEF CancelInv

\* A change is late exactly if the creation of its order was answered.
LEMMA ChangeCancel ==
    ASSUME ApiInv, CancelInv, NEW r \in Reqs, NEW o \in Known,
           ModifyRead(r, o) \/ CancelRead(r, o)
    PROVE  CancelInv'
  <1>1. PICK q : /\ q.op # "new" /\ (q.late => o \in created) /\ q.orders = {o}
                 /\ req' = [req EXCEPT ![r] = q]
    <2> DEFINE ask(op) == [step |-> "put", op |-> op, orders |-> {o}, late |-> o \in created]
    <2>1. \A op : /\ ask(op).op = op /\ ask(op).orders = {o} /\ ask(op).late = (o \in created)
      OBVIOUS
    <2>2. req' = [req EXCEPT ![r] = ask("modify")] \/ req' = [req EXCEPT ![r] = ask("cancel")]
      BY DEF ModifyRead, CancelRead, engineVars
    <2>3. "modify" # "new" /\ "cancel" # "new"
      OBVIOUS
    <2> HIDE DEF ask
    <2> QED
      BY <2>1, <2>2, <2>3
  <1>2. UNCHANGED <<ids, rows, buffer, log, consumed, running, engine, missed, created, lost>>
    BY DEF ModifyRead, CancelRead, engineVars
  <1>3. \A s \in Reqs : req'[s] = IF s = r THEN q ELSE req[s]
    BY <1>1, CancelFacts
  <1>4. Known' = Known
    BY <1>2 DEF Known
  <1>5. \A s \in Reqs, p \in OrderIds :
            /\ Creates(req'[s], p) => s # r /\ Creates(req[s], p)
            /\ CancelsLate(req'[s], p) => p \in created
    BY <1>1, <1>3 DEF Creates, CancelsLate, CancelInv, RequestsSound
  <1>6. RequestsSound'
    BY <1>2, <1>3, <1>4, <1>5 DEF CancelInv, RequestsSound
  <1>7. BufferSound' /\ LogSound' /\ LateCancelHolds'
    BY <1>2 DEF CancelInv, BufferSound, LogSound, LateCancelHolds
  <1> QED
    BY <1>6, <1>7 DEF CancelInv

\* put_command: a late cancellation goes behind every creation in the batches,
\* and the creation of an order goes there before it was answered.
LEMMA PutCancel ==
    ASSUME ApiInv, CancelInv, NEW r \in Reqs, PutCommand(r)
    PROVE  CancelInv'
  <1> DEFINE c == Command(req[r])
  <1>1. /\ buffer' = Append(buffer, c) /\ req[r].step = "put"
        /\ req' = [req EXCEPT ![r].step = "answer"]
        /\ UNCHANGED <<ids, rows, requests, log, consumed, running, engine, missed, created, lost>>
    BY DEF PutCommand, GoTo, At, engineVars
  <1>2. c \in Commands /\ \A o : /\ Creates(c, o) <=> Creates(req[r], o)
                                 /\ CancelsLate(c, o) <=> CancelsLate(req[r], o)
    BY CancelFacts DEF Command, Commands, Requests, Creates, CancelsLate
  <1> HIDE DEF c
  <1>3. /\ Len(buffer') = Len(buffer) + 1 /\ Len(buffer) \in Nat
        /\ buffer'[Len(buffer) + 1] = c
        /\ \A i \in 1 .. Len(buffer) : buffer'[i] = buffer[i]
    BY <1>1, <1>2, CancelFacts
  <1>4. \A s \in Reqs : /\ req'[s].op = req[s].op /\ req'[s].orders = req[s].orders
                        /\ req'[s].late = req[s].late
                        /\ req'[s].step = IF s = r THEN "answer" ELSE req[s].step
    BY <1>1, CancelFacts DEF Requests
  <1>5. Known' = Known
    BY <1>1 DEF Known
  <1>6. RequestsSound'
    BY <1>1, <1>4, <1>5 DEF CancelInv, RequestsSound, Creates, CancelsLate
  <1>7. BufferSound'
    <2> SUFFICES ASSUME NEW i \in 1 .. Len(buffer'), NEW o \in OrderIds, CancelsLate(buffer'[i], o)
                 PROVE  o \in created /\ \A j \in 1 .. Len(buffer') : Creates(buffer'[j], o) => j < i
      BY <1>1 DEF BufferSound
    <2>1. CASE i = Len(buffer) + 1
      <3>1. CancelsLate(req[r], o)
        BY <1>2, <1>3, <2>1
      <3>2. o \in created /\ ~Creates(c, o)
        BY <1>2, <3>1 DEF CancelInv, RequestsSound, CancelsLate, Creates
      <3> QED
        BY <1>3, <2>1, <3>2
    <2>2. CASE i \in 1 .. Len(buffer)
      <3>1. o \in created /\ \A j \in 1 .. Len(buffer) : Creates(buffer[j], o) => j < i
        BY <1>3, <2>2 DEF CancelInv, BufferSound
      <3>2. ~Creates(c, o)
        BY <1>1, <1>2, <3>1 DEF CancelInv, RequestsSound
      <3> QED
        BY <1>3, <3>1, <3>2
    <2> QED
      BY <1>3, <2>1, <2>2
  <1>8. LogSound'
    <2> SUFFICES ASSUME NEW i \in 1 .. Len(log), NEW o \in OrderIds, CancelsLate(log[i], o),
                        NEW j \in 1 .. Len(buffer')
                 PROVE  ~Creates(buffer'[j], o)
      BY <1>1 DEF CancelInv, LogSound
    <2>1. o \in created /\ \A k \in 1 .. Len(buffer) : ~Creates(buffer[k], o)
      BY DEF CancelInv, LogSound
    <2>2. ~Creates(c, o)
      BY <1>1, <1>2, <2>1 DEF CancelInv, RequestsSound
    <2> QED
      BY <1>3, <2>1, <2>2
  <1>9. LateCancelHolds'
    BY <1>1 DEF CancelInv, LateCancelHolds
  <1> QED
    BY <1>6, <1>7, <1>8, <1>9 DEF CancelInv

\* The other steps of a request end it; an answer concerns orders that no
\* other request creates.
LEMMA EndCancel ==
    ASSUME ApiInv, CancelInv, NEW r \in Reqs,
           RefreshRaises(r) \/ PutRaises(r) \/ Answer(r)
    PROVE  CancelInv'
  <1>1. /\ req' = [req EXCEPT ![r] = Idle]
        /\ UNCHANGED <<ids, rows, requests, buffer, log, consumed, running, engine, missed, lost>>
    BY DEF RefreshRaises, PutRaises, Answer, engineVars
  <1>2. /\ created \subseteq created'
        /\ \A o \in created' : o \in created \/ (Creates(req[r], o) /\ req[r].step = "answer")
    BY DEF RefreshRaises, PutRaises, Answer, Creates, At
  <1>3. \A s \in Reqs : /\ s # r => req'[s] = req[s]
                        /\ \A o \in OrderIds : s = r => ~Creates(req'[s], o) /\ ~CancelsLate(req'[s], o)
    BY <1>1, CancelFacts, IdleIsRequest DEF Creates, CancelsLate
  <1>4. Known' = Known
    BY <1>1 DEF Known
  <1>5. RequestsSound'
    <2>1. \A s \in Reqs, o \in OrderIds :
              Creates(req'[s], o) /\ req'[s].step # "answer" => o \notin created'
      BY <1>2, <1>3 DEF CancelInv, RequestsSound
    <2>2. \A s \in Reqs, o \in OrderIds : CancelsLate(req'[s], o) => o \in created'
      BY <1>2, <1>3 DEF CancelInv, RequestsSound
    <2>3. \A s, t \in Reqs, o \in OrderIds : Creates(req'[s], o) /\ Creates(req'[t], o) => s = t
      BY <1>3 DEF CancelInv, RequestsSound
    <2> QED
      BY <1>1, <1>4, <2>1, <2>2, <2>3 DEF CancelInv, RequestsSound
  <1>6. BufferSound' /\ LogSound' /\ LateCancelHolds'
    BY <1>1, <1>2 DEF CancelInv, BufferSound, LogSound, LateCancelHolds
  <1> QED
    BY <1>5, <1>6 DEF CancelInv

\* A batch that is written twice ends with its late cancellations.
LEMMA WrittenSound ==
    ASSUME ApiInv, BufferSound, NEW k \in 1 .. Len(buffer), NEW w, Written(w, k),
           NEW o \in OrderIds, NEW i \in 1 .. Len(w), NEW p \in 1 .. Len(w),
           Creates(w[i], o), CancelsLate(w[p], o)
    PROVE  \E h \in i + 1 .. Len(w) : CancelsLate(w[h], o)
  <1> DEFINE b == SubSeq(buffer, 1, k)
  <1>1. buffer \in Seq(Commands) /\ Len(buffer) \in Nat /\ k \in Nat
    BY DEF ApiInv, TypeOK
  <1>2. b \in Seq(Commands) /\ Len(b) = k /\ \A q \in 1 .. k : b[q] = buffer[q] /\ q \in 1 .. Len(buffer)
    BY <1>1, BatchCut
  <1>3. \A x, y \in 1 .. k : Creates(b[x], o) /\ CancelsLate(b[y], o) => x < y
    <2> HIDE DEF b
    <2> QED BY <1>2 DEF BufferSound
  <1>4. w = << >> \/ w = b \/ w = b \o b
    BY DEF Written
  <1> HIDE DEF b
  <1>5. CASE w = << >>
    BY <1>5
  <1>6. CASE w = b
    <2>1. i \in 1 .. k /\ p \in 1 .. k /\ i < p
      BY <1>2, <1>3, <1>6
    <2>2. p \in i + 1 .. Len(w)
      BY <1>1, <1>2, <1>6, <2>1
    <2> QED
      BY <2>2
  <1>7. CASE w = b \o b
    <2>0. b \in Seq(Commands) /\ b \o b \in Seq(Commands) /\ Len(b \o b) = Len(b) + Len(b)
      BY <1>2
    <2>1. /\ Len(w) = k + k
          /\ \A q \in 1 .. k + k : w[q] = IF q <= k THEN b[q] ELSE b[q - k]
      BY <1>1, <1>2, <1>7, <2>0
    <2>2. PICK y \in 1 .. k : w[p] = b[y]
      <3>1. CASE p <= k
        BY <1>1, <2>1, <3>1
      <3>2. CASE ~(p <= k)
        <4>1. p - k \in 1 .. k
          BY <1>1, <2>1, <3>2
        <4> QED
          BY <2>1, <3>2, <4>1
      <3> QED
        BY <3>1, <3>2
    <2>3. PICK x \in 1 .. k : w[i] = b[x] /\ i <= x + k
      <3>1. CASE i <= k
        BY <1>1, <2>1, <3>1
      <3>2. CASE ~(i <= k)
        <4>1. i - k \in 1 .. k /\ i <= (i - k) + k
          BY <1>1, <2>1, <3>2
        <4> QED
          BY <2>1, <3>2, <4>1
      <3> QED
        BY <3>1, <3>2
    <2>4. x < y
      BY <1>3, <2>2, <2>3
    <2>5. y + k \in i + 1 .. Len(w) /\ y + k \in 1 .. k + k /\ ~(y + k <= k) /\ (y + k) - k = y
      <3>1. /\ i \in 1 .. k + k /\ i <= x + k /\ x < y /\ x \in 1 .. k /\ y \in 1 .. k
            /\ k \in Nat /\ Len(w) = k + k
        BY <1>1, <2>1, <2>3, <2>4
      <3> QED BY <3>1
    <2>6. w[y + k] = b[y]
      BY <2>1, <2>5
    <2> QED
      BY <2>2, <2>5, <2>6
  <1> QED
    BY <1>4, <1>5, <1>6, <1>7

\* The sender keeps the order of the batches, and a batch that is sent again
\* stays whole.
LEMMA DeliverCancel ==
    ASSUME ApiInv, CancelInv, Deliver
    PROVE  CancelInv'
  <1>0. PICK k \in 1 .. Len(buffer) : \E w : Written(w, k) /\ SendBatch(k, w)
    BY DeliverIsSend
  <1>1. PICK w : Written(w, k) /\ SendBatch(k, w)
    BY <1>0
  <1> DEFINE n == Len(log)
             m == Len(buffer)
             l == Len(w)
  <1>2. /\ log' = log \o w /\ buffer' = SubSeq(buffer, k + 1, Len(buffer))
        /\ UNCHANGED <<ids, rows, requests, req, consumed, running, engine, missed, created>>
    BY <1>1 DEF SendBatch
  <1>3. /\ w \in Seq(Commands)
        /\ \A i \in 1 .. l : \E j \in 1 .. k : w[i] = buffer[j] /\ j \in 1 .. m
    BY <1>1, WrittenIsBatch
  <1>4. /\ n \in Nat /\ m \in Nat /\ k \in Nat /\ l \in Nat /\ consumed \in 0 .. n
        /\ log \o w \in Seq(Commands) /\ Len(log \o w) = n + l
    BY <1>3, CancelFacts
  <1>5. \A i \in 1 .. n + l : log'[i] = IF i <= n THEN log[i] ELSE w[i - n]
    BY <1>2, <1>3, <1>4, CancelFacts
  <1>6. /\ Len(log') = n + l
        /\ \A i \in 1 .. n : log'[i] = log[i] /\ i \in 1 .. n + l
        /\ \A i \in 1 .. l : log'[n + i] = w[i] /\ n + i \in 1 .. n + l
        /\ \A i \in 1 .. n + l : i \in 1 .. n \/ (i - n \in 1 .. l /\ log'[i] = w[i - n])
    <2> HIDE DEF n, l
    <2>1. Len(log') = n + l
      BY <1>2, <1>4
    <2>2. \A i \in 1 .. n : log'[i] = log[i] /\ i \in 1 .. n + l
      BY <1>4, <1>5
    <2>3. \A i \in 1 .. l : n + i \in 1 .. n + l /\ ~(n + i <= n) /\ (n + i) - n = i
      BY <1>4
    <2>4. \A i \in 1 .. n + l : i \in 1 .. n \/ (i - n \in 1 .. l /\ ~(i <= n))
      BY <1>4
    <2> QED
      BY <1>5, <2>1, <2>2, <2>3, <2>4
  <1>7. /\ Len(buffer') = m - k
        /\ \A i \in 1 .. m - k : buffer'[i] = buffer[k + i] /\ k + i \in 1 .. m
    BY <1>2, CancelFacts, BatchCut
  <1>b. /\ \A i \in 1 .. m, o \in OrderIds : CancelsLate(buffer[i], o) =>
             o \in created /\ \A j \in 1 .. m : Creates(buffer[j], o) => j < i
        /\ \A i \in 1 .. n, o \in OrderIds : CancelsLate(log[i], o) =>
             /\ o \in created
             /\ \A j \in 1 .. n : Creates(log[j], o) =>
                  \E h \in j + 1 .. n : CancelsLate(log[h], o)
             /\ \A j \in 1 .. m : ~Creates(buffer[j], o)
    BY DEF CancelInv, BufferSound, LogSound
  <1>w. \A o \in OrderIds, i, p \in 1 .. l : Creates(w[i], o) /\ CancelsLate(w[p], o) =>
             \E h \in i + 1 .. l : CancelsLate(w[h], o)
    BY <1>1, WrittenSound DEF CancelInv
  <1>8. Known' = Known
    BY <1>2 DEF Known
  <1>9. RequestsSound'
    BY <1>2, <1>8 DEF CancelInv, RequestsSound
  <1> HIDE DEF n, m, l
  <1>10. BufferSound'
    <2> SUFFICES ASSUME NEW i \in 1 .. m - k, NEW o \in OrderIds, CancelsLate(buffer'[i], o)
                 PROVE  o \in created /\ \A j \in 1 .. m - k : Creates(buffer'[j], o) => j < i
      BY <1>2, <1>7 DEF BufferSound
    <2>1. o \in created /\ \A j \in 1 .. m : Creates(buffer[j], o) => j < k + i
      BY <1>7, <1>b
    <2>2. ASSUME NEW j \in 1 .. m - k, Creates(buffer'[j], o) PROVE j < i
      <3>1. k + j < k + i
        BY <1>7, <2>1, <2>2
      <3> QED
        BY <1>4, <3>1
    <2> QED
      BY <2>1, <2>2
  <1>11. LogSound'
    <2> SUFFICES ASSUME NEW i \in 1 .. n + l, NEW o \in OrderIds, CancelsLate(log'[i], o)
                 PROVE  /\ o \in created
                        /\ \A j \in 1 .. n + l : Creates(log'[j], o) =>
                             \E h \in j + 1 .. n + l : CancelsLate(log'[h], o)
                        /\ \A j \in 1 .. m - k : ~Creates(buffer'[j], o)
      BY <1>2, <1>6, <1>7 DEF LogSound
    <2>1. CASE i \in 1 .. n
      <3>1. /\ o \in created /\ CancelsLate(log[i], o)
            /\ \A j \in 1 .. n : Creates(log[j], o) => \E h \in j + 1 .. n : CancelsLate(log[h], o)
            /\ \A j \in 1 .. m : ~Creates(buffer[j], o)
        BY <1>6, <1>b, <2>1
      <3>2. \A j \in 1 .. m - k : ~Creates(buffer'[j], o)
        BY <1>7, <3>1
      <3>3. ASSUME NEW j \in 1 .. n + l, Creates(log'[j], o)
            PROVE  \E h \in j + 1 .. n + l : CancelsLate(log'[h], o)
        <4>1. ~(j - n \in 1 .. l /\ log'[j] = w[j - n])
          BY <1>3, <3>1, <3>3
        <4>2. j \in 1 .. n
          BY <1>6, <4>1
        <4>3. Creates(log[j], o)
          BY <1>6, <3>3, <4>2
        <4>4. PICK h \in j + 1 .. n : CancelsLate(log[h], o)
          BY <3>1, <4>2, <4>3
        <4>5. h \in 1 .. n /\ h \in j + 1 .. n + l
          BY <1>4, <4>2
        <4> QED
          BY <1>6, <4>4, <4>5
      <3> QED
        BY <3>1, <3>2, <3>3
    <2>2. CASE i - n \in 1 .. l /\ log'[i] = w[i - n]
      <3>1. PICK q \in 1 .. k : w[i - n] = buffer[q] /\ q \in 1 .. m
        BY <1>3, <2>2
      <3>2. CancelsLate(w[i - n], o) /\ CancelsLate(buffer[q], o)
        BY <2>2, <3>1
      <3>3. o \in created /\ \A j \in 1 .. m : Creates(buffer[j], o) => j < q
        BY <1>b, <3>1, <3>2
      <3>4. ASSUME NEW j \in 1 .. m - k PROVE ~Creates(buffer'[j], o)
        <4>0. k \in Nat /\ q \in 1 .. k /\ j \in Nat
          BY <1>4
        <4>1. ~(k + j < q)
          BY <4>0
        <4>2. k + j \in 1 .. m /\ buffer'[j] = buffer[k + j]
          BY <1>7
        <4> QED
          BY <3>3, <4>1, <4>2
      <3>5. ASSUME NEW j \in 1 .. n + l, Creates(log'[j], o)
            PROVE  \E h \in j + 1 .. n + l : CancelsLate(log'[h], o)
        <4>1. CASE j \in 1 .. n
          <5>1. i \in j + 1 .. n + l
            BY <1>4, <2>2, <4>1
          <5> QED
            BY <5>1
        <4>2. CASE j - n \in 1 .. l /\ log'[j] = w[j - n]
          <5>1. Creates(w[j - n], o)
            BY <3>5, <4>2
          <5>2. PICK h \in (j - n) + 1 .. l : CancelsLate(w[h], o)
            BY <1>w, <2>2, <3>2, <4>2, <5>1
          <5>3. h \in 1 .. l /\ n + h \in j + 1 .. n + l
            BY <1>4, <4>2
          <5>4. log'[n + h] = w[h]
            BY <1>6, <5>3
          <5> QED
            BY <5>2, <5>3, <5>4
        <4> QED
          BY <1>6, <4>1, <4>2
      <3> QED
        BY <3>3, <3>4, <3>5
    <2> QED
      BY <1>6, <2>1, <2>2
  <1>12. LateCancelHolds'
    <2> SUFFICES ASSUME NEW o \in OrderIds,
                        \E i \in 1 .. consumed : CancelsLate(log'[i], o),
                        \A i \in consumed + 1 .. n + l : ~CancelsLate(log'[i], o)
                 PROVE  engine[o] # "PLACED"
      BY <1>2, <1>6 DEF LateCancelHolds
    <2>1. \E i \in 1 .. consumed : CancelsLate(log[i], o)
      BY <1>4, <1>6
    <2>2. \A i \in consumed + 1 .. n : i \in 1 .. n /\ i \in consumed + 1 .. n + l
      BY <1>4
    <2>3. \A i \in consumed + 1 .. n : ~CancelsLate(log[i], o)
      BY <1>6, <2>2
    <2> QED
      BY <2>1, <2>3 DEF CancelInv, LateCancelHolds, n
  <1> QED
    BY <1>9, <1>10, <1>11, <1>12 DEF CancelInv

\* The end of the process takes creations along, which puts none behind.
LEMMA CrashCancel ==
    ASSUME ApiInv, CancelInv, Crash
    PROVE  CancelInv'
  <1>1. /\ req' = [r \in Reqs |-> Idle] /\ buffer' = << >>
        /\ UNCHANGED <<ids, rows, requests, log, consumed, running, engine, missed, created>>
    BY DEF Crash, engineVars
  <1>2. Known' = Known
    BY <1>1 DEF Known
  <1>3. RequestsSound'
    BY <1>1, <1>2, IdleIsRequest DEF CancelInv, RequestsSound, Creates, CancelsLate
  <1>4. BufferSound' /\ LogSound' /\ LateCancelHolds'
    BY <1>1 DEF CancelInv, BufferSound, LogSound, LateCancelHolds
  <1> QED
    BY <1>3, <1>4 DEF CancelInv

\* The engine: a late cancellation is still to be read after a creation whose
\* order has one before it, and one that it handles leaves no order resting.
LEMMA EngineCancel ==
    ASSUME ApiInv, CancelInv, NEW outcome \in {"PLACED", "FILLED", "CANCELLED"},
           EngineHandles(outcome)
    PROVE  CancelInv'
  <1> DEFINE c == log[consumed + 1]
  <1>1. /\ consumed < Len(log) /\ consumed' = consumed + 1
        /\ UNCHANGED <<ids, rows, requests, req, buffer, log, created, lost>>
        /\ engine' = [o \in OrderIds |->
             CASE o \in c.orders /\ c.op = "new"                            -> outcome
               [] o \in c.orders /\ c.op = "cancel" /\ engine[o] = "PLACED" -> "CANCELLED"
               [] OTHER                                                     -> engine[o]]
    BY DEF EngineHandles, Reads, NextCommand, Decide
  <1>2. consumed \in Nat /\ Len(log) \in Nat /\ consumed + 1 \in 1 .. Len(log)
    BY <1>1, CancelFacts
  <1> HIDE DEF c
  <1>4. \A o \in OrderIds : engine'[o] = "PLACED" =>
            Creates(c, o) \/ (engine[o] = "PLACED" /\ ~(o \in c.orders /\ c.op = "cancel"))
    BY <1>1 DEF Creates
  <1>5. LateCancelHolds'
    <2> SUFFICES ASSUME NEW o \in OrderIds, NEW i \in 1 .. consumed + 1, CancelsLate(log[i], o),
                        \A h \in (consumed + 1) + 1 .. Len(log) : ~CancelsLate(log[h], o),
                        engine'[o] = "PLACED"
                 PROVE  FALSE
      BY <1>1 DEF LateCancelHolds
    <2>1. i \in 1 .. Len(log)
      BY <1>2
    <2>2. ~Creates(c, o)
      <3>1. Creates(log[consumed + 1], o) =>
                \E h \in (consumed + 1) + 1 .. Len(log) : CancelsLate(log[h], o)
        BY <1>2, <2>1 DEF CancelInv, LogSound
      <3> QED
        BY <3>1 DEF c
    <2>3. engine[o] = "PLACED" /\ ~(o \in c.orders /\ c.op = "cancel")
      BY <1>4, <2>2
    <2>4. ~CancelsLate(log[consumed + 1], o)
      BY <2>3 DEF c, CancelsLate
    <2>5. i \in 1 .. consumed
      BY <1>2, <2>4
    <2>6. \A h \in consumed + 1 .. Len(log) : h = consumed + 1 \/ h \in (consumed + 1) + 1 .. Len(log)
      BY <1>2
    <2>7. \A h \in consumed + 1 .. Len(log) : ~CancelsLate(log[h], o)
      BY <2>4, <2>6
    <2> QED
      BY <2>3, <2>5, <2>7 DEF CancelInv, LateCancelHolds
  <1>6. Known' = Known
    BY <1>1 DEF Known
  <1>7. RequestsSound' /\ BufferSound' /\ LogSound'
    BY <1>1, <1>6 DEF CancelInv, RequestsSound, BufferSound, LogSound
  <1> QED
    BY <1>5, <1>7 DEF CancelInv

\* A step that places nothing and puts, sends and reads no command.
LEMMA QuietCancel ==
    ASSUME ApiInv, CancelInv, UNCHANGED <<ids, requests, req, buffer, log, consumed, created>>,
           Known' = Known, \A p \in OrderIds : engine'[p] = "PLACED" => engine[p] = "PLACED"
    PROVE  CancelInv'
  <1>1. LateCancelHolds'
    BY DEF CancelInv, LateCancelHolds
  <1>2. RequestsSound' /\ BufferSound' /\ LogSound'
    BY DEF CancelInv, RequestsSound, BufferSound, LogSound
  <1> QED
    BY <1>1, <1>2 DEF CancelInv

\* Fills, rows and lost events place nothing.
LEMMA FollowCancel ==
    ASSUME ApiInv, CancelInv, NEW o \in Known,
           EngineFills(o) \/ RowFollows(o) \/ EventLost(o)
    PROVE  CancelInv'
  <1>0. o \in OrderIds
    BY DEF Known
  <1>1. UNCHANGED <<ids, requests, req, buffer, log, consumed, created>>
    BY DEF EngineFills, RowFollows, EventLost, engineVars
  <1>2. Known' = Known
    BY <1>0 DEF EngineFills, RowFollows, RowBehind, EventLost, Known, ApiInv, TypeOK, NoRow, Statuses
  <1>3. \A p \in OrderIds : engine'[p] = "PLACED" => engine[p] = "PLACED"
    BY <1>0, CancelFacts DEF EngineFills, RowFollows, EventLost, Decide, engineVars
  <1> QED
    BY <1>1, <1>2, <1>3, QuietCancel

\* Nor does the end of the engine.
LEMMA EndsCancel ==
    ASSUME ApiInv, CancelInv, EngineRaises \/ RejectionRaises
    PROVE  CancelInv'
  <1>1. UNCHANGED <<ids, rows, requests, req, buffer, log, consumed, created>>
    BY DEF EngineRaises, RejectionRaises
  <1>2. Known' = Known
    BY <1>1 DEF Known
  <1>3. \A p \in OrderIds : engine'[p] = "PLACED" => engine[p] = "PLACED"
    BY DEF EngineRaises, RejectionRaises, Decide
  <1> QED
    BY <1>1, <1>2, <1>3, QuietCancel

\* Every step keeps creations ahead of late cancellations.
LEMMA CancelStep == ApiInv /\ CancelInv /\ [Next]_apiVars => CancelInv'
  <1> SUFFICES ASSUME ApiInv, CancelInv, [Next]_apiVars PROVE CancelInv'
    OBVIOUS
  <1>1. CASE \E r \in Reqs : Arrive(r) \/ Proceed(r)
    <2> PICK r \in Reqs : Arrive(r) \/ Proceed(r)
      BY <1>1
    <2>1. CASE CreateSingle(r) \/ CreateOCO(r) \/ CreateOTO(r) \/ CreateOTOCO(r)
      BY <2>1, CommitCancel DEF CreateSingle, CreateOCO, CreateOTO, CreateOTOCO
    <2>2. CASE \E o \in Known : ModifyRead(r, o) \/ CancelRead(r, o)
      BY <2>2, ChangeCancel
    <2>3. CASE Proceed(r)
      BY <2>3, PutCancel, EndCancel DEF Proceed
    <2> QED
      BY <2>1, <2>2, <2>3 DEF Arrive
  <1>2. CASE Deliver
    BY <1>2, DeliverCancel
  <1>3. CASE Crash
    BY <1>3, CrashCancel
  <1>4. CASE Engine
    BY <1>4, EngineCancel, EndsCancel DEF Engine
  <1>5. CASE \E o \in Known : EngineFills(o) \/ RowFollows(o) \/ EventLost(o)
    BY <1>5, FollowCancel
  <1>6. CASE UNCHANGED apiVars
    BY <1>6 DEF apiVars, engineVars, CancelInv, RequestsSound, BufferSound, LogSound, LateCancelHolds, Known
  <1> QED
    BY <1>1, <1>2, <1>3, <1>4, <1>5, <1>6 DEF Next

\* cancel_order and put_command: a cancellation asked for after the creation was
\* answered holds once its last copy is read, for any number of overlapping
\* requests, with batches that are lost or sent twice and crashes.
THEOREM LateCancelAlwaysHolds == Spec => []LateCancelHolds
  <1>1. CancelInv => LateCancelHolds
    BY DEF CancelInv
  <1> QED
    BY <1>1, CancelInit, CancelStep, ApiInvariant, PTL DEF Spec
=============================================================================
