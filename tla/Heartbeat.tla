----------------------------- MODULE Heartbeat -----------------------------
(***************************************************************************)
(* The heartbeat server, its clients and the status of the instruments in  *)
(* the database (engine/heartbeat, and EngineShadow where it uses it).     *)
(*                                                                         *)
(* A client lives in the shadow process of an engine.  Its constructor     *)
(* connects, sends the registration and starts the thread that sends the   *)
(* heartbeats; the main thread then writes ALIVE itself.  The server runs  *)
(* one coroutine per connection on one event loop: what it does between    *)
(* two awaits is one step, and each write to the database is a step of its *)
(* own, so the coroutines of two connections interleave there.             *)
(*                                                                         *)
(* Three parties write the status of an instrument: the coroutine of each  *)
(* of its connections, the main thread and the heartbeat thread of each of *)
(* its clients.  Connections are numbered in the order they are made.      *)
(***************************************************************************)
EXTENDS Integers, Sequences

CONSTANTS Symbols,
          MaxConns,    \* bound: the number of connections ever made
          Timely       \* no message of a running client is late

ASSUME HeartbeatAssumption == MaxConns \in Nat \ {0} /\ Timely \in BOOLEAN

VARIABLES
    symbolOf,   \* the symbols of the connections made, in order of creation
    client,     \* the main thread of each client's process
    thread,     \* the heartbeat thread of each client
    inbox,      \* lines are waiting at the server's end of a connection
    handler,    \* the coroutine of each connection
    symbols,    \* HeartbeatServer._symbols
    status      \* Instruments.status

vars == <<symbolOf, client, thread, inbox, handler, symbols, status>>

Conns == 1 .. MaxConns

NoConn == 0

\* "connecting": connected, the registration not yet sent; "starting": sent,
\* ALIVE not yet written; "stopping": inside HeartbeatClient.close; "closed":
\* the socket is closed, by close or by the end of the process; "vanished":
\* the host is gone and no end of file comes.
ClientStates ==
    {"none", "connecting", "starting", "running", "stopping", "closed", "vanished"}

\* "closing": the loop has ended, on_close not yet called.
ThreadStates == {"none", "beating", "closing", "ended"}

\* "accepted": waits for the registration; "registered": about to write
\* ALIVE; "serving": waits for a line; "cleanup": about to write DEAD;
\* "stranded" and "failed": ended by an error of the database in the write of
\* ALIVE and in the write of DEAD.
HandlerStates ==
    {"none", "accepted", "registered", "serving", "cleanup", "done", "stranded", "failed"}

Made(s) == {c \in DOMAIN symbolOf : symbolOf[c] = s}

Running(c) == client[c] \in {"connecting", "starting", "running"}

\* The coroutine of the connection reads no more lines.
Deaf(c) == handler[c] \in {"done", "stranded", "failed"}

Gone(c) == client[c] \in {"closed", "vanished"}

-----------------------------------------------------------------------------
(***************************************************************************)
(* The client.                                                             *)
(***************************************************************************)

\* HeartbeatClient.__init__ up to connect, whatever other processes of the
\* symbol are doing.
Connect(s) ==
    LET c == Len(symbolOf) + 1 IN
    /\ c \in Conns
    /\ symbolOf' = Append(symbolOf, s)
    /\ client' = [client EXCEPT ![c] = "connecting"]
    /\ handler' = [handler EXCEPT ![c] = "accepted"]
    /\ UNCHANGED <<thread, inbox, symbols, status>>

\* HeartbeatClient._register.  A send to a connection that the server has
\* closed is lost.
SendRegister(c) ==
    /\ client[c] = "connecting"
    /\ client' = [client EXCEPT ![c] = "starting"]
    /\ thread' = [thread EXCEPT ![c] = "beating"]
    /\ inbox' = [inbox EXCEPT ![c] = ~Deaf(c)]
    /\ UNCHANGED <<symbolOf, handler, symbols, status>>

\* EngineShadow.run, once the client exists.
ShadowAlive(c) ==
    /\ client[c] = "starting"
    /\ client' = [client EXCEPT ![c] = "running"]
    /\ status' = [status EXCEPT ![symbolOf[c]] = "ALIVE"]
    /\ UNCHANGED <<symbolOf, thread, inbox, handler, symbols>>

\* One turn of _hb_thread_target: the stop event that close sets ends the
\* loop only after the next heartbeat.
SendHeartbeat(c) ==
    /\ thread[c] = "beating"
    /\ inbox' = [inbox EXCEPT ![c] = ~Deaf(c)]
    /\ thread' = [thread EXCEPT ![c] =
                     IF client[c] = "stopping" THEN "closing" ELSE @]
    /\ UNCHANGED <<symbolOf, client, handler, symbols, status>>

\* _send finds the connection closed by the server and sets the stop event.  The
\* server closes it in _close_writer; asyncio closes it after an error in newer
\* versions.
SendFails(c) ==
    /\ thread[c] = "beating"
    /\ Deaf(c)
    /\ thread' = [thread EXCEPT ![c] = "closing"]
    /\ UNCHANGED <<symbolOf, client, inbox, handler, symbols, status>>

\* The send takes longer than the timeout of the socket because nobody reads at
\* the other end, or too slowly: _send does not catch that, and the thread ends
\* without on_close.
SendTimesOut(c) ==
    /\ thread[c] = "beating"
    /\ handler[c] \in {"stranded", "failed"} \/ ~Timely
    /\ thread' = [thread EXCEPT ![c] = "ended"]
    /\ UNCHANGED <<symbolOf, client, inbox, handler, symbols, status>>

\* The callback on_close, in the heartbeat thread.
OnClose(c) ==
    /\ thread[c] = "closing"
    /\ thread' = [thread EXCEPT ![c] = "ended"]
    /\ status' = [status EXCEPT ![symbolOf[c]] = "DEAD"]
    /\ UNCHANGED <<symbolOf, client, inbox, handler, symbols>>

\* An exception leaves the loop of EngineShadow.run, and its finally clause
\* calls HeartbeatClient.close, which sets the stop event.
Close(c) ==
    /\ client[c] \in {"starting", "running"}
    /\ client' = [client EXCEPT ![c] = "stopping"]
    /\ UNCHANGED <<symbolOf, thread, inbox, handler, symbols, status>>

\* The join in close returns or times out, the socket is closed, and the end
\* of the process stops the daemon thread wherever it is.
CloseSocket(c) ==
    /\ client[c] = "stopping"
    /\ client' = [client EXCEPT ![c] = "closed"]
    /\ thread' = [thread EXCEPT ![c] = "ended"]
    /\ UNCHANGED <<symbolOf, inbox, handler, symbols, status>>

\* The process is killed: its kernel closes the connection.
Crash(c) ==
    /\ Running(c) \/ client[c] = "stopping"
    /\ client' = [client EXCEPT ![c] = "closed"]
    /\ thread' = [thread EXCEPT ![c] = "ended"]
    /\ UNCHANGED <<symbolOf, inbox, handler, symbols, status>>

\* The host or the network is lost: nothing comes from the client any more.
Vanish(c) ==
    /\ Running(c) \/ client[c] = "stopping"
    /\ client' = [client EXCEPT ![c] = "vanished"]
    /\ thread' = [thread EXCEPT ![c] = "ended"]
    /\ UNCHANGED <<symbolOf, inbox, handler, symbols, status>>

-----------------------------------------------------------------------------
(***************************************************************************)
(* The coroutine _client_conn_cb of a connection.                          *)
(***************************************************************************)

\* The wait for a line lasts longer than its timeout.
Late(c) == ~inbox[c] /\ client[c] # "closed" /\ (Timely => ~Running(c))

\* Every line has been read and the client's end is closed.
AtEof(c) == ~inbox[c] /\ client[c] = "closed"

\* _handle_register returns the connection.  An earlier connection of the
\* symbol is overwritten.
Register(c) ==
    /\ handler[c] = "accepted"
    /\ inbox[c]
    /\ inbox' = [inbox EXCEPT ![c] = FALSE]
    /\ handler' = [handler EXCEPT ![c] = "registered"]
    /\ symbols' = [symbols EXCEPT ![symbolOf[c]] = c]
    /\ UNCHANGED <<symbolOf, client, thread, status>>

\* _handle_register times out, or raises on the empty line of an end of file.
RegisterFails(c) ==
    /\ handler[c] = "accepted"
    /\ Late(c) \/ AtEof(c)
    /\ handler' = [handler EXCEPT ![c] = "done"]
    /\ UNCHANGED <<symbolOf, client, thread, inbox, symbols, status>>

WriteAlive(c) ==
    /\ handler[c] = "registered"
    /\ handler' = [handler EXCEPT ![c] = "serving"]
    /\ status' = [status EXCEPT ![symbolOf[c]] = "ALIVE"]
    /\ UNCHANGED <<symbolOf, client, thread, inbox, symbols>>

\* The write of ALIVE raises: it is outside the try, so that the coroutine ends
\* with its entry in the registry and the client is watched by nobody.
WriteAliveFails(c) ==
    /\ handler[c] = "registered"
    /\ handler' = [handler EXCEPT ![c] = "stranded"]
    /\ inbox' = [inbox EXCEPT ![c] = FALSE]
    /\ UNCHANGED <<symbolOf, client, thread, symbols, status>>

\* Variant of ReadHeartbeat: a heartbeat ends the loop.
ReadHeartbeatEnds(c) ==
    /\ handler[c] = "serving"
    /\ inbox[c]
    /\ inbox' = [inbox EXCEPT ![c] = FALSE]
    /\ handler' = [handler EXCEPT ![c] = "cleanup"]
    /\ symbols' = [symbols EXCEPT ![symbolOf[c]] = NoConn]
    /\ UNCHANGED <<symbolOf, client, thread, status>>

ReadHeartbeat(c) ==
    /\ handler[c] = "serving"
    /\ inbox[c]
    /\ inbox' = [inbox EXCEPT ![c] = FALSE]
    /\ UNCHANGED <<symbolOf, client, thread, handler, symbols, status>>

\* Variant of Timeout: the loop goes on after a timeout.
TimeoutContinues(c) ==
    /\ handler[c] = "serving"
    /\ Late(c)
    /\ UNCHANGED vars

\* HeartbeatTimeoutError and the first line of the finally clause: the entry
\* of the symbol is popped, whichever connection it is.
Timeout(c) ==
    /\ handler[c] = "serving"
    /\ Late(c)
    /\ handler' = [handler EXCEPT ![c] = "cleanup"]
    /\ symbols' = [symbols EXCEPT ![symbolOf[c]] = NoConn]
    /\ UNCHANGED <<symbolOf, client, thread, inbox, status>>

\* Variant of Eof: the entry of the symbol is left in the registry.
EofKeepsEntry(c) ==
    /\ handler[c] = "serving"
    /\ AtEof(c)
    /\ handler' = [handler EXCEPT ![c] = "cleanup"]
    /\ UNCHANGED <<symbolOf, client, thread, inbox, symbols, status>>

\* readline returns the empty line; the loop breaks into the finally clause.
Eof(c) ==
    /\ handler[c] = "serving"
    /\ AtEof(c)
    /\ handler' = [handler EXCEPT ![c] = "cleanup"]
    /\ symbols' = [symbols EXCEPT ![symbolOf[c]] = NoConn]
    /\ UNCHANGED <<symbolOf, client, thread, inbox, status>>

\* The write of DEAD, and _close_writer: lines not read are lost.
WriteDead(c) ==
    /\ handler[c] = "cleanup"
    /\ handler' = [handler EXCEPT ![c] = "done"]
    /\ inbox' = [inbox EXCEPT ![c] = FALSE]
    /\ status' = [status EXCEPT ![symbolOf[c]] = "DEAD"]
    /\ UNCHANGED <<symbolOf, client, thread, symbols>>

\* The write of DEAD raises, and the writer is not closed.
WriteDeadFails(c) ==
    /\ handler[c] = "cleanup"
    /\ handler' = [handler EXCEPT ![c] = "failed"]
    /\ inbox' = [inbox EXCEPT ![c] = FALSE]
    /\ UNCHANGED <<symbolOf, client, thread, symbols, status>>

-----------------------------------------------------------------------------
Init ==
    /\ symbolOf = << >>
    /\ client = [c \in Conns |-> "none"]
    /\ thread = [c \in Conns |-> "none"]
    /\ inbox = [c \in Conns |-> FALSE]
    /\ handler = [c \in Conns |-> "none"]
    /\ symbols = [s \in Symbols |-> NoConn]
    /\ status = [s \in Symbols |-> "DEAD"]

ClientStep(c) ==
    \/ SendRegister(c)
    \/ ShadowAlive(c)
    \/ SendHeartbeat(c)
    \/ SendFails(c)
    \/ SendTimesOut(c)
    \/ OnClose(c)
    \/ Close(c)
    \/ CloseSocket(c)
    \/ Crash(c)
    \/ Vanish(c)

HandlerStep(c) ==
    \/ Register(c)
    \/ RegisterFails(c)
    \/ WriteAlive(c)
    \/ WriteAliveFails(c)
    \/ ReadHeartbeat(c)
    \/ Timeout(c)
    \/ Eof(c)
    \/ WriteDead(c)
    \/ WriteDeadFails(c)

Next ==
    \/ \E s \in Symbols : Connect(s)
    \/ \E c \in Conns : ClientStep(c)
    \/ \E c \in Conns : HandlerStep(c)

Spec == Init /\ [][Next]_vars

\* The event loop runs every coroutine that can go on, and every wait of the
\* server has a timeout.  Nothing is assumed of the clients.
FairSpec == Spec /\ \A c \in Conns : WF_vars(HandlerStep(c))

-----------------------------------------------------------------------------
(***************************************************************************)
(* Correctness.                                                            *)
(***************************************************************************)

\* Every variable has its type, and what has been connected is a prefix of
\* the connections.
TypeOK ==
    /\ symbolOf \in Seq(Symbols)
    /\ Len(symbolOf) <= MaxConns
    /\ client \in [Conns -> ClientStates]
    /\ thread \in [Conns -> ThreadStates]
    /\ inbox \in [Conns -> BOOLEAN]
    /\ handler \in [Conns -> HandlerStates]
    /\ symbols \in [Symbols -> Conns \cup {NoConn}]
    /\ status \in [Symbols -> {"ALIVE", "DEAD"}]

\* An entry of the registry always is a connection of that symbol whose
\* coroutine still runs, whatever the order in which the coroutines of a symbol
\* come and go.  One way out of the coroutine leaves its entry behind: an error
\* in the write of ALIVE, which is outside the try.
RegistryServed ==
    \A s \in Symbols : symbols[s] # NoConn =>
        /\ symbols[s] \in Made(s)
        /\ handler[symbols[s]] \in {"registered", "serving", "stranded"}

\* A connection not yet made has no history.
Unmade ==
    \A c \in Conns \ DOMAIN symbolOf :
        client[c] = "none" /\ thread[c] = "none" /\ handler[c] = "none"

\* The inductive invariant of the proofs.
IInv == TypeOK /\ Unmade /\ RegistryServed

\* The client of the only connection a symbol ever had is registered and
\* ALIVE for as long as it runs: the two writes of ALIVE and the heartbeats
\* come in any order and none of them undoes another.  When the server could
\* not write ALIVE the client stays registered; its own thread may take it for
\* dead.
LoneClientAlive ==
    Timely =>
      \A c \in DOMAIN symbolOf :
        /\ Made(symbolOf[c]) = {c}
        /\ client[c] = "running"
        /\ handler[c] \notin {"accepted", "registered"}
        => /\ handler[c] \in {"serving", "stranded"}
           /\ symbols[symbolOf[c]] = c
           /\ handler[c] = "serving" => status[symbolOf[c]] = "ALIVE"

AllGone(s) == Made(s) # {} /\ \A c \in Made(s) : Gone(c)

\* An error of the database ended a coroutine of the symbol in a write.
WriteFailed(s) == \E c \in Made(s) : handler[c] \in {"stranded", "failed"}

\* "If no heartbeat received within timeout (5 seconds), engine marked as
\* dead": when every client of a symbol is gone, however it went and whatever
\* was being written at the time, the symbol is DEAD in the end and stays so
\* until a client connects, unless a write of its status failed.  This is about
\* clients whose messages are not late: with Timely FALSE a coroutine that timed
\* out can write DEAD before the client itself writes ALIVE, and then nobody
\* watches the client any more.
DeadDetected ==
    \A s \in Symbols :
        Timely /\ AllGone(s) ~>
            ~AllGone(s) \/ WriteFailed(s) \/ [](AllGone(s) => status[s] = "DEAD")

=============================================================================
