--------------------------- MODULE EngineRecovery ---------------------------
(***************************************************************************)
(* The process that runs an engine: the orchestrator that reads commands   *)
(* from Kafka, the shadow process that replays them and takes snapshots,   *)
(* and the loader that starts the engine again after a crash.              *)
(*                                                                         *)
(* What a command does to the book is the business of SpotEngine.  Here    *)
(* the state of an engine is the sequence of what it did since it started, *)
(* one entry for each command: it filled (or rested), or it was rejected   *)
(* for want of balance, which only the main engine can tell.               *)
(*                                                                         *)
(* A crash of the orchestrator takes its shadow and the queue between them *)
(* along.  Redis, PostgreSQL and Kafka survive.                            *)
(***************************************************************************)
EXTENDS Integers, Sequences, SequencesExt

CONSTANTS MaxCommands,       \* bound: commands sent to the symbol
          MaxCrashes,        \* bound: crashes of either process
          ShadowMayDie,      \* whether the shadow process may end
          SnapshotInterval   \* commands between snapshots, 10 000 in the code

ASSUME RecoveryAssumption ==
    /\ MaxCommands \in Nat
    /\ MaxCrashes \in Nat
    /\ ShadowMayDie \in BOOLEAN
    /\ SnapshotInterval \in Nat \ {0}

VARIABLES
    produced,    \* commands in the topic, numbered from 1 by their offsets
    committed,   \* the next offset in the consumer group, or NoOffset
    first,       \* where the group began to read when it had no offset
    applied,     \* how often each command changed the balances in Redis
    main,        \* the orchestrator: its stage, position and engine
    queue,       \* the event queue of the shadow
    shadow,      \* the shadow: alive, cmd, _batch, its engine, command_count
    snapshots,   \* rows of EngineContextSnapshots
    crashes      \* crashes of either process so far

recoveryVars ==
    <<produced, committed, first, applied, main, queue, shadow, snapshots, crashes>>

NoOffset == 0
NoCommand == 0
Commands == 1..MaxCommands
Outcomes == {"fill", "reject"}
Done(c, outcome) == [cmd |-> c, outcome |-> outcome]

\* The ten asks of the system user that a fresh engine starts with.
SeedLiquidity == Done(NoCommand, "seed")

-----------------------------------------------------------------------------
(***************************************************************************)
(* The main engine.                                                        *)
(***************************************************************************)

Message(type, c) == [type |-> type, cmd |-> c]

\* What the hooks of the logger put on the queue between the two command
\* events.  A rejection is logged by handle_cancel and by handle_new, and each
\* releases escrow, which the balance manager logs through the same hook.
Logged(c, outcome) ==
    IF outcome = "reject"
    THEN << Message("order_cancelled", c), Message("escrow_decreased", c),
            Message("order_cancelled", c), Message("escrow_decreased", c) >>
    ELSE << Message("escrow_increased", c), Message("settled", c),
            Message("order_filled", c) >>

Produce ==
    /\ produced < MaxCommands
    /\ produced' = produced + 1
    /\ UNCHANGED <<committed, first, applied, main, queue, shadow, snapshots, crashes>>

\* The next command is read, and the shadow still runs.
Receive ==
    /\ main.stage = "waiting"
    /\ main.pos <= produced
    /\ shadow.alive
    /\ main' = [main EXCEPT !.stage = "received"]
    /\ queue' = Append(queue, Message("received", main.pos))
    /\ UNCHANGED <<produced, committed, first, applied, shadow, snapshots, crashes>>

\* The handler runs: balances move and the events are logged.
Apply(outcome) ==
    /\ main.stage = "received"
    /\ applied' = [applied EXCEPT ![main.pos] = @ + 1]
    /\ main' = [main EXCEPT !.stage = "applied",
                            !.engine = Append(@, Done(main.pos, outcome))]
    /\ queue' = queue \o Logged(main.pos, outcome)
    /\ UNCHANGED <<produced, committed, first, shadow, snapshots, crashes>>

Process ==
    /\ main.stage = "applied"
    /\ main' = [main EXCEPT !.stage = "waiting", !.pos = @ + 1]
    /\ queue' = Append(queue, Message("processed", main.pos))
    /\ UNCHANGED <<produced, committed, first, applied, shadow, snapshots, crashes>>

\* Variant: the death of the shadow is logged and the loop goes on.
NoticeDeathOnly ==
    /\ main.stage = "waiting"
    /\ main.pos <= produced
    /\ ~shadow.alive
    /\ UNCHANGED recoveryVars

\* A command arrives after the shadow has died: the orchestrator raises.
NoticeDeath ==
    /\ main.stage = "waiting"
    /\ main.pos <= produced
    /\ ~shadow.alive
    /\ main' = [main EXCEPT !.stage = "down"]
    /\ queue' = << >>
    /\ UNCHANGED <<produced, committed, first, applied, shadow, snapshots, crashes>>

\* Variant: a command is committed while it is being handled.
CommitEarly ==
    /\ main.stage \in {"waiting", "received", "applied"}
    /\ committed' = IF main.stage = "waiting" THEN main.pos ELSE main.pos + 1
    /\ UNCHANGED <<produced, first, applied, main, queue, shadow, snapshots, crashes>>

\* External: the consumer commits, before it polls again, what it has handed
\* out and the loop has finished with.
Commit ==
    /\ main.stage = "waiting"
    /\ committed' = main.pos
    /\ UNCHANGED <<produced, first, applied, main, queue, shadow, snapshots, crashes>>

Crash ==
    /\ main.stage \in {"waiting", "received", "applied"}
    /\ crashes < MaxCrashes
    /\ crashes' = crashes + 1
    /\ main' = [main EXCEPT !.stage = "down"]
    /\ queue' = << >>
    /\ shadow' = [shadow EXCEPT !.alive = FALSE]
    /\ UNCHANGED <<produced, committed, first, applied, snapshots>>

-----------------------------------------------------------------------------
(***************************************************************************)
(* The loader and the start of the orchestrator.                           *)
(***************************************************************************)

\* The shadow is built from a copy of the context of the main engine.
NewShadow(engine) ==
    [alive |-> TRUE, cmd |-> NoCommand, batch |-> << >>, engine |-> engine, count |-> 0]

\* Variant: the topic is read from its beginning again.
StartFromBeginning ==
    /\ main.stage = "down"
    /\ snapshots = << >>
    /\ main' = [stage |-> "waiting", pos |-> 1, engine |-> <<SeedLiquidity>>]
    /\ shadow' = NewShadow(<<SeedLiquidity>>)
    /\ UNCHANGED <<produced, committed, first, applied, queue, snapshots, crashes>>

\* Without a snapshot the engine is fresh and seeded, and the consumer goes on
\* from the offset of its group, or from the end of the topic if it has none.
StartFresh ==
    /\ main.stage = "down"
    /\ snapshots = << >>
    /\ LET pos == IF committed = NoOffset THEN produced + 1 ELSE committed IN
       /\ main' = [stage |-> "waiting", pos |-> pos, engine |-> <<SeedLiquidity>>]
       /\ first' = IF committed = NoOffset THEN pos ELSE first
    /\ shadow' = NewShadow(<<SeedLiquidity>>)
    /\ UNCHANGED <<produced, committed, applied, queue, snapshots, crashes>>

\* With a snapshot the consumer is subscribed to the topic and then assigned a
\* partition, which the client library refuses.
StartRestored ==
    /\ main.stage = "down"
    /\ snapshots # << >>
    /\ main' = [main EXCEPT !.stage = "failed"]
    /\ UNCHANGED <<produced, committed, first, applied, queue, shadow, snapshots, crashes>>

-----------------------------------------------------------------------------
(***************************************************************************)
(* The shadow.                                                             *)
(***************************************************************************)

NextMessage == Head(queue)

\* _check_sufficient_balance at the start of a command, when _idx is 0: the
\* second event of the batch decides.
CheckSufficientBalance(batch) ==
    \/ Len(batch) <= 1
    \/ batch[2].type # "order_cancelled"

Replay(c, batch) ==
    Done(c, IF CheckSufficientBalance(batch) THEN "fill" ELSE "reject")

Consume ==
    /\ shadow.alive
    /\ queue # << >>
    /\ queue' = Tail(queue)
    /\ UNCHANGED <<produced, committed, first, applied, main, crashes>>

ShadowReceived ==
    /\ Consume
    /\ NextMessage.type = "received"
    /\ shadow' = [shadow EXCEPT !.cmd = NextMessage.cmd]
    /\ UNCHANGED snapshots

ShadowEvent ==
    /\ Consume
    /\ NextMessage.type \notin {"received", "processed"}
    /\ shadow' = IF shadow.cmd = NoCommand THEN shadow
                 ELSE [shadow EXCEPT !.batch = Append(@, NextMessage)]
    /\ UNCHANGED snapshots

\* Variant: the offset to read next, to which the loader adds one again.
SnapshotNextOffset(engine, c) == [engine |-> engine, offset |-> c + 1]

\* A snapshot holds the shadow's engine and the offset of the command.
Snapshot(engine, c) == [engine |-> engine, offset |-> c]

\* Variant: the events of the command stay in the batch.
ShadowProcessedKeepsBatch ==
    /\ Consume
    /\ NextMessage.type = "processed"
    /\ NextMessage.cmd = shadow.cmd
    /\ shadow' = [shadow EXCEPT !.cmd = NoCommand,
                                !.engine = Append(@, Replay(shadow.cmd, shadow.batch)),
                                !.count = (@ + 1) % SnapshotInterval]
    /\ UNCHANGED snapshots

ShadowProcessed ==
    /\ Consume
    /\ NextMessage.type = "processed"
    /\ NextMessage.cmd = shadow.cmd
    /\ LET engine == Append(shadow.engine, Replay(shadow.cmd, shadow.batch))
           due == shadow.count + 1 >= SnapshotInterval
       IN  /\ shadow' = [shadow EXCEPT !.cmd = NoCommand,
                                       !.batch = << >>,
                                       !.engine = engine,
                                       !.count = IF due THEN 0 ELSE @ + 1]
           /\ snapshots' = IF due THEN Append(snapshots, Snapshot(engine, shadow.cmd))
                           ELSE snapshots

\* The shadow ends by itself: a lost database, an error in its replay.
ShadowDies ==
    /\ ShadowMayDie
    /\ shadow.alive
    /\ crashes < MaxCrashes
    /\ crashes' = crashes + 1
    /\ shadow' = [shadow EXCEPT !.alive = FALSE]
    /\ UNCHANGED <<produced, committed, first, applied, main, queue, snapshots>>

-----------------------------------------------------------------------------

Init ==
    /\ produced = 0
    /\ committed = NoOffset
    /\ first = 1
    /\ applied = [c \in Commands |-> 0]
    /\ main = [stage |-> "waiting", pos |-> 1, engine |-> <<SeedLiquidity>>]
    /\ queue = << >>
    /\ shadow = NewShadow(<<SeedLiquidity>>)
    /\ snapshots = << >>
    /\ crashes = 0

Orchestrator ==
    Receive \/ (\E o \in Outcomes : Apply(o)) \/ Process \/ NoticeDeath

ShadowLoop == ShadowReceived \/ ShadowEvent \/ ShadowProcessed

Next ==
    \/ Produce
    \/ Orchestrator
    \/ Commit
    \/ Crash
    \/ StartFresh
    \/ StartRestored
    \/ ShadowLoop
    \/ ShadowDies

Spec == Init /\ [][Next]_recoveryVars

\* The two loops keep running while their processes do.
FairSpec == Spec /\ WF_recoveryVars(Orchestrator) /\ WF_recoveryVars(ShadowLoop)

-----------------------------------------------------------------------------
(***************************************************************************)
(* Properties.                                                             *)
(***************************************************************************)

Entries == [cmd : 0..MaxCommands, outcome : Outcomes \cup {"seed"}]
Types == {"received", "processed", "order_cancelled", "escrow_decreased",
          "escrow_increased", "settled", "order_filled"}
Messages == [type : Types, cmd : Commands]

Stages == {"waiting", "received", "applied", "down", "failed"}

Mains == [stage : Stages, pos : 1..(MaxCommands + 1), engine : Seq(Entries)]

Shadows == [alive : BOOLEAN, cmd : 0..MaxCommands, batch : Seq(Messages),
            engine : Seq(Entries), count : 0..(SnapshotInterval - 1)]

Rows == [engine : Seq(Entries), offset : 0..MaxCommands]

\* Every variable has its type.
TypeOK ==
    /\ produced \in 0..MaxCommands
    /\ committed \in 0..(MaxCommands + 1)
    /\ first \in 1..(MaxCommands + 1)
    /\ applied \in [Commands -> Nat]
    /\ main \in Mains
    /\ queue \in Seq(Messages)
    /\ shadow \in Shadows
    /\ snapshots \in Seq(Rows)
    /\ crashes \in 0..MaxCrashes

CmdsOf(engine) == [i \in DOMAIN engine |-> engine[i].cmd]

\* Where the queue says that the main engine has finished a command.
Finished(messages) == {i \in DOMAIN messages : messages[i].type = "processed"}

\* The shadow replays every command the main engine has finished in the same
\* order and with no other command's events: what it has not replayed yet is
\* still on the queue, whatever the pace of the two processes.
ShadowFollows ==
    shadow.alive =>
        /\ IsPrefix(CmdsOf(shadow.engine), CmdsOf(main.engine))
        /\ \A i \in DOMAIN shadow.batch : shadow.batch[i].cmd = shadow.cmd
        /\ main.stage = "waiting" =>
             Len(main.engine) - Len(shadow.engine) = Cardinality(Finished(queue))

\* A snapshot is the state at its offset: it ends with the command it names, so
\* that reading on from the next offset neither repeats nor skips a command.
SnapshotAtOffset ==
    \A i \in DOMAIN snapshots :
        /\ Last(snapshots[i].engine).cmd = snapshots[i].offset
        /\ IsPrefix(CmdsOf(snapshots[i].engine), CmdsOf(main.engine))

\* Delivery at least once: below the committed offset no command was skipped,
\* from where the consumer group began to read, through any number of crashes.
AtLeastOnce ==
    \A c \in Commands : first <= c /\ c < committed => applied[c] >= 1

\* The death of the shadow stops the engine once a command is waiting, or the
\* engine was going to stop or finish its command anyway.
DeathNoticed ==
    (main.stage = "waiting" /\ main.pos <= produced /\ ~shadow.alive)
        ~> main.stage \in {"down", "failed"}

\* What has been committed is not repeated: after a crash between any two
\* steps, only commands from the committed offset on change the balances.
CommittedNotRepeated ==
    [][\A c \in Commands : applied'[c] # applied[c] => c >= committed]_recoveryVars

=============================================================================
