------------------------ MODULE EngineRecoveryProofs ------------------------
(***************************************************************************)
(* Delivery at least once, for every number of commands, crashes and every *)
(* snapshot interval.                                                      *)
(*                                                                         *)
(* AtLeastOnce speaks of the committed offset, which no step but Commit    *)
(* moves.  What is inductive is about the position of the consumer: it is  *)
(* never behind the committed offset, every command between the start of   *)
(* the group and the position has been applied, and the one at the         *)
(* position has been applied before it is marked as processed.             *)
(*                                                                         *)
(* For the shadow, which follows its engine, and the snapshots it takes,   *)
(* ReplayInv says how the queue between the two continues what the shadow  *)
(* has replayed.                                                           *)
(***************************************************************************)
EXTENDS EngineRecovery, FiniteSetTheorems, TLAPS

\* The position, the committed offset and what was applied agree.
PositionSound ==
    /\ main.stage \in {"received", "applied"} => main.pos <= produced
    /\ main.stage = "applied" => applied[main.pos] >= 1
    /\ committed <= main.pos
    /\ \A c \in Commands : first <= c /\ c < main.pos => applied[c] >= 1

RecoveryInv == TypeOK /\ PositionSound

-----------------------------------------------------------------------------

\* The invariant is about the committed offset too.
LEMMA RecoveryInvImplies == RecoveryInv => TypeOK /\ AtLeastOnce
<1> SUFFICES ASSUME RecoveryInv, NEW c \in Commands, first <= c, c < committed
             PROVE  applied[c] >= 1
  BY DEF RecoveryInv, AtLeastOnce
<1>1. c < main.pos
  BY RecoveryAssumption DEF RecoveryInv, PositionSound, TypeOK, Mains, Commands
<1>2. QED
  BY <1>1 DEF RecoveryInv, PositionSound

\* A fresh engine is the one the loader seeds.
LEMMA SeedTyped == <<SeedLiquidity>> \in Seq(Entries)
<1>1. SeedLiquidity \in Entries
  BY RecoveryAssumption DEF SeedLiquidity, Done, NoCommand, Entries
<1>2. QED
  BY <1>1

\* A new shadow, whatever the engine it copies.
LEMMA NewShadowTyped ==
    ASSUME NEW engine \in Seq(Entries)
    PROVE  NewShadow(engine) \in Shadows
<1>1. << >> \in Seq(Messages)
  OBVIOUS
<1>2. 0 \in 0..(SnapshotInterval - 1) /\ 0 \in 0..MaxCommands
  BY RecoveryAssumption
<1>3. QED
  BY <1>1, <1>2 DEF NewShadow, NoCommand, Shadows

\* The first start of the engine.
LEMMA RecoveryInitInv == Init => RecoveryInv
<1> SUFFICES ASSUME Init PROVE RecoveryInv
  OBVIOUS
<1>1. main \in Mains
  BY SeedTyped, RecoveryAssumption DEF Init, Mains, Stages
<1>2. shadow \in Shadows
  BY SeedTyped, NewShadowTyped DEF Init
<1>3. TypeOK
  BY <1>1, <1>2, RecoveryAssumption DEF Init, TypeOK, NoOffset
<1>4. PositionSound
  BY RecoveryAssumption DEF Init, PositionSound, NoOffset, Commands
<1>5. QED
  BY <1>3, <1>4 DEF RecoveryInv

-----------------------------------------------------------------------------

\* What the invariant says of each variable.
LEMMA MainFacts ==
    ASSUME RecoveryInv
    PROVE  /\ main \in Mains /\ main.stage \in Stages /\ main.pos \in 1..(MaxCommands + 1)
           /\ main.engine \in Seq(Entries)
           /\ produced \in 0..MaxCommands
           /\ MaxCommands \in Nat
           /\ main.stage \in {"received", "applied"} => main.pos \in Commands
           /\ queue \in Seq(Messages) /\ shadow \in Shadows
           /\ applied \in [Commands -> Nat]
           /\ committed \in 0..(MaxCommands + 1)
           /\ first \in 1..(MaxCommands + 1)
           /\ crashes \in 0..MaxCrashes
           /\ snapshots \in Seq(Rows)
<1>1. TypeOK /\ PositionSound
  BY DEF RecoveryInv
<1>2. main.stage \in Stages /\ main.pos \in 1..(MaxCommands + 1) /\ main.engine \in Seq(Entries)
  BY <1>1 DEF TypeOK, Mains
<1>3. main.stage \in {"received", "applied"} => main.pos \in Commands
  BY <1>1, <1>2, RecoveryAssumption DEF TypeOK, PositionSound, Commands
<1>4. QED
  BY <1>1, <1>2, <1>3, RecoveryAssumption DEF TypeOK

\* A message about a command of the topic.
LEMMA MessageTyped ==
    ASSUME NEW type \in Types, NEW c \in Commands
    PROVE  Message(type, c) \in Messages
  BY DEF Message, Messages

\* The messages of one command.
LEMMA LoggedTyped ==
    ASSUME NEW c \in Commands, NEW outcome
    PROVE  Logged(c, outcome) \in Seq(Messages)
<1>1. /\ Message("order_cancelled", c) \in Messages /\ Message("escrow_decreased", c) \in Messages
      /\ Message("escrow_increased", c) \in Messages /\ Message("settled", c) \in Messages
      /\ Message("order_filled", c) \in Messages
  BY MessageTyped DEF Types
<1>2. QED
  BY <1>1 DEF Logged

\* Sending a command.
LEMMA ProduceInv == ASSUME RecoveryInv, Produce PROVE RecoveryInv'
<1>1. produced' = produced + 1 /\ produced < MaxCommands
      /\ UNCHANGED <<committed, first, applied, main, queue, shadow, snapshots, crashes>>
  BY DEF Produce
<1>2. TypeOK'
  BY <1>1, RecoveryAssumption DEF RecoveryInv, TypeOK
<1>3. PositionSound'
  BY <1>1, <1>2, MainFacts DEF RecoveryInv, PositionSound
<1>4. QED
  BY <1>2, <1>3 DEF RecoveryInv

\* The position does not move while a command is taken up.
LEMMA ReceiveInv == ASSUME RecoveryInv, Receive PROVE RecoveryInv'
<1>1. /\ main.pos <= produced
      /\ main' = [main EXCEPT !.stage = "received"]
      /\ queue' = Append(queue, Message("received", main.pos))
      /\ UNCHANGED <<produced, committed, first, applied, shadow, snapshots, crashes>>
  BY DEF Receive
<1>2. main' \in Mains /\ main'.pos = main.pos /\ main'.stage = "received"
  BY <1>1, MainFacts DEF Mains, Stages
<1>3. main.pos \in Commands
  BY <1>1, MainFacts DEF Commands
<1>4. queue' \in Seq(Messages)
  BY <1>1, <1>3, MessageTyped, MainFacts DEF Types
<1>5. TypeOK'
  BY <1>1, <1>2, <1>4 DEF RecoveryInv, TypeOK
<1>6. PositionSound'
  BY <1>1, <1>2 DEF RecoveryInv, PositionSound
<1>7. QED
  BY <1>5, <1>6 DEF RecoveryInv

\* The handler applies the command at the position.
LEMMA ApplyInv ==
    ASSUME RecoveryInv, NEW o \in Outcomes, Apply(o)
    PROVE  RecoveryInv'
<1>1. /\ main.stage = "received"
      /\ applied' = [applied EXCEPT ![main.pos] = @ + 1]
      /\ main' = [main EXCEPT !.stage = "applied",
                              !.engine = Append(@, Done(main.pos, o))]
      /\ queue' = queue \o Logged(main.pos, o)
      /\ UNCHANGED <<produced, committed, first, shadow, snapshots, crashes>>
  BY DEF Apply
<1>2. main.pos \in Commands
  BY <1>1, MainFacts
<1>3. Append(main.engine, Done(main.pos, o)) \in Seq(Entries)
  <2>1. Done(main.pos, o) \in Entries
    BY <1>2, RecoveryAssumption DEF Done, Entries, Commands
  <2>2. QED
    BY <2>1, MainFacts
<1>4. main' \in Mains /\ main'.pos = main.pos /\ main'.stage = "applied"
  BY <1>1, <1>3, MainFacts DEF Mains, Stages
<1>5. queue' \in Seq(Messages)
  BY <1>1, <1>2, LoggedTyped, MainFacts
<1>6. /\ applied' \in [Commands -> Nat]
      /\ applied'[main.pos] >= 1
      /\ \A c \in Commands : applied[c] >= 1 => applied'[c] >= 1
  BY <1>1, <1>2, MainFacts
<1>7. TypeOK'
  BY <1>1, <1>4, <1>5, <1>6 DEF RecoveryInv, TypeOK
<1>8. PositionSound'
  BY <1>1, <1>4, <1>6 DEF RecoveryInv, PositionSound
<1>9. QED
  BY <1>7, <1>8 DEF RecoveryInv

\* The position moves past a command that was applied.
LEMMA ProcessInv == ASSUME RecoveryInv, Process PROVE RecoveryInv'
<1>1. /\ main.stage = "applied"
      /\ main' = [main EXCEPT !.stage = "waiting", !.pos = @ + 1]
      /\ queue' = Append(queue, Message("processed", main.pos))
      /\ UNCHANGED <<produced, committed, first, applied, shadow, snapshots, crashes>>
  BY DEF Process
<1>2. main.pos \in Commands /\ applied[main.pos] >= 1
  BY <1>1, MainFacts DEF RecoveryInv, PositionSound
<1>3. main.pos + 1 \in 1..(MaxCommands + 1)
  BY <1>2, RecoveryAssumption DEF Commands
<1>4. main' \in Mains /\ main'.pos = main.pos + 1 /\ main'.stage = "waiting"
  BY <1>1, <1>3, MainFacts DEF Mains, Stages
<1>5. queue' \in Seq(Messages)
  BY <1>1, <1>2, MessageTyped, MainFacts DEF Types
<1>6. TypeOK'
  BY <1>1, <1>4, <1>5 DEF RecoveryInv, TypeOK
<1>7. committed' <= main'.pos
  BY <1>1, <1>4, MainFacts DEF RecoveryInv, PositionSound
<1>8. ASSUME NEW c \in Commands, first' <= c, c < main'.pos
      PROVE  applied'[c] >= 1
  <2>1. c = main.pos \/ c < main.pos
    BY <1>4, <1>8, MainFacts DEF Commands
  <2>2. QED
    BY <1>1, <1>2, <1>8, <2>1 DEF RecoveryInv, PositionSound
<1>9. PositionSound'
  BY <1>4, <1>7, <1>8 DEF PositionSound
<1>10. QED
  BY <1>6, <1>9 DEF RecoveryInv

\* A step that stops the orchestrator leaves its position where it was.
LEMMA StopInv ==
    ASSUME RecoveryInv, NEW stage \in {"down", "failed"},
           main' = [main EXCEPT !.stage = stage],
           queue' \in Seq(Messages), shadow' \in Shadows, crashes' \in 0..MaxCrashes,
           UNCHANGED <<produced, committed, first, applied, snapshots>>
    PROVE  RecoveryInv'
<1>1. main' \in Mains /\ main'.pos = main.pos /\ main'.stage = stage
  BY MainFacts DEF Mains, Stages
<1>2. TypeOK'
  BY <1>1 DEF RecoveryInv, TypeOK
<1>3. PositionSound'
  BY <1>1 DEF RecoveryInv, PositionSound
<1>4. QED
  BY <1>2, <1>3 DEF RecoveryInv

\* A step of the shadow changes nothing the position is about.
LEMMA ShadowInv ==
    ASSUME RecoveryInv, queue' \in Seq(Messages), shadow' \in Shadows,
           crashes' \in 0..MaxCrashes,
           snapshots' \in Seq(Rows),
           UNCHANGED <<produced, committed, first, applied, main>>
    PROVE  RecoveryInv'
<1>1. TypeOK'
  BY DEF RecoveryInv, TypeOK
<1>2. PositionSound'
  BY DEF RecoveryInv, PositionSound
<1>3. QED
  BY <1>1, <1>2 DEF RecoveryInv

\* The consumer commits its position.
LEMMA CommitInv == ASSUME RecoveryInv, Commit PROVE RecoveryInv'
<1>1. main.stage = "waiting" /\ committed' = main.pos
      /\ UNCHANGED <<produced, first, applied, main, queue, shadow, snapshots, crashes>>
  BY DEF Commit
<1>2. TypeOK'
  BY <1>1, MainFacts DEF RecoveryInv, TypeOK
<1>3. PositionSound'
  BY <1>1, MainFacts DEF RecoveryInv, PositionSound
<1>4. QED
  BY <1>2, <1>3 DEF RecoveryInv

\* A crash, the death of the shadow noticed, and a start that fails.
LEMMA EndInv ==
    ASSUME RecoveryInv, Crash \/ NoticeDeath \/ StartRestored
    PROVE  RecoveryInv'
<1> USE MainFacts
<1>1. << >> \in Seq(Messages)
  OBVIOUS
<1>2. CASE Crash
  <2>1. [shadow EXCEPT !.alive = FALSE] \in Shadows
    BY DEF Shadows
  <2>2. crashes' \in 0..MaxCrashes
    BY <1>2, RecoveryAssumption DEF Crash
  <2>3. QED
    BY <1>1, <1>2, <2>1, <2>2, StopInv DEF Crash
<1>3. CASE NoticeDeath
  BY <1>1, <1>3, StopInv DEF NoticeDeath
<1>4. CASE StartRestored
  BY <1>4, StopInv DEF StartRestored
<1>5. QED
  BY <1>2, <1>3, <1>4

\* A fresh engine reads on from the committed offset, below which everything
\* was applied; without one the group starts anew.
LEMMA StartInv == ASSUME RecoveryInv, StartFresh PROVE RecoveryInv'
<1> DEFINE pos == IF committed = NoOffset THEN produced + 1 ELSE committed
<1>1. /\ main' = [stage |-> "waiting", pos |-> pos, engine |-> <<SeedLiquidity>>]
      /\ first' = IF committed = NoOffset THEN pos ELSE first
      /\ shadow' = NewShadow(<<SeedLiquidity>>)
      /\ UNCHANGED <<produced, committed, applied, queue, snapshots, crashes>>
  BY DEF StartFresh
<1>2. pos \in 1..(MaxCommands + 1)
  BY MainFacts DEF NoOffset
<1>3. main' \in Mains /\ main'.stage = "waiting" /\ main'.pos = pos
  BY <1>1, <1>2, SeedTyped DEF Mains, Stages
<1>4. TypeOK'
  BY <1>1, <1>2, <1>3, SeedTyped, NewShadowTyped DEF RecoveryInv, TypeOK
<1>5. CASE committed = NoOffset
  <2>1. \A c \in Commands : ~(first' <= c /\ c < main'.pos)
    BY <1>1, <1>2, <1>3, <1>5 DEF Commands
  <2>2. committed' <= main'.pos
    BY <1>1, <1>2, <1>3, <1>5 DEF NoOffset
  <2>3. QED
    BY <1>3, <1>4, <2>1, <2>2 DEF RecoveryInv, PositionSound
<1>6. CASE committed # NoOffset
  <2>1. main'.pos = committed /\ first' = first
    BY <1>1, <1>3, <1>6
  <2>2. main'.pos <= main.pos /\ committed' <= main'.pos
    BY <1>1, <2>1, MainFacts DEF RecoveryInv, PositionSound
  <2>3. ASSUME NEW c \in Commands, first' <= c, c < main'.pos
        PROVE  applied'[c] >= 1
    <3>1. c < main.pos
      BY <1>2, <1>3, <2>2, <2>3, MainFacts DEF Commands
    <3>2. QED
      BY <1>1, <2>1, <2>3, <3>1 DEF RecoveryInv, PositionSound
  <2>4. QED
    BY <1>3, <1>4, <2>2, <2>3 DEF RecoveryInv, PositionSound
<1>7. QED
  BY <1>5, <1>6

\* What the shadow reads is a message, and what stays is a queue.
LEMMA ConsumeTyped ==
    ASSUME RecoveryInv, Consume
    PROVE  /\ NextMessage \in Messages
           /\ queue' \in Seq(Messages)
           /\ UNCHANGED <<produced, committed, first, applied, main, crashes>>
           /\ crashes' \in 0..MaxCrashes
  BY MainFacts DEF Consume, NextMessage

\* The loop of the shadow.
LEMMA ShadowLoopInv == ASSUME RecoveryInv, ShadowLoop PROVE RecoveryInv'
<1> USE MainFacts
<1>1. CASE ShadowReceived
  <2>1. Consume /\ UNCHANGED snapshots /\ shadow' = [shadow EXCEPT !.cmd = NextMessage.cmd]
    BY <1>1 DEF ShadowReceived
  <2>2. NextMessage.cmd \in 0..MaxCommands
    BY <2>1, ConsumeTyped DEF Messages, Commands
  <2>3. shadow' \in Shadows
    BY <2>1, <2>2 DEF Shadows
  <2>4. QED
    BY <2>1, <2>3, ConsumeTyped, ShadowInv
<1>2. CASE ShadowEvent
  <2>1. Consume /\ UNCHANGED snapshots
        /\ shadow' = IF shadow.cmd = NoCommand THEN shadow
                     ELSE [shadow EXCEPT !.batch = Append(@, NextMessage)]
    BY <1>2 DEF ShadowEvent
  <2>2. Append(shadow.batch, NextMessage) \in Seq(Messages)
    BY <2>1, ConsumeTyped DEF Shadows
  <2>3. shadow' \in Shadows
    BY <2>1, <2>2 DEF Shadows
  <2>4. QED
    BY <2>1, <2>3, ConsumeTyped, ShadowInv
<1>3. CASE ShadowProcessed
  <2> DEFINE engine == Append(shadow.engine, Replay(shadow.cmd, shadow.batch))
             due == shadow.count + 1 >= SnapshotInterval
             count == IF due THEN 0 ELSE shadow.count + 1
  <2>1. Consume /\ shadow' = [shadow EXCEPT !.cmd = NoCommand, !.batch = << >>,
                                            !.engine = engine, !.count = count]
        /\ snapshots' = IF due THEN Append(snapshots, Snapshot(engine, shadow.cmd))
                        ELSE snapshots
    BY <1>3 DEF ShadowProcessed
  <2>2. engine \in Seq(Entries)
    <3>1. Replay(shadow.cmd, shadow.batch) \in Entries
      BY DEF Replay, Done, Entries, Outcomes, Shadows
    <3>2. QED
      BY <3>1 DEF Shadows
  <2>3. count \in 0..(SnapshotInterval - 1)
    <3>1. shadow.count \in 0..(SnapshotInterval - 1)
      BY DEF Shadows
    <3>2. SnapshotInterval \in Nat \ {0}
      BY RecoveryAssumption
    <3> HIDE DEF engine
    <3>3. QED
      BY <3>1, <3>2
  <2>4. NoCommand \in 0..MaxCommands /\ << >> \in Seq(Messages)
    BY RecoveryAssumption DEF NoCommand
  <2> HIDE DEF engine, count, due
  <2>5. shadow' \in Shadows
    BY <2>1, <2>2, <2>3, <2>4 DEF Shadows
  <2>6. Snapshot(engine, shadow.cmd) \in Rows
    BY <2>2 DEF Snapshot, Shadows, Rows
  <2>7. snapshots' \in Seq(Rows)
    BY <2>1, <2>6
  <2>8. QED
    BY <2>1, <2>5, <2>7, ConsumeTyped, ShadowInv
<1>4. QED
  BY <1>1, <1>2, <1>3 DEF ShadowLoop

\* The shadow ends.
LEMMA ShadowDiesInv == ASSUME RecoveryInv, ShadowDies PROVE RecoveryInv'
<1>1. shadow' \in Shadows
  BY MainFacts DEF ShadowDies, Shadows
<1>2. crashes' \in 0..MaxCrashes /\ queue' \in Seq(Messages) /\ snapshots' \in Seq(Rows)
  BY MainFacts, RecoveryAssumption DEF ShadowDies
<1>3. QED
  BY <1>1, <1>2, ShadowInv DEF ShadowDies

\* Every step keeps the invariant.
LEMMA RecoveryNextInv == RecoveryInv /\ [Next]_recoveryVars => RecoveryInv'
<1> SUFFICES ASSUME RecoveryInv, [Next]_recoveryVars PROVE RecoveryInv'
  OBVIOUS
<1>1. CASE Orchestrator
  BY <1>1, ReceiveInv, ApplyInv, ProcessInv, EndInv DEF Orchestrator
<1>2. CASE UNCHANGED recoveryVars
  BY <1>2 DEF recoveryVars, RecoveryInv, TypeOK, PositionSound
<1>3. QED
  BY <1>1, <1>2, ProduceInv, CommitInv, EndInv, StartInv, ShadowLoopInv, ShadowDiesInv DEF Next

-----------------------------------------------------------------------------

\* The orchestrator, the shadow and the queue between them keep their types.
THEOREM RecoveryTypes == Spec => []TypeOK
<1>1. Spec => []RecoveryInv
  BY RecoveryInitInv, RecoveryNextInv, PTL DEF Spec
<1>2. QED
  BY <1>1, RecoveryInvImplies, PTL

\* EngineOrchestrator.run and the commits of its consumer: from where the group
\* began to read, no command below the committed offset was skipped, through
\* any number of crashes of either process.
THEOREM DeliveredAtLeastOnce == Spec => []AtLeastOnce
<1>1. Spec => []RecoveryInv
  BY RecoveryInitInv, RecoveryNextInv, PTL DEF Spec
<1>2. QED
  BY <1>1, RecoveryInvImplies, PTL

\* Only the handler of the command at the position changes the balances, and
\* the position is never behind the committed offset.
LEMMA OnlyPositionApplied ==
    ASSUME RecoveryInv, [Next]_recoveryVars, NEW c \in Commands, applied'[c] # applied[c]
    PROVE  c >= committed
<1>1. PICK o \in Outcomes : Apply(o)
  BY DEF Next, Produce, Orchestrator, Receive, Process, NoticeDeath, Commit, Crash, StartFresh,
         StartRestored, ShadowLoop, ShadowReceived, ShadowEvent, ShadowProcessed, Consume,
         ShadowDies, recoveryVars
<1>2. main.pos \in Commands /\ applied' = [applied EXCEPT ![main.pos] = @ + 1]
  BY <1>1, MainFacts DEF Apply
<1>3. c = main.pos
  BY <1>2, MainFacts
<1>4. QED
  BY <1>3 DEF RecoveryInv, PositionSound

\* A command below the committed offset never changes the balances again, with
\* crashes of either process between any two steps of the loop.
THEOREM CommittedStays == Spec => CommittedNotRepeated
<1>1. RecoveryInv /\ [Next]_recoveryVars
        => [\A c \in Commands : applied'[c] # applied[c] => c >= committed]_recoveryVars
  BY OnlyPositionApplied
<1>2. Spec => []RecoveryInv
  BY RecoveryInitInv, RecoveryNextInv, PTL DEF Spec
<1>3. QED
  BY <1>1, <1>2, PTL DEF Spec, CommittedNotRepeated

-----------------------------------------------------------------------------
(***************************************************************************)
(* The shadow.  While it runs, the command events of the main engine are   *)
(* split between the shadow and the queue, and the two ends of the queue   *)
(* fit: its head is what the shadow waits for, its last message is what    *)
(* the main engine did last, and neighbours belong together.               *)
(***************************************************************************)

\* The last command that changed the main engine.
Top == IF main.stage = "applied" THEN main.pos ELSE main.pos - 1

\* The command the shadow replays next: an engine holds the seed and then
\* consecutive commands up to the last.
NextReplay == Top - Len(main.engine) + Len(shadow.engine) + 1

\* An engine that ends with the command top, and another one, replay, that holds
\* the first of the same commands.
Aligned(engine, top, replay) ==
    /\ Len(engine) >= 1
    /\ \A i \in 2..Len(engine) : engine[i].cmd = top - Len(engine) + i
    /\ Len(replay) \in 1..Len(engine)
    /\ \A i \in 1..Len(replay) : replay[i].cmd = engine[i].cmd

EnginesSound == Aligned(main.engine, Top, shadow.engine)

\* Two messages that follow each other on the queue.
Follows(a, b) ==
    IF a.type = "processed" THEN b.type = "received" /\ b.cmd = a.cmd + 1
    ELSE b.type # "received" /\ b.cmd = a.cmd

Chained(messages) ==
    \A i \in 1..(Len(messages) - 1) : Follows(messages[i], messages[i + 1])

\* What a shadow can make of the message it reads next, when it replays the
\* command next and is at cmd.
Expected(next, cmd, message) ==
    /\ message.cmd = next
    /\ cmd = NoCommand <=> message.type = "received"

\* What the main engine has said last.
Latest(stage, pos, message) ==
    /\ stage = "waiting" => message.type = "processed" /\ message.cmd = pos - 1
    /\ stage = "received" => message.type = "received" /\ message.cmd = pos
    /\ stage = "applied" => /\ message.type \notin {"received", "processed"}
                            /\ message.cmd = pos

\* A queue leads from the shadow to the main engine.
Fits(messages, next, cmd, stage, pos) ==
    /\ Chained(messages)
    /\ \A i \in 1..Len(messages) : messages[i].type = "processed" => messages[i].cmd < pos
    /\ messages # << >> => /\ Expected(next, cmd, messages[1])
                           /\ Latest(stage, pos, messages[Len(messages)])
    /\ messages = << >> => next = pos /\ (cmd = NoCommand <=> stage = "waiting")

QueueSound == Fits(queue, NextReplay, shadow.cmd, main.stage, main.pos)

\* The command under way in the shadow, and the events kept for it.
BatchSound ==
    /\ shadow.cmd \in {NoCommand, NextReplay}
    /\ \A i \in DOMAIN shadow.batch : shadow.batch[i].cmd = shadow.cmd

\* What the shadow has yet to replay is on the queue, or the main engine has
\* not said yet that it is done.
Pending(messages) == Cardinality(Finished(messages))

CountSound ==
    Len(main.engine) - Len(shadow.engine)
        = Pending(queue) + (IF main.stage = "applied" THEN 1 ELSE 0)

Running == {"waiting", "received", "applied"}

FollowSound ==
    shadow.alive => /\ main.stage \in Running
                    /\ EnginesSound
                    /\ QueueSound
                    /\ BatchSound
                    /\ CountSound

\* Nothing waits for a new shadow.
StoppedSound == main.stage \in {"down", "failed"} => queue = << >>

\* A row of the table is a state the main engine went through.
RowSound(row) ==
    /\ Len(row.engine) \in 1..Len(main.engine)
    /\ \A j \in 1..Len(row.engine) : row.engine[j].cmd = main.engine[j].cmd
    /\ row.engine[Len(row.engine)].cmd = row.offset

RowsSound == \A i \in DOMAIN snapshots : RowSound(snapshots[i])

ReplayInv == RecoveryInv /\ FollowSound /\ StoppedSound /\ RowsSound

-----------------------------------------------------------------------------

\* The finished commands of a queue are finitely many.
LEMMA FinishedFinite ==
    ASSUME NEW q \in Seq(Messages)
    PROVE  IsFiniteSet(Finished(q)) /\ Cardinality(Finished(q)) \in Nat
<1>1. IsFiniteSet(1..Len(q)) /\ Finished(q) \subseteq 1..Len(q)
  BY FS_Interval DEF Finished
<1>2. QED
  BY <1>1, FS_Subset, FS_CardinalityType

\* A message that is not about the end of a command does not count.
LEMMA FinishedSame ==
    ASSUME NEW q \in Seq(Messages), NEW more \in Seq(Messages),
           \A i \in 1..Len(more) : more[i].type # "processed"
    PROVE  Pending(q \o more) = Pending(q)
<1>1. q \o more \in Seq(Messages) /\ Len(q \o more) = Len(q) + Len(more)
  OBVIOUS
<1>2. \A i \in 1..Len(q) : (q \o more)[i] = q[i]
  OBVIOUS
<1>3. ASSUME NEW i \in 1..Len(q \o more), i \notin 1..Len(q)
      PROVE  (q \o more)[i].type # "processed"
  <2>1. i - Len(q) \in 1..Len(more) /\ (q \o more)[i] = more[i - Len(q)]
    BY <1>1, <1>3
  <2>2. QED
    BY <2>1
<1>4. Finished(q \o more) = Finished(q)
  BY <1>1, <1>2, <1>3 DEF Finished
<1>5. QED
  BY <1>4 DEF Pending

\* The end of a command counts.
LEMMA FinishedMore ==
    ASSUME NEW q \in Seq(Messages), NEW m \in Messages, m.type = "processed"
    PROVE  Pending(q \o <<m>>) = Pending(q) + 1
<1>1. Finished(q \o <<m>>) = Finished(q) \cup {Len(q) + 1}
  BY DEF Finished
<1>2. Len(q) + 1 \notin Finished(q)
  BY DEF Finished
<1>3. QED
  BY <1>1, <1>2, FinishedFinite, FS_AddElement DEF Pending

\* What reading a message takes off the count.
LEMMA FinishedTail ==
    ASSUME NEW q \in Seq(Messages), q # << >>
    PROVE  Pending(q) = Pending(Tail(q)) + (IF Head(q).type = "processed" THEN 1 ELSE 0)
<1> DEFINE rest == Finished(q) \ {1}
           shift == [i \in Finished(Tail(q)) |-> i + 1]
<1>1. Tail(q) \in Seq(Messages) /\ Len(q) = Len(Tail(q)) + 1 /\ Head(q) = q[1]
      /\ \A i \in 1..Len(Tail(q)) : Tail(q)[i] = q[i + 1]
  OBVIOUS
<1>2. shift \in Bijection(Finished(Tail(q)), rest)
  <2>1. \A i \in Finished(Tail(q)) : i \in Nat /\ i + 1 \in rest
    BY <1>1 DEF Finished
  <2>2. \A j \in rest : j - 1 \in Finished(Tail(q)) /\ shift[j - 1] = j
    <3>1. ASSUME NEW j \in rest PROVE j - 1 \in Finished(Tail(q))
      <4>1. j \in 2..Len(q) /\ q[j].type = "processed"
        BY DEF Finished
      <4>2. j - 1 \in 1..Len(Tail(q)) /\ Tail(q)[j - 1] = q[j]
        BY <1>1, <4>1
      <4>3. QED
        BY <1>1, <4>1, <4>2 DEF Finished
    <3>2. \A j \in rest : j \in Nat
      BY DEF Finished
    <3>3. QED
      BY <3>1, <3>2
  <2>3. shift \in [Finished(Tail(q)) -> rest]
    BY <2>1
  <2>4. shift \in Injection(Finished(Tail(q)), rest)
    BY <2>1, <2>3 DEF Injection, IsInjective
  <2>5. shift \in Surjection(Finished(Tail(q)), rest)
    BY <2>2, <2>3 DEF Surjection
  <2>6. QED
    BY <2>4, <2>5 DEF Bijection
<1>3. Cardinality(rest) = Cardinality(Finished(Tail(q))) /\ Cardinality(rest) \in Nat
  <2>1. IsFiniteSet(Finished(Tail(q))) /\ Cardinality(Finished(Tail(q))) \in Nat
    BY <1>1, FinishedFinite
  <2>2. ExistsBijection(Finished(Tail(q)), rest)
    BY <1>2 DEF ExistsBijection
  <2> HIDE DEF rest
  <2>3. QED
    BY <2>1, <2>2, FS_Bijection
<1>4. IsFiniteSet(Finished(q)) /\ Cardinality(Finished(q)) \in Nat
  BY FinishedFinite
<1>5. CASE Head(q).type = "processed"
  <2>1. 1 \in Finished(q)
    BY <1>1, <1>5 DEF Finished
  <2>2. Cardinality(rest) = Cardinality(Finished(q)) - 1
    BY <1>4, <2>1, FS_RemoveElement
  <2>3. QED
    BY <1>3, <1>4, <1>5, <2>2 DEF Pending
<1>6. CASE Head(q).type # "processed"
  <2>1. rest = Finished(q)
    BY <1>1, <1>6 DEF Finished
  <2> HIDE DEF rest
  <2>2. QED
    BY <1>3, <1>6, <2>1 DEF Pending
<1>7. QED
  BY <1>5, <1>6

-----------------------------------------------------------------------------

\* A function on an initial interval is a sequence.
LEMMA FunctionIsSeq ==
    ASSUME NEW S, NEW n \in Nat, NEW f \in [1..n -> S]
    PROVE  f \in Seq(S) /\ Len(f) = n
  OBVIOUS

\* The commands of an engine are a sequence.
LEMMA CmdsTyped ==
    ASSUME NEW a \in Seq(Entries)
    PROVE  /\ CmdsOf(a) \in Seq(0..MaxCommands)
           /\ Len(CmdsOf(a)) = Len(a)
           /\ \A i \in 1..Len(a) : CmdsOf(a)[i] = a[i].cmd
<1>1. DOMAIN a = 1..Len(a) /\ Len(a) \in Nat /\ \A i \in 1..Len(a) : a[i] \in Entries
  OBVIOUS
<1>2. CmdsOf(a) = [i \in 1..Len(a) |-> a[i].cmd]
  BY <1>1 DEF CmdsOf
<1>3. CmdsOf(a) \in [1..Len(a) -> 0..MaxCommands]
  BY <1>1, <1>2 DEF Entries
<1>4. CmdsOf(a) \in Seq(0..MaxCommands)
  BY <1>1, <1>3, FunctionIsSeq
<1>5. QED
  BY <1>1, <1>2, <1>4

\* Two engines that agree command by command.
LEMMA CmdsPrefix ==
    ASSUME NEW a \in Seq(Entries), NEW b \in Seq(Entries), Len(a) <= Len(b),
           \A i \in 1..Len(a) : a[i].cmd = b[i].cmd
    PROVE  IsPrefix(CmdsOf(a), CmdsOf(b))
<1>1. CmdsOf(a) \in Seq(0..MaxCommands) /\ Len(CmdsOf(a)) = Len(a)
  BY CmdsTyped
<1>2. CmdsOf(b) \in Seq(0..MaxCommands) /\ Len(CmdsOf(b)) = Len(b)
  BY CmdsTyped
<1>3. \A i \in 1..Len(a) : CmdsOf(a)[i] = CmdsOf(b)[i]
  BY CmdsTyped
<1>4. SubSeq(CmdsOf(a), 1, Len(a)) = SubSeq(CmdsOf(b), 1, Len(a))
  BY <1>1, <1>2, <1>3
<1>5. QED
  BY <1>1, <1>2, <1>4 DEF IsPrefix

\* The invariant is about the engines, the batch and the rows.
LEMMA ReplayInvImplies == ReplayInv => ShadowFollows /\ SnapshotAtOffset
<1> SUFFICES ASSUME ReplayInv PROVE ShadowFollows /\ SnapshotAtOffset
  OBVIOUS
<1>1. RecoveryInv /\ FollowSound /\ RowsSound
  BY DEF ReplayInv
<1>2. main.engine \in Seq(Entries) /\ shadow.engine \in Seq(Entries)
  BY <1>1, MainFacts DEF Shadows
<1>3. ASSUME shadow.alive
      PROVE  IsPrefix(CmdsOf(shadow.engine), CmdsOf(main.engine))
  BY <1>1, <1>2, <1>3, CmdsPrefix DEF FollowSound, EnginesSound, Aligned
<1>4. ASSUME shadow.alive, main.stage = "waiting"
      PROVE  Len(main.engine) - Len(shadow.engine) = Cardinality(Finished(queue))
  <2> DEFINE finished == Cardinality(Finished(queue))
  <2>1. Len(main.engine) - Len(shadow.engine)
          = finished + (IF main.stage = "applied" THEN 1 ELSE 0)
    BY <1>1, <1>4 DEF FollowSound, CountSound, Pending
  <2>2. finished \in Nat
    BY <1>1, MainFacts, FinishedFinite
  <2>3. main.stage # "applied"
    BY <1>4
  <2> HIDE DEF finished
  <2>4. Len(main.engine) - Len(shadow.engine) = finished
    BY <2>1, <2>2, <2>3
  <2>5. QED
    BY <2>4 DEF finished
<1>5. ShadowFollows
  BY <1>1, <1>3, <1>4 DEF ShadowFollows, FollowSound, BatchSound
<1>6. ASSUME NEW i \in DOMAIN snapshots
      PROVE  /\ Last(snapshots[i].engine).cmd = snapshots[i].offset
             /\ IsPrefix(CmdsOf(snapshots[i].engine), CmdsOf(main.engine))
  <2>1. RowSound(snapshots[i])
    BY <1>1, <1>6 DEF RowsSound
  <2>2. snapshots[i] \in Rows
    BY <1>1, <1>6, MainFacts
  <2>3. snapshots[i].engine \in Seq(Entries)
    BY <2>2 DEF Rows
  <2>4. Last(snapshots[i].engine).cmd = snapshots[i].offset
    BY <2>1 DEF RowSound, Last
  <2>5. QED
    BY <1>2, <2>1, <2>3, <2>4, CmdsPrefix DEF RowSound
<1>7. QED
  BY <1>5, <1>6 DEF SnapshotAtOffset

-----------------------------------------------------------------------------

\* The numbers of the invariant.
LEMMA ReplayFacts ==
    ASSUME RecoveryInv
    PROVE  /\ Len(main.engine) \in Nat /\ Len(shadow.engine) \in Nat
           /\ main.engine \in Seq(Entries) /\ shadow.engine \in Seq(Entries)
           /\ main.pos \in Nat \ {0} /\ Top \in Nat
           /\ NextReplay \in Int
           /\ shadow.cmd \in Nat /\ shadow.batch \in Seq(Messages)
           /\ queue \in Seq(Messages) /\ Len(queue) \in Nat
           /\ \A i \in 1..Len(queue) : queue[i] \in Messages /\ queue[i].cmd \in Nat \ {0}
           /\ Pending(queue) \in Nat
<1>1. main.engine \in Seq(Entries) /\ shadow.engine \in Seq(Entries)
      /\ shadow.cmd \in Nat /\ shadow.batch \in Seq(Messages)
  BY MainFacts DEF Shadows
<1>2. main.pos \in Nat \ {0}
  BY MainFacts
<1>3. Top \in Nat
  BY <1>2 DEF Top
<1>4. Len(main.engine) \in Nat /\ Len(shadow.engine) \in Nat
  BY <1>1
<1>5. NextReplay \in Int
  BY <1>3, <1>4 DEF NextReplay
<1>7. queue \in Seq(Messages) /\ Pending(queue) \in Nat
  BY MainFacts, FinishedFinite DEF Pending
<1>8. \A i \in 1..Len(queue) : queue[i] \in Messages /\ queue[i].cmd \in Nat \ {0}
  <2>1. \A m \in Messages : m.cmd \in Nat \ {0}
    BY RecoveryAssumption DEF Messages, Commands
  <2>2. QED
    BY <1>7, <2>1
<1>9. QED
  BY <1>1, <1>2, <1>3, <1>4, <1>5, <1>7, <1>8

\* The engine takes the next command.
LEMMA AlignedApply ==
    ASSUME NEW engine \in Seq(Entries), NEW replay \in Seq(Entries), NEW top \in Nat,
           NEW e \in Entries, e.cmd = top + 1, Aligned(engine, top, replay)
    PROVE  Aligned(Append(engine, e), top + 1, replay)
<1> DEFINE more == Append(engine, e)
<1>1. /\ Len(engine) \in Nat \ {0} /\ Len(more) = Len(engine) + 1
      /\ \A i \in 1..Len(engine) : more[i] = engine[i]
      /\ more[Len(engine) + 1] = e
  BY DEF Aligned
<1> HIDE DEF more
<1>2. ASSUME NEW i \in 2..Len(more) PROVE more[i].cmd = (top + 1) - Len(more) + i
  <2>1. CASE i = Len(engine) + 1
    BY <1>1, <2>1
  <2>2. CASE i # Len(engine) + 1
    <3>1. i \in 2..Len(engine) /\ more[i] = engine[i]
      BY <1>1, <1>2, <2>2
    <3>2. engine[i].cmd = top - Len(engine) + i
      BY <3>1 DEF Aligned
    <3>3. QED
      BY <1>1, <3>1, <3>2
  <2>3. QED
    BY <2>1, <2>2
<1>3. Len(replay) \in 1..Len(more) /\ Len(more) >= 1
  BY <1>1 DEF Aligned
<1>4. \A i \in 1..Len(replay) : replay[i].cmd = more[i].cmd
  BY <1>1 DEF Aligned
<1>5. QED
  BY <1>2, <1>3, <1>4 DEF Aligned, more

\* The other one replays the command it is at.
LEMMA AlignedReplay ==
    ASSUME NEW engine \in Seq(Entries), NEW replay \in Seq(Entries), NEW top \in Nat,
           NEW e \in Entries, e.cmd = top - Len(engine) + Len(replay) + 1, e.cmd <= top,
           Aligned(engine, top, replay)
    PROVE  Aligned(engine, top, Append(replay, e))
<1> DEFINE more == Append(replay, e)
<1>1. /\ Len(replay) \in Nat \ {0} /\ Len(more) = Len(replay) + 1 /\ Len(engine) \in Nat
      /\ \A i \in 1..Len(replay) : more[i] = replay[i]
      /\ more[Len(replay) + 1] = e
  BY DEF Aligned
<1> HIDE DEF more
<1>2. Len(more) \in 2..Len(engine)
  BY <1>1
<1>3. ASSUME NEW i \in 1..Len(more) PROVE more[i].cmd = engine[i].cmd
  <2>1. CASE i = Len(replay) + 1
    <3>1. engine[i].cmd = top - Len(engine) + i
      BY <1>1, <1>2, <2>1 DEF Aligned
    <3>2. QED
      BY <1>1, <2>1, <3>1
  <2>2. CASE i # Len(replay) + 1
    <3>1. i \in 1..Len(replay)
      BY <1>1, <1>3, <2>2
    <3>2. QED
      BY <1>1, <3>1 DEF Aligned
  <2>3. QED
    BY <2>1, <2>2
<1>4. QED
  BY <1>1, <1>2, <1>3 DEF Aligned, more

\* Messages put behind a queue fit when they fit among themselves and behind its
\* last message.
LEMMA ChainedConcat ==
    ASSUME NEW q \in Seq(Messages), NEW more \in Seq(Messages), more # << >>,
           Chained(q), Chained(more), q # << >> => Follows(q[Len(q)], more[1])
    PROVE  /\ Chained(q \o more)
           /\ q \o more \in Seq(Messages) /\ q \o more # << >>
           /\ (q \o more)[1] = IF q = << >> THEN more[1] ELSE q[1]
           /\ (q \o more)[Len(q \o more)] = more[Len(more)]
<1> DEFINE both == q \o more
<1>1. both \in Seq(Messages) /\ Len(both) = Len(q) + Len(more) /\ Len(more) \in Nat \ {0}
      /\ Len(q) \in Nat /\ (q = << >> <=> Len(q) = 0)
  OBVIOUS
<1>2. \A i \in 1..Len(q) : both[i] = q[i]
  OBVIOUS
<1>3. \A i \in 1..Len(more) : both[Len(q) + i] = more[i]
  OBVIOUS
<1> HIDE DEF both
<1>4. ASSUME NEW i \in 1..(Len(both) - 1) PROVE Follows(both[i], both[i + 1])
  <2>1. CASE i < Len(q)
    <3>1. i \in 1..(Len(q) - 1) /\ both[i] = q[i] /\ both[i + 1] = q[i + 1]
      BY <1>1, <1>2, <1>4, <2>1
    <3>2. QED
      BY <3>1 DEF Chained
  <2>2. CASE i = Len(q)
    <3>1. both[i] = q[Len(q)] /\ both[i + 1] = more[1] /\ q # << >>
      BY <1>1, <1>2, <1>3, <1>4, <2>2
    <3>2. QED
      BY <3>1
  <2>3. CASE i > Len(q)
    <3>1. PICK j \in 1..(Len(more) - 1) : i = Len(q) + j
      <4>1. i - Len(q) \in 1..(Len(more) - 1) /\ i = Len(q) + (i - Len(q))
        BY <1>1, <1>4, <2>3
      <4>2. QED
        BY <4>1
    <3>2. both[i] = more[j] /\ both[i + 1] = more[j + 1]
      <4>1. j \in 1..Len(more) /\ j + 1 \in 1..Len(more) /\ i + 1 = Len(q) + (j + 1)
        BY <1>1, <3>1
      <4>2. QED
        BY <1>3, <3>1, <4>1
    <3>3. QED
      BY <3>2 DEF Chained
  <2>4. QED
    BY <1>1, <1>4, <2>1, <2>2, <2>3
<1>5. both[1] = IF q = << >> THEN more[1] ELSE q[1]
  <2>1. CASE q = << >>
    <3>1. both[0 + 1] = more[1]
      BY <1>1, <1>3, <2>1
    <3>2. QED
      BY <2>1, <3>1
  <2>2. CASE q # << >>
    <3>1. 1 \in 1..Len(q)
      BY <1>1, <2>2
    <3>2. QED
      BY <1>2, <2>2, <3>1
  <2>3. QED
    BY <2>1, <2>2
<1>6. both[Len(both)] = more[Len(more)]
  BY <1>1, <1>3
<1>7. QED
  BY <1>1, <1>4, <1>5, <1>6 DEF both, Chained

\* What the hooks log for a command.
LEMMA LoggedFacts ==
    ASSUME NEW c \in Commands, NEW o \in Outcomes
    PROVE  /\ Logged(c, o) \in Seq(Messages) /\ Logged(c, o) # << >>
           /\ \A i \in 1..Len(Logged(c, o)) :
                 /\ Logged(c, o)[i].cmd = c
                 /\ Logged(c, o)[i].type \notin {"received", "processed"}
           /\ Chained(Logged(c, o))
<1>1. Logged(c, o) \in Seq(Messages)
  BY LoggedTyped
<1> DEFINE logged == Logged(c, o)
           Between(m) == m.cmd = c /\ m.type \notin {"received", "processed"}
<1>2. Len(logged) \in {3, 4} /\ \A i \in 1..Len(logged) : Between(logged[i])
  <2>1. CASE o = "reject"
    <3>1. /\ Len(logged) = 4
          /\ logged[1] = Message("order_cancelled", c) /\ logged[2] = Message("escrow_decreased", c)
          /\ logged[3] = Message("order_cancelled", c) /\ logged[4] = Message("escrow_decreased", c)
      BY <2>1 DEF Logged
    <3>2. Between(logged[1]) /\ Between(logged[2]) /\ Between(logged[3]) /\ Between(logged[4])
      BY <3>1 DEF Message
    <3> HIDE DEF logged, Between
    <3>3. QED
      BY <3>1, <3>2
  <2>2. CASE o # "reject"
    <3>1. /\ Len(logged) = 3
          /\ logged[1] = Message("escrow_increased", c) /\ logged[2] = Message("settled", c)
          /\ logged[3] = Message("order_filled", c)
      BY <2>2 DEF Logged
    <3>2. Between(logged[1]) /\ Between(logged[2]) /\ Between(logged[3])
      BY <3>1 DEF Message
    <3> HIDE DEF logged, Between
    <3>3. QED
      BY <3>1, <3>2
  <2>3. QED
    BY <2>1, <2>2
<1> HIDE DEF logged
<1>3. logged # << >>
  <2>1. Len(logged) # 0
    BY <1>2
  <2>2. QED
    BY <2>1
<1>4. ASSUME NEW i \in 1..(Len(logged) - 1) PROVE Follows(logged[i], logged[i + 1])
  <2>1. i \in 1..Len(logged) /\ i + 1 \in 1..Len(logged)
    BY <1>2, <1>4
  <2>2. Between(logged[i]) /\ Between(logged[i + 1])
    BY <1>2, <2>1
  <2>3. QED
    BY <2>2 DEF Follows
<1>5. QED
  BY <1>1, <1>2, <1>3, <1>4 DEF logged, Chained

\* The main engine says more.
LEMMA FitsMore ==
    ASSUME NEW q \in Seq(Messages), NEW more \in Seq(Messages), more # << >>, Chained(more),
           NEW next, NEW cmd, NEW stage, NEW stage2, NEW pos \in Nat, NEW pos2 \in Nat,
           Fits(q, next, cmd, stage, pos), pos <= pos2,
           q # << >> => Follows(q[Len(q)], more[1]),
           q = << >> => Expected(next, cmd, more[1]),
           \A i \in 1..Len(more) : more[i].type = "processed" => more[i].cmd < pos2,
           Latest(stage2, pos2, more[Len(more)])
    PROVE  Fits(q \o more, next, cmd, stage2, pos2)
<1>1. Chained(q)
  BY DEF Fits
<1>2. /\ Chained(q \o more)
      /\ q \o more \in Seq(Messages) /\ q \o more # << >>
      /\ (q \o more)[1] = IF q = << >> THEN more[1] ELSE q[1]
      /\ (q \o more)[Len(q \o more)] = more[Len(more)]
  BY <1>1, ChainedConcat
<1>3. Expected(next, cmd, (q \o more)[1])
  BY <1>2 DEF Fits
<1>4. ASSUME NEW i \in 1..Len(q \o more), (q \o more)[i].type = "processed"
      PROVE  (q \o more)[i].cmd < pos2
  <2>1. CASE i \in 1..Len(q)
    <3>1. (q \o more)[i] = q[i] /\ q[i] \in Messages
      BY <2>1
    <3>2. q[i].cmd < pos /\ q[i].cmd \in Int
      BY <1>4, <2>1, <3>1, RecoveryAssumption DEF Fits, Messages, Commands
    <3>3. QED
      BY <3>1, <3>2
  <2>2. CASE i \notin 1..Len(q)
    <3>1. i - Len(q) \in 1..Len(more) /\ (q \o more)[i] = more[i - Len(q)]
      BY <2>2
    <3>2. QED
      BY <1>4, <3>1
  <2>3. QED
    BY <2>1, <2>2
<1>5. QED
  BY <1>2, <1>3, <1>4 DEF Fits

\* The shadow reads a message: it is at the command until the message that ends
\* it, and then waits for the next.
LEMMA FitsTail ==
    ASSUME NEW q \in Seq(Messages), q # << >>,
           NEW next \in Int, NEW cmd, NEW next2, NEW cmd2, NEW stage \in Running, NEW pos \in Nat,
           Fits(q, next, cmd, stage, pos),
           Head(q).type = "processed" => cmd2 = NoCommand /\ next2 = next + 1,
           Head(q).type # "processed" => cmd2 # NoCommand /\ next2 = next
    PROVE  Fits(Tail(q), next2, cmd2, stage, pos)
<1> DEFINE tail == Tail(q)
<1>1. tail \in Seq(Messages) /\ Len(q) = Len(tail) + 1 /\ Head(q) = q[1] /\ Len(tail) \in Nat
      /\ (tail = << >> <=> Len(tail) = 0)
  <2>1. tail \in Seq(Messages) /\ Len(q) = Len(tail) + 1 /\ Head(q) = q[1]
    OBVIOUS
  <2> HIDE DEF tail
  <2>2. QED
    BY <2>1
<1>2. \A i \in 1..Len(tail) : tail[i] = q[i + 1]
  OBVIOUS
<1> HIDE DEF tail
<1>3. Chained(q) /\ Expected(next, cmd, q[1]) /\ Latest(stage, pos, q[Len(q)])
  BY DEF Fits
<1>4. ASSUME NEW i \in 1..(Len(tail) - 1) PROVE Follows(tail[i], tail[i + 1])
  <2>1. tail[i] = q[i + 1] /\ tail[i + 1] = q[(i + 1) + 1] /\ i + 1 \in 1..(Len(q) - 1)
    BY <1>1, <1>2, <1>4
  <2>2. QED
    BY <1>3, <2>1 DEF Chained
<1>5. ASSUME NEW i \in 1..Len(tail), tail[i].type = "processed" PROVE tail[i].cmd < pos
  <2>1. tail[i] = q[i + 1] /\ i + 1 \in 1..Len(q)
    BY <1>1, <1>2, <1>5
  <2>2. QED
    BY <1>5, <2>1 DEF Fits
<1>6. CASE tail = << >>
  <2>1. Latest(stage, pos, q[1]) /\ q[1].cmd = next
    BY <1>1, <1>3, <1>6 DEF Expected
  <2>2. next2 = pos /\ (cmd2 = NoCommand <=> stage = "waiting")
    BY <1>1, <2>1 DEF Latest, Running
  <2>3. QED
    BY <1>4, <1>5, <1>6, <2>2 DEF Fits, Chained, tail
<1>7. CASE tail # << >>
  <2>1. 1 \in 1..(Len(q) - 1) /\ 1 \in 1..Len(tail) /\ Len(tail) \in 1..Len(tail)
    BY <1>1, <1>7
  <2>2. Follows(q[1], q[2]) /\ tail[1] = q[2] /\ tail[Len(tail)] = q[Len(q)]
    <3>1. tail[1] = q[1 + 1] /\ tail[Len(tail)] = q[Len(tail) + 1]
      BY <1>2, <2>1
    <3>2. Follows(q[1], q[1 + 1])
      BY <1>3, <2>1 DEF Chained
    <3>3. QED
      BY <1>1, <3>1, <3>2
  <2>3. Expected(next2, cmd2, tail[1])
    BY <1>1, <1>3, <2>2 DEF Follows, Expected
  <2>4. QED
    BY <1>3, <1>4, <1>5, <1>7, <2>2, <2>3 DEF Fits, Chained, tail
<1>8. QED
  BY <1>6, <1>7

-----------------------------------------------------------------------------

\* Rows stay prefixes of an engine that only grows.
LEMMA RowsGrow ==
    ASSUME RecoveryInv, RowsSound, snapshots' = snapshots,
           \/ main'.engine = main.engine
           \/ \E e \in Entries : main'.engine = Append(main.engine, e)
    PROVE  RowsSound'
<1>1. main.engine \in Seq(Entries) /\ Len(main.engine) \in Nat
  BY MainFacts
<1>2. /\ Len(main'.engine) \in Nat /\ Len(main.engine) <= Len(main'.engine)
      /\ \A i \in 1..Len(main.engine) : main'.engine[i] = main.engine[i]
  BY <1>1
<1>3. ASSUME NEW i \in DOMAIN snapshots PROVE RowSound(snapshots[i])'
  <2>1. RowSound(snapshots[i])
    BY <1>3 DEF RowsSound
  <2>2. Len(snapshots[i].engine) \in 1..Len(main'.engine)
    BY <1>1, <1>2, <2>1 DEF RowSound
  <2>3. \A j \in 1..Len(snapshots[i].engine) : snapshots[i].engine[j].cmd = main'.engine[j].cmd
    BY <1>1, <1>2, <2>1 DEF RowSound
  <2>4. QED
    BY <2>1, <2>2, <2>3 DEF RowSound
<1>4. QED
  BY <1>3 DEF RowsSound

\* An orchestrator and a shadow that have just started.
JustStarted ==
    /\ RecoveryInv
    /\ main.stage = "waiting"
    /\ queue = << >>
    /\ Len(main.engine) = 1
    /\ shadow.engine = main.engine
    /\ shadow.cmd = NoCommand
    /\ shadow.batch = << >>

LEMMA FreshFollows == JustStarted => FollowSound
<1> SUFFICES ASSUME JustStarted PROVE FollowSound
  OBVIOUS
<1> USE DEF JustStarted
<1>1. main.pos \in Nat
  BY MainFacts
<1>2. NextReplay = main.pos
  <2>1. Top = main.pos - 1
    BY DEF Top
  <2>2. Len(main.engine) = 1 /\ Len(shadow.engine) = 1
    BY DEF JustStarted
  <2>3. NextReplay = (main.pos - 1) - 1 + 1 + 1
    BY <2>1, <2>2, Zenon DEF NextReplay
  <2>4. QED
    BY <1>1, <2>3
<1>3. EnginesSound
  BY DEF EnginesSound, Aligned
<1>4. QueueSound
  BY <1>1, <1>2 DEF QueueSound, Fits, Chained
<1>5. BatchSound
  BY DEF BatchSound
<1>6. CountSound
  <2>1. Finished(queue) = {}
    BY DEF Finished
  <2>2. Cardinality(Finished(queue)) = 0
    BY <2>1, FS_EmptySet
  <2>3. Len(main.engine) - Len(shadow.engine) = 0 /\ main.stage # "applied"
    BY DEF JustStarted
  <2>4. Pending(queue) = 0
    BY <2>2 DEF Pending
  <2> HIDE DEF JustStarted
  <2>5. QED
    BY <2>3, <2>4 DEF CountSound
<1>7. QED
  BY <1>3, <1>4, <1>5, <1>6 DEF FollowSound, Running

LEMMA FreshFollowsNext == JustStarted' => FollowSound'
  BY FreshFollows, PTL

\* The first start: everything is at the first command.
LEMMA ReplayInit == Init => ReplayInv
<1> SUFFICES ASSUME Init PROVE ReplayInv
  OBVIOUS
<1>1. RecoveryInv
  BY RecoveryInitInv
<1>2. /\ main = [stage |-> "waiting", pos |-> 1, engine |-> <<SeedLiquidity>>]
      /\ shadow = NewShadow(<<SeedLiquidity>>) /\ queue = << >> /\ snapshots = << >>
  BY DEF Init
<1>3. JustStarted
  BY <1>1, <1>2 DEF JustStarted, NewShadow
<1>4. QED
  BY <1>1, <1>2, <1>3, FreshFollows DEF ReplayInv, StoppedSound, RowsSound

\* A fresh engine leaves the command it stopped at, if any, to its next start.
LEMMA ReplayStart == ASSUME ReplayInv, StartFresh PROVE ReplayInv'
<1>1. RecoveryInv /\ StoppedSound /\ RecoveryInv'
  BY StartInv DEF ReplayInv
<1>2. queue = << >> /\ queue' = queue /\ snapshots = << >> /\ snapshots' = snapshots
      /\ shadow' = NewShadow(<<SeedLiquidity>>)
      /\ main'.stage = "waiting" /\ main'.engine = <<SeedLiquidity>>
  BY <1>1 DEF StartFresh, StoppedSound
<1>3. JustStarted'
  BY <1>1, <1>2 DEF JustStarted, NewShadow
<1>4. QED
  BY <1>1, <1>2, <1>3, FreshFollowsNext DEF ReplayInv, StoppedSound, RowsSound

\* Steps outside the two processes.
LEMMA ReplaySame ==
    ASSUME ReplayInv, RecoveryInv', UNCHANGED <<main, queue, shadow, snapshots>>
    PROVE  ReplayInv'
<1>1. FollowSound'
  BY DEF ReplayInv, FollowSound, EnginesSound, QueueSound, BatchSound, CountSound, NextReplay, Top
<1>2. QED
  BY <1>1 DEF ReplayInv, StoppedSound, RowsSound, RowSound

\* A step after which no shadow runs.
LEMMA ReplayDead ==
    ASSUME ReplayInv, RecoveryInv', ~shadow'.alive, main'.engine = main.engine,
           snapshots' = snapshots, main'.stage \in {"down", "failed"} => queue' = << >>
    PROVE  ReplayInv'
<1>1. RowsSound'
  BY RowsGrow DEF ReplayInv
<1>2. QED
  BY <1>1 DEF ReplayInv, FollowSound, StoppedSound

\* A crash of either process, the death of the shadow noticed, a start that fails.
LEMMA ReplayStop ==
    ASSUME ReplayInv, Crash \/ NoticeDeath \/ StartRestored \/ ShadowDies
    PROVE  ReplayInv'
<1>1. RecoveryInv /\ RecoveryInv'
  BY EndInv, ShadowDiesInv DEF ReplayInv
<1>2. main'.engine = main.engine
  BY <1>1, MainFacts DEF Crash, NoticeDeath, StartRestored, ShadowDies, Mains
<1>3. ~shadow'.alive
  <2>1. CASE Crash \/ ShadowDies
    BY <1>1, <2>1, MainFacts DEF Crash, ShadowDies, Shadows
  <2>2. CASE NoticeDeath
    BY <2>2 DEF NoticeDeath
  <2>3. CASE StartRestored
    BY <2>3 DEF StartRestored, ReplayInv, FollowSound, Running
  <2>4. QED
    BY <2>1, <2>2, <2>3
<1>4. main'.stage \in {"down", "failed"} => queue' = << >>
  BY DEF Crash, NoticeDeath, StartRestored, ShadowDies, ReplayInv, StoppedSound
<1>5. QED
  BY <1>1, <1>2, <1>3, <1>4, ReplayDead DEF Crash, NoticeDeath, StartRestored, ShadowDies

-----------------------------------------------------------------------------

\* A step of the main engine while the shadow runs: it says more and moves on,
\* and the command the shadow replays next stays the same.
LEMMA MainFollows ==
    ASSUME ReplayInv, RecoveryInv', shadow.alive, shadow' = shadow,
           NEW more \in Seq(Messages), more # << >>, Chained(more), queue' = queue \o more,
           main'.stage \in Running, main.pos <= main'.pos,
           NextReplay' = NextReplay, EnginesSound', CountSound',
           queue # << >> => Follows(queue[Len(queue)], more[1]),
           queue = << >> => Expected(NextReplay, shadow.cmd, more[1]),
           \A i \in 1..Len(more) : more[i].type = "processed" => more[i].cmd < main'.pos,
           Latest(main'.stage, main'.pos, more[Len(more)])
    PROVE  FollowSound'
<1>1. main.pos \in Nat /\ main'.pos \in Nat /\ queue \in Seq(Messages)
  <2>1. main' \in Mains /\ MaxCommands \in Nat
    BY RecoveryAssumption DEF RecoveryInv, TypeOK
  <2>2. QED
    BY <2>1, MainFacts DEF ReplayInv, Mains
<1>2. Fits(queue, NextReplay, shadow.cmd, main.stage, main.pos)
  BY DEF ReplayInv, FollowSound, QueueSound
<1>3. Fits(queue \o more, NextReplay, shadow.cmd, main'.stage, main'.pos)
  BY <1>1, <1>2, FitsMore
<1>4. QueueSound'
  BY <1>3 DEF QueueSound
<1>5. BatchSound'
  BY DEF ReplayInv, FollowSound, BatchSound
<1>6. QED
  BY <1>4, <1>5 DEF FollowSound

\* The main engine says that it takes up the command at its position.
LEMMA ReplayReceive == ASSUME ReplayInv, Receive PROVE ReplayInv'
<1>1. /\ main.stage = "waiting" /\ shadow.alive /\ shadow' = shadow /\ snapshots' = snapshots
      /\ main' = [main EXCEPT !.stage = "received"] /\ main.pos <= produced
      /\ queue' = Append(queue, Message("received", main.pos))
  BY DEF Receive
<1>2. RecoveryInv /\ RecoveryInv' /\ FollowSound /\ RowsSound
  BY ReceiveInv DEF ReplayInv
<1>3. main'.stage = "received" /\ main'.pos = main.pos /\ main'.engine = main.engine
  BY <1>1, <1>2, MainFacts DEF Mains
<1>4. Top' = Top /\ Top = main.pos - 1
  BY <1>1, <1>3 DEF Top
<1>5. NextReplay' = NextReplay
  BY <1>1, <1>3, <1>4 DEF NextReplay
<1>6. EnginesSound'
  BY <1>1, <1>2, <1>3, <1>4 DEF FollowSound, EnginesSound
<1> DEFINE m == Message("received", main.pos)
<1>7. m \in Messages /\ m.type = "received" /\ m.cmd = main.pos
  <2>1. main.pos \in Commands
    BY <1>1, <1>2, MainFacts DEF Commands
  <2>2. QED
    BY <2>1, MessageTyped DEF Types, Message
<1> HIDE DEF m
<1>8. /\ <<m>> \in Seq(Messages) /\ <<m>> # << >> /\ Len(<<m>>) = 1 /\ <<m>>[1] = m
      /\ Chained(<<m>>) /\ queue' = queue \o <<m>> /\ queue \in Seq(Messages)
  BY <1>1, <1>2, <1>7, MainFacts DEF Chained, m
<1>9. CountSound'
  <2>1. \A i \in 1..Len(<<m>>) : <<m>>[i].type # "processed"
    BY <1>7, <1>8
  <2>2. Pending(queue \o <<m>>) = Pending(queue)
    BY <1>8, <2>1, FinishedSame
  <2>3. QED
    BY <1>1, <1>2, <1>3, <1>8, <2>2 DEF FollowSound, CountSound
<1>10. QueueSound
  BY <1>1, <1>2 DEF FollowSound
<1>11. queue # << >> => Follows(queue[Len(queue)], m)
  <2> SUFFICES ASSUME queue # << >> PROVE Follows(queue[Len(queue)], m)
    OBVIOUS
  <2>1. queue[Len(queue)].type = "processed" /\ queue[Len(queue)].cmd = main.pos - 1
    BY <1>1, <1>10 DEF QueueSound, Fits, Latest
  <2>2. main.pos = (main.pos - 1) + 1
    BY <1>2, MainFacts
  <2>3. QED
    BY <1>7, <2>1, <2>2 DEF Follows
<1>12. queue = << >> => Expected(NextReplay, shadow.cmd, m)
  BY <1>1, <1>7, <1>10 DEF QueueSound, Fits, Expected
<1>13. Latest(main'.stage, main'.pos, m)
  BY <1>3, <1>7 DEF Latest
<1>14. FollowSound'
  <2>1. main'.stage \in Running /\ main.pos <= main'.pos
    BY <1>2, <1>3, MainFacts DEF Running
  <2>2. \A i \in 1..Len(<<m>>) : <<m>>[i].type = "processed" => <<m>>[i].cmd < main'.pos
    BY <1>7, <1>8
  <2>3. QED
    BY <1>1, <1>2, <1>5, <1>6, <1>8, <1>9, <1>11, <1>12, <1>13, <2>1, <2>2, MainFollows
<1>15. RowsSound'
  BY <1>1, <1>2, <1>3, RowsGrow
<1>16. QED
  BY <1>2, <1>3, <1>14, <1>15 DEF ReplayInv, StoppedSound

\* The handler runs, and its hooks log between the two command events.
LEMMA ReplayApply == ASSUME ReplayInv, NEW o \in Outcomes, Apply(o) PROVE ReplayInv'
<1>1. /\ main.stage = "received" /\ shadow' = shadow /\ snapshots' = snapshots
      /\ main' = [main EXCEPT !.stage = "applied",
                              !.engine = Append(@, Done(main.pos, o))]
      /\ queue' = queue \o Logged(main.pos, o)
  BY DEF Apply
<1>2. RecoveryInv /\ RecoveryInv' /\ FollowSound /\ RowsSound
  BY ApplyInv DEF ReplayInv
<1> DEFINE e == Done(main.pos, o)
           logged == Logged(main.pos, o)
<1>3. main.pos \in Commands /\ e \in Entries /\ e.cmd = main.pos
  BY <1>1, <1>2, MainFacts DEF Done, Entries, Commands
<1>4. main'.stage = "applied" /\ main'.pos = main.pos /\ main'.engine = Append(main.engine, e)
  BY <1>1, <1>2, MainFacts DEF Mains
<1> HIDE DEF e
<1>5. RowsSound'
  BY <1>1, <1>2, <1>3, <1>4, RowsGrow
<1>6. ASSUME shadow.alive PROVE FollowSound'
  <2>1. EnginesSound /\ QueueSound /\ CountSound
    BY <1>2, <1>6 DEF FollowSound
  <2>2. /\ main.engine \in Seq(Entries) /\ shadow.engine \in Seq(Entries)
        /\ Len(main.engine) \in Nat /\ Len(shadow.engine) \in Nat /\ main.pos \in Nat \ {0}
    BY <1>2, ReplayFacts
  <2>3. Top = main.pos - 1 /\ Top' = main.pos
    BY <1>1, <1>4 DEF Top
  <2>4. Len(main'.engine) = Len(main.engine) + 1
    BY <1>4, <2>2
  <2>5. NextReplay' = NextReplay
    <3>1. NextReplay = (main.pos - 1) - Len(main.engine) + Len(shadow.engine) + 1
      BY <2>3 DEF NextReplay
    <3>2. NextReplay' = main.pos - (Len(main.engine) + 1) + Len(shadow.engine) + 1
      BY <1>1, <2>3, <2>4 DEF NextReplay
    <3>3. \A p \in Nat, n \in Nat, k \in Nat : p - (n + 1) + k + 1 = (p - 1) - n + k + 1
      OBVIOUS
    <3>4. QED
      BY <2>2, <3>1, <3>2, <3>3, Zenon
  <2>6. EnginesSound'
    <3>1. Top \in Nat /\ Top + 1 = main.pos
      BY <2>2, <2>3
    <3>2. Aligned(Append(main.engine, e), Top + 1, shadow.engine)
      BY <1>3, <2>1, <2>2, <3>1, AlignedApply DEF EnginesSound
    <3>3. QED
      BY <1>1, <1>4, <2>3, <3>1, <3>2 DEF EnginesSound
  <2>7. /\ logged \in Seq(Messages) /\ logged # << >> /\ Chained(logged)
        /\ \A i \in 1..Len(logged) : /\ logged[i].cmd = main.pos
                                     /\ logged[i].type \notin {"received", "processed"}
        /\ queue' = queue \o logged /\ queue \in Seq(Messages)
    BY <1>1, <1>2, <1>3, LoggedFacts, MainFacts
  <2> HIDE DEF logged
  <2>8. 1 \in 1..Len(logged) /\ Len(logged) \in 1..Len(logged)
    BY <2>7
  <2>9. CountSound'
    <3>1. Pending(queue \o logged) = Pending(queue)
      BY <2>7, FinishedSame
    <3>2. Len(main.engine) - Len(shadow.engine) = Pending(queue) + 0
      BY <1>1, <2>1 DEF CountSound
    <3>3. \A n \in Nat, k \in Nat, w \in Nat : n - k = w + 0 => (n + 1) - k = w + 1
      OBVIOUS
    <3>4. Pending(queue) \in Nat
      BY <1>2, ReplayFacts
    <3>5. (Len(main.engine) + 1) - Len(shadow.engine) = Pending(queue) + 1
      BY <2>2, <3>2, <3>3, <3>4, Zenon
    <3>6. QED
      BY <1>1, <1>4, <2>4, <2>7, <3>1, <3>5 DEF CountSound
  <2>10. queue # << >> => Follows(queue[Len(queue)], logged[1])
    <3>1. queue # << >> => queue[Len(queue)].type = "received" /\ queue[Len(queue)].cmd = main.pos
      BY <1>1, <2>1 DEF QueueSound, Fits, Latest
    <3>2. QED
      BY <2>7, <2>8, <3>1 DEF Follows
  <2>11. queue = << >> => Expected(NextReplay, shadow.cmd, logged[1])
    BY <1>1, <2>1, <2>7, <2>8 DEF QueueSound, Fits, Expected
  <2>12. Latest(main'.stage, main'.pos, logged[Len(logged)])
    BY <1>4, <2>7, <2>8 DEF Latest
  <2>13. main'.stage \in Running /\ main.pos <= main'.pos
    BY <1>4, <2>2 DEF Running
  <2>14. \A i \in 1..Len(logged) : logged[i].type = "processed" => logged[i].cmd < main'.pos
    BY <2>7
  <2>15. QED
    BY <1>1, <1>2, <1>6, <2>5, <2>6, <2>7, <2>9, <2>10, <2>11, <2>12, <2>13, <2>14, MainFollows
<1>7. FollowSound'
  BY <1>1, <1>6 DEF FollowSound
<1>8. QED
  BY <1>2, <1>4, <1>5, <1>7 DEF ReplayInv, StoppedSound

\* The main engine says that it is done with the command.
LEMMA ReplayProcess == ASSUME ReplayInv, Process PROVE ReplayInv'
<1>1. /\ main.stage = "applied" /\ shadow' = shadow /\ snapshots' = snapshots
      /\ main' = [main EXCEPT !.stage = "waiting", !.pos = @ + 1]
      /\ queue' = Append(queue, Message("processed", main.pos))
  BY DEF Process
<1>2. RecoveryInv /\ RecoveryInv' /\ FollowSound /\ RowsSound
  BY ProcessInv DEF ReplayInv
<1>3. /\ main'.stage = "waiting" /\ main'.pos = main.pos + 1 /\ main'.engine = main.engine
      /\ main.pos \in Nat
  BY <1>1, <1>2, MainFacts DEF Mains
<1>4. RowsSound'
  BY <1>1, <1>2, <1>3, RowsGrow
<1>5. ASSUME shadow.alive PROVE FollowSound'
  <2>1. EnginesSound /\ QueueSound /\ CountSound
    BY <1>2, <1>5 DEF FollowSound
  <2>2. Top' = Top
    <3>1. Top = main.pos /\ Top' = (main.pos + 1) - 1
      BY <1>1, <1>3 DEF Top
    <3>2. QED
      BY <1>3, <3>1
  <2>3. NextReplay' = NextReplay
    BY <1>1, <1>3, <2>2 DEF NextReplay
  <2>4. EnginesSound'
    BY <1>1, <1>3, <2>1, <2>2 DEF EnginesSound
  <2> DEFINE m == Message("processed", main.pos)
  <2>5. m \in Messages /\ m.type = "processed" /\ m.cmd = main.pos
    BY <1>1, <1>2, MainFacts, MessageTyped DEF Types, Message
  <2>6. queue' = Append(queue, m)
    BY <1>1
  <2> HIDE DEF m
  <2>7. /\ <<m>> \in Seq(Messages) /\ <<m>> # << >> /\ Len(<<m>>) = 1 /\ <<m>>[1] = m
        /\ Chained(<<m>>) /\ queue' = queue \o <<m>> /\ queue \in Seq(Messages)
    <3>1. queue \in Seq(Messages)
      BY <1>2, MainFacts
    <3>2. queue' = queue \o <<m>>
      BY <2>5, <2>6, <3>1
    <3>3. QED
      BY <2>5, <3>1, <3>2 DEF Chained
  <2>8. CountSound'
    <3>1. Pending(queue \o <<m>>) = Pending(queue) + 1
      BY <2>5, <2>7, FinishedMore
    <3>2. Len(main.engine) - Len(shadow.engine) = Pending(queue) + 1
      BY <1>1, <2>1 DEF CountSound
    <3>3. \A w \in Nat : w + 1 = (w + 1) + 0
      OBVIOUS
    <3>4. Len(main'.engine) - Len(shadow'.engine) = Pending(queue') + 0
      BY <1>1, <1>2, <1>3, <2>7, <3>1, <3>2, <3>3, ReplayFacts, Zenon
    <3>5. QED
      BY <1>3, <3>4 DEF CountSound
  <2>9. queue # << >> => Follows(queue[Len(queue)], m)
    <3>1. queue # << >> => /\ queue[Len(queue)].type \notin {"received", "processed"}
                           /\ queue[Len(queue)].cmd = main.pos
      BY <1>1, <2>1 DEF QueueSound, Fits, Latest
    <3>2. QED
      BY <2>5, <3>1 DEF Follows
  <2>10. queue = << >> => Expected(NextReplay, shadow.cmd, m)
    BY <1>1, <2>1, <2>5 DEF QueueSound, Fits, Expected
  <2>11. Latest(main'.stage, main'.pos, m)
    <3>1. main.pos = (main.pos + 1) - 1
      BY <1>3
    <3>2. QED
      BY <1>3, <2>5, <3>1 DEF Latest
  <2>12. main'.stage \in Running /\ main.pos <= main'.pos
    BY <1>3 DEF Running
  <2>13. \A i \in 1..Len(<<m>>) : <<m>>[i].type = "processed" => <<m>>[i].cmd < main'.pos
    BY <1>3, <2>5, <2>7
  <2>14. QED
    BY <1>1, <1>2, <1>5, <2>3, <2>4, <2>7, <2>8, <2>9, <2>10, <2>11, <2>12, <2>13, MainFollows
<1>6. FollowSound'
  BY <1>1, <1>5 DEF FollowSound
<1>7. QED
  BY <1>2, <1>3, <1>4, <1>6 DEF ReplayInv, StoppedSound

-----------------------------------------------------------------------------

\* What the shadow reads is what the invariant expects.
LEMMA ConsumeFacts ==
    ASSUME ReplayInv, Consume
    PROVE  /\ shadow.alive /\ main' = main /\ queue' = Tail(queue)
           /\ queue \in Seq(Messages) /\ queue # << >> /\ NextMessage = Head(queue)
           /\ NextMessage \in Messages /\ NextMessage.cmd \in Nat \ {0}
           /\ NextMessage.cmd = NextReplay
           /\ shadow.cmd = NoCommand <=> NextMessage.type = "received"
           /\ NextMessage.type = "processed" => NextMessage.cmd < main.pos
           /\ shadow.cmd # NoCommand => shadow.cmd = NextReplay
<1>1. RecoveryInv /\ FollowSound
  BY DEF ReplayInv
<1>2. shadow.alive /\ main' = main /\ queue' = Tail(queue) /\ queue # << >>
  BY DEF Consume
<1>3. QueueSound /\ BatchSound
  BY <1>1, <1>2 DEF FollowSound
<1>4. queue \in Seq(Messages) /\ NextMessage = queue[1] /\ 1 \in 1..Len(queue)
  BY <1>1, <1>2, MainFacts DEF NextMessage
<1>5. queue[1] \in Messages /\ queue[1].cmd \in Nat \ {0}
  BY <1>1, <1>4, ReplayFacts
<1>6. Expected(NextReplay, shadow.cmd, queue[1])
  BY <1>2, <1>3 DEF QueueSound, Fits
<1>7. queue[1].type = "processed" => queue[1].cmd < main.pos
  BY <1>3, <1>4 DEF QueueSound, Fits
<1>8. QED
  BY <1>2, <1>3, <1>4, <1>5, <1>6, <1>7 DEF Expected, BatchSound, NextMessage

\* The queue after the shadow has read.
LEMMA ConsumeQueue ==
    ASSUME ReplayInv, Consume, RecoveryInv', shadow'.alive,
           NextMessage.type = "processed"
             => shadow'.cmd = NoCommand /\ NextReplay' = NextReplay + 1,
           NextMessage.type # "processed"
             => shadow'.cmd # NoCommand /\ NextReplay' = NextReplay
    PROVE  QueueSound' /\ main'.stage \in Running
<1>1. RecoveryInv /\ shadow.alive /\ main' = main /\ queue' = Tail(queue)
      /\ queue \in Seq(Messages) /\ queue # << >> /\ NextMessage = Head(queue)
  BY ConsumeFacts DEF ReplayInv
<1>2. main.stage \in Running /\ Fits(queue, NextReplay, shadow.cmd, main.stage, main.pos)
  BY <1>1 DEF ReplayInv, FollowSound, QueueSound
<1>3. NextReplay \in Int /\ main.pos \in Nat
  BY <1>1, ReplayFacts
<1>4. Fits(Tail(queue), NextReplay', shadow'.cmd, main.stage, main.pos)
  BY <1>1, <1>2, <1>3, FitsTail
<1>5. QED
  BY <1>1, <1>2, <1>4 DEF QueueSound

\* A message that does not end a command leaves the engine of the shadow.
LEMMA ConsumeWithin ==
    ASSUME ReplayInv, Consume, RecoveryInv', NextMessage.type # "processed",
           shadow'.alive, shadow'.engine = shadow.engine, shadow'.cmd = NextReplay,
           \A i \in DOMAIN shadow'.batch : shadow'.batch[i].cmd = shadow'.cmd,
           snapshots' = snapshots
    PROVE  ReplayInv'
<1>1. RecoveryInv /\ FollowSound /\ StoppedSound /\ RowsSound
  BY DEF ReplayInv
<1>2. shadow.alive /\ main' = main /\ queue' = Tail(queue) /\ NextMessage = Head(queue)
      /\ queue \in Seq(Messages) /\ queue # << >>
      /\ NextMessage.cmd = NextReplay /\ NextMessage.cmd \in Nat \ {0}
  BY ConsumeFacts
<1>3. Top' = Top
  BY <1>2 DEF Top
<1>4. NextReplay' = NextReplay
  BY <1>2, <1>3 DEF NextReplay
<1>5. shadow'.cmd # NoCommand
  BY <1>2 DEF NoCommand
<1>6. QueueSound' /\ main'.stage \in Running
  BY <1>4, <1>5, ConsumeQueue
<1>7. EnginesSound'
  BY <1>1, <1>2, <1>3 DEF FollowSound, EnginesSound
<1>8. BatchSound'
  BY <1>4 DEF BatchSound
<1>9. CountSound'
  <2>1. Pending(queue) = Pending(Tail(queue)) + 0
    BY <1>2, FinishedTail
  <2>2. Tail(queue) \in Seq(Messages)
    BY <1>2
  <2>3. Pending(Tail(queue)) \in Nat
    BY <2>2, FinishedFinite DEF Pending
  <2>4. Pending(queue') = Pending(queue)
    BY <1>2, <2>1, <2>3
  <2>5. QED
    BY <1>1, <1>2, <2>4 DEF FollowSound, CountSound
<1>10. RowsSound'
  BY <1>1, <1>2, RowsGrow
<1>11. QED
  BY <1>6, <1>7, <1>8, <1>9, <1>10 DEF ReplayInv, FollowSound, StoppedSound, Running

\* The shadow takes up the command, with nothing left of the one before.
LEMMA ReplayShadowReceived == ASSUME ReplayInv, ShadowReceived PROVE ReplayInv'
<1>1. Consume /\ NextMessage.type = "received" /\ snapshots' = snapshots
      /\ shadow' = [shadow EXCEPT !.cmd = NextMessage.cmd]
  BY DEF ShadowReceived
<1>2. RecoveryInv /\ RecoveryInv' /\ BatchSound
  BY <1>1, ConsumeFacts, ShadowLoopInv DEF ReplayInv, FollowSound, ShadowLoop
<1>3. shadow'.alive /\ shadow'.engine = shadow.engine /\ shadow'.cmd = NextReplay
      /\ shadow'.batch = shadow.batch
  BY <1>1, <1>2, ConsumeFacts, MainFacts DEF Shadows
<1>4. ASSUME NEW i \in DOMAIN shadow.batch PROVE FALSE
  <2>1. shadow.batch[i].cmd = NoCommand
    BY <1>1, <1>2, <1>4, ConsumeFacts DEF BatchSound
  <2>2. shadow.batch[i] \in Messages
    BY <1>2, <1>4, ReplayFacts
  <2>3. QED
    BY <2>1, <2>2 DEF Messages, Commands, NoCommand
<1>5. QED
  BY <1>1, <1>2, <1>3, <1>4, ConsumeWithin

\* The shadow keeps an event for the command it is at.
LEMMA ReplayShadowEvent == ASSUME ReplayInv, ShadowEvent PROVE ReplayInv'
<1>1. Consume /\ NextMessage.type \notin {"received", "processed"} /\ snapshots' = snapshots
      /\ shadow' = IF shadow.cmd = NoCommand THEN shadow
                   ELSE [shadow EXCEPT !.batch = Append(@, NextMessage)]
  BY DEF ShadowEvent
<1>2. RecoveryInv /\ RecoveryInv' /\ BatchSound
  BY <1>1, ConsumeFacts, ShadowLoopInv DEF ReplayInv, FollowSound, ShadowLoop
<1>3. shadow.alive /\ shadow.cmd # NoCommand /\ shadow.cmd = NextReplay
      /\ NextMessage.cmd = shadow.cmd /\ NextMessage \in Messages
  BY <1>1, ConsumeFacts
<1>4. shadow'.alive /\ shadow'.engine = shadow.engine /\ shadow'.cmd = shadow.cmd
      /\ shadow'.batch = Append(shadow.batch, NextMessage)
  BY <1>1, <1>2, <1>3, MainFacts DEF Shadows
<1>5. \A i \in DOMAIN shadow'.batch : shadow'.batch[i].cmd = shadow'.cmd
  <2> DEFINE b == shadow.batch
             m == NextMessage
             c == shadow.cmd
  <2>1. b \in Seq(Messages) /\ (\A i \in DOMAIN b : b[i].cmd = c) /\ m.cmd = c
    BY <1>2, <1>3, ReplayFacts DEF BatchSound
  <2>2. m \in Messages
    BY <1>3
  <2> HIDE DEF b, m, c
  <2>3. \A i \in DOMAIN Append(b, m) : Append(b, m)[i].cmd = c
    BY <2>1, <2>2
  <2>4. QED
    BY <1>4, <2>3 DEF b, m, c
<1>6. QED
  BY <1>1, <1>2, <1>3, <1>4, <1>5, ConsumeWithin

\* The shadow replays the command, and takes a snapshot when one is due.
LEMMA ReplayShadowProcessed == ASSUME ReplayInv, ShadowProcessed PROVE ReplayInv'
<1> DEFINE e == Replay(shadow.cmd, shadow.batch)
           engine == Append(shadow.engine, e)
           due == shadow.count + 1 >= SnapshotInterval
           count == IF due THEN 0 ELSE shadow.count + 1
           row == Snapshot(engine, shadow.cmd)
<1>1. /\ Consume /\ NextMessage.type = "processed" /\ NextMessage.cmd = shadow.cmd
      /\ shadow' = [shadow EXCEPT !.cmd = NoCommand, !.batch = << >>,
                                  !.engine = engine, !.count = count]
      /\ snapshots' = IF due THEN Append(snapshots, row) ELSE snapshots
  BY DEF ShadowProcessed
<1>2. RecoveryInv /\ RecoveryInv' /\ FollowSound /\ StoppedSound /\ RowsSound
  BY ShadowLoopInv DEF ReplayInv, ShadowLoop
<1>3. e \in Entries /\ e.cmd = shadow.cmd
  BY <1>2, MainFacts DEF Replay, Done, Entries, Outcomes, Shadows
<1>4. row.engine = engine /\ row.offset = shadow.cmd
  BY DEF Snapshot
<1> HIDE DEF e, engine, due, count, row
<1>5. /\ shadow'.alive = shadow.alive /\ shadow'.engine = engine
      /\ shadow'.cmd = NoCommand /\ shadow'.batch = << >>
  BY <1>1, <1>2, MainFacts DEF Shadows
<1>6. /\ shadow.alive /\ main' = main /\ queue' = Tail(queue) /\ NextMessage = Head(queue)
      /\ queue \in Seq(Messages) /\ queue # << >>
      /\ shadow.cmd = NextReplay /\ shadow.cmd < main.pos
  BY <1>1, ConsumeFacts
<1>7. EnginesSound /\ CountSound
  BY <1>2, <1>6 DEF FollowSound
<1>8. /\ main.engine \in Seq(Entries) /\ shadow.engine \in Seq(Entries) /\ Top \in Nat
      /\ Len(main.engine) \in Nat /\ Len(shadow.engine) \in Nat
      /\ main.pos \in Nat \ {0} /\ shadow.cmd \in Nat
  BY <1>2, ReplayFacts
<1>9. Len(engine) = Len(shadow.engine) + 1
  BY <1>3, <1>8 DEF engine
<1>10. Aligned(main.engine, Top, engine)
  <2>1. shadow.cmd <= Top
    BY <1>6, <1>8 DEF Top
  <2>2. shadow.cmd = Top - Len(main.engine) + Len(shadow.engine) + 1
    BY <1>6 DEF NextReplay
  <2>3. QED
    BY <1>3, <1>7, <1>8, <2>1, <2>2, AlignedReplay DEF EnginesSound, engine
<1>11. Top' = Top
  BY <1>6 DEF Top
<1>12. EnginesSound'
  BY <1>5, <1>6, <1>10, <1>11 DEF EnginesSound
<1>13. NextReplay' = NextReplay + 1
  <2>1. NextReplay' = Top - Len(main.engine) + (Len(shadow.engine) + 1) + 1
    BY <1>5, <1>6, <1>9, <1>11 DEF NextReplay
  <2>2. \A t \in Nat, n \in Nat, k \in Nat : t - n + (k + 1) + 1 = (t - n + k + 1) + 1
    OBVIOUS
  <2>3. QED
    BY <1>8, <2>1, <2>2, Zenon DEF NextReplay
<1>14. QueueSound' /\ main'.stage \in Running
  BY <1>1, <1>2, <1>5, <1>6, <1>13, ConsumeQueue
<1>15. BatchSound'
  BY <1>5 DEF BatchSound
<1>16. CountSound'
  <2> DEFINE applied1 == IF main.stage = "applied" THEN 1 ELSE 0
  <2>1. Pending(queue) = Pending(queue') + 1
    BY <1>1, <1>6, FinishedTail
  <2>2. Tail(queue) \in Seq(Messages)
    BY <1>6
  <2>3. Pending(queue') \in Nat
    BY <1>6, <2>2, FinishedFinite DEF Pending
  <2>4. Len(main.engine) - Len(shadow.engine) = (Pending(queue') + 1) + applied1
    BY <1>7, <2>1 DEF CountSound
  <2>5. applied1 \in Nat
    OBVIOUS
  <2> HIDE DEF applied1
  <2>6. Len(main.engine) - (Len(shadow.engine) + 1) = Pending(queue') + applied1
    <3> DEFINE n == Len(main.engine)
               k == Len(shadow.engine)
               w == Pending(queue')
    <3>1. n \in Nat /\ k \in Nat /\ w \in Nat /\ n - k = (w + 1) + applied1
      BY <1>8, <2>3, <2>4
    <3> HIDE DEF n, k, w
    <3>2. n - (k + 1) = w + applied1
      BY <2>5, <3>1
    <3>3. QED
      BY <3>2 DEF n, k, w
  <2>7. QED
    BY <1>5, <1>6, <1>9, <2>6 DEF CountSound, applied1
<1>17. RowsSound'
  <2>1. \A i \in DOMAIN snapshots : RowSound(snapshots[i])
    BY <1>2 DEF RowsSound
  <2>2. RowSound(row)
    <3>1. Len(engine) \in 1..Len(main.engine)
      BY <1>10 DEF Aligned
    <3>2. \A j \in 1..Len(engine) : engine[j].cmd = main.engine[j].cmd
      BY <1>10 DEF Aligned
    <3>3. engine[Len(engine)] = e
      BY <1>3, <1>8, <1>9 DEF engine
    <3>4. QED
      BY <1>3, <1>4, <3>1, <3>2, <3>3 DEF RowSound
  <2>3. snapshots \in Seq(Rows)
    BY <1>2, MainFacts
  <2>4. \A i \in DOMAIN snapshots' : snapshots'[i] = row \/ (i \in DOMAIN snapshots
                                                       /\ snapshots'[i] = snapshots[i])
    <3>1. CASE due
      <4>1. snapshots' = Append(snapshots, row)
        BY <1>1, <3>1
      <4>2. QED
        BY <2>3, <4>1
    <3>2. CASE ~due
      BY <1>1, <3>2
    <3>3. QED
      BY <3>1, <3>2
  <2>5. \A i \in DOMAIN snapshots' : RowSound(snapshots'[i])
    BY <2>1, <2>2, <2>4
  <2>6. QED
    BY <1>6, <2>5 DEF RowsSound, RowSound
<1>18. QED
  BY <1>2, <1>5, <1>6, <1>12, <1>14, <1>15, <1>16, <1>17
     DEF ReplayInv, FollowSound, StoppedSound, Running

\* Every step of either process keeps the two together.
LEMMA ReplayNext == ReplayInv /\ [Next]_recoveryVars => ReplayInv'
<1> SUFFICES ASSUME ReplayInv, [Next]_recoveryVars PROVE ReplayInv'
  OBVIOUS
<1>1. RecoveryInv'
  BY RecoveryNextInv DEF ReplayInv
<1>2. CASE Orchestrator
  BY <1>2, ReplayReceive, ReplayApply, ReplayProcess, ReplayStop DEF Orchestrator
<1>3. CASE ShadowLoop
  BY <1>3, ReplayShadowReceived, ReplayShadowEvent, ReplayShadowProcessed DEF ShadowLoop
<1>4. CASE Produce \/ Commit \/ UNCHANGED recoveryVars
  BY <1>1, <1>4, ReplaySame DEF Produce, Commit, recoveryVars
<1>5. QED
  BY <1>2, <1>3, <1>4, ReplayStop, ReplayStart DEF Next

\* EngineOrchestrator and its shadow: whatever the pace of the two processes and
\* wherever one of them crashes, a running shadow has replayed the first of the
\* commands of the main engine in the same order, it keeps no event of another
\* command, and what it has not replayed is on the queue.
THEOREM ShadowAlwaysFollows == Spec => []ShadowFollows
<1>1. Spec => []ReplayInv
  BY ReplayInit, ReplayNext, PTL DEF Spec
<1>2. QED
  BY <1>1, ReplayInvImplies, PTL

\* A row of EngineContextSnapshots is the state of the main engine at the offset
\* it names, as long as the row exists.
THEOREM SnapshotsAtOffset == Spec => []SnapshotAtOffset
<1>1. Spec => []ReplayInv
  BY ReplayInit, ReplayNext, PTL DEF Spec
<1>2. QED
  BY <1>1, ReplayInvImplies, PTL

====
