--------------------------- MODULE ChannelPipeline ---------------------------
(* Messages of one chat of a channel (channels/pipeline.py): deduplication,    *)
(* the chat's queue and its consumer, the turn that answers a message, /stop,  *)
(* the recall of a message, and the shutdown and restart of the channel        *)
(* (channels/connection_manager.py).                                           *)
(*                                                                             *)
(* An action is what a task does between two awaits.  What the user sees is    *)
(* StreamingReply's; here a turn has its row in the task registry, its events  *)
(* in the replay log and its messages in the session.                          *)
EXTENDS Integers, Sequences, FiniteSets, SequencesExt

CONSTANTS
    Msgs,         \* messages of the chat
    Stops,        \* /stop commands
    MaxQueued,    \* bound: messages queued, were events not deduplicated
    Restarts      \* bound: shutdowns followed by a new pipeline

ASSUME PipelineAssumption == /\ Msgs \cap Stops = {} /\ "none" \notin Msgs
                             /\ MaxQueued \in Nat /\ Restarts \in Nat

Event == ({"message", "recall"} \X Msgs) \cup ({"stop"} \X Stops)
NoTurn == [msg |-> "none", pc |-> "over", cut |-> FALSE, cancelled |-> FALSE, files |-> {}]
Turn == [msg: Msgs, cut: BOOLEAN, cancelled: BOOLEAN, files: SUBSET Msgs,
         pc: {"resolve", "prepare", "saved", "noted", "agent", "closing", "after",
              "failing", "rollback", "rescue", "rescued", "over"}]

VARIABLES
    seen,         \* _event_seen, of the whole process
    spawned,      \* tasks of /stop and recall events that have not run yet
    queue,        \* _chat_queues[chat_key]
    consumer,     \* _chat_consumers[chat_key]: "none", "wait" in get, in a "turn", "dead"
    ccut,         \* the consumer itself was cancelled
    turn,         \* _running[chat_key]: the inner task and its trigger
    marks,        \* _recalled_messages: "none", "held", "expired"
    pending,      \* _pending_attachments
    phase,        \* of the pipeline: "open", "closing", "closed"
    lives,        \* pipelines started so far
    registry,     \* the chat's entry in the task registry, which answers (TaskEvents
                  \* has its failures): a message or "none"
    log,          \* replay log, per message: "none", "open", "ended"
    chat,         \* the session's messages: <<"user" or "answer", message>>
    detached,     \* finalizations that outlive their turn: <<message, step>>
    accepted, begun,          \* history: messages in the order queued, and started
    dropped, stopped,         \* history: taken off the queue; queued before a /stop ran
    interrupted               \* history: cancelled while their agent was at work, and
                              \* not given up by a finalization that was skipped or failed

chan == <<seen, spawned, accepted>>
cons == <<queue, consumer, ccut, begun, dropped>>
work == <<pending, registry, log, chat, detached, interrupted>>
pvars == <<chan, cons, turn, marks, phase, lives, work, stopped>>

PTypeOK ==
    /\ seen \subseteq Event
    /\ spawned \subseteq Event /\ queue \in Seq(Msgs)
    /\ consumer \in {"none", "wait", "turn", "dead"} /\ ccut \in BOOLEAN
    /\ turn \in Turn \cup {NoTurn} /\ (consumer = "turn" <=> turn # NoTurn)
    /\ marks \in [Msgs -> {"none", "held", "expired"}] /\ pending \subseteq Msgs
    /\ phase \in {"open", "closing", "closed"} /\ lives \in 1 .. Restarts + 1
    /\ registry \in Msgs \cup {"none"} /\ log \in [Msgs -> {"none", "open", "ended"}]
    /\ chat \in Seq({"user", "answer"} \X Msgs)
    /\ detached \subseteq Msgs \X {"rescue", "rescued"}

PInit ==
    /\ seen = {} /\ spawned = {} /\ accepted = <<>>
    /\ queue = <<>> /\ consumer = "none" /\ ccut = FALSE /\ begun = <<>> /\ dropped = {}
    /\ turn = NoTurn /\ marks = [m \in Msgs |-> "none"] /\ phase = "open" /\ lives = 1
    /\ pending = {} /\ registry = "none" /\ log = [m \in Msgs |-> "none"] /\ chat = <<>>
    /\ detached = {} /\ stopped = {} /\ interrupted = {}

-----------------------------------------------------------------------------
(* submit: a message goes to the queue of its chat, whose consumer it may      *)
(* start; /stop and recalls get a task of their own.  The platform delivers an *)
(* event as often as it likes and in any order.                                *)

Dup(e) == e \in seen
Submit(e) ==
    /\ Len(accepted) < MaxQueued
    /\ IF phase # "open" \/ Dup(e) THEN UNCHANGED <<seen, spawned, accepted, cons>>
       ELSE /\ seen' = seen \cup {e}
            /\ IF e[1] = "message"
               THEN /\ queue' = Append(queue, e[2]) /\ accepted' = Append(accepted, e[2])
                    /\ consumer' = IF consumer = "none" THEN "wait" ELSE consumer
                    /\ UNCHANGED <<spawned, ccut, begun, dropped>>
               ELSE spawned' = spawned \cup {e} /\ UNCHANGED <<accepted, cons>>
    /\ UNCHANGED <<turn, marks, phase, lives, work, stopped>>

(* The turn is asked to stop.  One that is over does not notice.               *)
Cut(t) == IF t.pc = "over" THEN t ELSE [t EXCEPT !.cut = TRUE, !.cancelled = TRUE]

(* _safe_handle_stop: drop what is queued, cancel the turn.                    *)
Cleared(q) == <<>>
HandleStop(e) ==
    /\ e \in spawned /\ e[1] = "stop" /\ spawned' = spawned \ {e}
    /\ queue' = IF queue = <<>> THEN <<>> ELSE Cleared(queue)
    /\ dropped' = dropped \cup (ToSet(queue) \ ToSet(queue'))
    /\ turn' = Cut(turn)
    /\ stopped' = stopped \cup ToSet(accepted)
    /\ UNCHANGED <<seen, accepted, consumer, ccut, begun, marks, phase, lives, work>>

(* _safe_handle_recall: mark first, then look for the turn it triggered.       *)
Triggered(m) == turn.msg = m
HandleRecall(e) ==
    /\ e \in spawned /\ e[1] = "recall" /\ spawned' = spawned \ {e}
    /\ marks' = [marks EXCEPT ![e[2]] = "held"]
    /\ turn' = IF Triggered(e[2]) THEN Cut(turn) ELSE turn
    /\ UNCHANGED <<seen, accepted, cons, phase, lives, work, stopped>>
(* A mark is kept for ten minutes.                                             *)
MarkExpires(m) == /\ marks[m] = "held" /\ marks' = [marks EXCEPT ![m] = "expired"]
                  /\ UNCHANGED <<chan, cons, turn, phase, lives, work, stopped>>

-----------------------------------------------------------------------------
(* The consumer.                                                               *)

Started(m) == [msg |-> m, pc |-> "resolve", cut |-> FALSE, cancelled |-> FALSE, files |-> {}]
Take ==
    /\ consumer = "wait" /\ ~ccut /\ queue # <<>> /\ queue' = Tail(queue)
    /\ IF marks[Head(queue)] = "held"
       THEN dropped' = dropped \cup {Head(queue)} /\ UNCHANGED <<consumer, begun, turn>>
       ELSE /\ consumer' = "turn" /\ turn' = Started(Head(queue))
            /\ begun' = Append(begun, Head(queue)) /\ UNCHANGED dropped
    /\ UNCHANGED <<chan, ccut, marks, phase, lives, work, stopped>>

(* The turn ended, perhaps by a cancellation: only one of the consumer itself, *)
(* or the end of the pipeline, ends the loop.                                  *)
DiesBug == ccut \/ turn.cancelled \/ phase # "open"
Dies == ccut \/ phase # "open"
TurnOver == /\ consumer = "turn" /\ turn.pc = "over"
            /\ turn' = NoTurn /\ consumer' = IF Dies THEN "dead" ELSE "wait"
            /\ UNCHANGED <<chan, queue, ccut, begun, dropped, marks, phase, lives, work, stopped>>
CancelledWait == /\ consumer = "wait" /\ ccut /\ consumer' = "dead"
                 /\ UNCHANGED <<chan, queue, ccut, begun, dropped, turn, marks, phase, lives,
                                work, stopped>>
(* Nothing for an hour: the queue is taken out if it is still empty.           *)
Idle == /\ consumer = "wait" /\ ~ccut /\ phase = "open" /\ queue = <<>> /\ consumer' = "none"
        /\ UNCHANGED <<chan, queue, ccut, begun, dropped, turn, marks, phase, lives, work, stopped>>

-----------------------------------------------------------------------------
(* The turn: _handle and _drive_agent.                                         *)

At(pc) == consumer = "turn" /\ turn.pc = pc /\ ~turn.cut
Goto(pc) == turn' = [turn EXCEPT !.pc = pc]
Said(who, m) == IF <<who, m>> \in ToSet(chat) THEN chat ELSE Append(chat, <<who, m>>)
rest == <<chan, cons, marks, phase, lives, stopped>>

(* No agent is driven: a disabled channel, a command, a guide to bind, a       *)
(* failure that is answered with an apology; a file waits for the next text.   *)
Answered == /\ At("resolve") /\ Goto("over")
            /\ pending' \in {pending, pending \cup {turn.msg}}
            /\ UNCHANGED <<rest, registry, log, chat, detached, interrupted>>
Drive == /\ At("resolve")
         /\ turn' = [turn EXCEPT !.pc = "prepare", !.files = pending] /\ pending' = {}
         /\ UNCHANGED <<rest, registry, log, chat, detached, interrupted>>
PrepareFails == At("prepare") /\ Goto("over") /\ UNCHANGED <<rest, work>>
SaveUser == /\ At("prepare") /\ Goto("saved") /\ chat' = Said("user", turn.msg)
            /\ UNCHANGED <<rest, pending, registry, log, detached, interrupted>>
NoteTask == /\ At("saved") /\ Goto("noted") /\ registry' = turn.msg
            /\ UNCHANGED <<rest, pending, log, chat, detached, interrupted>>
OpenCard == At("noted") /\ Goto("agent") /\ UNCHANGED <<rest, work>>
AgentEvent == /\ At("agent") /\ UNCHANGED turn
              /\ log' = [log EXCEPT ![turn.msg] = "open"]
              /\ chat' \in {chat, Said("answer", turn.msg)}
              /\ UNCHANGED <<rest, pending, registry, detached, interrupted>>
AgentDone == /\ At("agent") /\ Goto("closing") /\ chat' = Said("answer", turn.msg)
             /\ UNCHANGED <<rest, pending, registry, log, detached, interrupted>>
CloseCard == /\ At("closing") /\ Goto("after") /\ registry' = "none"
             /\ UNCHANGED <<rest, pending, log, chat, detached, interrupted>>
LogDone == /\ At("after") /\ Goto("over") /\ log' = [log EXCEPT ![turn.msg] = "ended"]
           /\ UNCHANGED <<rest, pending, registry, chat, detached, interrupted>>

(* Whatever the loop, the store or the card raised: rescue, tell, log, forget. *)
AgentFails == /\ At("agent") \/ At("closing")
              /\ Goto("failing") /\ UNCHANGED <<rest, work>>
FailureTold == /\ At("failing") /\ Goto("over") /\ chat' \in {chat, Said("answer", turn.msg)}
               /\ log' = [log EXCEPT ![turn.msg] = "ended"] /\ registry' = "none"
               /\ UNCHANGED <<rest, pending, detached, interrupted>>

(* The cancellation arrives.  Under an agent at work the session is rolled     *)
(* back first; the finalization that follows is shielded, and a second         *)
(* cancellation leaves it to itself.  One that meets the rollback, or the      *)
(* report of a failure, ends the turn there.                                   *)
Shielded(m, step) == {<<m, step>>}
Into(pc) == turn' = [turn EXCEPT !.pc = pc, !.cut = FALSE]
Unwind ==
    /\ consumer = "turn" /\ turn.cut /\ turn.pc # "over"
    /\ \/ /\ turn.pc \in {"agent", "closing"} /\ Into("rollback")
          /\ interrupted' = interrupted \cup {turn.msg} /\ UNCHANGED <<registry, chat, detached>>
       \/ /\ turn.pc \in {"rescue", "rescued"} /\ Into("over") /\ registry' = "none"
          /\ detached' = detached \cup Shielded(turn.msg, turn.pc) /\ UNCHANGED <<chat, interrupted>>
       \/ /\ turn.pc = "rollback" /\ Into("over") /\ registry' = "none"
          /\ interrupted' = interrupted \ {turn.msg} /\ UNCHANGED <<chat, detached>>
       \/ /\ turn.pc = "failing" /\ Into("over") /\ registry' = "none"
          /\ chat' \in {chat, Said("answer", turn.msg)} /\ UNCHANGED <<detached, interrupted>>
       \/ /\ turn.pc \in {"resolve", "prepare", "saved", "noted", "after"} /\ Into("over")
          /\ UNCHANGED <<registry, chat, detached, interrupted>>
    /\ UNCHANGED <<rest, pending, log>>

(* db.rollback(), of which an error ends the turn like a second cancellation.  *)
RolledBack == At("rollback") /\ Goto("rescue") /\ UNCHANGED <<rest, work>>
RollbackFails == /\ At("rollback") /\ Goto("over") /\ registry' = "none"
                 /\ interrupted' = interrupted \ {turn.msg}
                 /\ UNCHANGED <<rest, pending, log, chat, detached>>

(* _finalize_interrupted: the answer so far, if the store takes it, then the   *)
(* end of the replay log.                                                      *)
Rescued(m) == \/ chat' = Said("answer", m) /\ UNCHANGED interrupted
              \/ interrupted' = interrupted \ {m} /\ UNCHANGED chat
RescueSave == /\ At("rescue") /\ Goto("rescued") /\ Rescued(turn.msg)
              /\ UNCHANGED <<rest, pending, registry, log, detached>>
RescueLog == /\ At("rescued") /\ Goto("over") /\ log' = [log EXCEPT ![turn.msg] = "ended"]
             /\ registry' = "none"
             /\ UNCHANGED <<rest, pending, chat, detached, interrupted>>
Detached(d) ==
    /\ d \in detached
    /\ \/ /\ d[2] = "rescue" /\ Rescued(d[1]) /\ UNCHANGED log
          /\ detached' = (detached \ {d}) \cup {<<d[1], "rescued">>}
       \/ /\ d[2] = "rescued" /\ log' = [log EXCEPT ![d[1]] = "ended"]
          /\ detached' = detached \ {d} /\ UNCHANGED <<chat, interrupted>>
    /\ UNCHANGED <<rest, turn, pending, registry>>

-----------------------------------------------------------------------------
(* shutdown: a turn that already winds down is not cancelled a second time.    *)
Shutdown ==
    /\ phase = "open" /\ phase' = "closing" /\ spawned' = {}
    /\ IF consumer = "none" \/ turn.cancelled THEN UNCHANGED <<ccut, turn>>
       ELSE ccut' = TRUE /\ turn' = Cut(turn)
    /\ UNCHANGED <<seen, accepted, queue, consumer, begun, dropped, marks, lives, work,
                   stopped>>
Drained == consumer \in {"none", "dead"}
Closed ==
    /\ phase = "closing" /\ Drained /\ phase' = "closed"
    /\ queue' = <<>> /\ dropped' = dropped \cup ToSet(queue)
    /\ consumer' = (IF consumer = "dead" THEN "none" ELSE consumer) /\ ccut' = FALSE
    /\ UNCHANGED <<chan, begun, turn, marks, lives, work, stopped>>
Restart == /\ phase = "closed" /\ lives <= Restarts /\ phase' = "open" /\ lives' = lives + 1
           /\ UNCHANGED <<chan, cons, turn, marks, work, stopped>>

-----------------------------------------------------------------------------
TurnStep == \/ Answered \/ Drive \/ PrepareFails \/ SaveUser \/ NoteTask \/ OpenCard
            \/ AgentDone \/ AgentFails \/ FailureTold \/ CloseCard \/ LogDone
            \/ Unwind \/ RolledBack \/ RollbackFails \/ RescueSave \/ RescueLog
ConsumerStep == Take \/ TurnOver \/ CancelledWait
HandlerStep == \E e \in Event : HandleStop(e) \/ HandleRecall(e)
PNext == \/ \E e \in Event : Submit(e)
         \/ \E m \in Msgs : MarkExpires(m)
         \/ \E d \in Msgs \X {"rescue", "rescued"} : Detached(d)
         \/ TurnStep \/ ConsumerStep \/ HandlerStep \/ AgentEvent \/ Idle
         \/ Shutdown \/ Closed \/ Restart
PSpec == PInit /\ [][PNext]_pvars

(* The event loop runs every task that can run; agents and stores answer.      *)
PFairness == /\ WF_pvars(TurnStep) /\ WF_pvars(ConsumerStep) /\ WF_pvars(HandlerStep)
             /\ WF_pvars(Closed)
PFairSpec == PSpec /\ PFairness

-----------------------------------------------------------------------------
(* Messages are driven in the order they were queued, and each at most once,   *)
(* through redeliveries, idle reclaims of the queue, stops and restarts.       *)
TurnsInOrder ==
    /\ \A i, j \in DOMAIN begun : i < j =>
          \E a, b \in DOMAIN accepted : a < b /\ accepted[a] = begun[i] /\ accepted[b] = begun[j]
    /\ \A i, j \in DOMAIN begun : i # j => begun[i] # begun[j]

(* When a /stop has run, everything queued before it is cancelled or dropped.  *)
StopTakesAll == turn # NoTurn /\ turn.msg \in stopped => turn.cancelled \/ turn.pc = "over"

(* A recall stops its message wherever it is: on its way, in the queue, or     *)
(* answered at this moment.                                                    *)
RecallHolds == turn # NoTurn /\ marks[turn.msg] = "held" => turn.cancelled \/ turn.pc = "over"

(* A cancelled turn never costs the chat its consumer: what is queued in an    *)
(* open pipeline has one.                                                      *)
ConsumerLives == phase = "open" => /\ consumer # "dead" /\ ~ccut
                                   /\ (queue # <<>> => consumer # "none")

(* After shutdown no turn uses the tools and the adapter that are closed next. *)
ShutdownDrains == phase = "closed" => turn = NoTurn /\ queue = <<>> /\ spawned = {}

(* An agent interrupted at work leaves what it had said in the session: it is  *)
(* there, or the turn or a finalization that nothing can cancel will write it, *)
(* through any number of later stops.  Only a store that fails, or a second    *)
(* cancellation that meets the rollback, takes it away.                        *)
InterruptedIsKept == \A m \in interrupted :
    \/ <<"answer", m>> \in ToSet(chat) \/ <<m, "rescue">> \in detached
    \/ turn.msg = m /\ turn.pc \in {"rollback", "rescue"}

(* What the queue of a chat promises: each message in its turn and once, never *)
(* after a /stop or its recall, always by a consumer, never past shutdown, and *)
(* what an interrupted agent had said is kept.                                 *)
QueueSafe == TurnsInOrder /\ StopTakesAll /\ RecallHolds /\ ConsumerLives /\ ShutdownDrains
             /\ InterruptedIsKept

(* Every queued message is driven some day, unless it was taken off the queue. *)
NoneForgotten == \A m \in Msgs :
    (m \in ToSet(accepted)) ~> (m \in ToSet(begun) \/ m \in dropped)

-----------------------------------------------------------------------------
(* What the documentation says and the code does not keep.                     *)

(* The chat's messages are answered one after another: the answer to one is in *)
(* the session before the next is asked.  A second /stop during the            *)
(* finalization detaches it, and it writes after the next turn has begun.      *)
OneAtATime == \A i \in DOMAIN chat : \A m \in interrupted :
    chat[i] = <<"user", m>> => \A j \in DOMAIN chat :
        chat[j] = <<"answer", m>> => \A k \in i + 1 .. j - 1 : chat[k][1] # "user"

(* A chat without a turn has no running task in the registry.                  *)
RegistryFollows == turn = NoTurn => registry = "none"

(* A replay that has begun gets an end.                                        *)
ReplayEnds == \A m \in Msgs : log[m] = "open" =>
    turn.msg = m \/ \E d \in detached : d[1] = m
(* An interrupted turn is finalized: the rollback before it is not shielded,   *)
(* and a second /stop, or the shutdown, that meets it skips all of it.         *)
FinalizationRuns == [][turn.pc = "rollback" /\ turn'.pc # "rollback" => turn'.pc = "rescue"]_pvars
(* A file waits for the text that follows it, and is kept with that message.   *)
AttachmentKept == [][turn.pc = "prepare" /\ turn'.pc # "prepare" =>
                     turn.files = {} \/ turn'.pc = "saved"]_pvars
=============================================================================
