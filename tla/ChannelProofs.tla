---------------------------- MODULE ChannelProofs ----------------------------
(* Theorems about the parts of a channel, for every set of messages, chats and *)
(* senders and every bound: what the queue of a chat promises, what the card   *)
(* of a reply shows, how a pet follows the tasks, whom a connection serves.    *)
EXTENDS MCChannels, TLAPS

-----------------------------------------------------------------------------
(* The inductive invariant of ChannelPipeline.                                 *)

(* One message comes before another.                                           *)
Before(s, m, n) == \E a, b \in DOMAIN s : a < b /\ s[a] = m /\ s[b] = n

(* What was queued was recognised as new, hence is queued once.                *)
QueuedOnce ==
    /\ accepted \in Seq(Msgs)
    /\ \A a \in DOMAIN accepted : <<"message", accepted[a]>> \in seen
    /\ \A a, b \in DOMAIN accepted : a # b => accepted[a] # accepted[b]

(* What was begun and what still waits, one after the other, are in the order  *)
(* in which they were queued: there may be gaps, of what was taken off.        *)
InLine ==
    /\ begun \in Seq(Msgs)
    /\ \A i \in DOMAIN begun : begun[i] \in ToSet(accepted)
    /\ \A j \in DOMAIN queue : queue[j] \in ToSet(accepted)
    /\ \A i, j \in DOMAIN begun : i < j => Before(accepted, begun[i], begun[j])
    /\ \A i \in DOMAIN begun, j \in DOMAIN queue : Before(accepted, begun[i], queue[j])
    /\ \A i, j \in DOMAIN queue : i < j => Before(accepted, queue[i], queue[j])

(* A /stop leaves nothing of what was queued before it.                        *)
NoneStopped ==
    /\ stopped \subseteq ToSet(accepted)
    /\ \A j \in DOMAIN queue : queue[j] \notin stopped

(* A pipeline that closes starts no task; a closed one has no consumer.        *)
Winding ==
    /\ phase # "open" => spawned = {}
    /\ phase = "closed" => consumer = "none" /\ ~ccut /\ queue = <<>>

QueueInv == /\ PTypeOK /\ QueuedOnce /\ InLine /\ NoneStopped /\ Winding
            /\ StopTakesAll /\ RecallHolds /\ ConsumerLives /\ InterruptedIsKept

-----------------------------------------------------------------------------
(* Sequences.                                                                  *)

LEMMA LastAppended ==
  ASSUME NEW S, NEW s \in Seq(S), NEW e \in S
  PROVE  /\ Append(s, e) \in Seq(S) /\ DOMAIN Append(s, e) = 1 .. Len(s) + 1
         /\ DOMAIN s = 1 .. Len(s) /\ Len(s) \in Nat
         /\ \A i \in 1 .. Len(s) : Append(s, e)[i] = s[i]
         /\ Append(s, e)[Len(s) + 1] = e
  OBVIOUS

LEMMA FirstTaken ==
  ASSUME NEW S, NEW s \in Seq(S), s # <<>>
  PROVE  /\ Tail(s) \in Seq(S) /\ DOMAIN Tail(s) = 1 .. Len(s) - 1
         /\ DOMAIN s = 1 .. Len(s) /\ Len(s) \in Nat \ {0}
         /\ Head(s) = s[1] /\ Head(s) \in S
         /\ \A i \in 1 .. Len(s) - 1 : Tail(s)[i] = s[i + 1] /\ i + 1 \in 1 .. Len(s)
  OBVIOUS

LEMMA MemberOf ==
  ASSUME NEW S, NEW s \in Seq(S), NEW x
  PROVE  x \in ToSet(s) <=> \E i \in DOMAIN s : s[i] = x
  BY DEF ToSet

LEMMA AppendedSet ==
  ASSUME NEW S, NEW s \in Seq(S), NEW e \in S
  PROVE  ToSet(Append(s, e)) = ToSet(s) \cup {e}
<1>1. ASSUME NEW x \in ToSet(Append(s, e)) PROVE x \in ToSet(s) \cup {e}
  <2>1. PICK i \in DOMAIN Append(s, e) : Append(s, e)[i] = x
    BY <1>1 DEF ToSet
  <2>2. CASE i \in 1 .. Len(s)
    BY <2>1, <2>2, LastAppended DEF ToSet
  <2>3. CASE i = Len(s) + 1
    BY <2>1, <2>3, LastAppended
  <2> QED
    BY <2>1, <2>2, <2>3, LastAppended
<1>2. ASSUME NEW x \in ToSet(s) PROVE x \in ToSet(Append(s, e))
  <2>1. PICK i \in DOMAIN s : s[i] = x
    BY <1>2 DEF ToSet
  <2>2. i \in DOMAIN Append(s, e) /\ Append(s, e)[i] = x
    BY <2>1, LastAppended
  <2> QED
    BY <2>2 DEF ToSet
<1>3. e \in ToSet(Append(s, e))
  <2>1. Len(s) + 1 \in DOMAIN Append(s, e) /\ Append(s, e)[Len(s) + 1] = e
    BY LastAppended
  <2> QED
    BY <2>1 DEF ToSet
<1> QED
  BY <1>1, <1>2, <1>3

-----------------------------------------------------------------------------
(* Type correctness.                                                           *)

LEMMA InitialQueue == PInit => QueueInv
<1> SUFFICES ASSUME PInit PROVE QueueInv
  OBVIOUS
<1>1. PTypeOK
  <2>1. marks \in [Msgs -> {"none", "held", "expired"}] /\ log \in [Msgs -> {"none", "open", "ended"}]
    BY DEF PInit
  <2>2. lives \in 1 .. Restarts + 1
    BY PipelineAssumption DEF PInit
  <2>3. queue \in Seq(Msgs) /\ chat \in Seq({"user", "answer"} \X Msgs)
    BY DEF PInit
  <2> QED
    BY <2>1, <2>2, <2>3 DEF PInit, PTypeOK
<1>2. QueuedOnce /\ InLine /\ NoneStopped
  BY DEF PInit, QueuedOnce, InLine, NoneStopped
<1>3. Winding /\ ConsumerLives
  BY DEF PInit, Winding, ConsumerLives
<1>4. StopTakesAll /\ RecallHolds /\ InterruptedIsKept
  BY DEF PInit, StopTakesAll, RecallHolds, InterruptedIsKept
<1> QED
  BY <1>1, <1>2, <1>3, <1>4 DEF QueueInv

LEMMA TurnTypes ==
  ASSUME PTypeOK
  PROVE  /\ NoTurn \notin Turn
         /\ turn # NoTurn => turn \in Turn /\ turn.msg \in Msgs
         /\ Cut(turn) \in Turn \cup {NoTurn} /\ (Cut(turn) = NoTurn <=> turn = NoTurn)
         /\ Cut(turn).msg = turn.msg /\ Cut(turn).pc = turn.pc /\ Cut(turn).files = turn.files
         /\ Cut(turn).cancelled \/ Cut(turn).pc = "over"
         /\ \A m \in Msgs : Started(m) \in Turn /\ Started(m).msg = m
<1>1. NoTurn \notin Turn /\ NoTurn.pc = "over"
  BY PipelineAssumption DEF NoTurn, Turn
<1>2. turn # NoTurn => turn \in Turn /\ turn.msg \in Msgs
  BY DEF PTypeOK, Turn
<1>3. CASE turn.pc = "over"
  BY <1>1, <1>2, <1>3 DEF Cut, PTypeOK, Started, Turn
<1>4. CASE turn.pc # "over"
  <2>1. turn \in Turn
    BY <1>1, <1>4 DEF PTypeOK
  <2>2. Cut(turn) = [turn EXCEPT !.cut = TRUE, !.cancelled = TRUE]
    BY <1>4 DEF Cut
  <2> QED
    BY <1>1, <1>2, <2>1, <2>2 DEF Started, Turn
<1> QED
  BY <1>3, <1>4

Pc == {"resolve", "prepare", "saved", "noted", "agent", "closing", "after", "failing",
       "rollback", "rescue", "rescued", "over"}

LEMMA Moved ==
  ASSUME PTypeOK, NEW pc \in Pc, consumer = "turn", Goto(pc)
  PROVE  /\ turn' \in Turn /\ turn' # NoTurn
         /\ turn'.msg = turn.msg /\ turn'.cancelled = turn.cancelled /\ turn'.pc = pc
         /\ turn.msg \in Msgs
<1>1. turn \in Turn /\ turn # NoTurn /\ turn.msg \in Msgs
  BY TurnTypes DEF PTypeOK
<1>2. turn' = [turn EXCEPT !.pc = pc]
  BY DEF Goto
<1>3. turn' \in Turn /\ turn'.msg = turn.msg /\ turn'.cancelled = turn.cancelled /\ turn'.pc = pc
  BY <1>1, <1>2 DEF Turn, Pc
<1> QED
  BY <1>1, <1>3, TurnTypes

LEMMA SaidGrows ==
  ASSUME PTypeOK, NEW who \in {"user", "answer"}, NEW m \in Msgs
  PROVE  /\ Said(who, m) \in Seq({"user", "answer"} \X Msgs)
         /\ ToSet(Said(who, m)) = ToSet(chat) \cup {<<who, m>>}
<1> DEFINE Lines == {"user", "answer"} \X Msgs
<1>1. chat \in Seq(Lines) /\ <<who, m>> \in Lines
  BY DEF PTypeOK
<1> HIDE DEF Lines
<1>2. CASE <<who, m>> \in ToSet(chat)
  BY <1>1, <1>2 DEF Said, Lines
<1>3. CASE <<who, m>> \notin ToSet(chat)
  <2>1. Said(who, m) = Append(chat, <<who, m>>)
    BY <1>3 DEF Said
  <2>2. Append(chat, <<who, m>>) \in Seq(Lines)
    BY <1>1, LastAppended
  <2>3. ToSet(Append(chat, <<who, m>>)) = ToSet(chat) \cup {<<who, m>>}
    BY <1>1, AppendedSet
  <2> QED
    BY <2>1, <2>2, <2>3 DEF Lines
<1> QED
  BY <1>2, <1>3

LEMMA TypesStep ==
  ASSUME PTypeOK, [PNext]_pvars
  PROVE  PTypeOK'
<1> USE DEF chan, cons, work, rest, At
<1>1. ASSUME NEW e \in Event, Submit(e) PROVE PTypeOK'
  <2>1. CASE phase # "open" \/ Dup(e)
    BY <1>1, <2>1 DEF Submit, PTypeOK
  <2>2. CASE ~(phase # "open" \/ Dup(e)) /\ e[1] = "message"
    <3>1. e[2] \in Msgs
      BY <2>2 DEF Event
    <3>2. queue' \in Seq(Msgs)
      <4>1. queue' = Append(queue, e[2])
        BY <1>1, <2>2 DEF Submit
      <4>2. queue \in Seq(Msgs)
        BY DEF PTypeOK
      <4> QED
        BY <3>1, <4>1, <4>2, LastAppended
    <3>3. consumer' = IF consumer = "none" THEN "wait" ELSE consumer
      BY <1>1, <2>2 DEF Submit
    <3> QED
      BY <1>1, <2>2, <3>2, <3>3 DEF Submit, PTypeOK
  <2>3. CASE ~(phase # "open" \/ Dup(e)) /\ e[1] # "message"
    BY <1>1, <2>3 DEF Submit, PTypeOK
  <2> QED
    BY <2>1, <2>2, <2>3
<1>2. ASSUME NEW m \in Msgs, MarkExpires(m) PROVE PTypeOK'
  BY <1>2 DEF MarkExpires, PTypeOK
<1>3. ASSUME NEW d \in Msgs \X {"rescue", "rescued"}, Detached(d) PROVE PTypeOK'
  <2>1. d[1] \in Msgs
    OBVIOUS
  <2>2. chat' \in Seq({"user", "answer"} \X Msgs)
    BY <1>3, <2>1, SaidGrows DEF Detached, Rescued, PTypeOK
  <2>3. log' \in [Msgs -> {"none", "open", "ended"}]
    BY <1>3, <2>1 DEF Detached, PTypeOK
  <2>4. detached' \subseteq Msgs \X {"rescue", "rescued"}
    BY <1>3, <2>1 DEF Detached, PTypeOK
  <2> QED
    BY <1>3, <2>2, <2>3, <2>4 DEF Detached, PTypeOK
<1>4. ASSUME TurnStep PROVE PTypeOK'
  <2> USE DEF Pc
  <2>1. CASE Answered
    <3>1. turn' \in Turn /\ turn' # NoTurn /\ turn.msg \in Msgs
      BY <2>1, Moved DEF Answered
    <3> QED
      BY <2>1, <3>1 DEF Answered, PTypeOK
  <2>2. CASE Drive
    <3>1. turn \in Turn
      BY <2>2 DEF Drive, PTypeOK
    <3>2. turn' \in Turn
      BY <2>2, <3>1 DEF Drive, Turn, PTypeOK
    <3> QED
      BY <2>2, <3>2, TurnTypes DEF Drive, PTypeOK
  <2>3. CASE PrepareFails
    <3>1. turn' \in Turn /\ turn' # NoTurn
      BY <2>3, Moved DEF PrepareFails
    <3> QED
      BY <2>3, <3>1 DEF PrepareFails, PTypeOK
  <2>4. CASE SaveUser
    <3>1. turn' \in Turn /\ turn' # NoTurn /\ turn.msg \in Msgs
      BY <2>4, Moved DEF SaveUser
    <3>2. chat' \in Seq({"user", "answer"} \X Msgs)
      BY <2>4, <3>1, SaidGrows DEF SaveUser
    <3> QED
      BY <2>4, <3>1, <3>2 DEF SaveUser, PTypeOK
  <2>5. CASE NoteTask
    <3>1. turn' \in Turn /\ turn' # NoTurn /\ turn.msg \in Msgs
      BY <2>5, Moved DEF NoteTask
    <3> QED
      BY <2>5, <3>1 DEF NoteTask, PTypeOK
  <2>6. CASE OpenCard
    <3>1. turn' \in Turn /\ turn' # NoTurn
      BY <2>6, Moved DEF OpenCard
    <3> QED
      BY <2>6, <3>1 DEF OpenCard, PTypeOK
  <2>7. CASE AgentDone
    <3>1. turn' \in Turn /\ turn' # NoTurn /\ turn.msg \in Msgs
      BY <2>7, Moved DEF AgentDone
    <3>2. chat' \in Seq({"user", "answer"} \X Msgs)
      BY <2>7, <3>1, SaidGrows DEF AgentDone
    <3> QED
      BY <2>7, <3>1, <3>2 DEF AgentDone, PTypeOK
  <2>8. CASE FailureTold
    <3>1. turn' \in Turn /\ turn' # NoTurn /\ turn.msg \in Msgs
      BY <2>8, Moved DEF FailureTold
    <3>2. chat' \in Seq({"user", "answer"} \X Msgs)
      BY <2>8, <3>1, SaidGrows DEF FailureTold, PTypeOK
    <3>3. log' \in [Msgs -> {"none", "open", "ended"}]
      BY <2>8, <3>1 DEF FailureTold, PTypeOK
    <3> QED
      BY <2>8, <3>1, <3>2, <3>3 DEF FailureTold, PTypeOK
  <2>9. CASE CloseCard
    <3>1. turn' \in Turn /\ turn' # NoTurn
      BY <2>9, Moved DEF CloseCard
    <3> QED
      BY <2>9, <3>1 DEF CloseCard, PTypeOK
  <2>10. CASE LogDone
    <3>1. turn' \in Turn /\ turn' # NoTurn /\ turn.msg \in Msgs
      BY <2>10, Moved DEF LogDone
    <3>2. log' \in [Msgs -> {"none", "open", "ended"}]
      BY <2>10, <3>1 DEF LogDone, PTypeOK
    <3> QED
      BY <2>10, <3>1, <3>2 DEF LogDone, PTypeOK
  <2>11. CASE Unwind
    <3>1. turn \in Turn /\ turn.msg \in Msgs
      BY <2>11, TurnTypes DEF Unwind, PTypeOK
    <3>2. turn' \in Turn
      BY <2>11, <3>1 DEF Unwind, Into, Turn
    <3>3. detached' \subseteq Msgs \X {"rescue", "rescued"} /\ registry' \in Msgs \cup {"none"}
      BY <2>11, <3>1 DEF Unwind, Shielded, PTypeOK
    <3>4. chat' \in Seq({"user", "answer"} \X Msgs)
      BY <2>11, <3>1, SaidGrows DEF Unwind, PTypeOK
    <3> QED
      BY <2>11, <3>2, <3>3, <3>4, TurnTypes DEF Unwind, PTypeOK
  <2>12. CASE RescueSave
    <3>1. turn' \in Turn /\ turn' # NoTurn /\ turn.msg \in Msgs
      BY <2>12, Moved DEF RescueSave
    <3>2. chat' \in Seq({"user", "answer"} \X Msgs)
      BY <2>12, <3>1, SaidGrows DEF RescueSave, Rescued, PTypeOK
    <3> QED
      BY <2>12, <3>1, <3>2 DEF RescueSave, PTypeOK
  <2>13. CASE RescueLog
    <3>1. turn' \in Turn /\ turn' # NoTurn /\ turn.msg \in Msgs
      BY <2>13, Moved DEF RescueLog
    <3>2. log' \in [Msgs -> {"none", "open", "ended"}]
      BY <2>13, <3>1 DEF RescueLog, PTypeOK
    <3> QED
      BY <2>13, <3>1, <3>2 DEF RescueLog, PTypeOK
  <2>14. CASE AgentFails \/ RolledBack
    <3>1. turn' \in Turn /\ turn' # NoTurn
      BY <2>14, Moved DEF AgentFails, RolledBack
    <3> QED
      BY <2>14, <3>1 DEF AgentFails, RolledBack, PTypeOK
  <2>15. CASE RollbackFails
    <3>1. turn' \in Turn /\ turn' # NoTurn
      BY <2>15, Moved DEF RollbackFails
    <3> QED
      BY <2>15, <3>1 DEF RollbackFails, PTypeOK
  <2> QED
    BY <1>4, <2>1, <2>2, <2>3, <2>4, <2>5, <2>6, <2>7, <2>8, <2>9, <2>10, <2>11, <2>12, <2>13, <2>14,
       <2>15
       DEF TurnStep
<1>5. CASE Take
  <2>1. Head(queue) \in Msgs /\ queue' \in Seq(Msgs)
    BY <1>5, FirstTaken DEF Take, PTypeOK
  <2>2. Started(Head(queue)) \in Turn /\ Started(Head(queue)) # NoTurn
    BY <2>1, TurnTypes
  <2> QED
    BY <1>5, <2>1, <2>2 DEF Take, PTypeOK
<1>6. CASE TurnOver \/ CancelledWait \/ Idle
  BY <1>6 DEF TurnOver, CancelledWait, Idle, PTypeOK
<1>7. ASSUME NEW e \in Event, HandleStop(e) PROVE PTypeOK'
  <2>1. queue' = <<>> /\ queue' \in Seq(Msgs)
    BY <1>7 DEF HandleStop, Cleared
  <2>2. turn' \in Turn \cup {NoTurn} /\ (turn' = NoTurn <=> turn = NoTurn)
    BY <1>7, TurnTypes DEF HandleStop
  <2> QED
    BY <1>7, <2>1, <2>2 DEF HandleStop, PTypeOK
<1>8. ASSUME NEW e \in Event, HandleRecall(e) PROVE PTypeOK'
  <2>1. e[2] \in Msgs
    BY <1>8 DEF HandleRecall, Event
  <2>2. turn' \in Turn \cup {NoTurn} /\ (turn' = NoTurn <=> turn = NoTurn)
    BY <1>8, TurnTypes DEF HandleRecall, PTypeOK
  <2> QED
    BY <1>8, <2>1, <2>2 DEF HandleRecall, PTypeOK
<1>9. CASE AgentEvent
  <2>1. turn.msg \in Msgs
    BY <1>9, TurnTypes DEF AgentEvent, PTypeOK
  <2>2. chat' \in Seq({"user", "answer"} \X Msgs)
    BY <1>9, <2>1, SaidGrows DEF AgentEvent, PTypeOK
  <2>3. log' \in [Msgs -> {"none", "open", "ended"}]
    BY <1>9, <2>1 DEF AgentEvent, PTypeOK
  <2> QED
    BY <1>9, <2>2, <2>3 DEF AgentEvent, PTypeOK
<1>10. CASE Shutdown
  <2>1. turn' \in Turn \cup {NoTurn} /\ (turn' = NoTurn <=> turn = NoTurn)
    BY <1>10, TurnTypes DEF Shutdown, PTypeOK
  <2> QED
    BY <1>10, <2>1 DEF Shutdown, PTypeOK
<1>11. CASE Closed
  <2>1. queue' = <<>> /\ queue' \in Seq(Msgs)
    BY <1>11 DEF Closed
  <2>2. consumer' = "none" /\ turn' = turn /\ turn = NoTurn
    BY <1>11 DEF Closed, Drained, PTypeOK
  <2> QED
    BY <1>11, <2>1, <2>2 DEF Closed, PTypeOK
<1>12. CASE Restart
  BY <1>12, PipelineAssumption DEF Restart, PTypeOK
<1>13. CASE UNCHANGED pvars
  BY <1>13 DEF pvars, PTypeOK
<1> QED
  BY <1>1, <1>2, <1>3, <1>4, <1>5, <1>6, <1>7, <1>8, <1>9, <1>10, <1>11, <1>12, <1>13
     DEF PNext, ConsumerStep, HandlerStep

-----------------------------------------------------------------------------
(* The queue: what is begun and what waits, in the order it was queued.        *)

lines == <<accepted, begun, queue, seen, stopped>>

(* Every step but these leaves the lines alone.                                *)
LEMMA LinesMove ==
  ASSUME [PNext]_pvars
  PROVE  \/ UNCHANGED lines
         \/ \E e \in Event : Submit(e) \/ HandleStop(e)
         \/ Take \/ Closed
<1> USE DEF chan, cons, work, rest, lines
<1>1. CASE TurnStep
  BY <1>1 DEF TurnStep, Answered, Drive, PrepareFails, SaveUser, NoteTask, OpenCard, AgentDone,
              AgentFails, FailureTold, CloseCard, LogDone, Unwind, RolledBack, RollbackFails,
              RescueSave, RescueLog
<1>2. CASE TurnOver \/ CancelledWait \/ Idle \/ AgentEvent \/ Shutdown \/ Restart
  BY <1>2 DEF TurnOver, CancelledWait, Idle, AgentEvent, Shutdown, Restart
<1>3. CASE \/ \E m \in Msgs : MarkExpires(m)
           \/ \E d \in Msgs \X {"rescue", "rescued"} : Detached(d)
           \/ \E e \in Event : HandleRecall(e)
  BY <1>3 DEF MarkExpires, Detached, HandleRecall
<1>4. CASE UNCHANGED pvars
  BY <1>4 DEF pvars
<1> QED
  BY <1>1, <1>2, <1>3, <1>4 DEF PNext, ConsumerStep, HandlerStep

(* A message queued comes after all that were queued before.                   *)
LEMMA QueuedLast ==
  ASSUME QueuedOnce, NEW m \in Msgs, accepted' = Append(accepted, m)
  PROVE  /\ \A x, y : Before(accepted, x, y) => Before(accepted', x, y)
         /\ \A x \in ToSet(accepted) : Before(accepted', x, m)
         /\ accepted' \in Seq(Msgs) /\ ToSet(accepted)' = ToSet(accepted) \cup {m}
<1>1. accepted \in Seq(Msgs)
  BY DEF QueuedOnce
<1>2. /\ accepted' \in Seq(Msgs) /\ DOMAIN accepted' = 1 .. Len(accepted) + 1
      /\ DOMAIN accepted = 1 .. Len(accepted) /\ Len(accepted) \in Nat
      /\ \A i \in 1 .. Len(accepted) : accepted'[i] = accepted[i]
      /\ accepted'[Len(accepted) + 1] = m
  BY <1>1, LastAppended
<1>3. ASSUME NEW x, NEW y, Before(accepted, x, y) PROVE Before(accepted', x, y)
  <2>1. PICK a, b \in DOMAIN accepted : a < b /\ accepted[a] = x /\ accepted[b] = y
    BY <1>3 DEF Before
  <2>2. a \in DOMAIN accepted' /\ b \in DOMAIN accepted' /\ a < b /\ accepted'[a] = x /\ accepted'[b] = y
    BY <1>2, <2>1
  <2> QED
    BY <2>2 DEF Before
<1>4. ASSUME NEW x \in ToSet(accepted) PROVE Before(accepted', x, m)
  <2>1. PICK a \in DOMAIN accepted : accepted[a] = x
    BY <1>1, <1>4, MemberOf
  <2>2. /\ a \in DOMAIN accepted' /\ Len(accepted) + 1 \in DOMAIN accepted'
        /\ a < Len(accepted) + 1 /\ accepted'[a] = x
    BY <1>2, <2>1
  <2> QED
    BY <1>2, <2>2 DEF Before
<1>5. ToSet(accepted') = ToSet(accepted) \cup {m}
  BY <1>1, AppendedSet
<1> QED
  BY <1>2, <1>3, <1>4, <1>5

Ordered == QueuedOnce /\ InLine /\ NoneStopped

LEMMA Emptied ==
  ASSUME Ordered, queue' = <<>>, UNCHANGED <<accepted, begun, seen>>,
         stopped' \subseteq ToSet(accepted)
  PROVE  Ordered'
<1>2. QueuedOnce'
  BY DEF Ordered, QueuedOnce
<1>3. InLine'
  BY DEF Ordered, InLine
<1>4. NoneStopped'
  BY DEF NoneStopped
<1> QED
  BY <1>2, <1>3, <1>4 DEF Ordered

LEMMA QueueStep ==
  ASSUME PTypeOK, Ordered, [PNext]_pvars
  PROVE  Ordered'
<1> USE DEF chan, cons, work
<1>0. queue \in Seq(Msgs) /\ accepted \in Seq(Msgs) /\ begun \in Seq(Msgs)
  BY DEF PTypeOK, Ordered, QueuedOnce, InLine
<1>1. CASE UNCHANGED lines
  BY <1>1 DEF lines, Ordered, QueuedOnce, InLine, NoneStopped
<1>2. ASSUME NEW e \in Event, Submit(e) PROVE Ordered'
  <2>1. CASE UNCHANGED lines
    BY <1>1, <2>1
  <2>2. CASE /\ e[1] = "message" /\ e \notin seen /\ seen' = seen \cup {e}
             /\ queue' = Append(queue, e[2]) /\ accepted' = Append(accepted, e[2])
             /\ UNCHANGED <<begun, stopped>>
    <3> DEFINE m == e[2]
    <3>1. m \in Msgs /\ e = <<"message", m>>
      BY <2>2 DEF Event
    <3>2. m \notin ToSet(accepted)
      BY <1>0, <2>2, <3>1, MemberOf DEF Ordered, QueuedOnce
    <3>3. /\ accepted' \in Seq(Msgs) /\ DOMAIN accepted' = 1 .. Len(accepted) + 1
          /\ DOMAIN accepted = 1 .. Len(accepted) /\ Len(accepted) \in Nat
          /\ \A i \in 1 .. Len(accepted) : accepted'[i] = accepted[i]
          /\ accepted'[Len(accepted) + 1] = m
      BY <1>0, <2>2, <3>1, LastAppended
    <3>4. /\ queue' \in Seq(Msgs) /\ DOMAIN queue' = 1 .. Len(queue) + 1
          /\ DOMAIN queue = 1 .. Len(queue) /\ Len(queue) \in Nat
          /\ \A i \in 1 .. Len(queue) : queue'[i] = queue[i]
          /\ queue'[Len(queue) + 1] = m
      BY <1>0, <2>2, <3>1, LastAppended
    <3>5. /\ \A x, y : Before(accepted, x, y) => Before(accepted', x, y)
          /\ \A x \in ToSet(accepted) : Before(accepted', x, m)
          /\ ToSet(accepted)' = ToSet(accepted) \cup {m}
      BY <2>2, <3>1, QueuedLast DEF Ordered
    <3> HIDE DEF m
    <3>6. QueuedOnce'
      <4>1. \A a \in 1 .. Len(accepted) : accepted[a] # m
        BY <1>0, <3>2, <3>3, MemberOf
      <4>2. \A a \in DOMAIN accepted' : <<"message", accepted'[a]>> \in seen'
        <5> SUFFICES ASSUME NEW a \in DOMAIN accepted' PROVE <<"message", accepted'[a]>> \in seen'
          OBVIOUS
        <5>1. CASE a \in 1 .. Len(accepted)
          BY <2>2, <3>3, <5>1 DEF Ordered, QueuedOnce
        <5>2. CASE a = Len(accepted) + 1
          BY <2>2, <3>1, <3>3, <5>2
        <5> QED
          BY <3>3, <5>1, <5>2
      <4>3. \A a, b \in DOMAIN accepted' : a # b => accepted'[a] # accepted'[b]
        BY <3>3, <4>1 DEF Ordered, QueuedOnce
      <4> QED
        BY <3>3, <4>2, <4>3 DEF QueuedOnce
    <3>7. InLine'
      <4>1. begun' = begun /\ begun \in Seq(Msgs)
        BY <1>0, <2>2
      <4>2. \A i \in DOMAIN begun : begun[i] \in ToSet(accepted) /\ begun[i] \in ToSet(accepted)'
        BY <3>5 DEF Ordered, InLine
      <4>3. \A j \in DOMAIN queue : queue[j] \in ToSet(accepted)
        BY DEF Ordered, InLine
      <4>4. \A j \in DOMAIN queue' : queue'[j] \in ToSet(accepted)'
        BY <3>4, <3>5, <4>3
      <4>5. \A i, j \in DOMAIN begun : i < j => Before(accepted', begun[i], begun[j])
        BY <3>5 DEF Ordered, InLine
      <4>6. ASSUME NEW i \in DOMAIN begun, NEW j \in DOMAIN queue' PROVE Before(accepted', begun[i], queue'[j])
        <5>1. CASE j \in DOMAIN queue
          <6>1. Before(accepted, begun[i], queue[j])
            BY <5>1 DEF Ordered, InLine
          <6>2. queue'[j] = queue[j]
            BY <3>4, <5>1
          <6>3. Before(accepted', begun[i], queue[j])
            BY <3>5, <6>1
          <6> QED
            BY <6>2, <6>3
        <5>2. CASE j = Len(queue) + 1
          <6>1. Before(accepted', begun[i], m)
            BY <3>5, <4>2
          <6> QED
            BY <3>4, <5>2, <6>1
        <5> QED
          BY <3>4, <5>1, <5>2
      <4>7. ASSUME NEW i \in DOMAIN queue', NEW j \in DOMAIN queue', i < j
            PROVE  Before(accepted', queue'[i], queue'[j])
        <5>1. i \in DOMAIN queue /\ queue'[i] = queue[i]
          BY <3>4, <4>7
        <5>2. CASE j \in DOMAIN queue
          <6>1. Before(accepted, queue[i], queue[j]) /\ queue'[j] = queue[j]
            BY <3>4, <4>7, <5>1, <5>2 DEF Ordered, InLine
          <6>2. Before(accepted', queue[i], queue[j])
            BY <3>5, <6>1
          <6> QED
            BY <5>1, <6>1, <6>2
        <5>3. CASE j = Len(queue) + 1
          <6>1. Before(accepted', queue[i], m)
            BY <3>5, <4>3, <5>1
          <6> QED
            BY <3>4, <5>1, <5>3, <6>1
        <5> QED
          BY <3>4, <5>2, <5>3
      <4> QED
        BY <4>1, <4>2, <4>4, <4>5, <4>6, <4>7 DEF InLine
    <3>8. NoneStopped'
      <4>1. m \notin stopped /\ stopped' = stopped /\ stopped' \subseteq ToSet(accepted)'
        BY <2>2, <3>2, <3>5 DEF Ordered, NoneStopped
      <4>2. \A j \in DOMAIN queue' : queue'[j] \notin stopped'
        BY <3>4, <4>1 DEF Ordered, NoneStopped
      <4> QED
        BY <4>1, <4>2 DEF NoneStopped
    <3> QED
      BY <3>6, <3>7, <3>8 DEF Ordered
  <2>3. CASE phase # "open" \/ Dup(e)
    <3>1. UNCHANGED lines
      BY <1>2, <2>3 DEF Submit, lines
    <3> QED
      BY <2>1, <3>1
  <2>5. CASE ~(phase # "open" \/ Dup(e)) /\ e[1] # "message"
    <3>1. seen' = seen \cup {e} /\ UNCHANGED <<accepted, begun, queue, stopped>>
      BY <1>2, <2>5 DEF Submit
    <3> QED
      BY <3>1 DEF Ordered, QueuedOnce, InLine, NoneStopped
  <2>4. CASE ~(phase # "open" \/ Dup(e)) /\ e[1] = "message"
    <3>1. /\ e \notin seen /\ seen' = seen \cup {e} /\ UNCHANGED <<begun, stopped>>
          /\ queue' = Append(queue, e[2]) /\ accepted' = Append(accepted, e[2])
      BY <1>2, <2>4 DEF Submit, Dup
    <3> QED
      BY <2>2, <2>4, <3>1
  <2> QED
    BY <2>3, <2>4, <2>5
<1>3. ASSUME NEW e \in Event, HandleStop(e) PROVE Ordered'
  <2>1. queue' = <<>> /\ stopped' \subseteq ToSet(accepted)
    BY <1>3 DEF HandleStop, Cleared, Ordered, NoneStopped
  <2> QED
    BY <1>3, <2>1, Emptied DEF HandleStop
<1>4. CASE Take
  <2> DEFINE m == Head(queue)
  <2>1. /\ queue' = Tail(queue) /\ UNCHANGED <<accepted, seen, stopped>>
        /\ begun' = begun \/ begun' = Append(begun, m)
    BY <1>4 DEF Take
  <2>2. /\ queue' \in Seq(Msgs) /\ DOMAIN queue' = 1 .. Len(queue) - 1
        /\ DOMAIN queue = 1 .. Len(queue) /\ Len(queue) \in Nat \ {0}
        /\ m = queue[1] /\ m \in Msgs
        /\ \A i \in 1 .. Len(queue) - 1 : queue'[i] = queue[i + 1] /\ i + 1 \in 1 .. Len(queue)
    BY <1>0, <1>4, FirstTaken DEF Take
  <2> HIDE DEF m
  <2>4. QueuedOnce' /\ NoneStopped'
    <3>1. QueuedOnce' /\ stopped' \subseteq ToSet(accepted)'
      BY <2>1 DEF Ordered, QueuedOnce, NoneStopped
    <3>2. \A j \in DOMAIN queue' : queue'[j] \notin stopped
      BY <2>2 DEF Ordered, NoneStopped
    <3> QED
      BY <2>1, <3>1, <3>2 DEF NoneStopped
  <2>5. /\ \A j \in DOMAIN queue' : queue'[j] \in ToSet(accepted)
        /\ \A i, j \in DOMAIN queue' : i < j => Before(accepted, queue'[i], queue'[j])
        /\ \A i \in DOMAIN begun, j \in DOMAIN queue' : Before(accepted, begun[i], queue'[j])
        /\ \A j \in DOMAIN queue' : Before(accepted, m, queue'[j])
        /\ \A i \in DOMAIN begun : Before(accepted, begun[i], m)
        /\ m \in ToSet(accepted)
    <3>1. 1 \in DOMAIN queue
      BY <2>2
    <3>2. \A i \in DOMAIN queue' : i + 1 \in DOMAIN queue /\ 1 < i + 1 /\ queue'[i] = queue[i + 1]
      BY <2>2
    <3>3. \A i, j \in DOMAIN queue' : i < j => i + 1 < j + 1
      BY <2>2
    <3> QED
      BY <2>2, <3>1, <3>2, <3>3 DEF Ordered, InLine
  <2>6. CASE begun' = begun
    BY <1>0, <2>1, <2>4, <2>5, <2>6 DEF Ordered, InLine
  <2>7. CASE begun' = Append(begun, m)
    <3>1. /\ begun' \in Seq(Msgs) /\ DOMAIN begun' = 1 .. Len(begun) + 1
          /\ DOMAIN begun = 1 .. Len(begun) /\ Len(begun) \in Nat
          /\ \A i \in 1 .. Len(begun) : begun'[i] = begun[i]
          /\ begun'[Len(begun) + 1] = m
      BY <1>0, <2>2, <2>7, LastAppended
    <3>2. \A i \in DOMAIN begun : begun[i] \in ToSet(accepted)
      BY DEF Ordered, InLine
    <3>3. \A i \in DOMAIN begun' : begun'[i] \in ToSet(accepted)
      BY <2>5, <3>1, <3>2
    <3>4. \A i, j \in DOMAIN begun : i < j => Before(accepted, begun[i], begun[j])
      BY DEF Ordered, InLine
    <3>5. \A i, j \in DOMAIN begun' : i < j => Before(accepted, begun'[i], begun'[j])
      <4> SUFFICES ASSUME NEW i \in DOMAIN begun', NEW j \in DOMAIN begun', i < j
                   PROVE  Before(accepted, begun'[i], begun'[j])
        OBVIOUS
      <4>1. i \in DOMAIN begun /\ begun'[i] = begun[i]
        BY <3>1
      <4>2. CASE j \in DOMAIN begun
        BY <3>1, <3>4, <4>1, <4>2
      <4>3. CASE j = Len(begun) + 1
        BY <2>5, <3>1, <4>1, <4>3
      <4> QED
        BY <3>1, <4>2, <4>3
    <3>6. \A i \in DOMAIN begun', j \in DOMAIN queue' : Before(accepted, begun'[i], queue'[j])
      BY <2>5, <3>1
    <3>7. InLine'
      BY <2>1, <2>5, <3>1, <3>3, <3>5, <3>6 DEF InLine
    <3> QED
      BY <2>4, <3>7 DEF Ordered
  <2> QED
    BY <2>1, <2>4, <2>6, <2>7 DEF Ordered
<1>5. CASE Closed
  <2>1. queue' = <<>> /\ stopped' \subseteq ToSet(accepted)
    BY <1>5 DEF Closed, Ordered, NoneStopped
  <2> QED
    BY <1>5, <2>1, Emptied DEF Closed
<1> QED
  BY <1>1, <1>2, <1>3, <1>4, <1>5, LinesMove
-----------------------------------------------------------------------------
(* The life of the pipeline.                                                   *)

LEMMA WindingStep ==
  ASSUME PTypeOK, Winding, ConsumerLives, [PNext]_pvars
  PROVE  Winding' /\ ConsumerLives'
<1> USE DEF chan, cons, work, rest, Winding, ConsumerLives
<1>1. CASE UNCHANGED <<phase, spawned, consumer, ccut, queue>>
  BY <1>1
<1>2. ASSUME NEW e \in Event, Submit(e) PROVE Winding' /\ ConsumerLives'
  <2>1. CASE phase # "open" \/ Dup(e)
    BY <1>2, <2>1 DEF Submit
  <2>2. CASE ~(phase # "open" \/ Dup(e)) /\ e[1] = "message"
    <3>1. /\ phase = "open" /\ UNCHANGED <<phase, ccut>>
          /\ consumer' = IF consumer = "none" THEN "wait" ELSE consumer
      BY <1>2, <2>2 DEF Submit
    <3> QED
      BY <3>1
  <2>3. CASE ~(phase # "open" \/ Dup(e)) /\ e[1] # "message"
    BY <1>2, <2>3 DEF Submit
  <2> QED
    BY <2>1, <2>2, <2>3
<1>3. ASSUME NEW e \in Event, HandleStop(e) \/ HandleRecall(e) PROVE Winding' /\ ConsumerLives'
  BY <1>3 DEF HandleStop, HandleRecall, Cleared
<1>4. CASE Take
  BY <1>4 DEF Take
<1>5. CASE TurnOver \/ CancelledWait \/ Idle
  BY <1>5 DEF TurnOver, Dies, CancelledWait, Idle
<1>6. CASE Shutdown
  BY <1>6 DEF Shutdown
<1>7. CASE Closed
  BY <1>7 DEF Closed, Drained
<1>8. CASE Restart
  BY <1>8 DEF Restart
<1>9. CASE TurnStep
  BY <1>1, <1>9 DEF TurnStep, Answered, Drive, PrepareFails, SaveUser, NoteTask, OpenCard, AgentDone,
              AgentFails, FailureTold, CloseCard, LogDone, Unwind, RolledBack, RollbackFails,
              RescueSave, RescueLog
<1>10. CASE AgentEvent
  BY <1>1, <1>10 DEF AgentEvent
<1>11. ASSUME NEW m \in Msgs, MarkExpires(m) PROVE Winding' /\ ConsumerLives'
  BY <1>1, <1>11 DEF MarkExpires
<1>12. ASSUME NEW d \in Msgs \X {"rescue", "rescued"}, Detached(d) PROVE Winding' /\ ConsumerLives'
  BY <1>1, <1>12 DEF Detached
<1>13. CASE UNCHANGED pvars
  BY <1>1, <1>13 DEF pvars
<1> QED
  BY <1>2, <1>3, <1>4, <1>5, <1>6, <1>7, <1>8, <1>9, <1>10, <1>11, <1>12, <1>13
     DEF PNext, ConsumerStep, HandlerStep

-----------------------------------------------------------------------------
(* The turn.                                                                   *)

LEMMA TurnContinues ==
  ASSUME PTypeOK, TurnStep
  PROVE  /\ turn # NoTurn /\ turn'.msg = turn.msg /\ turn'.cancelled = turn.cancelled
         /\ turn.pc # "over"
         /\ UNCHANGED rest
<1> USE DEF Pc, At
<1>1. CASE Answered \/ PrepareFails \/ SaveUser \/ NoteTask \/ OpenCard \/ AgentDone
           \/ AgentFails \/ FailureTold \/ CloseCard \/ LogDone \/ RolledBack \/ RollbackFails
           \/ RescueSave \/ RescueLog
  <2>1. consumer = "turn" /\ turn.pc # "over" /\ \E pc \in Pc : Goto(pc)
    BY <1>1 DEF Answered, PrepareFails, SaveUser, NoteTask, OpenCard, AgentDone, AgentFails,
                FailureTold, CloseCard, LogDone, RolledBack, RollbackFails, RescueSave, RescueLog
  <2>2. UNCHANGED rest
    BY <1>1 DEF Answered, PrepareFails, SaveUser, NoteTask, OpenCard, AgentDone, AgentFails,
                FailureTold, CloseCard, LogDone, RolledBack, RollbackFails, RescueSave, RescueLog
  <2>3. turn # NoTurn
    BY <2>1 DEF PTypeOK
  <2> QED
    BY <2>1, <2>2, <2>3, Moved
<1>3. CASE Drive \/ Unwind
  <2>1. turn \in Turn /\ turn # NoTurn
    BY <1>3, TurnTypes DEF Drive, Unwind, PTypeOK
  <2> QED
    BY <1>3, <2>1 DEF Drive, Unwind, Into, Turn
<1> QED
  BY <1>1, <1>3 DEF TurnStep

LEMMA CancelsStep ==
  ASSUME PTypeOK, Ordered, StopTakesAll, RecallHolds, [PNext]_pvars
  PROVE  StopTakesAll' /\ RecallHolds'
<1> USE DEF chan, cons, work, rest, StopTakesAll, RecallHolds
<1>1. CASE UNCHANGED <<turn, stopped, marks>>
  BY <1>1
<1>2. ASSUME NEW e \in Event, HandleStop(e) PROVE StopTakesAll' /\ RecallHolds'
  BY <1>2, TurnTypes DEF HandleStop
<1>3. ASSUME NEW e \in Event, HandleRecall(e) PROVE StopTakesAll' /\ RecallHolds'
  <2>1. /\ e[2] \in Msgs /\ marks' = [marks EXCEPT ![e[2]] = "held"] /\ stopped' = stopped
        /\ turn' = IF turn.msg = e[2] THEN Cut(turn) ELSE turn
    BY <1>3 DEF HandleRecall, Event, Triggered
  <2>2. CASE turn.msg = e[2]
    BY <2>1, <2>2, TurnTypes
  <2>3. CASE turn.msg # e[2]
    <3>1. turn' = turn /\ (turn # NoTurn => marks'[turn.msg] = marks[turn.msg])
      BY <2>1, <2>3, TurnTypes DEF PTypeOK
    <3> QED
      BY <2>1, <3>1
  <2> QED
    BY <2>2, <2>3
<1>4. ASSUME NEW m \in Msgs, MarkExpires(m) PROVE StopTakesAll' /\ RecallHolds'
  <2>1. turn' = turn /\ stopped' = stopped /\ marks' = [marks EXCEPT ![m] = "expired"]
    BY <1>4 DEF MarkExpires
  <2>2. turn # NoTurn /\ marks'[turn.msg] = "held" => marks[turn.msg] = "held"
    BY <2>1, TurnTypes DEF PTypeOK
  <2> QED
    BY <2>1, <2>2
<1>5. CASE Take
  <2>1. marks' = marks /\ stopped' = stopped
    BY <1>5 DEF Take
  <2>2. CASE UNCHANGED turn
    BY <2>1, <2>2
  <2>3. CASE turn' = Started(Head(queue)) /\ marks[Head(queue)] # "held"
    <3>1. 1 \in DOMAIN queue /\ Head(queue) = queue[1] /\ Head(queue) \in Msgs
      BY <1>5, FirstTaken DEF Take, PTypeOK
    <3>2. Head(queue) \notin stopped
      BY <3>1 DEF Ordered, NoneStopped
    <3>3. turn'.msg = Head(queue)
      BY <2>3, <3>1, TurnTypes
    <3> QED
      BY <2>1, <2>3, <3>2, <3>3
  <2> QED
    BY <1>5, <2>2, <2>3 DEF Take
<1>6. CASE TurnStep
  <2>1. stopped' = stopped /\ marks' = marks
    BY <1>6, TurnContinues
  <2> QED
    BY <1>6, <2>1, TurnContinues
<1>7. CASE TurnOver
  BY <1>7 DEF TurnOver
<1>8. CASE Shutdown
  BY <1>8, TurnTypes DEF Shutdown
<1>9. CASE CancelledWait \/ Idle \/ AgentEvent \/ Closed \/ Restart
  BY <1>1, <1>9 DEF CancelledWait, Idle, AgentEvent, Closed, Restart
<1>10. ASSUME NEW d \in Msgs \X {"rescue", "rescued"}, Detached(d) PROVE StopTakesAll' /\ RecallHolds'
  BY <1>1, <1>10 DEF Detached
<1>11. ASSUME NEW e \in Event, Submit(e) PROVE StopTakesAll' /\ RecallHolds'
  BY <1>1, <1>11 DEF Submit
<1>12. CASE UNCHANGED pvars
  BY <1>1, <1>12 DEF pvars
<1> QED
  BY <1>2, <1>3, <1>4, <1>5, <1>6, <1>7, <1>8, <1>9, <1>10, <1>11, <1>12
     DEF PNext, ConsumerStep, HandlerStep

-----------------------------------------------------------------------------
(* The finalization of an interrupted agent.                                   *)

(* Where the answer of an interrupted turn is still to be written by it.       *)
Owing == {"rollback", "rescue"}

(* Every other step keeps the chat, the turn that is being rescued, and the    *)
(* finalizations under way.                                                    *)
LEMMA StillKept ==
  ASSUME InterruptedIsKept, interrupted' \subseteq interrupted, ToSet(chat) \subseteq ToSet(chat'),
         detached \subseteq detached',
         turn.pc \in Owing => turn'.pc \in Owing /\ turn'.msg = turn.msg
  PROVE  InterruptedIsKept'
BY DEF InterruptedIsKept, Owing

LEMMA KeptStep ==
  ASSUME PTypeOK, InterruptedIsKept, [PNext]_pvars
  PROVE  InterruptedIsKept'
<1> USE DEF chan, cons, work, rest, Owing
<1>1. ASSUME NEW e \in Event, Submit(e) PROVE InterruptedIsKept'
  BY <1>1, StillKept DEF Submit
<1>2. ASSUME NEW e \in Event, HandleStop(e) \/ HandleRecall(e) PROVE InterruptedIsKept'
  BY <1>2, StillKept, TurnTypes DEF HandleStop, HandleRecall
<1>3. ASSUME NEW m \in Msgs, MarkExpires(m) PROVE InterruptedIsKept'
  BY <1>3, StillKept DEF MarkExpires
<1>4. CASE Take \/ TurnOver
  <2>1. turn.pc \notin Owing
    BY <1>4, PipelineAssumption DEF Take, TurnOver, PTypeOK, NoTurn
  <2> QED
    BY <1>4, <2>1, StillKept DEF Take, TurnOver
<1>5. CASE CancelledWait \/ Idle \/ Closed \/ Restart
  BY <1>5, StillKept DEF CancelledWait, Idle, Closed, Restart
<1>6. CASE Shutdown
  BY <1>6, StillKept, TurnTypes DEF Shutdown
<1>7. CASE AgentEvent
  <2>1. turn.msg \in Msgs /\ turn.pc \notin Owing /\ UNCHANGED <<turn, detached, interrupted>>
    BY <1>7, TurnTypes DEF AgentEvent, At, PTypeOK
  <2>2. ToSet(chat) \subseteq ToSet(chat')
    BY <1>7, <2>1, SaidGrows DEF AgentEvent
  <2> QED
    BY <2>1, <2>2, StillKept
<1>8. CASE Answered \/ Drive \/ PrepareFails \/ NoteTask \/ OpenCard \/ CloseCard \/ LogDone
           \/ AgentFails \/ RescueLog
  <2>1. turn.pc \notin Owing /\ UNCHANGED <<chat, detached, interrupted>>
    BY <1>8 DEF Answered, Drive, PrepareFails, NoteTask, OpenCard, CloseCard, LogDone, AgentFails,
                RescueLog, At
  <2> QED
    BY <2>1, StillKept
<1>9. CASE SaveUser \/ AgentDone \/ FailureTold
  <2>1. turn.msg \in Msgs /\ turn.pc \notin Owing /\ UNCHANGED <<detached, interrupted>>
    BY <1>9, TurnTypes DEF SaveUser, AgentDone, FailureTold, At, PTypeOK
  <2>2. ToSet(chat) \subseteq ToSet(chat')
    BY <1>9, <2>1, SaidGrows DEF SaveUser, AgentDone, FailureTold
  <2> QED
    BY <2>1, <2>2, StillKept
<1>10. CASE RescueSave
  <2>1. turn.msg \in Msgs /\ UNCHANGED detached
    BY <1>10, TurnTypes DEF RescueSave, At, PTypeOK
  <2>2. CASE ToSet(chat') = ToSet(chat) \cup {<<"answer", turn.msg>>} /\ interrupted' = interrupted
    BY <2>1, <2>2 DEF InterruptedIsKept
  <2>3. CASE chat' = chat /\ interrupted' = interrupted \ {turn.msg}
    BY <2>1, <2>3 DEF InterruptedIsKept
  <2> QED
    BY <1>10, <2>1, <2>2, <2>3, SaidGrows DEF RescueSave, Rescued
<1>11. CASE Unwind
  <2>1. turn \in Turn /\ turn.msg \in Msgs
    BY <1>11, TurnTypes DEF Unwind, PTypeOK
  <2>2. CASE turn.pc \in {"agent", "closing"}
    <3>1. turn'.pc = "rollback" /\ turn'.msg = turn.msg /\ UNCHANGED <<chat, detached>>
          /\ interrupted' = interrupted \cup {turn.msg}
      BY <1>11, <2>1, <2>2 DEF Unwind, Into, Turn
    <3>2. ASSUME NEW m \in interrupted PROVE <<"answer", m>> \in ToSet(chat) \/ <<m, "rescue">> \in detached
      BY <2>2, <3>2 DEF InterruptedIsKept
    <3> QED
      BY <2>1, <3>1, <3>2 DEF InterruptedIsKept
  <2>3. CASE turn.pc = "rescue"
    <3>1. UNCHANGED <<chat, interrupted>> /\ detached' = detached \cup {<<turn.msg, "rescue">>}
      BY <1>11, <2>3 DEF Unwind, Shielded
    <3> QED
      BY <2>1, <3>1 DEF InterruptedIsKept
  <2>4. CASE turn.pc = "rollback"
    <3>1. UNCHANGED <<chat, detached>> /\ interrupted' = interrupted \ {turn.msg}
      BY <1>11, <2>4 DEF Unwind
    <3> QED
      BY <2>1, <2>4, <3>1 DEF InterruptedIsKept
  <2>5. CASE turn.pc \notin {"agent", "closing", "rescue", "rollback"}
    <3>1. interrupted' = interrupted /\ detached \subseteq detached'
          /\ (chat' = chat \/ chat' = Said("answer", turn.msg))
      BY <1>11, <2>5 DEF Unwind
    <3>2. ToSet(chat) \subseteq ToSet(chat')
      BY <2>1, <3>1, SaidGrows
    <3> QED
      BY <2>1, <2>5, <3>1, <3>2, StillKept
  <2> QED
    BY <2>2, <2>3, <2>4, <2>5
<1>12. ASSUME NEW d \in Msgs \X {"rescue", "rescued"}, Detached(d) PROVE InterruptedIsKept'
  <2>1. UNCHANGED turn /\ d[1] \in Msgs /\ d = <<d[1], d[2]>>
    BY <1>12 DEF Detached
  <2>2. CASE d[2] = "rescue" /\ chat' = Said("answer", d[1])
    <3>1. /\ ToSet(chat') = ToSet(chat) \cup {<<"answer", d[1]>>} /\ detached \ {d} \subseteq detached'
          /\ interrupted' \subseteq interrupted
      BY <1>12, <2>1, <2>2, SaidGrows DEF Detached, Rescued
    <3>2. ASSUME NEW m \in interrupted, <<m, "rescue">> \in detached
          PROVE  <<m, "rescue">> \in detached' \/ <<"answer", m>> \in ToSet(chat')
      BY <2>1, <3>1, <3>2
    <3> QED
      BY <2>1, <3>1, <3>2 DEF InterruptedIsKept
  <2>3. CASE d[2] = "rescue" /\ interrupted' = interrupted \ {d[1]} /\ chat' = chat
    <3>1. detached \ {d} \subseteq detached'
      BY <1>12, <2>1, <2>3 DEF Detached
    <3>2. ASSUME NEW m \in interrupted', <<m, "rescue">> \in detached PROVE <<m, "rescue">> \in detached'
      BY <2>1, <2>3, <3>1, <3>2
    <3> QED
      BY <2>1, <2>3, <3>1, <3>2 DEF InterruptedIsKept
  <2>4. CASE d[2] # "rescue"
    <3>1. chat' = chat /\ detached' = detached \ {d} /\ interrupted' = interrupted
      BY <1>12, <2>4 DEF Detached
    <3>2. \A m : <<m, "rescue">> \in detached => <<m, "rescue">> \in detached'
      BY <2>4, <3>1
    <3> QED
      BY <2>1, <3>1, <3>2 DEF InterruptedIsKept
  <2> QED
    BY <1>12, <2>2, <2>3, <2>4 DEF Detached, Rescued
<1>13. CASE UNCHANGED pvars
  BY <1>13, StillKept DEF pvars
<1>14. CASE RolledBack
  <2>1. turn.pc = "rollback" /\ turn'.pc = "rescue" /\ turn'.msg = turn.msg
    BY <1>14, Moved DEF RolledBack, At, Pc
  <2> QED
    BY <1>14, <2>1, StillKept DEF RolledBack
<1>15. CASE RollbackFails
  <2>1. turn.pc = "rollback" /\ UNCHANGED <<chat, detached>> /\ interrupted' = interrupted \ {turn.msg}
    BY <1>15 DEF RollbackFails, At
  <2> QED
    BY <2>1 DEF InterruptedIsKept
<1> QED
  BY <1>1, <1>2, <1>3, <1>4, <1>5, <1>6, <1>7, <1>8, <1>9, <1>10, <1>11, <1>12, <1>13, <1>14, <1>15
     DEF PNext, TurnStep, ConsumerStep, HandlerStep

-----------------------------------------------------------------------------
LEMMA QueueInvariance == PSpec => []QueueInv
<1>1. QueueInv /\ [PNext]_pvars => QueueInv'
  BY TypesStep, QueueStep, WindingStep, CancelsStep, KeptStep DEF QueueInv, Ordered
<1> QED
  BY <1>1, InitialQueue, PTL DEF PSpec

LEMMA QueueInvImplies == QueueInv => QueueSafe
<1> SUFFICES ASSUME QueueInv PROVE QueueSafe
  OBVIOUS
<1>1. begun \in Seq(Msgs) /\ accepted \in Seq(Msgs)
  BY DEF QueueInv, QueuedOnce, InLine
<1>2. \A i, j \in DOMAIN begun : i < j => Before(accepted, begun[i], begun[j])
  BY DEF QueueInv, InLine
<1>3. ASSUME NEW i \in DOMAIN begun, NEW j \in DOMAIN begun, i < j PROVE begun[i] # begun[j]
  <2>1. PICK a, b \in DOMAIN accepted : a < b /\ accepted[a] = begun[i] /\ accepted[b] = begun[j]
    BY <1>2, <1>3 DEF Before
  <2> QED
    BY <1>1, <2>1 DEF QueueInv, QueuedOnce
<1>4. \A i, j \in DOMAIN begun : i # j => begun[i] # begun[j]
  BY <1>1, <1>3
<1>5. TurnsInOrder
  BY <1>2, <1>4 DEF TurnsInOrder, Before
<1>6. ShutdownDrains
  BY DEF QueueInv, Winding, PTypeOK, ShutdownDrains
<1> QED
  BY <1>5, <1>6 DEF QueueInv, QueueSafe

(* What the queue of a chat promises: its messages are answered in the order   *)
(* they were queued and each at most once, a turn that a /stop or a recall     *)
(* means is cancelled, what waits has a consumer, nothing runs past shutdown,  *)
(* and an interrupted answer is kept or about to be, unless its finalization   *)
(* was skipped or failed (channels/pipeline.py).                               *)
THEOREM QueueHolds == PSpec => []QueueSafe
  BY QueueInvariance, QueueInvImplies, PTL

-----------------------------------------------------------------------------
(* The inductive invariant of StreamingReply.                                  *)

Wired == [seq: Nat, text: Texts, res: {"wait", "ok", "err"}, left: BOOLEAN, whole: BOOLEAN]
CardRecord == [mode: {"none", "open", "closed"}, text: Texts, last: Nat]
ReplyTypes ==
    /\ spc \in {"start", "stream", "await", "update", "close", "plain", "tail", "over"}
    /\ text \in 0 .. MaxText /\ final \in Texts \cup {Unset} /\ pend \in Texts \cup {Unset}
    /\ rendered \in Texts /\ seq \in Nat /\ wire \subseteq Wired /\ card \in CardRecord
    /\ sfailed \in BOOLEAN /\ updated \in BOOLEAN /\ head \in Texts /\ whole \in BOOLEAN
    /\ brk \in 1 .. TextLimit

(* No text that is shown or on its way is later than this one, and none that   *)
(* is shown or may still be is earlier.                                        *)
UpTo(c, w, t) == c.text <= t /\ \A r \in w : r.text <= t
AtLeast(c, w, t) ==
    c.text >= t /\ \A r \in w : r.res = "wait" /\ r.seq > c.last => r.text >= t

(* The latest text there is to send.                                           *)
Top == IF ending = "error" THEN Failed ELSE IF scut = "no" THEN Fits(text) ELSE Interrupted

(* Requests are numbered as they are sent, a whole text is not behind what was *)
(* sent before it, nor behind what the platform shows while it may come.       *)
Numbered ==
    /\ card.last <= seq
    /\ \A r \in wire : r.seq <= seq
    /\ \A r, q \in wire : r.seq = q.seq => r = q
    /\ \A r, q \in wire : r.seq < q.seq /\ q.whole => r.text <= q.text
    /\ \A r \in wire : r.res = "wait" /\ r.seq > card.last /\ r.whole => r.text >= card.text
    /\ \A r \in wire : r.res = "ok" => \/ r.seq < card.last
                                       \/ r.seq = card.last /\ r.text = card.text

(* One request at a time waits for its answer, the last one sent; the others   *)
(* were left by an interruption.                                               *)
InHand == \A r \in wire :
    IF r.left THEN scut \notin {"no", "start", "stream"}
    ELSE (flush = "send" \/ spc = "update") /\ r.seq = seq

Flushing == flush \in {"pick", "send"}
Finishing == spc \in {"await", "update", "close", "plain", "tail"}

(* A text is sent while it is the newest: what is flushed is the answer so far,*)
(* and nothing is flushed after finish() has sent the final text.              *)
Newest ==
    /\ pend # Unset /\ ~sfailed => pend = Fits(text)
    /\ card.mode = "none" => pend = Unset /\ flush = "none"
    /\ spc \in {"start", "stream"} => ending = "no" /\ scut = "no"
    /\ spc = "start" => flush = "none" /\ pend = Unset
    /\ Flushing => /\ spc \in {"stream", "await"} /\ scut \in {"no", "stream"}
                   /\ UpTo(card, wire, Fits(text))
    /\ flush = "cancelled" => scut \in {"await", "error"}
    /\ rendered <= Fits(text)
    /\ UpTo(card, wire, Top)

(* The first chunk of the final text.                                          *)
Headed == Finishing =>
    /\ whole => head = Top
    /\ head <= Top
    /\ ending = "error" => head = Failed /\ scut = "no"
    /\ ending # "error" => /\ text > TextLimit => head = brk
                           /\ scut = "no" /\ text <= TextLimit => head = text

(* While flushes have succeeded, the card is not behind the last of them, but  *)
(* for a first chunk that is shorter than that.                                *)
Steady ==
    /\ ~sfailed
    /\ spc \in {"start", "stream", "await"} \/ (scut = "no" /\ Finishing)
    /\ Finishing => text <= TextLimit \/ brk = rendered
Settling == Steady => AtLeast(card, wire, rendered)

(* What finish() takes for shown is shown, and stays.                          *)
HeadShown == AtLeast(card, wire, head) \/ <<final, "head">> \in shown
Visible ==
    /\ spc = "close" /\ updated => AtLeast(card, wire, head)
    /\ spc = "tail" /\ ~refused => HeadShown
    /\ spc = "over" /\ scut \notin {"start", "await", "error"} /\ ~refused =>
          HeadShown /\ (whole \/ <<final, "tail">> \in shown)

ReplyInv == /\ ReplyTypes /\ Numbered /\ InHand /\ Newest /\ Headed /\ Settling /\ Visible

-----------------------------------------------------------------------------
LEMMA TextsAreNumbers ==
  /\ Texts \subseteq Nat /\ 0 \in Texts /\ Unset \in Int /\ Unset < 0
  /\ 0 .. MaxText \subseteq Texts /\ Interrupted \in Texts /\ Failed \in Texts
  /\ Interrupted < Failed /\ TextLimit \in Nat \ {0} /\ MaxText \in Nat
  /\ \A t \in 0 .. MaxText : t < Interrupted /\ t < Failed /\ t \in Nat
  BY ReplyAssumption DEF Texts, Unset, Interrupted, Failed

LEMMA Fitting ==
  ASSUME NEW n \in 0 .. MaxText
  PROVE  /\ Fits(n) \in 0 .. MaxText /\ Fits(n) \in Nat /\ Fits(n) \in Texts
         /\ Fits(n) <= n /\ Fits(n) <= TextLimit
         /\ n <= TextLimit => Fits(n) = n
         /\ n > TextLimit => Fits(n) = TextLimit
         /\ Fits(n) <= Fits(n + 1)
         /\ Fits(n) < Interrupted /\ Fits(n) < Failed
  BY ReplyAssumption DEF Fits, Texts, Interrupted, Failed

LEMMA TopTypes ==
  ASSUME ReplyTypes
  PROVE  Top \in Texts /\ Top \in Nat /\ Fits(text) <= Top /\ Fits(text) \in Texts
<1>1. text \in 0 .. MaxText
  BY DEF ReplyTypes
<1> QED
  BY <1>1, Fitting, TextsAreNumbers DEF Top

LEMMA InitialReply == SInit => ReplyInv
<1> SUFFICES ASSUME SInit PROVE ReplyInv
  OBVIOUS
<1>0. /\ 0 \in 0 .. MaxText /\ card.text = 0 /\ card.last = 0 /\ card.mode = "none"
      /\ wire = {} /\ rendered = 0 /\ seq = 0
  BY ReplyAssumption DEF SInit
<1>1. ReplyTypes
  <2>1. [mode |-> "none", text |-> 0, last |-> 0] \in CardRecord
    BY TextsAreNumbers DEF CardRecord
  <2> QED
    BY <1>0, <2>1, TextsAreNumbers DEF SInit, ReplyTypes
<1>2. Numbered /\ InHand
  BY <1>0 DEF Numbered, InHand
<1>3. Newest
  <2>1. Fits(text) \in Nat /\ Top = Fits(text)
    BY <1>0, Fitting DEF SInit, Top
  <2> QED
    BY <1>0, <2>1 DEF SInit, Newest, Flushing, UpTo
<1>4. Headed /\ Settling /\ Visible
  BY <1>0 DEF SInit, Headed, Finishing, Settling, AtLeast, Visible
<1> QED
  BY <1>1, <1>2, <1>3, <1>4 DEF ReplyInv

LEMMA UpToMore ==
  ASSUME NEW c \in CardRecord, NEW w \in SUBSET Wired, NEW t \in Int, NEW u \in Int, t <= u,
         UpTo(c, w, t)
  PROVE  UpTo(c, w, u)
<1>1. c.text \in Nat /\ \A r \in w : r.text \in Nat
  BY TextsAreNumbers DEF CardRecord, Wired
<1> QED
  BY <1>1 DEF UpTo

(* The platform takes a request in hand: the card goes back only by a request  *)
(* that is not whole.                                                          *)
LEMMA Arrives ==
  ASSUME ReplyTypes, Numbered, InHand, NEW r \in wire, Arrive(r)
  PROVE  /\ card' \in CardRecord /\ wire' \subseteq Wired /\ card'.mode = card.mode
         /\ Numbered' /\ InHand'
         /\ card'.text < card.text => r.seq = card'.last /\ r.text = card'.text /\ ~r.whole
         /\ \A t \in Texts : UpTo(card, wire, t) => UpTo(card', wire', t)
         /\ \A t \in Texts : AtLeast(card, wire, t) => AtLeast(card', wire', t)
<1>1. r \in Wired /\ card \in CardRecord /\ r.res = "wait"
  BY DEF ReplyTypes, Arrive
<1>2. PICK res \in {"ok", "err"} :
        /\ wire' = (wire \ {r}) \cup {[r EXCEPT !.res = res]}
        /\ \/ UNCHANGED card /\ res = "err"
           \/ r.seq > card.last /\ card' = [card EXCEPT !.text = r.text, !.last = r.seq]
  BY DEF Arrive
<1> DEFINE a == [r EXCEPT !.res = res]
<1>3. /\ a \in Wired /\ a.seq = r.seq /\ a.text = r.text /\ a.res = res
      /\ a.whole = r.whole /\ a.left = r.left
  BY <1>1, <1>2 DEF Wired
<1> HIDE DEF a
<1>4. wire' \subseteq Wired
  BY <1>2, <1>3 DEF ReplyTypes, a
<1>5. \A q \in wire' : q = a \/ (q \in wire /\ q # r)
  BY <1>2 DEF a
<1>6. UNCHANGED <<seq, spc, scut, flush>>
  BY DEF Arrive, said, finish
<1>7. \A q \in Wired : q.seq \in Nat /\ q.text \in Nat
  BY TextsAreNumbers DEF Wired
<1>8. card.last \in Nat /\ card.text \in Nat /\ seq \in Nat
  BY <1>1, TextsAreNumbers DEF ReplyTypes, CardRecord
<1>11. InHand'
  <2> SUFFICES ASSUME NEW q \in wire'
               PROVE  IF q.left THEN scut \notin {"no", "start", "stream"}
                      ELSE (flush = "send" \/ spc = "update") /\ q.seq = seq
    BY <1>6 DEF InHand
  <2>1. PICK p \in wire : q.left = p.left /\ q.seq = p.seq
    BY <1>3, <1>5
  <2> QED
    BY <2>1 DEF InHand
<1>12. /\ \A q \in wire' : q.seq <= seq'
       /\ \A p, q \in wire' : p.seq = q.seq => p = q
       /\ \A p, q \in wire' : p.seq < q.seq /\ q.whole => p.text <= q.text
  <2>1. \A q \in wire' : \E p \in wire : q.seq = p.seq /\ q.text = p.text /\ q.whole = p.whole
    BY <1>3, <1>5
  <2>2. \A q \in wire' : q.seq <= seq'
    BY <1>6, <2>1 DEF Numbered
  <2>3. \A p, q \in wire' : p.seq < q.seq /\ q.whole => p.text <= q.text
    <3> SUFFICES ASSUME NEW p \in wire', NEW q \in wire', p.seq < q.seq, q.whole
                 PROVE  p.text <= q.text
      OBVIOUS
    <3>1. PICK o \in wire : p.seq = o.seq /\ p.text = o.text
      BY <2>1
    <3>2. PICK n \in wire : q.seq = n.seq /\ q.text = n.text /\ q.whole = n.whole
      BY <2>1
    <3> QED
      BY <3>1, <3>2 DEF Numbered
  <2>4. \A p, q \in wire' : p.seq = q.seq => p = q
    BY <1>3, <1>5 DEF Numbered
  <2> QED
    BY <2>2, <2>3, <2>4
<1>9. CASE UNCHANGED card /\ a.res = "err"
  <2>1. /\ \A q \in wire' : q.res = "wait" /\ q.seq > card'.last /\ q.whole => q.text >= card'.text
        /\ \A q \in wire' : q.res = "ok" => \/ q.seq < card'.last
                                            \/ q.seq = card'.last /\ q.text = card'.text
    BY <1>3, <1>5, <1>9 DEF Numbered
  <2>2. Numbered'
    BY <1>6, <1>9, <1>12, <2>1 DEF Numbered
  <2>3. \A t \in Texts : UpTo(card, wire, t) => UpTo(card', wire', t)
    BY <1>3, <1>5, <1>9 DEF UpTo
  <2>4. \A t \in Texts : AtLeast(card, wire, t) => AtLeast(card', wire', t)
    BY <1>3, <1>5, <1>9 DEF AtLeast
  <2> QED
    BY <1>1, <1>4, <1>8, <1>9, <1>11, <2>2, <2>3, <2>4
<1>10. CASE r.seq > card.last /\ card' = [card EXCEPT !.text = r.text, !.last = r.seq]
  <2>1. card' \in CardRecord /\ card'.text = r.text /\ card'.last = r.seq /\ card'.mode = card.mode
    BY <1>1, <1>10 DEF CardRecord, Wired
  <2>2. r.whole => r.text >= card.text
    BY <1>1, <1>10 DEF Numbered
  <2>3. \A q \in wire' : q.res = "wait" /\ q.seq > card'.last => q \in wire /\ q.seq > r.seq /\ q.seq > card.last
    BY <1>1, <1>3, <1>4, <1>5, <1>7, <1>8, <1>10, <2>1
  <2>4. \A q \in wire' : q.res = "wait" /\ q.seq > card'.last /\ q.whole => q.text >= card'.text
    <3> SUFFICES ASSUME NEW q \in wire', q.res = "wait", q.seq > card'.last, q.whole
                 PROVE  q.text >= card'.text
      OBVIOUS
    <3>1. q \in wire /\ q \in Wired /\ r.seq < q.seq
      BY <1>1, <1>4, <1>7, <2>3
    <3>2. r.text <= q.text
      BY <3>1 DEF Numbered
    <3> QED
      BY <1>1, <1>7, <2>1, <3>1, <3>2
  <2>5. \A q \in wire' : q.res = "ok" => \/ q.seq < card'.last
                                         \/ q.seq = card'.last /\ q.text = card'.text
    <3> SUFFICES ASSUME NEW q \in wire', q.res = "ok"
                 PROVE  \/ q.seq < card'.last
                        \/ q.seq = card'.last /\ q.text = card'.text
      OBVIOUS
    <3>1. CASE q = a
      BY <1>3, <2>1, <3>1
    <3>2. CASE q \in wire
      <4>1. q.seq <= card.last
        BY <1>4, <1>7, <1>8, <3>2 DEF Numbered
      <4> QED
        BY <1>1, <1>4, <1>7, <1>8, <1>10, <2>1, <4>1
    <3> QED
      BY <1>5, <3>1, <3>2
  <2>6. card'.last <= seq'
    BY <1>6, <2>1 DEF Numbered
  <2>7. Numbered'
    BY <1>12, <2>4, <2>5, <2>6 DEF Numbered
  <2>8. \A t \in Texts : UpTo(card, wire, t) => UpTo(card', wire', t)
    BY <1>3, <1>5, <2>1 DEF UpTo
  <2>9. \A t \in Texts : AtLeast(card, wire, t) => AtLeast(card', wire', t)
    <3> SUFFICES ASSUME NEW t \in Texts, AtLeast(card, wire, t) PROVE AtLeast(card', wire', t)
      OBVIOUS
    <3>1. r.text >= t
      BY <1>1, <1>10 DEF AtLeast
    <3> QED
      BY <2>1, <2>3, <3>1 DEF AtLeast
  <2> QED
    BY <1>1, <1>4, <1>7, <1>8, <1>11, <2>1, <2>2, <2>7, <2>8, <2>9
<1> QED
  BY <1>2, <1>3, <1>9, <1>10

(* A request is sent; a whole text is not behind any other.                    *)
LEMMA Sends ==
  ASSUME ReplyTypes, Numbered, NEW t \in Texts, NEW w \in BOOLEAN, Send(t, w),
         w => UpTo(card, wire, t)
  PROVE  /\ seq' \in Nat /\ wire' \subseteq Wired /\ card' = card
         /\ Numbered'
         /\ \A q \in wire' : q \in wire \/ (q.seq = seq' /\ ~q.left)
         /\ \A u \in Texts : t <= u /\ UpTo(card, wire, u) => UpTo(card', wire', u)
         /\ \A u \in Texts : u <= t /\ AtLeast(card, wire, u) => AtLeast(card', wire', u)
<1> DEFINE n == [seq |-> seq + 1, text |-> t, res |-> "wait", left |-> FALSE, whole |-> w]
<1>1. /\ seq \in Nat /\ card.last \in Nat /\ card.text \in Nat
      /\ t \in Nat /\ wire \subseteq Wired
      /\ \A q \in Wired : q.seq \in Nat /\ q.text \in Nat
  BY TextsAreNumbers DEF ReplyTypes, CardRecord, Wired
<1>2. seq' = seq + 1 /\ wire' = wire \cup {n} /\ card' = card
  BY DEF Send
<1>3. /\ n \in Wired /\ n.seq = seq + 1 /\ n.text = t /\ n.res = "wait"
      /\ n.left = FALSE /\ n.whole = w
  BY <1>1 DEF Wired
<1> HIDE DEF n
<1>4. \A r \in wire : r.seq <= seq /\ r.seq \in Nat /\ r.text \in Nat
  BY <1>1 DEF Numbered
<1>5. Numbered'
  <2>1. card'.last <= seq'
    BY <1>1, <1>2 DEF Numbered
  <2>2. \A r \in wire' : r.seq <= seq'
    BY <1>1, <1>2, <1>3, <1>4
  <2>3. \A r, q \in wire' : r.seq = q.seq => r = q
    <3>1. \A r \in wire : r.seq # n.seq
      BY <1>1, <1>3, <1>4
    <3>2. \A r, q \in wire : r.seq = q.seq => r = q
      BY DEF Numbered
    <3> QED
      BY <1>2, <3>1, <3>2
  <2>4. \A r, q \in wire' : r.seq < q.seq /\ q.whole => r.text <= q.text
    <3> SUFFICES ASSUME NEW r \in wire', NEW q \in wire', r.seq < q.seq, q.whole
                 PROVE  r.text <= q.text
      OBVIOUS
    <3>1. CASE r \in wire /\ q \in wire
      BY <3>1 DEF Numbered
    <3>2. CASE r \in wire /\ q = n
      BY <1>3, <3>2 DEF UpTo
    <3>3. CASE r = n
      <4>1. q.seq <= seq + 1 /\ r.seq = seq + 1
        BY <1>2, <1>3, <2>2, <3>3
      <4>2. q.seq \in Nat
        BY <1>1, <1>2, <1>3, <1>4
      <4> QED
        BY <1>1, <4>1, <4>2
    <3> QED
      BY <1>2, <3>1, <3>2, <3>3
  <2>5. \A r \in wire' : r.res = "wait" /\ r.seq > card'.last /\ r.whole => r.text >= card'.text
    BY <1>1, <1>2, <1>3 DEF Numbered, UpTo
  <2>6. \A r \in wire' : r.res = "ok" => \/ r.seq < card'.last
                                         \/ r.seq = card'.last /\ r.text = card'.text
    BY <1>2, <1>3 DEF Numbered
  <2> QED
    BY <2>1, <2>2, <2>3, <2>4, <2>5, <2>6 DEF Numbered
<1>6. \A q \in wire' : q \in wire \/ (q.seq = seq' /\ ~q.left)
  BY <1>2, <1>3
<1>7. \A u \in Texts : t <= u /\ UpTo(card, wire, u) => UpTo(card', wire', u)
  BY <1>2, <1>3 DEF UpTo
<1>8. \A u \in Texts : u <= t /\ AtLeast(card, wire, u) => AtLeast(card', wire', u)
  BY <1>1, <1>2, <1>3, TextsAreNumbers DEF AtLeast
<1> QED
  BY <1>1, <1>2, <1>3, <1>5, <1>6, <1>7, <1>8

(* Requests that are answered, or whose sender is gone, say nothing new.       *)
LEMMA Fewer ==
  ASSUME ReplyTypes, Numbered, UNCHANGED <<seq, card>>,
         \A r \in wire' : \E q \in wire : r.seq = q.seq /\ r.text = q.text /\ r.res = q.res
                                          /\ r.whole = q.whole,
         \A r, q \in wire' : r.seq = q.seq => r = q
  PROVE  /\ Numbered' /\ \A t \in Texts : UpTo(card, wire, t) => UpTo(card', wire', t)
         /\ \A t \in Texts : AtLeast(card, wire, t) => AtLeast(card', wire', t)
<1>1. \A r \in wire' : r.seq <= seq'
  BY DEF Numbered
<1>2. \A r \in wire' : r.res = "ok" => \/ r.seq < card'.last
                                       \/ r.seq = card'.last /\ r.text = card'.text
  BY DEF Numbered
<1>3. \A r \in wire' : r.res = "wait" /\ r.seq > card'.last /\ r.whole => r.text >= card'.text
  BY DEF Numbered
<1>4. ASSUME NEW r \in wire', NEW q \in wire', r.seq < q.seq, q.whole PROVE r.text <= q.text
  <2>1. PICK p \in wire : r.seq = p.seq /\ r.text = p.text
    OBVIOUS
  <2>2. PICK o \in wire : q.seq = o.seq /\ q.text = o.text /\ q.whole = o.whole
    OBVIOUS
  <2> QED
    BY <1>4, <2>1, <2>2 DEF Numbered
<1>5. \A t \in Texts : UpTo(card, wire, t) => UpTo(card', wire', t)
  BY DEF UpTo
<1>6. \A t \in Texts : AtLeast(card, wire, t) => AtLeast(card', wire', t)
  BY DEF AtLeast
<1>7. card'.last <= seq'
  BY DEF Numbered
<1> QED
  BY <1>1, <1>2, <1>3, <1>4, <1>5, <1>6, <1>7 DEF Numbered

(* finish() begins with a final text.                                          *)
LEMMA Begins ==
  ASSUME ReplyTypes, NEW t \in {text, Interrupted, Failed}, Begin(t)
  PROVE  /\ head' \in Texts /\ whole' \in BOOLEAN /\ final' \in Texts
         /\ spc' = IF card.mode = "none" THEN "plain" ELSE "await"
         /\ whole' => head' = t /\ (t = text => text <= TextLimit)
         /\ t = Failed => head' = Failed
         /\ t # Failed /\ text > TextLimit => head' = brk
         /\ t = text /\ text <= TextLimit => head' = text
         /\ head' <= t
         /\ t = text => head' <= Fits(text)
<1>0. /\ text \in 0 .. MaxText /\ brk \in 1 .. TextLimit /\ text \in Nat /\ brk \in Nat
      /\ text # Interrupted /\ text # Failed /\ Interrupted # Failed
      /\ brk <= TextLimit /\ TextLimit \in Nat
  BY TextsAreNumbers DEF ReplyTypes
<1>1. /\ final' = t /\ Split(t)
      /\ spc' = IF card.mode = "none" THEN "plain" ELSE "await"
  BY DEF Begin
<1>2. Length(text) = text /\ Length(Interrupted) = text /\ Length(Failed) = 0
  BY <1>0 DEF Length
<1>3. text > TextLimit => brk \in 0 .. MaxText /\ brk <= text
  BY <1>0, ReplyAssumption
<1>4. CASE t = Failed
  <2>1. head' = Failed /\ (whole' = TRUE \/ whole' = FALSE)
    <3>1. Split(Failed) /\ Length(Failed) = 0 /\ 0 <= TextLimit /\ Failed # Interrupted
      BY <1>0, <1>1, <1>2, <1>4
    <3> QED
      BY <1>0, <3>1 DEF Split, CutTo
  <2> QED
    <3>1. Failed \in Nat /\ Failed \in Texts /\ t # text /\ head' = t
      BY <1>0, <1>4, <2>1, TextsAreNumbers
    <3>2. whole' \in BOOLEAN
      BY <2>1
    <3>3. head' <= t
      BY <1>4, <3>1
    <3> QED
      BY <1>1, <1>4, <2>1, <3>1, <3>2, <3>3
<1>5. CASE t = text
  <2>1. \/ text <= TextLimit /\ head' = text /\ whole' = TRUE
        \/ text > TextLimit /\ head' = brk /\ whole' = FALSE
    BY <1>0, <1>1, <1>2, <1>5 DEF Split, CutTo
  <2>2. CASE text <= TextLimit /\ head' = text /\ whole' = TRUE
    BY <1>0, <1>1, <1>5, <2>2, TextsAreNumbers, Fitting
  <2>3. CASE text > TextLimit /\ head' = brk /\ whole' = FALSE
    <3>1. Fits(text) = TextLimit
      BY <1>0, <2>3, Fitting
    <3>2. brk \in 0 .. MaxText /\ brk <= text /\ brk \in Texts /\ text \in Texts
      BY <1>0, <1>3, <2>3, TextsAreNumbers
    <3>3. ~(text <= TextLimit)
      BY <1>0, <2>3
    <3> QED
      BY <1>0, <1>1, <1>5, <2>3, <3>1, <3>2, <3>3
  <2> QED
    BY <2>1, <2>2, <2>3
<1>6. CASE t = Interrupted
  <2>1. \/ text <= TextLimit /\ head' = Interrupted /\ whole' = TRUE
        \/ text > TextLimit /\ head' = brk /\ whole' = FALSE
        \/ text <= TextLimit /\ head' = text /\ whole' = FALSE
        \/ text = TextLimit /\ head' = brk /\ whole' = FALSE
    BY <1>0, <1>1, <1>2, <1>6 DEF Split, CutTo
  <2>2. text = TextLimit => brk \in 0 .. MaxText
    BY <1>0, ReplyAssumption
  <2>3. \A n \in 0 .. MaxText : n < Interrupted /\ n \in Texts
    BY TextsAreNumbers
  <2>4. Interrupted \in Nat /\ Interrupted \in Texts /\ Interrupted <= Interrupted
    BY TextsAreNumbers
  <2>5. /\ head' \in Texts /\ whole' \in BOOLEAN /\ head' <= Interrupted
    <3>1. head' = Interrupted \/ head' \in 0 .. MaxText
      BY <1>0, <1>3, <2>1, <2>2
    <3>2. head' \in Texts /\ head' <= Interrupted
      BY <2>3, <2>4, <3>1, ReplyAssumption DEF Interrupted
    <3> QED
      BY <2>1, <3>2
  <2>6. /\ whole' => head' = Interrupted
        /\ text > TextLimit => head' = brk
    BY <1>0, <2>1
  <2> QED
    BY <1>0, <1>1, <1>6, <2>4, <2>5, <2>6
<1> QED
  BY <1>4, <1>5, <1>6

LEMMA ReplyStep ==
  ASSUME ReplyInv, [SNext]_svars
  PROVE  /\ ReplyInv'
         /\ card'.text < card.text =>
               \E r \in wire : r.seq = card'.last /\ r.text = card'.text /\ ~r.whole
<1> DEFINE Kept == card'.text < card.text =>
               \E r \in wire : r.seq = card'.last /\ r.text = card'.text /\ ~r.whole
<1> USE DEF finish, said, net, chunks, Flushing, Finishing
<1>0. /\ ReplyTypes /\ Numbered /\ InHand /\ Newest /\ Headed /\ Settling /\ Visible
      /\ card.text \in Nat /\ rendered \in Nat /\ text \in Nat /\ text \in Texts
      /\ text \in 0 .. MaxText /\ final \in Int /\ pend \in Int /\ head \in Nat
      /\ card.text \in Texts /\ card.last \in Nat /\ seq \in Nat /\ rendered \in Texts
      /\ brk \in Nat /\ brk <= TextLimit /\ wire \subseteq Wired /\ card \in CardRecord
      /\ \A q \in wire : q.seq \in Nat /\ q.text \in Nat
  BY TextsAreNumbers, ReplyAssumption DEF ReplyInv, ReplyTypes, CardRecord, Wired, Texts, Unset
<1>t. /\ Top \in Texts /\ Top \in Nat /\ Fits(text) <= Top /\ Fits(text) \in Texts
      /\ Fits(text) \in Nat
  BY <1>0, TopTypes, TextsAreNumbers
<1>k. card' = card => Kept
  BY <1>0
<1>1. CASE StartCard
  <2>1. PICK mode \in {"none", "open"} : card' = [card EXCEPT !.mode = mode]
    BY <1>1 DEF StartCard
  <2>2. card' \in CardRecord /\ card'.text = card.text /\ card'.last = card.last
    BY <1>0, <2>1 DEF ReplyTypes, CardRecord
  <2>3. UNCHANGED <<ending, scut, final, head, whole, brk, updated, shown, refused, text, pend,
                    rendered, sfailed, flush, seq, wire>> /\ spc = "start" /\ spc' = "stream"
    BY <1>1 DEF StartCard
  <2>4. ReplyTypes'
    BY <1>0, <2>2, <2>3 DEF ReplyTypes
  <2>5. Numbered' /\ InHand'
    BY <1>0, <2>2, <2>3 DEF Numbered, InHand
  <2>6. Newest'
    BY <1>0, <1>t, <2>2, <2>3 DEF Newest, UpTo, Top
  <2>7. Headed' /\ Visible'
    BY <2>3 DEF Headed, Visible
  <2>8. Settling'
    BY <1>0, <2>2, <2>3 DEF Settling, Steady, AtLeast
  <2> QED
    BY <1>0, <2>2, <2>4, <2>5, <2>6, <2>7, <2>8 DEF ReplyInv
<1>2. CASE Push
  <2>1. UNCHANGED <<spc, ending, scut, final, head, whole, brk, updated, shown, refused, rendered,
                    sfailed, seq, wire, card>>
        /\ spc = "stream" /\ text' = text + 1 /\ text' \in 0 .. MaxText
    BY <1>0, <1>2, ReplyAssumption DEF Push, ReplyTypes
  <2>2. /\ Fits(text) <= Fits(text') /\ Fits(text') \in Nat /\ Fits(text') \in Texts
        /\ Top = Fits(text) /\ Top' = Fits(text')
    BY <1>0, <2>1, Fitting DEF Newest, Top
  <2>3. UpTo(card', wire', Fits(text'))
    <3>1. UpTo(card, wire, Fits(text))
      BY <1>0, <2>2 DEF Newest
    <3> QED
      BY <1>0, <1>t, <2>1, <2>2, <3>1, UpToMore
  <2>4. \/ /\ pend' = Fits(text') /\ card.mode # "none" /\ flush' # "cancelled"
           /\ flush' = "pick" \/ flush' = flush
        \/ UNCHANGED <<pend, flush>> /\ (card.mode = "none" \/ sfailed)
    <3>1. CASE card.mode = "none" \/ sfailed
      BY <1>2, <3>1, Zenon DEF Push
    <3>2. CASE ~(card.mode = "none" \/ sfailed)
      <4>1. /\ pend' = Fits(text + 1)
            /\ flush' = IF flush \in {"none", "done", "cancelled"} THEN "pick" ELSE flush
        BY <1>2, <3>2, Zenon DEF Push
      <4>2. flush' # "cancelled" /\ (flush' = "pick" \/ flush' = flush)
        BY <4>1
      <4>3. pend' = Fits(text')
        BY <2>1, <4>1
      <4> QED
        BY <3>2, <4>2, <4>3, Zenon
    <3> QED
      BY <3>1, <3>2
  <2>5. ReplyTypes'
    BY <1>0, <2>1, <2>2, <2>4, TextsAreNumbers DEF ReplyTypes
  <2>6. Numbered'
    BY <1>0, <2>1 DEF Numbered
  <2>7. InHand'
    <3>1. flush = "send" => flush' = "send"
      BY <1>2 DEF Push
    <3> QED
      BY <1>0, <2>1, <3>1 DEF InHand
  <2>8. Newest'
    <3>1. rendered' <= Fits(text')
      BY <1>0, <1>t, <2>1, <2>2 DEF Newest
    <3> QED
      BY <1>0, <2>1, <2>2, <2>3, <2>4, <3>1 DEF Newest
  <2>9. Headed' /\ Visible'
    BY <2>1 DEF Headed, Visible
  <2>10. Settling'
    BY <1>0, <2>1 DEF Settling, Steady
  <2> QED
    BY <1>k, <2>1, <2>5, <2>6, <2>7, <2>8, <2>9, <2>10 DEF ReplyInv
<1>3. CASE FlushPick
  <2>1. UNCHANGED <<spc, ending, scut, final, head, whole, brk, updated, shown, refused, text,
                    rendered, sfailed>> /\ flush = "pick"
    BY <1>3 DEF FlushPick
  <2>2. /\ spc \in {"stream", "await"} /\ UpTo(card, wire, Fits(text))
        /\ scut \in {"no", "stream"} /\ card.mode # "none"
    BY <1>0, <2>1 DEF Newest
  <2>3. wire = {}
    BY <1>0, <2>1, <2>2 DEF InHand
  <2>t. Top' = Top
    BY <2>1 DEF Top
  <2>4. CASE UNCHANGED <<seq, wire, card>> /\ (pend' = pend \/ pend' = Unset)
             /\ flush' \in {"pick", "done"}
    <3>1. ReplyTypes'
      BY <1>0, <2>1, <2>4 DEF ReplyTypes
    <3>2. Numbered' /\ InHand'
      BY <1>0, <2>3, <2>4 DEF Numbered, InHand
    <3>3. Newest'
      BY <1>0, <2>1, <2>2, <2>4, <2>t DEF Newest
    <3>4. Headed'
      BY <1>0, <2>1, <2>t DEF Headed
    <3>5. Settling' /\ Visible'
      BY <1>0, <2>1, <2>2, <2>4 DEF Settling, Steady, Visible
    <3> QED
      BY <1>k, <2>4, <3>1, <3>2, <3>3, <3>4, <3>5 DEF ReplyInv
  <2>5. CASE Send(pend, TRUE) /\ pend # Unset /\ ~sfailed /\ pend' = Unset /\ flush' = "send"
    <3>1. pend = Fits(text) /\ pend \in Texts
      BY <1>0, <2>5 DEF Newest, ReplyTypes
    <3>2. /\ seq' \in Nat /\ wire' \subseteq Wired /\ card' = card /\ Numbered'
          /\ \A q \in wire' : q \in wire \/ (q.seq = seq' /\ ~q.left)
          /\ \A u \in Texts : pend <= u /\ UpTo(card, wire, u) => UpTo(card', wire', u)
          /\ \A u \in Texts : u <= pend /\ AtLeast(card, wire, u) => AtLeast(card', wire', u)
      <4>1. TRUE => UpTo(card, wire, pend)
        BY <2>2, <3>1
      <4> QED
        BY <1>0, <2>5, <3>1, <4>1, Sends
    <3>3. ReplyTypes'
      BY <1>0, <2>1, <2>5, <3>2 DEF ReplyTypes
    <3>4. InHand'
      BY <2>3, <2>5, <3>2 DEF InHand
    <3>5. UpTo(card', wire', Fits(text)) /\ UpTo(card', wire', Top)
      BY <1>0, <1>t, <2>2, <3>1, <3>2 DEF Newest
    <3>6. Newest'
      BY <1>0, <2>1, <2>2, <2>5, <2>t, <3>2, <3>5 DEF Newest
    <3>7. Headed'
      BY <1>0, <2>1, <2>t DEF Headed
    <3>8. Settling'
      <4>1. Steady' => Steady
        BY <2>1 DEF Steady
      <4>2. rendered <= pend
        BY <1>0, <3>1 DEF Newest
      <4> QED
        BY <1>0, <2>1, <3>2, <4>1, <4>2 DEF Settling
    <3>9. Visible'
      BY <2>1, <2>2 DEF Visible
    <3> QED
      BY <1>k, <3>2, <3>3, <3>4, <3>6, <3>7, <3>8, <3>9 DEF ReplyInv
  <2> QED
    BY <1>3, <2>1, <2>4, <2>5 DEF FlushPick
<1>4. CASE FlushAwaited
  <2>1. UNCHANGED <<ending, scut, final, head, whole, brk, shown, refused, text, pend, rendered,
                    sfailed, flush>>
        /\ spc = "await" /\ flush \in {"none", "done"}
    BY <1>4 DEF FlushAwaited, Awaited
  <2>2. /\ head \in Texts /\ head <= Top /\ Top' = Top /\ whole \in BOOLEAN
        /\ whole => head = Top
    BY <1>0, <2>1 DEF Headed, ReplyTypes, Top
  <2>3. head = rendered => text <= TextLimit \/ brk = rendered
    <3>1. rendered < Failed
      <4>1. Fits(text) < Failed /\ Failed \in Nat
        BY <1>0, Fitting, TextsAreNumbers
      <4>2. rendered <= Fits(text)
        BY <1>0 DEF Newest
      <4> QED
        BY <1>0, <1>t, <4>1, <4>2
    <3>2. head = rendered => ending # "error"
      BY <1>0, <2>1, <3>1, TextsAreNumbers DEF Headed
    <3> QED
      BY <1>0, <2>1, <3>2, TextsAreNumbers DEF Headed
  <2>4. CASE spc' = "close" /\ updated' = ~sfailed /\ UNCHANGED net /\ (sfailed \/ head = rendered)
    <3>1. ReplyTypes'
      BY <1>0, <2>1, <2>4 DEF ReplyTypes
    <3>2. Numbered' /\ InHand'
      BY <1>0, <2>1, <2>4 DEF Numbered, InHand
    <3>3. Newest'
      BY <1>0, <2>1, <2>2, <2>4 DEF Newest
    <3>4. Headed'
      BY <1>0, <2>1, <2>2, <2>4 DEF Headed
    <3>5. Settling'
      BY <1>0, <2>1, <2>4 DEF Settling, Steady
    <3>6. ~sfailed => AtLeast(card, wire, head)
      BY <1>0, <2>1, <2>3, <2>4 DEF Settling, Steady
    <3>7. Visible'
      BY <2>1, <2>4, <3>6 DEF Visible
    <3> QED
      BY <1>k, <2>4, <3>1, <3>2, <3>3, <3>4, <3>5, <3>7 DEF ReplyInv
  <2>5. CASE spc' = "update" /\ Send(head, whole) /\ UNCHANGED updated
    <3>1. /\ seq' \in Nat /\ wire' \subseteq Wired /\ card' = card /\ Numbered'
          /\ \A q \in wire' : q \in wire \/ (q.seq = seq' /\ ~q.left)
          /\ \A u \in Texts : head <= u /\ UpTo(card, wire, u) => UpTo(card', wire', u)
          /\ \A u \in Texts : u <= head /\ AtLeast(card, wire, u) => AtLeast(card', wire', u)
      <4>1. whole => UpTo(card, wire, head)
        BY <1>0, <2>2 DEF Newest
      <4> QED
        BY <1>0, <2>2, <2>5, <4>1, Sends
    <3>2. ReplyTypes'
      BY <1>0, <2>1, <2>5, <3>1 DEF ReplyTypes
    <3>3. InHand'
      <4>1. \A q \in wire : q.left
        BY <1>0, <2>1 DEF InHand
      <4> QED
        BY <1>0, <2>1, <2>5, <3>1, <4>1 DEF InHand
    <3>4. UpTo(card', wire', Top)
      BY <1>0, <1>t, <2>2, <3>1 DEF Newest
    <3>5. Newest'
      BY <1>0, <2>1, <2>2, <2>5, <3>1, <3>4 DEF Newest
    <3>6. Headed'
      BY <1>0, <2>1, <2>2, <2>5 DEF Headed
    <3>7. Settling'
      <4> SUFFICES ASSUME Steady' PROVE AtLeast(card', wire', rendered)
        BY <2>1 DEF Settling
      <4>1. Steady /\ scut = "no" /\ (text <= TextLimit \/ brk = rendered)
        BY <2>1, <2>5 DEF Steady
      <4>2. AtLeast(card, wire, rendered)
        BY <1>0, <4>1 DEF Settling
      <4>3. rendered <= head
        <5>1. rendered <= Fits(text) /\ rendered <= Failed
          <6>1. Fits(text) < Failed /\ Failed \in Nat
            BY <1>0, Fitting, TextsAreNumbers
          <6>2. rendered <= Fits(text)
            BY <1>0 DEF Newest
          <6> QED
            BY <1>0, <1>t, <6>1, <6>2
        <5>2. ending = "error" => head = Failed
          BY <1>0, <2>1 DEF Headed
        <5>3. ending # "error" /\ text <= TextLimit => head = text /\ Fits(text) = text
          BY <1>0, <2>1, <4>1, Fitting DEF Headed
        <5>4. ending # "error" /\ text > TextLimit => head = brk /\ brk = rendered
          BY <1>0, <2>1, <4>1, TextsAreNumbers DEF Headed
        <5> QED
          BY <1>0, <1>t, <5>1, <5>2, <5>3, <5>4, TextsAreNumbers
      <4> QED
        BY <1>0, <3>1, <4>2, <4>3
    <3>8. Visible'
      BY <2>5 DEF Visible
    <3> QED
      BY <1>k, <3>1, <3>2, <3>3, <3>5, <3>6, <3>7, <3>8 DEF ReplyInv
  <2> QED
    BY <1>4, <2>4, <2>5 DEF FlushAwaited
<1>5. CASE FlushWasCancelled
  <2>1. UNCHANGED <<ending, scut, final, head, whole, brk, updated, shown, refused, text, pend,
                    rendered, sfailed, flush, seq, wire, card>>
        /\ spc = "await" /\ spc' = "over" /\ flush = "cancelled"
    BY <1>5 DEF FlushWasCancelled
  <2>2. Top' = Top
    BY <2>1 DEF Top
  <2>3. ReplyTypes'
    BY <1>0, <2>1 DEF ReplyTypes
  <2>4. Numbered' /\ InHand'
    BY <1>0, <2>1 DEF Numbered, InHand
  <2>5. Newest'
    BY <1>0, <2>1, <2>2 DEF Newest
  <2>6. Headed' /\ Settling'
    BY <2>1 DEF Headed, Settling, Steady
  <2>7. Visible'
    BY <1>0, <2>1 DEF Newest, Visible
  <2> QED
    BY <1>k, <2>1, <2>3, <2>4, <2>5, <2>6, <2>7 DEF ReplyInv
<1>6. CASE CloseStream
  <2>1. UNCHANGED <<ending, scut, final, head, whole, brk, updated, shown, refused, text, pend,
                    rendered, sfailed, flush, wire>>
        /\ spc = "close" /\ seq' = seq + 1
        /\ spc' = (IF ~updated THEN "plain" ELSE IF whole THEN "over" ELSE "tail")
    BY <1>0, <1>6 DEF CloseStream, Plain
  <2>2. /\ card' \in CardRecord /\ card'.text = card.text /\ card'.last <= seq'
        /\ card'.last >= card.last /\ card'.last \in Nat
        /\ card'.mode = "none" => card.mode = "none"
        /\ card' = card \/ card'.last = seq'
    <3>1. card \in CardRecord /\ card.last \in Nat /\ card.last <= seq
      BY <1>0 DEF ReplyTypes, Numbered
    <3>2. CASE card.mode = "open" /\ card' = [card EXCEPT !.mode = "closed", !.last = seq + 1]
      <4> DEFINE n == seq + 1
      <4>1. n \in Nat
        BY <1>0
      <4>2. card' = [card EXCEPT !.mode = "closed", !.last = n]
        BY <3>2
      <4>3. seq' = n
        BY <2>1
      <4>4. n >= card.last
        BY <1>0, <3>1
      <4> HIDE DEF n
      <4>5. /\ card' \in CardRecord /\ card'.text = card.text
            /\ card'.last = n /\ card'.mode = "closed"
        BY <3>1, <4>1, <4>2 DEF CardRecord
      <4> QED
        BY <4>1, <4>3, <4>4, <4>5
    <3>3. CASE UNCHANGED card
      BY <1>0, <2>1, <3>1, <3>3
    <3> QED
      BY <1>6, <3>2, <3>3 DEF CloseStream
  <2>3. /\ \A r \in wire : r.seq > card'.last => r.seq > card.last
        /\ \A r \in wire : r.seq <= seq /\ r.seq <= seq' /\ r.seq < seq'
    BY <1>0, <2>1, <2>2 DEF Numbered
  <2>4. Numbered'
    <3>1. \A r \in wire' : r.res = "wait" /\ r.seq > card'.last /\ r.whole => r.text >= card'.text
      BY <1>0, <2>1, <2>2, <2>3 DEF Numbered
    <3>2. \A r \in wire' : r.res = "ok" => \/ r.seq < card'.last
                                           \/ r.seq = card'.last /\ r.text = card'.text
      BY <1>0, <2>1, <2>2, <2>3 DEF Numbered
    <3>3. /\ \A r, q \in wire' : r.seq = q.seq => r = q
          /\ \A r, q \in wire' : r.seq < q.seq /\ q.whole => r.text <= q.text
      BY <1>0, <2>1 DEF Numbered
    <3> QED
      BY <2>1, <2>2, <2>3, <3>1, <3>2, <3>3 DEF Numbered
  <2>5. ReplyTypes'
    BY <1>0, <2>1, <2>2 DEF ReplyTypes
  <2>6. InHand'
    <3>1. \A r \in wire : r.left
      BY <1>0, <2>1 DEF InHand, Newest
    <3> QED
      BY <1>0, <2>1, <3>1 DEF InHand
  <2>7. Top' = Top /\ \A t : UpTo(card, wire, t) => UpTo(card', wire', t)
    BY <2>1, <2>2 DEF Top, UpTo
  <2>8. \A t : AtLeast(card, wire, t) => AtLeast(card', wire', t)
    BY <2>1, <2>2, <2>3 DEF AtLeast
  <2>9. Newest'
    BY <1>0, <2>1, <2>2, <2>7 DEF Newest
  <2>10. Headed'
    BY <1>0, <2>1, <2>7 DEF Headed
  <2>11. Settling'
    <3>1. Steady' => Steady
      BY <2>1 DEF Steady
    <3> QED
      BY <1>0, <2>1, <2>8, <3>1 DEF Settling
  <2>12. Visible'
    BY <1>0, <2>1, <2>8 DEF Visible, HeadShown
  <2>13. Kept
    BY <1>0, <2>2
  <2> QED
    BY <2>4, <2>5, <2>6, <2>9, <2>10, <2>11, <2>12, <2>13 DEF ReplyInv
<1>7. ASSUME NEW piece \in {"head", "tail"}, SendPlain(piece)
      PROVE  ReplyInv' /\ Kept
  <2>1. UNCHANGED <<scut, brk, updated, text, pend, rendered, sfailed, flush, seq, wire, card>>
        /\ spc = (IF piece = "head" THEN "plain" ELSE "tail")
    BY <1>7 DEF SendPlain
  <2>2. ~Flushing /\ UpTo(card, wire, Top) /\ Finishing
    BY <1>0, <2>1 DEF Newest
  <2>3. Numbered' /\ InHand'
    <3>1. \A r \in wire : r.left
      BY <1>0, <2>1, <2>2 DEF InHand
    <3> QED
      BY <1>0, <2>1, <3>1 DEF Numbered, InHand
  <2>4. CASE /\ UNCHANGED <<ending, final, head, whole>> /\ spc' \in {"tail", "over"}
             /\ shown \subseteq shown'
             /\ ~refused' => spc' = After(piece) /\ <<final, piece>> \in shown' /\ ~refused
    <3>1. ReplyTypes'
      BY <1>0, <2>1, <2>4 DEF ReplyTypes
    <3>2. Top' = Top
      BY <2>1, <2>4 DEF Top
    <3>3. Newest'
      BY <1>0, <2>1, <2>2, <2>4, <3>2 DEF Newest
    <3>4. Headed'
      BY <1>0, <2>1, <2>2, <2>4, <3>2 DEF Headed
    <3>5. Settling'
      BY <1>0, <2>1, <2>2, <2>4 DEF Settling, Steady
    <3>6. ~refused' => HeadShown'
      <4> SUFFICES ASSUME ~refused' PROVE HeadShown'
        OBVIOUS
      <4>1. CASE piece = "head"
        BY <2>4, <4>1 DEF HeadShown
      <4>2. CASE piece = "tail"
        <5>1. HeadShown
          BY <1>0, <2>1, <2>4, <4>2 DEF Visible
        <5> QED
          BY <2>1, <2>4, <5>1 DEF HeadShown
      <4> QED
        BY <4>1, <4>2
    <3>7. ~refused' /\ spc' = "over" => whole' \/ <<final', "tail">> \in shown'
      <4>1. CASE piece = "head"
        BY <2>4, <4>1 DEF After
      <4>2. CASE piece = "tail"
        BY <2>4, <4>2
      <4> QED
        BY <4>1, <4>2
    <3>8. Visible'
      BY <2>4, <3>6, <3>7 DEF Visible
    <3> QED
      BY <1>k, <2>1, <2>3, <3>1, <3>3, <3>4, <3>5, <3>8 DEF ReplyInv
  <2>5. CASE ending = "done" /\ scut = "no" /\ ending' = "error" /\ Begin(Failed)
    <3>1. /\ head' = Failed /\ head' \in Texts /\ whole' \in BOOLEAN /\ final' \in Texts
          /\ spc' = IF card.mode = "none" THEN "plain" ELSE "await"
      BY <1>0, <2>5, Begins
    <3>2. Top' = Failed /\ Failed \in Nat /\ Top <= Failed
      <4>1. Fits(text) < Failed /\ Failed \in Nat
        BY <1>0, Fitting, TextsAreNumbers
      <4> QED
        BY <1>0, <1>t, <2>5, <4>1 DEF Top
    <3>3. ReplyTypes'
      BY <1>0, <2>1, <3>1 DEF ReplyTypes
    <3>4. UpTo(card', wire', Top')
      BY <1>0, <1>t, <2>1, <2>2, <3>2, UpToMore
    <3>5. Newest'
      BY <1>0, <2>1, <2>2, <3>1, <3>4 DEF Newest
    <3>6. Headed'
      BY <2>1, <2>5, <3>1, <3>2 DEF Headed
    <3>7. Settling'
      <4>1. Steady' => Steady
        BY <2>1, <2>2, <2>5, <3>1 DEF Steady
      <4>2. AtLeast(card, wire, rendered) => AtLeast(card', wire', rendered')
        BY <2>1
      <4> QED
        BY <1>0, <4>1, <4>2 DEF Settling
    <3>8. Visible'
      BY <3>1 DEF Visible
    <3> QED
      BY <1>k, <2>1, <2>3, <3>3, <3>5, <3>6, <3>7, <3>8 DEF ReplyInv
  <2>6. \/ spc' = After(piece) /\ shown' = shown \cup {<<final, piece>>}
           /\ UNCHANGED <<ending, final, head, whole, refused>>
        \/ spc' = After(piece) /\ refused' = TRUE /\ UNCHANGED <<ending, final, head, whole, shown>>
        \/ refused' = TRUE /\ UNCHANGED shown /\ spc' = "over"
           /\ UNCHANGED <<ending, final, head, whole>>
        \/ ending = "done" /\ scut = "no" /\ ending' = "error" /\ Begin(Failed)
    BY <1>7 DEF SendPlain
  <2>7. After(piece) \in {"tail", "over"}
    BY DEF After
  <2> QED
    BY <2>4, <2>5, <2>6, <2>7
<1>8. CASE Interrupt
  <2>1. UNCHANGED <<ending, brk, text, pend, rendered, sfailed, seq, card, shown, refused>>
        /\ updated' = FALSE
        /\ scut = "no" /\ spc # "over" /\ (flush' = flush \/ flush' = "cancelled")
        /\ wire' = (IF spc \in {"await", "update"} THEN Left ELSE wire)
    BY <1>8 DEF Interrupt
  <2>2. \A r \in Left : \E q \in wire : r.seq = q.seq /\ r.text = q.text /\ r.res = q.res
                                      /\ r.whole = q.whole /\ r.left /\ r \in Wired
                                      /\ r = [q EXCEPT !.left = TRUE]
    <3> SUFFICES ASSUME NEW r \in Left
                 PROVE  \E q \in wire : r.seq = q.seq /\ r.text = q.text /\ r.res = q.res
                                      /\ r.whole = q.whole /\ r.left /\ r \in Wired
                                      /\ r = [q EXCEPT !.left = TRUE]
      OBVIOUS
    <3>1. PICK q \in wire : r = [q EXCEPT !.left = TRUE]
      BY DEF Left
    <3>2. q \in Wired
      BY <1>0
    <3> QED
      BY <3>1, <3>2 DEF Wired
  <2>3. wire' \subseteq Wired
    BY <1>0, <2>1, <2>2
  <2>4. /\ Numbered' /\ \A t \in Texts : UpTo(card, wire, t) => UpTo(card', wire', t)
        /\ \A t \in Texts : AtLeast(card, wire, t) => AtLeast(card', wire', t)
    <3>1. \A r \in wire' : \E q \in wire : r.seq = q.seq /\ r.text = q.text /\ r.res = q.res
                                          /\ r.whole = q.whole
      BY <2>1, <2>2
    <3>2. \A r, q \in wire' : r.seq = q.seq => r = q
      <4>1. CASE wire' = wire
        BY <1>0, <4>1 DEF Numbered
      <4>2. CASE wire' = Left
        <5> SUFFICES ASSUME NEW r \in wire', NEW q \in wire', r.seq = q.seq PROVE r = q
          OBVIOUS
        <5>1. PICK o \in wire : r.seq = o.seq /\ r = [o EXCEPT !.left = TRUE]
          BY <2>2, <4>2
        <5>2. PICK p \in wire : q.seq = p.seq /\ q = [p EXCEPT !.left = TRUE]
          BY <2>2, <4>2
        <5>3. o = p
          BY <1>0, <5>1, <5>2 DEF Numbered
        <5> QED
          BY <5>1, <5>2, <5>3
      <4> QED
        BY <2>1, <4>1, <4>2
    <3> QED
      BY <1>0, <2>1, <3>1, <3>2, Fewer
  <2>5. \A r \in wire' : \/ r.left /\ spc \in {"await", "update"}
                         \/ flush = "send" /\ spc = "stream" /\ r \in wire /\ ~r.left
    <3>1. CASE spc \in {"await", "update"}
      BY <2>1, <2>2, <3>1
    <3>2. CASE spc \notin {"await", "update"}
      BY <1>0, <2>1, <3>2 DEF InHand, Newest
    <3> QED
      BY <3>1, <3>2
  <2>6. CASE spc = "start" \/ ending = "error"
    <3>1. spc' = "over" /\ scut' \in {"start", "error"} /\ (spc # "start" => scut' = "error")
          /\ UNCHANGED <<final, head, whole>>
      <4>1. CASE spc = "start"
        BY <1>8, <4>1 DEF Interrupt
      <4>2. CASE spc # "start" /\ ending = "error"
        BY <1>8, <4>2 DEF Interrupt
      <4> QED
        BY <2>6, <4>1, <4>2
    <3>2. spc # "stream"
      BY <1>0, <2>6 DEF Newest
    <3>3. flush' \notin {"pick", "send"} /\ (flush' = "cancelled" => spc # "start")
      <4>1. CASE spc = "await"
        BY <1>8, <4>1 DEF Interrupt
      <4>2. CASE spc # "await"
        BY <1>0, <1>8, <3>2, <4>2 DEF Interrupt, Newest
      <4> QED
        BY <4>1, <4>2
    <3>4. ReplyTypes'
      BY <1>0, <2>1, <2>3, <3>1 DEF ReplyTypes
    <3>5. InHand'
      BY <2>5, <3>1, <3>2 DEF InHand
    <3>6. Top <= Top' /\ Top' \in Texts /\ Top' \in Nat
      <4>1. CASE ending = "error"
        BY <1>t, <2>1, <4>1 DEF Top
      <4>2. CASE ending # "error"
        <5>1. Top = Fits(text) /\ Top' = Interrupted
          BY <2>1, <3>1, <4>2 DEF Top
        <5> QED
          BY <1>0, <5>1, Fitting, TextsAreNumbers
      <4> QED
        BY <4>1, <4>2
    <3>7. UpTo(card', wire', Top')
      <4>1. UpTo(card', wire', Top)
        BY <1>0, <1>t, <2>4 DEF Newest
      <4> QED
        BY <1>0, <1>t, <2>1, <2>3, <3>6, <4>1, UpToMore
    <3>8. Newest'
      <4>1. card.mode = "none" => flush' = "none"
        BY <1>0, <1>8 DEF Interrupt, Newest
      <4> QED
        BY <1>0, <2>1, <3>1, <3>3, <3>7, <4>1 DEF Newest
    <3>9. Headed' /\ Settling' /\ Visible'
      BY <3>1 DEF Headed, Settling, Steady, Visible
    <3> QED
      BY <1>k, <2>1, <2>4, <3>4, <3>5, <3>8, <3>9 DEF ReplyInv
  <2>7. CASE ~(spc = "start" \/ ending = "error")
    <3>1. Begin(Interrupted)
      BY <1>8, <2>7 DEF Interrupt
    <3>2. /\ head' \in Texts /\ whole' \in BOOLEAN /\ final' \in Texts /\ head' <= Interrupted
          /\ spc' = IF card.mode = "none" THEN "plain" ELSE "await"
          /\ whole' => head' = Interrupted
          /\ text > TextLimit => head' = brk
      BY <1>0, <3>1, Begins, TextsAreNumbers
    <3>3. /\ scut' # "no" /\ (spc = "await" => scut' = "await")
          /\ (spc # "await" => flush' = flush)
          /\ (spc = "stream" <=> scut' = "stream") /\ scut' \in {"stream", "await", "late"}
          /\ (spc = "await" => flush' \notin {"pick", "send"})
      BY <1>8, <2>7 DEF Interrupt
    <3>4. Top = Fits(text) /\ Top' = Interrupted /\ Fits(text) <= Interrupted
          /\ Interrupted \in Texts /\ Interrupted \in Nat
      BY <1>0, <2>1, <2>7, <3>3, Fitting, TextsAreNumbers DEF Top
    <3>5. UpTo(card', wire', Fits(text)) /\ UpTo(card', wire', Interrupted)
      <4>1. UpTo(card', wire', Fits(text))
        BY <1>0, <1>t, <2>4, <3>4 DEF Newest
      <4> QED
        BY <1>0, <1>t, <2>1, <2>3, <3>4, <4>1, UpToMore
    <3>6. ReplyTypes'
      BY <1>0, <2>1, <2>3, <3>2 DEF ReplyTypes
    <3>7. InHand'
      <4> SUFFICES ASSUME NEW r \in wire'
                   PROVE  IF r.left THEN scut' \notin {"no", "start", "stream"}
                          ELSE (flush' = "send" \/ spc' = "update") /\ r.seq = seq'
        BY DEF InHand
      <4>1. CASE r.left /\ spc \in {"await", "update"}
        BY <3>3, <4>1
      <4>2. CASE flush = "send" /\ spc = "stream" /\ r \in wire /\ ~r.left
        BY <1>0, <2>1, <3>3, <4>2 DEF InHand
      <4> QED
        BY <2>5, <4>1, <4>2
    <3>8. Newest'
      <4>1. card.mode = "none" => flush' = "none" /\ pend' = Unset
        BY <1>0, <1>8, <2>1 DEF Interrupt, Newest
      <4>2. flush' = "cancelled" => scut' \in {"await", "error"}
        BY <1>0, <2>1, <3>3 DEF Newest
      <4>3. pend' # Unset /\ ~sfailed' => pend' = Fits(text')
        BY <1>0, <2>1 DEF Newest
      <4>4. flush' \in {"pick", "send"} =>
              /\ spc' = "await" /\ scut' = "stream" /\ UpTo(card', wire', Fits(text'))
        <5>1. flush' \in {"pick", "send"} => flush \in {"pick", "send"} /\ spc = "stream"
          BY <1>0, <2>1, <3>3 DEF Newest
        <5>2. flush' \in {"pick", "send"} => card.mode # "none"
          BY <4>1
        <5> QED
          BY <2>1, <3>2, <3>3, <3>5, <5>1, <5>2
      <4>5. rendered' <= Fits(text') /\ UpTo(card', wire', Top')
        BY <1>0, <2>1, <3>4, <3>5 DEF Newest
      <4> QED
        BY <2>1, <3>2, <4>1, <4>2, <4>3, <4>4, <4>5 DEF Newest
    <3>9. Headed'
      BY <2>1, <2>7, <3>2, <3>3, <3>4 DEF Headed
    <3>10. Settling'
      <4> SUFFICES ASSUME Steady' PROVE AtLeast(card', wire', rendered')
        BY DEF Settling
      <4>1. spc' = "await" /\ ~sfailed /\ (text <= TextLimit \/ brk = rendered)
        BY <2>1, <3>2, <3>3 DEF Steady
      <4>2. Steady
        BY <1>0, <2>1, <2>7, <4>1 DEF Steady, ReplyTypes
      <4> QED
        BY <1>0, <2>1, <2>4, <4>2 DEF Settling
    <3>11. Visible'
      BY <3>2 DEF Visible
    <3> QED
      BY <1>k, <2>1, <2>4, <3>6, <3>7, <3>8, <3>9, <3>10, <3>11 DEF ReplyInv
  <2> QED
    BY <2>6, <2>7
<1>9. ASSUME NEW why \in {"done", "error"}, Finish(why)
      PROVE  ReplyInv' /\ Kept
  <2>1. UNCHANGED <<scut, brk, updated, shown, refused, text, pend, rendered, sfailed, flush, seq,
                    wire, card>>
        /\ spc = "stream" /\ ending' = why /\ Begin(IF why = "error" THEN Failed ELSE text)
    BY <1>9 DEF Finish
  <2>2. ending = "no" /\ scut = "no" /\ Top = Fits(text) /\ UpTo(card, wire, Fits(text))
    BY <1>0, <2>1 DEF Newest, Top
  <2>3. /\ head' \in Texts /\ whole' \in BOOLEAN /\ final' \in Texts
        /\ spc' = IF card.mode = "none" THEN "plain" ELSE "await"
        /\ Top' \in Texts /\ Top' \in Nat /\ Fits(text) <= Top'
        /\ head' <= Top' /\ (whole' => head' = Top')
        /\ why = "error" => head' = Failed
        /\ why # "error" => /\ text > TextLimit => head' = brk
                            /\ text <= TextLimit => head' = text
    <3>1. CASE why = "error"
      <4>1. Begin(Failed) /\ Top' = Failed
        BY <2>1, <3>1 DEF Top
      <4>2. Failed \in {text, Interrupted, Failed}
        OBVIOUS
      <4>3. /\ head' \in Texts /\ whole' \in BOOLEAN /\ final' \in Texts /\ head' = Failed
            /\ spc' = IF card.mode = "none" THEN "plain" ELSE "await"
        BY <1>0, <4>1, <4>2, Begins
      <4>4. Fits(text) < Failed /\ Failed \in Nat /\ Failed \in Texts
        BY <1>0, Fitting, TextsAreNumbers
      <4> QED
        BY <1>t, <3>1, <4>1, <4>3, <4>4
    <3>2. CASE why = "done"
      <4>1. Begin(text) /\ Top' = Fits(text)
        BY <2>1, <2>2, <3>2 DEF Top
      <4>2. /\ head' \in Texts /\ whole' \in BOOLEAN /\ final' \in Texts
            /\ spc' = IF card.mode = "none" THEN "plain" ELSE "await"
            /\ whole' => head' = text /\ text <= TextLimit
            /\ text # Failed /\ text > TextLimit => head' = brk
            /\ text <= TextLimit => head' = text
            /\ head' <= Fits(text)
        BY <1>0, <4>1, Begins
      <4>3. text # Failed /\ (text <= TextLimit => Fits(text) = text)
        BY <1>0, Fitting, TextsAreNumbers
      <4> QED
        BY <1>t, <3>2, <4>1, <4>2, <4>3
    <3> QED
      BY <3>1, <3>2
  <2>4. ReplyTypes'
    BY <1>0, <2>1, <2>3 DEF ReplyTypes
  <2>5. Numbered' /\ InHand'
    BY <1>0, <2>1 DEF Numbered, InHand
  <2>6. Newest'
    <3>1. UpTo(card', wire', Top')
      BY <1>0, <1>t, <2>1, <2>2, <2>3, UpToMore
    <3>2. flush \in {"pick", "send"} => card.mode # "none"
      BY <1>0 DEF Newest
    <3> QED
      BY <1>0, <2>1, <2>2, <2>3, <3>1, <3>2 DEF Newest
  <2>7. Headed'
    <3>1. ending' = "error" => head' = Failed /\ scut' = "no"
      BY <2>1, <2>2, <2>3
    <3>2. /\ ending' # "error" /\ text' > TextLimit => head' = brk'
          /\ ending' # "error" /\ text' <= TextLimit => head' = text'
      BY <2>1, <2>3
    <3>3. (whole' => head' = Top') /\ head' <= Top'
      BY <2>3
    <3> QED
      BY <3>1, <3>2, <3>3 DEF Headed
  <2>8. Settling'
    BY <1>0, <2>1 DEF Settling, Steady
  <2>9. Visible'
    BY <2>3 DEF Visible
  <2> QED
    BY <1>k, <2>1, <2>4, <2>5, <2>6, <2>7, <2>8, <2>9 DEF ReplyInv
<1>10. ASSUME NEW r \in wire, Arrive(r) PROVE ReplyInv' /\ Kept
  <2>1. UNCHANGED <<spc, ending, scut, final, head, whole, brk, updated, shown, refused, text, pend,
                    rendered, sfailed, flush, seq>>
    BY <1>10 DEF Arrive
  <2>2. /\ card' \in CardRecord /\ wire' \subseteq Wired /\ card'.mode = card.mode
        /\ Numbered' /\ InHand' /\ Kept
        /\ \A t \in Texts : UpTo(card, wire, t) => UpTo(card', wire', t)
        /\ \A t \in Texts : AtLeast(card, wire, t) => AtLeast(card', wire', t)
    BY <1>0, <1>10, Arrives
  <2>3. ReplyTypes'
    BY <1>0, <2>1, <2>2 DEF ReplyTypes
  <2>4. Top' = Top
    BY <2>1 DEF Top
  <2>5. Newest'
    BY <1>0, <1>t, <2>1, <2>2, <2>4 DEF Newest
  <2>6. Headed'
    BY <1>0, <2>1, <2>4 DEF Headed
  <2>7. Settling'
    BY <1>0, <2>1, <2>2 DEF Settling, Steady
  <2>8. head \in Texts
    BY <1>0 DEF ReplyTypes
  <2>9. Visible'
    BY <1>0, <2>1, <2>2, <2>8 DEF Visible, HeadShown
  <2> QED
    BY <2>2, <2>3, <2>5, <2>6, <2>7, <2>9 DEF ReplyInv
<1>11. ASSUME NEW r \in wire, FlushAnswered(r) \/ UpdatedFinal(r)
       PROVE  ReplyInv' /\ Kept
  <2>1. wire' = wire \ {r} /\ UNCHANGED <<seq, card, ending, scut, final, head, whole, brk, shown,
                                          refused, text, pend>>
        /\ ~r.left /\ r \in Wired /\ r.text \in Texts /\ r.res # "wait"
    BY <1>0, <1>11 DEF FlushAnswered, UpdatedFinal, Answer, Wired
  <2>2. r.seq = seq /\ \A q \in wire' : q.left
    BY <1>0, <2>1 DEF InHand, Numbered
  <2>3. /\ Numbered' /\ \A t \in Texts : UpTo(card, wire, t) => UpTo(card', wire', t)
        /\ \A t \in Texts : AtLeast(card, wire, t) => AtLeast(card', wire', t)
    <3>1. \A q \in wire' : q \in wire
      BY <2>1
    <3>2. \A q, p \in wire' : q.seq = p.seq => q = p
      BY <1>0, <3>1 DEF Numbered
    <3> QED
      BY <1>0, <2>1, <3>1, <3>2, Fewer
  <2>4. r.res = "ok" => AtLeast(card', wire', r.text)
    <3>1. r.res = "ok" => card.text = r.text /\ card.last = seq
      BY <1>0, <2>2 DEF Numbered
    <3>2. \A q \in wire' : q.seq <= seq /\ q.seq \in Nat
      BY <1>0, <2>1 DEF Numbered
    <3> QED
      BY <1>0, <2>1, <3>1, <3>2 DEF AtLeast
  <2>5. InHand'
    BY <1>0, <2>1, <2>2 DEF InHand
  <2>6. Top' = Top
    BY <2>1 DEF Top
  <2>7. CASE FlushAnswered(r)
    <3>1. /\ UNCHANGED <<spc, updated>> /\ flush = "send" /\ flush' \in {"pick", "done"}
          /\ \/ r.res = "ok" /\ rendered' = r.text /\ sfailed' = sfailed
             \/ sfailed' = TRUE /\ rendered' = rendered
      BY <2>7 DEF FlushAnswered
    <3>2. ReplyTypes' /\ r.text <= Fits(text)
      <4>1. r.text <= Fits(text)
        BY <1>0, <3>1 DEF Newest, UpTo
      <4>2. rendered' \in Texts /\ sfailed' \in BOOLEAN
        BY <1>0, <2>1, <3>1 DEF ReplyTypes
      <4> QED
        BY <1>0, <2>1, <3>1, <4>1, <4>2 DEF ReplyTypes
    <3>3. Newest'
      BY <1>0, <1>t, <2>1, <2>3, <2>6, <3>1, <3>2 DEF Newest
    <3>4. Headed'
      BY <1>0, <2>1, <2>6, <3>1 DEF Headed
    <3>5. Settling'
      <4>1. CASE r.res = "ok" /\ rendered' = r.text /\ sfailed' = sfailed
        BY <2>4, <4>1 DEF Settling
      <4>2. CASE sfailed' = TRUE
        BY <4>2 DEF Settling, Steady
      <4> QED
        BY <3>1, <4>1, <4>2
    <3>6. Visible'
      BY <1>0, <3>1 DEF Newest, Visible
    <3> QED
      BY <1>k, <2>1, <2>3, <2>5, <3>2, <3>3, <3>4, <3>5, <3>6 DEF ReplyInv
  <2>8. CASE UpdatedFinal(r)
    <3>1. UNCHANGED <<flush, sfailed, rendered>> /\ spc = "update" /\ spc' = "close"
          /\ updated' = (r.res = "ok") /\ r.text = head
      BY <2>8 DEF UpdatedFinal, said
    <3>2. ReplyTypes'
      BY <1>0, <2>1, <3>1 DEF ReplyTypes
    <3>3. Newest'
      BY <1>0, <1>t, <2>1, <2>3, <2>6, <3>1 DEF Newest
    <3>4. Headed'
      BY <1>0, <2>1, <2>6, <3>1 DEF Headed
    <3>5. Settling'
      <4>1. Steady' => Steady
        BY <2>1, <3>1 DEF Steady
      <4> QED
        BY <1>0, <2>1, <2>3, <3>1, <4>1 DEF Settling
    <3>6. Visible'
      BY <2>1, <2>4, <3>1 DEF Visible
    <3> QED
      BY <1>k, <2>1, <2>3, <2>5, <3>2, <3>3, <3>4, <3>5, <3>6 DEF ReplyInv
  <2> QED
    BY <1>11, <2>7, <2>8
<1>12. CASE UNCHANGED svars
  <2>1. Top' = Top /\ card' = card
    BY <1>12 DEF svars, Top
  <2>2. ReplyTypes' /\ Numbered' /\ InHand'
    BY <1>0, <1>12 DEF svars, ReplyTypes, Numbered, InHand
  <2>3. Newest'
    BY <1>0, <1>12, <2>1 DEF svars, Newest
  <2>4. Headed' /\ Settling' /\ Visible'
    BY <1>0, <1>12, <2>1 DEF svars, Headed, Settling, Steady, Visible, HeadShown
  <2> QED
    BY <1>k, <2>1, <2>2, <2>3, <2>4 DEF ReplyInv
<1> QED
  BY <1>1, <1>2, <1>3, <1>4, <1>5, <1>6, <1>7, <1>8, <1>9, <1>10, <1>11, <1>12 DEF SNext

LEMMA ReplyInvariance == SSpec => []ReplyInv
<1>1. ReplyInv /\ [SNext]_svars => ReplyInv'
  BY ReplyStep
<1> QED
  BY <1>1, InitialReply, PTL DEF SSpec

LEMMA ReplyInvImplies == ReplyInv => FinalShown
<1> SUFFICES ASSUME ReplyInv, spc = "over", scut \notin {"start", "await", "error"}, ~refused
             PROVE  /\ card.text >= head \/ <<final, "head">> \in shown
                    /\ whole \/ <<final, "tail">> \in shown
  BY DEF FinalShown
<1> QED
  BY DEF ReplyInv, Visible, HeadShown, AtLeast

(* The card of a reply goes back to an earlier text only by the update that    *)
(* leaves of a long text its first chunk, however updates race, fail or are    *)
(* left behind (_StreamingReply._flush_pending, finish).                       *)
THEOREM CardNeverBack == SSpec => NeverBack
<1>1. ReplyInv /\ [SNext]_svars =>
        [card'.text < card.text =>
           \E r \in wire : r.seq = card'.last /\ r.text = card'.text /\ ~r.whole]_svars
  BY ReplyStep
<1> QED
  BY <1>1, ReplyInvariance, PTL DEF SSpec, NeverBack

(* A reply that is over has shown its final text, in the card or in messages,  *)
(* unless it was interrupted where nobody cleans up or the platform did not    *)
(* take a message (finish, close).                                             *)
THEOREM ReplyShown == SSpec => []FinalShown
  BY ReplyInvariance, ReplyInvImplies, PTL

-----------------------------------------------------------------------------
(* The inductive invariant of BotTransport.                                    *)

SenderRecord == [pc: {"idle", "wait"}, key: Chat \cup {NoChat}, link: Nat, frame: Nat,
                 told: [is: {"none", "ok", "expired"}, of: Nat],
                 does: {"none", "open", "update", "finish", "file"}]
Frame == [is: {"subscribed", "pong"}] \cup [is: {"ok", "expired"}, key: Chat, of: Nat]
LinkTypes ==
    /\ loop \in {"wait", "open", "auth", "live", "closing", "over"}
    /\ opened \in Nat /\ ws \in 0 .. opened /\ carries \in BOOLEAN
    /\ heart \in [pending: BOOLEAN, missed: 0 .. MaxMissed - 1]
    /\ since \in Nat /\ unheard \in Nat /\ aborted \in Nat /\ frames \in Nat
    /\ sender \in [Sender -> SenderRecord] /\ futures \in [Chat -> Sender \cup {NoSender}]
    /\ \A s \in Sender : sender[s].pc = "wait" => sender[s].key \in Chat
    /\ streamReq \in Chat \cup {NoChat} /\ inbox \in Seq(Frame)
    /\ crossed \in BOOLEAN /\ strayed \in BOOLEAN /\ streaming \subseteq Chat

(* A network that carries nothing brings nothing, and it carries nothing       *)
(* between two connections.                                                    *)
Silent ==
    /\ ~carries => inbox = <<>>
    /\ loop \in {"wait", "open", "over"} => ~carries
    /\ loop \in {"auth", "live"} => ws = opened

(* What the heart has missed, it has sent; what nobody heard, it has missed.   *)
Counted ==
    /\ since >= heart.missed + (IF heart.pending THEN 1 ELSE 0)
    /\ ~heart.pending => heart.missed = 0
    /\ carries => unheard = 0
    /\ unheard > 0 => heart.pending /\ heart.missed + 1 >= unheard

Hoping(s) == Waits(s) /\ sender[s].told = Untold

(* Between two connections nobody waits, after that only for the new one.      *)
Settled ==
    /\ loop \in {"wait", "open"} => \A s \in Sender : ~Hoping(s)
    /\ loop \in {"auth", "live"} => \A s \in Sender : Hoping(s) => sender[s].link = opened

(* While no two cards were open at once, the streams reply to the one chat.    *)
Alone == crossed \/ (~strayed /\ \A c \in streaming : streamReq \in {c, NoChat})

LinkInv == LinkTypes /\ Silent /\ Counted /\ aborted >= MaxMissed /\ Settled /\ Alone

LEMMA LinkConstants ==
  /\ MaxMissed \in Nat /\ MaxMissed > 0 /\ NoSender \notin Sender
  /\ Rest \in SenderRecord /\ Rest.pc = "idle" /\ Rest.told = Untold
  /\ \A c \in Chat : <<c, "stream">> \in Sender
  /\ \A c \in Files : <<c, "file">> \in Sender /\ c \in Chat
<1>1. NoSender \notin Sender
  BY DEF NoSender, Sender
<1>2. Rest \in SenderRecord /\ Rest.pc = "idle" /\ Rest.told = Untold
  BY DEF Rest, SenderRecord, NoChat, Untold
<1> QED
  BY <1>1, <1>2, TransportAssumption DEF Sender

LEMMA InitialLink == TInit => LinkInv
<1> SUFFICES ASSUME TInit PROVE LinkInv
  OBVIOUS
<1> USE LinkConstants
<1>1. LinkTypes
  <2>1. heart \in [pending: BOOLEAN, missed: 0 .. MaxMissed - 1]
    BY DEF TInit
  <2>2. /\ sender \in [Sender -> SenderRecord]
        /\ \A s \in Sender : sender[s].pc # "wait"
    BY DEF TInit
  <2>3. inbox \in Seq(Frame) /\ futures \in [Chat -> Sender \cup {NoSender}]
    BY DEF TInit
  <2>4. /\ loop = "open" /\ opened = 0 /\ ws \in 0 .. opened /\ carries = FALSE /\ since = 0
        /\ unheard = 0 /\ aborted = MaxMissed /\ frames = 0 /\ streamReq = NoChat
        /\ crossed = FALSE /\ strayed = FALSE /\ streaming = {}
    BY DEF TInit
  <2> QED
    BY <2>1, <2>2, <2>3, <2>4 DEF LinkTypes
<1>2. Silent /\ Counted /\ Alone /\ aborted >= MaxMissed
  BY DEF TInit, Silent, Counted, Alone
<1>3. Settled
  BY DEF TInit, Settled, Hoping, Waits
<1> QED
  BY <1>1, <1>2, <1>3 DEF LinkInv

-----------------------------------------------------------------------------
(* The connection and its heart.                                               *)

Callers == Settled /\ Alone

(* Nothing changes for those who wait, and the connection is no other.         *)
LEMMA SameCallers ==
  ASSUME Callers, UNCHANGED <<calls, opened>>,
         loop' \in {"auth", "live"} => loop \in {"auth", "live"},
         loop' \in {"wait", "open"} => loop \in {"wait", "open"}
  PROVE  Callers'
BY DEF Callers, Settled, Alone, Hoping, Waits, calls

LEMMA FrameTaken ==
  ASSUME inbox \in Seq(Frame), inbox # <<>>, inbox' = Tail(inbox)
  PROVE  inbox' \in Seq(Frame) /\ Head(inbox) \in Frame
OBVIOUS

LEMMA FrameComes ==
  ASSUME inbox \in Seq(Frame), NEW f \in Frame
  PROVE  Append(inbox, f) \in Seq(Frame)
OBVIOUS

LEMMA ConnectionStep ==
  ASSUME LinkInv,
         \/ Connect \/ ConnectFails \/ Subscribed \/ SubscribeTimesOut \/ Closes \/ NetworkDies
         \/ Again \/ StopLoop
  PROVE  LinkInv'
<1> USE DEF beat
<1>0. LinkTypes /\ Silent /\ Counted /\ Callers /\ aborted >= MaxMissed
      /\ opened \in Nat /\ ws \in 0 .. opened /\ opened + 1 \in Nat
  BY DEF LinkInv, LinkTypes, Callers
<1>1. CASE Connect
  <2>1. /\ loop = "open" /\ loop' = "auth" /\ opened' = opened + 1 /\ ws' = opened + 1 /\ carries' = TRUE
        /\ inbox' = <<[is |-> "subscribed"]>> /\ heart' = [pending |-> FALSE, missed |-> 0]
        /\ since' = 0 /\ unheard' = 0 /\ UNCHANGED <<aborted, calls>>
    BY <1>1 DEF Connect, FreshHeart
  <2>2. heart' \in [pending: BOOLEAN, missed: 0 .. MaxMissed - 1]
    BY <2>1, LinkConstants
  <2>3. inbox' \in Seq(Frame)
    <3>1. [is |-> "subscribed"] \in Frame
      BY DEF Frame
    <3> QED
      BY <2>1, <3>1
  <2>4. LinkTypes'
    BY <1>0, <2>1, <2>2, <2>3 DEF LinkTypes, calls
  <2>5. Silent' /\ Counted'
    BY <2>1 DEF Silent, Counted
  <2>6. Settled' /\ Alone'
    BY <1>0, <2>1 DEF Callers, Settled, Alone, Hoping, Waits, calls
  <2> QED
    BY <1>0, <2>1, <2>4, <2>5, <2>6 DEF LinkInv
<1>2. CASE ConnectFails
  <2>1. /\ loop = "open" /\ loop' = "closing" /\ opened' = opened + 1
        /\ UNCHANGED <<ws, carries, inbox, beat, calls>>
    BY <1>2 DEF ConnectFails
  <2>2. LinkTypes'
    BY <1>0, <2>1 DEF LinkTypes, calls
  <2>3. Silent' /\ Counted'
    BY <1>0, <2>1 DEF Silent, Counted
  <2>4. Settled' /\ Alone'
    BY <1>0, <2>1 DEF Callers, Settled, Alone, calls
  <2> QED
    BY <1>0, <2>1, <2>2, <2>3, <2>4 DEF LinkInv
<1>3. CASE Subscribed \/ SubscribeTimesOut \/ Closes \/ NetworkDies \/ Again \/ StopLoop
  <2>1. UNCHANGED <<opened, beat, calls>>
    BY <1>3 DEF Subscribed, SubscribeTimesOut, Closes, NetworkDies, Again, StopLoop
  <2>7. inbox' \in Seq(Frame)
    <3>1. inbox \in Seq(Frame)
      BY <1>0 DEF LinkTypes
    <3>2. inbox' = inbox \/ inbox' = <<>> \/ (inbox # <<>> /\ inbox' = Tail(inbox))
      BY <1>3 DEF Subscribed, SubscribeTimesOut, Closes, NetworkDies, Again, StopLoop
    <3>3. <<>> \in Seq(Frame)
      OBVIOUS
    <3>4. CASE inbox # <<>> /\ inbox' = Tail(inbox)
      BY <3>1, <3>4, FrameTaken
    <3> QED
      BY <3>1, <3>2, <3>3, <3>4
  <2>8. (ws' = ws \/ ws' = 0) /\ loop' \in {"wait", "open", "auth", "live", "closing", "over"}
    BY <1>3 DEF Subscribed, SubscribeTimesOut, Closes, NetworkDies, Again, StopLoop
  <2>9. carries' = carries \/ carries' = FALSE
    BY <1>3, Zenon DEF Subscribed, SubscribeTimesOut, Closes, NetworkDies, Again, StopLoop
  <2>2. LinkTypes'
    <3>1. ws' \in 0 .. opened'
      BY <1>0, <2>1, <2>8
    <3>2. carries' \in BOOLEAN
      BY <1>0, <2>9, Zenon DEF LinkTypes
    <3> QED
      BY <1>0, <2>1, <2>7, <2>8, <3>1, <3>2 DEF LinkTypes, calls
  <2>3. Silent'
    BY <1>0, <1>3 DEF Subscribed, SubscribeTimesOut, Closes, NetworkDies, Again, StopLoop, Silent
  <2>4. Counted'
    BY <1>0, <2>1, <2>9 DEF Counted
  <2>5. /\ loop' \in {"auth", "live"} => loop \in {"auth", "live"}
        /\ loop' \in {"wait", "open"} => loop \in {"wait", "open"}
    BY <1>3 DEF Subscribed, SubscribeTimesOut, Closes, NetworkDies, Again, StopLoop
  <2>6. Callers'
    BY <1>0, <2>1, <2>5, SameCallers
  <2> QED
    BY <1>0, <2>1, <2>2, <2>3, <2>4, <2>6 DEF LinkInv, Callers
<1> QED
  BY <1>1, <1>2, <1>3

LEMMA HeartStep ==
  ASSUME LinkInv, Ping \/ Abort \/ Pong
  PROVE  LinkInv'
<1> USE DEF beat
<1>0. LinkTypes /\ Silent /\ Counted /\ Callers /\ aborted >= MaxMissed
      /\ opened \in Nat /\ ws \in 0 .. opened /\ heart.missed \in 0 .. MaxMissed - 1
      /\ heart.pending \in BOOLEAN /\ since \in Nat /\ unheard \in Nat /\ MaxMissed \in Nat
  BY LinkConstants DEF LinkInv, LinkTypes, Callers
<1>1. CASE Ping
  <2>1. /\ loop = "live" /\ Missing < MaxMissed /\ heart' = [pending |-> TRUE, missed |-> Missing]
        /\ since' = since + 1 /\ unheard' = (IF carries THEN 0 ELSE unheard + 1)
        /\ inbox' = (IF carries THEN Append(inbox, [is |-> "pong"]) ELSE inbox)
        /\ UNCHANGED <<loop, ws, opened, carries, aborted, calls>>
    BY <1>1 DEF Ping, Beats
  <2>2. Missing \in 0 .. MaxMissed - 1 /\ since >= Missing
        /\ Missing = heart.missed + (IF heart.pending THEN 1 ELSE 0)
    BY <1>0, <2>1 DEF Missing, Counted
  <2>3. heart'.pending = TRUE /\ heart'.missed = Missing
        /\ heart' \in [pending: BOOLEAN, missed: 0 .. MaxMissed - 1]
    BY <2>1, <2>2
  <2>4. inbox' \in Seq(Frame)
    <3>1. [is |-> "pong"] \in Frame
      BY DEF Frame
    <3> QED
      BY <1>0, <2>1, <3>1, FrameComes DEF LinkTypes
  <2>5. LinkTypes'
    BY <1>0, <2>1, <2>3, <2>4 DEF LinkTypes, calls
  <2>6. Counted'
    <3>1. since' >= heart'.missed + 1
      BY <1>0, <2>1, <2>2, <2>3
    <3>2. ~carries => heart'.missed + 1 >= unheard'
      BY <1>0, <2>1, <2>2, <2>3 DEF Counted
    <3> QED
      BY <2>1, <2>3, <3>1, <3>2 DEF Counted
  <2>7. Silent'
    BY <1>0, <2>1 DEF Silent
  <2>8. Callers'
    BY <1>0, <2>1, SameCallers
  <2> QED
    BY <1>0, <2>1, <2>5, <2>6, <2>7, <2>8 DEF LinkInv, Callers
<1>2. CASE Abort
  <2>1. /\ loop = "live" /\ Missing = MaxMissed /\ aborted' = since /\ loop' = "closing" /\ ws' = 0
        /\ UNCHANGED <<opened, carries, inbox, heart, since, unheard, calls>>
    BY <1>2 DEF Abort
  <2>2. since >= MaxMissed
    BY <1>0, <2>1 DEF Missing, Counted
  <2>3. LinkTypes'
    BY <1>0, <2>1 DEF LinkTypes, calls
  <2>4. Silent' /\ Counted'
    BY <1>0, <2>1 DEF Silent, Counted
  <2>5. Callers'
    BY <1>0, <2>1, SameCallers
  <2> QED
    BY <2>1, <2>2, <2>3, <2>4, <2>5 DEF LinkInv, Callers
<1>3. CASE Pong
  <2>1. /\ loop = "live" /\ inbox # <<>> /\ inbox' = Tail(inbox)
        /\ heart' = [pending |-> FALSE, missed |-> 0] /\ since' = 0
        /\ UNCHANGED <<loop, ws, opened, carries, unheard, aborted, calls>>
    BY <1>3 DEF Pong, Next_
  <2>2. inbox' \in Seq(Frame) /\ carries
    BY <1>0, <2>1, FrameTaken DEF LinkTypes, Silent
  <2>3. heart' \in [pending: BOOLEAN, missed: 0 .. MaxMissed - 1]
    BY <2>1, LinkConstants
  <2>4. LinkTypes'
    BY <1>0, <2>1, <2>2, <2>3 DEF LinkTypes, calls
  <2>5. Silent' /\ Counted'
    BY <1>0, <2>1, <2>2 DEF Silent, Counted
  <2>6. Callers'
    BY <1>0, <2>1, SameCallers
  <2> QED
    BY <1>0, <2>1, <2>4, <2>5, <2>6 DEF LinkInv, Callers
<1> QED
  BY <1>1, <1>2, <1>3
-----------------------------------------------------------------------------
(* Those who send and wait.                                                    *)

idle == <<netState, beat>>

(* Who waits without an answer either did before, over the same connection, or *)
(* has just sent.                                                              *)
LEMMA CallersKeep ==
  ASSUME LinkInv, UNCHANGED <<loop, opened>>,
         \A s \in Sender : Hoping(s)' =>
            \/ Hoping(s) /\ sender'[s].link = sender[s].link
            \/ loop \in {"auth", "live"} /\ sender'[s].link = opened
  PROVE  Settled'
BY DEF LinkInv, Settled

LEMMA AloneKeeps ==
  ASSUME Alone, streaming' \subseteq streaming, streamReq' \in {streamReq, NoChat},
         UNCHANGED <<crossed, strayed>>
  PROVE  Alone'
BY DEF Alone

LEMMA AckStep ==
  ASSUME LinkInv, NEW is \in {"ok", "expired"}, Ack(is)
  PROVE  LinkInv'
<1> DEFINE s == futures[Head(inbox).key]
           told == [is |-> is, of |-> Head(inbox).of]
<1>1. /\ loop = "live" /\ inbox # <<>> /\ Head(inbox).is = is /\ inbox' = Tail(inbox)
      /\ UNCHANGED <<loop, ws, opened, carries, beat, futures, streamReq, streaming, crossed,
                     strayed, frames>>
      /\ sender' = IF s # NoSender /\ IsOf(s) THEN [sender EXCEPT ![s].told = told] ELSE sender
  BY DEF Ack, Next_
<1>2. LinkTypes /\ Silent /\ Counted /\ Settled /\ Alone /\ aborted >= MaxMissed
  BY DEF LinkInv
<1>3. inbox' \in Seq(Frame) /\ Head(inbox) \in Frame
  BY <1>1, <1>2, FrameTaken DEF LinkTypes
<1>4. Head(inbox).key \in Chat /\ told \in [is: {"none", "ok", "expired"}, of: Nat]
      /\ s \in Sender \cup {NoSender} /\ told # Untold
  <2>1. Head(inbox) \in [is: {"ok", "expired"}, key: Chat, of: Nat]
    BY <1>1, <1>3 DEF Frame
  <2> QED
    BY <1>2, <2>1 DEF LinkTypes, Untold
<1> HIDE DEF s, told
<1>5. /\ sender' \in [Sender -> SenderRecord]
      /\ \A x \in Sender : /\ sender'[x].pc = sender[x].pc /\ sender'[x].key = sender[x].key
                          /\ sender'[x].link = sender[x].link
                          /\ sender'[x].told = Untold => sender[x].told = Untold
  <2>1. CASE sender' = sender
    BY <1>2, <2>1 DEF LinkTypes
  <2>2. CASE s # NoSender /\ sender' = [sender EXCEPT ![s].told = told]
    <3>1. sender \in [Sender -> SenderRecord] /\ s \in Sender
      BY <1>2, <1>4, <2>2 DEF LinkTypes
    <3> DEFINE n == [sender[s] EXCEPT !.told = told]
    <3>3. /\ n \in SenderRecord /\ n.pc = sender[s].pc /\ n.key = sender[s].key
          /\ n.link = sender[s].link /\ n.told = told
      BY <1>4, <3>1 DEF SenderRecord
    <3>4. sender' = [sender EXCEPT ![s] = n]
      BY <2>2
    <3> HIDE DEF n
    <3> QED
      BY <1>4, <3>1, <3>3, <3>4
  <2> QED
    BY <1>1, <2>1, <2>2
<1>6. LinkTypes'
  BY <1>1, <1>2, <1>3, <1>5 DEF LinkTypes, beat
<1>7. Silent' /\ Counted' /\ Alone' /\ aborted' >= MaxMissed
  BY <1>1, <1>2 DEF Silent, Counted, Alone, beat
<1>8. Settled'
  <2>1. \A x \in Sender : Hoping(x)' => Hoping(x) /\ sender'[x].link = sender[x].link
    BY <1>1, <1>5 DEF Hoping, Waits
  <2> QED
    BY <1>1, <2>1, CallersKeep
<1> QED
  BY <1>6, <1>7, <1>8 DEF LinkInv

(* A frame is sent over the connection that is.                                *)
LEMMA SentFrame ==
  ASSUME LinkInv, NEW s \in Sender, NEW key \in Chat,
         NEW does \in {"open", "update", "finish", "file"},
         CanSend, Sent(s, key, does), Shows(s, key), UNCHANGED <<loop, ws, opened, carries, beat>>,
         streamReq' \in Chat \cup {NoChat}, streaming' \subseteq Chat, crossed' \in BOOLEAN, Alone'
  PROVE  LinkInv'
<1>1. LinkTypes /\ Silent /\ Counted /\ Settled /\ aborted >= MaxMissed
      /\ loop \in {"auth", "live"} /\ ws = opened /\ ws \in Nat /\ frames \in Nat
  BY DEF LinkInv, CanSend, Silent, LinkTypes
<1> DEFINE n == [pc |-> "wait", key |-> key, link |-> ws, frame |-> frames + 1, told |-> Untold,
                 does |-> does]
<1>2. n \in SenderRecord /\ n.pc = "wait" /\ n.key = key /\ n.link = opened
  BY <1>1 DEF SenderRecord, Untold
<1>3. sender' = [sender EXCEPT ![s] = n] /\ futures' = [futures EXCEPT ![key] = s] /\ frames' = frames + 1
  BY DEF Sent
<1> HIDE DEF n
<1>4. inbox' \in Seq(Frame) /\ strayed' \in BOOLEAN /\ (~carries => inbox' = inbox)
  <2>1. CASE carries
    <3>1. PICK is \in {"ok", "expired"} :
             /\ inbox' = Append(inbox, [is |-> is, key |-> key, of |-> frames + 1])
             /\ strayed' = (strayed \/ (is = "ok" /\ key # s[1]))
      BY <2>1 DEF Shows
    <3>2. [is |-> is, key |-> key, of |-> frames + 1] \in Frame
      BY <1>1 DEF Frame
    <3>3. inbox' \in Seq(Frame)
      BY <1>1, <3>1, <3>2, FrameComes DEF LinkTypes
    <3>4. strayed' \in BOOLEAN
      BY <3>1
    <3> QED
      BY <2>1, <3>3, <3>4
  <2>2. CASE ~carries
    BY <1>1, <2>2 DEF Shows, LinkTypes
  <2> QED
    BY <2>1, <2>2
<1>5. /\ sender' \in [Sender -> SenderRecord] /\ futures' \in [Chat -> Sender \cup {NoSender}]
      /\ \A x \in Sender : x # s => sender'[x] = sender[x]
      /\ sender'[s] = n /\ \A k \in Chat : futures'[k] = s \/ futures'[k] = futures[k]
  BY <1>1, <1>2, <1>3 DEF LinkTypes
<1>6. \A x \in Sender : sender'[x].pc = "wait" => sender'[x].key \in Chat
  BY <1>1, <1>2, <1>5 DEF LinkTypes
<1>7. LinkTypes'
  BY <1>1, <1>3, <1>4, <1>5, <1>6 DEF LinkTypes, beat
<1>8. Silent' /\ Counted' /\ aborted' >= MaxMissed
  BY <1>1, <1>4 DEF Silent, Counted, beat
<1>9. ASSUME NEW x \in Sender, Hoping(x)'
      PROVE  \/ Hoping(x) /\ sender'[x].link = sender[x].link
             \/ loop \in {"auth", "live"} /\ sender'[x].link = opened
  <2>1. CASE x = s
    BY <1>1, <1>2, <1>5, <2>1
  <2>2. CASE x # s
    <3>1. sender'[x] = sender[x] /\ sender[x].key \in Chat /\ futures'[sender[x].key] = x
      BY <1>1, <1>5, <1>9, <2>2 DEF Hoping, Waits, LinkTypes
    <3>2. futures[sender[x].key] = x
      BY <1>5, <2>2, <3>1
    <3> QED
      BY <1>9, <3>1, <3>2 DEF Hoping, Waits
  <2> QED
    BY <2>1, <2>2
<1>10. Settled'
  BY <1>9, CallersKeep
<1> QED
  BY <1>7, <1>8, <1>10 DEF LinkInv

LEMMA StrayedOnly ==
  ASSUME strayed \in BOOLEAN, NEW s, NEW key, Shows(s, key), key = s[1]
  PROVE  strayed' = strayed
<1>1. CASE carries
  BY <1>1 DEF Shows
<1>2. CASE ~carries
  BY <1>2 DEF Shows
<1> QED
  BY <1>1, <1>2

LEMMA SendStep ==
  ASSUME LinkInv,
         \/ \E c \in Chat : StartStream(c) \/ \E does \in {"update", "finish"} : UpdateStream(c, does)
         \/ \E c \in Files : SendFile(c)
  PROVE  LinkInv'
<1>0. LinkTypes /\ Alone /\ strayed \in BOOLEAN /\ crossed \in BOOLEAN /\ streaming \subseteq Chat
  BY DEF LinkInv, LinkTypes
<1>1. ASSUME NEW c \in Chat, StartStream(c) PROVE LinkInv'
  <2>1. /\ CanSend /\ Sent(<<c, "stream">>, c, "open") /\ Shows(<<c, "stream">>, c)
        /\ streamReq' = c /\ streaming' = streaming \cup {c}
        /\ crossed' = (crossed \/ streaming # {})
        /\ UNCHANGED <<loop, ws, opened, carries, beat>>
    BY <1>1 DEF StartStream
  <2>2. strayed' = strayed
    BY <1>0, <2>1, StrayedOnly
  <2>3. Alone'
    <3>1. CASE crossed'
      BY <3>1 DEF Alone
    <3>2. CASE ~crossed'
      <4>1. ~crossed /\ streaming = {}
        BY <2>1, <3>2
      <4> QED
        BY <1>0, <2>1, <2>2, <4>1 DEF Alone
    <3> QED
      BY <3>1, <3>2
  <2>4. crossed' \in BOOLEAN
    BY <2>1
  <2>5. streamReq' \in Chat \cup {NoChat} /\ streaming' \subseteq Chat
    BY <1>0, <2>1
  <2> QED
    BY <2>1, <2>3, <2>4, <2>5, LinkConstants, SentFrame
<1>2. ASSUME NEW c \in Chat, NEW does \in {"update", "finish"}, UpdateStream(c, does) PROVE LinkInv'
  <2>1. /\ CanSend /\ Sent(<<c, "stream">>, streamReq, does) /\ Shows(<<c, "stream">>, streamReq)
        /\ c \in streaming /\ streamReq # NoChat
        /\ UNCHANGED <<loop, ws, opened, carries, beat, streamReq, streaming, crossed>>
    BY <1>2 DEF UpdateStream
  <2>2. streamReq \in Chat
    BY <1>0, <2>1 DEF LinkTypes
  <2>3. Alone'
    <3>1. CASE crossed
      BY <2>1, <3>1 DEF Alone
    <3>2. CASE ~crossed
      <4>1. streamReq = c /\ ~strayed
        BY <1>0, <2>1, <3>2 DEF Alone
      <4>2. strayed' = strayed
        BY <1>0, <2>1, <4>1, StrayedOnly
      <4> QED
        BY <1>0, <2>1, <3>2, <4>1, <4>2 DEF Alone
    <3> QED
      BY <3>1, <3>2
  <2>4. streamReq' \in Chat \cup {NoChat} /\ streaming' \subseteq Chat /\ crossed' \in BOOLEAN
    BY <1>0, <2>1, <2>2
  <2> QED
    BY <2>1, <2>2, <2>3, <2>4, LinkConstants, SentFrame
<1>3. ASSUME NEW c \in Files, SendFile(c) PROVE LinkInv'
  <2>1. /\ CanSend /\ Sent(<<c, "file">>, c, "file") /\ Shows(<<c, "file">>, c)
        /\ UNCHANGED <<loop, ws, opened, carries, beat, streamReq, streaming, crossed>>
    BY <1>3 DEF SendFile
  <2>2. strayed' = strayed /\ c \in Chat
    BY <1>0, <2>1, StrayedOnly, LinkConstants
  <2>3. Alone'
    BY <1>0, <2>1, <2>2 DEF Alone
  <2>4. streamReq' \in Chat \cup {NoChat} /\ streaming' \subseteq Chat /\ crossed' \in BOOLEAN
    BY <1>0, <2>1 DEF LinkTypes
  <2> QED
    BY <2>1, <2>2, <2>3, <2>4, LinkConstants, SentFrame
<1> QED
  BY <1>1, <1>2, <1>3

(* A call ends: its record is clear, and its id is free.                       *)
LEMMA EndStep ==
  ASSUME LinkInv, NEW s \in Sender, NEW well \in BOOLEAN, sender[s].pc = "wait", Ends(s, well)
  PROVE  LinkInv'
<1>1. LinkTypes /\ Silent /\ Counted /\ Settled /\ Alone /\ aborted >= MaxMissed
      /\ sender[s].key \in Chat
  BY DEF LinkInv, LinkTypes
<1>2. /\ sender' = [sender EXCEPT ![s] = Rest]
      /\ futures' = [futures EXCEPT ![sender[s].key] = NoSender]
      /\ streaming' \subseteq streaming /\ streamReq' \in {streamReq, NoChat}
      /\ UNCHANGED <<netState, beat, crossed, strayed, frames>>
  <2>1. OverWithout({s}) \subseteq streaming /\ ReqWithout({s}) \in {streamReq, NoChat}
    BY DEF OverWithout, ReqWithout
  <2> QED
    BY <2>1 DEF Ends
<1>3. /\ sender' \in [Sender -> SenderRecord] /\ futures' \in [Chat -> Sender \cup {NoSender}]
      /\ \A x \in Sender : x # s => sender'[x] = sender[x]
      /\ sender'[s].pc = "idle" /\ \A k \in Chat : futures'[k] = NoSender \/ futures'[k] = futures[k]
  BY <1>1, <1>2, LinkConstants DEF LinkTypes
<1>4. LinkTypes'
  <2>1. \A x \in Sender : sender'[x].pc = "wait" => sender'[x].key \in Chat
    BY <1>1, <1>3 DEF LinkTypes
  <2>2. streaming' \subseteq Chat /\ streamReq' \in Chat \cup {NoChat}
    BY <1>1, <1>2 DEF LinkTypes
  <2> QED
    BY <1>1, <1>2, <1>3, <2>1, <2>2 DEF LinkTypes, beat, netState
<1>5. Silent' /\ Counted' /\ aborted' >= MaxMissed
  BY <1>1, <1>2 DEF Silent, Counted, beat, netState
<1>6. Alone'
  BY <1>1, <1>2, AloneKeeps
<1>7. \A x \in Sender : Hoping(x)' => Hoping(x) /\ sender'[x].link = sender[x].link
  <2> SUFFICES ASSUME NEW x \in Sender, Hoping(x)'
               PROVE  Hoping(x) /\ sender'[x].link = sender[x].link
    OBVIOUS
  <2>1. x # s
    BY <1>3 DEF Hoping, Waits
  <2>2. sender'[x] = sender[x] /\ sender[x].key \in Chat /\ futures'[sender[x].key] = x
    BY <1>1, <1>3, <2>1 DEF Hoping, Waits, LinkTypes
  <2>3. futures[sender[x].key] = x
    BY <1>3, <2>2, LinkConstants
  <2> QED
    BY <2>2, <2>3 DEF Hoping, Waits
<1>8. Settled'
  BY <1>2, <1>7, CallersKeep DEF netState
<1> QED
  BY <1>4, <1>5, <1>6, <1>8 DEF LinkInv

LEMMA CardStep ==
  ASSUME LinkInv, NEW c \in Chat, Unopened(c) \/ Unfinished(c)
  PROVE  LinkInv'
<1>1. LinkTypes /\ Silent /\ Counted /\ Settled /\ Alone /\ aborted >= MaxMissed
  BY DEF LinkInv
<1>2. /\ UNCHANGED <<netState, beat, sender, futures, crossed, strayed, frames>>
      /\ streaming' \subseteq streaming /\ streamReq' \in {streamReq, NoChat}
  BY DEF Unopened, Unfinished
<1>3. LinkTypes'
  BY <1>1, <1>2 DEF LinkTypes, beat, netState
<1>4. Silent' /\ Counted' /\ aborted' >= MaxMissed
  BY <1>1, <1>2 DEF Silent, Counted, beat, netState
<1>5. Alone'
  BY <1>1, <1>2, AloneKeeps
<1>6. Settled'
  BY <1>1, <1>2 DEF Settled, Hoping, Waits, netState
<1> QED
  BY <1>3, <1>4, <1>5, <1>6 DEF LinkInv

(* _reject_all_pending: nobody who waits is left without an answer.            *)
LEMMA SettleStep ==
  ASSUME LinkInv, Settle
  PROVE  LinkInv'
<1>1. LinkTypes /\ Silent /\ Counted /\ Settled /\ Alone /\ aborted >= MaxMissed
  BY DEF LinkInv
<1>2. /\ loop' = "wait" /\ inbox' = <<>> /\ carries' = FALSE
      /\ sender' = [s \in Sender |-> IF s \in Unanswered THEN Rest ELSE sender[s]]
      /\ futures' = [c \in Chat |-> IF futures[c] \in Rejected THEN NoSender ELSE futures[c]]
      /\ streaming' \subseteq streaming /\ streamReq' \in {streamReq, NoChat}
      /\ UNCHANGED <<ws, opened, beat, crossed, strayed, frames>>
  <2>1. OverWithout(Unanswered) \subseteq streaming /\ ReqWithout(Unanswered) \in {streamReq, NoChat}
    BY DEF OverWithout, ReqWithout
  <2> QED
    BY <2>1 DEF Settle
<1>3. /\ sender' \in [Sender -> SenderRecord] /\ futures' \in [Chat -> Sender \cup {NoSender}]
  BY <1>1, <1>2, LinkConstants DEF LinkTypes
<1>4. LinkTypes'
  <2>1. \A x \in Sender : sender'[x].pc = "wait" => sender'[x].key \in Chat
    BY <1>1, <1>2, LinkConstants DEF LinkTypes
  <2>2. streaming' \subseteq Chat /\ streamReq' \in Chat \cup {NoChat} /\ inbox' \in Seq(Frame)
    BY <1>1, <1>2 DEF LinkTypes
  <2> QED
    BY <1>1, <1>2, <1>3, <2>1, <2>2 DEF LinkTypes, beat
<1>5. Silent' /\ Counted' /\ aborted' >= MaxMissed
  BY <1>1, <1>2 DEF Silent, Counted, beat
<1>6. Alone'
  BY <1>1, <1>2, AloneKeeps
<1>7. \A x \in Sender : ~Hoping(x)'
  <2> SUFFICES ASSUME NEW x \in Sender, Hoping(x)' PROVE FALSE
    OBVIOUS
  <2>1. x \notin Unanswered /\ sender'[x] = sender[x] /\ sender[x].pc = "wait"
        /\ sender[x].told = Untold /\ sender[x].key \in Chat
    BY <1>1, <1>2, LinkConstants DEF Hoping, Waits, LinkTypes
  <2>2. futures'[sender[x].key] = x
    BY <2>1 DEF Hoping, Waits
  <2>3. futures[sender[x].key] = x
    BY <1>2, <2>1, <2>2, LinkConstants
  <2> QED
    BY <2>1, <2>3 DEF Unanswered, Rejected, Waits
<1>8. Settled'
  BY <1>2, <1>7 DEF Settled
<1> QED
  BY <1>4, <1>5, <1>6, <1>8 DEF LinkInv

LEMMA LinkStep ==
  ASSUME LinkInv, [TNext]_tvars
  PROVE  LinkInv'
<1>1. CASE \E s \in Sender : Return(s) \/ TimesOut(s)
  BY <1>1, EndStep DEF Return, TimesOut
<1>2. CASE UNCHANGED tvars
  BY <1>2 DEF tvars, netState, beat, calls, LinkInv, LinkTypes, Silent, Counted, Settled, Alone,
              Hoping, Waits
<1> QED
  BY <1>1, <1>2, ConnectionStep, HeartStep, AckStep, SendStep, CardStep, SettleStep DEF TNext

LEMMA LinkInvariance == TSpec => []LinkInv
<1>1. LinkInv /\ [TNext]_tvars => LinkInv'
  BY LinkStep
<1> QED
  BY <1>1, InitialLink, PTL DEF TSpec

LEMMA LinkInvImplies == LinkInv => TTypeOK /\ LinkHolds
<1> SUFFICES ASSUME LinkInv PROVE TTypeOK /\ LinkHolds
  OBVIOUS
<1>1. LinkTypes /\ heart.missed \in 0 .. MaxMissed - 1 /\ MaxMissed \in Nat /\ unheard \in Nat
  BY LinkConstants DEF LinkInv, LinkTypes
<1>2. TTypeOK
  <2>1. \A s \in Sender : sender[s].pc \in {"idle", "wait"}
    BY <1>1 DEF LinkTypes, SenderRecord
  <2> QED
    BY <1>1, <2>1 DEF LinkTypes, TTypeOK
<1>3. HeartbeatFair
  BY <1>1 DEF LinkInv, Counted, HeartbeatFair
<1>4. NoneStranded
  BY DEF LinkInv, Settled, Hoping, NoneStranded
<1>5. AloneIsOwn
  BY DEF LinkInv, Alone, AloneIsOwn
<1> QED
  BY <1>2, <1>3, <1>4, <1>5 DEF LinkHolds

(* A connection is given up for good reason and in time, nobody waits on the   *)
(* one before, and a chat that streams alone is shown its own answer           *)
(* (_ping_loop, _reject_all_pending, start_stream).                            *)
THEOREM LinkServes == TSpec => [](TTypeOK /\ LinkHolds)
  BY LinkInvariance, LinkInvImplies, PTL

-----------------------------------------------------------------------------
(* The inductive invariant of TaskEvents.                                      *)

Notice == Kinds \X Sessions
Begun == {t \in Task : t[2] <= turns[t[1]]}
EventTypes ==
    /\ turns \in [Chats -> Nat] /\ aged \subseteq Begun /\ NoTask \notin aged
    /\ hash \in [Sessions -> Begun \cup {NoTask}] /\ copy \in [Chats -> Begun \cup {NoTask}]
    /\ wpc \in [Chats -> {"idle", "started", "running", "read", "tool", "finished"}]
    /\ bus \in Seq(Notice) /\ equeue \in Seq(Notice) /\ view \subseteq Sessions
    /\ reader \in {"off", "opening", "live"} /\ (reader = "off" => equeue = <<>>)
    /\ outages \in Nat

(* What a turn has written before it tells it, while the registry keeps it.    *)
WriterKnows == \A c \in Chats : Session[c] \in Own \ faded =>
    /\ hash[Session[c]] \notin aged
    /\ wpc[c] \in {"started", "read"} => hash[Session[c]] # NoTask
    /\ wpc[c] = "read" => copy[c] = hash[Session[c]]
    /\ wpc[c] = "finished" => hash[Session[c]] = NoTask

(* The last notice about a session says whether its task is listed.            *)
About(e, s) == e[2] = s /\ e[1] # "tool"
NoneOf(q, s) == \A i \in DOMAIN q : ~About(q[i], s)
LastOf(q, s, k) == \E i \in DOMAIN q :
    q[i] = <<k, s>> /\ k # "tool" /\ \A j \in DOMAIN q : j > i => ~About(q[j], s)
Says(s, k) == k = "started" <=> Listed(s)
Current(s) ==
    /\ \A k \in Kinds : LastOf(bus, s, k) => Says(s, k)
    /\ reader # "off" => \A k \in Kinds : NoneOf(bus, s) /\ LastOf(equeue, s, k) => Says(s, k)
    /\ reader = "live" /\ NoneOf(bus, s) /\ NoneOf(equeue, s) => (s \in view <=> Listed(s))

(* Unless a notice was lost, what is under way leads the view to the registry, *)
(* but for a session whose turn has not told yet what it wrote, and one whose  *)
(* task it let go of.                                                          *)
Converging == lossy = "no" => \A c \in Chats :
    Session[c] \in Own \ faded /\ wpc[c] \notin {"started", "finished"} => Current(Session[c])

EventInv == EventTypes /\ WriterKnows /\ Converging

-----------------------------------------------------------------------------
(* Notices in a sequence.                                                      *)

LEMMA NoticeAdded ==
  ASSUME NEW q \in Seq(Notice), NEW e \in Notice
  PROVE  /\ Append(q, e) \in Seq(Notice)
         /\ \A s : NoneOf(Append(q, e), s) => NoneOf(q, s) /\ ~About(e, s)
         /\ \A s, k : LastOf(Append(q, e), s, k) =>
                IF About(e, s) THEN k = e[1] ELSE LastOf(q, s, k)
<1> DEFINE p == Append(q, e)
<1>1. /\ p \in Seq(Notice) /\ DOMAIN p = 1 .. Len(q) + 1 /\ DOMAIN q = 1 .. Len(q)
      /\ Len(q) \in Nat /\ p[Len(q) + 1] = e
      /\ \A i \in 1 .. Len(q) : p[i] = q[i]
  OBVIOUS
<1> HIDE DEF p
<1>2. ASSUME NEW s, NoneOf(p, s) PROVE NoneOf(q, s) /\ ~About(e, s)
  BY <1>1, <1>2 DEF NoneOf
<1>3. ASSUME NEW s, NEW k, LastOf(p, s, k)
      PROVE  IF About(e, s) THEN k = e[1] ELSE LastOf(q, s, k)
  <2>1. PICK i \in DOMAIN p : p[i] = <<k, s>> /\ k # "tool"
                           /\ \A j \in DOMAIN p : j > i => ~About(p[j], s)
    BY <1>3 DEF LastOf
  <2>2. CASE i = Len(q) + 1
    BY <1>1, <2>1, <2>2 DEF About
  <2>3. CASE i \in 1 .. Len(q)
    <3>1. ~About(e, s)
      BY <1>1, <2>1, <2>3
    <3>2. i \in DOMAIN q /\ q[i] = <<k, s>> /\ \A j \in DOMAIN q : j > i => ~About(q[j], s)
      BY <1>1, <2>1, <2>3
    <3> QED
      BY <2>1, <3>1, <3>2 DEF LastOf
  <2> QED
    BY <1>1, <2>2, <2>3
<1> QED
  BY <1>1, <1>2, <1>3 DEF p

LEMMA NoticeTaken ==
  ASSUME NEW q \in Seq(Notice), q # <<>>
  PROVE  /\ Tail(q) \in Seq(Notice) /\ Head(q) \in Notice
         /\ \A s : NoneOf(Tail(q), s) =>
               IF About(Head(q), s) THEN LastOf(q, s, Head(q)[1]) ELSE NoneOf(q, s)
         /\ \A s, k : LastOf(Tail(q), s, k) => LastOf(q, s, k)
<1> DEFINE p == Tail(q)
           h == Head(q)
<1>1. /\ p \in Seq(Notice) /\ DOMAIN p = 1 .. Len(q) - 1 /\ DOMAIN q = 1 .. Len(q)
      /\ Len(q) \in Nat \ {0} /\ h = q[1] /\ h \in Notice
      /\ \A i \in 1 .. Len(q) - 1 : p[i] = q[i + 1]
  OBVIOUS
<1> HIDE DEF p, h
<1>2. \A i \in DOMAIN q : i # 1 => i - 1 \in DOMAIN p /\ p[i - 1] = q[i]
  BY <1>1
<1>3. ASSUME NEW s, NoneOf(p, s) PROVE IF About(h, s) THEN LastOf(q, s, h[1]) ELSE NoneOf(q, s)
  <2>1. \A i \in DOMAIN q : i # 1 => ~About(q[i], s)
    BY <1>2, <1>3 DEF NoneOf
  <2>2. CASE About(h, s)
    <3>1. h = <<h[1], s>> /\ h[1] # "tool"
      BY <1>1, <2>2 DEF About, Notice
    <3>2. 1 \in DOMAIN q /\ \A j \in DOMAIN q : j > 1 => ~About(q[j], s)
      BY <1>1, <2>1
    <3> QED
      BY <1>1, <2>2, <3>1, <3>2 DEF LastOf
  <2>3. CASE ~About(h, s)
    BY <1>1, <2>1, <2>3 DEF NoneOf
  <2> QED
    BY <2>2, <2>3
<1>4. ASSUME NEW s, NEW k, LastOf(p, s, k) PROVE LastOf(q, s, k)
  <2>1. PICK i \in DOMAIN p : p[i] = <<k, s>> /\ k # "tool"
                           /\ \A j \in DOMAIN p : j > i => ~About(p[j], s)
    BY <1>4 DEF LastOf
  <2>2. i + 1 \in DOMAIN q /\ q[i + 1] = <<k, s>>
    BY <1>1, <2>1
  <2>3. \A j \in DOMAIN q : j > i + 1 => ~About(q[j], s)
    <3> SUFFICES ASSUME NEW j \in DOMAIN q, j > i + 1 PROVE ~About(q[j], s)
      OBVIOUS
    <3>1. j # 1 /\ j - 1 > i
      BY <1>1, <2>1
    <3> QED
      BY <1>2, <2>1, <3>1
  <2> QED
    BY <2>1, <2>2, <2>3 DEF LastOf
<1> QED
  BY <1>1, <1>3, <1>4 DEF p, h

-----------------------------------------------------------------------------
LEMMA SessionsOf == \A c \in Chats : Session[c] \in Sessions
  BY DEF Sessions

LEMMA OthersElsewhere ==
  ASSUME NEW c \in Chats, NEW d \in Chats, c # d, Session[d] \in Own
  PROVE  Session[c] # Session[d]
BY DEF Own

LEMMA InitialEvents == EInit => EventInv
<1> SUFFICES ASSUME EInit PROVE EventInv
  OBVIOUS
<1>1. <<>> \in Seq(Notice)
  OBVIOUS
<1>2. EventTypes
  BY <1>1 DEF EInit, EventTypes
<1>3. WriterKnows
  BY DEF EInit, WriterKnows
<1>4. Converging
  BY DEF EInit, Converging, Current, LastOf
<1> QED
  BY <1>2, <1>3, <1>4 DEF EventInv

(* A session whose entry neither comes nor goes, and whose notices stay.       *)
LEMMA StaysCurrent ==
  ASSUME NEW s, Current(s), UNCHANGED <<bus, equeue, reader, view>>, Listed(s)' <=> Listed(s)
  PROVE  Current(s)'
BY DEF Current, Says

LEMMA MoreBegun ==
  ASSUME turns \in [Chats -> Nat], turns' \in [Chats -> Nat], \A c \in Chats : turns[c] <= turns'[c]
  PROVE  Begun \subseteq Begun'
BY DEF Begun, Task

(* The writer changes its entry: the others' entries are other ones.           *)
LEMMA Writes ==
  ASSUME EventInv, NEW c \in Chats, NEW pc \in {"started", "read", "tool", "finished"},
         NEW h, NEW failed \in {"idle", "running"},
         Write(c, pc, h, failed), wpc[c] \notin {"started", "finished"}, UNCHANGED conn, aged' = aged,
         turns' \in [Chats -> Nat], \A d \in Chats : turns[d] <= turns'[d],
         h \in Begun' \cup {NoTask}, copy' \in [Chats -> Begun' \cup {NoTask}],
         \A d \in Chats : d # c => copy'[d] = copy[d],
         faded' \subseteq faded, faded \ {Session[c]} \subseteq faded',
         outages' # outages => faded' = faded,
         pc = "started" => h # NoTask /\ h \notin aged, pc = "finished" => h = NoTask,
         pc \in {"read", "tool"} => faded' = faded,
         pc \in {"read", "tool"} /\ Session[c] \in Own \ faded =>
             h = hash[Session[c]] /\ h # NoTask,
         pc = "read" => copy'[c] = h
  PROVE  EventInv'
<1>1. /\ EventTypes /\ WriterKnows /\ Converging /\ Session[c] \in Sessions
      /\ UNCHANGED <<bus, equeue, reader, view>> /\ outages \in Nat
  BY SessionsOf DEF EventInv, Write, conn, EventTypes
<1>b. Begun \subseteq Begun'
  BY <1>1, MoreBegun DEF EventTypes
<1>2. CASE /\ wpc' = [wpc EXCEPT ![c] = pc] /\ hash' = [hash EXCEPT ![Session[c]] = h]
           /\ lossy' = lossy /\ outages' = outages
  <2>1. EventTypes'
    <3>1. hash' \in [Sessions -> Begun' \cup {NoTask}]
      BY <1>1, <1>2, <1>b DEF EventTypes
    <3>2. wpc' \in [Chats -> {"idle", "started", "running", "read", "tool", "finished"}]
      BY <1>1, <1>2 DEF EventTypes
    <3>3. aged' \subseteq Begun'
      BY <1>1, <1>b DEF EventTypes
    <3> QED
      BY <1>1, <1>2, <3>1, <3>2, <3>3 DEF EventTypes
  <2>2. /\ wpc'[c] = pc /\ hash'[Session[c]] = h
        /\ \A d \in Chats : d # c => wpc'[d] = wpc[d]
        /\ \A s \in Sessions : s # Session[c] => hash'[s] = hash[s]
    BY <1>1, <1>2 DEF EventTypes
  <2>o. ASSUME NEW d \in Chats, Session[d] \in Own \ faded', d # c
        PROVE  /\ Session[d] \in Own \ faded /\ hash'[Session[d]] = hash[Session[d]]
               /\ wpc'[d] = wpc[d] /\ copy'[d] = copy[d]
    <3>1. Session[d] # Session[c] /\ Session[d] \in Sessions
      BY <2>o, OthersElsewhere, SessionsOf
    <3> QED
      BY <2>2, <2>o, <3>1
  <2>3. WriterKnows'
    <3> SUFFICES ASSUME NEW d \in Chats, Session[d] \in Own \ faded'
                 PROVE  /\ hash'[Session[d]] \notin aged'
                        /\ wpc'[d] \in {"started", "read"} => hash'[Session[d]] # NoTask
                        /\ wpc'[d] = "read" => copy'[d] = hash'[Session[d]]
                        /\ wpc'[d] = "finished" => hash'[Session[d]] = NoTask
      BY DEF WriterKnows, Own
    <3>1. CASE d # c
      BY <1>1, <2>o, <3>1 DEF WriterKnows
    <3>2. CASE d = c
      <4>1. CASE pc \in {"read", "tool"}
        BY <1>1, <2>2, <3>2, <4>1 DEF WriterKnows
      <4>2. CASE pc = "started"
        BY <2>2, <3>2, <4>2
      <4>3. CASE pc = "finished"
        BY <1>1, <2>2, <3>2, <4>3 DEF EventTypes
      <4> QED
        BY <4>1, <4>2, <4>3
    <3> QED
      BY <3>1, <3>2
  <2>4. Converging'
    <3> SUFFICES ASSUME lossy' = "no", NEW d \in Chats, Session[d] \in Own \ faded',
                        wpc'[d] \notin {"started", "finished"}
                 PROVE  Current(Session[d])'
      BY DEF Converging, Own
    <3>1. Session[d] \in Own \ faded /\ hash'[Session[d]] = hash[Session[d]]
          /\ wpc[d] \notin {"started", "finished"}
      <4>1. CASE d # c
        BY <2>o, <4>1
      <4>2. CASE d = c
        BY <2>2, <4>2
      <4> QED
        BY <4>1, <4>2
    <3>2. Current(Session[d])
      BY <1>1, <1>2, <3>1 DEF Converging
    <3>3. Listed(Session[d])' <=> Listed(Session[d])
      BY <3>1 DEF Listed
    <3> QED
      BY <1>1, <3>2, <3>3, StaysCurrent
  <2> QED
    BY <2>1, <2>3, <2>4 DEF EventInv
<1>3. CASE /\ wpc' = [wpc EXCEPT ![c] = failed] /\ UNCHANGED <<hash, lossy>>
           /\ outages' = outages + 1
  <2>f. faded' = faded
    BY <1>1, <1>3
  <2>1. EventTypes'
    <3>1. hash' \in [Sessions -> Begun' \cup {NoTask}] /\ aged' \subseteq Begun'
      BY <1>1, <1>3, <1>b DEF EventTypes
    <3>2. wpc' \in [Chats -> {"idle", "started", "running", "read", "tool", "finished"}]
      BY <1>1, <1>3 DEF EventTypes
    <3> QED
      BY <1>1, <1>3, <3>1, <3>2 DEF EventTypes
  <2>2. wpc'[c] = failed /\ \A d \in Chats : d # c => wpc'[d] = wpc[d]
    BY <1>1, <1>3 DEF EventTypes
  <2>3. WriterKnows'
    <3> SUFFICES ASSUME NEW d \in Chats, Session[d] \in Own \ faded'
                 PROVE  /\ hash'[Session[d]] \notin aged'
                        /\ wpc'[d] \in {"started", "read"} => hash'[Session[d]] # NoTask
                        /\ wpc'[d] = "read" => copy'[d] = hash'[Session[d]]
                        /\ wpc'[d] = "finished" => hash'[Session[d]] = NoTask
      BY DEF WriterKnows, Own
    <3>1. CASE d # c
      BY <1>1, <1>3, <2>2, <2>f, <3>1 DEF WriterKnows
    <3>2. CASE d = c
      BY <1>1, <1>3, <2>2, <2>f, <3>2 DEF WriterKnows
    <3> QED
      BY <3>1, <3>2
  <2>4. Converging'
    <3> SUFFICES ASSUME lossy' = "no", NEW d \in Chats, Session[d] \in Own \ faded',
                        wpc'[d] \notin {"started", "finished"}
                 PROVE  Current(Session[d])'
      BY DEF Converging, Own
    <3>1. Current(Session[d])
      BY <1>1, <1>3, <2>2, <2>f DEF Converging
    <3>2. Listed(Session[d])' <=> Listed(Session[d])
      BY <1>3 DEF Listed
    <3> QED
      BY <1>1, <3>1, <3>2, StaysCurrent
  <2> QED
    BY <2>1, <2>3, <2>4 DEF EventInv
<1> QED
  BY <1>2, <1>3 DEF Write

(* A turn tells what it has written, or the notice is lost.                    *)
LEMMA Tells ==
  ASSUME EventInv, NEW c \in Chats, NEW pc \in {"running", "idle"},
         NEW kind \in Kinds, Publish(c, pc, kind),
         kind = "started" => wpc[c] = "started", kind = "finished" => wpc[c] = "finished",
         kind = "tool" => wpc[c] = "tool"
  PROVE  EventInv'
<1> DEFINE n == <<kind, Session[c]>>
<1>1. EventTypes /\ WriterKnows /\ Converging /\ n \in Notice /\ n[1] = kind /\ n[2] = Session[c]
  BY SessionsOf DEF EventInv, Notice
<1>2. /\ wpc' = [wpc EXCEPT ![c] = pc]
      /\ UNCHANGED <<hash, aged, copy, faded, turns, equeue, reader, view>>
      /\ outages' = outages \/ outages' = outages + 1
      /\ \/ bus' = Append(bus, n) /\ lossy' = lossy
         \/ bus' = bus /\ lossy' # "no"
  BY DEF Publish, Missed, conn, times
<1> HIDE DEF n
<1>3. wpc'[c] = pc /\ \A d \in Chats : d # c => wpc'[d] = wpc[d]
  BY <1>1, <1>2 DEF EventTypes
<1>4. bus' \in Seq(Notice)
  BY <1>1, <1>2, NoticeAdded DEF EventTypes
<1>b. Begun' = Begun /\ \A s : Listed(s)' <=> Listed(s)
  BY <1>2 DEF Begun, Listed
<1>5. EventTypes'
  <2>1. outages' \in Nat
    BY <1>1, <1>2 DEF EventTypes
  <2>2. wpc' \in [Chats -> {"idle", "started", "running", "read", "tool", "finished"}]
    BY <1>1, <1>2 DEF EventTypes
  <2> QED
    BY <1>1, <1>2, <1>4, <1>b, <2>1, <2>2 DEF EventTypes
<1>6. WriterKnows'
  BY <1>1, <1>2, <1>3 DEF WriterKnows, Own
<1>7. Converging'
  <2> SUFFICES ASSUME lossy' = "no", NEW d \in Chats, Session[d] \in Own \ faded,
                      wpc'[d] \notin {"started", "finished"}
               PROVE  Current(Session[d])'
    BY <1>2 DEF Converging, Own
  <2> DEFINE s == Session[d]
  <2>1. bus' = Append(bus, n) /\ lossy = "no" /\ bus \in Seq(Notice)
    BY <1>1, <1>2 DEF EventTypes
  <2>2. /\ NoneOf(bus', s) => NoneOf(bus, s) /\ ~About(n, s)
        /\ \A k : LastOf(bus', s, k) => IF About(n, s) THEN k = kind ELSE LastOf(bus, s, k)
    BY <1>1, <2>1, NoticeAdded
  <2>3. CASE About(n, s)
    <3>1. d = c /\ kind # "tool"
      BY <1>1, <2>3, OthersElsewhere DEF About
    <3>2. Says(s, kind)
      BY <1>1, <3>1 DEF WriterKnows, Says, Kinds, Listed
    <3> QED
      BY <1>b, <2>2, <2>3, <3>2 DEF Current, Says
  <2>4. CASE ~About(n, s)
    <3>1. d # c \/ kind = "tool"
      BY <1>1, <2>4 DEF About
    <3>2. Current(s)
      <4>1. wpc[d] \notin {"started", "finished"}
        BY <1>3, <3>1
      <4> QED
        BY <1>1, <2>1, <4>1 DEF Converging
    <3>3. reader' = reader /\ equeue' = equeue /\ view' = view
      BY <1>2
    <3> QED
      BY <1>b, <2>2, <2>4, <3>2, <3>3 DEF Current, Says
  <2> QED
    BY <2>3, <2>4
<1> QED
  BY <1>5, <1>6, <1>7 DEF EventInv

(* The listener puts the next notice in the queue of the connection.           *)
LEMMA Delivers ==
  ASSUME EventInv, Deliver
  PROVE  EventInv'
<1> DEFINE h == Head(bus)
<1>1. EventTypes /\ WriterKnows /\ Converging /\ bus \in Seq(Notice) /\ equeue \in Seq(Notice)
  BY DEF EventInv, EventTypes
<1>2. /\ bus # <<>> /\ bus' = Tail(bus)
      /\ UNCHANGED <<hash, aged, copy, faded, turns, wpc, reader, view, outages>>
      /\ \/ reader = "off" /\ UNCHANGED <<equeue, lossy>>
         \/ reader # "off" /\ equeue' = Append(equeue, h) /\ UNCHANGED lossy
         \/ equeue' = equeue /\ lossy' # "no"
  BY <1>1 DEF Deliver, Registered, First, Missed, EventTypes, entries
<1>3. /\ bus' \in Seq(Notice) /\ h \in Notice
      /\ \A s : NoneOf(bus', s) => IF About(h, s) THEN LastOf(bus, s, h[1]) ELSE NoneOf(bus, s)
      /\ \A s, k : LastOf(bus', s, k) => LastOf(bus, s, k)
  BY <1>1, <1>2, NoticeTaken
<1> HIDE DEF h
<1>b. Begun' = Begun /\ \A s : Listed(s)' <=> Listed(s)
  BY <1>2 DEF Begun, Listed
<1>4. equeue' \in Seq(Notice) /\ EventTypes'
  <2>1. equeue' \in Seq(Notice) /\ (reader = "off" => equeue' = <<>> \/ equeue' = Append(equeue, h))
    BY <1>1, <1>2, <1>3, NoticeAdded DEF EventTypes
  <2>2. reader = "off" => equeue' = <<>>
    BY <1>1, <1>2 DEF EventTypes
  <2> QED
    BY <1>1, <1>2, <1>3, <1>b, <2>1, <2>2 DEF EventTypes
<1>5. WriterKnows'
  BY <1>1, <1>2 DEF WriterKnows, Own
<1>6. Converging'
  <2> SUFFICES ASSUME lossy' = "no", NEW c \in Chats, Session[c] \in Own \ faded,
                      wpc'[c] \notin {"started", "finished"}
               PROVE  Current(Session[c])'
    BY <1>2 DEF Converging, Own
  <2> DEFINE s == Session[c]
  <2>1. CASE reader = "off" /\ UNCHANGED <<equeue, lossy>>
    <3>1. Current(s)
      BY <1>1, <1>2, <2>1 DEF Converging
    <3> QED
      BY <1>2, <1>3, <1>b, <2>1, <3>1 DEF Current, Says
  <2>2. CASE reader # "off" /\ equeue' = Append(equeue, h) /\ UNCHANGED lossy
    <3>1. Current(s)
      BY <1>1, <1>2, <2>2 DEF Converging
    <3>2. /\ NoneOf(equeue', s) => NoneOf(equeue, s) /\ ~About(h, s)
          /\ \A k : LastOf(equeue', s, k) => IF About(h, s) THEN k = h[1] ELSE LastOf(equeue, s, k)
      BY <1>1, <1>3, <2>2, NoticeAdded
    <3>3. view' = view /\ reader' = reader
      BY <1>2
    <3>4. \A k \in Kinds : LastOf(bus', s, k) => Says(s, k)
      BY <1>3, <3>1 DEF Current
    <3>5. \A k \in Kinds : NoneOf(bus', s) /\ LastOf(equeue', s, k) => Says(s, k)
      <4> SUFFICES ASSUME NEW k \in Kinds, NoneOf(bus', s), LastOf(equeue', s, k) PROVE Says(s, k)
        OBVIOUS
      <4>1. CASE About(h, s)
        BY <1>3, <3>1, <3>2, <4>1 DEF Current
      <4>2. CASE ~About(h, s)
        BY <1>3, <2>2, <3>1, <3>2, <4>2 DEF Current
      <4> QED
        BY <4>1, <4>2
    <3>6. reader = "live" /\ NoneOf(bus', s) /\ NoneOf(equeue', s) => (s \in view <=> Listed(s))
      BY <1>3, <3>1, <3>2 DEF Current
    <3> QED
      BY <1>b, <3>3, <3>4, <3>5, <3>6 DEF Current, Says
  <2> QED
    BY <1>2, <2>1, <2>2
<1> QED
  BY <1>4, <1>5, <1>6 DEF EventInv

(* The page takes the next notice into its view.                               *)
LEMMA Applies ==
  ASSUME EventInv, Apply
  PROVE  EventInv'
<1> DEFINE h == Head(equeue)
<1>1. EventTypes /\ WriterKnows /\ Converging /\ bus \in Seq(Notice) /\ equeue \in Seq(Notice)
  BY DEF EventInv, EventTypes
<1>2. /\ reader = "live" /\ equeue # <<>> /\ equeue' = Tail(equeue) /\ view' = Shown(h)
      /\ UNCHANGED <<hash, aged, copy, faded, turns, wpc, bus, reader, lossy, outages>>
  BY DEF Apply, entries
<1>3. /\ equeue' \in Seq(Notice) /\ h \in Notice
      /\ \A s : NoneOf(equeue', s) =>
            IF About(h, s) THEN LastOf(equeue, s, h[1]) ELSE NoneOf(equeue, s)
      /\ \A s, k : LastOf(equeue', s, k) => LastOf(equeue, s, k)
  BY <1>1, <1>2, NoticeTaken
<1> HIDE DEF h
<1>4. h[1] \in Kinds /\ h[2] \in Sessions
  BY <1>3 DEF Notice
<1>5. /\ h[1] = "started" => view' = view \cup {h[2]}
      /\ h[1] = "finished" => view' = view \ {h[2]}
      /\ h[1] = "tool" => view' = view
  BY <1>2, <1>4 DEF Shown, Kinds
<1>b. Begun' = Begun /\ \A s : Listed(s)' <=> Listed(s)
  BY <1>2 DEF Begun, Listed
<1>6. EventTypes'
  <2>1. view' \subseteq Sessions
    BY <1>1, <1>4, <1>5 DEF EventTypes, Kinds
  <2> QED
    BY <1>1, <1>2, <1>3, <1>b, <2>1 DEF EventTypes
<1>7. WriterKnows'
  BY <1>1, <1>2 DEF WriterKnows, Own
<1>8. Converging'
  <2> SUFFICES ASSUME lossy' = "no", NEW c \in Chats, Session[c] \in Own \ faded,
                      wpc'[c] \notin {"started", "finished"}
               PROVE  Current(Session[c])'
    BY <1>2 DEF Converging, Own
  <2> DEFINE s == Session[c]
  <2>1. Current(s)
    BY <1>1, <1>2 DEF Converging
  <2>2. ASSUME NoneOf(bus, s), NoneOf(equeue', s) PROVE s \in view' <=> Listed(s)
    <3>1. CASE About(h, s)
      <4>1. Says(s, h[1])
        BY <1>2, <1>3, <1>4, <2>1, <2>2, <3>1 DEF Current
      <4> QED
        BY <1>4, <1>5, <3>1, <4>1 DEF About, Says, Kinds
    <3>2. CASE ~About(h, s)
      <4>1. s \in view <=> Listed(s)
        BY <1>2, <1>3, <2>1, <2>2, <3>2 DEF Current
      <4>2. s \in view' <=> s \in view
        BY <1>4, <1>5, <3>2 DEF About, Kinds
      <4> QED
        BY <4>1, <4>2
    <3> QED
      BY <3>1, <3>2
  <2>3. bus' = bus /\ reader' = reader
    BY <1>2
  <2> QED
    BY <1>2, <1>3, <1>b, <2>1, <2>2, <2>3 DEF Current, Says
<1> QED
  BY <1>6, <1>7, <1>8 DEF EventInv

(* A connection comes, reads its snapshot, and goes.                           *)
LEMMA Connects ==
  ASSUME EventInv, Subscribe \/ ReadSnapshot \/ Disconnect
  PROVE  EventInv'
<1>1. EventTypes /\ WriterKnows /\ Converging
  BY DEF EventInv
<1>2. UNCHANGED <<hash, aged, copy, faded, turns, wpc, bus>>
  BY DEF Subscribe, ReadSnapshot, Disconnect, entries
<1>b. Begun' = Begun /\ \A s : Listed(s)' <=> Listed(s)
  BY <1>2 DEF Begun, Listed
<1>3. EventTypes'
  <2>1. <<>> \in Seq(Notice)
    OBVIOUS
  <2>2. /\ view' \subseteq Sessions /\ reader' \in {"off", "opening", "live"}
        /\ equeue' \in Seq(Notice) /\ (reader' = "off" => equeue' = <<>>) /\ outages' \in Nat
    <3>1. CASE Subscribe
      BY <1>1, <3>1 DEF EventTypes, Subscribe, First
    <3>2. CASE ReadSnapshot
      BY <1>1, <3>2 DEF EventTypes, ReadSnapshot, First, Running
    <3>3. CASE Disconnect
      BY <1>1, <2>1, <3>3 DEF EventTypes, Disconnect
    <3> QED
      BY <3>1, <3>2, <3>3
  <2> QED
    BY <1>1, <1>2, <1>b, <2>2 DEF EventTypes
<1>4. WriterKnows'
  BY <1>1, <1>2 DEF WriterKnows, Own
<1>5. Converging'
  <2> SUFFICES ASSUME lossy' = "no", NEW c \in Chats, Session[c] \in Own \ faded,
                      wpc'[c] \notin {"started", "finished"}
               PROVE  Current(Session[c])'
    BY <1>2 DEF Converging, Own
  <2> DEFINE s == Session[c]
  <2>1. s \in Sessions
    BY SessionsOf
  <2>2. CASE Subscribe
    <3>1. reader' = "opening" /\ equeue' = <<>> /\ (bus = <<>> \/ lossy = "no")
      BY <1>1, <2>2 DEF Subscribe, EventTypes
    <3>2. \A k \in Kinds : LastOf(bus, s, k) => Says(s, k)
      <4>1. CASE bus = <<>>
        BY <4>1 DEF LastOf
      <4>2. CASE lossy = "no"
        BY <1>1, <1>2, <4>2 DEF Converging, Current
      <4> QED
        BY <3>1, <4>1, <4>2
    <3>3. \A k : ~LastOf(equeue', s, k)
      BY <3>1 DEF LastOf
    <3> QED
      BY <1>2, <1>b, <3>1, <3>2, <3>3 DEF Current, Says
  <2>3. CASE ReadSnapshot
    <3>1. reader = "opening" /\ reader' = "live" /\ view' = Running /\ UNCHANGED <<equeue, lossy>>
      BY <2>3 DEF ReadSnapshot, First, Missed
    <3>2. Current(s)
      BY <1>1, <1>2, <3>1 DEF Converging
    <3>3. s \in view' <=> Listed(s)
      BY <2>1, <3>1 DEF Running
    <3> QED
      BY <1>2, <1>b, <3>1, <3>2, <3>3 DEF Current, Says
  <2>4. CASE Disconnect
    <3>1. reader' = "off" /\ lossy' = lossy
      BY <2>4 DEF Disconnect
    <3>2. Current(s)
      BY <1>1, <1>2, <3>1 DEF Converging
    <3> QED
      BY <1>2, <1>b, <3>1, <3>2 DEF Current, Says
  <2> QED
    BY <2>2, <2>3, <2>4
<1> QED
  BY <1>3, <1>4, <1>5 DEF EventInv

(* The registry lets go of tasks: of a session that stays told of, nothing     *)
(* changes.                                                                    *)
LEMMA Forgets ==
  ASSUME EventInv, UNCHANGED <<turns, wpc, copy, bus, reader, equeue, view, lossy>>,
         hash' \in [Sessions -> Begun \cup {NoTask}], aged' \subseteq Begun, NoTask \notin aged',
         outages' \in Nat, faded \subseteq faded',
         \A c \in Chats : Session[c] \in Own \ faded' =>
            \/ hash'[Session[c]] = hash[Session[c]] /\ hash[Session[c]] \notin aged' \ aged
            \/ ~Listed(Session[c]) /\ hash'[Session[c]] = NoTask
  PROVE  EventInv'
<1>1. EventTypes /\ WriterKnows /\ Converging
  BY DEF EventInv
<1>2. EventTypes'
  <2>1. Begun' = Begun
    BY DEF Begun
  <2> QED
    BY <1>1, <2>1 DEF EventTypes
<1>3. WriterKnows'
  <2> SUFFICES ASSUME NEW c \in Chats, Session[c] \in Own \ faded'
               PROVE  /\ hash'[Session[c]] \notin aged'
                      /\ wpc[c] \in {"started", "read"} => hash'[Session[c]] # NoTask
                      /\ wpc[c] = "read" => copy[c] = hash'[Session[c]]
                      /\ wpc[c] = "finished" => hash'[Session[c]] = NoTask
    BY DEF WriterKnows, Own
  <2> QED
    BY <1>1 DEF WriterKnows, Listed
<1>4. Converging'
  <2> SUFFICES ASSUME lossy = "no", NEW c \in Chats, Session[c] \in Own \ faded',
                      wpc[c] \notin {"started", "finished"}
               PROVE  Current(Session[c])'
    BY DEF Converging, Own
  <2>1. Current(Session[c])
    BY <1>1 DEF Converging
  <2>2. Listed(Session[c])' <=> Listed(Session[c])
    BY <1>1 DEF Listed, WriterKnows
  <2> QED
    BY <2>1, <2>2, StaysCurrent
<1> QED
  BY <1>2, <1>3, <1>4 DEF EventInv

LEMMA EventStep ==
  ASSUME EventInv, [ENext]_evars
  PROVE  EventInv'
<1>0. EventTypes /\ WriterKnows /\ outages \in Nat /\ turns \in [Chats -> Nat]
      /\ hash \in [Sessions -> Begun \cup {NoTask}] /\ copy \in [Chats -> Begun \cup {NoTask}]
      /\ aged \subseteq Begun /\ NoTask \notin aged
  BY DEF EventInv, EventTypes
<1>1. ASSUME NEW c \in Chats, TaskStarted(c)
      PROVE  EventInv'
  <2> DEFINE h == <<c, turns[c] + 1>>
  <2>1. /\ Write(c, "started", h, "running") /\ UNCHANGED <<conn, copy, aged>> /\ wpc[c] = "idle"
        /\ turns' = [turns EXCEPT ![c] = @ + 1] /\ turns[c] < MaxTurns
        /\ faded' = IF outages' = outages THEN faded \ {Session[c]} ELSE faded
    BY <1>1 DEF TaskStarted, Renewed, times
  <2>2. turns' \in [Chats -> Nat] /\ (\A d \in Chats : turns[d] <= turns'[d])
        /\ turns'[c] = turns[c] + 1 /\ turns[c] \in Nat
    BY <1>0, <2>1
  <2>3. h \in Task /\ h[1] = c /\ h[2] = turns[c] + 1
    BY <2>1, <2>2, EventsAssumption DEF Task
  <2>4. h \in Begun' /\ h \notin Begun /\ h # NoTask
    <3>1. h \in Begun' /\ h \notin Begun
      BY <2>2, <2>3 DEF Begun
    <3> QED
      BY <3>1 DEF NoTask
  <2> HIDE DEF h
  <2>5. copy' \in [Chats -> Begun' \cup {NoTask}]
    BY <1>0, <2>1, <2>2, MoreBegun
  <2>6. h \notin aged
    BY <1>0, <2>4
  <2>7. faded' \subseteq faded /\ faded \ {Session[c]} \subseteq faded'
        /\ (outages' # outages => faded' = faded)
    BY <2>1
  <2>8. \A d \in Chats : d # c => copy'[d] = copy[d]
    BY <2>1
  <2> QED
    BY <2>1, <2>2, <2>4, <2>5, <2>6, <2>7, <2>8, Writes
<1>2. ASSUME NEW c \in Chats, ToolRead(c)
      PROVE  EventInv'
  <2> DEFINE h == hash[Session[c]]
  <2>1. /\ Write(c, "read", h, "running") /\ UNCHANGED <<conn, aged, faded, turns>>
        /\ wpc[c] = "running" /\ h # NoTask
        /\ copy' = [copy EXCEPT ![c] = h]
    BY <1>2 DEF ToolRead, times
  <2>2. h \in Begun \cup {NoTask} /\ Begun' = Begun
    BY <1>0, <2>1, SessionsOf DEF Begun
  <2>3. \A d \in Chats : turns[d] <= turns'[d]
    BY <1>0, <2>1
  <2>4. copy' \in [Chats -> Begun' \cup {NoTask}] /\ copy'[c] = h
        /\ (\A d \in Chats : d # c => copy'[d] = copy[d])
    BY <1>0, <2>1, <2>2
  <2>5. turns' \in [Chats -> Nat] /\ h \in Begun' \cup {NoTask}
    BY <1>0, <2>1, <2>2
  <2>6. h = hash[Session[c]]
    OBVIOUS
  <2> HIDE DEF h
  <2> QED
    BY <2>1, <2>3, <2>4, <2>5, <2>6, Writes
<1>3. ASSUME NEW c \in Chats, ToolWrite(c)
      PROVE  EventInv'
  <2> DEFINE h == copy[c]
  <2>1. /\ Write(c, "tool", h, "running") /\ UNCHANGED <<conn, aged, faded, turns>>
        /\ wpc[c] = "read" /\ copy' = [copy EXCEPT ![c] = NoTask]
    BY <1>3 DEF ToolWrite, times
  <2>2. h \in Begun \cup {NoTask} /\ Begun' = Begun
    BY <1>0, <2>1 DEF Begun
  <2>3. \A d \in Chats : turns[d] <= turns'[d]
    BY <1>0, <2>1
  <2>4. copy' \in [Chats -> Begun' \cup {NoTask}]
        /\ (\A d \in Chats : d # c => copy'[d] = copy[d])
    BY <1>0, <2>1, <2>2
  <2>5. turns' \in [Chats -> Nat] /\ h \in Begun' \cup {NoTask}
    BY <1>0, <2>1, <2>2
  <2>6. Session[c] \in Own \ faded => h = hash[Session[c]] /\ h # NoTask
    BY <1>0, <2>1 DEF WriterKnows
  <2> HIDE DEF h
  <2> QED
    BY <2>1, <2>3, <2>4, <2>5, <2>6, Writes
<1>4. ASSUME NEW c \in Chats, TaskFinished(c)
      PROVE  EventInv'
  <2>1. /\ Write(c, "finished", NoTask, "idle") /\ UNCHANGED <<conn, copy, aged, turns>>
        /\ wpc[c] = "running"
        /\ faded' = IF outages' = outages THEN faded \ {Session[c]} ELSE faded
    BY <1>4 DEF TaskFinished, Renewed, times
  <2>2. Begun' = Begun /\ (\A d \in Chats : turns[d] <= turns'[d]) /\ turns' \in [Chats -> Nat]
    BY <1>0, <2>1 DEF Begun
  <2>3. copy' \in [Chats -> Begun' \cup {NoTask}] /\ (\A d \in Chats : d # c => copy'[d] = copy[d])
        /\ NoTask \in Begun' \cup {NoTask}
    BY <1>0, <2>1, <2>2
  <2>4. faded' \subseteq faded /\ faded \ {Session[c]} \subseteq faded'
        /\ (outages' # outages => faded' = faded)
    BY <2>1
  <2> QED
    BY <2>1, <2>2, <2>3, <2>4, Writes
<1>5. ASSUME NEW c \in Chats, TellStarted(c) \/ TellTool(c) \/ TellFinished(c)
      PROVE  EventInv'
  <2>1. {"started", "tool", "finished"} \subseteq Kinds
    BY DEF Kinds
  <2> QED
    BY <1>5, <2>1, Tells DEF TellStarted, TellTool, TellFinished
<1>6. ASSUME NEW t \in Task, Ages(t)
      PROVE  EventInv'
  <2>1. /\ UNCHANGED <<turns, wpc, copy, hash, bus, reader, equeue, view, lossy, outages>>
        /\ aged' = aged \cup {t} /\ t # NoTask
        /\ faded' = faded \cup {s \in Sessions : hash[s] = t}
        /\ t \in {hash[s] : s \in Sessions} \cup {copy[c] : c \in Chats}
    BY <1>6 DEF Ages, conn
  <2>2. t \in Begun
    BY <1>0, <2>1
  <2>3. \A c \in Chats : Session[c] \notin faded' => hash[Session[c]] # t
    BY <2>1, SessionsOf
  <2>4. aged' \subseteq Begun /\ NoTask \notin aged' /\ faded \subseteq faded'
    BY <1>0, <2>1, <2>2
  <2>5. \A c \in Chats : Session[c] \in Own \ faded' =>
            hash'[Session[c]] = hash[Session[c]] /\ hash[Session[c]] \notin aged' \ aged
    BY <2>1, <2>3
  <2> QED
    BY <1>0, <2>1, <2>4, <2>5, Forgets
<1>7. ASSUME NEW s \in Sessions, SeesOld(s) \/ Prunes(s)
      PROVE  EventInv'
  <2>1. /\ UNCHANGED <<turns, wpc, copy, aged, bus, reader, equeue, view, lossy>>
        /\ \/ hash' = hash /\ faded' = faded
           \/ hash' = [hash EXCEPT ![s] = NoTask] /\ faded' = faded \cup {s}
        /\ outages' \in Nat
    BY <1>0, <1>7 DEF SeesOld, Prunes, conn
  <2>2. hash' \in [Sessions -> Begun \cup {NoTask}] /\ faded \subseteq faded'
    BY <1>0, <2>1
  <2>3. \A c \in Chats : Session[c] \in Own \ faded' =>
            hash'[Session[c]] = hash[Session[c]] /\ hash[Session[c]] \notin aged' \ aged
    BY <1>0, <2>1, SessionsOf
  <2> QED
    BY <1>0, <2>1, <2>2, <2>3, Forgets
<1>8. CASE Expires
  <2>1. /\ UNCHANGED <<turns, wpc, copy, aged, faded, bus, reader, equeue, view, lossy, outages>>
        /\ \A s \in Sessions : ~Listed(s)
    BY <1>8, <1>0 DEF Expires, conn, times
  <2>2. hash' \in [Sessions -> Begun \cup {NoTask}] /\ \A c \in Chats : hash'[Session[c]] = NoTask
    BY <1>8, SessionsOf DEF Expires
  <2>3. \A c \in Chats : ~Listed(Session[c])
    BY <2>1, SessionsOf
  <2> QED
    BY <1>0, <2>1, <2>2, <2>3, Forgets
<1>9. CASE Listen \/ ListenerFails \/ UNCHANGED evars
  <2>1. UNCHANGED <<hash, aged, copy, faded, turns, wpc, bus, reader, equeue, view, lossy>>
        /\ outages' \in Nat
    BY <1>0, <1>9 DEF Listen, ListenerFails, evars, entries
  <2>2. Begun' = Begun
    BY <2>1 DEF Begun
  <2>3. EventTypes'
    BY <1>0, <2>1, <2>2 DEF EventTypes
  <2>4. \A s : Current(s) => Current(s)'
    BY <2>1 DEF Current, Says, Listed
  <2>5. WriterKnows' /\ Converging'
    BY <2>1, <2>4 DEF EventInv, WriterKnows, Converging, Own
  <2> QED
    BY <2>3, <2>5 DEF EventInv
<1>10. ASSUME NEW s \in Sessions, Hides(s)
       PROVE  EventInv'
  <2>1. /\ UNCHANGED <<hash, aged, copy, turns, wpc, bus, reader, equeue, lossy, outages>>
        /\ view' = view \ {s} /\ faded' = faded \cup {s}
    BY <1>10 DEF Hides, times
  <2>2. Begun' = Begun
    BY <2>1 DEF Begun
  <2>3. EventTypes'
    BY <1>0, <2>1, <2>2 DEF EventTypes
  <2>4. \A c \in Chats : Session[c] \notin faded' /\ Current(Session[c]) => Current(Session[c])'
    BY <2>1 DEF Current, Says, Listed
  <2>5. WriterKnows' /\ Converging'
    BY <2>1, <2>4 DEF EventInv, WriterKnows, Converging, Own
  <2> QED
    BY <2>3, <2>5 DEF EventInv
<1> QED
  BY <1>1, <1>2, <1>3, <1>4, <1>5, <1>6, <1>7, <1>8, <1>9, <1>10, Delivers, Applies, Connects DEF ENext

LEMMA EventInvImplies == EventInv => ViewConverges
<1> SUFFICES ASSUME EventInv, reader = "live", lossy = "no", equeue = <<>>, bus = <<>>,
                    NEW c \in Chats, Session[c] \in Own \ faded,
                    wpc[c] \notin {"started", "finished"}
             PROVE  Session[c] \in view <=> Session[c] \in Running
  BY DEF ViewConverges
<1>1. NoneOf(bus, Session[c]) /\ NoneOf(equeue, Session[c])
  BY DEF NoneOf
<1>2. Current(Session[c])
  BY DEF EventInv, Converging
<1> QED
  BY <1>1, <1>2, SessionsOf DEF Current, Running

(* The pet that has consumed its queue shows of a session what the registry    *)
(* lists, unless a notice was lost, chats share the session, or the registry   *)
(* or the page let go of its task untold (core/task_events.py stream,          *)
(* _dispatch; core/task_registry.py; stores/petStore.ts).                      *)
THEOREM PetConverges == ESpec => []ViewConverges
<1>1. EventInv /\ [ENext]_evars => EventInv'
  BY EventStep
<1> QED
  BY <1>1, InitialEvents, EventInvImplies, PTL DEF ESpec

-----------------------------------------------------------------------------
(* The parts side by side, as MCChannels has them.                             *)

(* What a user has before the eyes at the end, in the chat and on the pet, is  *)
(* what happened, and the connection of a bot serves its senders               *)
(* (_StreamingReply.finish; task_events.stream; BaseBotTransport).             *)
THEOREM UserSeesWhatHappened == Spec => []UserSees
<1> DEFINE Inv == ReplyInv /\ EventInv /\ LinkInv
<1>1. Init => Inv
  BY InitialReply, InitialEvents, InitialLink DEF Init
<1>2. Inv /\ [Next]_<<part, pvars, svars, evars, tvars>> => Inv'
  <2> SUFFICES ASSUME Inv, [Next]_<<part, pvars, svars, evars, tvars>> PROVE Inv'
    OBVIOUS
  <2>1. [SNext]_svars /\ [ENext]_evars /\ [TNext]_tvars
    BY DEF Next
  <2> QED
    BY <2>1, ReplyStep, EventStep, LinkStep
<1>3. Inv => UserSees
  BY ReplyInvImplies, EventInvImplies, LinkInvImplies DEF UserSees
<1> QED
  BY <1>1, <1>2, <1>3, PTL DEF Spec

=============================================================================
