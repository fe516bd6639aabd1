------------------------------- MODULE ChatPage -------------------------------
(* The chat page of a browser (useChatStream.ts, useMessageQueue.ts,           *)
(* chatStore.ts): what a tab shows of the tasks that the server runs on, while *)
(* connections drop, the user stops, queues, resumes and changes the session,  *)
(* and answers of several requests come back in any order.                     *)
(*                                                                             *)
(* JavaScript: what a function does up to its next await is one step.  The     *)
(* hook's generation counter is only ever compared with a copy taken earlier,  *)
(* so a suspended function carries whether its copy is still the current one.  *)
EXTENDS Integers, Sequences, FiniteSets

CONSTANTS
    Chat,          \* sessions the user looks at
    MaxTexts,      \* bound: messages the user types
    MaxTasks,      \* bound: tasks
    MaxLog,        \* bound: events of a task before its last
    MaxQueued,     \* MAX_QUEUED_MESSAGES
    MaxTroubles    \* bound: connections that break, and clicks that stop,
                   \* resume or change the session

ASSUME PageAssumption ==
    /\ {MaxTexts, MaxTasks, MaxLog, MaxTroubles} \subseteq Nat
    /\ MaxQueued \in Nat \ {0} /\ Chat # {}

VARIABLES
    task,          \* the server's tasks: [chat, text, log, status]
    tab,           \* the page, see Tab
    typed,         \* number of messages typed so far
    acted,         \* history: browser actions handed to the runner, and those twice
    troubles
cvars == <<task, tab, typed, acted, troubles>>

Task   == 1 .. MaxTasks
Text   == 1 .. MaxTexts
Nothing == 0
TaskStatus == {"running", "completed", "halted"}
NoRef  == [id |-> 0, status |-> "none"]
NoConn == [pc |-> "none", text |-> Nothing, task |-> 0, cursor |-> 0, replay |-> 0]
NoRec  == [pc |-> "idle", current |-> FALSE, info |-> NoRef]
Blank  == [on |-> FALSE, task |-> 0, events |-> <<>>]
Ref  == [id : 0 .. MaxTasks, status : TaskStatus \cup {"none"}]
Item == ({"user"} \X Text) \cup ({"partial", "final"} \X Task)
Stop == [pc : {"ask", "stop"}, chat : Chat, current : BOOLEAN, task : 0 .. MaxTasks, next : Text \cup {Nothing}]
Load == [chat : Chat, items : SUBSET Item, next : Text \cup {Nothing},
         by : {"nobody", "rejoin", "recover", "stop"}]
Tab == [chat : Chat,                   \* activeSessionId
        run : Ref,                     \* runRef
        conn : [pc : {"none", "post", "resume", "watch", "first", "open", "over"},
                text : Text \cup {Nothing}, task : 0 .. MaxTasks, cursor : Nat, replay : Nat],
        flush : BOOLEAN,               \* flushOnDoneRef
        shown : [on : BOOLEAN, task : 0 .. MaxTasks, events : Seq(Nat)],
        queue : Seq(Text),
        view : [Chat -> SUBSET Item],  \* the messages of the store
        loads : SUBSET Load,           \* loadSessionMessages under way
        rec : [pc : {"idle", "asked", "load"}, current : BOOLEAN, info : Ref],
        stops : SUBSET Stop,           \* interrupt() under way
        stray : SUBSET [chat : Chat, text : Text]]    \* posts nobody waits for
CTypeOK ==
    /\ task \in Seq([chat : Chat, text : Text \cup {Nothing}, log : Seq({"text", "ui", "done"}), status : TaskStatus])
    /\ tab \in Tab /\ typed \in 0 .. MaxTexts /\ acted.once \subseteq Task \X Nat /\ acted.twice \in BOOLEAN
    /\ troubles \in 0 .. MaxTroubles

CInit == /\ task = <<>> /\ typed = 0 /\ troubles = 0
         /\ acted = [once |-> {}, twice |-> FALSE]
         /\ tab = [chat |-> CHOOSE c \in Chat : TRUE, run |-> NoRef, conn |-> NoConn, flush |-> TRUE,
                   shown |-> Blank, queue |-> <<>>, view |-> [x \in Chat |-> {}], loads |-> {},
                   rec |-> NoRec, stops |-> {}, stray |-> {}]

-----------------------------------------------------------------------------
(* The server, as the page meets it; ChatRuns and ChatTurns are its models.    *)
TasksOf(c) == {r \in DOMAIN task : task[r].chat = c}
Busy(c)    == \E r \in TasksOf(c) : task[r].status = "running"
Latest(c)  == IF TasksOf(c) = {} THEN NoRef
              ELSE LET r == CHOOSE r \in TasksOf(c) : \A q \in TasksOf(c) : q <= r
                   IN [id |-> r, status |-> task[r].status]
Stored(c) == {<<"user", task[r].text>> : r \in {r \in TasksOf(c) : task[r].text # Nothing}}
             \cup {<<IF task[r].status = "running" THEN "partial" ELSE "final", r>> : r \in TasksOf(c)}
HasDone(r) == "done" \in {task[r].log[i] : i \in DOMAIN task[r].log}
Started(c, m) == Append(task, [chat |-> c, text |-> m, log |-> <<>>, status |-> "running"])

Writes(r) == /\ task[r].status = "running" /\ ~HasDone(r)
             /\ \E k \in {"text", "ui", "done"} :
                    /\ k = "done" \/ Len(task[r].log) < MaxLog
                    /\ task' = [task EXCEPT ![r].log = Append(@, k)]
             /\ UNCHANGED <<tab, typed, acted, troubles>>
(* finish, a stop or the end of its process; a done event that was written     *)
(* counts.                                                                     *)
Ends(r) == /\ task[r].status = "running"
           /\ task' = [task EXCEPT ![r].status = IF HasDone(r) THEN "completed" ELSE "halted"]
           /\ UNCHANGED <<tab, typed, acted, troubles>>

-----------------------------------------------------------------------------
(* Functions of the hook, on a state of the page.                              *)
Strayed(p) == IF p.conn.pc = "post" THEN {[chat |-> p.chat, text |-> p.conn.text]} ELSE {}
(* The connection is aborted and the generation goes up.                       *)
Cut(p) == [p EXCEPT !.stray = @ \cup Strayed(p), !.conn = NoConn, !.rec.current = FALSE,
                       !.stops = {[s EXCEPT !.current = FALSE] : s \in @}]
BeginTurn(p, flush) == [Cut(p) EXCEPT !.run = NoRef, !.flush = flush, !.shown = [Blank EXCEPT !.on = TRUE]]
Detached(p) == [Cut(p) EXCEPT !.run = NoRef, !.shown = Blank]
(* addMessage: one message of an id.                                           *)
Added(p, item) == [p EXCEPT !.view[p.chat] = {i \in @ : item[1] = "user" \/ i # <<"partial", item[2]>>} \cup {item}]
Asked(p, by, next) == [p EXCEPT !.loads = @ \cup
    {[chat |-> p.chat, items |-> Stored(p.chat), next |-> next, by |-> by]}]
HandleSend(p, m) == LET q == BeginTurn(Added(p, <<"user", m>>), TRUE)
                    IN [q EXCEPT !.conn = [NoConn EXCEPT !.pc = "post", !.text = m]]
FlushNext(p) == IF p.queue = <<>> THEN p ELSE HandleSend([p EXCEPT !.queue = Tail(@)], Head(p.queue))
Shows(p) == tab' = p
Page(p) == tab' = p /\ UNCHANGED <<task, typed, acted, troubles>>
Trouble(p) == /\ tab' = p /\ troubles < MaxTroubles /\ troubles' = troubles + 1
              /\ UNCHANGED <<task, typed, acted>>

-----------------------------------------------------------------------------
(* The user.                                                                   *)
(* handleSubmit: while a turn is shown as running a message is queued.         *)
Submit ==
    /\ typed < MaxTexts /\ typed' = typed + 1
    /\ IF tab.shown.on THEN Len(tab.queue) < MaxQueued /\ Shows([tab EXCEPT !.queue = Append(@, typed')])
       ELSE Shows(HandleSend(tab, typed'))
    /\ UNCHANGED <<task, acted, troubles>>
(* The end of interrupt(): the session's messages are loaded, then it returns. *)
Stopped(p, s, ref) ==
    IF ~s.current THEN p ELSE Asked([Detached(p) EXCEPT !.run = ref], "stop", s.next)
(* interrupt(): the task may have to be asked for, or may be over already.     *)
Interrupt(next) ==
    LET s == [pc |-> "ask", chat |-> tab.chat, current |-> TRUE, task |-> 0, next |-> next] IN
    CASE tab.run.status = "none" -> Trouble([tab EXCEPT !.stops = @ \cup {s}])
      [] tab.run.status = "running" ->
            Trouble([tab EXCEPT !.stops = @ \cup {[s EXCEPT !.pc = "stop", !.task = tab.run.id]}])
      [] OTHER -> Trouble(Stopped(tab, s, tab.run))
ClickStop == tab.shown.on /\ Interrupt(Nothing)
SendNow == \E i \in DOMAIN tab.queue : Interrupt(tab.queue[i])
(* continue: the task that ended may be resumed.                               *)
Resume == /\ tab.run.status = "halted"
          /\ Trouble([BeginTurn(tab, FALSE) EXCEPT !.conn = [NoConn EXCEPT !.pc = "resume", !.task = tab.run.id]])
(* Another session: the effects of the hook and of the page run before         *)
(* anything else does.                                                         *)
Moved(p, c) == [Detached(p) EXCEPT !.chat = c, !.queue = <<>>, !.rec = NoRec]
SwitchTo(c) ==
    /\ c # tab.chat
    /\ Trouble(IF tab.view[c] = {} THEN Asked(Moved(tab, c), "nobody", Nothing) ELSE Moved(tab, c))

-----------------------------------------------------------------------------
(* interrupt(), continued.                                                     *)
Spared(p, s) == [p EXCEPT !.stops = @ \ {s}]
(* latestRun() until there is a task that runs, at most twenty times.          *)
AskWhich(s) ==
    /\ s.pc = "ask"
    /\ LET ref == IF tab.run # NoRef THEN tab.run ELSE Latest(s.chat)
           known == ref.status = "running" \/ (tab.run # NoRef /\ ref.id = tab.run.id)
       IN IF ~known THEN Page(Spared(tab, s))
          ELSE IF ref.status = "running"
          THEN Page([Spared(tab, s) EXCEPT !.stops = @ \cup {[s EXCEPT !.pc = "stop", !.task = ref.id]}])
          ELSE Page(Stopped(Spared(tab, s), s, ref))
(* stopRun() answers when the task has ended, or fails.                        *)
StopAnswered(s) ==
    /\ s.pc = "stop"
    /\ LET ref == [id |-> s.task, status |-> task[s.task].status]
       IN ref.status # "running" /\ Page(Stopped(Spared(tab, s), s, ref))
StopFails(s) == s.pc = "stop" /\ Trouble(Spared(tab, s))

-----------------------------------------------------------------------------
(* loadSessionMessages(): the rows were read when it was called, or just now.  *)
Joined(p) == IF p.rec.current /\ p.conn = NoConn
             THEN [BeginTurn(p, FALSE) EXCEPT !.rec = NoRec,
                       !.conn = [NoConn EXCEPT !.pc = "watch", !.task = p.rec.info.id]]
             ELSE [p EXCEPT !.rec = NoRec]
Unqueued(queue, m) == SelectSeq(queue, LAMBDA n : n # m)
(* What waited for the load goes on: recover(), or sendNow() with its message. *)
GoesOn(p, l) ==
    CASE l.by = "rejoin" /\ l.chat = p.chat /\ p.rec.pc = "load" -> Joined(p)
      [] l.by = "recover" /\ l.chat = p.chat /\ p.rec.pc = "load" -> [p EXCEPT !.rec = NoRec]
      [] l.by = "stop" /\ l.next # Nothing ->
            HandleSend([p EXCEPT !.queue = Unqueued(@, l.next)], l.next)
      [] OTHER -> p
LoadArrives(l) == \E items \in {l.items, Stored(l.chat)} :
    Page(GoesOn([tab EXCEPT !.loads = @ \ {l}, !.view[l.chat] = items], l))
LoadFails(l) == Trouble(GoesOn([tab EXCEPT !.loads = @ \ {l}], l))

-----------------------------------------------------------------------------
(* recover(), every three seconds.                                             *)
Recover ==
    /\ tab.rec.pc = "idle" /\ tab.conn = NoConn
    /\ Latest(tab.chat) # tab.run \/ tab.run.status = "running"      \* else nothing comes of it
    /\ Page([tab EXCEPT !.rec = [pc |-> "asked", current |-> TRUE, info |-> Latest(tab.chat)]])
RecoverAnswered ==
    LET info == tab.rec.info
        p == [tab EXCEPT !.run = info, !.rec.pc = "load"]
    IN /\ tab.rec.pc = "asked"
       /\ Page(IF ~tab.rec.current \/ tab.conn # NoConn THEN [tab EXCEPT !.rec = NoRec]
               ELSE IF info.status = "running" THEN Asked(p, "rejoin", Nothing)
               ELSE IF info # tab.run THEN Asked([p EXCEPT !.shown = Blank], "recover", Nothing)
               ELSE [tab EXCEPT !.rec = NoRec])
RecoverFails == tab.rec.pc = "asked" /\ Trouble([tab EXCEPT !.rec = NoRec])

-----------------------------------------------------------------------------
(* The connection.                                                             *)
Opened(r, replay) == [NoConn EXCEPT !.pc = "first", !.task = r, !.replay = replay]
(* The server refuses a second task of a session, and those beyond the bound:  *)
(* an error, then closed.                                                      *)
Refused(p) == [p EXCEPT !.conn = NoConn, !.shown = Blank]
PostArrives ==
    /\ tab.conn.pc \in {"post", "resume"}
    /\ IF Busy(tab.chat) \/ Len(task) = MaxTasks THEN task' = task /\ Shows(Refused(tab))
       ELSE /\ task' = Started(tab.chat, tab.conn.text)
            /\ Shows([tab EXCEPT !.conn = Opened(Len(task) + 1, 0)])
    /\ UNCHANGED <<typed, acted, troubles>>
(* A post that was aborted may have reached the server all the same.           *)
StrayArrives(x) ==
    /\ Shows([tab EXCEPT !.stray = @ \ {x}])
    /\ task' = IF Busy(x.chat) \/ Len(task) = MaxTasks THEN task ELSE Started(x.chat, x.text)
    /\ UNCHANGED <<typed, acted, troubles>>
WatchArrives ==
    /\ tab.conn.pc = "watch"
    /\ Page([tab EXCEPT !.conn = Opened(tab.conn.task, Len(task[tab.conn.task].log))])
FirstEvent ==
    /\ tab.conn.pc = "first"
    /\ LET r == tab.conn.task
       IN Page([tab EXCEPT !.conn.pc = "open", !.run = [id |-> r, status |-> task[r].status]])

(* handleEvent, of an event of the log.                                        *)
Replayed(c, i) == i <= c.replay
Done(p, r) ==
    LET q == [Added(p, <<"final", r>>) EXCEPT !.run.status = "completed", !.shown = Blank]
    IN IF p.flush THEN FlushNext(q) ELSE q
HandleEvent(p, i, kind) ==
    IF kind = "done" THEN Done(p, p.conn.task)
    ELSE [p EXCEPT !.shown = [on |-> TRUE, task |-> p.conn.task,
                              events |-> IF kind = "text" THEN Append(@.events, i) ELSE @.events]]
Receive ==
    LET c == tab.conn
        i == c.cursor + 1
        log == task[c.task].log
    IN /\ c.pc = "open" /\ i \in DOMAIN log
       /\ log[i] = "done" => task[c.task].status # "running"
       /\ Shows(HandleEvent([tab EXCEPT !.conn.cursor = i], i, log[i]))
       /\ acted' = IF log[i] = "ui" /\ ~Replayed(c, i)
                   THEN [once |-> acted.once \cup {<<c.task, i>>},
                         twice |-> acted.twice \/ <<c.task, i>> \in acted.once]
                   ELSE acted
       /\ UNCHANGED <<task, typed, troubles>>
RunStatus ==
    LET r == tab.conn.task
    IN /\ tab.conn.pc = "open" /\ task[r].status # "running" /\ tab.conn.cursor = Len(task[r].log)
       /\ Page(Asked([tab EXCEPT !.conn.pc = "over", !.run = [id |-> r, status |-> task[r].status],
                                 !.shown = Blank], "nobody", Nothing))
Closed == tab.conn.pc = "over" /\ Page([tab EXCEPT !.conn = NoConn])
(* transport_error: the page goes on showing the turn.                         *)
DropBug == /\ tab.conn.pc \notin {"none", "over"}      \* abortRef is left as it was
           /\ Trouble([tab EXCEPT !.conn.pc = "none", !.stray = @ \cup Strayed(tab)])
Drop == /\ tab.conn.pc \notin {"none", "over"}
        /\ Trouble([tab EXCEPT !.conn = NoConn, !.stray = @ \cup Strayed(tab)])

-----------------------------------------------------------------------------
Online == PostArrives \/ WatchArrives \/ FirstEvent \/ Receive \/ RunStatus \/ Closed
CNext == \/ \E r \in DOMAIN task : Writes(r) \/ Ends(r)
         \/ \E c \in Chat : SwitchTo(c)
         \/ \E s \in tab.stops : AskWhich(s) \/ StopAnswered(s) \/ StopFails(s)
         \/ \E l \in tab.loads : LoadArrives(l) \/ LoadFails(l)
         \/ \E x \in tab.stray : StrayArrives(x)
         \/ Submit \/ ClickStop \/ SendNow \/ Resume \/ Recover \/ RecoverAnswered \/ RecoverFails \/ Online \/ Drop
CSpec == CInit /\ [][CNext]_cvars
(* Timers fire, requests are answered, and an open connection delivers.        *)
CFairness == /\ WF_cvars(Online) /\ WF_cvars(Recover) /\ WF_cvars(RecoverAnswered)
             /\ WF_cvars(\E l \in tab.loads : LoadArrives(l))

-----------------------------------------------------------------------------
(* Whatever drops and is replayed, a browser action reaches the runner once,   *)
(* and what is shown of a turn is the log so far, without a part shown twice   *)
(* or a part of another turn.                                                  *)
Gives(events, log, n) == /\ \A i, j \in DOMAIN events : i < j => events[i] < events[j]
                         /\ {events[i] : i \in DOMAIN events} = {i \in 1 .. n : log[i] = "text"}
ShownOnce == tab.shown.task # 0 =>
    /\ task[tab.shown.task].chat = tab.chat
    /\ LET log == task[tab.shown.task].log
       IN \E n \in 0 .. Len(log) : Gives(tab.shown.events, log, n)
PageFaithful == ~acted.twice /\ ShownOnce

(* Whatever breaks, a page does not stay behind for ever: it joins a task that *)
(* runs, and learns that those it shows have ended.                            *)
Follows(c) == tab.conn.pc = "open" /\ tab.conn.task = Latest(c).id
Behind == IF Busy(tab.chat) THEN ~Follows(tab.chat)
          ELSE tab.shown.on /\ TasksOf(tab.chat) # {} /\ tab.run # Latest(tab.chat)
PageFollows == []<>~Behind

-----------------------------------------------------------------------------
(* What the code does not keep.                                                *)

(* A page never goes on showing a turn when no task runs.  It does when the    *)
(* first post of a session is lost, and when a connection breaks after it said *)
(* that the task has ended but before it gave the rest of the log.             *)
ShownEnds == \A c \in Chat :
    (tab.chat = c /\ tab.shown.on /\ ~Busy(c)) ~> (~tab.shown.on \/ Busy(c) \/ tab.chat # c)
(* What the server has stored of the user is on the page, once a task runs: a  *)
(* late answer of loadSessionMessages overwrites what was typed meanwhile.     *)
SentIsShown == Busy(tab.chat) /\ tab.loads = {} =>
    Stored(tab.chat) \cap ({"user"} \X Text) \subseteq tab.view[tab.chat]
(* A stop reaches only a turn of the session in which it was clicked, and none *)
(* that began while it asked which task that is.                               *)
StopsItsChat == \A s \in tab.stops : s.pc = "stop" => task[s.task].chat = s.chat
StopsItsTurn == [][\A s \in tab.stops : s.pc = "ask" /\ ~s.current
    => \A x \in tab'.stops \ tab.stops : x.pc # "stop"]_cvars
(* The queue is tied to the session: what was queued in one is sent there.     *)
StaysInSession == [][\A l \in tab.loads \ tab'.loads :
    (l.by = "stop" /\ tab'.conn.pc = "post" /\ tab'.conn.text = l.next) => l.chat = tab.chat]_cvars
(* A queued message is sent when the turn has ended.                           *)
Queued(m) == m \in {tab.queue[i] : i \in DOMAIN tab.queue}
QueueMoves == \A m \in Text : (Queued(m) /\ ~tab.shown.on) ~> (~Queued(m) \/ tab.shown.on)
=============================================================================
