------------------------------ MODULE RoomRuns ------------------------------
(* A collaborative chat room: rooms/service.py (commands on the durable state, *)
(* serialized by the row lock of the room), rooms/runtime.py (the worker of a  *)
(* run, its members one after another, and the monitor beside it) and          *)
(* interface/routes/rooms.py.                                                  *)
(*                                                                             *)
(* An action is one transaction under the row lock, or what a worker does      *)
(* between two awaits.  A run has at most one worker; a worker that lost its   *)
(* lease may be alive while the next run is under way.                         *)
EXTENDS Integers, Sequences, FiniteSets, Functions

CONSTANTS
    Members,    \* members are 1 .. Members, in the order of the roster
    Request,    \* request ids chosen by clients
    Choices,    \* bound: the sequences of members that clients ask for
    MaxRuns,    \* bound: runs of the room
    MaxTasks,   \* bound: tasks of all runs
    MaxCards,   \* bound: confirmation cards
    MaxMsgs,    \* bound: a room with that many messages is not edited
    Mishap      \* which mishaps happen: "stop", "crash", "stall", "revoke", "edit"

ASSUME RoomAssumption ==
    /\ Members \in Nat \ {0} /\ MaxRuns \in Nat /\ MaxTasks \in Nat /\ MaxCards \in Nat /\ MaxMsgs \in Nat
    /\ Choices \subseteq Seq(1 .. Members)
    /\ \A t \in Choices : t # <<>> /\ \A i, j \in DOMAIN t : t[i] = t[j] => i = j

Member == 1 .. Members
ActiveRuns  == {"queued", "running", "stopping"}
ActiveTasks == {"queued", "running", "waiting_user"}
RunStatus   == ActiveRuns \cup {"completed", "partial", "failed", "stopped", "interrupted"}
TaskStatus  == ActiveTasks \cup {"completed", "failed", "stopped", "cancelled"}

(* What a member is given to read: the messages in full, those in the summary. *)
Snap == [known: BOOLEAN, full: SUBSET Nat, summary: SUBSET Nat]
Task == [member: Member, status: TaskStatus, msg: Nat, retry: BOOLEAN, snap: Snap,
         card: Nat,      \* confirmation: the card it waits for, 0 when none
         answer: Nat]    \* confirmation_response: the card the user answered
Row  == [req: Request, status: RunStatus, stop: BOOLEAN, fresh: BOOLEAN, tasks: Seq(Task)]
Msg  == [run: Nat, user: BOOLEAN, status: TaskStatus]

Phase == {"none", "start", "begin", "compact", "work", "card", "answered", "halt", "over"}
Worker == [pc: Phase, pos: Nat,
           card: Nat,    \* the card its agent loop is waiting for
           got: Nat,     \* the card whose answer the monitor handed over
           why: {"", "stopped", "interrupted"}]

VARIABLES
    room,      \* [here, archived, roster, summary, upto]
    msgs,      \* the messages; the sequence number is the index
    runs,      \* the runs with their tasks, by creation
    wk,        \* the worker of each run
    cards      \* cards created

vars == <<room, msgs, runs, wk, cards>>
Run == DOMAIN runs

Room == [here: BOOLEAN, archived: BOOLEAN, roster: SUBSET Member,
         summary: SUBSET Nat, upto: Nat]

TypeOK == /\ room \in Room /\ cards \in 0 .. MaxCards
          /\ \A i \in DOMAIN msgs : msgs[i] \in Msg
          /\ DOMAIN wk = DOMAIN runs
          /\ \A r \in Run : runs[r] \in [req: Request, status: RunStatus, stop: BOOLEAN,
                                         fresh: BOOLEAN, tasks: Seq(Task)] /\ wk[r] \in Worker

System == [run |-> 0, user |-> FALSE, status |-> "completed"]

(* create_room: the message that names the members is the first.               *)
Init == /\ room = [here |-> TRUE, archived |-> FALSE, roster |-> Member,
                   summary |-> {}, upto |-> 0]
        /\ msgs = <<System>>
        /\ runs = <<>> /\ wk = <<>> /\ cards = 0

-----------------------------------------------------------------------------
(* Commands.                                                                   *)

Active(x)  == x.status \in ActiveRuns
Stale(x)   == Active(x) /\ ~x.fresh
Pending(t) == t.status \in ActiveTasks

(* The status of a message is that of the task it belongs to.                  *)
Shown(ms, x) == [i \in DOMAIN ms |->
    IF \E p \in DOMAIN x.tasks : x.tasks[p].msg = i
    THEN [ms[i] EXCEPT !.status = x.tasks[CHOOSE p \in DOMAIN x.tasks : x.tasks[p].msg = i].status]
    ELSE ms[i]]

(* Bug variants (named ...Bug) are used only to show that a property can fail. *)

(* expire_stale_run: a run without a heartbeat is fenced, nothing is replayed. *)
Expired(x) ==
    IF ~Stale(x) THEN x
    ELSE [x EXCEPT !.status = "interrupted",
                   !.tasks = [p \in DOMAIN @ |-> IF Pending(@[p])
                              THEN [@[p] EXCEPT !.status = "failed", !.card = 0]
                              ELSE @[p]]]
Settled == [r \in Run |-> Expired(runs[r])]
ShownSettledBug == msgs                 \* the messages of an expired run are forgotten
ShownSettled == LET stale == {r \in Run : Stale(runs[r])}
                IN IF stale = {} THEN msgs ELSE Shown(msgs, Settled[CHOOSE r \in stale : TRUE])

(* Every read of the room (the page, its event stream) expires a stale run.    *)
Visit == /\ room.here /\ \E r \in Run : Stale(runs[r])
         /\ runs' = Settled /\ msgs' = ShownSettled
         /\ UNCHANGED <<room, wk, cards>>

IdleBug == TRUE                         \* the room is not asked whether it is busy
Idle == \A r \in Run : ~Active(Settled[r])

NewTask(m, snap, again) == [member |-> m, status |-> "queued", msg |-> 0, retry |-> again,
                            snap |-> snap, card |-> 0, answer |-> 0]
Unread == [known |-> FALSE, full |-> {}, summary |-> {}]
Asleep == [pc |-> "start", pos |-> 0, card |-> 0, got |-> 0, why |-> ""]

(* submit_run: an idle room gets a run with its tasks and the user's message;  *)
(* after the commit the route starts its worker.                               *)
Enqueue(q, tasks, settled) ==
    /\ Len(runs) < MaxRuns /\ SumFunction([r \in Run |-> Len(runs[r].tasks)]) + Len(tasks) <= MaxTasks
    /\ Idle /\ ~room.archived
    /\ runs' = Append(settled, [req |-> q, status |-> "queued", stop |-> FALSE,
                                fresh |-> TRUE, tasks |-> tasks])
    /\ msgs' = Append(ShownSettled, [run |-> Len(runs) + 1, user |-> TRUE,
                                     status |-> "completed"])
    /\ wk' = Append(wk, Asleep)
    /\ UNCHANGED <<room, cards>>

(* The targets: everyone, the default member, or those named, in that order.   *)
Targets == {t \in Choices : \A i \in DOMAIN t : t[i] \in room.roster}
Unused(q) == \A r \in Run : runs[r].req # q   \* a repeated request returns its run
Submit(q, targets) ==
    /\ room.here /\ Unused(q)
    /\ Enqueue(q, [p \in DOMAIN targets |-> NewTask(targets[p], Unread, FALSE)], Settled)

(* retry_task: one task, with what the failed one had been given to read.  One *)
(* that failed before it read anything gets what preceded it.                  *)
Before(r, p) ==
    LET own == {i \in DOMAIN msgs : msgs[i].run = r /\ msgs[i].user}
        prior == {runs[r].tasks[k].msg : k \in 1 .. p - 1} \ {0}
    IN {i \in DOMAIN msgs : \E last \in own \cup prior :
           i <= last /\ \A b \in own \cup prior : b <= last} \ own
Retry(q, r, p) ==
    /\ room.here /\ Unused(q)
    /\ runs[r].tasks[p].status = "failed" /\ runs[r].tasks[p].member \in room.roster
    /\ LET t == runs[r].tasks[p]
           snap == IF t.snap.known THEN t.snap
                   ELSE [known |-> TRUE, full |-> Before(r, p), summary |-> {}]
       IN Enqueue(q, <<NewTask(t.member, snap, TRUE)>>,
                  [Settled EXCEPT ![r].tasks[p].snap = snap])

(* update_room and delete_room need an idle room.                              *)
Edit == \E roster \in SUBSET Member \ {{}}, archived \in BOOLEAN :
    /\ room.here /\ Idle /\ Len(runs) < MaxRuns /\ Len(msgs) < MaxMsgs
    /\ roster # room.roster \/ archived # room.archived
    /\ room' = [room EXCEPT !.roster = roster, !.archived = archived]
    /\ runs' = Settled
    /\ msgs' = IF roster = room.roster THEN ShownSettled ELSE Append(ShownSettled, System)
    /\ UNCHANGED <<wk, cards>>
Delete == /\ room.here /\ Idle /\ Len(runs) < MaxRuns
          /\ room' = [room EXCEPT !.here = FALSE]
          /\ runs' = Settled /\ msgs' = ShownSettled
          /\ UNCHANGED <<wk, cards>>

Stop(r) == /\ room.here /\ Active(runs[r])
           /\ runs' = [runs EXCEPT ![r].stop = TRUE, ![r].status = "stopping"]
           /\ UNCHANGED <<room, msgs, wk, cards>>

(* store_confirmation: an answer to the open card of a run that goes on.       *)
Respond(r, p) ==
    LET t == runs[r].tasks[p] IN
    /\ room.here /\ Active(runs[r]) /\ ~runs[r].stop
    /\ t.status = "waiting_user" /\ t.card # 0 /\ t.answer = 0
    /\ runs' = [runs EXCEPT ![r].tasks[p].answer = t.card]
    /\ UNCHANGED <<room, msgs, wk, cards>>

-----------------------------------------------------------------------------
(* The worker: _run_members and _execute_task.                                 *)

FencedBug(r) == ~room.here              \* the status of the run is not looked at
Fenced(r) == ~room.here \/ ~Active(runs[r])
HaltedBug(r) == Fenced(r)               \* a stop is left to the monitor
Halted(r) == Fenced(r) \/ runs[r].stop
At(r) == runs[r].tasks[wk[r].pos]
Go(r, pc) == wk' = [wk EXCEPT ![r].pc = pc]

(* The run is cancelled from inside: the body ends with CancelledError.        *)
Fall(r, pc) == wk' = [wk EXCEPT ![r].pc = pc, ![r].why = "interrupted"]

StartRun(r) ==
    /\ wk[r].pc = "start"
    /\ IF Fenced(r) \/ runs[r].status # "queued" \/ runs[r].stop
       THEN Go(r, "over") /\ UNCHANGED runs
       ELSE /\ wk' = [wk EXCEPT ![r].pc = "begin", ![r].pos = 1]
            /\ runs' = [runs EXCEPT ![r].status = "running"]
    /\ UNCHANGED <<room, msgs, cards>>

(* The next member is given the room to read and gets a message of its own.    *)
History(r) == {i \in DOMAIN msgs : i > room.upto /\ ~(msgs[i].run = r /\ msgs[i].user)}
BeginTask(r) ==
    /\ wk[r].pc = "begin" /\ ~Halted(r)
    /\ msgs' = Append(msgs, [run |-> r, user |-> FALSE, status |-> "running"])
    /\ runs' = [runs EXCEPT ![r].tasks[wk[r].pos] =
          [@ EXCEPT !.status = "running", !.msg = Len(msgs) + 1,
                    !.snap = IF At(r).snap.known THEN At(r).snap
                             ELSE [known |-> TRUE, full |-> History(r),
                                   summary |-> room.summary]]]
    /\ Go(r, "compact")
    /\ UNCHANGED <<room, cards>>

(* Too much to read: all but the latest few messages go into the summary, and  *)
(* later tasks of the room start from it.  A retry leaves the room's alone.    *)
Newest(S, n) == {i \in S : Cardinality({j \in S : j > i}) < n}
Least(a, b) == IF a <= b THEN a ELSE b
Keep(n) == Least(12, n \div 2)
Compact(r) ==
    LET t == At(r)
        kept == Newest(t.snap.full, Keep(Cardinality(t.snap.full)))
        older == t.snap.full \ kept
        summary == t.snap.summary \cup older
    IN /\ wk[r].pc = "compact" /\ Cardinality(t.snap.full) > 2 /\ ~Halted(r)
       /\ runs' = [runs EXCEPT ![r].tasks[wk[r].pos].snap = [@ EXCEPT !.full = kept, !.summary = summary]]
       /\ room' = IF t.retry THEN room
                  ELSE [room EXCEPT !.summary = summary,
                                    !.upto = CHOOSE i \in older : \A j \in older : j <= i]
       /\ Go(r, "work")
       /\ UNCHANGED <<msgs, cards>>
NoCompact(r) == /\ wk[r].pc = "compact" /\ Go(r, "work")
                /\ UNCHANGED <<room, msgs, runs, cards>>

(* _save_output: the task and its message change together, under the fence; an *)
(* answer belongs to the card it was given for.                                *)
Saved(r, status, card) ==
    runs' = [runs EXCEPT ![r].tasks[wk[r].pos] =
               [@ EXCEPT !.status = status, !.card = card,
                         !.answer = IF At(r).card = card THEN At(r).answer ELSE 0]]
Display(r) == msgs' = Shown(msgs, runs'[r])
Save(r, status, card) == Saved(r, status, card) /\ Display(r)

AskCard(r) ==
    /\ wk[r].pc = "work" /\ ~Halted(r) /\ cards < MaxCards
    /\ cards' = cards + 1
    /\ Save(r, "waiting_user", cards + 1)
    /\ wk' = [wk EXCEPT ![r].pc = "card", ![r].card = cards + 1, ![r].got = 0]
    /\ UNCHANGED room

(* The agent loop goes on with the answer; its next event is saved.            *)
TakeAnswer(r) == /\ wk[r].pc = "card" /\ wk[r].got # 0
                 /\ Go(r, "answered")
                 /\ UNCHANGED <<room, msgs, runs, cards>>
SaveResumed(r) == /\ wk[r].pc = "answered" /\ ~Halted(r)
                  /\ Save(r, "running", 0)
                  /\ Go(r, "work")
                  /\ UNCHANGED <<room, cards>>

(* The check before a step finds the run stopped or fenced.                    *)
FindHalted(r) == /\ wk[r].pc \in {"begin", "compact", "work", "answered"} /\ Halted(r)
                 /\ Fall(r, "halt")
                 /\ UNCHANGED <<room, msgs, runs, cards>>

(* The member ends, by its answer or by an error: these two saves are fenced,  *)
(* but do not look for a stop.                                                 *)
Last(r) == wk[r].pos = Len(runs[r].tasks)
EndTask(r, status) ==
    /\ \/ wk[r].pc = "work"
       \/ status = "failed" /\ wk[r].pc \in {"begin", "compact", "answered"}
    /\ wk[r].pc = "begin" => ~Halted(r)
    /\ IF Fenced(r)
       THEN Fall(r, IF status = "failed" THEN "over" ELSE "halt") /\ UNCHANGED <<runs, msgs>>
       ELSE /\ Save(r, status, 0)
            /\ IF Last(r) THEN Go(r, "over")
               ELSE wk' = [wk EXCEPT ![r].pc = "begin", ![r].pos = @ + 1]
    /\ UNCHANGED <<room, cards>>

(* A cancelled member says so, if it still can.                                *)
SaveHalted(r) ==
    /\ wk[r].pc = "halt"
    /\ \/ /\ ~Fenced(r)
          /\ Save(r, IF runs[r].stop THEN "stopped" ELSE "failed", 0)
       \/ (Fenced(r) \/ "crash" \in Mishap) /\ UNCHANGED <<runs, msgs>>   \* suppressed
    /\ Go(r, "over")
    /\ UNCHANGED <<room, cards>>

(* _finish_run: what is left of the tasks, and the outcome of the run.         *)
EndOf(t, why) == IF ~Pending(t) THEN t
                 ELSE [t EXCEPT !.card = 0,
                         !.status = CASE why = "stopped" /\ t.status = "queued" -> "cancelled"
                                      [] why = "stopped" /\ t.status # "queued" -> "stopped"
                                      [] OTHER -> "failed"]
Outcome(ss) == IF ss = {"completed"} THEN "completed"
               ELSE IF "completed" \in ss THEN "partial" ELSE "failed"
Finish(r) ==
    /\ wk[r].pc = "over"
    /\ Go(r, "none")
    /\ IF Fenced(r) THEN UNCHANGED <<runs, msgs>>
       ELSE LET why == IF runs[r].stop THEN "stopped" ELSE wk[r].why
                ts == [p \in DOMAIN runs[r].tasks |-> EndOf(runs[r].tasks[p], why)]
            IN /\ runs' = [runs EXCEPT ![r].tasks = ts, ![r].status =
                              IF why # "" THEN why
                              ELSE Outcome({ts[p].status : p \in DOMAIN ts})]
               /\ Display(r)
    /\ UNCHANGED <<room, cards>>

-----------------------------------------------------------------------------
(* The monitor, and what happens to workers.                                   *)

InTask(r) == wk[r].pc \in {"begin", "compact", "work", "card", "answered"}
Cancel(r, why) ==
    wk' = [wk EXCEPT ![r].why = why,
                     ![r].pc = IF InTask(r) THEN "halt" ELSE "over"]

MonitorBug(r) ==                        \* the stop request is not looked at
    /\ InTask(r) /\ Fenced(r) /\ Cancel(r, "interrupted")
    /\ UNCHANGED <<room, msgs, runs, cards>>
(* A fenced or stopped run is cancelled.  When the body ended in the same turn *)
(* of the event loop, the monitor's reason is the one that counts.             *)
Monitor(r) ==
    /\ InTask(r) \/ wk[r].pc = "start" \/ (wk[r].pc = "over" /\ wk[r].why = "")
    /\ Halted(r)
    /\ Cancel(r, IF Fenced(r) THEN "interrupted" ELSE "stopped")
    /\ UNCHANGED <<room, msgs, runs, cards>>
MonitorFails(r) ==                      \* the database fails, access is revoked
    /\ "revoke" \in Mishap
    /\ InTask(r) \/ wk[r].pc = "start"
    /\ Cancel(r, "interrupted")
    /\ UNCHANGED <<room, msgs, runs, cards>>

(* A stored answer is handed to the agent loop of this process.                *)
HandOver(r) ==
    /\ wk[r].pc = "card" /\ wk[r].got = 0 /\ ~Halted(r)
    /\ At(r).status = "waiting_user" /\ At(r).card # 0 /\ At(r).answer # 0
    /\ wk' = [wk EXCEPT ![r].got = At(r).answer]
    /\ UNCHANGED <<room, msgs, runs, cards>>
Beat(r) == /\ wk[r].pc \notin {"none", "over", "halt"} /\ ~Halted(r) /\ ~runs[r].fresh
           /\ runs' = [runs EXCEPT ![r].fresh = TRUE]
           /\ UNCHANGED <<room, msgs, wk, cards>>

(* 120 seconds without a heartbeat: a dead worker, or one that stalls.         *)
Lapse(r) == /\ runs[r].fresh /\ Active(runs[r])
            /\ wk[r].pc = "none" \/ "stall" \in Mishap
            /\ runs' = [runs EXCEPT ![r].fresh = FALSE]
            /\ UNCHANGED <<room, msgs, wk, cards>>

(* The process dies; or it shuts down, and a worker that is finishing does not *)
(* get to the end.                                                             *)
Crash(r) == /\ "crash" \in Mishap /\ wk[r].pc # "none"
            /\ Go(r, "none")
            /\ UNCHANGED <<room, msgs, runs, cards>>
Shutdown(r) == /\ "crash" \in Mishap /\ wk[r].pc # "none"
               /\ IF wk[r].pc \in {"halt", "over"} THEN Go(r, "none") ELSE Cancel(r, "interrupted")
               /\ UNCHANGED <<room, msgs, runs, cards>>

-----------------------------------------------------------------------------
(* The steps a live worker takes by itself; those it leaves to the model, the  *)
(* tools and the user are not among them.                                      *)
Body(r) == \/ StartRun(r) \/ BeginTask(r) \/ Compact(r) \/ NoCompact(r) \/ TakeAnswer(r)
           \/ SaveResumed(r) \/ FindHalted(r) \/ SaveHalted(r) \/ Finish(r)
Talk(r) == AskCard(r) \/ EndTask(r, "completed") \/ EndTask(r, "failed")
Watch(r) == Monitor(r) \/ HandOver(r)

Next == \/ Visit
        \/ \E q \in Request : \/ \E t \in Targets : Submit(q, t)
                              \/ \E r \in Run : \E p \in DOMAIN runs[r].tasks : Retry(q, r, p)
        \/ "edit" \in Mishap /\ (Edit \/ Delete)
        \/ \E r \in Run : \/ "stop" \in Mishap /\ Stop(r)
                          \/ \E p \in DOMAIN runs[r].tasks : Respond(r, p)
                          \/ Body(r) \/ Talk(r) \/ Watch(r) \/ MonitorFails(r)
                          \/ Beat(r) \/ Lapse(r) \/ Crash(r) \/ Shutdown(r)

Spec == Init /\ [][Next]_vars

(* A live worker's own steps and its monitor, the passing of a lease nobody    *)
(* renews, and a page that keeps the room open.                                *)
Fairness == /\ WF_vars(Visit)
            /\ \A r \in 1 .. MaxRuns : /\ WF_vars(r \in Run /\ Body(r))
                                       /\ WF_vars(r \in Run /\ Watch(r))
                                       /\ WF_vars(r \in Run /\ wk[r].pc = "none" /\ Lapse(r))
FairSpec == Spec /\ Fairness

-----------------------------------------------------------------------------
(* At most one run of a room is under way, however runs expire, stop and are   *)
(* retried and although workers outlive their runs.                            *)
OneActiveRun == \A q, r \in Run : Active(runs[q]) /\ Active(runs[r]) => q = r

(* Members speak one after another: a task has begun only if all before it are *)
(* over, also while one of them waits for the user.                            *)
InTurn == \A r \in Run : \A p \in DOMAIN runs[r].tasks :
    runs[r].tasks[p].msg # 0 => \A k \in 1 .. p - 1 : ~Pending(runs[r].tasks[k])

(* The status a reader sees on a message is that of its task, through every    *)
(* path that ends one (save, finish, expiry).                                  *)
MessageFollowsTask == \A r \in Run : \A p \in DOMAIN runs[r].tasks :
    LET t == runs[r].tasks[p] IN t.msg # 0 => msgs[t.msg].status = t.status

(* A run that has ended leaves no task open and its outcome sums up theirs.    *)
OutcomeSumsUp == \A r \in Run : ~Active(runs[r]) =>
    LET ss == {runs[r].tasks[p].status : p \in DOMAIN runs[r].tasks}
    IN /\ ss \cap ActiveTasks = {}
       /\ runs[r].status = "completed" => ss = {"completed"}
       /\ runs[r].status = "partial" => "completed" \in ss /\ ss # {"completed"}
       /\ runs[r].status = "failed" => "completed" \notin ss

(* An agent loop goes on with the answer the user gave to its very card.       *)
OwnAnswer == \A r \in Run : wk[r].pc \in {"card", "answered"} => wk[r].got \in {0, wk[r].card}

(* Run, tasks, messages and answers tell one story, in the order of the        *)
(* members and through every path that ends one.                               *)
ResultsAgree == InTurn /\ MessageFollowsTask /\ OutcomeSumsUp /\ OwnAnswer

(* A run that has ended is never written again by its late worker: neither it  *)
(* nor its tasks change (a retry completes what a failed task had to read).    *)
Frozen(x, y) == ~Active(x) =>
    /\ y.status = x.status
    /\ \A p \in DOMAIN x.tasks : [y.tasks[p] EXCEPT !.snap = Unread] =
                                 [x.tasks[p] EXCEPT !.snap = Unread]
EndedIsFinal == [][\A r \in Run : Frozen(runs[r], runs'[r])]_vars

(* A stop is never undone by the worker it meets, and no member starts after it. *)
StopHolds == [][\A r \in Run : runs[r].stop =>
    /\ runs'[r].stop
    /\ \A p \in DOMAIN runs[r].tasks : runs'[r].tasks[p].msg = runs[r].tasks[p].msg]_vars

(* A stopped run ends, and so does one whose worker died.                      *)
Doomed(r) == r \in Run /\ Active(runs[r]) /\ (runs[r].stop \/ wk[r].pc = "none")
DoomedEnds == \A r \in 1 .. MaxRuns : Doomed(r) ~> ~(r \in Run /\ Active(runs[r]))

-----------------------------------------------------------------------------
(* What the documentation says and the code does not keep.                     *)

(* What a later member can read reaches back without a gap: a message that is  *)
(* behind the summary's boundary is in the summary.                            *)
NothingForgotten == \A i \in DOMAIN msgs : i <= room.upto => i \in room.summary

(* A member that never started is cancelled by a stop, not stopped.            *)
StoppedHadStarted == \A r \in Run : \A p \in DOMAIN runs[r].tasks :
    runs[r].tasks[p].status = "stopped" => runs[r].tasks[p].msg # 0
=============================================================================
