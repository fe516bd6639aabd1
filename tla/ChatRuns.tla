------------------------------ MODULE ChatRuns ------------------------------
(* Durable Web tasks: core/chat_runs.py with the event source that             *)
(* interface/routes/chat.py feeds it.  A run is a PostgreSQL row leased by the *)
(* server process that created it, an append-only event log, and one asyncio   *)
(* worker that pulls events from the agent loop and commits them.              *)
(*                                                                             *)
(* Transactions take the row lock, so each one is a single step; everything    *)
(* between two awaits of the worker is a single step too.  A process that      *)
(* restarts has a new OWNER uuid, so it is another element of Proc.            *)
EXTENDS Naturals, Sequences

CONSTANTS
    Proc,       \* server processes (the OWNER uuid drawn at import)
    Session,    \* chat sessions of one user
    Call,       \* tool calls, identified by call_key(name, arguments)
    Delegated,  \* those that run as child tasks beside the others
    MaxRuns,    \* bound: runs ever reserved
    MaxEvents,  \* bound: events one worker pulls from its source
    Mishap,     \* what may disturb the runs, a subset of Mishaps
    None        \* "no process", "no session", "no call"

(* stop requests; graceful shutdown; a killed process; a process that stalls   *)
(* for a lease and goes on; database errors; a request that fails in between.  *)
Mishaps == {"stop", "shutdown", "crash", "stall", "database", "abandon"}

ASSUME ConstantsAssumption ==
    /\ MaxRuns \in Nat /\ MaxEvents \in Nat
    /\ Delegated \subseteq Call
    /\ Mishap \subseteq Mishaps
    /\ None \notin Proc \cup Session \cup Call

Run == 1 .. MaxRuns          \* in created_at order

Terminal == {"completed", "failed", "interrupted", "stopped"}
Status   == {"absent", "running"} \cup Terminal
Outcome  == {"completed", "failed", "interrupted", "stopped"}
Kind     == {"text", "call", "ok", "err", "done", "title", "error"}
Event    == [n: Nat, kind: Kind, call: Call \cup {None}]

VARIABLES
    created,    \* runs reserved so far
    row,        \* Run -> the chat_runs row, its event log and its message
    wk,         \* Run -> the worker task of that run, with its heartbeat task
    proc        \* Proc -> "up" | "stopping" | "down"

vars == <<created, row, wk, proc>>

Row == [status: Status, owner: Proc \cup {None}, session: Session \cup {None},
        stopReq: BOOLEAN,       \* stop_requested
        fresh: BOOLEAN,         \* heartbeat_at is within LEASE_SECONDS
        log: Seq(Event),        \* chat_run_events; the snapshot is its fold
        carried: SUBSET Call,   \* request["completed_calls"]
        lineage: SUBSET Run,    \* the runs reached along resumed_from
        shown: SUBSET Call]     \* calls the assistant message shows with no result

Pc == {"none",       \* reserved, start() not reached
       "spawned",    \* task created, first instruction not executed
       "pull",       \* async for: the agent loop works on its next event
       "append",     \* inside append(), before the commit reaches the server
       "close",      \* append() committed, leaving the database session
       "drain",      \* finally: children, heartbeat and source being closed
       "leftover",   \* finally: append() of what is still pending
       "check",      \* finally: about to read stop_requested
       "finish",     \* finally: about to write the outcome
       "gone",       \* the task has returned, or its process died
       "cancelled"}  \* the task ended as cancelled, no outcome written

Worker == [pc: Pc,
           cancel: {"no", "requested", "delivered"},   \* task.cancelling()
           n: Nat,                   \* events pulled so far
           pending: Seq(Event),      \* pulled and not cleared
           src: {"open", "done", "tail", "end"},       \* the generator
           todo: SUBSET Call,        \* announced, result not yielded
           ran: SUBSET Call,         \* really executed (history)
           batch: BOOLEAN,           \* the announced batch is executing
           outcome: Outcome,
           beat: BOOLEAN,            \* the heartbeat task is alive
           waiter: {"idle", "marked", "waiting", "shutdown"}]  \* stop() or shutdown()

NoRow == [status |-> "absent", owner |-> None, session |-> None,
          stopReq |-> FALSE, fresh |-> FALSE, log |-> <<>>, carried |-> {},
          lineage |-> {}, shown |-> {}]

NoWorker == [pc |-> "none", cancel |-> "no", n |-> 0, pending |-> <<>>,
             src |-> "open", todo |-> {}, ran |-> {}, batch |-> FALSE,
             outcome |-> "interrupted", beat |-> FALSE, waiter |-> "idle"]

TypeOK == /\ created \in 0 .. MaxRuns
          /\ row \in [Run -> Row]
          /\ wk \in [Run -> Worker]
          /\ proc \in [Proc -> {"up", "stopping", "down"}]

Init == /\ created = 0
        /\ row = [r \in Run |-> NoRow]
        /\ wk = [r \in Run |-> NoWorker]
        /\ proc = [p \in Proc |-> "up"]

-----------------------------------------------------------------------------
(* The snapshot, read from the log it is a fold of.                            *)

With(x, kind) == {k \in Call : \E i \in DOMAIN x.log :
                                  x.log[i].kind = kind /\ x.log[i].call = k}
Called(x)    == With(x, "call")
Succeeded(x) == With(x, "ok")
DoneLogged(x) == \E i \in DOMAIN x.log : x.log[i].kind = "done"

Uncertain(x) == Called(x) \ Succeeded(x)
CanResume(x) == x.status \in {"interrupted", "failed", "stopped"} /\ Uncertain(x) = {}

(* save_snapshot marks every call without a result unless the run completed;   *)
(* the lease has no meaning any more.                                          *)
Close(x, status) == [x EXCEPT !.status = status, !.shown = {}, !.fresh = FALSE]

LapsedBug(x) == x.status = "running" /\ ~x.fresh /\ x.stopReq
Lapsed(x) == x.status = "running" /\ ~x.fresh
Expire(x) == IF Lapsed(x)
             THEN Close(x, IF DoneLogged(x) THEN "completed" ELSE "interrupted")
             ELSE x

(* finish() writes only a run that is still running (an owner never changes).  *)
Finished(x, status) == IF x.status = "running" THEN Close(x, status) ELSE x

-----------------------------------------------------------------------------
(* reserve() inside the request's transaction, which commits with the user and *)
(* assistant messages.  `from` = 0 is a new turn, otherwise the run to resume. *)

(* Bug variants (named ...Bug) are used only to show that a property can fail. *)
NoActiveBug(s) == TRUE                      \* the running task is not looked for
NoActive(s) == \A q \in Run :
    row[q].session = s /\ row[q].status = "running" => Lapsed(row[q])

IsLatestBug(r, s) == row[r].session = s     \* any earlier run may be resumed
IsLatest(r, s) == \A q \in Run : row[q].session = s => q <= r

CarriedBug(prior) == prior.carried              \* results of this run are not carried
Carried(prior) == prior.carried \cup Succeeded(prior)

Reserve(p, s, from) ==
    /\ proc[p] = "up" /\ created < MaxRuns
    /\ NoActive(s)
    /\ LET new   == created + 1
           prior == IF from = 0 THEN NoRow ELSE Expire(row[from])
       IN /\ from # 0 => prior.session = s /\ CanResume(prior) /\ IsLatest(from, s)
          /\ row' = [q \in Run |->
                IF q = new
                THEN [NoRow EXCEPT !.status = "running", !.owner = p, !.session = s,
                                   !.fresh = TRUE,
                                   !.carried = Carried(prior),
                                   !.lineage = IF from = 0 THEN {}
                                               ELSE prior.lineage \cup {from}]
                ELSE IF row[q].session = s THEN Expire(row[q]) ELSE row[q]]
          /\ created' = new
    /\ UNCHANGED <<wk, proc>>

(* start(), reached after the commit.                                          *)
Start(r) ==
    /\ row[r].status # "absent" /\ wk[r].pc = "none" /\ proc[row[r].owner] = "up"
    /\ wk' = [wk EXCEPT ![r].pc = "spawned"]
    /\ UNCHANGED <<created, row, proc>>

(* The request fails between its commit and start(): a row with no worker.     *)
Abandon(r) ==
    /\ "abandon" \in Mishap
    /\ row[r].status # "absent" /\ wk[r].pc = "none" /\ proc[row[r].owner] = "up"
    /\ wk' = [wk EXCEPT ![r].pc = "gone"]
    /\ UNCHANGED <<created, row, proc>>

(* The first instructions of produce() create the heartbeat task.              *)
Begin(r) ==
    /\ wk[r].pc = "spawned" /\ wk[r].cancel = "no"
    /\ wk' = [wk EXCEPT ![r].pc = "pull", ![r].beat = TRUE]
    /\ UNCHANGED <<created, row, proc>>

-----------------------------------------------------------------------------
(* A task that ends drops its locals; what its tools did outside has happened. *)
Ended(w, pc) == [NoWorker EXCEPT !.pc = pc, !.ran = w.ran, !.waiter = w.waiter]

(* The source: the demand-driven agent loop behind event_generator().          *)

Emitted(w, kind, call) ==
    [w EXCEPT !.n = @ + 1,
              !.pending = Append(@, [n |-> w.n + 1, kind |-> kind, call |-> call])]

Pulling(r) == wk[r].pc = "pull" /\ wk[r].cancel = "no" /\ wk[r].n < MaxEvents

(* A text or thinking delta stays pending, or completes a batch of 0.1 s / 64; *)
(* progress events of an executing batch are committed one by one.             *)
PullText(r) ==
    /\ Pulling(r) /\ wk[r].src = "open"
    /\ \E pc \in {"pull", "append"} :
          /\ wk[r].batch => pc = "append"
          /\ wk' = [wk EXCEPT ![r] = [Emitted(wk[r], "text", None) EXCEPT !.pc = pc]]
    /\ UNCHANGED <<created, row, proc>>

(* A tool call is announced: the turn recorder saves the message, not fenced.  *)
(* A worker announces each call once: a repetition with the same arguments      *)
(* inside one run is executed again by design, and is outside this model.      *)
PullCallBug(r, k) ==                        \* a call is not a commit boundary
    /\ Pulling(r) /\ wk[r].src = "open" /\ ~wk[r].batch
    /\ k \notin wk[r].todo \cup wk[r].ran \cup Called(row[r])
    /\ wk' = [wk EXCEPT ![r] = [Emitted(wk[r], "call", k) EXCEPT !.todo = @ \cup {k}]]
    /\ row' = [row EXCEPT ![r].shown = wk[r].todo \cup {k}]
    /\ UNCHANGED <<created, proc>>

PullCall(r, k) ==
    /\ Pulling(r) /\ wk[r].src = "open" /\ ~wk[r].batch
    /\ k \notin wk[r].todo \cup wk[r].ran \cup Called(row[r])
    /\ wk' = [wk EXCEPT ![r] = [Emitted(wk[r], "call", k)
                                EXCEPT !.pc = "append", !.todo = @ \cup {k}]]
    /\ row' = [row EXCEPT ![r].shown = wk[r].todo \cup {k}]
    /\ UNCHANGED <<created, proc>>

(* The tool really runs.  The loop executes only while the producer waits for  *)
(* the next event; a delegated call, once its batch started, also beside it.   *)
Execute(r, k) ==
    /\ k \in wk[r].todo \ (wk[r].ran \cup row[r].carried)
    /\ wk[r].src = "open"
    /\ \/ wk[r].pc = "pull"
       \/ k \in Delegated /\ wk[r].batch /\ wk[r].pc \in {"append", "close"}
    /\ wk' = [wk EXCEPT ![r].ran = @ \cup {k}, ![r].batch = TRUE]
    /\ UNCHANGED <<created, row, proc>>

(* The result of a call: reused from completed_calls, or that of an execution; *)
(* an error may also come without any execution (a refused call).              *)
PullResult(r, k, kind) ==
    /\ Pulling(r) /\ wk[r].src = "open" /\ k \in wk[r].todo
    /\ kind = "ok" => k \in row[r].carried \cup wk[r].ran
    /\ wk' = [wk EXCEPT ![r] = [Emitted(wk[r], kind, k)
                                EXCEPT !.pc = "append", !.todo = @ \ {k},
                                       !.batch = wk[r].todo # {k}]]
    /\ row' = [row EXCEPT ![r].shown = wk[r].todo \ {k}]
    /\ UNCHANGED <<created, proc>>

(* The final answer: turn.save(force), then the done event.                    *)
PullDone(r) ==
    /\ Pulling(r) /\ wk[r].src = "open" /\ wk[r].todo = {}
    /\ wk' = [wk EXCEPT ![r] = [Emitted(wk[r], "done", None)
                                EXCEPT !.pc = "append", !.src = "done"]]
    /\ row' = [row EXCEPT ![r].shown = {}]
    /\ UNCHANGED <<created, proc>>

(* After done: the session title, whose saving may still fail.                 *)
PullTitle(r) ==
    /\ Pulling(r) /\ wk[r].src = "done"
    /\ wk' = [wk EXCEPT ![r] = [Emitted(wk[r], "title", None)
                                EXCEPT !.pc = "append", !.src = "tail"]]
    /\ UNCHANGED <<created, row, proc>>

(* Any exception of the turn becomes an error event.                           *)
PullError(r) ==
    /\ Pulling(r) /\ wk[r].src \in {"open", "done"}
    /\ wk' = [wk EXCEPT ![r] = [Emitted(wk[r], "error", None)
                                EXCEPT !.pc = "append", !.src = "tail"]]
    /\ UNCHANGED <<created, row, proc>>

(* The generator is exhausted; after an error it first rescues the message.    *)
PullEnd(r) ==
    /\ wk[r].pc = "pull" /\ wk[r].cancel = "no" /\ wk[r].src \in {"done", "tail"}
    /\ wk' = [wk EXCEPT ![r].src = "end",
                        ![r].pc = IF wk[r].pending = <<>> THEN "drain" ELSE "append"]
    /\ row' = [row EXCEPT ![r].shown = wk[r].todo]
    /\ UNCHANGED <<created, proc>>

-----------------------------------------------------------------------------
(* append() in the loop, and the finally block of produce().                   *)

FencedBug(r) == FALSE                      \* the status is not re-read
Fenced(r) == row[r].status # "running"     \* the owner of a row never changes
Logged(r) == [row EXCEPT ![r].log = @ \o wk[r].pending]

(* The transaction of append(): CancelledError if the run is no longer ours.   *)
CommitAppend(r) ==
    /\ wk[r].pc = "append" /\ wk[r].cancel # "requested"
    /\ IF Fenced(r)
       THEN /\ wk' = [wk EXCEPT ![r].pc = "drain"]
            /\ UNCHANGED row
       ELSE /\ wk' = [wk EXCEPT ![r].pc = "close"]
            /\ row' = Logged(r)
    /\ UNCHANGED <<created, proc>>

(* The database fails during append(); the commit may have landed all the same. *)
AppendFailsBug(r) ==                        \* the batch is dropped, the loop goes on
    /\ "database" \in Mishap
    /\ wk[r].pc = "append" /\ wk[r].cancel # "requested"
    /\ wk' = [wk EXCEPT ![r].pc = "pull", ![r].pending = <<>>]
    /\ UNCHANGED <<created, row, proc>>

AppendFails(r) ==
    /\ "database" \in Mishap
    /\ wk[r].pc = "append" /\ wk[r].cancel # "requested"
    /\ wk' = [wk EXCEPT ![r].pc = "drain", ![r].outcome = "failed"]
    /\ \/ UNCHANGED row
       \/ ~Fenced(r) /\ row' = Logged(r)
    /\ UNCHANGED <<created, proc>>

(* append() returned: pending.clear() and the outcome of a done or an error.   *)
LastKind(w) == w.pending[Len(w.pending)].kind
OutcomeAfter(w) == IF LastKind(w) = "done" THEN "completed"
                   ELSE IF LastKind(w) = "error" THEN "failed" ELSE w.outcome

Appended(r) ==
    /\ wk[r].pc = "close" /\ wk[r].cancel # "requested"
    /\ wk' = [wk EXCEPT ![r] = [wk[r] EXCEPT
                 !.pending = <<>>, !.outcome = OutcomeAfter(wk[r]),
                 !.pc = IF wk[r].src = "end" THEN "drain" ELSE "pull"]]
    /\ UNCHANGED <<created, row, proc>>

(* Children cancelled and gathered, heartbeat cancelled, source closed.        *)
Drain(r) ==
    /\ wk[r].pc = "drain" /\ wk[r].cancel # "requested"
    /\ wk' = [wk EXCEPT ![r].beat = FALSE, ![r].src = "end",
                        ![r].pc = IF wk[r].pending = <<>> THEN "check" ELSE "leftover"]
    /\ UNCHANGED <<created, row, proc>>

(* What is still pending is appended; any failure here is only logged.         *)
Leftover(r) ==
    /\ wk[r].pc = "leftover" /\ wk[r].cancel # "requested"
    /\ \/ /\ ~Fenced(r)
          /\ row' = Logged(r)
          /\ \/ wk' = [wk EXCEPT ![r].pc = "check"]
             \/ "database" \in Mishap /\ wk' = [wk EXCEPT ![r] = Ended(@, "gone")]
       \/ /\ Fenced(r) \/ "database" \in Mishap
          /\ UNCHANGED row
          /\ wk' = [wk EXCEPT ![r] = Ended(@, "gone")]
    /\ UNCHANGED <<created, proc>>

(* A first transaction reads stop_requested, without the row lock ...          *)
Check(r) ==
    /\ wk[r].pc = "check" /\ wk[r].cancel # "requested"
    /\ wk' = [wk EXCEPT ![r].pc = "finish",
                        ![r].outcome = IF row[r].stopReq /\ @ # "completed"
                                       THEN "stopped" ELSE @]
    /\ UNCHANGED <<created, row, proc>>

(* ... and a second one writes the outcome; its failure is only logged.        *)
Finish(r) ==
    /\ wk[r].pc = "finish" /\ wk[r].cancel # "requested"
    /\ \/ row' = [row EXCEPT ![r] = Finished(@, wk[r].outcome)]
       \/ "database" \in Mishap /\ UNCHANGED row
    /\ wk' = [wk EXCEPT ![r] = Ended(@, "gone")]
    /\ UNCHANGED <<created, proc>>

-----------------------------------------------------------------------------
(* Cancellation.  Every caller tests task.cancelling() first, so a worker is   *)
(* cancelled at most once, wherever it then happens to be.                     *)

Alive(w) == w.pc \notin {"none", "gone", "cancelled"}
Cancelled(w) == IF Alive(w) /\ w.cancel = "no" THEN [w EXCEPT !.cancel = "requested"] ELSE w

Deliver(r) ==
    /\ wk[r].cancel = "requested"
    /\ LET w == [wk[r] EXCEPT !.cancel = "delivered"]
           Become(x) == wk' = [wk EXCEPT ![r] = x]
           MayCommit == UNCHANGED row \/ (~Fenced(r) /\ row' = Logged(r))
       IN \/ /\ w.pc = "spawned"                 \* no instruction ever runs
             /\ Become(Ended(w, "cancelled"))
             /\ UNCHANGED row
          \/ /\ w.pc = "pull"                    \* the generator rescues and returns
             /\ Become([w EXCEPT !.src = "end",
                          !.pc = IF w.pending = <<>> THEN "drain" ELSE "append"])
             /\ \/ UNCHANGED row
                \/ w.src = "open" /\ row' = [row EXCEPT ![r].shown = w.todo]
          \/ /\ w.pc = "append"
             /\ Become([w EXCEPT !.pc = "drain"])
             /\ MayCommit
          \/ /\ w.pc \in {"close", "drain"}      \* in drain: at `await beat`
             /\ Become([w EXCEPT !.pc = "drain"])
             /\ UNCHANGED row
          \/ /\ w.pc = "drain"                   \* at gather() or aclose(): it escapes
             /\ w.src # "end" \/ w.todo \cap Delegated # {}
             /\ \E b \in {FALSE, w.beat} : Become([Ended(w, "cancelled") EXCEPT !.beat = b])
             /\ UNCHANGED row
          \/ /\ w.pc = "leftover"
             /\ Become(Ended(w, "gone"))
             /\ MayCommit
          \/ /\ w.pc = "check"
             /\ Become(Ended(w, "gone"))
             /\ UNCHANGED row
          \/ /\ w.pc = "finish"
             /\ Become(Ended(w, "gone"))
             /\ \/ UNCHANGED row
                \/ row' = [row EXCEPT ![r] = Finished(@, w.outcome)]
    /\ UNCHANGED <<created, proc>>

(* heartbeat(): renew the lease, or cancel the worker and return when the run  *)
(* is no longer ours, a stop was requested, or the database cannot be reached. *)
BeatBug(r) ==                              \* stop_requested is not read
    /\ wk[r].beat /\ row[r].status = "running"
    /\ row' = [row EXCEPT ![r].fresh = TRUE]
    /\ UNCHANGED <<created, wk, proc>>

Beat(r) ==
    /\ wk[r].beat
    /\ IF row[r].status = "running" /\ ~row[r].stopReq
       THEN /\ row' = [row EXCEPT ![r].fresh = TRUE]
            /\ UNCHANGED wk
       ELSE /\ wk' = [wk EXCEPT ![r] = [Cancelled(@) EXCEPT !.beat = FALSE]]
            /\ UNCHANGED row
    /\ UNCHANGED <<created, proc>>

BeatFails(r) ==
    /\ "database" \in Mishap
    /\ wk[r].beat
    /\ wk' = [wk EXCEPT ![r] = [Cancelled(@) EXCEPT !.beat = FALSE]]
    /\ UNCHANGED <<created, row, proc>>

(* Thirty seconds without a heartbeat: a dead process, or only a stalled one.  *)
Lapse(r) ==
    /\ row[r].status = "running" /\ row[r].fresh
    /\ "stall" \in Mishap \/ ~(Alive(wk[r]) \/ wk[r].beat \/ wk[r].pc = "none")
    /\ row' = [row EXCEPT ![r].fresh = FALSE]
    /\ UNCHANGED <<created, wk, proc>>

-----------------------------------------------------------------------------
(* Requests on an existing run.                                                *)

(* latest() and every poll of subscribe() expire a lapsed run.                 *)
Observe(r) ==
    /\ Lapsed(row[r])
    /\ row' = [row EXCEPT ![r] = Expire(@)]
    /\ UNCHANGED <<created, wk, proc>>

(* stop(): the transaction, at any process (only the owner has the worker).    *)
StopMark(r) ==
    /\ "stop" \in Mishap
    /\ row[r].status # "absent" /\ wk[r].waiter = "idle"
    /\ LET x == Expire(row[r]) IN
          row' = [row EXCEPT ![r] = [x EXCEPT !.stopReq = @ \/ x.status = "running"]]
    /\ \/ UNCHANGED wk
       \/ proc[row[r].owner] = "up" /\ wk' = [wk EXCEPT ![r].waiter = "marked"]
    /\ UNCHANGED <<created, proc>>

(* ... then the local worker is cancelled, if _workers still holds it ...      *)
StopCancel(r) ==
    /\ wk[r].waiter = "marked"
    /\ wk' = [wk EXCEPT ![r] = [Cancelled(@) EXCEPT
                 !.waiter = IF Alive(wk[r]) THEN "waiting" ELSE "idle"]]
    /\ UNCHANGED <<created, row, proc>>

(* ... and waited for.  A task that ended as cancelled wrote no outcome.       *)
StopSettle(r) ==
    /\ wk[r].waiter = "waiting" /\ ~Alive(wk[r])
    /\ row' = IF wk[r].pc = "cancelled"
              THEN [row EXCEPT ![r] = Finished(@, "stopped")] ELSE row
    /\ wk' = [wk EXCEPT ![r].waiter = "idle"]
    /\ UNCHANGED <<created, proc>>

(* The wait is given up after ten seconds, or the request fails.               *)
StopGiveUp(r) ==
    /\ wk[r].waiter \in {"marked", "waiting"}
    /\ wk' = [wk EXCEPT ![r].waiter = "idle"]
    /\ UNCHANGED <<created, row, proc>>

-----------------------------------------------------------------------------
(* Processes.                                                                  *)

Mine(p, r) == row[r].owner = p

(* shutdown(), once requests are drained: cancel every worker, wait for all.   *)
Shutdown(p) ==
    /\ "shutdown" \in Mishap
    /\ proc[p] = "up"
    /\ \A r \in Run : Mine(p, r) => wk[r].pc # "none" /\ wk[r].waiter = "idle"
    /\ proc' = [proc EXCEPT ![p] = "stopping"]
    /\ wk' = [r \in Run |-> IF Mine(p, r) /\ Alive(wk[r])
                            THEN [Cancelled(wk[r]) EXCEPT !.waiter = "shutdown"]
                            ELSE wk[r]]
    /\ UNCHANGED <<created, row>>

ShutdownEnd(p) ==
    /\ proc[p] = "stopping"
    /\ \A r \in Run : Mine(p, r) => ~Alive(wk[r])
    /\ row' = [r \in Run |-> IF /\ Mine(p, r) /\ wk[r].waiter = "shutdown"
                                /\ wk[r].pc = "cancelled"
                             THEN Finished(row[r], "interrupted") ELSE row[r]]
    /\ wk' = [r \in Run |-> IF Mine(p, r)
                            THEN [wk[r] EXCEPT !.beat = FALSE, !.waiter = "idle"]
                            ELSE wk[r]]
    /\ proc' = [proc EXCEPT ![p] = "down"]
    /\ UNCHANGED created

(* The process is killed: its tasks, heartbeats and requests are gone.         *)
Crash(p) ==
    /\ "crash" \in Mishap
    /\ proc[p] # "down"
    /\ proc' = [proc EXCEPT ![p] = "down"]
    /\ wk' = [r \in Run |-> IF Mine(p, r)
                            THEN [Ended(wk[r], "gone") EXCEPT !.waiter = "idle"]
                            ELSE wk[r]]
    /\ UNCHANGED <<created, row>>

-----------------------------------------------------------------------------
Source(r) == \/ PullText(r) \/ PullDone(r) \/ PullTitle(r) \/ PullError(r) \/ PullEnd(r)
             \/ \E k \in Call : \/ PullCall(r, k) \/ Execute(r, k)
                                \/ \E kind \in {"ok", "err"} : PullResult(r, k, kind)

Finalize(r) == \/ CommitAppend(r) \/ AppendFails(r) \/ Appended(r) \/ Drain(r)
               \/ Leftover(r) \/ Check(r) \/ Finish(r) \/ Deliver(r)

Requests(r) == Observe(r) \/ StopMark(r) \/ StopCancel(r) \/ StopSettle(r) \/ StopGiveUp(r)

RunStep(r) == \/ Start(r) \/ Abandon(r) \/ Begin(r) \/ Source(r) \/ Finalize(r)
              \/ Beat(r) \/ BeatFails(r) \/ Lapse(r) \/ Requests(r)

Next == \/ \E p \in Proc, s \in Session, from \in {0} \cup Run : Reserve(p, s, from)
        \/ \E r \in Run : RunStep(r)
        \/ \E p \in Proc : Shutdown(p) \/ ShutdownEnd(p) \/ Crash(p)

Spec == Init /\ [][Next]_vars

(* What really goes on by itself: a request that reserved a run, a live        *)
(* worker's own steps (not the model and the tools it waits for), its          *)
(* heartbeat, the passing of a lease nobody renews, a client that keeps        *)
(* polling, and a shutdown whose workers have ended.                           *)
Fairness == \A r \in Run :
    /\ WF_vars(Start(r) \/ Begin(r) \/ Finalize(r))
    /\ WF_vars(Beat(r))
    /\ WF_vars(~wk[r].beat /\ Lapse(r))
    /\ WF_vars(Observe(r))
    /\ \A p \in Proc : WF_vars(ShutdownEnd(p))

FairSpec == Spec /\ Fairness

-----------------------------------------------------------------------------
(* Safety.                                                                     *)

(* At most one running task per session (the session row lock of reserve() and *)
(* the partial unique index), whatever expires, stops or resumes meanwhile.    *)
OneRunningPerSession == \A q, r \in Run :
    /\ row[q].status = "running" /\ row[r].status = "running"
    /\ row[q].session = row[r].session
    => q = r

(* Along a chain of continuations no tool call is executed twice, although a   *)
(* worker that lost its lease may still be executing when its run is resumed.  *)
NoReexecution == \A r \in Run : \A a \in row[r].lineage : wk[r].ran \cap wk[a].ran = {}

(* A run that may be resumed has a durable successful result for everything    *)
(* its worker has executed, and will ever execute (uncertain_tools).           *)
ResumableIsCertain == \A r \in Run :
    CanResume(row[r]) => wk[r].ran \subseteq Succeeded(row[r])

(* Two continuations of one run lie on one chain: double clicks do not fork.   *)
LinearContinuation == \A q, r \in Run :
    q < r /\ row[q].lineage \cap row[r].lineage # {} => q \in row[r].lineage

(* A completed run has its final answer and a result for every call it made.   *)
CompletedHasAnswer == \A r \in Run : row[r].status = "completed" =>
    /\ DoneLogged(row[r])
    /\ Called(row[r]) \subseteq Succeeded(row[r]) \cup With(row[r], "err")

(* The events stored of a worker are a gap-free prefix of those it pulled: a   *)
(* batch may be lost at the end, never in the middle.                          *)
NoGapInLog == \A r \in Run :
    LET stored == {row[r].log[i].n : i \in DOMAIN row[r].log}
    IN \A n \in stored : 1 .. n \subseteq stored

(* The log of a run tells what its worker has done, whatever disturbs it.      *)
LogIsWhole == CompletedHasAnswer /\ NoGapInLog

(* A terminal run is never written again by a late worker, stop or shutdown:   *)
(* neither its outcome nor its log changes.                                    *)
Frozen(r) == row[r].status \in Terminal =>
                 row'[r].status = row[r].status /\ row'[r].log = row[r].log
TerminalIsFinal == [][\A r \in Run : Frozen(r)]_vars

(* All of this is what RunLedger promises, without workers or leases.          *)
Ledger == INSTANCE RunLedger WITH
    status  <- [r \in Run |-> row[r].status],
    session <- [r \in Run |-> row[r].session],
    log     <- [r \in Run |-> row[r].log],
    lineage <- [r \in Run |-> row[r].lineage],
    effect  <- [r \in Run |-> wk[r].ran]
ImplementsLedger == Ledger!LSpec

-----------------------------------------------------------------------------
(* The inductive invariant behind the safety properties.                       *)

(* A run exists from its reservation on, and has a worker only then.           *)
PresenceInv == \A r \in Run :
    /\ r > created => row[r] = NoRow /\ wk[r] = NoWorker
    /\ r <= created => row[r].status # "absent" /\ row[r].session \in Session

(* A call is in the log before it can be executed, and is not executed when it *)
(* was carried over: `pull` and `close` are reached only through a commit, and *)
(* a batch that executes announces nothing more.                               *)
Announced(w) == {k \in Call : \E i \in DOMAIN w.pending :
                                 w.pending[i].kind = "call" /\ w.pending[i].call = k}
WorkerInv(x, w) ==
    /\ w.ran \subseteq Called(x) \ x.carried
    /\ w.pc \in {"none", "spawned"} => w.todo = {}
    /\ w.pc \in {"pull", "close"} \/ w.batch => w.todo \subseteq Called(x)
    /\ w.pc = "append" => w.todo \subseteq Called(x) \cup Announced(w)

(* A run that was continued stays certain, and its calls are carried for ever. *)
LineageInv == \A r \in Run : \A a \in row[r].lineage :
    /\ a < r /\ row[a].session = row[r].session
    /\ CanResume(row[a])
    /\ Called(row[a]) \subseteq row[r].carried
    /\ row[a].lineage \subseteq row[r].lineage

Inv == /\ TypeOK /\ PresenceInv /\ OneRunningPerSession
       /\ \A r \in Run : WorkerInv(row[r], wk[r])
       /\ LineageInv /\ LinearContinuation

-----------------------------------------------------------------------------
(* Liveness, under Fairness.                                                   *)

(* A requested stop ends the run, even if the owner dies or the cancellation   *)
(* is swallowed during finalization (then by expiry of the lease); and a worker *)
(* that was cancelled comes to its end by itself, wherever that met it.        *)
StopTakesEffect == \A r \in Run :
    /\ row[r].stopReq ~> row[r].status # "running"
    /\ wk[r].cancel # "no" ~> ~Alive(wk[r])

(* A run whose worker is dead, or was never started, does not stay running.    *)
OrphanEnds == \A r \in Run :
    (row[r].status = "running" /\ wk[r].pc \in {"gone", "cancelled"})
        ~> row[r].status # "running"

-----------------------------------------------------------------------------
(* What the documentation says and the code does not keep.                     *)

(* A durable done event makes the run end as completed.                        *)
CompletionIsKept == \A r \in Run :
    DoneLogged(row[r]) /\ row[r].status \in Terminal => row[r].status = "completed"

(* An event the worker pulled is stored at most once.                          *)
StoredOnce == \A r \in Run : \A i, j \in DOMAIN row[r].log :
    row[r].log[i].n = row[r].log[j].n => i = j

(* The message of a run that has ended shows no call without a result: one     *)
(* whose result was not saved is marked unknown.                               *)
UnknownIsMarked == \A r \in Run : row[r].status \in Terminal => row[r].shown = {}
=============================================================================
