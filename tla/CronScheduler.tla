---------------------------- MODULE CronScheduler -----------------------------
(* One scheduled job on several replicas (cron_jobs/): each has a scheduler of *)
(* its own, an occurrence is claimed in Redis, the attempt has a run record,   *)
(* and its report goes to a channel (channels/cron_notify.py).                 *)
(*                                                                             *)
(* Time advances by ticks; a job of kind "cron" is due at each of them, one of *)
(* kind "once" at run_at.  An attempt is the task that APScheduler starts, or  *)
(* a request to run the job now.                                               *)
EXTENDS Integers, FiniteSets

CONSTANTS
    Replica,
    Attempt,      \* attempts at the job
    MaxTime,      \* bound: ticks
    Grace,        \* MISFIRE_GRACE_SECONDS, in ticks
    MaxTrouble,   \* bound: edits, crashes, shutdowns and failures
    Trouble       \* those that a run of TLC admits

Troubles == {"edit", "delete", "crash", "shutdown", "redis", "database"}
ASSUME CronAssumption == /\ MaxTime \in Nat /\ Grace \in Nat /\ MaxTrouble \in Nat
                         /\ Trouble \subseteq Troubles

Time == 0 .. MaxTime
Manual == -1
Never == MaxTime + 1

VARIABLES
    job,          \* the row: [kind, at, active], kind "deleted" without one
    now,
    sched,        \* per replica: [on, kind, due], due = Never when not scheduled
    claims,       \* occurrences claimed in Redis
    att,          \* per attempt: [pc, on (a replica), occ, kind (as loaded), say]
    run,          \* its record: [status, delivery]
    told,         \* attempts whose report reached the channel
    won,          \* history: attempts that claimed their occurrence
    trouble       \* troubles so far

cvars == <<job, now, sched, claims, att, run, told, won, trouble>>

Pc == {"new", "load", "claim", "begin", "prepare", "agent", "decide", "send", "told", "over"}
Status == {"none", "running", "success", "failed"}
Delivery == {"none", "pending", "not_requested", "suppressed", "unknown", "sent", "failed"}
Idle == [pc |-> "new", on |-> "none", occ |-> Manual, kind |-> "once",
         say |-> FALSE]
Off == [on |-> FALSE, kind |-> "once", due |-> Never]

CTypeOK ==
    /\ job \in [kind: {"once", "cron", "deleted"}, at: Time, active: BOOLEAN] /\ now \in Time
    /\ sched \in [Replica -> [on: BOOLEAN, kind: {"once", "cron"}, due: 0 .. Never]]
    /\ claims \subseteq Time /\ told \subseteq Attempt /\ won \subseteq Attempt
    /\ att \in [Attempt -> [pc: Pc, on: Replica \cup {"none"}, occ: Time \cup {Manual},
                            kind: {"once", "cron"}, say: BOOLEAN]]
    /\ run \in [Attempt -> [status: Status, delivery: Delivery]]
    /\ trouble \in 0 .. MaxTrouble

(* _schedule_job: the trigger of the row; a date in the past is due at once.   *)
Scheduled(j) == [on |-> TRUE, kind |-> IF j.kind = "cron" THEN "cron" ELSE "once",
                 due |-> IF j.kind = "cron" THEN now ELSE j.at]
Unscheduled == [on |-> TRUE, kind |-> "once", due |-> Never]

CInit ==
    /\ job \in [kind: {"once"}, at: Time, active: {TRUE}] \cup [kind: {"cron"}, at: {0}, active: {TRUE}]
    /\ now = 0 /\ sched = [r \in Replica |-> Off] /\ claims = {}
    /\ att = [a \in Attempt |-> Idle] /\ told = {} /\ won = {} /\ trouble = 0
    /\ run = [a \in Attempt |-> [status |-> "none", delivery |-> "none"]]

(* An attempt keeps of itself what its next steps need.                        *)
Moved(a, pc) == CASE pc = "over" -> [Idle EXCEPT !.pc = pc, !.occ = att[a].occ]
               [] pc \in {"claim", "begin"} -> [att[a] EXCEPT !.pc = pc]
               [] OTHER -> [att[a] EXCEPT !.pc = pc, !.kind = "once", !.say = FALSE]
Goto(a, pc) == att' = [att EXCEPT ![a] = Moved(a, pc)]
Live(a, pc) == att[a].pc = pc
Mishap(kind) == kind \in Trouble /\ trouble < MaxTrouble /\ trouble' = trouble + 1

-----------------------------------------------------------------------------
(* The clock, Redis and the schedulers.                                        *)

Tick == /\ now < MaxTime /\ now' = now + 1
        /\ UNCHANGED <<job, sched, claims, att, run, told, won, trouble>>
(* A claim outlives the grace by far, and then it goes.                        *)
Expire(t) == /\ t \in claims /\ now - t > Grace + 1 /\ claims' = claims \ {t}
             /\ UNCHANGED <<job, now, sched, att, run, told, won, trouble>>

(* start(): every job that is active.                                          *)
Boot(r) == /\ ~sched[r].on
           /\ sched' = [sched EXCEPT ![r] = IF job.kind # "deleted" /\ job.active
                                            THEN Scheduled(job) ELSE Unscheduled]
           /\ UNCHANGED <<job, now, claims, att, run, told, won, trouble>>

(* APScheduler: runs that were missed count as one, its last time; a run that  *)
(* is later than the grace is skipped, and so is one while another goes on.    *)
Busy(r) == \E a \in Attempt : att[a].on = r /\ att[a].occ # Manual /\ att[a].pc \notin {"new", "over"}
After(s) == [s EXCEPT !.due = IF s.kind = "cron" /\ now < MaxTime THEN now + 1 ELSE Never]
Fire(r, a) ==
    /\ sched[r].due <= now /\ sched' = [sched EXCEPT ![r] = After(@)]
    /\ LET occ == IF sched[r].kind = "cron" THEN now ELSE sched[r].due
       IN IF now - occ > Grace \/ Busy(r) THEN UNCHANGED att
          ELSE Live(a, "new") /\ att' = [att EXCEPT ![a] = [Idle EXCEPT !.pc = "load", !.on = r,
                                                                        !.occ = occ]]
    /\ UNCHANGED <<job, now, claims, run, told, won, trouble>>

-----------------------------------------------------------------------------
(* _execute and run_now.                                                       *)

RunNow(r, a) ==
    /\ sched[r].on /\ Live(a, "new") /\ job.kind # "deleted"
    /\ att' = [att EXCEPT ![a] = [Idle EXCEPT !.pc = "begin", !.on = r, !.kind = job.kind]]
    /\ UNCHANGED <<job, now, sched, claims, run, told, won, trouble>>
Load(a) ==
    /\ Live(a, "load")
    /\ IF job.kind # "deleted" /\ job.active
       THEN att' = [att EXCEPT ![a].pc = "claim", ![a].kind = job.kind]
       ELSE Goto(a, "over")
    /\ UNCHANGED <<job, now, sched, claims, run, told, won, trouble>>

(* claim(): an outage is a refusal, whether Redis has set the key or not.      *)
InGraceBug(t) == TRUE
InGrace(t) == now - t <= Grace
Claim(a) ==
    /\ Live(a, "claim")
    /\ IF InGrace(att[a].occ) /\ att[a].occ \notin claims
       THEN /\ claims' = claims \cup {att[a].occ}
            /\ \/ Goto(a, "begin") /\ won' = won \cup {a} /\ UNCHANGED trouble
               \/ Mishap("redis") /\ Goto(a, "over") /\ UNCHANGED won
       ELSE Goto(a, "over") /\ UNCHANGED <<claims, won, trouble>>
    /\ UNCHANGED <<job, now, sched, run, told>>
ClaimUnavailable(a) == /\ Live(a, "claim") /\ Mishap("redis") /\ Goto(a, "over")
                       /\ UNCHANGED <<job, now, sched, claims, run, told, won>>

(* A one-shot job leaves the scheduler and is deactivated, in the transaction  *)
(* that opens the run record.  (A job deleted meanwhile cannot be updated.)    *)
OneShot(a) == att[a].kind = "once" /\ att[a].occ # Manual
Begin(a) ==
    /\ Live(a, "begin")
    /\ sched' = IF OneShot(a) THEN [sched EXCEPT ![att[a].on].due = Never] ELSE sched
    /\ \/ /\ job.kind # "deleted" \/ ~OneShot(a)
          /\ job' = [job EXCEPT !.active = @ /\ ~OneShot(a)] /\ Goto(a, "prepare")
          /\ \E d \in {"pending", "not_requested"} :
                run' = [run EXCEPT ![a] = [status |-> "running", delivery |-> d]]
          /\ UNCHANGED trouble
       \/ /\ job.kind = "deleted" /\ OneShot(a) /\ Goto(a, "over") /\ UNCHANGED <<job, run, trouble>>
       \/ /\ Mishap("database") /\ Goto(a, "over") /\ UNCHANGED <<job, run>>
    /\ UNCHANGED <<now, claims, told, won>>

-----------------------------------------------------------------------------
(* execute_cron_job.                                                           *)

(* _finalize, and what the scheduler does when the executor raises.            *)
Finished(a, status) ==
    run' = [run EXCEPT ![a].status = status,
                       ![a].delivery = IF status = "failed" /\ @ = "pending" THEN "not_requested" ELSE @]
rest == <<job, now, sched, claims, won, trouble>>

Prepared(a) == Live(a, "prepare") /\ Goto(a, "agent") /\ UNCHANGED <<rest, run, told>>
(* An agent, a user, a tenant or a model that is gone, or an exception.        *)
PrepareFails(a) == Live(a, "prepare") /\ Goto(a, "over") /\ Finished(a, "failed")
                   /\ UNCHANGED <<rest, told>>
(* The loop: it may have registered what to tell, or asked for silence.        *)
AgentDone(a) ==
    /\ Live(a, "agent") /\ Finished(a, "success")
    /\ \E say \in BOOLEAN : att' = [att EXCEPT ![a].pc = "decide", ![a].say = say]
    /\ UNCHANGED <<rest, told>>
AgentFails(a) == Live(a, "agent") /\ Goto(a, "decide") /\ Finished(a, "failed") /\ UNCHANGED <<rest, told>>

(* The decision on delivery is durable before anything is sent.                *)
DecisionBug(a) == run[a].delivery
Decision(a) == "unknown"
Decide(a) ==
    /\ Live(a, "decide")
    /\ LET wanted == run[a].status = "success" /\ run[a].delivery = "pending"
           d == IF ~wanted THEN "not_requested" ELSE IF att[a].say THEN Decision(a) ELSE "suppressed"
       IN run' = [run EXCEPT ![a].delivery = d] /\ Goto(a, IF wanted /\ att[a].say THEN "send" ELSE "over")
    /\ UNCHANGED <<rest, told>>
Send(a) == /\ Live(a, "send") /\ Goto(a, "told") /\ told' \in {told, told \cup {a}}
           /\ UNCHANGED <<rest, run>>
(* push_to_channel returned: told, not told, or nobody knows.                  *)
Sent(a) == /\ Live(a, "told") /\ Goto(a, "over")
           /\ run' = [run EXCEPT ![a].delivery = IF a \in told THEN "sent" ELSE "failed"]
           /\ UNCHANGED <<rest, told>>
SendRaised(a) == /\ Live(a, "told") /\ Goto(a, "over") /\ UNCHANGED <<rest, run, told>>

-----------------------------------------------------------------------------
(* Edits reach the scheduler of the replica that serves them.                  *)
Update(r) ==
    /\ sched[r].on /\ job.kind # "deleted" /\ Mishap("edit")
    /\ job' \in [kind: {"once"}, at: Time, active: {TRUE}]
               \cup {[kind |-> "cron", at |-> 0, active |-> TRUE], [job EXCEPT !.active = FALSE]}
    /\ sched' = [sched EXCEPT ![r] = IF job'.active THEN Scheduled(job') ELSE Unscheduled]
    /\ UNCHANGED <<now, claims, att, run, told, won>>
Delete(r) ==
    /\ sched[r].on /\ job.kind # "deleted" /\ Mishap("delete")
    /\ job' = [job EXCEPT !.kind = "deleted"] /\ sched' = [sched EXCEPT ![r] = Unscheduled]
    /\ UNCHANGED <<now, claims, att, run, told, won>>

(* A crash, and a shutdown that cancels the attempts of its scheduler: only    *)
(* the agent and the delivery handle that.                                     *)
Mine(r, a) == att[a].on = r /\ att[a].pc # "new"
Crash(r) ==
    /\ sched[r].on /\ Mishap("crash") /\ sched' = [sched EXCEPT ![r] = Off]
    /\ att' = [a \in Attempt |-> IF Mine(r, a) THEN Moved(a, "over") ELSE att[a]]
    /\ UNCHANGED <<job, now, claims, run, told, won>>
CancelledBug(a) == att[a].pc \in {"agent", "send", "told"}
Cancelled(a) == att[a].pc = "agent"
Shutdown(r) ==
    /\ sched[r].on /\ Mishap("shutdown") /\ sched' = [sched EXCEPT ![r] = Off]
    /\ run' = [a \in Attempt |-> IF Mine(r, a) /\ att[a].occ # Manual /\ Cancelled(a)
                 THEN [status |-> "failed",
                       delivery |-> IF run[a].delivery = "pending" THEN "not_requested" ELSE run[a].delivery]
                 ELSE run[a]]
    /\ att' = [a \in Attempt |-> IF Mine(r, a) THEN Moved(a, "over") ELSE att[a]]
    /\ UNCHANGED <<job, now, claims, told, won>>

Work(a) == \/ Load(a) \/ Claim(a) \/ ClaimUnavailable(a) \/ Begin(a) \/ Prepared(a) \/ PrepareFails(a)
           \/ AgentDone(a) \/ AgentFails(a) \/ Decide(a) \/ Send(a) \/ Sent(a) \/ SendRaised(a)
CNext == \/ Tick \/ \E t \in Time : Expire(t)
         \/ \E r \in Replica : \/ Boot(r) \/ Update(r) \/ Delete(r) \/ Crash(r) \/ Shutdown(r)
                               \/ \E a \in Attempt : Fire(r, a) \/ RunNow(r, a)
         \/ \E a \in Attempt : Work(a)
CSpec == CInit /\ [][CNext]_cvars

-----------------------------------------------------------------------------
(* Two replicas, restarts, late timers and claims that expire: no occurrence   *)
(* is attempted twice.                                                         *)
AtMostOnce == \A a, b \in won : a # b => att[a].occ # att[b].occ

(* Whoever is told something finds a record that says so: a successful run     *)
(* whose delivery is not denied, even after a crash in the middle.             *)
TellsWhatIsRecorded == \A a \in told :
    run[a].status = "success" /\ run[a].delivery \in {"unknown", "sent", "failed"}

(* A delivery, however it ends, never turns a finished run into another.       *)
OutcomeIsFinal == [][\A a \in Attempt :
    run[a].status \in {"success", "failed"} => run'[a].status = run[a].status]_cvars

(* The strengthening of AtMostOnce: an occurrence that was won is claimed as   *)
(* long as anybody may still claim it.                                         *)
WonIsClaimed == \A a \in won :
    /\ att[a].pc # "new" /\ att[a].occ \in Time
    /\ att[a].occ \in claims \/ now - att[a].occ > Grace

-----------------------------------------------------------------------------
(* What the code does not keep.                                                *)

(* "never leave a run stuck in running": a cancellation outside the loop does. *)
NoRunIsStuck == \A a \in Attempt : Live(a, "over") => run[a].status # "running"
(* A job runs at the time its row says: not on a replica that was not told.    *)
RunsAtItsTime == \A a \in won : Live(a, "begin") /\ job.kind = "once" /\ job.active =>
    att[a].occ = job.at
(* An active one-shot job has its time before it: not after an outage.         *)
ActiveIsAhead == job.kind = "once" /\ job.active /\ now > job.at + Grace =>
    \E a \in Attempt : att[a].occ = job.at /\ att[a].pc # "over"
=============================================================================
