------------------------- MODULE CronSchedulerProofs -------------------------
(* Theorems about CronScheduler, for every set of replicas and attempts, every *)
(* grace and every horizon, and about Services, for any number of turns, rows  *)
(* and calls of hooks, every size of a batch and every limit of a queue.       *)
EXTENDS MCCronScheduler, TLAPS

-----------------------------------------------------------------------------
(* Type correctness.                                                           *)

AttemptRecord == [pc: Pc, on: Replica \cup {"none"}, occ: Time \cup {Manual},
                  kind: {"once", "cron"}, say: BOOLEAN]
RunRecord == [status: Status, delivery: Delivery]
Schedule == [on: BOOLEAN, kind: {"once", "cron"}, due: 0 .. Never]
JobRow == [kind: {"once", "cron", "deleted"}, at: Time, active: BOOLEAN]

LEMMA TimeIsInt == Time \subseteq Int /\ Manual \in Int /\ Manual \notin Time /\ Never \in Nat
  BY CronAssumption DEF Time, Manual, Never

(* A move of an attempt keeps its replica and its occurrence, except that one  *)
(* that is over has no replica.                                                *)
LEMMA MovedAttempt ==
  ASSUME CTypeOK, NEW a \in Attempt, NEW pc \in Pc
  PROVE  /\ Moved(a, pc) \in AttemptRecord
         /\ Moved(a, pc).pc = pc /\ Moved(a, pc).occ = att[a].occ
<1>1. att[a] \in AttemptRecord
  BY DEF CTypeOK, AttemptRecord
<1>2. CASE pc = "over"
  <2>1. Moved(a, pc) = [Idle EXCEPT !.pc = pc, !.occ = att[a].occ]
    BY <1>2 DEF Moved
  <2> QED
    BY <1>1, <2>1 DEF Idle, AttemptRecord, Pc
<1>3. CASE pc \in {"claim", "begin"}
  <2>1. Moved(a, pc) = [att[a] EXCEPT !.pc = pc]
    BY <1>3 DEF Moved
  <2> QED
    BY <1>1, <2>1 DEF AttemptRecord
<1>4. CASE pc \notin {"over", "claim", "begin"}
  <2>1. Moved(a, pc) = [att[a] EXCEPT !.pc = pc, !.kind = "once", !.say = FALSE]
    BY <1>4 DEF Moved
  <2> QED
    BY <1>1, <2>1 DEF AttemptRecord
<1> QED
  BY <1>2, <1>3, <1>4

LEMMA WentType ==
  ASSUME CTypeOK, NEW a \in Attempt, NEW pc \in Pc, Goto(a, pc)
  PROVE  att' \in [Attempt -> AttemptRecord]
BY MovedAttempt DEF Goto, CTypeOK, AttemptRecord

LEMMA ScheduledType ==
  ASSUME now \in Time, NEW j \in JobRow
  PROVE  Scheduled(j) \in Schedule /\ Unscheduled \in Schedule /\ Off \in Schedule
BY CronAssumption DEF Scheduled, Unscheduled, Off, Schedule, JobRow, Time, Never

LEMMA FinishedType ==
  ASSUME CTypeOK, NEW a \in Attempt, NEW status \in Status, Finished(a, status)
  PROVE  run' \in [Attempt -> RunRecord]
BY ZenonT(40) DEF Finished, CTypeOK, RunRecord, Status, Delivery

(* Every record of the state by the names used here.                           *)
LEMMA TypeParts ==
  CTypeOK <=> /\ job \in JobRow /\ now \in Time
              /\ sched \in [Replica -> Schedule] /\ claims \subseteq Time
              /\ told \subseteq Attempt /\ won \subseteq Attempt
              /\ att \in [Attempt -> AttemptRecord] /\ run \in [Attempt -> RunRecord]
              /\ trouble \in 0 .. MaxTrouble
BY DEF CTypeOK, JobRow, Schedule, AttemptRecord, RunRecord

LEMMA MishapType ==
  ASSUME CTypeOK, NEW kind, Mishap(kind) PROVE trouble' \in 0 .. MaxTrouble
BY CronAssumption DEF Mishap, CTypeOK

LEMMA TypeInit == CInit => CTypeOK
<1> SUFFICES ASSUME CInit PROVE CTypeOK
  OBVIOUS
<1>1. 0 \in Time /\ trouble \in 0 .. MaxTrouble
  BY CronAssumption DEF CInit, Time
<1>2. job \in JobRow
  BY <1>1 DEF CInit, JobRow
<1>3. Off \in Schedule /\ Idle \in AttemptRecord
  BY <1>1, CronAssumption DEF Off, Idle, Schedule, AttemptRecord, Never, Pc
<1> QED
  BY <1>1, <1>2, <1>3, TypeParts DEF CInit, RunRecord, Status, Delivery

-----------------------------------------------------------------------------
(* The steps keep the types.                                                   *)

(* An attempt that is to claim has an occurrence to claim.                     *)
TimedClaims == \A a \in Attempt : att[a].pc \in {"load", "claim"} => att[a].occ \in Time

LEMMA TypeStep == CTypeOK /\ TimedClaims /\ [CNext]_cvars => CTypeOK'
<1> SUFFICES ASSUME CTypeOK, TimedClaims, [CNext]_cvars PROVE CTypeOK'
  OBVIOUS
<1>t. /\ job \in JobRow /\ now \in Time /\ sched \in [Replica -> Schedule]
      /\ claims \subseteq Time /\ told \subseteq Attempt /\ won \subseteq Attempt
      /\ att \in [Attempt -> AttemptRecord] /\ run \in [Attempt -> RunRecord]
      /\ trouble \in 0 .. MaxTrouble
  BY TypeParts
<1>m. /\ \A kind : Mishap(kind) => trouble' \in 0 .. MaxTrouble
      /\ \A a \in Attempt, pc \in Pc : Goto(a, pc) => att' \in [Attempt -> AttemptRecord]
      /\ \A j \in JobRow : Scheduled(j) \in Schedule /\ Unscheduled \in Schedule /\ Off \in Schedule
      /\ \A a \in Attempt, st \in Status : Finished(a, st) => run' \in [Attempt -> RunRecord]
  BY MishapType, WentType, ScheduledType, FinishedType, <1>t
<1> DEFINE Typed == /\ job' \in JobRow /\ now' \in Time /\ sched' \in [Replica -> Schedule]
                    /\ claims' \subseteq Time /\ told' \subseteq Attempt /\ won' \subseteq Attempt
                    /\ att' \in [Attempt -> AttemptRecord] /\ run' \in [Attempt -> RunRecord]
                    /\ trouble' \in 0 .. MaxTrouble
<1> SUFFICES Typed
  BY DEF CTypeOK, JobRow, Schedule, AttemptRecord, RunRecord
<1>1. CASE Tick
  BY <1>1, <1>t, CronAssumption DEF Tick, Time
<1>2. ASSUME NEW t \in Time, Expire(t) PROVE Typed
  BY <1>2, <1>t DEF Expire
<1>3. ASSUME NEW r \in Replica, Boot(r) PROVE Typed
  BY <1>3, <1>t, <1>m DEF Boot
<1>4. ASSUME NEW r \in Replica, Update(r) PROVE Typed
  <2>1. job' \in JobRow
    <3>0. 0 \in Time
      BY CronAssumption DEF Time
    <3>1. [job EXCEPT !.active = FALSE] \in JobRow
      BY <1>t DEF JobRow
    <3>3. [kind |-> "cron", at |-> 0, active |-> TRUE] \in JobRow
      BY <3>0 DEF JobRow
    <3>4. [kind: {"once"}, at: Time, active: {TRUE}] \subseteq JobRow
      BY DEF JobRow
    <3>2. \/ job' \in [kind: {"once"}, at: Time, active: {TRUE}]
          \/ job' = [kind |-> "cron", at |-> 0, active |-> TRUE]
          \/ job' = [job EXCEPT !.active = FALSE]
      BY <1>4 DEF Update
    <3> QED
      BY <3>1, <3>2, <3>3, <3>4
  <2>2. Scheduled(job') \in Schedule /\ Unscheduled \in Schedule
    BY <2>1, <1>m
  <2> QED
    BY <1>4, <1>t, <1>m, <2>1, <2>2 DEF Update
<1>5. ASSUME NEW r \in Replica, Delete(r) PROVE Typed
  <2>1. job' \in JobRow
    BY <1>5, <1>t DEF Delete, JobRow
  <2> QED
    BY <1>5, <1>t, <1>m, <2>1 DEF Delete
<1>6. ASSUME NEW r \in Replica, Crash(r) \/ Shutdown(r) PROVE Typed
  <2>1. \A a \in Attempt : Moved(a, "over") \in AttemptRecord
    BY MovedAttempt DEF Pc
  <2>2. att' \in [Attempt -> AttemptRecord]
    BY <1>6, <1>t, <2>1 DEF Crash, Shutdown
  <2>3. run' \in [Attempt -> RunRecord]
    BY <1>6, <1>t DEF Crash, Shutdown, RunRecord, Status, Delivery
  <2> QED
    BY <1>6, <1>t, <1>m, <2>2, <2>3 DEF Crash, Shutdown
<1>7. ASSUME NEW r \in Replica, NEW a \in Attempt, Fire(r, a) PROVE Typed
  <2>1. sched[r] \in Schedule /\ sched[r].due \in Int
    BY <1>t, CronAssumption DEF Schedule, Never
  <2>2. After(sched[r]) \in Schedule
    BY <1>t, <2>1, CronAssumption DEF After, Schedule, Time, Never
  <2>3. sched' \in [Replica -> Schedule]
    BY <1>7, <1>t, <2>2 DEF Fire
  <2> DEFINE occ == IF sched[r].kind = "cron" THEN now ELSE sched[r].due
  <2>4. occ \in Time
    BY <1>7, <1>t, <2>1, CronAssumption DEF Fire, Time, Schedule, Never
  <2>5. [Idle EXCEPT !.pc = "load", !.on = r, !.occ = occ] \in AttemptRecord
    BY <2>4 DEF Idle, AttemptRecord, Pc
  <2> HIDE DEF occ
  <2>6. \/ UNCHANGED att
        \/ att' = [att EXCEPT ![a] = [Idle EXCEPT !.pc = "load", !.on = r, !.occ = occ]]
    BY <1>7 DEF Fire, occ
  <2>7. att' \in [Attempt -> AttemptRecord]
    BY <1>t, <2>5, <2>6
  <2> QED
    BY <1>7, <1>t, <2>3, <2>7 DEF Fire
<1>8. ASSUME NEW r \in Replica, NEW a \in Attempt, RunNow(r, a) PROVE Typed
  <2>1. [Idle EXCEPT !.pc = "begin", !.on = r, !.kind = job.kind] \in AttemptRecord
    BY <1>8, <1>t DEF RunNow, Idle, AttemptRecord, JobRow, Pc
  <2> QED
    BY <1>8, <1>t, <2>1 DEF RunNow
<1>9. ASSUME NEW a \in Attempt, Work(a) PROVE Typed
  <2>p. Pc = {"new", "load", "claim", "begin", "prepare", "agent", "decide", "send", "told", "over"}
    BY DEF Pc
  <2>1. CASE Load(a)
    <3>1. job.kind # "deleted" => [att[a] EXCEPT !.pc = "claim", !.kind = job.kind] \in AttemptRecord
      BY <1>t, <2>p, ZenonT(40) DEF AttemptRecord, JobRow
    <3>2. [att EXCEPT ![a].pc = "claim", ![a].kind = job.kind]
            = [att EXCEPT ![a] = [att[a] EXCEPT !.pc = "claim", !.kind = job.kind]]
      BY <1>t
    <3> QED
      BY <2>1, <1>t, <1>m, <2>p, <3>1, <3>2 DEF Load
  <2>2. CASE Claim(a)
    <3>1. att[a].occ \in Time
      BY <2>2 DEF Claim, Live, TimedClaims
    <3>2. claims' \subseteq Time
      BY <2>2, <1>t, <3>1 DEF Claim
    <3> QED
      BY <2>2, <1>t, <1>m, <2>p, <3>2 DEF Claim
  <2>3. CASE ClaimUnavailable(a)
    BY <2>3, <1>t, <1>m, <2>p DEF ClaimUnavailable
  <2>4. CASE Begin(a)
    <3>1. att[a].on \in Replica \cup {"none"} /\ Never \in 0 .. Never
      BY <1>t, CronAssumption DEF AttemptRecord, Never
    <3>2. [sched EXCEPT ![att[a].on].due = Never] \in [Replica -> Schedule]
      BY <1>t, <3>1 DEF Schedule
    <3>3. [job EXCEPT !.active = @ /\ ~OneShot(a)] \in JobRow
      BY <1>t DEF JobRow, OneShot
    <3>4. \A d \in {"pending", "not_requested"} :
            [run EXCEPT ![a] = [status |-> "running", delivery |-> d]] \in [Attempt -> RunRecord]
      BY <1>t DEF RunRecord, Status, Delivery
    <3> QED
      BY <2>4, <1>t, <1>m, <2>p, <3>2, <3>3, <3>4 DEF Begin
  <2>5. CASE Prepared(a) \/ PrepareFails(a) \/ AgentFails(a)
    BY <2>5, <1>t, <1>m, <2>p DEF Prepared, PrepareFails, AgentFails, rest, Status
  <2>6. CASE AgentDone(a)
    <3>1. \A say \in BOOLEAN : [att[a] EXCEPT !.pc = "decide", !.say = say] \in AttemptRecord
      BY <1>t, <2>p, ZenonT(40) DEF AttemptRecord
    <3>2. \A say : [att EXCEPT ![a].pc = "decide", ![a].say = say]
                    = [att EXCEPT ![a] = [att[a] EXCEPT !.pc = "decide", !.say = say]]
      BY <1>t
    <3> QED
      BY <2>6, <1>t, <1>m, <3>1, <3>2 DEF AgentDone, rest, Status
  <2>7. CASE Decide(a)
    <3>1. run' \in [Attempt -> RunRecord]
      BY <2>7, <1>t DEF Decide, Decision, RunRecord, Status, Delivery
    <3>2. \E pc \in Pc : Goto(a, pc)
      BY <2>7, <2>p DEF Decide
    <3> QED
      BY <2>7, <1>t, <1>m, <3>1, <3>2 DEF Decide, rest
  <2>8. CASE Send(a) \/ SendRaised(a)
    BY <2>8, <1>t, <1>m, <2>p DEF Send, SendRaised, rest
  <2>9. CASE Sent(a)
    <3>1. run' \in [Attempt -> RunRecord]
      BY <2>9, <1>t DEF Sent, RunRecord, Delivery
    <3> QED
      BY <2>9, <1>t, <1>m, <2>p, <3>1 DEF Sent, rest
  <2> QED
    BY <1>9, <2>1, <2>2, <2>3, <2>4, <2>5, <2>6, <2>7, <2>8, <2>9 DEF Work
<1>10. CASE UNCHANGED cvars
  BY <1>10, <1>t DEF cvars
<1> QED
  BY <1>1, <1>2, <1>3, <1>4, <1>5, <1>6, <1>7, <1>8, <1>9, <1>10 DEF CNext

LEMMA TimedStep == CTypeOK /\ TimedClaims /\ [CNext]_cvars => TimedClaims'
<1> SUFFICES ASSUME CTypeOK, TimedClaims, [CNext]_cvars, NEW b \in Attempt,
                    att'[b].pc \in {"load", "claim"}
             PROVE  att'[b].occ \in Time
  BY DEF TimedClaims
<1>t. att \in [Attempt -> AttemptRecord] /\ now \in Time /\ sched \in [Replica -> Schedule]
  BY TypeParts
<1>0. att[b].pc \in {"load", "claim"} => att[b].occ \in Time
  BY DEF TimedClaims
<1>g. ASSUME NEW a \in Attempt, NEW pc \in Pc \ {"load", "claim"}, Goto(a, pc) PROVE att'[b].occ \in Time
  BY <1>g, <1>0, <1>t, MovedAttempt DEF Goto
<1>u. CASE UNCHANGED att
  BY <1>u, <1>0
<1>1. ASSUME NEW r \in Replica, Crash(r) \/ Shutdown(r) PROVE att'[b].occ \in Time
  BY <1>1, <1>0, <1>t, MovedAttempt DEF Crash, Shutdown, Pc
<1>2. ASSUME NEW r \in Replica, NEW a \in Attempt, Fire(r, a) PROVE att'[b].occ \in Time
  <2>1. sched[r].due \in 0 .. Never
    BY <1>t DEF Schedule
  <2> DEFINE occ == IF sched[r].kind = "cron" THEN now ELSE sched[r].due
  <2>2. occ \in Time
    BY <1>2, <1>t, <2>1, CronAssumption DEF Fire, Time, Never
  <2> HIDE DEF occ
  <2>3. \/ UNCHANGED att
        \/ att' = [att EXCEPT ![a] = [Idle EXCEPT !.pc = "load", !.on = r, !.occ = occ]]
    BY <1>2 DEF Fire, occ
  <2> QED
    BY <2>2, <2>3, <1>0, <1>t DEF Idle
<1>3. ASSUME NEW r \in Replica, NEW a \in Attempt, RunNow(r, a) PROVE att'[b].occ \in Time
  BY <1>3, <1>0, <1>t DEF RunNow, Idle
<1>4. ASSUME NEW a \in Attempt, Work(a) PROVE att'[b].occ \in Time
  <2>1. CASE Load(a)
    BY <2>1, <1>0, <1>t, <1>g DEF Load, Live, Pc, AttemptRecord
  <2>2. CASE AgentDone(a)
    BY <2>2, <1>0, <1>t DEF AgentDone, AttemptRecord
  <2>3. CASE ~Load(a) /\ ~AgentDone(a)
    <3>1. \E pc \in Pc \ {"load", "claim"} : Goto(a, pc)
      BY <1>4, <2>3 DEF Work, Claim, ClaimUnavailable, Begin, Prepared, PrepareFails, AgentFails,
                        Decide, Send, Sent, SendRaised, Pc
    <3> QED
      BY <3>1, <1>g
  <2> QED
    BY <2>1, <2>2, <2>3
<1> QED
  BY <1>u, <1>1, <1>2, <1>3, <1>4 DEF CNext, Tick, Expire, Boot, Update, Delete, cvars

LEMMA NothingIsClaimedYet == CInit => TimedClaims
<1>1. ASSUME CInit PROVE \A a \in Attempt : att[a].pc = "new"
  BY <1>1 DEF CInit, Idle
<1> QED
  BY <1>1 DEF TimedClaims

(* The state of the schedulers, the attempts and their records has its types.  *)
THEOREM TypesHold == CSpec => [](CTypeOK /\ TimedClaims)
<1> QED
  BY TypeInit, NothingIsClaimedYet, TypeStep, TimedStep, PTL DEF CSpec

-----------------------------------------------------------------------------
(* No occurrence is attempted twice.                                           *)

(* Who has won keeps its occurrence, whatever a step does to it.               *)
LEMMA OccurrenceStays ==
  ASSUME CTypeOK, WonIsClaimed, [CNext]_cvars, NEW b \in won
  PROVE  att'[b].pc # "new" /\ att'[b].occ = att[b].occ
<1>t. att \in [Attempt -> AttemptRecord] /\ won \subseteq Attempt /\ att[b].pc # "new"
  BY TypeParts DEF WonIsClaimed
<1>g. ASSUME NEW a \in Attempt, NEW pc \in Pc \ {"new"}, Goto(a, pc)
      PROVE  att'[b].pc # "new" /\ att'[b].occ = att[b].occ
  BY <1>g, <1>t, MovedAttempt DEF Goto
<1>u. CASE UNCHANGED att
  BY <1>u, <1>t
<1>1. ASSUME NEW r \in Replica, Crash(r) \/ Shutdown(r)
      PROVE  att'[b].pc # "new" /\ att'[b].occ = att[b].occ
  BY <1>1, <1>t, MovedAttempt DEF Crash, Shutdown, Pc
<1>2. ASSUME NEW r \in Replica, NEW a \in Attempt, Fire(r, a) \/ RunNow(r, a)
      PROVE  att'[b].pc # "new" /\ att'[b].occ = att[b].occ
  <2>1. att' = att \/ (a # b /\ \E x : att' = [att EXCEPT ![a] = x])
    BY <1>2, <1>t DEF Fire, RunNow, Live
  <2> QED
    BY <2>1, <1>t
<1>3. ASSUME NEW a \in Attempt, Work(a) PROVE att'[b].pc # "new" /\ att'[b].occ = att[b].occ
  <2>1. CASE Load(a)
    BY <2>1, <1>t, <1>g DEF Load, Pc, AttemptRecord
  <2>2. CASE AgentDone(a)
    BY <2>2, <1>t DEF AgentDone, AttemptRecord
  <2>3. CASE ~Load(a) /\ ~AgentDone(a)
    <3>1. \E pc \in Pc \ {"new"} : Goto(a, pc)
      BY <1>3, <2>3 DEF Work, Claim, ClaimUnavailable, Begin, Prepared, PrepareFails, AgentFails,
                        Decide, Send, Sent, SendRaised, Pc
    <3> QED
      BY <3>1, <1>g
  <2> QED
    BY <2>1, <2>2, <2>3
<1> QED
  BY <1>u, <1>1, <1>2, <1>3 DEF CNext, Tick, Expire, Boot, Update, Delete, cvars

(* Only a claim adds to who has won, and only of an occurrence that is not     *)
(* claimed and not past its grace; a claim only goes when the grace is over.   *)
LEMMA OnlyClaimWins ==
  ASSUME CTypeOK, [CNext]_cvars
  PROVE  \/ /\ won' = won /\ now' \in Time /\ now' >= now
            /\ \A t \in claims \ claims' : now' - t > Grace
         \/ \E a \in Attempt : /\ Claim(a) /\ now' = now /\ claims' = claims \cup {att[a].occ}
                               /\ won' = won \cup {a}
                               /\ att[a].occ \notin claims /\ now - att[a].occ <= Grace
<1>t. now \in Time /\ claims \subseteq Time /\ Grace \in Nat /\ Time \subseteq Int
  BY TypeParts, TimeIsInt, CronAssumption
<1>1. CASE Tick
  BY <1>1, <1>t, CronAssumption DEF Tick, Time
<1>2. ASSUME NEW t \in Time, Expire(t)
      PROVE  won' = won /\ now' = now /\ \A x \in claims \ claims' : now' - x > Grace
  BY <1>2, <1>t DEF Expire
<1>3. ASSUME NEW r \in Replica, NEW a \in Attempt,
             Boot(r) \/ Update(r) \/ Delete(r) \/ Crash(r) \/ Shutdown(r) \/ Fire(r, a) \/ RunNow(r, a)
      PROVE  won' = won /\ now' = now /\ claims' = claims
  BY <1>3 DEF Boot, Update, Delete, Crash, Shutdown, Fire, RunNow
<1>4. ASSUME NEW a \in Attempt, Work(a), ~Claim(a)
      PROVE  won' = won /\ now' = now /\ claims' = claims
  BY <1>4 DEF Work, Load, ClaimUnavailable, Begin, Prepared, PrepareFails, AgentDone, AgentFails, Decide,
              Send, Sent, SendRaised, rest
<1>5. ASSUME NEW a \in Attempt, Claim(a)
      PROVE  \/ won' = won /\ now' = now /\ claims \subseteq claims'
             \/ /\ now' = now /\ claims' = claims \cup {att[a].occ} /\ won' = won \cup {a}
                /\ att[a].occ \notin claims /\ now - att[a].occ <= Grace
  BY <1>5 DEF Claim, InGrace
<1>6. CASE UNCHANGED cvars
  BY <1>6, <1>t DEF cvars
<1>7. CASE \E r \in Replica : \/ Boot(r) \/ Update(r) \/ Delete(r) \/ Crash(r) \/ Shutdown(r)
                              \/ \E a \in Attempt : Fire(r, a) \/ RunNow(r, a)
  <2>1. won' = won /\ now' = now /\ claims' = claims
    BY <1>7 DEF Boot, Update, Delete, Crash, Shutdown, Fire, RunNow
  <2> QED
    BY <2>1, <1>t
<1> QED
  BY <1>t, <1>1, <1>2, <1>4, <1>5, <1>6, <1>7 DEF CNext

AtMostOnceInv == CTypeOK /\ TimedClaims /\ AtMostOnce /\ WonIsClaimed

LEMMA AtMostOnceStep == AtMostOnceInv /\ [CNext]_cvars => AtMostOnceInv'
<1> SUFFICES ASSUME AtMostOnceInv, [CNext]_cvars PROVE AtMostOnce' /\ WonIsClaimed'
  BY TypeStep, TimedStep DEF AtMostOnceInv
<1>i. CTypeOK /\ TimedClaims /\ AtMostOnce /\ WonIsClaimed
  BY DEF AtMostOnceInv
<1>t. /\ now \in Time /\ claims \subseteq Time /\ won \subseteq Attempt /\ att \in [Attempt -> AttemptRecord]
      /\ Time \subseteq Int /\ Grace \in Nat
  BY <1>i, TypeParts, TimeIsInt, CronAssumption
<1>w. \A b \in won : /\ att[b].pc # "new" /\ att[b].occ \in Time
                     /\ att[b].occ \in claims \/ now - att[b].occ > Grace
  BY <1>i DEF WonIsClaimed
<1>s. \A b \in won : att'[b].pc # "new" /\ att'[b].occ = att[b].occ
  BY <1>i, OccurrenceStays
<1>1. CASE won' = won /\ now' \in Time /\ now' >= now /\ \A t \in claims \ claims' : now' - t > Grace
  <2>1. AtMostOnce'
    BY <1>1, <1>i, <1>s DEF AtMostOnce
  <2>2. ASSUME NEW b \in won PROVE att[b].occ \in claims' \/ now' - att[b].occ > Grace
    <3>1. att[b].occ \in Int /\ now \in Int /\ now' \in Int /\ Grace \in Int
      <4>1. att[b].occ \in Time
        BY <1>w
      <4> QED
        BY <4>1, <1>1, <1>t, CronAssumption DEF Time
    <3>2. CASE att[b].occ \in claims
      BY <3>2, <1>1
    <3>3. CASE now - att[b].occ > Grace
      BY <3>1, <3>3, <1>1
    <3> QED
      BY <3>2, <3>3, <1>w
  <2>3. ASSUME NEW b \in won'
        PROVE  att'[b].pc # "new" /\ att'[b].occ \in Time /\ (att'[b].occ \in claims' \/ now' - att'[b].occ > Grace)
    <3>1. b \in won
      BY <1>1
    <3> QED
      BY <3>1, <1>s, <1>w, <2>2
  <2> QED
    BY <2>1, <2>3 DEF WonIsClaimed
<1>2. ASSUME NEW a \in Attempt, Claim(a), now' = now, claims' = claims \cup {att[a].occ}, won' = won \cup {a},
             att[a].occ \notin claims, now - att[a].occ <= Grace
      PROVE  AtMostOnce' /\ WonIsClaimed'
  <2>1. att[a].occ \in Time
    BY <1>2, <1>i DEF Claim, Live, TimedClaims
  <2>2. \A b \in won : att[b].occ # att[a].occ
    <3>1. \A b \in won : att[b].occ \in claims \/ now - att[b].occ > Grace
      BY <1>w
    <3>2. ~(now - att[a].occ > Grace)
      BY <1>2, <1>t, <2>1, CronAssumption DEF Time
    <3> QED
      BY <1>2, <3>1, <3>2
  <2>3. att'[a].pc # "new" /\ att'[a].occ = att[a].occ
    BY <1>2, <1>i, <1>t, MovedAttempt DEF Claim, Goto, Pc
  <2>4. AtMostOnce'
    BY <1>2, <1>i, <1>s, <2>2, <2>3 DEF AtMostOnce
  <2>5. WonIsClaimed'
    <3>1. ASSUME NEW b \in won'
          PROVE  /\ att'[b].pc # "new" /\ att'[b].occ \in Time
                 /\ att'[b].occ \in claims' \/ now' - att'[b].occ > Grace
      <4>1. CASE b = a
        BY <4>1, <1>2, <2>1, <2>3
      <4>2. CASE b \in won
        <5>1. att'[b].pc # "new" /\ att'[b].occ = att[b].occ
          BY <4>2, <1>s
        <5>2. att[b].occ \in Time /\ (att[b].occ \in claims \/ now - att[b].occ > Grace)
          BY <4>2, <1>w
        <5> QED
          BY <5>1, <5>2, <1>2
      <4> QED
        BY <4>1, <4>2, <1>2
    <3> QED
      BY <3>1 DEF WonIsClaimed
  <2> QED
    BY <2>4, <2>5
<1> QED
  BY <1>i, <1>1, <1>2, OnlyClaimWins

(* Whatever replicas fire late, restart or lose Redis, and whenever a claim    *)
(* expires: two attempts never win the same occurrence of the job.             *)
THEOREM OccurrencesRunOnce == CSpec => []AtMostOnce
<1>1. CInit => AtMostOnceInv
  <2>1. ASSUME CInit PROVE won = {} /\ \A a \in Attempt : att[a].pc = "new"
    BY <2>1 DEF CInit, Idle
  <2> QED
    BY <2>1, TypeInit DEF AtMostOnceInv, TimedClaims, AtMostOnce, WonIsClaimed
<1>2. AtMostOnceInv => AtMostOnce
  BY DEF AtMostOnceInv
<1> QED
  BY <1>1, <1>2, AtMostOnceStep, PTL DEF CSpec

-----------------------------------------------------------------------------
(* The record of an attempt says what the attempt has done.                    *)

FitsOne(x, r, heard) ==
    /\ x.pc \in {"new", "load", "claim", "begin"} => r.status = "none"
    /\ x.pc \in {"prepare", "agent"} => r.status = "running"
    /\ x.pc = "decide" => r.status \in {"success", "failed"}
    /\ x.pc \in {"send", "told"} => r.status = "success" /\ r.delivery = "unknown"
    /\ heard => /\ x.pc \in {"told", "over"} /\ r.status = "success"
                /\ r.delivery \in {"unknown", "sent", "failed"}
RecordFits == \A a \in Attempt : FitsOne(att[a], run[a], a \in told)

(* A step of one attempt leaves the others alone, keeps its own record right,  *)
(* and does not change an outcome.                                             *)
FinalOne(a) == run[a].status \in {"success", "failed"} => run'[a].status = run[a].status

LEMMA WorkFits ==
  ASSUME CTypeOK, RecordFits, NEW a \in Attempt, Work(a)
  PROVE  /\ \A b \in Attempt \ {a} :
              att'[b] = att[b] /\ run'[b] = run[b] /\ (b \in told' <=> b \in told)
         /\ FitsOne(att'[a], run'[a], a \in told') /\ FinalOne(a)
<1>t. att \in [Attempt -> AttemptRecord] /\ run \in [Attempt -> RunRecord] /\ told \subseteq Attempt
  BY TypeParts
<1>f. FitsOne(att[a], run[a], a \in told)
  BY DEF RecordFits
<1>g. ASSUME NEW pc \in Pc, Goto(a, pc)
      PROVE  att'[a].pc = pc /\ \A b \in Attempt \ {a} : att'[b] = att[b]
  BY <1>g, <1>t, MovedAttempt DEF Goto
<1>r. ASSUME NEW st, Finished(a, st)
      PROVE  run'[a].status = st /\ \A b \in Attempt \ {a} : run'[b] = run[b]
  BY <1>r, <1>t DEF Finished, RunRecord
<1>p. Pc = {"new", "load", "claim", "begin", "prepare", "agent", "decide", "send", "told", "over"}
  BY DEF Pc
<1>1. CASE Load(a)
  <2>1. run' = run /\ told' = told /\ att[a].pc = "load" /\ att'[a].pc \in {"claim", "over"}
        /\ \A b \in Attempt \ {a} : att'[b] = att[b]
    BY <1>1, <1>t, <1>g, <1>p DEF Load, Live, AttemptRecord
  <2> QED
    BY <2>1, <1>f DEF FitsOne, FinalOne
<1>2. CASE Claim(a) \/ ClaimUnavailable(a)
  <2>1. run' = run /\ told' = told /\ att[a].pc = "claim" /\ \E pc \in {"begin", "over"} : Goto(a, pc)
    BY <1>2 DEF Claim, ClaimUnavailable, Live
  <2>2. att'[a].pc \in {"begin", "over"} /\ \A b \in Attempt \ {a} : att'[b] = att[b]
    BY <2>1, <1>g, <1>p
  <2> QED
    BY <2>1, <2>2, <1>f DEF FitsOne, FinalOne
<1>3. CASE Begin(a)
  <2>0. told' = told /\ att[a].pc = "begin"
    BY <1>3 DEF Begin, Live
  <2>1. CASE Goto(a, "over") /\ run' = run
    <3>1. att'[a].pc = "over" /\ \A b \in Attempt \ {a} : att'[b] = att[b]
      BY <2>1, <1>g, <1>p
    <3> QED
      BY <2>0, <2>1, <3>1, <1>f DEF FitsOne, FinalOne
  <2>2. CASE Goto(a, "prepare") /\ \E d : run' = [run EXCEPT ![a] = [status |-> "running", delivery |-> d]]
    <3>1. att'[a].pc = "prepare" /\ \A b \in Attempt \ {a} : att'[b] = att[b]
      BY <2>2, <1>g, <1>p
    <3>2. run'[a].status = "running" /\ \A b \in Attempt \ {a} : run'[b] = run[b]
      BY <2>2, <1>t
    <3> QED
      BY <2>0, <3>1, <3>2, <1>f DEF FitsOne, FinalOne
  <2> QED
    BY <1>3, <2>1, <2>2 DEF Begin
<1>4. CASE Prepared(a)
  <2>1. run' = run /\ told' = told /\ att[a].pc = "prepare" /\ att'[a].pc = "agent"
        /\ \A b \in Attempt \ {a} : att'[b] = att[b]
    BY <1>4, <1>g, <1>p DEF Prepared, Live
  <2> QED
    BY <2>1, <1>f DEF FitsOne, FinalOne
<1>5. CASE PrepareFails(a) \/ AgentFails(a)
  <2>1. told' = told /\ att[a].pc \in {"prepare", "agent"} /\ att'[a].pc \in {"over", "decide"}
        /\ run'[a].status = "failed"
        /\ \A b \in Attempt \ {a} : att'[b] = att[b] /\ run'[b] = run[b]
    BY <1>5, <1>g, <1>p, <1>r DEF PrepareFails, AgentFails, Live
  <2> QED
    BY <2>1, <1>f DEF FitsOne, FinalOne
<1>6. CASE AgentDone(a)
  <2>1. told' = told /\ att[a].pc = "agent" /\ run'[a].status = "success"
        /\ \A b \in Attempt \ {a} : run'[b] = run[b]
    BY <1>6, <1>r DEF AgentDone, Live
  <2>2. att'[a].pc = "decide" /\ \A b \in Attempt \ {a} : att'[b] = att[b]
    BY <1>6, <1>t DEF AgentDone, AttemptRecord
  <2> QED
    BY <2>1, <2>2, <1>f DEF FitsOne, FinalOne
<1>7. CASE Decide(a)
  <2> DEFINE wanted == run[a].status = "success" /\ run[a].delivery = "pending"
             d == IF ~wanted THEN "not_requested" ELSE IF att[a].say THEN Decision(a) ELSE "suppressed"
  <2>1. told' = told /\ att[a].pc = "decide" /\ run' = [run EXCEPT ![a].delivery = d]
        /\ Goto(a, IF wanted /\ att[a].say THEN "send" ELSE "over")
    BY <1>7 DEF Decide, Live
  <2>2. run'[a].status = run[a].status /\ run'[a].delivery = d /\ \A b \in Attempt \ {a} : run'[b] = run[b]
    BY <2>1, <1>t DEF RunRecord
  <2>3. CASE wanted /\ att[a].say
    <3>1. att'[a].pc = "send" /\ \A b \in Attempt \ {a} : att'[b] = att[b]
      BY <2>1, <2>3, <1>g, <1>p
    <3>2. run'[a].delivery = "unknown" /\ run[a].status = "success"
      BY <2>2, <2>3 DEF Decision
    <3> QED
      BY <2>1, <2>2, <3>1, <3>2, <1>f DEF FitsOne, FinalOne
  <2>4. CASE ~(wanted /\ att[a].say)
    <3>1. att'[a].pc = "over" /\ \A b \in Attempt \ {a} : att'[b] = att[b]
      BY <2>1, <2>4, <1>g, <1>p
    <3> QED
      BY <2>1, <2>2, <3>1, <1>f DEF FitsOne, FinalOne
  <2> QED
    BY <2>3, <2>4
<1>8. CASE Send(a)
  <2>1. run' = run /\ told' \in {told, told \cup {a}} /\ att[a].pc = "send" /\ att'[a].pc = "told"
        /\ \A b \in Attempt \ {a} : att'[b] = att[b]
    BY <1>8, <1>g, <1>p DEF Send, Live
  <2> QED
    BY <2>1, <1>f DEF FitsOne, FinalOne
<1>9. CASE Sent(a)
  <2>1. told' = told /\ att[a].pc = "told" /\ att'[a].pc = "over" /\ \A b \in Attempt \ {a} : att'[b] = att[b]
    BY <1>9, <1>g, <1>p DEF Sent, Live
  <2>2. run'[a].status = run[a].status /\ run'[a].delivery \in {"sent", "failed"}
        /\ \A b \in Attempt \ {a} : run'[b] = run[b]
    BY <1>9, <1>t DEF Sent, RunRecord
  <2> QED
    BY <2>1, <2>2, <1>f DEF FitsOne, FinalOne
<1>10. CASE SendRaised(a)
  <2>1. run' = run /\ told' = told /\ att[a].pc = "told" /\ att'[a].pc = "over"
        /\ \A b \in Attempt \ {a} : att'[b] = att[b]
    BY <1>10, <1>g, <1>p DEF SendRaised, Live
  <2> QED
    BY <2>1, <1>f DEF FitsOne, FinalOne
<1> QED
  BY <1>1, <1>2, <1>3, <1>4, <1>5, <1>6, <1>7, <1>8, <1>9, <1>10 DEF Work

LEMMA RecordStep ==
  ASSUME CTypeOK, TimedClaims, RecordFits, [CNext]_cvars, NEW b \in Attempt
  PROVE  FitsOne(att'[b], run'[b], b \in told') /\ FinalOne(b)
<1>t. att \in [Attempt -> AttemptRecord] /\ run \in [Attempt -> RunRecord] /\ told \subseteq Attempt
  BY TypeParts
<1>f. FitsOne(att[b], run[b], b \in told)
  BY DEF RecordFits
<1>u. CASE att' = att /\ run' = run /\ told' = told
  BY <1>u, <1>f DEF FinalOne
<1>1. ASSUME NEW a \in Attempt, Work(a) PROVE FitsOne(att'[b], run'[b], b \in told') /\ FinalOne(b)
  <2>1. CASE a = b
    BY <1>1, <2>1, WorkFits
  <2>2. CASE a # b
    <3>1. att'[b] = att[b] /\ run'[b] = run[b] /\ (b \in told' <=> b \in told)
      BY <1>1, <2>2, WorkFits
    <3> QED
      BY <3>1, <1>f DEF FinalOne, FitsOne
  <2> QED
    BY <2>1, <2>2
<1>2. ASSUME NEW r \in Replica, NEW a \in Attempt, Fire(r, a) \/ RunNow(r, a)
      PROVE  FitsOne(att'[b], run'[b], b \in told') /\ FinalOne(b)
  <2>1. run' = run /\ told' = told
    BY <1>2 DEF Fire, RunNow
  <2>2. att'[b] = att[b] \/ (att[b].pc = "new" /\ att'[b].pc \in {"load", "begin"})
    <3>1. ASSUME Fire(r, a) PROVE att' = att \/ (att[a].pc = "new" /\ att'[a].pc = "load" /\ (b # a => att'[b] = att[b]))
      <4>1. CASE UNCHANGED att
        BY <4>1
      <4>2. ASSUME NEW occ, Live(a, "new"),
                   att' = [att EXCEPT ![a] = [Idle EXCEPT !.pc = "load", !.on = r, !.occ = occ]]
            PROVE  att[a].pc = "new" /\ att'[a].pc = "load" /\ (b # a => att'[b] = att[b])
        <5>1. [Idle EXCEPT !.pc = "load", !.on = r, !.occ = occ].pc = "load"
          BY DEF Idle
        <5> QED
          BY <4>2, <5>1, <1>t DEF Live
      <4> QED
        BY <3>1, <4>1, <4>2 DEF Fire
    <3>2. ASSUME RunNow(r, a) PROVE att[a].pc = "new" /\ att'[a].pc = "begin" /\ (b # a => att'[b] = att[b])
      <4>1. [Idle EXCEPT !.pc = "begin", !.on = r, !.kind = job.kind].pc = "begin"
        BY DEF Idle
      <4> QED
        BY <3>2, <4>1, <1>t DEF RunNow, Live
    <3> QED
      BY <1>2, <3>1, <3>2
  <2> QED
    BY <2>1, <2>2, <1>f DEF FitsOne, FinalOne
<1>3. ASSUME NEW r \in Replica, Crash(r) PROVE FitsOne(att'[b], run'[b], b \in told') /\ FinalOne(b)
  <2>1. run' = run /\ told' = told
    BY <1>3 DEF Crash
  <2>2. att'[b] = att[b] \/ att'[b].pc = "over"
    BY <1>3, <1>t, MovedAttempt DEF Crash, Pc
  <2> QED
    BY <2>1, <2>2, <1>f DEF FitsOne, FinalOne
<1>4. ASSUME NEW r \in Replica, Shutdown(r) PROVE FitsOne(att'[b], run'[b], b \in told') /\ FinalOne(b)
  <2>1. told' = told
    BY <1>4 DEF Shutdown
  <2>2. att'[b] = att[b] \/ att'[b].pc = "over"
    BY <1>4, <1>t, MovedAttempt DEF Shutdown, Pc
  <2>3. run'[b] = run[b] \/ (att[b].pc = "agent" /\ att'[b].pc = "over")
    BY <1>4, <1>t, MovedAttempt DEF Shutdown, Cancelled, Pc
  <2> QED
    BY <2>1, <2>2, <2>3, <1>f DEF FitsOne, FinalOne
<1> QED
  BY <1>u, <1>1, <1>2, <1>3, <1>4 DEF CNext, Tick, Expire, Boot, Update, Delete, cvars

RecordInv == CTypeOK /\ TimedClaims /\ RecordFits

LEMMA RecordStarts == CInit => RecordInv
<1> SUFFICES ASSUME CInit PROVE RecordFits
  BY TypeInit, NothingIsClaimedYet DEF RecordInv
<1> QED
  BY DEF CInit, RecordFits, FitsOne, Idle

LEMMA RecordKept == RecordInv /\ [CNext]_cvars => RecordInv'
BY TypeStep, TimedStep, RecordStep DEF RecordInv, RecordFits

LEMMA RecordInductive == CSpec => []RecordInv
BY RecordStarts, RecordKept, PTL DEF CSpec

(* Whoever is told a result finds a record of a successful run whose delivery  *)
(* is not denied: the decision to tell is durable before the message is sent.  *)
THEOREM ToldIsRecorded == CSpec => []TellsWhatIsRecorded
<1>1. RecordInv => TellsWhatIsRecorded
  BY DEF RecordInv, RecordFits, FitsOne, TellsWhatIsRecorded, CTypeOK
<1> QED
  BY <1>1, RecordInductive, PTL

(* Neither the delivery of its report, nor a crash or a shutdown in the middle *)
(* of it, turns the outcome of a run into another.                             *)
THEOREM OutcomesAreFinal == CSpec => OutcomeIsFinal
<1>1. RecordInv /\ [CNext]_cvars
        => [\A a \in Attempt : run[a].status \in {"success", "failed"} => run'[a].status = run[a].status]_cvars
  BY RecordStep DEF RecordInv, FinalOne
<1> QED
  BY <1>1, RecordInductive, PTL DEF CSpec, OutcomeIsFinal

-----------------------------------------------------------------------------
(* The services of a process.  They come and leave in order (InTurn,           *)
(* Downwards), work goes on under a service that is there (Attended), cleanups *)
(* are counted (Counted), and what is being written is in one writer's hands   *)
(* (Disjoint): together they are inductive.                                    *)

Alive(s)   == srv[s] \in {"starting", "running", "closing"}
Leaving(s) == srv[s] \in {"closing", "closed"}
Held(c)    == loop[c] \cup flush[c]

ServTypes ==
    /\ phase \in {"starting", "up", "closing", "down"} /\ public \subseteq Service
    /\ srv \in [Service -> {"absent", "starting", "running", "closing", "closed"}]
    /\ cleanups \in [Service -> Nat] /\ written \in [Item -> Nat]
    /\ work \in [Turn -> {"new", "over", "nobody"} \cup Owners]
    /\ item \in [Item -> {"none", "fired", "acting", "quiet", "queue", "batch", "out", "stored", "lost"}]
    /\ loop \in [Collector -> SUBSET Item] /\ flush \in [Collector -> SUBSET Item]

(* What the collectors have, and the calls that are still being carried out.   *)
CollTypes ==
    /\ item \in [Item -> {"none", "fired", "acting", "quiet", "queue", "batch", "out", "stored", "lost"}]
    /\ written \in [Item -> Nat] /\ loop \in [Collector -> SUBSET Item] /\ flush \in [Collector -> SUBSET Item]
StillActing(b) == \A i \in Call : item'[i] = "acting" => item[i] = "acting" /\ i \notin b

(* Services come one after the other.                                          *)
InTurn ==
    /\ \A s, t \in Service : Place[t] < Place[s] /\ srv[s] # "absent" => srv[t] # "absent"
    /\ \A s, t \in Service : srv[s] = "starting" /\ Place[t] > Place[s] => srv[t] = "absent"
    /\ phase \in {"starting", "up"} => \A s \in Service : Leaving(s) => s \in Optional
    /\ phase = "up" => \A s \in Service : srv[s] \in {"running", "closed"}
    /\ phase = "starting" =>
         \A s, t \in Service : srv[s] = "closing" /\ Place[t] > Place[s] => srv[t] = "absent"
    /\ phase = "down" => \A s \in Service : srv[s] \in {"absent", "closed"}

(* They leave one at a time and in the order of their layers, but for the      *)
(* scheduler, which may have failed to start before the channels did not.      *)
Downwards ==
    /\ \A s, t \in Service : Leaving(s) /\ Owned(t) => Above(s, t) \/ s = "scheduler"
    /\ \A s, t \in Service : srv[s] = "closed" /\ srv[t] = "closing" => Above(s, t) \/ s = "scheduler"
    /\ \A s, t \in Service : srv[s] = "closing" /\ srv[t] = "closing" => s = t

(* Work goes on under a service that is there, an action under the hooks, and  *)
(* writes under their collector.                                               *)
Attended ==
    /\ \A w \in Turn : work[w] \in Owners => Alive(work[w])
    /\ \A i \in Call : item[i] = "acting" => srv["hooks"] = "running"
    /\ loop["rows"] # {} => srv["recorder"] \in {"running", "closing"}
    /\ flush["rows"] # {} => srv["recorder"] = "closing"
    /\ loop["logs"] # {} => srv["hooks"] = "running"
    /\ flush["logs"] # {} => srv["hooks"] = "closing"

Counted ==
    /\ \A s \in Service : cleanups[s] = IF Leaving(s) THEN 1 ELSE 0
    /\ \A s \in public \cap Optional : srv[s] # "closed"
    /\ phase = "down" => public = {}

(* What is being written is out of reach of every other writer.                *)
Disjoint ==
    /\ \A i \in Item : written[i] = IF item[i] = "stored" THEN 1 ELSE 0
    /\ \A c \in Collector : \A i \in Held(c) : item[i] = "out"
    /\ \A c \in Collector : loop[c] \cap flush[c] = {}
    /\ \A c, d \in Collector : c # d => Held(c) \cap Held(d) = {}

ServInv == ServTypes /\ InTurn /\ Downwards /\ Attended /\ Counted /\ Disjoint
-----------------------------------------------------------------------------
(* The order of the services.                                                  *)

LEMMA Places ==
  /\ Service = {"database", "sandbox", "mcp", "langfuse", "recorder", "hooks", "tasks", "rooms", "chat",
                "broker", "scheduler", "channels"}
  /\ Place["database"] = 1 /\ Place["sandbox"] = 2 /\ Place["mcp"] = 3 /\ Place["langfuse"] = 4
  /\ Place["recorder"] = 5 /\ Place["hooks"] = 6 /\ Place["tasks"] = 7 /\ Place["rooms"] = 8
  /\ Place["chat"] = 9 /\ Place["broker"] = 10 /\ Place["scheduler"] = 11 /\ Place["channels"] = 12
<1> DEFINE names == {Order[i] : i \in DOMAIN Order}
<1>1. DOMAIN Order = 1 .. 12
  BY DEF Order
<1>2. names = {"database", "sandbox", "mcp", "langfuse", "recorder", "hooks", "tasks", "rooms", "chat",
               "broker", "scheduler", "channels"}
  <2>1. 1 .. 12 = {1, 2, 3, 4, 5, 6, 7, 8, 9, 10, 11, 12}
    OBVIOUS
  <2> QED
    BY <1>1, <2>1 DEF Order
<1>3. \A i, j \in DOMAIN Order : Order[i] = Order[j] => i = j
  BY <1>1 DEF Order
<1>4. ASSUME NEW i \in DOMAIN Order PROVE (CHOOSE j \in DOMAIN Order : Order[j] = Order[i]) = i
  BY <1>3
<1>5. ASSUME NEW i \in DOMAIN Order PROVE Place[Order[i]] = i
  <2>1. Order[i] \in names
    BY <1>1
  <2> QED
    BY <1>4, <2>1 DEF Place
<1>6. Service = names
  BY DEF Service, Place
<1> QED
  BY <1>1, <1>2, <1>5, <1>6 DEF Order
LEMMA Layers ==
  /\ Layer("database") = 1 /\ Layer("langfuse") = 2 /\ Layer("recorder") = 2
  /\ Layer("sandbox") = 3 /\ Layer("mcp") = 3 /\ Layer("hooks") = 3
  /\ Layer("tasks") = 4 /\ Layer("rooms") = 4 /\ Layer("chat") = 4 /\ Layer("broker") = 4
  /\ Layer("scheduler") = 5 /\ Layer("channels") = 5
BY DEF Layer

(* What a service that is there stands on is running.                          *)
LEMMA Beneath ==
  ASSUME ServInv, NEW s \in Service, NEW t \in Service, Alive(t), Place[s] < Place[t], ~Above(s, t),
         s # "scheduler"
  PROVE  srv[s] = "running"
<1>1. Place[s] \in Int /\ Place[t] \in Int
  BY Places
<1>2. srv[s] # "absent"
  BY DEF ServInv, InTurn, Alive
<1>3. srv[s] # "starting"
  BY <1>1 DEF ServInv, InTurn, Alive
<1>4. ~Leaving(s)
  <2>1. CASE Owned(t)
    BY <2>1 DEF ServInv, Downwards
  <2>2. CASE srv[t] = "closing"
    BY <1>1, <2>2 DEF ServInv, Downwards, Leaving
  <2> QED
    BY <2>1, <2>2 DEF Alive, Owned
<1> QED
  BY <1>2, <1>3, <1>4 DEF ServInv, ServTypes, Leaving

LEMMA Standing ==
  ASSUME ServInv
  PROVE  /\ \A o \in Owners : Alive(o) => \A s \in Needs : srv[s] = "running"
         /\ Alive("hooks") => srv["sandbox"] = "running" /\ srv["database"] = "running"
         /\ Alive("recorder") => srv["database"] = "running"
<1>1. ASSUME NEW o \in Owners, NEW s \in Needs
      PROVE  o \in Service /\ s \in Service /\ Place[s] < Place[o] /\ ~Above(s, o) /\ s # "scheduler"
  <2>1. Layer(o) \in {4, 5} /\ Place[o] \in {7, 8, 9, 11, 12} /\ o \in Service
    BY Places, Layers DEF Owners
  <2>2. Layer(s) \in {1, 2, 3} /\ Place[s] \in {1, 2, 3, 5, 6} /\ s \in Service /\ s # "scheduler"
    BY Places, Layers DEF Needs
  <2> QED
    BY <2>1, <2>2 DEF Above
<1>2. /\ ~Above("sandbox", "hooks") /\ ~Above("database", "hooks") /\ ~Above("database", "recorder")
      /\ {"sandbox", "hooks", "database", "recorder"} \subseteq Service
      /\ Place["sandbox"] < Place["hooks"] /\ Place["database"] < Place["hooks"]
      /\ Place["database"] < Place["recorder"]
  BY Places, Layers DEF Above
<1> QED
  BY <1>1, <1>2, Beneath

LEMMA ServImply == ServInv => ServicesHold
<1> SUFFICES ASSUME ServInv PROVE ServicesHold
  OBVIOUS
<1>1. HasWhatItUses
  <2>1. \A w \in Turn : work[w] \in Owners => srv[work[w]] # "closed" /\ \A s \in Needs : srv[s] = "running"
    BY Standing DEF ServInv, Attended, Alive
  <2>2. \A i \in Call : item[i] = "acting" => srv["sandbox"] = "running"
    BY Standing DEF ServInv, Attended, Alive
  <2>3. \A c \in Collector : loop[c] \cup flush[c] # {} => srv["database"] = "running"
    BY Standing DEF ServInv, Attended, Alive, Collector
  <2> QED
    BY <2>1, <2>2, <2>3 DEF HasWhatItUses
<1>2. ReleasedOnce
  BY DEF ServInv, ServTypes, InTurn, Counted, Leaving, ReleasedOnce
<1>3. WrittenOnce
  BY DEF ServInv, Disjoint, WrittenOnce
<1> QED
  BY <1>1, <1>2, <1>3 DEF ServicesHold

LEMMA ServInit == OInit => ServInv
<1> SUFFICES ASSUME OInit PROVE ServInv
  OBVIOUS
<1>1. ServTypes
  BY DEF OInit, ServTypes
<1>2. InTurn /\ Downwards
  BY DEF OInit, InTurn, Downwards, Leaving, Owned
<1>3. Attended /\ Counted /\ Disjoint
  BY DEF OInit, Attended, Counted, Disjoint, Leaving, Alive, Collector, Item, Held, Owners
<1> QED
  BY <1>1, <1>2, <1>3 DEF ServInv

-----------------------------------------------------------------------------
(* The collectors, when no service moves.                                      *)

(* A step of the collectors alone keeps the invariant if it keeps what it is   *)
(* about.                                                                      *)
LEMMA Collecting ==
  ASSUME ServInv, UNCHANGED <<phase, srv, public, cleanups, work>>, ServTypes', Attended', Disjoint'
  PROVE  ServInv'
BY DEF ServInv, InTurn, Downwards, Counted, Leaving, Owned

(* A row that is moved is not one that is being written.                       *)
LEMMA Moves ==
  ASSUME ServInv, NEW i \in Item, NEW at \in {"fired", "acting", "quiet", "queue", "batch", "lost"},
         Move(i, at), item[i] \notin {"out", "stored"}, at = "acting" => srv["hooks"] = "running"
  PROVE  ServInv'
<1>1. item' = [item EXCEPT ![i] = at] /\ UNCHANGED <<phase, srv, public, cleanups, work, loop, flush, written, mishap>>
  BY DEF Move, others
<1>2. ServTypes'
  BY <1>1 DEF ServInv, ServTypes
<1>3. Attended'
  BY <1>1 DEF ServInv, ServTypes, Attended, Alive
<1>4. Disjoint'
  BY <1>1 DEF ServInv, ServTypes, Disjoint, Held
<1> QED
  BY <1>1, <1>2, <1>3, <1>4, Collecting
(* Rows put aside become one collector's, whose loop or flush had none.        *)
LEMMA AsideOf ==
  ASSUME ServInv, NEW c \in Collector, NEW b \in SUBSET Item,
         \A i \in b : item[i] \in {"queue", "batch"}, item' = PutAside(b), written' = written,
         \/ loop[c] = {} /\ loop' = [loop EXCEPT ![c] = b] /\ flush' = flush
         \/ flush[c] = {} /\ flush' = [flush EXCEPT ![c] = b] /\ loop' = loop
  PROVE  /\ CollTypes'
         /\ Disjoint'
         /\ StillActing(b)
<1>1. \A i \in Item : item'[i] = IF i \in b THEN "out" ELSE item[i]
  BY DEF PutAside, Aside
<1>2. /\ item' \in [Item -> {"none", "fired", "acting", "quiet", "queue", "batch", "out", "stored", "lost"}]
      /\ written' \in [Item -> Nat] /\ loop' \in [Collector -> SUBSET Item] /\ flush' \in [Collector -> SUBSET Item]
  <2>1. item' \in [Item -> {"none", "fired", "acting", "quiet", "queue", "batch", "out", "stored", "lost"}]
    BY DEF PutAside, Aside, ServInv, ServTypes
  <2> QED
    BY <2>1 DEF ServInv, ServTypes
<1>3. \A d \in Collector : Held(d)' = IF d = c THEN Held(c) \cup b ELSE Held(d)
  BY DEF Held, ServInv, ServTypes
<1>4. Disjoint'
  <2>1. b \cap Held("rows") = {} /\ b \cap Held("logs") = {}
    BY DEF ServInv, Disjoint, Collector
  <2>2. \A i \in Item : written[i] = IF item[i] = "stored" THEN 1 ELSE 0
    BY DEF ServInv, Disjoint
  <2>3. \A i \in Item : (written[i] = IF item[i] = "stored" THEN 1 ELSE 0)'
    BY <1>1, <2>2
  <2>4. \A d \in Collector : \A i \in Held(d)' : item'[i] = "out"
    <3>1. \A d \in Collector : Held(d) \subseteq Item /\ \A i \in Held(d) : item[i] = "out"
      BY DEF ServInv, ServTypes, Disjoint, Held
    <3> QED
      BY <1>1, <1>3, <3>1
  <2>5. \A d \in Collector : (loop[d] \cap flush[d] = {})'
    BY <2>1 DEF ServInv, ServTypes, Disjoint, Held, Collector
  <2>6. \A d, e \in Collector : d # e => (Held(d) \cap Held(e))' = {}
    BY <1>3, <2>1 DEF ServInv, Disjoint, Collector
  <2> QED
    BY <2>3, <2>4, <2>5, <2>6 DEF Disjoint
<1> QED
  BY <1>1, <1>2, <1>4 DEF Item, StillActing, CollTypes

LEMMA Takes ==
  ASSUME ServInv, NEW c \in Collector, NEW b \in SUBSET Item,
         \A i \in b : item[i] \in {"queue", "batch"}, item' = PutAside(b),
         \/ /\ loop[c] = {} /\ loop' = [loop EXCEPT ![c] = b] /\ flush' = flush
            /\ IF c = "rows" THEN srv["recorder"] \in {"running", "closing"} ELSE srv["hooks"] = "running"
         \/ /\ flush[c] = {} /\ flush' = [flush EXCEPT ![c] = b] /\ loop' = loop
            /\ c = "logs" /\ srv["hooks"] = "closing",
         UNCHANGED <<phase, srv, public, cleanups, work, written>>
  PROVE  ServInv'
<1>1. CollTypes' /\ Disjoint' /\ StillActing(b)
  BY AsideOf
<1>3. ServTypes'
  BY <1>1 DEF ServInv, ServTypes, CollTypes
<1>2. Attended'
  BY <1>1 DEF StillActing, ServInv, ServTypes, Attended, Alive, Collector
<1> QED
  BY <1>1, <1>2, <1>3, Collecting

(* A write that ends: what it stored was in its hands only.                    *)
LEMMA WriteEnds ==
  ASSUME ServInv, NEW c \in Collector, NEW b \in SUBSET Item, NEW l \in SUBSET Item, NEW f \in SUBSET Item,
         l \subseteq loop[c], f \subseteq flush[c], Ends(c, b, "stored", l, f) \/ Ends(c, b, "lost", l, f),
         \A i \in b : i \in Held(c) \/ item[i] = "acting", b \cap (l \cup f) = {}
  PROVE  /\ CollTypes'
         /\ Disjoint'
         /\ StillActing(b)
<1>0. PICK as \in {"stored", "lost"} : Ends(c, b, as, l, f)
  OBVIOUS
<1>1. /\ \A i \in Item : /\ item'[i] = IF i \in b THEN as ELSE item[i]
                         /\ written'[i] = IF i \in b /\ as = "stored" THEN written[i] + 1 ELSE written[i]
      /\ loop' = [loop EXCEPT ![c] = l] /\ flush' = [flush EXCEPT ![c] = f]
  BY <1>0 DEF Ends
<1>2. /\ item' \in [Item -> {"none", "fired", "acting", "quiet", "queue", "batch", "out", "stored", "lost"}]
      /\ written' \in [Item -> Nat] /\ loop' \in [Collector -> SUBSET Item] /\ flush' \in [Collector -> SUBSET Item]
  <2>1. item \in [Item -> {"none", "fired", "acting", "quiet", "queue", "batch", "out", "stored", "lost"}]
        /\ written \in [Item -> Nat] /\ loop \in [Collector -> SUBSET Item] /\ flush \in [Collector -> SUBSET Item]
    BY DEF ServInv, ServTypes
  <2>2. l \in SUBSET Item /\ f \in SUBSET Item
    BY <2>1
  <2>3. item' = [i \in Item |-> IF i \in b THEN as ELSE item[i]]
    BY <1>0 DEF Ends
  <2>4. written' = [i \in Item |-> IF i \in b /\ as = "stored" THEN written[i] + 1 ELSE written[i]]
    BY <1>0 DEF Ends
  <2>5. item' \in [Item -> {"none", "fired", "acting", "quiet", "queue", "batch", "out", "stored", "lost"}]
    BY <2>1, <2>3
  <2>6. written' \in [Item -> Nat]
    <3>1. ASSUME NEW i \in Item PROVE written[i] \in Nat /\ written[i] + 1 \in Nat
      BY <2>1
    <3>2. ASSUME NEW i \in Item
          PROVE  (IF i \in b /\ as = "stored" THEN written[i] + 1 ELSE written[i]) \in Nat
      BY <3>1
    <3> QED
      BY <2>4, <3>2
  <2> QED
    BY <1>1, <2>1, <2>2, <2>5, <2>6
<1>3. \A d \in Collector : Held(d)' = IF d = c THEN l \cup f ELSE Held(d)
  BY <1>1 DEF Held, ServInv, ServTypes
<1>4. Disjoint'
  <2>1. \A i \in b : item[i] \in {"out", "acting"}
    BY DEF ServInv, Disjoint
  <2>2. \A i \in Item : (written[i] = IF item[i] = "stored" THEN 1 ELSE 0)'
    <3>1. \A i \in Item : written[i] = IF item[i] = "stored" THEN 1 ELSE 0
      BY DEF ServInv, Disjoint
    <3>2. ASSUME NEW i \in Item, i \in b, as = "stored"
          PROVE  written'[i] = 1 /\ item'[i] = "stored"
      BY <1>1, <2>1, <3>1, <3>2
    <3>3. ASSUME NEW i \in Item, i \in b, as = "lost"
          PROVE  written'[i] = 0 /\ item'[i] = "lost"
      BY <1>1, <2>1, <3>1, <3>3
    <3>4. ASSUME NEW i \in Item, i \notin b
          PROVE  written'[i] = written[i] /\ item'[i] = item[i]
      BY <1>1, <3>4
    <3> QED
      BY <3>1, <3>2, <3>3, <3>4
  <2>3. \A d \in Collector : \A i \in Held(d)' : item'[i] = "out"
    <3>1. \A d \in Collector : Held(d) \subseteq Item /\ \A i \in Held(d) : item[i] = "out"
      BY DEF ServInv, ServTypes, Disjoint, Held
    <3>2. l \cup f \subseteq Held(c)
      BY DEF Held
    <3>3. \A d \in Collector : d # c => Held(d) \cap b = {}
      BY <3>1 DEF ServInv, Disjoint
    <3> QED
      BY <1>1, <1>3, <3>1, <3>2, <3>3
  <2>4. \A d \in Collector : (loop[d] \cap flush[d] = {})'
    BY <1>1 DEF ServInv, ServTypes, Disjoint
  <2>5. \A d, e \in Collector : d # e => (Held(d) \cap Held(e))' = {}
    <3>1. l \cup f \subseteq Held(c)
      BY DEF Held
    <3> QED
      BY <1>3, <3>1 DEF ServInv, Disjoint
  <2> QED
    BY <2>2, <2>3, <2>4, <2>5 DEF Disjoint
<1>5. StillActing(b)
  BY <1>1 DEF Item, StillActing
<1> QED
  BY <1>2, <1>4, <1>5 DEF CollTypes
-----------------------------------------------------------------------------
(* The steps of the collectors and of what is done meanwhile.                  *)

LEMMA BatchOf == ASSUME NEW c \in Collector
                 PROVE  Batch(c) \in SUBSET Item /\ (\A i \in Batch(c) : item[i] = "batch") /\ Of[c] \subseteq Item
BY DEF Batch, Of, Collector, Item

LEMMA LoopSteps ==
  ASSUME ServInv, NEW c \in Collector, Timeout(c) \/ Written(c) \/ \E i \in Of[c] : Take(c, i)
  PROVE  ServInv'
<1>1. CASE Timeout(c)
  BY <1>1, BatchOf, Takes DEF Timeout, Write, Free
<1>2. ASSUME NEW i \in Of[c], Take(c, i) PROVE ServInv'
  <2> DEFINE b == Batch(c) \cup {i}
  <2>1. i \in Item /\ item[i] = "queue" /\ b \in SUBSET Item /\ \A j \in b : item[j] \in {"queue", "batch"}
    BY <1>2, BatchOf DEF Take
  <2>2. CASE Write(c, b)
    BY <1>2, <2>1, <2>2, Takes DEF Take, Write, Free
  <2>3. CASE Move(i, "batch")
    BY <2>1, <2>3, Moves
  <2> QED
    BY <1>2, <2>2, <2>3 DEF Take
<1>3. CASE Written(c)
  <2>1. UNCHANGED <<phase, srv, public, cleanups, work>>
    BY <1>3 DEF Written
  <2>2. PICK p \in SUBSET Item, q \in SUBSET Item : p = loop[c] /\ q = flush[c]
    BY DEF ServInv, ServTypes
  <2>3. p \cap q = {} /\ p \cup q \subseteq Held(c)
    BY <2>2 DEF ServInv, Disjoint, Held
  <2>4. ASSUME NEW b \in SUBSET Item, NEW l \in SUBSET Item, NEW f \in SUBSET Item,
               l \subseteq p, f \subseteq q, b \subseteq p \cup q, b \cap (l \cup f) = {},
               Ends(c, b, "stored", l, f) \/ Ends(c, b, "lost", l, f)
        PROVE  ServInv'
    <3>1. \A i \in b : i \in Held(c) \/ item[i] = "acting"
      BY <2>3, <2>4
    <3>2. l \subseteq loop[c] /\ f \subseteq flush[c]
      BY <2>2, <2>4
    <3>3. CollTypes' /\ Disjoint' /\ StillActing(b)
      BY <2>4, <3>1, <3>2, WriteEnds
    <3>4. loop' = [loop EXCEPT ![c] = l] /\ flush' = [flush EXCEPT ![c] = f]
      BY <2>4 DEF Ends
    <3>5. ServTypes'
      BY <2>1, <3>3 DEF ServInv, ServTypes, CollTypes
    <3>6. Attended'
      BY <2>1, <3>2, <3>3, <3>4 DEF StillActing, ServInv, ServTypes, Attended, Alive, Collector
    <3> QED
      BY <2>1, <3>3, <3>5, <3>6, Collecting
  <2>5. {} \in SUBSET Item /\ {} \subseteq p /\ {} \subseteq q /\ p \subseteq p \cup q /\ q \subseteq p \cup q
        /\ p \cap ({} \cup q) = {} /\ q \cap (p \cup {}) = {} /\ p \subseteq p /\ q \subseteq q
    BY <2>3
  <2>6. \/ Ends(c, p, "stored", {}, q) \/ Ends(c, p, "lost", {}, q)
        \/ Ends(c, q, "stored", p, {}) \/ Ends(c, q, "lost", p, {})
    BY <1>3, <2>2 DEF Written, Ends
  <2> QED
    BY <2>4, <2>5, <2>6
<1> QED
  BY <1>1, <1>2, <1>3

LEMMA FlushStep == ASSUME ServInv, FlushLogs PROVE ServInv'
<1>1. "logs" \in Collector
  BY DEF Collector
<1> QED
  BY <1>1, BatchOf, Takes DEF FlushLogs

LEMMA ItemSteps ==
  ASSUME ServInv,
         \/ \E w \in Turn, i \in Item : Record(w, i) \/ FireHook(w, i)
         \/ \E i \in Call : Act(i) \/ Acted(i)
  PROVE  ServInv'
<1>1. PICK i \in Item : \/ \E at \in {"lost", "queue", "fired"} : item[i] = "none" /\ Move(i, at)
                        \/ item[i] = "fired" /\ srv["hooks"] = "running" /\ Move(i, "acting")
                        \/ \E at \in {"lost", "queue", "quiet"} : item[i] = "acting" /\ Move(i, at)
  BY DEF Record, FireHook, Act, Acted, Item
<1> QED
  BY <1>1, Moves

LEMMA WorkSteps ==
  ASSUME ServInv, NEW w \in Turn, EndWork(w) \/ \E o \in Owners : StartWork(w, o)
  PROVE  ServInv'
<1>1. Owners \subseteq Service
  BY Places DEF Owners
<1>2. UNCHANGED <<phase, srv, public, cleanups, item, loop, flush, written>>
  BY DEF EndWork, StartWork, collected
<1>3. \E x \in {"over", "nobody"} \cup Owners : work' = [work EXCEPT ![w] = x] /\ (x \in Owners => Alive(x))
  <2>1. CASE EndWork(w)
    <3>1. work[w] \in {"chat", "channels"} => Alive("tasks")
      <4>1. ~Above("tasks", "chat") /\ ~Above("tasks", "channels") /\ Place["tasks"] < Place["chat"]
            /\ Place["tasks"] < Place["channels"] /\ {"tasks", "chat", "channels"} \subseteq Service
        BY Places, Layers DEF Above
      <4>2. work[w] \in {"chat", "channels"} => Alive(work[w])
        BY DEF ServInv, Attended, Owners
      <4> QED
        BY <4>1, <4>2, Beneath DEF Alive
    <3> QED
      BY <2>1, <3>1 DEF EndWork, Owners
  <2>2. ASSUME NEW o \in Owners, StartWork(w, o) PROVE Alive(o) /\ work' = [work EXCEPT ![w] = o]
    BY <1>1, <2>2 DEF StartWork, Accepts, Alive, Leaving, Optional, ServInv, ServTypes, InTurn
  <2> QED
    BY <2>1, <2>2
<1>4. PICK x \in {"over", "nobody"} \cup Owners : work' = [work EXCEPT ![w] = x] /\ (x \in Owners => Alive(x))
  BY <1>3
<1>5. ServTypes'
  BY <1>2, <1>4 DEF ServInv, ServTypes
<1>6. Attended'
  BY <1>2, <1>4 DEF ServInv, ServTypes, Attended, Alive
<1> QED
  BY <1>2, <1>5, <1>6 DEF ServInv, InTurn, Downwards, Counted, Disjoint, Held, Leaving, Owned
-----------------------------------------------------------------------------
(* The steps of the services.                                                  *)

LEMMA Ranks ==
  /\ \A s, t \in Service : Place[s] \in Int /\ Layer(s) \in Int /\ (Place[s] = Place[t] => s = t)
  /\ \A t \in Service : Above("channels", t)
  /\ Fatal \cup Optional \cup Awaited \cup Published \cup Owners \subseteq Service
  /\ Optional = {"scheduler", "channels"} /\ Published \cap Optional = {}
  /\ "recorder" \in Service /\ "hooks" \in Service /\ "hooks" \notin Optional /\ "recorder" \notin Optional
<1>1. \A s, t \in Service : Place[s] \in Int /\ (Place[s] = Place[t] => s = t)
  BY Places
<1>2. \A s \in Service : Layer(s) \in 1 .. 5 /\ Place[s] \in 1 .. 12
  BY Places, Layers
<1>3. \A t \in Service : Above("channels", t)
  BY <1>2, Places, Layers DEF Above
<1> QED
  BY <1>1, <1>2, <1>3, Places DEF Fatal, Optional, Awaited, Published, Owners

(* The phase goes on, the services stay as they are.                           *)
LEMMA PhaseSteps ==
  ASSUME ServInv, Up \/ StartCancelled \/ Leave \/ Down \/ \E s \in Service : StartFails(s)
  PROVE  ServInv'
<1>1. UNCHANGED <<srv, cleanups, work, item, loop, flush, written>> /\ public' \subseteq public
  BY DEF Up, StartCancelled, Leave, Down, StartFails, Unwind, collected, ServInv, ServTypes
<1>2. \/ phase' = "closing"
      \/ phase' = "up" /\ phase = "starting" /\ \A s \in Service : srv[s] \notin {"absent", "starting", "closing"}
      \/ phase' = "down" /\ public' = {} /\ \A s \in Service : srv[s] \in {"absent", "closed"}
  BY DEF Up, StartCancelled, Leave, Down, StartFails, Unwind, Awaiting
<1>3. ServTypes'
  BY <1>1, <1>2 DEF ServInv, ServTypes
<1>4. InTurn'
  BY <1>1, <1>2 DEF ServInv, ServTypes, InTurn, Leaving
<1>5. Counted'
  BY <1>1, <1>2 DEF ServInv, ServTypes, Counted, Leaving
<1>6. Downwards' /\ Attended' /\ Disjoint'
  BY <1>1 DEF ServInv, Downwards, Attended, Disjoint, Alive, Leaving, Owned, Held
<1> QED
  BY <1>3, <1>4, <1>5, <1>6 DEF ServInv

LEMMA StartStep ==
  ASSUME ServInv, NEW s \in Service, StartService(s)
  PROVE  ServInv'
<1>1. PICK x \in {"starting", "running"} : srv' = [srv EXCEPT ![s] = x]
  BY DEF StartService
<1>2. /\ UNCHANGED <<phase, cleanups, work, item, loop, flush, written>> /\ srv[s] = "absent" /\ phase = "starting"
      /\ public' \subseteq public \cup {s} /\ \A t \in Service : srv[t] \notin {"starting", "closing"}
      /\ \A t \in Service : Place[t] < Place[s] => srv[t] # "absent"
  BY DEF StartService, Awaiting, collected
<1>3. srv'[s] = x /\ \A t \in Service : t # s => srv'[t] = srv[t]
  BY <1>1 DEF ServInv, ServTypes
<1>4. \A t \in Service : Place[t] > Place[s] => srv[t] = "absent"
  BY <1>2 DEF ServInv, InTurn
<1>5. ServTypes'
  BY <1>1, <1>2 DEF ServInv, ServTypes
<1>6. InTurn'
  <2>1. \A t \in Service : Leaving(t)' => Leaving(t) /\ srv[t] = "closed"
    BY <1>2, <1>3 DEF Leaving
  <2>2. \A a, b \in Service : Place[b] < Place[a] /\ srv'[a] # "absent" => srv'[b] # "absent"
    BY <1>2, <1>3 DEF ServInv, InTurn
  <2>3. \A a, b \in Service : srv'[a] \in {"starting", "closing"} /\ Place[b] > Place[a] => srv'[b] = "absent"
    BY <1>2, <1>3, <1>4, Ranks
  <2> QED
    BY <1>2, <2>1, <2>2, <2>3 DEF ServInv, InTurn
<1>7. Downwards'
  <2>1. \A t \in Service : Leaving(t) => t = "scheduler" \/ Above(t, s)
    BY <1>2, Ranks DEF ServInv, InTurn
  <2>2. \A t \in Service : (Leaving(t)' => Leaving(t)) /\ (t # s => (Owned(t)' => Owned(t))) /\ srv'[t] # "closing"
    BY <1>2, <1>3 DEF Leaving, Owned
  <2> QED
    BY <2>1, <2>2 DEF ServInv, Downwards
<1>8. Attended'
  <2>1. \A t \in Service : (Alive(t) => Alive(t)') /\ (srv[t] = "running" => srv'[t] = "running")
                           /\ (srv[t] = "closing" => srv'[t] = "closing")
    BY <1>2, <1>3 DEF Alive
  <2> QED
    BY <1>2, <2>1, Ranks DEF ServInv, Attended
<1>9. Counted'
  BY <1>2, <1>3 DEF ServInv, ServTypes, Counted, Leaving
<1>10. Disjoint'
  BY <1>2 DEF ServInv, Disjoint, Held
<1> QED
  BY <1>5, <1>6, <1>7, <1>8, <1>9, <1>10 DEF ServInv

LEMMA StartedStep ==
  ASSUME ServInv, NEW s \in Service, Started(s)
  PROVE  ServInv'
<1>1. /\ srv' = [srv EXCEPT ![s] = "running"] /\ srv[s] = "starting" /\ public' \subseteq public \cup {s}
      /\ UNCHANGED <<phase, cleanups, work, item, loop, flush, written>> /\ phase = "starting"
  BY DEF Started, collected
<1>2. srv'[s] = "running" /\ \A t \in Service : t # s => srv'[t] = srv[t]
  BY <1>1 DEF ServInv, ServTypes
<1>3. ServTypes'
  BY <1>1 DEF ServInv, ServTypes
<1>4. \A t \in Service : /\ Alive(t)' = Alive(t) /\ Leaving(t)' = Leaving(t) /\ Owned(t)' = Owned(t)
                         /\ (srv[t] = "absent") = (srv'[t] = "absent") /\ (srv'[t] = "starting" => srv[t] = "starting")
                         /\ (srv[t] = "closing") = (srv'[t] = "closing") /\ (srv[t] = "closed") = (srv'[t] = "closed")
                         /\ (srv[t] = "running" => srv'[t] = "running")
  BY <1>1, <1>2 DEF Alive, Leaving, Owned
<1>5. InTurn'
  <2>1. phase' = "up" => \A t \in Service : srv'[t] \in {"running", "closed"}
    BY <1>1, <1>2 DEF ServInv, InTurn
  <2>2. phase' = "down" => \A t \in Service : srv'[t] \in {"absent", "closed"}
    BY <1>1, <1>2 DEF ServInv, InTurn
  <2> QED
    BY <1>1, <1>4, <2>1, <2>2 DEF ServInv, InTurn
<1>6. Downwards'
  BY <1>4 DEF ServInv, Downwards
<1>7. Attended'
  BY <1>1, <1>4, Ranks DEF ServInv, Attended
<1>8. Counted'
  BY <1>1, <1>2, <1>4 DEF ServInv, Counted
<1>9. Disjoint'
  BY <1>1 DEF ServInv, Disjoint, Held
<1> QED
  BY <1>3, <1>5, <1>6, <1>7, <1>8, <1>9 DEF ServInv
(* What the collectors do when a service begins to leave.                      *)
LEMMA CloseCollects ==
  ASSUME ServInv, NEW s \in Service, CloseNow(s), Owned(s)
  PROVE  /\ CollTypes' /\ Disjoint' /\ StillActing({})
         /\ s = "hooks" => loop'["logs"] = {} /\ flush'["logs"] = {} /\ \A i \in Call : item'[i] # "acting"
         /\ s # "hooks" => loop'["logs"] = loop["logs"] /\ flush'["logs"] = flush["logs"]
         /\ loop'["rows"] = loop["rows"] /\ (s # "recorder" => flush'["rows"] = flush["rows"])
<1>1. "rows" \in Collector /\ "logs" \in Collector /\ "rows" # "logs"
  BY DEF Collector
<1>2. CASE s = "recorder"
  <2> DEFINE b == Batch("rows")
  <2>1. item' = PutAside(b) /\ written' = written /\ loop' = loop /\ flush' = [flush EXCEPT !["rows"] = b]
    BY <1>2 DEF CloseNow
  <2>2. flush["rows"] = {}
    BY <1>2 DEF ServInv, Attended, Owned
  <2>3. b \in SUBSET Item /\ \A i \in b : item[i] \in {"queue", "batch"}
    BY <1>1, BatchOf
  <2>4. CollTypes' /\ Disjoint' /\ StillActing(b)
    BY <1>1, <2>1, <2>2, <2>3, AsideOf
  <2> QED
    BY <1>1, <1>2, <2>1, <2>4 DEF StillActing, ServInv, ServTypes
<1>3. CASE s = "hooks"
  <2> DEFINE b == loop["logs"] \cup {i \in Call : item[i] = "acting"}
  <2>1. Ends("logs", b, "stored", {}, {}) \/ Ends("logs", b, "lost", {}, {})
    BY <1>3 DEF CloseNow
  <2>2. {} \subseteq loop["logs"] /\ {} \subseteq flush["logs"] /\ b \cap ({} \cup {}) = {} /\ {} \in SUBSET Item
    OBVIOUS
  <2>3. b \in SUBSET Item /\ \A i \in b : i \in Held("logs") \/ item[i] = "acting"
    BY <1>1 DEF Held, Item, ServInv, ServTypes
  <2> HIDE DEF b
  <2>4. CollTypes' /\ Disjoint' /\ StillActing(b)
    BY <1>1, <2>1, <2>2, <2>3, WriteEnds
  <2>5. loop' = [loop EXCEPT !["logs"] = {}] /\ flush' = [flush EXCEPT !["logs"] = {}]
    BY <2>1 DEF Ends
  <2>6. \A i \in Call : item'[i] # "acting"
    BY <2>4 DEF StillActing, b
  <2> QED
    BY <1>1, <1>3, <2>4, <2>5, <2>6 DEF StillActing, ServInv, ServTypes
<1>4. CASE s \notin {"recorder", "hooks"}
  <2>1. UNCHANGED <<item, loop, flush, written>>
    BY <1>4 DEF CloseNow, collected
  <2> QED
    BY <1>4, <2>1 DEF StillActing, CollTypes, ServInv, ServTypes, Disjoint, Held
<1> QED
  BY <1>2, <1>3, <1>4

LEMMA CloseBegins ==
  ASSUME ServInv, NEW s \in Service, Close(s) \/ StartFailsOptional(s)
  PROVE  ServInv'
<1>1. CloseNow(s) /\ Owned(s)
  BY DEF Close, StartFailsOptional, Owned
<1>2. /\ UNCHANGED <<phase, public, work>> /\ cleanups' = [cleanups EXCEPT ![s] = cleanups[s] + 1]
      /\ srv' = [srv EXCEPT ![s] = "closing"]
  BY <1>1 DEF CloseNow
<1>3. \/ phase = "closing" /\ \A t \in Service : srv[t] # "closing" /\ (Owned(t) => Above(s, t))
      \/ phase = "starting" /\ s \in Optional /\ srv[s] = "starting"
  BY DEF Close, StartFailsOptional
<1>4. \A t \in Service : srv[t] # "closing"
  <2>1. ASSUME phase = "starting", s \in Optional, srv[s] = "starting", NEW t \in Service, srv[t] = "closing"
        PROVE  FALSE
    <3>1. ~(Place[t] > Place[s]) /\ ~(Place[s] > Place[t])
      BY <2>1 DEF ServInv, InTurn
    <3>2. t = s
      BY <3>1, Ranks
    <3> QED
      BY <2>1, <3>2
  <2> QED
    BY <1>3, <2>1
<1>5. srv'[s] = "closing" /\ \A t \in Service : t # s => srv'[t] = srv[t]
  BY <1>2 DEF ServInv, ServTypes
<1>6. \A t \in Service : /\ (Leaving(t)' => Leaving(t) \/ t = s) /\ (Owned(t)' => Owned(t)) /\ (Alive(t) => Alive(t)')
                         /\ (srv[t] = "absent") = (srv'[t] = "absent") /\ (srv'[t] = "starting" => srv[t] = "starting")
                         /\ (srv'[t] = "closing" => t = s) /\ (srv'[t] = "closed" => srv[t] = "closed")
                         /\ (srv[t] = "running" /\ t # s => srv'[t] = "running")
  BY <1>1, <1>4, <1>5 DEF Leaving, Owned, Alive
<1>7. CollTypes' /\ Disjoint'
  BY <1>1, CloseCollects
<1>8. ServTypes'
  <2>1. cleanups' \in [Service -> Nat] /\ srv' \in [Service -> {"absent", "starting", "running", "closing", "closed"}]
    BY <1>2 DEF ServInv, ServTypes
  <2> QED
    BY <1>2, <1>7, <2>1 DEF ServInv, ServTypes, CollTypes
<1>9. InTurn'
  <2>1. phase \in {"starting", "up"} => \A t \in Service : Leaving(t)' => t \in Optional
    BY <1>3, <1>6 DEF ServInv, InTurn
  <2>2. \A t \in Service : phase = "starting" /\ Place[t] > Place[s] => srv'[t] = "absent"
    BY <1>3, <1>6 DEF ServInv, InTurn
  <2>3. phase # "up" /\ phase # "down"
    BY <1>3
  <2>4. \A a, b \in Service : Place[b] < Place[a] /\ srv'[a] # "absent" => srv'[b] # "absent"
    BY <1>6 DEF ServInv, InTurn
  <2>5. \A a, b \in Service : srv'[a] = "starting" /\ Place[b] > Place[a] => srv'[b] = "absent"
    BY <1>6 DEF ServInv, InTurn
  <2> QED
    BY <1>2, <1>6, <2>1, <2>2, <2>3, <2>4, <2>5 DEF InTurn
<1>10. Downwards'
  <2>1. \A t \in Service : Owned(t) => Above(s, t) \/ s = "scheduler"
    BY <1>3, Ranks
  <2>2. \A t \in Service : Leaving(t) => Above(t, s) \/ t = "scheduler"
    BY <1>1 DEF ServInv, Downwards
  <2> QED
    BY <1>6, <2>1, <2>2 DEF ServInv, Downwards, Leaving
<1>11. Attended'
  <2>1. \A w \in Turn : work'[w] \in Owners => srv'[work'[w]] \in {"starting", "running", "closing"}
    <3>1. ASSUME NEW w \in Turn, work[w] \in Owners PROVE srv'[work[w]] \in {"starting", "running", "closing"}
      <4>1. work[w] \in Service /\ Alive(work[w])
        BY <3>1, Ranks DEF ServInv, Attended
      <4> QED
        BY <1>2, <1>6, <4>1 DEF Alive
    <3> QED
      BY <1>2, <3>1
  <2>2. (\A i \in Call : item'[i] = "acting" => srv'["hooks"] = "running")
        /\ (loop'["logs"] # {} => srv'["hooks"] = "running") /\ (flush'["logs"] # {} => srv'["hooks"] = "closing")
    <3>1. CASE s = "hooks"
      BY <1>1, <3>1, CloseCollects
    <3>2. CASE s # "hooks"
      <4>1. loop'["logs"] = loop["logs"] /\ flush'["logs"] = flush["logs"] /\ StillActing({})
        BY <1>1, <3>2, CloseCollects
      <4>2. srv'["hooks"] = srv["hooks"]
        BY <1>5, <3>2, Ranks
      <4> QED
        BY <4>1, <4>2 DEF ServInv, Attended, StillActing
    <3> QED
      BY <3>1, <3>2
  <2>3. (loop'["rows"] # {} => srv'["recorder"] \in {"running", "closing"})
        /\ (flush'["rows"] # {} => srv'["recorder"] = "closing")
    <3>1. loop'["rows"] = loop["rows"] /\ (s # "recorder" => flush'["rows"] = flush["rows"])
      BY <1>1, CloseCollects
    <3> QED
      BY <1>5, <3>1, Ranks DEF ServInv, Attended
  <2> QED
    BY <2>1, <2>2, <2>3 DEF Attended, Alive
<1>12. Counted'
  <2>1. cleanups[s] = 0 /\ ~Leaving(s) /\ cleanups'[s] = 1 /\ \A t \in Service : t # s => cleanups'[t] = cleanups[t]
    BY <1>1, <1>2 DEF ServInv, ServTypes, Counted, Leaving, Owned
  <2>2. \A t \in Service : cleanups'[t] = IF Leaving(t)' THEN 1 ELSE 0
    BY <1>5, <2>1 DEF ServInv, Counted, Leaving
  <2> QED
    BY <1>2, <1>6, <2>2 DEF ServInv, Counted, ServTypes
<1> QED
  BY <1>7, <1>8, <1>9, <1>10, <1>11, <1>12 DEF ServInv

(* What the collectors do when a service is gone.                              *)
LEMMA ClosedCollects ==
  ASSUME ServInv, NEW s \in Service, Closed(s) \/ ClosedRaising(s)
  PROVE  /\ CollTypes' /\ Disjoint' /\ StillActing({})
         /\ s = "hooks" => flush'["logs"] = {} /\ loop'["logs"] = {}
         /\ s # "hooks" => loop'["logs"] = loop["logs"] /\ flush'["logs"] = flush["logs"]
         /\ s = "recorder" => flush'["rows"] = {} /\ loop'["rows"] = {}
         /\ s # "recorder" => loop'["rows"] = loop["rows"] /\ flush'["rows"] = flush["rows"]
<1>1. "rows" \in Collector /\ "logs" \in Collector /\ "rows" # "logs"
  BY DEF Collector
<1>0. srv[s] = "closing"
  BY DEF Closed, ClosedRaising
<1>5. ASSUME NEW c \in Collector, NEW b \in SUBSET Item, b \subseteq Held(c),
             Ends(c, b, "stored", {}, {}) \/ Ends(c, b, "lost", {}, {})
      PROVE  /\ CollTypes' /\ Disjoint' /\ StillActing({}) /\ loop'[c] = {} /\ flush'[c] = {}
             /\ \A d \in Collector : d # c => loop'[d] = loop[d] /\ flush'[d] = flush[d]
  <2>1. {} \subseteq loop[c] /\ {} \subseteq flush[c] /\ b \cap ({} \cup {}) = {} /\ {} \in SUBSET Item
    OBVIOUS
  <2>2. \A i \in b : i \in Held(c) \/ item[i] = "acting"
    BY <1>5
  <2>3. CollTypes' /\ Disjoint' /\ StillActing(b)
    BY <1>5, <2>1, <2>2, WriteEnds
  <2>4. loop' = [loop EXCEPT ![c] = {}] /\ flush' = [flush EXCEPT ![c] = {}]
    BY <1>5 DEF Ends
  <2> QED
    BY <2>3, <2>4 DEF StillActing, ServInv, ServTypes
<1>6. \A c \in Collector : Held(c) \in SUBSET Item /\ loop[c] \subseteq Held(c) /\ flush[c] \subseteq Held(c)
                           /\ loop[c] \in SUBSET Item /\ flush[c] \in SUBSET Item
  BY DEF Held, ServInv, ServTypes
<1>2. CASE s = "recorder"
  <2>1. \E b \in {loop["rows"], loop["rows"] \cup flush["rows"]} :
          Ends("rows", b, "stored", {}, {}) \/ Ends("rows", b, "lost", {}, {})
    BY <1>2 DEF Closed, ClosedRaising
  <2>2. PICK b \in SUBSET Item : b \subseteq Held("rows")
                                 /\ (Ends("rows", b, "stored", {}, {}) \/ Ends("rows", b, "lost", {}, {}))
    BY <1>1, <1>6, <2>1 DEF Held
  <2> QED
    BY <1>1, <1>2, <1>5, <2>2
<1>3. CASE s = "hooks"
  <2>0. loop["logs"] = {}
    BY <1>0, <1>3 DEF ServInv, Attended
  <2>1. CASE Closed(s)
    <3>1. UNCHANGED <<item, loop, flush, written>> /\ flush["logs"] = {}
      BY <1>3, <2>1 DEF Closed, collected
    <3> QED
      BY <1>3, <2>0, <3>1 DEF StillActing, CollTypes, ServInv, ServTypes, Disjoint, Held
  <2>2. CASE ClosedRaising(s)
    <3>1. Ends("logs", flush["logs"], "stored", {}, {}) \/ Ends("logs", flush["logs"], "lost", {}, {})
      BY <1>3, <2>2 DEF ClosedRaising
    <3> QED
      BY <1>1, <1>3, <1>5, <1>6, <3>1
  <2> QED
    BY <2>1, <2>2
<1>4. CASE s \notin {"recorder", "hooks"}
  <2>1. UNCHANGED <<item, loop, flush, written>>
    BY <1>4 DEF Closed, ClosedRaising, collected
  <2> QED
    BY <1>4, <2>1 DEF StillActing, CollTypes, ServInv, ServTypes, Disjoint, Held
<1> QED
  BY <1>2, <1>3, <1>4

LEMMA CloseReturns ==
  ASSUME ServInv, NEW s \in Service, Closed(s) \/ ClosedRaising(s)
  PROVE  ServInv'
<1>1. /\ srv[s] = "closing" /\ (\A w \in Turn : work[w] # s) /\ public' = public \ ({s} \cap Optional)
      /\ srv' = [srv EXCEPT ![s] = "closed"] /\ phase' \in {phase, "closing"} /\ UNCHANGED <<cleanups, work>>
  BY DEF Closed, ClosedRaising, Waits, Withdrawn, AfterRaising
<1>2. srv'[s] = "closed" /\ \A t \in Service : t # s => srv'[t] = srv[t]
  BY <1>1 DEF ServInv, ServTypes
<1>3. \A t \in Service : /\ Leaving(t)' = Leaving(t) /\ Owned(t)' = Owned(t) /\ (t # s => Alive(t)' = Alive(t))
                         /\ (srv[t] = "absent") = (srv'[t] = "absent") /\ (srv[t] = "starting") = (srv'[t] = "starting")
                         /\ srv'[t] # "closing" /\ (srv[t] = "running") = (srv'[t] = "running")
                         /\ (srv'[t] = "closed" => srv[t] = "closed" \/ t = s)
  BY <1>1, <1>2 DEF Leaving, Owned, Alive, ServInv, Downwards
<1>4. phase' \notin {"up", "down"}
  BY <1>1 DEF ServInv, InTurn
<1>5. CollTypes' /\ Disjoint'
  BY ClosedCollects
<1>6. ServTypes'
  <2>1. srv' \in [Service -> {"absent", "starting", "running", "closing", "closed"}]
    BY <1>1 DEF ServInv, ServTypes
  <2> QED
    BY <1>1, <1>5, <2>1 DEF ServInv, ServTypes, CollTypes
<1>7. InTurn'
  BY <1>1, <1>3, <1>4 DEF ServInv, InTurn
<1>8. Downwards'
  BY <1>3 DEF ServInv, Downwards
<1>9. Attended'
  <2>1. \A w \in Turn : work'[w] \in Owners => srv'[work'[w]] \in {"starting", "running", "closing"}
    <3>1. ASSUME NEW w \in Turn, work[w] \in Owners PROVE srv'[work[w]] \in {"starting", "running", "closing"}
      <4>1. work[w] \in Service /\ Alive(work[w])
        BY <3>1, Ranks DEF ServInv, Attended
      <4> QED
        BY <1>1, <1>3, <4>1 DEF Alive
    <3> QED
      BY <1>1, <3>1
  <2>2. (\A i \in Call : item'[i] = "acting" => srv'["hooks"] = "running")
    <3>1. StillActing({})
      BY ClosedCollects
    <3> QED
      BY <1>3, <3>1, Ranks DEF StillActing, ServInv, Attended
  <2>3. (loop'["logs"] # {} => srv'["hooks"] = "running") /\ (flush'["logs"] # {} => srv'["hooks"] = "closing")
    <3>1. CASE s = "hooks"
      BY <3>1, ClosedCollects
    <3>2. CASE s # "hooks"
      <4>1. loop'["logs"] = loop["logs"] /\ flush'["logs"] = flush["logs"]
        BY <3>2, ClosedCollects
      <4> QED
        BY <1>2, <3>2, <4>1, Ranks DEF ServInv, Attended
    <3> QED
      BY <3>1, <3>2
  <2>4. (loop'["rows"] # {} => srv'["recorder"] \in {"running", "closing"})
        /\ (flush'["rows"] # {} => srv'["recorder"] = "closing")
    <3>1. CASE s = "recorder"
      BY <3>1, ClosedCollects
    <3>2. CASE s # "recorder"
      <4>1. loop'["rows"] = loop["rows"] /\ flush'["rows"] = flush["rows"]
        BY <3>2, ClosedCollects
      <4> QED
        BY <1>2, <3>2, <4>1, Ranks DEF ServInv, Attended
    <3> QED
      BY <3>1, <3>2
  <2> QED
    BY <2>1, <2>2, <2>3, <2>4 DEF Attended, Alive
<1>10. Counted'
  BY <1>1, <1>3, <1>4 DEF ServInv, Counted
<1> QED
  BY <1>5, <1>6, <1>7, <1>8, <1>9, <1>10 DEF ServInv

LEMMA ServStep == ServInv /\ [ONext]_ovars => ServInv'
<1> SUFFICES ASSUME ServInv, [ONext]_ovars PROVE ServInv'
  OBVIOUS
<1>1. ASSUME NEW s \in Service,
             \/ StartService(s) \/ Started(s) \/ StartFails(s) \/ StartFailsOptional(s)
             \/ Close(s) \/ Closed(s) \/ ClosedRaising(s)
      PROVE  ServInv'
  BY <1>1, StartStep, StartedStep, PhaseSteps, CloseBegins, CloseReturns
<1>2. CASE Up \/ StartCancelled \/ Leave \/ Down
  BY <1>2, PhaseSteps
<1>3. CASE FlushLogs
  BY <1>3, FlushStep
<1>4. ASSUME NEW w \in Turn, EndWork(w) \/ \E o \in Owners : StartWork(w, o) PROVE ServInv'
  BY <1>4, WorkSteps
<1>5. ASSUME \/ \E w \in Turn, i \in Item : Record(w, i) \/ FireHook(w, i)
             \/ \E i \in Call : Act(i) \/ Acted(i)
      PROVE  ServInv'
  BY <1>5, ItemSteps
<1>6. ASSUME NEW c \in Collector, Timeout(c) \/ Written(c) \/ \E i \in Of[c] : Take(c, i) PROVE ServInv'
  BY <1>6, LoopSteps
<1>7. CASE UNCHANGED ovars
  BY <1>7 DEF ovars, ServInv, ServTypes, InTurn, Downwards, Attended, Counted, Disjoint, Held, Alive, Leaving, Owned
<1> QED
  BY <1>1, <1>2, <1>3, <1>4, <1>5, <1>6, <1>7 DEF ONext

(* Services come in order and leave in the order of their layers, whatever     *)
(* fails, raises or is cancelled: nothing runs without what it uses, each is   *)
(* released once and a row is written once (interface/lifecycle.py,            *)
(* observation/recorder.py, hooks/manager.py).                                 *)
THEOREM ServicesServe == OSpec => []ServicesHold
<1>1. OSpec => []ServInv
  BY ServInit, ServStep, PTL DEF OSpec
<1> QED
  BY <1>1, ServImply, PTL

-----------------------------------------------------------------------------
(* The two side by side.                                                       *)

Beside == ServInv /\ ((part = "job" /\ RecordInv) \/ (part = "services" /\ told = {}))

(* In either part: whoever is told something finds it recorded, and no service *)
(* is used or shown after its release.                                         *)
THEOREM ToldAndServedHolds == Spec => []ToldAndServed
<1>1. Init => Beside
  <2>1. CInit => RecordInv
    BY RecordStarts
  <2> QED
    BY <2>1, ServInit DEF Init, Beside, NoJob
<1>2. Beside /\ [Next]_<<part, cvars, ovars>> => Beside'
  <2> SUFFICES ASSUME Beside, [Next]_<<part, cvars, ovars>> PROVE Beside'
    OBVIOUS
  <2>1. CASE part = "job" /\ CNext /\ UNCHANGED <<part, ovars>>
    <3>1. RecordInv'
      BY <2>1, RecordKept DEF Beside
    <3>2. ServInv'
      BY <2>1, ServStep DEF Beside
    <3> QED
      BY <2>1, <3>1, <3>2 DEF Beside
  <2>2. CASE part = "services" /\ ONext /\ UNCHANGED <<part, cvars>>
    <3>1. ServInv' /\ told' = told
      BY <2>2, ServStep DEF Beside, cvars
    <3> QED
      BY <2>2, <3>1 DEF Beside
  <2>3. CASE UNCHANGED <<part, cvars, ovars>>
    <3>1. ServInv' /\ told' = told
      BY <2>3, ServStep DEF Beside, cvars
    <3>2. RecordInv => RecordInv'
      BY <2>3, RecordKept
    <3> QED
      BY <2>3, <3>1, <3>2 DEF Beside
  <2> QED
    BY <2>1, <2>2, <2>3 DEF Next
<1>3. Beside => ToldAndServed
  <2>1. RecordInv => TellsWhatIsRecorded
    BY DEF RecordInv, RecordFits, FitsOne, TellsWhatIsRecorded, CTypeOK
  <2> QED
    BY <2>1, ServImply DEF Beside, ToldAndServed, TellsWhatIsRecorded
<1> QED
  BY <1>1, <1>2, <1>3, PTL DEF Spec
=============================================================================
