--------------------------- MODULE ChatRunsProofs ---------------------------
(* Theorems about ChatRuns, for every set of processes, sessions and calls,    *)
(* every bound and every set of mishaps.                                       *)
EXTENDS ChatRuns, TLAPS, SequenceTheorems

-----------------------------------------------------------------------------
(* Type correctness.                                                           *)

(* The helpers on rows and workers return rows and workers.                    *)
LEMMA CloseType == ASSUME NEW x \in Row, NEW st \in Status PROVE Close(x, st) \in Row
  BY DEF Close, Row

LEMMA ExpireType == ASSUME NEW x \in Row PROVE Expire(x) \in Row
  BY CloseType DEF Expire, Status, Terminal

LEMMA FinishedType == ASSUME NEW x \in Row, NEW st \in Status PROVE Finished(x, st) \in Row
  BY CloseType DEF Finished

LEMMA SucceededType == ASSUME NEW x PROVE Succeeded(x) \in SUBSET Call /\ Called(x) \in SUBSET Call
  BY DEF Succeeded, Called, With

LEMMA NoRowType == NoRow \in Row
  BY DEF NoRow, Row, Status

LEMMA NoWorkerType == NoWorker \in Worker
  BY DEF NoWorker, Worker, Pc, Outcome

LEMMA EndedType == ASSUME NEW w \in Worker, NEW pc \in Pc PROVE Ended(w, pc) \in Worker
  BY NoWorkerType DEF Ended, Worker

LEMMA CancelledType == ASSUME NEW w \in Worker PROVE Cancelled(w) \in Worker
  BY DEF Cancelled, Worker

LEMMA EmittedType ==
  ASSUME NEW w \in Worker, NEW kind \in Kind, NEW k \in Call \cup {None}
  PROVE  Emitted(w, kind, k) \in Worker
<1> DEFINE e == [n |-> w.n + 1, kind |-> kind, call |-> k]
           p == Append(w.pending, e)
<1>1. w.n + 1 \in Nat /\ w.pending \in Seq(Event)
  BY DEF Worker
<1>2. p \in Seq(Event)
  BY <1>1, AppendProperties DEF Event
<1>3. Emitted(w, kind, k) = [w EXCEPT !.n = w.n + 1, !.pending = p]
  BY DEF Emitted
<1> HIDE DEF p
<1> QED
  BY <1>1, <1>2, <1>3 DEF Worker

LEMMA LoggedType ==
  ASSUME TypeOK, NEW r \in Run PROVE Logged(r) \in [Run -> Row]
<1>1. row[r] \in Row /\ wk[r] \in Worker
  BY DEF TypeOK
<1>2. row[r].log \in Seq(Event) /\ wk[r].pending \in Seq(Event)
  BY <1>1 DEF Row, Worker
<1>3. row[r].log \o wk[r].pending \in Seq(Event)
  BY <1>2, ConcatProperties
<1> QED
  BY <1>1, <1>3 DEF Logged, TypeOK, Row

(* A step that replaces the row or the worker of one run keeps the functions.  *)
LEMMA PutRow ==
  ASSUME TypeOK, NEW r \in Run, NEW x \in Row PROVE [row EXCEPT ![r] = x] \in [Run -> Row]
  BY DEF TypeOK

LEMMA PutWorker ==
  ASSUME TypeOK, NEW r \in Run, NEW w \in Worker
  PROVE  [wk EXCEPT ![r] = w] \in [Run -> Worker]
  BY DEF TypeOK

(* The updates of a worker that the actions make.                              *)
LEMMA MoveType ==
  ASSUME NEW w \in Worker, NEW pc \in Pc PROVE [w EXCEPT !.pc = pc] \in Worker
  BY DEF Worker

LEMMA SourceMoveType ==
  ASSUME NEW w \in Worker, NEW pc \in Pc, NEW src \in {"open", "done", "tail", "end"}
  PROVE  [w EXCEPT !.pc = pc, !.src = src] \in Worker
  BY DEF Worker

LEMMA TodoMoveType ==
  ASSUME NEW w \in Worker, NEW pc \in Pc, NEW todo \in SUBSET Call
  PROVE  [w EXCEPT !.pc = pc, !.todo = todo] \in Worker
  BY DEF Worker

LEMMA ResultMoveType ==
  ASSUME NEW w \in Worker, NEW pc \in Pc, NEW todo \in SUBSET Call, NEW batch \in BOOLEAN
  PROVE  [w EXCEPT !.pc = pc, !.todo = todo, !.batch = batch] \in Worker
  BY DEF Worker

LEMMA OutcomeMoveType ==
  ASSUME NEW w \in Worker, NEW pc \in Pc, NEW outcome \in Outcome
  PROVE  [w EXCEPT !.pc = pc, !.outcome = outcome] \in Worker
  BY DEF Worker

(* The steps of the source of a worker keep the types.                         *)
LEMMA SourceType ==
  ASSUME TypeOK, NEW r \in Run, Source(r) PROVE TypeOK'
<1> DEFINE w == wk[r]
<1>0. row[r] \in Row /\ w \in Worker /\ w.todo \in SUBSET Call
  BY DEF TypeOK, Worker
<1> DEFINE Sound(kind, k) == Emitted(w, kind, k) \in Worker
<1>e. /\ Sound("text", None) /\ Sound("done", None) /\ Sound("title", None)
      /\ Sound("error", None)
      /\ \A k \in Call : Sound("call", k) /\ Sound("ok", k) /\ Sound("err", k)
  BY <1>0, EmittedType DEF Kind
<1>s. \A shown \in SUBSET Call : [row EXCEPT ![r].shown = shown] \in [Run -> Row]
  BY <1>0 DEF TypeOK, Row
<1>1. CASE PullText(r)
  <2>1. \A pc \in {"pull", "append"} : [Emitted(w, "text", None) EXCEPT !.pc = pc] \in Worker
    BY <1>e, ZenonT(40) DEF Worker, Pc
  <2> QED BY <1>1, <2>1, PutWorker DEF PullText, TypeOK
<1>2. CASE PullDone(r)
  <2>1. [Emitted(w, "done", None) EXCEPT !.pc = "append", !.src = "done"] \in Worker
    BY <1>e, SourceMoveType DEF Pc
  <2> QED BY <1>2, <1>s, <2>1, PutWorker DEF PullDone, TypeOK
<1>3. CASE PullTitle(r)
  <2>1. [Emitted(w, "title", None) EXCEPT !.pc = "append", !.src = "tail"] \in Worker
    BY <1>e, SourceMoveType DEF Pc
  <2> QED BY <1>3, <2>1, PutWorker DEF PullTitle, TypeOK
<1>4. CASE PullError(r)
  <2>1. [Emitted(w, "error", None) EXCEPT !.pc = "append", !.src = "tail"] \in Worker
    BY <1>e, SourceMoveType DEF Pc
  <2> QED BY <1>4, <2>1, PutWorker DEF PullError, TypeOK
<1>5. CASE PullEnd(r)
  <2>1. [w EXCEPT !.src = "end", !.pc = IF w.pending = <<>> THEN "drain" ELSE "append"]
        \in Worker
    BY <1>0 DEF Worker, Pc
  <2>2. wk' = [wk EXCEPT ![r] = [w EXCEPT !.src = "end",
                        !.pc = IF w.pending = <<>> THEN "drain" ELSE "append"]]
    BY <1>5 DEF PullEnd
  <2>3. wk' \in [Run -> Worker]
    BY <2>1, <2>2, PutWorker, <1>0
  <2> QED BY <1>5, <1>0, <1>s, <2>3 DEF PullEnd, TypeOK
<1>6. ASSUME NEW k \in Call, PullCall(r, k) PROVE TypeOK'
  <2>1. [Emitted(w, "call", k) EXCEPT !.pc = "append", !.todo = @ \cup {k}] \in Worker
    <3>1. Emitted(w, "call", k).todo \cup {k} \in SUBSET Call
      BY <1>e DEF Worker
    <3> QED BY <1>e, <3>1, TodoMoveType DEF Pc
  <2>2. w.todo \cup {k} \in SUBSET Call
    BY <1>0
  <2> QED BY <1>6, <1>s, <2>1, <2>2, PutWorker, <1>0 DEF PullCall, TypeOK
<1>7. ASSUME NEW k \in Call, Execute(r, k) PROVE TypeOK'
  <2>1. [w EXCEPT !.ran = @ \cup {k}, !.batch = TRUE] \in Worker
    BY <1>0 DEF Worker
  <2> QED BY <1>7, <2>1, PutWorker, <1>0 DEF Execute, TypeOK
<1>8. ASSUME NEW k \in Call, NEW kind \in {"ok", "err"}, PullResult(r, k, kind)
      PROVE  TypeOK'
  <2>1. [Emitted(w, kind, k) EXCEPT !.pc = "append", !.todo = @ \ {k},
                                    !.batch = w.todo # {k}] \in Worker
    <3>1. Emitted(w, kind, k).todo \ {k} \in SUBSET Call
      BY <1>e DEF Worker
    <3> QED BY <1>e, <3>1, ResultMoveType DEF Pc
  <2>2. w.todo \ {k} \in SUBSET Call
    BY <1>0
  <2> QED BY <1>8, <1>s, <2>1, <2>2, PutWorker, <1>0 DEF PullResult, TypeOK
<1> QED
  BY <1>1, <1>2, <1>3, <1>4, <1>5, <1>6, <1>7, <1>8, Zenon DEF Source

(* append(), the finally block of produce(), and the delivery of a cancellation. *)
LEMMA FinalizeType ==
  ASSUME TypeOK, NEW r \in Run, Finalize(r) PROVE TypeOK'
<1> DEFINE w == wk[r]
<1>0. row[r] \in Row /\ w \in Worker /\ w.outcome \in Outcome /\ w.todo \in SUBSET Call
  BY DEF TypeOK, Worker
<1>m. \A pc \in Pc : /\ [wk EXCEPT ![r].pc = pc] \in [Run -> Worker]
                     /\ [wk EXCEPT ![r] = Ended(w, pc)] \in [Run -> Worker]
  <2>1. ASSUME NEW pc \in Pc PROVE [w EXCEPT !.pc = pc] \in Worker /\ Ended(w, pc) \in Worker
    BY <1>0, MoveType, EndedType
  <2> QED BY <2>1, PutWorker
<1>o. \A pc \in Pc, outcome \in Outcome :
          [wk EXCEPT ![r].pc = pc, ![r].outcome = outcome] \in [Run -> Worker]
  <2>1. ASSUME NEW pc \in Pc, NEW outcome \in Outcome
        PROVE  [w EXCEPT !.pc = pc, !.outcome = outcome] \in Worker
    BY <1>0, OutcomeMoveType
  <2>2. ASSUME NEW pc \in Pc, NEW outcome \in Outcome
        PROVE  /\ [wk EXCEPT ![r].pc = pc, ![r].outcome = outcome]
                  = [wk EXCEPT ![r] = [w EXCEPT !.pc = pc, !.outcome = outcome]]
               /\ [wk EXCEPT ![r] = [w EXCEPT !.pc = pc, !.outcome = outcome]]
                  \in [Run -> Worker]
    BY <1>0, <2>1, PutWorker DEF TypeOK
  <2> QED BY <2>2
<1>l. Logged(r) \in [Run -> Row]
  BY LoggedType
<1>f. \A st \in Outcome : [row EXCEPT ![r] = Finished(row[r], st)] \in [Run -> Row]
  BY <1>0, FinishedType, PutRow DEF Outcome, Status, Terminal
<1>1. CASE CommitAppend(r)
  BY <1>1, <1>m, <1>l DEF CommitAppend, TypeOK, Pc
<1>2. CASE AppendFails(r)
  BY <1>2, <1>o, <1>l DEF AppendFails, TypeOK, Pc, Outcome
<1>3. CASE Appended(r)
  <2>1. OutcomeAfter(w) \in Outcome
    BY <1>0 DEF OutcomeAfter, Outcome
  <2>2. <<>> \in Seq(Event)
    OBVIOUS
  <2>3. ASSUME NEW pc \in Pc
        PROVE  [w EXCEPT !.pending = <<>>, !.outcome = OutcomeAfter(w), !.pc = pc] \in Worker
    BY <1>0, <2>1, <2>2 DEF Worker
  <2>4. [w EXCEPT !.pending = <<>>, !.outcome = OutcomeAfter(w),
                  !.pc = IF w.src = "end" THEN "drain" ELSE "pull"] \in Worker
    BY <2>3 DEF Pc
  <2> QED BY <1>3, <2>4, PutWorker DEF Appended, TypeOK
<1>4. CASE Drain(r)
  <2>1. ASSUME NEW pc \in Pc
        PROVE  [w EXCEPT !.beat = FALSE, !.src = "end", !.pc = pc] \in Worker
    BY <1>0 DEF Worker
  <2>2. [w EXCEPT !.beat = FALSE, !.src = "end",
                  !.pc = IF w.pending = <<>> THEN "check" ELSE "leftover"] \in Worker
    BY <2>1 DEF Pc
  <2>3. wk' = [wk EXCEPT ![r] = [w EXCEPT !.beat = FALSE, !.src = "end",
                  !.pc = IF w.pending = <<>> THEN "check" ELSE "leftover"]]
    BY <1>4 DEF Drain
  <2>4. wk' \in [Run -> Worker]
    BY <2>2, <2>3, PutWorker
  <2> QED BY <1>4, <2>4 DEF Drain, TypeOK
<1>5. CASE Leftover(r)
  BY <1>5, <1>m, <1>l DEF Leftover, TypeOK, Pc
<1>6. CASE Check(r)
  <2>1. (IF row[r].stopReq /\ w.outcome # "completed" THEN "stopped" ELSE w.outcome) \in Outcome
    BY <1>0 DEF Outcome
  <2>2. wk' = [wk EXCEPT ![r].pc = "finish", ![r].outcome =
                  IF row[r].stopReq /\ w.outcome # "completed" THEN "stopped" ELSE w.outcome]
    BY <1>6 DEF Check
  <2>3. wk' \in [Run -> Worker]
    BY <1>o, <2>1, <2>2 DEF Pc
  <2> QED BY <1>6, <2>3 DEF Check, TypeOK
<1>7. CASE Finish(r)
  <2>1. row' \in [Run -> Row]
    BY <1>7, <1>0, <1>f DEF Finish, TypeOK
  <2>2. wk' \in [Run -> Worker]
    BY <1>7, <1>m DEF Finish, Pc
  <2> QED BY <1>7, <2>1, <2>2 DEF Finish, TypeOK
<1>8. CASE Deliver(r)
  <2> DEFINE d == [w EXCEPT !.cancel = "delivered"]
  <2>1. d \in Worker /\ d.todo = w.todo /\ d.outcome = w.outcome /\ d.beat \in BOOLEAN
    BY <1>0 DEF Worker
  <2>2. \A pc \in Pc : [d EXCEPT !.pc = pc] \in Worker /\ Ended(d, pc) \in Worker
    BY <2>1, MoveType, EndedType
  <2>3. \A pc \in Pc : [d EXCEPT !.src = "end", !.pc = pc] \in Worker
    BY <2>1 DEF Worker
  <2>4. ASSUME NEW b \in {FALSE, d.beat}
        PROVE  [Ended(d, "cancelled") EXCEPT !.beat = b] \in Worker
    <3>1. Ended(d, "cancelled") \in Worker /\ b \in BOOLEAN
      BY <2>1, <2>2 DEF Pc
    <3> HIDE DEF d
    <3> QED BY <3>1 DEF Worker
  <2>5. \A x \in Worker : [wk EXCEPT ![r] = x] \in [Run -> Worker]
    BY PutWorker
  <2>6. wk' \in [Run -> Worker]
    BY <1>8, <2>2, <2>3, <2>4, <2>5 DEF Deliver, Pc
  <2>7. [row EXCEPT ![r].shown = d.todo] \in [Run -> Row]
    BY <1>0, <2>1 DEF TypeOK, Row
  <2>8. row' \in [Run -> Row]
    BY <1>8, <1>f, <1>l, <1>0, <2>1, <2>7 DEF Deliver, TypeOK
  <2> QED BY <1>8, <2>6, <2>8 DEF Deliver, TypeOK
<1> QED
  BY <1>1, <1>2, <1>3, <1>4, <1>5, <1>6, <1>7, <1>8 DEF Finalize

(* Every other step that concerns one run.                                     *)
LEMMA RequestType ==
  ASSUME TypeOK, NEW r \in Run,
         \/ Start(r) \/ Abandon(r) \/ Begin(r)
         \/ Beat(r) \/ BeatFails(r) \/ Lapse(r) \/ Requests(r)
  PROVE  TypeOK'
<1> DEFINE w == wk[r]
           c == Cancelled(w)
<1>0. row[r] \in Row /\ w \in Worker /\ c \in Worker
  BY CancelledType DEF TypeOK
<1>x. Expire(row[r]) \in Row /\ Finished(row[r], "stopped") \in Row
  BY <1>0, ExpireType, FinishedType DEF Status, Terminal
<1>1. CASE Start(r)
  <2>1. [w EXCEPT !.pc = "spawned"] \in Worker
    BY <1>0, MoveType DEF Pc
  <2> QED BY <1>1, <2>1, PutWorker DEF Start, TypeOK
<1>2. CASE Abandon(r)
  <2>1. [w EXCEPT !.pc = "gone"] \in Worker
    BY <1>0, MoveType DEF Pc
  <2> QED BY <1>2, <2>1, PutWorker DEF Abandon, TypeOK
<1>3. CASE Begin(r)
  <2>1. [w EXCEPT !.pc = "pull", !.beat = TRUE] \in Worker
    BY <1>0 DEF Worker, Pc
  <2> QED BY <1>3, <2>1, PutWorker DEF Begin, TypeOK
<1>4. CASE Beat(r)
  <2>1. [row[r] EXCEPT !.fresh = TRUE] \in Row
    BY <1>0 DEF Row
  <2>2. [c EXCEPT !.beat = FALSE] \in Worker
    BY <1>0 DEF Worker
  <2> QED BY <1>4, <2>1, <2>2, PutRow, PutWorker DEF Beat, TypeOK
<1>5. CASE BeatFails(r)
  <2>1. [c EXCEPT !.beat = FALSE] \in Worker
    BY <1>0 DEF Worker
  <2> QED BY <1>5, <2>1, PutWorker DEF BeatFails, TypeOK
<1>6. CASE Lapse(r)
  <2>1. [row[r] EXCEPT !.fresh = FALSE] \in Row
    BY <1>0 DEF Row
  <2> QED BY <1>6, <2>1, PutRow DEF Lapse, TypeOK
<1>7. CASE Observe(r)
  BY <1>7, <1>x, PutRow DEF Observe, TypeOK
<1>8. CASE StopMark(r)
  <2>1. [Expire(row[r]) EXCEPT !.stopReq = @ \/ Expire(row[r]).status = "running"] \in Row
    BY <1>x DEF Row
  <2>2. [w EXCEPT !.waiter = "marked"] \in Worker
    BY <1>0 DEF Worker
  <2>3. row' \in [Run -> Row]
    BY <1>8, <2>1, PutRow DEF StopMark
  <2>4. wk' \in [Run -> Worker]
    BY <1>8, <2>2, PutWorker DEF StopMark, TypeOK
  <2> QED BY <1>8, <2>3, <2>4 DEF StopMark, TypeOK
<1>9. CASE StopCancel(r)
  <2>1. \A v \in {"waiting", "idle"} : [c EXCEPT !.waiter = v] \in Worker
    BY <1>0 DEF Worker
  <2>2. [c EXCEPT !.waiter = IF Alive(w) THEN "waiting" ELSE "idle"] \in Worker
    BY <2>1
  <2> QED BY <1>9, <2>2, PutWorker DEF StopCancel, TypeOK
<1>10. CASE StopSettle(r)
  <2>1. [w EXCEPT !.waiter = "idle"] \in Worker
    BY <1>0 DEF Worker
  <2> QED BY <1>10, <1>x, <2>1, PutWorker, PutRow DEF StopSettle, TypeOK
<1>11. CASE StopGiveUp(r)
  <2>1. [w EXCEPT !.waiter = "idle"] \in Worker
    BY <1>0 DEF Worker
  <2> QED BY <1>11, <2>1, PutWorker DEF StopGiveUp, TypeOK
<1> QED
  BY <1>1, <1>2, <1>3, <1>4, <1>5, <1>6, <1>7, <1>8, <1>9, <1>10, <1>11 DEF Requests

(* The reservation of a run, and the end of a process.                         *)
LEMMA ReserveType ==
  ASSUME TypeOK, NEW p \in Proc, NEW s \in Session, NEW from \in {0} \cup Run,
         Reserve(p, s, from)
  PROVE  TypeOK'
<1> DEFINE prior == IF from = 0 THEN NoRow ELSE Expire(row[from])
           line  == IF from = 0 THEN {} ELSE prior.lineage \cup {from}
           new   == [NoRow EXCEPT !.status = "running", !.owner = p, !.session = s,
                                  !.fresh = TRUE, !.carried = Carried(prior),
                                  !.lineage = line]
<1>1. prior \in Row
  BY NoRowType, ExpireType DEF TypeOK
<1>2. Carried(prior) \in SUBSET Call /\ line \in SUBSET Run
  BY <1>1, SucceededType DEF Carried, Row
<1>3. new \in Row
  <2> HIDE DEF prior, line
  <2> QED BY <1>2, NoRowType DEF Row, Status
<1>4. \A q \in Run : Expire(row[q]) \in Row /\ row[q] \in Row
  BY ExpireType DEF TypeOK
<1>5. row' = [q \in Run |-> IF q = created + 1 THEN new
                            ELSE IF row[q].session = s THEN Expire(row[q]) ELSE row[q]]
  BY DEF Reserve
<1> HIDE DEF new
<1>6. row' \in [Run -> Row]
  BY <1>3, <1>4, <1>5
<1>7. created' \in 0 .. MaxRuns
  BY ConstantsAssumption DEF Reserve, TypeOK
<1> QED
  BY <1>6, <1>7 DEF Reserve, TypeOK

LEMMA ProcessType ==
  ASSUME TypeOK, NEW p \in Proc, Shutdown(p) \/ ShutdownEnd(p) \/ Crash(p)
  PROVE  TypeOK'
<1>0. \A r \in Run : /\ row[r] \in Row /\ wk[r] \in Worker
                     /\ Cancelled(wk[r]) \in Worker
                     /\ Ended(wk[r], "gone") \in Worker
                     /\ Finished(row[r], "interrupted") \in Row
  BY CancelledType, EndedType, FinishedType DEF TypeOK, Pc, Status, Terminal
<1>1. ASSUME NEW w \in Worker
      PROVE  /\ [w EXCEPT !.waiter = "shutdown"] \in Worker
             /\ [w EXCEPT !.waiter = "idle"] \in Worker
             /\ [w EXCEPT !.beat = FALSE, !.waiter = "idle"] \in Worker
  BY DEF Worker
<1>2. CASE Shutdown(p)
  <2>1. wk' \in [Run -> Worker]
    BY <1>2, <1>0, <1>1 DEF Shutdown
  <2> QED BY <1>2, <2>1 DEF Shutdown, TypeOK
<1>3. CASE ShutdownEnd(p)
  <2>1. wk' \in [Run -> Worker]
    BY <1>3, <1>0, <1>1 DEF ShutdownEnd
  <2>2. row' \in [Run -> Row]
    BY <1>3, <1>0 DEF ShutdownEnd
  <2> QED BY <1>3, <2>1, <2>2 DEF ShutdownEnd, TypeOK
<1>4. CASE Crash(p)
  <2>1. wk' \in [Run -> Worker]
    BY <1>4, <1>0, <1>1 DEF Crash
  <2> QED BY <1>4, <2>1 DEF Crash, TypeOK
<1> QED
  BY <1>2, <1>3, <1>4

LEMMA TypeStep == TypeOK /\ [Next]_vars => TypeOK'
<1> SUFFICES ASSUME TypeOK, [Next]_vars PROVE TypeOK'
  OBVIOUS
<1>1. CASE UNCHANGED vars
  BY <1>1 DEF vars, TypeOK
<1>2. ASSUME NEW p \in Proc, NEW s \in Session, NEW from \in {0} \cup Run, Reserve(p, s, from)
      PROVE  TypeOK'
  BY <1>2, ReserveType
<1>3. ASSUME NEW r \in Run, RunStep(r) PROVE TypeOK'
  BY <1>3, SourceType, FinalizeType, RequestType DEF RunStep
<1>4. ASSUME NEW p \in Proc, Shutdown(p) \/ ShutdownEnd(p) \/ Crash(p) PROVE TypeOK'
  BY <1>4, ProcessType
<1> QED
  BY <1>1, <1>2, <1>3, <1>4 DEF Next

(* Every reachable state is well typed.                                        *)
THEOREM TypeCorrect == Spec => []TypeOK
<1>1. Init => TypeOK
  BY NoRowType, NoWorkerType, ConstantsAssumption DEF Init, TypeOK
<1> QED
  BY <1>1, TypeStep, PTL DEF Spec

-----------------------------------------------------------------------------
(* Safety.  Inv is inductive: a step changes the row and worker of a run only  *)
(* as Kept and WorkerInv allow, whatever the action is, and a reservation adds *)
(* a run at the end of its session's chain.                                    *)


(* What any step but a reservation may do to a row x: nothing, close it, or    *)
(* append to it the events `pending` of its worker while it runs.              *)
Kept(x, y, pending) ==
    /\ y.session = x.session /\ y.carried = x.carried /\ y.lineage = x.lineage
    /\ \/ y.status = x.status /\ y.log = x.log
       \/ x.status = "running" /\ y.status \in Terminal /\ y.log = x.log
       \/ x.status = "running" /\ y.status = "running" /\ y.log = x.log \o pending

(* ... and to the run as a whole.                                              *)
RunKept(r) == Kept(row[r], row'[r], wk[r].pending) /\ WorkerInv(row'[r], wk'[r])
OnlyRun(r) == /\ created' = created
              /\ \A q \in Run \ {r} : row'[q] = row[q] /\ wk'[q] = wk[q]

-----------------------------------------------------------------------------
(* The calls a log shows, for the same log and for a longer one.               *)
LEMMA SameLog ==
  ASSUME NEW x, NEW y, y.log = x.log
  PROVE  Called(y) = Called(x) /\ Succeeded(y) = Succeeded(x) /\ Uncertain(y) = Uncertain(x)
  BY DEF Called, Succeeded, Uncertain, With

LEMMA ConcatIndex ==
  ASSUME NEW S, NEW s \in Seq(S), NEW p \in Seq(S)
  PROVE  /\ Len(s) \in Nat /\ Len(p) \in Nat
         /\ DOMAIN s = 1 .. Len(s) /\ DOMAIN p = 1 .. Len(p)
         /\ DOMAIN (s \o p) = 1 .. Len(s) + Len(p)
         /\ \A i \in 1 .. Len(s) : (s \o p)[i] = s[i]
         /\ \A i \in 1 .. Len(p) : (s \o p)[Len(s) + i] = p[i]
<1>1. s \o p \in Seq(S) /\ Len(s \o p) = Len(s) + Len(p)
  BY ConcatProperties
<1>2. Len(s) \in Nat /\ Len(p) \in Nat /\ DOMAIN s = 1 .. Len(s) /\ DOMAIN p = 1 .. Len(p)
      /\ DOMAIN (s \o p) = 1 .. Len(s \o p)
  BY <1>1, LenProperties
<1>3. \A i \in 1 .. Len(s) + Len(p) :
         (s \o p)[i] = IF i <= Len(s) THEN s[i] ELSE p[i - Len(s)]
  BY ConcatProperties
<1>4. ASSUME NEW i \in 1 .. Len(s) PROVE (s \o p)[i] = s[i]
  BY <1>2, <1>3
<1>5. ASSUME NEW i \in 1 .. Len(p) PROVE (s \o p)[Len(s) + i] = p[i]
  <2>1. Len(s) + i \in 1 .. Len(s) + Len(p) /\ ~(Len(s) + i <= Len(s))
        /\ (Len(s) + i) - Len(s) = i
    BY <1>2
  <2> QED BY <1>3, <2>1
<1> QED
  BY <1>1, <1>2, <1>4, <1>5

LEMMA LongerLog ==
  ASSUME NEW x \in Row, NEW w \in Worker, NEW y, y.log = x.log \o w.pending
  PROVE  Called(y) = Called(x) \cup Announced(w)
<1> DEFINE s == x.log
           p == w.pending
           t == y.log
<1>1. s \in Seq(Event) /\ p \in Seq(Event) /\ t = s \o p
  BY DEF Row, Worker
<1>c. /\ \A k \in Call : k \in Called(x) <=>
                           \E i \in DOMAIN s : s[i].kind = "call" /\ s[i].call = k
      /\ \A k \in Call : k \in Announced(w) <=>
                           \E i \in DOMAIN p : p[i].kind = "call" /\ p[i].call = k
      /\ \A k \in Call : k \in Called(y) <=>
                           \E i \in DOMAIN t : t[i].kind = "call" /\ t[i].call = k
      /\ Called(x) \subseteq Call /\ Announced(w) \subseteq Call /\ Called(y) \subseteq Call
  BY DEF Called, With, Announced
<1> HIDE DEF s, p, t
<1>2. /\ Len(s) \in Nat /\ Len(p) \in Nat
      /\ DOMAIN s = 1 .. Len(s) /\ DOMAIN p = 1 .. Len(p)
      /\ DOMAIN t = 1 .. Len(s) + Len(p)
      /\ \A i \in 1 .. Len(s) : t[i] = s[i]
      /\ \A i \in 1 .. Len(p) : t[Len(s) + i] = p[i]
  BY <1>1, ConcatIndex
<1>3. ASSUME NEW i \in DOMAIN t
      PROVE  \/ i \in DOMAIN s /\ t[i] = s[i]
             \/ \E j \in DOMAIN p : t[i] = p[j]
  <2>1. CASE i <= Len(s)
    BY <1>2, <2>1
  <2>2. CASE ~(i <= Len(s))
    <3>1. i - Len(s) \in DOMAIN p /\ Len(s) + (i - Len(s)) = i
      BY <1>2, <2>2
    <3> QED BY <1>2, <3>1
  <2> QED BY <2>1, <2>2
<1>4. \A i \in DOMAIN s : i \in DOMAIN t /\ t[i] = s[i]
  BY <1>2
<1>5. ASSUME NEW j \in DOMAIN p PROVE \E i \in DOMAIN t : t[i] = p[j]
  <2>1. Len(s) + j \in DOMAIN t
    BY <1>2
  <2> QED BY <1>2, <2>1
<1>6. ASSUME NEW k \in Call PROVE k \in Called(y) <=> k \in Called(x) \cup Announced(w)
  BY <1>c, <1>3, <1>4, <1>5
<1> QED
  BY <1>c, <1>6

(* Along any step the calls of a row only grow.                                *)
LEMMA KeptCalls ==
  ASSUME NEW x \in Row, NEW w \in Worker, NEW y, Kept(x, y, w.pending)
  PROVE  Called(x) \subseteq Called(y)
<1>1. CASE y.log = x.log
  BY <1>1, SameLog
<1>2. CASE y.log = x.log \o w.pending
  BY <1>2, LongerLog
<1> QED
  BY <1>1, <1>2 DEF Kept

(* The helpers that close a row keep it in this sense.                         *)
LEMMA ClosedKept ==
  ASSUME NEW x \in Row, NEW st \in Terminal, NEW p
  PROVE  Kept(x, Finished(x, st), p) /\ Kept(x, Expire(x), p)
  BY DEF Kept, Finished, Expire, Close, Lapsed, Terminal, Row

(* An event emitted by the source adds to what the worker has announced.       *)
LEMMA EmittedAnnounced ==
  ASSUME NEW w \in Worker, NEW kind \in Kind, NEW k \in Call \cup {None}
  PROVE  /\ Announced(w) \subseteq Announced(Emitted(w, kind, k))
         /\ kind = "call" /\ k \in Call => k \in Announced(Emitted(w, kind, k))
<1> DEFINE e == [n |-> w.n + 1, kind |-> kind, call |-> k]
           p == w.pending
           t == Append(p, e)
<1>1. p \in Seq(Event)
  BY DEF Worker
<1>2. /\ DOMAIN p = 1 .. Len(p) /\ DOMAIN t = 1 .. Len(p) + 1 /\ Len(p) \in Nat
      /\ \A i \in 1 .. Len(p) : t[i] = p[i]
      /\ t[Len(p) + 1] = e
  BY <1>1
<1>3. Emitted(w, kind, k).pending = t
  BY DEF Emitted, Worker
<1>4. e.kind = kind /\ e.call = k
  OBVIOUS
<1> HIDE DEF t, e
<1> QED
  BY <1>2, <1>3, <1>4 DEF Announced

-----------------------------------------------------------------------------
(* Every action keeps the run it is about, and touches no other run.           *)

(* A worker that only moves between two awaits keeps its invariant when it does *)
(* not enter the loop; Ended forgets everything but what was executed.         *)
LEMMA MoveKeeps ==
  ASSUME NEW x \in Row, NEW w \in Worker, WorkerInv(x, w), NEW y \in Row,
         Kept(x, y, w.pending), NEW v \in Worker, v.ran = w.ran,
         \/ v.todo = {}
         \/ v.todo = w.todo /\ v.batch = w.batch /\ v.pc = w.pc /\ v.pending = w.pending
         \/ /\ v.todo = w.todo /\ v.batch = w.batch
            /\ v.pc \notin {"none", "spawned", "pull", "close", "append"}
         \/ /\ v.todo = w.todo /\ v.batch = w.batch
            /\ w.pc \in {"pull", "close"} /\ v.pc \in {"pull", "close", "append"}
  PROVE  WorkerInv(y, v)
<1>1. Called(x) \subseteq Called(y) /\ y.carried = x.carried
  BY KeptCalls DEF Kept
<1>2. v.pending = w.pending => Announced(v) = Announced(w)
  BY DEF Announced
<1> QED
  BY <1>1, <1>2 DEF WorkerInv

LEMMA Unmoved == ASSUME NEW x, NEW p PROVE Kept(x, x, p)
  BY DEF Kept

LEMMA EndedFields ==
  ASSUME NEW w \in Worker, NEW pc \in Pc
  PROVE  Ended(w, pc).ran = w.ran /\ Ended(w, pc).todo = {}
  BY DEF Ended, NoWorker, Worker

LEMMA CancelledFields ==
  ASSUME NEW w \in Worker
  PROVE  /\ Cancelled(w).ran = w.ran /\ Cancelled(w).todo = w.todo
         /\ Cancelled(w).batch = w.batch /\ Cancelled(w).pc = w.pc
         /\ Cancelled(w).pending = w.pending
  BY DEF Cancelled, Worker

LEMMA SourceKeeps ==
  ASSUME TypeOK, TypeOK', NEW r \in Run, WorkerInv(row[r], wk[r]), Source(r)
  PROVE  RunKept(r) /\ OnlyRun(r)
<1> DEFINE w == wk[r]
           x == row[r]
           v == wk'[r]
           y == row'[r]
<1>0. x \in Row /\ w \in Worker /\ y \in Row /\ v \in Worker
  BY DEF TypeOK
<1>s. \A shown : LET z == [x EXCEPT !.shown = shown] IN
                 Kept(x, z, w.pending) /\ z.carried = x.carried /\ z.log = x.log
  BY <1>0 DEF Kept, Row
<1>e. \A kind \in Kind, k \in Call \cup {None} :
          LET e == Emitted(w, kind, k) IN
          /\ e.ran = w.ran /\ e.todo = w.todo /\ e.batch = w.batch /\ e \in Worker
          /\ Announced(w) \subseteq Announced(e)
          /\ kind = "call" /\ k \in Call => k \in Announced(e)
  <2>1. ASSUME NEW kind \in Kind, NEW k \in Call \cup {None}
        PROVE  LET e == Emitted(w, kind, k) IN
               e.ran = w.ran /\ e.todo = w.todo /\ e.batch = w.batch
    BY <1>0 DEF Emitted, Worker
  <2> QED BY <1>0, <2>1, EmittedAnnounced, EmittedType
<1>1. CASE PullText(r)
  <2>1. PICK pc \in {"pull", "append"} : v = [Emitted(w, "text", None) EXCEPT !.pc = pc]
    BY <1>1, <1>0 DEF PullText, TypeOK
  <2>2. /\ v.ran = w.ran /\ v.todo = w.todo /\ v.batch = w.batch
        /\ v.pc \in {"pull", "append"} /\ w.pc = "pull" /\ y = x
    BY <2>1, <1>1, <1>0, <1>e DEF PullText, Pulling, Worker, Kind
  <2>3. WorkerInv(y, v)
    BY <2>2, <1>0, Unmoved, MoveKeeps
  <2> QED BY <1>1, <2>2, <2>3, Unmoved DEF PullText, RunKept, OnlyRun, TypeOK
<1>2. CASE PullDone(r) \/ PullTitle(r) \/ PullError(r)
  <2>1. PICK kind \in Kind, src \in {"done", "tail"} :
           v = [Emitted(w, kind, None) EXCEPT !.pc = "append", !.src = src]
    BY <1>2, <1>0 DEF PullDone, PullTitle, PullError, Kind, TypeOK
  <2>2. /\ v.ran = w.ran /\ v.todo = w.todo /\ v.batch = w.batch /\ v.pc = "append"
    <3> DEFINE e == Emitted(w, kind, None)
    <3>1. e \in Worker /\ e.ran = w.ran /\ e.todo = w.todo /\ e.batch = w.batch
      BY <1>e
    <3>2. v = [e EXCEPT !.pc = "append", !.src = src]
      BY <2>1
    <3> HIDE DEF e
    <3> QED BY <3>1, <3>2 DEF Worker
  <2>3. w.pc = "pull"
    BY <1>2 DEF PullDone, PullTitle, PullError, Pulling
  <2>4. Kept(x, y, w.pending)
    BY <1>2, <1>0, <1>s, Unmoved, SMTT(20) DEF PullDone, PullTitle, PullError, TypeOK
  <2>5. WorkerInv(y, v)
    BY <2>2, <2>3, <2>4, <1>0, MoveKeeps
  <2> QED
    BY <1>2, <2>4, <2>5 DEF PullDone, PullTitle, PullError, RunKept, OnlyRun, TypeOK
<1>3. CASE PullEnd(r)
  <2>1. /\ v.ran = w.ran /\ v.todo = w.todo /\ v.batch = w.batch
        /\ v.pc \in {"drain", "append"} /\ w.pc = "pull"
    BY <1>3, <1>0 DEF PullEnd, Worker, TypeOK
  <2>2. Kept(x, y, w.pending)
    BY <1>3, <1>0, <1>s DEF PullEnd, TypeOK
  <2>3. WorkerInv(y, v)
    BY <2>1, <2>2, <1>0, MoveKeeps
  <2> QED BY <1>3, <2>2, <2>3 DEF PullEnd, RunKept, OnlyRun, TypeOK
<1>4. ASSUME NEW k \in Call, PullCall(r, k) PROVE RunKept(r) /\ OnlyRun(r)
  <2> DEFINE e == Emitted(w, "call", k)
  <2>1. v = [e EXCEPT !.pc = "append", !.todo = @ \cup {k}]
    BY <1>4, <1>0 DEF PullCall, TypeOK
  <2>2. /\ v.ran = e.ran /\ v.todo = e.todo \cup {k} /\ v.batch = e.batch
        /\ v.pc = "append" /\ v.pending = e.pending
    <3>1. e \in Worker
      BY <1>e DEF Kind
    <3> HIDE DEF e
    <3> QED BY <2>1, <3>1 DEF Worker
  <2>3. /\ v.ran = w.ran /\ v.todo = w.todo \cup {k} /\ ~v.batch /\ w.pc = "pull"
        /\ Announced(w) \cup {k} \subseteq Announced(v)
    <3>1. /\ e.ran = w.ran /\ e.todo = w.todo /\ e.batch = w.batch
          /\ Announced(w) \cup {k} \subseteq Announced(e)
      BY <1>e DEF Kind
    <3>2. Announced(v) = Announced(e)
      BY <2>2 DEF Announced
    <3>3. w.pc = "pull" /\ ~w.batch
      BY <1>4 DEF PullCall, Pulling
    <3> QED BY <2>2, <3>1, <3>2, <3>3
  <2>4. Kept(x, y, w.pending) /\ y.log = x.log /\ y.carried = x.carried
    BY <1>4, <1>0, <1>s DEF PullCall, TypeOK
  <2>5. WorkerInv(y, v)
    BY <2>2, <2>3, <2>4, SameLog DEF WorkerInv
  <2> QED BY <1>4, <2>4, <2>5 DEF PullCall, RunKept, OnlyRun, TypeOK
<1>5. ASSUME NEW k \in Call, Execute(r, k) PROVE RunKept(r) /\ OnlyRun(r)
  <2>1. /\ v.ran = w.ran \cup {k} /\ v.todo = w.todo /\ v.batch /\ v.pc = w.pc /\ y = x
        /\ v.pending = w.pending /\ k \in w.todo \ x.carried
        /\ w.pc = "pull" \/ w.batch
    BY <1>5, <1>0 DEF Execute, TypeOK, Worker
  <2>2. w.todo \subseteq Called(x)
    BY <2>1 DEF WorkerInv
  <2>3. WorkerInv(y, v)
    BY <2>1, <2>2 DEF WorkerInv, Announced
  <2> QED BY <1>5, <2>1, <2>3, Unmoved DEF Execute, RunKept, OnlyRun, TypeOK
<1>6. ASSUME NEW k \in Call, NEW kind \in {"ok", "err"}, PullResult(r, k, kind)
      PROVE  RunKept(r) /\ OnlyRun(r)
  <2> DEFINE e == Emitted(w, kind, k)
  <2>1. v = [e EXCEPT !.pc = "append", !.todo = @ \ {k}, !.batch = w.todo # {k}]
    BY <1>6, <1>0 DEF PullResult, TypeOK
  <2>2. v.ran = e.ran /\ v.todo = e.todo \ {k} /\ v.pc = "append"
    <3>1. e \in Worker
      BY <1>e DEF Kind
    <3> HIDE DEF e
    <3> QED BY <2>1, <3>1 DEF Worker
  <2>3. v.ran = w.ran /\ v.todo \subseteq w.todo /\ w.pc = "pull"
    BY <2>2, <1>6, <1>e DEF PullResult, Pulling, Kind
  <2>4. Kept(x, y, w.pending) /\ y.log = x.log /\ y.carried = x.carried
    BY <1>6, <1>0, <1>s DEF PullResult, TypeOK
  <2>5. WorkerInv(y, v)
    BY <2>2, <2>3, <2>4, SameLog DEF WorkerInv
  <2> QED BY <1>6, <2>4, <2>5 DEF PullResult, RunKept, OnlyRun, TypeOK
<1> QED
  BY <1>1, <1>2, <1>3, <1>4, <1>5, <1>6, Zenon DEF Source

LEMMA LoggedKept ==
  ASSUME TypeOK, NEW r \in Run, row[r].status = "running", row' = Logged(r)
  PROVE  Kept(row[r], row'[r], wk[r].pending) /\ row'[r].log = row[r].log \o wk[r].pending
<1>1. row[r] \in Row /\ row'[r] = [row[r] EXCEPT !.log = @ \o wk[r].pending]
  BY DEF Logged, TypeOK
<1> DEFINE t == row[r].log \o wk[r].pending
<1>2. row'[r] = [row[r] EXCEPT !.log = t]
  BY <1>1
<1> HIDE DEF t
<1>3. row'[r].log = t /\ row'[r].status = row[r].status /\ row'[r].session = row[r].session
      /\ row'[r].carried = row[r].carried /\ row'[r].lineage = row[r].lineage
  BY <1>1, <1>2 DEF Row
<1> QED
  BY <1>3 DEF Kept, t

LEMMA FinalizeKeeps ==
  ASSUME TypeOK, TypeOK', NEW r \in Run, WorkerInv(row[r], wk[r]), Finalize(r)
  PROVE  RunKept(r) /\ OnlyRun(r)
<1> DEFINE w == wk[r]
           x == row[r]
           v == wk'[r]
           y == row'[r]
           Idle(u) == u.pc \notin {"none", "spawned", "pull", "close", "append"}
           Same == v.ran = w.ran /\ v.todo = w.todo /\ v.batch = w.batch
           Over == v.ran = w.ran /\ v.todo = {}
           Either == row' = row \/ (x.status = "running" /\ row' = Logged(r))
<1>0. x \in Row /\ w \in Worker /\ y \in Row /\ v \in Worker /\ w.outcome \in Terminal
  BY DEF TypeOK, Worker, Outcome, Terminal
<1>e. \A pc \in Pc : Ended(w, pc).ran = w.ran /\ Ended(w, pc).todo = {}
  BY <1>0, EndedFields
<1>l. Either => Kept(x, y, w.pending) /\ \A q \in Run \ {r} : row'[q] = row[q]
  BY LoggedKept, Unmoved DEF Logged, TypeOK
<1>f. \A st \in Terminal : Kept(x, Finished(x, st), w.pending)
  BY <1>0, ClosedKept
<1>k. ASSUME Kept(x, y, w.pending), (Same /\ Idle(v)) \/ Over PROVE WorkerInv(y, v)
  BY <1>k, <1>0, MoveKeeps
<1>1. CASE CommitAppend(r)
  <2>1. Either /\ Same /\ OnlyRun(r)
    BY <1>1, <1>0 DEF CommitAppend, Fenced, Worker, TypeOK, Logged, OnlyRun
  <2>2. CASE Fenced(r)
    <3>1. Idle(v)
      BY <1>1, <2>2, <1>0 DEF CommitAppend, TypeOK, Worker
    <3> QED BY <1>k, <1>l, <2>1, <3>1 DEF RunKept
  <2>3. CASE ~Fenced(r)
    <3>1. row' = Logged(r) /\ x.status = "running" /\ v.pc = "close" /\ w.pc = "append"
          /\ y.carried = x.carried
      BY <1>1, <2>3, <1>0 DEF CommitAppend, Fenced, TypeOK, Worker, Logged, Row
    <3>2. y.log = x.log \o w.pending
      BY <3>1, LoggedKept
    <3>3. Called(y) = Called(x) \cup Announced(w)
      BY <3>2, <1>0, LongerLog
    <3>4. WorkerInv(y, v)
      BY <2>1, <3>1, <3>3 DEF WorkerInv
    <3> QED BY <1>l, <2>1, <3>4 DEF RunKept
  <2> QED BY <2>2, <2>3
<1>2. CASE AppendFails(r)
  <2>1. Either /\ Same /\ Idle(v) /\ OnlyRun(r)
    BY <1>2, <1>0 DEF AppendFails, Fenced, Worker, TypeOK, Logged, OnlyRun
  <2> QED BY <1>k, <1>l, <2>1 DEF RunKept
<1>3. CASE Appended(r)
  <2>1. row' = row /\ Same /\ OnlyRun(r) /\ w.pc = "close" /\ v.pc \in {"drain", "pull"}
    BY <1>3, <1>0 DEF Appended, Worker, TypeOK, OnlyRun
  <2>2. WorkerInv(y, v)
    BY <1>0, <2>1, Unmoved, MoveKeeps
  <2> QED BY <2>1, <2>2, <1>l DEF RunKept
<1>4. CASE Drain(r)
  <2>1. row' = row /\ Same /\ Idle(v) /\ OnlyRun(r)
    BY <1>4, <1>0 DEF Drain, Worker, TypeOK, OnlyRun
  <2> QED BY <1>k, <1>l, <2>1 DEF RunKept
<1>5. CASE Leftover(r)
  <2>1. Either /\ ((Same /\ Idle(v)) \/ Over) /\ OnlyRun(r)
    BY <1>5, <1>0, <1>e DEF Leftover, Fenced, Worker, TypeOK, Logged, OnlyRun, Pc
  <2> QED BY <1>k, <1>l, <2>1 DEF RunKept
<1>6. CASE Check(r)
  <2>1. row' = row /\ Same /\ Idle(v) /\ OnlyRun(r)
    BY <1>6, <1>0 DEF Check, Worker, TypeOK, OnlyRun
  <2> QED BY <1>k, <1>l, <2>1 DEF RunKept
<1>7. CASE Finish(r)
  <2>1. Over /\ OnlyRun(r) /\ (y = x \/ y = Finished(x, w.outcome))
    BY <1>7, <1>0, <1>e DEF Finish, TypeOK, OnlyRun, Pc
  <2>2. Kept(x, y, w.pending)
    BY <1>0, <1>f, <2>1, Unmoved
  <2> QED BY <1>k, <2>1, <2>2 DEF RunKept
<1>8. CASE Deliver(r)
  <2> DEFINE d == [w EXCEPT !.cancel = "delivered"]
  <2>0. /\ d \in Worker /\ d.ran = w.ran /\ d.todo = w.todo /\ d.batch = w.batch
        /\ d.pc = w.pc /\ d.pending = w.pending /\ d.outcome = w.outcome
    BY <1>0 DEF Worker
  <2>e. \A pc \in Pc : \A b : LET u == [Ended(d, pc) EXCEPT !.beat = b] IN
           /\ Ended(d, pc).ran = w.ran /\ Ended(d, pc).todo = {}
           /\ u.ran = w.ran /\ u.todo = {}
    <3>1. ASSUME NEW pc \in Pc PROVE Ended(d, pc) \in Worker
      BY <2>0, EndedType
    <3>2. \A pc \in Pc : Ended(d, pc).ran = w.ran /\ Ended(d, pc).todo = {}
      BY <2>0, EndedFields
    <3> QED BY <3>1, <3>2 DEF Worker
  <2>1. OnlyRun(r)
    BY <1>8 DEF Deliver, OnlyRun, TypeOK, Logged
  <2>2. Kept(x, y, w.pending)
    <3>1. \/ row' = row \/ (x.status = "running" /\ row' = Logged(r))
          \/ row' = [row EXCEPT ![r].shown = d.todo]
          \/ row' = [row EXCEPT ![r] = Finished(row[r], d.outcome)]
      BY <1>8 DEF Deliver, Fenced
    <3>2. Kept(x, [x EXCEPT !.shown = d.todo], w.pending)
      BY <1>0 DEF Kept, Row
    <3> QED BY <3>1, <3>2, <1>l, <1>f, <1>0, <2>0 DEF TypeOK
  <2>3. \/ (Same /\ Idle(v)) \/ Over
        \/ Same /\ w.pc = "pull" /\ v.pc = "append"
    <3> HIDE DEF d
    <3>1. ASSUME NEW pc \in {"append", "drain"},
                 v = [d EXCEPT !.src = "end", !.pc = pc] \/ v = [d EXCEPT !.pc = pc]
          PROVE  Same /\ v.pc = pc
      BY <3>1, <2>0 DEF Worker
    <3>2. CASE w.pc = "pull"
      <4>1. v = [d EXCEPT !.src = "end",
                          !.pc = IF d.pending = <<>> THEN "drain" ELSE "append"]
        BY <1>8, <1>0, <2>0, <3>2 DEF Deliver, TypeOK, d
      <4> QED BY <3>1, <3>2, <4>1
    <3>3. CASE w.pc # "pull"
      <4>1. \/ v = [d EXCEPT !.pc = "drain"]
            \/ \E pc \in Pc : v = Ended(d, pc)
            \/ \E b : v = [Ended(d, "cancelled") EXCEPT !.beat = b]
        BY <1>8, <1>0, <2>0, <3>3 DEF Deliver, TypeOK, d, Pc
      <4>2. v = [d EXCEPT !.pc = "drain"] => Same /\ Idle(v)
        BY <3>1
      <4>3. (\E pc \in Pc : v = Ended(d, pc)) => Over
        BY <2>e
      <4>4. (\E b : v = [Ended(d, "cancelled") EXCEPT !.beat = b]) => Over
        BY <2>e DEF Pc
      <4> QED BY <4>1, <4>2, <4>3, <4>4
    <3> QED BY <3>2, <3>3
  <2>4. WorkerInv(y, v)
    BY <1>0, <1>k, <2>2, <2>3, MoveKeeps
  <2> QED BY <2>1, <2>2, <2>4 DEF RunKept
<1> QED
  BY <1>1, <1>2, <1>3, <1>4, <1>5, <1>6, <1>7, <1>8 DEF Finalize

LEMMA RequestKeeps ==
  ASSUME TypeOK, TypeOK', NEW r \in Run, WorkerInv(row[r], wk[r]),
         \/ Start(r) \/ Abandon(r) \/ Begin(r)
         \/ Beat(r) \/ BeatFails(r) \/ Lapse(r) \/ Requests(r)
  PROVE  RunKept(r) /\ OnlyRun(r)
<1> DEFINE w == wk[r]
           x == row[r]
           v == wk'[r]
           y == row'[r]
           c == Cancelled(w)
           Still == /\ v.ran = w.ran /\ v.todo = w.todo /\ v.batch = w.batch
                    /\ v.pc = w.pc /\ v.pending = w.pending
           Idled == v.ran = w.ran /\ v.todo = {}
<1>0. x \in Row /\ w \in Worker /\ y \in Row /\ v \in Worker
  BY DEF TypeOK
<1>c. /\ c \in Worker /\ c.ran = w.ran /\ c.todo = w.todo /\ c.batch = w.batch
      /\ c.pc = w.pc /\ c.pending = w.pending
  BY <1>0, CancelledType, CancelledFields
<1>u. w.pc = "none" \/ w.pc = "spawned" => w.todo = {}
  BY DEF WorkerInv
<1>f. /\ Kept(x, Expire(x), w.pending) /\ Kept(x, Finished(x, "stopped"), w.pending)
      /\ Expire(x) \in Row
  BY <1>0, ClosedKept, ExpireType DEF Terminal
<1>k. ASSUME Kept(x, y, w.pending), Still \/ Idled PROVE WorkerInv(y, v)
  BY <1>k, <1>0, MoveKeeps
<1>1. CASE Start(r) \/ Abandon(r) \/ Begin(r)
  <2>1. \/ v = [w EXCEPT !.pc = "spawned"] \/ v = [w EXCEPT !.pc = "gone"]
        \/ v = [w EXCEPT !.pc = "pull", !.beat = TRUE]
    BY <1>1, <1>0 DEF Start, Abandon, Begin, TypeOK
  <2>2. w.todo = {}
    BY <1>1, <1>u DEF Start, Abandon, Begin
  <2>3. Idled
    BY <2>1, <2>2, <1>0 DEF Worker
  <2>4. y = x /\ OnlyRun(r)
    BY <1>1 DEF Start, Abandon, Begin, OnlyRun, TypeOK
  <2> QED BY <2>3, <2>4, <1>k, Unmoved DEF RunKept
<1>2. CASE Beat(r) \/ BeatFails(r) \/ StopCancel(r)
  <2> HIDE DEF c
  <2>1. \/ v = w
        \/ v = [c EXCEPT !.beat = FALSE]
        \/ \E u : v = [c EXCEPT !.waiter = u]
    BY <1>2, <1>0 DEF Beat, BeatFails, StopCancel, TypeOK, c
  <2>2. Still
    BY <2>1, <1>c DEF Worker
  <2>3. y = x \/ y = [x EXCEPT !.fresh = TRUE]
    BY <1>2, <1>0 DEF Beat, BeatFails, StopCancel, TypeOK
  <2>4. Kept(x, y, w.pending)
    BY <2>3, <1>0 DEF Kept, Row
  <2> QED BY <1>2, <2>2, <2>4, <1>k DEF RunKept, OnlyRun, Beat, BeatFails, StopCancel, TypeOK
<1>3. CASE Lapse(r)
  <2>1. y = [x EXCEPT !.fresh = FALSE] /\ v = w /\ OnlyRun(r)
    BY <1>3, <1>0 DEF Lapse, TypeOK, OnlyRun
  <2>2. Kept(x, y, w.pending)
    BY <2>1, <1>0 DEF Kept, Row
  <2> QED BY <2>1, <2>2, <1>k DEF RunKept
<1>4. CASE Observe(r)
  BY <1>4, <1>0, <1>f, <1>k DEF Observe, TypeOK, RunKept, OnlyRun
<1>5. CASE StopMark(r)
  <2> DEFINE z == Expire(x)
  <2>1. y = [z EXCEPT !.stopReq = @ \/ z.status = "running"]
    BY <1>5, <1>0 DEF StopMark, TypeOK
  <2>2. Kept(x, z, w.pending) /\ z \in Row
    BY <1>f
  <2> HIDE DEF z
  <2>3. Kept(x, y, w.pending)
    BY <2>1, <2>2 DEF Kept, Row
  <2>4. v = w \/ v = [w EXCEPT !.waiter = "marked"]
    BY <1>5, <1>0 DEF StopMark, TypeOK
  <2>5. Still
    BY <2>4, <1>0 DEF Worker
  <2>6. OnlyRun(r)
    BY <1>5 DEF StopMark, OnlyRun, TypeOK
  <2> QED BY <2>3, <2>5, <2>6, <1>k DEF RunKept
<1>6. CASE StopSettle(r) \/ StopGiveUp(r)
  <2>1. v = [w EXCEPT !.waiter = "idle"]
    BY <1>6, <1>0 DEF StopSettle, StopGiveUp, TypeOK
  <2>2. Still
    BY <2>1, <1>0 DEF Worker
  <2>3. y = x \/ y = Finished(x, "stopped")
    BY <1>6, <1>0 DEF StopSettle, StopGiveUp, TypeOK
  <2>4. OnlyRun(r)
    BY <1>6 DEF StopSettle, StopGiveUp, OnlyRun, TypeOK
  <2> QED BY <2>2, <2>3, <2>4, <1>f, <1>k, Unmoved DEF RunKept
<1> QED
  BY <1>1, <1>2, <1>3, <1>4, <1>5, <1>6 DEF Requests

(* Nothing but a reservation concerns a run that does not exist yet.           *)
LEMMA OnlyPresent ==
  ASSUME NEW r \in Run, row[r] = NoRow, wk[r] = NoWorker, RunStep(r)
  PROVE  FALSE
<1>1. /\ row[r].status = "absent" /\ wk[r].pc = "none" /\ wk[r].cancel = "no"
      /\ ~wk[r].beat /\ wk[r].todo = {} /\ wk[r].waiter = "idle"
  BY DEF NoRow, NoWorker
<1>2. ~Start(r) /\ ~Abandon(r) /\ ~Begin(r) /\ ~Beat(r) /\ ~BeatFails(r) /\ ~Lapse(r)
  BY <1>1 DEF Start, Abandon, Begin, Beat, BeatFails, Lapse
<1>3. ~Source(r)
  BY <1>1 DEF Source, PullText, PullDone, PullTitle, PullError, PullEnd, PullCall, Execute,
              PullResult, Pulling
<1>4. ~Finalize(r)
  BY <1>1 DEF Finalize, CommitAppend, AppendFails, Appended, Drain, Leftover, Check, Finish,
              Deliver
<1>5. ~Requests(r)
  BY <1>1 DEF Requests, Observe, StopMark, StopCancel, StopSettle, StopGiveUp, Lapsed
<1> QED
  BY <1>2, <1>3, <1>4, <1>5 DEF RunStep

LEMMA ProcessKeeps ==
  ASSUME TypeOK, TypeOK', NEW p \in Proc, \A r \in Run : WorkerInv(row[r], wk[r]),
         Shutdown(p) \/ ShutdownEnd(p) \/ Crash(p)
  PROVE  /\ created' = created
         /\ \A r \in Run : RunKept(r) /\ (row[r] = NoRow => row'[r] = row[r] /\ wk'[r] = wk[r])
<1>1. created' = created
  BY DEF Shutdown, ShutdownEnd, Crash
<1>2. ASSUME NEW r \in Run PROVE RunKept(r)
  <2> DEFINE w == wk[r]
             x == row[r]
             v == wk'[r]
             y == row'[r]
             Still == /\ v.ran = w.ran /\ v.todo = w.todo /\ v.batch = w.batch
                      /\ v.pc = w.pc /\ v.pending = w.pending
             Idled == v.ran = w.ran /\ v.todo = {}
  <2>0. x \in Row /\ w \in Worker /\ y \in Row /\ v \in Worker /\ WorkerInv(x, w)
    BY <1>2 DEF TypeOK
  <2>1. y = x \/ y = Finished(x, "interrupted")
    BY <2>0 DEF Shutdown, ShutdownEnd, Crash
  <2>2. Kept(x, y, w.pending)
    BY <2>0, <2>1, ClosedKept, Unmoved DEF Terminal
  <2>3. Still \/ Idled
    <3>1. CASE Shutdown(p)
      <4> DEFINE c == Cancelled(w)
      <4>1. c \in Worker /\ c.ran = w.ran /\ c.todo = w.todo /\ c.batch = w.batch
            /\ c.pc = w.pc /\ c.pending = w.pending
        BY <2>0, CancelledType, CancelledFields
      <4> HIDE DEF c
      <4>2. v = w \/ v = [c EXCEPT !.waiter = "shutdown"]
        BY <3>1 DEF Shutdown, c
      <4> QED BY <4>1, <4>2 DEF Worker
    <3>2. CASE ShutdownEnd(p)
      <4>1. v = w \/ v = [w EXCEPT !.beat = FALSE, !.waiter = "idle"]
        BY <3>2 DEF ShutdownEnd
      <4> QED BY <4>1, <2>0 DEF Worker
    <3>3. CASE Crash(p)
      <4> DEFINE e == Ended(w, "gone")
      <4>1. e \in Worker /\ e.ran = w.ran /\ e.todo = {}
        BY <2>0, EndedType, EndedFields DEF Pc
      <4> HIDE DEF e
      <4>2. v = w \/ v = [e EXCEPT !.waiter = "idle"]
        BY <3>3 DEF Crash, e
      <4> QED BY <4>1, <4>2 DEF Worker
    <3> QED BY <3>1, <3>2, <3>3
  <2> QED BY <2>0, <2>2, <2>3, MoveKeeps DEF RunKept
<1>3. ASSUME NEW r \in Run, row[r] = NoRow PROVE row'[r] = row[r] /\ wk'[r] = wk[r]
  <2>1. ~Mine(p, r)
    BY <1>3, ConstantsAssumption DEF Mine, NoRow
  <2> QED BY <2>1, <1>3 DEF Shutdown, ShutdownEnd, Crash
<1> QED
  BY <1>1, <1>2, <1>3

(* All steps but a reservation, together.                                      *)
LEMMA StepKeeps ==
  ASSUME Inv, TypeOK',
         \/ UNCHANGED vars
         \/ \E r \in Run : RunStep(r)
         \/ \E p \in Proc : Shutdown(p) \/ ShutdownEnd(p) \/ Crash(p)
  PROVE  /\ created' = created
         /\ \A r \in Run : /\ RunKept(r)
                           /\ r > created => row'[r] = row[r] /\ wk'[r] = wk[r]
<1>0. TypeOK /\ \A r \in Run : WorkerInv(row[r], wk[r])
  BY DEF Inv
<1>a. \A r \in Run : r > created => row[r] = NoRow /\ wk[r] = NoWorker
  BY DEF Inv, PresenceInv
<1>s. \A r \in Run : row'[r] = row[r] /\ wk'[r] = wk[r] => RunKept(r)
  BY <1>0, Unmoved DEF RunKept
<1>1. CASE UNCHANGED vars
  BY <1>1, <1>s DEF vars
<1>2. ASSUME NEW r \in Run, RunStep(r)
      PROVE  /\ created' = created
             /\ \A q \in Run : /\ RunKept(q)
                               /\ q > created => row'[q] = row[q] /\ wk'[q] = wk[q]
  <2>1. RunKept(r) /\ OnlyRun(r)
    BY <1>0, <1>2, SourceKeeps, FinalizeKeeps, RequestKeeps DEF RunStep
  <2>2. ~(r > created)
    BY <1>a, <1>2, OnlyPresent
  <2> QED BY <2>1, <2>2, <1>s DEF OnlyRun
<1>3. ASSUME NEW p \in Proc, Shutdown(p) \/ ShutdownEnd(p) \/ Crash(p)
      PROVE  /\ created' = created
             /\ \A q \in Run : /\ RunKept(q)
                               /\ q > created => row'[q] = row[q] /\ wk'[q] = wk[q]
  BY <1>0, <1>a, <1>3, ProcessKeeps
<1> QED
  BY <1>1, <1>2, <1>3

-----------------------------------------------------------------------------
(* The parts of Inv that relate several runs.                                  *)

(* A continued run stays what it was: certain, closed, with the same calls.    *)
LEMMA ResumableKept ==
  ASSUME NEW x \in Row, NEW y, NEW p, Kept(x, y, p), CanResume(x)
  PROVE  CanResume(y) /\ Called(y) = Called(x)
<1>1. x.status \in {"interrupted", "failed", "stopped"} /\ Uncertain(x) = {}
  BY DEF CanResume
<1>2. y.status = x.status /\ y.log = x.log
  BY <1>1 DEF Kept
<1> QED
  BY <1>1, <1>2, SameLog DEF CanResume

LEMMA OtherStepInv ==
  ASSUME Inv, TypeOK', created' = created,
         \A r \in Run : /\ RunKept(r)
                        /\ r > created => row'[r] = row[r] /\ wk'[r] = wk[r]
  PROVE  Inv'
<1>0. TypeOK /\ \A r \in Run : row[r] \in Row /\ Kept(row[r], row'[r], wk[r].pending)
  BY DEF Inv, TypeOK, RunKept
<1>1. PresenceInv'
  <2>1. ASSUME NEW r \in Run, r <= created
        PROVE  row'[r].status # "absent" /\ row'[r].session \in Session
    BY <1>0, <2>1 DEF Kept, Inv, PresenceInv, Terminal
  <2> QED BY <2>1 DEF Inv, PresenceInv
<1>2. OneRunningPerSession'
  <2>1. \A r \in Run : /\ row'[r].session = row[r].session
                       /\ row'[r].status = "running" => row[r].status = "running"
    BY <1>0 DEF Kept, Terminal
  <2> QED BY <2>1 DEF Inv, OneRunningPerSession
<1>3. \A r \in Run : WorkerInv(row[r], wk[r])'
  BY DEF RunKept
<1>4. LineageInv'
  <2> SUFFICES ASSUME NEW r \in Run, NEW a \in row'[r].lineage
               PROVE  /\ a < r /\ row'[a].session = row'[r].session
                      /\ CanResume(row'[a])
                      /\ Called(row'[a]) \subseteq row'[r].carried
                      /\ row'[a].lineage \subseteq row'[r].lineage
    BY DEF LineageInv, CanResume, Uncertain, Called, Succeeded, With
  <2>1. a \in row[r].lineage /\ a \in Run
    BY <1>0 DEF Kept, Row
  <2>2. CanResume(row[a])
    BY <2>1 DEF Inv, LineageInv
  <2>3. CanResume(row'[a]) /\ Called(row'[a]) = Called(row[a])
    BY <1>0, <2>1, <2>2, ResumableKept
  <2>4. /\ row'[a].session = row[a].session /\ row'[r].session = row[r].session
        /\ row'[r].carried = row[r].carried
        /\ row'[a].lineage = row[a].lineage /\ row'[r].lineage = row[r].lineage
    BY <1>0, <2>1 DEF Kept
  <2> QED BY <2>1, <2>3, <2>4 DEF Inv, LineageInv
<1>5. LinearContinuation'
  BY <1>0 DEF Inv, LinearContinuation, Kept
<1> QED
  BY <1>1, <1>2, <1>3, <1>4, <1>5 DEF Inv

LEMMA ReserveInv ==
  ASSUME Inv, TypeOK', NEW p \in Proc, NEW s \in Session, NEW from \in {0} \cup Run,
         Reserve(p, s, from)
  PROVE  Inv'
<1> DEFINE new == created + 1
           prior == IF from = 0 THEN NoRow ELSE Expire(row[from])
           line == IF from = 0 THEN {} ELSE prior.lineage \cup {from}
           Others == Run \ {new}
<1>0. /\ TypeOK /\ new \in Run /\ created \in Nat /\ \A q \in Run : q \in Nat
      /\ wk' = wk /\ created' = new /\ s # None
  BY ConstantsAssumption DEF Inv, TypeOK, Reserve, Run
<1>n. row[new] = NoRow /\ wk[new] = NoWorker
  BY <1>0 DEF Inv, PresenceInv
<1>r. /\ row' \in [Run -> Row]
      /\ row' = [q \in Run |->
                    IF q = new
                    THEN [NoRow EXCEPT !.status = "running", !.owner = p, !.session = s,
                                       !.fresh = TRUE, !.carried = Carried(prior),
                                       !.lineage = line]
                    ELSE IF row[q].session = s THEN Expire(row[q]) ELSE row[q]]
  BY DEF Reserve, TypeOK
<1>1. /\ row'[new].status = "running" /\ row'[new].session = s /\ row'[new].log = <<>>
      /\ row'[new].carried = Carried(prior) /\ row'[new].lineage = line
  <2>1. row'[new] = [NoRow EXCEPT !.status = "running", !.owner = p, !.session = s,
                                  !.fresh = TRUE, !.carried = Carried(prior),
                                  !.lineage = line]
    BY <1>0, <1>r
  <2> HIDE DEF prior, line
  <2> QED BY <2>1 DEF NoRow
<1>2. \A q \in Others : row'[q] = IF row[q].session = s THEN Expire(row[q]) ELSE row[q]
  BY <1>r
<1>3. \A q \in Others : Kept(row[q], row'[q], wk[q].pending) /\ row'[q].log = row[q].log
  <2>1. \A q \in Run : row[q] \in Row
    BY <1>0 DEF TypeOK
  <2>2. \A q \in Run : Kept(row[q], Expire(row[q]), wk[q].pending)
    BY <2>1, ClosedKept DEF Terminal
  <2>3. \A q \in Run : Expire(row[q]).log = row[q].log
    BY <2>1 DEF Expire, Close, Row
  <2> QED BY <1>2, <2>2, <2>3, Unmoved
<1>4. \A q \in Others : row'[q].session = s => row'[q].status # "running"
  <2> SUFFICES ASSUME NEW q \in Others, row[q].session = s
               PROVE  Expire(row[q]).status # "running"
    BY <1>2, <1>3 DEF Kept
  <2>1. row[q].status = "running" => Lapsed(row[q])
    BY DEF Reserve, NoActive
  <2>2. row[q] \in Row
    BY <1>0 DEF TypeOK
  <2> QED BY <2>1, <2>2 DEF Expire, Close, Row, Lapsed
<1>5. ASSUME from # 0
      PROVE  /\ from \in Others /\ row[from].session = s /\ row'[from] = prior
             /\ CanResume(prior) /\ IsLatest(from, s) /\ from < new
             /\ row[from].lineage = prior.lineage /\ row[from].carried = prior.carried
  <2>1. from \in Run /\ prior = Expire(row[from]) /\ prior.session = s /\ CanResume(prior)
        /\ IsLatest(from, s) /\ row[from] \in Row
    BY <1>5, <1>0 DEF Reserve, TypeOK
  <2>2. Kept(row[from], prior, <<>>)
    BY <2>1, ClosedKept DEF Terminal
  <2>3. row[from].session = s /\ row[from].lineage = prior.lineage
        /\ row[from].carried = prior.carried
    BY <2>1, <2>2 DEF Kept
  <2>4. from # new
    BY <2>3, <1>n, <1>0 DEF NoRow
  <2>5. ~(from > created)
    BY <2>3, <2>1, <1>0 DEF Inv, PresenceInv, NoRow
  <2> QED BY <1>0, <1>2, <2>1, <2>3, <2>4, <2>5
<1> HIDE DEF prior
<1>6. PresenceInv'
  <2>1. ASSUME NEW r \in Run, r > new PROVE row'[r] = NoRow /\ wk'[r] = NoWorker
    <3>1. r \in Others /\ r > created
      BY <2>1, <1>0
    <3>2. row[r] = NoRow /\ wk[r] = NoWorker
      BY <3>1 DEF Inv, PresenceInv
    <3>3. row[r].session # s
      BY <3>2, <1>0 DEF NoRow
    <3> QED BY <3>1, <3>2, <3>3, <1>0, <1>2
  <2>2. ASSUME NEW r \in Run, r <= new
        PROVE  row'[r].status # "absent" /\ row'[r].session \in Session
    <3>1. CASE r = new
      BY <3>1, <1>1
    <3>2. CASE r # new
      <4>1. r \in Others /\ r <= created
        BY <3>2, <2>2, <1>0
      <4>2. row[r].status # "absent" /\ row[r].session \in Session
        BY <4>1 DEF Inv, PresenceInv
      <4> QED BY <4>1, <4>2, <1>3 DEF Kept, Terminal
    <3> QED BY <3>1, <3>2
  <2> QED BY <2>1, <2>2, <1>0 DEF PresenceInv
<1>7. OneRunningPerSession'
  <2> SUFFICES ASSUME NEW q \in Run, NEW r \in Run, row'[q].status = "running",
                      row'[r].status = "running", row'[q].session = row'[r].session
               PROVE  q = r
    BY DEF OneRunningPerSession
  <2>1. CASE q \in Others /\ r \in Others
    <3>1. \A o \in Others : /\ row'[o].session = row[o].session
                            /\ row'[o].status = "running" => row[o].status = "running"
      BY <1>3 DEF Kept, Terminal
    <3> QED BY <2>1, <3>1 DEF Inv, OneRunningPerSession
  <2>2. CASE q = new \/ r = new
    BY <2>2, <1>1, <1>4
  <2> QED BY <2>1, <2>2
<1>8. \A r \in Run : WorkerInv(row[r], wk[r])'
  <2> SUFFICES ASSUME NEW r \in Run PROVE WorkerInv(row'[r], wk[r])
    BY <1>0 DEF WorkerInv, Called, With, Announced
  <2>1. CASE r = new
    <3>1. wk[r].ran = {} /\ wk[r].todo = {} /\ wk[r].pc = "none" /\ wk[r].batch = FALSE
      BY <2>1, <1>n DEF NoWorker
    <3> QED BY <3>1 DEF WorkerInv
  <2>2. CASE r \in Others
    <3>1. Called(row'[r]) = Called(row[r]) /\ row'[r].carried = row[r].carried
      BY <2>2, <1>3, SameLog DEF Kept
    <3> QED BY <3>1 DEF WorkerInv, Inv
  <2> QED BY <2>1, <2>2
<1>9. \A q \in Others : /\ row[q] \in Row /\ row'[q].lineage = row[q].lineage
                        /\ row[q].lineage \subseteq Run
                        /\ row'[q].session = row[q].session
                        /\ row'[q].carried = row[q].carried
                        /\ Called(row'[q]) = Called(row[q])
                        /\ CanResume(row[q]) => CanResume(row'[q])
  BY <1>0, <1>3, SameLog, ResumableKept, ZenonT(40) DEF Kept, TypeOK, Row
<1>10. \A q \in Others : \A a \in row[q].lineage : a \in Others
  <2> SUFFICES ASSUME NEW q \in Others, NEW a \in row[q].lineage PROVE a # new
    BY <1>9
  <2>1. CanResume(row[a])
    BY DEF Inv, LineageInv
  <2> QED BY <2>1, <1>n DEF CanResume, NoRow
<1>11. \A a \in line : /\ a \in Others /\ a < new /\ row[a].session = s /\ CanResume(row'[a])
                       /\ Called(row'[a]) \subseteq Carried(prior)
                       /\ row[a].lineage \subseteq line
  <2> SUFFICES ASSUME NEW a \in line
               PROVE  /\ a \in Others /\ a < new /\ row[a].session = s
                      /\ CanResume(row'[a])
                      /\ Called(row'[a]) \subseteq Carried(prior)
                      /\ row[a].lineage \subseteq line
    OBVIOUS
  <2>1. from # 0 /\ line = prior.lineage \cup {from}
    OBVIOUS
  <2>2. CASE a = from
    <3>1. Called(prior) \subseteq Succeeded(prior)
      BY <1>5, <2>1 DEF CanResume, Uncertain
    <3> QED BY <1>5, <2>1, <2>2, <3>1 DEF Carried
  <2>3. CASE a \in prior.lineage
    <3>1. a \in row[from].lineage /\ from \in Others /\ from < new
      BY <1>5, <2>1, <2>3
    <3>2. /\ a < from /\ row[a].session = s /\ CanResume(row[a])
          /\ Called(row[a]) \subseteq prior.carried
          /\ row[a].lineage \subseteq prior.lineage
      BY <1>5, <2>1, <3>1 DEF Inv, LineageInv
    <3>3. a \in Others
      BY <3>1, <1>10
    <3>4. a < new
      BY <3>1, <3>2, <3>3, <1>0
    <3> QED BY <2>1, <3>2, <3>3, <3>4, <1>9 DEF Carried
  <2> QED BY <2>1, <2>2, <2>3
<1>12. LineageInv'
  <2> SUFFICES ASSUME NEW r \in Run, NEW a \in row'[r].lineage
               PROVE  /\ a < r /\ row'[a].session = row'[r].session
                      /\ CanResume(row'[a])
                      /\ Called(row'[a]) \subseteq row'[r].carried
                      /\ row'[a].lineage \subseteq row'[r].lineage
    BY DEF LineageInv, CanResume, Uncertain, Called, Succeeded, With
  <2>1. CASE r = new
    BY <2>1, <1>1, <1>9, <1>11, ZenonT(40)
  <2>2. CASE r \in Others
    BY <2>2, <1>9, <1>10 DEF Inv, LineageInv
  <2> QED BY <2>1, <2>2
<1>13. LinearContinuation'
  <2> SUFFICES ASSUME NEW q \in Run, NEW r \in Run, q < r,
                      NEW a \in row'[q].lineage \cap row'[r].lineage
               PROVE  q \in row'[r].lineage
    BY DEF LinearContinuation
  <2>1. CASE q \in Others /\ r \in Others
    BY <2>1, <1>9 DEF Inv, LinearContinuation
  <2>2. CASE r = new
    <3>1. q \in Others /\ a \in row[q].lineage /\ a \in line
      BY <2>2, <1>0, <1>1, <1>9
    <3>2. row[q].session = s /\ a < q /\ from # 0
      BY <3>1, <1>11 DEF Inv, LineageInv
    <3>3. q <= from
      BY <3>1, <3>2, <1>5 DEF IsLatest
    <3>4. CASE q = from
      BY <3>2, <3>4, <2>2, <1>1
    <3>5. CASE q # from
      <4>1. q < from /\ from \in Others
        BY <3>2, <3>3, <3>5, <1>5, <1>0
      <4>2. a # from /\ a \in Run
        BY <3>2, <4>1, <1>0, <3>1, <1>11
      <4>3. a \in row[from].lineage
        BY <3>1, <3>2, <4>2, <1>5
      <4>4. q \in row[from].lineage
        BY <3>1, <4>1, <4>3 DEF Inv, LinearContinuation
      <4> QED BY <4>4, <3>2, <2>2, <1>1, <1>5
    <3> QED BY <3>4, <3>5
  <2>3. CASE q = new
    <3>1. r \in Others /\ r > created
      <4>1. r \in Nat /\ created \in Nat /\ created + 1 < r
        BY <2>3, <1>0
      <4> QED BY <4>1
    <3>2. row[r] = NoRow
      BY <3>1 DEF Inv, PresenceInv
    <3> QED BY <3>1, <3>2, <1>9 DEF NoRow
  <2> QED BY <2>1, <2>2, <2>3
<1> QED
  BY <1>6, <1>7, <1>8, <1>12, <1>13 DEF Inv

-----------------------------------------------------------------------------
(* Inv is inductive, and what it implies.                                      *)
LEMMA InvStep == Inv /\ [Next]_vars => Inv'
<1> SUFFICES ASSUME Inv, [Next]_vars PROVE Inv'
  OBVIOUS
<1>1. TypeOK'
  BY TypeStep DEF Inv
<1>2. ASSUME NEW p \in Proc, NEW s \in Session, NEW from \in {0} \cup Run, Reserve(p, s, from)
      PROVE  Inv'
  BY <1>1, <1>2, ReserveInv
<1>3. CASE \/ UNCHANGED vars
           \/ \E r \in Run : RunStep(r)
           \/ \E p \in Proc : Shutdown(p) \/ ShutdownEnd(p) \/ Crash(p)
  BY <1>1, <1>3, StepKeeps, OtherStepInv
<1> QED
  BY <1>2, <1>3 DEF Next

LEMMA InvInit == Init => Inv
<1> SUFFICES ASSUME Init PROVE Inv
  OBVIOUS
<1>1. TypeOK
  BY NoRowType, NoWorkerType, ConstantsAssumption DEF Init, TypeOK
<1>2. /\ created = 0
      /\ \A r \in Run : /\ row[r] = NoRow /\ wk[r] = NoWorker /\ r > created /\ ~(r <= created)
                        /\ row[r].status = "absent" /\ row[r].lineage = {}
                        /\ wk[r].ran = {} /\ wk[r].todo = {} /\ wk[r].pc = "none"
                        /\ wk[r].batch = FALSE
  BY DEF Init, NoRow, NoWorker, Run
<1>3. \A r \in Run : WorkerInv(row[r], wk[r])
  BY <1>2 DEF WorkerInv
<1> QED
  BY <1>1, <1>2, <1>3
  DEF Inv, PresenceInv, OneRunningPerSession, LineageInv, LinearContinuation

THEOREM Invariance == Spec => []Inv
  BY InvInit, InvStep, PTL DEF Spec

(* One running task per session, for any number of runs, stops and expiries.   *)
THEOREM OneRunning == Spec => []OneRunningPerSession
<1>1. Inv => OneRunningPerSession
  BY DEF Inv
<1> QED
  BY <1>1, Invariance, PTL

(* Double clicks and retries cannot fork a chain of continuations.             *)
THEOREM Linear == Spec => []LinearContinuation
<1>1. Inv => LinearContinuation
  BY DEF Inv
<1> QED
  BY <1>1, Invariance, PTL

(* No tool call is executed twice along a chain of continuations, also when an *)
(* old worker that lost its lease goes on after its run was continued: what it *)
(* may still execute is in its log, hence carried over with its result.        *)
THEOREM NoCallTwice == Spec => []NoReexecution
<1>1. ASSUME Inv PROVE NoReexecution
  <2> SUFFICES ASSUME NEW r \in Run, NEW a \in row[r].lineage
               PROVE  wk[r].ran \cap wk[a].ran = {}
    BY DEF NoReexecution
  <2>1. a \in Run
    BY <1>1 DEF Inv, TypeOK, Row
  <2>2. wk[a].ran \subseteq Called(row[a]) /\ wk[r].ran \cap row[r].carried = {}
    BY <1>1, <2>1 DEF Inv, WorkerInv
  <2>3. Called(row[a]) \subseteq row[r].carried
    BY <1>1 DEF Inv, LineageInv
  <2> QED BY <2>2, <2>3
<1> QED
  BY <1>1, Invariance, PTL

(* What is offered for resumption has a durable successful result for all that *)
(* was executed.                                                               *)
THEOREM Certain == Spec => []ResumableIsCertain
<1>1. ASSUME Inv PROVE ResumableIsCertain
  BY <1>1 DEF ResumableIsCertain, Inv, WorkerInv, CanResume, Uncertain
<1> QED
  BY <1>1, Invariance, PTL

(* No step, by whichever process, changes the outcome or the log of a run that *)
(* has ended.                                                                  *)
THEOREM Final == Spec => TerminalIsFinal
<1>1. ASSUME Inv, Inv', [Next]_vars PROVE [\A r \in Run : Frozen(r)]_vars
  <2>0. \A r \in Run : row[r] \in Row
    BY <1>1 DEF Inv, TypeOK
  <2>1. ASSUME NEW p \in Proc, NEW s \in Session, NEW from \in {0} \cup Run,
               Reserve(p, s, from), NEW r \in Run
        PROVE  Frozen(r)
    <3>1. CASE r = created + 1
      <4>1. row[r] = NoRow
        BY <1>1, <3>1 DEF Inv, PresenceInv, TypeOK
      <4> QED BY <4>1 DEF Frozen, NoRow, Terminal
    <3>2. CASE r # created + 1
      <4>1. row'[r] = row[r] \/ row'[r] = Expire(row[r])
        BY <2>1, <3>2 DEF Reserve
      <4>2. Kept(row[r], row'[r], <<>>)
        BY <2>0, <4>1, ClosedKept, Unmoved DEF Terminal
      <4> QED BY <4>2 DEF Frozen, Kept, Terminal
    <3> QED BY <3>1, <3>2
  <2>2. ASSUME \/ UNCHANGED vars
               \/ \E r \in Run : RunStep(r)
               \/ \E p \in Proc : Shutdown(p) \/ ShutdownEnd(p) \/ Crash(p)
        PROVE  \A r \in Run : Frozen(r)
    <3>1. \A r \in Run : Kept(row[r], row'[r], wk[r].pending)
      BY <1>1, <2>2, StepKeeps DEF Inv, RunKept
    <3> QED BY <3>1 DEF Frozen, Kept, Terminal
  <2> QED BY <1>1, <2>1, <2>2 DEF Next
<1> QED
  BY <1>1, Invariance, PTL DEF Spec, TerminalIsFinal


-----------------------------------------------------------------------------
(* The log, and the ledger it keeps.  What the event log of a run tells of its *)
(* worker, for every value of the constants: LogIsWhole needs a second         *)
(* inductive invariant, which relates the events stored, those the worker      *)
(* still holds and the counter it numbers them with.  Then ChatRuns implements *)
(* RunLedger, step by step.                                                    *)
OnRecord(x)  == {x.log[i] : i \in DOMAIN x.log}
Waiting(w) == {w.pending[i] : i \in DOMAIN w.pending}
Nums(S)    == {e.n : e \in S}
Marked(S, kind) == {k \in Call : \E e \in S : e.kind = kind /\ e.call = k}
Over(S)    == \E e \in S : e.kind = "done"

(* What a log says by itself, whatever became of its worker.                   *)
RowTells(x) ==
    /\ \A n \in Nums(OnRecord(x)) : 1 .. n \subseteq Nums(OnRecord(x))
    /\ Over(OnRecord(x)) => Marked(OnRecord(x), "call")
                              \subseteq Marked(OnRecord(x), "ok") \cup Marked(OnRecord(x), "err")
    /\ x.status = "completed" => Over(OnRecord(x))

(* The events the worker holds follow those stored, or were stored by a commit *)
(* whose answer it has not seen.                                               *)
Fresh(x, w)  == \E m \in 0 .. w.n : /\ Nums(Waiting(w)) = (m + 1) .. w.n
                                    /\ Nums(OnRecord(x)) = 1 .. m
Landed(x, w) == Waiting(w) \subseteq OnRecord(x) /\ Nums(OnRecord(x)) = 1 .. w.n

(* As long as its worker lives, the log and what it holds are all it pulled.   *)
WorkTells(x, w) ==
    LET all == OnRecord(x) \cup Waiting(w)
    IN /\ Fresh(x, w) \/ (Landed(x, w) /\ w.pc \notin {"none", "spawned", "pull", "append"})
       /\ w.pc = "close" => Landed(x, w)
       /\ w.pc \in {"append", "close"} => w.pending # <<>>
       /\ Marked(all, "call") \subseteq w.todo \cup Marked(all, "ok") \cup Marked(all, "err")
       /\ Over(all) => w.todo = {} /\ w.src # "open"
       /\ w.outcome = "completed" => Over(OnRecord(x))

Tells(x, w) == RowTells(x) /\ (w.pc \notin {"gone", "cancelled"} => WorkTells(x, w))
LogInv == \A r \in Run : Tells(row[r], wk[r])

-----------------------------------------------------------------------------
(* Sets of events.                                                             *)
LEMMA NumsOf ==
  /\ \A S, T : Nums(S \cup T) = Nums(S) \cup Nums(T)
  /\ \A e : Nums({e}) = {e.n}
  /\ Nums({}) = {}
  BY DEF Nums

LEMMA MarkedOf ==
  ASSUME NEW S, NEW T, NEW kind, S \subseteq T
  PROVE  Marked(S, kind) \subseteq Marked(T, kind) /\ (Over(S) => Over(T))
  BY DEF Marked, Over

(* What is read off a row is read off the set of its events.                   *)
LEMMA ReadOff ==
  ASSUME NEW x
  PROVE  /\ Called(x) = Marked(OnRecord(x), "call") /\ Succeeded(x) = Marked(OnRecord(x), "ok")
         /\ With(x, "err") = Marked(OnRecord(x), "err")
         /\ DoneLogged(x) <=> Over(OnRecord(x))
         /\ {x.log[i].n : i \in DOMAIN x.log} = Nums(OnRecord(x))
  BY DEF Called, Succeeded, With, Marked, OnRecord, DoneLogged, Over, Nums

LEMMA StoredMore ==
  ASSUME NEW x \in Row, NEW w \in Worker, NEW y, y.log = x.log \o w.pending
  PROVE  OnRecord(y) = OnRecord(x) \cup Waiting(w)
<1> DEFINE s == x.log
           p == w.pending
           t == y.log
<1>1. s \in Seq(Event) /\ p \in Seq(Event) /\ t = s \o p
  BY DEF Row, Worker
<1> HIDE DEF s, p, t
<1>2. /\ Len(s) \in Nat /\ Len(p) \in Nat
      /\ DOMAIN s = 1 .. Len(s) /\ DOMAIN p = 1 .. Len(p)
      /\ DOMAIN t = 1 .. Len(s) + Len(p)
      /\ \A i \in 1 .. Len(s) : t[i] = s[i]
      /\ \A i \in 1 .. Len(p) : t[Len(s) + i] = p[i]
  BY <1>1, ConcatIndex
<1>3. ASSUME NEW i \in DOMAIN t
      PROVE  (\E j \in DOMAIN s : t[i] = s[j]) \/ (\E j \in DOMAIN p : t[i] = p[j])
  <2>1. CASE i <= Len(s)
    BY <1>2, <2>1
  <2>2. CASE ~(i <= Len(s))
    <3>1. i - Len(s) \in DOMAIN p /\ Len(s) + (i - Len(s)) = i
      BY <1>2, <2>2
    <3> QED BY <1>2, <3>1
  <2> QED BY <2>1, <2>2
<1>4. \A j \in DOMAIN s : \E i \in DOMAIN t : t[i] = s[j]
  BY <1>2
<1>5. ASSUME NEW j \in DOMAIN p PROVE \E i \in DOMAIN t : t[i] = p[j]
  <2>1. Len(s) + j \in DOMAIN t
    BY <1>2
  <2> QED BY <1>2, <2>1
<1>6. {t[i] : i \in DOMAIN t} = {s[i] : i \in DOMAIN s} \cup {p[i] : i \in DOMAIN p}
  BY <1>3, <1>4, <1>5
<1> QED
  BY <1>6 DEF OnRecord, Waiting, s, p, t

LEMMA WaitingMore ==
  ASSUME NEW w \in Worker, NEW v, NEW e \in Event, v.pending = Append(w.pending, e)
  PROVE  Waiting(v) = Waiting(w) \cup {e} /\ v.pending # <<>>
<1> DEFINE p == w.pending
           t == v.pending
<1>1. p \in Seq(Event) /\ t = Append(p, e)
  BY DEF Worker
<1> HIDE DEF p, t
<1>2. /\ Len(p) \in Nat /\ DOMAIN p = 1 .. Len(p) /\ DOMAIN t = 1 .. Len(p) + 1
      /\ \A i \in 1 .. Len(p) : t[i] = p[i]
      /\ t[Len(p) + 1] = e
      /\ Len(t) = Len(p) + 1
  BY <1>1
<1>3. {t[i] : i \in DOMAIN t} = {p[i] : i \in DOMAIN p} \cup {e}
  BY <1>2
<1>4. t # <<>>
  BY <1>2
<1> QED
  BY <1>3, <1>4 DEF Waiting, p, t

LEMMA SameEvents ==
  /\ \A x, y : y.log = x.log => OnRecord(y) = OnRecord(x)
  /\ \A v, w : v.pending = w.pending => Waiting(v) = Waiting(w)
  /\ \A w : w.pending = <<>> => Waiting(w) = {}
  BY DEF OnRecord, Waiting

-----------------------------------------------------------------------------
(* The five things a step does to a log and to the worker behind it.           *)

(* The log is left alone; the run may end, as completed only after its answer. *)
LEMMA RowSame ==
  ASSUME NEW x, NEW y, RowTells(x), y.log = x.log,
         y.status = "completed" => x.status = "completed" \/ Over(OnRecord(x))
  PROVE  RowTells(y)
<1>1. OnRecord(y) = OnRecord(x)
  BY SameEvents
<1> QED
  BY <1>1 DEF RowTells

(* A commit adds what the worker holds: it was all, or was there already.      *)
LEMMA Committed ==
  ASSUME NEW x \in Row, NEW w \in Worker, NEW y, WorkTells(x, w),
         y.log = x.log \o w.pending
  PROVE  /\ OnRecord(y) = OnRecord(x) \cup Waiting(w)
         /\ Landed(y, w)
<1>1. OnRecord(y) = OnRecord(x) \cup Waiting(w)
  BY StoredMore
<1>2. Nums(OnRecord(y)) = Nums(OnRecord(x)) \cup Nums(Waiting(w)) /\ w.n \in Nat
  <2>1. Nums(OnRecord(x) \cup Waiting(w)) = Nums(OnRecord(x)) \cup Nums(Waiting(w))
    BY NumsOf
  <2> QED BY <1>1, <2>1 DEF Worker
<1>3. CASE Fresh(x, w)
  <2>1. PICK m \in 0 .. w.n : Nums(Waiting(w)) = (m + 1) .. w.n /\ Nums(OnRecord(x)) = 1 .. m
    BY <1>3 DEF Fresh
  <2>2. 1 .. m \cup (m + 1) .. w.n = 1 .. w.n
    BY <1>2
  <2> QED BY <1>1, <1>2, <2>1, <2>2 DEF Landed
<1>4. CASE Landed(x, w)
  <2>1. OnRecord(y) = OnRecord(x)
    BY <1>1, <1>4 DEF Landed
  <2> QED BY <2>1, <1>4 DEF Landed
<1> QED
  BY <1>1, <1>3, <1>4 DEF WorkTells

LEMMA RowGrows ==
  ASSUME NEW x \in Row, NEW w \in Worker, NEW y, RowTells(x), WorkTells(x, w),
         y.log = x.log \o w.pending, y.status = x.status
  PROVE  RowTells(y)
<1>1. OnRecord(y) = OnRecord(x) \cup Waiting(w) /\ Nums(OnRecord(y)) = 1 .. w.n /\ w.n \in Nat
  BY Committed DEF Landed, Worker
<1>2. \A n \in 1 .. w.n : 1 .. n \subseteq 1 .. w.n
  BY <1>1
<1>3. Over(OnRecord(y)) => Marked(OnRecord(y), "call")
                              \subseteq Marked(OnRecord(y), "ok") \cup Marked(OnRecord(y), "err")
  BY <1>1 DEF WorkTells
<1>4. Over(OnRecord(x)) => Over(OnRecord(y))
  BY <1>1, MarkedOf
<1> QED
  BY <1>1, <1>2, <1>3, <1>4 DEF RowTells

(* The worker moves on and holds what it held.                                 *)
LEMMA WorkStill ==
  ASSUME NEW x, NEW y, NEW w, NEW v, WorkTells(x, w), y.log = x.log,
         v.n = w.n, v.pending = w.pending, v.todo = w.todo,
         v.src = w.src \/ v.src # "open",
         v.outcome = w.outcome \/ v.outcome # "completed",
         \/ v.pc = w.pc
         \/ v.pc \in {"drain", "leftover", "check", "finish"}
         \/ /\ w.pc \in {"none", "spawned", "pull"}
            /\ v.pc \in {"spawned", "pull"} \/ (v.pc = "append" /\ v.pending # <<>>)
  PROVE  WorkTells(y, v)
<1>1. OnRecord(y) = OnRecord(x) /\ Waiting(v) = Waiting(w)
  BY SameEvents
<1>2. (Fresh(x, w) => Fresh(y, v)) /\ (Landed(x, w) => Landed(y, v))
  BY <1>1 DEF Fresh, Landed
<1> QED
  BY <1>1, <1>2 DEF WorkTells

(* The worker's commit reaches the server; it may not hear of it.              *)
LEMMA WorkLands ==
  ASSUME NEW x \in Row, NEW y, NEW w \in Worker, NEW v, WorkTells(x, w),
         y.log = x.log \o w.pending,
         v.n = w.n, v.pending = w.pending, v.todo = w.todo, v.src = w.src,
         v.outcome = w.outcome \/ v.outcome # "completed",
         \/ v.pc \in {"drain", "leftover", "check", "finish"}
         \/ w.pc = "append" /\ v.pc = "close"
  PROVE  WorkTells(y, v)
<1>1. OnRecord(y) = OnRecord(x) \cup Waiting(w) /\ Landed(y, w) /\ Waiting(v) = Waiting(w)
  BY Committed, SameEvents
<1>2. Landed(y, v)
  BY <1>1 DEF Landed
<1>3. OnRecord(y) \cup Waiting(v) = OnRecord(x) \cup Waiting(w)
  BY <1>1
<1>4. Over(OnRecord(x)) => Over(OnRecord(y))
  BY <1>1, MarkedOf
<1> QED
  BY <1>2, <1>3, <1>4 DEF WorkTells

(* The source gives the next event.                                            *)
LEMMA WorkEmits ==
  ASSUME NEW x, NEW y, NEW w \in Worker, NEW v, WorkTells(x, w), y.log = x.log,
         NEW kind \in Kind, NEW k \in Call \cup {None},
         v.n = w.n + 1,
         v.pending = Append(w.pending, [n |-> w.n + 1, kind |-> kind, call |-> k]),
         v.outcome = w.outcome, w.pc = "pull", v.pc \in {"pull", "append"},
         w.src # "open" => v.src # "open" /\ v.todo = w.todo,
         w.todo \ v.todo \subseteq {j \in Call : j = k /\ kind \in {"ok", "err"}},
         kind = "call" /\ k \in Call => k \in v.todo,
         kind = "done" => v.src # "open" /\ v.todo = {}
  PROVE  WorkTells(y, v)
<1> DEFINE e == [n |-> w.n + 1, kind |-> kind, call |-> k]
           old == OnRecord(x) \cup Waiting(w)
           all == OnRecord(y) \cup Waiting(v)
<1>0. w.n \in Nat /\ e \in Event /\ e.n = w.n + 1 /\ e.kind = kind /\ e.call = k
  BY DEF Worker, Event
<1> HIDE DEF e
<1>1. OnRecord(y) = OnRecord(x) /\ Waiting(v) = Waiting(w) \cup {e} /\ v.pending # <<>>
  <2>1. OnRecord(y) = OnRecord(x)
    BY SameEvents
  <2>2. v.pending = Append(w.pending, e)
    BY DEF e
  <2>3. Waiting(v) = Waiting(w) \cup {e} /\ v.pending # <<>>
    BY <1>0, <2>2, WaitingMore
  <2> QED BY <2>1, <2>3
<1>2. all = old \cup {e}
  BY <1>1
<1>3. Fresh(y, v)
  <2>1. Fresh(x, w)
    BY DEF WorkTells
  <2>2. PICK m \in 0 .. w.n : Nums(Waiting(w)) = (m + 1) .. w.n /\ Nums(OnRecord(x)) = 1 .. m
    BY <2>1 DEF Fresh
  <2>3. Nums(Waiting(v)) = (m + 1) .. w.n \cup {w.n + 1}
    <3>1. Nums(Waiting(w) \cup {e}) = Nums(Waiting(w)) \cup Nums({e}) /\ Nums({e}) = {e.n}
      BY NumsOf
    <3> QED BY <1>0, <1>1, <2>2, <3>1
  <2>4. (m + 1) .. w.n \cup {w.n + 1} = (m + 1) .. w.n + 1 /\ m \in 0 .. w.n + 1
    BY <1>0
  <2> QED BY <1>1, <2>2, <2>3, <2>4 DEF Fresh
<1> HIDE DEF old, all
<1>4. Marked(old, "call") \subseteq w.todo \cup Marked(old, "ok") \cup Marked(old, "err")
  BY DEF WorkTells, old
<1>5. Marked(all, "call") \subseteq v.todo \cup Marked(all, "ok") \cup Marked(all, "err")
  <2>1. Marked(all, "call") \subseteq Marked(old, "call")
                                        \cup {j \in Call : j = k /\ kind = "call"}
    BY <1>0, <1>2 DEF Marked
  <2>2. {j \in Call : j = k /\ kind \in {"ok", "err"}}
            \subseteq Marked(all, "ok") \cup Marked(all, "err")
    BY <1>0, <1>2 DEF Marked
  <2>3. Marked(old, "ok") \subseteq Marked(all, "ok")
        /\ Marked(old, "err") \subseteq Marked(all, "err")
    BY <1>2, MarkedOf
  <2> QED BY <1>4, <2>1, <2>2, <2>3
<1>6. Over(all) => v.todo = {} /\ v.src # "open"
  <2>1. Over(all) => Over(old) \/ kind = "done"
    BY <1>0, <1>2 DEF Over
  <2>2. Over(old) => w.todo = {} /\ w.src # "open"
    BY DEF WorkTells, old
  <2> QED BY <2>1, <2>2
<1>7. v.outcome = "completed" => Over(OnRecord(y))
  BY <1>1 DEF WorkTells
<1> QED
  BY <1>1, <1>3, <1>5, <1>6, <1>7 DEF WorkTells, all

(* append() has returned: what was held is stored, and done is an answer.      *)
LEMMA WorkClears ==
  ASSUME NEW x, NEW w \in Worker, NEW v, WorkTells(x, w), w.pc = "close",
         v.n = w.n, v.pending = <<>>, v.todo = w.todo, v.src = w.src,
         v.outcome = OutcomeAfter(w), v.pc \in {"pull", "drain"}
  PROVE  WorkTells(x, v)
<1>1. Waiting(v) = {} /\ w.n \in Nat /\ w.pending \in Seq(Event)
  BY SameEvents DEF Worker
<1>2. Waiting(w) \subseteq OnRecord(x) /\ Nums(OnRecord(x)) = 1 .. w.n /\ w.pending # <<>>
  BY DEF WorkTells, Landed
<1>3. OnRecord(x) \cup Waiting(v) = OnRecord(x) \cup Waiting(w)
  BY <1>1, <1>2
<1>4. Fresh(x, v)
  <2>1. w.n \in 0 .. v.n /\ {} = (w.n + 1) .. v.n
    BY <1>1
  <2> QED BY <1>1, <1>2, <2>1, NumsOf DEF Fresh
<1>5. v.outcome = "completed" => Over(OnRecord(x))
  <2>1. Len(w.pending) \in DOMAIN w.pending
    BY <1>1, <1>2, EmptySeq, LenProperties
  <2>2. w.pending[Len(w.pending)] \in Waiting(w)
    BY <2>1 DEF Waiting
  <2>3. LastKind(w) = "done" => Over(OnRecord(x))
    BY <1>2, <2>2 DEF LastKind, Over
  <2> QED BY <2>3 DEF OutcomeAfter, WorkTells
<1> QED
  BY <1>3, <1>4, <1>5 DEF WorkTells

-----------------------------------------------------------------------------
(* Every action, for the run it is about.                                      *)

LEMMA LogSource ==
  ASSUME TypeOK, TypeOK', NEW r \in Run, Tells(row[r], wk[r]), Source(r)
  PROVE  Tells(row'[r], wk'[r])
<1> DEFINE w == wk[r]
           x == row[r]
           v == wk'[r]
           y == row'[r]
<1>0. x \in Row /\ w \in Worker /\ y \in Row /\ v \in Worker
  BY DEF TypeOK
<1>s. \A shown : LET z == [x EXCEPT !.shown = shown] IN
                 z.log = x.log /\ z.status = x.status
  BY <1>0 DEF Row
<1>e. ASSUME NEW kind \in Kind, NEW k \in Call \cup {None}
      PROVE  LET e == Emitted(w, kind, k) IN
             /\ e.n = w.n + 1 /\ e.todo = w.todo /\ e.outcome = w.outcome
             /\ e.src = w.src /\ e \in Worker
             /\ e.pending = Append(w.pending, [n |-> w.n + 1, kind |-> kind, call |-> k])
  <2>1. Emitted(w, kind, k) \in Worker
    BY <1>0, EmittedType
  <2> DEFINE p == Append(w.pending, [n |-> w.n + 1, kind |-> kind, call |-> k])
             m == w.n + 1
  <2>2. Emitted(w, kind, k) = [w EXCEPT !.n = m, !.pending = p]
    BY DEF Emitted
  <2> HIDE DEF p, m
  <2>3. LET e == Emitted(w, kind, k) IN
        /\ e.n = m /\ e.todo = w.todo /\ e.outcome = w.outcome
        /\ e.src = w.src /\ e.pending = p
    BY <1>0, <2>2 DEF Worker
  <2> QED BY <2>1, <2>3 DEF p, m
<1>p. Pulling(r) \/ PullEnd(r) => w.pc = "pull" /\ RowTells(x) /\ WorkTells(x, w)
  BY DEF Pulling, PullEnd, Tells
<1>1. CASE PullText(r)
  <2> DEFINE e == Emitted(w, "text", None)
  <2>1. PICK pc \in {"pull", "append"} : v = [e EXCEPT !.pc = pc]
    BY <1>1, <1>0 DEF PullText, TypeOK
  <2>2. /\ e \in Worker /\ e.n = w.n + 1 /\ e.todo = w.todo /\ e.outcome = w.outcome
        /\ e.src = w.src
        /\ e.pending = Append(w.pending, [n |-> w.n + 1, kind |-> "text", call |-> None])
    BY <1>e DEF Kind
  <2> HIDE DEF e
  <2>3. /\ v.n = e.n /\ v.todo = e.todo /\ v.outcome = e.outcome /\ v.src = e.src
        /\ v.pending = e.pending /\ v.pc \in {"pull", "append"}
    BY <2>1, <2>2 DEF Worker
  <2>4. y = x /\ WorkTells(x, w) /\ RowTells(x) /\ w.pc = "pull" /\ w.src = "open"
    BY <1>1, <1>p DEF PullText, Pulling
  <2>5. "text" \in Kind
    BY DEF Kind
  <2>6. WorkTells(y, v)
    BY <1>0, <2>2, <2>3, <2>4, <2>5, WorkEmits
  <2> QED BY <2>4, <2>6 DEF Tells
<1>2. CASE PullDone(r) \/ PullTitle(r) \/ PullError(r)
  <2>1. PICK kind \in {"done", "title", "error"}, src \in {"done", "tail"} :
           /\ v = [Emitted(w, kind, None) EXCEPT !.pc = "append", !.src = src]
           /\ kind = "done" => w.todo = {}
    BY <1>2, <1>0 DEF PullDone, PullTitle, PullError, TypeOK
  <2> DEFINE e == Emitted(w, kind, None)
  <2>k. kind \in Kind
    BY DEF Kind
  <2>2. /\ e \in Worker /\ e.n = w.n + 1 /\ e.todo = w.todo /\ e.outcome = w.outcome
        /\ e.src = w.src
        /\ e.pending = Append(w.pending, [n |-> w.n + 1, kind |-> kind, call |-> None])
    BY <1>e, <2>k
  <2> HIDE DEF e
  <2>3. /\ v.n = e.n /\ v.todo = e.todo /\ v.outcome = e.outcome /\ v.src = src
        /\ v.pending = e.pending /\ v.pc = "append"
    BY <2>1, <2>2 DEF Worker, e
  <2>4. /\ y.log = x.log /\ y.status = x.status /\ WorkTells(x, w) /\ RowTells(x)
        /\ w.pc = "pull"
    <3>1. Pulling(r) /\ (y = x \/ y = [x EXCEPT !.shown = {}])
      BY <1>2, <1>0 DEF PullDone, PullTitle, PullError, TypeOK
    <3> QED BY <3>1, <1>p, <1>s
  <2>5. RowTells(y)
    BY <2>4, RowSame
  <2>6. /\ v.todo = w.todo /\ v.src # "open" /\ v.n = w.n + 1 /\ v.outcome = w.outcome
        /\ v.pending = Append(w.pending, [n |-> w.n + 1, kind |-> kind, call |-> None])
        /\ kind = "done" => v.todo = {}
        /\ kind # "call"
    BY <2>1, <2>2, <2>3
  <2>7. WorkTells(y, v)
    BY <1>0, <2>3, <2>4, <2>6, <2>k, WorkEmits, ZenonT(40)
  <2> QED BY <2>5, <2>7 DEF Tells
<1>3. CASE PullEnd(r)
  <2>1. /\ v.n = w.n /\ v.pending = w.pending /\ v.todo = w.todo /\ v.src = "end"
        /\ v.outcome = w.outcome
        /\ v.pc = "drain" \/ (v.pc = "append" /\ v.pending # <<>>)
    BY <1>3, <1>0 DEF PullEnd, Worker, TypeOK
  <2>2. /\ y.log = x.log /\ y.status = x.status /\ WorkTells(x, w) /\ RowTells(x)
        /\ w.pc = "pull"
    BY <1>3, <1>0, <1>p, <1>s DEF PullEnd, TypeOK
  <2>3. RowTells(y)
    BY <2>2, RowSame
  <2>4. WorkTells(y, v)
    BY <2>1, <2>2, WorkStill
  <2> QED BY <2>3, <2>4 DEF Tells
<1>4. ASSUME NEW k \in Call, PullCall(r, k) PROVE Tells(y, v)
  <2> DEFINE e == Emitted(w, "call", k)
  <2>1. v = [e EXCEPT !.pc = "append", !.todo = @ \cup {k}]
    BY <1>4, <1>0 DEF PullCall, TypeOK
  <2>k. "call" \in Kind
    BY DEF Kind
  <2>2. /\ e \in Worker /\ e.n = w.n + 1 /\ e.todo = w.todo /\ e.outcome = w.outcome
        /\ e.src = w.src
        /\ e.pending = Append(w.pending, [n |-> w.n + 1, kind |-> "call", call |-> k])
    BY <1>e, <2>k
  <2> HIDE DEF e
  <2>3. /\ v.n = e.n /\ v.todo = e.todo \cup {k} /\ v.outcome = e.outcome /\ v.src = e.src
        /\ v.pending = e.pending /\ v.pc = "append"
    BY <2>1, <2>2 DEF Worker
  <2>4. /\ y.log = x.log /\ y.status = x.status /\ WorkTells(x, w) /\ RowTells(x)
        /\ w.pc = "pull" /\ w.src = "open"
    BY <1>4, <1>0, <1>p, <1>s DEF PullCall, Pulling, TypeOK
  <2>5. RowTells(y)
    BY <2>4, RowSame
  <2>6. WorkTells(y, v)
    BY <1>0, <2>2, <2>3, <2>4, <2>k, WorkEmits, ZenonT(40)
  <2> QED BY <2>5, <2>6 DEF Tells
<1>5. ASSUME NEW k \in Call, Execute(r, k) PROVE Tells(y, v)
  <2>1. /\ v.n = w.n /\ v.pending = w.pending /\ v.todo = w.todo /\ v.src = w.src
        /\ v.outcome = w.outcome /\ v.pc = w.pc /\ y = x
        /\ w.pc \notin {"gone", "cancelled"}
    BY <1>5, <1>0 DEF Execute, TypeOK, Worker
  <2> QED BY <2>1, WorkStill DEF Tells
<1>6. ASSUME NEW k \in Call, NEW kind \in {"ok", "err"}, PullResult(r, k, kind)
      PROVE  Tells(y, v)
  <2> DEFINE e == Emitted(w, kind, k)
  <2>1. v = [e EXCEPT !.pc = "append", !.todo = @ \ {k}, !.batch = w.todo # {k}]
    BY <1>6, <1>0 DEF PullResult, TypeOK
  <2>k. kind \in Kind
    BY DEF Kind
  <2>2. /\ e \in Worker /\ e.n = w.n + 1 /\ e.todo = w.todo /\ e.outcome = w.outcome
        /\ e.src = w.src
        /\ e.pending = Append(w.pending, [n |-> w.n + 1, kind |-> kind, call |-> k])
    BY <1>e, <2>k
  <2> HIDE DEF e
  <2>3. /\ v.n = e.n /\ v.todo = e.todo \ {k} /\ v.outcome = e.outcome /\ v.src = e.src
        /\ v.pending = e.pending /\ v.pc = "append"
    BY <2>1, <2>2 DEF Worker
  <2>4. /\ y.log = x.log /\ y.status = x.status /\ WorkTells(x, w) /\ RowTells(x)
        /\ w.pc = "pull" /\ w.src = "open"
    BY <1>6, <1>0, <1>p, <1>s DEF PullResult, Pulling, TypeOK
  <2>5. RowTells(y)
    BY <2>4, RowSame
  <2>6. /\ v.n = w.n + 1 /\ v.outcome = w.outcome /\ v.todo = w.todo \ {k} /\ k \in Call
        /\ v.pending = Append(w.pending, [n |-> w.n + 1, kind |-> kind, call |-> k])
        /\ kind # "call" /\ kind # "done"
        /\ w.todo \ v.todo \subseteq {j \in Call : j = k /\ kind \in {"ok", "err"}}
    BY <2>2, <2>3
  <2>7. WorkTells(y, v)
    BY <1>0, <2>3, <2>4, <2>6, <2>k, WorkEmits, ZenonT(40)
  <2> QED BY <2>5, <2>7 DEF Tells
<1> QED
  BY <1>1, <1>2, <1>3, <1>4, <1>5, <1>6, Zenon DEF Source

LEMMA LogFinalize ==
  ASSUME TypeOK, TypeOK', NEW r \in Run, Tells(row[r], wk[r]), Finalize(r)
  PROVE  Tells(row'[r], wk'[r])
<1> DEFINE w == wk[r]
           x == row[r]
           v == wk'[r]
           y == row'[r]
           Lands == y.log = x.log \o w.pending /\ y.status = x.status
           Holds == v.n = w.n /\ v.pending = w.pending /\ v.todo = w.todo
           Later == {"drain", "leftover", "check", "finish"}
           Ends == v.pc \in {"gone", "cancelled"}
<1>0. x \in Row /\ w \in Worker /\ y \in Row /\ v \in Worker /\ RowTells(x)
  BY DEF TypeOK, Tells
<1>w. w.pc \in {"spawned", "pull", "append", "close", "drain", "leftover", "check", "finish"}
      => WorkTells(x, w)
  BY DEF Tells
<1>l. row' = Logged(r) => Lands
  <2> DEFINE t == row[r].log \o wk[r].pending
  <2>1. row' = Logged(r) => y = [x EXCEPT !.log = t]
    BY <1>0 DEF Logged, TypeOK
  <2> HIDE DEF t
  <2>2. row' = Logged(r) => y.log = t /\ y.status = x.status
    BY <1>0, <2>1 DEF Row
  <2> QED BY <2>2 DEF t
<1>g. WorkTells(x, w) /\ Lands => RowTells(y)
  BY <1>0, RowGrows
<1>f. WorkTells(x, w) /\ y = Finished(x, w.outcome) => RowTells(y)
  <2>1. y = Finished(x, w.outcome) => y.log = x.log /\ (y.status = x.status \/ y.status = w.outcome)
    BY <1>0 DEF Finished, Close, Row
  <2>2. WorkTells(x, w) /\ w.outcome = "completed" => Over(OnRecord(x))
    BY DEF WorkTells
  <2> QED BY <1>0, <2>1, <2>2, RowSame
<1>s. WorkTells(x, w) /\ y = x /\ Holds /\ v.pc \in Later
          /\ (v.src = w.src \/ v.src # "open")
          /\ (v.outcome = w.outcome \/ v.outcome # "completed") => Tells(y, v)
  BY <1>0, WorkStill DEF Tells
<1>d. WorkTells(x, w) /\ Lands /\ Holds /\ v.src = w.src
          /\ (v.outcome = w.outcome \/ v.outcome # "completed")
          /\ (v.pc \in Later \/ (w.pc = "append" /\ v.pc = "close")) => Tells(y, v)
  BY <1>0, <1>g, WorkLands DEF Tells
<1>e. RowTells(y) /\ Ends => Tells(y, v)
  BY DEF Tells
<1>n. \A pc \in {"gone", "cancelled"} : Ended(w, pc).pc = pc
  BY DEF Ended, NoWorker
<1> HIDE DEF Lands, Ends
<1>1. CASE CommitAppend(r)
  <2>1. /\ Holds /\ v.src = w.src /\ v.outcome = w.outcome /\ w.pc = "append"
        /\ \/ y = x /\ v.pc = "drain"
           \/ row' = Logged(r) /\ v.pc = "close"
    BY <1>1, <1>0 DEF CommitAppend, TypeOK, Worker
  <2> QED BY <2>1, <1>w, <1>l, <1>s, <1>d
<1>2. CASE AppendFails(r)
  <2>1. /\ Holds /\ v.src = w.src /\ v.outcome = "failed" /\ w.pc = "append" /\ v.pc = "drain"
        /\ y = x \/ row' = Logged(r)
    BY <1>2, <1>0 DEF AppendFails, TypeOK, Worker
  <2> QED BY <2>1, <1>w, <1>l, <1>s, <1>d
<1>3. CASE Appended(r)
  <2>1. /\ v.n = w.n /\ v.pending = <<>> /\ v.todo = w.todo /\ v.src = w.src
        /\ v.outcome = OutcomeAfter(w) /\ v.pc \in {"pull", "drain"} /\ w.pc = "close" /\ y = x
    BY <1>3, <1>0 DEF Appended, TypeOK, Worker
  <2> QED BY <2>1, <1>0, <1>w, WorkClears DEF Tells
<1>4. CASE Drain(r)
  <2>1. /\ Holds /\ v.src = "end" /\ v.outcome = w.outcome /\ w.pc = "drain"
        /\ v.pc \in Later /\ y = x
    BY <1>4, <1>0 DEF Drain, TypeOK, Worker
  <2> QED BY <2>1, <1>w, <1>s
<1>5. CASE Leftover(r)
  <2>1. \/ v = [w EXCEPT !.pc = "check"] /\ row' = Logged(r)
        \/ v = Ended(w, "gone") /\ (y = x \/ row' = Logged(r))
    BY <1>5, <1>0 DEF Leftover, TypeOK
  <2>2. w.pc = "leftover"
    BY <1>5 DEF Leftover
  <2>3. CASE v = [w EXCEPT !.pc = "check"] /\ row' = Logged(r)
    <3>1. Holds /\ v.src = w.src /\ v.outcome = w.outcome /\ v.pc = "check"
      BY <2>3, <1>0 DEF Worker
    <3> QED BY <2>2, <2>3, <3>1, <1>w, <1>l, <1>d
  <2>4. CASE v = Ended(w, "gone") /\ (y = x \/ row' = Logged(r))
    BY <2>2, <2>4, <1>0, <1>w, <1>l, <1>g, <1>e, <1>n DEF Ends
  <2> QED BY <2>1, <2>3, <2>4
<1>6. CASE Check(r)
  <2>1. /\ Holds /\ v.src = w.src /\ w.pc = "check" /\ v.pc = "finish" /\ y = x
        /\ v.outcome = w.outcome \/ v.outcome = "stopped"
    BY <1>6, <1>0 DEF Check, TypeOK, Worker
  <2> QED BY <2>1, <1>w, <1>s
<1>7. CASE Finish(r)
  <2>1. /\ v = Ended(w, "gone") /\ w.pc = "finish"
        /\ y = x \/ y = Finished(x, w.outcome)
    BY <1>7, <1>0 DEF Finish, TypeOK
  <2> QED BY <2>1, <1>0, <1>w, <1>f, <1>e, <1>n DEF Ends
<1>8. CASE Deliver(r)
  <2> DEFINE d == [w EXCEPT !.cancel = "delivered"]
  <2>0. /\ d \in Worker /\ d.n = w.n /\ d.todo = w.todo /\ d.src = w.src /\ d.pc = w.pc
        /\ d.pending = w.pending /\ d.outcome = w.outcome /\ d.beat = w.beat
    BY <1>0 DEF Worker
  <2>n. /\ \A pc \in {"gone", "cancelled"} : Ended(d, pc) \in Worker /\ Ended(d, pc).pc = pc
        /\ \A b : [Ended(d, "cancelled") EXCEPT !.beat = b].pc = "cancelled"
    <3>1. ASSUME NEW pc \in {"gone", "cancelled"} PROVE Ended(d, pc) \in Worker /\ Ended(d, pc).pc = pc
      BY <2>0, EndedType DEF Ended, NoWorker, Pc
    <3> QED BY <3>1 DEF Worker
  <2>m. \A pc \in Pc : LET u == [d EXCEPT !.pc = pc]
                           z == [d EXCEPT !.src = "end", !.pc = pc]
           IN /\ u.n = w.n /\ u.todo = w.todo /\ u.src = w.src /\ u.pending = w.pending
              /\ u.outcome = w.outcome /\ u.pc = pc
              /\ z.n = w.n /\ z.todo = w.todo /\ z.src = "end" /\ z.pending = w.pending
              /\ z.outcome = w.outcome /\ z.pc = pc
    BY <2>0 DEF Worker
  <2>1. \/ /\ w.pc = "pull"
           /\ v = [d EXCEPT !.src = "end",
                            !.pc = IF d.pending = <<>> THEN "drain" ELSE "append"]
           /\ y = x \/ y = [x EXCEPT !.shown = d.todo]
        \/ /\ w.pc \in {"append", "close", "drain"} /\ v = [d EXCEPT !.pc = "drain"]
           /\ y = x \/ (w.pc = "append" /\ row' = Logged(r))
        \/ /\ w.pc \in {"spawned", "drain", "leftover", "check", "finish"}
           /\ \/ v = Ended(d, "gone") \/ v = Ended(d, "cancelled")
              \/ \E b : v = [Ended(d, "cancelled") EXCEPT !.beat = b]
           /\ y = x \/ row' = Logged(r) \/ y = Finished(x, w.outcome)
    <3> HIDE DEF d
    <3>1. \/ /\ d.pc = "spawned" /\ wk' = [wk EXCEPT ![r] = Ended(d, "cancelled")] /\ row' = row
          \/ /\ d.pc = "pull"
             /\ wk' = [wk EXCEPT ![r] = [d EXCEPT !.src = "end",
                           !.pc = IF d.pending = <<>> THEN "drain" ELSE "append"]]
             /\ row' = row \/ row' = [row EXCEPT ![r].shown = d.todo]
          \/ /\ d.pc = "append" /\ wk' = [wk EXCEPT ![r] = [d EXCEPT !.pc = "drain"]]
             /\ row' = row \/ row' = Logged(r)
          \/ /\ d.pc \in {"close", "drain"} /\ wk' = [wk EXCEPT ![r] = [d EXCEPT !.pc = "drain"]]
             /\ row' = row
          \/ /\ d.pc = "drain" /\ row' = row
             /\ \E b : wk' = [wk EXCEPT ![r] = [Ended(d, "cancelled") EXCEPT !.beat = b]]
          \/ /\ d.pc \in {"leftover", "check", "finish"}
             /\ wk' = [wk EXCEPT ![r] = Ended(d, "gone")]
             /\ \/ row' = row \/ row' = Logged(r)
                \/ row' = [row EXCEPT ![r] = Finished(row[r], d.outcome)]
      BY <1>8, Zenon DEF Deliver, d
    <3> QED BY <3>1, <1>0, <2>0 DEF TypeOK
  <2> HIDE DEF d
  <2>2. CASE /\ w.pc = "pull"
             /\ v = [d EXCEPT !.src = "end",
                              !.pc = IF d.pending = <<>> THEN "drain" ELSE "append"]
             /\ y = x \/ y = [x EXCEPT !.shown = d.todo]
    <3>1. y.log = x.log /\ y.status = x.status
      BY <2>2, <1>0 DEF Row
    <3>2. Holds /\ v.src = "end" /\ v.outcome = w.outcome
          /\ v.pc = IF w.pending = <<>> THEN "drain" ELSE "append"
      BY <2>2, <2>0, <2>m DEF Pc
    <3>3. RowTells(y)
      BY <1>0, <3>1, RowSame
    <3>4. WorkTells(y, v)
      BY <2>2, <1>w, <3>1, <3>2, WorkStill, ZenonT(40)
    <3> QED BY <3>3, <3>4 DEF Tells
  <2>3. CASE /\ w.pc \in {"append", "close", "drain"} /\ v = [d EXCEPT !.pc = "drain"]
             /\ y = x \/ (w.pc = "append" /\ row' = Logged(r))
    <3>1. Holds /\ v.src = w.src /\ v.outcome = w.outcome /\ v.pc = "drain"
      BY <2>3, <2>m DEF Pc
    <3> QED BY <2>3, <3>1, <1>w, <1>l, <1>s, <1>d
  <2>4. CASE /\ w.pc \in {"spawned", "drain", "leftover", "check", "finish"}
             /\ \/ v = Ended(d, "gone") \/ v = Ended(d, "cancelled")
                \/ \E b : v = [Ended(d, "cancelled") EXCEPT !.beat = b]
             /\ y = x \/ row' = Logged(r) \/ y = Finished(x, w.outcome)
    <3>1. Ends
      BY <2>4, <2>n DEF Ends
    <3>2. RowTells(y)
      BY <2>4, <1>0, <1>w, <1>l, <1>g, <1>f
    <3> QED BY <3>1, <3>2, <1>e
  <2> QED BY <2>1, <2>2, <2>3, <2>4
<1> QED
  BY <1>1, <1>2, <1>3, <1>4, <1>5, <1>6, <1>7, <1>8 DEF Finalize

LEMMA LogRequest ==
  ASSUME TypeOK, TypeOK', NEW r \in Run, Tells(row[r], wk[r]),
         \/ Start(r) \/ Abandon(r) \/ Begin(r)
         \/ Beat(r) \/ BeatFails(r) \/ Lapse(r) \/ Requests(r)
  PROVE  Tells(row'[r], wk'[r])
<1> DEFINE w == wk[r]
           x == row[r]
           v == wk'[r]
           y == row'[r]
           c == Cancelled(w)
           Same(u) == /\ u.n = w.n /\ u.pending = w.pending /\ u.todo = w.todo
                      /\ u.src = w.src /\ u.outcome = w.outcome
<1>0. x \in Row /\ w \in Worker /\ y \in Row /\ v \in Worker /\ RowTells(x)
  BY DEF TypeOK, Tells
<1>s. RowTells(y) /\ y.log = x.log /\ Same(v) /\ v.pc = w.pc => Tells(y, v)
  BY WorkStill DEF Tells
<1>c. c \in Worker /\ Same(c) /\ c.pc = w.pc
  BY <1>0, CancelledType, ZenonT(40) DEF Cancelled, Worker
<1>x. /\ Expire(x).log = x.log /\ Expire(x) \in Row
      /\ \/ Expire(x).status = x.status \/ Expire(x).status = "interrupted"
         \/ Expire(x).status = "completed" /\ Over(OnRecord(x))
  BY <1>0, ExpireType, ReadOff DEF Expire, Close, Row
<1>1. CASE Start(r) \/ Abandon(r) \/ Begin(r)
  <2>1. \/ v = [w EXCEPT !.pc = "spawned"] /\ w.pc = "none"
        \/ v = [w EXCEPT !.pc = "gone"]
        \/ v = [w EXCEPT !.pc = "pull", !.beat = TRUE] /\ w.pc = "spawned"
    BY <1>1, <1>0 DEF Start, Abandon, Begin, TypeOK
  <2>2. y = x
    BY <1>1 DEF Start, Abandon, Begin
  <2>3. /\ Same(v)
        /\ \/ v.pc = "spawned" /\ w.pc = "none"
           \/ v.pc = "gone"
           \/ v.pc = "pull" /\ w.pc = "spawned"
    BY <2>1, <1>0 DEF Worker
  <2> QED BY <2>2, <2>3, WorkStill DEF Tells
<1>2. CASE Beat(r) \/ BeatFails(r) \/ StopCancel(r)
  <2> HIDE DEF c
  <2>1. \/ v = w
        \/ v = [c EXCEPT !.beat = FALSE]
        \/ \E u : v = [c EXCEPT !.waiter = u]
    BY <1>2, <1>0 DEF Beat, BeatFails, StopCancel, TypeOK, c
  <2>2. Same(v) /\ v.pc = w.pc
    BY <2>1, <1>c DEF Worker
  <2>3. y = x \/ y = [x EXCEPT !.fresh = TRUE]
    BY <1>2, <1>0 DEF Beat, BeatFails, StopCancel, TypeOK
  <2>4. y.log = x.log /\ y.status = x.status
    BY <2>3, <1>0 DEF Row
  <2> QED BY <2>2, <2>4, <1>0, <1>s, RowSame
<1>3. CASE Lapse(r)
  <2>1. y = [x EXCEPT !.fresh = FALSE] /\ v = w
    BY <1>3, <1>0 DEF Lapse, TypeOK
  <2>2. y.log = x.log /\ y.status = x.status
    BY <2>1, <1>0 DEF Row
  <2> QED BY <2>1, <2>2, <1>0, <1>s, RowSame
<1>4. CASE Observe(r)
  <2>1. y = Expire(x) /\ v = w
    BY <1>4, <1>0 DEF Observe, TypeOK
  <2> QED BY <2>1, <1>0, <1>x, <1>s, RowSame
<1>5. CASE StopMark(r)
  <2> DEFINE z == Expire(x)
  <2>1. y = [z EXCEPT !.stopReq = @ \/ z.status = "running"]
    BY <1>5, <1>0 DEF StopMark, TypeOK
  <2>2. z \in Row /\ z.log = x.log
        /\ \/ z.status = x.status \/ z.status = "interrupted"
           \/ z.status = "completed" /\ Over(OnRecord(x))
    BY <1>x
  <2> HIDE DEF z
  <2>3. y.log = z.log /\ y.status = z.status
    BY <2>1, <2>2 DEF Row
  <2>4. v = w \/ v = [w EXCEPT !.waiter = "marked"]
    BY <1>5, <1>0 DEF StopMark, TypeOK
  <2>5. Same(v) /\ v.pc = w.pc
    BY <2>4, <1>0 DEF Worker
  <2> QED BY <2>2, <2>3, <2>5, <1>0, <1>s, RowSame
<1>6. CASE StopSettle(r) \/ StopGiveUp(r)
  <2>1. v = [w EXCEPT !.waiter = "idle"]
    BY <1>6, <1>0 DEF StopSettle, StopGiveUp, TypeOK
  <2>2. Same(v) /\ v.pc = w.pc
    BY <2>1, <1>0 DEF Worker
  <2>3. y = x \/ y = Finished(x, "stopped")
    BY <1>6, <1>0 DEF StopSettle, StopGiveUp, TypeOK
  <2>4. y.log = x.log /\ (y.status = x.status \/ y.status = "stopped")
    BY <2>3, <1>0 DEF Finished, Close, Row
  <2> QED BY <2>2, <2>4, <1>0, <1>s, RowSame
<1> QED
  BY <1>1, <1>2, <1>3, <1>4, <1>5, <1>6 DEF Requests

LEMMA LogProcess ==
  ASSUME TypeOK, TypeOK', NEW p \in Proc, NEW r \in Run, Tells(row[r], wk[r]),
         Shutdown(p) \/ ShutdownEnd(p) \/ Crash(p)
  PROVE  Tells(row'[r], wk'[r])
<1> DEFINE w == wk[r]
           x == row[r]
           v == wk'[r]
           y == row'[r]
           c == Cancelled(w)
           e == Ended(w, "gone")
           Same(u) == /\ u.n = w.n /\ u.pending = w.pending /\ u.todo = w.todo
                      /\ u.src = w.src /\ u.outcome = w.outcome /\ u.pc = w.pc
<1>0. x \in Row /\ w \in Worker /\ y \in Row /\ v \in Worker /\ RowTells(x)
  BY DEF TypeOK, Tells
<1>c. c \in Worker /\ Same(c) /\ e \in Worker /\ e.pc = "gone"
  <2>1. c \in Worker /\ Same(c)
    BY <1>0, CancelledType, ZenonT(40) DEF Cancelled, Worker
  <2>2. e \in Worker
    BY <1>0, EndedType DEF Pc
  <2>3. e.pc = "gone"
    BY DEF Ended, NoWorker
  <2> QED BY <2>1, <2>2, <2>3
<1> HIDE DEF c, e
<1>1. y = x \/ y = Finished(x, "interrupted")
  BY <1>0 DEF Shutdown, ShutdownEnd, Crash
<1>2. y.log = x.log /\ (y.status = x.status \/ y.status = "interrupted")
  BY <1>1, <1>0 DEF Finished, Close, Row
<1>3. RowTells(y)
  BY <1>0, <1>2, RowSame
<1>4. Same(v) \/ v.pc = "gone"
  <2>1. CASE Shutdown(p)
    <3>1. v = w \/ v = [c EXCEPT !.waiter = "shutdown"]
      BY <2>1 DEF Shutdown, c
    <3> QED BY <3>1, <1>c DEF Worker
  <2>2. CASE ShutdownEnd(p)
    <3>1. v = w \/ v = [w EXCEPT !.beat = FALSE, !.waiter = "idle"]
      BY <2>2 DEF ShutdownEnd
    <3> QED BY <3>1, <1>0 DEF Worker
  <2>3. CASE Crash(p)
    <3>1. v = w \/ v = [e EXCEPT !.waiter = "idle"]
      BY <2>3 DEF Crash, e
    <3> QED BY <3>1, <1>c DEF Worker
  <2> QED BY <2>1, <2>2, <2>3
<1> QED
  BY <1>2, <1>3, <1>4, WorkStill DEF Tells

(* A reservation closes lapsed runs and opens one whose log is still empty.    *)
LEMMA LogReserve ==
  ASSUME Inv, NEW p \in Proc, NEW s \in Session, NEW from \in {0} \cup Run,
         Reserve(p, s, from), NEW r \in Run, Tells(row[r], wk[r])
  PROVE  Tells(row'[r], wk'[r])
<1> DEFINE x == row[r]
           y == row'[r]
<1>0. TypeOK /\ x \in Row /\ wk' = wk /\ created \in Nat /\ RowTells(x)
  BY DEF Inv, TypeOK, Reserve, Tells
<1>1. y.log = x.log /\ (y.status # "completed" \/ x.status = "completed" \/ Over(OnRecord(x)))
  <2>1. CASE r = created + 1
    <3>1. x = NoRow
      BY <1>0, <2>1 DEF Inv, PresenceInv
    <3> DEFINE prior == IF from = 0 THEN NoRow ELSE Expire(row[from])
               line == IF from = 0 THEN {} ELSE prior.lineage \cup {from}
               held == Carried(prior)
    <3>2. y = [NoRow EXCEPT !.status = "running", !.owner = p, !.session = s,
                            !.fresh = TRUE, !.carried = held, !.lineage = line]
      BY <2>1 DEF Reserve
    <3> HIDE DEF line, held
    <3> QED BY <3>1, <3>2 DEF NoRow
  <2>2. CASE r # created + 1
    <3>1. y = x \/ y = Expire(x)
      BY <2>2 DEF Reserve
    <3>2. /\ Expire(x).log = x.log
          /\ \/ Expire(x).status = x.status \/ Expire(x).status = "interrupted"
             \/ Expire(x).status = "completed" /\ Over(OnRecord(x))
      BY <1>0, ReadOff DEF Expire, Close, Row
    <3> QED BY <3>1, <3>2
  <2> QED BY <2>1, <2>2
<1>2. RowTells(y)
  BY <1>0, <1>1, RowSame
<1> QED
  BY <1>0, <1>1, <1>2, WorkStill DEF Tells

-----------------------------------------------------------------------------
(* LogInv is inductive beside Inv, and what it implies.                        *)
LEMMA LogInvInit == Init => LogInv
<1> SUFFICES ASSUME Init, NEW r \in Run PROVE Tells(NoRow, NoWorker)
  BY DEF Init, LogInv
<1>1. /\ NoRow.log = <<>> /\ NoRow.status = "absent"
      /\ NoWorker.pending = <<>> /\ NoWorker.n = 0 /\ NoWorker.pc = "none"
      /\ NoWorker.todo = {} /\ NoWorker.outcome = "interrupted"
  BY DEF NoRow, NoWorker
<1>2. OnRecord(NoRow) = {} /\ Waiting(NoWorker) = {}
  BY <1>1 DEF OnRecord, Waiting
<1>3. Nums({}) = {} /\ ~Over({}) /\ \A kind : Marked({}, kind) = {}
  BY DEF Nums, Over, Marked
<1>4. Fresh(NoRow, NoWorker)
  <2>1. 0 \in 0 .. NoWorker.n /\ {} = (0 + 1) .. NoWorker.n /\ {} = 1 .. 0
    BY <1>1
  <2> QED BY <1>2, <1>3, <2>1 DEF Fresh
<1> QED
  BY <1>1, <1>2, <1>3, <1>4 DEF Tells, RowTells, WorkTells

LEMMA LogInvStep == Inv /\ Inv' /\ LogInv /\ [Next]_vars => LogInv'
<1> SUFFICES ASSUME Inv, Inv', LogInv, [Next]_vars, NEW r \in Run
             PROVE  Tells(row'[r], wk'[r])
  BY DEF LogInv
<1>0. TypeOK /\ TypeOK' /\ \A q \in Run : Tells(row[q], wk[q])
  BY DEF Inv, LogInv
<1>1. CASE UNCHANGED vars
  BY <1>0, <1>1 DEF vars
<1>2. ASSUME NEW p \in Proc, NEW s \in Session, NEW from \in {0} \cup Run, Reserve(p, s, from)
      PROVE  Tells(row'[r], wk'[r])
  BY <1>0, <1>2, LogReserve
<1>3. ASSUME NEW q \in Run, RunStep(q) PROVE Tells(row'[r], wk'[r])
  <2>1. CASE q = r
    BY <1>0, <1>3, <2>1, LogSource, LogFinalize, LogRequest DEF RunStep
  <2>2. CASE q # r
    <3>1. OnlyRun(q)
      BY <1>0, <1>3, SourceKeeps, FinalizeKeeps, RequestKeeps DEF RunStep, Inv
    <3> QED BY <1>0, <2>2, <3>1 DEF OnlyRun
  <2> QED BY <2>1, <2>2
<1>4. ASSUME NEW p \in Proc, Shutdown(p) \/ ShutdownEnd(p) \/ Crash(p)
      PROVE  Tells(row'[r], wk'[r])
  BY <1>0, <1>4, LogProcess
<1> QED
  BY <1>1, <1>2, <1>3, <1>4 DEF Next

THEOREM LogInvariance == Spec => []LogInv
  BY Invariance, LogInvInit, LogInvStep, PTL DEF Spec

(* A run shown as completed has stored its final answer and a result of every  *)
(* call, and no log has a hole, although a commit may fail, land unheard, be   *)
(* repeated or be refused because another process took the run for dead.       *)
THEOREM LogHolds == Spec => []LogIsWhole
<1>1. ASSUME LogInv PROVE LogIsWhole
  <2> SUFFICES ASSUME NEW r \in Run
               PROVE  /\ row[r].status = "completed" =>
                             /\ DoneLogged(row[r])
                             /\ Called(row[r]) \subseteq Succeeded(row[r]) \cup With(row[r], "err")
                      /\ LET stored == {row[r].log[i].n : i \in DOMAIN row[r].log}
                         IN \A n \in stored : 1 .. n \subseteq stored
    BY DEF LogIsWhole, CompletedHasAnswer, NoGapInLog
  <2>1. RowTells(row[r])
    BY <1>1 DEF LogInv, Tells
  <2>2. /\ Called(row[r]) = Marked(OnRecord(row[r]), "call")
        /\ Succeeded(row[r]) = Marked(OnRecord(row[r]), "ok")
        /\ With(row[r], "err") = Marked(OnRecord(row[r]), "err")
        /\ DoneLogged(row[r]) <=> Over(OnRecord(row[r]))
        /\ {row[r].log[i].n : i \in DOMAIN row[r].log} = Nums(OnRecord(row[r]))
    BY ReadOff
  <2> QED BY <2>1, <2>2 DEF RowTells
<1> QED
  BY <1>1, LogInvariance, PTL

-----------------------------------------------------------------------------
(* ChatRuns implements RunLedger.  A reservation opens a task, an execution is *)
(* an effect, a commit a write, and any other step closes tasks or nothing.    *)

(* Only an execution adds to what a worker has executed.                       *)
LEMMA RanSame ==
  ASSUME TypeOK, TypeOK', NEW r \in Run, RunStep(r), \A k \in Call : ~Execute(r, k)
  PROVE  wk'[r].ran = wk[r].ran
<1> DEFINE w == wk[r]
           v == wk'[r]
           c == Cancelled(w)
           d == [w EXCEPT !.cancel = "delivered"]
<1>0. w \in Worker /\ v \in Worker
  BY DEF TypeOK
<1>e. \A kind \in Kind, k \in Call \cup {None} :
          Emitted(w, kind, k) \in Worker /\ Emitted(w, kind, k).ran = w.ran
  <2>1. ASSUME NEW kind \in Kind, NEW k \in Call \cup {None}
        PROVE  Emitted(w, kind, k).ran = w.ran
    BY <1>0 DEF Emitted, Worker
  <2> QED BY <1>0, <2>1, EmittedType
<1>n. \A pc \in Pc : Ended(w, pc).ran = w.ran
  BY <1>0, EndedFields
<1>c. c \in Worker /\ c.ran = w.ran
  BY <1>0, CancelledType, CancelledFields
<1>1. CASE Source(r)
  <2>1. CASE PullEnd(r)
    BY <2>1, <1>0 DEF PullEnd, TypeOK, Worker
  <2>2. CASE PullText(r)
    <3> DEFINE e == Emitted(w, "text", None)
    <3>1. \E pc \in {"pull", "append"} : v = [e EXCEPT !.pc = pc]
      BY <2>2, <1>0 DEF PullText, TypeOK
    <3>2. e \in Worker /\ e.ran = w.ran
      BY <1>e DEF Kind
    <3> HIDE DEF e
    <3> QED BY <3>1, <3>2 DEF Worker
  <2>3. CASE PullDone(r) \/ PullTitle(r) \/ PullError(r)
    <3>1. PICK kind \in Kind, src \in {"done", "tail"} :
             v = [Emitted(w, kind, None) EXCEPT !.pc = "append", !.src = src]
      BY <2>3, <1>0 DEF PullDone, PullTitle, PullError, Kind, TypeOK
    <3> DEFINE e == Emitted(w, kind, None)
    <3>2. e \in Worker /\ e.ran = w.ran /\ v = [e EXCEPT !.pc = "append", !.src = src]
      BY <1>e, <3>1
    <3> HIDE DEF e
    <3> QED BY <3>2 DEF Worker
  <2>4. ASSUME NEW k \in Call, PullCall(r, k) PROVE v.ran = w.ran
    <3> DEFINE e == Emitted(w, "call", k)
    <3>1. v = [e EXCEPT !.pc = "append", !.todo = @ \cup {k}]
      BY <2>4, <1>0 DEF PullCall, TypeOK
    <3>2. e \in Worker /\ e.ran = w.ran
      BY <1>e DEF Kind
    <3> HIDE DEF e
    <3> QED BY <3>1, <3>2 DEF Worker
  <2>5. ASSUME NEW k \in Call, NEW kind \in {"ok", "err"}, PullResult(r, k, kind)
        PROVE  v.ran = w.ran
    <3> DEFINE e == Emitted(w, kind, k)
    <3>1. v = [e EXCEPT !.pc = "append", !.todo = @ \ {k}, !.batch = w.todo # {k}]
      BY <2>5, <1>0 DEF PullResult, TypeOK
    <3>2. e \in Worker /\ e.ran = w.ran
      BY <1>e DEF Kind
    <3> HIDE DEF e
    <3> QED BY <3>1, <3>2 DEF Worker
  <2> QED BY <1>1, <2>1, <2>2, <2>3, <2>4, <2>5, Zenon DEF Source
<1>2. CASE Finalize(r)
  <2>1. CASE ~Deliver(r)
    <3>1. CASE CommitAppend(r) \/ AppendFails(r) \/ Appended(r) \/ Drain(r) \/ Check(r)
      <4>1. CASE CommitAppend(r)
        BY <4>1, <1>0 DEF CommitAppend, TypeOK, Worker
      <4>2. CASE AppendFails(r)
        BY <4>2, <1>0 DEF AppendFails, TypeOK, Worker
      <4>3. CASE Appended(r)
        BY <4>3, <1>0 DEF Appended, TypeOK, Worker
      <4>4. CASE Drain(r)
        BY <4>4, <1>0 DEF Drain, TypeOK, Worker
      <4>5. CASE Check(r)
        BY <4>5, <1>0 DEF Check, TypeOK, Worker
      <4> QED BY <3>1, <4>1, <4>2, <4>3, <4>4, <4>5
    <3>2. CASE Leftover(r) \/ Finish(r)
      <4>1. v = [w EXCEPT !.pc = "check"] \/ v = Ended(w, "gone")
        BY <3>2, <1>0 DEF Leftover, Finish, TypeOK
      <4> QED BY <4>1, <1>0, <1>n DEF Worker, Pc
    <3> QED BY <1>2, <2>1, <3>1, <3>2 DEF Finalize
  <2>2. CASE Deliver(r)
    <3>0. d \in Worker /\ d.ran = w.ran
      BY <1>0 DEF Worker
    <3>e. \A pc \in Pc : Ended(d, pc) \in Worker /\ Ended(d, pc).ran = w.ran
      BY <3>0, EndedType, EndedFields
    <3> HIDE DEF d
    <3>1. \/ v = Ended(d, "gone") \/ v = Ended(d, "cancelled")
          \/ \E b : v = [Ended(d, "cancelled") EXCEPT !.beat = b]
          \/ v = [d EXCEPT !.pc = "drain"]
          \/ v = [d EXCEPT !.src = "end", !.pc = IF d.pending = <<>> THEN "drain" ELSE "append"]
      <4>1. \/ wk' = [wk EXCEPT ![r] = Ended(d, "cancelled")]
            \/ wk' = [wk EXCEPT ![r] = [d EXCEPT !.src = "end",
                           !.pc = IF d.pending = <<>> THEN "drain" ELSE "append"]]
            \/ wk' = [wk EXCEPT ![r] = [d EXCEPT !.pc = "drain"]]
            \/ \E b : wk' = [wk EXCEPT ![r] = [Ended(d, "cancelled") EXCEPT !.beat = b]]
            \/ wk' = [wk EXCEPT ![r] = Ended(d, "gone")]
        BY <2>2, Zenon DEF Deliver, d
      <4> QED BY <4>1, <1>0 DEF TypeOK
    <3>2. \A b : [Ended(d, "cancelled") EXCEPT !.beat = b].ran = w.ran
      BY <3>e DEF Worker, Pc
    <3>3. /\ v = [d EXCEPT !.pc = "drain"] => v.ran = w.ran
          /\ v = [d EXCEPT !.src = "end", !.pc = IF d.pending = <<>> THEN "drain" ELSE "append"]
                => v.ran = w.ran
      BY <3>0 DEF Worker
    <3>4. (\E b : v = [Ended(d, "cancelled") EXCEPT !.beat = b]) => v.ran = w.ran
      BY <3>2
    <3>5. v = Ended(d, "gone") \/ v = Ended(d, "cancelled") => v.ran = w.ran
      BY <3>e DEF Pc
    <3> QED BY <3>1, <3>3, <3>4, <3>5
  <2> QED BY <2>1, <2>2
<1>3. CASE \/ Start(r) \/ Abandon(r) \/ Begin(r) \/ Lapse(r) \/ Observe(r)
           \/ StopMark(r) \/ StopSettle(r) \/ StopGiveUp(r)
  <2>1. \/ v = w \/ \E pc : v = [w EXCEPT !.pc = pc]
        \/ v = [w EXCEPT !.pc = "pull", !.beat = TRUE]
        \/ \E u : v = [w EXCEPT !.waiter = u]
    BY <1>3, <1>0 DEF Start, Abandon, Begin, Lapse, Observe, StopMark, StopSettle, StopGiveUp,
                      TypeOK
  <2> QED BY <2>1, <1>0 DEF Worker
<1>4. CASE Beat(r) \/ BeatFails(r) \/ StopCancel(r)
  <2> HIDE DEF c
  <2>1. \/ v = w \/ v = [c EXCEPT !.beat = FALSE]
        \/ \E u : v = [c EXCEPT !.waiter = u]
    BY <1>4, <1>0 DEF Beat, BeatFails, StopCancel, TypeOK, c
  <2> QED BY <2>1, <1>c DEF Worker
<1> QED
  BY <1>1, <1>2, <1>3, <1>4 DEF RunStep, Requests

(* A step that executes nothing, opens nothing and writes at most one log.     *)
LEMMA ClosesOrWrites ==
  ASSUME Inv, Inv', NEW r \in Run,
         \A q \in Run : Kept(row[q], row'[q], wk[q].pending) /\ wk'[q].ran = wk[q].ran,
         \/ \A q \in Run : row'[q].log = row[q].log
         \/ \A q \in Run \ {r} : row'[q] = row[q]
  PROVE  Ledger!LNext
<1>0. \A q \in Run : /\ row[q] \in Row /\ row'[q] \in Row /\ wk[q] \in Worker
                     /\ row'[q].session = row[q].session /\ row'[q].lineage = row[q].lineage
  BY DEF Inv, TypeOK, Kept
<1>1. \A q \in Run : row'[q].status = row[q].status
                     \/ (row[q].status = "running" /\ row'[q].status \in Terminal)
  BY DEF Kept
<1>2. CASE \A q \in Run : row'[q].log = row[q].log
  <2>1. Ledger!LClose
    BY <1>0, <1>1, <1>2
    DEF Ledger!LClose, Ledger!MayClose, Ledger!States, Ledger!Closed, Row, Status, Terminal
  <2> QED BY <2>1 DEF Ledger!LNext
<1>3. CASE row'[r].log # row[r].log /\ \A q \in Run \ {r} : row'[q] = row[q]
  <2> DEFINE s == row[r].log
             p == wk[r].pending
             t == row'[r].log
  <2>1. row[r].status = "running" /\ row'[r].status = "running" /\ t = s \o p
    BY <1>3 DEF Kept, Terminal
  <2>2. s \in Seq(Event) /\ p \in Seq(Event)
    BY <1>0 DEF Row, Worker
  <2> HIDE DEF s, p, t
  <2>3. Len(s) <= Len(t) /\ SubSeq(t, 1, Len(s)) = s
    <3>1. /\ Len(s) \in Nat /\ Len(p) \in Nat /\ Len(t) = Len(s) + Len(p)
          /\ \A i \in 1 .. Len(s) : t[i] = s[i]
          /\ t \in Seq(Event) /\ s \o p \in Seq(Event)
      BY <2>1, <2>2, ConcatIndex, ConcatProperties
    <3>2. Len(s) <= Len(t)
      BY <3>1
    <3> DEFINE u == SubSeq(t, 1, Len(s))
    <3>3. Len(u) = Len(s) /\ \A i \in 1 .. Len(s) : u[i] = t[i]
      BY <3>1, <3>2
    <3>4. u \in Seq(Event)
      BY <3>1, <3>2, SubSeqProperties
    <3> HIDE DEF u
    <3>5. u = s
      BY <2>2, <3>1, <3>3, <3>4, SeqEqual
    <3> QED BY <3>2, <3>5 DEF u
  <2>4. Ledger!LWrite(r)
    BY <1>0, <1>3, <2>1, <2>3 DEF Ledger!LWrite, s, t
  <2> QED BY <2>4 DEF Ledger!LNext
<1> QED
  BY <1>2, <1>3

(* An executed call is new along its chain: in the log of a run that goes on   *)
(* later it is carried, and a run that was continued executes nothing new.     *)
LEMMA ExecutesOnce ==
  ASSUME Inv, NEW r \in Run, NEW k \in Call, Execute(r, k)
  PROVE  Ledger!LExecute(r, k)
<1>1. /\ k \in wk[r].todo \ (wk[r].ran \cup row[r].carried) /\ row' = row
      /\ wk' = [wk EXCEPT ![r].ran = @ \cup {k}, ![r].batch = TRUE]
      /\ wk[r].pc = "pull" \/ wk[r].batch
  BY DEF Execute
<1>2. /\ wk[r] \in Worker /\ wk \in [Run -> Worker]
      /\ \A q \in Run : row[q] \in Row /\ WorkerInv(row[q], wk[q])
  BY DEF Inv, TypeOK
<1>3. row[r].status # "absent"
  <2>1. wk[r] # NoWorker
    BY <1>1 DEF NoWorker
  <2>2. ~(r > created) /\ r \in Nat /\ created \in Nat
    BY <2>1 DEF Inv, PresenceInv, TypeOK, Run
  <2> QED BY <2>2 DEF Inv, PresenceInv
<1>4. ASSUME NEW q \in Run, q = r \/ q \in row[r].lineage \/ r \in row[q].lineage
      PROVE  k \notin wk[q].ran
  <2>1. CASE q = r
    BY <1>1, <2>1
  <2>2. CASE q \in row[r].lineage
    BY <1>1, <1>2, <2>2 DEF Inv, LineageInv, WorkerInv
  <2>3. CASE r \in row[q].lineage
    <3>1. k \in Called(row[r])
      BY <1>1, <1>2 DEF WorkerInv
    <3>2. k \in row[q].carried
      BY <2>3, <3>1 DEF Inv, LineageInv
    <3> QED BY <1>2, <3>2 DEF WorkerInv
  <2> QED BY <1>4, <2>1, <2>2, <2>3
<1>5. \A q \in Run : wk'[q].ran = IF q = r THEN wk[r].ran \cup {k} ELSE wk[q].ran
  BY <1>1, <1>2 DEF Worker
<1> QED
  BY <1>1, <1>3, <1>4, <1>5 DEF Ledger!LExecute

(* A reservation opens the next task of its session and closes lapsed ones.    *)
LEMMA ReserveOpens ==
  ASSUME Inv, Inv', NEW p \in Proc, NEW s \in Session, NEW from \in {0} \cup Run,
         Reserve(p, s, from)
  PROVE  Ledger!LNext
<1> DEFINE new == created + 1
           prior == IF from = 0 THEN NoRow ELSE Expire(row[from])
           line == IF from = 0 THEN {} ELSE prior.lineage \cup {from}
           held == Carried(prior)
           Others == Run \ {new}
<1>0. /\ new \in Run /\ created \in Nat /\ wk' = wk /\ s # None
      /\ \A q \in Run : q \in Nat /\ row[q] \in Row /\ row'[q] \in Row
  BY ConstantsAssumption DEF Inv, TypeOK, Reserve, Run
<1>n. row[new] = NoRow
  BY <1>0 DEF Inv, PresenceInv
<1>r. row' = [q \in Run |->
                 IF q = new
                 THEN [NoRow EXCEPT !.status = "running", !.owner = p, !.session = s,
                                    !.fresh = TRUE, !.carried = held, !.lineage = line]
                 ELSE IF row[q].session = s THEN Expire(row[q]) ELSE row[q]]
  BY DEF Reserve
<1>g. /\ from # 0 => prior.session = s /\ CanResume(prior) /\ IsLatest(from, s)
      /\ NoActive(s)
  BY DEF Reserve
<1>1. /\ row'[new].status = "running" /\ row'[new].session = s /\ row'[new].log = <<>>
      /\ row'[new].lineage = line
  <2>1. row'[new] = [NoRow EXCEPT !.status = "running", !.owner = p, !.session = s,
                                  !.fresh = TRUE, !.carried = held, !.lineage = line]
    BY <1>0, <1>r
  <2> HIDE DEF prior, line, held
  <2> QED BY <2>1 DEF NoRow
<1>2. \A q \in Others : row'[q] = IF row[q].session = s THEN Expire(row[q]) ELSE row[q]
  BY <1>r
<1>x. \A q \in Run : LET x == row[q]
                         y == Expire(x)
         IN /\ y.session = x.session /\ y.lineage = x.lineage /\ y.log = x.log
            /\ \/ y.status = x.status
               \/ x.status = "running" /\ y.status \in {"completed", "interrupted"}
            /\ (x.status = "running" => Lapsed(x)) => y.status # "running"
  BY <1>0 DEF Expire, Close, Lapsed, Row
<1>3. \A q \in Others : /\ row'[q].session = row[q].session
                        /\ row'[q].lineage = row[q].lineage
                        /\ row'[q].log = row[q].log
                        /\ \/ row'[q].status = row[q].status
                           \/ /\ row[q].status = "running"
                              /\ row'[q].status \in Terminal
                        /\ row[q].session = s => row'[q].status # "running"
  <2>1. \A q \in Others : row[q].session = s => (row[q].status = "running" => Lapsed(row[q]))
    BY <1>g DEF NoActive
  <2> QED BY <1>2, <1>x, <2>1 DEF Terminal
<1>4. \A q \in Run : row[q].session = s => q < new
  <2> SUFFICES ASSUME NEW q \in Run, row[q].session = s PROVE q < new
    OBVIOUS
  <2>1. ~(q > created)
    BY <1>0 DEF Inv, PresenceInv, NoRow
  <2> QED BY <2>1, <1>0
<1>5. ASSUME from # 0
      PROVE  /\ from \in Others /\ row[from].session = s /\ IsLatest(from, s)
             /\ row'[from].status \in Terminal \ {"completed"}
             /\ line = row[from].lineage \cup {from}
  <2>1. from \in Run /\ prior = Expire(row[from]) /\ prior.session = s /\ CanResume(prior)
        /\ IsLatest(from, s)
    BY <1>5, <1>g
  <2>2. row[from].session = s /\ prior.lineage = row[from].lineage
    BY <2>1, <1>x
  <2>3. from \in Others
    BY <2>1, <2>2, <1>n, <1>0 DEF NoRow
  <2>4. row'[from] = prior
    BY <2>1, <2>2, <2>3, <1>2
  <2>5. line = row[from].lineage \cup {from}
    BY <1>5, <2>2
  <2> QED BY <2>1, <2>2, <2>3, <2>4, <2>5 DEF CanResume, Terminal
<1> HIDE DEF prior, held, new
<1>6. \/ from = 0 /\ line = {}
      \/ from # 0
  BY DEF line
<1> HIDE DEF line
<1>7. /\ row[new].status = "absent" /\ row[new].log = <<>> /\ row[new].lineage = {}
  BY <1>n DEF NoRow
<1>8. /\ [q \in Run |-> row'[q].status] \in [Run -> Ledger!States]
      /\ [q \in Run |-> row'[q].session] = [[q \in Run |-> row[q].session] EXCEPT ![new] = s]
      /\ [q \in Run |-> row'[q].log] = [q \in Run |-> row[q].log]
      /\ [q \in Run |-> wk'[q].ran] = [q \in Run |-> wk[q].ran]
  <2>1. \A q \in Run : row'[q].status \in Ledger!States
    BY <1>0 DEF Ledger!States, Ledger!Closed, Row, Status, Terminal
  <2>2. \A q \in Run : row'[q].log = row[q].log
    BY <1>0, <1>1, <1>3, <1>7
  <2> QED BY <2>1, <2>2, <1>0, <1>1, <1>3
<1>9. \/ [q \in Run |-> row'[q].lineage] = [q \in Run |-> row[q].lineage]
      \/ \E f \in Run :
            /\ row[f].session = s /\ \A q \in Run : row[q].session = s => q <= f
            /\ row'[f].status \in Ledger!Closed \ {"completed"}
            /\ [q \in Run |-> row'[q].lineage]
               = [[q \in Run |-> row[q].lineage] EXCEPT ![new] = row[f].lineage \cup {f}]
  <2>1. CASE from = 0 /\ line = {}
    BY <2>1, <1>0, <1>1, <1>3, <1>7
  <2>2. CASE from # 0
    <3>1. [q \in Run |-> row'[q].lineage]
            = [[q \in Run |-> row[q].lineage] EXCEPT ![new] = row[from].lineage \cup {from}]
      BY <2>2, <1>0, <1>1, <1>3, <1>5
    <3> QED BY <2>2, <3>1, <1>5 DEF IsLatest, Ledger!Closed, Terminal
  <2> QED BY <1>6, <2>1, <2>2
<1>10. Ledger!LOpen(new, s)
  BY <1>0, <1>1, <1>3, <1>4, <1>7, <1>8, <1>9
  DEF Ledger!LOpen, Ledger!MayClose, Ledger!Closed, Terminal
<1> QED
  BY <1>0, <1>10 DEF Ledger!LNext

LEMMA LedgerStep == Inv /\ Inv' /\ [Next]_vars => [Ledger!LNext]_(Ledger!lvars)
<1> SUFFICES ASSUME Inv, Inv', [Next]_vars PROVE Ledger!LNext \/ UNCHANGED Ledger!lvars
  OBVIOUS
<1>0. TypeOK /\ TypeOK' /\ \A q \in Run : WorkerInv(row[q], wk[q])
  BY DEF Inv
<1>1. CASE UNCHANGED vars
  BY <1>1 DEF vars, Ledger!lvars
<1>2. ASSUME NEW p \in Proc, NEW s \in Session, NEW from \in {0} \cup Run, Reserve(p, s, from)
      PROVE  Ledger!LNext
  BY <1>2, ReserveOpens
<1>3. ASSUME NEW r \in Run, RunStep(r) PROVE Ledger!LNext
  <2>1. CASE \E k \in Call : Execute(r, k)
    BY <2>1, ExecutesOnce DEF Ledger!LNext
  <2>2. CASE \A k \in Call : ~Execute(r, k)
    <3>1. RunKept(r) /\ OnlyRun(r)
      BY <1>0, <1>3, SourceKeeps, FinalizeKeeps, RequestKeeps DEF RunStep
    <3>2. wk'[r].ran = wk[r].ran
      BY <1>0, <1>3, <2>2, RanSame
    <3>3. /\ \A q \in Run : Kept(row[q], row'[q], wk[q].pending) /\ wk'[q].ran = wk[q].ran
          /\ \A q \in Run \ {r} : row'[q] = row[q]
      BY <3>1, <3>2, Unmoved DEF RunKept, OnlyRun
    <3> QED BY <3>3, ClosesOrWrites
  <2> QED BY <2>1, <2>2
<1>4. ASSUME NEW p \in Proc, Shutdown(p) \/ ShutdownEnd(p) \/ Crash(p) PROVE Ledger!LNext
  <2>1. \A q \in Run : RunKept(q)
    BY <1>0, <1>4, ProcessKeeps
  <2>2. ASSUME NEW q \in Run PROVE row'[q].log = row[q].log /\ wk'[q].ran = wk[q].ran
    <3>0. row[q] \in Row /\ wk[q] \in Worker /\ Cancelled(wk[q]) \in Worker
          /\ Cancelled(wk[q]).ran = wk[q].ran
          /\ Ended(wk[q], "gone") \in Worker /\ Ended(wk[q], "gone").ran = wk[q].ran
      BY <1>0, CancelledType, CancelledFields, EndedType, EndedFields DEF TypeOK, Pc
    <3>1. row'[q] = row[q] \/ row'[q] = Finished(row[q], "interrupted")
      BY <1>4, <3>0 DEF Shutdown, ShutdownEnd, Crash
    <3>2. row'[q].log = row[q].log
      BY <3>0, <3>1 DEF Finished, Close, Row
    <3> DEFINE c == Cancelled(wk[q])
               e == Ended(wk[q], "gone")
    <3>3. \/ wk'[q] = wk[q] \/ wk'[q] = [c EXCEPT !.waiter = "shutdown"]
          \/ wk'[q] = [wk[q] EXCEPT !.beat = FALSE, !.waiter = "idle"]
          \/ wk'[q] = [e EXCEPT !.waiter = "idle"]
      BY <1>4 DEF Shutdown, ShutdownEnd, Crash
    <3> HIDE DEF c, e
    <3>4. c \in Worker /\ c.ran = wk[q].ran /\ e \in Worker /\ e.ran = wk[q].ran
      BY <3>0 DEF c, e
    <3> QED BY <3>0, <3>2, <3>3, <3>4, ZenonT(40) DEF Worker
  <2>3. CASE Run = {}
    BY <1>4, <2>3 DEF Ledger!LNext, Ledger!LClose, Ledger!MayClose
  <2>4. CASE Run # {}
    <3>1. PICK r \in Run : TRUE
      BY <2>4
    <3> QED BY <2>1, <2>2, <3>1, ClosesOrWrites DEF RunKept
  <2> QED BY <2>3, <2>4
<1> QED
  BY <1>1, <1>2, <1>3, <1>4 DEF Next

(* The runs keep the promise of the ledger: workers, leases, heartbeats, stops *)
(* and dying processes show to a caller only as openings, writes, effects and  *)
(* closings of tasks.                                                          *)
THEOREM Implements == Spec => ImplementsLedger
<1>1. Init => Ledger!LInit
  BY DEF Init, Ledger!LInit, NoRow, NoWorker
<1> QED
  BY <1>1, LedgerStep, Invariance, PTL DEF Spec, ImplementsLedger, Ledger!LSpec
=============================================================================
