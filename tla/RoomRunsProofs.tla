--------------------------- MODULE RoomRunsProofs ---------------------------
(* Theorems about RoomRuns, for every roster, every set of requests and        *)
(* mishaps, and every number of runs, tasks, cards and messages.               *)
EXTENDS RoomRuns, SequenceTheorems, TLAPS

-----------------------------------------------------------------------------
(* The parts of the state by their types; the boundary of the room's summary   *)
(* is left open.                                                               *)

AnyRoom == [here: BOOLEAN, archived: BOOLEAN, roster: SUBSET Member, summary: SUBSET Nat, upto: {room.upto}]
Typed == /\ runs \in Seq(Row) /\ wk \in Seq(Worker) /\ Len(wk) = Len(runs)
         /\ msgs \in Seq(Msg) /\ cards \in Nat /\ room \in AnyRoom

LEMMA TypedRun ==
  ASSUME Typed, NEW r \in Run
  PROVE  runs[r] \in Row /\ wk[r] \in Worker /\ r \in 1 .. Len(runs) /\ r \in 1 .. Len(wk)
BY ElementOfSeq, LenProperties DEF Typed, Run

LEMMA TypedTask ==
  ASSUME NEW x \in Row, NEW p \in DOMAIN x.tasks
  PROVE  x.tasks[p] \in Task
BY ElementOfSeq, LenProperties DEF Row

(* A task rewritten in place.                                                  *)
LEMMA TaskWritten ==
  ASSUME NEW x \in Row, NEW p, NEW t, p \in DOMAIN x.tasks => t \in Task
  PROVE  [x EXCEPT !.tasks = [x.tasks EXCEPT ![p] = t]] \in Row
<1>1. x.tasks \in Seq(Task) /\ DOMAIN x.tasks = 1 .. Len(x.tasks)
  BY LenProperties DEF Row
<1>2. [x.tasks EXCEPT ![p] = t] \in Seq(Task)
  <2>1. CASE p \in DOMAIN x.tasks
    BY <1>1, <2>1, ExceptSeq
  <2>2. CASE p \notin DOMAIN x.tasks
    <3>1. [x.tasks EXCEPT ![p] = t] = x.tasks
      BY <1>1, <2>2, LenProperties
    <3> QED
      BY <3>1, <1>1
  <2> QED
    BY <2>1, <2>2
<1> QED
  BY <1>2 DEF Row

LEMMA ShownType ==
  ASSUME NEW ms \in Seq(Msg), NEW x \in Row
  PROVE  Shown(ms, x) \in Seq(Msg) /\ Len(Shown(ms, x)) = Len(ms)
<1>1. DOMAIN ms = 1 .. Len(ms) /\ Len(ms) \in Nat
  BY LenProperties
<1> DEFINE s(i) == IF \E p \in DOMAIN x.tasks : x.tasks[p].msg = i
                   THEN [ms[i] EXCEPT !.status = x.tasks[CHOOSE p \in DOMAIN x.tasks : x.tasks[p].msg = i].status]
                   ELSE ms[i]
<1>2. ASSUME NEW i \in 1 .. Len(ms) PROVE s(i) \in Msg
  <2>1. ms[i] \in Msg
    BY ElementOfSeq
  <2>2. CASE \E p \in DOMAIN x.tasks : x.tasks[p].msg = i
    <3>1. (CHOOSE p \in DOMAIN x.tasks : x.tasks[p].msg = i) \in DOMAIN x.tasks
      BY <2>2
    <3>2. x.tasks[CHOOSE p \in DOMAIN x.tasks : x.tasks[p].msg = i].status \in TaskStatus
      BY <3>1, TypedTask DEF Task
    <3> QED
      BY <2>1, <3>2 DEF Msg
  <2> QED
    BY <2>1, <2>2
<1>3. Shown(ms, x) = [i \in 1 .. Len(ms) |-> s(i)]
  BY <1>1 DEF Shown
<1> HIDE DEF s
<1> QED
  BY <1>1, <1>2, <1>3, SeqDef, LenProperties

(* The rows after the expiry of the stale ones.                                *)
LEMMA ExpiredType ==
  ASSUME NEW x \in Row
  PROVE  Expired(x) \in Row /\ (~Active(x) => Expired(x) = x) /\ (Active(Expired(x)) => Active(x))
<1>1. CASE ~Stale(x)
  BY <1>1 DEF Expired
<1>2. CASE Stale(x)
  <2> DEFINE ts == [p \in DOMAIN x.tasks |-> IF Pending(x.tasks[p])
                              THEN [x.tasks[p] EXCEPT !.status = "failed", !.card = 0]
                              ELSE x.tasks[p]]
  <2>1. DOMAIN x.tasks = 1 .. Len(x.tasks) /\ Len(x.tasks) \in Nat
    BY LenProperties DEF Row
  <2>2. \A p \in 1 .. Len(x.tasks) : ts[p] \in Task
    BY <2>1, TypedTask DEF Task, TaskStatus
  <2>3. ts \in Seq(Task)
    <3>1. ts \in [1 .. Len(x.tasks) -> Task]
      BY <2>1, <2>2
    <3> HIDE DEF ts
    <3> QED
      BY <2>1, <3>1, SeqDef
  <2> HIDE DEF ts
  <2>4. Expired(x) = [x EXCEPT !.status = "interrupted", !.tasks = ts]
    BY <1>2 DEF Expired, ts
  <2> QED
    BY <2>3, <2>4, <1>2 DEF Row, RunStatus, Stale, Active, ActiveRuns
<1> QED
  BY <1>1, <1>2

LEMMA SettledType ==
  ASSUME Typed
  PROVE  /\ Settled \in Seq(Row) /\ Len(Settled) = Len(runs) /\ DOMAIN Settled = Run
         /\ \A r \in Run : Settled[r] = Expired(runs[r])
         /\ ShownSettled \in Seq(Msg) /\ Len(ShownSettled) = Len(msgs)
<1>1. Run = 1 .. Len(runs) /\ Len(runs) \in Nat
  BY LenProperties DEF Typed, Run
<1>2. \A r \in Run : Expired(runs[r]) \in Row
  BY TypedRun, ExpiredType
<1>3. Settled \in Seq(Row) /\ Len(Settled) = Len(runs) /\ DOMAIN Settled = Run
  BY <1>1, <1>2, SeqDef, LenProperties DEF Settled
<1>4. \A r \in Run : Settled[r] = Expired(runs[r]) /\ Settled[r] \in Row
  BY <1>2 DEF Settled
<1>5. ShownSettled \in Seq(Msg) /\ Len(ShownSettled) = Len(msgs)
  <2> DEFINE stale == {r \in Run : Stale(runs[r])}
  <2>1. CASE stale = {}
    BY <2>1 DEF ShownSettled, Typed
  <2>2. CASE stale # {}
    <3>1. (CHOOSE r \in stale : TRUE) \in Run
      BY <2>2
    <3>2. Settled[CHOOSE r \in stale : TRUE] \in Row
      BY <3>1, <1>4
    <3>3. ShownSettled = Shown(msgs, Settled[CHOOSE r \in stale : TRUE])
      BY <2>2 DEF ShownSettled
    <3> QED
      BY <3>2, <3>3, ShownType DEF Typed
  <2> QED
    BY <2>1, <2>2
<1> QED
  BY <1>3, <1>4, <1>5

-----------------------------------------------------------------------------
(* What holds of one run, its worker and its messages.                         *)

Working == {"begin", "compact", "work", "card", "answered", "halt"}

(* Its members speak in turn, and each message shows what its task has come    *)
(* to; no two tasks share a message.                                           *)
RowTurn(x)       == \A p \in DOMAIN x.tasks : x.tasks[p].msg # 0 =>
                        \A k \in 1 .. p - 1 : ~Pending(x.tasks[k])
RowFollows(x, ms) == \A p \in DOMAIN x.tasks : x.tasks[p].msg # 0 =>
                        x.tasks[p].msg \in DOMAIN ms /\ ms[x.tasks[p].msg].status = x.tasks[p].status
RowDistinct(x)   == \A p, k \in DOMAIN x.tasks :
                        x.tasks[p].msg = x.tasks[k].msg /\ x.tasks[p].msg # 0 => p = k

(* Its outcome, once it has ended.                                             *)
Found(x) == {x.tasks[p].status : p \in DOMAIN x.tasks}
RowSums(x) == ~Active(x) =>
    /\ Found(x) \cap ActiveTasks = {}
    /\ x.status = "completed" => Found(x) = {"completed"}
    /\ x.status = "partial" => "completed" \in Found(x) /\ Found(x) # {"completed"}
    /\ x.status = "failed" => "completed" \notin Found(x)

(* Its cards are numbered so far; while it goes on, an answer is for the card  *)
(* that is open.                                                               *)
RowCards(x, c) == \A p \in DOMAIN x.tasks :
    x.tasks[p].card <= c /\ (Active(x) => x.tasks[p].answer \in {0, x.tasks[p].card})

(* Its worker has finished with the members before its place, and has not come *)
(* to those after; the card it waits for is the one on display.                *)
Placed(x, w) ==
    /\ w.pc = "start" => \A k \in DOMAIN x.tasks : x.tasks[k].msg = 0
    /\ w.pc \in Working =>
          /\ w.pos \in DOMAIN x.tasks
          /\ \A k \in DOMAIN x.tasks : /\ k < w.pos => ~Pending(x.tasks[k])
                                       /\ k > w.pos => x.tasks[k].msg = 0
    /\ w.pc \in {"card", "answered"} => w.got \in {0, w.card}
    /\ w.pc = "card" /\ Active(x) => x.tasks[w.pos].card = w.card

RowGood(x, w, ms, c) == /\ Len(x.tasks) >= 1
                        /\ RowTurn(x) /\ RowFollows(x, ms) /\ RowDistinct(x)
                        /\ RowSums(x) /\ RowCards(x, c) /\ Placed(x, w)

(* Two runs have no message in common.                                         *)
Apart(x, y) == \A p \in DOMAIN x.tasks, k \in DOMAIN y.tasks :
    x.tasks[p].msg = y.tasks[k].msg => x.tasks[p].msg = 0

StoryInv == /\ Typed /\ OneActiveRun
            /\ \A r \in Run : RowGood(runs[r], wk[r], msgs, cards)
            /\ \A q, r \in Run : q # r => Apart(runs[q], runs[r])

LEMMA StoryIsOne == StoryInv => OneActiveRun /\ ResultsAgree
<1> SUFFICES ASSUME StoryInv PROVE OneActiveRun /\ ResultsAgree
  OBVIOUS
<1>1. InTurn /\ MessageFollowsTask /\ OutcomeSumsUp /\ OwnAnswer
  BY DEF StoryInv, RowGood, RowTurn, RowFollows, RowSums, Placed, Found,
         InTurn, MessageFollowsTask, OutcomeSumsUp, OwnAnswer
<1> QED
  BY <1>1 DEF StoryInv, ResultsAgree

-----------------------------------------------------------------------------
(* Steps on one run.                                                           *)

LEMMA TasksAreThere ==
  ASSUME NEW x \in Row
  PROVE  DOMAIN x.tasks = 1 .. Len(x.tasks) /\ Len(x.tasks) \in Nat
BY LenProperties DEF Row

SameTalk(x, y) == /\ DOMAIN x.tasks = DOMAIN y.tasks
                  /\ \A p \in DOMAIN y.tasks : x.tasks[p].msg = y.tasks[p].msg

(* Displaying a run gives its messages the status of their tasks, and leaves   *)
(* the messages of the other runs as they are.                                 *)
LEMMA ShownFollows ==
  ASSUME NEW ms \in Seq(Msg), NEW x \in Row, RowDistinct(x),
         \A p \in DOMAIN x.tasks : x.tasks[p].msg # 0 => x.tasks[p].msg \in DOMAIN ms
  PROVE  /\ RowFollows(x, Shown(ms, x))
         /\ \A y \in Row : Apart(x, y) /\ RowFollows(y, ms) => RowFollows(y, Shown(ms, x))
<1>1. DOMAIN Shown(ms, x) = DOMAIN ms
  BY DEF Shown
<1>2. 0 \notin DOMAIN ms
  BY LenProperties
<1>3. ASSUME NEW p \in DOMAIN x.tasks, x.tasks[p].msg # 0
      PROVE  Shown(ms, x)[x.tasks[p].msg].status = x.tasks[p].status
  <2> DEFINE i == x.tasks[p].msg
             k == CHOOSE k \in DOMAIN x.tasks : x.tasks[k].msg = i
  <2>1. i \in DOMAIN ms /\ ms[i] \in Msg
    BY <1>3, LenProperties, ElementOfSeq
  <2>2. k \in DOMAIN x.tasks /\ x.tasks[k].msg = i
    OBVIOUS
  <2>3. k = p
    BY <2>2, <1>3 DEF RowDistinct
  <2>4. Shown(ms, x)[i] = [ms[i] EXCEPT !.status = x.tasks[k].status]
    BY <2>1, <2>2 DEF Shown
  <2> HIDE DEF k
  <2> QED
    BY <2>1, <2>3, <2>4 DEF Msg
<1>4. ASSUME NEW i \in DOMAIN ms, \A p \in DOMAIN x.tasks : x.tasks[p].msg # i
      PROVE  Shown(ms, x)[i] = ms[i]
  BY <1>4 DEF Shown
<1>5. ASSUME NEW y \in Row, Apart(x, y), RowFollows(y, ms) PROVE RowFollows(y, Shown(ms, x))
  BY <1>1, <1>2, <1>4, <1>5 DEF RowFollows, Apart
<1> QED
  BY <1>1, <1>3, <1>5 DEF RowFollows

(* Written by a step on one run: the story of the room goes on, and a run that *)
(* has ended stays as it is.                                                   *)
Goes == StoryInv' /\ \A q \in Run : Frozen(runs[q], runs'[q])

TypedRoom(x) == x \in [here: BOOLEAN, archived: BOOLEAN, roster: SUBSET Member, summary: SUBSET Nat, upto: {x.upto}]

LEMMA OneRow ==
  ASSUME StoryInv, NEW r \in Run, NEW x \in Row, NEW w \in Worker,
         runs' = [runs EXCEPT ![r] = x], wk' = [wk EXCEPT ![r] = w],
         msgs' \in Seq(Msg), cards' \in Nat, cards' >= cards, TypedRoom(room'),
         ~Active(runs[r]) => x = runs[r],
         RowGood(x, w, msgs', cards'),
         \A q \in Run \ {r} : RowFollows(runs[q], msgs') /\ Apart(x, runs[q])
  PROVE  Goes
<1>t. /\ Typed /\ runs \in Seq(Row) /\ wk \in Seq(Worker) /\ Len(wk) = Len(runs)
      /\ r \in 1 .. Len(runs) /\ Run = 1 .. Len(runs) /\ DOMAIN wk = Run /\ cards \in Nat
  BY TypedRun, LenProperties DEF StoryInv, Typed, Run
<1>1. /\ runs' \in Seq(Row) /\ Len(runs') = Len(runs) /\ Run' = Run
      /\ \A q \in Run : runs'[q] = IF q = r THEN x ELSE runs[q]
  <2>1. runs' \in Seq(Row) /\ Len(runs') = Len(runs)
        /\ \A q \in 1 .. Len(runs) : runs'[q] = IF q = r THEN x ELSE runs[q]
    BY <1>t, ExceptSeq
  <2> QED
    BY <2>1, <1>t, LenProperties DEF Run
<1>2. /\ wk' \in Seq(Worker) /\ Len(wk') = Len(wk)
      /\ \A q \in Run : wk'[q] = IF q = r THEN w ELSE wk[q]
  BY <1>t, ExceptSeq
<1>3. Typed'
  BY <1>1, <1>2, <1>t DEF Typed, AnyRoom, TypedRoom
<1>4. OneActiveRun'
  BY <1>1 DEF StoryInv, OneActiveRun
<1>5. ASSUME NEW q \in Run, q # r PROVE RowGood(runs[q], wk[q], msgs', cards')
  <2>1. runs[q] \in Row
    BY <1>t, TypedRun
  <2>2. \A p \in DOMAIN runs[q].tasks : runs[q].tasks[p].card \in Nat
    BY <2>1, TypedTask DEF Task
  <2> QED
    BY <1>5, <2>2, <1>t DEF StoryInv, RowGood, RowCards
<1>6. \A q \in Run : RowGood(runs'[q], wk'[q], msgs', cards')
  BY <1>1, <1>2, <1>5
<1>7. \A q, k \in Run : q # k => Apart(runs'[q], runs'[k])
  BY <1>1 DEF StoryInv, Apart
<1>8. \A q \in Run : Frozen(runs[q], runs'[q])
  BY <1>1 DEF Frozen
<1> QED
  BY <1>1, <1>3, <1>4, <1>6, <1>7, <1>8 DEF Goes, StoryInv

(* The two ways a step treats the messages when it gives no task a new one.    *)
LEMMA Quiet ==
  ASSUME StoryInv, NEW r \in Run, NEW x \in Row, NEW w \in Worker,
         runs' = [runs EXCEPT ![r] = x], wk' = [wk EXCEPT ![r] = w],
         msgs' = msgs, cards' = cards, TypedRoom(room'),
         ~Active(runs[r]) => x = runs[r],
         RowGood(x, w, msgs, cards), SameTalk(x, runs[r])
  PROVE  Goes
<1>1. \A q \in Run \ {r} : RowFollows(runs[q], msgs) /\ Apart(x, runs[q])
  BY DEF StoryInv, RowGood, SameTalk, Apart
<1>2. msgs \in Seq(Msg) /\ cards \in Nat /\ cards >= cards
  BY DEF StoryInv, Typed
<1> QED
  BY <1>1, <1>2, OneRow

LEMMA Told ==
  ASSUME StoryInv, NEW r \in Run, NEW x \in Row, NEW w \in Worker,
         runs' = [runs EXCEPT ![r] = x], wk' = [wk EXCEPT ![r] = w],
         msgs' = Shown(msgs, x), cards' \in Nat, cards' >= cards, TypedRoom(room'),
         Active(runs[r]), SameTalk(x, runs[r]),
         RowTurn(x), RowSums(x), RowCards(x, cards'), Placed(x, w)
  PROVE  Goes
<1>1. msgs \in Seq(Msg) /\ msgs' \in Seq(Msg)
  BY ShownType DEF StoryInv, Typed
<1>2. RowDistinct(x) /\ \A p \in DOMAIN x.tasks : x.tasks[p].msg # 0 => x.tasks[p].msg \in DOMAIN msgs
  BY DEF StoryInv, RowGood, RowDistinct, RowFollows, SameTalk
<1>3. ASSUME NEW q \in Run \ {r} PROVE RowFollows(runs[q], msgs') /\ Apart(x, runs[q])
  <2>1. Apart(x, runs[q])
    BY DEF StoryInv, SameTalk, Apart
  <2>2. runs[q] \in Row /\ RowFollows(runs[q], msgs)
    BY TypedRun DEF StoryInv, RowGood
  <2> QED
    BY <1>1, <1>2, <2>1, <2>2, ShownFollows
<1>4. Len(x.tasks) >= 1
  <2>1. runs[r] \in Row /\ Len(runs[r].tasks) >= 1
    BY TypedRun DEF StoryInv, RowGood
  <2> QED
    BY <2>1, TasksAreThere DEF SameTalk
<1>5. RowGood(x, w, msgs', cards')
  BY <1>1, <1>2, <1>4, ShownFollows DEF RowGood
<1> QED
  BY <1>1, <1>3, <1>5, OneRow

-----------------------------------------------------------------------------
(* Commands: the stale run is expired first.                                   *)

Tale(rs, ws, ms, c) == /\ \A r \in DOMAIN rs : RowGood(rs[r], ws[r], ms, c)
                       /\ \A q, r \in DOMAIN rs : q # r => Apart(rs[q], rs[r])

(* A run that expires: its tasks end, and what they said remains.              *)
LEMMA ExpiredGood ==
  ASSUME NEW x \in Row, Stale(x), NEW w \in Worker, NEW ms, NEW c \in Nat, RowGood(x, w, ms, c)
  PROVE  LET y == Expired(x) IN
         /\ Len(y.tasks) >= 1 /\ SameTalk(y, x) /\ ~Active(y)
         /\ RowTurn(y) /\ RowSums(y) /\ RowCards(y, c) /\ Placed(y, w)
<1> DEFINE y == Expired(x)
           ts == [p \in DOMAIN x.tasks |-> IF Pending(x.tasks[p])
                              THEN [x.tasks[p] EXCEPT !.status = "failed", !.card = 0]
                              ELSE x.tasks[p]]
<1>1. y \in Row /\ y.status = "interrupted" /\ y.tasks = ts
  BY ExpiredType DEF Expired, Row
<1>2. DOMAIN ts = DOMAIN x.tasks /\ DOMAIN x.tasks = 1 .. Len(x.tasks) /\ Len(x.tasks) \in Nat
  BY TasksAreThere
<1>3. ASSUME NEW p \in DOMAIN x.tasks
      PROVE  /\ ts[p].msg = x.tasks[p].msg /\ ~Pending(ts[p])
             /\ ts[p].card \in {0, x.tasks[p].card}
  <2>1. x.tasks[p] \in Task
    BY TypedTask
  <2> QED
    BY <2>1 DEF Task, Pending, ActiveTasks
<1> HIDE DEF ts
<1>4. SameTalk(y, x) /\ ~Active(y)
  BY <1>1, <1>2, <1>3 DEF SameTalk, Active, ActiveRuns
<1>5. RowTurn(y) /\ RowSums(y)
  BY <1>1, <1>2, <1>3 DEF RowTurn, RowSums, Found, Pending
<1>6. RowCards(y, c)
  BY <1>1, <1>2, <1>3, <1>4 DEF RowGood, RowCards
<1>7. Placed(y, w)
  BY <1>1, <1>2, <1>3, <1>4 DEF RowGood, Placed
<1>8. Len(y.tasks) >= 1
  BY <1>1, <1>2, TasksAreThere DEF RowGood
<1> QED
  BY <1>4, <1>5, <1>6, <1>7, <1>8

LEMMA SettledTale ==
  ASSUME StoryInv
  PROVE  /\ Tale(Settled, wk, ShownSettled, cards)
         /\ \A r \in Run : /\ Active(Settled[r]) => Active(runs[r])
                           /\ ~Active(runs[r]) => Settled[r] = runs[r]
<1>t. /\ Typed /\ DOMAIN Settled = Run /\ \A r \in Run : Settled[r] = Expired(runs[r])
      /\ \A r \in Run : runs[r] \in Row /\ wk[r] \in Worker
  BY SettledType, TypedRun DEF StoryInv
<1>1. \A r \in Run : /\ Active(Settled[r]) => Active(runs[r])
                     /\ ~Active(runs[r]) => Settled[r] = runs[r]
  BY <1>t, ExpiredType
<1>2. Tale(Settled, wk, ShownSettled, cards)
  <2>1. CASE \A r \in Run : ~Stale(runs[r])
    <3>1. ShownSettled = msgs
      BY <2>1 DEF ShownSettled
    <3>2. \A r \in Run : Settled[r] = runs[r]
      BY <2>1, <1>t DEF Expired
    <3> QED
      BY <3>1, <3>2, <1>t DEF StoryInv, Tale
  <2>2. ASSUME NEW s \in Run, Stale(runs[s]) PROVE Tale(Settled, wk, ShownSettled, cards)
    <3> DEFINE y == Expired(runs[s])
    <3>1. \A r \in Run : Stale(runs[r]) => r = s
      BY <2>2 DEF StoryInv, OneActiveRun, Stale
    <3>2. {r \in Run : Stale(runs[r])} = {s}
      BY <2>2, <3>1
    <3>3. ShownSettled = Shown(msgs, y)
      BY <3>2, <1>t DEF ShownSettled
    <3>4. y \in Row /\ RowGood(runs[s], wk[s], msgs, cards) /\ msgs \in Seq(Msg) /\ cards \in Nat
      BY <1>t, ExpiredType DEF StoryInv, Typed
    <3>5. /\ Len(y.tasks) >= 1 /\ SameTalk(y, runs[s])
          /\ RowTurn(y) /\ RowSums(y) /\ RowCards(y, cards) /\ Placed(y, wk[s])
      BY <2>2, <3>4, <1>t, ExpiredGood
    <3> HIDE DEF y
    <3>6. RowDistinct(y) /\ \A p \in DOMAIN y.tasks : y.tasks[p].msg # 0 => y.tasks[p].msg \in DOMAIN msgs
      BY <3>4, <3>5 DEF RowGood, RowDistinct, RowFollows, SameTalk
    <3>7. RowGood(y, wk[s], ShownSettled, cards)
      BY <3>3, <3>4, <3>5, <3>6, ShownFollows DEF RowGood
    <3>8. \A r \in Run \ {s} : Settled[r] = runs[r] /\ Apart(y, runs[r])
      <4>1. \A r \in Run \ {s} : Settled[r] = runs[r]
        BY <3>1, <1>t DEF Expired
      <4>2. \A r \in Run \ {s} : Apart(runs[s], runs[r])
        BY DEF StoryInv
      <4> QED
        BY <4>1, <4>2, <3>5 DEF Apart, SameTalk
    <3>9. \A r \in Run \ {s} : RowGood(runs[r], wk[r], ShownSettled, cards)
      <4>1. \A r \in Run \ {s} : RowFollows(runs[r], ShownSettled)
        BY <3>3, <3>4, <3>6, <3>8, <1>t, ShownFollows DEF StoryInv, RowGood
      <4> QED
        BY <4>1 DEF StoryInv, RowGood
    <3>10. Settled[s] = y
      BY <1>t DEF y
    <3> QED
      BY <3>7, <3>8, <3>9, <3>10, <1>t DEF Tale, StoryInv, Apart
  <2> QED
    BY <2>1, <2>2
<1> QED
  BY <1>1, <1>2

LEMMA AppendedKeeps ==
  ASSUME NEW S, NEW s \in Seq(S), NEW e \in S
  PROVE  \A i \in DOMAIN s : i \in DOMAIN Append(s, e) /\ Append(s, e)[i] = s[i]
<1>1. Append(s, e) \in Seq(S) /\ Len(Append(s, e)) = Len(s) + 1 /\ \A i \in 1 .. Len(s) : Append(s, e)[i] = s[i]
  BY AppendProperties
<1>2. DOMAIN s = 1 .. Len(s) /\ Len(s) \in Nat
  BY LenProperties
<1>3. DOMAIN Append(s, e) = 1 .. Len(Append(s, e))
  BY <1>1, LenProperties
<1> QED
  BY <1>1, <1>2, <1>3

(* The room is settled, and may get a message of its own.                      *)
LEMMA SettledGoes ==
  ASSUME StoryInv, NEW m \in Msg, runs' = Settled, msgs' \in {ShownSettled, Append(ShownSettled, m)},
         wk' = wk, cards' = cards, TypedRoom(room')
  PROVE  Goes
<1>t. /\ Typed /\ Settled \in Seq(Row) /\ Len(Settled) = Len(runs) /\ DOMAIN Settled = Run
      /\ ShownSettled \in Seq(Msg)
  BY SettledType DEF StoryInv
<1>1. msgs' \in Seq(Msg)
  BY <1>t, AppendProperties
<1>a. \A i \in DOMAIN ShownSettled : i \in DOMAIN msgs' /\ msgs'[i] = ShownSettled[i]
  BY <1>t, AppendedKeeps
<1>2. ASSUME NEW x, RowFollows(x, ShownSettled) PROVE RowFollows(x, msgs')
  BY <1>2, <1>a DEF RowFollows
<1>3. \A r \in Run : RowGood(Settled[r], wk[r], msgs', cards)
  BY <1>2, <1>t, SettledTale DEF Tale, RowGood
<1>4. OneActiveRun'
  BY <1>t, SettledTale DEF StoryInv, OneActiveRun, Run
<1>5. Typed'
  BY <1>1, <1>t DEF Typed, AnyRoom, TypedRoom
<1>6. StoryInv'
  BY <1>3, <1>4, <1>5, <1>t, SettledTale DEF StoryInv, Tale, Run
<1>7. \A r \in Run : Frozen(runs[r], runs'[r])
  BY SettledTale DEF Frozen
<1> QED
  BY <1>6, <1>7 DEF Goes

(* Every read of the room.                                                     *)
LEMMA VisitGoes == ASSUME StoryInv, Visit PROVE Goes
<1>1. runs' = Settled /\ msgs' = ShownSettled /\ wk' = wk /\ room' = room /\ cards' = cards
  BY DEF Visit
<1>2. System \in Msg /\ TypedRoom(room)
  BY DEF System, Msg, TaskStatus, StoryInv, Typed, AnyRoom, TypedRoom
<1> QED
  BY <1>1, <1>2, SettledGoes

LEMMA EditGoes == ASSUME StoryInv, Edit \/ Delete PROVE Goes
<1>1. System \in Msg /\ room \in AnyRoom
  BY DEF System, Msg, TaskStatus, StoryInv, Typed
<1>2. TypedRoom(room') /\ runs' = Settled /\ wk' = wk /\ cards' = cards
      /\ msgs' \in {ShownSettled, Append(ShownSettled, System)}
  BY <1>1 DEF Edit, Delete, AnyRoom, TypedRoom
<1> QED
  BY <1>1, <1>2, SettledGoes

(* What a task has been given to read plays no part in the story.              *)
SameButReading(x, y) ==
    /\ x.status = y.status /\ DOMAIN x.tasks = DOMAIN y.tasks
    /\ \A p \in DOMAIN y.tasks : [x.tasks[p] EXCEPT !.snap = Unread] = [y.tasks[p] EXCEPT !.snap = Unread]

LEMMA ReadingKeeps ==
  ASSUME NEW x \in Row, NEW y \in Row, SameButReading(x, y)
  PROVE  /\ SameTalk(x, y) /\ (Active(x) <=> Active(y)) /\ Frozen(y, x)
         /\ \A w, ms, c : RowGood(y, w, ms, c) => RowGood(x, w, ms, c)
<1>1. ASSUME NEW p \in DOMAIN y.tasks
      PROVE  /\ x.tasks[p].status = y.tasks[p].status /\ x.tasks[p].msg = y.tasks[p].msg
             /\ x.tasks[p].card = y.tasks[p].card /\ x.tasks[p].answer = y.tasks[p].answer
  <2>1. x.tasks[p] \in Task /\ y.tasks[p] \in Task
    BY TypedTask DEF SameButReading
  <2>2. ASSUME NEW a \in Task
        PROVE  /\ [a EXCEPT !.snap = Unread].status = a.status /\ [a EXCEPT !.snap = Unread].msg = a.msg
               /\ [a EXCEPT !.snap = Unread].card = a.card /\ [a EXCEPT !.snap = Unread].answer = a.answer
    BY DEF Task
  <2>3. [x.tasks[p] EXCEPT !.snap = Unread] = [y.tasks[p] EXCEPT !.snap = Unread]
    BY DEF SameButReading
  <2> DEFINE a == [x.tasks[p] EXCEPT !.snap = Unread]
             b == [y.tasks[p] EXCEPT !.snap = Unread]
  <2>4. /\ a.status = x.tasks[p].status /\ a.msg = x.tasks[p].msg
        /\ a.card = x.tasks[p].card /\ a.answer = x.tasks[p].answer
    BY <2>1, <2>2
  <2>5. /\ b.status = y.tasks[p].status /\ b.msg = y.tasks[p].msg
        /\ b.card = y.tasks[p].card /\ b.answer = y.tasks[p].answer
    BY <2>1, <2>2
  <2> HIDE DEF a, b
  <2>6. a = b
    BY <2>3 DEF a, b
  <2> QED
    BY <2>4, <2>5, <2>6
<1>2. DOMAIN x.tasks = DOMAIN y.tasks /\ x.status = y.status /\ Len(x.tasks) = Len(y.tasks)
  BY TasksAreThere DEF SameButReading
<1>3. Found(x) = Found(y)
  BY <1>1, <1>2 DEF Found
<1>d. DOMAIN y.tasks = 1 .. Len(y.tasks) /\ Len(y.tasks) \in Nat
  BY TasksAreThere
<1>4. ASSUME NEW w, NEW ms, NEW c, RowGood(y, w, ms, c) PROVE RowGood(x, w, ms, c)
  <2>1. RowTurn(x)
    BY <1>1, <1>2, <1>4, <1>d, SMTT(20) DEF RowGood, RowTurn, Pending
  <2>2. RowFollows(x, ms) /\ RowDistinct(x)
    BY <1>1, <1>2, <1>4 DEF RowGood, RowFollows, RowDistinct
  <2>3. RowSums(x) /\ RowCards(x, c)
    BY <1>1, <1>2, <1>3, <1>4 DEF RowGood, RowSums, RowCards, Active
  <2>4. Placed(x, w)
    BY <1>1, <1>2, <1>4 DEF RowGood, Placed, Active, Pending, Working
  <2> QED
    BY <2>1, <2>2, <2>3, <2>4, <1>2, <1>4 DEF RowGood
<1> QED
  BY <1>1, <1>2, <1>4 DEF SameTalk, Active, Frozen, SameButReading

(* A run that is added: nobody else is under way, and its tasks say nothing    *)
(* yet.  A retry may complete what a failed task had been given to read.       *)
LEMMA EnqueueGoes ==
  ASSUME StoryInv, NEW q \in Request, NEW tasks \in Seq(Task), NEW settled \in Seq(Row),
         Enqueue(q, tasks, settled), Len(tasks) >= 1,
         \A p \in DOMAIN tasks : tasks[p].msg = 0 /\ tasks[p].card = 0 /\ tasks[p].answer = 0,
         Len(settled) = Len(runs),
         \A r \in Run : SameButReading(settled[r], Settled[r])
  PROVE  Goes
<1> DEFINE n == Len(runs) + 1
           x == [req |-> q, status |-> "queued", stop |-> FALSE, fresh |-> TRUE, tasks |-> tasks]
           m == [run |-> n, user |-> TRUE, status |-> "completed"]
<1>t. /\ Typed /\ Settled \in Seq(Row) /\ Len(Settled) = Len(runs) /\ DOMAIN Settled = Run
      /\ ShownSettled \in Seq(Msg) /\ Len(runs) \in Nat /\ Run = 1 .. Len(runs) /\ wk \in Seq(Worker)
      /\ Len(wk) = Len(runs) /\ cards \in Nat /\ room \in AnyRoom
  BY SettledType, LenProperties DEF StoryInv, Typed, Run
<1>n. n \in Nat
  BY <1>t
<1>1. x \in Row /\ m \in Msg /\ Asleep \in Worker
  <2>1. x \in Row
    BY DEF Row, RunStatus, ActiveRuns
  <2>2. m \in Msg
    BY <1>n DEF Msg, TaskStatus
  <2>3. Asleep \in Worker
    BY DEF Asleep, Worker, Phase
  <2> QED
    BY <2>1, <2>2, <2>3
<1>2. /\ runs' = Append(settled, x) /\ msgs' = Append(ShownSettled, m) /\ wk' = Append(wk, Asleep)
      /\ room' = room /\ cards' = cards
      /\ \A r \in Run : ~Active(Settled[r])
  BY DEF Enqueue, Idle
<1>x. x.tasks = tasks /\ x.status = "queued"
  OBVIOUS
<1> HIDE DEF x, m
<1>3. /\ runs' \in Seq(Row) /\ Len(runs') = n /\ Run' = 1 .. n
      /\ \A r \in Run : runs'[r] = settled[r]
      /\ runs'[n] = x
  <2>1. /\ runs' \in Seq(Row) /\ Len(runs') = n /\ runs'[n] = x
        /\ \A r \in 1 .. Len(runs) : runs'[r] = settled[r]
    BY <1>1, <1>2, <1>t, AppendProperties
  <2>2. DOMAIN runs' = 1 .. Len(runs')
    BY <2>1, LenProperties
  <2>3. Run' = 1 .. n
    BY <2>1, <2>2 DEF Run
  <2>4. \A r \in Run : runs'[r] = settled[r]
    BY <2>1, <1>t
  <2> QED
    BY <2>1, <2>3, <2>4
<1>4. /\ wk' \in Seq(Worker) /\ Len(wk') = n /\ \A r \in Run : wk'[r] = wk[r]
      /\ wk'[n] = Asleep
  BY <1>1, <1>2, <1>t, AppendProperties
<1>5. msgs' \in Seq(Msg)
  BY <1>1, <1>2, <1>t, AppendProperties
<1>6. ASSUME NEW y, RowFollows(y, ShownSettled) PROVE RowFollows(y, msgs')
  <2>1. \A i \in DOMAIN ShownSettled : i \in DOMAIN msgs' /\ msgs'[i] = ShownSettled[i]
    BY <1>1, <1>2, <1>t, AppendedKeeps
  <2> QED
    BY <2>1, <1>6 DEF RowFollows
<1>7. ASSUME NEW r \in Run
      PROVE  /\ RowGood(settled[r], wk[r], msgs', cards) /\ SameTalk(settled[r], Settled[r])
             /\ ~Active(settled[r]) /\ Frozen(runs[r], settled[r])
  <2>1. settled[r] \in Row /\ Settled[r] \in Row
    BY <1>t, ElementOfSeq
  <2>2. RowGood(Settled[r], wk[r], ShownSettled, cards) /\ ~Active(Settled[r])
        /\ (~Active(runs[r]) => Settled[r] = runs[r])
    BY <1>2, <1>t, SettledTale DEF Tale
  <2>3. RowGood(Settled[r], wk[r], msgs', cards)
    BY <2>2, <1>6 DEF RowGood
  <2>4. RowGood(settled[r], wk[r], msgs', cards) /\ SameTalk(settled[r], Settled[r])
        /\ ~Active(settled[r]) /\ Frozen(Settled[r], settled[r])
    BY <2>1, <2>2, <2>3, ReadingKeeps
  <2> QED
    BY <2>2, <2>4 DEF Frozen
<1>8. RowGood(x, Asleep, msgs', cards)
  <2>1. x.tasks \in Seq(Task) /\ DOMAIN x.tasks = 1 .. Len(x.tasks) /\ x.status \in ActiveRuns
        /\ \A p \in DOMAIN x.tasks : x.tasks[p].msg = 0 /\ x.tasks[p].card = 0 /\ x.tasks[p].answer = 0
    BY <1>x, LenProperties DEF ActiveRuns
  <2>2. Asleep.pc = "start" /\ Active(x)
    BY <2>1 DEF Asleep, Active
  <2> QED
    BY <2>1, <2>2, <1>x, <1>t DEF RowGood, RowTurn, RowFollows, RowDistinct, RowSums, RowCards, Placed, Working
<1>9. \A r, k \in Run : r # k => Apart(settled[r], settled[k])
  <2>1. \A r, k \in Run : r # k => Apart(Settled[r], Settled[k])
    BY <1>t, SettledTale DEF Tale
  <2> QED
    BY <2>1, <1>7, SMTT(20) DEF Apart, SameTalk
<1>10. \A r \in Run : Apart(x, settled[r]) /\ Apart(settled[r], x)
  BY <1>x DEF Apart
<1>11. Typed'
  BY <1>2, <1>3, <1>4, <1>5, <1>t DEF Typed, AnyRoom
<1>12. OneActiveRun'
  BY <1>3, <1>7, <1>t DEF OneActiveRun
<1>13. \A r \in 1 .. n : r \in Run \/ r = n
  BY <1>t
<1>14. \A r \in Run' : RowGood(runs'[r], wk'[r], msgs', cards')
  BY <1>2, <1>3, <1>4, <1>7, <1>8, <1>13
<1>15. \A r, k \in Run' : r # k => Apart(runs'[r], runs'[k])
  BY <1>3, <1>9, <1>10, <1>13
<1>16. \A r \in Run : Frozen(runs[r], runs'[r])
  BY <1>3, <1>7
<1> QED
  BY <1>11, <1>12, <1>14, <1>15, <1>16 DEF Goes, StoryInv

LEMMA SubmitGoes ==
  ASSUME StoryInv, NEW q \in Request, NEW targets \in Targets, Submit(q, targets)
  PROVE  Goes
<1> DEFINE tasks == [p \in DOMAIN targets |-> NewTask(targets[p], Unread, FALSE)]
<1>1. targets \in Seq(Member) /\ targets # <<>>
  BY RoomAssumption DEF Targets, Member
<1>2. DOMAIN targets = 1 .. Len(targets) /\ Len(targets) \in Nat /\ Len(targets) >= 1
  BY <1>1, LenProperties, EmptySeq
<1>3. \A p \in 1 .. Len(targets) : /\ tasks[p] \in Task
                                   /\ tasks[p].msg = 0 /\ tasks[p].card = 0 /\ tasks[p].answer = 0
  BY <1>1, <1>2, ElementOfSeq DEF NewTask, Unread, Task, Snap, TaskStatus, ActiveTasks
<1>4. tasks \in [1 .. Len(targets) -> Task]
  BY <1>2, <1>3
<1>5. Enqueue(q, tasks, Settled)
  BY DEF Submit
<1> HIDE DEF tasks
<1>6. tasks \in Seq(Task) /\ Len(tasks) = Len(targets) /\ DOMAIN tasks = 1 .. Len(targets)
  <2>1. tasks \in Seq(Task)
    BY <1>2, <1>4, SeqDef
  <2> QED
    BY <2>1, <1>2, <1>4, LenProperties
<1>7. Settled \in Seq(Row) /\ Len(Settled) = Len(runs)
  BY SettledType DEF StoryInv
<1>8. \A r \in Run : SameButReading(Settled[r], Settled[r])
  BY DEF SameButReading
<1> QED
  BY <1>2, <1>3, <1>5, <1>6, <1>7, <1>8, EnqueueGoes

LEMMA HistoryTypes ==
  ASSUME Typed, NEW r \in Run
  PROVE  /\ History(r) \subseteq Nat /\ room.summary \subseteq Nat
         /\ \A p : Before(r, p) \subseteq Nat
<1>1. DOMAIN msgs \subseteq Nat
  BY LenProperties DEF Typed
<1> QED
  BY <1>1 DEF History, Before, Typed, AnyRoom

LEMMA RetryGoes ==
  ASSUME StoryInv, NEW q \in Request, NEW r \in Run, NEW p \in DOMAIN runs[r].tasks, Retry(q, r, p)
  PROVE  Goes
<1> DEFINE t == runs[r].tasks[p]
           snap == IF t.snap.known THEN t.snap
                   ELSE [known |-> TRUE, full |-> Before(r, p), summary |-> {}]
           z == Settled[r]
           u == [z.tasks[p] EXCEPT !.snap = snap]
           y == [z EXCEPT !.tasks = [z.tasks EXCEPT ![p] = u]]
           settled == [Settled EXCEPT ![r] = y]
           new == NewTask(t.member, snap, TRUE)
<1>t. /\ Typed /\ runs[r] \in Row /\ t \in Task /\ Settled \in Seq(Row) /\ Len(Settled) = Len(runs)
      /\ z \in Row /\ z = Expired(runs[r]) /\ r \in 1 .. Len(runs) /\ Run = 1 .. Len(runs)
      /\ DOMAIN Settled = Run
  BY SettledType, TypedRun, TypedTask, ElementOfSeq, LenProperties DEF StoryInv, Typed, Run
<1>1. snap \in Snap
  BY <1>t, HistoryTypes DEF Snap, Task
<1>2. new \in Task /\ new.msg = 0 /\ new.card = 0 /\ new.answer = 0
  BY <1>1, <1>t DEF NewTask, Task, TaskStatus, ActiveTasks
<1>3. Enqueue(q, <<new>>, [Settled EXCEPT ![r].tasks[p].snap = snap])
  BY DEF Retry
<1> HIDE DEF snap, new
<1>4. [Settled EXCEPT ![r].tasks[p].snap = snap] = settled
  OBVIOUS
<1>5. p \in DOMAIN z.tasks => u \in Task
  BY <1>1, <1>t, TypedTask DEF Task
<1>6. y \in Row /\ y.status = z.status /\ y.tasks = [z.tasks EXCEPT ![p] = u]
  <2>1. z \in Row
    BY <1>t
  <2>2. p \in DOMAIN z.tasks => u \in Task
    BY <1>5
  <2> HIDE DEF u, z
  <2>3. y \in Row
    BY <2>1, <2>2, TaskWritten
  <2>4. y.status = z.status
    BY <2>1 DEF Row
  <2>5. y.tasks = [z.tasks EXCEPT ![p] = u]
    BY <2>1 DEF Row
  <2> QED
    BY <2>3, <2>4, <2>5
<1>7. SameButReading(y, z)
  <2>1. DOMAIN y.tasks = DOMAIN z.tasks
    BY <1>6
  <2>2. ASSUME NEW k \in DOMAIN z.tasks
        PROVE  [y.tasks[k] EXCEPT !.snap = Unread] = [z.tasks[k] EXCEPT !.snap = Unread]
    <3>1. CASE k = p
      <4>1. y.tasks[p] = u /\ z.tasks[p] \in Task
        BY <3>1, <1>6, <1>t, TypedTask
      <4> QED
        BY <3>1, <4>1 DEF Task
    <3>2. CASE k # p
      BY <3>2, <1>6
    <3> QED
      BY <3>1, <3>2
  <2> QED
    BY <2>1, <2>2, <1>6 DEF SameButReading
<1> HIDE DEF y, z
<1>8. settled \in Seq(Row) /\ Len(settled) = Len(runs)
      /\ \A k \in Run : settled[k] = IF k = r THEN y ELSE Settled[k]
  BY <1>6, <1>t, ExceptSeq
<1>9. \A k \in Run : SameButReading(settled[k], Settled[k])
  <2>1. SameButReading(settled[r], Settled[r])
    BY <1>7, <1>8 DEF z
  <2>2. \A k \in Run \ {r} : settled[k] = Settled[k]
    BY <1>8
  <2> QED
    BY <2>1, <2>2 DEF SameButReading
<1> DEFINE ts == <<new>>
<1>10. ts \in Seq(Task) /\ Len(ts) >= 1 /\ \A k \in DOMAIN ts : ts[k] = new
  BY <1>2
<1> HIDE DEF settled
<1>11. Enqueue(q, ts, settled)
  BY <1>3, <1>4
<1> HIDE DEF ts
<1> QED
  BY <1>2, <1>8, <1>9, <1>10, <1>11, EnqueueGoes

-----------------------------------------------------------------------------
(* A worker that only moves.                                                   *)

LEMMA Kept ==
  ASSUME Typed, NEW r \in Run
  PROVE  [runs EXCEPT ![r] = runs[r]] = runs /\ [wk EXCEPT ![r] = wk[r]] = wk
BY LenProperties DEF Typed

LEMMA WorkerGoes ==
  ASSUME StoryInv, NEW r \in Run, NEW w \in Worker, wk' = [wk EXCEPT ![r] = w],
         UNCHANGED <<room, msgs, runs, cards>>, Placed(runs[r], w)
  PROVE  Goes
<1>1. runs[r] \in Row /\ Typed /\ runs' = [runs EXCEPT ![r] = runs[r]]
  BY TypedRun, Kept DEF StoryInv
<1>2. TypedRoom(room')
  BY DEF StoryInv, Typed, AnyRoom, TypedRoom
<1>3. RowGood(runs[r], w, msgs, cards) /\ SameTalk(runs[r], runs[r])
  BY DEF StoryInv, RowGood, SameTalk
<1> QED
  BY <1>1, <1>2, <1>3, Quiet

(* Leaving is possible everywhere.                                             *)
LEMMA LeftGood ==
  ASSUME StoryInv, NEW r \in Run, NEW w \in Worker,
         \/ w.pc \in {"over", "none"}
         \/ /\ w.pc \in {"halt", "work"} /\ wk[r].pc \in Working
            /\ w.pos = wk[r].pos
  PROVE  Placed(runs[r], w)
BY DEF StoryInv, RowGood, Placed, Working

LEMMA GoGoes ==
  ASSUME StoryInv, NEW r \in Run, NEW pc \in {"over", "none", "halt", "work"}, Go(r, pc),
         pc \in {"halt", "work"} => wk[r].pc \in Working, UNCHANGED <<room, msgs, runs, cards>>
  PROVE  Goes
<1> DEFINE w == [wk[r] EXCEPT !.pc = pc]
<1>1. wk[r] \in Worker
  BY TypedRun DEF StoryInv
<1>2. w \in Worker /\ w.pc = pc /\ w.pos = wk[r].pos
  BY <1>1 DEF Worker, Phase
<1>3. wk' = [wk EXCEPT ![r] = w]
  BY DEF Go
<1> HIDE DEF w
<1> QED
  BY <1>2, <1>3, LeftGood, WorkerGoes

LEMMA LeavesGoes ==
  ASSUME StoryInv, NEW r \in Run, NEW pc \in {"over", "none", "halt"}, NEW why \in {"", "stopped", "interrupted"},
         wk' = [wk EXCEPT ![r].pc = pc, ![r].why = why] \/ wk' = [wk EXCEPT ![r].why = why, ![r].pc = pc],
         pc = "halt" => wk[r].pc \in Working, UNCHANGED <<room, msgs, runs, cards>>
  PROVE  Goes
<1> DEFINE w == [wk[r] EXCEPT !.pc = pc, !.why = why]
<1>1. wk[r] \in Worker
  BY TypedRun DEF StoryInv
<1>2. w \in Worker /\ w.pc = pc /\ w.pos = wk[r].pos
  BY <1>1 DEF Worker, Phase
<1>3. wk' = [wk EXCEPT ![r] = w]
  BY <1>1 DEF Worker
<1> HIDE DEF w
<1> QED
  BY <1>2, <1>3, LeftGood, WorkerGoes

LEMMA TakeAnswerGoes == ASSUME StoryInv, NEW r \in Run, TakeAnswer(r) PROVE Goes
<1> DEFINE w == [wk[r] EXCEPT !.pc = "answered"]
<1>1. wk[r] \in Worker /\ Placed(runs[r], wk[r])
  BY TypedRun DEF StoryInv, RowGood
<1>2. w \in Worker /\ w.pc = "answered" /\ w.pos = wk[r].pos /\ w.got = wk[r].got /\ w.card = wk[r].card
  BY <1>1 DEF Worker, Phase
<1>3. wk' = [wk EXCEPT ![r] = w] /\ wk[r].pc = "card" /\ UNCHANGED <<room, msgs, runs, cards>>
  BY DEF TakeAnswer, Go
<1> HIDE DEF w
<1>4. Placed(runs[r], w)
  BY <1>1, <1>2, <1>3 DEF Placed, Working
<1> QED
  BY <1>2, <1>3, <1>4, WorkerGoes

(* The answer handed over is for the card that the loop waits for.             *)
LEMMA HandOverGoes == ASSUME StoryInv, NEW r \in Run, HandOver(r) PROVE Goes
<1> DEFINE w == [wk[r] EXCEPT !.got = At(r).answer]
<1>1. wk[r] \in Worker /\ Placed(runs[r], wk[r]) /\ wk[r].pc = "card" /\ runs[r] \in Row /\ Active(runs[r])
      /\ RowCards(runs[r], cards)
  BY TypedRun DEF StoryInv, RowGood, HandOver, Halted, Fenced
<1>2. wk[r].pos \in DOMAIN runs[r].tasks /\ At(r).card = wk[r].card
  BY <1>1 DEF Placed, Working, At
<1>3. At(r).answer \in Nat /\ At(r).answer \in {0, wk[r].card}
  BY <1>1, <1>2, TypedTask DEF At, Task, RowCards
<1>4. w \in Worker /\ w.pc = "card" /\ w.pos = wk[r].pos /\ w.got = At(r).answer /\ w.card = wk[r].card
  BY <1>1, <1>3 DEF Worker
<1>5. wk' = [wk EXCEPT ![r] = w] /\ UNCHANGED <<room, msgs, runs, cards>>
  BY DEF HandOver
<1> HIDE DEF w
<1>6. Placed(runs[r], w)
  BY <1>1, <1>3, <1>4 DEF Placed, Working
<1> QED
  BY <1>4, <1>5, <1>6, WorkerGoes

LEMMA LeavingGoes ==
  ASSUME StoryInv, NEW r \in Run, UNCHANGED <<room, msgs, runs, cards>>,
         \/ NoCompact(r) \/ FindHalted(r) \/ Monitor(r) \/ MonitorFails(r) \/ Crash(r) \/ Shutdown(r)
  PROVE  Goes
<1>1. CASE NoCompact(r) \/ Crash(r)
  BY <1>1, GoGoes DEF NoCompact, Crash, Working
<1>2. CASE FindHalted(r)
  BY <1>2, LeavesGoes DEF FindHalted, Fall, Working
<1>3. CASE Monitor(r) \/ MonitorFails(r) \/ Shutdown(r)
  BY <1>3, GoGoes, LeavesGoes DEF Monitor, MonitorFails, Shutdown, Cancel, InTask, Working
<1> QED
  BY <1>1, <1>2, <1>3

-----------------------------------------------------------------------------
(* A run whose tasks stay as they are.                                         *)

LEMMA StatusGoes ==
  ASSUME StoryInv, NEW r \in Run, NEW x \in Row, NEW w \in Worker,
         runs' = [runs EXCEPT ![r] = x], wk' = [wk EXCEPT ![r] = w], UNCHANGED <<room, msgs, cards>>,
         Active(runs[r]), Active(x), x.tasks = runs[r].tasks,
         w = wk[r] \/ Placed(x, w)
  PROVE  Goes
<1>1. RowGood(runs[r], wk[r], msgs, cards) /\ TypedRoom(room')
  BY DEF StoryInv, Typed, AnyRoom, TypedRoom
<1>2. SameTalk(x, runs[r])
  BY DEF SameTalk
<1>3. Placed(x, w)
  BY <1>1 DEF RowGood, Placed
<1>4. RowGood(x, w, msgs, cards)
  BY <1>1, <1>3 DEF RowGood, RowTurn, RowFollows, RowDistinct, RowSums, RowCards
<1> QED
  BY <1>1, <1>2, <1>4, Quiet

LEMMA StartRunGoes == ASSUME StoryInv, NEW r \in Run, StartRun(r) PROVE Goes
<1>t. runs[r] \in Row /\ wk[r] \in Worker /\ RowGood(runs[r], wk[r], msgs, cards) /\ Typed
  BY TypedRun DEF StoryInv
<1>2. CASE Fenced(r) \/ runs[r].status # "queued" \/ runs[r].stop
  BY <1>2, GoGoes DEF StartRun
<1>3. CASE ~(Fenced(r) \/ runs[r].status # "queued" \/ runs[r].stop)
  <2> DEFINE x == [runs[r] EXCEPT !.status = "running"]
             w == [wk[r] EXCEPT !.pc = "begin", !.pos = 1]
  <2>1. x \in Row /\ x.status = "running" /\ x.tasks = runs[r].tasks
    BY <1>t DEF Row, RunStatus, ActiveRuns
  <2>2. w \in Worker /\ w.pc = "begin" /\ w.pos = 1
    BY <1>t DEF Worker, Phase
  <2>3. runs' = [runs EXCEPT ![r] = x]
    BY <1>3 DEF StartRun
  <2>4. wk' = [wk EXCEPT ![r] = w]
    BY <1>3, <1>t DEF StartRun, Worker
  <2> HIDE DEF x, w
  <2>5. Active(runs[r]) /\ Active(x) /\ wk[r].pc = "start" /\ UNCHANGED <<room, msgs, cards>>
    BY <1>3, <2>1 DEF Fenced, Active, ActiveRuns, StartRun
  <2>6. DOMAIN x.tasks = 1 .. Len(x.tasks) /\ Len(x.tasks) \in Nat /\ Len(x.tasks) >= 1
    BY <2>1, <1>t, TasksAreThere DEF RowGood
  <2>7. Placed(x, w)
    BY <2>1, <2>2, <2>5, <2>6, <1>t DEF RowGood, Placed, Working
  <2> QED
    BY <2>1, <2>2, <2>3, <2>4, <2>5, <2>7, StatusGoes
<1> QED
  BY <1>2, <1>3

LEMMA RowOnlyGoes == ASSUME StoryInv, NEW r \in Run, Stop(r) \/ Beat(r) \/ Lapse(r) PROVE Goes
<1>t. runs[r] \in Row /\ wk[r] \in Worker /\ Typed
  BY TypedRun DEF StoryInv
<1>1. /\ Active(runs[r]) /\ wk' = wk /\ UNCHANGED <<room, msgs, cards>>
  BY DEF Stop, Beat, Lapse, Halted, Fenced
<1>2. PICK x : /\ runs' = [runs EXCEPT ![r] = x]
               /\ x \in {[runs[r] EXCEPT !.stop = TRUE, !.status = "stopping"],
                         [runs[r] EXCEPT !.fresh = TRUE], [runs[r] EXCEPT !.fresh = FALSE]}
  <2>1. CASE Stop(r)
    <3>1. runs' = [runs EXCEPT ![r] = [runs[r] EXCEPT !.stop = TRUE, !.status = "stopping"]]
      BY <2>1, <1>t DEF Stop, Row
    <3> QED
      BY <3>1
  <2>2. CASE Beat(r) \/ Lapse(r)
    BY <2>2 DEF Beat, Lapse
  <2> QED
    BY <2>1, <2>2
<1>3. x \in Row /\ x.tasks = runs[r].tasks /\ x.status \in {runs[r].status, "stopping"}
  BY <1>2, <1>t DEF Row, RunStatus, ActiveRuns
<1>4. Active(x) /\ wk' = [wk EXCEPT ![r] = wk[r]]
  BY <1>1, <1>3, <1>t, Kept DEF Active, ActiveRuns
<1> QED
  BY <1>1, <1>2, <1>3, <1>4, <1>t, StatusGoes

-----------------------------------------------------------------------------
(* One task is written.                                                        *)

LEMMA Reading ==
  ASSUME StoryInv, NEW r \in Run, NEW x \in Row, NEW w \in Worker,
         runs' = [runs EXCEPT ![r] = x], wk' = [wk EXCEPT ![r] = w], msgs' = msgs, cards' = cards,
         TypedRoom(room'), Active(runs[r]), SameButReading(x, runs[r]), Placed(runs[r], w)
  PROVE  Goes
<1>1. runs[r] \in Row /\ RowGood(runs[r], w, msgs, cards)
  BY TypedRun DEF StoryInv, RowGood
<1>2. SameTalk(x, runs[r]) /\ RowGood(x, w, msgs, cards)
  BY <1>1, ReadingKeeps
<1> QED
  BY <1>2, Quiet

LEMMA CompactGoes == ASSUME StoryInv, NEW r \in Run, Compact(r) PROVE Goes
<1> DEFINE k == wk[r].pos
           ts == runs[r].tasks
           t == At(r)
           kept == Newest(t.snap.full, Keep(Cardinality(t.snap.full)))
           older == t.snap.full \ kept
           summary == t.snap.summary \cup older
           upto == CHOOSE i \in older : \A j \in older : j <= i
           u == [t EXCEPT !.snap = [t.snap EXCEPT !.full = kept, !.summary = summary]]
           x == [runs[r] EXCEPT !.tasks = [ts EXCEPT ![k] = u]]
           w == [wk[r] EXCEPT !.pc = "work"]
<1>t. /\ runs[r] \in Row /\ wk[r] \in Worker /\ Typed /\ Placed(runs[r], wk[r])
      /\ Active(runs[r]) /\ wk[r].pc = "compact" /\ msgs' = msgs /\ cards' = cards
  BY TypedRun DEF StoryInv, RowGood, Compact, Halted, Fenced
<1>1. k \in DOMAIN ts /\ t = ts[k] /\ t \in Task
  BY <1>t, TypedTask DEF Placed, Working, At
<1>2. kept \subseteq Nat /\ summary \subseteq Nat
  BY <1>1 DEF Task, Snap, Newest
<1>3. TypedRoom(room')
  <2>1. room' = room \/ room' = [room EXCEPT !.summary = summary, !.upto = upto]
    BY DEF Compact
  <2> HIDE DEF summary, upto
  <2> QED
    BY <2>1, <1>2, <1>t DEF Typed, AnyRoom, TypedRoom
<1>4. runs' = [runs EXCEPT ![r].tasks[k].snap = [t.snap EXCEPT !.full = kept, !.summary = summary]]
  BY DEF Compact, At
<1> HIDE DEF kept, summary
<1>5. runs' = [runs EXCEPT ![r] = x]
  BY <1>4 DEF At
<1> HIDE DEF t
<1>6. u \in Task /\ [u EXCEPT !.snap = Unread] = [t EXCEPT !.snap = Unread]
  BY <1>1, <1>2 DEF Task, Snap
<1> HIDE DEF u
<1>x. x = [runs[r] EXCEPT !.tasks = [runs[r].tasks EXCEPT ![k] = u]]
  OBVIOUS
<1> HIDE DEF x
<1>7. x \in Row /\ x.status = runs[r].status /\ x.tasks = [ts EXCEPT ![k] = u]
  <2>1. x \in Row
    BY <1>6, <1>x, <1>t, TaskWritten
  <2> QED
    BY <2>1, <1>x, <1>t DEF Row
<1>8. SameButReading(x, runs[r])
  BY <1>1, <1>6, <1>7 DEF SameButReading
<1>9. w \in Worker /\ w.pc = "work" /\ w.pos = wk[r].pos /\ wk' = [wk EXCEPT ![r] = w]
  BY <1>t DEF Worker, Phase, Compact, Go
<1> HIDE DEF w
<1>10. Placed(runs[r], w)
  BY <1>9, <1>t, LeftGood DEF Working
<1> QED
  BY <1>3, <1>5, <1>7, <1>8, <1>9, <1>10, <1>t, Reading

(* The task at p gets a status, a card and an answer, and keeps its message.   *)
LEMMA TaskGoes ==
  ASSUME NEW x \in Row, NEW y \in Row, NEW p \in DOMAIN x.tasks, NEW u \in Task,
         y.tasks = [x.tasks EXCEPT ![p] = u], u.msg = x.tasks[p].msg
  PROVE  /\ SameTalk(y, x) /\ DOMAIN y.tasks = 1 .. Len(x.tasks) /\ p \in 1 .. Len(x.tasks) /\ Len(x.tasks) \in Nat
         /\ \A k \in DOMAIN x.tasks : y.tasks[k] = IF k = p THEN u ELSE x.tasks[k]
BY TasksAreThere DEF SameTalk

LEMMA RespondGoes ==
  ASSUME StoryInv, NEW r \in Run, NEW p \in DOMAIN runs[r].tasks, Respond(r, p)
  PROVE  Goes
<1> DEFINE ts == runs[r].tasks
           u == [ts[p] EXCEPT !.answer = ts[p].card]
           x == [runs[r] EXCEPT !.tasks = [ts EXCEPT ![p] = u]]
<1>t. /\ runs[r] \in Row /\ wk[r] \in Worker /\ Typed /\ RowGood(runs[r], wk[r], msgs, cards)
      /\ Active(runs[r]) /\ wk' = wk /\ msgs' = msgs /\ cards' = cards /\ TypedRoom(room')
  BY TypedRun DEF StoryInv, Respond, Typed, AnyRoom, TypedRoom
<1>1. /\ u \in Task /\ u.msg = ts[p].msg /\ u.status = ts[p].status
      /\ u.card = ts[p].card /\ u.answer = u.card
  BY <1>t, TypedTask DEF Task
<1>2. runs' = [runs EXCEPT ![r] = x]
  BY DEF Respond
<1> HIDE DEF u
<1>x. x = [runs[r] EXCEPT !.tasks = [runs[r].tasks EXCEPT ![p] = u]]
  OBVIOUS
<1> HIDE DEF x
<1>3. x \in Row /\ x.status = runs[r].status /\ x.tasks = [ts EXCEPT ![p] = u]
  <2>1. x \in Row
    BY <1>1, <1>x, <1>t, TaskWritten
  <2> QED
    BY <2>1, <1>x, <1>t DEF Row
<1>4. /\ SameTalk(x, runs[r]) /\ DOMAIN x.tasks = DOMAIN ts /\ DOMAIN ts = 1 .. Len(ts) /\ Len(x.tasks) = Len(ts)
      /\ \A k \in DOMAIN ts : x.tasks[k] = IF k = p THEN u ELSE ts[k]
  BY <1>1, <1>3, <1>t, TaskGoes, TasksAreThere DEF SameTalk
<1>5. \A k \in DOMAIN ts : /\ x.tasks[k].msg = ts[k].msg /\ x.tasks[k].status = ts[k].status
                           /\ x.tasks[k].card = ts[k].card
  BY <1>1, <1>4
<1>6. RowTurn(x) /\ RowFollows(x, msgs) /\ RowDistinct(x)
  <2>1. RowTurn(x)
    BY <1>4, <1>5, <1>t DEF RowGood, RowTurn, Pending
  <2>2. RowFollows(x, msgs)
    BY <1>4, <1>5, <1>t DEF RowGood, RowFollows
  <2>3. RowDistinct(x)
    BY <1>4, <1>5, <1>t DEF RowGood, RowDistinct
  <2> QED
    BY <2>1, <2>2, <2>3
<1>7. Active(x) /\ RowSums(x)
  BY <1>3, <1>t DEF Active, RowSums
<1>8. RowCards(x, cards)
  BY <1>1, <1>4, <1>5, <1>t DEF RowGood, RowCards
<1>9. Placed(x, wk[r])
  BY <1>4, <1>5, <1>t DEF RowGood, Placed, Pending, Working
<1>10. RowGood(x, wk[r], msgs, cards) /\ wk' = [wk EXCEPT ![r] = wk[r]]
  BY <1>4, <1>6, <1>7, <1>8, <1>9, <1>t, Kept DEF RowGood
<1> QED
  BY <1>2, <1>3, <1>4, <1>10, <1>t, Quiet

(* Where the worker stands after its task has been saved.                      *)
Follows(x, w, pos, status, card) ==
    /\ w.pc # "start"
    /\ w.pc \in Working =>
          \/ w.pos = pos
          \/ w.pos = pos + 1 /\ w.pos \in DOMAIN x.tasks /\ status \notin ActiveTasks
    /\ w.pc \in {"card", "answered"} => w.got \in {0, w.card}
    /\ w.pc = "card" => w.card = card /\ w.pos = pos

(* A task and its message are saved together.                                  *)
LEMMA SaveGoes ==
  ASSUME StoryInv, NEW r \in Run, NEW status \in TaskStatus, NEW card \in Nat,
         Save(r, status, card), Active(runs[r]), wk[r].pc \in Working, room' = room,
         cards' \in Nat, cards' >= cards, card <= cards',
         NEW w \in Worker, wk' = [wk EXCEPT ![r] = w],
         Follows(runs[r], w, wk[r].pos, status, card)
  PROVE  Goes
<1> DEFINE ts == runs[r].tasks
           p == wk[r].pos
           answer == IF ts[p].card = card THEN ts[p].answer ELSE 0
           u == [ts[p] EXCEPT !.status = status, !.card = card, !.answer = answer]
           x == [runs[r] EXCEPT !.tasks = [ts EXCEPT ![p] = u]]
<1>t. /\ runs[r] \in Row /\ wk[r] \in Worker /\ Typed /\ RowGood(runs[r], wk[r], msgs, cards)
      /\ cards \in Nat /\ TypedRoom(room') /\ r \in 1 .. Len(runs) /\ runs \in Seq(Row)
  BY TypedRun DEF StoryInv, Typed, AnyRoom, TypedRoom
<1>p. p \in DOMAIN ts /\ DOMAIN ts = 1 .. Len(ts) /\ Len(ts) \in Nat /\ p \in Nat
  BY <1>t, TasksAreThere DEF RowGood, Placed, Worker
<1>b. \A k \in DOMAIN ts : /\ k < p => ~Pending(ts[k])
                           /\ k > p => ts[k].msg = 0
  <2>1. Placed(runs[r], wk[r]) /\ wk[r].pc \in Working
    BY <1>t DEF RowGood
  <2> QED
    BY <2>1 DEF Placed
<1>a. ts[p] \in Task /\ answer \in Nat /\ answer \in {0, card}
  BY <1>t, <1>p, TypedTask DEF Task, RowGood, RowCards
<1> HIDE DEF answer
<1>1. u \in Task /\ u.msg = ts[p].msg /\ u.status = status /\ u.card = card /\ u.answer \in {0, card}
  BY <1>a DEF Task
<1>2. runs' = [runs EXCEPT ![r] = x]
  BY <1>t DEF Save, Saved, At, answer
<1> HIDE DEF u
<1>x. x = [runs[r] EXCEPT !.tasks = [runs[r].tasks EXCEPT ![p] = u]]
  OBVIOUS
<1> HIDE DEF x
<1>3. x \in Row /\ x.status = runs[r].status /\ x.tasks = [ts EXCEPT ![p] = u]
  <2>1. x \in Row
    BY <1>1, <1>x, <1>t, TaskWritten
  <2> QED
    BY <2>1, <1>x, <1>t DEF Row
<1>4. /\ SameTalk(x, runs[r]) /\ DOMAIN x.tasks = DOMAIN ts
      /\ \A k \in DOMAIN ts : x.tasks[k] = IF k = p THEN u ELSE ts[k]
  BY <1>1, <1>3, <1>p, <1>t, TaskGoes DEF SameTalk
<1>5. msgs' = Shown(msgs, x)
  <2>1. runs'[r] = x
    BY <1>2, <1>t, ExceptSeq, <1>3
  <2> QED
    BY <2>1 DEF Save, Display
<1>6. Active(x) /\ RowSums(x)
  BY <1>3 DEF Active, RowSums
<1>7. RowTurn(x)
  <2>1. ASSUME NEW k \in DOMAIN ts, x.tasks[k].msg # 0, NEW j \in 1 .. k - 1 PROVE ~Pending(x.tasks[j])
    <3>1. ts[k].msg # 0 /\ j \in DOMAIN ts /\ j < k
      BY <2>1, <1>4, <1>p DEF SameTalk
    <3>2. ~Pending(ts[j]) /\ k <= p
      BY <3>1, <2>1, <1>t, <1>p, SMTT(20) DEF RowGood, RowTurn, Placed
    <3> QED
      BY <3>1, <3>2, <1>4, <1>p
  <2> QED
    BY <2>1, <1>4 DEF RowTurn
<1>8. RowCards(x, cards')
  <2>1. ASSUME NEW k \in DOMAIN ts
        PROVE  x.tasks[k].card <= cards' /\ x.tasks[k].answer \in {0, x.tasks[k].card}
    <3>1. ts[k] \in Task /\ ts[k].card <= cards /\ ts[k].answer \in {0, ts[k].card}
      BY <1>t, TypedTask DEF RowGood, RowCards
    <3> QED
      BY <3>1, <1>1, <1>4, <1>t DEF Task
  <2> QED
    BY <2>1, <1>4 DEF RowCards
<1>9. Placed(x, w)
  <2>1. ASSUME NEW k \in DOMAIN ts, w.pc \in Working
        PROVE  /\ k < w.pos => ~Pending(x.tasks[k])
               /\ k > w.pos => x.tasks[k].msg = 0
    <3>1. /\ k < p => ~Pending(ts[k])
          /\ k > p => ts[k].msg = 0
      BY <1>b
    <3>2. CASE w.pos = p
      BY <3>1, <3>2, <1>4, <1>p DEF SameTalk
    <3>3. CASE w.pos = p + 1 /\ status \notin ActiveTasks
      <4>1. k < p + 1 => k < p \/ k = p
        BY <1>p
      <4>2. k > p + 1 => k > p
        BY <1>p
      <4>3. ~Pending(u)
        BY <3>3, <1>1 DEF Pending
      <4> QED
        BY <4>1, <4>2, <4>3, <3>1, <3>3, <1>4 DEF SameTalk
    <3> QED
      BY <2>1, <3>2, <3>3 DEF Follows
  <2>2. w.pc \in Working => w.pos \in DOMAIN x.tasks
    BY <1>4, <1>p DEF Follows
  <2>3. w.pc = "card" => x.tasks[w.pos].card = w.card
    BY <1>1, <1>4, <1>p DEF Follows
  <2> QED
    BY <2>1, <2>2, <2>3, <1>4 DEF Placed, Follows
<1> QED
  BY <1>2, <1>3, <1>4, <1>5, <1>6, <1>7, <1>8, <1>9, <1>t, Told

LEMMA AskCardGoes == ASSUME StoryInv, NEW r \in Run, AskCard(r) PROVE Goes
<1> DEFINE w == [wk[r] EXCEPT !.pc = "card", !.card = cards + 1, !.got = 0]
<1>t. /\ runs[r] \in Row /\ wk[r] \in Worker /\ Typed /\ cards \in Nat
  BY TypedRun DEF StoryInv, Typed
<1>0. cards + 1 \in Nat /\ cards + 1 >= cards /\ cards + 1 <= cards + 1
  BY <1>t
<1>1. /\ w \in Worker /\ w.pc = "card" /\ w.card = cards + 1 /\ w.got = 0 /\ w.pos = wk[r].pos
  BY <1>t, <1>0 DEF Worker, Phase
<1>2. wk' = [wk EXCEPT ![r] = w]
  BY <1>t DEF AskCard, Worker
<1> HIDE DEF w
<1>3. /\ wk[r].pc \in Working /\ Active(runs[r]) /\ cards' = cards + 1 /\ room' = room
      /\ Save(r, "waiting_user", cards + 1) /\ "waiting_user" \in TaskStatus
  BY DEF AskCard, Halted, Fenced, Working, TaskStatus, ActiveTasks
<1>4. Follows(runs[r], w, wk[r].pos, "waiting_user", cards + 1)
  BY <1>1 DEF Follows, Working
<1>5. cards' \in Nat /\ cards' >= cards /\ cards + 1 <= cards'
  BY <1>0, <1>3
<1> QED
  BY <1>0, <1>5, <1>1, <1>2, <1>3, <1>4, SaveGoes

LEMMA SaveGoGoes ==
  ASSUME StoryInv, NEW r \in Run, NEW status \in TaskStatus, NEW pc \in {"work", "over"},
         Save(r, status, 0), Go(r, pc), Active(runs[r]), wk[r].pc \in Working, room' = room, cards' = cards
  PROVE  Goes
<1> DEFINE w == [wk[r] EXCEPT !.pc = pc]
<1>t. wk[r] \in Worker /\ cards \in Nat
  BY TypedRun DEF StoryInv, Typed
<1>1. w \in Worker /\ w.pc = pc /\ w.pos = wk[r].pos
  BY <1>t DEF Worker, Phase
<1>2. wk' = [wk EXCEPT ![r] = w]
  BY DEF Go
<1> HIDE DEF w
<1>3. Follows(runs[r], w, wk[r].pos, status, 0)
  BY <1>1 DEF Follows
<1>4. cards' \in Nat /\ cards' >= cards /\ 0 <= cards' /\ 0 \in Nat
  BY <1>t
<1> QED
  BY <1>1, <1>2, <1>3, <1>4, SaveGoes

LEMMA EndTaskGoes ==
  ASSUME StoryInv, NEW r \in Run, NEW status \in {"completed", "failed"}, EndTask(r, status)
  PROVE  Goes
<1>t. /\ runs[r] \in Row /\ wk[r] \in Worker /\ cards \in Nat /\ wk[r].pc \in Working
      /\ room' = room /\ cards' = cards /\ Placed(runs[r], wk[r])
  BY TypedRun DEF StoryInv, Typed, EndTask, Working, RowGood
<1>1. CASE Fenced(r)
  <2>1. PICK pc \in {"over", "halt"} : Fall(r, pc) /\ UNCHANGED <<runs, msgs>>
    BY <1>1 DEF EndTask
  <2> QED
    BY <2>1, <1>t, LeavesGoes DEF Fall
<1>2. CASE ~Fenced(r)
  <2>1. Save(r, status, 0) /\ Active(runs[r]) /\ status \in TaskStatus /\ status \notin ActiveTasks
    BY <1>2 DEF EndTask, Fenced, TaskStatus, ActiveTasks
  <2>2. CASE Last(r)
    BY <2>1, <2>2, <1>2, <1>t, SaveGoGoes DEF EndTask
  <2>3. CASE ~Last(r)
    <3> DEFINE w == [wk[r] EXCEPT !.pc = "begin", !.pos = wk[r].pos + 1]
    <3>0. wk[r].pos \in Nat /\ wk[r].pos + 1 \in Nat
      <4>1. wk[r].pos \in Nat
        BY <1>t DEF Worker
      <4> QED
        BY <4>1
    <3>1. w \in Worker /\ w.pc = "begin" /\ w.pos = wk[r].pos + 1
      BY <1>t, <3>0 DEF Worker, Phase
    <3>2. wk' = [wk EXCEPT ![r] = w]
      BY <2>3, <1>2, <1>t DEF EndTask, Worker
    <3> HIDE DEF w
    <3>3. wk[r].pos + 1 \in DOMAIN runs[r].tasks
      <4>1. wk[r].pos \in DOMAIN runs[r].tasks /\ wk[r].pos # Len(runs[r].tasks)
        BY <2>3, <1>t DEF Last, Placed
      <4> QED
        BY <4>1, <1>t, TasksAreThere
    <3>4. Follows(runs[r], w, wk[r].pos, status, 0)
      BY <3>1, <3>3, <2>1 DEF Follows
    <3>5. cards' \in Nat /\ cards' >= cards /\ 0 <= cards' /\ 0 \in Nat
      BY <1>t
    <3> QED
      BY <2>1, <3>1, <3>2, <3>4, <3>5, <1>t, SaveGoes
  <2> QED
    BY <2>2, <2>3
<1> QED
  BY <1>1, <1>2

LEMMA SavingGoes == ASSUME StoryInv, NEW r \in Run, SaveResumed(r) \/ SaveHalted(r) PROVE Goes
<1>1. CASE SaveResumed(r)
  <2>1. /\ Save(r, "running", 0) /\ Go(r, "work") /\ Active(runs[r]) /\ wk[r].pc \in Working
        /\ room' = room /\ cards' = cards /\ "running" \in TaskStatus
    BY <1>1 DEF SaveResumed, Halted, Fenced, Working, TaskStatus, ActiveTasks
  <2> QED
    BY <2>1, SaveGoGoes
<1>2. CASE SaveHalted(r)
  <2>1. Go(r, "over") /\ wk[r].pc \in Working /\ room' = room /\ cards' = cards
    BY <1>2 DEF SaveHalted, Working
  <2>2. CASE UNCHANGED <<runs, msgs>>
    BY <2>1, <2>2, GoGoes
  <2>3. CASE ~Fenced(r) /\ Save(r, IF runs[r].stop THEN "stopped" ELSE "failed", 0)
    <3>1. Active(runs[r]) /\ {"stopped", "failed"} \subseteq TaskStatus
      BY <2>3 DEF Fenced, TaskStatus
    <3>2. PICK status \in {"stopped", "failed"} : Save(r, status, 0)
      BY <2>3
    <3> QED
      BY <2>1, <3>1, <3>2, SaveGoGoes
  <2> QED
    BY <1>2, <2>2, <2>3 DEF SaveHalted
<1> QED
  BY <1>1, <1>2

-----------------------------------------------------------------------------
(* A task begins, and a run ends.                                              *)

LEMMA BeginTaskGoes == ASSUME StoryInv, NEW r \in Run, BeginTask(r) PROVE Goes
<1> DEFINE ts == runs[r].tasks
           p == wk[r].pos
           n == Len(msgs) + 1
           m == [run |-> r, user |-> FALSE, status |-> "running"]
           snap == IF ts[p].snap.known THEN ts[p].snap
                   ELSE [known |-> TRUE, full |-> History(r), summary |-> room.summary]
           u == [ts[p] EXCEPT !.status = "running", !.msg = n, !.snap = snap]
           x == [runs[r] EXCEPT !.tasks = [ts EXCEPT ![p] = u]]
           w == [wk[r] EXCEPT !.pc = "compact"]
<1>t. /\ runs[r] \in Row /\ wk[r] \in Worker /\ Typed /\ RowGood(runs[r], wk[r], msgs, cards)
      /\ cards \in Nat /\ TypedRoom(room') /\ r \in 1 .. Len(runs) /\ r \in Nat /\ msgs \in Seq(Msg)
      /\ room' = room /\ cards' = cards /\ Active(runs[r]) /\ wk[r].pc = "begin"
  BY TypedRun DEF StoryInv, Typed, AnyRoom, TypedRoom, BeginTask, Halted, Fenced
<1>q. DOMAIN msgs = 1 .. Len(msgs) /\ Len(msgs) \in Nat /\ n \in Nat /\ n # 0 /\ n \notin DOMAIN msgs
  <2>1. DOMAIN msgs = 1 .. Len(msgs) /\ Len(msgs) \in Nat
    BY <1>t, LenProperties
  <2> QED
    BY <2>1
<1>b. /\ p \in DOMAIN ts
      /\ \A k \in DOMAIN ts : /\ k < p => ~Pending(ts[k])
                              /\ k > p => ts[k].msg = 0
  <2>1. Placed(runs[r], wk[r]) /\ wk[r].pc \in Working
    BY <1>t DEF RowGood, Working
  <2> QED
    BY <2>1 DEF Placed
<1>p. p \in DOMAIN ts /\ DOMAIN ts = 1 .. Len(ts) /\ Len(ts) \in Nat /\ p \in Nat
      /\ DOMAIN msgs = 1 .. Len(msgs) /\ Len(msgs) \in Nat /\ n \in Nat /\ n # 0 /\ n \notin DOMAIN msgs
  BY <1>q, <1>b, <1>t, TasksAreThere DEF Worker
<1>m. m \in Msg /\ m.status = "running"
  BY <1>t DEF Msg, TaskStatus, ActiveTasks
<1>a. ts[p] \in Task /\ snap \in Snap
  BY <1>t, <1>p, TypedTask, HistoryTypes DEF Task, Snap
<1> HIDE DEF snap
<1>1. u \in Task /\ u.msg = n /\ u.status = "running" /\ u.card = ts[p].card /\ u.answer = ts[p].answer
  BY <1>a, <1>p DEF Task, TaskStatus, ActiveTasks
<1>2. runs' = [runs EXCEPT ![r] = x]
  BY <1>t DEF BeginTask, At, snap
<1>w. w \in Worker /\ w.pc = "compact" /\ w.pos = p /\ wk' = [wk EXCEPT ![r] = w]
  BY <1>t DEF Worker, Phase, BeginTask, Go
<1>n. msgs' = Append(msgs, m)
  BY DEF BeginTask
<1> HIDE DEF u, m, w
<1>x. x = [runs[r] EXCEPT !.tasks = [runs[r].tasks EXCEPT ![p] = u]]
  OBVIOUS
<1> HIDE DEF x
<1>3. x \in Row /\ x.status = runs[r].status /\ x.tasks = [ts EXCEPT ![p] = u]
  <2>1. x \in Row
    BY <1>1, <1>x, <1>t, TaskWritten
  <2> QED
    BY <2>1, <1>x, <1>t DEF Row
<1>4. /\ DOMAIN x.tasks = DOMAIN ts /\ Len(x.tasks) = Len(ts)
      /\ \A k \in DOMAIN ts : x.tasks[k] = IF k = p THEN u ELSE ts[k]
  <2>1. DOMAIN x.tasks = DOMAIN ts /\ \A k \in DOMAIN ts : x.tasks[k] = IF k = p THEN u ELSE ts[k]
    BY <1>3, <1>p
  <2>2. DOMAIN x.tasks = 1 .. Len(x.tasks) /\ Len(x.tasks) \in Nat
    BY <1>3, TasksAreThere
  <2>3. 1 .. Len(x.tasks) = 1 .. Len(ts)
    BY <2>1, <2>2, <1>p
  <2>4. Len(x.tasks) = Len(ts)
    BY <2>2, <2>3, <1>p
  <2> QED
    BY <2>1, <2>4
<1>5. /\ msgs' \in Seq(Msg) /\ n \in DOMAIN msgs' /\ msgs'[n] = m
      /\ \A i \in DOMAIN msgs : i \in DOMAIN msgs' /\ msgs'[i] = msgs[i]
  <2>1. msgs' \in Seq(Msg) /\ Len(msgs') = n /\ msgs'[n] = m
    BY <1>m, <1>n, <1>t, AppendProperties
  <2>2. n \in DOMAIN msgs'
    BY <2>1, <1>p, LenProperties
  <2> QED
    BY <2>1, <2>2, <1>m, <1>n, <1>t, AppendedKeeps
<1>6. ASSUME NEW y, RowFollows(y, msgs)
      PROVE  RowFollows(y, msgs') /\ \A k \in DOMAIN y.tasks : y.tasks[k].msg # n
  BY <1>5, <1>6, <1>p DEF RowFollows
<1>7. \A q \in Run \ {r} : RowFollows(runs[q], msgs') /\ Apart(x, runs[q])
  <2>1. ASSUME NEW q \in Run \ {r} PROVE RowFollows(runs[q], msgs') /\ Apart(x, runs[q])
    <3>1. RowFollows(runs[q], msgs) /\ Apart(runs[r], runs[q])
      BY DEF StoryInv, RowGood
    <3>2. \A k \in DOMAIN runs[q].tasks : runs[q].tasks[k].msg # n
      BY <3>1, <1>6
    <3> QED
      BY <3>1, <3>2, <1>1, <1>4, <1>6 DEF Apart
  <2> QED
    BY <2>1
<1>8. Active(x) /\ RowSums(x)
  BY <1>3, <1>t DEF Active, RowSums
<1>9. RowTurn(x)
  <2>1. ASSUME NEW k \in DOMAIN ts, x.tasks[k].msg # 0, NEW j \in 1 .. k - 1 PROVE ~Pending(x.tasks[j])
    <3>1. j \in DOMAIN ts /\ j < k
      BY <2>1, <1>p
    <3>2. k <= p
      <4>1. k = p \/ ts[k].msg # 0
        BY <2>1, <1>4
      <4> QED
        BY <4>1, <1>b, <1>p
    <3>3. ~Pending(ts[j])
      <4>1. j < p
        BY <3>1, <3>2, <1>p
      <4> QED
        BY <3>1, <4>1, <1>b, Zenon
    <3>4. j # p
      BY <3>1, <3>2, <1>p
    <3>5. x.tasks[j] = ts[j]
      BY <3>1, <3>4, <1>4
    <3> QED
      BY <3>3, <3>5
  <2> QED
    BY <2>1, <1>4 DEF RowTurn
<1>10. RowFollows(x, msgs')
  <2>1. RowFollows(runs[r], msgs')
    BY <1>6, <1>t DEF RowGood
  <2> QED
    BY <2>1, <1>1, <1>4, <1>5, <1>m DEF RowFollows
<1>11. RowDistinct(x)
  <2>1. \A k \in DOMAIN ts : ts[k].msg # n
    BY <1>6, <1>t DEF RowGood
  <2>2. \A j, k \in DOMAIN ts : ts[j].msg = ts[k].msg /\ ts[j].msg # 0 => j = k
    BY <1>t DEF RowGood, RowDistinct
  <2> SUFFICES ASSUME NEW j \in DOMAIN ts, NEW k \in DOMAIN ts,
                      x.tasks[j].msg = x.tasks[k].msg, x.tasks[j].msg # 0
               PROVE  j = k
    BY <1>4 DEF RowDistinct
  <2>3. CASE j # p /\ k # p
    BY <2>2, <2>3, <1>4
  <2>4. CASE j = p \/ k = p
    BY <2>1, <2>4, <1>1, <1>4
  <2> QED
    BY <2>3, <2>4
<1>12. RowCards(x, cards')
  BY <1>1, <1>4, <1>t, <1>8 DEF RowGood, RowCards
<1>13. Placed(x, w)
  BY <1>4, <1>w, <1>p, <1>t, SMTT(20) DEF RowGood, Placed, Working
<1>15. cards' \in Nat /\ cards' >= cards
  BY <1>t
<1>14. RowGood(x, w, msgs', cards')
  BY <1>4, <1>8, <1>9, <1>10, <1>11, <1>12, <1>13, <1>t DEF RowGood
<1> QED
  BY <1>2, <1>3, <1>5, <1>7, <1>14, <1>15, <1>w, <1>t, OneRow

(* What a task has come to at the end of its run.                              *)
LEMMA EndOfTask ==
  ASSUME NEW t \in Task, NEW why \in {"", "stopped", "interrupted"}
  PROVE  /\ EndOf(t, why) \in Task /\ ~Pending(EndOf(t, why))
         /\ EndOf(t, why).msg = t.msg /\ EndOf(t, why).card \in {0, t.card}
<1>1. CASE ~Pending(t)
  BY <1>1 DEF EndOf
<1>2. CASE Pending(t)
  <2> DEFINE s == CASE why = "stopped" /\ t.status = "queued" -> "cancelled"
                    [] why = "stopped" /\ t.status # "queued" -> "stopped"
                    [] OTHER -> "failed"
  <2>1. s \in {"cancelled", "stopped", "failed"}
    OBVIOUS
  <2>2. EndOf(t, why) = [t EXCEPT !.card = 0, !.status = s]
    BY <1>2 DEF EndOf
  <2> HIDE DEF s
  <2> DEFINE u == [t EXCEPT !.card = 0, !.status = s]
  <2>3. u \in Task /\ u.msg = t.msg /\ u.card = 0 /\ u.status = s
    BY <2>1 DEF Task, TaskStatus
  <2> HIDE DEF u
  <2>4. EndOf(t, why) = u
    BY <2>2 DEF u
  <2>5. ~Pending(u)
    BY <2>1, <2>3 DEF Pending, ActiveTasks
  <2> QED
    BY <2>3, <2>4, <2>5
<1> QED
  BY <1>1, <1>2

LEMMA FinishGoes == ASSUME StoryInv, NEW r \in Run, Finish(r) PROVE Goes
<1>t. /\ runs[r] \in Row /\ wk[r] \in Worker /\ Typed /\ RowGood(runs[r], wk[r], msgs, cards)
      /\ cards \in Nat /\ TypedRoom(room') /\ r \in 1 .. Len(runs) /\ runs \in Seq(Row)
      /\ Go(r, "none") /\ room' = room /\ cards' = cards
  BY TypedRun DEF StoryInv, Typed, AnyRoom, TypedRoom, Finish
<1>1. CASE Fenced(r)
  BY <1>1, <1>t, GoGoes DEF Finish
<1>2. CASE ~Fenced(r)
  <2> DEFINE why == IF runs[r].stop THEN "stopped" ELSE wk[r].why
             ts == [p \in DOMAIN runs[r].tasks |-> EndOf(runs[r].tasks[p], why)]
             ss == {ts[p].status : p \in DOMAIN ts}
             status == IF why # "" THEN why ELSE Outcome(ss)
             x == [runs[r] EXCEPT !.tasks = ts, !.status = status]
             w == [wk[r] EXCEPT !.pc = "none"]
  <2>w. why \in {"", "stopped", "interrupted"}
    BY <1>t DEF Worker
  <2>1. runs' = [runs EXCEPT ![r].tasks = ts, ![r].status = status] /\ Display(r)
    BY <1>2 DEF Finish
  <2> HIDE DEF why
  <2>2. DOMAIN runs[r].tasks = 1 .. Len(runs[r].tasks) /\ Len(runs[r].tasks) \in Nat
    BY <1>t, TasksAreThere
  <2>3. \A p \in DOMAIN runs[r].tasks :
           /\ ts[p] \in Task /\ ~Pending(ts[p]) /\ ts[p].msg = runs[r].tasks[p].msg
           /\ ts[p].card \in {0, runs[r].tasks[p].card}
    BY <2>w, <1>t, TypedTask, EndOfTask
  <2>4. ts \in [1 .. Len(runs[r].tasks) -> Task] /\ DOMAIN ts = DOMAIN runs[r].tasks
    BY <2>2, <2>3
  <2> HIDE DEF ts
  <2>5. ts \in Seq(Task)
    BY <2>2, <2>4, SeqDef
  <2>6. /\ status \in RunStatus \ ActiveRuns
        /\ status = "completed" => ss = {"completed"}
        /\ status = "partial" => "completed" \in ss /\ ss # {"completed"}
        /\ status = "failed" => "completed" \notin ss
    BY <2>w DEF Outcome, RunStatus, ActiveRuns
  <2>7. ss \cap ActiveTasks = {}
    BY <2>3, <2>4 DEF Pending
  <2> HIDE DEF ss, status
  <2>8. runs' = [runs EXCEPT ![r] = x]
    BY <2>1, <1>t DEF Row
  <2>x. x = [runs[r] EXCEPT !.tasks = ts, !.status = status]
    OBVIOUS
  <2> HIDE DEF x
  <2>9. x \in Row /\ x.status = status /\ x.tasks = ts
    BY <2>5, <2>6, <2>x, <1>t DEF Row
  <2>10. msgs' = Shown(msgs, x)
    <3>1. runs'[r] = x
      BY <2>8, <2>9, <1>t, ExceptSeq
    <3> QED
      BY <3>1, <2>1 DEF Display
  <2>11. Active(runs[r]) /\ ~Active(x) /\ SameTalk(x, runs[r])
    BY <1>2, <2>3, <2>4, <2>6, <2>9 DEF Fenced, Active, SameTalk
  <2>12. RowTurn(x)
    <3>1. ASSUME NEW p \in DOMAIN ts, NEW k \in 1 .. p - 1 PROVE ~Pending(ts[k])
      <4>1. k \in DOMAIN ts
        BY <2>2, <2>4
      <4> QED
        BY <4>1, <2>3, <2>4
    <3> QED
      BY <3>1, <2>9 DEF RowTurn
  <2>13. RowSums(x)
    <3>1. Found(x) = ss
      BY <2>9 DEF Found, ss
    <3> QED
      BY <3>1, <2>6, <2>7, <2>9 DEF RowSums
  <2>14. RowCards(x, cards')
    <3>1. ASSUME NEW p \in DOMAIN ts PROVE ts[p].card <= cards
      <4>1. runs[r].tasks[p].card <= cards /\ ts[p].card \in {0, runs[r].tasks[p].card} /\ 0 <= cards
        BY <2>3, <2>4, <1>t DEF RowGood, RowCards
      <4> QED
        BY <4>1
    <3> QED
      BY <3>1, <2>9, <2>11, <1>t DEF RowCards
  <2>15. w \in Worker /\ w.pc = "none" /\ wk' = [wk EXCEPT ![r] = w]
    BY <1>t DEF Worker, Phase, Go
  <2> HIDE DEF w
  <2>16. Placed(x, w) /\ cards' \in Nat /\ cards' >= cards
    BY <2>15, <1>t DEF Placed, Working
  <2> QED
    BY <2>8, <2>9, <2>10, <2>11, <2>12, <2>13, <2>14, <2>15, <2>16, <1>t, Told
<1> QED
  BY <1>1, <1>2

-----------------------------------------------------------------------------
(* The theorems.                                                               *)

LEMMA StoryInit == Init => StoryInv
<1> SUFFICES ASSUME Init PROVE StoryInv
  OBVIOUS
<1>1. System \in Msg
  BY DEF System, Msg, TaskStatus
<1>2. <<System>> \in Seq(Msg) /\ Len(<<>>) = 0 /\ <<>> \in Seq(Row) /\ <<>> \in Seq(Worker)
  BY <1>1
<1>3. Typed
  BY <1>2 DEF Init, Typed, AnyRoom
<1>4. Run = {}
  BY DEF Init, Run
<1> QED
  BY <1>3, <1>4 DEF StoryInv, OneActiveRun

LEMMA StoryStep == StoryInv /\ [Next]_vars => Goes
<1> SUFFICES ASSUME StoryInv, [Next]_vars PROVE Goes
  OBVIOUS
<1>1. CASE Visit
  BY <1>1, VisitGoes
<1>2. CASE \E q \in Request : \/ \E t \in Targets : Submit(q, t)
                              \/ \E r \in Run : \E p \in DOMAIN runs[r].tasks : Retry(q, r, p)
  BY <1>2, SubmitGoes, RetryGoes
<1>3. CASE Edit \/ Delete
  BY <1>3, EditGoes
<1>4. ASSUME NEW r \in Run, Stop(r) \/ Beat(r) \/ Lapse(r) PROVE Goes
  BY <1>4, RowOnlyGoes
<1>5. ASSUME NEW r \in Run, NEW p \in DOMAIN runs[r].tasks, Respond(r, p) PROVE Goes
  BY <1>5, RespondGoes
<1>6. ASSUME NEW r \in Run, Body(r) PROVE Goes
  <2>1. CASE StartRun(r)
    BY <2>1, StartRunGoes
  <2>2. CASE BeginTask(r)
    BY <2>2, BeginTaskGoes
  <2>3. CASE Compact(r)
    BY <2>3, CompactGoes
  <2>4. CASE NoCompact(r) \/ FindHalted(r)
    <3>1. UNCHANGED <<room, msgs, runs, cards>>
      BY <2>4 DEF NoCompact, FindHalted
    <3> QED
      BY <2>4, <3>1, LeavingGoes
  <2>5. CASE TakeAnswer(r)
    BY <2>5, TakeAnswerGoes
  <2>6. CASE SaveResumed(r) \/ SaveHalted(r)
    BY <2>6, SavingGoes
  <2>7. CASE Finish(r)
    BY <2>7, FinishGoes
  <2> QED
    BY <1>6, <2>1, <2>2, <2>3, <2>4, <2>5, <2>6, <2>7 DEF Body
<1>7. ASSUME NEW r \in Run, Talk(r) PROVE Goes
  BY <1>7, AskCardGoes, EndTaskGoes DEF Talk
<1>8. ASSUME NEW r \in Run, Watch(r) \/ MonitorFails(r) \/ Crash(r) \/ Shutdown(r) PROVE Goes
  <2>1. CASE HandOver(r)
    BY <2>1, HandOverGoes
  <2>2. CASE Monitor(r) \/ MonitorFails(r) \/ Crash(r) \/ Shutdown(r)
    <3>1. UNCHANGED <<room, msgs, runs, cards>>
      BY <2>2 DEF Monitor, MonitorFails, Crash, Shutdown
    <3> QED
      BY <2>2, <3>1, LeavingGoes
  <2> QED
    BY <1>8, <2>1, <2>2 DEF Watch
<1>9. CASE UNCHANGED vars
  <2>1. StoryInv'
    BY <1>9 DEF StoryInv, vars, Typed, AnyRoom, OneActiveRun, Run
  <2>2. \A q \in Run : Frozen(runs[q], runs'[q])
    BY <1>9 DEF Frozen, vars
  <2> QED
    BY <2>1, <2>2 DEF Goes
<1> QED
  BY <1>1, <1>2, <1>3, <1>4, <1>5, <1>6, <1>7, <1>8, <1>9 DEF Next

LEMMA StoryAlways == Spec => []StoryInv
<1>1. StoryInv /\ [Next]_vars => StoryInv'
  BY StoryStep DEF Goes
<1> QED
  BY <1>1, StoryInit, PTL DEF Spec

(* At most one run of a room is under way: whatever the order in which runs    *)
(* are asked for, retried, stopped, expire and end, and although the worker of *)
(* an earlier run may still be alive.                                          *)
THEOREM OneRunAtATime == Spec => []OneActiveRun
<1>1. StoryInv => OneActiveRun
  BY StoryIsOne
<1> QED
  BY <1>1, StoryAlways, PTL

(* Run, tasks, messages and answers tell one story: members speak in turn, a   *)
(* message shows what its task has come to, the outcome of a run sums up its   *)
(* tasks, and an agent loop goes on with the answer to its own card.           *)
THEOREM StoryHolds == Spec => []ResultsAgree
<1>1. StoryInv => ResultsAgree
  BY StoryIsOne
<1> QED
  BY <1>1, StoryAlways, PTL

(* A run that has ended is never written again by a worker that outlived it.   *)
THEOREM EndedStaysEnded == Spec => EndedIsFinal
<1>1. StoryInv /\ [Next]_vars => [\A r \in Run : Frozen(runs[r], runs'[r])]_vars
  BY StoryStep DEF Goes
<1> QED
  BY <1>1, StoryAlways, PTL DEF Spec, EndedIsFinal

-----------------------------------------------------------------------------
(* A run that was told to stop.                                                *)

(* The order stays, and no member gets a message.                              *)
Steady(x, y) == y.stop = TRUE /\ \A p \in DOMAIN x.tasks : y.tasks[p].msg = x.tasks[p].msg
AllSteady == \A r \in Run : runs[r].stop => Steady(runs[r], runs'[r])

LEMMA OneSteady ==
  ASSUME Typed, NEW r \in Run, NEW y, runs' = [runs EXCEPT ![r] = y], runs[r].stop => Steady(runs[r], y)
  PROVE  AllSteady
<1>1. \A q \in Run : runs'[q] = IF q = r THEN y ELSE runs[q]
  BY DEF Run
<1>2. \A q \in Run : runs[q].stop \in BOOLEAN
  BY TypedRun DEF Row
<1> QED
  BY <1>1, <1>2 DEF AllSteady, Steady

LEMMA SameSteady == ASSUME Typed, runs' = runs PROVE AllSteady
BY TypedRun DEF AllSteady, Steady, Row

(* A task is rewritten that keeps its message.                                 *)
LEMMA TaskSteady ==
  ASSUME Typed, NEW r \in Run, NEW p, NEW u, p \in DOMAIN runs[r].tasks => u.msg = runs[r].tasks[p].msg,
         runs' = [runs EXCEPT ![r] = [runs[r] EXCEPT !.tasks = [runs[r].tasks EXCEPT ![p] = u]]]
  PROVE  AllSteady
<1> DEFINE y == [runs[r] EXCEPT !.tasks = [runs[r].tasks EXCEPT ![p] = u]]
<1>1. runs[r] \in Row
  BY TypedRun
<1>2. y.stop = runs[r].stop /\ y.tasks = [runs[r].tasks EXCEPT ![p] = u]
  BY <1>1 DEF Row
<1>3. runs' = [runs EXCEPT ![r] = y]
  OBVIOUS
<1> HIDE DEF y
<1>4. runs[r].stop => Steady(runs[r], y)
  BY <1>1, <1>2 DEF Steady, Row
<1> QED
  BY <1>3, <1>4, OneSteady

(* A task's status and cards are saved.                                        *)
LEMMA SavedSteady ==
  ASSUME Typed, NEW r \in Run, NEW status, NEW card, Saved(r, status, card)
  PROVE  AllSteady
<1> DEFINE p == wk[r].pos
           answer == IF At(r).card = card THEN At(r).answer ELSE 0
           u == [runs[r].tasks[p] EXCEPT !.status = status, !.card = card, !.answer = answer]
<1>1. runs' = [runs EXCEPT ![r] = [runs[r] EXCEPT !.tasks = [runs[r].tasks EXCEPT ![p] = u]]]
  BY DEF Saved
<1>2. p \in DOMAIN runs[r].tasks => u.msg = runs[r].tasks[p].msg
  <2> HIDE DEF answer
  <2> SUFFICES ASSUME p \in DOMAIN runs[r].tasks PROVE u.msg = runs[r].tasks[p].msg
    OBVIOUS
  <2>1. runs[r].tasks[p] \in Task
    BY TypedRun, TypedTask
  <2> QED
    BY <2>1 DEF Task
<1> HIDE DEF u
<1> QED
  BY <1>1, <1>2, TaskSteady

(* A row changes but for its tasks.                                            *)
LEMMA RowSteady == ASSUME Typed, NEW r \in Run, StartRun(r) \/ Stop(r) \/ Beat(r) \/ Lapse(r) PROVE AllSteady
<1>1. \/ runs' = runs
      \/ \E y : /\ runs' = [runs EXCEPT ![r] = y] /\ (runs[r].stop => y.stop = TRUE) /\ y.tasks = runs[r].tasks
  <2>1. runs[r] \in Row
    BY TypedRun
  <2> DEFINE a == [runs[r] EXCEPT !.status = "running"]
             b == [runs[r] EXCEPT !.stop = TRUE, !.status = "stopping"]
             c == [runs[r] EXCEPT !.fresh = TRUE]
             d == [runs[r] EXCEPT !.fresh = FALSE]
  <2>2. /\ a.tasks = runs[r].tasks /\ b.tasks = runs[r].tasks /\ c.tasks = runs[r].tasks /\ d.tasks = runs[r].tasks
        /\ a.stop = runs[r].stop /\ b.stop = TRUE /\ c.stop = runs[r].stop /\ d.stop = runs[r].stop
    BY <2>1 DEF Row
  <2>3. \/ runs' = runs \/ runs' = [runs EXCEPT ![r] = a] \/ runs' = [runs EXCEPT ![r] = b]
        \/ runs' = [runs EXCEPT ![r] = c] \/ runs' = [runs EXCEPT ![r] = d]
    BY DEF StartRun, Stop, Beat, Lapse
  <2> HIDE DEF a, b, c, d
  <2>4. runs[r].stop \in BOOLEAN
    BY <2>1 DEF Row
  <2> QED
    BY <2>2, <2>3, <2>4
<1>2. CASE runs' = runs
  BY <1>2, SameSteady
<1>3. ASSUME NEW y, runs' = [runs EXCEPT ![r] = y], runs[r].stop => y.stop = TRUE, y.tasks = runs[r].tasks
      PROVE  AllSteady
  BY <1>3, OneSteady DEF Steady
<1> QED
  BY <1>1, <1>2, <1>3

(* Expired rows keep their stop and their messages.                            *)
LEMMA ExpiredSteady ==
  ASSUME NEW x \in Row, x.stop
  PROVE  Steady(x, Expired(x)) /\ DOMAIN Expired(x).tasks = DOMAIN x.tasks
<1>0. x.stop = TRUE
  BY DEF Row
<1>1. CASE ~Stale(x)
  BY <1>0, <1>1 DEF Expired, Steady
<1>2. CASE Stale(x)
  <2> DEFINE ts == [p \in DOMAIN x.tasks |-> IF Pending(x.tasks[p])
                              THEN [x.tasks[p] EXCEPT !.status = "failed", !.card = 0]
                              ELSE x.tasks[p]]
  <2>1. \A p \in DOMAIN x.tasks : ts[p].msg = x.tasks[p].msg
    BY TypedTask DEF Task
  <2>2. DOMAIN ts = DOMAIN x.tasks
    OBVIOUS
  <2> HIDE DEF ts
  <2>3. Expired(x) = [x EXCEPT !.status = "interrupted", !.tasks = ts]
    BY <1>2 DEF Expired, ts
  <2>4. Expired(x).stop = x.stop /\ Expired(x).tasks = ts
    BY <2>3 DEF Row
  <2> QED
    BY <1>0, <2>1, <2>2, <2>4 DEF Steady
<1> QED
  BY <1>1, <1>2

(* Rows that expire, with another one behind them or not.                      *)
LEMMA SettledSteady ==
  ASSUME Typed, NEW settled \in Seq(Row), Len(settled) = Len(runs),
         \A r \in Run : /\ settled[r].stop = Settled[r].stop
                        /\ \A p \in DOMAIN Settled[r].tasks : settled[r].tasks[p].msg = Settled[r].tasks[p].msg,
         runs' = settled \/ \E x : runs' = Append(settled, x)
  PROVE  AllSteady
<1>1. Run = 1 .. Len(runs) /\ Len(runs) \in Nat
  BY LenProperties DEF Typed, Run
<1>2. \A r \in Run : runs'[r] = settled[r]
  BY <1>1, AppendProperties
<1>3. ASSUME NEW r \in Run, runs[r].stop PROVE Steady(runs[r], runs'[r])
  <2>1. runs[r] \in Row /\ Settled[r] = Expired(runs[r])
    BY TypedRun, SettledType
  <2>2. Steady(runs[r], Settled[r]) /\ DOMAIN Settled[r].tasks = DOMAIN runs[r].tasks
    BY <1>3, <2>1, ExpiredSteady
  <2> QED
    BY <1>2, <2>2 DEF Steady
<1> QED
  BY <1>3 DEF AllSteady

LEMMA ReadsSteady ==
  ASSUME Typed, Visit \/ Edit \/ Delete \/ \E q \in Request, t \in Targets : Submit(q, t)
  PROVE  AllSteady
<1>1. runs' = Settled \/ \E x : runs' = Append(Settled, x)
  BY DEF Visit, Edit, Delete, Submit, Enqueue
<1> QED
  BY <1>1, SettledType, SettledSteady

LEMMA RetrySteady ==
  ASSUME Typed, NEW q \in Request, NEW r \in Run, NEW p \in DOMAIN runs[r].tasks, Retry(q, r, p)
  PROVE  AllSteady
<1> DEFINE t == runs[r].tasks[p]
           snap == IF t.snap.known THEN t.snap
                   ELSE [known |-> TRUE, full |-> Before(r, p), summary |-> {}]
           z == Settled[r]
           u == [z.tasks[p] EXCEPT !.snap = snap]
           y == [z EXCEPT !.tasks = [z.tasks EXCEPT ![p] = u]]
           settled == [Settled EXCEPT ![r] = y]
<1>t. /\ runs[r] \in Row /\ t \in Task /\ Settled \in Seq(Row) /\ Len(Settled) = Len(runs)
      /\ z \in Row /\ r \in 1 .. Len(runs) /\ Run = 1 .. Len(runs) /\ DOMAIN Settled = Run
  BY SettledType, TypedRun, TypedTask, ElementOfSeq, LenProperties DEF Typed, Run
<1>1. snap \in Snap
  BY <1>t, HistoryTypes DEF Snap, Task
<1>2. \E x : runs' = Append([Settled EXCEPT ![r].tasks[p].snap = snap], x)
  BY DEF Retry, Enqueue
<1> HIDE DEF snap
<1>3. [Settled EXCEPT ![r].tasks[p].snap = snap] = settled
  OBVIOUS
<1>4. p \in DOMAIN z.tasks => u \in Task /\ u.msg = z.tasks[p].msg
  BY <1>1, <1>t, TypedTask DEF Task
<1>5. y \in Row /\ y.stop = z.stop /\ y.tasks = [z.tasks EXCEPT ![p] = u]
  <2>1. z \in Row /\ (p \in DOMAIN z.tasks => u \in Task)
    BY <1>t, <1>4
  <2> HIDE DEF u, z
  <2>2. y \in Row
    BY <2>1, TaskWritten
  <2>3. y.stop = z.stop /\ y.tasks = [z.tasks EXCEPT ![p] = u]
    BY <2>1 DEF Row
  <2> QED
    BY <2>2, <2>3
<1>6. \A k \in DOMAIN z.tasks : y.tasks[k].msg = z.tasks[k].msg
  <2> HIDE DEF u, y, z
  <2> QED
    BY <1>4, <1>5
<1> HIDE DEF y, z
<1>7. settled \in Seq(Row) /\ Len(settled) = Len(runs)
      /\ \A k \in Run : settled[k] = IF k = r THEN y ELSE Settled[k]
  BY <1>5, <1>t, ExceptSeq
<1>8. \A k \in Run : /\ settled[k].stop = Settled[k].stop
                     /\ \A j \in DOMAIN Settled[k].tasks : settled[k].tasks[j].msg = Settled[k].tasks[j].msg
  <2>1. /\ settled[r].stop = Settled[r].stop
        /\ \A j \in DOMAIN Settled[r].tasks : settled[r].tasks[j].msg = Settled[r].tasks[j].msg
    BY <1>5, <1>6, <1>7 DEF z
  <2> QED
    BY <1>7, <2>1
<1> HIDE DEF settled
<1> QED
  BY <1>2, <1>3, <1>7, <1>8, SettledSteady

LEMMA FinishSteady == ASSUME Typed, NEW r \in Run, Finish(r) PROVE AllSteady
<1>1. CASE Fenced(r)
  BY <1>1, SameSteady DEF Finish
<1>2. CASE ~Fenced(r)
  <2> DEFINE why == IF runs[r].stop THEN "stopped" ELSE wk[r].why
             ts == [p \in DOMAIN runs[r].tasks |-> EndOf(runs[r].tasks[p], why)]
             status == IF why # "" THEN why ELSE Outcome({ts[p].status : p \in DOMAIN ts})
             x == [runs[r] EXCEPT !.tasks = ts, !.status = status]
  <2>0. runs[r] \in Row /\ wk[r] \in Worker
    BY TypedRun
  <2>1. why \in {"", "stopped", "interrupted"}
    BY <2>0 DEF Worker
  <2>2. runs' = [runs EXCEPT ![r].tasks = ts, ![r].status = status]
    BY <1>2 DEF Finish
  <2> HIDE DEF why
  <2>3. \A p \in DOMAIN runs[r].tasks : ts[p].msg = runs[r].tasks[p].msg
    BY <2>0, <2>1, TypedTask, EndOfTask
  <2> HIDE DEF ts, status
  <2>4. runs' = [runs EXCEPT ![r] = x]
    BY <2>2
  <2>5. x.stop = runs[r].stop /\ x.tasks = ts
    BY <2>0 DEF Row
  <2>6. runs[r].stop => Steady(runs[r], x)
    BY <2>0, <2>3, <2>5 DEF Steady, Row
  <2> HIDE DEF x
  <2> QED
    BY <2>4, <2>6, OneSteady
<1> QED
  BY <1>1, <1>2

LEMMA WorkSteady ==
  ASSUME Typed, NEW r \in Run,
         BeginTask(r) \/ Compact(r) \/ (\E p \in DOMAIN runs[r].tasks : Respond(r, p)) \/ AskCard(r)
         \/ SaveResumed(r) \/ SaveHalted(r) \/ \E s \in {"completed", "failed"} : EndTask(r, s)
  PROVE  AllSteady
<1>0. runs[r] \in Row
  BY TypedRun
<1>1. CASE BeginTask(r)
  <2>1. ~runs[r].stop
    BY <1>1 DEF BeginTask, Halted
  <2>2. \E y : runs' = [runs EXCEPT ![r] = y]
    BY <1>1 DEF BeginTask
  <2> QED
    BY <2>1, <2>2, OneSteady
<1>2. CASE Compact(r)
  <2>1. ~runs[r].stop
    BY <1>2 DEF Compact, Halted
  <2>2. \E y : runs' = [runs EXCEPT ![r] = y]
    BY <1>2 DEF Compact
  <2> QED
    BY <2>1, <2>2, OneSteady
<1>3. CASE \E p \in DOMAIN runs[r].tasks : Respond(r, p)
  <2>1. ~runs[r].stop
    BY <1>3 DEF Respond
  <2>2. \E y : runs' = [runs EXCEPT ![r] = y]
    BY <1>3 DEF Respond
  <2> QED
    BY <2>1, <2>2, OneSteady
<1>4. CASE runs' = runs
  BY <1>4, SameSteady
<1>5. CASE \E s, c : Saved(r, s, c)
  BY <1>5, SavedSteady
<1>6. CASE AskCard(r) \/ SaveResumed(r)
  BY <1>5, <1>6 DEF AskCard, SaveResumed, Save
<1>7. CASE SaveHalted(r)
  BY <1>4, <1>5, <1>7 DEF SaveHalted, Save
<1>8. CASE \E s \in {"completed", "failed"} : EndTask(r, s)
  BY <1>4, <1>5, <1>8 DEF EndTask, Save
<1> QED
  BY <1>1, <1>2, <1>3, <1>6, <1>7, <1>8

LEMMA StopStep == StoryInv /\ [Next]_vars => AllSteady
<1> SUFFICES ASSUME Typed, [Next]_vars PROVE AllSteady
  BY DEF StoryInv
<1>1. CASE Visit \/ Edit \/ Delete \/ \E q \in Request, t \in Targets : Submit(q, t)
  BY <1>1, ReadsSteady
<1>2. CASE \E q \in Request : \E r \in Run : \E p \in DOMAIN runs[r].tasks : Retry(q, r, p)
  BY <1>2, RetrySteady
<1>3. ASSUME NEW r \in Run, Stop(r) \/ Beat(r) \/ Lapse(r) \/ StartRun(r) PROVE AllSteady
  BY <1>3, RowSteady
<1>4. ASSUME NEW r \in Run,
             BeginTask(r) \/ Compact(r) \/ (\E p \in DOMAIN runs[r].tasks : Respond(r, p)) \/ Talk(r)
             \/ SaveResumed(r) \/ SaveHalted(r)
      PROVE  AllSteady
  BY <1>4, WorkSteady DEF Talk
<1>5. ASSUME NEW r \in Run, Finish(r) PROVE AllSteady
  BY <1>5, FinishSteady
<1>6. ASSUME NEW r \in Run,
             \/ NoCompact(r) \/ TakeAnswer(r) \/ FindHalted(r) \/ Watch(r)
             \/ MonitorFails(r) \/ Crash(r) \/ Shutdown(r)
      PROVE  AllSteady
  <2>1. runs' = runs
    BY <1>6 DEF NoCompact, TakeAnswer, FindHalted, Watch, Monitor, HandOver, MonitorFails, Crash, Shutdown
  <2> QED
    BY <2>1, SameSteady
<1>7. CASE UNCHANGED vars
  BY <1>7, SameSteady DEF vars
<1> QED
  BY <1>1, <1>2, <1>3, <1>4, <1>5, <1>6, <1>7 DEF Next, Body

(* A stop is never undone by the worker it meets, and no member starts after   *)
(* it: for any number of runs and members, whatever is saved, expires or is    *)
(* retried (rooms/runtime.py, rooms/service.py).                               *)
THEOREM StopStays == Spec => StopHolds
<1>1. StoryInv /\ [Next]_vars
        => [\A r \in Run : runs[r].stop =>
              /\ runs'[r].stop
              /\ \A p \in DOMAIN runs[r].tasks : runs'[r].tasks[p].msg = runs[r].tasks[p].msg]_vars
  BY StopStep DEF AllSteady, Steady
<1> QED
  BY <1>1, StoryAlways, PTL DEF Spec, StopHolds
=============================================================================
