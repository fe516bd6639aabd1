----------------------------- MODULE ToolsProofs -----------------------------
(* Theorems about what an agent's tools do beyond the conversation: commands   *)
(* and files in a sandbox, the packages of skills, and actions on the page of  *)
(* its user.  They hold for every set of workers, tasks, workspaces and files, *)
(* of requests, attempts and skills, of agent loops, sessions and elements,    *)
(* and for every number of containers, failures, mishaps and calls.            *)
EXTENDS MCSandboxes, UiActions, FiniteSetTheorems, SequenceTheorems, TLAPS

-----------------------------------------------------------------------------
(* The sandbox.                                                                *)

ContRec == [id : Container, st : {"none", "created", "running", "exited"}]
MetaRec == [id : Container, ws : SUBSET Workspace]
TaskRec == [pc : SandboxStep, op : Ops, on : Worker, ws : Workspace, file : File,
            h : Container, new : BOOLEAN]
LoopRec == [why : {"rest", "sync", "reclaim", "shutdown"}, todo : SUBSET Workspace, at : SUBSET Workspace]
SandTypes ==
    /\ store \in Files /\ box \in Files /\ made \in Files /\ durable \in Files
    /\ cont \in ContRec /\ meta \in MetaRec
    /\ holding \in Task \cup Worker \cup {NoHolder}
    /\ active \in [Worker -> Container]
    /\ idle \in BOOLEAN /\ stale \in [Worker -> BOOLEAN]
    /\ tasks \in [Task -> TaskRec] /\ loop \in [Worker -> LoopRec]
    /\ snap \in SUBSET File /\ failures \in 0 .. MaxFailures

(* What must not be lost of a workspace, and where it is loaded.               *)
Kept(w)  == (made[w] \cup durable[w]) \ RemovedFrom(w)
Filed(w) == meta.id = cont.id /\ w \in meta.ws
Here(w)  == cont.st = "running" /\ Filed(w)

(* A workspace that the running container has loaded is whole in it; of one    *)
(* that it has not, object storage has everything.                             *)
StoreGood(w) ==
    /\ durable[w] \ RemovedFrom(w) \subseteq store[w]
    /\ Here(w) => Kept(w) \subseteq box[w]
    /\ ~Here(w) => made[w] \ RemovedFrom(w) \subseteq store[w]

(* A task that works on the container has the lock and means the container     *)
(* that there is; one it made is not registered before its workspace is        *)
(* loaded; while it loads, what it has read and then unpacked is everything;   *)
(* and a command is for a container that has loaded its workspace, or is gone. *)
TaskGood(t) == LET p == tasks[t] IN
    /\ p.pc \in Holding => holding = t
    /\ p.pc \in Holding \ {"create"} => p.h = cont.id
    /\ p.new => p.op \in Tools /\ p.pc \in {"start", "fetch", "unpack", "register", "ready", "run", "done", "failed"}
    /\ p.new /\ p.pc \in {"start", "fetch", "unpack", "register"} => meta.id # cont.id
    /\ p.pc = "create" => cont.st # "running"
    /\ p.pc = "start" => p.new
    /\ p.pc \in {"create", "run", "ready"} => p.op \in Tools
    /\ p.pc = "live" => p.op \in {"page", "remove"}
    /\ p.pc = "delete" => p.op = "remove"
    /\ p.pc \in {"fetch", "unpack", "register"} => ~Filed(p.ws)
    /\ \A w \in Workspace : p.ws = w =>
         /\ p.pc = "unpack" => Kept(w) \subseteq snap
         /\ p.pc = "register" /\ cont.st = "running" => Kept(w) \subseteq box[w]
    /\ p.pc \in {"ready", "run"} => p.h <= meta.id /\ (p.h = meta.id => p.ws \in meta.ws)

(* A sync has the lock; what it has read is everything, and while it reclaims  *)
(* the container, object storage has what it is done with.                     *)
LoopGood(k) == LET l == loop[k] IN
    /\ l.why = "rest" => l = Rest
    /\ l.why # "rest" => /\ holding = k /\ active[k] = cont.id /\ meta.id = cont.id
                         /\ l.todo \subseteq meta.ws /\ l.at \subseteq l.todo
    /\ \A w \in l.at : Kept(w) \subseteq snap /\ (cont.st = "running" => snap \subseteq box[w])
    /\ l.why = "reclaim" => \A w \in meta.ws \ l.todo : made[w] \ RemovedFrom(w) \subseteq store[w]

SandInv ==
    /\ SandTypes
    /\ meta.id <= cont.id /\ (cont.id = 0 => cont.st = "none")
    /\ \A w \in Workspace : StoreGood(w)
    /\ \A t \in Task : TaskGood(t)
    /\ \A k \in Worker : LoopGood(k)

-----------------------------------------------------------------------------
(* How the records change.                                                     *)

Moves(t, pc, h, new) ==
    /\ tasks' \in [Task -> TaskRec]
    /\ tasks'[t].pc = pc /\ tasks'[t].h = h /\ tasks'[t].new = new
    /\ tasks'[t].op = tasks[t].op /\ tasks'[t].on = tasks[t].on
    /\ tasks'[t].ws = tasks[t].ws /\ tasks'[t].file = tasks[t].file
    /\ \A u \in Task \ {t} : tasks'[u] = tasks[u]

LEMMA NewTask ==
  ASSUME tasks \in [Task -> TaskRec], NEW t \in Task, NEW r \in TaskRec, tasks' = [tasks EXCEPT ![t] = r]
  PROVE  tasks' \in [Task -> TaskRec] /\ tasks'[t] = r /\ \A u \in Task \ {t} : tasks'[u] = tasks[u]
OBVIOUS

LEMMA MovesAll ==
  ASSUME tasks \in [Task -> TaskRec], NEW t \in Task, NEW pc \in SandboxStep, NEW h \in Container, NEW new \in BOOLEAN,
         tasks' = [tasks EXCEPT ![t].pc = pc, ![t].h = h, ![t].new = new]
  PROVE  Moves(t, pc, h, new)
<1>0. PICK r : r = [tasks[t] EXCEPT !.pc = pc, !.h = h, !.new = new]
  OBVIOUS
<1>1. /\ r \in TaskRec /\ r.pc = pc /\ r.h = h /\ r.new = new
      /\ r.op = tasks[t].op /\ r.on = tasks[t].on /\ r.ws = tasks[t].ws /\ r.file = tasks[t].file
  <2>1. tasks[t] \in TaskRec
    OBVIOUS
  <2> QED
    BY ONLY <1>0, <2>1, pc \in SandboxStep, h \in Container, new \in BOOLEAN DEF TaskRec
<1>2. tasks' = [tasks EXCEPT ![t] = r]
  BY <1>0
<1>3. tasks' \in [Task -> TaskRec] /\ tasks'[t] = r /\ \A u \in Task \ {t} : tasks'[u] = tasks[u]
  BY <1>1, <1>2, NewTask
<1> QED
  BY <1>1, <1>3 DEF Moves

LEMMA MovesOn ==
  ASSUME tasks \in [Task -> TaskRec], NEW t \in Task, NEW pc \in SandboxStep, Go(t, pc)
  PROVE  Moves(t, pc, tasks[t].h, tasks[t].new)
<1>1. tasks[t] \in TaskRec /\ tasks[t].h \in Container /\ tasks[t].new \in BOOLEAN
  BY DEF TaskRec
<1>2. [tasks[t] EXCEPT !.pc = pc, !.h = tasks[t].h, !.new = tasks[t].new] = [tasks[t] EXCEPT !.pc = pc]
  BY <1>1 DEF TaskRec
<1>3. tasks' = [tasks EXCEPT ![t].pc = pc, ![t].h = tasks[t].h, ![t].new = tasks[t].new]
  BY <1>2 DEF Go
<1> QED
  BY <1>1, <1>3, MovesAll

LEMMA MovesWith ==
  ASSUME tasks \in [Task -> TaskRec], NEW t \in Task, NEW pc \in SandboxStep, NEW h \in Container, GoWith(t, pc, h)
  PROVE  Moves(t, pc, h, tasks[t].new)
<1>1. tasks[t] \in TaskRec /\ tasks[t].new \in BOOLEAN
  BY DEF TaskRec
<1>2. [tasks[t] EXCEPT !.pc = pc, !.h = h, !.new = tasks[t].new] = [tasks[t] EXCEPT !.pc = pc, !.h = h]
  BY <1>1 DEF TaskRec
<1>3. tasks' = [tasks EXCEPT ![t].pc = pc, ![t].h = h, ![t].new = tasks[t].new]
  BY <1>2 DEF GoWith
<1> QED
  BY <1>1, <1>3, MovesAll

LEMMA GoneIs ==
  ASSUME cont \in ContRec, NEW st \in {"none", "created", "running", "exited"}, cont' = [cont EXCEPT !.st = st]
  PROVE  cont' \in ContRec /\ cont'.id = cont.id /\ cont'.st = st
BY DEF ContRec

LEMMA AliveIs ==
  ASSUME cont \in ContRec, NEW h
  PROVE  IsAlive(h) <=> h # 0 /\ cont.id = h /\ cont.st = "running"
BY DEF ContRec, IsAlive

(* What was removed stays removed.                                             *)
LEMMA Removals ==
  ASSUME \A u \in Task : tasks[u].pc # "new" =>
            /\ tasks'[u].pc # "new" /\ tasks'[u].op = tasks[u].op
            /\ tasks'[u].ws = tasks[u].ws /\ tasks'[u].file = tasks[u].file
  PROVE  \A w \in Workspace : RemovedFrom(w) \subseteq RemovedFrom(w)'
BY DEF RemovedFrom

LEMMA MoveRemovals ==
  ASSUME NEW t \in Task, NEW pc, NEW h, NEW new, Moves(t, pc, h, new), pc # "new"
  PROVE  \A w \in Workspace : RemovedFrom(w) \subseteq RemovedFrom(w)'
<1>1. \A u \in Task : tasks[u].pc # "new" =>
            /\ tasks'[u].pc # "new" /\ tasks'[u].op = tasks[u].op
            /\ tasks'[u].ws = tasks[u].ws /\ tasks'[u].file = tasks[u].file
  BY DEF Moves
<1> QED
  BY <1>1, Removals

(* Who has no lock is not disturbed.                                           *)
MetaGoes == meta.id <= meta'.id /\ (meta'.id = meta.id => meta.ws \subseteq meta'.ws)

LEMMA Bystander ==
  ASSUME SandInv, SandTypes', NEW u \in Task, tasks'[u] = tasks[u], tasks[u].pc \notin Holding, MetaGoes
  PROVE  TaskGood(u)'
<1>1. /\ TaskGood(u) /\ tasks[u].h \in Int /\ meta.id \in Int /\ meta'.id \in Int
  BY DEF SandInv, SandTypes, TaskRec, MetaRec, Container
<1> QED
  BY <1>1 DEF TaskGood, Holding, MetaGoes

LEMMA AtRest ==
  ASSUME NEW k \in Worker, loop'[k] = Rest
  PROVE  LoopGood(k)'
BY DEF LoopGood, Rest

LEMMA Resting ==
  ASSUME SandInv, NEW k \in Worker, holding # k
  PROVE  loop[k] = Rest
BY DEF SandInv, LoopGood

LEMMA NotHolding ==
  ASSUME SandInv, NEW t \in Task, holding # t
  PROVE  tasks[t].pc \notin Holding
BY DEF SandInv, TaskGood

(* A task moves that has the lock, or nobody has.                              *)
LEMMA TaskStep ==
  ASSUME SandInv, SandTypes', NEW t \in Task, holding \in {t, NoHolder},
         \A u \in Task \ {t} : tasks'[u] = tasks[u], UNCHANGED loop,
         MetaGoes, meta'.id <= cont'.id, cont'.id = 0 => cont'.st = "none",
         TaskGood(t)', \A w \in Workspace : StoreGood(w)'
  PROVE  SandInv'
<1>1. ASSUME NEW u \in Task PROVE TaskGood(u)'
  <2>1. CASE u = t
    BY <2>1
  <2>2. CASE u # t
    <3>1. tasks[u].pc \notin Holding
      BY <2>2, NotHolding, SandboxAssumption
    <3> QED
      BY <2>2, <3>1, Bystander
  <2> QED
    BY <2>1, <2>2
<1>2. ASSUME NEW k \in Worker PROVE LoopGood(k)'
  BY Resting, AtRest, SandboxAssumption
<1> QED
  BY <1>1, <1>2 DEF SandInv

(* The loop of a worker moves that has the lock, or nobody has.                *)
LEMMA LoopStep ==
  ASSUME SandInv, SandTypes', NEW k \in Worker, holding \in {k, NoHolder},
         UNCHANGED <<tasks, meta>>, cont'.id = cont.id, cont'.id = 0 => cont'.st = "none",
         \A j \in Worker \ {k} : loop'[j] = loop[j],
         LoopGood(k)', \A w \in Workspace : StoreGood(w)'
  PROVE  SandInv'
<1>1. ASSUME NEW u \in Task PROVE TaskGood(u)'
  <2>1. tasks[u].pc \notin Holding
    BY NotHolding, SandboxAssumption
  <2>2. MetaGoes
    BY DEF MetaGoes, SandInv, SandTypes, MetaRec, Container
  <2> QED
    BY <2>1, <2>2, Bystander
<1>2. ASSUME NEW j \in Worker PROVE LoopGood(j)'
  <2>1. CASE j = k
    BY <2>1
  <2>2. CASE j # k
    BY <2>2, Resting, AtRest, SandboxAssumption
  <2> QED
    BY <2>1, <2>2
<1> QED
  BY <1>1, <1>2 DEF SandInv

(* Nobody's lock changes hands: what happens loses nothing that must be kept.  *)
LEMMA Quietly ==
  ASSUME SandInv, SandTypes', UNCHANGED <<holding, active, meta, snap, durable, loop>>,
         cont'.id = cont.id, cont'.st = "running" => cont.st = "running" /\ box' = box,
         cont'.id = 0 => cont'.st = "none",
         \A w \in Workspace : /\ made'[w] \subseteq made[w] /\ RemovedFrom(w) \subseteq RemovedFrom(w)'
                              /\ store[w] \ RemovedFrom(w)' \subseteq store'[w]
                              /\ cont'.st # cont.st => made'[w] \subseteq store'[w],
         \A u \in Task : tasks'[u] = tasks[u] \/ TaskGood(u)'
  PROVE  SandInv'
<1>1. ASSUME NEW w \in Workspace PROVE StoreGood(w)' /\ Kept(w)' \subseteq Kept(w)
  <2>1. StoreGood(w)
    BY DEF SandInv
  <2> QED
    BY <2>1 DEF StoreGood, Kept, Here, Filed
<1>2. ASSUME NEW u \in Task PROVE TaskGood(u)'
  <2>1. TaskGood(u) /\ tasks[u].ws \in Workspace
    BY DEF SandInv, SandTypes, TaskRec
  <2>2. CASE tasks'[u] = tasks[u]
    BY <2>1, <2>2, <1>1 DEF TaskGood, Filed
  <2> QED
    BY <2>1, <2>2
<1>3. ASSUME NEW k \in Worker PROVE LoopGood(k)'
  <2>1. LoopGood(k) /\ loop[k].at \subseteq Workspace /\ meta.ws \subseteq Workspace
    BY DEF SandInv, SandTypes, LoopRec, MetaRec
  <2> QED
    BY <2>1, <1>1 DEF LoopGood
<1> QED
  BY <1>1, <1>2, <1>3 DEF SandInv

(* A workspace stays loaded or not, and loses only what is to be removed.      *)
LEMMA StoreStep ==
  ASSUME SandInv, NEW w \in Workspace, RemovedFrom(w) \subseteq RemovedFrom(w)', UNCHANGED <<made, durable>>,
         store[w] \ RemovedFrom(w)' \subseteq store'[w],
         Here(w)' => Here(w) /\ box[w] \ RemovedFrom(w)' \subseteq box'[w],
         Here(w) => Here(w)'
  PROVE  StoreGood(w)'
<1>1. StoreGood(w)
  BY DEF SandInv
<1> QED
  BY <1>1 DEF StoreGood, Kept

LEMMA SandKnown ==
  ASSUME SandInv
  PROVE  /\ cont \in ContRec /\ meta \in MetaRec /\ cont.id \in Int /\ meta.id \in Int /\ meta.id <= cont.id
         /\ \A t \in Task : tasks[t] \in TaskRec /\ tasks[t].ws \in Workspace /\ tasks[t].h \in Container
                          /\ tasks[t].on \in Worker /\ tasks[t].file \in File /\ TaskGood(t)
         /\ \A k \in Worker : LoopGood(k) /\ loop[k] \in LoopRec /\ active[k] \in Container
BY DEF SandInv, SandTypes, ContRec, MetaRec, TaskRec, Container

-----------------------------------------------------------------------------
(* The actions of tasks that take the lock or have it.                         *)

(* The metadata stay as they are.                                              *)
LEMMA TaskMoves ==
  ASSUME SandInv, SandTypes', NEW t \in Task, NEW pc, NEW h, NEW new, Moves(t, pc, h, new), pc # "new",
         holding \in {t, NoHolder}, UNCHANGED <<loop, meta, made, durable>>,
         cont.id <= cont'.id, cont'.id = 0 => cont'.st = "none",
         TaskGood(t)',
         \A w \in Workspace : /\ store[w] \ RemovedFrom(w)' \subseteq store'[w]
                              /\ Here(w)' => Here(w) /\ box[w] \ RemovedFrom(w)' \subseteq box'[w]
                              /\ Here(w) => Here(w)'
  PROVE  SandInv'
<1>1. \A w \in Workspace : RemovedFrom(w) \subseteq RemovedFrom(w)'
  BY MoveRemovals
<1>2. \A w \in Workspace : StoreGood(w)'
  BY <1>1, StoreStep
<1>3. MetaGoes /\ meta'.id <= cont'.id
  <2>1. cont'.id \in Int
    BY DEF SandTypes, ContRec, Container
  <2> QED
    BY <2>1, SandKnown DEF MetaGoes
<1>4. \A u \in Task \ {t} : tasks'[u] = tasks[u]
  BY DEF Moves
<1> QED
  BY <1>2, <1>3, <1>4, TaskStep

LEMMA EnterKeeps ==
  ASSUME SandInv, NEW t \in Task, Enter(t)
  PROVE  SandInv'
<1> DEFINE k == tasks[t].on
           tool == tasks[t].op \in Tools
           seeks == IF tool THEN ~IsAlive(active[k]) ELSE active[k] = 0
<1>1. /\ tasks[t].pc = "enter" /\ holding = NoHolder
      /\ UNCHANGED <<store, meta, idle, stale, loop, snap, made, durable, failures>>
      /\ active' = IF tool /\ seeks THEN [active EXCEPT ![k] = 0] ELSE active
  BY DEF Enter
<1>2. active' \in [Worker -> Container]
  <2>1. active \in [Worker -> Container] /\ 0 \in Container
    BY SandboxAssumption DEF SandInv, SandTypes, Container
  <2> QED
    BY <1>1, <2>1
<1>3. /\ TaskGood(t) /\ tasks \in [Task -> TaskRec] /\ active[k] \in Container /\ cont.id \in Container
      /\ cont \in ContRec /\ ~tasks[t].new
  BY <1>1, SandKnown DEF SandInv, SandTypes, ContRec, TaskGood
<1>4. PICK pc, h :
        /\ Moves(t, pc, h, tasks[t].new) /\ pc \in {"ensure", "done", "failed", "create"}
        /\ holding' \in {t, holding} /\ (pc \in {"ensure", "create"} => holding' = t)
        /\ pc = "ensure" => h = cont.id
        /\ pc = "create" => tool /\ cont'.st # "running"
        /\ \/ UNCHANGED <<cont, box>>
           \/ cont.st # "running" /\ Gone
  <2>1. CASE IsAlive(active[k]) /\ holding' = t /\ GoWith(t, "ensure", active[k]) /\ UNCHANGED <<cont, box>>
    <3>1. Moves(t, "ensure", active[k], tasks[t].new) /\ active[k] = cont.id
      BY <1>3, <2>1, MovesWith, AliveIs DEF SandboxStep
    <3> QED
      BY <2>1, <3>1
  <2>2. CASE Go(t, "done") /\ UNCHANGED <<holding, cont, box>>
    <3>1. Moves(t, "done", tasks[t].h, tasks[t].new)
      BY <1>3, <2>2, MovesOn DEF SandboxStep
    <3> QED
      BY <2>2, <3>1
  <2>3. CASE holding' = t /\ GoWith(t, "ensure", cont.id) /\ UNCHANGED <<cont, box>>
    <3>1. Moves(t, "ensure", cont.id, tasks[t].new)
      BY <1>3, <2>3, MovesWith DEF SandboxStep
    <3> QED
      BY <2>3, <3>1
  <2>4. CASE Go(t, "failed") /\ UNCHANGED <<holding, cont, box>>
    <3>1. Moves(t, "failed", tasks[t].h, tasks[t].new)
      BY <1>3, <2>4, MovesOn DEF SandboxStep
    <3> QED
      BY <2>4, <3>1
  <2>5. CASE cont.st # "running" /\ Gone /\ tool /\ holding' = t /\ Go(t, "create")
    <3>1. Moves(t, "create", tasks[t].h, tasks[t].new)
      BY <1>3, <2>5, MovesOn DEF SandboxStep
    <3>2. cont'.st # "running"
      BY <1>3, <2>5, GoneIs DEF Gone
    <3> QED
      BY <2>5, <3>1, <3>2
  <2>6. CASE cont.st # "running" /\ Gone /\ holding' = holding /\ Go(t, "done")
    <3>1. Moves(t, "done", tasks[t].h, tasks[t].new)
      BY <1>3, <2>6, MovesOn DEF SandboxStep
    <3> QED
      BY <2>6, <3>1
  <2> QED
    BY <2>1, <2>2, <2>3, <2>4, <2>5, <2>6 DEF Enter
<1>5. /\ cont' \in ContRec /\ box' \in Files /\ cont'.id = cont.id
      /\ cont'.st \in {cont.st, "none"} /\ (cont'.st # cont.st \/ box' # box => cont.st # "running")
  BY <1>3, <1>4, GoneIs DEF Gone, NoFiles, Files, SandInv, SandTypes
<1>6. SandTypes'
  BY <1>1, <1>2, <1>4, <1>5 DEF SandInv, SandTypes, Moves
<1>7. TaskGood(t)'
  <2>1. tasks'[t].pc = pc /\ tasks'[t].h = h /\ tasks'[t].new = tasks[t].new /\ tasks'[t].op = tasks[t].op
    BY <1>4 DEF Moves
  <2> QED
    BY <1>3, <1>4, <1>5, <2>1 DEF TaskGood, Holding
<1>8. \A w \in Workspace : /\ Here(w)' => Here(w) /\ box[w] \ RemovedFrom(w)' \subseteq box'[w]
                           /\ Here(w) => Here(w)'
  BY <1>1, <1>5 DEF Here, Filed
<1>9. cont.id <= cont'.id /\ (cont'.id = 0 => cont'.st = "none")
  BY <1>5, SandKnown DEF SandInv
<1> QED
  BY <1>1, <1>4, <1>6, <1>7, <1>8, <1>9, TaskMoves

LEMMA CreateKeeps ==
  ASSUME SandInv, NEW t \in Task, Create(t)
  PROVE  SandInv'
<1>1. /\ tasks[t].pc = "create" /\ cont.id < MaxContainer /\ holding = t /\ cont.st # "running" /\ tasks[t].op \in Tools
      /\ UNCHANGED <<store, box, meta, holding, active, idle, stale, loop, snap, made, durable, failures>>
  BY SandKnown DEF Create, TaskGood, Holding
<1> DEFINE n == cont.id + 1
<1>2. n \in Container /\ n > cont.id /\ n # 0 /\ meta.id # n /\ cont.id \in Int
  BY <1>1, SandKnown, SandboxAssumption DEF ContRec, Container
<1>3. cont' \in ContRec /\ cont'.id = n /\ cont'.st = "created"
  BY <1>2 DEF Create, ContRec
<1>4. Moves(t, "start", n, TRUE)
  <2>1. tasks' = [tasks EXCEPT ![t].pc = "start", ![t].h = n, ![t].new = TRUE] /\ tasks \in [Task -> TaskRec]
    BY DEF Create, SandInv, SandTypes
  <2> QED
    BY <1>2, <2>1, MovesAll DEF SandboxStep
<1> HIDE DEF n
<1>5. SandTypes'
  BY <1>1, <1>3, <1>4 DEF SandInv, SandTypes, Moves
<1>6. TaskGood(t)'
  BY <1>1, <1>2, <1>3, <1>4 DEF TaskGood, Holding, Moves
<1>7. \A w \in Workspace : /\ store[w] \ RemovedFrom(w)' \subseteq store'[w]
                           /\ Here(w)' => Here(w) /\ box[w] \ RemovedFrom(w)' \subseteq box'[w]
                           /\ Here(w) => Here(w)'
  BY <1>1, <1>3 DEF Here
<1>8. cont.id <= cont'.id /\ (cont'.id = 0 => cont'.st = "none")
  BY <1>2, <1>3 DEF Container
<1> QED
  BY <1>1, <1>4, <1>5, <1>6, <1>7, <1>8, TaskMoves

LEMMA StartKeeps ==
  ASSUME SandInv, NEW t \in Task, Start(t)
  PROVE  SandInv'
<1>1. /\ tasks[t].pc = "start" /\ holding = t /\ tasks[t].new /\ tasks[t].op \in Tools
      /\ meta.id # cont.id /\ tasks[t].h = cont.id
      /\ UNCHANGED <<store, box, meta, holding, active, idle, stale, loop, snap, made, durable, failures>>
  BY SandKnown DEF Start, TaskGood, Holding
<1>2. cont' \in ContRec /\ cont'.id = cont.id /\ cont'.st = "running"
  BY SandKnown, GoneIs DEF Start
<1>3. Moves(t, "fetch", tasks[t].h, tasks[t].new)
  BY MovesOn DEF Start, SandInv, SandTypes, SandboxStep
<1>4. SandTypes'
  BY <1>1, <1>2, <1>3 DEF SandInv, SandTypes, Moves
<1>5. TaskGood(t)'
  BY <1>1, <1>2, <1>3 DEF TaskGood, Holding, Moves, Filed
<1>6. \A w \in Workspace : /\ store[w] \ RemovedFrom(w)' \subseteq store'[w]
                           /\ Here(w)' => Here(w) /\ box[w] \ RemovedFrom(w)' \subseteq box'[w]
                           /\ Here(w) => Here(w)'
  BY <1>1, <1>2 DEF Here, Filed
<1>7. cont.id <= cont'.id /\ (cont'.id = 0 => cont'.st = "none")
  <2>1. cont.id # 0
    BY <1>1, SandKnown DEF MetaRec, Container
  <2> QED
    BY <1>2, <2>1, SandKnown
<1> QED
  BY <1>1, <1>3, <1>4, <1>5, <1>6, <1>7, TaskMoves
(* The workspace of the task is loaded: it goes on.                            *)
LEMMA Returns ==
  ASSUME SandInv, NEW t \in Task, Return(t), tasks[t].pc \in {"ensure", "register"},
         meta'.id = tasks[t].h, tasks[t].ws \in meta'.ws, cont' = cont, meta' \in MetaRec
  PROVE  /\ Moves(t, IF tasks[t].op \in Tools THEN "ready" ELSE "mirror", tasks[t].h, tasks[t].new)
         /\ TaskGood(t)'
         /\ active' \in [Worker -> Container] /\ idle' \in BOOLEAN /\ stale' \in [Worker -> BOOLEAN]
         /\ holding' \in {t, NoHolder}
<1>1. /\ TaskGood(t) /\ holding = t /\ tasks \in [Task -> TaskRec] /\ tasks[t].on \in Worker /\ tasks[t].h \in Container
      /\ active \in [Worker -> Container] /\ idle \in BOOLEAN /\ stale \in [Worker -> BOOLEAN] /\ tasks[t].h \in Int
  BY SandKnown DEF TaskGood, Holding, SandInv, SandTypes, Container
<1>2. CASE tasks[t].op \in Tools
  <2>1. Moves(t, "ready", tasks[t].h, tasks[t].new)
    BY <1>1, <1>2, MovesOn DEF Return, SandboxStep
  <2>2. TaskGood(t)'
    BY <1>1, <1>2, <2>1 DEF TaskGood, Holding, Moves, MetaRec, Container
  <2> QED
    BY <1>1, <1>2, <2>1, <2>2 DEF Return, Touch
<1>3. CASE tasks[t].op \notin Tools
  <2>1. Moves(t, "mirror", tasks[t].h, tasks[t].new)
    BY <1>1, <1>3, MovesOn DEF Return, SandboxStep
  <2>2. TaskGood(t)'
    BY <1>1, <1>3, <2>1 DEF TaskGood, Holding, Moves, Return
  <2> QED
    BY <1>1, <1>3, <2>1, <2>2 DEF Return
<1> QED
  BY <1>2, <1>3

LEMMA EnsureKeeps ==
  ASSUME SandInv, NEW t \in Task, Ensure(t)
  PROVE  SandInv'
<1>1. /\ tasks[t].pc = "ensure" /\ meta.id = tasks[t].h /\ holding = t /\ tasks[t].h = cont.id
      /\ UNCHANGED <<store, box, cont, meta, loop, snap, made, durable, failures>>
  BY SandKnown DEF Ensure, IsKnown, TaskGood, Holding
<1>2. \A w \in Workspace : /\ store[w] \ RemovedFrom(w)' \subseteq store'[w]
                           /\ Here(w)' => Here(w) /\ box[w] \ RemovedFrom(w)' \subseteq box'[w]
                           /\ Here(w) => Here(w)'
  BY <1>1 DEF Here, Filed
<1>3. cont.id <= cont'.id /\ (cont'.id = 0 => cont'.st = "none")
  BY <1>1, SandKnown DEF SandInv
<1>4. CASE tasks[t].ws \in meta.ws
  <2> DEFINE pc == IF tasks[t].op \in Tools THEN "ready" ELSE "mirror"
  <2>1. Return(t) /\ meta' \in MetaRec
    BY <1>1, <1>4, SandKnown DEF Ensure
  <2>2. /\ Moves(t, pc, tasks[t].h, tasks[t].new) /\ TaskGood(t)'
        /\ active' \in [Worker -> Container] /\ idle' \in BOOLEAN /\ stale' \in [Worker -> BOOLEAN]
        /\ holding' \in {t, NoHolder}
    BY <1>1, <1>4, <2>1, Returns
  <2>3. pc # "new"
    OBVIOUS
  <2> HIDE DEF pc
  <2>4. SandTypes'
    BY <1>1, <2>2 DEF SandInv, SandTypes, Moves
  <2> QED
    BY <1>1, <1>2, <1>3, <2>2, <2>3, <2>4, TaskMoves
<1>5. CASE tasks[t].ws \notin meta.ws
  <2>1. Go(t, "fetch") /\ UNCHANGED <<holding, active, idle, stale>>
    BY <1>5 DEF Ensure
  <2>2. Moves(t, "fetch", tasks[t].h, tasks[t].new)
    BY <2>1, MovesOn DEF SandInv, SandTypes, SandboxStep
  <2>3. SandTypes'
    BY <1>1, <2>1, <2>2 DEF SandInv, SandTypes, Moves
  <2>4. TaskGood(t)'
    BY <1>1, <1>5, <2>1, <2>2, SandKnown DEF TaskGood, Holding, Moves, Filed
  <2> QED
    BY <1>1, <1>2, <1>3, <2>2, <2>3, <2>4, TaskMoves
<1> QED
  BY <1>4, <1>5

LEMMA FetchKeeps ==
  ASSUME SandInv, NEW t \in Task, Fetch(t)
  PROVE  SandInv'
<1>1. /\ tasks[t].pc = "fetch" /\ holding = t /\ tasks[t].h = cont.id /\ ~Filed(tasks[t].ws)
      /\ snap' = store[tasks[t].ws]
      /\ UNCHANGED <<store, box, cont, meta, holding, active, idle, stale, loop, made, durable, failures>>
  BY SandKnown DEF Fetch, TaskGood, Holding
<1>2. Moves(t, "unpack", tasks[t].h, tasks[t].new)
  BY MovesOn DEF Fetch, SandInv, SandTypes, SandboxStep
<1>3. SandTypes'
  BY <1>1, <1>2, SandKnown DEF SandInv, SandTypes, Moves, Files
<1>4. \A w \in Workspace : RemovedFrom(w) \subseteq RemovedFrom(w)'
  BY <1>2, MoveRemovals
<1>5. \A w \in Workspace : tasks[t].ws = w => Kept(w)' \subseteq snap'
  <2>1. \A w \in Workspace : StoreGood(w)
    BY DEF SandInv
  <2> QED
    BY <1>1, <1>4, <2>1 DEF StoreGood, Kept, Here
<1>6. TaskGood(t)'
  BY <1>1, <1>2, <1>5, SandKnown DEF TaskGood, Holding, Moves, Filed
<1>7. \A w \in Workspace : /\ store[w] \ RemovedFrom(w)' \subseteq store'[w]
                           /\ Here(w)' => Here(w) /\ box[w] \ RemovedFrom(w)' \subseteq box'[w]
                           /\ Here(w) => Here(w)'
  BY <1>1 DEF Here, Filed
<1>8. cont.id <= cont'.id /\ (cont'.id = 0 => cont'.st = "none")
  BY <1>1, SandKnown DEF SandInv
<1> QED
  BY <1>1, <1>2, <1>3, <1>6, <1>7, <1>8, TaskMoves

LEMMA UnpackKeeps ==
  ASSUME SandInv, NEW t \in Task, Unpack(t)
  PROVE  SandInv'
<1>1. /\ tasks[t].pc = "unpack" /\ holding = t /\ tasks[t].h = cont.id /\ ~Filed(tasks[t].ws)
      /\ tasks \in [Task -> TaskRec] /\ tasks[t].ws \in Workspace
      /\ UNCHANGED <<store, cont, meta, holding, active, idle, stale, loop, snap, made, durable, failures>>
  BY SandKnown DEF Unpack, TaskGood, Holding, SandInv, SandTypes
<1>2. PICK pc \in {"unpack", "register"} :
        /\ Moves(t, pc, tasks[t].h, tasks[t].new) /\ box' \in Files /\ \A w \in Workspace : box[w] \subseteq box'[w]
        /\ pc = "register" => snap \subseteq box'[tasks[t].ws]
  <2>1. CASE snap \subseteq box[tasks[t].ws] /\ Go(t, "register") /\ box' = box
    BY <1>1, <2>1, MovesOn DEF SandInv, SandTypes, SandboxStep
  <2>2. CASE tasks' = tasks /\ \E f \in snap \ box[tasks[t].ws] : box' = [box EXCEPT ![tasks[t].ws] = @ \cup {f}]
    <3>1. Moves(t, "unpack", tasks[t].h, tasks[t].new)
      BY <1>1, <2>2 DEF Moves
    <3>2. box' \in Files /\ \A w \in Workspace : box[w] \subseteq box'[w]
      BY <1>1, <2>2 DEF SandInv, SandTypes, Files
    <3> QED
      BY <3>1, <3>2
  <2> QED
    BY <2>1, <2>2 DEF Unpack
<1>3. SandTypes'
  BY <1>1, <1>2, SandKnown DEF SandInv, SandTypes, Moves
<1>4. pc # "new" /\ \A w \in Workspace : RemovedFrom(w) \subseteq RemovedFrom(w)'
  BY <1>2, MoveRemovals
<1>5. \A w \in Workspace : tasks[t].ws = w => Kept(w)' \subseteq snap' /\ (pc = "register" => Kept(w)' \subseteq box'[w])
  BY <1>1, <1>2, <1>4, SandKnown DEF TaskGood, Kept
<1>6. TaskGood(t)'
  BY <1>1, <1>2, <1>5, SandKnown DEF TaskGood, Holding, Moves, Filed
<1>7. \A w \in Workspace : /\ store[w] \ RemovedFrom(w)' \subseteq store'[w]
                           /\ Here(w)' => Here(w) /\ box[w] \ RemovedFrom(w)' \subseteq box'[w]
                           /\ Here(w) => Here(w)'
  BY <1>1, <1>2 DEF Here, Filed
<1>8. cont.id <= cont'.id /\ (cont'.id = 0 => cont'.st = "none")
  BY <1>1, SandKnown DEF SandInv
<1> QED
  BY <1>1, <1>2, <1>3, <1>4, <1>6, <1>7, <1>8, TaskMoves

LEMMA MirrorKeeps ==
  ASSUME SandInv, NEW t \in Task, Mirror(t)
  PROVE  SandInv'
<1>1. /\ tasks[t].pc = "mirror" /\ holding = t /\ holding' = NoHolder /\ tasks[t].on \in Worker
      /\ tasks[t].ws \in Workspace /\ tasks[t].file \in File
      /\ box' = [box EXCEPT ![tasks[t].ws] = @ \cup {tasks[t].file}]
      /\ UNCHANGED <<store, cont, meta, active, loop, snap, made, durable, failures>>
  BY SandKnown DEF Mirror, TaskGood, Holding
<1>2. Moves(t, "done", tasks[t].h, tasks[t].new)
  BY MovesOn DEF Mirror, SandInv, SandTypes, SandboxStep
<1>3. idle' \in BOOLEAN /\ stale' \in [Worker -> BOOLEAN]
  BY <1>1 DEF Mirror, Touch, SandInv, SandTypes
<1>4. box' \in Files /\ \A w \in Workspace : box[w] \subseteq box'[w]
  BY <1>1 DEF SandInv, SandTypes, Files
<1>5. SandTypes'
  BY <1>1, <1>2, <1>3, <1>4 DEF SandInv, SandTypes, Moves
<1>6. TaskGood(t)'
  BY <1>1, <1>2, SandKnown DEF TaskGood, Holding, Moves
<1>7. \A w \in Workspace : /\ store[w] \ RemovedFrom(w)' \subseteq store'[w]
                           /\ Here(w)' => Here(w) /\ box[w] \ RemovedFrom(w)' \subseteq box'[w]
                           /\ Here(w) => Here(w)'
  BY <1>1, <1>4 DEF Here, Filed
<1>8. cont.id <= cont'.id /\ (cont'.id = 0 => cont'.st = "none")
  BY <1>1, SandKnown DEF SandInv
<1> QED
  BY <1>1, <1>2, <1>5, <1>6, <1>7, <1>8, TaskMoves

LEMMA ExecuteKeeps ==
  ASSUME SandInv, NEW t \in Task, Execute(t)
  PROVE  SandInv'
<1>1. /\ tasks[t].pc = "ready" /\ holding = NoHolder
      /\ UNCHANGED <<store, box, cont, meta, active, idle, stale, loop, snap, made, durable, failures>>
  BY DEF Execute
<1>2. PICK pc \in {"run", "failed"} :
        /\ Moves(t, pc, tasks[t].h, tasks[t].new)
        /\ pc = "run" => holding' = t /\ IsAlive(tasks[t].h)
        /\ pc = "failed" => holding' = NoHolder
  <2>1. CASE IsAlive(tasks[t].h) /\ holding' = t /\ Go(t, "run")
    <3>1. Moves(t, "run", tasks[t].h, tasks[t].new)
      BY <2>1, MovesOn DEF SandInv, SandTypes, SandboxStep
    <3> QED
      BY <2>1, <3>1
  <2>2. CASE holding' = holding /\ Go(t, "failed")
    BY <1>1, <2>2, MovesOn DEF SandInv, SandTypes, SandboxStep
  <2> QED
    BY <2>1, <2>2 DEF Execute
<1>3. SandTypes' /\ pc # "new"
  BY <1>1, <1>2 DEF SandInv, SandTypes, Moves
<1>4. TaskGood(t)'
  BY <1>1, <1>2, AliveIs, SandKnown DEF TaskGood, Holding, Moves
<1>5. \A w \in Workspace : /\ store[w] \ RemovedFrom(w)' \subseteq store'[w]
                           /\ Here(w)' => Here(w) /\ box[w] \ RemovedFrom(w)' \subseteq box'[w]
                           /\ Here(w) => Here(w)'
  BY <1>1 DEF Here, Filed
<1>6. cont.id <= cont'.id /\ (cont'.id = 0 => cont'.st = "none")
  BY <1>1, SandKnown DEF SandInv
<1> QED
  BY <1>1, <1>2, <1>3, <1>4, <1>5, <1>6, TaskMoves

LEMMA PageLiveKeeps ==
  ASSUME SandInv, NEW t \in Task, PageLive(t)
  PROVE  SandInv'
<1> DEFINE adds == tasks[t].op = "page"
           pc == IF adds THEN "done" ELSE "delete"
<1>1. /\ tasks[t].pc = "live" /\ holding = NoHolder /\ tasks[t].op \in {"page", "remove"} /\ tasks[t].on \in Worker
      /\ tasks[t].ws \in Workspace /\ tasks[t].file \in File
      /\ UNCHANGED <<store, cont, meta, holding, active, loop, snap, made, durable, failures>>
  BY SandKnown DEF PageLive, TaskGood
<1>2. Moves(t, pc, tasks[t].h, tasks[t].new) /\ pc \in {"done", "delete"} /\ (pc = "delete" => tasks[t].op = "remove")
  BY <1>1, MovesOn DEF PageLive, SandInv, SandTypes, SandboxStep
<1>3. idle' \in BOOLEAN /\ stale' \in [Worker -> BOOLEAN]
  BY <1>1 DEF PageLive, Touch, SandInv, SandTypes
<1>4. tasks[t].op = "remove" => tasks[t].file \in RemovedFrom(tasks[t].ws)
  BY <1>1 DEF RemovedFrom
<1>5. \A w \in Workspace : RemovedFrom(w) \subseteq RemovedFrom(w)'
  BY <1>2, MoveRemovals
<1>6. box' \in Files /\ \A w \in Workspace : box[w] \ RemovedFrom(w) \subseteq box'[w]
  BY <1>1, <1>4 DEF PageLive, SandInv, SandTypes, Files
<1> HIDE DEF pc
<1>7. SandTypes'
  BY <1>1, <1>2, <1>3, <1>6 DEF SandInv, SandTypes, Moves
<1>8. TaskGood(t)'
  BY <1>1, <1>2, SandKnown DEF TaskGood, Holding, Moves
<1>9. \A w \in Workspace : /\ store[w] \ RemovedFrom(w)' \subseteq store'[w]
                           /\ Here(w)' => Here(w) /\ box[w] \ RemovedFrom(w)' \subseteq box'[w]
                           /\ Here(w) => Here(w)'
  BY <1>1, <1>5, <1>6 DEF Here, Filed
<1>10. cont.id <= cont'.id /\ (cont'.id = 0 => cont'.st = "none")
  BY <1>1, SandKnown DEF SandInv
<1> QED
  BY <1>1, <1>2, <1>7, <1>8, <1>9, <1>10, TaskMoves

(* A failed task leaves no container that it made.                             *)
LEMMA FailKeeps ==
  ASSUME SandInv, NEW t \in Task, Fail(t)
  PROVE  SandInv'
<1> DEFINE pc == IF tasks[t].op = "upload" THEN "done" ELSE "failed"
           new == tasks[t].new /\ tasks[t].pc \in Holding \ {"run"}
<1>1. /\ tasks[t].pc \in Holding /\ holding = t /\ holding' = NoHolder
      /\ UNCHANGED <<store, meta, active, idle, stale, loop, snap, made, durable>>
  BY SandKnown DEF Fail, TaskGood
<1>2. Moves(t, pc, tasks[t].h, tasks[t].new) /\ pc \in {"done", "failed"} /\ (pc = "done" => tasks[t].op = "upload")
  BY <1>1, MovesOn DEF Fail, SandInv, SandTypes, SandboxStep
<1> HIDE DEF pc
<1>3. /\ cont' \in ContRec /\ box' \in Files /\ cont'.id = cont.id
      /\ \/ cont' = cont /\ box' = box
         \/ cont'.st = "none" /\ meta.id # cont.id
  <2>1. CASE new
    <3>1. meta.id # cont.id
      BY <2>1, SandKnown DEF TaskGood, Holding
    <3>2. Gone
      BY <2>1 DEF Fail
    <3>3. cont' \in ContRec /\ cont'.id = cont.id /\ cont'.st = "none" /\ box' = NoFiles
      BY <3>2, SandKnown, GoneIs DEF Gone
    <3> QED
      BY <3>1, <3>3 DEF NoFiles, Files
  <2>2. CASE ~new
    BY <2>2, SandKnown DEF Fail, SandInv, SandTypes
  <2> QED
    BY <2>1, <2>2
<1>4. failures' \in 0 .. MaxFailures
  BY SandboxAssumption DEF Fail, Hit, SandInv, SandTypes
<1>5. SandTypes'
  BY <1>1, <1>2, <1>3, <1>4 DEF SandInv, SandTypes, Moves
<1>6. TaskGood(t)'
  BY <1>1, <1>2, SandKnown DEF TaskGood, Holding, Moves, Tools
<1>7. \A w \in Workspace : /\ store[w] \ RemovedFrom(w)' \subseteq store'[w]
                           /\ Here(w)' => Here(w) /\ box[w] \ RemovedFrom(w)' \subseteq box'[w]
                           /\ Here(w) => Here(w)'
  BY <1>1, <1>3 DEF Here, Filed
<1>8. cont.id <= cont'.id /\ (cont'.id = 0 => cont'.st = "none")
  BY <1>3, SandKnown DEF SandInv
<1> QED
  BY <1>1, <1>2, <1>5, <1>6, <1>7, <1>8, TaskMoves
(* A workspace is registered when everything of it is in the container.        *)
LEMMA RegisterKeeps ==
  ASSUME SandInv, NEW t \in Task, Register(t)
  PROVE  SandInv'
<1> DEFINE p == tasks[t]
           pc == IF p.op \in Tools THEN "ready" ELSE "mirror"
           ws == (IF IsKnown(p.h) THEN meta.ws ELSE {}) \cup {p.ws}
<1>1. /\ p.pc = "register" /\ holding = t /\ p.h = cont.id /\ p.h \in Container /\ p.ws \in Workspace
      /\ meta' = [id |-> p.h, ws |-> ws] /\ Return(t)
      /\ UNCHANGED <<store, box, cont, loop, snap, made, durable, failures>>
  BY SandKnown DEF Register, TaskGood, Holding
<1>2. meta' \in MetaRec /\ meta'.id = cont.id /\ meta'.ws = ws
  BY <1>1, SandKnown DEF MetaRec
<1>3. /\ Moves(t, pc, p.h, p.new) /\ TaskGood(t)'
      /\ active' \in [Worker -> Container] /\ idle' \in BOOLEAN /\ stale' \in [Worker -> BOOLEAN]
      /\ holding' \in {t, NoHolder}
  BY <1>1, <1>2, Returns
<1>4. pc # "new"
  OBVIOUS
<1>5. MetaGoes /\ meta'.id <= cont'.id /\ (cont'.id = 0 => cont'.st = "none")
  BY <1>1, <1>2, SandKnown DEF MetaGoes, IsKnown, SandInv
<1> HIDE DEF pc
<1>6. SandTypes'
  BY <1>1, <1>2, <1>3 DEF SandInv, SandTypes, Moves
<1>7. ASSUME NEW w \in Workspace PROVE StoreGood(w)'
  <2>1. RemovedFrom(w) \subseteq RemovedFrom(w)' /\ StoreGood(w)
    BY <1>3, <1>4, MoveRemovals DEF SandInv
  <2>2. CASE w = p.ws
    <3>1. cont.st = "running" => Kept(w) \subseteq box[w]
      BY <1>1, <2>2, SandKnown DEF TaskGood
    <3> QED
      BY <1>1, <1>2, <2>1, <2>2, <3>1 DEF StoreGood, Kept, Here, Filed
  <2>3. CASE w # p.ws
    BY <1>1, <1>2, <2>1, <2>3 DEF StoreGood, Kept, Here, Filed, IsKnown
  <2> QED
    BY <2>2, <2>3
<1>8. \A u \in Task \ {t} : tasks'[u] = tasks[u]
  BY <1>3 DEF Moves
<1> QED
  BY <1>1, <1>3, <1>5, <1>6, <1>7, <1>8, TaskStep

(* A command runs where its workspace is loaded.                               *)
LEMMA CommandKeeps ==
  ASSUME SandInv, NEW t \in Task, Command(t)
  PROVE  SandInv'
<1> DEFINE ws == tasks[t].ws
           f == tasks[t].file
<1>1. /\ tasks[t].pc = "run" /\ holding = t /\ holding' = NoHolder /\ tasks[t].h = cont.id /\ cont.st = "running"
      /\ ws \in Workspace /\ f \in File /\ tasks[t].on \in Worker
      /\ UNCHANGED <<cont, meta, active, loop, snap, durable, failures>>
  BY SandKnown, AliveIs DEF Command, TaskGood, Holding
<1>2. Here(ws)
  BY <1>1, SandKnown DEF TaskGood, Here, Filed
<1>3. Moves(t, "done", tasks[t].h, tasks[t].new)
  BY MovesOn DEF Command, SandInv, SandTypes, SandboxStep
<1>4. idle' \in BOOLEAN /\ stale' \in [Worker -> BOOLEAN]
  BY <1>1 DEF Command, Touch, SandInv, SandTypes
<1>5. /\ box' \in Files /\ made' \in Files /\ store' \in Files
      /\ \A w \in Workspace \ {ws} : box'[w] = box[w] /\ made'[w] = made[w] /\ store'[w] = store[w]
      /\ store[ws] \subseteq store'[ws]
      /\ tasks[t].op = "erase" => box'[ws] = box[ws] \ {f} /\ made'[ws] = made[ws]
      /\ tasks[t].op # "erase" => box'[ws] = box[ws] \cup {f} /\ made'[ws] = made[ws] \cup {f}
  BY <1>1 DEF Command, SandInv, SandTypes, Files
<1>6. tasks[t].op = "erase" => f \in RemovedFrom(ws)
  BY <1>1 DEF RemovedFrom
<1>7. SandTypes'
  BY <1>1, <1>3, <1>4, <1>5 DEF SandInv, SandTypes, Moves
<1>8. ASSUME NEW w \in Workspace PROVE StoreGood(w)'
  <2>1. RemovedFrom(w) \subseteq RemovedFrom(w)' /\ StoreGood(w)
    BY <1>3, MoveRemovals DEF SandInv
  <2>2. Here(w)' <=> Here(w)
    BY <1>1 DEF Here, Filed
  <2>3. CASE w # ws
    BY <1>1, <1>5, <2>1, <2>2, <2>3 DEF StoreGood, Kept
  <2>4. CASE w = ws
    <3>1. Kept(w) \subseteq box[w] /\ durable[w] \ RemovedFrom(w) \subseteq store[w]
      BY <1>2, <2>1, <2>4 DEF StoreGood
    <3>2. Kept(w)' \subseteq box'[w] /\ durable'[w] \ RemovedFrom(w)' \subseteq store'[w]
      BY <1>1, <1>5, <1>6, <2>1, <2>4, <3>1 DEF Kept
    <3> QED
      BY <1>2, <2>2, <2>4, <3>2 DEF StoreGood
  <2> QED
    BY <2>3, <2>4
<1>9. TaskGood(t)'
  BY <1>1, <1>3, SandKnown DEF TaskGood, Holding, Moves
<1>10. MetaGoes /\ meta'.id <= cont'.id /\ (cont'.id = 0 => cont'.st = "none")
  BY <1>1, SandKnown DEF MetaGoes, SandInv
<1>11. \A u \in Task \ {t} : tasks'[u] = tasks[u]
  BY <1>3 DEF Moves
<1> QED
  BY <1>1, <1>7, <1>8, <1>9, <1>10, <1>11, TaskStep

-----------------------------------------------------------------------------
(* The maintenance of a worker.                                                *)

LEMMA NewLoop ==
  ASSUME SandInv, NEW k \in Worker, NEW l \in LoopRec, loop' = [loop EXCEPT ![k] = l]
  PROVE  loop' \in [Worker -> LoopRec] /\ loop'[k] = l /\ \A j \in Worker \ {k} : loop'[j] = loop[j]
BY DEF SandInv, SandTypes

LEMMA RestIs == Rest \in LoopRec
BY DEF Rest, LoopRec

LEMMA RecoverKeeps ==
  ASSUME SandInv, NEW k \in Worker, Recover(k)
  PROVE  SandInv'
<1>1. /\ loop[k] = Rest /\ holding = NoHolder
      /\ UNCHANGED <<store, meta, holding, idle, tasks, loop, snap, made, durable, failures>>
  BY DEF Recover
<1>2. /\ cont' \in ContRec /\ box' \in Files /\ cont'.id = cont.id
      /\ \/ cont' = cont /\ box' = box
         \/ cont'.st = "none" /\ cont.st # "running"
      /\ active' \in [Worker -> Container] /\ stale' \in [Worker -> BOOLEAN]
  <2>1. CASE cont.st \in {"created", "exited"} /\ Gone /\ UNCHANGED <<active, stale>>
    <3>1. cont' \in ContRec /\ cont'.id = cont.id /\ cont'.st = "none" /\ box' = NoFiles
      BY <2>1, SandKnown, GoneIs DEF Gone
    <3> QED
      BY <2>1, <3>1 DEF NoFiles, Files, SandInv, SandTypes
  <2>2. CASE active' = [active EXCEPT ![k] = cont.id] /\ stale' = [stale EXCEPT ![k] = idle] /\ UNCHANGED <<cont, box>>
    BY <2>2, SandKnown DEF SandInv, SandTypes, ContRec
  <2> QED
    BY <2>1, <2>2 DEF Recover
<1>3. SandTypes'
  BY <1>1, <1>2 DEF SandInv, SandTypes
<1>4. LoopGood(k)'
  BY <1>1, AtRest
<1>5. ASSUME NEW w \in Workspace PROVE StoreGood(w)'
  <2>1. /\ RemovedFrom(w) \subseteq RemovedFrom(w)' /\ store[w] \ RemovedFrom(w)' \subseteq store'[w]
        /\ Here(w)' => Here(w) /\ box[w] \ RemovedFrom(w)' \subseteq box'[w]
        /\ Here(w) => Here(w)'
    BY <1>1, <1>2 DEF Here, Filed, RemovedFrom
  <2> QED
    BY <1>1, <2>1, StoreStep
<1>6. cont'.id = 0 => cont'.st = "none"
  BY <1>2, SandKnown DEF SandInv
<1> QED
  BY <1>1, <1>2, <1>3, <1>4, <1>5, <1>6, LoopStep

(* A sync of what is loaded begins.                                            *)
LEMMA Begins ==
  ASSUME SandInv, NEW k \in Worker, NEW why \in {"sync", "reclaim", "shutdown"}, holding = NoHolder,
         IsAlive(active[k]), IsKnown(active[k]), holding' = k, failures' \in 0 .. MaxFailures,
         loop' = [loop EXCEPT ![k] = [why |-> why, todo |-> meta.ws, at |-> {}]],
         UNCHANGED <<store, box, cont, meta, active, idle, stale, tasks, snap, made, durable>>
  PROVE  SandInv'
<1> DEFINE l == [why |-> why, todo |-> meta.ws, at |-> {}]
<1>1. l \in LoopRec
  BY SandKnown DEF LoopRec, MetaRec
<1>2. /\ loop' \in [Worker -> LoopRec] /\ loop'[k] = l /\ \A j \in Worker \ {k} : loop'[j] = loop[j]
  BY <1>1, NewLoop
<1>3. SandTypes'
  BY <1>2 DEF SandInv, SandTypes
<1>4. LoopGood(k)'
  BY <1>2, AliveIs, SandKnown DEF LoopGood, IsKnown
<1>5. ASSUME NEW w \in Workspace PROVE StoreGood(w)'
  <2>1. /\ RemovedFrom(w) \subseteq RemovedFrom(w)' /\ store[w] \ RemovedFrom(w)' \subseteq store'[w]
        /\ Here(w)' => Here(w) /\ box[w] \ RemovedFrom(w)' \subseteq box'[w]
        /\ Here(w) => Here(w)'
    BY DEF Here, Filed, RemovedFrom
  <2> QED
    BY <2>1, StoreStep
<1>6. cont'.id = cont.id /\ (cont'.id = 0 => cont'.st = "none")
  BY SandKnown DEF SandInv
<1> QED
  BY <1>2, <1>3, <1>4, <1>5, <1>6, LoopStep

LEMMA ReclaimKeeps ==
  ASSUME SandInv, NEW k \in Worker, Reclaim(k)
  PROVE  SandInv'
<1>1. /\ loop[k] = Rest /\ holding = NoHolder /\ active[k] # 0 /\ active[k] \in Container
      /\ UNCHANGED <<store, meta, idle, tasks, snap, made, durable, failures>>
  BY SandKnown DEF Reclaim
<1>2. CASE /\ IsAlive(active[k]) /\ IsKnown(active[k]) /\ holding' = k
           /\ loop' = [loop EXCEPT ![k] = [why |-> "reclaim", todo |-> meta.ws, at |-> {}]]
           /\ UNCHANGED <<active, stale, cont, box>>
  <2>1. failures' \in 0 .. MaxFailures
    BY <1>1 DEF SandInv, SandTypes
  <2> QED
    BY <1>1, <1>2, <2>1, Begins
<1>3. CASE \/ stale' = [stale EXCEPT ![k] = FALSE] /\ UNCHANGED <<holding, loop, active, cont, box>>
           \/ /\ ~IsAlive(active[k]) /\ active' = [active EXCEPT ![k] = 0]
              /\ IF cont.id = active[k] THEN Gone ELSE UNCHANGED <<cont, box>>
              /\ UNCHANGED <<holding, loop, stale>>
  <2>1. /\ cont' \in ContRec /\ box' \in Files /\ cont'.id = cont.id /\ holding' = holding /\ loop' = loop
        /\ \/ cont' = cont /\ box' = box
           \/ cont'.st = "none" /\ cont.st # "running"
        /\ active' \in [Worker -> Container] /\ stale' \in [Worker -> BOOLEAN]
    <3>1. CASE cont.id = active[k] /\ Gone /\ ~IsAlive(active[k]) /\ active' = [active EXCEPT ![k] = 0] /\ UNCHANGED <<holding, loop, stale>>
      <4>1. cont' \in ContRec /\ cont'.id = cont.id /\ cont'.st = "none" /\ box' = NoFiles
        BY <3>1, SandKnown, GoneIs DEF Gone
      <4>2. cont.st # "running"
        BY <1>1, <3>1, SandKnown, AliveIs
      <4> QED
        BY <3>1, <4>1, <4>2, SandboxAssumption DEF NoFiles, Files, SandInv, SandTypes, Container
    <3>2. CASE UNCHANGED <<cont, box, holding, loop>>
      <4>1. cont \in ContRec /\ box \in Files /\ active \in [Worker -> Container] /\ stale \in [Worker -> BOOLEAN] /\ 0 \in Container
        BY SandboxAssumption DEF SandInv, SandTypes, Container
      <4>2. active' \in [Worker -> Container] /\ stale' \in [Worker -> BOOLEAN]
        BY <1>3, <4>1
      <4>3. cont' = cont /\ box' = box /\ holding' = holding /\ loop' = loop
        BY <3>2
      <4> QED
        BY <4>1, <4>2, <4>3
    <3> QED
      BY <1>3, <3>1, <3>2
  <2>2. SandTypes'
    BY <1>1, <2>1 DEF SandInv, SandTypes
  <2>3. LoopGood(k)'
    BY <1>1, <2>1, AtRest
  <2>4. ASSUME NEW w \in Workspace PROVE StoreGood(w)'
    <3>1. /\ RemovedFrom(w) \subseteq RemovedFrom(w)' /\ store[w] \ RemovedFrom(w)' \subseteq store'[w]
          /\ Here(w)' => Here(w) /\ box[w] \ RemovedFrom(w)' \subseteq box'[w]
          /\ Here(w) => Here(w)'
      BY <1>1, <2>1 DEF Here, Filed, RemovedFrom
    <3> QED
      BY <1>1, <3>1, StoreStep
  <2>5. cont'.id = 0 => cont'.st = "none"
    BY <2>1, SandKnown DEF SandInv
  <2> QED
    BY <1>1, <2>1, <2>2, <2>3, <2>4, <2>5, LoopStep
<1> QED
  BY <1>2, <1>3 DEF Reclaim

LEMMA SyncKeeps ==
  ASSUME SandInv, NEW k \in Worker, Sync(k)
  PROVE  SandInv'
<1>1. /\ holding = NoHolder /\ IsAlive(active[k]) /\ IsKnown(active[k]) /\ holding' = k
      /\ UNCHANGED <<store, box, cont, meta, active, idle, stale, tasks, snap, made, durable>>
  BY DEF Sync
<1>2. failures' \in 0 .. MaxFailures
  BY SandboxAssumption DEF Sync, Hit, SandInv, SandTypes
<1>3. \E why \in {"sync", "shutdown"} : loop' = [loop EXCEPT ![k] = [why |-> why, todo |-> meta.ws, at |-> {}]]
  BY DEF Sync
<1> QED
  BY <1>1, <1>2, <1>3, Begins
(* A step of a sync.                                                           *)
LEMMA LoopTo ==
  ASSUME SandInv, NEW k \in Worker, NEW todo \in SUBSET Workspace, NEW at \in SUBSET Workspace,
         loop' = [loop EXCEPT ![k].todo = todo, ![k].at = at]
  PROVE  /\ loop' \in [Worker -> LoopRec] /\ loop'[k].why = loop[k].why /\ loop'[k].todo = todo /\ loop'[k].at = at
         /\ \A j \in Worker \ {k} : loop'[j] = loop[j]
<1>1. PICK l : l = [loop[k] EXCEPT !.todo = todo, !.at = at]
  OBVIOUS
<1>2. l \in LoopRec /\ l.why = loop[k].why /\ l.todo = todo /\ l.at = at
  <2>1. loop[k] \in LoopRec
    BY SandKnown
  <2> QED
    BY ONLY <1>1, <2>1, todo \in SUBSET Workspace, at \in SUBSET Workspace DEF LoopRec
<1>3. loop' = [loop EXCEPT ![k] = l]
  BY <1>1
<1> QED
  BY <1>2, <1>3, NewLoop

LEMMA Syncing ==
  ASSUME SandInv, NEW k \in Worker, loop[k] # Rest
  PROVE  /\ loop[k].why # "rest" /\ holding = k /\ active[k] = cont.id /\ meta.id = cont.id
         /\ loop[k].todo \subseteq meta.ws /\ loop[k].at \subseteq loop[k].todo /\ meta.ws \subseteq Workspace
BY SandKnown DEF LoopGood, MetaRec

LEMMA CopyKeeps ==
  ASSUME SandInv, NEW k \in Worker, Copy(k)
  PROVE  SandInv'
<1>1. PICK w \in loop[k].todo : snap' = box[w] /\ loop' = [loop EXCEPT ![k].at = {w}]
  BY DEF Copy
<1>2. /\ IsAlive(active[k]) /\ UNCHANGED <<store, box, cont, meta, holding, active, idle, stale, tasks, made, durable, failures>>
      /\ loop[k].at = {}
  BY DEF Copy
<1>3. loop[k] # Rest
  BY <1>1 DEF Rest
<1>4. /\ holding = k /\ active[k] = cont.id /\ meta.id = cont.id /\ loop[k].why # "rest"
      /\ loop[k].todo \subseteq meta.ws /\ meta.ws \subseteq Workspace /\ cont.st = "running"
  BY <1>2, <1>3, Syncing, AliveIs, SandKnown
<1>5. /\ loop' \in [Worker -> LoopRec] /\ loop'[k].why = loop[k].why /\ loop'[k].todo = loop[k].todo /\ loop'[k].at = {w}
      /\ \A j \in Worker \ {k} : loop'[j] = loop[j]
  <2>1. loop' = [loop EXCEPT ![k].todo = loop[k].todo, ![k].at = {w}]
    <3>1. loop[k] \in LoopRec /\ loop \in [Worker -> LoopRec]
      BY SandKnown DEF SandInv, SandTypes
    <3>2. [loop[k] EXCEPT !.at = {w}] = [loop[k] EXCEPT !.todo = loop[k].todo, !.at = {w}]
      BY <3>1 DEF LoopRec
    <3> QED
      BY <1>1, <3>2
  <2>2. PICK todo \in SUBSET Workspace, at \in SUBSET Workspace : todo = loop[k].todo /\ at = {w}
    BY <1>1, <1>4
  <2>3. loop' = [loop EXCEPT ![k].todo = todo, ![k].at = at]
    BY <2>1, <2>2
  <2>4. /\ loop' \in [Worker -> LoopRec] /\ loop'[k].why = loop[k].why /\ loop'[k].todo = todo /\ loop'[k].at = at
        /\ \A j \in Worker \ {k} : loop'[j] = loop[j]
    BY ONLY SandInv, k \in Worker, todo \in SUBSET Workspace, at \in SUBSET Workspace, <2>3, LoopTo
  <2> QED
    BY <2>2, <2>4
<1>6. SandTypes'
  BY <1>1, <1>2, <1>4, <1>5 DEF SandInv, SandTypes, Files
<1>7. \A v \in Workspace : RemovedFrom(v)' = RemovedFrom(v)
  BY <1>2 DEF RemovedFrom
<1>8. ASSUME NEW v \in Workspace PROVE StoreGood(v)'
  <2>1. /\ RemovedFrom(v) \subseteq RemovedFrom(v)' /\ store[v] \ RemovedFrom(v)' \subseteq store'[v]
        /\ Here(v)' => Here(v) /\ box[v] \ RemovedFrom(v)' \subseteq box'[v]
        /\ Here(v) => Here(v)'
    BY <1>2, <1>7 DEF Here, Filed
  <2> QED
    BY <1>2, <2>1, StoreStep
<1>9. LoopGood(k)'
  <2>1. Kept(w)' \subseteq snap'
    <3>1. w \in Workspace /\ Here(w) /\ StoreGood(w)
      BY <1>1, <1>4 DEF Here, Filed, SandInv
    <3> QED
      BY <1>1, <1>2, <1>7, <3>1 DEF StoreGood, Kept
  <2>2. LoopGood(k)
    BY SandKnown
  <2> QED
    BY <1>1, <1>2, <1>4, <1>5, <1>7, <2>1, <2>2 DEF LoopGood
<1>10. cont'.id = cont.id /\ (cont'.id = 0 => cont'.st = "none")
  BY <1>2 DEF SandInv
<1> QED
  BY <1>2, <1>4, <1>5, <1>6, <1>8, <1>9, <1>10, LoopStep

(* What a sync stores is everything that must be kept.                         *)
LEMMA PublishKeeps ==
  ASSUME SandInv, NEW k \in Worker, Publish(k)
  PROVE  SandInv'
<1>1. PICK w \in loop[k].at :
        /\ store' = [store EXCEPT ![w] = snap] /\ durable' = [durable EXCEPT ![w] = @ \cup snap]
        /\ loop' = [loop EXCEPT ![k].todo = @ \ {w}, ![k].at = {}]
        /\ UNCHANGED <<box, cont, meta, holding, active, idle, stale, tasks, snap, made, failures>>
  BY DEF Publish
<1>2. loop[k] # Rest
  BY <1>1 DEF Rest
<1>3. /\ holding = k /\ loop[k].why # "rest" /\ loop[k].todo \subseteq meta.ws /\ w \in Workspace
      /\ active[k] = cont.id /\ meta.id = cont.id /\ meta.ws \subseteq Workspace
      /\ Kept(w) \subseteq snap /\ (cont.st = "running" => snap \subseteq box[w]) /\ LoopGood(k)
  BY <1>1, <1>2, Syncing, SandKnown DEF LoopGood
<1>4. /\ loop' \in [Worker -> LoopRec] /\ loop'[k].why = loop[k].why /\ loop'[k].todo = loop[k].todo \ {w} /\ loop'[k].at = {}
      /\ \A j \in Worker \ {k} : loop'[j] = loop[j]
  <2>1. PICK todo \in SUBSET Workspace, at \in SUBSET Workspace : todo = loop[k].todo \ {w} /\ at = {}
    BY <1>3
  <2>2. loop' = [loop EXCEPT ![k].todo = todo, ![k].at = at]
    BY <1>1, <2>1
  <2>4. /\ loop' \in [Worker -> LoopRec] /\ loop'[k].why = loop[k].why /\ loop'[k].todo = todo /\ loop'[k].at = at
        /\ \A j \in Worker \ {k} : loop'[j] = loop[j]
    BY ONLY SandInv, k \in Worker, todo \in SUBSET Workspace, at \in SUBSET Workspace, <2>2, LoopTo
  <2> QED
    BY <2>1, <2>4
<1>5. /\ store' \in Files /\ durable' \in Files /\ store'[w] = snap /\ durable'[w] = durable[w] \cup snap
      /\ \A v \in Workspace \ {w} : store'[v] = store[v] /\ durable'[v] = durable[v]
  BY <1>1, <1>3 DEF SandInv, SandTypes, Files
<1>6. SandTypes'
  BY <1>1, <1>4, <1>5 DEF SandInv, SandTypes
<1>7. \A v \in Workspace : RemovedFrom(v)' = RemovedFrom(v)
  BY <1>1 DEF RemovedFrom
<1>8. ASSUME NEW v \in Workspace PROVE StoreGood(v)'
  <2>1. StoreGood(v) /\ (Here(v)' <=> Here(v))
    BY <1>1 DEF SandInv, Here, Filed
  <2>2. CASE v # w
    BY <1>1, <1>5, <1>7, <2>1, <2>2 DEF StoreGood, Kept
  <2>3. CASE v = w
    BY <1>1, <1>3, <1>5, <1>7, <2>1, <2>3 DEF StoreGood, Kept, Here
  <2> QED
    BY <2>2, <2>3
<1>9. LoopGood(k)'
  <2>1. \A v \in meta.ws : v \notin loop'[k].todo => v = w \/ v \notin loop[k].todo
    BY <1>4
  <2>2. loop[k].why = "reclaim" => \A v \in meta.ws \ loop'[k].todo : made[v] \ RemovedFrom(v) \subseteq store'[v]
    BY <1>3, <1>5, <2>1 DEF LoopGood, Kept
  <2> QED
    BY <1>1, <1>3, <1>4, <1>7, <2>2 DEF LoopGood
<1>10. cont'.id = cont.id /\ (cont'.id = 0 => cont'.st = "none")
  BY <1>1 DEF SandInv
<1> QED
  BY <1>1, <1>3, <1>4, <1>6, <1>8, <1>9, <1>10, LoopStep

LEMMA SyncFailsKeeps ==
  ASSUME SandInv, NEW k \in Worker, SyncFails(k)
  PROVE  SandInv'
<1>1. /\ loop[k].why # "rest" /\ loop' = [loop EXCEPT ![k] = Rest] /\ holding' = NoHolder
      /\ active' = IF loop[k].why = "shutdown" THEN [active EXCEPT ![k] = 0] ELSE active
      /\ UNCHANGED <<box, cont, meta, idle, stale, tasks, snap, made, durable>>
  BY DEF SyncFails
<1>2. holding = k /\ LoopGood(k) /\ loop[k].at \subseteq Workspace
  BY <1>1, SandKnown DEF LoopGood, LoopRec
<1>3. /\ loop' \in [Worker -> LoopRec] /\ loop'[k] = Rest /\ \A j \in Worker \ {k} : loop'[j] = loop[j]
  BY <1>1, RestIs, NewLoop
<1>4. /\ store' \in Files
      /\ \A v \in Workspace : \/ store'[v] = store[v]
                              \/ v \in loop[k].at /\ store[v] \cap snap \subseteq store'[v]
  <2>1. CASE store' = store
    BY <2>1 DEF SandInv, SandTypes
  <2>2. CASE \E w \in loop[k].at : \E s \in SUBSET (store[w] \cup snap) :
                store[w] \cap snap \subseteq s /\ store' = [store EXCEPT ![w] = s]
    BY <1>2, <2>2 DEF SandInv, SandTypes, Files
  <2> QED
    BY <2>1, <2>2 DEF SyncFails
<1>5. failures' \in 0 .. MaxFailures /\ active' \in [Worker -> Container]
  BY <1>1, SandboxAssumption DEF SyncFails, Hit, SandInv, SandTypes, Container
<1>6. SandTypes'
  BY <1>1, <1>3, <1>4, <1>5 DEF SandInv, SandTypes
<1>7. \A v \in Workspace : RemovedFrom(v)' = RemovedFrom(v)
  BY <1>1 DEF RemovedFrom
<1>8. ASSUME NEW v \in Workspace PROVE StoreGood(v)'
  <2>1. StoreGood(v) /\ (Here(v)' <=> Here(v)) /\ (v \in loop[k].at => Kept(v) \subseteq snap)
    BY <1>1, <1>2 DEF SandInv, Here, Filed, LoopGood
  <2> QED
    BY <1>1, <1>4, <1>7, <2>1 DEF StoreGood, Kept
<1>9. LoopGood(k)'
  BY <1>3, AtRest
<1>10. cont'.id = cont.id /\ (cont'.id = 0 => cont'.st = "none")
  BY <1>1 DEF SandInv
<1> QED
  BY <1>1, <1>2, <1>3, <1>6, <1>8, <1>9, <1>10, LoopStep

(* A container is removed when object storage has everything.                  *)
LEMMA FinishKeeps ==
  ASSUME SandInv, NEW k \in Worker, Finish(k)
  PROVE  SandInv'
<1>1. /\ loop[k].why # "rest" /\ loop[k].todo = {} /\ loop' = [loop EXCEPT ![k] = Rest] /\ holding' = NoHolder
      /\ UNCHANGED <<store, meta, idle, stale, tasks, snap, made, durable, failures>>
  BY DEF Finish
<1>2. holding = k /\ LoopGood(k)
  BY <1>1, SandKnown DEF LoopGood
<1>3. /\ loop' \in [Worker -> LoopRec] /\ loop'[k] = Rest /\ \A j \in Worker \ {k} : loop'[j] = loop[j]
  BY <1>1, RestIs, NewLoop
<1>4. /\ cont' \in ContRec /\ box' \in Files /\ cont'.id = cont.id
      /\ \/ cont' = cont /\ box' = box
         \/ cont'.st = "none" /\ loop[k].why = "reclaim"
  <2>1. CASE loop[k].why = "reclaim"
    <3>1. cont' \in ContRec /\ cont'.id = cont.id /\ cont'.st = "none" /\ box' = NoFiles
      BY <2>1, SandKnown, GoneIs DEF Finish, Gone
    <3> QED
      BY <2>1, <3>1 DEF NoFiles, Files
  <2>2. CASE loop[k].why # "reclaim"
    BY <2>2, SandKnown DEF Finish, SandInv, SandTypes
  <2> QED
    BY <2>1, <2>2
<1>5. active' \in [Worker -> Container]
  BY SandboxAssumption DEF Finish, SandInv, SandTypes, Container
<1>6. SandTypes'
  BY <1>1, <1>3, <1>4, <1>5 DEF SandInv, SandTypes
<1>7. \A v \in Workspace : RemovedFrom(v)' = RemovedFrom(v)
  BY <1>1 DEF RemovedFrom
<1>8. ASSUME NEW v \in Workspace PROVE StoreGood(v)'
  <2>1. StoreGood(v)
    BY DEF SandInv
  <2>2. CASE cont' = cont /\ box' = box
    BY <1>1, <1>7, <2>1, <2>2 DEF StoreGood, Kept, Here, Filed
  <2>3. CASE cont'.st = "none" /\ loop[k].why = "reclaim"
    <3>1. made[v] \ RemovedFrom(v) \subseteq store[v]
      <4>1. CASE v \in meta.ws
        BY <1>1, <1>2, <2>3, <4>1 DEF LoopGood
      <4>2. CASE v \notin meta.ws
        BY <2>1, <4>2 DEF StoreGood, Here, Filed
      <4> QED
        BY <4>1, <4>2
    <3> QED
      BY <1>1, <1>7, <2>1, <2>3, <3>1 DEF StoreGood, Here
  <2> QED
    BY <1>4, <2>2, <2>3
<1>9. LoopGood(k)'
  BY <1>3, AtRest
<1>10. cont'.id = 0 => cont'.st = "none"
  BY <1>4, SandKnown DEF SandInv
<1> QED
  BY <1>1, <1>2, <1>3, <1>4, <1>6, <1>8, <1>9, <1>10, LoopStep
-----------------------------------------------------------------------------
(* What takes no lock.                                                         *)

LEMMA RequestKeeps ==
  ASSUME SandInv, NEW t \in Task, NEW k \in Worker, NEW o \in Op, NEW w \in Workspace, NEW f \in File,
         Request(t, k, o, w, f)
  PROVE  SandInv'
<1> DEFINE live == active[k] # 0 /\ ~stale[k]
           next == CASE o \in Tools \cup {"upload"} -> "enter"
                     [] o \in {"page", "remove"} /\ live -> "live"
                     [] o = "page" /\ ~live -> "done"
                     [] OTHER -> "delete"
           r == [pc |-> next, op |-> o, on |-> k, ws |-> w, file |-> f, h |-> active[k], new |-> FALSE]
<1>1. /\ tasks[t].pc = "new" /\ tasks' = [tasks EXCEPT ![t] = r]
      /\ store' = IF o \in {"upload", "page"} THEN [store EXCEPT ![w] = @ \cup {f}] ELSE store
      /\ UNCHANGED <<box, cont, meta, holding, active, idle, stale, loop, snap, made, durable, failures>>
  BY DEF Request
<1>2. o \in Ops
  BY SandboxAssumption
<1>3. /\ next \in {"enter", "live", "done", "delete"} /\ (next = "live" => o \in {"page", "remove"})
      /\ next = "delete" => o = "remove"
  BY <1>2 DEF Ops
<1> HIDE DEF next
<1>4. /\ r \in TaskRec /\ r.pc = next /\ r.op = o /\ r.new = FALSE
  BY <1>2, <1>3, SandKnown DEF TaskRec, SandboxStep
<1> HIDE DEF r
<1>5. tasks' \in [Task -> TaskRec] /\ tasks'[t] = r /\ \A u \in Task \ {t} : tasks'[u] = tasks[u]
  <2>1. tasks \in [Task -> TaskRec]
    BY DEF SandInv, SandTypes
  <2> QED
    BY <1>1, <1>4, <2>1, NewTask
<1>6. store' \in Files /\ \A v \in Workspace : store[v] \subseteq store'[v]
  BY <1>1 DEF SandInv, SandTypes, Files
<1>7. SandTypes'
  BY <1>1, <1>5, <1>6 DEF SandInv, SandTypes
<1>8. TaskGood(t)'
  BY <1>3, <1>4, <1>5 DEF TaskGood, Holding
<1>9. \A v \in Workspace : RemovedFrom(v) \subseteq RemovedFrom(v)'
  <2>1. \A u \in Task : tasks[u].pc # "new" => tasks'[u] = tasks[u]
    BY <1>1, <1>5
  <2> QED
    BY <2>1, Removals
<1>10. /\ cont'.id = cont.id /\ (cont'.st = "running" => cont.st = "running" /\ box' = box) /\ (cont'.id = 0 => cont'.st = "none")
       /\ \A v \in Workspace : /\ made'[v] \subseteq made[v] /\ store[v] \ RemovedFrom(v)' \subseteq store'[v]
                               /\ cont'.st # cont.st => made'[v] \subseteq store'[v]
  BY <1>1, <1>6 DEF SandInv
<1>11. \A u \in Task : tasks'[u] = tasks[u] \/ TaskGood(u)'
  BY <1>5, <1>8
<1> QED
  BY <1>1, <1>7, <1>9, <1>10, <1>11, Quietly

(* Object storage loses what is removed.                                       *)
LEMMA PageDeleteKeeps ==
  ASSUME SandInv, NEW t \in Task, PageDelete(t)
  PROVE  SandInv'
<1>1. /\ tasks[t].pc = "delete" /\ tasks[t].op = "remove" /\ tasks[t].ws \in Workspace
      /\ store' = [store EXCEPT ![tasks[t].ws] = @ \ {tasks[t].file}]
      /\ UNCHANGED <<box, cont, meta, holding, active, idle, stale, loop, snap, made, durable, failures>>
  BY SandKnown DEF PageDelete, TaskGood
<1>2. Moves(t, "done", tasks[t].h, tasks[t].new)
  BY MovesOn DEF PageDelete, SandInv, SandTypes, SandboxStep
<1>3. tasks[t].file \in RemovedFrom(tasks[t].ws)
  BY <1>1 DEF RemovedFrom
<1>4. store' \in Files /\ \A v \in Workspace : store[v] \ RemovedFrom(v) \subseteq store'[v]
  BY <1>1, <1>3 DEF SandInv, SandTypes, Files
<1>5. SandTypes'
  BY <1>1, <1>2, <1>4 DEF SandInv, SandTypes, Moves
<1>6. TaskGood(t)'
  BY <1>1, <1>2, SandKnown DEF TaskGood, Holding, Moves
<1>7. \A v \in Workspace : RemovedFrom(v) \subseteq RemovedFrom(v)'
  BY <1>2, MoveRemovals
<1>8. /\ cont'.id = cont.id /\ (cont'.st = "running" => cont.st = "running" /\ box' = box) /\ (cont'.id = 0 => cont'.st = "none")
      /\ \A v \in Workspace : /\ made'[v] \subseteq made[v] /\ store[v] \ RemovedFrom(v)' \subseteq store'[v]
                              /\ cont'.st # cont.st => made'[v] \subseteq store'[v]
  BY <1>1, <1>4, <1>7 DEF SandInv
<1>9. \A u \in Task : tasks'[u] = tasks[u] \/ TaskGood(u)'
  BY <1>2, <1>6 DEF Moves
<1> QED
  BY <1>1, <1>5, <1>7, <1>8, <1>9, Quietly

LEMMA TimeKeeps ==
  ASSUME SandInv, TimePasses
  PROVE  SandInv'
<1>1. UNCHANGED <<store, box, cont, meta, holding, active, tasks, loop, snap, made, durable, failures>>
  BY DEF TimePasses
<1>2. SandTypes'
  BY <1>1 DEF TimePasses, SandInv, SandTypes
<1>3. \A v \in Workspace : RemovedFrom(v) \subseteq RemovedFrom(v)'
  BY <1>1 DEF RemovedFrom
<1>4. /\ cont'.id = cont.id /\ (cont'.st = "running" => cont.st = "running" /\ box' = box) /\ (cont'.id = 0 => cont'.st = "none")
      /\ \A v \in Workspace : /\ made'[v] \subseteq made[v] /\ store[v] \ RemovedFrom(v)' \subseteq store'[v]
                              /\ cont'.st # cont.st => made'[v] \subseteq store'[v]
  BY <1>1 DEF SandInv
<1>5. \A u \in Task : tasks'[u] = tasks[u] \/ TaskGood(u)'
  BY <1>1
<1> QED
  BY <1>1, <1>2, <1>3, <1>4, <1>5, Quietly

LEMMA DeathKeeps ==
  ASSUME SandInv, ContainerDies
  PROVE  SandInv'
<1>1. /\ box' = NoFiles /\ made' = [w \in Workspace |-> made[w] \cap store[w]]
      /\ UNCHANGED <<store, meta, holding, idle, active, stale, tasks, loop, snap, durable>>
  BY DEF ContainerDies
<1>2. cont' \in ContRec /\ cont'.id = cont.id /\ cont'.st = "exited" /\ cont.st = "running" /\ cont.id # 0
  BY SandKnown, GoneIs DEF ContainerDies, SandInv
<1>3. failures' \in 0 .. MaxFailures /\ box' \in Files /\ made' \in Files
  BY <1>1, SandboxAssumption DEF ContainerDies, Hit, SandInv, SandTypes, NoFiles, Files
<1>4. SandTypes'
  BY <1>1, <1>2, <1>3 DEF SandInv, SandTypes
<1>5. \A v \in Workspace : RemovedFrom(v) \subseteq RemovedFrom(v)'
  BY <1>1 DEF RemovedFrom
<1>6. /\ (cont'.st = "running" => cont.st = "running" /\ box' = box) /\ (cont'.id = 0 => cont'.st = "none")
      /\ \A v \in Workspace : /\ made'[v] \subseteq made[v] /\ store[v] \ RemovedFrom(v)' \subseteq store'[v]
                              /\ cont'.st # cont.st => made'[v] \subseteq store'[v]
  BY <1>1, <1>2
<1>7. \A u \in Task : tasks'[u] = tasks[u] \/ TaskGood(u)'
  BY <1>1
<1> QED
  BY <1>1, <1>2, <1>4, <1>5, <1>6, <1>7, Quietly

(* A worker dies with its tasks; whoever else has the lock keeps it.           *)
LEMMA WorkerDiesKeeps ==
  ASSUME SandInv, NEW k \in Worker, WorkerDies(k)
  PROVE  SandInv'
<1> DEFINE mine == {t \in Task : tasks[t].on = k /\ tasks[t].pc \notin {"new", "done", "failed"}}
<1>1. /\ tasks' = [t \in Task |-> IF t \in mine THEN [tasks[t] EXCEPT !.pc = "failed"] ELSE tasks[t]]
      /\ loop' = [loop EXCEPT ![k] = Rest]
      /\ active' = [active EXCEPT ![k] = 0] /\ stale' = [stale EXCEPT ![k] = FALSE]
      /\ holding' = IF holding \in mine \cup {k} THEN NoHolder ELSE holding
      /\ UNCHANGED <<store, box, meta, idle, snap, made, durable>>
  BY DEF WorkerDies
<1>2. /\ tasks' \in [Task -> TaskRec]
      /\ \A t \in Task \ mine : tasks'[t] = tasks[t]
      /\ \A t \in mine : /\ tasks'[t].pc = "failed" /\ tasks'[t].op = tasks[t].op /\ tasks'[t].ws = tasks[t].ws
                         /\ tasks'[t].file = tasks[t].file /\ tasks'[t].new = tasks[t].new
  <2>1. ASSUME NEW p \in TaskRec, NEW q, q = [p EXCEPT !.pc = "failed"]
        PROVE  /\ q \in TaskRec /\ q.pc = "failed" /\ q.op = p.op /\ q.ws = p.ws /\ q.file = p.file /\ q.new = p.new
    BY ONLY <2>1 DEF TaskRec, SandboxStep
  <2>2. \A t \in Task : tasks[t] \in TaskRec
    BY SandKnown
  <2>3. ASSUME NEW t \in mine
        PROVE  /\ tasks'[t] \in TaskRec /\ tasks'[t].pc = "failed" /\ tasks'[t].op = tasks[t].op /\ tasks'[t].ws = tasks[t].ws
               /\ tasks'[t].file = tasks[t].file /\ tasks'[t].new = tasks[t].new
    <3>1. PICK p \in TaskRec : p = tasks[t]
      BY <2>2
    <3>2. PICK q : q = [p EXCEPT !.pc = "failed"]
      OBVIOUS
    <3>3. tasks'[t] = q
      BY <1>1, <3>1, <3>2
    <3>4. /\ q \in TaskRec /\ q.pc = "failed" /\ q.op = p.op /\ q.ws = p.ws /\ q.file = p.file /\ q.new = p.new
      BY ONLY <2>1, p \in TaskRec, <3>2
    <3> QED
      BY <3>1, <3>3, <3>4
  <2>4. ASSUME NEW t \in Task \ mine PROVE tasks'[t] = tasks[t] /\ tasks'[t] \in TaskRec
    BY <1>1, <2>2
  <2>5. tasks' = [t \in Task |-> tasks'[t]]
    BY <1>1
  <2>6. \A t \in Task : tasks'[t] \in TaskRec
    BY <2>3, <2>4
  <2> QED
    BY <2>3, <2>4, <2>5, <2>6
<1>3. /\ loop' \in [Worker -> LoopRec] /\ loop'[k] = Rest /\ \A j \in Worker \ {k} : loop'[j] = loop[j]
  BY <1>1, RestIs, NewLoop
<1>4. /\ cont' \in ContRec
      /\ \/ cont' = cont
         \/ /\ cont'.id > cont.id /\ cont'.id # 0 /\ cont'.st = "created" /\ cont.st # "running"
            /\ holding \in mine
  <2>1. CASE cont' = cont
    BY <2>1, SandKnown
  <2>2. CASE /\ \E t \in mine : tasks[t].pc = "create" /\ cont.id < MaxContainer
             /\ cont' = [id |-> cont.id + 1, st |-> "created"]
    <3>1. PICK t \in mine : tasks[t].pc = "create" /\ cont.id < MaxContainer
      BY <2>2
    <3>2. holding = t /\ cont.st # "running"
      BY <3>1, SandKnown DEF TaskGood, Holding
    <3>3. cont' \in ContRec /\ cont'.id > cont.id /\ cont'.id # 0 /\ cont'.st = "created"
      BY <2>2, <3>1, SandKnown, SandboxAssumption DEF ContRec, Container
    <3> QED
      BY <3>1, <3>2, <3>3
  <2> QED
    BY <2>1, <2>2 DEF WorkerDies
<1>5. /\ failures' \in 0 .. MaxFailures /\ active' \in [Worker -> Container] /\ stale' \in [Worker -> BOOLEAN]
      /\ holding' \in Task \cup Worker \cup {NoHolder}
  BY <1>1, SandboxAssumption DEF WorkerDies, Hit, SandInv, SandTypes, Container
<1>6. SandTypes'
  BY <1>1, <1>2, <1>3, <1>4, <1>5 DEF SandInv, SandTypes
<1>7. \A w \in Workspace : RemovedFrom(w) \subseteq RemovedFrom(w)'
  <2>1. \A u \in Task : tasks[u].pc # "new" =>
            /\ tasks'[u].pc # "new" /\ tasks'[u].op = tasks[u].op
            /\ tasks'[u].ws = tasks[u].ws /\ tasks'[u].file = tasks[u].file
    BY <1>2
  <2> QED
    BY <2>1, Removals
<1>8. ASSUME NEW w \in Workspace PROVE StoreGood(w)' /\ Kept(w)' \subseteq Kept(w)
  <2>1. /\ store[w] \ RemovedFrom(w)' \subseteq store'[w]
        /\ Here(w)' => Here(w) /\ box[w] \ RemovedFrom(w)' \subseteq box'[w]
        /\ Here(w) => Here(w)'
    BY <1>1, <1>4 DEF Here, Filed
  <2>2. StoreGood(w)'
    BY <1>1, <1>7, <2>1, StoreStep
  <2> QED
    BY <1>1, <1>7, <2>2 DEF Kept
<1>9. ASSUME NEW u \in Task PROVE TaskGood(u)'
  <2>1. CASE u \in mine
    BY <1>2, <2>1, SandKnown DEF TaskGood, Holding
  <2>2. CASE u \notin mine /\ tasks[u].pc \notin Holding
    <3>1. MetaGoes
      BY <1>1, SandKnown DEF MetaGoes
    <3> QED
      BY <1>2, <1>6, <2>2, <3>1, Bystander
  <2>3. CASE u \notin mine /\ tasks[u].pc \in Holding
    <3>1. TaskGood(u) /\ tasks'[u] = tasks[u] /\ holding = u /\ tasks[u].ws \in Workspace
      BY <1>2, <2>3, SandKnown DEF TaskGood
    <3>2. holding' = holding /\ cont' = cont
      BY <1>1, <1>4, <2>3, <3>1, SandboxAssumption
    <3>3. PICK p : p = tasks[u]
      OBVIOUS
    <3>4. meta' = meta /\ snap' = snap /\ box' = box
      BY <1>1
    <3>5. \A w \in Workspace : Kept(w)' \subseteq Kept(w) /\ (Filed(w)' <=> Filed(w))
      BY <1>8, <3>2, <3>4 DEF Filed
    <3>6. tasks'[u] = p /\ tasks[u] = p /\ p.ws \in Workspace /\ holding' = u
      BY <3>1, <3>2, <3>3
    <3> QED
      BY ONLY <3>1, <3>2, <3>4, <3>5, <3>6 DEF TaskGood
  <2> QED
    BY <2>1, <2>2, <2>3
<1>10. ASSUME NEW j \in Worker PROVE LoopGood(j)'
  <2>1. CASE j = k
    BY <1>3, <2>1, AtRest
  <2>2. CASE j # k /\ loop[j] = Rest
    BY <1>3, <2>2, AtRest
  <2>3. CASE j # k /\ loop[j] # Rest
    <3>1. holding = j /\ LoopGood(j) /\ loop'[j] = loop[j] /\ loop[j].at \subseteq Workspace /\ meta.ws \subseteq Workspace
      BY <1>3, <2>3, Syncing, SandKnown
    <3>2. holding \notin mine
      BY <3>1, SandboxAssumption
    <3>3. holding' = holding /\ cont' = cont /\ active'[j] = active[j]
      BY <1>1, <1>4, <2>3, <3>1, <3>2 DEF SandInv, SandTypes
    <3>4. \A w \in Workspace : made[w] \ RemovedFrom(w)' \subseteq made[w] \ RemovedFrom(w)
      BY <1>7
    <3> QED
      BY <1>1, <1>8, <3>1, <3>3, <3>4 DEF LoopGood
  <2> QED
    BY <2>1, <2>2, <2>3
<1>11. meta'.id <= cont'.id /\ (cont'.id = 0 => cont'.st = "none")
  <2>1. cont'.id \in Int
    BY <1>4 DEF ContRec, Container
  <2> QED
    BY <1>1, <1>4, <2>1, SandKnown DEF SandInv
<1> QED
  BY <1>6, <1>8, <1>9, <1>10, <1>11 DEF SandInv

-----------------------------------------------------------------------------
LEMMA SandInit == BInit => SandInv
<1> SUFFICES ASSUME BInit PROVE SandInv
  OBVIOUS
<1>1. /\ 0 \in Container /\ (CHOOSE k \in Worker : TRUE) \in Worker
      /\ (CHOOSE w \in Workspace : TRUE) \in Workspace /\ (CHOOSE f \in File : TRUE) \in File
  BY SandboxAssumption DEF Container
<1>2. SandTypes
  <2>1. tasks \in [Task -> TaskRec]
    BY <1>1 DEF BInit, TaskRec, SandboxStep, Ops, Tools
  <2>2. loop \in [Worker -> LoopRec]
    BY RestIs DEF BInit
  <2>3. cont \in ContRec /\ meta \in MetaRec
    BY <1>1 DEF BInit, ContRec, MetaRec
  <2>4. NoFiles \in Files
    BY DEF NoFiles, Files
  <2>5. active \in [Worker -> Container] /\ failures \in 0 .. MaxFailures /\ snap \in SUBSET File /\ holding = NoHolder
    BY <1>1, SandboxAssumption DEF BInit
  <2>6. stale \in [Worker -> BOOLEAN] /\ idle \in BOOLEAN
    BY DEF BInit
  <2> QED
    BY <2>1, <2>2, <2>3, <2>4, <2>5, <2>6 DEF BInit, SandTypes
<1>3. \A t \in Task : tasks[t].pc = "new" /\ tasks[t].new = FALSE
  BY DEF BInit
<1>4. \A t \in Task : TaskGood(t)
  BY <1>3 DEF TaskGood, Holding
<1>5. \A k \in Worker : LoopGood(k)
  BY DEF BInit, LoopGood, Rest
<1>6. \A w \in Workspace : StoreGood(w)
  BY DEF BInit, StoreGood, Kept, NoFiles
<1> QED
  BY <1>2, <1>4, <1>5, <1>6 DEF SandInv, BInit

LEMMA SandNext ==
  ASSUME SandInv, BNext
  PROVE  SandInv'
<1>1. ASSUME NEW t \in Task, \E k \in Worker, o \in Op, w \in Workspace, f \in File : Request(t, k, o, w, f)
      PROVE SandInv'
  BY <1>1, RequestKeeps
<1>2. ASSUME NEW t \in Task, \/ Enter(t) \/ Create(t) \/ Start(t) \/ Ensure(t) \/ Fetch(t) \/ Unpack(t)
             \/ Register(t) \/ Mirror(t) \/ Execute(t) \/ Command(t) \/ PageLive(t) \/ PageDelete(t) \/ Fail(t)
      PROVE SandInv'
  BY <1>2, EnterKeeps, CreateKeeps, StartKeeps, EnsureKeeps, FetchKeeps, UnpackKeeps, RegisterKeeps, MirrorKeeps,
     ExecuteKeeps, CommandKeeps, PageLiveKeeps, PageDeleteKeeps, FailKeeps
<1>3. ASSUME NEW k \in Worker, \/ Recover(k) \/ Reclaim(k) \/ Sync(k) \/ Copy(k) \/ Publish(k) \/ SyncFails(k)
             \/ Finish(k) \/ WorkerDies(k)
      PROVE SandInv'
  BY <1>3, RecoverKeeps, ReclaimKeeps, SyncKeeps, CopyKeeps, PublishKeeps, SyncFailsKeeps, FinishKeeps, WorkerDiesKeeps
<1> QED
  BY <1>1, <1>2, <1>3, TimeKeeps, DeathKeeps DEF BNext

LEMMA SandStays ==
  ASSUME SandInv, UNCHANGED bvars
  PROVE  SandInv'
<1>1. UNCHANGED <<store, box, cont, meta, holding, active, idle, stale, tasks, loop, snap, made, durable, failures>>
  BY DEF bvars
<1>2. SandTypes'
  BY <1>1 DEF SandInv, SandTypes
<1>3. \A v \in Workspace : RemovedFrom(v) \subseteq RemovedFrom(v)'
  BY <1>1 DEF RemovedFrom
<1>4. /\ cont'.id = cont.id /\ (cont'.st = "running" => cont.st = "running" /\ box' = box) /\ (cont'.id = 0 => cont'.st = "none")
      /\ \A v \in Workspace : /\ made'[v] \subseteq made[v] /\ store[v] \ RemovedFrom(v)' \subseteq store'[v]
                              /\ cont'.st # cont.st => made'[v] \subseteq store'[v]
  BY <1>1 DEF SandInv
<1>5. \A u \in Task : tasks'[u] = tasks[u] \/ TaskGood(u)'
  BY <1>1
<1> QED
  BY <1>1, <1>2, <1>3, <1>4, <1>5, Quietly

LEMMA SandHolds ==
  ASSUME SandInv
  PROVE  FilesKept /\ BTypeOK
<1>1. ASSUME NEW w \in Workspace
      PROVE  /\ made[w] \ RemovedFrom(w) \subseteq store[w] \cup box[w] /\ durable[w] \ RemovedFrom(w) \subseteq store[w]
             /\ Here(w) => durable[w] \ RemovedFrom(w) \subseteq box[w]
  BY DEF SandInv, StoreGood, Kept
<1>2. ASSUME NEW t \in Task, tasks[t].pc = "run", IsAlive(tasks[t].h)
      PROVE  /\ Loaded(tasks[t].h, tasks[t].ws) /\ Here(tasks[t].ws) /\ tasks[t].ws \in Workspace
  BY <1>2, AliveIs, SandKnown DEF TaskGood, Loaded, IsKnown, Here, Filed, Holding
<1>3. FilesKept
  BY <1>1, <1>2 DEF FilesKept, WorkKept, DurableKept, RunsWhereLoaded
<1>4. BTypeOK
  BY DEF SandInv, SandTypes, BTypeOK, ContRec, MetaRec, TaskRec, LoopRec
<1> QED
  BY <1>3, <1>4

-----------------------------------------------------------------------------
(* The skills.                                                                 *)

Someone == Req \cup {NoOwner}
PkgSet  == SUBSET (PkgFile \X Someone)
Tests   == {<<>>} \cup ({"passed", "failed"} \X PkgSet \X Someone)
Stamp   == SkillId \X Nat \X (Tx \cup {NoOwner})
RowRec  == [id : 0 .. MaxSkills, name : SkillName \cup {NoOwner}, ver : Nat, body : Someone, files : PkgSet,
            key : Key, check : Tests]
TxRec   == [pc : {"new", "view", "deploy", "lock", "work", "upload", "commit", "answer", "unwind", "sweep", "over"},
            req : Someone, row : RowRec, up : SUBSET Stamp]
ObjRec  == [key : Stamp, files : PkgSet]
Unasked == [op |-> "none"]
SkillTypes ==
    /\ skill \in [SkillId -> RowRec] /\ past \in [SkillId -> Seq(RowRec)] /\ objs \subseteq ObjRec
    /\ receipt \subseteq Req /\ wish \in [Req -> Wishes \cup {Unasked}] /\ tx \in [Tx -> TxRec]
    /\ mutex \in Tx \cup {NoOwner} /\ applied \in [Req -> Nat] /\ doubt \subseteq Stamp /\ mishaps \in Nat

Tested(v) == v.check # <<>> => v.check[2] = v.files /\ v.check[3] = v.body

(* A skill: its versions are numbered, their packages have its number, and a   *)
(* skill that is not, or no longer, has none.                                  *)
SkillGood(s) ==
    /\ skill[s].id \in {0, s} /\ (skill[s].id = 0 => skill[s].ver = 0)
    /\ skill[s].ver = 0 => past[s] = <<>>
    /\ Alive(s) => Len(past[s]) = skill[s].ver - 1 /\ Tested(skill[s])
    /\ \A i \in DOMAIN past[s] : past[s][i].ver = i
    /\ \A v \in Versions(s) : v.key # NoKey => v.key \in Stamp /\ v.key[1] = s /\ (v.key \in doubt \/ Present(v))

(* What a transaction is going to write, when nobody else writes before it.    *)
Writes(r) ==
    \/ r.ver = 0 /\ Alive(r.id)
    \/ /\ Alive(r.id) /\ Tested(r) /\ r.id = skill[r.id].id /\ r.ver = skill[r.id].ver
       /\ r.name = skill[r.id].name /\ r.files = skill[r.id].files
       /\ r.body = skill[r.id].body /\ r.key = skill[r.id].key
Adds(r) ==
    /\ \/ Alive(r.id) /\ r.ver = skill[r.id].ver + 1
       \/ r.id \notin Born /\ r.ver = 1 /\ r.id = Cardinality(Born) + 1
    /\ Tested(r) /\ \A o \in SkillId \ {r.id} : Alive(o) => skill[o].name # r.name

Viewed(r, s) == /\ r.ver > 0 /\ s \in Born /\ (skill[s].ver = 0 \/ r.ver <= skill[s].ver)
                /\ skill[s].ver = r.ver => skill[s].files = r.files /\ skill[s].body = r.body

TxGood(t) == LET x == tx[t] IN
    /\ x.pc \in {"work", "upload", "commit"} => mutex = t
    /\ x.pc \notin {"new", "over"} => x.req \in Req /\ wish[x.req] \in Wishes
    /\ x.pc \notin {"commit", "unwind"} => x.up = {}
    /\ \A key \in x.up : key[3] = t /\ (key \in doubt \/ \A s \in SkillId : \A v \in Versions(s) : v.key # key)
    /\ x.pc \in {"upload", "commit", "sweep"} => x.row.id \in SkillId
    /\ x.pc \in {"upload", "commit"} /\ wish[x.req].by = "agent" => x.req \notin receipt
    /\ x.pc = "upload" => Adds(x.row)
    /\ x.pc = "commit" => \/ Writes(x.row) /\ x.up = {}
                          \/ Adds(x.row) /\ x.row.key = NoKey /\ x.up = {}
                          \/ Adds(x.row) /\ x.row.key = NewKey(t) /\ x.up = {NewKey(t)} /\ Present(x.row)
    /\ x.pc = "sweep" => x.row.id \in Born /\ ~Alive(x.row.id)
    /\ x.pc \in {"deploy", "lock", "work"} => (wish[x.req].op = "verify" => Viewed(x.row, wish[x.req].id))
    /\ x.pc \in {"new", "view", "deploy", "lock", "work", "upload", "commit"} =>
         \A s \in SkillId : \A v \in Versions(s) : v.key # NoKey => v.key[3] # t

RequestGood(r) ==
    /\ wish[r] \notin Wishes => applied[r] = 0
    /\ wish[r] \in Wishes /\ wish[r].by = "agent" =>
         applied[r] <= 1 /\ (r \notin receipt => applied[r] = 0)

(* A package is of a version, or of an attempt that is going to remove it.     *)
Tracked(o) == \/ \E s \in SkillId : \E v \in Versions(s) : v.key = o.key
              \/ \E t \in Tx : o.key \in tx[t].up \/ (TxAt(t, "sweep") /\ tx[t].row.id = o.key[1])

SkillInv ==
    /\ SkillTypes
    /\ \A s \in SkillId : SkillGood(s)
    /\ \A s, o \in SkillId : Alive(s) /\ Alive(o) /\ skill[s].name = skill[o].name => s = o
    /\ \E n \in 0 .. MaxSkills : Born = 1 .. n
    /\ \A t \in Tx : TxGood(t)
    /\ \A r \in Req : RequestGood(r)
    /\ mishaps = 0 => \A o \in objs : Tracked(o)

-----------------------------------------------------------------------------
(* What the invariant says of a transaction, a row, a wish.                    *)

LEMMA SkillKnown ==
  ASSUME SkillInv
  PROVE  /\ \A t \in Tx : TxGood(t) /\ tx[t] \in TxRec /\ tx[t].row \in RowRec /\ tx[t].up \in SUBSET Stamp
                        /\ tx[t].req \in Someone
         /\ \A s \in SkillId : SkillGood(s) /\ skill[s] \in RowRec /\ skill[s].ver \in Nat /\ past[s] \in Seq(RowRec)
         /\ tx \in [Tx -> TxRec]
BY DEF SkillInv, SkillTypes, TxRec, RowRec

LEMMA WishIs ==
  ASSUME NEW w \in Wishes
  PROVE  /\ w.op \in {"create", "edit", "put", "drop", "rename", "delete", "verify"}
         /\ w.op = "create" => w.name \in SkillName /\ w.files \subseteq PkgFile
         /\ w.op # "create" => w.id \in SkillId
         /\ w.op \in {"put", "drop"} => w.file \in PkgFile
         /\ w.op = "rename" => w.name \in SkillName
         /\ w.by \in {"agent", "page", "import"}
BY DEF Wishes

LEMMA UnaskedIs ==
  ASSUME NEW w \in Wishes \cup {Unasked}
  PROVE  w \in Wishes <=> w.op # "none"
<1>1. CASE w \in Wishes
  BY <1>1, WishIs
<1>2. CASE w = Unasked
  <2>1. w.op = "none"
    BY <1>2 DEF Unasked
  <2> QED
    BY <2>1, WishIs
<1> QED
  BY <1>1, <1>2

LEMMA NothingIs == Nothing \in RowRec /\ Nothing.id = 0 /\ Nothing.ver = 0
<1>1. {} \in PkgSet /\ NoOwner \in Someone /\ NoOwner \in SkillName \cup {NoOwner} /\ NoKey \in Key /\ <<>> \in Tests
  BY DEF PkgSet, Someone, Key, Tests
<1>2. 0 \in 0 .. MaxSkills /\ 0 \in Nat
  BY SkillAssumption
<1> QED
  BY <1>1, <1>2 DEF Nothing, RowRec

LEMMA StampIs ==
  ASSUME NEW key \in Stamp
  PROVE  key \in Key /\ key # NoKey
<1>1. PICK a \in SkillId, b \in Nat, c \in Tx \cup {NoOwner} : key = <<a, b, c>>
  BY DEF Stamp
<1>2. key # <<>>
  BY <1>1
<1> QED
  BY <1>2 DEF Key, Stamp, NoKey

(* How a transaction moves.                                                    *)
TxTo(t, pc, req, row, up) ==
    /\ tx' \in [Tx -> TxRec]
    /\ tx'[t].pc = pc /\ tx'[t].req = req /\ tx'[t].row = row /\ tx'[t].up = up
    /\ \A u \in Tx \ {t} : tx'[u] = tx[u]

Steps == {"new", "view", "deploy", "lock", "work", "upload", "commit", "answer", "unwind", "sweep", "over"}

LEMMA NewTx ==
  ASSUME tx \in [Tx -> TxRec], NEW t \in Tx, NEW r \in TxRec, tx' = [tx EXCEPT ![t] = r]
  PROVE  TxTo(t, r.pc, r.req, r.row, r.up)
BY DEF TxTo

LEMMA TxStep ==
  ASSUME tx \in [Tx -> TxRec], NEW t \in Tx, NEW pc \in Steps, Step(t, pc)
  PROVE  TxTo(t, pc, tx[t].req, tx[t].row, tx[t].up)
<1>0. tx[t] \in TxRec
  OBVIOUS
<1>1. PICK r : r = [tx[t] EXCEPT !.pc = pc]
  OBVIOUS
<1>2. r \in TxRec /\ r.pc = pc /\ r.req = tx[t].req /\ r.row = tx[t].row /\ r.up = tx[t].up
  BY ONLY <1>0, <1>1, pc \in Steps DEF TxRec, Steps
<1>3. tx' = [tx EXCEPT ![t] = r]
  BY <1>1 DEF Step
<1> QED
  BY <1>2, <1>3, NewTx DEF TxTo

LEMMA TxOver ==
  ASSUME tx \in [Tx -> TxRec], NEW t \in Tx, Over(t)
  PROVE  TxTo(t, "over", NoOwner, Nothing, {})
<1>1. PICK r : r = [NoTx EXCEPT !.pc = "over"]
  OBVIOUS
<1>2. r \in TxRec /\ r.pc = "over" /\ r.req = NoOwner /\ r.row = Nothing /\ r.up = {}
  <2>1. NoOwner \in Someone /\ {} \in SUBSET Stamp
    BY DEF Someone
  <2> QED
    BY ONLY <1>1, <2>1, NothingIs DEF TxRec, NoTx
<1>3. tx' = [tx EXCEPT ![t] = r]
  BY <1>1 DEF Over
<1> QED
  BY <1>2, <1>3, NewTx DEF TxTo

LEMMA TxRow ==
  ASSUME tx \in [Tx -> TxRec], NEW t \in Tx, NEW pc \in Steps, NEW row \in RowRec,
         tx' = [tx EXCEPT ![t].pc = pc, ![t].row = row]
  PROVE  TxTo(t, pc, tx[t].req, row, tx[t].up)
<1>0. tx[t] \in TxRec
  OBVIOUS
<1>1. PICK r : r = [tx[t] EXCEPT !.pc = pc, !.row = row]
  OBVIOUS
<1>2. r \in TxRec /\ r.pc = pc /\ r.req = tx[t].req /\ r.row = row /\ r.up = tx[t].up
  BY ONLY <1>0, <1>1, pc \in Steps, row \in RowRec DEF TxRec, Steps
<1>3. tx' = [tx EXCEPT ![t] = r]
  BY <1>1
<1> QED
  BY <1>2, <1>3, NewTx DEF TxTo

LEMMA TxEnd ==
  ASSUME tx \in [Tx -> TxRec], NEW t \in Tx, NEW pc \in Steps, NEW up \in SUBSET Stamp,
         tx' = [tx EXCEPT ![t].pc = pc, ![t].up = up]
  PROVE  TxTo(t, pc, tx[t].req, tx[t].row, up)
<1>0. tx[t] \in TxRec
  OBVIOUS
<1>1. PICK r : r = [tx[t] EXCEPT !.pc = pc, !.up = up]
  OBVIOUS
<1>2. r \in TxRec /\ r.pc = pc /\ r.req = tx[t].req /\ r.row = tx[t].row /\ r.up = up
  BY ONLY <1>0, <1>1, pc \in Steps, up \in SUBSET Stamp DEF TxRec, Steps
<1>3. tx' = [tx EXCEPT ![t] = r]
  BY <1>1
<1> QED
  BY <1>2, <1>3, NewTx DEF TxTo

(* The row that is going to be stored gets the key of its package.             *)
Keyed(row, key) ==
    [id |-> row.id, name |-> row.name, ver |-> row.ver, body |-> row.body, files |-> row.files, key |-> key,
     check |-> row.check]

LEMMA KeyedIs ==
  ASSUME NEW row \in RowRec, NEW key \in Key
  PROVE  /\ Keyed(row, key) \in RowRec /\ Keyed(row, key).id = row.id /\ Keyed(row, key).name = row.name
         /\ Keyed(row, key).ver = row.ver /\ Keyed(row, key).body = row.body /\ Keyed(row, key).files = row.files
         /\ Keyed(row, key).key = key /\ Keyed(row, key).check = row.check
BY DEF Keyed, RowRec

LEMMA TxKey ==
  ASSUME tx \in [Tx -> TxRec], NEW t \in Tx, NEW key \in Key, NEW up \in SUBSET Stamp,
         tx' = [tx EXCEPT ![t].pc = "commit", ![t].row.key = key, ![t].up = up]
  PROVE  TxTo(t, "commit", tx[t].req, Keyed(tx[t].row, key), up)
<1>0. tx[t] \in TxRec /\ tx[t].row \in RowRec
  BY DEF TxRec
<1>1. PICK p \in RowRec : p = tx[t].row
  BY <1>0
<1>2. PICK row : row = [p EXCEPT !.key = key]
  OBVIOUS
<1>3. row = Keyed(p, key) /\ row \in RowRec
  BY ONLY <1>2, p \in RowRec, key \in Key DEF RowRec, Keyed
<1>4. PICK r : r = [tx[t] EXCEPT !.pc = "commit", !.row = row, !.up = up]
  OBVIOUS
<1>5. r \in TxRec /\ r.pc = "commit" /\ r.req = tx[t].req /\ r.row = row /\ r.up = up
  BY ONLY <1>0, <1>3, <1>4, up \in SUBSET Stamp DEF TxRec
<1>6. tx' = [tx EXCEPT ![t] = r]
  BY <1>1, <1>2, <1>4
<1> QED
  BY <1>1, <1>3, <1>5, <1>6, NewTx DEF TxTo

LEMMA TxKeyless ==
  ASSUME tx \in [Tx -> TxRec], NEW t \in Tx, tx' = [tx EXCEPT ![t].pc = "commit", ![t].row.key = NoKey]
  PROVE  TxTo(t, "commit", tx[t].req, Keyed(tx[t].row, NoKey), tx[t].up)
<1>0. tx[t] \in TxRec /\ tx[t].row \in RowRec /\ NoKey \in Key
  BY DEF TxRec, Key
<1>1. PICK p \in RowRec : p = tx[t].row
  BY <1>0
<1>2. PICK row : row = [p EXCEPT !.key = NoKey]
  OBVIOUS
<1>3. row = Keyed(p, NoKey) /\ row \in RowRec
  BY ONLY <1>0, <1>2, p \in RowRec DEF RowRec, Keyed
<1>4. PICK r : r = [tx[t] EXCEPT !.pc = "commit", !.row = row]
  OBVIOUS
<1>5. r \in TxRec /\ r.pc = "commit" /\ r.req = tx[t].req /\ r.row = row /\ r.up = tx[t].up
  BY ONLY <1>0, <1>3, <1>4 DEF TxRec
<1>6. tx' = [tx EXCEPT ![t] = r]
  BY <1>1, <1>2, <1>4
<1> QED
  BY <1>1, <1>3, <1>5, <1>6, NewTx DEF TxTo

-----------------------------------------------------------------------------
(* A transaction moves and no row is written: what it must leave.              *)

LEMMA SameVersions ==
  ASSUME UNCHANGED <<skill, past>>
  PROVE  Born' = Born /\ \A s \in SkillId : Versions(s)' = Versions(s) /\ (Alive(s)' <=> Alive(s))
BY DEF Born, Versions, Alive

LEMMA SamePending ==
  ASSUME UNCHANGED <<skill, past>>, NEW r \in RowRec, r.id \in SkillId
  PROVE  (Writes(r) => Writes(r)') /\ (Adds(r) => Adds(r)')
BY SameVersions DEF Writes, Adds, Alive

LEMMA Aside ==
  ASSUME SkillInv, SkillTypes', NEW t \in Tx, UNCHANGED <<skill, past, receipt, applied, doubt>>,
         \A u \in Tx \ {t} : tx'[u] = tx[u],
         mutex \notin {t, NoOwner} => mutex' = mutex,
         \A r \in Req : wish[r] \in Wishes => wish'[r] = wish[r],
         \A o \in objs \ objs' : /\ \A s \in SkillId : \A v \in Versions(s) : v.key = o.key => v.key \in doubt
                               /\ \A u \in Tx \ {t} : tx[u].pc = "commit" => o.key \notin tx[u].up,
         mishaps' = 0 => mishaps = 0,
         mishaps' = 0 => \A o \in objs' :
            \/ o \notin objs /\ o.key \in tx'[t].up
            \/ o \in objs /\ (o.key \in tx[t].up => o.key \in tx'[t].up),
         mishaps' = 0 /\ TxAt(t, "sweep") => \A o \in objs' : tx[t].row.id # o.key[1],
         TxGood(t)'
  PROVE  SkillInv'
<1>1. Born' = Born /\ \A s \in SkillId : Versions(s)' = Versions(s) /\ (Alive(s)' <=> Alive(s))
  BY SameVersions
<1>2. ASSUME NEW s \in SkillId PROVE SkillGood(s)'
  <2>1. SkillGood(s)
    BY DEF SkillInv
  <2>2. ASSUME NEW v \in Versions(s), v.key # NoKey, v.key \notin doubt, Present(v) PROVE Present(v)'
    <3>1. PICK o \in objs : o.key = v.key /\ o = [key |-> v.key, files |-> v.files]
      BY <2>2 DEF Present
    <3>2. o \in objs'
      BY <2>2, <3>1
    <3> QED
      BY <3>1, <3>2 DEF Present
  <2> QED
    BY <1>1, <2>1, <2>2 DEF SkillGood
<1>3. ASSUME NEW u \in Tx PROVE TxGood(u)'
  <2>1. CASE u = t
    BY <2>1
  <2>2. CASE u # t
    <3>1. TxGood(u) /\ tx'[u] = tx[u] /\ tx[u].row \in RowRec
      BY <2>2, SkillKnown
    <3>2. tx[u].pc \in {"work", "upload", "commit"} => mutex' = u
      BY <2>2, <3>1, SkillAssumption DEF TxGood
    <3>3. tx[u].pc \notin {"new", "over"} => tx[u].req \in Req /\ wish[tx[u].req] \in Wishes /\ wish'[tx[u].req] = wish[tx[u].req]
      BY <3>1 DEF TxGood
    <3>4. PICK r \in RowRec : r = tx[u].row
      BY <3>1
    <3>5. tx[u].pc \in {"upload", "commit"} => (Writes(r) => Writes(r)') /\ (Adds(r) => Adds(r)')
      BY <3>1, <3>4, SamePending DEF TxGood
    <3>6. tx[u].pc = "commit" /\ tx[u].up = {NewKey(u)} /\ r.key = NewKey(u) /\ Present(r) => Present(r)'
      BY <2>2 DEF Present
    <3>7. NewKey(u)' = NewKey(u)
      BY <3>1 DEF NewKey
    <3>8. PICK w : w = wish[tx[u].req]
      OBVIOUS
    <3>9. tx[u].pc \in {"deploy", "lock", "work"} /\ w.op = "verify" => (Viewed(r, w.id) => Viewed(r, w.id)')
      BY <1>1 DEF Viewed
    <3>10. PICK pc, up, req : pc = tx[u].pc /\ up = tx[u].up /\ req = tx[u].req
      OBVIOUS
    <3>11. /\ pc \in {"upload", "commit"} => (Writes(r) => Writes(r)') /\ (Adds(r) => Adds(r)')
           /\ pc = "commit" /\ up = {NewKey(u)} /\ r.key = NewKey(u) /\ Present(r) => Present(r)'
      BY <3>5, <3>6, <3>10
    <3> QED
      BY <1>1, <3>1, <3>2, <3>3, <3>4, <3>5, <3>6, <3>7, <3>8, <3>9 DEF TxGood
  <2> QED
    BY <2>1, <2>2
<1>4. ASSUME NEW r \in Req PROVE RequestGood(r)'
  BY DEF SkillInv, RequestGood
<1>5. mishaps' = 0 => \A o \in objs' : Tracked(o)'
  <2> SUFFICES ASSUME mishaps' = 0, NEW o \in objs' PROVE Tracked(o)'
    OBVIOUS
  <2>1. CASE o \notin objs /\ o.key \in tx'[t].up
    BY <2>1 DEF Tracked
  <2>2. CASE o \in objs /\ (o.key \in tx[t].up => o.key \in tx'[t].up)
    <3>1. Tracked(o)
      BY <2>2 DEF SkillInv
    <3>2. CASE \E s \in SkillId : \E v \in Versions(s) : v.key = o.key
      BY <1>1, <3>2 DEF Tracked
    <3>3. ASSUME NEW u \in Tx, o.key \in tx[u].up \/ (TxAt(u, "sweep") /\ tx[u].row.id = o.key[1])
          PROVE  o.key \in tx'[u].up \/ (TxAt(u, "sweep")' /\ tx'[u].row.id = o.key[1])
      BY <2>2, <3>3 DEF TxAt
    <3> QED
      BY <3>1, <3>2, <3>3 DEF Tracked
  <2> QED
    BY <2>1, <2>2
<1> QED
  BY <1>1, <1>2, <1>3, <1>4, <1>5 DEF SkillInv

-----------------------------------------------------------------------------
(* The rows that a mutation may write.                                         *)

LEMMA NewText ==
  ASSUME NEW old \in RowRec, NEW w \in Wishes, NEW req \in Req, NEW new,
         \/ w.op = "edit" /\ new = [old EXCEPT !.body = req]
         \/ w.op = "put" /\ new = [old EXCEPT !.files = Without(old.files, w.file) \cup {<<w.file, req>>}]
         \/ w.op = "drop" /\ new = [old EXCEPT !.files = Without(old.files, w.file)]
         \/ w.op = "rename" /\ new = [old EXCEPT !.name = w.name]
  PROVE  /\ new \in RowRec /\ new.id = old.id /\ new.ver = old.ver /\ new.key = old.key /\ new.check = old.check
         /\ new.name = IF w.op = "rename" THEN w.name ELSE old.name
<1>1. req \in Someone
  BY DEF Someone
<1>2. old.files \in PkgSet
  BY DEF RowRec
<1>3. w.op = "put" => Without(old.files, w.file) \cup {<<w.file, req>>} \in PkgSet
  BY <1>1, <1>2, WishIs DEF PkgSet, Without
<1>4. Without(old.files, w.file) \in PkgSet
  BY <1>2 DEF PkgSet, Without
<1>5. w.op = "rename" => w.name \in SkillName
  BY WishIs
<1>6. CASE w.op = "edit" /\ new = [old EXCEPT !.body = req]
  BY ONLY <1>1, <1>6, old \in RowRec DEF RowRec
<1>7. ASSUME NEW fs \in PkgSet, new = [old EXCEPT !.files = fs], w.op # "rename"
      PROVE  /\ new \in RowRec /\ new.id = old.id /\ new.ver = old.ver /\ new.key = old.key /\ new.check = old.check
             /\ new.name = IF w.op = "rename" THEN w.name ELSE old.name
  BY ONLY <1>7, old \in RowRec DEF RowRec
<1>8. CASE w.op = "put" /\ new = [old EXCEPT !.files = Without(old.files, w.file) \cup {<<w.file, req>>}]
  BY <1>3, <1>7, <1>8
<1>9. CASE w.op = "drop" /\ new = [old EXCEPT !.files = Without(old.files, w.file)]
  BY <1>4, <1>7, <1>9
<1>10. CASE w.op = "rename" /\ new = [old EXCEPT !.name = w.name]
  BY ONLY <1>5, <1>10, old \in RowRec DEF RowRec
<1> QED
  BY <1>6, <1>8, <1>9, <1>10

LEMMA EditedIs ==
  ASSUME NEW t \in Tx, NEW old \in RowRec, Wish(t) \in Wishes, Wish(t).op \in {"edit", "put", "drop", "rename"},
         tx[t].req \in Req, Tested(old)
  PROVE  LET e == Edited(old, t) IN
         \/ e = old
         \/ /\ e \in RowRec /\ e.id = old.id /\ e.ver = old.ver + 1 /\ Tested(e)
            /\ e.name = IF Wish(t).op = "rename" THEN Wish(t).name ELSE old.name
<1>1. PICK w \in Wishes : w = Wish(t)
  OBVIOUS
<1>2. PICK req \in Req : req = tx[t].req
  OBVIOUS
<1>3. PICK new : new = CASE w.op = "edit" -> [old EXCEPT !.body = req]
                 [] w.op = "put"  -> [old EXCEPT !.files = Without(old.files, w.file) \cup {<<w.file, req>>}]
                 [] w.op = "drop" -> [old EXCEPT !.files = Without(old.files, w.file)]
                 [] w.op = "rename" -> [old EXCEPT !.name = w.name]
  OBVIOUS
<1>4. \/ w.op = "edit" /\ new = [old EXCEPT !.body = req]
      \/ w.op = "put" /\ new = [old EXCEPT !.files = Without(old.files, w.file) \cup {<<w.file, req>>}]
      \/ w.op = "drop" /\ new = [old EXCEPT !.files = Without(old.files, w.file)]
      \/ w.op = "rename" /\ new = [old EXCEPT !.name = w.name]
  BY <1>1, <1>3
<1>5. /\ new \in RowRec /\ new.id = old.id /\ new.ver = old.ver /\ new.key = old.key /\ new.check = old.check
      /\ new.name = IF w.op = "rename" THEN w.name ELSE old.name
  BY <1>4, NewText
<1>6. Edited(old, t) = IF new = old THEN old ELSE [new EXCEPT !.ver = new.ver + 1, !.check = Unchecked(old, new)]
  BY <1>1, <1>2, <1>3 DEF Edited
<1>7. CASE new # old
  <2>1. PICK check : check = Unchecked(old, new)
    OBVIOUS
  <2>2. check \in Tests
    BY <2>1 DEF Unchecked, RowRec, Tests
  <2>3. check # <<>> => check[2] = new.files /\ check[3] = new.body
    BY <2>1 DEF Unchecked, Tested
  <2>4. PICK mid \in RowRec, ver \in Nat : mid = new /\ ver = new.ver + 1
    BY <1>5 DEF RowRec
  <2>5. PICK e : e = [mid EXCEPT !.ver = ver, !.check = check]
    OBVIOUS
  <2>6. /\ e \in RowRec /\ e.id = mid.id /\ e.ver = ver /\ e.name = mid.name
         /\ e.check = check /\ e.files = mid.files /\ e.body = mid.body
    BY ONLY <2>2, <2>5, mid \in RowRec, ver \in Nat DEF RowRec
  <2>7. /\ e \in RowRec /\ e.id = new.id /\ e.ver = new.ver + 1 /\ e.name = new.name
        /\ e.check = check /\ e.files = new.files /\ e.body = new.body
    BY <2>4, <2>6
  <2>8. Edited(old, t) = e
    BY <1>6, <1>7, <2>1, <2>4, <2>5
  <2>9. Tested(e)
    BY <2>3, <2>7 DEF Tested
  <2> QED
    BY <1>1, <1>5, <2>7, <2>8, <2>9
<1> QED
  BY <1>6, <1>7

LEMMA CreatedIs ==
  ASSUME SkillInv, NEW t \in Tx, Wish(t) \in Wishes, Wish(t).op = "create", tx[t].req \in Req,
         Cardinality(Born) < MaxSkills
  PROVE  LET c == Created(t) IN
         /\ c \in RowRec /\ c.id = Cardinality(Born) + 1 /\ c.id \in SkillId /\ c.id \notin Born
         /\ c.ver = 1 /\ c.name = Wish(t).name /\ Tested(c)
<1>1. PICK n \in 0 .. MaxSkills : Born = 1 .. n
  BY DEF SkillInv
<1>2. Cardinality(Born) = n
  BY <1>1, FS_Interval, SkillAssumption
<1>3. n + 1 \in SkillId /\ n + 1 \notin Born /\ n + 1 \in 0 .. MaxSkills
  BY <1>1, <1>2, SkillAssumption DEF SkillId
<1>4. Wish(t).name \in SkillName /\ Wish(t).files \subseteq PkgFile
  BY WishIs
<1>5. PICK fs : fs = {<<f, tx[t].req>> : f \in Wish(t).files}
  OBVIOUS
<1>6. fs \in PkgSet
  BY <1>4, <1>5 DEF PkgSet, Someone
<1>7. tx[t].req \in Someone /\ NoKey \in Key /\ <<>> \in Tests /\ 1 \in Nat
  BY DEF Someone, Key, Tests
<1>8. Created(t) = [id |-> n + 1, name |-> Wish(t).name, ver |-> 1, body |-> tx[t].req, files |-> fs,
                    key |-> NoKey, check |-> <<>>]
  BY <1>2, <1>5 DEF Created
<1>9. Created(t) \in RowRec
  BY <1>3, <1>4, <1>6, <1>7, <1>8 DEF RowRec
<1> QED
  BY <1>2, <1>3, <1>8, <1>9 DEF Tested

LEMMA SkillAlive ==
  ASSUME SkillInv, NEW s \in SkillId, Alive(s)
  PROVE  skill[s].id = s /\ skill[s].ver > 0 /\ s \in Born /\ Tested(skill[s]) /\ skill[s] \in RowRec
BY SkillKnown, SkillAssumption DEF SkillGood, Alive, Born, SkillId

LEMMA TargetRows ==
  ASSUME SkillInv, NEW t \in Tx, TxAt(t, "work"), NEW row \in Targets(t)
  PROVE  /\ row \in RowRec /\ row.id \in SkillId
         /\ IF row.ver \notin {0, skill[row.id].ver} THEN Adds(row) ELSE Writes(row)
<1> DEFINE Good(r) == /\ r \in RowRec /\ r.id \in SkillId
                      /\ IF r.ver \notin {0, skill[r.id].ver} THEN Adds(r) ELSE Writes(r)
<1>1. PICK w \in Wishes : w = Wish(t)
  BY SkillKnown DEF TxAt, TxGood, Wish
<1>2. tx[t].req \in Req
  BY SkillKnown DEF TxAt, TxGood
<1>3. \A s \in SkillId : Alive(s) => /\ skill[s].id = s /\ skill[s].ver > 0 /\ s \in Born
                                     /\ Tested(skill[s]) /\ skill[s] \in RowRec /\ skill[s].ver \in Nat
  BY SkillAlive, SkillKnown
<1>4. ASSUME NEW s \in SkillId, Alive(s) PROVE Good(skill[s])
  BY <1>3, <1>4 DEF Writes, Alive
<1>5. CASE w.op = "create"
  <2>1. CASE SameName(w.name, 0)
    <3>1. PICK s \in SkillId : row = skill[s] /\ Alive(s)
      BY <1>1, <1>5, <2>1 DEF Targets, Equal, Readable
    <3> QED
      BY <1>4, <3>1
  <2>2. CASE ~SameName(w.name, 0)
    <3>1. row = Created(t) /\ Cardinality(Born) < MaxSkills
      BY <1>1, <1>5, <2>2 DEF Targets
    <3>2. /\ row \in RowRec /\ row.id = Cardinality(Born) + 1 /\ row.id \in SkillId /\ row.id \notin Born
          /\ row.ver = 1 /\ row.name = w.name /\ Tested(row)
      BY <1>1, <1>2, <1>5, <3>1, CreatedIs
    <3>3. skill[row.id].ver = 0
      BY <3>2, SkillKnown DEF Born, SkillGood
    <3>4. \A o \in SkillId \ {row.id} : Alive(o) => skill[o].name # row.name
      BY <2>2, <3>2, SkillAssumption DEF SameName, SkillId
    <3>5. Adds(row)
      BY <3>2, <3>4 DEF Adds
    <3> QED
      BY <3>2, <3>3, <3>5
  <2> QED
    BY <2>1, <2>2
<1>6. CASE w.op = "verify"
  <2>1. PICK c \in {"passed", "failed"} : /\ Alive(w.id) /\ skill[w.id].ver = tx[t].row.ver
                                          /\ row = [skill[w.id] EXCEPT !.check = <<c, tx[t].row.files, tx[t].row.body>>]
    BY <1>1, <1>6 DEF Targets
  <2>2. w.id \in SkillId
    BY <1>6, WishIs
  <2>3. Viewed(tx[t].row, w.id)
    BY <1>1, <1>6, SkillKnown DEF TxAt, TxGood, Wish
  <2>4. skill[w.id].files = tx[t].row.files /\ skill[w.id].body = tx[t].row.body
    BY <2>1, <2>3 DEF Viewed
  <2>5. PICK old \in RowRec : old = skill[w.id]
    BY <1>3, <2>1, <2>2
  <2>6. PICK check : check = <<c, old.files, old.body>>
    OBVIOUS
  <2>7. check \in Tests /\ check[2] = old.files /\ check[3] = old.body
    BY <2>6 DEF Tests, RowRec
  <2>8. row = [old EXCEPT !.check = check]
    BY <2>1, <2>4, <2>5, <2>6
  <2>9. /\ row \in RowRec /\ row.id = old.id /\ row.name = old.name /\ row.ver = old.ver /\ row.body = old.body
        /\ row.files = old.files /\ row.key = old.key /\ row.check = check
    BY ONLY <2>7, <2>8, old \in RowRec DEF RowRec
  <2>10. Writes(row)
    BY <1>3, <2>1, <2>2, <2>5, <2>7, <2>9 DEF Writes, Tested
  <2> QED
    BY <1>3, <2>1, <2>2, <2>5, <2>9, <2>10
<1>7. CASE w.op = "delete"
  <2>1. Alive(w.id) /\ row = [Nothing EXCEPT !.id = w.id]
    BY <1>1, <1>7 DEF Targets
  <2>2. w.id \in SkillId /\ w.id \in 0 .. MaxSkills
    BY <1>7, WishIs, SkillAssumption DEF SkillId
  <2>3. PICK s : s = w.id
    OBVIOUS
  <2>4. PICK nil \in RowRec : nil = Nothing /\ nil.ver = 0
    BY NothingIs
  <2>5. s = w.id /\ nil = Nothing /\ nil.ver = 0
    BY <2>3, <2>4
  <2>6. s \in 0 .. MaxSkills /\ row = [nil EXCEPT !.id = s]
    BY <2>1, <2>2, <2>5
  <2>7. row \in RowRec /\ row.id = s /\ row.ver = nil.ver
    BY ONLY <2>6, nil \in RowRec DEF RowRec
  <2> QED
    BY <2>1, <2>2, <2>5, <2>7 DEF Writes
<1>8. CASE w.op \in {"edit", "put", "drop", "rename"}
  <2>1. /\ Readable(w.id) /\ w.exp = skill[w.id].ver
        /\ w.op = "rename" => ~SameName(w.name, w.id)
        /\ row = Edited(skill[w.id], t)
    BY <1>1, <1>8 DEF Targets
  <2>2. w.id \in SkillId /\ Alive(w.id)
    BY <1>8, <2>1, WishIs DEF Readable
  <2>3. PICK s \in SkillId : s = w.id
    BY <2>2
  <2>4. PICK old \in RowRec : old = skill[s] /\ Tested(old) /\ old.id = s /\ Alive(s) /\ old.ver \in Nat
    BY <1>3, <2>2, <2>3
  <2>5. CASE row = old
    BY <1>4, <2>4, <2>5
  <2>6. CASE row # old
    <3>1. /\ row \in RowRec /\ row.id = s /\ row.ver = old.ver + 1 /\ Tested(row)
          /\ row.name = IF w.op = "rename" THEN w.name ELSE old.name
      BY <1>1, <1>2, <1>8, <2>1, <2>3, <2>4, <2>6, EditedIs
    <3>2. ASSUME NEW o \in SkillId \ {s}, Alive(o) PROVE skill[o].name # row.name
      <4>1. CASE w.op = "rename"
        BY <2>1, <2>3, <3>1, <3>2, <4>1 DEF SameName
      <4>2. CASE w.op # "rename"
        BY <2>4, <3>1, <3>2, <4>2 DEF SkillInv
      <4> QED
        BY <4>1, <4>2
    <3>3. Adds(row)
      BY <2>4, <3>1, <3>2 DEF Adds
    <3> QED
      BY <2>4, <3>1, <3>3
  <2> QED
    BY <2>5, <2>6
<1> QED
  BY <1>5, <1>6, <1>7, <1>8, WishIs

-----------------------------------------------------------------------------
(* A row is stored.                                                            *)

(* What the versions of the skills are after it: those that there were, or the *)
(* row; a deleted skill has none.                                              *)
StoredAs(row) ==
    /\ skill' \in [SkillId -> RowRec] /\ past' \in [SkillId -> Seq(RowRec)]
    /\ \A o \in SkillId \ {row.id} : skill'[o] = skill[o] /\ past'[o] = past[o]
    /\ skill'[row.id] = row
    /\ \/ row.ver = 0 /\ past'[row.id] = <<>>
       \/ row.ver # 0 /\ row.ver = skill[row.id].ver /\ past'[row.id] = past[row.id]
       \/ row.ver # 0 /\ skill[row.id].ver = 0 /\ past'[row.id] = past[row.id]
       \/ /\ row.ver # 0 /\ skill[row.id].ver > 0 /\ row.ver # skill[row.id].ver
          /\ past'[row.id] = Append(past[row.id], skill[row.id])

LEMMA StoredIs ==
  ASSUME SkillInv, NEW t \in Tx, TxAt(t, "commit"), Stored(t)
  PROVE  StoredAs(tx[t].row)
<1>1. PICK row \in RowRec : row = tx[t].row
  BY SkillKnown
<1>2. row.id \in SkillId
  BY <1>1, SkillKnown DEF TxAt, TxGood
<1>3. PICK s \in SkillId : s = row.id
  BY <1>2
<1>4. skill \in [SkillId -> RowRec] /\ past \in [SkillId -> Seq(RowRec)] /\ skill[s].ver \in Nat /\ row.ver \in Nat
  BY <1>1, SkillKnown DEF SkillInv, SkillTypes, RowRec
<1>5. PICK p : p = IF row.ver = 0 THEN <<>>
                   ELSE IF skill[s].ver > 0 /\ skill[s].ver # row.ver THEN Append(past[s], skill[s]) ELSE past[s]
  OBVIOUS
<1>6. skill' = [skill EXCEPT ![s] = row] /\ past' = [past EXCEPT ![s] = p]
  BY <1>1, <1>3, <1>5 DEF Stored
<1>7. <<>> \in Seq(RowRec)
  OBVIOUS
<1>8. Append(past[s], skill[s]) \in Seq(RowRec)
  BY <1>4, AppendProperties
<1>9. p \in Seq(RowRec)
  BY <1>4, <1>5, <1>7, <1>8
<1>10. /\ skill' \in [SkillId -> RowRec] /\ past' \in [SkillId -> Seq(RowRec)]
       /\ \A o \in SkillId \ {s} : skill'[o] = skill[o] /\ past'[o] = past[o]
       /\ skill'[s] = row /\ past'[s] = p
  BY ONLY <1>4, <1>6, <1>9, row \in RowRec, s \in SkillId
<1>11. \/ row.ver = 0 /\ p = <<>>
       \/ row.ver # 0 /\ row.ver = skill[s].ver /\ p = past[s]
       \/ row.ver # 0 /\ skill[s].ver = 0 /\ p = past[s]
       \/ row.ver # 0 /\ skill[s].ver > 0 /\ row.ver # skill[s].ver /\ p = Append(past[s], skill[s])
  BY <1>4, <1>5
<1> QED
  BY <1>1, <1>3, <1>10, <1>11 DEF StoredAs

LEMMA AppendElements ==
  ASSUME NEW s \in Seq(RowRec), NEW x \in RowRec
  PROVE  {Append(s, x)[i] : i \in DOMAIN Append(s, x)} = {s[i] : i \in DOMAIN s} \cup {x}
<1>1. /\ Len(Append(s, x)) = Len(s) + 1 /\ Append(s, x)[Len(s) + 1] = x
      /\ \A i \in 1 .. Len(s) : Append(s, x)[i] = s[i] /\ Append(s, x) \in Seq(RowRec)
      /\ Len(s) \in Nat
  BY AppendProperties, LenProperties
<1>2. DOMAIN s = 1 .. Len(s) /\ DOMAIN Append(s, x) = 1 .. Len(s) + 1
  BY <1>1, AppendProperties, LenProperties
<1>3. 1 .. Len(s) + 1 = (1 .. Len(s)) \cup {Len(s) + 1}
  BY <1>1
<1> QED
  BY <1>1, <1>2, <1>3

(* Of the versions: each has the key and the files of one there was, or is the *)
(* new row; and unless the skill is deleted the keys that there were remain.   *)
LEMMA NewVersions ==
  ASSUME SkillInv, NEW t \in Tx, TxAt(t, "commit"), Stored(t),
         NEW row \in RowRec, row = tx[t].row, NEW s \in SkillId, s = row.id
  PROVE  /\ \A v \in Versions(s)' : (\E w \in Versions(s) : w.key = v.key /\ w.files = v.files) \/ (v = row /\ Adds(row))
         /\ \A o \in SkillId \ {s} : Versions(o)' = Versions(o)
         /\ row.ver # 0 => \A v \in Versions(s) : \E w \in Versions(s)' : w.key = v.key
         /\ row.ver = 0 => Versions(s)' = {}
         /\ Adds(row) => row \in Versions(s)'
<1>2. StoredAs(row)
  BY StoredIs
<1>3. s = row.id
  OBVIOUS
<1>4. Writes(row) \/ Adds(row)
  BY SkillKnown DEF TxAt, TxGood
<1>5. past[s] \in Seq(RowRec) /\ skill[s] \in RowRec /\ skill[s].ver \in Nat /\ row.ver \in Nat /\ SkillGood(s)
  BY SkillKnown DEF RowRec
<1>6. \A o \in SkillId \ {s} : Versions(o)' = Versions(o)
  <2> SUFFICES ASSUME NEW o \in SkillId \ {s} PROVE Versions(o)' = Versions(o)
    OBVIOUS
  <2>1. skill'[o] = skill[o] /\ past'[o] = past[o]
    BY <1>2, <1>3 DEF StoredAs
  <2> QED
    BY <2>1 DEF Versions, Alive
<1>7. PICK old : old = {past[s][i] : i \in DOMAIN past[s]}
  OBVIOUS
<1>8. Versions(s) = old \cup IF skill[s].ver > 0 THEN {skill[s]} ELSE {}
  BY <1>7 DEF Versions, Alive
<1>9. Versions(s)' = {past'[s][i] : i \in DOMAIN past'[s]} \cup IF row.ver > 0 THEN {row} ELSE {}
  BY <1>2, <1>3 DEF Versions, Alive, StoredAs
<1>10. CASE row.ver = 0
  <2>1. past'[s] = <<>>
    BY <1>2, <1>3, <1>10 DEF StoredAs
  <2>2. Versions(s)' = {}
    BY <1>9, <1>10, <2>1
  <2>3. ~Adds(row)
    BY <1>3, <1>5, <1>10 DEF Adds
  <2> QED
    BY <1>3, <1>6, <1>10, <2>2, <2>3
<1>11. CASE row.ver # 0 /\ Writes(row)
  <2>1. /\ skill[s].ver > 0 /\ row.ver = skill[s].ver /\ row.files = skill[s].files /\ row.key = skill[s].key
    BY <1>3, <1>11 DEF Writes, Alive
  <2>2. past'[s] = past[s]
    BY <1>2, <1>3, <1>11, <2>1 DEF StoredAs
  <2>3. Versions(s)' = old \cup {row}
    BY <1>5, <1>7, <1>9, <1>11, <2>2
  <2>4. Versions(s) = old \cup {skill[s]}
    BY <1>8, <2>1
  <2>5. s \in Born /\ row.ver # skill[s].ver + 1
    BY <1>5, <2>1, SkillAlive DEF Alive
  <2>6. ~Adds(row)
    BY <1>3, <2>5 DEF Adds
  <2>7. \A v \in Versions(s)' : \E w \in Versions(s) : w.key = v.key /\ w.files = v.files
    BY <2>1, <2>3, <2>4
  <2>8. \A v \in Versions(s) : \E w \in Versions(s)' : w.key = v.key
    BY <2>1, <2>3, <2>4
  <2> QED
    BY <1>6, <1>11, <2>6, <2>7, <2>8
<1>12. CASE row.ver # 0 /\ Adds(row)
  <2>1. \/ skill[s].ver > 0 /\ row.ver = skill[s].ver + 1
        \/ skill[s].ver = 0
    BY <1>3, <1>5, <1>12 DEF Adds, Alive, Born, SkillGood
  <2>2. Versions(s)' = Versions(s) \cup {row}
    <3>1. CASE skill[s].ver > 0 /\ row.ver = skill[s].ver + 1
      <4>0. skill[s].ver # 0 /\ row.ver # 0 /\ row.ver # skill[s].ver
          BY <1>5, <3>1
      <4>1. past'[s] = Append(past[s], skill[s])
        BY <1>2, <1>3, <4>0 DEF StoredAs
      <4>2. PICK ps \in Seq(RowRec), sk \in RowRec : ps = past[s] /\ sk = skill[s]
        BY <1>5
      <4>3. {Append(ps, sk)[i] : i \in DOMAIN Append(ps, sk)} = {ps[i] : i \in DOMAIN ps} \cup {sk}
        BY AppendElements
      <4>4. {past'[s][i] : i \in DOMAIN past'[s]} = old \cup {skill[s]}
        BY ONLY <1>7, <4>1, <4>2, <4>3
      <4>5. Versions(s) = old \cup {skill[s]}
        BY <1>8, <3>1
      <4>6. row.ver > 0
        BY <1>5, <1>12
      <4> QED
        BY ONLY <1>9, <4>4, <4>5, <4>6
    <3>2. CASE skill[s].ver = 0
      <4>1. past'[s] = past[s]
        BY <1>2, <1>3, <1>5, <1>12, <3>2 DEF StoredAs
      <4> QED
        BY <1>5, <1>7, <1>8, <1>9, <1>12, <3>2, <4>1
    <3> QED
      BY <2>1, <3>1, <3>2
  <2>3. \A v \in Versions(s)' : (\E w \in Versions(s) : w.key = v.key /\ w.files = v.files) \/ v = row
    BY <2>2
  <2>4. \A v \in Versions(s) : \E w \in Versions(s)' : w.key = v.key
    BY <2>2
  <2>5. row \in Versions(s)'
    BY <2>2
  <2> QED
    BY <1>3, <1>6, <1>12, <2>3, <2>4, <2>5
<1> QED
  BY <1>4, <1>10, <1>11, <1>12

LEMMA NewHistory ==
  ASSUME SkillInv, NEW row \in RowRec, NEW s \in SkillId, s = row.id, StoredAs(row), Writes(row) \/ Adds(row)
  PROVE  /\ row.ver = 0 => past'[s] = <<>>
         /\ row.ver > 0 => Len(past'[s]) = row.ver - 1 /\ Tested(row)
         /\ \A i \in DOMAIN past'[s] : past'[s][i].ver = i
<1>1. past[s] \in Seq(RowRec) /\ skill[s] \in RowRec /\ skill[s].ver \in Nat /\ row.ver \in Nat /\ SkillGood(s)
  BY SkillKnown DEF RowRec
<1>2. \/ row.ver = 0 /\ past'[s] = <<>>
      \/ row.ver # 0 /\ row.ver = skill[s].ver /\ past'[s] = past[s]
      \/ row.ver # 0 /\ skill[s].ver = 0 /\ past'[s] = past[s]
      \/ /\ row.ver # 0 /\ skill[s].ver > 0 /\ row.ver # skill[s].ver
         /\ past'[s] = Append(past[s], skill[s])
  BY DEF StoredAs
<1>3. /\ skill[s].ver = 0 => past[s] = <<>>
      /\ skill[s].ver > 0 => Len(past[s]) = skill[s].ver - 1
      /\ \A i \in DOMAIN past[s] : past[s][i].ver = i
  BY <1>1 DEF SkillGood, Alive
<1>4. row.ver = 0 \/ Tested(row)
  BY DEF Writes, Adds
<1>5. CASE row.ver = 0 /\ past'[s] = <<>>
  BY <1>5
<1>6. CASE row.ver # 0 /\ row.ver = skill[s].ver /\ past'[s] = past[s]
  BY <1>1, <1>3, <1>4, <1>6
<1>7. CASE row.ver # 0 /\ skill[s].ver = 0 /\ past'[s] = past[s]
  <2>1. row.ver = 1
    BY <1>7 DEF Writes, Adds, Alive
  <2>2. past'[s] = <<>>
    BY <1>3, <1>7
  <2> QED
    BY <1>4, <2>1, <2>2
<1>8. CASE row.ver # 0 /\ skill[s].ver > 0 /\ row.ver # skill[s].ver /\ past'[s] = Append(past[s], skill[s])
  <2>1. s \in Born
    BY <1>8, SkillAlive DEF Alive
  <2>2. row.ver = skill[s].ver + 1
    BY <1>1, <1>8, <2>1 DEF Writes, Adds
  <2>3. PICK ps \in Seq(RowRec), sk \in RowRec : ps = past[s] /\ sk = skill[s]
    BY <1>1
  <2>4. PICK q : q = Append(ps, sk)
    OBVIOUS
  <2>5. /\ q \in Seq(RowRec) /\ Len(q) = Len(ps) + 1 /\ q[Len(ps) + 1] = sk
        /\ \A i \in 1 .. Len(ps) : q[i] = ps[i]
        /\ DOMAIN q = 1 .. Len(q) /\ DOMAIN ps = 1 .. Len(ps) /\ Len(ps) \in Nat
    BY ONLY <2>4, ps \in Seq(RowRec), sk \in RowRec, AppendProperties, LenProperties
  <2>6. Len(ps) = sk.ver - 1 /\ sk.ver \in Nat /\ \A i \in DOMAIN ps : ps[i].ver = i
    BY <1>1, <1>3, <1>8, <2>3
  <2>7. \A i \in DOMAIN q : q[i].ver = i
    <3> SUFFICES ASSUME NEW i \in DOMAIN q PROVE q[i].ver = i
      OBVIOUS
    <3>1. CASE i \in 1 .. Len(ps)
      BY <2>5, <2>6, <3>1
    <3>2. CASE i = Len(ps) + 1
      BY <2>5, <2>6, <3>2
    <3> QED
      BY <2>5, <3>1, <3>2
  <2>8. Len(q) = row.ver - 1
    BY <2>2, <2>3, <2>5, <2>6
  <2> QED
    BY <1>4, <1>8, <2>3, <2>4, <2>7, <2>8
<1> QED
  BY <1>2, <1>5, <1>6, <1>7, <1>8

LEMMA NewBorn ==
  ASSUME SkillInv, NEW row \in RowRec, NEW s \in SkillId, s = row.id, StoredAs(row), Writes(row) \/ Adds(row)
  PROVE  Born' = Born \cup {s} /\ \E n \in 0 .. MaxSkills : (Born = 1 .. n)'
<1>1. PICK n \in 0 .. MaxSkills : Born = 1 .. n
  BY DEF SkillInv
<1>2. Born' = Born \cup {s}
  <2>1. skill'[s].id = s /\ s # 0 /\ \A o \in SkillId \ {s} : skill'[o] = skill[o]
    BY SkillAssumption DEF StoredAs, SkillId
  <2> QED
    BY <2>1 DEF Born
<1>3. CASE s \in Born
  BY <1>1, <1>2, <1>3
<1>4. CASE s \notin Born
  <2>1. ~Alive(s)
    BY <1>4, SkillAlive
  <2>2. s = Cardinality(Born) + 1
    BY <1>4, <2>1 DEF Writes, Adds
  <2>3. n \in Nat /\ Cardinality(1 .. n) = n
    <3>1. n \in Nat
      BY SkillAssumption
    <3> QED
      BY <3>1, FS_Interval
  <2>4. Born' = 1 .. n + 1 /\ n + 1 \in 0 .. MaxSkills
    BY <1>1, <1>2, <2>2, <2>3, SkillAssumption DEF SkillId
  <2> QED
    BY <1>2, <2>4
<1> QED
  BY <1>3, <1>4

LEMMA Written ==
  ASSUME SkillInv, SkillTypes', NEW t \in Tx, TxAt(t, "commit"), Stored(t), UNCHANGED <<objs, wish>>, mutex' = NoOwner,
         NEW pc \in {"sweep", "answer", "unwind"}, NEW up, TxTo(t, pc, tx[t].req, tx[t].row, up),
         doubt \subseteq doubt', up \subseteq tx[t].up,
         pc = "unwind" => up \subseteq doubt',
         pc # "unwind" => up = {} /\ doubt' = doubt,
         pc = "sweep" => tx[t].row.ver = 0,
         mishaps' = 0 => mishaps = 0 /\ pc # "unwind" /\ (tx[t].row.ver = 0 => pc = "sweep")
  PROVE  SkillInv'
<1>1. PICK row \in RowRec : row = tx[t].row
  BY SkillKnown
<1>2. PICK s \in SkillId : s = row.id
  BY <1>1, SkillKnown DEF TxAt, TxGood
<1>3. Writes(row) \/ Adds(row)
  BY <1>1, SkillKnown DEF TxAt, TxGood
<1>4. StoredAs(row)
  BY <1>1, StoredIs
<1>5. /\ \A v \in Versions(s)' : (\E w \in Versions(s) : w.key = v.key /\ w.files = v.files) \/ (v = row /\ Adds(row))
      /\ \A o \in SkillId \ {s} : Versions(o)' = Versions(o)
      /\ row.ver # 0 => \A v \in Versions(s) : \E w \in Versions(s)' : w.key = v.key
      /\ row.ver = 0 => Versions(s)' = {}
      /\ Adds(row) => row \in Versions(s)'
  BY <1>1, <1>2, NewVersions
<1>6. /\ row.ver = 0 => past'[s] = <<>>
      /\ row.ver > 0 => Len(past'[s]) = row.ver - 1 /\ Tested(row)
      /\ \A i \in DOMAIN past'[s] : past'[s][i].ver = i
  BY <1>2, <1>3, <1>4, NewHistory
<1>7. Born' = Born \cup {s} /\ \E n \in 0 .. MaxSkills : (Born = 1 .. n)'
  BY <1>2, <1>3, <1>4, NewBorn
<1>8. /\ skill'[s] = row /\ row.ver \in Nat
      /\ \A o \in SkillId \ {s} : skill'[o] = skill[o] /\ past'[o] = past[o]
  BY <1>2, <1>4 DEF StoredAs, RowRec
<1>9. /\ mutex = t /\ tx[t].req \in Req /\ wish[tx[t].req] \in Wishes
      /\ wish[tx[t].req].by = "agent" => tx[t].req \notin receipt
      /\ \/ Writes(row) /\ tx[t].up = {}
         \/ Adds(row) /\ row.key = NoKey /\ tx[t].up = {}
         \/ Adds(row) /\ row.key = NewKey(t) /\ tx[t].up = {NewKey(t)} /\ Present(row)
      /\ \A o \in SkillId : \A v \in Versions(o) : v.key # NoKey => v.key[3] # t
      /\ \A key \in tx[t].up : key[3] = t
  BY <1>1, SkillKnown DEF TxAt, TxGood
<1>10. NewKey(t) \in Stamp /\ NewKey(t)[1] = s /\ NewKey(t)[3] = t /\ NewKey(t) # NoKey
  BY <1>1, <1>2, <1>8 DEF NewKey, Stamp, NoKey
<1>11. Adds(row) => row.key = NoKey \/ (row.key = NewKey(t) /\ tx[t].up = {NewKey(t)} /\ Present(row))
  <2>1. ~(Writes(row) /\ Adds(row))
    <3> SUFFICES ASSUME Writes(row), Adds(row) PROVE FALSE
      OBVIOUS
    <3>1. Alive(s) /\ (row.ver = 0 \/ row.ver = skill[s].ver)
      BY <1>2 DEF Writes
    <3>2. s \in Born /\ skill[s].ver \in Nat
      BY <3>1, SkillAlive, SkillKnown
    <3> QED
      BY <1>2, <3>1, <3>2 DEF Adds
  <2> QED
    BY <1>9, <2>1
<1>12. \A v : Present(v)' <=> Present(v)
  BY DEF Present
<1>13. ASSUME NEW o \in SkillId PROVE SkillGood(o)'
  <2>1. SkillGood(o)
    BY SkillKnown
  <2>2. CASE o # s
    BY <1>5, <1>8, <1>12, <2>1, <2>2 DEF SkillGood, Alive
  <2>3. CASE o = s
    <3>1. skill'[s].id = s /\ s # 0
      BY <1>2, <1>8, SkillAssumption DEF SkillId
    <3>2. \A v \in Versions(s)' : v.key # NoKey => v.key \in Stamp /\ v.key[1] = s /\ (v.key \in doubt' \/ Present(v)')
      <4> SUFFICES ASSUME NEW v \in Versions(s)', v.key # NoKey
                   PROVE  v.key \in Stamp /\ v.key[1] = s /\ (v.key \in doubt' \/ Present(v)')
        OBVIOUS
      <4>1. ASSUME NEW w \in Versions(s), w.key = v.key, w.files = v.files
            PROVE  v.key \in Stamp /\ v.key[1] = s /\ (v.key \in doubt' \/ Present(v)')
        <5>1. w.key \in Stamp /\ w.key[1] = s /\ (w.key \in doubt \/ Present(w))
          BY <2>1, <2>3, <4>1 DEF SkillGood
        <5>2. Present(w) => Present(v)'
          BY <4>1 DEF Present
        <5> QED
          BY <4>1, <5>1, <5>2
      <4>2. CASE v = row /\ Adds(row)
        BY <1>10, <1>11, <1>12, <4>2
      <4> QED
        BY <1>5, <4>1, <4>2
    <3> QED
      BY <1>6, <1>8, <2>3, <3>1, <3>2 DEF SkillGood, Alive
  <2> QED
    BY <2>2, <2>3
<1>14. ASSUME NEW a \in SkillId, NEW b \in SkillId, Alive(a)', Alive(b)', skill'[a].name = skill'[b].name PROVE a = b
  <2>1. ASSUME NEW o \in SkillId, o # s, Alive(o)', Alive(s)' PROVE skill'[o].name # skill'[s].name
    <3>1. Alive(o) /\ skill'[o] = skill[o] /\ row.ver # 0
      BY <1>8, <2>1 DEF Alive
    <3>2. CASE Adds(row)
      BY <1>2, <1>8, <2>1, <3>1, <3>2 DEF Adds
    <3>3. CASE Writes(row)
      <4>1. Alive(s) /\ row.name = skill[s].name
        BY <1>2, <3>1, <3>3 DEF Writes
      <4> QED
        BY <1>8, <2>1, <3>1, <4>1 DEF SkillInv
    <3> QED
      BY <1>3, <3>2, <3>3
  <2>2. CASE a # s /\ b # s
    BY <1>8, <1>14, <2>2 DEF SkillInv, Alive
  <2> QED
    BY <1>14, <2>1, <2>2
<1>15. ASSUME NEW u \in Tx \ {t}
       PROVE  \A o \in SkillId : \A v \in Versions(o)' :
                (\E w \in Versions(o) : w.key = v.key) \/ v.key = NoKey \/ v.key[3] = t
  BY <1>5, <1>10, <1>11
<1>16. ASSUME NEW u \in Tx, u # t PROVE TxGood(u)'
  <2>1. TxGood(u) /\ tx'[u] = tx[u] /\ tx[u].row \in RowRec
    BY <1>16, SkillKnown DEF TxTo
  <2>2. PICK r \in RowRec : r = tx[u].row
    BY <2>1
  <2>3. PICK pc2, up2, req : pc2 = tx[u].pc /\ up2 = tx[u].up /\ req = tx[u].req
    OBVIOUS
  <2>4. PICK w : w = wish[req]
    OBVIOUS
  <2>5. pc2 \notin {"work", "upload", "commit"}
    BY <1>9, <1>16, <2>1, <2>3 DEF TxGood
  <2>6. \A key \in up2 : key[3] = u /\ (key \in doubt' \/ \A o \in SkillId : \A v \in Versions(o)' : v.key # key)
    <3> SUFFICES ASSUME NEW key \in up2, key \notin doubt', NEW o \in SkillId, NEW v \in Versions(o)', v.key = key
                 PROVE  FALSE
      BY <2>1, <2>3 DEF TxGood
    <3>1. key[3] = u /\ \A x \in SkillId : \A y \in Versions(x) : y.key # key
      BY <2>1, <2>3 DEF TxGood
    <3>2. key # NoKey
      <4>1. up2 \subseteq Stamp
        BY <2>3, SkillKnown
      <4> QED
        BY <4>1, StampIs
    <3> QED
      BY <1>15, <1>16, <3>1, <3>2
  <2>7. pc2 = "sweep" => r.id \in Born' /\ ~Alive(r.id)'
    <3> SUFFICES ASSUME pc2 = "sweep" PROVE r.id \in Born' /\ ~Alive(r.id)'
      OBVIOUS
    <3>1. r.id \in SkillId /\ r.id \in Born /\ ~Alive(r.id)
      BY <2>1, <2>2, <2>3 DEF TxGood
    <3>2. r.id # s
      BY <1>2, <1>3, <3>1 DEF Writes, Adds
    <3> QED
      BY <1>7, <1>8, <3>1, <3>2 DEF Alive
  <2>8. pc2 \in {"deploy", "lock"} /\ w.op = "verify" => Viewed(r, w.id)'
    <3> SUFFICES ASSUME pc2 \in {"deploy", "lock"}, w.op = "verify" PROVE Viewed(r, w.id)'
      OBVIOUS
    <3>0. Viewed(r, w.id)
      BY <2>1, <2>2, <2>3, <2>4 DEF TxGood
    <3>1. Viewed(r, w.id) /\ w.id \in SkillId /\ r.ver \in Nat
      BY <3>0 DEF Viewed, Born, RowRec
    <3>2. PICK x \in SkillId : x = w.id
      BY <3>1
    <3>3. CASE x # s
      BY <1>7, <1>8, <3>1, <3>2, <3>3 DEF Viewed
    <3>4. CASE x = s /\ Writes(row)
      BY <1>2, <1>7, <1>8, <3>1, <3>2, <3>4 DEF Viewed, Writes
    <3>5. CASE x = s /\ Adds(row)
      <4>1. Alive(s) /\ row.ver = skill[s].ver + 1
        BY <1>2, <3>1, <3>2, <3>5 DEF Adds, Viewed
      <4>2. skill[s].ver \in Nat /\ skill[s].ver > 0
        BY <4>1, SkillAlive, SkillKnown
      <4>3. r.ver <= skill[s].ver /\ r.ver > 0 /\ s \in Born
        BY <3>1, <3>2, <3>5, <4>2 DEF Viewed
      <4>4. r.ver < row.ver /\ row.ver > 0 /\ s \in Born'
        BY <1>7, <3>1, <4>1, <4>2, <4>3
      <4> QED
        BY <1>8, <3>1, <3>2, <3>5, <4>3, <4>4 DEF Viewed
    <3> QED
      BY <1>3, <3>3, <3>4, <3>5
  <2>9. pc2 \in {"new", "view", "deploy", "lock"} => \A o \in SkillId : \A v \in Versions(o)' : v.key # NoKey => v.key[3] # u
    <3>1. pc2 \in {"new", "view", "deploy", "lock"} => \A o \in SkillId : \A v \in Versions(o) : v.key # NoKey => v.key[3] # u
      BY <2>1, <2>3 DEF TxGood
    <3> QED
      BY <1>15, <1>16, <3>1
  <2> QED
    BY <2>1, <2>2, <2>3, <2>4, <2>5, <2>6, <2>7, <2>8, <2>9 DEF TxGood
<1>17. TxGood(t)'
  <2>1. /\ tx'[t].pc = pc /\ tx'[t].req = tx[t].req /\ tx'[t].row = row /\ tx'[t].up = up
    BY <1>1 DEF TxTo
  <2>2. \A key \in up : key[3] = t /\ key \in doubt'
    BY <1>9
  <2>3. pc = "sweep" => row.id \in SkillId /\ row.id \in Born' /\ ~Alive(row.id)'
    BY <1>1, <1>2, <1>7, <1>8 DEF Alive
  <2>4. tx[t].req \in Req /\ wish'[tx[t].req] \in Wishes
    BY <1>9
  <2> QED
    BY <2>1, <2>2, <2>3, <2>4 DEF TxGood
<1>18. ASSUME NEW r \in Req PROVE RequestGood(r)'
  <2>1. RequestGood(r) /\ applied \in [Req -> Nat]
    BY DEF SkillInv, SkillTypes
  <2>2. PICK req \in Req : req = tx[t].req
    BY <1>9
  <2>3. PICK n \in Nat : applied' = [applied EXCEPT ![req] = n] /\ n <= applied[req] + 1
    <3>1. PICK n : n = IF tx[t].row = skill[tx[t].row.id] \/ Wish(t).op = "verify" THEN applied[req] ELSE applied[req] + 1
      OBVIOUS
    <3>2. n \in Nat /\ n <= applied[req] + 1
      BY <2>1, <3>1
    <3>3. applied' = [applied EXCEPT ![req] = n]
      BY <2>2, <3>1 DEF Stored
    <3> QED
      BY <3>2, <3>3
  <2>4. receipt' = IF wish[req].by = "agent" THEN receipt \cup {req} ELSE receipt
    BY <2>2 DEF Stored, Wish
  <2>5. CASE r # req
    BY <2>1, <2>3, <2>4, <2>5 DEF RequestGood
  <2>6. CASE r = req
    <3>1. wish[r] \in Wishes /\ (wish[r].by = "agent" => applied[r] = 0 /\ r \in receipt')
      BY <1>9, <2>1, <2>2, <2>4, <2>6 DEF RequestGood
    <3>2. applied'[r] = n /\ n <= applied[r] + 1
      BY <2>1, <2>3, <2>6
    <3> QED
      BY <3>1, <3>2 DEF RequestGood
  <2> QED
    BY <2>5, <2>6
<1>19. mishaps' = 0 => \A o \in objs' : Tracked(o)'
  <2> SUFFICES ASSUME mishaps' = 0, NEW o \in objs PROVE Tracked(o)'
    OBVIOUS
  <2>1. Tracked(o)
    BY DEF SkillInv
  <2>2. CASE \E x \in SkillId : \E v \in Versions(x) : v.key = o.key
    <3>0. PICK x \in SkillId : \E v \in Versions(x) : v.key = o.key
      BY <2>2
    <3>1. PICK v \in Versions(x) : v.key = o.key
      BY <3>0
    <3>2. CASE x # s \/ row.ver # 0
      <4>1. \E w \in Versions(x)' : w.key = o.key
        BY <1>5, <3>1, <3>2
      <4> QED
        BY <4>1 DEF Tracked
    <3>3. CASE x = s /\ row.ver = 0
      <4>1. v.key # NoKey
        BY <3>1, StampIs DEF SkillInv, SkillTypes, ObjRec
      <4>2. o.key[1] = s
        BY <3>1, <3>3, <4>1, SkillKnown DEF SkillGood
      <4>3. tx'[t].pc = "sweep" /\ tx'[t].row = row
        BY <1>1, <3>3 DEF TxTo
      <4> QED
        BY <1>2, <4>2, <4>3 DEF Tracked, TxAt
    <3> QED
      BY <3>2, <3>3
  <2>3. ASSUME NEW u \in Tx, o.key \in tx[u].up \/ (TxAt(u, "sweep") /\ tx[u].row.id = o.key[1]) PROVE Tracked(o)'
    <3>1. CASE u # t
      <4>1. tx'[u] = tx[u]
        BY <3>1 DEF TxTo
      <4> QED
        BY <2>3, <4>1 DEF Tracked, TxAt
    <3>2. CASE u = t
      <4>1. tx[t].up # {} /\ o.key \in tx[t].up
        BY <2>3, <3>2 DEF TxAt
      <4>2. Adds(row) /\ row.key = o.key
        BY <1>9, <4>1
      <4>3. row \in Versions(s)'
        BY <1>5, <4>2
      <4> QED
        BY <4>2, <4>3 DEF Tracked
    <3> QED
      BY <3>1, <3>2
  <2> QED
    BY <2>1, <2>2, <2>3 DEF Tracked
<1> QED
  BY <1>7, <1>13, <1>14, <1>16, <1>17, <1>18, <1>19 DEF SkillInv

-----------------------------------------------------------------------------
(* The steps.                                                                  *)

LEMMA OverGood ==
  ASSUME NEW t \in Tx, TxTo(t, "over", NoOwner, Nothing, {})
  PROVE  TxGood(t)'
BY DEF TxTo, TxGood

LEMMA Released ==
  ASSUME SkillInv, NEW t \in Tx, Release(t)
  PROVE  mutex' \in Tx \cup {NoOwner} /\ (mutex \notin {t, NoOwner} => mutex' = mutex)
BY DEF Release, SkillInv, SkillTypes

(* Only the transaction moves, and perhaps the lock.                           *)
LEMMA Quiet ==
  ASSUME SkillInv, NEW t \in Tx, UNCHANGED <<db, objs, wish, doubt>>,
         NEW pc, NEW req, NEW row, NEW up, TxTo(t, pc, req, row, up),
         mutex' \in Tx \cup {NoOwner}, mutex \notin {t, NoOwner} => mutex' = mutex,
         mishaps' \in Nat, mishaps' = 0 => mishaps = 0 /\ tx[t].pc # "sweep" /\ tx[t].up \subseteq up,
         TxGood(t)'
  PROVE  SkillInv'
<1>1. SkillTypes'
  BY DEF SkillInv, SkillTypes, TxTo, db
<1>2. UNCHANGED <<skill, past, receipt, applied, doubt, objs, wish>>
  BY DEF db
<1>3. \A u \in Tx \ {t} : tx'[u] = tx[u]
  BY DEF TxTo
<1>4. tx'[t].up = up
  BY DEF TxTo
<1>5. objs \ objs' = {}
  BY <1>2
<1>6. mishaps' = 0 => \A o \in objs' : \/ o \notin objs /\ o.key \in tx'[t].up
                                       \/ o \in objs /\ (o.key \in tx[t].up => o.key \in tx'[t].up)
  BY <1>2, <1>4
<1>7. mishaps' = 0 /\ TxAt(t, "sweep") => \A o \in objs' : tx[t].row.id # o.key[1]
  BY DEF TxAt
<1> QED
  BY <1>1, <1>2, <1>3, <1>5, <1>6, <1>7, Aside

LEMMA Ends ==
  ASSUME SkillInv, NEW t \in Tx, UNCHANGED <<db, objs, wish, doubt>>, Over(t),
         mutex' \in Tx \cup {NoOwner}, mutex \notin {t, NoOwner} => mutex' = mutex,
         mishaps' \in Nat, mishaps' = 0 => mishaps = 0 /\ tx[t].pc # "sweep" /\ tx[t].up = {}
  PROVE  SkillInv'
<1>1. TxTo(t, "over", NoOwner, Nothing, {})
  BY SkillKnown, TxOver
<1>2. TxGood(t)'
  BY <1>1, OverGood
<1>3. mishaps' = 0 => mishaps = 0 /\ tx[t].pc # "sweep" /\ tx[t].up \subseteq {}
  OBVIOUS
<1> QED
  BY <1>1, <1>2, <1>3, Quiet

LEMMA MutexStays ==
  ASSUME SkillInv, UNCHANGED mutex
  PROVE  mutex' \in Tx \cup {NoOwner}
BY DEF SkillInv, SkillTypes

LEMMA MishapsStay ==
  ASSUME SkillInv
  PROVE  mishaps \in Nat /\ (UNCHANGED mishaps => mishaps' \in Nat) /\ (Mishap => mishaps' \in Nat /\ mishaps' # 0)
BY DEF SkillInv, SkillTypes, Mishap

(* What a transaction that has not written knows of itself.                    *)
LEMMA Untouched ==
  ASSUME SkillInv, UNCHANGED <<skill, past>>, NEW t \in Tx
  PROVE  /\ tx[t].pc \in {"new", "view", "deploy", "lock", "work", "upload", "commit"} =>
              (\A s \in SkillId : \A v \in Versions(s)' : v.key # NoKey => v.key[3] # t)
         /\ \A key \in tx[t].up : key[3] = t /\ (key \in doubt \/ \A s \in SkillId : \A v \in Versions(s)' : v.key # key)
         /\ \A r, s : Viewed(r, s) => Viewed(r, s)'
<1>1. TxGood(t)
  BY SkillKnown
<1>2. Born' = Born /\ \A s \in SkillId : Versions(s)' = Versions(s)
  BY SameVersions
<1> QED
  BY <1>1, <1>2 DEF TxGood, Viewed

LEMMA AskKeeps ==
  ASSUME SkillInv, NEW t \in Tx, NEW r \in Req, Ask(t, r)
  PROVE  SkillInv'
<1>1. PICK pc : pc = IF wish'[r].op = "verify" THEN "view" ELSE "lock"
  OBVIOUS
<1>2. pc \in {"view", "lock"} /\ (pc = "lock" => wish'[r].op # "verify")
  BY <1>1
<1>3. tx' = [tx EXCEPT ![t].pc = pc, ![t].req = r] /\ tx[t].pc = "new"
  BY <1>1 DEF Ask, TxAt
<1>4. tx \in [Tx -> TxRec] /\ tx[t] \in TxRec
  BY SkillKnown
<1>5. PICK x : x = [tx[t] EXCEPT !.pc = pc, !.req = r]
  OBVIOUS
<1>6. r \in Someone
  BY DEF Someone
<1>7. x \in TxRec /\ x.pc = pc /\ x.req = r /\ x.row = tx[t].row /\ x.up = tx[t].up
  BY ONLY <1>2, <1>4, <1>5, <1>6 DEF TxRec
<1>8. TxTo(t, pc, r, tx[t].row, tx[t].up)
  BY <1>3, <1>4, <1>5, <1>7, NewTx DEF TxTo
<1>9. wish \in [Req -> Wishes \cup {Unasked}]
  BY DEF SkillInv, SkillTypes
<1>10. wish' \in [Req -> Wishes \cup {Unasked}] /\ wish'[r] \in Wishes /\ \A q \in Req : wish[q] \in Wishes => wish'[q] = wish[q]
  <2>1. CASE wish[r].op = "none"
    <3>1. PICK w \in Wishes : wish' = [wish EXCEPT ![r] = w]
      BY <2>1 DEF Ask
    <3>2. wish[r] \notin Wishes
      BY <2>1, WishIs
    <3> QED
      BY <1>9, <3>1, <3>2
  <2>2. CASE wish[r].op # "none"
    <3>1. wish[r] \in Wishes
      BY <1>9, <2>2, UnaskedIs
    <3> QED
      BY <1>9, <2>2, <3>1 DEF Ask
  <2> QED
    BY <2>1, <2>2
<1>11. UNCHANGED <<skill, past, receipt, applied, doubt, objs, mutex, mishaps>>
  BY DEF Ask, db
<1>12. SkillTypes'
  BY <1>8, <1>10, <1>11 DEF SkillInv, SkillTypes, TxTo
<1>13. tx[t].up = {}
  BY <1>3, SkillKnown DEF TxGood
<1>14. \A s \in SkillId : \A v \in Versions(s)' : v.key # NoKey => v.key[3] # t
  BY <1>3, <1>11, Untouched
<1>15. tx'[t].pc = pc /\ tx'[t].req = r /\ tx'[t].up = {}
  BY <1>8, <1>13 DEF TxTo
<1>16. TxGood(t)'
  BY <1>2, <1>10, <1>14, <1>15 DEF TxGood
<1>17. \A u \in Tx \ {t} : tx'[u] = tx[u]
  BY <1>8 DEF TxTo
<1>18. mishaps' = 0 => \A o \in objs' : \/ o \notin objs /\ o.key \in tx'[t].up
                                        \/ o \in objs /\ (o.key \in tx[t].up => o.key \in tx'[t].up)
  BY <1>11, <1>13
<1>19. mishaps' = 0 /\ TxAt(t, "sweep") => \A o \in objs' : tx[t].row.id # o.key[1]
  BY <1>3 DEF TxAt
<1> QED
  BY <1>10, <1>11, <1>12, <1>16, <1>17, <1>18, <1>19, Aside

LEMMA AcquireKeeps ==
  ASSUME SkillInv, NEW t \in Tx, Acquire(t)
  PROVE  SkillInv'
<1>1. /\ tx[t].pc = "lock" /\ mutex = NoOwner /\ mutex' = t /\ Step(t, "work")
      /\ UNCHANGED <<db, objs, wish, doubt, mishaps, skill, past>>
  BY DEF Acquire, TxAt, Locked, db
<1>2. TxTo(t, "work", tx[t].req, tx[t].row, tx[t].up)
  BY <1>1, SkillKnown, TxStep DEF Steps
<1>3. TxGood(t) /\ tx[t].up = {}
  BY <1>1, SkillKnown DEF TxGood
<1>4. PICK x : x = tx[t]
  OBVIOUS
<1>5. tx'[t].pc = "work" /\ tx'[t].req = x.req /\ tx'[t].row = x.row /\ tx'[t].up = {}
  BY <1>2, <1>3, <1>4 DEF TxTo
<1>6. /\ x.req \in Req /\ wish[x.req] \in Wishes
      /\ wish[x.req].op = "verify" => Viewed(x.row, wish[x.req].id)
  BY <1>1, <1>3, <1>4 DEF TxGood
<1>7. wish[x.req].op = "verify" => Viewed(x.row, wish[x.req].id)'
  BY <1>1, <1>6, Untouched
<1>8. \A s \in SkillId : \A v \in Versions(s)' : v.key # NoKey => v.key[3] # t
  BY <1>1, Untouched
<1>9. TxGood(t)'
  BY <1>1, <1>5, <1>6, <1>7, <1>8 DEF TxGood
<1>10. mishaps' \in Nat
  BY <1>1, MishapsStay
<1> QED
  BY <1>1, <1>2, <1>9, <1>10, Quiet

LEMMA RefusedKeeps ==
  ASSUME SkillInv, NEW t \in Tx, Refused(t)
  PROVE  SkillInv'
<1>1. tx[t].pc = "lock" /\ Over(t) /\ UNCHANGED <<db, objs, wish, mutex, doubt, mishaps>>
  BY DEF Refused, TxAt
<1>2. tx[t].up = {}
  BY <1>1, SkillKnown DEF TxGood
<1> QED
  BY <1>1, <1>2, Ends, MishapsStay, MutexStays

LEMMA ViewSkillKeeps ==
  ASSUME SkillInv, NEW t \in Tx, ViewSkill(t)
  PROVE  SkillInv'
<1>1. tx[t].pc = "view" /\ UNCHANGED <<db, objs, wish, mutex, doubt, mishaps, skill, past>>
  BY DEF ViewSkill, TxAt, db
<1>2. TxGood(t) /\ tx[t].up = {}
  BY <1>1, SkillKnown DEF TxGood
<1>3. mishaps' \in Nat /\ mutex' \in Tx \cup {NoOwner}
  BY <1>1, MishapsStay, MutexStays
<1>4. CASE Over(t)
  BY <1>1, <1>2, <1>3, <1>4, Ends
<1>5. CASE ~Over(t)
  <2>1. Alive(Wish(t).id) /\ tx' = [tx EXCEPT ![t].pc = "deploy", ![t].row = skill[Wish(t).id]]
    BY <1>5 DEF ViewSkill
  <2>2. PICK s \in SkillId : s = Wish(t).id
    BY <2>1 DEF Alive
  <2>3. PICK row \in RowRec : row = skill[s]
    BY SkillKnown
  <2>4. TxTo(t, "deploy", tx[t].req, row, tx[t].up)
    BY <2>1, <2>2, <2>3, SkillKnown, TxRow DEF Steps
  <2>5. PICK req : req = tx[t].req
    OBVIOUS
  <2>6. tx'[t].pc = "deploy" /\ tx'[t].req = req /\ tx'[t].row = row /\ tx'[t].up = {}
    BY <1>2, <2>4, <2>5 DEF TxTo
  <2>7. req \in Req /\ wish'[req] \in Wishes /\ wish'[req].id = s
    BY <1>1, <1>2, <2>2, <2>5 DEF TxGood, Wish
  <2>8. Viewed(row, s)
    BY <2>1, <2>2, <2>3, SkillAlive, SkillKnown DEF Viewed
  <2>9. Viewed(row, s)'
    BY <1>1, <2>8, Untouched
  <2>10. \A x \in SkillId : \A v \in Versions(x)' : v.key # NoKey => v.key[3] # t
    BY <1>1, Untouched
  <2>11. TxGood(t)'
    BY <2>6, <2>7, <2>9, <2>10 DEF TxGood
  <2> QED
    BY <1>1, <1>2, <1>3, <2>4, <2>11, Quiet
<1> QED
  BY <1>4, <1>5

LEMMA DeployKeeps ==
  ASSUME SkillInv, NEW t \in Tx, Deploy(t)
  PROVE  SkillInv'
<1>1. tx[t].pc = "deploy" /\ UNCHANGED <<db, objs, wish, mutex, doubt, mishaps, skill, past>>
  BY DEF Deploy, TxAt, db
<1>2. TxGood(t) /\ tx[t].up = {}
  BY <1>1, SkillKnown DEF TxGood
<1>3. mishaps' \in Nat /\ mutex' \in Tx \cup {NoOwner}
  BY <1>1, MishapsStay, MutexStays
<1>4. CASE Over(t)
  BY <1>1, <1>2, <1>3, <1>4, Ends
<1>5. CASE Step(t, "lock")
  <2>1. TxTo(t, "lock", tx[t].req, tx[t].row, tx[t].up)
    BY <1>5, SkillKnown, TxStep DEF Steps
  <2>2. PICK x : x = tx[t]
    OBVIOUS
  <2>3. tx'[t].pc = "lock" /\ tx'[t].req = x.req /\ tx'[t].row = x.row /\ tx'[t].up = {}
    BY <1>2, <2>1, <2>2 DEF TxTo
  <2>4. /\ x.req \in Req /\ wish[x.req] \in Wishes
        /\ wish[x.req].op = "verify" => Viewed(x.row, wish[x.req].id)
    BY <1>1, <1>2, <2>2 DEF TxGood
  <2>5. wish[x.req].op = "verify" => Viewed(x.row, wish[x.req].id)'
    BY <1>1, <2>4, Untouched
  <2>6. \A s \in SkillId : \A v \in Versions(s)' : v.key # NoKey => v.key[3] # t
    BY <1>1, Untouched
  <2>7. TxGood(t)'
    BY <1>1, <2>3, <2>4, <2>5, <2>6 DEF TxGood
  <2> QED
    BY <1>1, <1>2, <1>3, <2>1, <2>7, Quiet
<1> QED
  BY <1>4, <1>5 DEF Deploy

LEMMA WorkKeeps ==
  ASSUME SkillInv, NEW t \in Tx, Work(t)
  PROVE  SkillInv'
<1>1. tx[t].pc = "work" /\ UNCHANGED <<db, objs, wish, doubt, mishaps, skill, past, receipt>>
  BY DEF Work, TxAt, db
<1>2. TxGood(t) /\ tx[t].up = {} /\ mutex = t /\ tx[t].req \in Req /\ wish[tx[t].req] \in Wishes
  BY <1>1, SkillKnown DEF TxGood
<1>3. mishaps' \in Nat
  BY <1>1, MishapsStay
<1>4. CASE Known(t) \/ Targets(t) = {}
  <2>1. Over(t) /\ Release(t)
    BY <1>4 DEF Work
  <2> QED
    BY <1>1, <1>2, <1>3, <2>1, Ends, Released
<1>5. CASE ~(Known(t) \/ Targets(t) = {})
  <2>1. PICK row \in Targets(t) :
          tx' = [tx EXCEPT ![t].row = row,
                         ![t].pc = IF row.ver \notin {0, skill[row.id].ver} THEN "upload" ELSE "commit"]
    BY <1>5 DEF Work
  <2>2. mutex' = mutex
    BY <1>5 DEF Work
  <2>3. /\ row \in RowRec /\ row.id \in SkillId
        /\ IF row.ver \notin {0, skill[row.id].ver} THEN Adds(row) ELSE Writes(row)
    BY <1>1, TargetRows DEF TxAt
  <2>4. PICK pc : pc = IF row.ver \notin {0, skill[row.id].ver} THEN "upload" ELSE "commit"
    OBVIOUS
  <2>5. pc \in Steps /\ pc \in {"upload", "commit"} /\ (pc = "upload" => Adds(row)) /\ (pc = "commit" => Writes(row))
    BY <2>3, <2>4 DEF Steps
  <2>6. tx' = [tx EXCEPT ![t].pc = pc, ![t].row = row]
    <3>1. PICK x \in TxRec : x = tx[t]
      BY SkillKnown
    <3>2. [x EXCEPT !.row = row, !.pc = pc] = [x EXCEPT !.pc = pc, !.row = row]
      BY ONLY x \in TxRec DEF TxRec
    <3> QED
      BY <2>1, <2>4, <3>1, <3>2
  <2>7. TxTo(t, pc, tx[t].req, row, tx[t].up)
    BY <2>3, <2>5, <2>6, SkillKnown, TxRow
  <2>8. PICK req \in Req : req = tx[t].req
    BY <1>2
  <2>9. tx'[t].pc = pc /\ tx'[t].req = req /\ tx'[t].row = row /\ tx'[t].up = {}
    BY <1>2, <2>7, <2>8 DEF TxTo
  <2>10. wish[req].by = "agent" => req \notin receipt
    BY <1>5, <2>8 DEF Known, Wish
  <2>11. (Writes(row) => Writes(row)') /\ (Adds(row) => Adds(row)')
    BY <1>1, <2>3, SamePending
  <2>12. \A s \in SkillId : \A v \in Versions(s)' : v.key # NoKey => v.key[3] # t
    BY <1>1, Untouched
  <2>13. mutex' = t /\ wish'[req] \in Wishes
    BY <1>1, <1>2, <2>2, <2>8
  <2>14. wish'[req].by = "agent" => req \notin receipt'
    BY <1>1, <2>10
  <2>15. (pc = "upload" => Adds(row)') /\ (pc = "commit" => Writes(row)')
    BY <2>5, <2>11
  <2>16. TxGood(t)'
    BY <2>3, <2>5, <2>9, <2>12, <2>13, <2>14, <2>15 DEF TxGood
  <2>17. mutex' \in Tx \cup {NoOwner}
    BY <2>13
  <2> QED
    BY <1>1, <1>2, <1>3, <2>2, <2>7, <2>16, <2>17, Quiet
<1> QED
  BY <1>4, <1>5

(* A row to be added, with or without the key of its package.                  *)
LEMMA KeyedAdds ==
  ASSUME SkillInv, UNCHANGED <<skill, past>>, NEW r \in RowRec, r.id \in SkillId, Adds(r), NEW key \in Key
  PROVE  Adds(Keyed(r, key)) /\ Adds(Keyed(r, key))'
<1>1. PICK k \in RowRec : k = Keyed(r, key)
  BY KeyedIs
<1>2. k.id = r.id /\ k.name = r.name /\ k.ver = r.ver /\ k.body = r.body /\ k.files = r.files /\ k.check = r.check
  BY <1>1, KeyedIs
<1>3. Adds(k)
  BY <1>2 DEF Adds, Tested
<1>4. Adds(k)'
  BY <1>2, <1>3, SamePending
<1> QED
  BY <1>1, <1>3, <1>4

LEMMA UploadKeeps ==
  ASSUME SkillInv, NEW t \in Tx, Upload(t)
  PROVE  SkillInv'
<1>1. tx[t].pc = "upload" /\ UNCHANGED <<db, wish, mutex, doubt, mishaps, skill, past, receipt, applied>>
  BY DEF Upload, TxAt, db
<1>2. /\ TxGood(t) /\ tx[t].up = {} /\ mutex = t /\ tx[t].req \in Req /\ wish[tx[t].req] \in Wishes
      /\ Adds(tx[t].row) /\ tx[t].row.id \in SkillId
      /\ wish[tx[t].req].by = "agent" => tx[t].req \notin receipt
  BY <1>1, SkillKnown DEF TxGood
<1>3. PICK row \in RowRec : row = tx[t].row
  BY SkillKnown
<1>4. PICK key : key = NewKey(t)
  OBVIOUS
<1>5. key = <<row.id, row.ver, t>> /\ key \in Stamp /\ row.ver \in Nat
  BY <1>2, <1>3, <1>4 DEF NewKey, Stamp, RowRec
<1>6. key \in Key /\ key # NoKey /\ key[3] = t
  BY <1>5, StampIs
<1>7. objs' = {o \in objs : o.key # key} \cup {[key |-> key, files |-> row.files]}
  BY <1>3, <1>4 DEF Upload
<1>8. {key} \in SUBSET Stamp
  BY <1>5
<1>9. TxTo(t, "commit", tx[t].req, Keyed(row, key), {key})
  BY <1>3, <1>4, <1>6, <1>8, SkillKnown, TxKey DEF Upload
<1>10. PICK k \in RowRec : k = Keyed(row, key)
  BY <1>6, KeyedIs
<1>11. k.id = row.id /\ k.ver = row.ver /\ k.key = key /\ k.files = row.files
  BY <1>6, <1>10, KeyedIs
<1>12. PICK req \in Req : req = tx[t].req
  BY <1>2
<1>13. tx'[t].pc = "commit" /\ tx'[t].req = req /\ tx'[t].row = k /\ tx'[t].up = {key}
  BY <1>9, <1>10, <1>12 DEF TxTo
<1>14. Adds(k)'
  BY <1>1, <1>2, <1>3, <1>6, <1>10, KeyedAdds
<1>15. NewKey(t)' = key
  BY <1>5, <1>11, <1>13 DEF NewKey
<1>16. Present(k)'
  BY <1>7, <1>11 DEF Present
<1>17. /\ \A s \in SkillId : \A v \in Versions(s)' : v.key # NoKey => v.key[3] # t
       /\ \A s \in SkillId : \A v \in Versions(s) : v.key # NoKey => v.key[3] # t
  BY <1>1, <1>2, Untouched DEF TxGood
<1>18. \A s \in SkillId : \A v \in Versions(s)' : v.key # key
  BY <1>6, <1>17
<1>19. \A x \in {key} : x[3] = t /\ (x \in doubt' \/ \A s \in SkillId : \A v \in Versions(s)' : v.key # x)
  BY <1>6, <1>18
<1>20. mutex' = t /\ wish'[req] \in Wishes /\ (wish'[req].by = "agent" => req \notin receipt') /\ k.id \in SkillId
  BY <1>1, <1>2, <1>3, <1>11, <1>12
<1>21. Adds(k)' /\ k.key = NewKey(t)' /\ Present(k)'
  BY <1>11, <1>14, <1>15, <1>16
<1>22. TxGood(t)'
  BY <1>13, <1>15, <1>17, <1>19, <1>20, <1>21 DEF TxGood
<1>23. row.files \in PkgSet
  BY DEF RowRec
<1>24. [key |-> key, files |-> row.files] \in ObjRec
  BY <1>5, <1>23 DEF ObjRec
<1>25. SkillTypes'
  BY <1>1, <1>7, <1>9, <1>24 DEF SkillInv, SkillTypes, TxTo
<1>26. ASSUME NEW o \in objs \ objs'
       PROVE  /\ \A s \in SkillId : \A v \in Versions(s) : v.key = o.key => v.key \in doubt
              /\ \A u \in Tx \ {t} : tx[u].pc = "commit" => o.key \notin tx[u].up
  <2>1. o.key = key
    BY <1>7, <1>26
  <2>2. \A u \in Tx \ {t} : \A x \in tx[u].up : x[3] = u
    BY SkillKnown DEF TxGood
  <2> QED
    BY <1>6, <1>17, <2>1, <2>2
<1>27. \A u \in Tx \ {t} : tx'[u] = tx[u]
  BY <1>9 DEF TxTo
<1>28. mishaps' = 0 => mishaps = 0
  BY <1>1
<1>29. mishaps' = 0 => \A o \in objs' : \/ o \notin objs /\ o.key \in tx'[t].up
                                        \/ o \in objs /\ (o.key \in tx[t].up => o.key \in tx'[t].up)
  BY <1>2, <1>7, <1>13
<1>30. mishaps' = 0 /\ TxAt(t, "sweep") => \A o \in objs' : tx[t].row.id # o.key[1]
  BY <1>1 DEF TxAt
<1>31. \A r \in Req : wish[r] \in Wishes => wish'[r] = wish[r]
  BY <1>1
<1>32. mutex \notin {t, NoOwner} => mutex' = mutex
  BY <1>1
<1> QED
  BY <1>1, <1>22, <1>25, <1>26, <1>27, <1>28, <1>29, <1>30, <1>31, <1>32, Aside

LEMMA UnwindGood ==
  ASSUME SkillInv, UNCHANGED <<skill, past, wish, doubt>>, NEW t \in Tx,
         tx[t].pc \in {"work", "upload", "commit", "answer"}, TxTo(t, "unwind", tx[t].req, tx[t].row, tx[t].up)
  PROVE  TxGood(t)'
<1>1. TxGood(t)
  BY SkillKnown
<1>2. PICK req, up, row : req = tx[t].req /\ up = tx[t].up /\ row = tx[t].row
  OBVIOUS
<1>3. tx'[t].pc = "unwind" /\ tx'[t].req = req /\ tx'[t].row = row /\ tx'[t].up = up
  BY <1>2 DEF TxTo
<1>4. req \in Req /\ wish'[req] \in Wishes
  BY <1>1, <1>2 DEF TxGood
<1>5. \A key \in up : key[3] = t /\ (key \in doubt' \/ \A s \in SkillId : \A v \in Versions(s)' : v.key # key)
  BY <1>2, Untouched
<1> QED
  BY <1>3, <1>4, <1>5 DEF TxGood

LEMMA UploadFailsKeeps ==
  ASSUME SkillInv, NEW t \in Tx, UploadFails(t)
  PROVE  SkillInv'
<1>1. tx[t].pc = "upload" /\ UNCHANGED <<db, objs, wish, doubt, skill, past, receipt, applied>>
  BY DEF UploadFails, TxAt, db
<1>2. mishaps' \in Nat /\ mishaps' # 0
  BY MishapsStay DEF UploadFails
<1>3. /\ TxGood(t) /\ tx[t].up = {} /\ mutex = t /\ tx[t].req \in Req /\ wish[tx[t].req] \in Wishes
      /\ Adds(tx[t].row) /\ tx[t].row.id \in SkillId
      /\ wish[tx[t].req].by = "agent" => tx[t].req \notin receipt
  BY <1>1, SkillKnown DEF TxGood
<1>4. CASE tx' = [tx EXCEPT ![t].pc = "commit", ![t].row.key = NoKey] /\ UNCHANGED mutex
  <2>1. PICK row \in RowRec : row = tx[t].row
    BY SkillKnown
  <2>2. TxTo(t, "commit", tx[t].req, Keyed(row, NoKey), tx[t].up)
    BY <1>4, <2>1, SkillKnown, TxKeyless
  <2>3. NoKey \in Key
    BY DEF Key
  <2>4. PICK k \in RowRec : k = Keyed(row, NoKey)
    BY <2>3, KeyedIs
  <2>5. k.id = row.id /\ k.key = NoKey
    BY <2>3, <2>4, KeyedIs
  <2>6. PICK req \in Req : req = tx[t].req
    BY <1>3
  <2>7. tx'[t].pc = "commit" /\ tx'[t].req = req /\ tx'[t].row = k /\ tx'[t].up = {}
    BY <1>3, <2>2, <2>4, <2>6 DEF TxTo
  <2>8. Adds(k)'
    BY <1>1, <1>3, <2>1, <2>3, <2>4, KeyedAdds
  <2>9. \A s \in SkillId : \A v \in Versions(s)' : v.key # NoKey => v.key[3] # t
    BY <1>1, Untouched
  <2>10. mutex' = t /\ wish'[req] \in Wishes /\ (wish'[req].by = "agent" => req \notin receipt') /\ k.id \in SkillId
    BY <1>1, <1>3, <1>4, <2>1, <2>5, <2>6
  <2>11. TxGood(t)'
    BY <2>5, <2>7, <2>8, <2>9, <2>10 DEF TxGood
  <2>12. mutex' \in Tx \cup {NoOwner}
    BY <2>10
  <2> QED
    BY <1>1, <1>2, <1>4, <2>2, <2>11, <2>12, Quiet
<1>5. CASE Step(t, "unwind") /\ Release(t)
  <2>1. TxTo(t, "unwind", tx[t].req, tx[t].row, tx[t].up)
    BY <1>5, SkillKnown, TxStep DEF Steps
  <2>2. TxGood(t)'
    BY <1>1, <2>1, UnwindGood
  <2> QED
    BY <1>1, <1>2, <1>5, <2>1, <2>2, Released, Quiet
<1> QED
  BY <1>4, <1>5 DEF UploadFails

LEMMA RollBackKeeps ==
  ASSUME SkillInv, NEW t \in Tx, RollBack(t)
  PROVE  SkillInv'
<1>1. /\ tx[t].pc \in {"work", "upload", "commit", "answer"} /\ Step(t, "unwind") /\ Release(t)
      /\ UNCHANGED <<db, objs, wish, doubt, mishaps, skill, past>>
  BY DEF RollBack, db
<1>2. TxTo(t, "unwind", tx[t].req, tx[t].row, tx[t].up)
  BY <1>1, SkillKnown, TxStep DEF Steps
<1>3. TxGood(t)'
  BY <1>1, <1>2, UnwindGood
<1>4. mishaps' \in Nat /\ (mishaps' = 0 => mishaps = 0 /\ tx[t].pc # "sweep" /\ tx[t].up \subseteq tx[t].up)
  BY <1>1, MishapsStay
<1> QED
  BY <1>1, <1>2, <1>3, <1>4, Released, Quiet

LEMMA StoredTypes ==
  ASSUME SkillInv, NEW t \in Tx, TxAt(t, "commit"), Stored(t)
  PROVE  /\ skill' \in [SkillId -> RowRec] /\ past' \in [SkillId -> Seq(RowRec)]
         /\ receipt' \subseteq Req /\ applied' \in [Req -> Nat]
<1>1. skill' \in [SkillId -> RowRec] /\ past' \in [SkillId -> Seq(RowRec)]
  BY StoredIs DEF StoredAs
<1>2. tx[t].req \in Req /\ applied \in [Req -> Nat] /\ receipt \subseteq Req
  BY SkillKnown DEF TxAt, TxGood, SkillInv, SkillTypes
<1>3. receipt' \subseteq Req
  BY <1>2 DEF Stored
<1>4. PICK n : n = IF tx[t].row = skill[tx[t].row.id] \/ Wish(t).op = "verify"
                   THEN applied[tx[t].req] ELSE applied[tx[t].req] + 1
  OBVIOUS
<1>5. applied' = [applied EXCEPT ![tx[t].req] = n] /\ n \in Nat
  BY <1>2, <1>4 DEF Stored
<1> QED
  BY <1>1, <1>2, <1>3, <1>5

LEMMA CommitKeeps ==
  ASSUME SkillInv, NEW t \in Tx, Commit(t)
  PROVE  SkillInv'
<1>1. /\ TxAt(t, "commit") /\ Stored(t) /\ Release(t) /\ UNCHANGED <<objs, wish, doubt, mishaps>>
  BY DEF Commit
<1>2. mutex = t
  BY <1>1, SkillKnown DEF TxAt, TxGood
<1>3. mutex' = NoOwner
  BY <1>1, <1>2 DEF Release
<1>4. PICK pc : pc = IF tx[t].row.ver = 0 THEN "sweep" ELSE "answer"
  OBVIOUS
<1>5. /\ pc \in {"sweep", "answer", "unwind"} /\ pc \in Steps /\ pc # "unwind"
      /\ pc = "sweep" => tx[t].row.ver = 0
      /\ tx[t].row.ver = 0 => pc = "sweep"
  BY <1>4 DEF Steps
<1>6. tx' = [tx EXCEPT ![t].pc = pc, ![t].up = {}]
  BY <1>4 DEF Commit
<1>7. {} \in SUBSET Stamp
  OBVIOUS
<1>8. TxTo(t, pc, tx[t].req, tx[t].row, {})
  BY <1>5, <1>6, <1>7, SkillKnown, TxEnd
<1>9. SkillTypes'
  BY <1>1, <1>3, <1>8, StoredTypes DEF SkillInv, SkillTypes, TxTo
<1>10. {} \subseteq tx[t].up /\ doubt \subseteq doubt'
  BY <1>1
<1>11. mishaps' = 0 => mishaps = 0 /\ pc # "unwind" /\ (tx[t].row.ver = 0 => pc = "sweep")
  BY <1>1, <1>5
<1>12. UNCHANGED <<objs, wish>> /\ (pc # "unwind" => {} = {} /\ doubt' = doubt)
  BY <1>1
<1> QED
  BY <1>1, <1>3, <1>5, <1>8, <1>9, <1>10, <1>11, <1>12, Written

LEMMA ReplyLostKeeps ==
  ASSUME SkillInv, NEW t \in Tx, ReplyLost(t)
  PROVE  SkillInv'
<1>1. /\ TxAt(t, "commit") /\ Stored(t) /\ Release(t) /\ UNCHANGED <<objs, wish>> /\ Step(t, "unwind")
      /\ doubt' = doubt \cup tx[t].up
  BY DEF ReplyLost
<1>2. mutex = t
  BY <1>1, SkillKnown DEF TxAt, TxGood
<1>3. mutex' = NoOwner
  BY <1>1, <1>2 DEF Release
<1>4. TxTo(t, "unwind", tx[t].req, tx[t].row, tx[t].up)
  BY <1>1, SkillKnown, TxStep DEF Steps
<1>5. mishaps' \in Nat /\ mishaps' # 0
  BY MishapsStay DEF ReplyLost
<1>6. tx[t].up \subseteq Stamp
  BY SkillKnown
<1>7. SkillTypes'
  BY <1>1, <1>3, <1>4, <1>5, <1>6, StoredTypes DEF SkillInv, SkillTypes, TxTo
<1>8. "unwind" \in {"sweep", "answer", "unwind"} /\ tx[t].up \subseteq doubt' /\ doubt \subseteq doubt' /\ tx[t].up \subseteq tx[t].up
  BY <1>1
<1>9. /\ mishaps' = 0 => mishaps = 0 /\ "unwind" # "unwind" /\ (tx[t].row.ver = 0 => "unwind" = "sweep")
      /\ "unwind" = "sweep" => tx[t].row.ver = 0
      /\ "unwind" # "unwind" => tx[t].up = {} /\ doubt' = doubt
      /\ "unwind" = "unwind" => tx[t].up \subseteq doubt'
  BY <1>5, <1>8
<1> QED
  BY <1>1, <1>3, <1>4, <1>7, <1>8, <1>9, Written

LEMMA RepliedKeeps ==
  ASSUME SkillInv, NEW t \in Tx, Replied(t)
  PROVE  SkillInv'
<1>1. tx[t].pc = "answer" /\ Over(t) /\ UNCHANGED <<db, objs, wish, mutex, doubt, mishaps>>
  BY DEF Replied, TxAt
<1>2. tx[t].up = {}
  BY <1>1, SkillKnown DEF TxGood
<1> QED
  BY <1>1, <1>2, Ends, MishapsStay, MutexStays

LEMMA UnwindKeeps ==
  ASSUME SkillInv, NEW t \in Tx, Unwind(t)
  PROVE  SkillInv'
<1>1. /\ tx[t].pc = "unwind" /\ Over(t) /\ objs' = {o \in objs : o.key \notin tx[t].up}
      /\ UNCHANGED <<db, wish, mutex, doubt, mishaps, skill, past, receipt, applied>>
  BY DEF Unwind, TxAt, db
<1>2. TxTo(t, "over", NoOwner, Nothing, {})
  BY <1>1, SkillKnown, TxOver
<1>3. TxGood(t)' /\ TxGood(t)
  BY <1>2, OverGood, SkillKnown
<1>4. SkillTypes'
  BY <1>1, <1>2 DEF SkillInv, SkillTypes, TxTo
<1>5. ASSUME NEW o \in objs \ objs'
      PROVE  /\ \A s \in SkillId : \A v \in Versions(s) : v.key = o.key => v.key \in doubt
             /\ \A u \in Tx \ {t} : tx[u].pc = "commit" => o.key \notin tx[u].up
  <2>1. o.key \in tx[t].up
    BY <1>1, <1>5
  <2>2. \A u \in Tx : \A x \in tx[u].up : x[3] = u
    BY SkillKnown DEF TxGood
  <2> QED
    BY <1>3, <2>1, <2>2 DEF TxGood
<1>6. \A u \in Tx \ {t} : tx'[u] = tx[u]
  BY <1>2 DEF TxTo
<1>7. mishaps' = 0 => \A o \in objs' : \/ o \notin objs /\ o.key \in tx'[t].up
                                       \/ o \in objs /\ (o.key \in tx[t].up => o.key \in tx'[t].up)
  BY <1>1
<1>8. mishaps' = 0 /\ TxAt(t, "sweep") => \A o \in objs' : tx[t].row.id # o.key[1]
  BY <1>1 DEF TxAt
<1>9. (mishaps' = 0 => mishaps = 0) /\ (mutex \notin {t, NoOwner} => mutex' = mutex)
      /\ \A r \in Req : wish[r] \in Wishes => wish'[r] = wish[r]
  BY <1>1
<1> QED
  BY <1>1, <1>3, <1>4, <1>5, <1>6, <1>7, <1>8, <1>9, Aside

LEMMA SweepKeeps ==
  ASSUME SkillInv, NEW t \in Tx, Sweep(t)
  PROVE  SkillInv'
<1>1. /\ tx[t].pc = "sweep" /\ Over(t) /\ objs' = {o \in objs : o.key = NoKey \/ o.key[1] # tx[t].row.id}
      /\ UNCHANGED <<db, wish, mutex, doubt, mishaps, skill, past, receipt, applied>>
  BY DEF Sweep, TxAt, db
<1>2. TxTo(t, "over", NoOwner, Nothing, {})
  BY <1>1, SkillKnown, TxOver
<1>3. TxGood(t)'
  BY <1>2, OverGood
<1>4. SkillTypes'
  BY <1>1, <1>2 DEF SkillInv, SkillTypes, TxTo
<1>5. PICK s \in SkillId : s = tx[t].row.id /\ s \in Born /\ ~Alive(s)
  BY <1>1, SkillKnown DEF TxGood
<1>6. Versions(s) = {}
  <2>1. skill[s].ver = 0
    BY <1>5, SkillKnown DEF Alive
  <2>2. past[s] = <<>>
    BY <2>1, SkillKnown DEF SkillGood
  <2> QED
    BY <1>5, <2>2 DEF Versions
<1>7. \A o \in objs : o.key \in Stamp /\ o.key # NoKey
  BY StampIs DEF SkillInv, SkillTypes, ObjRec
<1>8. ASSUME NEW o \in objs \ objs'
      PROVE  /\ \A x \in SkillId : \A v \in Versions(x) : v.key = o.key => v.key \in doubt
             /\ \A u \in Tx \ {t} : tx[u].pc = "commit" => o.key \notin tx[u].up
  <2>1. o.key[1] = s /\ o.key # NoKey
    BY <1>1, <1>5, <1>7, <1>8
  <2>2. ASSUME NEW x \in SkillId, NEW v \in Versions(x), v.key = o.key PROVE FALSE
    <3>1. v.key[1] = x
      BY <2>1, <2>2, SkillKnown DEF SkillGood
    <3> QED
      BY <1>6, <2>1, <2>2, <3>1
  <2>3. ASSUME NEW u \in Tx \ {t}, tx[u].pc = "commit", o.key \in tx[u].up PROVE FALSE
    <3>1. Adds(tx[u].row) /\ o.key = NewKey(u)
      BY <2>3, SkillKnown DEF TxGood
    <3>2. tx[u].row.id = s
      BY <2>1, <3>1 DEF NewKey
    <3> QED
      BY <1>5, <3>1, <3>2 DEF Adds
  <2> QED
    BY <2>2, <2>3
<1>9. \A u \in Tx \ {t} : tx'[u] = tx[u]
  BY <1>2 DEF TxTo
<1>10. tx[t].up = {}
  BY <1>1, SkillKnown DEF TxGood
<1>11. mishaps' = 0 => \A o \in objs' : \/ o \notin objs /\ o.key \in tx'[t].up
                                        \/ o \in objs /\ (o.key \in tx[t].up => o.key \in tx'[t].up)
  BY <1>1, <1>10
<1>12. mishaps' = 0 /\ TxAt(t, "sweep") => \A o \in objs' : tx[t].row.id # o.key[1]
  BY <1>1, <1>7
<1>13. (mishaps' = 0 => mishaps = 0) /\ (mutex \notin {t, NoOwner} => mutex' = mutex)
       /\ \A r \in Req : wish[r] \in Wishes => wish'[r] = wish[r]
  BY <1>1
<1> QED
  BY <1>1, <1>3, <1>4, <1>8, <1>9, <1>11, <1>12, <1>13, Aside

LEMMA CleanupFailsKeeps ==
  ASSUME SkillInv, NEW t \in Tx, CleanupFails(t)
  PROVE  SkillInv'
<1>1. Over(t) /\ UNCHANGED <<db, objs, wish, mutex, doubt>> /\ mishaps' \in Nat /\ mishaps' # 0
  BY MishapsStay DEF CleanupFails
<1> QED
  BY <1>1, Ends, MutexStays

LEMMA AttemptDiesKeeps ==
  ASSUME SkillInv, NEW t \in Tx, AttemptDies(t)
  PROVE  SkillInv'
<1>1. Over(t) /\ Release(t) /\ UNCHANGED <<db, objs, wish, doubt>> /\ mishaps' \in Nat /\ mishaps' # 0
  BY MishapsStay DEF AttemptDies
<1> QED
  BY <1>1, Ends, Released

-----------------------------------------------------------------------------
(* The beginnings, the steps together, and what the invariant says.            *)

LEMMA Beginning ==
  ASSUME tx = [t \in Tx |-> NoTx], mutex = NoOwner, doubt = {}, mishaps = 0, receipt = {},
         wish = [r \in Req |-> [op |-> "none"]], applied = [r \in Req |-> 0],
         past = [s \in SkillId |-> <<>>], skill \in [SkillId -> RowRec], objs \subseteq ObjRec,
         \A s \in SkillId \ {1} : skill[s] = Nothing,
         \/ skill[1] = Nothing /\ objs = {}
         \/ /\ skill[1].id = 1 /\ skill[1].ver = 1 /\ skill[1].check = <<>> /\ skill[1].key = <<1, 1, NoOwner>>
            /\ objs = {[key |-> <<1, 1, NoOwner>>, files |-> skill[1].files]}
  PROVE  SkillInv
<1>1. 1 \in SkillId /\ \A s \in SkillId : s \in Nat /\ s # 0
  BY SkillAssumption DEF SkillId
<1>2. /\ Nothing \in RowRec /\ Nothing.id = 0 /\ Nothing.ver = 0
      /\ NoTx \in TxRec /\ NoTx.pc = "new" /\ NoTx.up = {} /\ NoTx.req = NoOwner
  <2>1. NoOwner \in Someone /\ {} \in SUBSET Stamp
    BY DEF Someone
  <2> QED
    BY <2>1, NothingIs DEF NoTx, TxRec
<1>3. \A t \in Tx : tx[t] = NoTx
  OBVIOUS
<1>4. \A s \in SkillId : past[s] = <<>> /\ Versions(s) = IF Alive(s) THEN {skill[s]} ELSE {}
  BY DEF Versions
<1>5. <<>> \in Seq(RowRec)
  OBVIOUS
<1>6. SkillTypes
  <2>1. past \in [SkillId -> Seq(RowRec)]
    BY <1>5
  <2>2. wish \in [Req -> Wishes \cup {Unasked}]
    BY DEF Unasked
  <2>3. tx \in [Tx -> TxRec]
    BY <1>2
  <2> QED
    BY <2>1, <2>2, <2>3 DEF SkillTypes
<1>7. \A s \in SkillId \ {1} : skill[s].id = 0 /\ skill[s].ver = 0 /\ ~Alive(s)
  BY <1>2 DEF Alive
<1>8. \A t \in Tx : TxGood(t)
  <2> SUFFICES ASSUME NEW t \in Tx PROVE TxGood(t)
    OBVIOUS
  <2>1. \A s \in SkillId : \A v \in Versions(s) : v.key # NoKey => v.key[3] # t
    <3>1. \A s \in SkillId : \A v \in Versions(s) : v.key = <<1, 1, NoOwner>>
      BY <1>2, <1>4, <1>7 DEF Alive
    <3> QED
      BY <3>1, SkillAssumption
  <2>2. tx[t].pc = "new" /\ tx[t].up = {}
    BY <1>2, <1>3
  <2> QED
    BY <2>1, <2>2 DEF TxGood
<1>9. \A r \in Req : RequestGood(r)
  <2>1. \A r \in Req : wish[r].op = "none" /\ applied[r] = 0
    OBVIOUS
  <2> QED
    BY <2>1 DEF RequestGood
<1>10. ASSUME NEW a \in SkillId, NEW b \in SkillId, Alive(a), Alive(b) PROVE a = b
  BY <1>7, <1>10
<1>11. ASSUME NEW s \in SkillId \ {1} PROVE SkillGood(s)
  BY <1>4, <1>7 DEF SkillGood
<1>12. CASE skill[1] = Nothing /\ objs = {}
  <2>1. skill[1].id = 0 /\ skill[1].ver = 0 /\ ~Alive(1)
    BY <1>2, <1>12 DEF Alive
  <2>2. SkillGood(1)
    BY <1>1, <1>4, <2>1 DEF SkillGood
  <2>3. Born = {}
    BY <1>7, <2>1 DEF Born
  <2>4. Born = 1 .. 0 /\ 0 \in 0 .. MaxSkills
    BY <2>3, SkillAssumption
  <2>5. \A s \in SkillId : SkillGood(s)
    BY <1>11, <2>2
  <2> QED
    BY <1>6, <1>8, <1>9, <1>10, <1>12, <2>4, <2>5 DEF SkillInv
<1>13. CASE /\ skill[1].id = 1 /\ skill[1].ver = 1 /\ skill[1].check = <<>> /\ skill[1].key = <<1, 1, NoOwner>>
            /\ objs = {[key |-> <<1, 1, NoOwner>>, files |-> skill[1].files]}
  <2>1. Alive(1) /\ Versions(1) = {skill[1]}
    BY <1>1, <1>4, <1>13 DEF Alive
  <2>2. <<1, 1, NoOwner>> \in Stamp
    BY <1>1 DEF Stamp
  <2>3. Present(skill[1])
    BY <1>13 DEF Present
  <2>4. past[1] = <<>> /\ Len(past[1]) = 0 /\ DOMAIN past[1] = {}
    BY <1>1, <1>4
  <2>5. PICK v : v = skill[1]
    OBVIOUS
  <2>6. v.key \in Stamp /\ v.key[1] = 1 /\ Present(v) /\ v.id = 1 /\ v.ver = 1 /\ v.check = <<>>
    <3>1. v.key = <<1, 1, NoOwner>> /\ v.id = 1 /\ v.ver = 1 /\ v.check = <<>> /\ Present(v)
      BY ONLY <1>13, <2>3, <2>5
    <3>2. v.key[1] = 1
      BY ONLY <3>1
    <3>3. v.key \in Stamp
      BY ONLY <2>2, <3>1
    <3> QED
      BY <3>1, <3>2, <3>3
  <2>7. SkillGood(1)
    <3>1. \A x \in Versions(1) : x.key \in Stamp /\ x.key[1] = 1 /\ Present(x)
      BY <2>1, <2>5, <2>6
    <3>2. Len(past[1]) = skill[1].ver - 1 /\ Tested(skill[1])
      BY <2>4, <2>5, <2>6 DEF Tested
    <3>3. skill[1].id = 1 /\ skill[1].ver # 0
      BY <2>5, <2>6
    <3> QED
      BY ONLY <2>4, <3>1, <3>2, <3>3 DEF SkillGood
  <2>8. Born = {1}
    BY <1>1, <1>7, <1>13 DEF Born
  <2>9. Born = 1 .. 1 /\ 1 \in 0 .. MaxSkills
    BY <2>8, SkillAssumption
  <2>10. \A s \in SkillId : SkillGood(s)
    BY <1>11, <2>7
  <2>11. \A o \in objs : Tracked(o)
    <3> SUFFICES ASSUME NEW o \in objs PROVE Tracked(o)
      OBVIOUS
    <3>1. o.key = skill[1].key
      BY <1>13
    <3> QED
      BY <1>1, <2>1, <3>1 DEF Tracked
  <2> QED
    BY <1>6, <1>8, <1>9, <1>10, <2>9, <2>10, <2>11 DEF SkillInv
<1> QED
  BY <1>12, <1>13

LEMMA KInitKeeps == KInit => SkillInv
<1> SUFFICES ASSUME KInit PROVE SkillInv
  OBVIOUS
<1>1. PICK n \in SkillName :
         skill = [s \in SkillId |-> IF s # 1 THEN Nothing ELSE
                  [id |-> 1, name |-> n, ver |-> 1, body |-> NoOwner, files |-> PkgFile \X {NoOwner},
                   key |-> <<1, 1, NoOwner>>, check |-> <<>>]]
  BY DEF KInit
<1>2. 1 \in SkillId /\ 1 \in 0 .. MaxSkills /\ 1 \in Nat
  BY SkillAssumption DEF SkillId
<1>3. PICK fs, key : fs = PkgFile \X {NoOwner} /\ key = <<1, 1, NoOwner>>
  OBVIOUS
<1>4. fs \in PkgSet /\ key \in Stamp /\ key \in Key
  <2>1. fs \in PkgSet
    BY <1>3 DEF PkgSet, Someone
  <2>2. key \in Stamp
    BY <1>2, <1>3 DEF Stamp
  <2> QED
    BY <2>1, <2>2, StampIs
<1>5. NoOwner \in Someone /\ <<>> \in Tests
  BY DEF Someone, Tests
<1>6. PICK row : row = [id |-> 1, name |-> n, ver |-> 1, body |-> NoOwner, files |-> fs, key |-> key, check |-> <<>>]
  OBVIOUS
<1>7. /\ row \in RowRec /\ row.id = 1 /\ row.ver = 1 /\ row.check = <<>> /\ row.key = key /\ row.files = fs
  BY <1>2, <1>4, <1>5, <1>6 DEF RowRec
<1>8. skill = [s \in SkillId |-> IF s # 1 THEN Nothing ELSE row]
  BY <1>1, <1>3, <1>6
<1>9. skill \in [SkillId -> RowRec] /\ skill[1] = row /\ \A s \in SkillId \ {1} : skill[s] = Nothing
  BY <1>2, <1>7, <1>8, NothingIs
<1>10. objs = {[key |-> key, files |-> fs]}
  BY <1>3 DEF KInit
<1>11. objs \subseteq ObjRec
  BY <1>4, <1>10 DEF ObjRec
<1>12. /\ skill[1].id = 1 /\ skill[1].ver = 1 /\ skill[1].check = <<>> /\ skill[1].key = <<1, 1, NoOwner>>
       /\ objs = {[key |-> <<1, 1, NoOwner>>, files |-> skill[1].files]}
  BY <1>3, <1>7, <1>9, <1>10
<1> QED
  BY <1>9, <1>11, <1>12, Beginning DEF KInit

LEMMA SkillNext == SkillInv /\ KNext => SkillInv'
<1> SUFFICES ASSUME SkillInv, KNext PROVE SkillInv'
  OBVIOUS
<1>1. PICK t \in Tx :
        \/ \E r \in Req : Ask(t, r)
        \/ Acquire(t) \/ Refused(t) \/ ViewSkill(t) \/ Deploy(t) \/ Work(t) \/ Upload(t) \/ UploadFails(t)
        \/ Commit(t) \/ RollBack(t) \/ ReplyLost(t) \/ Replied(t) \/ Unwind(t) \/ Sweep(t)
        \/ CleanupFails(t) \/ AttemptDies(t)
  BY DEF KNext
<1>2. CASE \E r \in Req : Ask(t, r)
  BY <1>2, AskKeeps
<1>3. CASE Acquire(t) \/ Refused(t) \/ ViewSkill(t) \/ Deploy(t)
  BY <1>3, AcquireKeeps, RefusedKeeps, ViewSkillKeeps, DeployKeeps
<1>4. CASE Work(t) \/ Upload(t) \/ UploadFails(t)
  BY <1>4, WorkKeeps, UploadKeeps, UploadFailsKeeps
<1>5. CASE Commit(t) \/ RollBack(t) \/ ReplyLost(t) \/ Replied(t)
  BY <1>5, CommitKeeps, RollBackKeeps, ReplyLostKeeps, RepliedKeeps
<1>6. CASE Unwind(t) \/ Sweep(t) \/ CleanupFails(t) \/ AttemptDies(t)
  BY <1>6, UnwindKeeps, SweepKeeps, CleanupFailsKeeps, AttemptDiesKeeps
<1> QED
  BY <1>1, <1>2, <1>3, <1>4, <1>5, <1>6

LEMMA SkillStays == SkillInv /\ UNCHANGED kvars => SkillInv'
<1> SUFFICES ASSUME SkillInv, UNCHANGED kvars PROVE SkillInv'
  OBVIOUS
<1>1. UNCHANGED <<skill, past, objs, receipt, wish, tx, mutex, applied, doubt, mishaps>>
  BY DEF kvars
<1>2. SkillTypes'
  BY <1>1 DEF SkillInv, SkillTypes
<1>3. Born' = Born /\ \A s \in SkillId : Versions(s)' = Versions(s) /\ (Alive(s)' <=> Alive(s))
  BY <1>1, SameVersions
<1>4. \A s \in SkillId : SkillGood(s)'
  BY <1>1, <1>3 DEF SkillInv, SkillGood, Present
<1>5. \A t \in Tx : TxGood(t)'
  <2> SUFFICES ASSUME NEW t \in Tx PROVE TxGood(t)'
    OBVIOUS
  <2>1. PICK x \in TxRec, row \in RowRec : x = tx[t] /\ row = x.row
    BY SkillKnown
  <2>2. (Writes(row)' <=> Writes(row)) /\ (Adds(row)' <=> Adds(row)) /\ (Present(row)' <=> Present(row))
    BY <1>1, <1>3 DEF Writes, Adds, Present, Alive
  <2>3. \A s : Viewed(row, s)' <=> Viewed(row, s)
    BY <1>1, <1>3 DEF Viewed
  <2>4. tx'[t] = x /\ NewKey(t)' = NewKey(t)
    BY <1>1, <2>1 DEF NewKey
  <2> QED
    BY <1>1, <1>3, <2>1, <2>2, <2>3, <2>4, SkillKnown DEF TxGood
<1>6. \A r \in Req : RequestGood(r)'
  BY <1>1 DEF SkillInv, RequestGood
<1>7. mishaps' = 0 => \A o \in objs' : Tracked(o)'
  BY <1>1, <1>3 DEF SkillInv, Tracked, TxAt
<1> QED
  BY <1>1, <1>2, <1>3, <1>4, <1>5, <1>6, <1>7 DEF SkillInv

LEMMA SkillHolds == SkillInv => StoresAgree /\ SkillHistory
<1> SUFFICES ASSUME SkillInv PROVE StoresAgree /\ SkillHistory
  OBVIOUS
<1>1. \A s \in SkillId : SkillGood(s)
  BY SkillKnown
<1>2. StoresAgree
  BY <1>1 DEF StoresAgree, SkillGood, SkillInv, Tracked
<1>3. HistoryWhole
  BY <1>1 DEF HistoryWhole, SkillGood, SkillInv
<1>4. AppliedOnce
  <2>1. \A r \in Req : wish[r].op # "none" => wish[r] \in Wishes
    BY UnaskedIs DEF SkillInv, SkillTypes
  <2> QED
    BY <2>1 DEF AppliedOnce, SkillInv, RequestGood
<1>5. CheckedAsIs
  BY <1>1 DEF CheckedAsIs, SkillGood, Tested
<1> QED
  BY <1>2, <1>3, <1>4, <1>5 DEF SkillHistory

-----------------------------------------------------------------------------
(* The two side by side.                                                       *)

Apart == SandInv /\ SkillInv

LEMMA NoSkillsKeep == NoSkills => SkillInv
<1> SUFFICES ASSUME NoSkills PROVE SkillInv
  OBVIOUS
<1>1. skill \in [SkillId -> RowRec]
  BY NothingIs DEF NoSkills
<1>2. 1 \in SkillId
  BY SkillAssumption DEF SkillId
<1>3. \A s \in SkillId : skill[s] = Nothing
  BY DEF NoSkills
<1>4. objs = {}
  BY DEF NoSkills
<1> QED
  BY <1>1, <1>2, <1>3, <1>4, Beginning DEF NoSkills

LEMMA ApartStarts == BothInit => Apart
BY SandInit, KInitKeeps, NoSkillsKeep DEF BothInit, Apart

LEMMA ApartKeeps == Apart /\ [BothNext]_<<part, kvars, bvars>> => Apart'
<1> SUFFICES ASSUME SandInv, SkillInv, [BothNext]_<<part, kvars, bvars>> PROVE Apart'
  BY DEF Apart
<1>1. CASE BNext /\ UNCHANGED kvars
  BY <1>1, SandNext, SkillStays DEF Apart
<1>2. CASE KNext /\ UNCHANGED bvars
  BY <1>2, SandStays, SkillNext DEF Apart
<1>3. CASE UNCHANGED kvars /\ UNCHANGED bvars
  BY <1>3, SandStays, SkillStays DEF Apart
<1> QED
  BY <1>1, <1>2, <1>3 DEF BothNext

(* What a task has made is not lost but by a failure of the container's host,  *)
(* what was stored not at all, and a command finds its workspace: whatever     *)
(* another worker retires, reclaims, syncs or loads at the same time           *)
(* (sandbox/manager.py, gc.py, sync of workspaces).                            *)
THEOREM FilesSurvive == BothSpec => []FilesKept
<1>1. Apart => FilesKept
  BY SandHolds DEF Apart
<1> QED
  BY <1>1, ApartStarts, ApartKeeps, PTL DEF BothSpec

(* Every version of a skill has its package and no package is left over, with  *)
(* uploads before the commit, cleanups after it and without the lock, and      *)
(* replies lost in between (skills/service.py, mutations.py, handlers.py).     *)
THEOREM PackagesMatch == BothSpec => []StoresAgree
<1>1. Apart => StoresAgree
  BY SkillHolds DEF Apart
<1> QED
  BY <1>1, ApartStarts, ApartKeeps, PTL DEF BothSpec

(* Versions are numbered without gaps, names differ, a repeated request counts *)
(* once and a check is of what was looked at (skills/mutations.py).            *)
THEOREM SkillsKeepHistory == BothSpec => []SkillHistory
<1>1. Apart => SkillHistory
  BY SkillHolds DEF Apart
<1> QED
  BY <1>1, ApartStarts, ApartKeeps, PTL DEF BothSpec


-----------------------------------------------------------------------------
(* The page: what the flows, the cards and the actions owe one another.        *)

Engaged(f) == flow[f].pc # "idle"

ServerTypes == /\ calls \in Nat /\ flow \in [Flow -> FlowState]
               /\ cards \subseteq Card /\ acts \subseteq Act

(* A call under way is numbered, for a session and an element, and is the only *)
(* one of its number.                                                          *)
Posed == \A f \in Flow : Engaged(f) =>
    flow[f].call \in 1 .. calls /\ flow[f].session \in Session /\ flow[f].ref \in Ref
Distinct == \A f, g \in Flow : Engaged(f) /\ Engaged(g) /\ flow[f].call = flow[g].call => f = g

(* A card has a number of a call that was begun, and no other card has it.     *)
Numbered == \A c \in cards : c.id \in 1 .. calls
OneCard  == \A c, d \in cards : c.id = d.id => c = d

(* The action that a flow waits for is of the flow's own session.              *)
OwnSession == \A f \in Flow, a \in acts :
    Waiting(f) /\ a.id = flow[f].call => a.session = flow[f].session

PairInv == /\ ServerTypes /\ Posed /\ Distinct /\ Numbered /\ OneCard
           /\ OwnSession /\ FlowsAndActions

(* What a flow waits for is there, and is the only one of its number.          *)
LEMMA MyCardIsThere ==
  ASSUME PairInv, NEW f \in Flow, flow[f].pc \in {"card", "asked"}
  PROVE  MyCard(f) \in cards /\ MyCard(f).id = flow[f].call
BY DEF PairInv, FlowsAndActions, WaitsForSomething, MyCard

LEMMA MyActIsThere ==
  ASSUME PairInv, NEW f \in Flow, Waiting(f)
  PROVE  /\ MyAct(f) \in acts /\ MyAct(f).id = flow[f].call /\ MyAct(f).session = flow[f].session
         /\ \A a \in acts : a.id = flow[f].call => a = MyAct(f)
BY DEF PairInv, FlowsAndActions, WaitsForSomething, OneDriver, OwnSession, MyAct

(* Any two actions of one number are one.                                      *)
LEMMA OneAct == ASSUME PairInv PROVE \A a, b \in acts : a.id = b.id => a = b
BY MyActIsThere DEF PairInv, FlowsAndActions, NoOrphanAction

-----------------------------------------------------------------------------
(* Steps that leave a flow to the rest.                                        *)

(* A step that only changes what a flow without an action does.                *)
LEMMA FlowMoves ==
  ASSUME PairInv, NEW f \in Flow, ~Waiting(f), acts' = acts, calls' \in Nat, calls' >= calls,
         flow' \in [Flow -> FlowState], \A g \in Flow \ {f} : flow'[g] = flow[g],
         cards' \subseteq Card, Numbered', OneCard',
         ~Waiting(f)',
         \A c \in cards : (\E g \in Flow \ {f} : Engaged(g) /\ flow[g].call = c.id) => c \in cards',
         \/ flow'[f].pc = "idle"
         \/ /\ flow'[f].session \in Session /\ flow'[f].ref \in Ref
            /\ flow'[f].call \in 1 .. calls'
            /\ \E c \in cards' : c.id = flow'[f].call
            /\ Engaged(f) => flow'[f].call = flow[f].call
            /\ ~Engaged(f) => flow'[f].call > calls
  PROVE  PairInv'
<1> USE DEF PairInv, Engaged, Waiting
<1>1. ServerTypes'
  BY DEF ServerTypes
<1>2. Posed'
  BY DEF Posed, ServerTypes
<1>3. Distinct'
  BY DEF Distinct, Posed, ServerTypes
<1>4. OwnSession'
  BY DEF OwnSession
<1>5. NoOrphanAction' /\ OneDriver'
  BY DEF NoOrphanAction, OneDriver, FlowsAndActions
<1>6. WaitsForSomething'
  BY DEF WaitsForSomething, FlowsAndActions, Distinct, ServerTypes, FlowState
<1> QED
  BY <1>1, <1>2, <1>3, <1>4, <1>5, <1>6 DEF FlowsAndActions

(* A call issued to the browser, from a card or without one: it fails, or its  *)
(* action is the only one of the session.                                      *)
LEMMA IssueKeeps ==
  ASSUME PairInv, NEW f \in Flow, ~Waiting(f), NEW x \in FlowState, NEW confirmed \in BOOLEAN,
         Issue(f, x, confirmed), x.session \in Session, x.ref \in Ref,
         calls' \in Nat, calls' >= calls, x.call \in 1 .. calls',
         Engaged(f) => x.call = flow[f].call,
         ~Engaged(f) => x.call > calls,
         cards' \subseteq cards,
         \A c \in cards : (\E g \in Flow \ {f} : Engaged(g) /\ flow[g].call = c.id) => c \in cards'
  PROVE  PairInv'
<1>t. flow \in [Flow -> FlowState] /\ cards \subseteq Card /\ acts \subseteq Act /\ calls \in Nat
  BY DEF PairInv, ServerTypes
<1>n. Numbered' /\ OneCard'
  BY DEF PairInv, Numbered, OneCard, ServerTypes
<1>1. CASE Busy(x.session)
  <2>1. flow' = [flow EXCEPT ![f] = Idle] /\ acts' = acts /\ Idle \in FlowState /\ Idle.pc = "idle"
    BY <1>1 DEF Issue, Idle, FlowState, Tool
  <2> QED
    BY <2>1, <1>t, <1>n, FlowMoves DEF Waiting
<1>2. CASE ~Busy(x.session)
  <2> DEFINE new == [id |-> x.call, session |-> x.session, tool |-> x.tool,
                     ref |-> x.ref, confirmed |-> confirmed, answer |-> "none"]
             y == [x EXCEPT !.pc = "sent"]
  <2>1. flow' = [flow EXCEPT ![f] = y] /\ acts' = acts \cup {new}
    BY <1>2 DEF Issue
  <2>2. new \in Act /\ new.id = x.call /\ new.session = x.session
    BY DEF Act, FlowState, Answer
  <2>3. y \in FlowState /\ y.pc = "sent" /\ y.call = x.call /\ y.session = x.session /\ y.ref = x.ref
    BY DEF FlowState
  <2> HIDE DEF new, y
  <2>4. flow'[f] = y /\ flow' \in [Flow -> FlowState] /\ \A g \in Flow \ {f} : flow'[g] = flow[g]
    BY <2>1, <2>3, <1>t
  <2>5. \A g \in Flow \ {f} : Engaged(g) => flow[g].call # x.call
    BY <1>t DEF PairInv, Distinct, Posed, Engaged
  <2>6. \A a \in acts : a.session # x.session /\ a.id # x.call
    <3>1. \A a \in acts : a.session # x.session
      BY <1>2 DEF Busy
    <3>2. \A a \in acts : \E g \in Flow \ {f} : Waiting(g) /\ flow[g].call = a.id
      BY DEF PairInv, FlowsAndActions, NoOrphanAction
    <3> QED
      BY <3>1, <3>2, <2>5 DEF Waiting, Engaged
  <2>7. ServerTypes'
    BY <2>1, <2>2, <2>4, <1>t DEF ServerTypes
  <2>8. Posed'
    BY <2>3, <2>4, <1>t DEF PairInv, Posed, Engaged
  <2>9. Distinct'
    BY <2>3, <2>4, <2>5 DEF PairInv, Distinct, Engaged
  <2>10. OwnSession'
    BY <2>1, <2>2, <2>3, <2>4, <2>5, <2>6 DEF PairInv, OwnSession, Waiting, Engaged
  <2>11. NoOrphanAction'
    BY <2>1, <2>2, <2>3, <2>4 DEF PairInv, FlowsAndActions, NoOrphanAction, Waiting
  <2>12. OneDriver'
    BY <2>1, <2>2, <2>6 DEF PairInv, FlowsAndActions, OneDriver
  <2>13. WaitsForSomething'
    BY <2>1, <2>2, <2>3, <2>4 DEF PairInv, FlowsAndActions, WaitsForSomething, Waiting, Engaged
  <2> QED
    BY <1>n, <2>7, <2>8, <2>9, <2>10, <2>11, <2>12, <2>13 DEF PairInv, FlowsAndActions
<1> QED
  BY <1>1, <1>2

(* A flow whose wait ends, or that is closed, takes its action with it.        *)
LEMMA ActionEnds ==
  ASSUME PairInv, NEW f \in Flow, Waiting(f), acts' = acts \ {MyAct(f)},
         flow' = [flow EXCEPT ![f] = Idle], cards' = cards, calls' = calls
  PROVE  PairInv'
<1>t. flow \in [Flow -> FlowState] /\ cards \subseteq Card /\ acts \subseteq Act /\ calls \in Nat
  BY DEF PairInv, ServerTypes
<1>1. Idle \in FlowState /\ Idle.pc = "idle"
  BY DEF Idle, FlowState, Tool
<1>2. flow'[f] = Idle /\ flow' \in [Flow -> FlowState] /\ \A g \in Flow \ {f} : flow'[g] = flow[g]
  BY <1>1, <1>t
<1>3. MyAct(f) \in acts /\ MyAct(f).id = flow[f].call
  BY MyActIsThere
<1>4. \A g \in Flow \ {f} : Waiting(g) => flow[g].call # flow[f].call
  BY DEF PairInv, Distinct, Engaged, Waiting
<1>5. ServerTypes' /\ Posed' /\ Distinct' /\ Numbered' /\ OneCard' /\ OwnSession'
  BY <1>1, <1>2, <1>t DEF PairInv, ServerTypes, Posed, Distinct, Numbered, OneCard, OwnSession, Engaged, Waiting
<1>6. NoOrphanAction'
  BY <1>1, <1>2, MyActIsThere DEF PairInv, FlowsAndActions, NoOrphanAction, Waiting
<1>7. WaitsForSomething' /\ OneDriver'
  BY <1>1, <1>2, <1>3, <1>4 DEF PairInv, FlowsAndActions, WaitsForSomething, OneDriver, Waiting
<1> QED
  BY <1>5, <1>6, <1>7 DEF PairInv, FlowsAndActions

(* A step that answers cards and actions, and leaves the flows alone.          *)
LEMMA Answering ==
  ASSUME PairInv, flow' = flow, calls' = calls, cards' \subseteq Card, acts' \subseteq Act,
         OneCard', OneDriver',
         \A c \in cards  : \E d \in cards' : d.id = c.id,
         \A c \in cards' : \E d \in cards  : d.id = c.id,
         \A a \in acts   : \E b \in acts'  : b.id = a.id /\ b.session = a.session,
         \A a \in acts'  : \E b \in acts   : b.id = a.id /\ b.session = a.session
  PROVE  PairInv'
<1>1. ServerTypes' /\ Posed' /\ Distinct' /\ Numbered'
  BY DEF PairInv, ServerTypes, Posed, Distinct, Numbered, Engaged
<1>2. OwnSession' /\ NoOrphanAction'
  BY DEF PairInv, FlowsAndActions, OwnSession, NoOrphanAction, Waiting
<1>3. WaitsForSomething'
  BY DEF PairInv, FlowsAndActions, WaitsForSomething, Waiting
<1> QED
  BY <1>1, <1>2, <1>3 DEF PairInv, FlowsAndActions

-----------------------------------------------------------------------------
(* Every step keeps flows, cards and actions in pairs.                         *)

LEMMA PairStep ==
  ASSUME PairInv, replies \subseteq Msg, [Next]_vars
  PROVE  PairInv'
<1>t. flow \in [Flow -> FlowState] /\ cards \subseteq Card /\ acts \subseteq Act /\ calls \in Nat
  BY DEF PairInv, ServerTypes
<1>i. Idle \in FlowState /\ Idle.pc = "idle"
  BY DEF Idle, FlowState, Tool
<1>u. CASE UNCHANGED <<calls, flow, cards, acts>>
  BY <1>u, Answering DEF PairInv, OneCard, FlowsAndActions, OneDriver, ServerTypes
<1>1. ASSUME NEW f \in Flow, NEW s \in Session, NEW tool \in Tool, NEW ref \in Ref,
             BeginCall(f, s, tool, ref)
      PROVE  PairInv'
  <2> DEFINE x == [pc |-> "card", call |-> calls + 1, session |-> s, tool |-> tool, ref |-> ref]
  <2>1. x \in FlowState /\ x.pc = "card" /\ x.session = s /\ x.ref = ref /\ x.call = calls + 1
    BY <1>t DEF FlowState
  <2>2. calls' = calls + 1 /\ flow[f].pc = "idle" /\ ~Waiting(f) /\ ~Engaged(f)
    BY <1>1 DEF BeginCall, Waiting, Engaged
  <2>3. CASE NeedsCard(s, tool, ref)
    <3> DEFINE c == [id |-> x.call, session |-> s, answer |-> "none"]
    <3>1. cards' = cards \cup {c} /\ flow' = [flow EXCEPT ![f] = x] /\ acts' = acts
      BY <1>1, <2>3 DEF BeginCall
    <3>2. c \in Card /\ c.id = calls + 1
      BY <1>t DEF Card
    <3> HIDE DEF x, c
    <3>3. \A d \in cards : d.id # calls + 1
      BY <1>t DEF PairInv, Numbered
    <3>4. Numbered' /\ OneCard'
      BY <3>1, <3>2, <3>3, <2>2, <1>t DEF PairInv, Numbered, OneCard
    <3>5. flow'[f] = x /\ flow' \in [Flow -> FlowState] /\ \A g \in Flow \ {f} : flow'[g] = flow[g]
      BY <3>1, <2>1, <1>t
    <3> QED
      BY <3>1, <3>2, <3>4, <3>5, <2>1, <2>2, <1>t, FlowMoves DEF Waiting
  <2>4. CASE ~NeedsCard(s, tool, ref)
    <3>1. Issue(f, x, FALSE) /\ cards' = cards
      BY <1>1, <2>4 DEF BeginCall
    <3> HIDE DEF x
    <3>2. calls' \in Nat /\ calls' >= calls /\ x.call \in 1 .. calls' /\ x.call > calls
          /\ x.session \in Session /\ x.ref \in Ref /\ cards' \subseteq cards
          /\ \A c \in cards : c \in cards'
      BY <3>1, <2>1, <2>2, <1>t
    <3> QED
      BY <3>1, <3>2, <2>1, <2>2, <1>t, IssueKeeps, Zenon
  <2> QED
    BY <2>3, <2>4
<1>2. ASSUME NEW f \in Flow, AwaitAnswer(f) PROVE PairInv'
  <2>1. [flow[f] EXCEPT !.pc = "asked"] \in FlowState
    BY <1>t DEF FlowState
  <2>2. flow' = [flow EXCEPT ![f] = [flow[f] EXCEPT !.pc = "asked"]] /\ flow[f].pc = "card"
        /\ acts' = acts /\ cards' = cards /\ calls' = calls
    BY <1>2 DEF AwaitAnswer
  <2>3. /\ flow'[f].pc = "asked" /\ flow'[f].call = flow[f].call
        /\ flow'[f].session = flow[f].session /\ flow'[f].ref = flow[f].ref
        /\ flow' \in [Flow -> FlowState] /\ \A g \in Flow \ {f} : flow'[g] = flow[g]
    BY <2>1, <2>2, <1>t DEF FlowState
  <2>4. flow[f].session \in Session /\ flow[f].ref \in Ref /\ flow[f].call \in 1 .. calls
        /\ \E c \in cards : c.id = flow[f].call
    BY <2>2, MyCardIsThere DEF PairInv, Posed, Engaged
  <2>5. Numbered' /\ OneCard'
    BY <2>2 DEF PairInv, Numbered, OneCard
  <2> QED
    BY <2>2, <2>3, <2>4, <2>5, <1>t, FlowMoves DEF Waiting, Engaged
<1>3. ASSUME NEW f \in Flow, Answered(f) PROVE PairInv'
  <2>1. flow[f].pc = "asked" /\ cards' = cards \ {MyCard(f)} /\ calls' = calls
    BY <1>3 DEF Answered
  <2>2. MyCard(f) \in cards /\ MyCard(f).id = flow[f].call /\ ~Waiting(f) /\ Engaged(f)
    BY <2>1, MyCardIsThere DEF Waiting, Engaged
  <2>3. \A c \in cards : (\E g \in Flow \ {f} : Engaged(g) /\ flow[g].call = c.id) => c \in cards'
    BY <2>1, <2>2 DEF PairInv, Distinct
  <2>4. flow[f] \in FlowState /\ flow[f].session \in Session /\ flow[f].ref \in Ref /\ flow[f].call \in 1 .. calls
    BY <2>2, <1>t DEF PairInv, Posed
  <2>5. CASE Issue(f, flow[f], TRUE)
    <3>1. calls' \in Nat /\ calls' >= calls /\ flow[f].call \in 1 .. calls' /\ cards' \subseteq cards
      BY <2>1, <2>4, <1>t
    <3> QED
      BY <3>1, <2>2, <2>3, <2>4, <2>5, <1>t, IssueKeeps, Zenon
  <2>6. CASE flow' = [flow EXCEPT ![f] = Idle] /\ acts' = acts
    <3>1. flow'[f] = Idle /\ flow' \in [Flow -> FlowState] /\ \A g \in Flow \ {f} : flow'[g] = flow[g]
      BY <2>6, <1>t, <1>i
    <3>2. Numbered' /\ OneCard' /\ cards' \subseteq Card
      BY <2>1, <1>t DEF PairInv, Numbered, OneCard
    <3> QED
      BY <2>1, <2>2, <2>3, <2>6, <3>1, <3>2, <1>t, <1>i, FlowMoves DEF Waiting
  <2> QED
    BY <1>3, <2>5, <2>6 DEF Answered
<1>4. ASSUME NEW f \in Flow, Send(f) PROVE PairInv'
  <2>1. flow' = [flow EXCEPT ![f] = [flow[f] EXCEPT !.pc = "wait"]] /\ flow[f].pc = "sent"
        /\ acts' = acts /\ cards' = cards /\ calls' = calls
    BY <1>4 DEF Send
  <2>2. [flow[f] EXCEPT !.pc = "wait"] \in FlowState
    BY <1>t DEF FlowState
  <2>3. flow' \in [Flow -> FlowState] /\ flow'[f].pc = "wait" /\ \A g \in Flow : g # f => flow'[g] = flow[g]
    BY <2>1, <2>2, <1>t DEF FlowState
  <2>4. \A g \in Flow : /\ flow'[g].call = flow[g].call /\ flow'[g].session = flow[g].session
                         /\ flow'[g].ref = flow[g].ref /\ (Engaged(g)' <=> Engaged(g))
                         /\ (Waiting(g)' <=> Waiting(g))
                         /\ (flow'[g].pc \in {"card", "asked"} <=> flow[g].pc \in {"card", "asked"})
    BY <2>1, <2>3, <1>t DEF FlowState, Engaged, Waiting
  <2>5. ServerTypes' /\ Posed' /\ Distinct' /\ Numbered' /\ OneCard' /\ OwnSession'
    BY <2>1, <2>3, <2>4 DEF PairInv, ServerTypes, Posed, Distinct, Numbered, OneCard, OwnSession
  <2>6. FlowsAndActions'
    BY <2>1, <2>4 DEF PairInv, FlowsAndActions, NoOrphanAction, WaitsForSomething, OneDriver
  <2> QED
    BY <2>5, <2>6 DEF PairInv
<1>5. ASSUME NEW f \in Flow, FinishCall(f) PROVE PairInv'
  BY <1>5, ActionEnds DEF FinishCall, Waiting
<1>6. ASSUME NEW f \in Flow, CloseFlow(f) PROVE PairInv'
  <2>1. CASE Waiting(f)
    BY <1>6, <2>1, ActionEnds DEF CloseFlow, Waiting
  <2>2. CASE ~Waiting(f)
    <3>1. acts' = acts /\ calls' = calls /\ flow' = [flow EXCEPT ![f] = Idle] /\ flow[f].pc # "idle"
          /\ cards' = IF flow[f].pc = "asked" THEN cards \ {MyCard(f)} ELSE cards
      BY <1>6, <2>2 DEF CloseFlow, Waiting
    <3>2. flow'[f] = Idle /\ flow' \in [Flow -> FlowState] /\ \A g \in Flow \ {f} : flow'[g] = flow[g]
      BY <3>1, <1>t, <1>i
    <3>3. cards' \subseteq Card /\ Numbered' /\ OneCard'
      BY <3>1, <1>t DEF PairInv, Numbered, OneCard
    <3>4. \A c \in cards : (\E g \in Flow \ {f} : Engaged(g) /\ flow[g].call = c.id) => c \in cards'
      BY <3>1, MyCardIsThere DEF PairInv, Distinct, Engaged
    <3> QED
      BY <3>1, <3>2, <3>3, <3>4, <2>2, <1>t, <1>i, FlowMoves DEF Waiting
  <2> QED
    BY <2>1, <2>2
<1>7. ASSUME NEW c \in cards, NEW answer \in {"approved", "rejected"}, RespondCard(c, answer)
      PROVE  PairInv'
  <2>1. cards' = (cards \ {c}) \cup {[c EXCEPT !.answer = answer]} /\ acts' = acts
        /\ flow' = flow /\ calls' = calls
    BY <1>7 DEF RespondCard
  <2>2. [c EXCEPT !.answer = answer] \in Card /\ [c EXCEPT !.answer = answer].id = c.id
    BY <1>t DEF Card
  <2> QED
    BY <2>1, <2>2, <1>t, Answering, ZenonT(40) DEF PairInv, OneCard, FlowsAndActions, OneDriver
<1>8. ASSUME NEW m \in replies, RespondAct(m) PROVE PairInv'
  <2> DEFINE A(a) == IF a.id = m.id THEN [a EXCEPT !.answer = m.kind] ELSE a
  <2>1. acts' = {A(a) : a \in acts} /\ cards' = cards /\ flow' = flow /\ calls' = calls
    BY <1>8 DEF RespondAct
  <2>2. \A a \in acts : A(a) \in Act /\ A(a).id = a.id /\ A(a).session = a.session
    BY <1>8, <1>t DEF Act, Msg
  <2> HIDE DEF A
  <2>3. OneDriver' /\ OneCard'
    BY <2>1, <2>2 DEF PairInv, FlowsAndActions, OneDriver, OneCard
  <2> QED
    BY <2>1, <2>2, <2>3, <1>t, Answering
<1>9. ASSUME NEW s \in Session, CancelAll(s) PROVE PairInv'
  <2> DEFINE A(a) == IF a.session = s THEN [a EXCEPT !.answer = "cancelled"] ELSE a
             C(c) == IF c.session = s /\ c.answer = "none" THEN [c EXCEPT !.answer = "rejected"] ELSE c
  <2>1. acts' = {A(a) : a \in acts} /\ cards' = {C(c) : c \in cards} /\ flow' = flow /\ calls' = calls
    BY <1>9 DEF CancelAll
  <2>2. \A a \in acts : A(a) \in Act /\ A(a).id = a.id /\ A(a).session = a.session
    BY <1>t DEF Act, Answer
  <2>3. \A c \in cards : C(c) \in Card /\ C(c).id = c.id
    BY <1>t DEF Card
  <2> HIDE DEF A, C
  <2>4. OneDriver' /\ OneCard'
    BY <2>1, <2>2, <2>3 DEF PairInv, FlowsAndActions, OneDriver, OneCard
  <2> QED
    BY <2>1, <2>2, <2>3, <2>4, Answering
<1> QED
  BY <1>u, <1>1, <1>2, <1>3, <1>4, <1>5, <1>6, <1>7, <1>8, <1>9
  DEF Next, Server, ChatTurn, PageChanges, StartAct, AbortAct, Perform, Watchdog, server, browser, vars

-----------------------------------------------------------------------------
(* Type correctness.                                                           *)

ListOf == {[known |-> FALSE, list |-> {}]} \cup [known: {TRUE}, list: SUBSET Ref]
Deed   == [id: Nat, risky: BOOLEAN, danger: BOOLEAN]

LEMMA BrowserTypes ==
  ASSUME PairInv, TypeOK, [Next]_vars
  PROVE  page' \in Page /\ inbox' \subseteq Act /\ running' \subseteq Run /\ replies' \subseteq Msg
<1>t. page \in Page /\ inbox \subseteq Act /\ running \subseteq Run /\ replies \subseteq Msg /\ acts \subseteq Act
  BY DEF TypeOK
<1>u. CASE UNCHANGED <<page, inbox, running, replies>>
  BY <1>u, <1>t
<1>f. ASSUME NEW e \in Act, NEW kind \in Answer, Fails(e, kind)
      PROVE  page' \in Page /\ replies' \subseteq Msg
  <2>1. [id |-> e.id, kind |-> kind, list |-> NoList] \in Msg
    BY DEF Msg, Act, NoList
  <2> QED
    BY <1>f, <2>1, <1>t DEF Fails
<1>1. ASSUME NEW f \in Flow, Send(f)
      PROVE  page' = page /\ running' = running /\ replies' = replies /\ inbox' \subseteq Act
  <2>1. MyAct(f) \in Act
    BY <1>1, <1>t, MyActIsThere DEF Send, Waiting
  <2>2. [MyAct(f) EXCEPT !.answer = "none"] \in Act
    BY <2>1 DEF Act
  <2> QED
    BY <1>1, <2>2, <1>t DEF Send
<1>2. ASSUME NEW m \in replies, RespondAct(m)
      PROVE  page' = page /\ running' = running /\ inbox' = inbox /\ replies' \subseteq Msg
  BY <1>2, <1>t DEF RespondAct
<1>3. CASE PageChanges
  BY <1>3, <1>t DEF PageChanges, Page
<1>4. ASSUME NEW e \in inbox, StartAct(e)
      PROVE  page' \in Page /\ inbox' \subseteq Act /\ running' \subseteq Run /\ replies' \subseteq Msg
  <2>1. e \in Act /\ inbox' \subseteq Act /\ {"failed", "stale", "dangerous"} \subseteq Answer
    BY <1>4, <1>t DEF StartAct, Answer
  <2> DEFINE risky == e.tool = "write" /\ Dangerous(e.ref)
  <2>2. risky \in BOOLEAN
    OBVIOUS
  <2>3. [act |-> e, risky |-> risky, late |-> FALSE] \in Run
    BY <2>1, <2>2 DEF Run
  <2>4. \/ \E kind \in {"failed", "stale", "dangerous"} : Fails(e, kind) /\ running' = running
        \/ /\ running' = running \cup {[act |-> e, risky |-> risky, late |-> FALSE]}
           /\ page' = page /\ replies' = replies
    BY <1>4, Zenon DEF StartAct
  <2> HIDE DEF risky
  <2> QED
    BY <2>1, <2>3, <2>4, <1>f, <1>t
<1>5. ASSUME NEW r \in running, AbortAct(r) \/ Watchdog(r)
      PROVE  page' \in Page /\ inbox' = inbox /\ running' \subseteq Run /\ replies' \subseteq Msg
  <2>1. r.act \in Act /\ [r EXCEPT !.late = TRUE] \in Run
    BY <1>5, <1>t DEF Run
  <2>2. inbox' = inbox /\ running' \subseteq running \cup {[r EXCEPT !.late = TRUE]}
        /\ \E kind \in {"cancelled", "failed"} : Fails(r.act, kind)
    BY <1>5 DEF AbortAct, Watchdog
  <2> QED
    BY <2>1, <2>2, <1>f, <1>t DEF Answer
<1>6. ASSUME NEW r \in running, Perform(r)
      PROVE  page' \in Page /\ inbox' = inbox /\ running' \subseteq Run /\ replies' \subseteq Msg
  <2>1. r.act.id \in Nat /\ Seen \subseteq Ref /\ Seen \subseteq Snap /\ "ok" \in Answer
    BY <1>6, <1>t DEF Run, Act, Seen, Page, Snap, Answer
  <2>2. [id |-> r.act.id, kind |-> "ok", list |-> [known |-> TRUE, list |-> Seen]] \in Msg
    BY <2>1 DEF Msg
  <2>3. [page EXCEPT !.listed = Seen] \in Page
    BY <2>1, <1>t DEF Page
  <2> QED
    BY <1>6, <2>2, <2>3, <1>t DEF Perform, Succeeds
<1> QED
  BY <1>u, <1>1, <1>2, <1>3, <1>4, <1>5, <1>6, <1>t, ZenonT(40)
  DEF Next, Server, BeginCall, AwaitAnswer, Answered, FinishCall, CloseFlow, RespondCard, CancelAll, ChatTurn,
      browser, vars

LEMMA ContextTypes ==
  ASSUME PairInv, TypeOK, [Next]_vars
  PROVE  ctx' \in [Session -> Ctx] /\ fails' \in [Session -> Nat]
<1>t. ctx \in [Session -> Ctx] /\ fails \in [Session -> Nat] /\ page \in Page
  BY DEF TypeOK
<1>1. ASSUME NEW f \in Flow, FinishCall(f) PROVE ctx' = ctx /\ fails' \in [Session -> Nat]
  BY <1>1, <1>t DEF FinishCall, FailsAfter
<1>2. ASSUME NEW m \in replies, RespondAct(m) PROVE fails' = fails /\ ctx' \in [Session -> Ctx]
  <2>1. m.list.known => m.list \in Ctx
    <3>1. m.list \in ListOf
      BY <1>2 DEF TypeOK, Msg, ListOf
    <3>2. CASE m.list = [known |-> FALSE, list |-> {}]
      BY <3>2
    <3>3. CASE m.list \in [known: {TRUE}, list: SUBSET Ref]
      BY <3>3 DEF Ctx
    <3> QED
      BY <3>1, <3>2, <3>3 DEF ListOf
  <2> QED
    BY <1>2, <2>1, <1>t DEF RespondAct
<1>3. ASSUME NEW s \in Session, ChatTurn(s) PROVE fails' = fails /\ ctx' \in [Session -> Ctx]
  <2>1. [known |-> TRUE, list |-> (Declared \cap page.here) \cup page.listed] \in Ctx
    BY <1>t DEF Ctx, Page, Snap
  <2> QED
    BY <1>3, <2>1, <1>t DEF ChatTurn
<1>u. CASE UNCHANGED <<ctx, fails>>
  BY <1>u, <1>t
<1> QED
  BY <1>u, <1>1, <1>2, <1>3, <1>t, ZenonT(40)
  DEF Next, Server, BeginCall, AwaitAnswer, Answered, Send, CloseFlow, RespondCard, CancelAll, PageChanges, StartAct,
      AbortAct, Perform, Watchdog, server, vars

LEMMA HistTypes ==
  ASSUME PairInv, TypeOK, [Next]_vars
  PROVE  hist' \in Hist
<1>t. /\ hist \in Hist
      /\ hist.refused \in [Session -> Ref \cup {None}] /\ hist.streak \in [Session -> Nat]
      /\ hist.performed \subseteq Deed /\ hist.granted \subseteq Nat
  BY DEF TypeOK, Hist, Deed
<1>u. CASE hist' = hist
  BY <1>u, <1>t
<1>1. ASSUME NEW f \in Flow, NEW s \in Session, NEW tool \in Tool, NEW ref \in Ref,
             BeginCall(f, s, tool, ref)
      PROVE  hist' \in Hist
  <2> DEFINE new == [hist.refused EXCEPT ![s] = IF @ = ref THEN @ ELSE None]
  <2>1. new \in [Session -> Ref \cup {None}]
    BY <1>t
  <2>2. hist' = [hist EXCEPT !.refused = new]
    BY <1>1 DEF BeginCall
  <2> HIDE DEF new
  <2> QED
    BY <2>1, <2>2, <1>t DEF Hist
<1>2. ASSUME NEW f \in Flow, FinishCall(f) PROVE hist' \in Hist
  <2>1. MyAct(f) \in Act
    BY <1>2, MyActIsThere DEF FinishCall, Waiting, TypeOK
  <2> DEFINE a == MyAct(f)
             s == a.session
             kind == IF a.answer = "none" THEN "failed" ELSE a.answer
             refused == [hist.refused EXCEPT ![s] = IF kind = "dangerous" THEN a.ref ELSE None]
             streak == [hist.streak EXCEPT ![s] = IF kind = "stale" THEN @ + 1 ELSE 0]
  <2>2. refused \in [Session -> Ref \cup {None}] /\ streak \in [Session -> Nat]
    BY <2>1, <1>t DEF Act
  <2>3. hist' = [hist EXCEPT !.refused = refused, !.streak = streak]
    BY <1>2 DEF FinishCall
  <2> HIDE DEF refused, streak
  <2> QED
    BY <2>2, <2>3, <1>t DEF Hist
<1>3. ASSUME NEW c \in cards, NEW answer \in {"approved", "rejected"}, RespondCard(c, answer)
      PROVE  hist' \in Hist
  <2>1. c.id \in Nat
    BY DEF TypeOK, Card
  <2> QED
    BY <1>3, <2>1, <1>t DEF RespondCard, Hist
<1>4. ASSUME NEW r \in running, Perform(r) PROVE hist' \in Hist
  <2>1. r \in Run /\ r.act.id \in Nat /\ r.risky \in BOOLEAN /\ Dangerous(r.act.ref) \in BOOLEAN
    BY DEF TypeOK, Run, Act, Dangerous
  <2> DEFINE deed == [id |-> r.act.id, risky |-> r.risky, danger |-> Dangerous(r.act.ref)]
  <2>2. deed \in Deed
    BY <2>1 DEF Deed
  <2>3. hist' = hist \/ hist' = [hist EXCEPT !.performed = @ \cup {deed}]
    BY <1>4 DEF Perform
  <2> HIDE DEF deed
  <2> QED
    BY <2>2, <2>3, <1>t DEF Hist, Deed
<1> QED
  BY <1>u, <1>1, <1>2, <1>3, <1>4
  DEF Next, Server, AwaitAnswer, Answered, Send, CloseFlow, RespondAct, CancelAll, ChatTurn, PageChanges, StartAct,
      AbortAct, Watchdog, vars

TypeInv == TypeOK /\ PairInv

LEMMA TypeInit == Init => TypeInv
<1> SUFFICES ASSUME Init PROVE TypeInv
  OBVIOUS
<1>1. \A f \in Flow : flow[f].pc = "idle"
  BY DEF Init, Idle
<1>2. TypeOK
  <2>1. Idle \in FlowState /\ NoList \in Ctx /\ calls \in 0 .. MaxCalls
    BY UiAssumption DEF Idle, FlowState, NoList, Ctx, Init, Tool
  <2>2. page \in Page
    BY DEF Init, Page
  <2>3. hist \in Hist
    BY DEF Init, Hist
  <2> QED
    BY <2>1, <2>2, <2>3 DEF Init, TypeOK
<1>3. PairInv
  BY <1>1, <1>2 DEF Init, TypeOK, PairInv, ServerTypes, Posed, Distinct, Numbered, OneCard, OwnSession,
                    FlowsAndActions, NoOrphanAction, WaitsForSomething, OneDriver, Waiting, Engaged
<1> QED
  BY <1>2, <1>3 DEF TypeInv

LEMMA TypeStep == TypeInv /\ [Next]_vars => TypeInv'
<1> SUFFICES ASSUME TypeInv, [Next]_vars PROVE TypeInv'
  OBVIOUS
<1>1. PairInv'
  BY PairStep DEF TypeInv, TypeOK
<1>2. calls' \in 0 .. MaxCalls
  <2>1. \/ calls' = calls
        \/ calls < MaxCalls /\ calls' = calls + 1
    BY ZenonT(40) DEF Next, Server, BeginCall, AwaitAnswer, Answered, Send, FinishCall, CloseFlow, RespondCard, RespondAct,
           CancelAll, ChatTurn, PageChanges, StartAct, AbortAct, Perform, Watchdog, vars
  <2> QED
    BY <2>1, UiAssumption DEF TypeInv, TypeOK
<1>3. TypeOK'
  BY <1>1, <1>2, BrowserTypes, ContextTypes, HistTypes DEF TypeInv, TypeOK, PairInv, ServerTypes
<1> QED
  BY <1>1, <1>3 DEF TypeInv

(* The state has its types, and every call its place in it.                    *)
THEOREM TypesHold == Spec => []TypeOK
<1>1. TypeInv => TypeOK
  BY DEF TypeInv
<1> QED
  BY <1>1, TypeInit, TypeStep, PTL DEF Spec

(* Flows that wait and what they wait for come in pairs, one of them per       *)
(* session, through every answer, cancellation and end of a loop.              *)
THEOREM PairsHold == Spec => []FlowsAndActions
<1>1. TypeInv => FlowsAndActions
  BY DEF TypeInv, PairInv
<1> QED
  BY <1>1, TypeInit, TypeStep, PTL DEF Spec

-----------------------------------------------------------------------------
(* What is done in the page.                                                   *)

(* The user's approval travels with the call: from the card to the action that *)
(* the flow issues, from there to the browser, and to the operation that the   *)
(* runner has found dangerous and let pass.                                    *)
Consent == /\ \A c \in cards : c.answer = "approved" => c.id \in hist.granted
           /\ \A a \in acts \cup inbox : a.confirmed => a.id \in hist.granted
           /\ \A r \in running : r.risky => r.act.id \in hist.granted

LEMMA ConsentStep ==
  TypeInv /\ Consent /\ DangerousIsApproved /\ [Next]_vars => Consent' /\ DangerousIsApproved'
<1> SUFFICES ASSUME TypeInv, Consent, DangerousIsApproved, [Next]_vars
             PROVE  Consent' /\ DangerousIsApproved'
  OBVIOUS
<1>t. /\ cards \subseteq Card /\ acts \subseteq Act /\ inbox \subseteq Act /\ running \subseteq Run
      /\ hist \in Hist /\ PairInv /\ flow \in [Flow -> FlowState]
  BY DEF TypeInv, TypeOK
<1>d. DOMAIN hist = {"granted", "performed", "refused", "streak"}
  BY <1>t DEF Hist
<1>c. ASSUME hist'.granted = hist.granted, hist'.performed = hist.performed,
             \A c \in cards' : c.answer = "approved" => \E d \in cards : d.id = c.id /\ d.answer = "approved",
             \A a \in acts' \cup inbox' : a.confirmed => a.id \in hist.granted,
             \A r \in running' : r.risky => r.act.id \in hist.granted
      PROVE  Consent' /\ DangerousIsApproved'
  BY <1>c DEF Consent, DangerousIsApproved
<1>u. CASE UNCHANGED <<hist, cards, acts, inbox, running>>
  BY <1>u DEF Consent, DangerousIsApproved
<1>i. ASSUME NEW f \in Flow, NEW x \in FlowState, NEW confirmed \in BOOLEAN, Issue(f, x, confirmed),
             confirmed => x.call \in hist.granted
      PROVE  \A a \in acts' : a.confirmed => a.id \in hist.granted
  BY <1>i DEF Issue, Consent
<1>1. ASSUME NEW f \in Flow, NEW s \in Session, NEW tool \in Tool, NEW ref \in Ref,
             BeginCall(f, s, tool, ref)
      PROVE  Consent' /\ DangerousIsApproved'
  <2> DEFINE x == [pc |-> "card", call |-> calls + 1, session |-> s, tool |-> tool, ref |-> ref]
  <2>1. x \in FlowState
    BY DEF FlowState, TypeInv, TypeOK
  <2>2. hist'.granted = hist.granted /\ hist'.performed = hist.performed /\ inbox' = inbox /\ running' = running
    BY <1>1, <1>d DEF BeginCall, browser
  <2>3. \A c \in cards' : c \in cards \/ c.answer = "none"
    <3>1. [id |-> x.call, session |-> s, answer |-> "none"].answer = "none"
      OBVIOUS
    <3>2. cards' = cards \/ cards' = cards \cup {[id |-> x.call, session |-> s, answer |-> "none"]}
      BY <1>1 DEF BeginCall
    <3> QED
      BY <3>1, <3>2
  <2>4. acts' = acts \/ Issue(f, x, FALSE)
    BY <1>1 DEF BeginCall
  <2> HIDE DEF x
  <2>5. \A a \in acts' : a.confirmed => a.id \in hist.granted
    BY <2>1, <2>4, <1>i DEF Consent
  <2> QED
    BY <2>2, <2>3, <2>5, <1>c DEF Consent
<1>2. ASSUME NEW f \in Flow, Answered(f) PROVE Consent' /\ DangerousIsApproved'
  <2>1. MyCard(f) \in cards /\ MyCard(f).id = flow[f].call /\ flow[f] \in FlowState
    BY <1>2, <1>t, MyCardIsThere DEF Answered
  <2>2. acts' = acts \/ (MyCard(f).answer = "approved" /\ Issue(f, flow[f], TRUE))
    BY <1>2 DEF Answered, Approved
  <2>3. \A a \in acts' : a.confirmed => a.id \in hist.granted
    BY <2>1, <2>2, <1>i DEF Consent
  <2> QED
    BY <1>2, <2>3, <1>c DEF Answered, Consent, browser
<1>3. ASSUME NEW f \in Flow, Send(f) PROVE Consent' /\ DangerousIsApproved'
  <2> DEFINE e == [MyAct(f) EXCEPT !.answer = "none"]
  <2>1. MyAct(f) \in acts /\ MyAct(f) \in Act
    BY <1>3, <1>t, MyActIsThere DEF Send, Waiting
  <2>2. e.id = MyAct(f).id /\ e.confirmed = MyAct(f).confirmed
    BY <2>1 DEF Act
  <2>3. inbox' = inbox \cup {e} /\ UNCHANGED <<hist, cards, acts, running>>
    BY <1>3 DEF Send
  <2> HIDE DEF e
  <2> QED
    BY <2>1, <2>2, <2>3 DEF Consent, DangerousIsApproved
<1>4. ASSUME NEW f \in Flow, FinishCall(f) PROVE Consent' /\ DangerousIsApproved'
  <2>1. hist'.granted = hist.granted /\ hist'.performed = hist.performed /\ acts' \subseteq acts
    BY <1>4, <1>d DEF FinishCall
  <2> QED
    BY <1>4, <2>1, <1>c DEF FinishCall, Consent, browser
<1>5. ASSUME NEW f \in Flow, CloseFlow(f) PROVE Consent' /\ DangerousIsApproved'
  BY <1>5, <1>c DEF CloseFlow, Consent, browser
<1>6. ASSUME NEW c \in cards, NEW answer \in {"approved", "rejected"}, RespondCard(c, answer)
      PROVE  Consent' /\ DangerousIsApproved'
  <2>1. /\ hist.granted \subseteq hist'.granted /\ hist'.performed = hist.performed
        /\ answer = "approved" => c.id \in hist'.granted
    BY <1>6, <1>d DEF RespondCard
  <2>2. [c EXCEPT !.answer = answer].id = c.id /\ [c EXCEPT !.answer = answer].answer = answer
    BY <1>t DEF Card
  <2>3. cards' = (cards \ {c}) \cup {[c EXCEPT !.answer = answer]} /\ UNCHANGED <<acts, inbox, running>>
    BY <1>6 DEF RespondCard, browser
  <2> QED
    BY <2>1, <2>2, <2>3 DEF Consent, DangerousIsApproved
<1>7. ASSUME NEW m \in replies, RespondAct(m) PROVE Consent' /\ DangerousIsApproved'
  <2>1. \A a \in acts : [a EXCEPT !.answer = m.kind].id = a.id /\ ([a EXCEPT !.answer = m.kind].confirmed <=> a.confirmed)
    BY <1>t DEF Act
  <2>2. \A a \in acts' : a \in acts \/ \E b \in acts : a = [b EXCEPT !.answer = m.kind]
    BY <1>7 DEF RespondAct
  <2>3. ASSUME NEW a \in acts', a.confirmed PROVE a.id \in hist.granted
    <3>1. CASE a \in acts
      BY <3>1, <2>3 DEF Consent
    <3>2. ASSUME NEW b \in acts, a = [b EXCEPT !.answer = m.kind] PROVE a.id \in hist.granted
      <4>1. a.id = b.id /\ b.confirmed
        BY <3>2, <2>3, <2>1
      <4> QED
        BY <4>1 DEF Consent
    <3> QED
      BY <3>1, <3>2, <2>2
  <2> QED
    BY <1>7, <2>3, <1>c DEF RespondAct, Consent
<1>8. ASSUME NEW s \in Session, CancelAll(s) PROVE Consent' /\ DangerousIsApproved'
  <2>1. \A a \in acts : [a EXCEPT !.answer = "cancelled"].id = a.id
                         /\ ([a EXCEPT !.answer = "cancelled"].confirmed <=> a.confirmed)
    BY <1>t DEF Act
  <2>2. \A c \in cards : [c EXCEPT !.answer = "rejected"].answer = "rejected"
    BY <1>t DEF Card
  <2>3. \A a \in acts' : a \in acts \/ \E b \in acts : a = [b EXCEPT !.answer = "cancelled"]
    BY <1>8 DEF CancelAll
  <2>4. \A c \in cards' : c \in cards \/ c.answer = "rejected"
    BY <1>8, <2>2 DEF CancelAll
  <2>5. ASSUME NEW a \in acts', a.confirmed PROVE a.id \in hist.granted
    <3>1. CASE a \in acts
      BY <3>1, <2>5 DEF Consent
    <3>2. ASSUME NEW b \in acts, a = [b EXCEPT !.answer = "cancelled"] PROVE a.id \in hist.granted
      <4>1. a.id = b.id /\ b.confirmed
        BY <3>2, <2>5, <2>1
      <4> QED
        BY <4>1 DEF Consent
    <3> QED
      BY <3>1, <3>2, <2>3
  <2> QED
    BY <1>8, <2>4, <2>5, <1>c DEF CancelAll, Consent, browser
<1>9. ASSUME NEW e \in inbox, StartAct(e) PROVE Consent' /\ DangerousIsApproved'
  <2> DEFINE risky == e.tool = "write" /\ Dangerous(e.ref)
             r == [act |-> e, risky |-> risky, late |-> FALSE]
  <2>1. running' = running \/ (running' = running \cup {r} /\ (risky => e.confirmed))
    BY <1>9 DEF StartAct, Allowed
  <2>2. r.act = e /\ (r.risky <=> risky)
    OBVIOUS
  <2> HIDE DEF r, risky
  <2> QED
    BY <1>9, <2>1, <2>2, <1>c DEF StartAct, Consent, server
<1>10. ASSUME NEW r \in running, AbortAct(r) PROVE Consent' /\ DangerousIsApproved'
  BY <1>10, <1>c DEF AbortAct, Consent, server
<1>11. ASSUME NEW r \in running, Watchdog(r) PROVE Consent' /\ DangerousIsApproved'
  <2>1. [r EXCEPT !.late = TRUE].act = r.act /\ ([r EXCEPT !.late = TRUE].risky <=> r.risky)
    BY <1>t DEF Run
  <2> QED
    BY <1>11, <2>1, <1>c DEF Watchdog, Consent, server
<1>12. ASSUME NEW r \in running, Perform(r) PROVE Consent' /\ DangerousIsApproved'
  <2> DEFINE deed == [id |-> r.act.id, risky |-> r.risky, danger |-> Dangerous(r.act.ref)]
  <2>1. /\ hist'.granted = hist.granted
        /\ \A p \in hist'.performed : p \in hist.performed \/ p = deed
    BY <1>12, <1>d DEF Perform
  <2>2. deed.risky => deed.id \in hist.granted
    BY DEF Consent
  <2> HIDE DEF deed
  <2>3. DangerousIsApproved'
    BY <2>1, <2>2 DEF DangerousIsApproved
  <2> QED
    BY <1>12, <2>1, <2>3 DEF Perform, Consent, server
<1> QED
  BY <1>u, <1>1, <1>2, <1>3, <1>4, <1>5, <1>6, <1>7, <1>8, <1>9, <1>10, <1>11, <1>12
  DEF Next, Server, AwaitAnswer, ChatTurn, PageChanges, server, browser, vars

(* Whatever list the server had cached, however the page changed and whoever   *)
(* answered in its place: an operation that the page judged dangerous when it  *)
(* began was approved by the user in that very call.                           *)
THEOREM DangerNeedsConsent == Spec => []DangerousIsApproved
<1>1. Init => Consent /\ DangerousIsApproved
  BY DEF Init, Consent, DangerousIsApproved
<1> QED
  BY <1>1, TypeInit, TypeStep, ConsentStep, PTL DEF Spec
=============================================================================
