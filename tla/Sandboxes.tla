------------------------------ MODULE Sandboxes -------------------------------
(* The sandbox of one user, shared by the backend workers of a host             *)
(* (sandbox/models.py), and the workspaces it loads from and syncs to object    *)
(* storage (storage/workspace.py).                                              *)
(*                                                                              *)
(* A task is a tool call, an upload of the chat page, or an upload or deletion  *)
(* of the files page; a worker stands for its own maintenance loop.  The steps  *)
(* of the lock's holder are interleaved with everything that takes no lock:     *)
(* object storage, the death of the container, the crash of a worker.           *)
EXTENDS Integers, FiniteSets

CONSTANTS
    Worker,
    Task,
    Workspace,
    File,
    MaxContainer,   \* bound: containers created
    MaxFailures,     \* bound: crashes, shutdowns, deaths and failures
    Op,             \* operations that a run of TLC admits
    Failure         \* troubles that a run of TLC admits

Tools == {"make", "erase", "result"}
Ops == Tools \cup {"upload", "page", "remove"}
Failures == {"crash", "shutdown", "death", "fault"}
NoHolder == "free"
ASSUME SandboxAssumption == /\ MaxContainer \in Nat /\ MaxFailures \in Nat
                            /\ Op \subseteq Ops /\ Failure \subseteq Failures
                            /\ Worker # {} /\ Workspace # {} /\ File # {}
                            /\ Worker \cap Task = {} /\ NoHolder \notin Worker \cup Task

Container == 0 .. MaxContainer      \* 0: none
SandboxStep == {"new", "enter", "ensure", "create", "start", "fetch", "unpack", "register",
       "ready", "run", "mirror", "live", "delete", "done", "failed"}

VARIABLES
    store,     \* per workspace: its files in object storage
    box,       \* per workspace: its files in the container
    cont,      \* the container: [id, st]
    meta,      \* the file beside the lock: [id, ws], the workspaces loaded
    holding,   \* the task or worker that holds the user's lock
    active,    \* per worker: the container of its handle
    idle,      \* the lock file was last touched longer than the TTL ago
    stale,     \* per worker: its handle looks expired in its memory
    tasks,     \* per task: [pc, op, on, ws, file, h (a container), new]
    loop,      \* per worker: [why, todo, at], at = {} or the workspace copied
    snap,      \* what the holder has read: files
    made,      \* history: files that commands made, per workspace
    durable,   \* history: files that syncs have stored, per workspace
    failures    \* troubles so far

bvars == <<store, box, cont, meta, holding, active, idle, stale, tasks, loop, snap,
           made, durable, failures>>

Files == [Workspace -> SUBSET File]
NoFiles == [w \in Workspace |-> {}]

BTypeOK ==
    /\ {store, box, made, durable} \subseteq Files
    /\ cont \in [id : Container, st : {"none", "created", "running", "exited"}]
    /\ meta \in [id : Container, ws : SUBSET Workspace]
    /\ holding \in Task \cup Worker \cup {NoHolder}
    /\ active \in [Worker -> Container]
    /\ idle \in BOOLEAN /\ stale \in [Worker -> BOOLEAN]
    /\ tasks \in [Task -> [pc : SandboxStep, op : Ops, on : Worker, ws : Workspace, file : File,
                          h : Container, new : BOOLEAN]]
    /\ loop \in [Worker -> [why : {"rest", "sync", "reclaim", "shutdown"},
                            todo : SUBSET Workspace, at : SUBSET Workspace]]
    /\ snap \in SUBSET File
    /\ failures \in 0 .. MaxFailures

Rest == [why |-> "rest", todo |-> {}, at |-> {}]

BInit ==
    /\ store = NoFiles /\ box = NoFiles /\ made = NoFiles /\ durable = NoFiles
    /\ cont = [id |-> 0, st |-> "none"] /\ meta = [id |-> 0, ws |-> {}]
    /\ holding = NoHolder /\ active = [k \in Worker |-> 0]
    /\ idle = FALSE /\ stale = [k \in Worker |-> FALSE]
    /\ tasks = [t \in Task |-> [pc |-> "new", op |-> "make", on |-> CHOOSE k \in Worker : TRUE,
                               ws |-> CHOOSE w \in Workspace : TRUE,
                               file |-> CHOOSE f \in File : TRUE, h |-> 0, new |-> FALSE]]
    /\ loop = [k \in Worker |-> Rest]
    /\ snap = {} /\ failures = 0

--------------------------------------------------------------------------------
\* Mutant for TLC: the container is looked up by its name, not its id.
IsAliveBug(h) == h # 0 /\ cont.st = "running"

IsAlive(h) == h # 0 /\ cont = [id |-> h, st |-> "running"]

\* _read_workspaces: the file names the container it is about.
IsKnown(h) == meta.id = h
Loaded(h, w) == IsKnown(h) /\ w \in meta.ws

Go(t, pc) == tasks' = [tasks EXCEPT ![t].pc = pc]
GoWith(t, pc, h) == tasks' = [tasks EXCEPT ![t].pc = pc, ![t].h = h]

Touch(k) == idle' = FALSE /\ stale' = [stale EXCEPT ![k] = FALSE]

Gone == cont' = [cont EXCEPT !.st = "none"] /\ box' = NoFiles

RemovedFrom(w) == {tasks[t].file : t \in {u \in Task : /\ tasks[u].op \in {"erase", "remove"}
                                                  /\ tasks[u].pc # "new" /\ tasks[u].ws = w}}

Hit(what) == what \in Failure /\ failures < MaxFailures /\ failures' = failures + 1

--------------------------------------------------------------------------------
(* Tasks *)

\* A request of the files page uses the handle of its own worker if that looks
\* alive; an upload is in object storage before the sandbox hears of it.
Request(t, k, o, w, f) ==
    LET live == active[k] # 0 /\ ~stale[k]
        next == CASE o \in Tools \cup {"upload"} -> "enter"
                  [] o \in {"page", "remove"} /\ live -> "live"
                  [] o = "page" /\ ~live -> "done"
                  [] OTHER -> "delete"
    IN
    /\ tasks[t].pc = "new" /\ o \in Op
    /\ IF o \in {"erase", "remove"} THEN f \in (store[w] \cup box[w]) \ RemovedFrom(w)
       ELSE \A u \in Task : tasks[u].pc # "new" => tasks[u].file # f
    /\ tasks' = [tasks EXCEPT ![t] = [pc |-> next, op |-> o, on |-> k, ws |-> w, file |-> f,
                                    h |-> active[k], new |-> FALSE]]
    /\ store' = IF o \in {"upload", "page"} THEN [store EXCEPT ![w] = @ \cup {f}] ELSE store
    /\ UNCHANGED <<box, cont, meta, holding, active, idle, stale, loop, snap, made, durable, failures>>

\* get_or_create and inject_uploaded_file, as far as the handle of the worker
\* and, without a live one, the discovery of the user's container decide.
Enter(t) ==
    LET k == tasks[t].on
        tool == tasks[t].op \in Tools
        seeks == IF tool THEN ~IsAlive(active[k]) ELSE active[k] = 0
    IN
    /\ tasks[t].pc = "enter" /\ holding = NoHolder
    /\ active' = IF tool /\ seeks THEN [active EXCEPT ![k] = 0] ELSE active
    /\ \/ /\ IsAlive(active[k])
          /\ holding' = t /\ GoWith(t, "ensure", active[k]) /\ UNCHANGED <<cont, box>>
       \/ /\ ~IsAlive(active[k]) /\ ~seeks
          /\ Go(t, "done") /\ UNCHANGED <<holding, cont, box>>
       \/ /\ seeks /\ cont.st = "running" /\ IsKnown(cont.id)
          /\ holding' = t /\ GoWith(t, "ensure", cont.id) /\ UNCHANGED <<cont, box>>
       \/ /\ seeks /\ cont.st = "running" /\ ~IsKnown(cont.id)
          /\ Go(t, IF tool THEN "failed" ELSE "done") /\ UNCHANGED <<holding, cont, box>>
       \/ /\ seeks /\ cont.st # "running" /\ Gone
          /\ IF tool THEN holding' = t /\ Go(t, "create") ELSE holding' = holding /\ Go(t, "done")
    /\ UNCHANGED <<store, meta, idle, stale, loop, snap, made, durable, failures>>

\* _create; the workspace directory is a fresh tmpfs.
Create(t) ==
    /\ tasks[t].pc = "create" /\ cont.id < MaxContainer
    /\ cont' = [id |-> cont.id + 1, st |-> "created"]
    /\ tasks' = [tasks EXCEPT ![t].pc = "start", ![t].h = cont.id + 1, ![t].new = TRUE]
    /\ UNCHANGED <<store, box, meta, holding, active, idle, stale, loop, snap, made, durable, failures>>

Start(t) ==
    /\ tasks[t].pc = "start"
    /\ cont' = [cont EXCEPT !.st = "running"] /\ Go(t, "fetch")
    /\ UNCHANGED <<store, box, meta, holding, active, idle, stale, loop, snap, made, durable, failures>>

\* What a task does when its workspace is loaded: a tool call gives the lock back
\* and takes it again for its command, an upload goes on to write its file.
Return(t) ==
    IF tasks[t].op \in Tools
    THEN /\ Go(t, "ready") /\ holding' = NoHolder /\ Touch(tasks[t].on)
         /\ active' = [active EXCEPT ![tasks[t].on] = tasks[t].h]
    ELSE Go(t, "mirror") /\ UNCHANGED <<holding, active, idle, stale>>

\* _ensure_workspace
Ensure(t) ==
    /\ tasks[t].pc = "ensure" /\ IsKnown(tasks[t].h)
    /\ IF tasks[t].ws \in meta.ws THEN Return(t)
       ELSE Go(t, "fetch") /\ UNCHANGED <<holding, active, idle, stale>>
    /\ UNCHANGED <<store, box, cont, meta, loop, snap, made, durable, failures>>

\* _inject_workspace and inject_files: the files are read from object storage,
\* unpacked in the container, and only then is the workspace registered.
Fetch(t) ==
    /\ tasks[t].pc = "fetch" /\ IsAlive(tasks[t].h)
    /\ snap' = store[tasks[t].ws] /\ Go(t, "unpack")
    /\ UNCHANGED <<store, box, cont, meta, holding, active, idle, stale, loop, made, durable, failures>>

Unpack(t) ==
    LET w == tasks[t].ws IN
    /\ tasks[t].pc = "unpack" /\ IsAlive(tasks[t].h)
    /\ \/ /\ snap \subseteq box[w] /\ Go(t, "register") /\ box' = box
       \/ /\ tasks' = tasks
          /\ \E f \in snap \ box[w] : box' = [box EXCEPT ![w] = @ \cup {f}]
    /\ UNCHANGED <<store, cont, meta, holding, active, idle, stale, loop, snap, made, durable, failures>>

Register(t) ==
    /\ tasks[t].pc = "register"
    /\ meta' = [id |-> tasks[t].h,
                ws |-> (IF IsKnown(tasks[t].h) THEN meta.ws ELSE {}) \cup {tasks[t].ws}]
    /\ Return(t)
    /\ UNCHANGED <<store, box, cont, loop, snap, made, durable, failures>>

\* The second half of inject_uploaded_file.
Mirror(t) ==
    /\ tasks[t].pc = "mirror" /\ IsAlive(tasks[t].h)
    /\ box' = [box EXCEPT ![tasks[t].ws] = @ \cup {tasks[t].file}]
    /\ Touch(tasks[t].on) /\ holding' = NoHolder /\ Go(t, "done")
    /\ UNCHANGED <<store, cont, meta, active, loop, snap, made, durable, failures>>

\* execute: the container is looked up by the id of the handle.
Execute(t) ==
    /\ tasks[t].pc = "ready" /\ holding = NoHolder
    /\ IF IsAlive(tasks[t].h) THEN holding' = t /\ Go(t, "run") ELSE holding' = holding /\ Go(t, "failed")
    /\ UNCHANGED <<store, box, cont, meta, active, idle, stale, loop, snap, made, durable, failures>>

\* The command ends; write_workspace_file stores its file at once.
Command(t) ==
    LET w == tasks[t].ws
        f == tasks[t].file
    IN
    /\ tasks[t].pc = "run" /\ IsAlive(tasks[t].h)
    /\ box' = [box EXCEPT ![w] = IF tasks[t].op = "erase" THEN @ \ {f} ELSE @ \cup {f}]
    /\ made' = [made EXCEPT ![w] = IF tasks[t].op = "erase" THEN @ ELSE @ \cup {f}]
    /\ store' = [store EXCEPT ![w] = IF tasks[t].op = "result" THEN @ \cup {f} ELSE @]
    /\ Touch(tasks[t].on) /\ holding' = NoHolder /\ Go(t, "done")
    /\ UNCHANGED <<cont, meta, active, loop, snap, durable, failures>>

\* The files page writes into, or deletes from, the container of its handle,
\* whichever workspaces that has loaded; a failure is logged.
PageLive(t) ==
    LET w == tasks[t].ws
        adds == tasks[t].op = "page"
    IN
    /\ tasks[t].pc = "live" /\ holding = NoHolder
    /\ \/ /\ IsAlive(tasks[t].h) /\ Touch(tasks[t].on)
          /\ box' = [box EXCEPT ![w] = IF adds THEN @ \cup {tasks[t].file} ELSE @ \ {tasks[t].file}]
       \/ ~IsAlive(tasks[t].h) /\ UNCHANGED <<box, idle, stale>>
    /\ Go(t, IF adds THEN "done" ELSE "delete")
    /\ UNCHANGED <<store, cont, meta, holding, active, loop, snap, made, durable, failures>>

PageDelete(t) ==
    /\ tasks[t].pc = "delete"
    /\ store' = [store EXCEPT ![tasks[t].ws] = @ \ {tasks[t].file}] /\ Go(t, "done")
    /\ UNCHANGED <<box, cont, meta, holding, active, idle, stale, loop, snap, made, durable, failures>>

Holding == {"ensure", "create", "start", "fetch", "unpack", "register", "mirror", "run"}

\* An error or a cancellation: a cancelled caller keeps the lock until its call
\* to Docker has ended.  A container that the task created goes with it.
Fail(t) ==
    LET dead == tasks[t].pc \in {"fetch", "unpack", "mirror", "run"} /\ ~IsAlive(tasks[t].h)
        new == tasks[t].new /\ tasks[t].pc \in Holding \ {"run"}
    IN
    /\ tasks[t].pc \in Holding
    /\ IF dead THEN failures' = failures ELSE Hit("fault")
    /\ IF new THEN Gone ELSE UNCHANGED <<cont, box>>
    /\ Go(t, IF tasks[t].op = "upload" THEN "done" ELSE "failed") /\ holding' = NoHolder
    /\ UNCHANGED <<store, meta, active, idle, stale, loop, snap, made, durable>>

--------------------------------------------------------------------------------
(* Maintenance: _periodic_sync_loop, which skips a user whose lock is taken *)

Recover(k) ==
    /\ loop[k] = Rest /\ holding = NoHolder
    /\ \/ /\ cont.st \in {"created", "exited"} /\ Gone /\ UNCHANGED <<active, stale>>
       \/ /\ cont.st = "running" /\ IsKnown(cont.id) /\ active[k] # cont.id
          /\ active' = [active EXCEPT ![k] = cont.id]
          /\ stale' = [stale EXCEPT ![k] = idle] /\ UNCHANGED <<cont, box>>
    /\ UNCHANGED <<store, meta, holding, idle, tasks, loop, snap, made, durable, failures>>

\* cleanup_expired: the lock file tells of the activity of every worker.
Reclaim(k) ==
    /\ loop[k] = Rest /\ holding = NoHolder /\ active[k] # 0
    /\ \/ /\ ~idle /\ stale[k] /\ stale' = [stale EXCEPT ![k] = FALSE]
          /\ UNCHANGED <<holding, loop, active, cont, box>>
       \/ /\ idle /\ IsAlive(active[k]) /\ IsKnown(active[k]) /\ holding' = k
          /\ loop' = [loop EXCEPT ![k] = [why |-> "reclaim", todo |-> meta.ws, at |-> {}]]
          /\ UNCHANGED <<active, stale, cont, box>>
       \/ /\ idle /\ ~IsAlive(active[k])
          /\ active' = [active EXCEPT ![k] = 0]
          /\ IF cont.id = active[k] THEN Gone ELSE UNCHANGED <<cont, box>>
          /\ UNCHANGED <<holding, loop, stale>>
    /\ UNCHANGED <<store, meta, idle, tasks, snap, made, durable, failures>>

\* The periodic sync, and the one of shutdown, which leaves the container.
Sync(k) ==
    /\ loop[k] = Rest /\ holding = NoHolder /\ active[k] # 0 /\ IsAlive(active[k]) /\ IsKnown(active[k])
    /\ holding' = k
    /\ \/ failures' = failures /\ loop' = [loop EXCEPT ![k] = [why |-> "sync", todo |-> meta.ws, at |-> {}]]
       \/ /\ Hit("shutdown")
          /\ loop' = [loop EXCEPT ![k] = [why |-> "shutdown", todo |-> meta.ws, at |-> {}]]
    /\ UNCHANGED <<store, box, cont, meta, active, idle, stale, tasks, snap, made, durable>>

\* extract_and_sync: the container's files are read, then compared and stored;
\* stored files that the container has not are deleted.
Copy(k) ==
    /\ loop[k].at = {} /\ IsAlive(active[k])
    /\ \E w \in loop[k].todo : snap' = box[w] /\ loop' = [loop EXCEPT ![k].at = {w}]
    /\ UNCHANGED <<store, box, cont, meta, holding, active, idle, stale, tasks, made, durable, failures>>

Publish(k) ==
    \E w \in loop[k].at :
      /\ store' = [store EXCEPT ![w] = snap]
      /\ durable' = [durable EXCEPT ![w] = @ \cup snap]
      /\ loop' = [loop EXCEPT ![k].todo = @ \ {w}, ![k].at = {}]
      /\ UNCHANGED <<box, cont, meta, holding, active, idle, stale, tasks, snap, made, failures>>

\* A sync that fails, half done, leaves the container where it is.
SyncFails(k) ==
    /\ loop[k].why # "rest" /\ loop[k].todo # {}
    /\ IF IsAlive(active[k]) THEN Hit("fault") ELSE failures' = failures
    /\ \/ loop[k].at = {} /\ store' = store
       \/ \E w \in loop[k].at : \E s \in SUBSET (store[w] \cup snap) :
            /\ store[w] \cap snap \subseteq s
            /\ store' = [store EXCEPT ![w] = s]
    /\ loop' = [loop EXCEPT ![k] = Rest] /\ holding' = NoHolder
    /\ active' = IF loop[k].why = "shutdown" THEN [active EXCEPT ![k] = 0] ELSE active
    /\ UNCHANGED <<box, cont, meta, idle, stale, tasks, snap, made, durable>>

\* destroy removes the container only now; shutdown forgets it.
Finish(k) ==
    /\ loop[k].why # "rest" /\ loop[k].todo = {}
    /\ IF loop[k].why = "reclaim" THEN Gone ELSE UNCHANGED <<cont, box>>
    /\ active' = IF loop[k].why = "sync" THEN active ELSE [active EXCEPT ![k] = 0]
    /\ loop' = [loop EXCEPT ![k] = Rest] /\ holding' = NoHolder
    /\ UNCHANGED <<store, meta, idle, stale, tasks, snap, made, durable, failures>>

--------------------------------------------------------------------------------
(* The surroundings *)

TimePasses ==
    /\ ~idle /\ idle' = TRUE /\ stale' = [k \in Worker |-> TRUE]
    /\ UNCHANGED <<store, box, cont, meta, holding, active, tasks, loop, snap, made, durable, failures>>

\* The system frees the lock of a process that dies; a container it was creating
\* may still come to be.
WorkerDies(k) ==
    LET mine == {t \in Task : tasks[t].on = k /\ tasks[t].pc \notin {"new", "done", "failed"}} IN
    /\ Hit("crash")
    /\ tasks' = [t \in Task |-> IF t \in mine THEN [tasks[t] EXCEPT !.pc = "failed"] ELSE tasks[t]]
    /\ loop' = [loop EXCEPT ![k] = Rest]
    /\ active' = [active EXCEPT ![k] = 0] /\ stale' = [stale EXCEPT ![k] = FALSE]
    /\ holding' = IF holding \in mine \cup {k} THEN NoHolder ELSE holding
    /\ \/ cont' = cont
       \/ /\ \E t \in mine : tasks[t].pc = "create" /\ cont.id < MaxContainer
          /\ cont' = [id |-> cont.id + 1, st |-> "created"]
    /\ UNCHANGED <<store, box, meta, idle, snap, made, durable>>

\* The container stops; its files were in memory.
ContainerDies ==
    /\ Hit("death") /\ cont.st = "running"
    /\ cont' = [cont EXCEPT !.st = "exited"] /\ box' = NoFiles
    /\ made' = [w \in Workspace |-> made[w] \cap store[w]]
    /\ UNCHANGED <<store, meta, holding, active, idle, stale, tasks, loop, snap, durable>>

BNext ==
    \/ \E t \in Task :
         \/ \E k \in Worker, o \in Op, w \in Workspace, f \in File : Request(t, k, o, w, f)
         \/ Enter(t) \/ Create(t) \/ Start(t) \/ Ensure(t) \/ Fetch(t) \/ Unpack(t)
         \/ Register(t) \/ Mirror(t) \/ Execute(t) \/ Command(t) \/ PageLive(t)
         \/ PageDelete(t) \/ Fail(t)
    \/ \E k \in Worker :
         \/ Recover(k) \/ Reclaim(k) \/ Sync(k) \/ Copy(k) \/ Publish(k) \/ SyncFails(k)
         \/ Finish(k) \/ WorkerDies(k)
    \/ TimePasses \/ ContainerDies

BSpec == BInit /\ [][BNext]_bvars

--------------------------------------------------------------------------------
\* A file that a command made and reported is in the container or in object
\* storage until somebody removes it, whatever fails: a container is reclaimed
\* only after a sync of each of its workspaces, a failed sync keeps it
\* (sandbox/models.py:507), and no sync mistakes an empty or half-loaded
\* directory for the workspace.  Only the death of the container itself may lose
\* what no sync had stored.
WorkKept == \A w \in Workspace : made[w] \ RemovedFrom(w) \subseteq store[w] \cup box[w]

\* What a sync has stored stays stored: crashes between the start of a container
\* and the registration of its workspace, failed loads, deaths and the
\* replacement of the container by another worker's never let a later sync
\* delete it (models.py:690, "Never sync a partially initialized workspace back
\* over stored files").
DurableKept == \A w \in Workspace : durable[w] \ RemovedFrom(w) \subseteq store[w]

\* A command runs in the container that its call was given, where its workspace
\* is loaded with everything stored of it, although the lock was released and
\* taken again since.
RunsWhereLoaded ==
    \A t \in Task : tasks[t].pc = "run" /\ IsAlive(tasks[t].h) =>
      Loaded(tasks[t].h, tasks[t].ws)
      /\ durable[tasks[t].ws] \ RemovedFrom(tasks[t].ws) \subseteq box[tasks[t].ws]

\* Files survive whatever happens to processes, syncs and containers, and a
\* command finds them where it runs.
FilesKept == WorkKept /\ DurableKept /\ RunsWhereLoaded

\* Not kept, even without a failure: an upload that was answered is in the
\* container or in object storage.  A sync between put_file and the write into
\* the container deletes the new object; the write may then find no container,
\* or no handle that looks alive on its worker.
UploadKept ==
    \A t \in Task : tasks[t].op \in {"upload", "page"} /\ tasks[t].pc = "done" =>
      tasks[t].file \in store[tasks[t].ws] \cup box[tasks[t].ws] \cup RemovedFrom(tasks[t].ws)

\* Not kept: a file deleted on the files page stays deleted.  A worker without a
\* handle that looks alive deletes the object only; the next sync stores it again.
DeletedStaysDeleted ==
    \A t \in Task : tasks[t].op = "remove" /\ tasks[t].pc = "done" =>
      tasks[t].file \notin store[tasks[t].ws]
================================================================================
