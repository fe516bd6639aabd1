------------------------------- MODULE Services -------------------------------
(* The services of one worker process: how they are started and released       *)
(* (interface/lifecycle.py), and the two that collect rows in the background,  *)
(* the recorder (observation/recorder.py) and the hooks (hooks/manager.py),    *)
(* whose workers carry out an action (hooks/dispatcher.py) and log it.         *)
(*                                                                             *)
(* The code between two awaits is one step.  The queues are sets: nothing here *)
(* depends on the order in which rows are taken.                               *)
EXTENDS Integers, FiniteSets

CONSTANTS
    Turn,         \* turns, room members, scheduled attempts and background tasks
    Row, Call,    \* rows for the recorder, calls of hooks
    BatchSize, MaxQueue,
    MaxMishaps    \* bound: cancellations, cleanups that raise and writes that fail

ASSUME ServiceAssumption == BatchSize \in Nat \ {0} /\ MaxQueue \in Nat /\ MaxMishaps \in Nat

Order == <<"database", "sandbox", "mcp", "langfuse", "recorder", "hooks", "tasks", "rooms", "chat",
           "broker", "scheduler", "channels">>
Place == [s \in {Order[i] : i \in DOMAIN Order} |-> CHOOSE i \in DOMAIN Order : Order[i] = s]
Service == DOMAIN Place
Fatal     == {"database", "sandbox", "langfuse", "recorder", "hooks"}
Optional  == {"scheduler", "channels"}
Awaited   == {"database", "sandbox", "mcp"} \cup Optional
Published == {"sandbox", "mcp", "recorder", "hooks"}
Owners    == {"tasks", "rooms", "chat", "scheduler", "channels"}

VARIABLES
    phase,        \* of the lifespan: starting, up, closing or down
    srv,          \* per service: absent, starting, running, closing or closed
    public,       \* those that the application and the module globals show
    cleanups,     \* history: how often the cleanup of a service ran
    work,         \* new, over, or who cancels it ("nobody": a usage record being written)
    item,         \* where a row or a call is; "out" once it is put aside to be written
    loop, flush,  \* per collector: what its loop and its shutdown are writing
    written,      \* history: how often a row was written
    mishap
ovars == <<phase, srv, public, cleanups, work, item, loop, flush, written, mishap>>

Collector == {"rows", "logs"}
Of == [c \in Collector |-> IF c = "rows" THEN Row ELSE Call]
Item == Row \cup Call
OTypeOK ==
    /\ phase \in {"starting", "up", "closing", "down"} /\ public \subseteq Service
    /\ srv \in [Service -> {"absent", "starting", "running", "closing", "closed"}]
    /\ cleanups \in [Service -> Nat] /\ written \in [Item -> Nat] /\ mishap \in 0 .. MaxMishaps
    /\ work \in [Turn -> {"new", "over", "nobody"} \cup Owners]
    /\ item \in [Item -> {"none", "fired", "acting", "quiet", "queue", "batch", "out", "stored", "lost"}]
    /\ \A c \in Collector : loop[c] \subseteq Of[c] /\ flush[c] \subseteq Of[c]

OInit ==
    /\ phase = "starting" /\ srv = [s \in Service |-> "absent"] /\ public = {}
    /\ cleanups = [s \in Service |-> 0] /\ work = [w \in Turn |-> "new"]
    /\ item = [i \in Item |-> "none"] /\ written = [i \in Item |-> 0] /\ mishap = 0
    /\ loop = [c \in Collector |-> {}] /\ flush = loop
Trips == mishap < MaxMishaps /\ mishap' = mishap + 1
collected == <<item, loop, flush, written>>

-----------------------------------------------------------------------------
(* Starting.                                                                 *)

Awaiting == \E s \in Service : srv[s] \in {"starting", "closing"}
\* Registered before it is started: from then on it is cleaned up.
StartService(s) ==
    /\ phase = "starting" /\ ~Awaiting /\ srv[s] = "absent"
    /\ \A t \in Service : Place[t] < Place[s] => srv[t] # "absent"
    /\ srv' = [srv EXCEPT ![s] = IF s \in Awaited THEN "starting" ELSE "running"]
    /\ public' = public \cup ({s} \cap Published)
    /\ UNCHANGED <<phase, cleanups, work, collected, mishap>>
Started(s) ==
    /\ phase = "starting" /\ srv[s] = "starting" /\ srv' = [srv EXCEPT ![s] = "running"]
    /\ public' = public \cup ({s} \cap (Published \cup Optional))
    /\ UNCHANGED <<phase, cleanups, work, collected, mishap>>
Up == /\ phase = "starting" /\ phase' = "up" /\ ~Awaiting /\ \A s \in Service : srv[s] # "absent"
      /\ UNCHANGED <<srv, public, cleanups, work, collected, mishap>>

(* The lifespan ends: a start that failed, a cancellation or the usual way.  *)
Unwind == phase' = "closing" /\ UNCHANGED <<public, cleanups, work, collected>>
StartFails(s) ==
    /\ phase = "starting" /\ s \in Fatal /\ Trips /\ Unwind /\ UNCHANGED srv
    /\ \A t \in Service : Place[t] > Place[s] => srv[t] = "absent"
    /\ srv[s] = IF s \in Awaited THEN "starting" ELSE "running"
StartCancelled == phase = "starting" /\ (\E s \in Service : srv[s] = "starting") /\ Trips /\ Unwind
                  /\ UNCHANGED srv
Leave == phase = "up" /\ Unwind /\ UNCHANGED <<srv, mishap>>

-----------------------------------------------------------------------------
(* Releasing: five stacks, one inside the other, each last in, first out.      *)

Layer(s) == CASE s = "database" -> 1 [] s \in {"langfuse", "recorder"} -> 2
              [] s \in {"sandbox", "mcp", "hooks"} -> 3
              [] s \in {"tasks", "rooms", "chat", "broker"} -> 4 [] OTHER -> 5
Owned(s) == srv[s] \in {"starting", "running"}
Above(s, t) == Layer(s) > Layer(t) \/ (Layer(s) = Layer(t) /\ Place[s] >= Place[t])

(* A write ends: committed, or not.                                            *)
Ends(c, b, as, l, f) ==
    /\ item' = [i \in Item |-> IF i \in b THEN as ELSE item[i]]
    /\ written' = [i \in Item |-> IF i \in b /\ as = "stored" THEN written[i] + 1 ELSE written[i]]
    /\ loop' = [loop EXCEPT ![c] = l] /\ flush' = [flush EXCEPT ![c] = f]
(* The batch is put aside before it is written: nobody else writes it too.     *)
Aside == "out"
Batch(c) == {i \in Of[c] : item[i] = "batch"}
PutAside(b) == [i \in Item |-> IF i \in b THEN Aside ELSE item[i]]

(* The recorder flushes its batch while its loop goes on; the hooks cancel all *)
(* they run, the write of their loop too, and flush after that.                *)
CloseNow(s) ==
    /\ srv' = [srv EXCEPT ![s] = "closing"] /\ cleanups' = [cleanups EXCEPT ![s] = @ + 1]
    /\ CASE s = "recorder" -> /\ flush' = [flush EXCEPT !["rows"] = Batch("rows")]
                              /\ item' = PutAside(Batch("rows")) /\ UNCHANGED <<loop, written>>
         [] s = "hooks" -> \E as \in {"stored", "lost"} :
                /\ Ends("logs", loop["logs"] \cup {i \in Call : item[i] = "acting"}, as, {}, {})
         [] OTHER -> UNCHANGED collected
    /\ UNCHANGED <<phase, public, work, mishap>>
Close(s) == /\ phase = "closing" /\ Owned(s) /\ \A t \in Service : Owned(t) => Above(s, t)
            /\ ~\E t \in Service : srv[t] = "closing"
            /\ CloseNow(s)
\* release_optional: an integration that does not start is released at once.
StartFailsOptional(s) == phase = "starting" /\ s \in Optional /\ srv[s] = "starting" /\ CloseNow(s)

Waits(s) == \A w \in Turn : work[w] # s
Withdrawn(s) == public' = public \ ({s} \cap Optional)
(* The cleanup returns.  The recorder cancels its loop last, in a write or     *)
(* not: what is left in its queue and in its new batch stays there.            *)
Closed(s) ==
    /\ srv[s] = "closing" /\ Waits(s) /\ Withdrawn(s)
    /\ srv' = [srv EXCEPT ![s] = "closed"]
    /\ CASE s = "recorder" -> flush["rows"] = {} /\ \E as \in {"stored", "lost"} :
                                 Ends("rows", loop["rows"], as, {}, {})
         [] s = "hooks" -> Batch("logs") = {} /\ flush["logs"] = {} /\ UNCHANGED collected
         [] OTHER -> UNCHANGED collected
    /\ UNCHANGED <<phase, cleanups, work, mishap>>
(* It raises or is cancelled: its flag was set before, the others are still    *)
(* released.  A write that was under way may have been committed; what the     *)
(* hooks have not flushed stays in their batch.                                *)
AfterRaising(s) == "closed"
ClosedRaising(s) ==
    /\ srv[s] = "closing" /\ Waits(s) /\ Trips /\ Withdrawn(s) /\ phase' = "closing"
    /\ srv' = [srv EXCEPT ![s] = AfterRaising(s)]
    /\ CASE s = "recorder" -> \E as \in {"stored", "lost"} :
                                 Ends("rows", loop["rows"] \cup flush["rows"], as, {}, {})
         [] s = "hooks" -> \E as \in {"stored", "lost"} : Ends("logs", flush["logs"], as, {}, {})
         [] OTHER -> UNCHANGED collected
    /\ UNCHANGED <<cleanups, work>>
Down == /\ phase = "closing" /\ \A s \in Service : srv[s] \in {"absent", "closed"}
        /\ phase' = "down" /\ public' = {}
        /\ UNCHANGED <<srv, cleanups, work, collected, mishap>>

-----------------------------------------------------------------------------
(* What is done meanwhile.  Requests come while the application is up,         *)
(* occurrences and messages while the scheduler and the channels are there.    *)

Accepts(o) == CASE o \in {"chat", "rooms"} -> phase = "up"
                [] o \in Optional -> srv[o] \in {"starting", "running"} /\ phase # "down"
                [] OTHER -> FALSE
StartWork(w, o) == /\ work[w] = "new" /\ Accepts(o) /\ work' = [work EXCEPT ![w] = o]
                   /\ UNCHANGED <<phase, srv, public, cleanups, collected, mishap>>
\* It ends, or goes on as a background task (a title, a summary, memories), or
\* what it used is being recorded in a task that nobody owns.
EndWork(w) ==
    /\ work[w] \in Owners \cup {"nobody"}
    /\ \/ work' = [work EXCEPT ![w] = "over"]
       \/ work[w] # "nobody" /\ work' = [work EXCEPT ![w] = "nobody"]
       \/ work[w] \in {"chat", "channels"} /\ work' = [work EXCEPT ![w] = "tasks"]
    /\ UNCHANGED <<phase, srv, public, cleanups, collected, mishap>>

Full(S, at) == Cardinality({i \in S : item[i] = at}) >= MaxQueue
others == <<phase, srv, public, cleanups, work, loop, flush, written, mishap>>
Move(i, at) == item' = [item EXCEPT ![i] = at] /\ UNCHANGED others
Record(w, i) == /\ work[w] \in Owners /\ i \in Row /\ item[i] = "none"
                /\ Move(i, IF Full(Row, "queue") THEN "lost" ELSE "queue")
(* _fire: only between start and shutdown, and never from inside an action.    *)
FireHook(w, i) == /\ work[w] \in Owners /\ i \in Call /\ item[i] = "none"
              /\ Move(i, IF srv["hooks"] # "running" \/ Full(Call, "fired") THEN "lost" ELSE "fired")
Act(i) == i \in Call /\ item[i] = "fired" /\ srv["hooks"] = "running" /\ Move(i, "acting")
(* Success, failure and timeout are logged alike; frequent events are not.     *)
Acted(i) == item[i] = "acting" /\ \/ Move(i, IF Full(Call, "queue") THEN "lost" ELSE "queue")
                                  \/ Move(i, "quiet")

-----------------------------------------------------------------------------
(* The loops that write.                                                     *)

Free(c) == loop[c] = {} /\ IF c = "rows" THEN srv["recorder"] \in {"running", "closing"}
                                         ELSE srv["hooks"] = "running"
Write(c, b) == /\ item' = PutAside(b) /\ loop' = [loop EXCEPT ![c] = b]
               /\ UNCHANGED <<phase, srv, public, cleanups, work, flush, written, mishap>>
Take(c, i) == /\ Free(c) /\ i \in Of[c] /\ item[i] = "queue"
              /\ LET b == Batch(c) \cup {i}
                 IN IF Cardinality(b) >= BatchSize THEN Write(c, b) ELSE Move(i, "batch")
Timeout(c) == /\ Free(c) /\ Batch(c) # {} /\ \A i \in Of[c] : item[i] # "queue"
              /\ Write(c, Batch(c))
\* The flush of the hooks, once their tasks are gone.
FlushLogs ==
    /\ srv["hooks"] = "closing" /\ Batch("logs") # {} /\ flush["logs"] = {}
    /\ flush' = [flush EXCEPT !["logs"] = Batch("logs")] /\ item' = PutAside(Batch("logs"))
    /\ UNCHANGED <<phase, srv, public, cleanups, work, loop, written, mishap>>
\* A write that fails is logged and its rows are gone.
Written(c) ==
    /\ \E as \in {"stored", "lost"} :
         /\ \/ loop[c] # {} /\ Ends(c, loop[c], as, {}, flush[c])
            \/ flush[c] # {} /\ Ends(c, flush[c], as, loop[c], {})
         /\ IF as = "lost" THEN Trips ELSE UNCHANGED mishap
    /\ UNCHANGED <<phase, srv, public, cleanups, work>>

ONext == \/ \E s \in Service : \/ StartService(s) \/ Started(s) \/ StartFails(s) \/ StartFailsOptional(s)
                               \/ Close(s) \/ Closed(s) \/ ClosedRaising(s)
         \/ Up \/ StartCancelled \/ Leave \/ Down \/ FlushLogs
         \/ \E w \in Turn : \/ EndWork(w) \/ \E o \in Owners : StartWork(w, o)
                            \/ \E i \in Item : Record(w, i) \/ FireHook(w, i)
         \/ \E i \in Call : Act(i) \/ Acted(i)
         \/ \E c \in Collector : Timeout(c) \/ Written(c) \/ \E i \in Of[c] : Take(c, i)
OSpec == OInit /\ [][ONext]_ovars

-----------------------------------------------------------------------------
(* Whatever fails, raises or is cancelled, and in whatever order the services  *)
(* were started: nothing runs without what it uses.  A turn, a room member or  *)
(* a scheduled attempt has its tools, its hooks, its recorder and its          *)
(* database; the action of a hook has its sandbox, a write its database.       *)
Needs == {"database", "sandbox", "mcp", "recorder", "hooks"}
HasWhatItUses ==
    /\ \A w \in Turn : work[w] \in Owners =>
         srv[work[w]] # "closed" /\ \A s \in Needs : srv[s] = "running"
    /\ \A i \in Call : item[i] = "acting" => srv["sandbox"] = "running"
    /\ \A c \in Collector : loop[c] \cup flush[c] # {} => srv["database"] = "running"

(* A service that was registered is released exactly once, and one that is     *)
(* gone is shown to nobody.                                                    *)
ReleasedOnce ==
    /\ \A s \in Service : cleanups[s] <= 1
    /\ phase = "down" => public = {} /\ \A s \in Service : srv[s] # "absent" => cleanups[s] = 1
    /\ \A s \in public \cap Optional : srv[s] # "closed"

(* A row is written at most once, whoever writes it: the loop, its timeout or  *)
(* the shutdown that flushes while the loop still runs.                        *)
WrittenOnce == \A i \in Item : written[i] <= 1

ServicesHold == HasWhatItUses /\ ReleasedOnce /\ WrittenOnce

-----------------------------------------------------------------------------
(* What the code does not keep.                                                *)

(* "cancels the refresh and the workers, flushes the logs that are left": what *)
(* is in the queue of the log, or in the recorder's after its flush, is lost.  *)
NothingLeft == phase = "down" => \A i \in Item : item[i] \notin {"fired", "queue", "batch"}
(* "observations -> database": the records of usage are tasks nobody owns.     *)
UsageHasItsDatabase == \A w \in Turn : work[w] = "nobody" => srv["database"] = "running"
=============================================================================
