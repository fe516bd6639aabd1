----------------------------- MODULE TaskEvents ------------------------------
(* Running channel tasks as others see them: the hash of a user in Redis       *)
(* (core/task_registry.py), the publications on it and their way to the queue  *)
(* of a connection and the pet that shows them (core/task_events.py).          *)
EXTENDS Integers, Sequences, FiniteSets, SequencesExt

CONSTANTS
    Chats,        \* chats whose turns note their tasks
    Session,      \* the session each drives; /switch may give two the same
    QueueMax,     \* _QUEUE_MAX: events of one connection
    MaxTurns,     \* bound: turns of each chat
    MaxBus,       \* bound: publications under way
    MaxOutages    \* bound: operations and connections that Redis fails

ASSUME EventsAssumption == /\ Session \in [Chats -> Chats]
                           /\ {QueueMax, MaxTurns, MaxBus} \subseteq Nat \ {0} /\ MaxOutages \in Nat

Sessions == {Session[c] : c \in Chats}
Task == Chats \X (1 .. MaxTurns)                      \* the turns of the chats
NoTask == <<>>
Kinds == {"started", "tool", "finished"}

VARIABLES
    hash,         \* the registry: the task the user's hash holds for each session
    aged,         \* tasks that began more than TASK_TTL_SECONDS ago
    doomed,       \* fields that somebody read as too old and is about to delete
    copy,         \* per chat: the entry task_tool has read
    wpc,          \* per chat: "idle", "started" (written, not told), "running", "read",
                  \* "tool", "finished"
    turns,        \* turns begun by each chat
    bus,          \* publications that Redis has not delivered
    listening,    \* the listener of this process is subscribed
    reader,       \* a connection: "off", "opening", "live"
    equeue,       \* its queue
    view,         \* the sessions its client shows as running
    lossy,        \* history: "no", or why a publication never came
    faded,        \* history: sessions whose task the registry or the page let go untold
    outages       \* failures so far

evars == <<hash, aged, doomed, copy, faded, wpc, turns, bus, listening, reader, equeue, view, lossy, outages>>
ETypeOK ==
    /\ hash \in [Sessions -> Task \cup {NoTask}] /\ copy \in [Chats -> Task \cup {NoTask}]
    /\ aged \subseteq Task /\ doomed \subseteq Sessions /\ faded \subseteq Sessions
    /\ wpc \in [Chats -> {"idle", "started", "running", "read", "tool", "finished"}]
    /\ turns \in [Chats -> 0 .. MaxTurns] /\ bus \in Seq(Kinds \X Sessions)
    /\ listening \in BOOLEAN /\ reader \in {"off", "opening", "live"}
    /\ equeue \in Seq(Kinds \X Sessions) /\ Len(equeue) <= QueueMax /\ view \subseteq Sessions
    /\ lossy \in {"no", "publish", "full", "deaf", "snapshot"} /\ outages \in 0 .. MaxOutages

EInit ==
    /\ hash = [s \in Sessions |-> NoTask] /\ copy = [c \in Chats |-> NoTask]
    /\ aged = {} /\ doomed = {} /\ faded = {} /\ wpc = [c \in Chats |-> "idle"]
    /\ turns = [c \in Chats |-> 0] /\ bus = <<>> /\ listening = FALSE /\ reader = "off"
    /\ equeue = <<>> /\ view = {} /\ lossy = "no" /\ outages = 0

-----------------------------------------------------------------------------
(* The writer.  Each operation is one round trip; of one that fails nothing is *)
(* told.                                                                       *)

conn == <<listening, reader, equeue, view>>
times == <<aged, doomed>>
Missed(why) == lossy' = IF lossy = "no" THEN why ELSE lossy
Write(c, pc, h, failed) ==
    \/ /\ wpc' = [wpc EXCEPT ![c] = pc] /\ hash' = [hash EXCEPT ![Session[c]] = h]
       /\ UNCHANGED <<bus, lossy, outages>>
    \/ /\ outages < MaxOutages /\ outages' = outages + 1 /\ wpc' = [wpc EXCEPT ![c] = failed]
       /\ UNCHANGED <<hash, bus, lossy>>
Publish(c, pc, kind) ==
    /\ wpc' = [wpc EXCEPT ![c] = pc] /\ UNCHANGED <<hash, copy, times, faded, turns, conn>>
    /\ \/ /\ Len(bus) < MaxBus /\ bus' = Append(bus, <<kind, Session[c]>>)
          /\ UNCHANGED <<lossy, outages>>
       \/ /\ outages < MaxOutages /\ outages' = outages + 1 /\ Missed("publish") /\ UNCHANGED bus

(* What was not told of a session is made up for by what is told next.         *)
Renewed(c) == faded' = IF outages' = outages THEN faded \ {Session[c]} ELSE faded
TaskStarted(c) ==
    /\ wpc[c] = "idle" /\ turns[c] < MaxTurns /\ turns' = [turns EXCEPT ![c] = @ + 1]
    /\ Write(c, "started", <<c, turns[c] + 1>>, "running") /\ Renewed(c)
    /\ UNCHANGED <<copy, times, conn>>
TellStarted(c) == wpc[c] = "started" /\ Publish(c, "running", "started")
(* task_tool reads the entry, edits it and writes it back.                     *)
ToolRead(c) == /\ wpc[c] = "running" /\ hash[Session[c]] # NoTask
               /\ Write(c, "read", hash[Session[c]], "running")
               /\ copy' = [copy EXCEPT ![c] = hash[Session[c]]]
               /\ UNCHANGED <<times, faded, turns, conn>>
ToolWrite(c) == /\ wpc[c] = "read" /\ Write(c, "tool", copy[c], "running")
                /\ copy' = [copy EXCEPT ![c] = NoTask]
                /\ UNCHANGED <<times, faded, turns, conn>>
TellTool(c) == wpc[c] = "tool" /\ Publish(c, "running", "tool")
TaskFinished(c) == /\ wpc[c] = "running" /\ Write(c, "finished", NoTask, "idle")
                   /\ Renewed(c) /\ UNCHANGED <<copy, times, turns, conn>>
TellFinished(c) == wpc[c] = "finished" /\ Publish(c, "idle", "finished")

(* An entry counts for 30 minutes from the start of its task.  Whoever lists   *)
(* the tasks, or asks for that of a session, skips an older one and deletes    *)
(* its field in a round trip of its own; and the hash goes as a whole 30       *)
(* minutes after its last write.  Nothing is published.                        *)
Listed(s) == hash[s] # NoTask /\ hash[s] \notin aged
Ages(t) == /\ t \in {hash[s] : s \in Sessions} \cup {copy[c] : c \in Chats} /\ t # NoTask
           /\ t \notin aged /\ aged' = aged \cup {t}
           /\ faded' = faded \cup {s \in Sessions : hash[s] = t}
           /\ UNCHANGED <<hash, copy, doomed, wpc, turns, bus, conn, lossy, outages>>
SeesOld(s) == /\ hash[s] \in aged /\ s \notin doomed /\ doomed' = doomed \cup {s}
              /\ UNCHANGED <<hash, copy, aged, faded, wpc, turns, bus, conn, lossy, outages>>
Prunes(s) == /\ s \in doomed /\ doomed' = doomed \ {s}
             /\ \/ hash' = [hash EXCEPT ![s] = NoTask] /\ faded' = faded \cup {s}
                   /\ UNCHANGED outages
                \/ /\ outages < MaxOutages /\ outages' = outages + 1 /\ UNCHANGED <<hash, faded>>
             /\ UNCHANGED <<copy, aged, wpc, turns, bus, conn, lossy>>
Expires == /\ \A s \in Sessions : ~Listed(s)
           /\ hash' = [s \in Sessions |-> NoTask]
           /\ UNCHANGED <<copy, times, faded, wpc, turns, bus, conn, lossy, outages>>

-----------------------------------------------------------------------------
(* The listener of the process and a connection.                               *)

entries == <<hash, aged, doomed, copy, faded, wpc, turns>>
Listen == /\ ~listening /\ reader # "off" /\ listening' = TRUE
          /\ UNCHANGED <<entries, bus, reader, equeue, view, lossy, outages>>
ListenerFails == /\ listening /\ outages < MaxOutages /\ outages' = outages + 1
                 /\ listening' = FALSE
                 /\ UNCHANGED <<entries, bus, reader, equeue, view, lossy>>
(* stream(): register the queue first, then read the snapshot, then the events.*)
FirstBug == "read"
First == "register"
Running == {s \in Sessions : Listed(s)}
Registered == reader = "live" \/ (reader = "opening" /\ First = "register")
Subscribe ==
    /\ reader = "off" /\ reader' = "opening"
    /\ view' = IF First = "register" THEN {} ELSE Running
    /\ lossy' = IF bus = <<>> THEN "no" ELSE lossy
    /\ UNCHANGED <<entries, bus, listening, equeue, outages>>
(* list_tasks: a registry that does not answer lists nothing.                  *)
ReadSnapshot ==
    /\ reader = "opening" /\ reader' = "live"
    /\ \/ /\ view' = IF First = "register" THEN Running ELSE view
          /\ UNCHANGED <<lossy, outages>>
       \/ /\ outages < MaxOutages /\ outages' = outages + 1 /\ view' = {} /\ Missed("snapshot")
    /\ UNCHANGED <<entries, bus, listening, equeue>>

(* _dispatch: to whoever is registered and has room.                           *)
Deliver ==
    /\ bus # <<>> /\ bus' = Tail(bus)
    /\ IF ~Registered THEN UNCHANGED <<equeue, lossy>>
       ELSE IF listening /\ Len(equeue) < QueueMax
       THEN equeue' = Append(equeue, Head(bus)) /\ UNCHANGED lossy
       ELSE Missed(IF listening THEN "full" ELSE "deaf") /\ UNCHANGED equeue
    /\ UNCHANGED <<entries, listening, reader, view, outages>>

(* applyRemoteTaskEvent of the page.                                           *)
Shown(e) == CASE e[1] = "started" -> view \cup {e[2]} [] e[1] = "finished" -> view \ {e[2]}
              [] OTHER -> view
Apply == /\ reader = "live" /\ equeue # <<>> /\ equeue' = Tail(equeue) /\ view' = Shown(Head(equeue))
         /\ UNCHANGED <<entries, bus, listening, reader, lossy, outages>>
(* The page takes away a task of which it heard nothing for 10 minutes, or that *)
(* the user closes.                                                            *)
Hides(s) == /\ reader = "live" /\ s \in view /\ view' = view \ {s} /\ faded' = faded \cup {s}
            /\ UNCHANGED <<hash, times, copy, wpc, turns, bus, listening, reader, equeue, lossy, outages>>
Disconnect == /\ reader # "off" /\ reader' = "off" /\ equeue' = <<>> /\ view' = {}
              /\ UNCHANGED <<entries, bus, listening, lossy, outages>>

ENext ==
    \/ \E c \in Chats : \/ TaskStarted(c) \/ TellStarted(c) \/ ToolRead(c) \/ ToolWrite(c)
                        \/ TellTool(c) \/ TaskFinished(c) \/ TellFinished(c)
    \/ \E t \in Task : Ages(t)
    \/ \E s \in Sessions : SeesOld(s) \/ Prunes(s) \/ Hides(s)
    \/ Expires \/ Listen \/ ListenerFails \/ Deliver \/ Subscribe \/ ReadSnapshot \/ Apply \/ Disconnect
ESpec == EInit /\ [][ENext]_evars

-----------------------------------------------------------------------------
(* However turns, publications, expiries and a connection interleave, a pet    *)
(* that has consumed its queue shows of each session what the registry lists,  *)
(* unless a publication was lost on the way, the registry let go of the        *)
(* session's task without telling - one of more than 30 minutes, or a later    *)
(* one that a late removal met - or the page did.  (Of the sessions that one   *)
(* chat drives.)                                                               *)
Own == {s \in Sessions : \A c, d \in Chats : Session[c] = s /\ Session[d] = s => c = d}
ViewConverges ==
    reader = "live" /\ lossy = "no" /\ equeue = <<>> /\ bus = <<>> =>
    \A c \in Chats : Session[c] \in Own \ faded /\ wpc[c] \notin {"started", "finished"} =>
        (Session[c] \in view <=> Session[c] \in Running)

-----------------------------------------------------------------------------
(* What the comments say and the code does not keep.                           *)

(* Subscribing before the snapshot loses nothing while Redis works and the     *)
(* queue has room: but the listener is only started, not awaited.              *)
NothingLost == outages = 0 => lossy # "deaf"
(* A task that runs is listed: not when two chats drive the same session and   *)
(* the other one's end removes the entry they share, not after 30 minutes, and *)
(* not when the removal of its session's last task comes late.                 *)
RunningIsListed == outages = 0 => \A c \in Chats : wpc[c] = "running" => hash[Session[c]] # NoTask
=============================================================================
