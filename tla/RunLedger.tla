------------------------------ MODULE RunLedger ------------------------------
(* What core/chat_runs.py promises to its callers, with no workers, leases,    *)
(* heartbeats or processes: a session has one running task at a time; a task   *)
(* only grows while it runs and is closed once; a continuation is opened from  *)
(* the newest task of its session; and no tool call takes effect twice along a *)
(* chain of continuations.                                                     *)
EXTENDS Naturals, Sequences

CONSTANTS Run,       \* task identities: naturals, in order of creation
          Session, Call, None

Closed == {"completed", "failed", "interrupted", "stopped"}

VARIABLES status,    \* Run -> "absent", "running" or a member of Closed
          session,   \* Run -> the session of an opened task
          log,       \* Run -> its events
          lineage,   \* Run -> the tasks it continues
          effect     \* Run -> the calls it has executed

lvars == <<status, session, log, lineage, effect>>

LInit == /\ status = [r \in Run |-> "absent"]
         /\ session = [r \in Run |-> None]
         /\ log = [r \in Run |-> <<>>]
         /\ lineage = [r \in Run |-> {}]
         /\ effect = [r \in Run |-> {}]

States == {"absent", "running"} \cup Closed
MayClose(r) == \/ status'[r] = status[r]
               \/ status[r] = "running" /\ status'[r] \in Closed

(* Running tasks are closed, several at once when a server goes down.          *)
LClose == /\ status' \in [Run -> States]
          /\ \A r \in Run : MayClose(r)
          /\ UNCHANGED <<session, log, lineage, effect>>

(* A task is opened when no other of its session is left running: one that was *)
(* is closed by the same step.  A continuation follows the newest task only.   *)
LOpen(r, s) ==
    /\ status[r] = "absent" /\ \A q \in Run : session[q] = s => q < r
    /\ status' \in [Run -> States] /\ status'[r] = "running"
    /\ \A q \in Run \ {r} :
          MayClose(q) /\ (session[q] = s => status'[q] # "running")
    /\ session' = [session EXCEPT ![r] = s]
    /\ \/ lineage' = lineage
       \/ \E from \in Run :
             /\ session[from] = s /\ \A q \in Run : session[q] = s => q <= from
             /\ status'[from] \in Closed \ {"completed"}
             /\ lineage' = [lineage EXCEPT ![r] = lineage[from] \cup {from}]
    /\ UNCHANGED <<log, effect>>

(* Events are only added at the end, and only while the task runs.             *)
LWrite(r) ==
    /\ status[r] = "running"
    /\ Len(log[r]) <= Len(log'[r]) /\ SubSeq(log'[r], 1, Len(log[r])) = log[r]
    /\ log' = [log EXCEPT ![r] = log'[r]]
    /\ UNCHANGED <<status, session, lineage, effect>>

(* A call takes effect once along a chain; the task may have been closed        *)
(* behind its worker's back meanwhile.                                         *)
LExecute(r, k) ==
    /\ status[r] # "absent"
    /\ \A q \in Run : q = r \/ q \in lineage[r] \/ r \in lineage[q] => k \notin effect[q]
    /\ effect' = [effect EXCEPT ![r] = @ \cup {k}]
    /\ UNCHANGED <<status, session, log, lineage>>

LNext == \/ LClose
         \/ \E r \in Run, s \in Session : LOpen(r, s)
         \/ \E r \in Run : LWrite(r)
         \/ \E r \in Run, k \in Call : LExecute(r, k)

LSpec == LInit /\ [][LNext]_lvars
==============================================================================
