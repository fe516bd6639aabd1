------------------------------- MODULE UiRunner -------------------------------
(* The runner of browser actions in one tab (lib/uiActions/runner.ts over      *)
(* stores/uiActionStore.ts): a queue, a pump that any change of the store may  *)
(* start once more, the lock of the tab, and executions with a watchdog.       *)
(*                                                                             *)
(* JavaScript: what a function does up to its next await is one step, with the *)
(* subscribers that a change of the store calls on the way.  So several pumps  *)
(* may be suspended at once, each with the queue's head as it saw it.          *)
EXTENDS Integers, Sequences, FiniteSets, Bags

CONSTANTS
    Action,        \* actions the backend sends to this tab
    UiSession, SessionOf,
    MaxLogins,     \* bound: changes of identity
    NoAction

ASSUME RunnerAssumption ==
    SessionOf \in [Action -> UiSession] /\ MaxLogins \in Nat /\ NoAction \notin Action \cup UiSession

VARIABLES
    uqueue, active, useen,  \* uiActionStore
    holder,        \* activeSessionId
    abort,         \* abortRequested
    held,          \* holdsTabLock
    gen,           \* the generation of the identity
    pumps,         \* the bag of suspended pumps
    runs,          \* executions: [act, gen, pc, late]
    answered,      \* actions that were answered
    performed,     \* history: times an action was carried out for the identity
    foreign        \* history: something was done for an identity that has gone
rvars == <<uqueue, active, useen, holder, abort, held, gen, pumps, runs, answered, performed, foreign>>

Pump == [pc : {"lock", "busy", "run"}, next : Action]
Execution == [act : Action, gen : Nat, pc : {"move", "reply", "refuse", "over"}, late : BOOLEAN]
RTypeOK ==
    /\ uqueue \in Seq(Action) /\ active \in Action \cup {NoAction} /\ useen \subseteq Action
    /\ holder \in UiSession \cup {NoAction} /\ {abort, held, foreign} \subseteq BOOLEAN
    /\ IsABag(pumps) /\ BagToSet(pumps) \subseteq Pump /\ runs \subseteq Execution /\ answered \subseteq Action
    /\ gen \in 0 .. MaxLogins /\ performed \in [Action -> Nat]

RInit == /\ uqueue = <<>> /\ active = NoAction /\ useen = {} /\ holder = NoAction /\ abort = FALSE
         /\ held \in BOOLEAN /\ gen = 0 /\ pumps = EmptyBag /\ runs = {} /\ answered = {}
         /\ performed = [a \in Action |-> 0] /\ foreign = FALSE

(* The store and the pumps, as a step leaves them.                             *)
Now == [queue |-> uqueue, active |-> active, holder |-> holder, pumps |-> pumps]
Becomes(s) == uqueue' = s.queue /\ active' = s.active /\ holder' = s.holder /\ pumps' = s.pumps
Without(p) == [Now EXCEPT !.pumps = @ (-) SetToBag({p})]
Activated(s) == [s EXCEPT !.active = Head(s.queue), !.queue = Tail(s.queue)]
Suspended(s, pc, a) == [s EXCEPT !.pumps = @ (+) SetToBag({[pc |-> pc, next |-> a]})]
(* pump(), up to its first await: another session than the one that is served  *)
(* is refused at once, otherwise the lock of the tab is awaited.               *)
Pumped(s) ==
    IF s.queue = <<>> THEN s
    ELSE IF s.holder # NoAction /\ SessionOf[Head(s.queue)] # s.holder
    THEN Suspended(Activated(s), "busy", Head(s.queue))
    ELSE Suspended(s, "lock", Head(s.queue))
(* The subscriber of the store.                                                *)
Changed(s) == IF s.queue # <<>> /\ s.active = NoAction THEN Pumped(s) ELSE s
ActiveDoneBug(s) == Changed(s)
ActiveDone(s) == Changed([s EXCEPT !.active = NoAction])
history == <<performed, foreign>>

-----------------------------------------------------------------------------
(* An event of a stream, delivered perhaps by two streams.                     *)
Seen(a) == a \in useen
Enqueue(a) ==
    /\ useen' = useen \cup {a}
    /\ IF Seen(a) THEN UNCHANGED <<uqueue, active, holder, pumps>>
       ELSE Becomes(Changed([Now EXCEPT !.queue = Append(@, a)]))
    /\ UNCHANGED <<abort, held, gen, runs, answered, history>>

Stale(x) == x.gen # gen
AtHead(p) == uqueue # <<>> /\ Head(uqueue) = p.next
(* The lock was awaited, at most for a second and a half.                      *)
LockAwaited(p) ==
    LET s == Without(p) IN
    /\ p.pc = "lock"
    /\ \/ /\ ~AtHead(p)
          /\ Becomes(Pumped(s)) /\ UNCHANGED <<abort, runs>>
       \/ /\ AtHead(p) /\ ~held
          /\ Becomes(Suspended(Activated(s), "busy", p.next)) /\ UNCHANGED <<abort, runs>>
       \/ /\ AtHead(p) /\ held
          /\ Becomes(Suspended([Activated(s) EXCEPT !.holder = SessionOf[p.next]], "run", p.next))
          /\ abort' = FALSE
          /\ runs' = runs \cup {[act |-> p.next, gen |-> gen, pc |-> "move", late |-> FALSE]}
    /\ UNCHANGED <<useen, held, gen, answered, history>>
(* rejectBusy has answered; the subscriber and the caller both pump again.     *)
BusyAnswered(p) ==
    LET s == Without(p) IN
    /\ p.pc = "busy"
    /\ answered' = answered \cup {p.next}
    /\ Becomes(Pumped(ActiveDone(Changed(s))))
    /\ UNCHANGED <<useen, abort, held, gen, runs, history>>

-----------------------------------------------------------------------------
(* One execution.                                                              *)

Moves(r, pc) == runs' = (runs \ {r}) \cup {[r EXCEPT !.pc = pc]}
MyPump(r) == {p \in BagToSet(pumps) : p.pc = "run" /\ p.next = r.act /\ r.gen = gen}
(* The race is decided: the pump frees the session and goes on.                *)
Resumed(s) == Pumped(ActiveDone([s EXCEPT !.holder = NoAction]))
(* The cursor has arrived; the identity is still the same, nobody pressed Esc. *)
MayActBug(r) == TRUE
MayAct(r) == ~Stale(r)
Perform(r) ==
    /\ r.pc = "move" /\ MayAct(r) /\ ~abort
    /\ performed' = [performed EXCEPT ![r.act] = @ + 1] /\ foreign' = (foreign \/ Stale(r))
    /\ Moves(r, "reply")
    /\ UNCHANGED <<uqueue, active, useen, holder, abort, held, gen, pumps, answered>>
(* The operation fails, or Esc was pressed: an answer of that kind.            *)
CannotPerform(r) ==
    /\ r.pc = "move" /\ Moves(r, IF MayAct(r) THEN "refuse" ELSE "over")
    /\ UNCHANGED <<uqueue, active, useen, holder, abort, held, gen, pumps, answered, history>>
(* The answer is sent, unless the identity has changed; the card shows it.     *)
Reply(r) ==
    /\ r.pc \in {"reply", "refuse"} /\ Moves(r, "over")
    /\ answered' = IF MayAct(r) THEN answered \cup {r.act} ELSE answered
    /\ foreign' = (foreign \/ (MayAct(r) /\ Stale(r)))
    /\ IF Stale(r) THEN UNCHANGED <<uqueue, active, holder, pumps>> ELSE Becomes(Changed(Now))
    /\ UNCHANGED <<useen, abort, held, gen, performed>>
ExecutionOver(r) ==
    /\ r.pc = "over" /\ runs' = runs \ {r}
    /\ IF MyPump(r) = {} THEN UNCHANGED <<uqueue, active, holder, pumps>>
       ELSE \E p \in MyPump(r) : Becomes(Resumed(Without(p)))
    /\ UNCHANGED <<useen, abort, held, gen, answered, history>>
(* Forty-five seconds: the watchdog answers and the pump goes on without it.   *)
Watchdog(r) ==
    /\ r.pc # "over" /\ ~r.late /\ MyPump(r) # {}
    /\ runs' = (runs \ {r}) \cup {[r EXCEPT !.late = TRUE]}
    /\ answered' = answered \cup {r.act}
    /\ \E p \in MyPump(r) : Becomes(Resumed(Changed(Without(p))))
    /\ UNCHANGED <<useen, abort, held, gen, history>>

-----------------------------------------------------------------------------
(* The user and the other tabs.                                                *)
Escape == /\ holder # NoAction /\ abort' = TRUE
          /\ UNCHANGED <<uqueue, active, useen, holder, held, gen, pumps, runs, answered, history>>
TabLock == /\ ~held /\ held' = TRUE
           /\ UNCHANGED <<uqueue, active, useen, holder, abort, gen, pumps, runs, answered, history>>
(* What is suspended for the identity that has gone returns at once when it is *)
(* resumed; an execution whose cursor moves finds out when it has arrived.     *)
AuthChanges ==
    /\ gen < MaxLogins /\ gen' = gen + 1
    /\ uqueue' = <<>> /\ active' = NoAction /\ useen' = {} /\ holder' = NoAction /\ abort' = TRUE
    /\ performed' = [a \in Action |-> 0] /\ answered' = {}
    /\ pumps' = EmptyBag /\ runs' = {r \in runs : r.pc = "move"}
    /\ UNCHANGED <<held, foreign>>

Goes(r) == Perform(r) \/ CannotPerform(r) \/ Reply(r) \/ ExecutionOver(r)
RNext == \/ \E a \in Action : Enqueue(a)
         \/ \E p \in BagToSet(pumps) : LockAwaited(p) \/ BusyAnswered(p)
         \/ \E r \in runs : Goes(r) \/ Watchdog(r)
         \/ Escape \/ TabLock \/ AuthChanges
(* Suspended functions are resumed and timers fire; an execution may hang.     *)
RSpec == RInit /\ [][RNext]_rvars
RFairness == /\ WF_rvars(\E p \in BagToSet(pumps) : LockAwaited(p) \/ BusyAnswered(p))
             /\ WF_rvars(\E r \in runs : Watchdog(r)) /\ WF_rvars(\E r \in runs : ExecutionOver(r))

-----------------------------------------------------------------------------
(* An action is carried out once however often it is delivered, and nothing is *)
(* done in the page or answered for an identity that is gone.                  *)
RunOnce == (\A a \in Action : performed[a] <= 1) /\ ~foreign

(* The pump never stops for good: what is delivered is answered, whatever      *)
(* hangs, is refused or is aborted, unless the user is another one by then.    *)
EveryActionAnswered == \A a \in Action : a \in useen ~> (a \in answered \/ a \notin useen)

-----------------------------------------------------------------------------
(* What the code does not keep.                                                *)

(* Actions are carried out one after the other: a second pump takes the next   *)
(* while the first one's is under way.                                         *)
OneAfterTheOther == \A r, q \in runs : r.pc = "move" /\ q.pc = "move" /\ r.gen = q.gen => r = q
(* So with executions that hang left aside.                                    *)
OneOnTime == \A r, q \in runs : ~r.late /\ ~q.late /\ r.gen = q.gen => r = q
(* The session that is served is the only one.                                 *)
OneSessionServed == \A r, q \in runs : ~r.late /\ ~q.late /\ r.gen = q.gen => SessionOf[r.act] = SessionOf[q.act]
(* Another session's action is refused at once, and does not wait.             *)
RefusedAtOnce == \A i \in DOMAIN uqueue : holder = NoAction \/ SessionOf[uqueue[i]] = holder
=============================================================================
