----------------------------- MODULE UiActions -----------------------------
(* Actions an agent performs in the user's browser: the flows of core/agent.py *)
(* (_run_ask_user_flow, _run_ui_action_flow), the two in-memory managers they  *)
(* wait on (core/ui_action.py, core/confirmation.py), the REST routes that     *)
(* answer, and what the page does with an action (lib/uiActions/runner.ts).    *)
(*                                                                             *)
(* One asyncio thread: what a flow does between two awaits or yields is one    *)
(* step.  A flow runs in the agent loop of a session or of a delegated child   *)
(* that shares the session, so several flows of one session may be under way.  *)
EXTENDS Naturals, FiniteSets

CONSTANTS
    Flow,       \* agent loops, each inside at most one tool call
    Session,
    Ref,        \* elements of the page: @eN references and registered actions
    Declared,   \* the registered actions whose declared risk is "dangerous"
    Breaker,    \* REF_FAILURE_BREAKER_THRESHOLD
    MaxCalls,   \* bound: tool calls begun
    None

ASSUME UiAssumption ==
    /\ Declared \subseteq Ref /\ None \notin Ref \cup Session
    /\ Breaker \in Nat \ {0} /\ MaxCalls \in Nat

Tool  == {"ask", "read", "write"}      \* AskUserQuestion; ui_read_screen ...; ui_click, ui_input
Answer == {"ok", "stale", "dangerous", "failed", "cancelled"}
Snap  == Ref \ Declared                \* references the snapshot heuristics judge

Card == [id: Nat, session: Session, answer: {"none", "approved", "rejected"}]
Act  == [id: Nat, session: Session, tool: Tool, ref: Ref, confirmed: BOOLEAN,
         answer: Answer \cup {"none"}]

VARIABLES
    calls,     \* tool calls begun; the identity of a call, its card and its action
    flow,      \* Flow -> where the tool call of that agent loop is
    cards,     \* ConfirmationManager._pending
    acts,      \* UiActionManager._pending
    ctx,       \* Session -> the cached dangerous_refs, or none
    fails,     \* Session -> _ref_failures
    page,      \* the page: elements present, judged dangerous, last reported
    inbox,     \* actions delivered to the browser and not started yet
    running,   \* actions the runner has checked and not carried out yet
    replies,   \* respond requests on their way
    hist       \* what has happened, for the properties only

server == <<flow, cards, acts, ctx, fails>>
browser == <<page, inbox, running, replies>>
vars == <<calls, server, browser, hist>>

FlowState == [pc: {"idle", "card", "asked", "sent", "wait"},
              call: Nat, session: Session \cup {None}, tool: Tool, ref: Ref \cup {None}]
Ctx   == [known: BOOLEAN, list: SUBSET Ref]
Page  == [here: SUBSET Ref, danger: SUBSET Snap, listed: SUBSET Snap]
Msg   == [id: Nat, kind: Answer, list: {[known |-> FALSE, list |-> {}]} \cup
                                       [known: {TRUE}, list: SUBSET Ref]]
Run   == [act: Act, risky: BOOLEAN, late: BOOLEAN]
Hist  == [granted: SUBSET Nat,              \* calls the user approved
          performed: SUBSET [id: Nat, risky: BOOLEAN, danger: BOOLEAN],
          refused: [Session -> Ref \cup {None}],  \* last call ended dangerous_not_confirmed
          streak: [Session -> Nat]]         \* bad references in a row

TypeOK == /\ calls \in 0 .. MaxCalls
          /\ flow \in [Flow -> FlowState]
          /\ cards \subseteq Card /\ acts \subseteq Act
          /\ ctx \in [Session -> Ctx] /\ fails \in [Session -> Nat]
          /\ page \in Page /\ inbox \subseteq Act /\ running \subseteq Run /\ replies \subseteq Msg
          /\ hist \in Hist

Idle == [pc |-> "idle", call |-> 0, session |-> None, tool |-> "ask", ref |-> None]
NoList == [known |-> FALSE, list |-> {}]

Init == /\ calls = 0 /\ flow = [f \in Flow |-> Idle]
        /\ cards = {} /\ acts = {}
        /\ ctx = [s \in Session |-> NoList] /\ fails = [s \in Session |-> 0]
        /\ page \in [here: SUBSET Ref, danger: SUBSET Snap, listed: {{}}]
        /\ inbox = {} /\ running = {} /\ replies = {}
        /\ hist = [granted |-> {}, performed |-> {},
                   refused |-> [s \in Session |-> None], streak |-> [s \in Session |-> 0]]

-----------------------------------------------------------------------------
(* The flow of one tool call.                                                  *)

(* Bug variants (named ...Bug) are used only to show that a property can fail. *)
Busy(s) == \E a \in acts : a.session = s

(* create_action and the event for the browser; a busy session fails the call. *)
Issue(f, x, confirmed) ==
    IF Busy(x.session)
    THEN /\ flow' = [flow EXCEPT ![f] = Idle]
         /\ UNCHANGED acts
    ELSE /\ flow' = [flow EXCEPT ![f] = [x EXCEPT !.pc = "sent"]]
         /\ acts' = acts \cup {[id |-> x.call, session |-> x.session, tool |-> x.tool,
                                ref |-> x.ref, confirmed |-> confirmed, answer |-> "none"]}

(* A missing list counts as dangerous, a list without the reference does not.  *)
NeedsCard(s, tool, ref) ==
    tool = "ask" \/ (tool = "write" /\ (ctx[s].known => ref \in ctx[s].list))

(* The call begins, unless the breaker has tripped: with a card, or at once.   *)
BeginCall(f, s, tool, ref) ==
    /\ flow[f].pc = "idle" /\ calls < MaxCalls
    /\ tool # "ask" => fails[s] < Breaker
    /\ calls' = calls + 1
    /\ LET x == [pc |-> "card", call |-> calls + 1, session |-> s,
                 tool |-> tool, ref |-> ref]
       IN IF NeedsCard(s, tool, ref)
          THEN /\ cards' = cards \cup {[id |-> x.call, session |-> s, answer |-> "none"]}
               /\ flow' = [flow EXCEPT ![f] = x]
               /\ UNCHANGED acts
          ELSE Issue(f, x, FALSE) /\ UNCHANGED cards
    /\ hist' = [hist EXCEPT !.refused[s] = IF @ = ref THEN @ ELSE None]
    /\ UNCHANGED <<ctx, fails, browser>>

(* The consumer has drained the event queue and asks for the next event.       *)
AwaitAnswer(f) ==
    /\ flow[f].pc = "card"
    /\ flow' = [flow EXCEPT ![f].pc = "asked"]
    /\ UNCHANGED <<calls, cards, acts, ctx, fails, browser, hist>>

MyCard(f) == CHOOSE c \in cards : c.id = flow[f].call
MyAct(f)  == CHOOSE a \in acts : a.id = flow[f].call

ApprovedBug(c) == c.answer # "none"     \* any answer lets the operation through
Approved(c) == c.answer = "approved"

(* wait_for_response returns: the card is gone, the operation goes on or not.  *)
Answered(f) ==
    /\ flow[f].pc = "asked" /\ MyCard(f).answer # "none"
    /\ cards' = cards \ {MyCard(f)}
    /\ IF flow[f].tool = "write" /\ Approved(MyCard(f))
       THEN Issue(f, flow[f], TRUE)
       ELSE flow' = [flow EXCEPT ![f] = Idle] /\ UNCHANGED acts
    /\ UNCHANGED <<calls, ctx, fails, browser, hist>>

(* The event ui_action_required reaches the page; the flow waits in chunks.    *)
Send(f) ==
    /\ flow[f].pc = "sent"
    /\ flow' = [flow EXCEPT ![f].pc = "wait"]
    /\ inbox' = inbox \cup {[MyAct(f) EXCEPT !.answer = "none"]}
    /\ UNCHANGED <<calls, cards, acts, ctx, fails, page, running, replies, hist>>

(* record_ref_failure, after the reset that every failure begins with.         *)
FailsAfter(n, kind) == IF kind = "stale" THEN 1 ELSE 0

(* The wait ends, by a result or by timeout; the finally block pops the action. *)
FinishCall(f) ==
    /\ flow[f].pc = "wait"
    /\ LET a == MyAct(f)
           s == a.session
           kind == IF a.answer = "none" THEN "failed" ELSE a.answer
       IN /\ acts' = acts \ {a}
          /\ fails' = [fails EXCEPT ![s] = FailsAfter(@, kind)]
          /\ hist' = [hist EXCEPT !.refused[s] = IF kind = "dangerous" THEN a.ref ELSE None,
                                  !.streak[s] = IF kind = "stale" THEN @ + 1 ELSE 0]
    /\ flow' = [flow EXCEPT ![f] = Idle]
    /\ UNCHANGED <<calls, cards, ctx, browser>>

(* The agent loop is cancelled, or its generator is closed at a yield.  The    *)
(* wait for a card removes it in its finally block; before it nothing does.    *)
CloseFlowBug(f) ==                      \* no finally around the wait for the browser
    /\ flow[f].pc # "idle"
    /\ cards' = IF flow[f].pc = "asked" THEN cards \ {MyCard(f)} ELSE cards
    /\ flow' = [flow EXCEPT ![f] = Idle]
    /\ UNCHANGED <<calls, acts, ctx, fails, browser, hist>>
CloseFlow(f) ==
    /\ flow[f].pc # "idle"
    /\ cards' = IF flow[f].pc = "asked" THEN cards \ {MyCard(f)} ELSE cards
    /\ acts' = IF flow[f].pc \in {"sent", "wait"} THEN acts \ {MyAct(f)} ELSE acts
    /\ flow' = [flow EXCEPT ![f] = Idle]
    /\ UNCHANGED <<calls, ctx, fails, browser, hist>>

-----------------------------------------------------------------------------
(* Requests.                                                                   *)

(* The user answers a card: only the first answer counts.                      *)
RespondCard(c, answer) ==
    /\ c \in cards /\ c.answer = "none"
    /\ cards' = (cards \ {c}) \cup {[c EXCEPT !.answer = answer]}
    /\ hist' = IF answer = "approved" THEN [hist EXCEPT !.granted = @ \cup {c.id}] ELSE hist
    /\ UNCHANGED <<calls, flow, acts, ctx, fails, browser>>

(* resolve(): the latest answer counts as long as the flow has not woken, and  *)
(* refreshes the cached list; an answer to an action that is gone is refused.  *)
RespondAct(m) ==
    /\ m \in replies /\ replies' = replies \ {m}
    /\ LET mine == {a \in acts : a.id = m.id} IN
          /\ acts' = (acts \ mine) \cup {[a EXCEPT !.answer = m.kind] : a \in mine}
          /\ ctx' = [s \in Session |-> IF m.list.known /\ \E a \in mine : a.session = s
                                       THEN m.list ELSE ctx[s]]
    /\ UNCHANGED <<calls, flow, cards, fails, page, inbox, running, hist>>

(* cancel_all, from a tab that unloads or the stop button.                     *)
CancelAll(s) ==
    /\ acts' = {IF a.session = s THEN [a EXCEPT !.answer = "cancelled"] ELSE a : a \in acts}
    /\ cards' = {IF c.session = s /\ c.answer = "none"
                 THEN [c EXCEPT !.answer = "rejected"] ELSE c : c \in cards}
    /\ UNCHANGED <<calls, flow, ctx, fails, browser, hist>>

(* A chat message carries the page context: declared and listed references.    *)
ChatTurn(s) ==
    /\ \A f \in Flow : flow[f].session # s
    /\ ctx' = [ctx EXCEPT ![s] = [known |-> TRUE,
                                  list |-> (Declared \cap page.here) \cup page.listed]]
    /\ UNCHANGED <<calls, flow, cards, acts, fails, browser, hist>>

-----------------------------------------------------------------------------
(* The browser.                                                                *)

(* Elements come, go and change; a route change also drops the last snapshot.  *)
PageChanges ==
    /\ page' \in [here: SUBSET Ref, danger: SUBSET Snap, listed: {page.listed, {}}]
    /\ UNCHANGED <<calls, server, inbox, running, replies, hist>>

(* A registered action is dangerous by declaration, an element by its looks.   *)
Dangerous(ref) == ref \in Declared \/ ref \in page.danger

(* After a success the page is captured again and its own list is reported.    *)
Seen == page.here \cap page.danger
Succeeds(e) == /\ page' = [page EXCEPT !.listed = Seen]
               /\ replies' = replies \cup {[id |-> e.id, kind |-> "ok",
                                            list |-> [known |-> TRUE, list |-> Seen]]}
Fails(e, kind) == /\ UNCHANGED page
                  /\ replies' = replies \cup {[id |-> e.id, kind |-> kind, list |-> NoList]}

Allowed(risky, confirmed) == risky => confirmed

(* The runner takes an action: it is refused (another tab or session drives    *)
(* the page), its reference is stale, the re-check refuses it, or it starts.   *)
StartAct(e) ==
    /\ e \in inbox /\ inbox' = inbox \ {e}
    /\ LET risky == e.tool = "write" /\ Dangerous(e.ref)
           stale == e.tool = "write" /\ e.ref \notin page.here
       IN \/ Fails(e, "failed") /\ UNCHANGED running
          \/ stale /\ Fails(e, "stale") /\ UNCHANGED running
          \/ ~stale /\ risky /\ ~e.confirmed /\ Fails(e, "dangerous") /\ UNCHANGED running
          \/ /\ ~stale /\ Allowed(risky, e.confirmed)
             /\ running' = running \cup {[act |-> e, risky |-> risky, late |-> FALSE]}
             /\ UNCHANGED <<page, replies>>
    /\ UNCHANGED <<calls, server, hist>>

(* The cursor has moved there: the user aborts with Esc, or the operation is   *)
(* carried out.                                                                *)
AbortAct(r) == /\ r \in running /\ running' = running \ {r}
               /\ Fails(r.act, "cancelled")
               /\ UNCHANGED <<calls, server, inbox, hist>>
Perform(r) ==
    /\ r \in running /\ running' = running \ {r}
    /\ Succeeds(r.act)
    /\ hist' = IF r.act.tool = "write"
               THEN [hist EXCEPT !.performed = @ \cup
                      {[id |-> r.act.id, risky |-> r.risky, danger |-> Dangerous(r.act.ref)]}]
               ELSE hist
    /\ UNCHANGED <<calls, server, inbox>>

(* The watchdog answers for an execution that hangs, and does not stop it.     *)
Watchdog(r) ==
    /\ r \in running /\ ~r.late
    /\ running' = (running \ {r}) \cup {[r EXCEPT !.late = TRUE]}
    /\ Fails(r.act, "failed")
    /\ UNCHANGED <<calls, server, inbox, hist>>

-----------------------------------------------------------------------------
Server(f) == AwaitAnswer(f) \/ Answered(f) \/ Send(f) \/ FinishCall(f)

Next == \/ \E f \in Flow, s \in Session, tool \in Tool, ref \in Ref : BeginCall(f, s, tool, ref)
        \/ \E f \in Flow : Server(f) \/ CloseFlow(f)
        \/ \E c \in cards, answer \in {"approved", "rejected"} : RespondCard(c, answer)
        \/ \E m \in replies : RespondAct(m)
        \/ \E s \in Session : CancelAll(s) \/ ChatTurn(s)
        \/ PageChanges
        \/ \E e \in inbox : StartAct(e)
        \/ \E r \in running : AbortAct(r) \/ Perform(r) \/ Watchdog(r)

Spec == Init /\ [][Next]_vars

(* Flows go on when they can, and the wait for the browser is timed.           *)
FairSpec == Spec /\ \A f \in Flow : WF_vars(Server(f))

-----------------------------------------------------------------------------
(* An operation that the page judged dangerous when it began was approved by   *)
(* the user in that very call, whatever list the server had cached, however    *)
(* the page changed, and even if the watchdog had answered for it already.     *)
DangerousIsApproved == \A p \in hist.performed : p.risky => p.id \in hist.granted

(* A pending browser action has exactly one flow waiting for it, through every *)
(* cancellation: the session is never left busy by a call that is over.        *)
Waiting(f) == flow[f].pc \in {"sent", "wait"}
NoOrphanAction == \A a \in acts : \E f \in Flow : Waiting(f) /\ flow[f].call = a.id

(* One browser action at a time per session, though child agents share it.     *)
OneDriver == \A a, b \in acts : a.session = b.session => a = b

(* A flow that waits finds what it waits for: "confirmation not found" and a   *)
(* vanished action cannot occur.                                               *)
WaitsForSomething == \A f \in Flow :
    /\ flow[f].pc \in {"card", "asked"} => \E c \in cards : c.id = flow[f].call
    /\ Waiting(f) => \E a \in acts : a.id = flow[f].call

(* Flows that wait and what they wait for come in pairs: neither is left over,  *)
(* and a session has one pair that drives its page.                            *)
FlowsAndActions == NoOrphanAction /\ WaitsForSomething /\ OneDriver

-----------------------------------------------------------------------------
(* What the documentation says and the code does not keep.                     *)

(* Three bad references in a row stop the operations of the session.           *)
BreakerTrips == \A s \in Session : hist.streak[s] <= Breaker

(* A call refused by the page's re-check, issued again, goes through a card.   *)
ReissueIsConfirmed == \A a \in acts :
    a.tool = "write" /\ a.ref = hist.refused[a.session] => a.confirmed

(* An element is judged at the moment of the click, so that one that is        *)
(* dangerous when it is clicked was approved.                                  *)
JudgedAtClick == \A p \in hist.performed : p.danger => p.id \in hist.granted

(* A card that nobody answers times out.                                       *)
CardTimesOut == \A f \in Flow : flow[f].pc = "asked" ~> flow[f].pc # "asked"

(* A card does not outlive the call that asked.                                *)
CardsAreLive == \A c \in cards : \E f \in Flow : flow[f].call = c.id
=============================================================================
