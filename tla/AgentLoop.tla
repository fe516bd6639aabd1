------------------------------ MODULE AgentLoop ------------------------------
(* The ReAct loop of an agent and the loops of the agents it delegates to:     *)
(* core/agent.py (_run, _stream_model_step, _execute_step_tools), the model    *)
(* client's retries (llm/client.py), the dispatch of tools                     *)
(* (tools/executor.py), delegation/handler.py, the compression of early tool   *)
(* results (core/context.py) and the cancellation of the delegated tasks of a  *)
(* chat run (core/task_scope.py, the finally block of core/chat_runs.py).      *)
(*                                                                             *)
(* An action is what the worker of one loop does between two awaits at which   *)
(* another loop, or a cancellation, can be interleaved.                        *)
EXTENDS Integers, Sequences, FiniteSets, SequencesExt, Functions

CONSTANTS
    Root,         \* the tool sets the root loop may be granted
    Plain,        \* tools without further treatment: sandbox, direct, MCP, remote
    Recorded,     \* completed_calls: tools whose call an earlier run completed
    MaxDepth,     \* agent.max_delegation_depth
    MaxSteps,     \* max_iterations of every loop
    Recent,       \* tool results of that many last steps stay whole (3)
    Old,          \* those of steps that long ago become one line (7)
    Restream,     \* retries of a stream that broke (_STREAM_RETRY_MAX)
    MaxCalls,     \* bound: tool calls of all loops
    MaxLoops,     \* bound: the loops these can start, the root included
    Wanted,       \* bound: the batches of tools that models ask for
    Enabled       \* bound: the tool sets children are configured with

Tool == Plain \cup {"view_image", "AskUserQuestion", "ui", "delegate_task"}

ASSUME AgentAssumption ==
    /\ Root \subseteq SUBSET Tool /\ Recorded \subseteq Tool
    /\ Wanted \subseteq Seq(Tool) \ {<<>>} /\ Enabled \subseteq SUBSET Tool
    /\ Plain \cap {"view_image", "AskUserQuestion", "ui", "delegate_task"} = {}
    /\ {MaxDepth, MaxSteps} \subseteq Nat \ {0}
    /\ {Recent, Old, Restream, MaxCalls, MaxLoops} \subseteq Nat

Call   == [id: Nat, tool: Tool]
Result == [id: Nat, ok: BOOLEAN, image: BOOLEAN]

(* A message of the conversation: an assistant's calls, one tool result or an  *)
(* image.  Of a result, whether it reports an error, how much of it is left,   *)
(* and the status its one-line summary shows.                                  *)
Msg == [role: {"calls", "tool", "image"}, ids: Seq(Nat), error: BOOLEAN,
        form: {"whole", "cut", "line"}, label: {"", "ok", "error"}]

Phase == {"brief", "step", "open", "model", "batch", "regular", "closing", "over"}
Outcome == {"", "refused", "completed", "max_iterations", "error", "cancelled"}
Loop == [up: Nat, call: Nat, depth: Nat, grant: SUBSET Tool,   \* who delegated, and what
         pc: Phase, step: Nat, streams: Nat,
         shown: SUBSET Nat,        \* the stream attempts of this step the client saw text of
         msgs: Seq(Msg), batch: Seq(Call), todo: Seq(Call), results: Seq(Result),
         cut: {"no", "cut", "last"},  \* cancelled; the piece of work already under way is done
         card: {"none", "open", "closed"},   \* delegation_start, delegation_end
         row: {"none", "running", "completed", "failed"},  \* the delegation record
         end: Outcome]

VARIABLES
    loops,     \* every loop ever started; the first is the root
    calls,     \* tool calls so far, for the bound
    halt,      \* the run around the root: "no", "reap" its children, "done"
    snap       \* the loops that were cancelled when the run ended

vars == <<loops, calls, halt, snap>>
Id == DOMAIN loops

TypeOK == /\ loops \in Seq(Loop)
          /\ calls \in 0 .. MaxCalls
          /\ halt \in {"no", "reap", "done"} /\ snap \subseteq Id

Fresh(up, call, depth, grant, pc) ==
    [up |-> up, call |-> call, depth |-> depth, grant |-> grant, pc |-> pc, step |-> 1,
     streams |-> 0, shown |-> {}, msgs |-> <<>>, batch |-> <<>>, todo |-> <<>>,
     results |-> <<>>, cut |-> "no", card |-> "none", row |-> "none", end |-> ""]

Init == /\ \E grant \in Root : loops = <<Fresh(0, 0, 0, grant, "step")>>
        /\ calls = 0 /\ halt = "no" /\ snap = {}

-----------------------------------------------------------------------------
(* Bug variants (named ...Bug) are used only to show that a property can fail. *)

(* A step of loop l: a cancelled worker finishes the piece already under way.  *)
Busy(l, pc) == loops[l].pc = pc /\ loops[l].cut # "last"
Worn(x) == IF x.cut = "cut" THEN "last" ELSE x.cut
Upd(l, x) == loops' = [loops EXCEPT ![l] = [x EXCEPT !.cut = Worn(loops[l])]]

(* The body of a loop ends; a delegated one still has to be closed.            *)
Emptied(x) == [x EXCEPT !.step = 1, !.streams = 0, !.shown = {}, !.msgs = <<>>,
                        !.batch = <<>>, !.todo = <<>>, !.results = <<>>]
Ended(x, end) == [Emptied(x) EXCEPT !.end = end, !.pc = IF x.up = 0 THEN "over" ELSE "closing"]

(* compress_early_tool_results: steps are told apart by the messages with      *)
(* calls, the results are those that follow such a message.                    *)
Line(m)  == [m EXCEPT !.form = "line",
                      !.label = IF m.error /\ m.form # "line" THEN "error" ELSE "ok"]
Steps(ms) == {i \in DOMAIN ms : ms[i].role = "calls"}
Compressed(ms, step) ==
    IF step <= Recent \/ Cardinality(Steps(ms)) <= Recent THEN ms
    ELSE [i \in DOMAIN ms |->
        LET ago == Cardinality({s \in Steps(ms) : s > i})
        IN IF ms[i].role # "tool" \/ ago < Recent THEN ms[i]
           ELSE IF ago >= Old THEN Line(ms[i])
           ELSE IF ms[i].form = "whole" THEN [ms[i] EXCEPT !.form = "cut"] ELSE ms[i]]

BeginStep(l) ==
    /\ Busy(l, "step")
    /\ Upd(l, IF loops[l].step > MaxSteps THEN Ended(loops[l], "max_iterations")
              ELSE [loops[l] EXCEPT !.pc = "open", !.streams = 1, !.shown = {},
                                    !.msgs = Compressed(@, loops[l].step)])
    /\ UNCHANGED <<calls, halt, snap>>

-----------------------------------------------------------------------------
(* The model.                                                                  *)

(* A stream that broke is opened again only if nothing was produced.           *)
Again(x) == IF x.shown = {} /\ x.streams <= Restream
            THEN [x EXCEPT !.pc = "open", !.streams = @ + 1]
            ELSE Ended(x, "error")

(* Every attempt of _retry_with_backoff to open the stream failed.             *)
OpenFails(l) == /\ Busy(l, "open") /\ Upd(l, Again(loops[l]))
                /\ UNCHANGED <<calls, halt, snap>>
OpenStream(l) == /\ Busy(l, "open") /\ Upd(l, [loops[l] EXCEPT !.pc = "model"])
                 /\ UNCHANGED <<calls, halt, snap>>
Delta(l) == /\ Busy(l, "model") /\ loops[l].streams \notin loops[l].shown
            /\ Upd(l, [loops[l] EXCEPT !.shown = @ \cup {loops[l].streams}])
            /\ UNCHANGED <<calls, halt, snap>>
StreamBreaks(l) == /\ Busy(l, "model") /\ Upd(l, Again(loops[l]))
                   /\ UNCHANGED <<calls, halt, snap>>

(* No calls: the final answer.  Calls whose arguments do not parse: none runs. *)
Answer(l) == /\ Busy(l, "model")
             /\ \E end \in {"completed", "error"} : Upd(l, Ended(loops[l], end))
             /\ UNCHANGED <<calls, halt, snap>>
Asked(ms) == UNION {Range(ms[i].ids) : i \in Steps(ms)}
AskTools(l, tools) ==
    /\ Busy(l, "model") /\ calls + Len(tools) <= MaxCalls
    /\ LET before == Cardinality(Asked(loops[l].msgs))
           batch == [i \in DOMAIN tools |-> [id |-> before + i, tool |-> tools[i]]]
       IN Upd(l, [loops[l] EXCEPT !.pc = "batch", !.batch = batch, !.results = <<>>])
    /\ calls' = calls + Len(tools)
    /\ UNCHANGED <<halt, snap>>

-----------------------------------------------------------------------------
(* The batch.                                                                  *)

Cached(x, c) == c.tool \in Recorded /\ c.tool # "view_image" /\ c.tool \in x.grant
Stored(x)  == {k \in DOMAIN x.batch : Cached(x, x.batch[k])}
Given(x)   == {k \in DOMAIN x.batch \ Stored(x) : x.batch[k].tool = "delegate_task"}
Nth(S, i)  == CHOOSE k \in S : Cardinality({j \in S : j < k}) = i - 1
Picked(s, S) == [i \in 1 .. Cardinality(S) |-> s[Nth(S, i)]]   \* those at S, in their order
Handed(x)  == Picked(x.batch, Given(x))
Regular(x) == Picked(x.batch, DOMAIN x.batch \ (Stored(x) \cup Given(x)))
Reused(x)  == Picked(x.batch, Stored(x))
Res(c, ok, image) == [id |-> c.id, ok |-> ok, image |-> image]
CallsMsg(batch) == [role |-> "calls", ids |-> [i \in DOMAIN batch |-> batch[i].id],
                    error |-> FALSE, form |-> "whole", label |-> ""]

(* Recorded results first, then every delegation as a task of its own; the     *)
(* executor refuses one that is not granted, without a handler.                *)
StartBatch(l) ==
    LET x == loops[l]
        handed == IF "delegate_task" \in x.grant THEN Handed(x) ELSE <<>>
        kids == [i \in DOMAIN handed |-> Fresh(l, handed[i].id, x.depth + 1, x.grant, "brief")]
    IN /\ Busy(l, "batch")
       /\ loops' = [loops EXCEPT ![l] =
             [x EXCEPT !.pc = "regular", !.cut = Worn(x), !.todo = Regular(x),
                       !.msgs = Append(@, CallsMsg(x.batch)),
                       !.results = [i \in DOMAIN Reused(x) |-> Res(Reused(x)[i], TRUE, FALSE)]]]
             \o kids
       /\ UNCHANGED <<calls, halt, snap>>

(* The other calls, one after another.  What is not granted is denied; an      *)
(* image is pending until all results are in the conversation.                 *)
Granted(x, c) == c.tool \in x.grant
Executed(x, c, ok) == LET runs == ok /\ Granted(x, c)
                      IN Res(c, runs, runs /\ c.tool \in {"view_image", "ui"})
RunTool(l, ok) ==
    LET x == loops[l] IN
    /\ Busy(l, "regular") /\ x.todo # <<>>
    /\ Upd(l, [x EXCEPT !.todo = Tail(@), !.results = Append(@, Executed(x, Head(x.todo), ok))])
    /\ UNCHANGED <<calls, halt, snap>>
(* A confirmation or a browser flow raises: the loop ends in the middle.       *)
FlowFails(l) ==
    LET x == loops[l] IN
    /\ Busy(l, "regular") /\ x.todo # <<>> /\ Head(x.todo).tool \in {"AskUserQuestion", "ui"}
    /\ Granted(x, Head(x.todo))
    /\ Upd(l, Ended(x, "error"))
    /\ UNCHANGED <<calls, halt, snap>>

(* The results of the delegations, in the order of their calls: what a handler *)
(* returns is a success, an exception of its task is a failure.                *)
Kid(l, c) == {k \in Id : loops[k].up = l /\ loops[k].call = c.id}
KidOk(l, c) == \E k \in Kid(l, c) : loops[k].end # "cancelled"
KidsOverBug(l) == \A k \in Id : loops[k].up = l => loops[k].end \in {"completed", "refused"}
KidsOver(l) == \A k \in Id : loops[k].up = l => loops[k].pc = "over"

(* All tool results go into the conversation before any image does.            *)
ToolMsg(r) == [role |-> "tool", ids |-> <<r.id>>, error |-> ~r.ok, form |-> "whole", label |-> ""]
ImageMsg == [role |-> "image", ids |-> <<>>, error |-> FALSE, form |-> "whole", label |-> ""]
InjectedBug(rs) ==                      \* an image right after the result it belongs to
    FlattenSeq([i \in DOMAIN rs |-> IF rs[i].image THEN <<ToolMsg(rs[i]), ImageMsg>>
                                    ELSE <<ToolMsg(rs[i])>>])
Injected(rs) == [i \in DOMAIN rs |-> ToolMsg(rs[i])]
                \o [i \in 1 .. Cardinality({j \in DOMAIN rs : rs[j].image}) |-> ImageMsg]
Collected(l) == LET handed == Handed(loops[l]) IN
    loops[l].results
    \o [i \in DOMAIN handed |-> Res(handed[i], KidOk(l, handed[i]), FALSE)]
Waits(l) == loops[l].pc = "regular" /\ loops[l].todo = <<>>
Inject(l) ==
    LET x == loops[l] IN
    /\ Busy(l, "regular") /\ Waits(l) /\ KidsOver(l)
    /\ Upd(l, [x EXCEPT !.pc = "step", !.step = @ + 1, !.msgs = @ \o Injected(Collected(l)),
                        !.batch = <<>>, !.results = <<>>])
    /\ UNCHANGED <<calls, halt, snap>>

-----------------------------------------------------------------------------
(* handle_delegate_task around a child loop.                                   *)

(* Missing arguments, an unknown or inactive child, or too deep.               *)
Refuse(l) == /\ Busy(l, "brief")
             /\ Upd(l, [loops[l] EXCEPT !.pc = "over", !.end = "refused"])
             /\ UNCHANGED <<calls, halt, snap>>

(* _build_child_tools: the child's own tools, without those of the browser;    *)
(* delegation is added while there is room below; and only what the parent has. *)
ChildGrantBug(x, enabled) ==            \* the child's own configuration decides
    (enabled \ {"ui", "delegate_task"}) \cup (IF x.depth < MaxDepth THEN {"delegate_task"} ELSE {})
ChildGrant(x, enabled) ==
    ((enabled \ {"ui", "delegate_task"}) \cup (IF x.depth < MaxDepth THEN {"delegate_task"} ELSE {}))
    \cap x.grant
StartChild(l, enabled) ==
    LET x == loops[l] IN
    /\ Busy(l, "brief") /\ x.depth <= MaxDepth
    /\ Upd(l, [x EXCEPT !.pc = "step", !.card = "open", !.row = "running",
                        !.grant = ChildGrant(x, enabled)])
    /\ UNCHANGED <<calls, halt, snap>>
(* No model for the child, or its prompt or workspace cannot be made.          *)
SetupFails(l) ==
    /\ Busy(l, "brief") /\ loops[l].depth <= MaxDepth
    /\ Upd(l, [loops[l] EXCEPT !.pc = "closing", !.card = "open", !.row = "running", !.end = "error"])
    /\ UNCHANGED <<calls, halt, snap>>

(* The record is committed, then the card is told.                             *)
Record(l) ==
    /\ Busy(l, "closing") /\ loops[l].row = "running"
    /\ Upd(l, [loops[l] EXCEPT !.row = IF loops[l].end = "error" THEN "failed" ELSE "completed"])
    /\ UNCHANGED <<calls, halt, snap>>
Close(l) ==
    /\ Busy(l, "closing") /\ loops[l].row # "running"
    /\ Upd(l, [loops[l] EXCEPT !.pc = "over", !.card = "closed"])
    /\ UNCHANGED <<calls, halt, snap>>

-----------------------------------------------------------------------------
(* Cancellation.                                                               *)

(* A cancelled handler unwinds: its loop's worker is cancelled and awaited,    *)
(* its open transaction is rolled back.                                        *)
Unwind(l) ==
    /\ loops[l].cut # "no" /\ loops[l].pc # "over"
    /\ LET row == IF loops[l].row = "running" THEN "none" ELSE loops[l].row
       IN loops' = [loops EXCEPT ![l] = [Emptied(@) EXCEPT !.pc = "over", !.end = "cancelled",
                                                           !.cut = "last", !.row = row]]
    /\ UNCHANGED <<calls, halt, snap>>

(* The consumer of the root loop is cancelled: it unwinds before the run goes on. *)
CancelRoot == /\ loops[1].pc # "over" /\ halt = "no"
              /\ loops' = [loops EXCEPT ![1] = [Emptied(@) EXCEPT !.pc = "over", !.end = "cancelled"]]
              /\ UNCHANGED <<calls, halt, snap>>

(* The run is over, for whatever reason: the tasks of its delegations are      *)
(* cancelled and awaited, those that exist at this moment.                     *)
Reaped == {l \in Id \ {1} : loops[l].pc # "over"}
Reap == /\ halt = "no" /\ loops[1].pc = "over"
        /\ halt' = "reap" /\ snap' = Reaped
        /\ loops' = [l \in Id |-> IF l \in Reaped THEN [loops[l] EXCEPT !.cut = "cut"]
                                  ELSE loops[l]]
        /\ UNCHANGED calls
FinishRun == /\ halt = "reap" /\ \A l \in snap : loops[l].pc = "over"
             /\ halt' = "done"
             /\ UNCHANGED <<loops, calls, snap>>

-----------------------------------------------------------------------------
Model(l) == OpenFails(l) \/ OpenStream(l) \/ Delta(l) \/ StreamBreaks(l) \/ Answer(l)
            \/ \E tools \in Wanted : AskTools(l, tools)
Tools(l) == \/ StartBatch(l) \/ Inject(l) \/ FlowFails(l)
            \/ \E ok \in BOOLEAN : RunTool(l, ok)
Handler(l) == \/ Refuse(l) \/ SetupFails(l) \/ Record(l) \/ Close(l)
              \/ \E enabled \in Enabled : StartChild(l, enabled)
Next == \/ \E l \in Id : BeginStep(l) \/ Model(l) \/ Tools(l) \/ Handler(l) \/ Unwind(l)
        \/ CancelRoot \/ Reap \/ FinishRun
Spec == Init /\ [][Next]_vars

(* A loop does what only its process and the database must do, and a cancelled *)
(* task unwinds.  A model, a tool and a user may never answer.                 *)
Own(l) == BeginStep(l) \/ StartBatch(l) \/ Inject(l) \/ Handler(l) \/ Unwind(l)
Fairness == /\ \A l \in 1 .. MaxLoops : WF_vars(l \in Id /\ Own(l))
            /\ WF_vars(Reap) /\ WF_vars(FinishRun)
FairSpec == Spec /\ Fairness

-----------------------------------------------------------------------------
(* What the providers demand of every request, after parallel batches, denied, *)
(* reused, failed and delegated calls, images and the compression of early     *)
(* steps: the results of a message's calls follow it at once, one for each,    *)
(* and no result stands anywhere else.                                         *)
Window(ms, i) == i + 1 .. i + Len(ms[i].ids)
Paired(ms) ==
    /\ \A i \in Steps(ms) :
         /\ Window(ms, i) \subseteq {j \in DOMAIN ms : ms[j].role = "tool"}
         /\ {ms[j].ids : j \in Window(ms, i)} = {<<ms[i].ids[k]>> : k \in DOMAIN ms[i].ids}
    /\ \A j \in DOMAIN ms : ms[j].role = "tool" => \E i \in Steps(ms) : j \in Window(ms, i)
RequestWellFormed == \A l \in Id : loops[l].pc \in {"open", "model"} => Paired(loops[l].msgs)

(* The loops above a loop, itself included: those that are in every set that   *)
(* holds it and whoever delegated to a member.                                 *)
LineOf(l) == {a \in Id : \A S \in SUBSET Id :
    l \in S /\ (\A k \in S : k # 1 => loops[k].up \in S) => a \in S}

(* Nothing is about to be executed by a delegated agent, however deep and      *)
(* however it is configured, that any agent above it was not granted, and only *)
(* the root drives the browser.                                                *)
NarrowedAllTheWay == \A l \in Id :
    /\ loops[l].pc = "regular" /\ loops[l].todo # <<>> /\ Granted(loops[l], Head(loops[l].todo)) =>
          /\ \A a \in LineOf(l) : Head(loops[l].todo).tool \in loops[a].grant
          /\ Head(loops[l].todo).tool = "ui" => l = 1
    /\ \A a \in LineOf(l) \ {l} : "delegate_task" \in loops[a].grant

(* However often a stream is opened again, a client sees the output of one     *)
(* attempt of a step only.                                                     *)
NoReplay == \A l \in Id : Cardinality(loops[l].shown) <= 1

(* A delegation shown as running is, unless the run was cancelled under it, and *)
(* one shown as ended has the record of that outcome committed.                *)
CardCloses == \A l \in Id :
    /\ loops[l].card = "open" /\ loops[l].pc = "over" => loops[l].cut # "no"
    /\ loops[l].card = "closed" =>
          loops[l].row = IF loops[l].end = "error" THEN "failed" ELSE "completed"

(* When the run has ended, none of the root's own delegations is at work.      *)
NothingAfterEnd == halt = "done" =>
    \A l \in Id : loops[l].depth <= 1 => loops[l].pc = "over"

(* What a client is shown of a run is what has happened in it.                 *)
ShownAsIs == NoReplay /\ CardCloses /\ NothingAfterEnd

(* A loop that waits for its delegations goes on, whatever becomes of them,    *)
(* unless one of them or of theirs waits for a model, a tool or a user: loops  *)
(* never wait for each other alone.                                            *)
AsksOutside(l) == loops[l].pc \in {"open", "model"} \/ (loops[l].pc = "regular" /\ loops[l].todo # <<>>)
WaitsForOutside == \A l \in 1 .. MaxLoops :
    (l \in Id /\ Waits(l)) ~> (l \in Id /\ (Waits(l) => \E k \in Id : l \in LineOf(k) /\ AsksOutside(k)))

(* A run whose root is over - answered, failed or stopped - ends, although its *)
(* delegations wait for a model, a tool or a user that never answers.          *)
RunEnds == (1 \in Id /\ loops[1].pc = "over") ~> (halt = "done")

-----------------------------------------------------------------------------
(* What the documentation and the comments say and the code does not keep.     *)

(* A delegation has a time limit (delegation_timeout, which nothing reads).    *)
DelegationReturns == \A l \in 1 .. MaxLoops :
    (l \in Id /\ Waits(l)) ~> (l \in Id /\ ~Waits(l))

(* A stop cancels the delegations below as well: also one that a delegation    *)
(* starts in the very step in which it is cancelled.                           *)
SubtreeEnds == halt = "done" => \A l \in Id : loops[l].pc = "over"

(* The one-line summary of a result shows its status.                          *)
LabelTrue == \A l \in Id : \A i \in DOMAIN loops[l].msgs :
    LET m == loops[l].msgs[i] IN m.form = "line" => (m.label = "error") = m.error

(* Results are yielded in the order of the model's calls.                      *)
InCallOrder == \A l \in Id : \A i, j \in DOMAIN loops[l].msgs :
    LET m == loops[l].msgs[i]  n == loops[l].msgs[j]
    IN i < j /\ m.role = "tool" /\ n.role = "tool" => m.ids[1] < n.ids[1]
=============================================================================
