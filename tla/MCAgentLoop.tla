---------------------------- MODULE MCAgentLoop ----------------------------
(* Small instances for TLC of an agent loop, of one step of its model and of  *)
(* the connections to the MCP servers that its tools lead to.  A loop sees of *)
(* a step only the calls that are complete and of a call only that it         *)
(* returns, so one of the three runs in each behaviour and the others never   *)
(* start: there is nothing that their fairness could ask for.                 *)
EXTENDS AgentLoop, McpServers, LlmStream, TLC
Shell    == {"run_shell"}
Grants   == {Tool \ {"view_image"}, Tool \ {"ui"}}
Children == {Tool \ {"view_image"}, Tool}
Batches  == {<<"run_shell", "delegate_task">>, <<"delegate_task", "view_image">>,
             <<"ui", "AskUserQuestion">>, <<"view_image", "run_shell">>}

NoLoop    == loops = <<>> /\ calls = 0 /\ halt = "done" /\ snap = {}
NoServers == /\ reg = [s \in Server |-> 0] /\ tool_map = <<>>
             /\ server_lock = [s \in Server |-> NoOne] /\ refresh_lock = [s \in Server |-> NoOne]
             /\ conn = [c \in Conn |-> NoConn] /\ owner = [o \in Owner |-> NoOwner]
             /\ op = [x \in Request |-> NoOp] /\ offer = [s \in Server |-> {}]
             /\ expired = {} /\ blamed = {} /\ upsets = 0

NoStream  == /\ ask = [kind |-> "openai", retry |-> FALSE, image |-> FALSE, whole |-> FALSE] /\ at = "gone" /\ round = 1
             /\ tries = 0 /\ sent = NothingSent /\ got = NothingGot /\ asked = 0 /\ seen = 0
             /\ rows = <<>> /\ begun = 0 /\ traced = FALSE

VARIABLE part
MCInit == \/ part = "loop" /\ Init /\ NoServers /\ NoStream
          \/ part = "servers" /\ NoLoop /\ McpInit /\ NoStream
          \/ part = "stream" /\ NoLoop /\ NoServers /\ TInit
MCNext == \/ part = "loop" /\ Next /\ UNCHANGED <<part, mvars, tvars>>
          \/ part = "servers" /\ McpNext /\ UNCHANGED <<part, vars, tvars>>
          \/ part = "stream" /\ TNext /\ UNCHANGED <<part, vars, mvars>>
MCSpec == MCInit /\ [][MCNext]_<<part, vars, mvars, tvars>> /\ Fairness /\ McpFairness

(* What the model is sent and sends, and what of it is seen, are the same: the *)
(* pieces of a step's stream end in the calls that were sent, each recorded    *)
(* stream with its outcome, and a tool's card shows the result of its call.    *)
StepIsTrue == ShownAsIs /\ StreamHolds

(* Whoever waits gets an answer, or waits for somebody outside the program in  *)
(* the end: loops for their delegations, operations for a connection.  And a   *)
(* run that is over does not wait for them.                                    *)
WaitersReturn == WaitsForOutside /\ RunEnds /\ OperationsEnd
============================================================================
