---------------------------- MODULE MCChatTurns ----------------------------
(* Small instances for TLC of what is kept along a session: the chain of runs *)
(* of the web page, and the messages of turns of every kind.  The two share   *)
(* no state here, so one of them runs in each behaviour.                      *)
EXTENDS ChatRuns, ChatTurns
CONSTANTS p1, s1, k1
OneProc    == {p1}
OneSession == {s1}
OneCall    == {k1}
NoDeleg    == {}

\* An earlier turn with one call that returned and one that was interrupted.
OldCalls == <<[call |-> <<0, 1>>, result |-> "ok"], [call |-> <<0, 2>>, result |-> "none"]>>
Earlier  == <<Question(0, TRUE), Answer(0, 1, [text |-> 2, calls |-> OldCalls])>>
Starts   == {<<>>, Earlier}

VARIABLE part
MCInit == Init /\ TInit /\ part \in {"runs", "turns"} /\ (part = "runs" => msgrows = <<>>)
MCNext == \/ part = "runs" /\ Next /\ UNCHANGED <<part, tvars>>
          \/ part = "turns" /\ TNext /\ UNCHANGED <<part, vars>>
MCSpec == MCInit /\ [][MCNext]_<<part, vars, tvars>>
============================================================================
