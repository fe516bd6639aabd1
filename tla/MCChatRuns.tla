---------------------------- MODULE MCChatRuns ----------------------------
(* Small instances of ChatRuns for TLC.  The configurations choose among the   *)
(* sets below, how many runs and events there are, and which mishaps happen.   *)
EXTENDS ChatRuns
CONSTANTS p1, p2, s1, k1, k2
OneProc    == {p1}
TwoProcs   == {p1, p2}
OneSession == {s1}
OneCall    == {k1}
TwoCalls   == {k1, k2}
NoDeleg    == {}
DelegK2    == {k2}
===========================================================================
