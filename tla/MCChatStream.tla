---------------------------- MODULE MCChatStream ----------------------------
(* What a browser does with a chat, on small instances: it reads the events of *)
(* a run, performs the actions that came with them, and shows the turns of its *)
(* sessions.  The three share no state, so one of them runs in each behaviour; *)
(* the others stay in their first state, in which nothing their fairness is    *)
(* about is enabled.                                                           *)
EXTENDS ChatStream, UiRunner, ChatPage, TLC
CONSTANTS p1, s1, s2, c1, a1, a2
OneProc     == {p1}
OneSession  == {s1}
NoCalls     == {}
OneClient   == {c1}
TwoActions  == {a1, a2}
TwoSessions == {s1, s2}
OneOfEach   == (a1 :> s1) @@ (a2 :> s2)

VARIABLE part
MCInit == /\ SInit /\ RInit /\ part \in {"stream", "actions", "page"}
          /\ part # "actions" => held
          /\ CInit
MCNext == \/ part = "stream" /\ SNext /\ UNCHANGED <<part, rvars, cvars>>
          \/ part = "actions" /\ RNext /\ UNCHANGED <<part, svars, cvars>>
          \/ part = "page" /\ CNext /\ UNCHANGED <<part, svars, rvars>>
MCSpec == MCInit /\ [][MCNext]_<<part, svars, rvars, cvars>> /\ SFairness /\ RFairness /\ CFairness

(* A browser action is carried out once, however often its event is delivered  *)
(* and to which of the page's connections; and what is shown of a turn is its  *)
(* log.                                                                        *)
ActsOnce == RunOnce /\ PageFaithful
=============================================================================
