----------------------------- MODULE MCChannels -----------------------------
(* The parts of a channel on small instances: the pipeline of a chat, the card *)
(* of a reply, the tasks the pet shows and the long connection of a bot.  They *)
(* share no state, so one of them runs in each behaviour.                      *)
EXTENDS ChannelPipeline, StreamingReply, TaskEvents, BotTransport
CONSTANTS m1, m2, s1, s2, c1, c2
TextMsgs == {m1, m2}
OneStop  == {s1}
TwoStops == {s1, s2}
TwoChats == {c1, c2}
OneChat  == {c1}
OwnSession == [c \in OneChat |-> c]

VARIABLE part
Init == /\ PInit /\ SInit /\ EInit /\ TInit /\ part \in {"pipeline", "reply", "events", "transport"}
        /\ part # "reply" => brk = 1            \* the place where a text is cut is the reply's
Next == \/ part = "pipeline" /\ PNext /\ UNCHANGED <<part, svars, evars, tvars>>
        \/ part = "reply" /\ SNext /\ UNCHANGED <<part, pvars, evars, tvars>>
        \/ part = "events" /\ ENext /\ UNCHANGED <<part, pvars, svars, tvars>>
        \/ part = "transport" /\ TNext /\ UNCHANGED <<part, pvars, svars, evars>>
Spec == Init /\ [][Next]_<<part, pvars, svars, evars, tvars>> /\ PFairness

(* What a user has before the eyes at the end, in the chat and on the pet, is   *)
(* what happened, and the connection of a bot serves its senders.              *)
UserSees == FinalShown /\ ViewConverges /\ TTypeOK /\ LinkHolds
=============================================================================
