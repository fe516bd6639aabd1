---------------------------- MODULE BotTransport -----------------------------
(* The long connection of a WeCom bot (channels/wecom_bot/ws_transport.py) and *)
(* what its adapter sends over it (channels/wecom_bot/adapter.py): answers are *)
(* matched by the request id of a frame, which for a reply is the id of the    *)
(* message replied to.  A chat stands for that id.                             *)
EXTENDS Integers, Sequences, FiniteSets

CONSTANTS
    Chat,        \* chats with a message that is being answered
    Files,       \* those of them a file is sent to meanwhile
    MaxMissed,   \* _MAX_MISSED_PONG: 2
    MaxLinks,    \* bound: connections opened
    MaxTicks,    \* bound: heartbeats in a row without a pong, frames on their way
    MaxFrames    \* bound: frames the adapter sends

ASSUME TransportAssumption == Files \subseteq Chat /\ MaxMissed \in Nat \ {0} /\ MaxLinks \in Nat /\ MaxTicks \in Nat
                               /\ MaxFrames \in Nat

(* Who sends: the stream of a chat's answer, and a file sent to the chat.      *)
Sender == (Chat \X {"stream"}) \cup (Files \X {"file"})
NoChat == "none"
NoSender == <<"none", "none">>
Untold == [is |-> "none", of |-> 0]
Rest == [pc |-> "idle", key |-> NoChat, link |-> 0, frame |-> 0, told |-> Untold, does |-> "none"]

VARIABLES
    loop,       \* of _run_loop: "wait", "open", "auth", "live", "closing", "over"
    ws,          \* _ws: a connection, or 0
    opened,       \* connections opened so far
    carries,     \* the connection's network still carries frames
    inbox,       \* frames on their way from the server
    heart,       \* [pending, missed] of the ping loop
    since,       \* history: pings sent on this connection since its last pong
    unheard,     \* history: heartbeats since the network stopped carrying
    aborted,     \* history: the pings that were unanswered when it was aborted, or none
    sender,      \* the calls of _send_and_wait: [pc, key, link, frame, told, does]
    futures,     \* _pending: key -> the sender whose future it is
    streamReq,   \* _stream_req_id
    streaming,   \* chats whose card is open
    crossed,     \* history: two cards were open at a time
    strayed,     \* history: a chat was shown what is another's
    frames       \* frames sent
netState == <<loop, ws, opened, carries, inbox>>
beat == <<heart, since, unheard, aborted>>
calls == <<sender, futures, streamReq, streaming, crossed, strayed, frames>>
tvars == <<netState, beat, calls>>

TTypeOK ==
    /\ loop \in {"wait", "open", "auth", "live", "closing", "over"} /\ ws \in 0 .. opened
    /\ heart.missed \in 0 .. MaxMissed /\ futures \in [Chat -> Sender \cup {NoSender}]
    /\ \A s \in Sender : sender[s].pc \in {"idle", "wait"}

TInit ==
    /\ loop = "open" /\ ws = 0 /\ opened = 0 /\ carries = FALSE /\ inbox = <<>>
    /\ heart = [pending |-> FALSE, missed |-> 0] /\ since = 0 /\ unheard = 0 /\ aborted = MaxMissed
    /\ sender = [s \in Sender |-> Rest] /\ futures = [c \in Chat |-> NoSender]
    /\ streamReq = NoChat /\ streaming = {} /\ crossed = FALSE /\ strayed = FALSE /\ frames = 0

-----------------------------------------------------------------------------
(* The connection.                                                           *)

(* The socket is _ws before the bot has subscribed; every connection starts    *)
(* with a heart that has missed nothing.                                       *)
FreshHeart == [pending |-> FALSE, missed |-> 0]
Connect ==
    /\ loop = "open" /\ opened < MaxLinks /\ opened' = opened + 1 /\ ws' = opened'
    /\ loop' = "auth" /\ carries' = TRUE /\ inbox' = <<[is |-> "subscribed"]>>
    /\ heart' = FreshHeart /\ since' = 0 /\ unheard' = 0
    /\ UNCHANGED <<aborted, calls>>
ConnectFails ==
    /\ loop = "open" /\ opened < MaxLinks /\ opened' = opened + 1 /\ loop' = "closing"
    /\ UNCHANGED <<ws, carries, inbox, beat, calls>>
(* _subscribe takes the first frame for the answer to its subscription: the    *)
(* frames other senders write meanwhile are answered after it.                 *)
Subscribed ==
    /\ loop = "auth" /\ inbox # <<>> /\ inbox' = Tail(inbox) /\ loop' \in {"live", "closing"}
    /\ UNCHANGED <<ws, opened, carries, beat, calls>>
SubscribeTimesOut ==
    /\ loop = "auth" /\ loop' = "closing"
    /\ UNCHANGED <<ws, opened, carries, inbox, beat, calls>>
(* The connection closes, or is aborted.                                       *)
Closes ==
    /\ loop = "live" /\ loop' = "closing" /\ ws' = 0
    /\ UNCHANGED <<opened, carries, inbox, beat, calls>>
(* The network stops without a word.                                           *)
NetworkDies ==
    /\ loop = "live" /\ carries /\ carries' = FALSE /\ inbox' = <<>>
    /\ UNCHANGED <<loop, ws, opened, beat, calls>>
Waits(s) == sender[s].pc = "wait" /\ futures[sender[s].key] = s
\* A stream that could not be opened clears the id that every stream replies
\* to; one that was to be finished is over in any case.
OverWithout(S) == streaming \ {s[1] : s \in {x \in S : sender[x].does \in {"open", "finish"}}}
ReqWithout(S) == IF \E s \in S : sender[s].does = "open" THEN NoChat ELSE streamReq
(* _reject_all_pending, before the wait for the next attempt: who waits is     *)
(* told at once, unless it has its answer.                                     *)
Rejected == {s \in Sender : Waits(s)}
Unanswered == {s \in Rejected : sender[s].told = Untold}
Settle ==
    /\ loop = "closing" /\ loop' = "wait" /\ inbox' = <<>> /\ carries' = FALSE
    /\ sender' = [s \in Sender |-> IF s \in Unanswered THEN Rest ELSE sender[s]]
    /\ futures' = [c \in Chat |-> IF futures[c] \in Rejected THEN NoSender ELSE futures[c]]
    /\ streaming' = OverWithout(Unanswered) /\ streamReq' = ReqWithout(Unanswered)
    /\ UNCHANGED <<ws, opened, beat, crossed, strayed, frames>>
Again == /\ loop = "wait" /\ loop' = "open"
         /\ UNCHANGED <<ws, opened, carries, inbox, beat, calls>>
(* stop() cancels the loop: nobody is rejected, the senders time out.          *)
StopLoop == /\ loop # "over" /\ loop' = "over" /\ ws' = 0 /\ inbox' = <<>> /\ carries' = FALSE
        /\ UNCHANGED <<opened, beat, calls>>

-----------------------------------------------------------------------------
(* The heartbeat.                                                            *)

Beats == loop = "live" /\ since + unheard < MaxTicks /\ Len(inbox) < MaxTicks
Missing == IF heart.pending THEN heart.missed + 1 ELSE heart.missed
Ping ==
    /\ Beats /\ Missing < MaxMissed
    /\ heart' = [pending |-> TRUE, missed |-> Missing] /\ since' = since + 1
    /\ unheard' = IF carries THEN 0 ELSE unheard + 1
    /\ inbox' = IF carries THEN Append(inbox, [is |-> "pong"]) ELSE inbox
    /\ UNCHANGED <<loop, ws, opened, carries, aborted, calls>>
(* Aborted: the receiving loop ends at once.                                   *)
Abort ==
    /\ loop = "live" /\ Missing = MaxMissed /\ aborted' = since
    /\ loop' = "closing" /\ ws' = 0
    /\ UNCHANGED <<opened, carries, inbox, heart, since, unheard, calls>>

-----------------------------------------------------------------------------
(* Frames from the server, in their order.                                   *)

Next_(is) == loop = "live" /\ inbox # <<>> /\ Head(inbox).is = is /\ inbox' = Tail(inbox)
Pong == /\ Next_("pong") /\ heart' = [pending |-> FALSE, missed |-> 0] /\ since' = 0
        /\ UNCHANGED <<loop, ws, opened, carries, unheard, aborted, calls>>
(* An answer goes to the future registered under its id, unless that one has   *)
(* been answered or given up.                                                  *)
IsOf(s) == sender[s].pc = "wait" /\ sender[s].told = Untold
Ack(is) ==
    /\ Next_(is)
    /\ LET s == futures[Head(inbox).key]
       IN sender' = IF s # NoSender /\ IsOf(s)
                    THEN [sender EXCEPT ![s].told = [is |-> is, of |-> Head(inbox).of]] ELSE sender
    /\ UNCHANGED <<loop, ws, opened, carries, beat, futures, streamReq, streaming, crossed, strayed,
                   frames>>

-----------------------------------------------------------------------------
(* Frames to the server: _send_and_wait.                                     *)

CanSend == ws # 0 /\ loop \in {"auth", "live"} /\ frames < MaxFrames
Sent(s, key, does) ==
    /\ sender' = [sender EXCEPT ![s] = [pc |-> "wait", key |-> key, link |-> ws,
                                       frame |-> frames + 1, told |-> Untold, does |-> does]]
    /\ futures' = [futures EXCEPT ![key] = s] /\ frames' = frames + 1
\* The server shows the frame in the chat of its id, or refuses it, and answers.
Shows(s, key) ==
    IF carries
    THEN \E is \in {"ok", "expired"} :
           /\ inbox' = Append(inbox, [is |-> is, key |-> key, of |-> frames + 1])
           /\ strayed' = (strayed \/ (is = "ok" /\ key # s[1]))
    ELSE UNCHANGED <<inbox, strayed>>
Free(s) == sender[s].pc # "wait"

(* start_stream makes the chat's message the one every stream replies to.      *)
StartStream(c) ==
    /\ Free(<<c, "stream">>) /\ c \notin streaming /\ CanSend /\ Sent(<<c, "stream">>, c, "open")
    /\ Shows(<<c, "stream">>, c) /\ streamReq' = c /\ streaming' = streaming \cup {c}
    /\ crossed' = (crossed \/ streaming # {})
    /\ UNCHANGED <<loop, ws, opened, carries, beat>>
UpdateStream(c, does) ==
    /\ Free(<<c, "stream">>) /\ c \in streaming /\ CanSend /\ streamReq # NoChat
    /\ Sent(<<c, "stream">>, streamReq, does) /\ Shows(<<c, "stream">>, streamReq)
    /\ UNCHANGED <<loop, ws, opened, carries, beat, streamReq, streaming, crossed>>
SendFile(c) ==
    /\ Free(<<c, "file">>) /\ CanSend /\ Sent(<<c, "file">>, c, "file") /\ Shows(<<c, "file">>, c)
    /\ UNCHANGED <<loop, ws, opened, carries, beat, streamReq, streaming, crossed>>

\* The finally of a sender removes its id, whoever is registered under it.
Ends(s, well) ==
    /\ sender' = [sender EXCEPT ![s] = Rest] /\ futures' = [futures EXCEPT ![sender[s].key] = NoSender]
    /\ streaming' = (IF well /\ sender[s].does = "open" THEN streaming ELSE OverWithout({s}))
    /\ streamReq' = (IF well THEN streamReq ELSE ReqWithout({s}))
    /\ UNCHANGED <<netState, beat, crossed, strayed, frames>>
Return(s) == /\ sender[s].pc = "wait" /\ sender[s].told # Untold
             /\ Ends(s, sender[s].told.is = "ok")
TimesOut(s) == sender[s].pc = "wait" /\ sender[s].told = Untold /\ Ends(s, FALSE)
(* Without a connection, start_stream clears the id; without one or without    *)
(* the id, finish_stream sends nothing.                                        *)
NoLink == loop \notin {"auth", "live"}
Unopened(c) ==
    /\ Free(<<c, "stream">>) /\ c \notin streaming /\ NoLink /\ streamReq # NoChat /\ streamReq' = NoChat
    /\ UNCHANGED <<netState, beat, sender, futures, streaming, crossed, strayed, frames>>
Unfinished(c) ==
    /\ Free(<<c, "stream">>) /\ c \in streaming /\ (NoLink \/ streamReq = NoChat)
    /\ streaming' = streaming \ {c}
    /\ UNCHANGED <<netState, beat, sender, futures, streamReq, crossed, strayed, frames>>

TNext ==
    \/ Connect \/ ConnectFails \/ Subscribed \/ SubscribeTimesOut \/ Closes \/ NetworkDies \/ Settle \/ Again \/ StopLoop
    \/ Ping \/ Abort \/ Pong
    \/ \E is \in {"ok", "expired"} : Ack(is)
    \/ \E c \in Chat : \/ StartStream(c) \/ Unopened(c) \/ Unfinished(c)
                       \/ \E does \in {"update", "finish"} : UpdateStream(c, does)
    \/ \E c \in Files : SendFile(c)
    \/ \E s \in Sender : Return(s) \/ TimesOut(s)
TSpec == TInit /\ [][TNext]_tvars

-----------------------------------------------------------------------------
(* A connection is only given up after two of its own pings in a row went      *)
(* unanswered, and one that carries nothing is given up by the third heartbeat *)
(* after that.                                                                 *)
HeartbeatFair == aborted >= MaxMissed /\ unheard <= MaxMissed

(* Nobody waits for the answer of a connection that is gone while the next one *)
(* is being opened, unless another frame took its id.                          *)
NoneStranded == loop \in {"open", "auth", "live"} => \A s \in Sender :
    Waits(s) /\ sender[s].told = Untold => sender[s].link = opened

(* While one chat streams at a time, what is shown in a chat is the chat's.    *)
AloneIsOwn == strayed => crossed
LinkHolds == HeartbeatFair /\ NoneStranded /\ AloneIsOwn

-----------------------------------------------------------------------------
(* What the code does not keep.                                                *)

(* The stream of a chat is shown in that chat.                                 *)
StreamToOwnChat == ~strayed
(* What a sender is told is the answer to its own frame.                       *)
AckIsOwn == \A s \in Sender : sender[s].told # Untold => sender[s].told.of = sender[s].frame
(* A card that is open can be updated.                                         *)
OpenIsUpdated == streaming # {} => streamReq # NoChat
=============================================================================
