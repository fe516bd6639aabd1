----------------------------- MODULE ChatTurns -----------------------------
(* The messages of a session: what each turn reads of the earlier ones, what  *)
(* it sends to the model, and what it leaves behind.  A turn comes in by the  *)
(* web page, a channel, the plain REST call, the streaming or the one-shot    *)
(* call of the agent API, or as a slash command; only those of the web page   *)
(* wait for one another.  ChatTurnRecorder collects what the agent does and   *)
(* writes it to the message table at every tool call; rescue paths write it   *)
(* again when the turn is disturbed.                                          *)
EXTENDS Naturals, FiniteSets, SequencesExt, TLC

CONSTANTS MaxTurns,      \* Turns of the session.
          Kinds,         \* How they come in, a subset of AllKinds.
          MaxToolCalls,  \* Tool calls of a turn.
          MaxDisturbed,  \* Cancellations, errors, crashes, overflows in all.
          SoftLimit,     \* Rows that are loaded (agent.context_history_soft_limit).
          HistoryBudget, \* Tokens of history; a message is one token.
          Trigger,       \* Tokens from which a request is compressed.
          PromptCost,    \* Tokens of the system prompt.
          EmergencyKeep, \* Messages kept after an overflow (10 in the code).
          SummaryFrom,   \* Messages from which a session is summarised (10).
          Before         \* Rows the session may start with.

AllKinds == {"web", "channel", "rest", "api", "exec", "command"}
ASSUME TurnsAssumption ==
    /\ Kinds \subseteq AllKinds
    /\ {MaxTurns, MaxToolCalls, MaxDisturbed, SoftLimit, HistoryBudget, Trigger,
        PromptCost, EmergencyKeep, SummaryFrom} \subseteq Nat

Turns == 1 .. MaxTurns
Recorded == {"web", "channel", "rest", "api"}   \* Kinds that use ChatTurnRecorder.

VARIABLES msgrows,   \* The rows, by created_at.  "seen": the transaction is committed.
          turns,     \* The turns, by number.
          summary,   \* Session.context_summary: whose it is, 0 none.
          summing,   \* Turns whose summary is being generated in the background.
          session,   \* "open" or "gone".
          disturbed  \* Disturbances so far.
tvars == <<msgrows, turns, summary, summing, session, disturbed>>

Blank == [text |-> 0, calls |-> <<>>]
NoTurn == [kind |-> "none", pc |-> "new", loaded |-> <<>>, context |-> <<>>,
           rec |-> Blank, told |-> Blank, stored |-> FALSE, begun |-> {},
           tries |-> 0, upset |-> "none", wiped |-> FALSE, first |-> FALSE, titled |-> FALSE]

Question(t, seen) == [of |-> t, role |-> "user", seen |-> seen, id |-> 0,
                      text |-> 1, calls |-> <<>>]
Answer(t, id, said) == [of |-> t, role |-> "assistant", seen |-> TRUE, id |-> id,
                        text |-> said.text, calls |-> said.calls]
Reply(t) == [of |-> t, role |-> "system", seen |-> TRUE, id |-> 0, text |-> 1, calls |-> <<>>]

TInit == /\ msgrows \in Before /\ turns = [t \in Turns |-> NoTurn]
         /\ summary = 0 /\ summing = {} /\ session = "open" /\ disturbed = 0
-----------------------------------------------------------------------------
(* Reading the history.                                                       *)
Msg(role, of, calls, known) == [role |-> role, of |-> of, calls |-> calls, known |-> known]
User(t) == Msg("user", t, {}, TRUE)
CallsOf(cs) == {cs[i].call : i \in DOMAIN cs}
ToolMsgs(of, cs) == [i \in DOMAIN cs |-> Msg("tool", of, {cs[i].call}, cs[i].result = "ok")]

\* Calls without a result come last, with the text that their outcome is unknown.
RowMsgs(r) ==
    IF r.role = "user" THEN <<User(r.of)>>
    ELSE IF r.role = "system" \/ (r.text = 0 /\ r.calls = <<>>) THEN <<>>
    ELSE <<Msg("assistant", r.of, CallsOf(r.calls), TRUE)>>
         \o ToolMsgs(r.of, SelectSeq(r.calls, LAMBDA c : c.result # "none"))
         \o ToolMsgs(r.of, SelectSeq(r.calls, LAMBDA c : c.result = "none"))

Newest(s, n) == IF Len(s) <= n THEN s ELSE SubSeq(s, Len(s) - n + 1, Len(s))

\* A tool message stays where the last assistant message made its call.
DropOrphans(ms) ==
    FoldLeft(LAMBDA acc, m :
               IF m.role = "assistant" THEN [out |-> Append(acc.out, m), open |-> m.calls]
               ELSE IF m.role = "tool"
                    THEN IF m.calls \subseteq acc.open
                         THEN [out |-> Append(acc.out, m), open |-> acc.open \ m.calls]
                         ELSE acc
               ELSE [acc EXCEPT !.out = Append(@, m)],
             [out |-> <<>>, open |-> {}], ms).out

Loaded(rs) ==
    LET ms == FlattenSeq([i \in DOMAIN rs |-> RowMsgs(rs[i])])
    IN IF Len(ms) > HistoryBudget /\ Len(ms) > 4 THEN DropOrphans(Newest(ms, HistoryBudget))
       ELSE ms

\* The agent API takes every row as it is, without calls.
PlainLoaded(rs) == [i \in DOMAIN rs |-> Msg(rs[i].role, rs[i].of, {}, TRUE)]

Visible(t) == SelectSeq(msgrows, LAMBDA r : r.seen /\ ~(r.of = t /\ r.role = "assistant"))
History(t) == IF turns[t].kind \in {"api", "exec"} THEN PlainLoaded(Visible(t))
              ELSE Loaded(Newest(Visible(t), SoftLimit))
-----------------------------------------------------------------------------
(* Preparing the request.                                                     *)
Summarised == Msg("system", 0, {}, TRUE)
IsSystem(m) == m.role = "system"
IsTalk(m) == m.role # "system"
Users(ms) == {i \in DOMAIN ms : ms[i].role = "user"}

\* Where the older half ends: an index into the messages with the system ones
\* (the prompt is one of them), applied to those without.
SplitPoint(system, talk) ==
    IF Users(talk) = {} THEN system + Len(talk)
    ELSE system + (CHOOSE i \in Users(talk) : \A j \in Users(talk) : i <= j) - 1

\* The trailing message is the one AgentLoop adds itself.
Enveloped(ms, t) == IF ms # <<>> /\ Last(ms) = User(t) THEN Front(ms) ELSE ms

\* "told": the model that summarises gave a text.
Prepared(hist, t, told) ==
    LET all == (IF summary = 0 THEN <<>> ELSE <<Summarised>>) \o hist \o <<User(t)>>
        sys == SelectSeq(all, IsSystem)
        talk == Newest(SelectSeq(all, IsTalk), HistoryBudget)
        split == SplitPoint(Len(sys) + 1, talk)
    IN Enveloped(IF PromptCost + Len(all) <= Trigger THEN all
                 ELSE IF PromptCost + Len(sys) + Len(talk) <= Trigger \/ split <= 1 THEN sys \o talk
                 ELSE sys \o (IF told THEN <<Summarised>> ELSE <<>>)
                          \o SubSeq(talk, split + 1, Len(talk)), t)

Emergency(context, t) ==
    LET all == context \o <<User(t)>>
    IN Enveloped(SelectSeq(all, IsSystem) \o Newest(SelectSeq(all, IsTalk), EmergencyKeep), t)
-----------------------------------------------------------------------------
(* Writing.                                                                   *)
RowAt(t, role, id) == {i \in DOMAIN msgrows :
    msgrows[i].of = t /\ msgrows[i].role = role /\ msgrows[i].id = id}
\* The id a row of the answer would get: a row stored by a commit whose reply
\* was lost is not known to the recorder.
NextId(t) == Cardinality({i \in DOMAIN msgrows :
    msgrows[i].of = t /\ msgrows[i].role = "assistant"}) + 1

Committed(t, rs) == [i \in DOMAIN rs |-> IF rs[i].of = t THEN [rs[i] EXCEPT !.seen = TRUE] ELSE rs[i]]
RolledBack(t, rs) == SelectSeq(rs, LAMBDA r : r.of = t => r.seen)

\* The first save of a turn that holds one transaction commits question and
\* answer with one time; that of a channel has a transaction of its own.
Written(t, said) ==
    IF turns[t].stored
    THEN [i \in DOMAIN msgrows |->
            IF i \in RowAt(t, "assistant", 1) THEN [msgrows[i] EXCEPT !.text = said.text, !.calls = said.calls]
            ELSE msgrows[i]]
    ELSE LET new == Answer(t, NextId(t), said)
             own == {i \in RowAt(t, "user", 0) : ~msgrows[i].seen}
         IN IF own = {} THEN Append(msgrows, new)
            ELSE Committed(t, InsertAt(msgrows, (CHOOSE i \in own : TRUE) + 1, new))

Upd(t, r) == turns' = [turns EXCEPT ![t] = r @@ @]
Live(t) == turns[t].pc \notin {"new", "over"}
Is(t, kinds, pc) == turns[t].kind \in kinds /\ turns[t].pc = pc
Others == <<summary, summing, session, disturbed>>

\* What finish() and expire_run() leave of a run's snapshot in its message.
Marked(said) == [said EXCEPT !.calls = [i \in DOMAIN @ |->
    IF @[i].result = "none" THEN [@[i] EXCEPT !.result = "unknown"] ELSE @[i]]]
-----------------------------------------------------------------------------
(* A turn comes in.  One of the web page reserves its answer, which is why the *)
(* session is never without other messages when it counts them for a title.   *)
IsNext(t) == turns[t].pc = "new" /\ \A s \in Turns : s < t => turns[s].pc # "new"
Untold == \A r \in Range(msgrows) : ~r.seen

AskWeb(t) ==
    /\ \A s \in Turns : turns[s].kind = "web" => ~Live(s)
    /\ msgrows' = msgrows \o <<Question(t, TRUE), Answer(t, 1, Blank)>>
    /\ Upd(t, [kind |-> "web", pc |-> "asked", stored |-> TRUE, first |-> Untold, titled |-> FALSE])

\* The time of the question is that of the transaction which reads the history.
Ask(t, kind) ==
    /\ msgrows' = Append(msgrows, Question(t, FALSE))
    /\ Upd(t, [kind |-> kind, pc |-> "asked", first |-> Untold, titled |-> Untold])

Come(t) == /\ IsNext(t) /\ session = "open" /\ UNCHANGED Others
           /\ \/ "web" \in Kinds /\ AskWeb(t)
              \/ \E kind \in Kinds \ {"web"} : Ask(t, kind)

Enter(t, told) ==
    /\ turns[t].pc = "asked" /\ turns[t].kind # "command"
    /\ Upd(t, [loaded |-> History(t), context |-> Prepared(History(t), t, told),
               pc |-> IF turns[t].kind = "channel" THEN "entering" ELSE "run"])
    /\ UNCHANGED <<msgrows, Others>>

\* A channel commits the question, so that it survives a failure of the agent.
StoreQuestion(t) == /\ Is(t, {"channel"}, "entering")
                    /\ msgrows' = Committed(t, msgrows)
                    /\ Upd(t, [pc |-> "run"]) /\ UNCHANGED Others

\* A slash command stores its text and its result; /compact replaces the summary.
Command(t, compacts) ==
    /\ Is(t, {"command"}, "asked")
    /\ msgrows' = Committed(t, InsertAt(msgrows, (CHOOSE i \in RowAt(t, "user", 0) : TRUE) + 1, Reply(t)))
    /\ summary' = IF compacts /\ session = "open" THEN t ELSE summary
    /\ Upd(t, [pc |-> "over"]) /\ UNCHANGED <<summing, session, disturbed>>
-----------------------------------------------------------------------------
(* The agent works.                                                           *)
Rec(t) == turns[t].rec
Pending(t) == {i \in DOMAIN Rec(t).calls : Rec(t).calls[i].result = "none"}
Begun(t, i) == Rec(t).calls[i].call \in turns[t].begun
Shows(t) == turns[t].kind \in {"web", "channel", "api"}

\* process(): what is written to the message table at once.
CheckpointBug(what) == what \in {"result", "final"}
Checkpoint(what) == what \in {"call", "result", "final"}

\* Without a checkpoint the page is told at once, otherwise after it.
Takes(t, what, rec) ==
    LET saves == Checkpoint(what) /\ (turns[t].kind # "exec" \/ what = "final")
    IN Upd(t, [rec |-> rec, pc |-> IF saves THEN "saving" ELSE "run",
               told |-> IF ~saves /\ Shows(t) THEN rec ELSE turns[t].told])
       /\ UNCHANGED <<msgrows, Others>>

Say(t) == /\ turns[t].pc = "run" /\ Rec(t).text = 0
          /\ Takes(t, "text", [Rec(t) EXCEPT !.text = 1])

\* All calls of a step are announced before the first begins.
Announce(t) ==
    LET n == Len(Rec(t).calls) + 1
    IN /\ turns[t].pc = "run" /\ n <= MaxToolCalls /\ ~\E i \in Pending(t) : Begun(t, i)
       /\ Pending(t) = {} \/ Cardinality(Pending(t)) = n - 1
       /\ Takes(t, "call", [Rec(t) EXCEPT !.calls = Append(@, [call |-> <<t, n>>, result |-> "none"])])

BeginCall(t, i) == /\ turns[t].pc = "run" /\ i \in Pending(t) /\ \A j \in Pending(t) : i <= j
               /\ ~Begun(t, i)
               /\ Upd(t, [begun |-> turns[t].begun \cup {Rec(t).calls[i].call}])
               /\ UNCHANGED <<msgrows, Others>>

Return(t, i) == /\ turns[t].pc = "run" /\ i \in Pending(t) /\ Begun(t, i)
                /\ Takes(t, "result", [Rec(t) EXCEPT !.calls[i].result = "ok"])

Conclude(t) == /\ turns[t].pc = "run" /\ Pending(t) = {}
               /\ Takes(t, "final", [Rec(t) EXCEPT !.text = 2])

\* The one-shot call stores the text alone.
Said(t) == IF turns[t].kind = "exec" THEN [Rec(t) EXCEPT !.calls = <<>>] ELSE Rec(t)
Summarises(t) == turns[t].kind \in {"web", "channel", "rest"} /\ Len(turns[t].loaded) + 2 >= SummaryFrom

Save(t) ==
    LET final == Rec(t).text = 2
    IN /\ turns[t].pc = "saving" /\ msgrows' = Written(t, Said(t))
       /\ Upd(t, [stored |-> TRUE, told |-> IF Shows(t) THEN Rec(t) ELSE turns[t].told,
                  pc |-> IF ~final THEN "run" ELSE IF turns[t].kind = "web" THEN "closing" ELSE "over"])
       /\ summing' = IF final /\ Summarises(t) THEN summing \cup {t} ELSE summing
       /\ UNCHANGED <<summary, session, disturbed>>

\* finish(), or expire_run() for whoever looks at a run that lost its process.
RunOver(t) == /\ Is(t, {"web"}, "closing")
              /\ msgrows' = Written(t, Marked(turns[t].told))
              /\ Upd(t, [pc |-> "over"]) /\ UNCHANGED Others

\* Whichever background summary is written last stays.
SummaryEnds(t, told) == /\ t \in summing /\ summing' = summing \ {t}
                        /\ summary' = IF told /\ session = "open" THEN t ELSE summary
                        /\ UNCHANGED <<msgrows, turns, session, disturbed>>
-----------------------------------------------------------------------------
(* What goes wrong.                                                           *)
Upset == disturbed < MaxDisturbed /\ disturbed' = disturbed + 1
Over(t) == IF turns[t].kind = "web" THEN "closing" ELSE "over"
Recording(t) == turns[t].pc \in {"run", "saving"} /\ turns[t].kind \in Recorded

\* A channel's interrupted answer gets a mark of its own.
Cut(t, how) == IF how = "cancel" /\ turns[t].kind = "channel" /\ Rec(t).text = 0
               THEN [Rec(t) EXCEPT !.text = 1] ELSE Rec(t)

\* A cancellation or an error; "landed": a commit that was under way took place
\* although its caller was not told.
Disturb(t, how, landed) ==
    /\ Upset /\ turns[t].pc \in {"asked", "entering", "run", "saving"}
    /\ landed => turns[t].pc = "saving"
    /\ LET rs == IF landed THEN Written(t, Said(t)) ELSE msgrows
       IN msgrows' = IF Recording(t) /\ turns[t].kind \in {"rest", "api"} THEN rs ELSE RolledBack(t, rs)
    /\ Upd(t, [pc |-> IF Recording(t) THEN "rescue" ELSE Over(t), rec |-> Cut(t, how),
               upset |-> IF how = "error" /\ turns[t].pc = "saving" THEN "save" ELSE how])
    /\ UNCHANGED <<summary, summing, session>>

\* The REST calls compress what they had prepared and start over, once.
Overflow(t) ==
    /\ Upset /\ turns[t].pc = "run" /\ ~\E i \in Pending(t) : Begun(t, i)
    /\ IF turns[t].kind \in {"rest", "exec"} /\ turns[t].tries = 0
       THEN /\ msgrows' = IF turns[t].kind = "rest" /\ Rec(t) # Blank THEN Written(t, Rec(t)) ELSE msgrows
            /\ Upd(t, [tries |-> 1, context |-> Emergency(turns[t].context, t),
                       stored |-> turns[t].stored \/ (turns[t].kind = "rest" /\ Rec(t) # Blank)])
       ELSE /\ msgrows' = IF turns[t].kind \in {"rest", "api"} THEN msgrows ELSE RolledBack(t, msgrows)
            /\ Upd(t, [pc |-> IF turns[t].kind = "exec" THEN "over" ELSE "rescue", upset |-> "overflow"])
    /\ UNCHANGED <<summary, summing, session>>

\* rescue() of web and channel has a session of its own; REST and the streaming
\* API save on the one they have, which a failed commit leaves unusable.
Usable(t) == turns[t].kind \in {"web", "channel"} \/ turns[t].upset # "save"
Rescue(t) ==
    /\ turns[t].pc = "rescue" /\ Usable(t)
    /\ msgrows' = RolledBack(t, IF Rec(t) = Blank /\ turns[t].kind # "api" THEN msgrows ELSE Written(t, Rec(t)))
    /\ Upd(t, [pc |-> Over(t)]) /\ UNCHANGED Others
NotRescued(t) ==
    /\ turns[t].pc = "rescue" /\ (Upset \/ (~Usable(t) /\ UNCHANGED disturbed))
    /\ msgrows' = RolledBack(t, msgrows)
    /\ Upd(t, [pc |-> Over(t)]) /\ UNCHANGED <<summary, summing, session>>

Dies(t) == /\ Upset /\ Live(t) /\ turns[t].pc # "closing"
           /\ msgrows' = RolledBack(t, msgrows)
           /\ Upd(t, [pc |-> Over(t), upset |-> "crash"])
           /\ UNCHANGED <<summary, summing, session>>

\* The messages are cleared, or the session goes with them: unless a run of the
\* web page is under way.
Wiped == [t \in Turns |-> IF turns[t].pc = "new" THEN turns[t] ELSE [turns[t] EXCEPT !.wiped = TRUE]]
Clear == /\ Upset /\ session = "open" /\ turns' = Wiped /\ summary' = 0
         /\ msgrows' = SelectSeq(msgrows, LAMBDA r : ~r.seen) /\ UNCHANGED <<summing, session>>
Delete == /\ Upset /\ session = "open" /\ \A t \in Turns : turns[t].kind = "web" => ~Live(t)
          /\ session' = "gone" /\ turns' = Wiped
          /\ msgrows' = SelectSeq(msgrows, LAMBDA r : ~r.seen) /\ UNCHANGED <<summary, summing>>

TNext ==
    \/ \E t \in Turns :
         \/ Come(t) \/ StoreQuestion(t) \/ Say(t) \/ Announce(t) \/ Conclude(t)
         \/ \E b \in BOOLEAN : Enter(t, b) \/ Command(t, b) \/ SummaryEnds(t, b)
         \/ \E i \in 1 .. MaxToolCalls : BeginCall(t, i) \/ Return(t, i)
         \/ Save(t) \/ RunOver(t) \/ Overflow(t) \/ Rescue(t) \/ NotRescued(t) \/ Dies(t)
         \/ \E how \in {"cancel", "error"}, landed \in BOOLEAN : Disturb(t, how, landed)
    \/ Clear \/ Delete
TSpec == TInit /\ [][TNext]_tvars
-----------------------------------------------------------------------------
(* A history that a turn has loaded is one a provider accepts: every call is  *)
(* answered once, right behind it, and no answer is without its call.         *)
Accepted(ms) ==
    /\ \A i \in DOMAIN ms : ms[i].role = "assistant" =>
         LET n == Cardinality(ms[i].calls)
             after == SubSeq(ms, i + 1, i + n)
         IN i + n <= Len(ms) /\ UNION {m.calls : m \in Range(after)} = ms[i].calls
            /\ \A m \in Range(after) : m.role = "tool"
    /\ \A i \in DOMAIN ms : ms[i].role = "tool" =>
         \E j \in 1 .. i - 1 : /\ ms[j].role = "assistant" /\ ms[i].calls \subseteq ms[j].calls
                               /\ i - j <= Cardinality(ms[j].calls)
LoadedIsAccepted == \A t \in Turns : turns[t].kind \notin {"api", "exec"} => Accepted(turns[t].loaded)

(* Whatever has begun to happen outside, the next turn reads of it, with its   *)
(* result or as an operation whose outcome is unknown, however the turn ended. *)
BegunIsKnown ==
    LET rs == SelectSeq(msgrows, LAMBDA r : r.seen)
        told == {m \in UNION {Range(RowMsgs(rs[i])) : i \in DOMAIN rs} : m.role = "tool"}
    IN \A t \in Turns : turns[t].kind \in Recorded /\ ~turns[t].wiped =>
         turns[t].begun \subseteq UNION {m.calls : m \in told}

(* What the page or the channel was told of a turn that met at most one        *)
(* disturbance is in its message: the rescue misses nothing.                   *)
Holds(row, said) == /\ row.text >= said.text /\ CallsOf(said.calls) \subseteq CallsOf(row.calls)
                    /\ \A c \in Range(said.calls) : c.result = "ok" => c \in Range(row.calls)
ToldIsStored == \A t \in Turns :
    /\ turns[t].pc = "over" /\ disturbed <= 1 /\ ~turns[t].wiped
    /\ turns[t].kind = "web" \/ (turns[t].kind = "channel" /\ turns[t].upset # "crash")
    /\ turns[t].told # Blank
    => \E i \in RowAt(t, "assistant", 1) : Holds(msgrows[i], turns[t].told)

(* The history of a session is whole: accepted, complete, and no less than     *)
(* what was shown.                                                             *)
TurnsKept == LoadedIsAccepted /\ BegunIsKnown /\ ToldIsStored
-----------------------------------------------------------------------------
(* What the documentation says and the code does not keep.                     *)

(* The question of a turn is sent once: a turn of the web page also finds it   *)
(* in the history it loads.                                                    *)
AskedOnce == \A t \in Turns : turns[t].pc = "run" => User(t) \notin Range(turns[t].context)

(* What is sent after compression is still accepted by a provider.             *)
SentIsAccepted == \A t \in Turns :
    turns[t].kind \notin {"api", "exec"} => Accepted(SelectSeq(turns[t].context, IsTalk))

(* A turn has one answer, through every rescue.                                *)
AnsweredOnce == \A t \in Turns : RowAt(t, "assistant", 2) = {}

(* The summary in use is that of the latest turn that was summarised.          *)
SummaryIsLatest == [][\A t \in Turns : summary' = t /\ summary # t => t > summary]_tvars

(* Nothing is left of a session that was deleted.                              *)
DeletedIsGone == session = "gone" => \A r \in Range(msgrows) : ~r.seen

(* A turn that starts over knows what it has already done.                     *)
RetryKnows == [][\A t \in Turns : turns[t].tries = 0 /\ turns'[t].tries = 1 =>
    turns[t].begun \subseteq UNION {m.calls : m \in Range(turns'[t].context)}]_tvars

(* The first message of a session gives it a title.                            *)
TitledAtFirst == \A t \in Turns : turns[t].pc # "new" /\ turns[t].first => turns[t].titled

(* A page that is told "compressing and trying again" sees another try.        *)
RetriedAsTold == \A t \in Turns : turns[t].kind = "web" /\ turns[t].upset = "overflow" => turns[t].tries > 0
============================================================================
