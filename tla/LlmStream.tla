------------------------------ MODULE LlmStream ------------------------------
(* One step of a model: the stream of a provider (llm/client.py) and the loop  *)
(* that puts its tool calls together and tries again (core/agent.py,           *)
(* _stream_model_step).  The service at the other end sends whatever its       *)
(* protocol allows; "unindexed" is an adapter of the OpenAI protocol that      *)
(* sends the pieces of a call without the index of the call.                   *)
EXTENDS Integers, Sequences, FiniteSets

CONSTANTS
    Kinds,        \* providers under test
    MaxWireCalls, \* bound: calls in an answer
    Pieces,       \* bound: pieces of the arguments of a call that has any
    MaxText,      \* bound: deltas of text
    ProviderTries, StepTries   \* _MAX_RETRIES + 1 and _STREAM_RETRY_MAX + 1

ASSUME StreamAssumption == ProviderTries \in Nat \ {0} /\ StepTries \in Nat \ {0}

VARIABLES
    ask,          \* the step: [kind, retry (enable_retry), image (the request shows one),
                  \* whole (complete: one answer instead of a stream)]
    at,           \* ready, open, reading, over, error or gone (cancelled)
    round, tries, \* attempts of the step, and of its stream
    sent,         \* what the service has sent in this stream: [calls, text, usage, end]
    got,          \* what the loop has of it: [calls (in the order of the dict), text, usage]
    asked,        \* history: requests made
    seen,         \* history: deltas of text that the page was shown
    rows,         \* what the recorder was told, one per stream
    begun,        \* history: streams begun
    traced        \* whether an image reached the tracing service
tvars == <<ask, at, round, tries, sent, got, asked, seen, rows, begun, traced>>

\* A call that was sent is [index, args, wants]: wants is how many pieces its
\* arguments will have.  One in the loop is [index, id, args].
Usage == {"in", "out"}
NothingSent == [calls |-> <<>>, text |-> 0, usage |-> {}, end |-> FALSE]
NothingGot  == [calls |-> <<>>, text |-> 0, usage |-> {}]

TTypeOK ==
    /\ ask \in [kind: Kinds, retry: BOOLEAN, image: BOOLEAN, whole: BOOLEAN]
    /\ at \in {"ready", "open", "reading", "over", "error", "gone"}
    /\ round \in 1 .. StepTries /\ tries \in 0 .. ProviderTries /\ asked \in Nat /\ begun \in Nat
    /\ sent.text \in 0 .. MaxText /\ sent.usage \subseteq Usage /\ got.usage \subseteq Usage
    /\ Len(sent.calls) <= MaxWireCalls /\ Len(got.calls) <= MaxWireCalls

TInit ==
    /\ ask \in [kind: Kinds, retry: BOOLEAN, image: BOOLEAN, whole: BOOLEAN] /\ at = "ready" /\ round = 1 /\ tries = 0
    /\ sent = NothingSent /\ got = NothingGot /\ asked = 0 /\ seen = 0 /\ rows = <<>> /\ begun = 0
    /\ traced = FALSE

-----------------------------------------------------------------------------
(* The provider: one stream.                                                 *)

(* Images are base64 blocks of two formats; the trace gets neither.            *)
Block(kind) == IF kind = "anthropic" THEN "image" ELSE "image_url"
Omitted == {"image_url", "image"}
Begins ==
    /\ at = "ready" /\ at' = "open" /\ tries' = 0 /\ begun' = begun + 1
    /\ traced' = (traced \/ (~ask.whole /\ ask.image /\ Block(ask.kind) \notin Omitted))
    /\ UNCHANGED <<ask, round, sent, got, asked, seen, rows>>

Row(status, retries) == [status |-> status, retries |-> retries, usage |-> got.usage]
(* LLMStreamError in the loop: again from nothing, if nothing was produced.    *)
Produced == got.text > 0 \/ got.calls # <<>>
StreamError ==
    IF ~ask.retry \/ Produced \/ round = StepTries THEN at' = "error" /\ UNCHANGED <<round, sent, got>>
    ELSE at' = "ready" /\ round' = round + 1 /\ sent' = NothingSent /\ got' = NothingGot
(* The row of a failed stream takes one failure for the failure itself.        *)
Failed(fails) == rows' = Append(rows, Row("failed", IF fails > 0 THEN fails - 1 ELSE 0)) /\ StreamError

(* An OpenAI stream is a request that is awaited and repeated; an Anthropic    *)
(* one is an object, and its request is made when the reading begins.          *)
Repeats == ask.whole \/ ask.kind # "anthropic"
OpensWell ==
    /\ at = "open" /\ ~ask.whole /\ at' = "reading" /\ asked' = asked + 1
    /\ tries' = IF ask.kind = "anthropic" THEN tries ELSE tries + 1
    /\ sent' = IF ask.kind = "anthropic" THEN [sent EXCEPT !.usage = {"in"}] ELSE sent
    /\ UNCHANGED <<ask, round, got, seen, rows, begun, traced>>
OpenFailsAgain ==
    /\ at = "open" /\ Repeats /\ ask.retry /\ tries + 1 < ProviderTries
    /\ asked' = asked + 1 /\ tries' = tries + 1
    /\ UNCHANGED <<ask, at, round, sent, got, seen, rows, begun, traced>>
OpenFailsFor ==
    /\ at = "open" /\ ~ask.whole /\ Repeats /\ asked' = asked + 1 /\ tries' = tries
    /\ Failed(tries + 1) /\ UNCHANGED <<ask, seen, begun, traced>>

(* complete: one request, one answer.  It is read before it is recorded.       *)
WholeFailsFor ==
    /\ at = "open" /\ ask.whole /\ at' = "error" /\ asked' = asked + 1
    /\ rows' = Append(rows, Row("failed", tries)) /\ UNCHANGED <<ask, round, tries, sent, got, seen, begun, traced>>
WholeAnswered ==
    /\ at = "open" /\ ask.whole /\ at' = "over" /\ asked' = asked + 1
    /\ got' = [got EXCEPT !.usage = Usage]
    /\ rows' = Append(rows, [status |-> "success", retries |-> tries, usage |-> Usage])
    /\ UNCHANGED <<ask, round, tries, sent, seen, begun, traced>>
WholeUnreadable ==
    /\ at = "open" /\ ask.whole /\ ask.kind # "anthropic" /\ at' = "error" /\ asked' = asked + 1
    /\ UNCHANGED <<ask, round, tries, sent, got, seen, rows, begun, traced>>

-----------------------------------------------------------------------------
(* What the service may send, and what the loop makes of a delta.              *)

Unfinished(k) == Len(sent.calls[k].args) < sent.calls[k].wants
\* Which call may get a piece now: any of them, or the one that is being sent.
Turnable(k) == Unfinished(k) /\ (ask.kind = "openai" \/ k = Len(sent.calls))
\* The blocks of an Anthropic answer are counted with those of its text.
IndexOf(k) == CASE ask.kind = "openai" -> k - 1 [] ask.kind = "anthropic" -> k + sent.text [] OTHER -> -1

Held(idx) == {i \in DOMAIN got.calls : got.calls[i].index = idx}
Highest == IF got.calls = <<>> THEN -1
           ELSE CHOOSE n \in {got.calls[i].index : i \in DOMAIN got.calls} :
                  \A i \in DOMAIN got.calls : got.calls[i].index <= n
(* tool_call_start: an entry of its own; without an index, the next one.       *)
Started(calls, idx, id, args) ==
    Append(calls, [index |-> IF idx = -1 THEN Highest + 1 ELSE idx, id |-> id, args |-> args])
(* tool_call_delta: to the call of its index; without one, to the last.        *)
TargetBug(idx) == Len(got.calls)
Target(idx) == IF idx = -1 THEN Len(got.calls) ELSE CHOOSE i \in Held(idx) : TRUE
Piece(k) == <<k, Len(sent.calls[k].args) + 1>>

Reads == at = "reading" /\ ~sent.end
reading == <<ask, at, round, tries, asked, rows, begun, traced>>
SendText == /\ Reads /\ sent.text < MaxText /\ sent.calls = <<>>
            /\ sent' = [sent EXCEPT !.text = @ + 1] /\ got' = [got EXCEPT !.text = @ + 1] /\ seen' = seen + 1
            /\ UNCHANGED reading
\* An OpenAI event may start a call with the first piece of its arguments.
StartCall(wants, args) ==
    /\ Reads /\ Len(sent.calls) < MaxWireCalls /\ Len(args) <= wants
    /\ (ask.kind # "openai" /\ sent.calls # <<>>) => ~Unfinished(Len(sent.calls))
    /\ args # <<>> => ask.kind # "anthropic"
    /\ LET k == Len(sent.calls) + 1
       IN /\ sent' = [sent EXCEPT !.calls = Append(@, [index |-> IndexOf(k), args |-> args, wants |-> wants])]
          /\ got' = [got EXCEPT !.calls = Started(@, IndexOf(k), k, args)]
    /\ UNCHANGED <<reading, seen>>
(* Pieces for the calls of K, one each, in one event.                          *)
WithPieces(calls, K, index(_)) ==
    [i \in DOMAIN calls |-> IF \E k \in K : index(k) = i
                            THEN [calls[i] EXCEPT !.args = Append(@, Piece(CHOOSE k \in K : index(k) = i))]
                            ELSE calls[i]]
SendPieces(K) ==
    /\ Reads /\ \A k \in K : Turnable(k) /\ (Cardinality(K) > 1 => ask.kind = "openai")
    /\ sent' = [sent EXCEPT !.calls = WithPieces(@, K, LAMBDA k : k)]
    /\ got' = [got EXCEPT !.calls = WithPieces(@, K, LAMBDA k : Target(sent.calls[k].index))]
    /\ UNCHANGED <<reading, seen>>
(* The last events: why it ends, and the usage, in one event or in two; an     *)
(* Anthropic one has only the output, and the input was in the first event.    *)
Merged == sent.usage \cup {"out"}
SendUsage ==
    /\ Reads /\ sent' = [sent EXCEPT !.usage = Usage, !.end = TRUE]
    /\ got' = [got EXCEPT !.usage = IF ask.kind = "anthropic" THEN Merged ELSE Usage]
    /\ UNCHANGED <<reading, seen>>

-----------------------------------------------------------------------------
(* How a stream ends.                                                        *)

Failures == IF ask.kind = "anthropic" THEN 0 ELSE tries - 1
\* The arguments are parsed, all of them before any call is executed: none at
\* all is an empty object.
Parses(c) == Len(c.args) \in {0, Pieces}
Completes ==
    /\ at = "reading" /\ sent.end /\ rows' = Append(rows, Row("success", Failures))
    /\ at' = IF \A i \in DOMAIN got.calls : Parses(got.calls[i]) THEN "over" ELSE "error"
    /\ UNCHANGED <<ask, round, tries, sent, got, asked, seen, begun, traced>>
(* The connection is lost, the API is not reached or times out.                *)
Breaks == /\ at = "reading" /\ Failed(Failures) /\ UNCHANGED <<ask, tries, asked, seen, begun, traced>>
(* Another exception, or the end of the caller: the finally block knows of no  *)
(* error and records a success.                                                *)
Escapes == /\ at = "reading" /\ rows' = Append(rows, Row("success", Failures)) /\ at' \in {"error", "gone"}
           /\ UNCHANGED <<ask, round, tries, sent, got, asked, seen, begun, traced>>

TNext == \/ Begins \/ WholeFailsFor \/ WholeAnswered \/ WholeUnreadable
         \/ OpensWell \/ OpenFailsAgain \/ OpenFailsFor \/ SendText \/ SendUsage
         \/ \E wants \in {0, Pieces} : StartCall(wants, <<>>)
         \/ StartCall(Pieces, <<<<Len(sent.calls) + 1, 1>>>>)
         \/ \E K \in SUBSET (DOMAIN sent.calls) : K # {} /\ SendPieces(K)
         \/ Completes \/ Breaks \/ Escapes
TSpec == TInit /\ [][TNext]_tvars

-----------------------------------------------------------------------------
(* The pieces of parallel calls come in any order, several in an event, with   *)
(* the index of a block or with none: a step that succeeds has the calls that  *)
(* were sent, in their order, each with its own arguments.                     *)
CallsAsSent == at = "over" =>
    /\ Len(got.calls) = Len(sent.calls)
    /\ \A k \in DOMAIN sent.calls : got.calls[k].id = k /\ got.calls[k].args = sent.calls[k].args

(* However often a step is tried again, the page is shown the text of its last *)
(* stream and of no other, and what is billed is what that stream reported.    *)
OneAnswer == /\ seen = sent.text
             /\ at = "over" => got.usage = Usage

(* Every stream is recorded once; one that failed says so, and the last of a   *)
(* step that succeeded is a success.                                           *)
EveryStreamRecorded ==
    /\ ~ask.whole => Len(rows) = IF at \in {"open", "reading"} THEN begun - 1 ELSE begun
    /\ at = "over" => Len(rows) = begun
    /\ at = "over" => rows[Len(rows)].status = "success" /\ rows[Len(rows)].usage = Usage
    /\ \A i \in 1 .. Len(rows) - 1 : rows[i].status = "failed"

(* Pixels are sent to the model and never to the tracing service.              *)
NoPixelsTraced == ~traced
StreamHolds == CallsAsSent /\ OneAnswer /\ EveryStreamRecorded /\ NoPixelsTraced

-----------------------------------------------------------------------------
(* What the code does not keep.                                                *)

(* "at most 3 times": the retries of the step multiply those of its stream.    *)
ThreeRetries == asked <= ProviderTries
(* A request that Anthropic does not serve is retried like any other.          *)
EveryRequestRetried == at = "error" /\ ask.retry /\ ~Produced /\ got.usage = {} => asked > 1
(* A call whose arguments were cut off is not executed with an empty object.   *)
ExecutedAsMeant == at = "over" => \A k \in DOMAIN sent.calls : Len(got.calls[k].args) = sent.calls[k].wants
(* Every answer that was paid for is recorded.                                 *)
EveryAnswerRecorded == at = "error" /\ ask.whole => rows # <<>>
(* A stream that did not end is not a success, and its retries are counted.    *)
SuccessIsReal == at \in {"error", "gone"} /\ ~sent.end /\ rows # <<>> => rows[Len(rows)].status = "failed"
=============================================================================
