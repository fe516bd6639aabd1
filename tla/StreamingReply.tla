--------------------------- MODULE StreamingReply ----------------------------
(* The card in which a channel shows an answer while it is written             *)
(* (_StreamingReply in channels/pipeline.py): the turn pushes what it has, one *)
(* task of its own brings it to the platform, and the end of the turn, also    *)
(* one that was interrupted, shows the final text and closes the card.         *)
(*                                                                             *)
(* A text is the number of deltas it is made of; the notice of an interruption,*)
(* which follows the text, and that of an error come after every text.  The    *)
(* card holds a text of Limit deltas (max_bytes): of a longer one push() shows *)
(* the beginning, and finish() the first chunk _split_text makes of it, which  *)
(* ends at a line or a word and may be shorter; the other chunks are messages. *)
EXTENDS Integers, FiniteSets

CONSTANTS
    MaxText,      \* bound: deltas of an answer
    TextLimit     \* max_bytes: deltas that fit into one message

ASSUME ReplyAssumption == MaxText \in Nat /\ TextLimit \in Nat \ {0}

Interrupted == MaxText + 1
Failed == MaxText + 2
Texts == 0 .. MaxText + 2
Unset == -1

VARIABLES
    spc,        \* the turn: "start", "stream", then finish(): "await" the flush task,
                \* "update", "close", "plain" messages, "tail"; "over"
    ending,     \* why it finishes: "no", "done", "error"
    scut,       \* where the turn was interrupted, "no" if it was not
    text, final,          \* said so far, and what finish() has to show
    head, whole,          \* chunks[0] of it, and whether that is all of it
    brk,                  \* where the last line or word of the first TextLimit deltas ends
    pend,       \* pending_text
    flush,      \* flush_task: "none", "pick", "send", "done", "cancelled"
    rendered, sfailed,    \* rendered_text, stream_failed
    updated,    \* finish(): the card shows the final text
    seq,        \* sequence
    wire,       \* requests under way: [seq, text, res]
    card,       \* at the platform: mode, text and last sequence number
    shown,      \* chunks that came as plain messages: <<text, "head" or "tail">>
    refused     \* history: the platform did not take a plain message

svars == <<spc, ending, scut, text, final, head, whole, brk, pend, flush, rendered, sfailed,
           updated, seq, wire, card, shown, refused>>
MaxSeq == 2 * MaxText + 8
Request == [seq: 1 .. MaxSeq, text: Texts, res: {"wait", "ok", "err"}, left: BOOLEAN,
            whole: BOOLEAN]   \* FALSE: the first chunk of a longer text

STypeOK ==
    /\ spc \in {"start", "stream", "await", "update", "close", "plain", "tail", "over"}
    /\ ending \in {"no", "done", "error"} /\ scut \in {"no", "start", "stream", "await", "error", "late"}
    /\ text \in 0 .. MaxText /\ final \in Texts \cup {Unset} /\ pend \in Texts \cup {Unset}
    /\ flush \in {"none", "pick", "send", "done", "cancelled"} /\ rendered \in Texts
    /\ sfailed \in BOOLEAN /\ updated \in BOOLEAN /\ seq \in 0 .. MaxSeq /\ wire \subseteq Request
    /\ card \in [mode: {"none", "open", "closed"}, text: Texts, last: 0 .. MaxSeq]
    /\ shown \subseteq Texts \X {"head", "tail"} /\ head \in Texts
    /\ brk \in 1 .. TextLimit
    /\ whole \in BOOLEAN /\ refused \in BOOLEAN

SInit ==
    /\ spc = "start" /\ ending = "no" /\ scut = "no" /\ text = 0 /\ final = Unset
    /\ pend = Unset /\ flush = "none" /\ rendered = 0 /\ sfailed = FALSE /\ updated = FALSE
    /\ brk \in 1 .. TextLimit /\ head = 0 /\ whole = TRUE /\ seq = 0 /\ wire = {}
    /\ card = [mode |-> "none", text |-> 0, last |-> 0] /\ shown = {} /\ refused = FALSE

chunks == <<final, head, whole>>
finish == <<ending, scut, chunks, updated, shown, refused>>
said == <<brk, text, pend, rendered, sfailed>>
net == <<seq, wire, card>>

-----------------------------------------------------------------------------
(* The platform applies a request whose number is higher than every earlier    *)
(* one's, on an open card; the answer to any request may be an error.          *)
Arrive(r) ==
    /\ r \in wire /\ r.res = "wait"
    /\ \/ /\ card.mode = "open" /\ r.seq > card.last
          /\ card' = [card EXCEPT !.text = r.text, !.last = r.seq]
          /\ \E res \in {"ok", "err"} : wire' = (wire \ {r}) \cup {[r EXCEPT !.res = res]}
       \/ wire' = (wire \ {r}) \cup {[r EXCEPT !.res = "err"]} /\ UNCHANGED card
    /\ UNCHANGED <<spc, finish, said, flush, seq>>
Send(t, w) == /\ seq' = seq + 1 /\ UNCHANGED card
              /\ wire' = wire \cup {[seq |-> seq + 1, text |-> t, res |-> "wait",
                                     left |-> FALSE, whole |-> w]}
Answer(r) == r \in wire /\ r.res # "wait" /\ ~r.left /\ wire' = wire \ {r} /\ UNCHANGED <<seq, card>>
Left == {[r EXCEPT !.left = TRUE] : r \in wire}      \* their sender was cancelled

-----------------------------------------------------------------------------
StartCard == /\ spc = "start" /\ spc' = "stream"
             /\ \E mode \in {"none", "open"} : card' = [card EXCEPT !.mode = mode]
             /\ UNCHANGED <<finish, said, flush, seq, wire>>

(* push: remember the newest text, cut, and see that somebody brings it.       *)
Fits(n) == IF n <= TextLimit THEN n ELSE TextLimit
Push == /\ spc = "stream" /\ text < MaxText /\ text' = text + 1 /\ spc' = spc
        /\ IF card.mode = "none" \/ sfailed THEN UNCHANGED <<pend, flush>>
           ELSE /\ pend' = Fits(text + 1)
                /\ flush' = IF flush \in {"none", "done", "cancelled"} THEN "pick" ELSE flush
        /\ UNCHANGED <<finish, brk, rendered, sfailed, net>>

(* _flush_pending.                                                             *)
FlushPick ==
    /\ flush = "pick"
    /\ IF pend = Unset \/ sfailed THEN flush' = "done" /\ UNCHANGED <<pend, net>>
       ELSE /\ pend' = Unset
            /\ IF pend = rendered THEN UNCHANGED <<flush, net>> ELSE flush' = "send" /\ Send(pend, TRUE)
    /\ UNCHANGED <<spc, finish, brk, text, rendered, sfailed>>
FlushAnswered(r) ==
    /\ flush = "send" /\ Answer(r)
    /\ IF r.res = "ok" THEN flush' = "pick" /\ rendered' = r.text /\ UNCHANGED sfailed
       ELSE flush' = "done" /\ sfailed' = TRUE /\ UNCHANGED rendered
    /\ UNCHANGED <<spc, finish, brk, text, pend>>

-----------------------------------------------------------------------------
(* finish(t).                                                                  *)
Length(t) == IF t = Interrupted THEN text ELSE IF t = Failed THEN 0 ELSE t
CutTo(at) == head' = at /\ whole' = FALSE
Split(t) ==
    \/ Length(t) <= TextLimit /\ head' = t /\ whole' = TRUE
    \/ Length(t) > TextLimit /\ CutTo(brk)
    \/ t = Interrupted /\ text \in 1 .. TextLimit /\ CutTo(text)     \* no room for the notice
    \/ t = Interrupted /\ text = TextLimit /\ CutTo(brk)
    \/ t = Failed /\ CutTo(t)
Begin(t) == /\ final' = t /\ Split(t)
            /\ spc' = IF card.mode = "none" THEN "plain" ELSE "await"

Finish(why) == /\ spc = "stream" /\ ending' = why
               /\ Begin(IF why = "error" THEN Failed ELSE text)
               /\ UNCHANGED <<scut, updated, shown, refused, said, flush, net>>
AwaitedBug == TRUE                      \* the flush task is left to itself
Awaited == flush \in {"none", "done"}
FlushAwaited ==
    /\ spc = "await" /\ Awaited
    /\ IF sfailed \/ head = rendered
       THEN spc' = "close" /\ updated' = ~sfailed /\ UNCHANGED net
       ELSE spc' = "update" /\ Send(head, whole) /\ UNCHANGED updated
    /\ UNCHANGED <<ending, scut, chunks, shown, refused, said, flush>>
(* The flush task was cancelled with the turn that awaited it: so is whoever   *)
(* awaits it again.                                                            *)
FlushWasCancelled == /\ spc = "await" /\ flush = "cancelled" /\ spc' = "over"
                     /\ UNCHANGED <<finish, said, flush, net>>
UpdatedFinal(r) == /\ spc = "update" /\ r.text = head /\ Answer(r)
                   /\ spc' = "close" /\ updated' = (r.res = "ok")
                   /\ UNCHANGED <<ending, scut, chunks, shown, refused, said, flush>>
Plain == ~updated
CloseStream ==
    /\ spc = "close" /\ seq' = seq + 1
    /\ \/ card.mode = "open" /\ card' = [card EXCEPT !.mode = "closed", !.last = seq + 1]
       \/ UNCHANGED card
    /\ spc' = (IF Plain THEN "plain" ELSE IF whole THEN "over" ELSE "tail")
    /\ UNCHANGED <<finish, said, flush, wire>>

(* send_markdown: an adapter answers a refusal with None, which finish() does  *)
(* not look at, or raises: then the turn shows an error, or gives up when it   *)
(* was already finishing one or an interruption.                               *)
After(piece) == IF piece = "head" /\ ~whole THEN "tail" ELSE "over"
SendPlain(piece) ==
    /\ spc = (IF piece = "head" THEN "plain" ELSE "tail")
    /\ \/ spc' = After(piece) /\ shown' = shown \cup {<<final, piece>>}
          /\ UNCHANGED <<ending, chunks, refused>>
       \/ spc' = After(piece) /\ refused' = TRUE /\ UNCHANGED <<ending, chunks, shown>>
       \/ /\ refused' = TRUE /\ UNCHANGED shown
          /\ IF ending = "done" /\ scut = "no" THEN ending' = "error" /\ Begin(Failed)
             ELSE spc' = "over" /\ UNCHANGED <<ending, chunks>>
    /\ UNCHANGED <<scut, updated, said, flush, net>>

(* The turn is interrupted.  Under the agent, or under a finish() of its       *)
(* answer, the finalization calls finish() once more; while an error is shown  *)
(* or the card is started nobody does.                                         *)
Interrupt ==
    /\ spc \notin {"over"} /\ scut = "no" /\ updated' = FALSE
    /\ wire' = IF spc \in {"await", "update"} THEN Left ELSE wire
    /\ scut' = IF spc = "start" THEN "start" ELSE IF ending = "error" THEN "error"
               ELSE IF spc \in {"stream", "await"} THEN spc ELSE "late"
    /\ flush' = IF spc = "await" /\ flush \in {"pick", "send"} THEN "cancelled" ELSE flush
    /\ IF spc = "start" \/ ending = "error" THEN spc' = "over" /\ UNCHANGED chunks
       ELSE Begin(Interrupted)
    /\ UNCHANGED <<ending, said, seq, card, shown, refused>>

SNext == \/ StartCard \/ Push \/ FlushPick \/ FlushAwaited \/ FlushWasCancelled
         \/ CloseStream \/ Interrupt
         \/ \E piece \in {"head", "tail"} : SendPlain(piece)
         \/ \E why \in {"done", "error"} : Finish(why)
         \/ \E r \in wire : Arrive(r) \/ FlushAnswered(r) \/ UpdatedFinal(r)
SSpec == SInit /\ [][SNext]_svars

-----------------------------------------------------------------------------
(* However the updates race, fail or are left behind by an interruption, what  *)
(* the card shows never goes back to an earlier text, but for the update that  *)
(* leaves of a text too long for the card its first chunk: that one may end    *)
(* before the place where push() had cut.                                      *)
NeverBack == [][card'.text < card.text =>
                \E r \in wire : r.seq = card'.last /\ r.text = card'.text /\ ~r.whole]_svars

(* When the reply is over, the user has all of its final text before the eyes, *)
(* the first chunk in the card or as a message and the others as messages,     *)
(* unless it was interrupted at a place nobody cleans up, or the platform did  *)
(* not take a message.                                                         *)
FinalShown == spc = "over" /\ scut \notin {"start", "await", "error"} /\ ~refused =>
    /\ card.text >= head \/ <<final, "head">> \in shown
    /\ whole \/ <<final, "tail">> \in shown

-----------------------------------------------------------------------------
(* What the documentation says and the code does not keep.                     *)

(* An interrupted reply is always marked as such: not when the interruption    *)
(* came while finish() awaited its flush task.                                 *)
InterruptionShown == spc = "over" /\ scut # "no" /\ ~refused =>
    IF whole THEN card.text = Interrupted \/ <<Interrupted, "head">> \in shown
    ELSE <<Interrupted, "tail">> \in shown
(* finish() shows the final content "with safe fallback" (its docstring): a    *)
(* message that is refused is tried no more, and nobody is told.               *)
FinalArrives == spc = "over" /\ scut = "no" =>
    /\ card.text >= head \/ <<final, "head">> \in shown
    /\ whole \/ <<final, "tail">> \in shown
=============================================================================
