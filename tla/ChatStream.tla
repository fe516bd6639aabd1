----------------------------- MODULE ChatStream -----------------------------
(* Readers of durable Web tasks: subscribe() in core/chat_runs.py, composed    *)
(* with the workers that write (ChatRuns).  A reader polls the log from its    *)
(* cursor, one locked transaction per poll, and yields what it fetched one     *)
(* event at a time; the connection may drop between any two events and the     *)
(* client comes back with the last sequence it consumed.                       *)
EXTENDS ChatRuns, FiniteSetsExt

CONSTANTS Client,   \* browser tabs
          Limit     \* rows fetched by one poll (256 in the code)

ASSUME LimitAssumption == Limit \in Nat \ {0}

VARIABLE sub        \* Client -> its connection and what it consumed
svars == <<created, row, wk, proc, sub>>

Sub == [on: {"off", "open", "closed"},
        run: Run \cup {0},
        cursor: Nat,             \* of the generator
        fetched: Seq(Nat),       \* sequences fetched by the last poll, not yielded
        ended: BOOLEAN,          \* the last poll saw a terminal status
        last: Nat,               \* last_sequence it saw
        got: Seq(Nat)]           \* sequences the client has consumed

NoSub == [on |-> "off", run |-> 0, cursor |-> 0, fetched |-> <<>>,
          ended |-> FALSE, last |-> 0, got |-> <<>>]

STypeOK == TypeOK /\ sub \in [Client -> Sub]
SInit == Init /\ sub = [c \in Client |-> NoSub]

(* GET /runs/{id}/events?after=: a new reader from the last event consumed.    *)
Connect(c, r) ==
    /\ sub[c].on = "off" /\ row[r].status # "absent" /\ sub[c].run \in {0, r}
    /\ sub' = [sub EXCEPT ![c] = [NoSub EXCEPT !.on = "open", !.run = r,
                                               !.cursor = Len(sub[c].got),
                                               !.got = sub[c].got]]
    /\ UNCHANGED vars

(* One poll: expire the run if its lease passed, fetch the next rows.  A done  *)
(* event of a run still running, and what follows it, is left for a later poll. *)
KindAt(x, i) == x.log[i].kind
RowsStuckBug(x, cursor) ==                \* a done event is never handed out
    {i \in DOMAIN x.log :
        /\ i > cursor /\ i <= cursor + Limit
        /\ \A j \in cursor + 1 .. i : KindAt(x, j) # "done"}
Rows(x, cursor) ==
    {i \in DOMAIN x.log :
        /\ i > cursor /\ i <= cursor + Limit
        /\ x.status = "running" => \A j \in cursor + 1 .. i : KindAt(x, j) # "done"}

Poll(c) ==
    /\ sub[c].on = "open" /\ sub[c].fetched = <<>>
    /\ LET r == sub[c].run
           x == Expire(row[r])
           rows == Rows(x, sub[c].cursor)
       IN /\ row' = [row EXCEPT ![r] = x]
          /\ sub' = [sub EXCEPT ![c].fetched = [i \in 1 .. Cardinality(rows) |-> sub[c].cursor + i],
                                ![c].ended = x.status # "running",
                                ![c].last = Len(x.log)]
    /\ UNCHANGED <<created, wk, proc>>

(* One fetched event is sent and consumed.                                     *)
Yield(c) ==
    /\ sub[c].on = "open" /\ sub[c].fetched # <<>>
    /\ sub' = [sub EXCEPT ![c].fetched = Tail(@), ![c].cursor = Head(sub[c].fetched),
                          ![c].got = Append(@, Head(sub[c].fetched))]
    /\ UNCHANGED vars

(* run_status: sent when the poll saw a terminal run and nothing is left.      *)
EndStreamBug(c) ==                        \* the rows beyond the limit are forgotten
    /\ sub[c].on = "open" /\ sub[c].fetched = <<>> /\ sub[c].ended
    /\ sub' = [sub EXCEPT ![c].on = "closed"]
    /\ UNCHANGED vars
EndStream(c) ==
    /\ sub[c].on = "open" /\ sub[c].fetched = <<>>
    /\ sub[c].ended /\ sub[c].cursor >= sub[c].last
    /\ sub' = [sub EXCEPT ![c].on = "closed"]
    /\ UNCHANGED vars

(* The connection drops; the worker is not touched.                            *)
Disconnect(c) ==
    /\ sub[c].on = "open"
    /\ sub' = [sub EXCEPT ![c] = [NoSub EXCEPT !.run = sub[c].run, !.got = sub[c].got]]
    /\ UNCHANGED vars

Reading(c) == Poll(c) \/ Yield(c) \/ EndStream(c)

SNext == \/ Next /\ UNCHANGED sub
         \/ \E c \in Client : \/ Reading(c) \/ Disconnect(c)
                              \/ \E r \in Run : Connect(c, r)

SSpec == SInit /\ [][SNext]_svars

(* An open reader is a running generator of the server.                        *)
SFairness == /\ \A r \in Run : /\ WF_svars(Finalize(r) /\ UNCHANGED sub)
                               /\ WF_svars(Beat(r) /\ UNCHANGED sub)
             /\ \A c \in Client : WF_svars(Reading(c))
SFairSpec == SSpec /\ SFairness

-----------------------------------------------------------------------------
(* Across any number of reconnections a client consumes every event of the log *)
(* exactly once, in order, with none skipped.                                  *)
InOrderOnce == \A c \in Client : sub[c].got = [i \in 1 .. Len(sub[c].got) |-> i]

(* A client has seen the done event only of a run that has left "running": the  *)
(* next turn it then sends cannot meet the still active one (comment at         *)
(* subscribe: queue flushing must not race the uniqueness constraint).          *)
DoneMeansFree == \A c \in Client : \A i \in DOMAIN sub[c].got :
    KindAt(row[sub[c].run], sub[c].got[i]) = "done" => row[sub[c].run].status # "running"

(* A reader that was told the final status has been given the whole log, and    *)
(* nothing is ever added to it afterwards.                                      *)
ClosedSawAll == \A c \in Client :
    sub[c].on = "closed" => Len(sub[c].got) = Len(row[sub[c].run].log)

(* What a reader was given is the log, and the end only with all of it and when *)
(* the next turn may come.                                                      *)
ReadsTheLog == InOrderOnce /\ ClosedSawAll /\ DoneMeansFree

(* A reader that stays connected is told the end of a run that ends.            *)
ReaderIsTold == \A c \in Client :
    (sub[c].on = "open" /\ row[sub[c].run].status \in Terminal) ~> sub[c].on # "open"
=============================================================================
