------------------------------ MODULE Memories ------------------------------
(* The long-term memory of a user (memory/): rows that a page edits, a tool    *)
(* changes, an agent's extraction reconciles with what is known, and a plan    *)
(* merges; every change keeps the full states before and after it and can be   *)
(* undone.  Below it the daily memory, one row a day that finished sessions    *)
(* are written into.                                                           *)
(*                                                                             *)
(* A scope is an agent (or none) and a layer.  Automatic writers hold the      *)
(* advisory lock of their scope while they ask a model; an undo, a merge and a *)
(* restore take it with the rows' locks and are one step; a page's edit reads  *)
(* and writes without it, and every write of a row checks its version.         *)
EXTENDS Integers, Sequences, FiniteSets, SequencesExt

CONSTANTS
    Writer,       \* automatic writers and edits under way
    MemScope, Text,
    Session,      \* finished sessions of the day
    MaxMem,       \* bound: memories ever created
    MaxChanges    \* bound: changes recorded

ASSUME MemoryAssumption == MaxMem \in Nat /\ MaxChanges \in Nat /\ "nobody" \notin Writer

VARIABLES
    mem,          \* memories: NoRow or [version, scope, content]
    vers,         \* memory_versions: the snapshots of a memory, in order
    chg,          \* memory_changes: [kind, before, after, undone]
    plan,         \* previews: the rows as they were seen, and the change that applied them
    lock,         \* the holder of a scope's lock
    wr,           \* writers: [pc, op, id, scope, content, seen]
    auto,         \* history: memories an automatic writer created
    day,          \* the day's row: [sources, told] or NoDay
    diary         \* session tasks: [pc, seen]
mvars == <<mem, vers, chg, plan, lock, wr, auto, day, diary>>

MemId == 1 .. MaxMem
Unheld == "nobody"
NoRow == [version |-> 0]
NoDay == [sources |-> {}, told |-> {}, is |-> FALSE]
NoWriter == [pc |-> "new", op |-> "none", id |-> 0, scope |-> Unheld, content |-> Unheld, seen |-> <<>>]
NoDiary == [pc |-> "new", seen |-> NoDay]
Snapshots == [version : Nat, exists : BOOLEAN, scope : MemScope, content : Text]
MTypeOK ==
    /\ \A m \in MemId : mem[m] = NoRow \/ mem[m] \in [version : Nat, scope : MemScope, content : Text]
    /\ \A m \in MemId : \A i \in DOMAIN vers[m] : vers[m][i] \in Snapshots
    /\ lock \in [MemScope -> Writer \cup {Unheld}] /\ auto \subseteq MemId /\ Len(chg) <= MaxChanges
    /\ day.sources \subseteq Session /\ day.told \subseteq Session

MInit ==
    /\ mem = [m \in MemId |-> NoRow] /\ vers = [m \in MemId |-> <<>>] /\ chg = <<>> /\ plan = {}
    /\ lock = [s \in MemScope |-> Unheld] /\ wr = [w \in Writer |-> NoWriter] /\ auto = {}
    /\ day = NoDay /\ diary = [s \in Session |-> NoDiary]

Live(m) == mem[m] # NoRow
Fresh == {m \in MemId : vers[m] = <<>>}
NewId == CHOOSE m \in Fresh : \A o \in Fresh : m <= o
Snap(row) == [version |-> row.version, exists |-> TRUE, scope |-> row.scope, content |-> row.content]
Row(state) == IF state.exists
              THEN [version |-> state.version, scope |-> state.scope, content |-> state.content] ELSE NoRow
Removed(state) == [state EXCEPT !.exists = FALSE, !.version = @ + 1]
daily == <<day, diary>>

(* record_change: the rows, a version of each, and the change, in one commit.  *)
Record(kind, before, after) ==
    /\ Len(chg) < MaxChanges
    /\ mem' = [m \in MemId |-> IF m \in DOMAIN after THEN Row(after[m]) ELSE mem[m]]
    /\ vers' = [m \in MemId |-> IF m \in DOMAIN after THEN Append(vers[m], after[m]) ELSE vers[m]]
    /\ chg' = Append(chg, [kind |-> kind, before |-> before, after |-> after, undone |-> 0])
Rewritten(s, scope, content) == [s EXCEPT !.scope = scope, !.content = content, !.version = @ + 1, !.exists = TRUE]
One(m, state) == [o \in {m} |-> state]
FirstVersion(scope, content) == [version |-> 1, exists |-> TRUE, scope |-> scope, content |-> content]
Inserted(scope, content) ==
    Fresh # {} /\ Record("create", [o \in {} |-> 0], One(NewId, FirstVersion(scope, content)))

WriterAt(w, pc) == wr[w].pc = pc
WriterDone(w) == wr' = [wr EXCEPT ![w] = [NoWriter EXCEPT !.pc = "over"]]
(* The version check of every UPDATE and DELETE, and the key of its version.   *)
UnchangedSinceBug(m, state) == Live(m)
UnchangedSince(m, state) == Live(m) /\ Snap(mem[m]) = state

-----------------------------------------------------------------------------
(* By hand: a page's form, a tool with an expected version, a batch.           *)

CreateMemory(scope, content) == Inserted(scope, content) /\ UNCHANGED <<plan, lock, wr, auto, daily>>
OpenMemory(w, m) ==
    /\ WriterAt(w, "new") /\ Live(m)
    /\ wr' = [wr EXCEPT ![w].pc = "open", ![w].id = m, ![w].seen = One(m, Snap(mem[m]))]
    /\ UNCHANGED <<mem, vers, chg, plan, lock, auto, daily>>
Conflict(w) == /\ WriterDone(w) /\ UNCHANGED <<mem, vers, chg>>
UpdateMemory(w, scope, content) ==
    LET m == wr[w].id IN
    /\ WriterAt(w, "open")
    /\ IF UnchangedSince(m, wr[w].seen[m])
       THEN Record("edit", wr[w].seen, One(m, Rewritten(wr[w].seen[m], scope, content))) /\ WriterDone(w)
       ELSE Conflict(w)
    /\ UNCHANGED <<plan, lock, auto, daily>>
DeleteMemory(w) ==
    LET m == wr[w].id IN
    /\ WriterAt(w, "open")
    /\ IF UnchangedSince(m, wr[w].seen[m])
       THEN Record("delete", wr[w].seen, One(m, Removed(wr[w].seen[m]))) /\ WriterDone(w)
       ELSE Conflict(w)
    /\ UNCHANGED <<plan, lock, auto, daily>>
(* A restore writes an old snapshot over the row, unless it was deleted.       *)
Restore(w, v) ==
    LET m == wr[w].id old == vers[m][v] IN
    /\ WriterAt(w, "open") /\ old.exists
    /\ Live(m) => lock[mem[m].scope] = Unheld /\ lock[old.scope] = Unheld
    /\ IF UnchangedSince(m, wr[w].seen[m])
       THEN Record("restore", wr[w].seen, One(m, Rewritten(wr[w].seen[m], old.scope, old.content))) /\ WriterDone(w)
       ELSE Conflict(w)
    /\ UNCHANGED <<plan, lock, auto, daily>>
DeleteMemories(S) ==
    /\ \A m \in S : Live(m)
    /\ LET states == [m \in S |-> Snap(mem[m])]
       IN Record("delete", states, [m \in S |-> Removed(states[m])])
    /\ UNCHANGED <<plan, lock, wr, auto, daily>>

-----------------------------------------------------------------------------
(* reconcile_memory: under the lock of the scope to the end of the transaction.*)

StartWrite(w, scope, content) ==
    /\ WriterAt(w, "new")
    /\ wr' = [wr EXCEPT ![w].pc = "lock", ![w].scope = scope, ![w].content = content]
    /\ UNCHANGED <<mem, vers, chg, plan, lock, auto, daily>>
Free(s) == lock[s] = Unheld
LockScope(w) ==
    /\ WriterAt(w, "lock") /\ Free(wr[w].scope)
    /\ lock' = [lock EXCEPT ![wr[w].scope] = w] /\ wr' = [wr EXCEPT ![w].pc = "look"]
    /\ UNCHANGED <<mem, vers, chg, plan, auto, daily>>
(* Twenty seconds, or a process that dies: nothing is written.                 *)
WriterFails(w) ==
    /\ wr[w].pc \in {"lock", "look", "decide"} /\ WriterDone(w)
    /\ lock' = [s \in MemScope |-> IF lock[s] = w THEN Unheld ELSE lock[s]]
    /\ UNCHANGED <<mem, vers, chg, plan, auto, daily>>
InScope(w) == {m \in MemId : Live(m) /\ mem[m].scope = wr[w].scope}
Exact(w) == {m \in InScope(w) : mem[m].content = wr[w].content}
Unlock(w) == lock' = [lock EXCEPT ![wr[w].scope] = Unheld] /\ WriterDone(w)
Insert(w) == Inserted(wr[w].scope, wr[w].content) /\ auto' = auto \cup {NewId} /\ Unlock(w)
(* The same text is there: at most its sources grow, which is a version too.   *)
Look(w) ==
    /\ WriterAt(w, "look")
    /\ IF Exact(w) # {}
       THEN /\ \/ UNCHANGED <<mem, vers, chg>>
               \/ \E m \in Exact(w) : LET s == Snap(mem[m]) IN
                    Record("automatic_sources", One(m, s), One(m, Rewritten(s, s.scope, s.content)))
            /\ Unlock(w) /\ UNCHANGED auto
       ELSE IF InScope(w) = {} THEN Insert(w)
       ELSE /\ wr' = [wr EXCEPT ![w].pc = "decide", ![w].seen = [m \in InScope(w) |-> Snap(mem[m])]]
            /\ UNCHANGED <<mem, vers, chg, lock, auto>>
    /\ UNCHANGED <<plan, daily>>
(* The model has decided; an answer that is late or makes no sense: create.    *)
DecideCreate(w) == /\ WriterAt(w, "decide") /\ Insert(w) /\ UNCHANGED <<plan, daily>>
DecideSkip(w) == /\ WriterAt(w, "decide") /\ Unlock(w)
                 /\ UNCHANGED <<mem, vers, chg, plan, auto, daily>>
DecideUpdate(w, m, content) ==
    /\ WriterAt(w, "decide") /\ m \in DOMAIN wr[w].seen
    /\ LET s == wr[w].seen[m] IN
       IF UnchangedSince(m, s)
       THEN Record("automatic_update", One(m, s), One(m, Rewritten(s, s.scope, content)))
       ELSE UNCHANGED <<mem, vers, chg>>
    /\ Unlock(w) /\ UNCHANGED <<plan, auto, daily>>

-----------------------------------------------------------------------------
(* Merging by plan (one preview at a time is open), and undoing.               *)

Matches(m, state) == IF state.exists THEN UnchangedSince(m, state) ELSE ~Live(m)
Preview(S) ==
    /\ Cardinality(S) = 2 /\ \A m, o \in S : Live(m) /\ Live(o) /\ mem[m].scope = mem[o].scope
    /\ \A p \in plan : p.applied # 0
    /\ plan' = plan \cup {[seen |-> [m \in S |-> Snap(mem[m])], applied |-> 0]}
    /\ UNCHANGED <<mem, vers, chg, lock, wr, auto, daily>>
(* Confirmed once; a repetition finds the change it made.                      *)
Merge(p, target, content) ==
    /\ p.applied = 0 /\ target \in DOMAIN p.seen
    /\ \A m \in DOMAIN p.seen : Free(p.seen[m].scope) /\ Matches(m, p.seen[m])
    /\ Record("merge", p.seen, [m \in DOMAIN p.seen |->
           IF m = target THEN Rewritten(p.seen[m], p.seen[m].scope, content) ELSE Removed(p.seen[m])])
    /\ plan' = (plan \ {p}) \cup {[p EXCEPT !.applied = Len(chg) + 1]}
    /\ UNCHANGED <<lock, wr, auto, daily>>

(* A change is undone once, and only if nothing has touched its rows since.    *)
Latest(m, state) == Len(vers[m]) = state.version
Undoable(c) == /\ c.undone = 0 /\ \A m \in DOMAIN c.after : Latest(m, c.after[m]) /\ Matches(m, c.after[m])
               /\ \A m \in DOMAIN c.after : Free(c.after[m].scope)
                                            /\ (m \in DOMAIN c.before => Free(c.before[m].scope))
Reverted(c, m) ==
    IF m \in DOMAIN c.before /\ c.before[m].exists
    THEN [c.before[m] EXCEPT !.version = Len(vers[m]) + 1]
    ELSE [c.after[m] EXCEPT !.exists = FALSE, !.version = Len(vers[m]) + 1]
Undo(i) ==
    LET c == chg[i]
        touched == {m \in DOMAIN c.after : Live(m) \/ (m \in DOMAIN c.before /\ c.before[m].exists)}
    IN /\ Undoable(c) /\ Len(chg) < MaxChanges
       /\ mem' = [m \in MemId |-> IF m \in touched THEN Row(Reverted(c, m)) ELSE mem[m]]
       /\ vers' = [m \in MemId |-> IF m \in touched THEN Append(vers[m], Reverted(c, m)) ELSE vers[m]]
       /\ chg' = Append([chg EXCEPT ![i].undone = Len(chg) + 1],
              [kind |-> "undo", before |-> c.after, after |-> [m \in touched |-> Reverted(c, m)],
               undone |-> 0])
       /\ UNCHANGED <<plan, lock, wr, auto, daily>>

-----------------------------------------------------------------------------
(* The daily memory: read, ask a model for the new text, write it.             *)

hand == <<mem, vers, chg, plan, lock, wr, auto>>
AppendSummary(s) ==
    /\ diary[s].pc = "new" /\ diary' = [diary EXCEPT ![s] = [pc |-> "write", seen |-> day]]
    /\ UNCHANGED <<hand, day>>
WriteDay(s) ==
    /\ diary[s].pc = "write"
    /\ day' = [sources |-> diary[s].seen.sources \cup {s}, told |-> diary[s].seen.told \cup {s}, is |-> TRUE]
    /\ diary' = [diary EXCEPT ![s] = [NoDiary EXCEPT !.pc = "over"]]
    /\ UNCHANGED hand
WriterIsSilent(s) == /\ diary[s].pc = "write" /\ diary' = [diary EXCEPT ![s] = [NoDiary EXCEPT !.pc = "over"]]
                     /\ UNCHANGED <<hand, day>>
(* The night job writes the day anew, from all summaries of the day, with the  *)
(* sessions that were not used after it.                                       *)
ConsolidateDay(used) ==
    LET done == {s \in Session : diary[s].pc # "new"} IN
    /\ used \subseteq done /\ used # {}
    /\ day' = [sources |-> used, told |-> done, is |-> TRUE]
    /\ UNCHANGED <<hand, diary>>
DeleteDay == day.is /\ day' = NoDay /\ UNCHANGED <<hand, diary>>

HandNext ==
    \/ \E s \in MemScope, c \in Text : CreateMemory(s, c)
    \/ \E w \in Writer : \/ \E m \in MemId : OpenMemory(w, m)
                         \/ DeleteMemory(w)
                         \/ (WriterAt(w, "open") /\ \E v \in DOMAIN vers[wr[w].id] : Restore(w, v))
                         \/ LockScope(w) \/ WriterFails(w) \/ Look(w) \/ DecideCreate(w) \/ DecideSkip(w)
    \/ \E w \in Writer, s \in MemScope, c \in Text : UpdateMemory(w, s, c) \/ StartWrite(w, s, c)
    \/ \E w \in Writer, m \in MemId, c \in Text : DecideUpdate(w, m, c)
    \/ \E S \in SUBSET MemId : (Cardinality(S) = 2 /\ DeleteMemories(S)) \/ Preview(S)
    \/ \E p \in plan, m \in MemId, c \in Text : Merge(p, m, c)
    \/ \E i \in DOMAIN chg : Undo(i)
DayNext ==
    \/ \E s \in Session : AppendSummary(s) \/ WriteDay(s) \/ WriterIsSilent(s)
    \/ \E used \in SUBSET Session : ConsolidateDay(used)
    \/ DeleteDay
MNext == HandNext \/ DayNext
MSpec == MInit /\ [][MNext]_mvars

-----------------------------------------------------------------------------
(* A memory is its latest version, versions have no gap, and every change was  *)
(* made by someone who had seen just the state before it: nobody writes over   *)
(* an edit that came while a model was asked or a page was open.               *)
ChainWhole ==
    /\ \A m \in MemId :
         /\ \A i \in DOMAIN vers[m] : vers[m][i].version = i
         /\ mem[m] = IF vers[m] = <<>> THEN NoRow ELSE Row(Last(vers[m]))
    /\ \A i \in DOMAIN chg : \A m \in DOMAIN chg[i].after :
         LET v == chg[i].after[m].version IN
         vers[m][v] = chg[i].after[m] /\ (v > 1 => chg[i].before[m] = vers[m][v - 1])

(* An undo brings back just what was before, of all its rows or of none, and   *)
(* a change is undone once.                                                    *)
UndoExact == \A i \in DOMAIN chg : chg[i].undone # 0 =>
    LET c == chg[i] u == chg[c.undone] IN
    /\ u.before = c.after /\ u.kind = "undo" /\ \A j \in DOMAIN chg \ {i} : chg[j].undone # c.undone
    /\ \A m \in DOMAIN c.before \cap DOMAIN u.after :
         c.before[m].exists => [u.after[m] EXCEPT !.version = 0] = [c.before[m] EXCEPT !.version = 0]
    /\ \A m \in DOMAIN u.after : u.after[m].version = c.after[m].version + 1

(* A plan merges once, and what it showed.                                     *)
MergedAsShown == \A p \in plan : p.applied # 0 =>
    chg[p.applied].before = p.seen
    /\ \A i \in DOMAIN chg \ {p.applied} : chg[i].kind = "merge" => chg[i].before # p.seen

(* Two automatic writers never add one fact twice to a scope.                  *)
AddedOnce == \A m, o \in auto :
    m # o /\ Live(m) /\ Live(o) /\ mem[m].version = 1 /\ mem[o].version = 1
    => mem[m].scope # mem[o].scope \/ mem[m].content # mem[o].content

MemoryHistory == ChainWhole /\ UndoExact /\ MergedAsShown /\ AddedOnce

-----------------------------------------------------------------------------
(* What the code does not keep.                                                *)

(* A session whose summary was written stays in the day: two that end together *)
(* both start from the text before either.                                     *)
DayTellsAll == [][\A s \in Session : WriteDay(s) => day.told \subseteq day'.told]_mvars
(* A session that is told of is listed as a source: one used again after       *)
(* midnight is not, though its summary is in the text.                         *)
DayNamesItsSources == day.told \subseteq day.sources
=============================================================================
