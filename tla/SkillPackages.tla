---------------------------- MODULE SkillPackages ----------------------------
(* The skills of a user (skills/service.py, mutations.py, handlers.py and the  *)
(* routes): a row and its earlier versions in PostgreSQL, a package of files   *)
(* per version in object storage.  Writers hold an advisory lock of the user   *)
(* to the end of their transaction; what the two stores do for one another     *)
(* happens before it (the upload) and after it (cleanups, without the lock).   *)
(*                                                                             *)
(* A request may be sent again, also while its first attempt still runs.  The  *)
(* content of a file or of the body is the request that wrote it.              *)
EXTENDS Integers, Sequences, FiniteSets

CONSTANTS
    Req,          \* requests
    Tx,           \* attempts: a request or a tool call in some process
    SkillName, PkgFile,
    MaxSkills,    \* bound: skills ever created
    MaxMishaps    \* bound: failures of the object store, crashes, lost replies

NoOwner == "nobody"
ASSUME SkillAssumption == MaxSkills \in Nat \ {0} /\ MaxMishaps \in Nat /\ NoOwner \notin Tx

VARIABLES
    skill,        \* committed rows
    past,         \* committed rows of earlier versions
    objs,         \* object storage: [key, files]
    receipt,      \* requests of an agent that have been carried out
    wish,         \* what a request asks for
    tx,           \* [pc, req, row (read or to be written), up (keys tracked)]
    mutex,        \* the holder of the user's lock
    applied,      \* history: changes committed, per request
    doubt,        \* history: packages deleted although their commit had succeeded
    mishaps
kvars == <<skill, past, objs, receipt, wish, tx, mutex, applied, doubt, mishaps>>

SkillId == 1 .. MaxSkills
NoKey == <<>>
Key == {NoKey} \cup (SkillId \X Nat \X (Tx \cup {NoOwner}))
Nothing == [id |-> 0, name |-> NoOwner, ver |-> 0, body |-> NoOwner, files |-> {}, key |-> NoKey,
            check |-> <<>>]
NoTx == [pc |-> "new", req |-> NoOwner, row |-> Nothing, up |-> {}]
Alive(s) == s \in SkillId /\ skill[s].ver > 0
Born == {s \in SkillId : skill[s].id # 0}
KTypeOK ==
    /\ \A s \in SkillId : skill[s].ver \in Nat /\ skill[s].key \in Key
                          /\ skill[s].files \subseteq PkgFile \X (Req \cup {NoOwner})
    /\ receipt \subseteq Req /\ mutex \in Tx \cup {NoOwner} /\ doubt \subseteq Key
    /\ applied \in [Req -> Nat] /\ mishaps \in 0 .. MaxMishaps

(* One skill with files, and its package.                                      *)
KInit ==
    /\ \E n \in SkillName :
         skill = [s \in SkillId |-> IF s # 1 THEN Nothing ELSE
                  [id |-> 1, name |-> n, ver |-> 1, body |-> NoOwner, files |-> PkgFile \X {NoOwner},
                   key |-> <<1, 1, NoOwner>>, check |-> <<>>]]
    /\ objs = {[key |-> <<1, 1, NoOwner>>, files |-> PkgFile \X {NoOwner}]}
    /\ past = [s \in SkillId |-> <<>>] /\ receipt = {} /\ wish = [r \in Req |-> [op |-> "none"]]
    /\ tx = [t \in Tx |-> NoTx] /\ mutex = NoOwner /\ applied = [r \in Req |-> 0]
    /\ doubt = {} /\ mishaps = 0

Wishes ==
    [op: {"create"}, by: {"agent", "page", "import"}, name: SkillName, files: SUBSET PkgFile]
    \cup [op: {"edit"}, by: {"agent", "page"}, id: SkillId, exp: {1, 2}]
    \cup [op: {"put", "drop"}, by: {"agent", "page"}, id: SkillId, exp: {1, 2}, file: PkgFile]
    \cup [op: {"rename"}, by: {"agent", "page"}, id: SkillId, exp: {1, 2}, name: SkillName]
    \cup [op: {"delete", "verify"}, by: {"page"}, id: SkillId]
Wish(t) == wish[tx[t].req]
TxAt(t, pc) == tx[t].pc = pc
Step(t, pc) == tx' = [tx EXCEPT ![t].pc = pc]
Over(t) == tx' = [tx EXCEPT ![t] = [NoTx EXCEPT !.pc = "over"]]
Release(t) == mutex' = IF mutex = t THEN NoOwner ELSE mutex
Mishap == mishaps < MaxMishaps /\ mishaps' = mishaps + 1
db == <<skill, past, receipt, applied>>

-----------------------------------------------------------------------------
(* A request arrives, for the first time or again.                             *)
Ask(t, r) ==
    /\ TxAt(t, "new")
    /\ IF wish[r].op = "none" THEN \E w \in Wishes : wish' = [wish EXCEPT ![r] = w]
       ELSE UNCHANGED wish
    /\ tx' = [tx EXCEPT ![t].pc = IF wish'[r].op = "verify" THEN "view" ELSE "lock", ![t].req = r]
    /\ UNCHANGED <<db, objs, mutex, doubt, mishaps>>

(* lock_user: five seconds, then "busy".                                       *)
LockedBug(t) == FALSE
Locked(t) == mutex # NoOwner
Acquire(t) == /\ TxAt(t, "lock") /\ ~Locked(t) /\ mutex' = t /\ Step(t, "work")
              /\ UNCHANGED <<db, objs, wish, doubt, mishaps>>
Refused(t) == /\ TxAt(t, "lock") /\ Locked(t) /\ Over(t)
              /\ UNCHANGED <<db, objs, wish, mutex, doubt, mishaps>>

(* view_skill reads the row without the lock and deploys its package into the  *)
(* directory of that version, where the agent runs a script of it.             *)
ViewSkill(t) ==
    /\ TxAt(t, "view")
    /\ IF Alive(Wish(t).id) /\ skill[Wish(t).id].files # {}
       THEN tx' = [tx EXCEPT ![t].pc = "deploy", ![t].row = skill[Wish(t).id]]
       ELSE Over(t)
    /\ UNCHANGED <<db, objs, wish, mutex, doubt, mishaps>>
Has(row) == [key |-> row.key, files |-> row.files] \in objs
Deploy(t) ==
    /\ TxAt(t, "deploy") /\ IF Has(tx[t].row) THEN Step(t, "lock") ELSE Over(t)
    /\ UNCHANGED <<db, objs, wish, mutex, doubt, mishaps>>

-----------------------------------------------------------------------------
(* The body of a mutation, under the lock.                                     *)

SameName(n, s) == \E o \in SkillId \ {s} : Alive(o) /\ skill[o].name = n
(* What an update makes of a row: changed files or text need a new check.      *)
Unchecked(old, new) == IF <<old.files, old.body>> = <<new.files, new.body>> THEN old.check ELSE <<>>
Without(files, f) == {p \in files : p[1] # f}
Edited(old, t) ==
    LET w == Wish(t)
        new == CASE w.op = "edit" -> [old EXCEPT !.body = tx[t].req]
                 [] w.op = "put"  -> [old EXCEPT !.files = Without(@, w.file) \cup {<<w.file, tx[t].req>>}]
                 [] w.op = "drop" -> [old EXCEPT !.files = Without(@, w.file)]
                 [] w.op = "rename" -> [old EXCEPT !.name = w.name]
    IN IF new = old THEN old ELSE [new EXCEPT !.ver = @ + 1, !.check = Unchecked(old, new)]
Created(t) == [id |-> Cardinality(Born) + 1, name |-> Wish(t).name, ver |-> 1, body |-> tx[t].req,
               files |-> {<<f, tx[t].req>> : f \in Wish(t).files}, key |-> NoKey, check |-> <<>>]

(* The rows a mutation may write; none when it is refused or was carried out.  *)
(* A creation that finds its equal returns it, a receipt answers a repetition, *)
(* a check must be of the version it names and records what was looked at.     *)
Known(t) == Wish(t).by = "agent" /\ tx[t].req \in receipt
Readable(s) == Alive(s) /\ (skill[s].files # {} => Has(skill[s]))
Equal(s, t) == Readable(s) /\ [skill[s] EXCEPT !.id = 0, !.ver = 1, !.key = NoKey, !.check = <<>>]
                              = [Created(t) EXCEPT !.id = 0]
Targets(t) ==
    LET w == Wish(t) IN
    CASE w.op = "create" -> IF SameName(w.name, 0) THEN {skill[s] : s \in {s \in SkillId : Equal(s, t)}}
                            ELSE IF Cardinality(Born) < MaxSkills THEN {Created(t)} ELSE {}
      [] w.op = "verify" -> IF Alive(w.id) /\ skill[w.id].ver = tx[t].row.ver
                            THEN {[skill[w.id] EXCEPT !.check = <<c, tx[t].row.files, tx[t].row.body>>] :
                                  c \in {"passed", "failed"}} ELSE {}
      [] w.op = "delete" -> IF Alive(w.id) THEN {[Nothing EXCEPT !.id = w.id]} ELSE {}
      [] OTHER -> IF /\ Readable(w.id) /\ w.exp = skill[w.id].ver
                     /\ w.op = "rename" => ~SameName(w.name, w.id)
                     /\ w.op = "drop" => \E p \in skill[w.id].files : p[1] = w.file
                  THEN {Edited(skill[w.id], t)} ELSE {}
Work(t) ==
    /\ TxAt(t, "work")
    /\ IF Known(t) \/ Targets(t) = {} THEN Over(t) /\ Release(t)
       ELSE /\ \E row \in Targets(t) :
                  tx' = [tx EXCEPT ![t].row = row,
                         ![t].pc = IF row.ver \notin {0, skill[row.id].ver} THEN "upload" ELSE "commit"]
            /\ UNCHANGED mutex
    /\ UNCHANGED <<db, objs, wish, doubt, mishaps>>

(* The key is new for every upload; the transaction remembers it.              *)
NewKeyBug(t) == <<tx[t].row.id, tx[t].row.ver, NoOwner>>
NewKey(t) == <<tx[t].row.id, tx[t].row.ver, t>>
Upload(t) ==
    /\ TxAt(t, "upload")
    /\ objs' = {o \in objs : o.key # NewKey(t)} \cup {[key |-> NewKey(t), files |-> tx[t].row.files]}
    /\ tx' = [tx EXCEPT ![t].pc = "commit", ![t].row.key = NewKey(t), ![t].up = {NewKey(t)}]
    /\ UNCHANGED <<db, wish, mutex, doubt, mishaps>>
(* A skill of text goes without a package; one with files is refused, but the  *)
(* import of several catches the error and commits the row it had flushed.     *)
UploadFails(t) ==
    /\ TxAt(t, "upload") /\ Mishap
    /\ IF tx[t].row.files = {} \/ Wish(t).by = "import"
       THEN tx' = [tx EXCEPT ![t].pc = "commit", ![t].row.key = NoKey] /\ UNCHANGED mutex
       ELSE Step(t, "unwind") /\ Release(t)
    /\ UNCHANGED <<db, objs, wish, doubt>>

-----------------------------------------------------------------------------
(* The end of a transaction and what follows it.                               *)

Stored(t) ==
    LET row == tx[t].row s == row.id old == skill[s] IN
    /\ skill' = [skill EXCEPT ![s] = row]
    /\ past' = [past EXCEPT ![s] = IF row.ver = 0 THEN <<>>
                                   ELSE IF old.ver > 0 /\ old.ver # row.ver THEN Append(@, old) ELSE @]
    /\ applied' = [applied EXCEPT ![tx[t].req] = IF row = old \/ Wish(t).op = "verify" THEN @ ELSE @ + 1]
    /\ receipt' = IF Wish(t).by = "agent" THEN receipt \cup {tx[t].req} ELSE receipt
Commit(t) ==
    /\ TxAt(t, "commit") /\ Stored(t) /\ Release(t)
    /\ tx' = [tx EXCEPT ![t].pc = IF tx[t].row.ver = 0 THEN "sweep" ELSE "answer", ![t].up = {}]
    /\ UNCHANGED <<objs, wish, doubt, mishaps>>
(* An error or a cancellation ends in a rollback.                              *)
RollBack(t) == /\ tx[t].pc \in {"work", "upload", "commit", "answer"} /\ Step(t, "unwind") /\ Release(t)
               /\ UNCHANGED <<db, objs, wish, doubt, mishaps>>
(* The database committed, the reply did not arrive: rolled back all the same. *)
ReplyLost(t) == /\ TxAt(t, "commit") /\ Mishap /\ Stored(t) /\ Step(t, "unwind") /\ Release(t)
                /\ doubt' = doubt \cup tx[t].up
                /\ UNCHANGED <<objs, wish>>
Replied(t) == /\ TxAt(t, "answer") /\ Over(t)
              /\ UNCHANGED <<db, objs, wish, mutex, doubt, mishaps>>

(* The hooks of the session, when the lock is gone.                            *)
Unwind(t) == /\ TxAt(t, "unwind") /\ Over(t) /\ objs' = {o \in objs : o.key \notin tx[t].up}
             /\ UNCHANGED <<db, wish, mutex, doubt, mishaps>>
Sweep(t) == /\ TxAt(t, "sweep") /\ Over(t)
            /\ objs' = {o \in objs : o.key = NoKey \/ o.key[1] # tx[t].row.id}
            /\ UNCHANGED <<db, wish, mutex, doubt, mishaps>>
CleanupFails(t) == /\ tx[t].pc \in {"unwind", "sweep"} /\ Mishap /\ Over(t)
                   /\ UNCHANGED <<db, objs, wish, mutex, doubt>>
AttemptDies(t) == /\ tx[t].pc \notin {"new", "over"} /\ Mishap /\ Over(t) /\ Release(t)
                  /\ UNCHANGED <<db, objs, wish, doubt>>

KNext == \E t \in Tx :
    \/ \E r \in Req : Ask(t, r)
    \/ Acquire(t) \/ Refused(t) \/ ViewSkill(t) \/ Deploy(t) \/ Work(t) \/ Upload(t) \/ UploadFails(t)
    \/ Commit(t) \/ RollBack(t) \/ ReplyLost(t) \/ Replied(t) \/ Unwind(t) \/ Sweep(t)
    \/ CleanupFails(t) \/ AttemptDies(t)
KSpec == KInit /\ [][KNext]_kvars

-----------------------------------------------------------------------------
(* Every version, current or earlier, has its package with just its files, and *)
(* without a mishap no package is left of a version that is not: whatever is   *)
(* refused, cancelled, rolled back, repeated or deleted, and although both     *)
(* cleanups run when another writer may have the lock.  (What an import left   *)
(* without a key, and what a lost reply deleted, is below.)                    *)
Versions(s) == {past[s][i] : i \in DOMAIN past[s]} \cup (IF Alive(s) THEN {skill[s]} ELSE {})
Present(v) == [key |-> v.key, files |-> v.files] \in objs
StoresAgree ==
    /\ \A s \in SkillId : \A v \in Versions(s) : v.key \notin {NoKey} \cup doubt => Present(v)
    /\ mishaps = 0 => \A o \in objs :
         \/ \E s \in SkillId : \E v \in Versions(s) : v.key = o.key
         \/ \E t \in Tx : o.key \in tx[t].up \/ (TxAt(t, "sweep") /\ tx[t].row.id = o.key[1])

(* Of writers that read one version one wins: the versions of a skill are      *)
(* numbered without a gap or a double, and no two skills have one name.        *)
HistoryWhole ==
    /\ \A s \in SkillId : Alive(s) =>
         Len(past[s]) = skill[s].ver - 1 /\ \A i \in DOMAIN past[s] : past[s][i].ver = i
    /\ \A s, o \in SkillId : Alive(s) /\ Alive(o) /\ skill[s].name = skill[o].name => s = o

(* An agent's request changes the skills once, however often it is repeated.   *)
AppliedOnce == \A r \in Req : wish[r].op # "none" /\ wish[r].by = "agent" => applied[r] <= 1

(* A skill is marked as checked only with the very text and files that were.   *)
CheckedAsIs == \A s \in SkillId : Alive(s) /\ skill[s].check # <<>> =>
    skill[s].check[2] = skill[s].files /\ skill[s].check[3] = skill[s].body

SkillHistory == HistoryWhole /\ AppliedOnce /\ CheckedAsIs

-----------------------------------------------------------------------------
(* What the code does not keep.                                                *)

(* No skill with files is visible without them: an import that could not store *)
(* its package commits the row it has flushed.                                 *)
ImportIsWhole == \A s \in SkillId : \A v \in Versions(s) : v.files # {} => v.key # NoKey
(* A commit whose reply is lost can be repeated: its package is deleted.       *)
LostReplyKeepsPackage == \A s \in SkillId : \A v \in Versions(s) : v.key \notin doubt
=============================================================================
