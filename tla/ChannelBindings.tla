---------------------------- MODULE ChannelBindings --------------------------
(* Who an external identity of a channel is on the platform, and which session *)
(* its chats go to: bind codes and bindings (channels/binding.py, the routes   *)
(* of interface/routes/channels.py), session mappings and pending files        *)
(* (channels/pipeline.py).  A place is a chat of an identity; the messages of  *)
(* one place are handled one at a time, those of several places and the        *)
(* requests of the web side by side.                                           *)
EXTENDS Integers, Sequences, FiniteSets

CONSTANTS
    User, Ext,     \* users of the tenant, identities of the channel
    Place, ExtOf,  \* chats, and whose they are
    Digit,         \* the codes that can be drawn: they may be drawn twice
    Limit, Window, \* so many codes within so many ticks (3 in a minute)
    Ttl, FileTtl,  \* ticks a code (10 minutes) and a waiting file (30) live
    MaxNow, MaxCodes, MaxSessions  \* bounds: time, codes issued, sessions opened

ASSUME BindingAssumption ==
    /\ ExtOf \in [Place -> Ext] /\ Limit \in Nat /\ Window \in Nat /\ Ttl \in Nat /\ FileTtl \in Nat
    /\ MaxNow \in Nat /\ MaxCodes \in Nat /\ MaxSessions \in Nat

Nobody == "nobody"
None == 0

VARIABLES
    now,
    code,          \* channel_bind_codes: [ext, digits, born, used]
    issue,         \* a /bind under way: the codes its UPDATE has seen, or -1
    bound,         \* channel_bindings
    active,        \* users that are active and of the tenant
    link,          \* channel_session_mappings: the active one's session, or None
    session,       \* chat_sessions: [user, exists]
    workspace,     \* users that have a default workspace
    waiting,       \* _pending_attachments of a place: [user, stored, born]
    spent,         \* history: bindings made: [code, user, at]
    raced          \* history: identities with two /bind at a time
bvars == <<now, code, issue, bound, active, link, session, workspace, waiting, spent, raced>>
Holders(e) == {x.user : x \in {y \in spent : code[y.code].ext = e}}
codes == <<code, issue, spent, raced>>
chats == <<link, session, workspace, waiting>>

BTypeOK ==
    /\ \A c \in DOMAIN code : code[c].ext \in Ext /\ code[c].born \in 0 .. now
    /\ bound \in [Ext -> User \cup {Nobody}] /\ issue \in [Place -> -1 .. MaxCodes]
    /\ link \in [Place -> 0 .. Len(session)] /\ workspace \subseteq User

BInit ==
    /\ now = 0 /\ code = <<>> /\ issue = [p \in Place |-> -1] /\ bound = [e \in Ext |-> Nobody]
    /\ active = User /\ link = [p \in Place |-> None] /\ session = <<>> /\ workspace = {}
    /\ waiting = [p \in Place |-> <<>>] /\ spent = {}
    /\ raced = {}

\* resolve_external_user
Resolved(p) == LET u == bound[ExtOf[p]] IN IF u \in active THEN u ELSE Nobody
Handles(p) == issue[p] = -1

-----------------------------------------------------------------------------
(* The bind code.                                                            *)

Recent(e) == {c \in DOMAIN code : code[c].ext = e /\ now - code[c].born <= Window}
(* issue_bind_code counts, and its UPDATE uses up the codes it finds...        *)
AskCode(p) ==
    /\ Handles(p) /\ Resolved(p) = Nobody /\ Cardinality(Recent(ExtOf[p])) < Limit
    /\ Len(code) < MaxCodes /\ issue' = [issue EXCEPT ![p] = Len(code)]
    /\ raced' = IF \E q \in Place \ {p} : ~Handles(q) /\ ExtOf[q] = ExtOf[p]
                THEN raced \cup {ExtOf[p]} ELSE raced
    /\ UNCHANGED <<now, code, bound, active, chats, spent>>
(* ... and the commit shows the new one.                                       *)
UsedUp(p) == [c \in DOMAIN code |->
    IF c <= issue[p] /\ code[c].ext = ExtOf[p] THEN [code[c] EXCEPT !.used = TRUE] ELSE code[c]]
GiveCode(p, d) ==
    /\ ~Handles(p) /\ Len(code) < MaxCodes /\ issue' = [issue EXCEPT ![p] = -1]
    /\ code' = Append(UsedUp(p), [ext |-> ExtOf[p], digits |-> d, born |-> now, used |-> FALSE])
    /\ UNCHANGED <<now, bound, active, chats, spent, raced>>

(* consume_bind_code locks the row it finds, so that two consumptions follow   *)
(* one another; two rows with the same digits fail it, and so does a binding   *)
(* that exists, which leaves the code unused.                                  *)
Matching(d) == {c \in DOMAIN code : code[c].digits = d /\ ~code[c].used}
Consume(u, d) ==
    /\ u \in active
    /\ \E c \in DOMAIN code :
        /\ Matching(d) = {c} /\ now <= code[c].born + Ttl /\ bound[code[c].ext] = Nobody
        /\ bound' = [bound EXCEPT ![code[c].ext] = u]
        /\ code' = [code EXCEPT ![c].used = TRUE]
        /\ spent' = spent \cup {[code |-> c, user |-> u, at |-> now]}
    /\ UNCHANGED <<now, issue, active, chats, raced>>
(* unbind removes the binding, and nothing else.                               *)
Unbind(e) ==
    /\ bound[e] # Nobody /\ bound' = [bound EXCEPT ![e] = Nobody]
    /\ UNCHANGED <<now, active, chats, codes>>
Leave(u) ==
    /\ u \in active /\ (\E e \in Ext : bound[e] = u) /\ active' = active \ {u} /\ UNCHANGED <<now, bound, chats, codes>>

-----------------------------------------------------------------------------
(* The messages of a bound identity.                                         *)

Bound(p) == Handles(p) /\ Resolved(p) # Nobody
CanOpen == Len(session) < MaxSessions
Opened(p) == Append(session, [user |-> Resolved(p), exists |-> TRUE])
\* _resolve_context: the chat's session, or a new one under a new mapping
NeedsOne(p) == link[p] = None
SessionsOf(p) == IF NeedsOne(p) THEN Opened(p) ELSE session
SessionHere(p) == IF NeedsOne(p) THEN Len(session) + 1 ELSE link[p]
FreshFiles(p) == SelectSeq(waiting[p], LAMBDA f : now <= f.born + FileTtl)

(* A text drives the agent in the chat's session, with the files that wait.    *)
\* resolve_workspace: the user's default one, for a session that exists
Workspaces(p) == IF SessionsOf(p)[SessionHere(p)].exists THEN workspace \cup {Resolved(p)} ELSE workspace
TextMessage(p) ==
    /\ Bound(p) /\ (NeedsOne(p) => CanOpen)
    /\ session' = SessionsOf(p) /\ link' = [link EXCEPT ![p] = SessionHere(p)] /\ workspace' = Workspaces(p)
    /\ waiting' = [waiting EXCEPT ![p] = <<>>]
    /\ UNCHANGED <<now, bound, active, codes>>
(* /new: another session.                                                      *)
NewChat(p) ==
    /\ Bound(p) /\ Len(SessionsOf(p)) < MaxSessions
    /\ session' = Append(SessionsOf(p), [user |-> Resolved(p), exists |-> TRUE])
    /\ link' = [link EXCEPT ![p] = Len(session')]
    /\ UNCHANGED <<now, bound, active, workspace, waiting, codes>>
(* /switch and /resume: a session of the user's own.                           *)
Mine(p, s) == session[s].exists /\ session[s].user = Resolved(p)
Switch(p) ==
    /\ Bound(p) /\ (NeedsOne(p) => CanOpen)
    /\ \E s \in DOMAIN session : Mine(p, s) /\ link' = [link EXCEPT ![p] = s]
    /\ session' = SessionsOf(p) /\ UNCHANGED <<now, bound, active, workspace, waiting, codes>>
(* A user opens a session on the web.                                          *)
OpenOnWeb(u) ==
    /\ CanOpen /\ session' = Append(session, [user |-> u, exists |-> TRUE])
    /\ UNCHANGED <<now, bound, active, link, workspace, waiting, codes>>
(* /delete, and a deletion on the web: the mapping stays.                      *)
Delete(s) ==
    /\ session[s].exists /\ session' = [session EXCEPT ![s].exists = FALSE]
    /\ UNCHANGED <<now, bound, active, link, workspace, waiting, codes>>
(* A file is stored in the user's workspace and waits.  Nothing is committed:  *)
(* a session, a mapping and a workspace created for it are undone.             *)
File(p) ==
    /\ Bound(p) /\ SessionsOf(p)[SessionHere(p)].exists /\ Len(waiting[p]) < 1
    /\ waiting' = [waiting EXCEPT ![p] = Append(@, [user |-> Resolved(p), born |-> now,
                                                    stored |-> Resolved(p) \in workspace])]
    /\ UNCHANGED <<now, bound, active, link, session, workspace, codes>>

Tick == now < MaxNow /\ now' = now + 1 /\ UNCHANGED <<bound, active, chats, codes>>

BNext ==
    \/ \E p \in Place : \/ AskCode(p) \/ TextMessage(p) \/ NewChat(p) \/ Switch(p) \/ File(p)
                        \/ \E d \in Digit : GiveCode(p, d)
    \/ \E u \in User : Leave(u) \/ OpenOnWeb(u) \/ \E d \in Digit : Consume(u, d)
    \/ \E e \in Ext : Unbind(e)
    \/ \E s \in DOMAIN session : Delete(s)
    \/ Tick
BSpec == BInit /\ [][BNext]_bvars

-----------------------------------------------------------------------------
(* A code binds once, in its time, the identity that asked for it: also after  *)
(* that identity has been unbound, and whatever codes were issued meanwhile.   *)
CodeIsSpentOnce == \A x, y \in spent :
    /\ x.at <= code[x.code].born + Ttl
    /\ x.code = y.code => x = y

(* An identity that asks from one chat at a time has one code that works.      *)
LastCodeOnly == \A e \in Ext \ raced :
    Cardinality({c \in DOMAIN code : code[c].ext = e /\ ~code[c].used}) <= 1

(* While an identity is one user's, its chats lead to that user's sessions,    *)
(* whatever sessions it switched to, and its files wait for that user.         *)
ChatsAreOwn == \A p \in Place : Cardinality(Holders(ExtOf[p])) <= 1 =>
    /\ link[p] # None => session[link[p]].user \in Holders(ExtOf[p])
    /\ \A f \in DOMAIN waiting[p] : waiting[p][f].user \in Holders(ExtOf[p])
BindingsHold == CodeIsSpentOnce /\ LastCodeOnly /\ ChatsAreOwn

-----------------------------------------------------------------------------
(* What the code does not keep.                                                *)

(* One code works at a time (docs/12, R7), three within a minute.              *)
OneLiveCode == \A e \in Ext : Cardinality({c \in DOMAIN code : code[c].ext = e /\ ~code[c].used}) <= 1
AtMostLimit == \A e \in Ext : Cardinality(Recent(e)) <= Limit
(* The next message of a chat goes to a session of the user it comes from...    *)
SessionIsOwn == \A p \in Place : Bound(p) /\ link[p] # None => session[link[p]].user = Resolved(p)
(* ... that exists, with files that can be read.                               *)
SessionExists == \A p \in Place : link[p] # None => session[link[p]].exists
FilesReachable == \A p \in Place : Bound(p) => \A f \in DOMAIN FreshFiles(p) :
    FreshFiles(p)[f].stored /\ FreshFiles(p)[f].user = Resolved(p)
(* A code that is live and unambiguous binds an identity that is not bound.    *)
CodeIsUnique == \A d \in Digit : Cardinality(Matching(d)) <= 1
=============================================================================
