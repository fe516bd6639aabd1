----------------------------- MODULE AgentCatalog -----------------------------
(* The agents of a tenant (interface/routes/agents.py) and what an external    *)
(* caller is served of them (interface/routes/agent_api.py): the row, the      *)
(* hierarchy of parents and children, and the versions that are published.     *)
(*                                                                             *)
(* An edit is one READ COMMITTED transaction: each of its statements sees what *)
(* is committed when it starts and what the edit itself has done; the row is   *)
(* written, where it differs from the one that was read, just before the       *)
(* commit.  Nothing else orders two edits: no lock, no version, no foreign     *)
(* key.  The selection of tools is that of core/chat.py; an MCP server stands  *)
(* for the tools it offers.                                                    *)
EXTENDS Integers, FiniteSets

CONSTANTS
    Agent, Server,
    Editor,       \* requests under way
    MaxEdits      \* bound: edits ever begun

ASSUME CatalogAssumption == MaxEdits \in Nat

VARIABLES
    agent,        \* the rows: [is, on, bound, all, enabled]
    kids,         \* agent_relationships: pairs of parent and child
    version,      \* agent_versions: [agent, at (start of its transaction), active, row]
    edit,         \* [pc, op, agent, at, wish, row (as read), gone (relations or versions replaced)]
    edits,        \* how many have begun
    races,        \* history: the pairs of edits that were under way at the same time
    last,         \* history: the version of an agent that was committed last
    ran           \* the last run for an external caller: [agent, at, grant, due]
avars == <<agent, kids, version, edit, edits, races, last, ran>>

\* A tool of the platform itself, which is not offered by an MCP server.
OwnTool == "own"
Tools == Server \cup {OwnTool}
Rows == [is : {"new", "here", "deleted"}, on : BOOLEAN, bound : SUBSET Server, all : SUBSET Server,
         enabled : SUBSET Tools]
NewRow == [is |-> "new", on |-> TRUE, bound |-> {}, all |-> {}, enabled |-> {}]
Here(a) == agent[a].is = "here"

\* What a request asks for: set is its model_fields_set.
NoOne == "nobody"
NoWish == [set |-> {}, kids |-> {}, on |-> TRUE, bound |-> {}, all |-> {}, enabled |-> {}]
KidsWish(k)      == [NoWish EXCEPT !.set = {"kids"}, !.kids = k]
ActiveWish(o)    == [NoWish EXCEPT !.set = {"is_active"}, !.on = o]
BoundWish(b)     == [NoWish EXCEPT !.set = {"bound"}, !.bound = b]
AllWish(l)       == [NoWish EXCEPT !.set = {"all"}, !.all = l]
ServerWish(b, l) == [NoWish EXCEPT !.set = {"bound", "all"}, !.bound = b, !.all = l]
ToolWish(t)      == [NoWish EXCEPT !.set = {"enabled"}, !.enabled = t]
AgentWishes ==
    {KidsWish(k) : k \in SUBSET Agent} \cup {ActiveWish(o) : o \in BOOLEAN}
    \cup {BoundWish(b) : b \in SUBSET Server} \cup {AllWish(l) : l \in SUBSET Server}
    \cup {ServerWish(b, l) : b \in SUBSET Server, l \in SUBSET Server}
    \cup {ToolWish(t) : t \in SUBSET Tools}
NoEdit == [pc |-> "idle", op |-> "none", agent |-> NoOne, at |-> 0, wish |-> NoWish, row |-> NewRow,
              gone |-> {}]
NoRun == [agent |-> NoOne, at |-> 0, grant |-> {}, due |-> 0]

AInit ==
    /\ \E here \in SUBSET Agent :
         agent = [a \in Agent |-> [NewRow EXCEPT !.is = IF a \in here THEN "here" ELSE "new"]]
    /\ kids = {} /\ version = {} /\ edit = [e \in Editor |-> NoEdit] /\ edits = 0
    /\ races = {} /\ last = [a \in Agent |-> 0] /\ ran = NoRun

----------------------------------------------------------------------------
(* The hierarchy.                                                            *)

Climbs(E, U) == \A x \in U : \A y \in Agent : <<y, x>> \in E => y \in U
\* The search from the parent upwards ends with the least set that climbs.
Ancestors(E, p) == {a \in Agent : \A U \in SUBSET Agent : p \in U /\ Climbs(E, U) => a \in U}
WouldCreateCycle(E, p, c) == c \in Ancestors(E, p)
ChildrenAllowed(E, p, ks) ==
    /\ \A c \in ks : Here(c)
    /\ p \notin ks
    /\ \A c \in ks : ~WouldCreateCycle(E, p, c)

\* Every set of agents has one that is the parent of none of them.
Acyclic(E) == \A S \in SUBSET Agent : S # {} => \E x \in S : \A y \in S : <<x, y>> \notin E

----------------------------------------------------------------------------
(* The row, as an update makes it of the one it has read.                    *)

\* BUG (for a mutant): servers that are no longer bound stay among the all-tools ones.
RevisedBug(row, w) ==
    [row EXCEPT
       !.on = IF "is_active" \in w.set THEN w.on ELSE @,
       !.enabled = IF "enabled" \in w.set THEN w.enabled ELSE @,
       !.bound = IF "bound" \in w.set THEN w.bound ELSE @,
       !.all = IF "all" \in w.set THEN w.all ELSE @]
Revised(row, w) ==
    [row EXCEPT
       !.on = IF "is_active" \in w.set THEN w.on ELSE @,
       !.enabled = IF "enabled" \in w.set THEN w.enabled ELSE @,
       !.bound = IF "bound" \in w.set THEN w.bound ELSE @,
       !.all = IF "all" \in w.set THEN w.all ELSE IF "bound" \in w.set THEN @ \cap w.bound ELSE @]
\* An UPDATE names only the columns whose value differs from the one that was read.
Written(now, read, new) ==
    [now EXCEPT !.on = IF new.on # read.on THEN new.on ELSE @,
                !.enabled = IF new.enabled # read.enabled THEN new.enabled ELSE @,
                !.bound = IF new.bound # read.bound THEN new.bound ELSE @,
                !.all = IF new.all # read.all THEN new.all ELSE @]

----------------------------------------------------------------------------
(* Edits.                                                                    *)

Open == {e \in Editor : edit[e].pc # "idle"}
SetsKids(t) == t.op \in {"create", "update"} /\ "kids" \in t.wish.set
Race(s, t) ==
    {r \in {"hierarchy", "row", "ghost", "publish"} :
       \/ r = "hierarchy" /\ SetsKids(s) /\ SetsKids(t) /\ {s.op, t.op} = {"update"}
       \/ r = "row" /\ {s.op, t.op} = {"update"} /\ s.agent = t.agent
       \/ r = "publish" /\ {s.op, t.op} = {"publish"} /\ s.agent = t.agent
       \/ r = "ghost" /\ \E x \in {s, t}, y \in {s, t} :
             x.op = "delete" /\ SetsKids(y) /\ x.agent \in y.wish.kids \cup {y.agent}}
Begin(e, op, a, w) ==
    /\ edit[e].pc = "idle" /\ edits < MaxEdits
    /\ edits' = edits + 1
    /\ LET t == [pc |-> "read", op |-> op, agent |-> a, at |-> edits + 1, wish |-> w, row |-> agent[a],
                gone |-> {}]
       IN /\ edit' = [edit EXCEPT ![e] = t]
          /\ races' = races \cup UNION {Race(edit[o], t) : o \in Open}
    /\ UNCHANGED <<agent, kids, version, last, ran>>
\* A request whose servers do not fit is refused (422) and rolled back.
Fits(row, w) == "all" \in w.set => w.all \subseteq Revised(row, w).bound

CreateAgent(e) == \E a \in Agent, w \in AgentWishes :
    /\ agent[a].is = "new" /\ \A o \in Open : edit[o].op = "create" => edit[o].agent # a
    /\ Fits(NewRow, w) /\ w.set # {"is_active"} /\ w.set # {"all"}
    /\ Begin(e, "create", a, w)
UpdateAgent(e) ==
    \E a \in Agent, w \in AgentWishes : Here(a) /\ Fits(agent[a], w) /\ Begin(e, "update", a, w)
DeleteAgent(e) == \E a \in Agent : Here(a) /\ Begin(e, "delete", a, NoWish)
\* What load_agent finds, for a publication as for a run.
Loaded(a) == Here(a) /\ agent[a].on
Publish(e) == \E a \in Agent : Loaded(a) /\ Begin(e, "publish", a, NoWish)

\* The statement that deletes the relations, or retires the versions, has seen its rows.
Selected(t) ==
    CASE t.op = "delete" -> {r \in kids : t.agent \in {r[1], r[2]}}
      [] t.op = "publish" -> {v \in version : v.agent = t.agent /\ v.active}
      [] OTHER -> {r \in kids : r[1] = t.agent}
Select(e) ==
    /\ edit[e].pc = "read" /\ (edit[e].op \in {"delete", "publish"} \/ SetsKids(edit[e]))
    /\ edit' = [edit EXCEPT ![e].pc = "selected", ![e].gone = Selected(edit[e])]
    /\ UNCHANGED <<agent, kids, version, edits, races, last, ran>>

Withdraw(e) ==
    edit' = [edit EXCEPT ![e] = NoEdit] /\ UNCHANGED <<agent, kids, version, edits, races, last, ran>>
\* It waits for the rows that another edit has locked, then the children are validated.
Holds(o, t) == edit[o].pc = "ready" /\ edit[o].op # "publish" /\ edit[o].gone \cap t.gone # {}
Ready(e) ==
    LET t == edit[e] IN
    /\ t.pc = "selected" /\ t.op # "publish"
    /\ \A o \in Editor : ~Holds(o, t)
    /\ IF SetsKids(t) /\ ~ChildrenAllowed(kids \ t.gone, t.agent, t.wish.kids)
       THEN Withdraw(e)
       ELSE /\ edit' = [edit EXCEPT ![e].pc = "ready"]
            /\ UNCHANGED <<agent, kids, version, edits, races, last, ran>>

Related(t) == IF SetsKids(t) THEN {<<t.agent, c>> : c \in t.wish.kids} ELSE {}
SaveAgent(e) ==
    LET t == edit[e]
        read == IF t.op = "create" THEN NewRow ELSE t.row
    IN
    /\ t.op \in {"create", "update"} /\ t.pc = IF SetsKids(t) THEN "ready" ELSE "read"
    /\ IF (t.op = "update" /\ ~Here(t.agent)) \/ Related(t) \cap (kids \ t.gone) # {}
       THEN Withdraw(e)
       ELSE /\ agent' = [agent EXCEPT ![t.agent] =
                           IF t.op = "create" THEN [Revised(NewRow, t.wish) EXCEPT !.is = "here"]
                           ELSE Written(@, read, Revised(read, t.wish))]
            /\ kids' = (kids \ t.gone) \cup Related(t)
            /\ edit' = [edit EXCEPT ![e] = NoEdit]
            /\ UNCHANGED <<version, edits, races, last, ran>>
RemoveAgent(e) ==
    LET t == edit[e] IN
    /\ t.op = "delete" /\ t.pc = "ready"
    /\ agent' = [agent EXCEPT ![t.agent] = [NewRow EXCEPT !.is = "deleted"]]
    /\ kids' = kids \ t.gone
    /\ edit' = [edit EXCEPT ![e] = NoEdit]
    /\ UNCHANGED <<version, edits, races, last, ran>>
\* Who waited for the rows of another publication retires those that were active before.
Retired(v, gone) == [v EXCEPT !.active = @ /\ ~\E g \in gone : g.at = v.at]
SaveVersion(e) ==
    LET t == edit[e] IN
    /\ t.op = "publish" /\ t.pc = "selected"
    /\ version' = {Retired(v, t.gone) : v \in version}
                  \cup {[agent |-> t.agent, at |-> t.at, active |-> TRUE, row |-> t.row]}
    /\ last' = [last EXCEPT ![t.agent] = t.at]
    /\ edit' = [edit EXCEPT ![e] = NoEdit]
    /\ UNCHANGED <<agent, kids, edits, races, ran>>

----------------------------------------------------------------------------
(* A run for an external caller.                                             *)

ActiveVersions(a) == {v \in version : v.agent = a /\ v.active}
\* The newest of the active versions, by the start of the transaction that wrote it.
ActiveVersion(a) == CHOOSE v \in ActiveVersions(a) : \A w \in ActiveVersions(a) : w.at <= v.at
IsMcpToolAllowed(s, row) ==
    s \in row.bound /\ (s \in row.all \/ row.enabled = {} \/ s \in row.enabled)
ToolsSchema(own, row) == own \cup {s \in Server : IsMcpToolAllowed(s, row)}
FilteredTools(row) == ToolsSchema({t \in {OwnTool} : row.enabled = {} \/ t \in row.enabled}, row)
Execute(a) ==
    /\ ActiveVersions(a) # {} /\ Loaded(a)
    /\ ran' = [agent |-> a, at |-> ActiveVersion(a).at, due |-> last[a],
               grant |-> FilteredTools(ActiveVersion(a).row)]
    /\ UNCHANGED <<agent, kids, version, edit, edits, races, last>>

ANext ==
    \/ \E e \in Editor :
         \/ CreateAgent(e) \/ UpdateAgent(e) \/ DeleteAgent(e) \/ Publish(e)
         \/ Select(e) \/ Ready(e) \/ SaveAgent(e) \/ RemoveAgent(e) \/ SaveVersion(e)
    \/ \E a \in Agent : Execute(a)
ASpec == AInit /\ [][ANext]_avars

----------------------------------------------------------------------------
ATypeOK ==
    /\ agent \in [Agent -> Rows] /\ kids \subseteq Agent \X Agent /\ edits \in 0 .. MaxEdits
    /\ version \subseteq [agent : Agent, at : 1 .. MaxEdits, active : BOOLEAN, row : Rows]
    /\ \A e \in Editor : edit[e].pc \in {"idle", "read", "selected", "ready"} /\ edit[e].row \in Rows
    /\ ran.grant \subseteq Tools

(* The hierarchy has no cycle as long as no two updates of children overlap:   *)
(* each child is checked against the relations without those the update        *)
(* replaces, and only one by one, which is enough (agents.py:638).             *)
NoCycle == "hierarchy" \in races \/ Acyclic(kids)

(* A relation joins two agents that exist as long as no deletion overlaps with *)
(* an update of children that names the agent: there is no foreign key.        *)
NoGhost == "ghost" \in races \/ \A r \in kids : Here(r[1]) /\ Here(r[2])

(* All tools of a server are enabled only while the server is bound, as long   *)
(* as no two updates of one agent overlap: each checks the row it has read.    *)
AllAreBound == "row" \in races \/ \A a \in Agent : agent[a].all \subseteq agent[a].bound

(* Who is served is served: once an agent is published one of its versions is  *)
(* active, whatever overlaps; and without overlapping publications it is only  *)
(* one, and a run has been given the last that was committed.                  *)
Published ==
    /\ \A a \in Agent : last[a] # 0 => ActiveVersions(a) # {}
    /\ "publish" \in races \/
         /\ \A a \in Agent : \A v, w \in ActiveVersions(a) : v = w
         /\ ran.at = ran.due

CatalogHolds == ATypeOK /\ NoCycle /\ NoGhost /\ AllAreBound /\ Published
=============================================================================
