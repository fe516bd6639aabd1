------------------------------ MODULE MCStores ------------------------------
(* What the agents of a user keep and change at the same time, and what the    *)
(* requests of a tenant administer, on small instances: the graph knowledge,   *)
(* the memories, the agents, the models, a channel, the bindings of its users  *)
(* and their pets.  They share no state, so one of them runs in each           *)
(* behaviour; the others stay empty.                                           *)
EXTENDS GraphKnowledge, Memories, AgentCatalog, ModelCatalog,
        ChannelAdmin, ChannelBindings, Pets, TLC
CONSTANTS x1, x2, y1, y2, z1, z2, n1, n2, f1
\* A few sets of two stand for the sets of all the modules.
Workers  == {x1, x2}
Requests == {y1, y2}
Names    == {z1, z2}
Others   == {n1, n2}
OneFile  == {f1}
Three    == Names \cup OneFile
Symmetry == UNION {Permutations(s) : s \in {Workers, Requests, Names}}
ModeOf  == "socket" :> "websocket" @@ "hook" :> "webhook"
\* One identity has two chats.
ChatsOf == [p \in Names |-> f1]

\* The sheet of a package shows its states in the usual rows, or in others.
MapsOf  == {"idle" :> 0, "idle" :> 1 @@ "think" :> 0}
HomeOf  == n1 :> "tenant" @@ f1 :> "tenant"

NoGraph == /\ base = FALSE /\ doc = [d \in Doc |-> NoDoc] /\ chunk = {} /\ entity = {} /\ rel = {}
           /\ job = [j \in Job |-> NoJob] /\ task = [j \in Job |-> NoTask]
           /\ ocr = [d \in Doc |-> NoProc] /\ ids = 0 /\ reviews = 0
           /\ drop = [d \in Doc |-> NoDrop] /\ wipe = NoWipe /\ late = [docs |-> {}, jobs |-> {}]
NoAgents == /\ agent = [a \in Agent |-> NewRow] /\ kids = {} /\ version = {} /\ edit = [e \in Editor |-> NoEdit]
            /\ edits = 0 /\ races = {} /\ last = [a \in Agent |-> 0] /\ ran = NoRun
NoModels == /\ model = [m \in Model |-> NoModel] /\ offers = {} /\ request = [r \in Admin |-> NoRequest]
            /\ requests = 0 /\ overlap = FALSE /\ stuck = FALSE
ASSUME OwnPetAssumption == /\ n1 \in PetUser /\ f1 \in PetAdmin /\ n1 # f1 /\ n2 \in PetAgent
                           /\ MaxPackages > 0
IdleOnly == [s \in {"idle"} |-> 0]
\* A user has a pet of a package of his own, and an administrator offers another
\* package to all.
OwnPet(p, q, n) ==
  /\ pkg = [x \in {p, q} |-> IF x = p THEN NewPackage(n1, "private", IdleOnly)
                                      ELSE NewPackage(f1, "official", IdleOnly)]
  /\ pet = [x \in {<<n1, p>>} |-> [NewPet EXCEPT !.agent = n2, !.chats = n]]
  /\ born = {p, q} /\ sheet = {p, q} /\ open = PetUser \X PetAgent
  /\ ask = [r \in PetAsk |-> NoAsk] /\ asks = 0 /\ crowd = {} /\ torn = {}
  /\ plays = [by \in {"bubble", "tool"} |-> NotPlayed]

VARIABLE part
Init == /\ MInit /\ DInit /\ BInit
        /\ \/ part = "graph" /\ GInit /\ NoAgents /\ NoModels
           \/ part = "agents" /\ NoGraph /\ AInit /\ NoModels
           \/ part = "models" /\ NoGraph /\ NoAgents /\ LInit
           \/ /\ part \in {"memories", "days", "channel", "bindings", "pets", "names"}
              /\ NoGraph /\ NoAgents /\ NoModels
        /\ \/ part # "names" /\ PInit
           \/ part \in {"pets", "names"} /\ \E p, q \in PetPkg :
                p # q /\ OwnPet(p, q, IF part = "names" THEN 1 ELSE 0)
agents == <<avars, lvars>>
channel == <<dvars, bvars>>
others == <<gvars, mvars, agents, channel>>
Next == \/ part = "graph" /\ GNext /\ UNCHANGED <<part, mvars, agents, channel, pvars>>
        \/ part = "memories" /\ HandNext /\ UNCHANGED <<part, gvars, agents, channel, pvars>>
        \/ part = "days" /\ DayNext /\ UNCHANGED <<part, gvars, agents, channel, pvars>>
        \/ part = "agents" /\ ANext /\ UNCHANGED <<part, gvars, mvars, lvars, channel, pvars>>
        \/ part = "models" /\ LNext /\ UNCHANGED <<part, gvars, mvars, avars, channel, pvars>>
        \/ part = "channel" /\ DNext /\ UNCHANGED <<part, gvars, mvars, agents, bvars, pvars>>
        \/ part = "bindings" /\ BNext /\ UNCHANGED <<part, gvars, mvars, agents, dvars, pvars>>
        \/ part = "pets" /\ PetNext /\ UNCHANGED <<part, others>>
        \/ part = "names" /\ NameNext /\ UNCHANGED <<part, others>>
Spec == Init /\ [][Next]_<<part, others, pvars>>

(* The agents keep their hierarchy, their servers and their versions, and a    *)
(* tenant keeps one default model, as far as no two requests overlap; a        *)
(* channel has the connection its requests leave, an identity the user whose   *)
(* code it gave, and a user one active pet and the packages he may have.       *)
CatalogsHold == \/ part \in {"graph", "memories", "days"}
                \/ /\ CatalogHolds /\ ModelsHold
                   /\ DTypeOK /\ AdminHolds /\ BTypeOK /\ BindingsHold /\ PetsHold
=============================================================================
