---------------------------- MODULE ModelCatalog ----------------------------
(* The providers and models of a tenant (interface/routes/admin_models.py) and *)
(* the model that a run gets (core/chat.py resolve_model).                     *)
(*                                                                             *)
(* Each request is one READ COMMITTED transaction of several statements, with  *)
(* nothing that keeps two of them apart: it reads the row, writes, looks for a *)
(* default, and writes again.  There is no foreign key and no unique default.  *)
EXTENDS Integers, FiniteSets

CONSTANTS
    Model,        \* models that may ever be created (an id is not used again)
    Provider,
    Admin,        \* requests under way
    MaxRequests   \* bound: requests ever begun

ASSUME ModelAssumption == MaxRequests \in Nat

VARIABLES
    model,        \* llm_models: [is, provider, on, default]
    offers,       \* llm_providers that exist
    request,      \* [pc, op, m (the models it is about), p, seen (rows as read), dflt (defaults found)]
    requests,     \* how many have begun
    overlap,      \* history: two requests were under way at the same time
    stuck         \* history: a creation failed because it found two defaults
lvars == <<model, offers, request, requests, overlap, stuck>>

Absent == "absent"
ModelRows == [is : {"new", "here", "deleted"}, provider : Provider \cup {Absent}, on : BOOLEAN, default : BOOLEAN]
NoModel == [is |-> "new", provider |-> Absent, on |-> TRUE, default |-> FALSE]
NoRequest == [pc |-> "idle", op |-> "none", m |-> {}, p |-> Absent, seen |-> {}, dflt |-> {}]
Kept == {m \in Model : model[m].is = "here"}
Defaults == {m \in Kept : model[m].default}
Usable == {m \in Kept : model[m].on}

LInit ==
    /\ model = [m \in Model |-> NoModel] /\ offers \in SUBSET Provider
    /\ request = [r \in Admin |-> NoRequest] /\ requests = 0 /\ overlap = FALSE /\ stuck = FALSE

BeginRequest(r, op, ms, p) ==
    /\ request[r].pc = "idle" /\ requests < MaxRequests
    /\ requests' = requests + 1
    /\ overlap' = (overlap \/ \E o \in Admin : request[o].pc # "idle")
    /\ request' = [request EXCEPT ![r] = [pc |-> "read", op |-> op, m |-> ms, p |-> p, seen |-> ms \cap Defaults, dflt |-> {}]]
    /\ UNCHANGED <<model, offers, stuck>>
Ends(r) == request' = [request EXCEPT ![r] = NoRequest] /\ UNCHANGED <<requests, overlap>>
Fails(r) == Ends(r) /\ UNCHANGED <<model, offers>>

CreateProvider(r) == \E p \in Provider \ offers :
    /\ request[r].pc = "idle" /\ offers' = offers \cup {p}
    /\ UNCHANGED <<model, request, requests, overlap, stuck>>
\* One model, or the models of an import that the provider does not have yet.
CreateModels(r) == \E p \in offers, ms \in SUBSET {m \in Model : model[m].is = "new"} :
    /\ ms # {} /\ \A o \in Admin : request[o].op = "create" => request[o].m \cap ms = {}
    /\ BeginRequest(r, "create", ms, p)
\* A column that is given the value it has is not written.
UpdateModel(r) == \E m \in Kept :
    \/ BeginRequest(r, IF model[m].on THEN "disable" ELSE "enable", {m}, Absent)
    \/ \E p \in offers \ {model[m].provider} : BeginRequest(r, "move", {m}, p)
DeleteModel(r) == \E m \in Kept : BeginRequest(r, "delete", {m}, Absent)
SetDefault(r) == \E m \in Kept : BeginRequest(r, "default", {m}, Absent)
DeleteProvider(r) == \E p \in offers : BeginRequest(r, "drop", {}, p)

\* The second statement: what is committed, and what the request itself has written.
Inspect(r) ==
    LET t == request[r] IN
    /\ t.pc = "read"
    /\ request' = [request EXCEPT
         ![r].pc = "looked",
         ![r].dflt = CASE t.op = "delete" -> IF t.seen = {} THEN {} ELSE Usable \ t.m
                       [] t.op = "drop" -> {m \in Kept : model[m].provider = t.p}
                       [] OTHER -> Defaults]
    /\ UNCHANGED <<model, offers, requests, overlap, stuck>>

FirstIsDefault(found) == found = {}
SaveModels(r) ==
    LET t == request[r] IN
    /\ t.pc = "looked" /\ t.op = "create"
    /\ IF Cardinality(t.dflt) > 1
       THEN Fails(r) /\ stuck' = TRUE
       ELSE /\ \E first \in t.m :
                 model' = [m \in Model |-> IF m \in t.m
                             THEN [is |-> "here", provider |-> t.p, on |-> TRUE,
                                   default |-> m = first /\ FirstIsDefault(t.dflt)]
                             ELSE model[m]]
            /\ Ends(r) /\ UNCHANGED <<offers, stuck>>

\* An UPDATE of a row that is gone fails.
SaveUpdate(r) ==
    LET t == request[r] IN
    /\ t.pc = "looked" /\ t.op \in {"enable", "disable", "move"}
    /\ IF t.m \subseteq Kept
       THEN /\ model' = [m \in Model |->
                           IF m \notin t.m THEN model[m]
                           ELSE IF t.op = "move" THEN [model[m] EXCEPT !.provider = t.p]
                           ELSE [model[m] EXCEPT !.on = (t.op = "enable")]]
            /\ Ends(r) /\ UNCHANGED <<offers, stuck>>
       ELSE Fails(r) /\ UNCHANGED stuck

\* A deleted default hands over to some active model, if there is one.
Heirs(t) == IF t.dflt = {} THEN {{}} ELSE {{m} : m \in t.dflt}
SaveDeletion(r) ==
    LET t == request[r] IN
    /\ t.pc = "looked" /\ t.op = "delete"
    /\ \E heir \in Heirs(t) :
         IF heir \subseteq Kept
         THEN /\ model' = [m \in Model |-> IF m \in t.m THEN [NoModel EXCEPT !.is = "deleted"]
                                           ELSE IF m \in heir THEN [model[m] EXCEPT !.default = TRUE]
                                           ELSE model[m]]
              /\ Ends(r) /\ UNCHANGED <<offers, stuck>>
         ELSE Fails(r) /\ UNCHANGED stuck

\* The statement clears every default that it has seen.
Cleared(t, m) == m \in t.dflt
SaveDefault(r) ==
    LET t == request[r] IN
    /\ t.pc = "looked" /\ t.op = "default"
    /\ IF t.m \subseteq Kept
       THEN /\ model' = [m \in Model |-> IF m \in t.m THEN [model[m] EXCEPT !.default = TRUE]
                                         ELSE IF m \in Kept /\ Cleared(t, m) THEN [model[m] EXCEPT !.default = FALSE]
                                         ELSE model[m]]
            /\ Ends(r) /\ UNCHANGED <<offers, stuck>>
       ELSE Fails(r) /\ UNCHANGED stuck

\* The models that were loaded with the provider are deleted with it; nothing inherits.
SaveDrop(r) ==
    LET t == request[r] IN
    /\ t.pc = "looked" /\ t.op = "drop"
    /\ offers' = offers \ {t.p}
    /\ model' = [m \in Model |-> IF m \in t.dflt THEN [NoModel EXCEPT !.is = "deleted"] ELSE model[m]]
    /\ Ends(r) /\ UNCHANGED stuck

LNext == \E r \in Admin :
    \/ CreateProvider(r) \/ CreateModels(r) \/ UpdateModel(r) \/ DeleteModel(r) \/ SetDefault(r)
    \/ DeleteProvider(r) \/ Inspect(r)
    \/ SaveModels(r) \/ SaveUpdate(r) \/ SaveDeletion(r) \/ SaveDefault(r) \/ SaveDrop(r)
LSpec == LInit /\ [][LNext]_lvars

----------------------------------------------------------------------------
(* The model of a run: its own if that can be used, else an active default.  *)

WithProvider(ms) == {m \in ms : model[m].provider \in offers}
Resolve(m) ==
    IF m \in Usable THEN WithProvider({m}) ELSE WithProvider(Usable \cap Defaults)

----------------------------------------------------------------------------
LTypeOK ==
    /\ model \in [Model -> ModelRows] /\ offers \subseteq Provider /\ requests \in 0 .. MaxRequests
    /\ \A r \in Admin : request[r].m \subseteq Model /\ request[r].dflt \subseteq Model

(* Without overlapping requests there is at most one default, every model has  *)
(* its provider, and what is resolved for a run does not depend on the order   *)
(* of the rows: a run either gets its own model or the one default.            *)
OneDefault ==
    overlap \/ /\ Cardinality(Defaults) <= 1 /\ ~stuck
               /\ \A m \in Kept : model[m].provider \in offers
               /\ \A m \in Model \cup {Absent} : Cardinality(Resolve(m)) <= 1

ModelsHold == LTypeOK /\ OneDefault
=============================================================================
