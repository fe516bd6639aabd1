---------------------------- MODULE GraphKnowledge ----------------------------
(* A graph knowledge base (graph_knowledge/): documents cut into chunks, some  *)
(* after a remote OCR, extraction jobs that read entities and relationships    *)
(* out of the chunks in the background of an API process, and the review of    *)
(* what they found.  No foreign key joins the tables; entity names are unique. *)
(* One base: bases do not touch one another.  A job is a task of the process   *)
(* that took the request; a process that dies takes its tasks with it.         *)
(* Transactions are read committed: a deletion takes the rows that its         *)
(* statements find, locks them, and shows at its commit; what is committed     *)
(* after a statement outlives it.                                              *)
EXTENDS Integers, FiniteSets, Functions

CONSTANTS
    Proc,         \* API processes
    Doc, Job, EntityName,
    MaxChunks,    \* bound: chunks of a document
    MaxEntities,  \* bound: entities ever created
    MaxReviews    \* bound: changes made by hand to the graph, and deaths of processes

ASSUME GraphAssumption ==
    /\ MaxChunks \in Nat /\ MaxEntities \in Nat /\ MaxReviews \in Nat
    /\ "nobody" \notin Proc /\ IsFiniteSet(EntityName)

VARIABLES
    base,         \* the knowledge base exists
    doc,          \* [status, chunk_count]; an id that was deleted is not used again
    drop,         \* deletions of documents before their commit: [open, chunks]
    wipe,         \* the deletion of the base before its commit: the rows it has locked
    chunk,        \* <<document, seq>>
    entity,       \* [id, name_norm, status, source]
    rel,          \* [s, t, status, source, job]
    job,          \* rows: [status, total, processed, entities_found]
    task,         \* job tasks: [pc, proc, todo, names (name_norm -> id), keys, failed]
    ocr,          \* the process that parses a document, or NoProc
    ids,          \* entities ever created
    reviews,
    late          \* history: what was committed after the statement that deletes its like
gvars == <<base, doc, drop, wipe, chunk, entity, rel, job, task, ocr, ids, reviews, late>>

NoProc == "nobody"
NoDoc == [status |-> "none", chunk_count |-> 0]
DocDeleted == [status |-> "deleted", chunk_count |-> 0]
NoDrop == [open |-> FALSE, chunks |-> {}]
NoWipe == [at |-> "no", jobs |-> {}, entities |-> {}, rels |-> {}, chunks |-> {}]
NoJob == [status |-> "none", total |-> 0, processed |-> 0, entities_found |-> 0]
NoTask == [pc |-> "none", proc |-> NoProc, todo |-> {}, names |-> [n \in EntityName |-> 0], keys |-> {},
           failed |-> 0]
GTypeOK ==
    /\ base \in BOOLEAN /\ chunk \subseteq Doc \X (1 .. MaxChunks) /\ ids \in 0 .. MaxEntities
    /\ \A d \in Doc : doc[d].status \in {"none", "parsing", "chunked", "failed", "deleted"}
                      /\ ocr[d] \in Proc \cup {NoProc}
    /\ wipe.at \in {"no", "jobs", "graph", "chunks"} /\ late.docs \subseteq Doc /\ late.jobs \subseteq Job
    /\ \A j \in Job : job[j].status \in {"none", "pending", "running", "done", "failed"}
                      /\ task[j].pc \in {"none", "asked", "begin", "load", "read", "extract", "over", "lost"}
    /\ reviews \in 0 .. MaxReviews

(* A base with one document and the two entities found in it.                  *)
GInit ==
    /\ base = TRUE
    /\ \E d \in Doc :
         /\ doc = [o \in Doc |-> IF o = d THEN [status |-> "chunked", chunk_count |-> 1] ELSE NoDoc]
         /\ chunk = {<<d, 1>>}
         /\ \E a, b \in EntityName : a # b /\ entity =
              {[id |-> 1, name_norm |-> a, status |-> "pending", source |-> {<<d, 1>>}],
               [id |-> 2, name_norm |-> b, status |-> "pending", source |-> {<<d, 1>>}]}
    /\ ids = 2 /\ rel = {} /\ job = [j \in Job |-> NoJob] /\ task = [j \in Job |-> NoTask]
    /\ ocr = [d \in Doc |-> NoProc] /\ reviews = 0
    /\ drop = [d \in Doc |-> NoDrop] /\ wipe = NoWipe /\ late = [docs |-> {}, jobs |-> {}]

docs == <<doc, chunk, ocr>>
graph == <<entity, rel, ids>>
jobs == <<job, task>>
deletions == <<drop, wipe>>
ByHand == reviews < MaxReviews /\ reviews' = reviews + 1

-----------------------------------------------------------------------------
(* Documents.                                                                  *)

ChunksOf(d) == {c \in chunk : c[1] = d}
Cut(d, n) == {<<d, i>> : i \in 1 .. n}
Present(d) == doc[d].status \notin {"none", "deleted"}
(* What n chunks make of a document.                                           *)
Filled(n) == [status |-> IF n > 0 THEN "chunked" ELSE "failed", chunk_count |-> n]
(* Text that is committed now is out of reach of the statements that deleted   *)
(* the chunks.                                                                 *)
OutOfReach(d) == drop[d].open \/ wipe.at = "chunks" \/ ~base
Committed(d) == late' = IF OutOfReach(d) THEN [late EXCEPT !.docs = @ \cup {d}] ELSE late

(* An upload has found the base before it read and parsed the text: the base   *)
(* may be gone when it commits.                                                *)
AddDocument(d, n) ==
    /\ doc[d] = NoDoc
    /\ doc' = [doc EXCEPT ![d] = Filled(n)] /\ chunk' = chunk \cup Cut(d, n) /\ Committed(d)
    /\ UNCHANGED <<base, graph, jobs, ocr, deletions, reviews>>
CreatePendingDocument(d, p) ==
    /\ doc[d] = NoDoc
    /\ doc' = [doc EXCEPT ![d].status = "parsing"] /\ ocr' = [ocr EXCEPT ![d] = p] /\ Committed(d)
    /\ UNCHANGED <<base, chunk, graph, jobs, deletions, reviews>>
(* The parser's answer finds the document, or that it was deleted meanwhile.   *)
(* The commit updates the row and fails if it is gone since that look.         *)
RunOcrJob(d, n) ==
    /\ ocr[d] # NoProc /\ ocr' = [ocr EXCEPT ![d] = NoProc]
    /\ IF Present(d) THEN doc' = [doc EXCEPT ![d] = Filled(n)] /\ chunk' = chunk \cup Cut(d, n) /\ Committed(d)
       ELSE UNCHANGED <<doc, chunk, late>>
    /\ UNCHANGED <<base, graph, jobs, deletions, reviews>>
OcrFails(d) ==
    /\ ocr[d] # NoProc /\ ocr' = [ocr EXCEPT ![d] = NoProc]
    /\ doc' = IF Present(d) THEN [doc EXCEPT ![d].status = "failed"] ELSE doc
    /\ UNCHANGED <<base, chunk, graph, jobs, deletions, reviews, late>>

(* delete_document deletes the chunks it finds ...                             *)
DeleteDocument(d) ==
    /\ base /\ Present(d) /\ ~drop[d].open /\ ChunksOf(d) \cap wipe.chunks = {} /\ ByHand
    /\ drop' = [drop EXCEPT ![d] = [open |-> TRUE, chunks |-> ChunksOf(d)]]
    /\ UNCHANGED <<base, docs, graph, jobs, wipe, late>>
(* ... takes them from what was found in them, deletes the document, commits.  *)
CommitDrop(d) ==
    LET From(x) == x.source \cap drop[d].chunks # {}
        Unsourced(x) == [x EXCEPT !.source = @ \ drop[d].chunks] IN
    /\ drop[d].open /\ drop' = [drop EXCEPT ![d] = NoDrop]
    /\ \A e \in entity : From(e) => e.id \notin wipe.entities
    /\ \A r \in rel : From(r) => r \notin wipe.rels
    /\ doc' = [doc EXCEPT ![d] = DocDeleted] /\ chunk' = chunk \ drop[d].chunks
    /\ entity' = {Unsourced(e) : e \in entity} /\ rel' = {Unsourced(r) : r \in rel}
    /\ UNCHANGED <<base, ocr, jobs, ids, wipe, reviews, late>>
(* A transaction fails, or the database breaks a deadlock.                     *)
DropFails(d) == /\ drop[d].open /\ drop' = [drop EXCEPT ![d] = NoDrop]
                /\ UNCHANGED <<base, docs, graph, jobs, wipe, reviews, late>>

(* delete_kb deletes the jobs, what they found, the chunks, the documents, the *)
(* base; its tasks find out at their next write.                               *)
DeleteKb == /\ base /\ wipe = NoWipe /\ ByHand
            /\ wipe' = [wipe EXCEPT !.at = "jobs", !.jobs = {j \in Job : job[j] # NoJob}]
            /\ UNCHANGED <<base, docs, graph, jobs, drop, late>>
WipeGraph == /\ wipe.at = "jobs"
             /\ wipe' = [wipe EXCEPT !.at = "graph", !.entities = {e.id : e \in entity}, !.rels = rel]
             /\ UNCHANGED <<base, docs, graph, jobs, drop, reviews, late>>
WipeChunks == /\ wipe.at = "graph" /\ \A d \in Doc : drop[d].chunks = {}
              /\ wipe' = [wipe EXCEPT !.at = "chunks", !.chunks = chunk]
              /\ UNCHANGED <<base, docs, graph, jobs, drop, reviews, late>>
CommitWipe ==
    /\ wipe.at = "chunks" /\ base' = FALSE /\ wipe' = NoWipe
    /\ doc' = [d \in Doc |-> IF Present(d) THEN DocDeleted ELSE doc[d]] /\ chunk' = chunk \ wipe.chunks
    /\ entity' = {e \in entity : e.id \notin wipe.entities} /\ rel' = rel \ wipe.rels
    /\ job' = [j \in Job |-> IF j \in wipe.jobs THEN NoJob ELSE job[j]]
    /\ UNCHANGED <<ocr, ids, task, drop, reviews, late>>
WipeFails == /\ wipe.at # "no" /\ wipe' = NoWipe
             /\ UNCHANGED <<base, docs, graph, jobs, drop, reviews, late>>

-----------------------------------------------------------------------------
(* Extraction jobs.                                                            *)

Active(j) == job[j].status \in {"pending", "running"}
TaskAt(j, pc) == task[j].pc = pc
RowGone(j) == job[j] = NoJob
(* create_extraction_job looks for an unfinished job, then inserts its own.    *)
AskForJob(j, p) ==
    /\ base /\ TaskAt(j, "none") /\ \A k \in Job : ~Active(k)
    /\ task' = [task EXCEPT ![j].pc = "asked", ![j].proc = p]
    /\ UNCHANGED <<base, docs, graph, job, deletions, reviews, late>>
CreateJob(j) ==
    /\ TaskAt(j, "asked")
    /\ job' = [job EXCEPT ![j].status = "pending"] /\ task' = [task EXCEPT ![j].pc = "begin"]
    /\ late' = IF wipe.at # "no" \/ ~base THEN [late EXCEPT !.jobs = @ \cup {j}] ELSE late
    /\ UNCHANGED <<base, docs, graph, deletions, reviews>>
(* The rest of a job waits for the row that a deletion has locked.             *)
Going(j, pc) == TaskAt(j, pc) /\ j \notin wipe.jobs
(* What a task had read goes with it.                                          *)
Left(j, pc) == [NoTask EXCEPT !.pc = pc, !.proc = task[j].proc, !.failed = task[j].failed]
Ended(j, status) == /\ job' = [job EXCEPT ![j].status = IF RowGone(j) THEN @ ELSE status]
                    /\ task' = [task EXCEPT ![j] = Left(j, "over")]
(* _running_kbs: the bases with a job in this process.                         *)
InRunningKbsBug(j) == FALSE
InRunningKbs(j) == \E k \in Job \ {j} : task[k].pc \in {"load", "read", "extract"} /\ task[k].proc = task[j].proc
RunExtractionJob(j) ==
    /\ Going(j, "begin")
    /\ IF RowGone(j) \/ InRunningKbs(j) THEN Ended(j, "failed")
       ELSE job' = [job EXCEPT ![j].status = "running"] /\ task' = [task EXCEPT ![j].pc = "load"]
    /\ UNCHANGED <<base, docs, graph, deletions, reviews, late>>
FindBase(j) == /\ Going(j, "load") /\ base /\ task' = [task EXCEPT ![j].pc = "read"]
               /\ UNCHANGED <<base, docs, graph, job, deletions, reviews, late>>
(* No base, no model to ask, or no row.                                        *)
CannotRun(j) == /\ Going(j, "load") \/ (Going(j, "read") /\ RowGone(j))
                /\ Ended(j, "failed") /\ UNCHANGED <<base, docs, graph, deletions, reviews, late>>
(* The chunks, the names and the edges are read once, before the first answer. *)
LoadJob(j) ==
    /\ Going(j, "read") /\ ~RowGone(j)
    /\ job' = [job EXCEPT ![j].total = Cardinality(chunk)]
    /\ task' = [task EXCEPT ![j].pc = "extract", ![j].todo = chunk,
          ![j].names = [n \in EntityName |->
                IF \E e \in entity : e.name_norm = n
                THEN (CHOOSE e \in entity : e.name_norm = n).id ELSE 0],
          ![j].keys = {<<r.s, r.t>> : r \in rel}]
    /\ UNCHANGED <<base, docs, graph, deletions, reviews, late>>

(* What a model may say of a chunk: names the job does not know - the others   *)
(* change nothing - and a pair of any two.  An answer that                     *)
(* is malformed later on fails the chunk: what it gave before stays.           *)
Pair == {p \in EntityName \X EntityName : p[1] # p[2]}
Answers == [names : SUBSET EntityName, pairs : {{}} \cup {{p} : p \in Pair}, ok : BOOLEAN]
Taken(n) == \E e \in entity : e.name_norm = n
New(j, a) == {n \in a.names : task[j].names[n] = 0}
(* The new names get the next ids, in the order of the answer.                 *)
Numberings(j, a) == Bijection(New(j, a), ids + 1 .. ids + Cardinality(New(j, a)))
Named(j, f) == [n \in EntityName |-> IF n \in DOMAIN f THEN f[n] ELSE task[j].names[n]]
Edges(names, a) == {<<names[p[1]], names[p[2]]>> : p \in a.pairs}
Upsert(j, c, a, f) ==
    LET names == Named(j, f)
        edges == {k \in Edges(names, a) \ task[j].keys : 0 \notin {k[1], k[2]} /\ k[1] # k[2]} IN
    /\ entity' = entity \cup {[id |-> f[n], name_norm |-> n, status |-> "pending", source |-> {c}] :
                              n \in DOMAIN f}
    /\ rel' = rel \cup {[s |-> k[1], t |-> k[2], status |-> "pending", source |-> {c}, job |-> j] : k \in edges}
    /\ ids' = ids + Cardinality(DOMAIN f)
    /\ task' = [task EXCEPT ![j].todo = @ \ {c}, ![j].names = names, ![j].keys = @ \cup edges,
                            ![j].failed = IF a.ok THEN @ ELSE @ + 1]
    /\ job' = [job EXCEPT ![j].processed = @ + 1,
                          ![j].entities_found = IF a.ok THEN @ + Cardinality(DOMAIN f) ELSE @]
ExtractChunk(j) ==
    /\ Going(j, "extract") /\ ~RowGone(j)
    /\ \E c \in task[j].todo : \E a \in Answers :
         /\ a.names = New(j, a) /\ ids + Cardinality(a.names) <= MaxEntities /\ ~(\E n \in a.names : Taken(n))
         /\ \E f \in Numberings(j, a) : Upsert(j, c, a, f)
    /\ UNCHANGED <<base, docs, deletions, reviews, late>>
(* A new name that another writer has taken since, or a row that is gone: the  *)
(* failed flush leaves a session that cannot commit, and the whole job fails.  *)
FlushFails(j) ==
    /\ Going(j, "extract") /\ task[j].todo # {}
    /\ RowGone(j) \/ \E n \in EntityName : task[j].names[n] = 0 /\ Taken(n)
    /\ Ended(j, "failed")
    /\ UNCHANGED <<base, docs, graph, deletions, reviews, late>>
JobEnds(j) ==
    /\ Going(j, "extract") /\ task[j].todo = {}
    /\ Ended(j, IF job[j].total > 0 /\ task[j].failed = job[j].total THEN "failed" ELSE "done")
    /\ UNCHANGED <<base, docs, graph, deletions, reviews, late>>
ProcessDies(p) ==
    /\ ByHand
    /\ task' = [j \in Job |-> IF task[j].proc = p /\ ~TaskAt(j, "over") THEN Left(j, "lost")
                              ELSE task[j]]
    /\ ocr' = [d \in Doc |-> IF ocr[d] = p THEN NoProc ELSE ocr[d]]
    /\ UNCHANGED <<base, doc, chunk, graph, job, deletions, late>>

-----------------------------------------------------------------------------
(* The review.                                                                 *)

Unlocked(e) == e.id \notin wipe.entities
RenameEntity(e, n) == /\ ByHand /\ ~Taken(n) /\ Unlocked(e)
                      /\ entity' = (entity \ {e}) \cup {[e EXCEPT !.name_norm = n]}
                      /\ UNCHANGED <<base, docs, rel, ids, jobs, deletions, late>>
EdgesOf(e) == {r \in rel : e.id \in {r.s, r.t}}
DeleteEntity(e) == /\ ByHand /\ Unlocked(e) /\ EdgesOf(e) \cap wipe.rels = {}
                   /\ entity' = entity \ {e} /\ rel' = rel \ EdgesOf(e)
                   /\ UNCHANGED <<base, docs, ids, jobs, deletions, late>>
ApproveEntity(e) == /\ ByHand /\ Unlocked(e)
                    /\ entity' = (entity \ {e}) \cup {[e EXCEPT !.status = "approved"]}
                    /\ UNCHANGED <<base, docs, rel, ids, jobs, deletions, late>>
DeleteRelationship(r) == /\ ByHand /\ r \notin wipe.rels /\ rel' = rel \ {r}
                         /\ UNCHANGED <<base, docs, entity, ids, jobs, deletions, late>>
(* The graph shows approved entities only: an edge takes its ends with it.     *)
WithEnds(r) == {[e EXCEPT !.status = IF e.id \in {r.s, r.t} THEN "approved" ELSE @] : e \in entity}
ApproveRelationship(r) == /\ ByHand /\ r \notin wipe.rels
                          /\ \A e \in entity : r \in EdgesOf(e) /\ e.status = "pending" => Unlocked(e)
                          /\ rel' = (rel \ {r}) \cup {[r EXCEPT !.status = "approved"]}
                          /\ entity' = WithEnds(r)
                          /\ UNCHANGED <<base, docs, ids, jobs, deletions, late>>

GNext ==
    \/ \E d \in Doc : \/ \E n \in 0 .. MaxChunks : AddDocument(d, n) \/ RunOcrJob(d, n)
                      \/ \E p \in Proc : CreatePendingDocument(d, p)
                      \/ OcrFails(d) \/ DeleteDocument(d) \/ CommitDrop(d) \/ DropFails(d)
    \/ \E j \in Job : \/ \E p \in Proc : AskForJob(j, p)
                      \/ CreateJob(j) \/ RunExtractionJob(j) \/ FindBase(j) \/ CannotRun(j) \/ LoadJob(j)
                      \/ ExtractChunk(j) \/ FlushFails(j) \/ JobEnds(j)
    \/ \E e \in entity : (\E n \in EntityName : RenameEntity(e, n)) \/ DeleteEntity(e) \/ ApproveEntity(e)
    \/ \E r \in rel : DeleteRelationship(r) \/ ApproveRelationship(r)
    \/ DeleteKb \/ WipeGraph \/ WipeChunks \/ CommitWipe \/ WipeFails
    \/ \E p \in Proc : ProcessDies(p)
GSpec == GInit /\ [][GNext]_gvars

-----------------------------------------------------------------------------
(* A document that is there counts just the chunks it has, also while it is    *)
(* parsed or deleted.  A deletion leaves nothing behind - no chunk without a   *)
(* document, no document or finding of a base that is gone - but what          *)
(* overlapped it: text committed after its chunks were deleted, jobs created   *)
(* after the base's were.                                                      *)
DocumentsWhole ==
    /\ \A d \in Doc : Present(d) =>
         Cardinality(ChunksOf(d)) = doc[d].chunk_count /\ (doc[d].status = "chunked" <=> ChunksOf(d) # {})
    /\ \A c \in chunk : (base /\ Present(c[1])) \/ c[1] \in late.docs
    /\ ~base => /\ \A d \in Doc : Present(d) => d \in late.docs
                /\ \A j \in Job : job[j] # NoJob => j \in late.jobs
                /\ entity # {} => late.jobs # {}
                /\ \A r \in rel : r.job \in late.jobs

(* The jobs of one process find a relationship once.                           *)
FoundOnce == \A r, q \in rel :
    r.s = q.s /\ r.t = q.t /\ task[r.job].proc = task[q.job].proc => r = q

(* An approved relationship shows: its ends, if they are there, are approved.  *)
ShownWhole == \A r \in rel : \A e \in entity :
    r.status = "approved" /\ e.id \in {r.s, r.t} => e.status = "approved"

(* A job that says it is done has been through all its chunks, one at least    *)
(* with success; a row is only "running" by a task or by a dead process.       *)
JobTells == \A j \in Job :
    /\ job[j].status = "done" => job[j].processed = job[j].total
                                 /\ (job[j].total > 0 => task[j].failed < job[j].total)
    /\ job[j].status = "running" => task[j].pc \in {"load", "read", "extract", "lost"}

GraphWhole == DocumentsWhole /\ FoundOnce /\ ShownWhole /\ JobTells

-----------------------------------------------------------------------------
(* What the code does not keep.                                                *)

(* A document that is deleted takes its chunks out of extraction: a text that  *)
(* is committed between the two statements of the deletion stays.              *)
ChunksFollow == \A c \in chunk : Present(c[1])
(* A base that is deleted takes its documents, entities and edges with it.     *)
GoneWithBase == ~base => chunk = {} /\ entity = {} /\ rel = {} /\ \A d \in Doc : ~Present(d)
(* The ends of a relationship exist: a job goes on with the names it read      *)
(* before one was deleted.                                                     *)
EndsExist == \A r \in rel : \A i \in {r.s, r.t} : \E e \in entity : e.id = i
(* The source of an entity exists: a job goes on with a deleted document.      *)
SourceExists == \A e \in entity : e.source \subseteq chunk
(* A base can be extracted again: the row of a job that died stays "running".  *)
NeverStuck == \A j \in Job : Active(j) => ~TaskAt(j, "lost")
(* A job counts what it created: a malformed answer's names are not.           *)
CountsAll == \A j \in Job : job[j].status = "done" /\ Cardinality(Job) = 1 =>
    ids - 2 = job[j].entities_found
(* No relationship is found twice, by jobs of two processes neither.           *)
FoundOnceAnywhere == \A r, q \in rel : r.s = q.s /\ r.t = q.t => r = q
=============================================================================
